---------------------------- MODULE WrappingProofs ----------------------------
(***************************************************************************)
(* wrap() and unwrap() are inverse to each other wherever the code relies  *)
(* on it: for every even modulus, 2^32 in particular.                      *)
(***************************************************************************)
EXTENDS WrappingIntegers, TLAPS

\* Division with remainder, by a positive number.
LEMMA DivMod ==
  ASSUME NEW x \in Int, NEW m \in Nat, m > 0
  PROVE  /\ x \div m \in Int
         /\ x % m \in 0 .. m - 1
         /\ x = m * (x \div m) + (x % m)
<1>1. x \div m \in Int /\ x % m \in 0 .. m - 1
  OBVIOUS
<1>2. x % m = x - m * (x \div m)
  BY Z3T(60)
<1>3. m * (x \div m) \in Int
  BY <1>1
<1> QED
  BY <1>1, <1>2, <1>3

\* Quotient and remainder are the only ones of their kind.
LEMMA DivModUnique ==
  ASSUME NEW m \in Nat, m > 0, NEW q \in Int, NEW r \in 0 .. m - 1
  PROVE  (m * q + r) % m = r /\ (m * q + r) \div m = q
OBVIOUS

\* Multiples of the modulus do not change a remainder.
LEMMA ModShift ==
  ASSUME NEW x \in Int, NEW k \in Int, NEW m \in Nat, m > 0
  PROVE  (x + m * k) % m = x % m
<1> DEFINE q == x \div m
           r == x % m
<1>1. q \in Int /\ r \in 0 .. m - 1 /\ x = m * q + r
  BY DivMod
<1> HIDE DEF q, r
<1>2. x + m * k = m * (q + k) + r
  BY <1>1
<1>3. (m * (q + k) + r) % m = r
  BY <1>1, DivModUnique
<1> QED
  BY <1>1, <1>2, <1>3 DEF r

\* Half of the even modulus.
LEMMA HalfIsHalf == HalfMOD \in Nat /\ HalfMOD > 0 /\ MOD = 2 * HalfMOD
<1>1. MOD = 2 * (MOD \div 2) + (MOD % 2) /\ MOD \div 2 \in Int
  BY MODAssumption, DivMod
<1> QED
  BY <1>1, MODAssumption DEF HalfMOD

\* wrap() yields a 32-bit number.
LEMMA WrapType ==
  ASSUME NEW x \in Nat, NEW isn \in WrappingInt32
  PROVE  wrap(x, isn) \in WrappingInt32
<1>1. isn + x \in Int
  BY MODAssumption DEF WrappingInt32
<1> QED
  BY <1>1, DivMod, MODAssumption DEF wrap, WrappingInt32

\* same_era() keeps the offset from the isn, modulo MOD.
LEMMA EraOffset ==
  ASSUME NEW n \in WrappingInt32, NEW isn \in WrappingInt32, NEW cp \in Nat
  PROVE  /\ same_era(n, isn, cp) \in Nat
         /\ \E k \in Int : isn + same_era(n, isn, cp) = n + MOD * k
<1> DEFINE d == n - isn + MOD
           j == d \div MOD
           e == d % MOD
           c == cp \div MOD
<1>1. d \in Int /\ n \in Int /\ isn \in Int /\ MOD \in Int
  BY MODAssumption DEF WrappingInt32
<1>2. j \in Int /\ e \in 0 .. MOD - 1 /\ d = MOD * j + e
  BY <1>1, DivMod, MODAssumption
<1>3. c \in Int /\ cp = MOD * c + (cp % MOD) /\ cp % MOD \in 0 .. MOD - 1
  BY DivMod, MODAssumption
<1>4. c >= 0
  BY <1>3, MODAssumption
<1>5. same_era(n, isn, cp) = e + c * MOD
  BY DEF same_era
<1> HIDE DEF j, e, c
<1>6. e + c * MOD \in Nat
  BY <1>1, <1>2, <1>3, <1>4
<1>7. isn + (e + c * MOD) = n + MOD * (1 - j + c)
  BY <1>1, <1>2, <1>3
<1>8. 1 - j + c \in Int
  BY <1>2, <1>3
<1> QED
  BY <1>5, <1>6, <1>7, <1>8

\* unwrap() yields the era's number, or the one an era earlier or later.
LEMMA UnwrapCases ==
  ASSUME NEW n, NEW isn, NEW cp
  PROVE  LET a == same_era(n, isn, cp)
         IN  \/ unwrap(n, isn, cp) = a
             \/ unwrap(n, isn, cp) = a - MOD /\ a >= MOD
             \/ unwrap(n, isn, cp) = a + MOD
BY DEF unwrap

\* What unwrap() yields wraps to the number it was given: the receiver's and the
\* sender's absolute numbers always stand for the number in the header.
THEOREM WrapOfUnwrap ==
  ASSUME NEW n \in WrappingInt32, NEW isn \in WrappingInt32, NEW cp \in Nat
  PROVE  unwrap(n, isn, cp) \in Nat /\ wrap(unwrap(n, isn, cp), isn) = n
<1> DEFINE a == same_era(n, isn, cp)
           u == unwrap(n, isn, cp)
<1>1. PICK k \in Int : isn + a = n + MOD * k
  BY EraOffset
<1>2. a \in Nat /\ n \in Int /\ isn \in Int /\ MOD \in Nat /\ MOD > 0
  BY EraOffset, MODAssumption DEF WrappingInt32
<1>3. u = a \/ (u = a - MOD /\ a >= MOD) \/ u = a + MOD
  BY UnwrapCases
<1> HIDE DEF a, u
<1>4. u \in Nat
  BY <1>2, <1>3
<1>5. \E i \in Int : isn + u = n + MOD * i
  <2>1. CASE u = a
    BY <1>1, <2>1
  <2>2. CASE u = a - MOD
    <3>1. isn + u = n + MOD * (k - 1)
      BY <1>1, <1>2, <2>2
    <3> QED
      BY <3>1
  <2>3. CASE u = a + MOD
    <3>1. isn + u = n + MOD * (k + 1)
      BY <1>1, <1>2, <2>3
    <3> QED
      BY <3>1
  <2> QED
    BY <1>3, <2>1, <2>2, <2>3
<1>6. PICK i \in Int : isn + u = n + MOD * i
  BY <1>5
<1>7. (n + MOD * i) % MOD = n % MOD
  BY <1>2, ModShift
<1>8. n % MOD = n
  <2>1. n \in 0 .. MOD - 1 /\ n = MOD * 0 + n
    BY <1>2 DEF WrappingInt32
  <2> QED
    BY <1>2, <2>1, DivModUnique
<1> QED
  BY <1>4, <1>6, <1>7, <1>8 DEF wrap, u

\* An absolute number less than half the sequence space away from the checkpoint
\* is recovered from its 32-bit form, across era boundaries.
THEOREM UnwrapOfWrap ==
  ASSUME NEW x \in Nat, NEW isn \in WrappingInt32, NEW cp \in Nat,
         x - cp < HalfMOD, cp - x < HalfMOD
  PROVE  unwrap(wrap(x, isn), isn, cp) = x
<1> DEFINE n == wrap(x, isn)
           a == same_era(n, isn, cp)
           j == (isn + x) \div MOD
           q == x \div MOD
           c == cp \div MOD
           r == x % MOD
           s == cp % MOD
<1>1. isn \in Int /\ MOD \in Nat /\ MOD > 0 /\ isn + x \in Int
  BY MODAssumption DEF WrappingInt32
<1>2. j \in Int /\ n \in Int /\ isn + x = MOD * j + n
  BY <1>1, DivMod DEF wrap
<1>3. /\ q \in Int /\ r \in 0 .. MOD - 1 /\ x = MOD * q + r
      /\ c \in Int /\ s \in 0 .. MOD - 1 /\ cp = MOD * c + s
  BY <1>1, DivMod
<1>4. (n - isn + MOD) % MOD = r
  <2> HIDE DEF n, j
  <2>1. n - isn + MOD = x + MOD * (1 - j)
    BY <1>1, <1>2
  <2>2. 1 - j \in Int
    BY <1>2
  <2> QED
    <3>1. \A k \in Int : (x + MOD * k) % MOD = x % MOD
      <4>1. x \in Int
        OBVIOUS
      <4> QED
        BY <1>1, <4>1, ModShift, Zenon
    <3>2. (x + MOD * (1 - j)) % MOD = x % MOD
      BY <2>2, <3>1
    <3> QED
      BY <2>1, <3>2
<1>5. a = r + c * MOD
  BY <1>4 DEF same_era
<1>6. unwrap(n, isn, cp) = IF a - cp > HalfMOD /\ a >= MOD THEN a - MOD
                           ELSE IF cp - a > HalfMOD THEN a + MOD ELSE a
  BY DEF unwrap
<1> HIDE DEF n, a, j, q, c, r, s
<1>7. q - c \in Int /\ x - cp = MOD * (q - c) + (r - s)
  BY <1>1, <1>3
<1>8. q - c = 0 \/ q - c = 1 \/ q - c = -1
  <2>1. MOD * (q - c) < 2 * MOD /\ MOD * (q - c) > -(2 * MOD)
    BY <1>1, <1>3, <1>7, HalfIsHalf
  <2>2. q - c < 2 /\ q - c > -2
    BY <1>1, <1>7, <2>1
  <2> QED
    BY <1>7, <2>2
<1>9. a = x - MOD * (q - c)
  BY <1>1, <1>3, <1>5
<1>10. a = x \/ a = x - MOD \/ a = x + MOD
  BY <1>1, <1>8, <1>9
<1> QED
  BY <1>1, <1>6, <1>10, HalfIsHalf DEF n
=============================================================================
