--------------------------- MODULE WrappingIntegers ---------------------------
(***************************************************************************)
(* libsponge/wrapping_integers.cc: the conversion between absolute (64     *)
(* bit, zero-based) sequence numbers and the 32-bit sequence numbers that  *)
(* travel in TCP headers.  MOD is 2^32 in the code; the arithmetic only    *)
(* uses that it is even.                                                   *)
(***************************************************************************)
EXTENDS Integers

CONSTANT MOD

ASSUME MODAssumption == /\ MOD \in Nat
                        /\ MOD > 1
                        /\ MOD % 2 = 0

HalfMOD == MOD \div 2

WrappingInt32 == 0 .. MOD - 1

\* Mutation: the sum is not reduced.
wrap_wide(n, isn) == isn + n

wrap(n, isn) == (isn + n) % MOD

\* The absolute number that has n's offset from isn, in the checkpoint's era.
same_era(n, isn, checkpoint) ==
  ((n - isn + MOD) % MOD) + (checkpoint \div MOD) * MOD

unwrap(n, isn, checkpoint) ==
  LET abs_seq == same_era(n, isn, checkpoint)
  IN  IF abs_seq - checkpoint > HalfMOD /\ abs_seq >= MOD THEN abs_seq - MOD
      ELSE IF checkpoint - abs_seq > HalfMOD              THEN abs_seq + MOD
      ELSE abs_seq
=============================================================================
