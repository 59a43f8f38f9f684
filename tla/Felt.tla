------------------------------- MODULE Felt -------------------------------
(***************************************************************************)
(* Arithmetic of the Miden VM's field elements, as far as the note scripts *)
(* use it: products wrap modulo the prime (2^64 - 2^32 + 1 on the VM), and *)
(* asm/lib/math.masm's felt_div divides the canonical representatives as   *)
(* unsigned integers.                                                      *)
(***************************************************************************)
EXTENDS Integers

CONSTANT Prime      \* the field's modulus

ASSUME PrimeAssumption == Prime \in Nat /\ Prime > 1

FeltSet == 0..(Prime - 1)

FeltMul(a, b) == (a * b) % Prime

\* Both operands are split into 32-bit limbs and handed to the library's u64
\* division, which traps on a zero divisor: callers guard on div # 0.
felt_div(num, div) == num \div div
===========================================================================
