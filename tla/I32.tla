-------------------------------- MODULE I32 --------------------------------
(***************************************************************************)
(* Two's complement machine integers.  The compiler computes constants in  *)
(* Rust's i32 and the generated program computes in 32-bit registers; the  *)
(* width is a parameter here, so that a 3- or 4-bit instance reaches every *)
(* boundary the 32-bit one has.                                            *)
(***************************************************************************)
EXTENDS Integers

CONSTANTS
  MaxInt,          \* i32::MAX of the instance: 2^(w-1) - 1 for a width w
  OverflowChecks   \* TRUE for a debug build (debug.sh runs target/debug):
                   \* i32 overflow panics; FALSE for --release: it wraps

ASSUME I32Assumption ==
  /\ MaxInt \in Nat \ {0}
  /\ OverflowChecks \in BOOLEAN

MinInt  == -MaxInt - 1
Int32   == MinInt .. MaxInt
Modulus == 2 * (MaxInt + 1)

\* The member of Int32 congruent to n.
Wrap(n) == ((n - MinInt) % Modulus) + MinInt

Abs(n) == IF n < 0 THEN -n ELSE n

\* Rust's and RISC-V's division truncate toward zero (\div rounds down).
\* Callers exclude r = 0 or say what happens then.
TruncDiv(l, r) ==
  IF (l < 0) = (r < 0) THEN Abs(l) \div Abs(r) ELSE -(Abs(l) \div Abs(r))

TruncRem(l, r) == l - r * TruncDiv(l, r)

\* The C-like truth values every comparison and logical operator produces.
Truth(b) == IF b THEN 1 ELSE 0
=============================================================================
