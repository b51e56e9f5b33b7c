------------------------------- MODULE Serial -------------------------------
(***************************************************************************)
(* Serial number arithmetic (src/aiortc/utils.py): numbers that wrap at    *)
(* Modulo, 2^16 or 2^32 in the code, and are compared within half of it.   *)
(***************************************************************************)
EXTENDS Integers

CONSTANT Modulo   \* even

Number == 0 .. Modulo - 1
Half == Modulo \div 2

Plus(a, n) == (a + n) % Modulo

Gt(a, b) == \/ a < b /\ b - a > Half
            \/ a > b /\ a - b < Half

Gte(a, b) == a = b \/ Gt(a, b)
=============================================================================
