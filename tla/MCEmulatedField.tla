--------------------------- MODULE MCEmulatedField --------------------------
(***************************************************************************)
(* A prime of 5 bits, 29 = 2^5 - 3, in three limbs of 2 bits over a native *)
(* field of 14 bits.  Inputs are the largest number of the field, its      *)
(* modulus, and the largest number that the limbs hold.                    *)
(***************************************************************************)
EXTENDS EmulatedField
CONSTANTS x, y

MCInputs == {28, 29, 63}
=============================================================================
