------------------------------ MODULE MCBucket ------------------------------
(* Bucket instantiated for TLC: three keys, so that a seek can land before, *)
(* on and past a key; two plain values, so that an overwrite is visible;   *)
(* one child header of each kind.                                           *)
EXTENDS Bucket

MCKeys == {1, 2, 3}
=============================================================================
