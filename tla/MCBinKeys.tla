------------------------------ MODULE MCBinKeys ------------------------------
(***************************************************************************)
(* BinKeys on small instances.  A window of two keys and three or more     *)
(* keys make a key leave the window, come back in full and be referred to  *)
(* in the other slot of the ring; keys are interchangeable.                *)
(***************************************************************************)
EXTENDS BinKeys, TLC

KeySymmetry == Permutations(Key)
=============================================================================
