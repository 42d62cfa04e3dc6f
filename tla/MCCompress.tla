------------------------------ MODULE MCCompress ------------------------------
(***************************************************************************)
(* Compress on small instances.                                            *)
(***************************************************************************)
EXTENDS Compress
===============================================================================
