---------------------------- MODULE MCRpcClient ----------------------------
(***************************************************************************)
(* RpcClient on small instances.  Threads and pending-call objects are     *)
(* interchangeable, so the safety runs use symmetry; the liveness run must *)
(* not.                                                                    *)
(***************************************************************************)
EXTENDS RpcClient, TLC

ClientSymmetry == Permutations(Thread) \cup Permutations(Call)
=============================================================================
