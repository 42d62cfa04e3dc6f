---------------------------- MODULE MCRpcRequest ----------------------------
(***************************************************************************)
(* RpcRequest on small instances.  Workers are interchangeable, but there  *)
(* are few states, so no symmetry is used.                                 *)
(***************************************************************************)
EXTENDS RpcRequest
=============================================================================
