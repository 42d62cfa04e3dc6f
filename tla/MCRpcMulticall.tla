--------------------------- MODULE MCRpcMulticall ---------------------------
(***************************************************************************)
(* RpcMulticall on small instances.                                        *)
(***************************************************************************)
EXTENDS RpcMulticall
=============================================================================
