---------------------------- MODULE MCRpcChannel ----------------------------
(***************************************************************************)
(* RpcChannel for TLC: two calls.                                          *)
(***************************************************************************)
EXTENDS RpcChannel
=============================================================================
