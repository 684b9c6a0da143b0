------------------------------ MODULE MCRpcVm ------------------------------
(* Small instances of RpcVm for TLC: a length word of two bytes. *)
EXTENDS RpcVm
=============================================================================
