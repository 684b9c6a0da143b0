----------------------------- MODULE MCOssSound -----------------------------
(* An instance of OssSound for TLC. *)
EXTENDS OssSound
=============================================================================
