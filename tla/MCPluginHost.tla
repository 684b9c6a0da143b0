---------------------------- MODULE MCPluginHost ----------------------------
(* Small instances of PluginHost for TLC. *)
EXTENDS PluginHost

CONSTANTS arch, generic, other  \* the two candidates under $HOME and a path named by LD_FLASHPLAYER_PATH

MCCandidates == <<arch, generic>>
=============================================================================
