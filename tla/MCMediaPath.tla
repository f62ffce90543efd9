----------------------------- MODULE MCMediaPath -----------------------------
(* Two clients of the sub and the AI stream and a capture thread that      *)
(* publishes both.                                                         *)
EXTENDS MediaPath
=============================================================================
