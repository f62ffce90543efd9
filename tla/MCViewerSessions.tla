-------------------------- MODULE MCViewerSessions --------------------------
(* Two viewers that share the subscriptions, and a third peer so that one  *)
(* of them can come back.                                                  *)
EXTENDS ViewerSessions
=============================================================================
