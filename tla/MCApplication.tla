--------------------------- MODULE MCApplication ---------------------------
(* Two frames for a frame queue of one, three requests for an upload queue *)
(* of two, and a signal at any time.                                       *)
EXTENDS Application
=============================================================================
