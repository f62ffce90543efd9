--------------------------- MODULE MCViewerQueues ---------------------------
(* Two viewers that share the drain and the key frame request, or one that *)
(* leaves and comes back with a new peer.                                  *)
EXTENDS ViewerQueues, TLC
Symmetry == Permutations(Viewers)
=============================================================================
