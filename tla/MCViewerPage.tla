---------------------------- MODULE MCViewerPage ----------------------------
(* ViewerPage for TLC: a page that reconnects and two other clients,       *)
(* so that a master is replaced while the page watches.                    *)
EXTENDS ViewerPage, TLC
Symmetry == Permutations(Sockets \ Readers) \cup Permutations(Ids \ FreshIds)
=============================================================================
