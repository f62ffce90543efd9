----------------------------- MODULE MCGopCache -----------------------------
(* GopCache with two groups, a budget of five bytes and of three ticks:    *)
(* each of the three limits can be the one that evicts.                    *)
EXTENDS GopCache
=============================================================================
