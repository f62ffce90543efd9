--------------------------- MODULE MCSegmentStore ---------------------------
(* SegmentStore for TLC: two days, so that a day is dropped while the next *)
(* is recorded, and a queue shorter than the longest operation.            *)
EXTENDS SegmentStore
=============================================================================
