---------------------------- MODULE MCSparseSet -----------------------------
(* Pages of two, ids over three pages, so that pages are skipped when they   *)
(* grow and ids of different pages are swapped.                              *)
EXTENDS SparseSet

MaxId == 4
MCIds == 0..MaxId
MCValues == {"a", "b"}
=============================================================================
