----------------------------- MODULE MCFetchList -----------------------------
(* FetchList on listings of up to 4 pages with at most 2 matching items each;
   max below, at and above a page boundary, and -1 for everything. *)
EXTENDS FetchList

MCMaxes == {-1, 1, 2, 3, 5}

=============================================================================
