---------------------------- MODULE PagedListing ----------------------------
(***************************************************************************)
(* What a caller of gcli_fetch_list is promised: the matching items of the *)
(* forge's pages are collected page after page, in the forge's order, until*)
(* there are no more pages or at least `max' of them are there; a failure  *)
(* is reported, never hidden.  Addresses, buffers and requests do not      *)
(* appear here: FetchList.tla shows how curl.c keeps this promise.         *)
(***************************************************************************)
EXTENDS Integers, Sequences

CONSTANTS
  MaxPages,   \* bound on the number of pages the forge has for one listing
  PerPage,    \* bound on the items of a page that pass the caller's filter
  Maxes       \* the values a caller passes as max; -1 asks for everything

VARIABLES
  pages,      \* pages[i]: how many items of page i pass the filter
  max,        \* the caller's fl->max
  taken,      \* pages parsed so far
  size,       \* *fl->sizep
  status      \* "running", "broken" (a failure was seen), "ok" or "failed"

vars == <<pages, max, taken, size, status>>

\* A listing has at least one page, possibly an empty one.
Listings == UNION {[1..n -> 0..PerPage] : n \in 1..MaxPages}

NumPages == Len(pages)

Init ==
  /\ pages \in Listings
  /\ max \in Maxes
  /\ taken = 0
  /\ size = 0
  /\ status = "running"

\* The loop goes round again only while items are missing; the first page is
\* always requested.
Wanted == taken = 0 \/ max = -1 \/ size < max

TakePage ==
  /\ status = "running" /\ taken < NumPages /\ Wanted
  /\ taken' = taken + 1
  /\ size' = size + pages[taken + 1]
  /\ UNCHANGED <<pages, max, status>>

\* A page whose body is the JSON value null empties the listing.
NullPage ==
  /\ status = "running" /\ taken < NumPages /\ Wanted
  /\ taken' = taken + 1
  /\ size' = 0
  /\ UNCHANGED <<pages, max, status>>

\* A request fails, or a page breaks off: the list keeps some of its items and,
\* beyond the last of them, one that was never filled in.
Break ==
  /\ status = "running" /\ taken < NumPages /\ Wanted
  /\ \E j \in 0..pages[taken + 1] + 1 : size' = size + j
  /\ status' = "broken"
  /\ UNCHANGED <<pages, max, taken>>

Fail ==
  /\ status = "broken"
  /\ status' = "failed"
  /\ UNCHANGED <<pages, max, taken, size>>

Succeed ==
  /\ status = "running" /\ taken > 0
  /\ taken = NumPages \/ ~Wanted
  /\ status' = "ok"
  /\ UNCHANGED <<pages, max, taken, size>>

Next == TakePage \/ NullPage \/ Break \/ Fail \/ Succeed

Spec == Init /\ [][Next]_vars

=============================================================================
