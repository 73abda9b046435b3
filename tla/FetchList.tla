------------------------------ MODULE FetchList ------------------------------
(***************************************************************************)
(* gcli_fetch_list and the request it repeats, gcli_fetch_with_method      *)
(* (src/src/curl.c), with the heap cells of the URLs they hand to each     *)
(* other.  gcli_fetch_list owns the URL it is given and every next URL the *)
(* Link header yields; page i of the listing has its URL in cell i.        *)
(*                                                                         *)
(* The forge may answer any request with an error (connection, curl, or a  *)
(* status >= 300), may leave the Link header out on the last page, and may *)
(* send a body that is an array, null, or broken.                          *)
(***************************************************************************)
EXTENDS Integers, Sequences

CONSTANTS MaxPages, PerPage, Maxes

ASSUME FetchAssumption ==
  /\ MaxPages \in Nat \ {0}
  /\ PerPage \in Nat
  /\ Maxes \subseteq {-1} \cup (Nat \ {0})

VARIABLES
  pages,      \* the forge's listing: items per page that pass the filter
  max,        \* fl->max
  pc,         \* where gcli_fetch_list is
  url,        \* the cell url points to
  next_url,   \* the cell next_url points to, or NULL
  heap,       \* state of each URL cell
  buffer,     \* the response buffer holds memory
  rc,         \* return code of the last call
  size,       \* *fl->sizep
  taken,      \* history: pages parsed completely
  stale,      \* history: a request for a later page left next_url as it was
  dropped     \* history: a null body emptied the listing

vars == <<pages, max, pc, url, next_url, heap, buffer, rc, size, taken,
          stale, dropped>>

input == <<pages, max>>

NULL == 0

Listings == UNION {[1..n -> 0..PerPage] : n \in 1..MaxPages}

NumPages == Len(pages)

Init ==
  /\ pages \in Listings
  /\ max \in Maxes
  /\ pc = "fetch"
  /\ url = 1
  /\ next_url = NULL
  /\ heap = [c \in 1..NumPages |-> IF c = 1 THEN "live" ELSE "unused"]
  /\ buffer = FALSE
  /\ rc = 0
  /\ size = 0
  /\ taken = 0
  /\ stale = FALSE
  /\ dropped = FALSE

-----------------------------------------------------------------------------
(* The request: gcli_fetch, gcli_fetch_with_method. *)

\* Reading, or freeing, a cell that was freed before: anything may follow, so
\* the model stops.
UseFreed(cell) ==
  /\ cell # NULL /\ heap[cell] = "freed"
  /\ pc' = "crashed"
  /\ UNCHANGED <<input, url, next_url, heap, buffer, rc, size, taken, stale,
                 dropped>>

\* *pagination_next is written only if a Link header came with a successful
\* answer.
KeepNext ==
  /\ IF next_url # NULL THEN stale' = TRUE ELSE UNCHANGED stale
  /\ UNCHANGED <<next_url, heap>>

\* curl fails, or the status is an error: the buffer is released.
FetchError ==
  /\ pc = "fetch" /\ heap[url] = "live"
  /\ rc' = -1
  /\ buffer' = FALSE
  /\ KeepNext
  /\ pc' = "release"
  /\ UNCHANGED <<input, url, size, taken, dropped>>

\* The last page, sent without a Link header.
FetchUnlinked ==
  /\ pc = "fetch" /\ heap[url] = "live" /\ url = NumPages
  /\ rc' = 0
  /\ buffer' = TRUE
  /\ KeepNext
  /\ pc' = "parse"
  /\ UNCHANGED <<input, url, size, taken, dropped>>

\* Mutant: parse_link_header finds a next page behind the last one.
MutFetchLinked ==
  /\ pc = "fetch" /\ heap[url] = "live"
  /\ rc' = 0
  /\ buffer' = TRUE
  /\ next_url' = url + 1
  /\ heap' = [heap EXCEPT ![url + 1] = "live"]
  /\ pc' = "parse"
  /\ UNCHANGED <<input, url, size, taken, stale, dropped>>

\* parse_link_header: a copy of the URL of the rel="next" entry, else NULL.
FetchLinked ==
  /\ pc = "fetch" /\ heap[url] = "live"
  /\ rc' = 0
  /\ buffer' = TRUE
  /\ IF url < NumPages
       THEN /\ next_url' = url + 1
            /\ heap' = [heap EXCEPT ![url + 1] = "live"]
       ELSE next_url' = NULL /\ UNCHANGED heap
  /\ pc' = "parse"
  /\ UNCHANGED <<input, url, size, taken, stale, dropped>>

FetchFreed == pc = "fetch" /\ UseFreed(url)

-----------------------------------------------------------------------------
(* The rest of gcli_fetch_list's loop body. *)

\* fl->parse appends the page's items, fl->filter drops those that do not
\* match.
ParseArray ==
  /\ pc = "parse"
  /\ size' = size + pages[url]
  /\ taken' = taken + 1
  /\ pc' = "release"
  /\ UNCHANGED <<input, url, next_url, heap, buffer, rc, stale, dropped>>

\* The generated array parsers reset the list on a null body.
ParseNull ==
  /\ pc = "parse"
  /\ size' = 0
  /\ taken' = taken + 1
  /\ dropped' = TRUE
  /\ pc' = "release"
  /\ UNCHANGED <<input, url, next_url, heap, buffer, rc, stale>>

\* Mutant: the parser's return code is not looked at.
MutParseBroken ==
  /\ pc = "parse"
  /\ \E j \in 0..pages[url] + 1 : size' = size + j
  /\ pc' = "release"
  /\ UNCHANGED <<input, url, next_url, heap, buffer, rc, taken, stale, dropped>>

\* The parser gives up inside the page; what it appended stays in the list
\* and is filtered all the same.  An item is appended, zeroed, before it is
\* parsed: a page that breaks off behind its last item leaves one more.
ParseBroken ==
  /\ pc = "parse"
  /\ \E j \in 0..pages[url] + 1 : size' = size + j
  /\ rc' = -1
  /\ pc' = "release"
  /\ UNCHANGED <<input, url, next_url, heap, buffer, taken, stale, dropped>>

\* The filter meets an item that was not filled in and reads a text it does
\* not have (the author of a pull, the long_sha of a commit).
FilterBroken ==
  /\ pc = "parse"
  /\ rc' = -1
  /\ pc' = "segfault"
  /\ UNCHANGED <<input, url, next_url, heap, buffer, size, taken, stale, dropped>>

\* Mutant: free(url) is left out when the loop breaks.
MutReleaseLeaks ==
  /\ pc = "release" /\ heap[url] = "live"
  /\ buffer' = FALSE
  /\ heap' = [heap EXCEPT ![url] = IF rc < 0 THEN @ ELSE "freed"]
  /\ pc' = IF rc < 0 THEN "exit" ELSE "loop"
  /\ UNCHANGED <<input, url, next_url, rc, size, taken, stale, dropped>>

\* Mutant: the break is left out.
MutReleaseGoesOn ==
  /\ pc = "release" /\ heap[url] = "live"
  /\ buffer' = FALSE
  /\ heap' = [heap EXCEPT ![url] = "freed"]
  /\ pc' = "loop"
  /\ UNCHANGED <<input, url, next_url, rc, size, taken, stale, dropped>>

\* gcli_fetch_buffer_free(&buffer); free(url); if (rc < 0) break;
Release ==
  /\ pc = "release" /\ heap[url] = "live"
  /\ buffer' = FALSE
  /\ heap' = [heap EXCEPT ![url] = "freed"]
  /\ pc' = IF rc < 0 THEN "exit" ELSE "loop"
  /\ UNCHANGED <<input, url, next_url, rc, size, taken, stale, dropped>>

\* Mutant: off by one.
MutEnoughItems == max # -1 /\ size > max

EnoughItems == max # -1 /\ size >= max

\* Mutant: a listing with enough items never leaves the loop.
MutLoopTest ==
  /\ pc = "loop"
  /\ url' = next_url
  /\ pc' = CASE next_url = NULL -> "exit"
             [] next_url # NULL /\ EnoughItems -> "loop"
             [] OTHER -> "fetch"
  /\ UNCHANGED <<input, next_url, heap, buffer, rc, size, taken, stale,
                 dropped>>

\* while ((url = next_url) && ...)
LoopTest ==
  /\ pc = "loop"
  /\ url' = next_url
  /\ pc' = IF next_url # NULL /\ ~EnoughItems THEN "fetch" ELSE "exit"
  /\ UNCHANGED <<input, next_url, heap, buffer, rc, size, taken, stale,
                 dropped>>

\* free(next_url); return rc;
Exit ==
  /\ pc = "exit" /\ (next_url # NULL => heap[next_url] = "live")
  /\ heap' = [c \in DOMAIN heap |->
                IF c = next_url THEN "freed" ELSE heap[c]]
  /\ pc' = "done"
  /\ UNCHANGED <<input, url, next_url, buffer, rc, size, taken, stale,
                 dropped>>

ExitFreed == pc = "exit" /\ UseFreed(next_url)

Next ==
  \/ FetchError \/ FetchUnlinked \/ FetchLinked \/ FetchFreed
  \/ ParseArray \/ ParseNull \/ ParseBroken \/ FilterBroken
  \/ Release \/ LoopTest \/ Exit \/ ExitFreed

Spec == Init /\ [][Next]_vars

\* The program runs until it returns.  gcli sets no timeout for a transfer: that
\* every request gets an answer or an error is the network's and the forge's
\* fairness.
FairSpec == Spec /\ WF_vars(Next)

-----------------------------------------------------------------------------
TypeOK ==
  /\ pages \in Listings
  /\ max \in Maxes
  /\ pc \in {"fetch", "parse", "release", "loop", "exit", "done", "crashed",
             "segfault"}
  /\ url \in 0..NumPages
  /\ next_url \in 0..NumPages
  /\ heap \in [1..NumPages -> {"unused", "live", "freed"}]
  /\ buffer \in BOOLEAN
  /\ rc \in {-1, 0}
  /\ size \in Nat
  /\ taken \in 0..NumPages
  /\ stale \in BOOLEAN
  /\ dropped \in BOOLEAN

\* Every address and the response buffer are released exactly once on every
\* way out of gcli_fetch_list, unless a request for a later page left
\* next_url pointing at the page's own address: only then is a cell read or
\* freed after it was freed.
MemorySafe ==
  ~stale => /\ pc # "crashed"
            /\ pc = "done" => /\ \A c \in 1..NumPages : heap[c] # "live"
                              /\ ~buffer

\* The items on the first n pages.
ItemsUpTo ==
  LET items[n \in 0..NumPages] ==
        IF n = 0 THEN 0 ELSE items[n - 1] + pages[n]
  IN  items

\* A listing that returns successfully holds every matching item of the pages
\* it took, none twice, and it stopped for a reason: no page was left, or the
\* caller's max is reached.  A null body voids it.
CompleteOrEnough ==
  pc = "done" /\ rc = 0 /\ ~dropped =>
    /\ size = ItemsUpTo[taken]
    /\ taken = NumPages \/ EnoughItems

\* gcli_fetch_list overshoots the caller's max by less than a page, and by the
\* item that was not filled in once a page broke off.
OvershootsByLessThanAPage ==
  max # -1 => size < max + PerPage + IF rc < 0 THEN 1 ELSE 0

\* gcli_fetch_list comes to an end, also when pages fail, break or empty the
\* listing.
Terminates == <>(pc \in {"done", "crashed", "segfault"})

\* "If there is no more data, it will be set to NULL" (curl.c:362).
NoMoreDataGivesNull == pc = "parse" /\ url = NumPages => next_url = NULL

-----------------------------------------------------------------------------
Status ==
  IF pc = "done"
    THEN IF rc < 0 THEN "failed" ELSE "ok"
    ELSE IF rc < 0 THEN "broken" ELSE "running"

Abstract == INSTANCE PagedListing WITH status <- Status

\* gcli_fetch_list implements the listing its callers rely on.
ImplementsListing == Abstract!Spec

=============================================================================
