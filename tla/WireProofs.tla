------------------------------ MODULE WireProofs ------------------------------
(***************************************************************************)
(* Proofs about what goes over the wire: JsonGen, which writes the body of *)
(* a request, and FetchList, which reads the pages of its answers.  They   *)
(* share no state; the invariants of the former are named for it.          *)
(***************************************************************************)
EXTENDS JsonGen, FetchList, Induction, SequenceTheorems, TLAPS

-----------------------------------------------------------------------------
(* FetchList, for every number of pages, page size and max.                *)

-----------------------------------------------------------------------------
(* The inductive invariant: where the URL cells are at each program point. *)

Live == {c \in 1..NumPages : heap[c] = "live"}

NextCell == {next_url} \ {NULL}

\* While a page is requested, next_url is NULL or still holds the page's own
\* address; that address is dangling only after a stale answer.
FetchInv ==
  pc = "fetch" =>
    /\ url # NULL /\ rc = 0 /\ ~buffer
    /\ next_url \in {NULL, url}
    /\ \/ heap[url] = "live" /\ taken = url - 1
       \/ heap[url] = "freed" /\ stale
    /\ ~stale => Live = {url}

\* A fetched page: its own address is held, and that of the next page if
\* there is one.
PageInv ==
  pc \in {"parse", "release"} =>
    /\ url # NULL /\ heap[url] = "live"
    /\ next_url \in {NULL, url, url + 1}
    /\ next_url = url => stale
    /\ next_url = url + 1 => heap[next_url] = "live"
    /\ taken = IF pc = "release" /\ rc = 0 THEN url ELSE url - 1
    /\ pc = "parse" => rc = 0
    /\ rc = 0 /\ next_url # url + 1 => url = NumPages
    /\ ~stale => Live = {url} \cup NextCell

\* Between two pages only next_url may be held.
LoopInv ==
  pc = "loop" =>
    /\ url # NULL /\ rc = 0 /\ ~buffer /\ heap[url] = "freed"
    /\ taken = url
    /\ next_url \in {NULL, url, url + 1}
    /\ next_url = url => stale
    /\ next_url = url + 1 => heap[next_url] = "live"
    /\ next_url # url + 1 => url = NumPages
    /\ ~stale => Live = NextCell

ExitInv ==
  pc = "exit" =>
    /\ ~buffer
    /\ next_url # NULL /\ ~stale => heap[next_url] = "live"
    /\ rc = 0 => taken > 0 /\ (taken = NumPages \/ EnoughItems)
    /\ ~stale => Live = NextCell

DoneInv ==
  /\ pc = "done" => /\ ~buffer
                    /\ ~stale => Live = {}
                    /\ rc = 0 => taken > 0 /\ (taken = NumPages \/ EnoughItems)
  /\ pc = "crashed" => stale

\* A later page is requested only while items are missing.
WantedInv == pc \in {"fetch", "parse"} => taken = 0 \/ ~EnoughItems

IInv == TypeOK /\ WantedInv /\ FetchInv /\ PageInv /\ LoopInv /\ ExitInv /\ DoneInv

-----------------------------------------------------------------------------
\* A listing is a sequence of at least one page, so the URL cells are
\* 1..NumPages with NumPages > 0.
LEMMA ListingShape ==
  ASSUME NEW p \in Listings
  PROVE  /\ Len(p) \in Nat \ {0}
         /\ p \in [1..Len(p) -> 0..PerPage]
<1>1. PICK n \in 1..MaxPages : p \in [1..n -> 0..PerPage]
  BY DEF Listings
<1>2. n \in Nat \ {0}
  BY FetchAssumption
<1>3. p \in Seq(0..PerPage)
  BY <1>1, <1>2, SeqDef
<1>4. Len(p) = n
  BY <1>1, <1>2, <1>3, LenProperties, Z3
<1>5. QED
  BY <1>1, <1>2, <1>4

\* The program starts with the caller's address as the only live cell.
LEMMA InitInv == Init => IInv
<1> SUFFICES ASSUME Init PROVE IInv
  OBVIOUS
<1>1. NumPages \in Nat \ {0}
  BY ListingShape DEF Init, NumPages
<1>2. TypeOK
  <2>1. heap \in [1..NumPages -> {"unused", "live", "freed"}]
    BY DEF Init
  <2>2. url \in 0..NumPages /\ next_url \in 0..NumPages /\ taken \in 0..NumPages
    BY <1>1 DEF Init, NULL
  <2>3. QED
    BY <2>1, <2>2 DEF Init, TypeOK
<1>3. FetchInv
  <2>1. Live = {url}
    BY <1>1 DEF Init, Live
  <2>2. heap[url] = "live" /\ taken = url - 1
    BY <1>1 DEF Init
  <2>3. QED
    BY <2>1, <2>2 DEF Init, FetchInv, NULL
<1>4. PageInv /\ LoopInv /\ ExitInv /\ DoneInv
  BY DEF Init, PageInv, LoopInv, ExitInv, DoneInv
<1>5. WantedInv
  BY DEF Init, WantedInv
<1>6. QED
  BY <1>2, <1>3, <1>4, <1>5 DEF IInv

\* Every step of gcli_fetch_list keeps the ownership of the URL cells as the
\* program point demands.
LEMMA NextInv == IInv /\ [Next]_vars => IInv'
<1> SUFFICES ASSUME IInv, [Next]_vars PROVE IInv'
  OBVIOUS
<1> USE DEF NULL
<1>0. /\ NumPages \in Nat \ {0}
      /\ pages \in [1..NumPages -> 0..PerPage]
      /\ max \in Int /\ PerPage \in Nat
  BY ListingShape, FetchAssumption DEF IInv, TypeOK, NumPages
<1>1. CASE FetchError
  <2>0. WantedInv'
    BY <1>1 DEF IInv, WantedInv, EnoughItems, FetchError, KeepNext, input
  <2>1. TypeOK' /\ NumPages' = NumPages /\ Live' = Live
    BY <1>0, <1>1 DEF IInv, TypeOK, FetchError, KeepNext, input, NumPages, Live
  <2>2. PageInv'
    <3>1. ~stale' => Live' = {url} \cup NextCell'
      BY <1>1, <2>1 DEF IInv, FetchInv, FetchError, KeepNext, NextCell
    <3>2. /\ url \in 1..NumPages /\ heap[url] = "live" /\ taken = url - 1
          /\ next_url \in {NULL, url}
      BY <1>0, <1>1 DEF IInv, TypeOK, FetchInv, FetchError
    <3>3. next_url' \in {NULL, url} /\ (next_url' = url => stale')
      BY <1>1, <3>2 DEF FetchError, KeepNext
    <3>4. url' = url /\ heap' = heap /\ taken' = taken /\ pc' = "release" /\ rc' = -1
      BY <1>1 DEF FetchError, KeepNext
    <3>5. QED
      BY <1>0, <2>1, <3>1, <3>2, <3>3, <3>4 DEF PageInv
  <2>3. QED
    BY <2>0, <1>1, <2>1, <2>2
    DEF IInv, FetchInv, LoopInv, ExitInv, DoneInv, FetchError
<1>2. CASE FetchUnlinked
  <2>0. WantedInv'
    BY <1>2 DEF IInv, WantedInv, EnoughItems, FetchUnlinked, KeepNext, input
  <2>1. TypeOK' /\ NumPages' = NumPages /\ Live' = Live
    BY <1>0, <1>2 DEF IInv, TypeOK, FetchUnlinked, KeepNext, input, NumPages, Live
  <2>2. PageInv'
    <3>1. ~stale' => Live' = {url} \cup NextCell'
      BY <1>2, <2>1 DEF IInv, FetchInv, FetchUnlinked, KeepNext, NextCell
    <3>2. /\ url \in 1..NumPages /\ heap[url] = "live" /\ taken = url - 1
          /\ next_url \in {NULL, url}
      BY <1>0, <1>2 DEF IInv, TypeOK, FetchInv, FetchUnlinked
    <3>3. next_url' \in {NULL, url} /\ (next_url' = url => stale')
      BY <1>2, <3>2 DEF FetchUnlinked, KeepNext
    <3>4. url' = url /\ heap' = heap /\ taken' = taken /\ pc' = "parse" /\ rc' = 0 /\ url = NumPages
      BY <1>2 DEF FetchUnlinked, KeepNext
    <3>5. QED
      BY <1>0, <2>1, <3>1, <3>2, <3>3, <3>4 DEF PageInv
  <2>3. QED
    BY <2>0, <1>2, <2>1, <2>2
    DEF IInv, FetchInv, LoopInv, ExitInv, DoneInv, FetchUnlinked
<1>3. CASE FetchLinked
  <2>0. WantedInv'
    BY <1>3 DEF IInv, WantedInv, EnoughItems, FetchLinked, input
  <2>1. TypeOK' /\ NumPages' = NumPages
    BY <1>0, <1>3 DEF IInv, TypeOK, FetchLinked, input, NumPages
  <2>2. url \in 1..NumPages /\ (stale' = stale) /\ (~stale => Live = {url})
    BY <1>0, <1>3 DEF IInv, TypeOK, FetchInv, FetchLinked
  <2>3. ~stale' => Live' = {url} \cup NextCell'
    <3>1. CASE url < NumPages
      BY <1>0, <1>3, <2>1, <2>2, <3>1 DEF IInv, TypeOK, FetchLinked, Live, NextCell
    <3>2. CASE ~(url < NumPages)
      BY <1>0, <1>3, <2>1, <2>2, <3>2 DEF IInv, TypeOK, FetchLinked, Live, NextCell
    <3>3. QED
      BY <3>1, <3>2
  <2>4. PageInv'
    BY <1>0, <1>3, <2>1, <2>2, <2>3
    DEF IInv, TypeOK, FetchInv, PageInv, FetchLinked, input
  <2>5. QED
    BY <2>0, <1>3, <2>1, <2>4
    DEF IInv, FetchInv, LoopInv, ExitInv, DoneInv, FetchLinked
<1>4. CASE FetchFreed
  <2>0. WantedInv'
    BY <1>4 DEF IInv, WantedInv, EnoughItems, FetchFreed, UseFreed, input
  <2>1. TypeOK' /\ NumPages' = NumPages
    BY <1>0, <1>4 DEF IInv, TypeOK, FetchFreed, UseFreed, input, NumPages
  <2>2. stale'
    BY <1>4 DEF IInv, FetchInv, FetchFreed, UseFreed
  <2>3. QED
    BY <2>0, <1>4, <2>1, <2>2 DEF IInv, FetchInv, PageInv, LoopInv, ExitInv, DoneInv,
       FetchFreed, UseFreed
<1>5. CASE ParseArray
  <2>0. WantedInv'
    BY <1>5 DEF IInv, WantedInv, EnoughItems, ParseArray, input
  <2>1. NumPages' = NumPages /\ Live' = Live
    BY <1>5 DEF ParseArray, input, NumPages, Live
  <2>2. size' \in Nat /\ taken' \in 0..NumPages
    <3>1. url \in 1..NumPages /\ taken = url - 1
      BY <1>0, <1>5 DEF IInv, TypeOK, PageInv, ParseArray
    <3>2. pages[url] \in 0..PerPage
      BY <1>0, <3>1
    <3>3. QED
      BY <1>0, <1>5, <3>1, <3>2 DEF IInv, TypeOK, ParseArray
  <2>3. TypeOK'
    BY <1>5, <2>1, <2>2 DEF IInv, TypeOK, ParseArray, input
  <2>4. PageInv'
    BY <1>0, <1>5, <2>1 DEF IInv, TypeOK, PageInv, ParseArray, input, NextCell
  <2>5. QED
    BY <2>0, <1>5, <2>3, <2>4 DEF IInv, FetchInv, LoopInv, ExitInv, DoneInv, ParseArray
<1>6. CASE ParseNull
  <2>0. WantedInv'
    BY <1>6 DEF IInv, WantedInv, EnoughItems, ParseNull, input
  <2>1. NumPages' = NumPages /\ Live' = Live
    BY <1>6 DEF ParseNull, input, NumPages, Live
  <2>2. size' \in Nat /\ taken' \in 0..NumPages
    <3>1. url \in 1..NumPages /\ taken = url - 1
      BY <1>0, <1>6 DEF IInv, TypeOK, PageInv, ParseNull
    <3>2. pages[url] \in 0..PerPage
      BY <1>0, <3>1
    <3>3. QED
      BY <1>0, <1>6, <3>1, <3>2 DEF IInv, TypeOK, ParseNull
  <2>3. TypeOK'
    BY <1>6, <2>1, <2>2 DEF IInv, TypeOK, ParseNull, input
  <2>4. PageInv'
    BY <1>0, <1>6, <2>1 DEF IInv, TypeOK, PageInv, ParseNull, input, NextCell
  <2>5. QED
    BY <2>0, <1>6, <2>3, <2>4 DEF IInv, FetchInv, LoopInv, ExitInv, DoneInv, ParseNull
<1>7. CASE ParseBroken
  <2>0. WantedInv'
    BY <1>7 DEF IInv, WantedInv, EnoughItems, ParseBroken, input
  <2>1. NumPages' = NumPages /\ Live' = Live
    BY <1>7 DEF ParseBroken, input, NumPages, Live
  <2>2. size' \in Nat /\ taken' \in 0..NumPages
    <3>1. url \in 1..NumPages /\ taken = url - 1
      BY <1>0, <1>7 DEF IInv, TypeOK, PageInv, ParseBroken
    <3>2. pages[url] \in 0..PerPage
      BY <1>0, <3>1
    <3>3. QED
      BY <1>0, <1>7, <3>1, <3>2 DEF IInv, TypeOK, ParseBroken
  <2>3. TypeOK'
    BY <1>7, <2>1, <2>2 DEF IInv, TypeOK, ParseBroken, input
  <2>4. PageInv'
    BY <1>0, <1>7, <2>1 DEF IInv, TypeOK, PageInv, ParseBroken, input, NextCell
  <2>5. QED
    BY <2>0, <1>7, <2>3, <2>4 DEF IInv, FetchInv, LoopInv, ExitInv, DoneInv, ParseBroken
<1>14. CASE FilterBroken
  <2>1. NumPages' = NumPages /\ Live' = Live
    BY <1>14 DEF FilterBroken, input, NumPages, Live
  <2>2. TypeOK'
    BY <1>14, <2>1 DEF IInv, TypeOK, FilterBroken, input
  <2>3. QED
    BY <1>14, <2>2 DEF IInv, WantedInv, FetchInv, PageInv, LoopInv, ExitInv, DoneInv,
       FilterBroken
<1>8. CASE Release
  <2>0. WantedInv'
    BY <1>8 DEF IInv, WantedInv, EnoughItems, Release, input
  <2>1. TypeOK' /\ NumPages' = NumPages
    BY <1>0, <1>8 DEF IInv, TypeOK, Release, input, NumPages
  <2>2. ~stale => Live' = NextCell'
    BY <1>0, <1>8, <2>1 DEF IInv, TypeOK, PageInv, Release, Live, NextCell
  <2>3. LoopInv'
    BY <1>0, <1>8, <2>1, <2>2 DEF IInv, TypeOK, PageInv, LoopInv, Release, input
  <2>4. ExitInv'
    BY <1>0, <1>8, <2>1, <2>2 DEF IInv, TypeOK, PageInv, ExitInv, Release, input
  <2>5. QED
    BY <2>0, <1>8, <2>1, <2>3, <2>4 DEF IInv, FetchInv, PageInv, DoneInv, Release
<1>9. CASE LoopTest
  <2>0. WantedInv'
    BY <1>9 DEF IInv, WantedInv, EnoughItems, LoopTest, input
  <2>1. TypeOK' /\ NumPages' = NumPages /\ Live' = Live /\ EnoughItems' = EnoughItems
    BY <1>0, <1>9
    DEF IInv, TypeOK, LoopInv, LoopTest, input, NumPages, Live, EnoughItems
  <2>2. FetchInv'
    BY <1>0, <1>9, <2>1 DEF IInv, TypeOK, LoopInv, FetchInv, LoopTest, NextCell
  <2>3. ExitInv'
    BY <1>0, <1>9, <2>1 DEF IInv, TypeOK, LoopInv, ExitInv, LoopTest, NextCell
  <2>4. QED
    BY <2>0, <1>9, <2>1, <2>2, <2>3 DEF IInv, PageInv, LoopInv, DoneInv, LoopTest
<1>10. CASE Exit
  <2>0. WantedInv'
    BY <1>10 DEF IInv, WantedInv, EnoughItems, Exit, input
  <2>1. TypeOK' /\ NumPages' = NumPages /\ EnoughItems' = EnoughItems
    BY <1>0, <1>10 DEF IInv, TypeOK, Exit, input, NumPages, EnoughItems
  <2>2. ~stale => Live' = {}
    BY <1>0, <1>10, <2>1 DEF IInv, TypeOK, ExitInv, Exit, Live, NextCell
  <2>3. DoneInv'
    BY <1>0, <1>10, <2>1, <2>2 DEF IInv, ExitInv, DoneInv, Exit
  <2>4. QED
    BY <2>0, <1>10, <2>1, <2>3 DEF IInv, FetchInv, PageInv, LoopInv, ExitInv, Exit
<1>11. CASE ExitFreed
  <2>0. WantedInv'
    BY <1>11 DEF IInv, WantedInv, EnoughItems, ExitFreed, UseFreed, input
  <2>1. TypeOK' /\ NumPages' = NumPages
    BY <1>0, <1>11 DEF IInv, TypeOK, ExitFreed, UseFreed, input, NumPages
  <2>2. stale'
    BY <1>11 DEF IInv, ExitInv, ExitFreed, UseFreed
  <2>3. QED
    BY <2>0, <1>11, <2>1, <2>2 DEF IInv, FetchInv, PageInv, LoopInv, ExitInv, DoneInv,
       ExitFreed, UseFreed
<1>12. CASE UNCHANGED vars
  BY <1>12 DEF IInv, TypeOK, WantedInv, FetchInv, PageInv, LoopInv, ExitInv, DoneInv, vars,
     input, Live, NextCell, EnoughItems, NumPages
<1>13. QED
  BY <1>1, <1>2, <1>3, <1>4, <1>5, <1>6, <1>7, <1>8, <1>9, <1>10, <1>11, <1>12,
     <1>14
  DEF Next

\* The inductive invariant holds in every reachable state.
LEMMA Inductive == Spec => []IInv
BY InitInv, NextInv, PTL DEF Spec

-----------------------------------------------------------------------------
\* Every variable of gcli_fetch_list stays within its type, whatever the forge
\* answers.
THEOREM TypeCorrect == Spec => []TypeOK
<1>1. IInv => TypeOK
  BY DEF IInv
<1>2. QED
  BY <1>1, Inductive, PTL

\* gcli_fetch_list frees every URL and the response buffer exactly once and
\* touches no freed cell, for every listing and every order of answers in
\* which no request for a later page left next_url as it was.
THEOREM MemorySafety == Spec => []MemorySafe
<1>1. IInv => MemorySafe
  BY DEF IInv, DoneInv, MemorySafe, Live
<1>2. QED
  BY <1>1, Inductive, PTL

\* Items are missing whenever one more page is parsed.
SizeInv ==
  /\ pc \in {"fetch", "parse"} /\ taken = 0 => size = 0
  /\ OvershootsByLessThanAPage

LEMMA SizeNext == IInv /\ SizeInv /\ [Next]_vars => SizeInv'
<1> SUFFICES ASSUME IInv, SizeInv, [Next]_vars PROVE SizeInv'
  OBVIOUS
<1> USE DEF NULL
<1>0. /\ NumPages \in Nat \ {0} /\ pages \in [1..NumPages -> 0..PerPage]
      /\ max \in Int /\ PerPage \in Nat /\ size \in Nat
      /\ max # -1 => max > 0
  BY ListingShape, FetchAssumption DEF IInv, TypeOK, NumPages
<1>1. CASE ParseArray \/ ParseBroken
  <2>1. pc = "parse" /\ pc' = "release" /\ max' = max
    BY <1>1 DEF ParseArray, ParseBroken, input
  <2>2. url \in 1..NumPages
    BY <1>0, <2>1 DEF IInv, TypeOK, PageInv
  <2>3. pages[url] \in 0..PerPage
    BY <1>0, <2>2
  <2>4. max # -1 => size < max
    BY <1>0, <2>1 DEF IInv, WantedInv, EnoughItems, SizeInv
  <2>5. CASE ParseArray
    BY <1>0, <2>1, <2>3, <2>4, <2>5
    DEF ParseArray, SizeInv, OvershootsByLessThanAPage
  <2>6. CASE ParseBroken
    <3>1. PICK j \in 0..pages[url] + 1 : size' = size + j
      BY <2>6 DEF ParseBroken
    <3>2. j \in Int /\ j <= PerPage + 1 /\ rc' = -1
      BY <1>0, <2>3, <2>6 DEF ParseBroken
    <3>3. QED
      BY <1>0, <2>1, <2>4, <3>1, <3>2 DEF SizeInv, OvershootsByLessThanAPage
  <2>7. QED
    BY <1>1, <2>5, <2>6
<1>2. CASE ParseNull
  BY <1>0, <1>2
  DEF ParseNull, input, SizeInv, OvershootsByLessThanAPage
<1>3. CASE LoopTest
  <2>1. taken > 0 /\ UNCHANGED <<max, size, taken, rc>>
    BY <1>0, <1>3 DEF LoopTest, input, IInv, TypeOK, LoopInv
  <2>2. QED
    BY <2>1 DEF SizeInv, OvershootsByLessThanAPage
<1>4. ASSUME FetchError \/ FetchUnlinked \/ FetchLinked \/ FetchFreed \/ Release
             \/ FilterBroken \/ Exit \/ ExitFreed \/ UNCHANGED vars
      PROVE  SizeInv'
  <2>1. /\ UNCHANGED <<max, size, taken>>
        /\ pc' \in {"fetch", "parse"} => pc \in {"fetch", "parse"}
    BY <1>4 DEF FetchError, FetchUnlinked, FetchLinked, FetchFreed, UseFreed,
       Release, FilterBroken, Exit, ExitFreed, input, vars
  <2>2. rc < 0 => rc' < 0
    BY <1>4 DEF FetchError, FetchUnlinked, FetchLinked, FetchFreed, UseFreed,
       Release, FilterBroken, Exit, ExitFreed, vars, IInv, FetchInv
  <2>3. rc' \in Int
    BY <1>4 DEF FetchError, FetchUnlinked, FetchLinked, FetchFreed, UseFreed,
       Release, FilterBroken, Exit, ExitFreed, vars, IInv, TypeOK
  <2>4. QED
    BY <1>0, <2>1, <2>2, <2>3 DEF SizeInv, OvershootsByLessThanAPage
<1>5. QED
  BY <1>1, <1>2, <1>3, <1>4 DEF Next

\* A caller that asks for max items gets fewer than max plus one page of them,
\* whatever the pages hold; a listing that breaks off may have one more, which
\* was never filled in.
THEOREM Overshoot == Spec => []OvershootsByLessThanAPage
<1>1. Init => SizeInv
  BY FetchAssumption DEF Init, SizeInv, OvershootsByLessThanAPage
<1>2. SizeInv => OvershootsByLessThanAPage
  BY DEF SizeInv
<1>3. QED
  BY <1>1, <1>2, SizeNext, Inductive, PTL DEF Spec

\* ItemsUpTo is the recursive function it is written as: every listing has the
\* sums of its first pages.
LEMMA ItemsUpToShape ==
  ASSUME pages \in Listings
  PROVE  /\ ItemsUpTo \in [0..NumPages -> Nat]
         /\ ItemsUpTo[0] = 0
         /\ \A n \in 1..NumPages : ItemsUpTo[n] = ItemsUpTo[n - 1] + pages[n]
<1>1. /\ NumPages \in Nat /\ PerPage \in Nat
      /\ pages \in [1..NumPages -> 0..PerPage]
  BY ListingShape, FetchAssumption DEF NumPages
<1> HIDE DEF NumPages
<1> DEFINE Sums(f) ==
             f = [n \in 0..NumPages |-> IF n = 0 THEN 0 ELSE f[n - 1] + pages[n]]
           step == [k \in 1..NumPages |-> [v \in Nat |-> v + pages[k]]]
<1>2. \A k \in 0 + 1..NumPages, v \in Nat :
        step[k][v] = v + pages[k] /\ step[k][v] \in Nat
  BY <1>1
<1>3. PICK f \in [0..NumPages -> Nat] : Recurs(f, 0, NumPages, 0, step)
  <2>1. NumPages \in Int /\ 0 \in Int /\ 0 <= NumPages /\ 0 \in Nat
    BY <1>1
  <2>2. IsStep(step, 0, NumPages, Nat)
    BY <1>2 DEF IsStep
  <2> HIDE DEF step
  <2>3. QED
    BY <2>1, <2>2, Recursion, Zenon
<1>4. f[0] = 0 /\ \A k \in 1..NumPages : f[k] = f[k - 1] + pages[k]
  <2>1. ASSUME NEW k \in 1..NumPages PROVE f[k] = f[k - 1] + pages[k]
    <3>1. k \in 0 + 1..NumPages /\ f[k - 1] \in Nat
      BY <1>1
    <3> HIDE DEF step
    <3>2. QED
      BY <3>1, <1>2, <1>3 DEF Recurs
  <2>2. QED
    BY <2>1, <1>3 DEF Recurs
<1>5. Sums(f)
  BY <1>1, <1>3, <1>4
<1>6. Sums(ItemsUpTo)
  BY <1>5 DEF ItemsUpTo
<1>7. ASSUME NEW n \in 0..NumPages PROVE ItemsUpTo[n] = f[n]
  <2> DEFINE S == {k \in 0..NumPages : ItemsUpTo[k] = f[k]}
  <2>1. 0 \in S
    BY <1>1, <1>4, <1>6
  <2>2. \A k \in 0..NumPages - 1 : k \in S => k + 1 \in S
    BY <1>1, <1>4, <1>6
  <2>3. \A k \in 0..NumPages : k \in S
    <3> HIDE DEF S
    <3>1. NumPages \in Int /\ 0 \in Int
      BY <1>1
    <3>2. QED
      BY <2>1, <2>2, <3>1, InductUpTo, Zenon
  <2>4. QED
    BY <2>3
<1>8. ItemsUpTo = f
  BY <1>6, <1>7
<1>9. QED
  BY <1>4, <1>8

\* The list holds the items of the pages taken as long as nothing went wrong.
ItemsInv == rc = 0 /\ ~dropped => size = ItemsUpTo[taken]

LEMMA ItemsNext == IInv /\ ItemsInv /\ [Next]_vars => ItemsInv'
<1> SUFFICES ASSUME IInv, ItemsInv, [Next]_vars PROVE ItemsInv'
  OBVIOUS
<1>1. pages \in Listings /\ NumPages \in Nat
  BY ListingShape DEF IInv, TypeOK, NumPages
<1>2. ItemsUpTo' = ItemsUpTo
  <2>1. pages' = pages
    BY DEF Next, FetchError, FetchUnlinked, FetchLinked, FetchFreed, UseFreed,
       ParseArray, ParseNull, ParseBroken, FilterBroken, Release, LoopTest, Exit,
       ExitFreed, input, vars
  <2>2. QED
    BY <2>1 DEF ItemsUpTo, NumPages
<1>3. CASE ParseArray
  <2>1. url \in 1..NumPages /\ taken = url - 1 /\ taken' = url /\ rc = 0
    BY <1>1, <1>3 DEF IInv, TypeOK, PageInv, ParseArray, NULL
  <2>2. ItemsUpTo[url] = ItemsUpTo[url - 1] + pages[url]
    BY <1>1, <2>1, ItemsUpToShape
  <2>3. QED
    BY <1>2, <1>3, <2>1, <2>2 DEF ItemsInv, ParseArray
<1>4. CASE ParseNull \/ ParseBroken \/ FilterBroken \/ FetchError
  BY <1>4 DEF ItemsInv, ParseNull, ParseBroken, FilterBroken, FetchError
<1>5. ASSUME FetchUnlinked \/ FetchLinked \/ FetchFreed \/ Release \/ LoopTest
             \/ Exit \/ ExitFreed \/ UNCHANGED vars
      PROVE  ItemsInv'
  <2>1. UNCHANGED <<size, taken, dropped>> /\ (rc' = 0 => rc = 0)
    BY <1>5 DEF IInv, FetchInv, FetchUnlinked, FetchLinked, FetchFreed, UseFreed,
       Release, LoopTest, Exit, ExitFreed, vars
  <2>2. QED
    BY <1>2, <2>1 DEF ItemsInv
<1>6. QED
  BY <1>3, <1>4, <1>5 DEF Next

\* A listing that succeeds holds every matching item of the pages it took, and
\* ended because no page was left or the caller has enough, for every listing,
\* every max and every order of answers.
THEOREM Completeness == Spec => []CompleteOrEnough
<1>1. Init => ItemsInv
  BY ItemsUpToShape DEF Init, ItemsInv
<1>2. IInv /\ ItemsInv => CompleteOrEnough
  BY DEF IInv, DoneInv, ItemsInv, CompleteOrEnough
<1>3. QED
  BY <1>1, <1>2, ItemsNext, Inductive, PTL DEF Spec

\* A listing is complete or large enough when gcli_fetch_list returns 0, and
\* every step of curl.c's loop is a step of the listing its callers rely on.
THEOREM Refinement == Spec => ImplementsListing
<1> USE DEF NULL
<1>1. Init => Abstract!Init
  BY DEF Init, Abstract!Init, Status, Listings, Abstract!Listings
<1>2. IInv /\ [Next]_vars => [Abstract!Next]_Abstract!vars
  <2> SUFFICES ASSUME IInv, [Next]_vars PROVE [Abstract!Next]_Abstract!vars
    OBVIOUS
  <2> USE DEF Abstract!Next, Abstract!vars
  <2>0. /\ NumPages \in Nat \ {0} /\ Abstract!NumPages = NumPages
        /\ pages \in [1..NumPages -> 0..PerPage]
        /\ max \in Int /\ PerPage \in Nat /\ size \in Nat
    BY ListingShape, FetchAssumption
    DEF IInv, TypeOK, NumPages, Abstract!NumPages
  <2>1. ASSUME pc \in {"fetch", "parse"}, heap[url] = "live"
        PROVE  /\ url \in 1..NumPages /\ taken = url - 1
               /\ rc = 0 /\ Status = "running"
    BY <2>0, <2>1 DEF IInv, TypeOK, FetchInv, PageInv, Status
  <2>2. CASE FetchError
    <3>1. Abstract!Break
      <4>1. size' = size + 0 /\ 0 \in 0..pages[taken + 1] + 1
        BY <2>0, <2>1, <2>2 DEF FetchError
      <4>2. Status' = "broken"
        BY <2>2 DEF FetchError, Status
      <4>3. QED
        BY <2>0, <2>1, <2>2, <4>1, <4>2
        DEF FetchError, Abstract!Break, Abstract!Wanted, input, IInv, WantedInv,
            EnoughItems
    <3>2. QED
      BY <3>1
  <2>3. CASE ParseArray
    <3>1. Abstract!TakePage
      BY <2>0, <2>1, <2>3
      DEF ParseArray, Abstract!TakePage, Abstract!Wanted, input, IInv, WantedInv,
          EnoughItems, Status, PageInv
    <3>2. QED
      BY <3>1
  <2>4. CASE ParseNull
    <3>1. Abstract!NullPage
      BY <2>0, <2>1, <2>4
      DEF ParseNull, Abstract!NullPage, Abstract!Wanted, input, IInv, WantedInv,
          EnoughItems, Status, PageInv
    <3>2. QED
      BY <3>1
  <2>5. CASE ParseBroken
    <3>1. Abstract!Break
      BY <2>0, <2>1, <2>5
      DEF ParseBroken, Abstract!Break, Abstract!Wanted, input, IInv, WantedInv,
          EnoughItems, Status, PageInv
    <3>2. QED
      BY <3>1
  <2>10. CASE FilterBroken
    <3>1. Abstract!Break
      <4>1. size' = size + 0 /\ 0 \in 0..pages[taken + 1] + 1
        BY <2>0, <2>1, <2>10 DEF FilterBroken, IInv, PageInv
      <4>2. Status' = "broken"
        BY <2>10 DEF FilterBroken, Status
      <4>3. QED
        BY <2>0, <2>1, <2>10, <4>1, <4>2
        DEF FilterBroken, Abstract!Break, Abstract!Wanted, input, IInv, WantedInv,
            EnoughItems, PageInv
    <3>2. QED
      BY <3>1
  <2>6. CASE Exit
    <3>1. UNCHANGED <<pages, max, taken, size>>
      BY <2>6 DEF Exit, input
    <3>2. CASE rc < 0
      <4>1. Abstract!Fail
        BY <2>6, <3>1, <3>2 DEF Exit, Abstract!Fail, Status
      <4>2. QED
        BY <4>1
    <3>3. CASE ~(rc < 0)
      <4>1. rc = 0
        BY <3>3 DEF IInv, TypeOK
      <4>2. taken > 0 /\ (taken = NumPages \/ EnoughItems)
        BY <2>6, <4>1 DEF Exit, IInv, ExitInv
      <4>3. taken > 0 /\ (taken = Abstract!NumPages \/ ~Abstract!Wanted)
        BY <2>0, <4>2 DEF EnoughItems, Abstract!Wanted, IInv, TypeOK
      <4>4. Abstract!Succeed
        BY <2>6, <3>1, <4>1, <4>3 DEF Exit, Abstract!Succeed, Status
      <4>5. QED
        BY <4>4
    <3>4. QED
      BY <3>2, <3>3
  <2>7. ASSUME FetchUnlinked \/ FetchLinked \/ FetchFreed \/ Release \/ LoopTest
               \/ ExitFreed
        PROVE  UNCHANGED Abstract!vars
    <3>1. UNCHANGED <<pages, max, taken, size>>
      BY <2>7 DEF FetchUnlinked, FetchLinked, FetchFreed, UseFreed, Release,
         LoopTest, ExitFreed, input
    <3>2. UNCHANGED Status
      BY <2>1, <2>7 DEF FetchUnlinked, FetchLinked, FetchFreed, UseFreed, Release,
         LoopTest, ExitFreed, Status
    <3>3. QED
      BY <3>1, <3>2
  <2>8. CASE UNCHANGED vars
    BY <2>8 DEF vars, Status
  <2>9. QED
    BY <2>2, <2>3, <2>4, <2>5, <2>6, <2>7, <2>8, <2>10 DEF Next
<1>3. QED
  BY <1>1, <1>2, Inductive, PTL DEF Spec, ImplementsListing, Abstract!Spec

-----------------------------------------------------------------------------
(* JsonGen, for every size of the scope stack and of the buffer, every      *)
(* length of the texts and any number of calls.                            *)

-----------------------------------------------------------------------------
(* The buffer. *)

Doubling(cap, top) ==
  CHOOSE double : double = [k \in 0..top |->
                              IF k = 0 THEN cap ELSE 2 * double[k - 1]]

\* Doubling is the recursive function it is written as.
LEMMA DoublingShape ==
  ASSUME NEW cap \in Nat \ {0}, NEW top \in Nat
  PROVE  /\ Doubling(cap, top) \in [0..top -> Nat]
         /\ Doubling(cap, top)[0] = cap
         /\ \A k \in 1..top :
              Doubling(cap, top)[k] = 2 * Doubling(cap, top)[k - 1]
<1> DEFINE Is(f) == f = [k \in 0..top |-> IF k = 0 THEN cap ELSE 2 * f[k - 1]]
           step == [k \in 1..top |-> [v \in Nat |-> 2 * v]]
<1>1. \A k \in 0 + 1..top, v \in Nat : step[k][v] = 2 * v /\ step[k][v] \in Nat
  OBVIOUS
<1>2. PICK f \in [0..top -> Nat] : Recurs(f, 0, top, cap, step)
  <2>1. 0 \in Int /\ top \in Int /\ 0 <= top /\ cap \in Nat
    OBVIOUS
  <2>2. IsStep(step, 0, top, Nat)
    BY <1>1 DEF IsStep
  <2> HIDE DEF step
  <2>3. QED
    BY <2>1, <2>2, Recursion, Zenon
<1>3. f[0] = cap /\ \A k \in 1..top : f[k] = 2 * f[k - 1]
  <2>1. ASSUME NEW k \in 1..top PROVE f[k] = 2 * f[k - 1]
    <3>1. k \in 0 + 1..top /\ f[k - 1] \in Nat
      OBVIOUS
    <3> HIDE DEF step
    <3>2. QED
      BY <3>1, <1>1, <1>2 DEF Recurs
  <2>2. QED
    BY <2>1, <1>2 DEF Recurs
<1>4. Is(f)
  BY <1>3
<1>5. Is(Doubling(cap, top))
  BY <1>4 DEF Doubling
<1>6. \A k \in 0..top : Doubling(cap, top)[k] = f[k]
  <2> DEFINE S == {k \in 0..top : Doubling(cap, top)[k] = f[k]}
  <2>1. 0 \in Int /\ top \in Int /\ (0 <= top => 0 \in S)
    BY <1>3, <1>5
  <2>2. \A k \in 0..top - 1 : k \in S => k + 1 \in S
    BY <1>3, <1>5
  <2>3. \A k \in 0..top : k \in S
    <3> HIDE DEF S
    <3>1. QED
      BY <2>1, <2>2, InductUpTo, Zenon
  <2>4. QED
    BY <2>3
<1>7. Doubling(cap, top) = f
  BY <1>5, <1>6
<1>8. QED
  BY <1>3, <1>7

\* Doubling outgrows its index.
LEMMA DoublingGrows ==
  ASSUME NEW cap \in Nat \ {0}, NEW top \in Nat
  PROVE  \A k \in 0..top : Doubling(cap, top)[k] > k
<1> DEFINE S == {k \in 0..top : Doubling(cap, top)[k] > k}
<1>1. 0 \in Int /\ top \in Int /\ (0 <= top => 0 \in S)
  <2>1. Doubling(cap, top)[0] = cap
    BY DoublingShape
  <2>2. QED
    BY <2>1
<1>2. ASSUME NEW k \in 0..top - 1, k \in S PROVE k + 1 \in S
  <2>1. Doubling(cap, top)[k + 1] = 2 * Doubling(cap, top)[(k + 1) - 1]
    BY DoublingShape
  <2>2. Doubling(cap, top)[k] \in Nat /\ (k + 1) - 1 = k
    BY DoublingShape
  <2>3. QED
    BY <1>2, <2>1, <2>2
<1>3. \A k \in 0..top - 1 : k \in S => k + 1 \in S
  BY <1>2
<1>4. \A k \in 0..top : k \in S
  <2> HIDE DEF S
  <2>1. QED
    BY <1>1, <1>3, InductUpTo, Zenon
<1>5. QED
  BY <1>4

\* fit makes room for n characters behind the first s.
LEMMA FitFits ==
  ASSUME NEW cap \in Nat \ {0}, NEW s \in Nat, NEW n \in Nat
  PROVE  Fit(cap, s, n) \in Nat \ {0} /\ Fit(cap, s, n) - s >= n
<1> DEFINE double == Doubling(cap, s + n)
           Enough(k) == /\ double[k] - s >= n
                        /\ \A j \in 0..k - 1 : double[j] - s < n
<1>1. s + n \in Nat /\ double \in [0..s + n -> Nat]
  BY DoublingShape
<1>2. \A k \in 0..s + n : double[k] > k
  BY <1>1, DoublingGrows
<1>3. \E k \in 0..s + n : Enough(k)
  <2> DEFINE S == {k \in 0..s + n : double[k] - s >= n}
  <2>1. s + n \in S
    BY <1>1, <1>2
  <2>2. PICK k \in S : \A j \in S : k <= j
    <3>1. S \in SUBSET Nat /\ S # {}
      BY <2>1
    <3> HIDE DEF S
    <3>2. QED
      BY <3>1, LeastElement
  <2>3. \A j \in 0..k - 1 : double[j] - s < n
    BY <1>1, <2>2
  <2>4. QED
    BY <2>2, <2>3
<1>4. /\ (CHOOSE k \in 0..s + n : Enough(k)) \in 0..s + n
      /\ Enough(CHOOSE k \in 0..s + n : Enough(k))
  BY <1>3
<1>5. Fit(cap, s, n) = double[CHOOSE k \in 0..s + n : Enough(k)]
  BY DEF Fit, Doubling
<1> HIDE DEF double
<1>6. QED
  BY <1>1, <1>2, <1>4, <1>5

Tokens == {"comma", "lbrace", "rbrace", "lbracket", "rbracket", "key",
           "value"}

Texts == [kind : Tokens, length : Nat, nul : {0, 1}]

\* What the buffer holds fits into it, and everything ever written did.
Fits(buf) ==
  /\ buf.size \in Nat /\ buf.capacity \in Nat \ {0}
  /\ buf.size <= buf.capacity
  /\ buf.out \in Seq(Tokens)
  /\ buf.overrun = FALSE

\* append_str and append_strf keep the buffer large enough.
LEMMA WriteFits ==
  ASSUME NEW buf, Fits(buf), NEW token \in Texts
  PROVE  /\ Fits(Write(buf, token))
         /\ Write(buf, token).out = Append(buf.out, token.kind)
<1> DEFINE cap == Fit(buf.capacity, buf.size, Room(token))
<1>1. /\ token.length \in Nat /\ token.nul \in {0, 1} /\ token.kind \in Tokens
      /\ Room(token) = token.length + token.nul
  BY DEF Texts, Room
<1>2. /\ buf.size \in Nat /\ buf.capacity \in Nat \ {0}
      /\ buf.out \in Seq(Tokens) /\ buf.overrun = FALSE
  BY DEF Fits
<1>3. cap \in Nat \ {0} /\ cap - buf.size >= Room(token)
  <2>1. Room(token) \in Nat
    BY <1>1
  <2>2. QED
    BY <1>2, <2>1, FitFits
<1>4. /\ Write(buf, token).size = buf.size + token.length
      /\ Write(buf, token).capacity = cap
      /\ Write(buf, token).out = Append(buf.out, token.kind)
      /\ Write(buf, token).overrun =
           (buf.overrun \/ buf.size + token.length + token.nul > cap)
  BY DEF Write
<1> HIDE DEF cap
<1>5. ~(buf.size + token.length + token.nul > cap)
  BY <1>1, <1>2, <1>3
<1>6. Write(buf, token).overrun = FALSE
  BY <1>2, <1>4, <1>5, Zenon
<1>7. Append(buf.out, token.kind) \in Seq(Tokens)
  BY <1>1, <1>2, AppendProperties
<1>8. QED
  BY <1>1, <1>2, <1>3, <1>4, <1>6, <1>7 DEF Fits

-----------------------------------------------------------------------------
(* The scope stack, the flags and the buffer. *)

ScopeKinds == {"object", "array"}

TypeGen ==
  /\ scopes \in Seq(ScopeKinds)
  /\ await_object_value \in BOOLEAN
  /\ first_elem \in BOOLEAN
  /\ aborted \in BOOLEAN
  /\ calls \in Seq(Calls)

GenInv == TypeGen /\ Fits(Written) /\ Len(scopes) <= MaxScopes

LEMMA GenInitInv == InitGen => GenInv
<1> SUFFICES ASSUME InitGen PROVE GenInv
  OBVIOUS
<1>1. TypeGen /\ Len(scopes) <= MaxScopes
  <2>1. scopes = <<>> /\ Len(scopes) = 0 /\ calls = <<>>
    BY DEF InitGen
  <2>2. TypeGen
    <3>1. <<>> \in Seq(ScopeKinds) /\ <<>> \in Seq(Calls)
      BY EmptySeq
    <3>2. QED
      BY <2>1, <3>1, Zenon DEF InitGen, TypeGen
  <2>3. QED
    BY <2>1, <2>2, JsonGenAssumption
<1>2. Fits(Written)
  BY JsonGenAssumption DEF InitGen, Fits, Written
<1>3. QED
  BY <1>1, <1>2 DEF GenInv

\* The comma before a value is a write, or none.
LEMMA CommaFits ==
  ASSUME Fits(Written)
  PROVE  Fits(CommaIfNeeded)
<1>1. Comma \in Texts
  BY DEF Comma, Text, Texts, Tokens
<1>2. QED
  BY <1>1, WriteFits DEF CommaIfNeeded

\* What a call writes becomes the buffer.
LEMMA BecomesFits ==
  ASSUME NEW buf, Fits(buf), Becomes(buf)
  PROVE  Fits(Written')
BY DEF Becomes, Written, Fits

LEMMA TextTypes ==
  /\ \A brace \in {"lbrace", "rbrace", "lbracket", "rbracket"} : Brace(brace) \in Texts
  /\ \A n \in Lengths : Text("key", n + 4, 1) \in Texts
  /\ ScalarTexts \subseteq Texts
<1> USE DEF Text, Texts, Tokens
<1>1. \A brace \in {"lbrace", "rbrace", "lbracket", "rbracket"} : Brace(brace) \in Texts
  BY DEF Brace
<1>2. ASSUME NEW n \in Lengths PROVE n \in Nat /\ n + 4 \in Nat
  BY JsonGenAssumption
<1>3. \A n \in Lengths : Text("key", n + 4, 1) \in Texts
  BY <1>2
<1>4. ScalarTexts \subseteq Texts
  <2>1. {Text("value", n, 1) : n \in Lengths} \subseteq Texts
    <3>1. ASSUME NEW n \in Lengths PROVE Text("value", n, 1) \in Texts
      BY <1>2, <3>1
    <3>2. QED
      BY <3>1, Zenon
  <2>2. Text("value", 4, 0) \in Texts
    OBVIOUS
  <2>3. QED
    BY <2>1, <2>2 DEF ScalarTexts
<1>5. QED
  BY <1>1, <1>3, <1>4

LEMMA CallTypes ==
  ASSUME TypeGen, NEW name \in Calls, Call(name)
  PROVE  calls' \in Seq(Calls)
BY AppendProperties DEF TypeGen, Call

\* The last scope is taken off the stack, or a new one put on it.
LEMMA ScopeTypes ==
  ASSUME NEW s \in Seq(ScopeKinds), NEW scope \in ScopeKinds
  PROVE  /\ Append(s, scope) \in Seq(ScopeKinds)
         /\ Len(Append(s, scope)) = Len(s) + 1
         /\ s # <<>> => /\ Front(s) \in Seq(ScopeKinds)
                        /\ Len(Front(s)) = Len(s) - 1
                        /\ Last(s) \in ScopeKinds
<1>1. Append(s, scope) \in Seq(ScopeKinds) /\ Len(Append(s, scope)) = Len(s) + 1
  BY AppendProperties
<1>2. ASSUME s # <<>>
      PROVE  /\ Front(s) \in Seq(ScopeKinds)
             /\ Len(Front(s)) = Len(s) - 1
             /\ Last(s) \in ScopeKinds
  <2>1. Len(s) \in Nat \ {0}
    BY <1>2, EmptySeq, LenProperties
  <2>2. Front(s) = SubSeq(s, 1, Len(s) - 1)
    BY DEF Front
  <2>3. Front(s) \in Seq(ScopeKinds) /\ Len(Front(s)) = Len(s) - 1
    <3>1. /\ SubSeq(s, 1, Len(s) - 1) \in Seq(ScopeKinds)
          /\ Len(SubSeq(s, 1, Len(s) - 1)) = Len(s) - 1
      <4>1. PICK n \in Nat : n = Len(s) - 1
        BY <2>1
      <4>2. \A i \in 1..n : s[i] \in ScopeKinds
        <5>1. \A i \in 1..n : i \in 1..Len(s)
          BY <2>1, <4>1
        <5>2. QED
          BY <5>1, ElementOfSeq
      <4>3. SubSeq(s, 1, n) \in Seq(ScopeKinds) /\ Len(SubSeq(s, 1, n)) = n
        BY <4>2, SubSeqProperties
      <4>4. QED
        BY <4>1, <4>3, Zenon
    <3>2. QED
      BY <2>2, <3>1, Zenon
  <2>4. Last(s) \in ScopeKinds
    <3>1. Len(s) \in 1..Len(s)
      BY <2>1
    <3>2. QED
      BY <3>1, ElementOfSeq DEF Last
  <2>5. QED
    BY <2>3, <2>4
<1>3. QED
  BY <1>1, <1>2

LEMMA GenNextInv == GenInv /\ [NextGen]_generator => GenInv'
<1> SUFFICES ASSUME GenInv, [NextGen]_generator PROVE GenInv'
  OBVIOUS
<1>0. TypeGen /\ Fits(Written) /\ Fits(CommaIfNeeded) /\ Len(scopes) <= MaxScopes
  BY CommaFits DEF GenInv
<1> USE DEF Calls, Values, Opens, Closes, flags
<1>1. ASSUME NEW name \in Calls, NEW scope \in ScopeKinds,
             NEW brace \in {"lbrace", "lbracket"}, Begin(name, scope, brace)
      PROVE  GenInv'
  <2>1. Fits(Written')
    <3>1. Becomes(Write(CommaIfNeeded, Brace(brace)))
      BY <1>1 DEF Begin
    <3>2. Fits(Write(CommaIfNeeded, Brace(brace)))
      BY <1>0, WriteFits, TextTypes
    <3>3. QED
      BY <3>1, <3>2, BecomesFits
  <2>2. scopes' \in Seq(ScopeKinds) /\ Len(scopes') <= MaxScopes
    <3>1. /\ Append(scopes, scope) \in Seq(ScopeKinds)
          /\ Len(Append(scopes, scope)) = Len(scopes) + 1
          /\ Len(scopes) \in Nat
      BY <1>0, ScopeTypes, LenProperties DEF TypeGen
    <3>2. scopes' = Append(scopes, scope) /\ Len(scopes) < MaxScopes
      BY <1>1 DEF Begin
    <3>3. scopes' \in Seq(ScopeKinds) /\ Len(scopes') = Len(scopes) + 1
      BY <3>1, <3>2, Zenon
    <3>4. Len(scopes) \in Nat /\ Len(scopes) < MaxScopes
      BY <3>1, <3>2
    <3>5. QED
      BY <3>3, <3>4, JsonGenAssumption
  <2>3. calls' \in Seq(Calls)
    BY <1>0, <1>1, CallTypes DEF Begin
  <2>4. TypeGen'
    BY <1>0, <1>1, <2>2, <2>3 DEF Begin, TypeGen
  <2>5. QED
    BY <2>1, <2>2, <2>4 DEF GenInv
<1>2. ASSUME NEW name \in Calls, NEW scope \in ScopeKinds,
             NEW brace \in {"rbrace", "rbracket"}, End(name, scope, brace)
      PROVE  GenInv'
  <2>1. Fits(Written')
    <3>1. Becomes(Write(Written, Brace(brace)))
      BY <1>2 DEF End
    <3>2. Fits(Write(Written, Brace(brace)))
      BY <1>0, WriteFits, TextTypes
    <3>3. QED
      BY <3>1, <3>2, BecomesFits
  <2>2. scopes' \in Seq(ScopeKinds) /\ Len(scopes') <= MaxScopes
    <3>1. scopes # <<>>
      BY <1>2 DEF End, Scope, ScopeKinds
    <3>2. /\ Front(scopes) \in Seq(ScopeKinds)
          /\ Len(Front(scopes)) = Len(scopes) - 1
          /\ Len(scopes) \in Nat
      BY <1>0, <3>1, ScopeTypes, LenProperties DEF TypeGen
    <3>3. scopes' = Front(scopes)
      BY <1>2 DEF End
    <3>4. scopes' \in Seq(ScopeKinds) /\ Len(scopes') = Len(scopes) - 1
      BY <3>2, <3>3, Zenon
    <3>5. Len(scopes) \in Nat /\ Len(scopes) <= MaxScopes
      BY <1>0, <3>2
    <3>6. QED
      BY <3>4, <3>5, JsonGenAssumption
  <2>3. calls' \in Seq(Calls)
    BY <1>0, <1>2, CallTypes DEF End
  <2>4. TypeGen'
    BY <1>0, <1>2, <2>2, <2>3 DEF End, TypeGen, ValueDone
  <2>5. QED
    BY <2>1, <2>2, <2>4 DEF GenInv
<1>3. CASE BeginTooDeep
  <2>1. Fits(Written')
    BY <1>0, <1>3, BecomesFits DEF BeginTooDeep
  <2>2. calls' \in Seq(Calls)
    BY <1>0, <1>3, CallTypes DEF BeginTooDeep
  <2>3. QED
    BY <1>0, <1>3, <2>1, <2>2 DEF BeginTooDeep, GenInv, TypeGen
<1>4. CASE BeginAborts \/ EndAborts \/ ObjMemberAborts
  <2>1. PICK name \in Calls : Call(name)
    BY <1>4 DEF BeginAborts, EndAborts, ObjMemberAborts
  <2>2. Abort
    BY <1>4 DEF BeginAborts, EndAborts, ObjMemberAborts
  <2>3. calls' \in Seq(Calls)
    BY <1>0, <2>1, CallTypes
  <2>4. Fits(Written')
    BY <1>0, <2>2 DEF Abort, storage, Written
  <2>5. QED
    BY <1>0, <2>2, <2>3, <2>4 DEF Abort, GenInv, TypeGen
<1>5. CASE ObjMember
  <2>1. PICK n \in Lengths : Becomes(Write(CommaIfNeeded, Text("key", n + 4, 1)))
    BY <1>5 DEF ObjMember
  <2>2. Fits(Written')
    <3>1. Fits(Write(CommaIfNeeded, Text("key", n + 4, 1)))
      BY <1>0, WriteFits, TextTypes
    <3>2. QED
      BY <2>1, <3>1, BecomesFits
  <2>3. calls' \in Seq(Calls)
    BY <1>0, <1>5, CallTypes DEF ObjMember
  <2>4. QED
    BY <1>0, <1>5, <2>2, <2>3 DEF ObjMember, GenInv, TypeGen
<1>6. CASE Scalar
  <2>1. PICK text \in ScalarTexts : Becomes(Write(CommaIfNeeded, text))
    BY <1>6 DEF Scalar
  <2>2. Fits(Written')
    <3>1. Fits(Write(CommaIfNeeded, text))
      BY <1>0, WriteFits, TextTypes
    <3>2. QED
      BY <2>1, <3>1, BecomesFits
  <2>3. calls' \in Seq(Calls)
    BY <1>0, <1>6, CallTypes DEF Scalar
  <2>4. QED
    BY <1>0, <1>6, <2>2, <2>3 DEF Scalar, GenInv, TypeGen, ValueDone
<1>7. CASE UNCHANGED generator
  BY <1>0, <1>7 DEF generator, storage, GenInv, TypeGen, Written
<1>8. QED
  <2>1. BeginObject \/ BeginArray => GenInv'
    BY <1>1 DEF BeginObject, BeginArray, ScopeKinds
  <2>2. EndObject \/ EndArray => GenInv'
    BY <1>2 DEF EndObject, EndArray, ScopeKinds
  <2>3. QED
    BY <1>3, <1>4, <1>5, <1>6, <1>7, <2>1, <2>2 DEF NextGen

LEMMA GenInductive == SpecGen => []GenInv
BY GenInitInv, GenNextInv, PTL DEF SpecGen

\* Whatever is written, and however the lengths fall on the capacity, no write
\* goes past the buffer or the scope stack, for any size of either.
THEOREM BufferIsLargeEnough == SpecGen => []StaysInBuffer
<1>1. GenInv => StaysInBuffer
  BY DEF GenInv, Fits, Written, StaysInBuffer
<1>2. QED
  BY <1>1, GenInductive, PTL

-----------------------------------------------------------------------------
(* The scopes that are open after a number of calls. *)

Opened(open, call) ==
  CASE call \in Opens -> Append(open, ScopeOf(call))
    [] call \in Closes /\ open # <<>> -> Front(open)
    [] OTHER -> open

Opening(c) ==
  CHOOSE after : after = [n \in 0..Len(c) |->
                            IF n = 0 THEN <<>> ELSE Opened(after[n - 1], c[n])]

LEMMA OpenIsOpening == Open = Opening(calls)
BY DEF Open, Opening, Opened

LEMMA OpenedType ==
  ASSUME NEW open \in Seq(ScopeKinds), NEW call
  PROVE  Opened(open, call) \in Seq(ScopeKinds)
<1>1. ScopeOf(call) \in ScopeKinds
  BY DEF ScopeOf, ScopeKinds
<1>2. QED
  BY <1>1, ScopeTypes DEF Opened

\* Opening is the recursive function it is written as.
LEMMA OpeningShape ==
  ASSUME NEW c, Len(c) \in Nat
  PROVE  /\ Opening(c) \in [0..Len(c) -> Seq(ScopeKinds)]
         /\ Opening(c)[0] = <<>>
         /\ \A n \in 1..Len(c) :
              Opening(c)[n] = Opened(Opening(c)[n - 1], c[n])
<1> DEFINE top == Len(c)
           Is(f) == f = [n \in 0..top |->
                           IF n = 0 THEN <<>> ELSE Opened(f[n - 1], c[n])]
           step == [n \in 1..top |->
                      [open \in Seq(ScopeKinds) |-> Opened(open, c[n])]]
<1>1. \A n \in 0 + 1..top, v \in Seq(ScopeKinds) :
        step[n][v] = Opened(v, c[n]) /\ step[n][v] \in Seq(ScopeKinds)
  BY OpenedType
<1>2. PICK f \in [0..top -> Seq(ScopeKinds)] : Recurs(f, 0, top, <<>>, step)
  <2>1. 0 \in Int /\ top \in Int /\ 0 <= top /\ <<>> \in Seq(ScopeKinds)
    BY EmptySeq
  <2>2. IsStep(step, 0, top, Seq(ScopeKinds))
    BY <1>1 DEF IsStep
  <2> HIDE DEF step, top
  <2>3. QED
    BY <2>1, <2>2, Recursion, Zenon
<1>3. f[0] = <<>> /\ \A n \in 1..top : f[n] = Opened(f[n - 1], c[n])
  <2>1. ASSUME NEW n \in 1..top PROVE f[n] = Opened(f[n - 1], c[n])
    <3>1. n \in 0 + 1..top /\ f[n - 1] \in Seq(ScopeKinds)
      OBVIOUS
    <3> HIDE DEF step, top
    <3>2. QED
      BY <3>1, <1>1, <1>2 DEF Recurs
  <2>2. QED
    BY <2>1, <1>2 DEF Recurs
<1> HIDE DEF top
<1>4. top \in Nat
  BY DEF top
<1>5. Is(f)
  BY <1>3, <1>4
<1>6. Is(Opening(c))
  BY <1>5 DEF Opening, top
<1>7. \A n \in 0..top : Opening(c)[n] = f[n]
  <2> DEFINE S == {n \in 0..top : Opening(c)[n] = f[n]}
  <2>1. 0 \in Int /\ top \in Int /\ (0 <= top => 0 \in S)
    BY <1>3, <1>4, <1>6
  <2>2. ASSUME NEW n \in 0..top - 1, n \in S PROVE n + 1 \in S
    <3>1. n + 1 \in 1..top /\ n + 1 \in 0..top /\ (n + 1) - 1 = n
      BY <1>4
    <3>2. Opening(c)[n + 1] = Opened(Opening(c)[(n + 1) - 1], c[n + 1])
      <4>1. n + 1 # 0
        OBVIOUS
      <4>2. QED
        BY <1>6, <3>1, <4>1, Zenon
    <3>3. f[n + 1] = Opened(f[(n + 1) - 1], c[n + 1])
      BY <1>3, <3>1
    <3>4. QED
      BY <2>2, <3>1, <3>2, <3>3
  <2>3. \A n \in 0..top : n \in S
    <3>1. \A n \in 0..top - 1 : n \in S => n + 1 \in S
      BY <2>2
    <3> HIDE DEF S
    <3>2. QED
      BY <2>1, <3>1, InductUpTo, Zenon
  <2>4. QED
    BY <2>3
<1>8. Opening(c) = f
  BY <1>6, <1>7
<1>9. QED
  BY <1>3, <1>8 DEF top

\* One more call leaves the scopes after the earlier calls as they were.
LEMMA OpeningAppend ==
  ASSUME NEW c \in Seq(Calls), NEW x \in Calls
  PROVE  \A n \in 0..Len(c) : Opening(Append(c, x))[n] = Opening(c)[n]
<1> DEFINE d == Append(c, x)
           top == Len(c)
           S == {n \in 0..top : Opening(d)[n] = Opening(c)[n]}
<1>1. top \in Nat /\ Len(d) = top + 1 /\ \A n \in 1..top : d[n] = c[n]
  BY AppendProperties, LenProperties
<1> HIDE DEF d
<1>2. 0 \in Int /\ top \in Int /\ (0 <= top => 0 \in S)
  BY <1>1, OpeningShape
<1>3. ASSUME NEW n \in 0..top - 1, n \in S PROVE n + 1 \in S
  <2>1. /\ Opening(c)[n + 1] = Opened(Opening(c)[(n + 1) - 1], c[n + 1])
        /\ Opening(d)[n + 1] = Opened(Opening(d)[(n + 1) - 1], d[n + 1])
    BY <1>1, OpeningShape
  <2>2. (n + 1) - 1 = n /\ d[n + 1] = c[n + 1]
    BY <1>1
  <2>3. QED
    BY <1>1, <1>3, <2>1, <2>2
<1>4. \A n \in 0..top - 1 : n \in S => n + 1 \in S
  BY <1>3
<1>5. \A n \in 0..top : n \in S
  <2> HIDE DEF S, top
  <2>1. QED
    BY <1>2, <1>4, InductUpTo, Zenon
<1>6. QED
  BY <1>5 DEF d

-----------------------------------------------------------------------------
(* The JSON text. *)

Piece(n) ==
  (IF CommaBefore(n) THEN <<"comma">> ELSE <<>>) \o <<Token(calls[n])>>

\* What the next call x adds to a correct use of the generator, seen from the
\* calls made before it.
NextIsGood(x) ==
  LET open == Open[Len(calls)]
      inObject == open # <<>> /\ Last(open) = "object"
      afterKey == Len(calls) > 0 /\ calls[Len(calls)] = "objmember"
  IN  CASE x = "objmember" -> inObject /\ ~afterKey
        [] x \in Values -> /\ inObject => afterKey
                           /\ x \in Opens => Len(open) < MaxScopes
        [] x \in Closes ->
             open # <<>> /\ Last(open) = ScopeOf(x) /\ ~afterKey

CommaBeforeNext(x) ==
  /\ Len(calls) > 0 /\ Open[Len(calls)] # <<>>
  /\ calls[Len(calls)] \in Closes \cup {"scalar"}
  /\ x \notin Closes

NextPiece(x) ==
  (IF CommaBeforeNext(x) THEN <<"comma">> ELSE <<>>) \o <<Token(x)>>

LEMMA JsonIsPieces == Json = FlattenSeq([n \in 1..Len(calls) |-> Piece(n)])
BY DEF Json, Piece

LEMMA PieceTypes ==
  ASSUME TypeGen
  PROVE  /\ \A n \in 1..Len(calls) : Piece(n) \in Seq(Tokens)
         /\ \A x \in Calls : NextPiece(x) \in Seq(Tokens)
<1>1. \A x \in Calls : Token(x) \in Tokens
  BY DEF Token, Tokens, Calls, Values, Opens, Closes
<1>2. \A x \in Calls : <<Token(x)>> \in Seq(Tokens)
  BY <1>1
<1>3. <<"comma">> \in Seq(Tokens) /\ <<>> \in Seq(Tokens)
  BY DEF Tokens
<1>4. \A n \in 1..Len(calls) : calls[n] \in Calls
  BY ElementOfSeq DEF TypeGen
<1>5. \A s \in Seq(Tokens), t \in Seq(Tokens) : s \o t \in Seq(Tokens)
  BY ConcatProperties
<1>6. QED
  <2>1. ASSUME NEW n \in 1..Len(calls) PROVE Piece(n) \in Seq(Tokens)
    BY <1>2, <1>3, <1>4, <1>5, Zenon DEF Piece
  <2>2. ASSUME NEW x \in Calls PROVE NextPiece(x) \in Seq(Tokens)
    BY <1>2, <1>3, <1>5, Zenon DEF NextPiece
  <2>3. QED
    BY <2>1, <2>2

\* One more call leaves what the calls before it mean as it was.
LEMMA CallStep ==
  ASSUME TypeGen, NEW x \in Calls, calls' = Append(calls, x), WellUsed'
  PROVE  /\ WellUsed
         /\ NextIsGood(x)
         /\ Open'[Len(calls')] = Opened(Open[Len(calls)], x)
         /\ Json \in Seq(Tokens)
         /\ Json' = Json \o NextPiece(x)
<1>0. PICK top \in Nat : top = Len(calls)
  BY LenProperties DEF TypeGen
<1>1. /\ Len(calls) = top /\ Len(calls') = top + 1 /\ calls'[top + 1] = x
      /\ \A n \in 1..top : calls'[n] = calls[n]
  BY <1>0, AppendProperties DEF TypeGen
<1>2. \A n \in 0..top : Open'[n] = Open[n]
  <2>1. Open' = Opening(calls')
    BY OpenIsOpening DEF Open, Opening, Opened
  <2>2. \A n \in 0..top : Opening(Append(calls, x))[n] = Opening(calls)[n]
    BY <1>1, OpeningAppend DEF TypeGen
  <2>3. QED
    BY <2>1, <2>2, OpenIsOpening
<1>3. Open'[top + 1] = Opened(Open[top], x)
  <2>1. Open' = Opening(calls')
    BY OpenIsOpening DEF Open, Opening, Opened
  <2>2. /\ top + 1 \in 1..Len(calls') /\ (top + 1) - 1 = top
        /\ Len(calls') \in Nat /\ top \in 0..top
    BY <1>1
  <2>3. Opening(calls')[top + 1] =
          Opened(Opening(calls')[(top + 1) - 1], calls'[top + 1])
    BY <2>2, OpeningShape, Zenon
  <2>4. QED
    BY <1>1, <1>2, <2>1, <2>2, <2>3, Zenon
<1>4. ASSUME NEW n \in 1..top
      PROVE  /\ GoodCall(n)' <=> GoodCall(n)
             /\ CommaBefore(n)' <=> CommaBefore(n)
             /\ calls'[n] = calls[n]
  <2>1. /\ calls'[n] = calls[n] /\ Open'[n - 1] = Open[n - 1]
        /\ n > 1 => calls'[n - 1] = calls[n - 1]
    BY <1>1, <1>2
  <2>2. GoodCall(n)' <=> GoodCall(n)
    BY <2>1 DEF GoodCall
  <2>3. CommaBefore(n)' <=> CommaBefore(n)
    BY <2>1 DEF CommaBefore
  <2>4. QED
    BY <2>1, <2>2, <2>3
<1>5. WellUsed
  <2>1. \A n \in 1..top + 1 : GoodCall(n)'
    BY <1>1 DEF WellUsed
  <2>2. \A n \in 1..top : n \in 1..top + 1
    OBVIOUS
  <2>3. \A n \in 1..top : GoodCall(n)
    BY <1>4, <2>1, <2>2
  <2>4. QED
    BY <1>1, <2>3 DEF WellUsed
<1>6. /\ top + 1 > 1 <=> top > 0
      /\ (top + 1) - 1 = top /\ Open'[top] = Open[top]
      /\ top > 0 => calls'[top] = calls[top]
  BY <1>1, <1>2
<1>7. NextIsGood(x)
  <2>1. GoodCall(top + 1)'
    <3>1. top + 1 \in 1..top + 1
      OBVIOUS
    <3>2. \A n \in 1..top + 1 : GoodCall(n)'
      BY <1>1 DEF WellUsed
    <3>3. QED
      BY <3>1, <3>2
  <2>2. QED
    BY <1>1, <1>6, <2>1 DEF GoodCall, NextIsGood
<1>8. CommaBefore(top + 1)' <=> CommaBeforeNext(x)
  BY <1>1, <1>6 DEF CommaBefore, CommaBeforeNext
<1>9. Json \in Seq(Tokens) /\ Json' = Json \o NextPiece(x)
  <2> DEFINE s == [n \in 1..top |-> Piece(n)]
             d == [n \in 1..top + 1 |-> Piece(n)']
  <2>1. /\ s \in Seq(Seq(Tokens)) /\ Len(s) = top
        /\ NextPiece(x) \in Seq(Tokens)
    BY <1>1, PieceTypes
  <2>2. \A n \in 1..top : Piece(n)' = Piece(n)
    BY <1>4 DEF Piece
  <2>3. Piece(top + 1)' = NextPiece(x)
    BY <1>1, <1>8 DEF Piece, NextPiece
  <2>4. d = Append(s, NextPiece(x))
    <3>1. /\ Append(s, NextPiece(x)) \in Seq(Seq(Tokens))
          /\ Len(Append(s, NextPiece(x))) = top + 1
          /\ Append(s, NextPiece(x))[top + 1] = NextPiece(x)
          /\ \A n \in 1..top : Append(s, NextPiece(x))[n] = s[n]
      BY <1>1, <2>1, AppendProperties
    <3>2. \A n \in 1..top + 1 : Append(s, NextPiece(x))[n] = Piece(n)'
      BY <1>1, <2>2, <2>3, <3>1
    <3>3. Append(s, NextPiece(x)) =
            [n \in 1..top + 1 |-> Append(s, NextPiece(x))[n]]
      BY <1>1, <3>1
    <3>4. QED
      BY <3>2, <3>3
  <2>5. FlattenSeq(s) \in Seq(Tokens)
        /\ FlattenSeq(Append(s, NextPiece(x))) = FlattenSeq(s) \o NextPiece(x)
    BY <2>1, FlattenAppend
  <2>6. Json = FlattenSeq(s)
    BY <1>1, JsonIsPieces
  <2>7. Json' = FlattenSeq(d)
    BY <1>1 DEF Json, Piece
  <2>8. QED
    BY <2>4, <2>5, <2>6, <2>7
<1>10. QED
  BY <1>1, <1>3, <1>5, <1>7, <1>9

\* A correct use so far: what is open and what is written are what the calls
\* say, and the flags say what the last call was.
JsonInv ==
  WellUsed =>
    /\ ~aborted
    /\ scopes = Open[Len(calls)]
    /\ out = Json
    /\ Len(calls) > 0 =>
         /\ calls[Len(calls)] = "objmember" => await_object_value
         /\ calls[Len(calls)] \in Closes \cup {"scalar"} => ~await_object_value
         /\ first_elem <=> calls[Len(calls)] \in Opens

LEMMA JsonInit == InitGen => JsonInv
<1> SUFFICES ASSUME InitGen PROVE JsonInv
  OBVIOUS
<1>1. calls = <<>> /\ Len(calls) = 0 /\ scopes = <<>> /\ out = <<>> /\ ~aborted
  BY DEF InitGen
<1>2. Open[0] = <<>>
  BY <1>1, OpenIsOpening, OpeningShape
<1>3. Json = <<>>
  <2>1. [n \in 1..Len(calls) |-> Piece(n)] = <<>>
    BY <1>1
  <2>2. FlattenSeq(<<>>) = <<>>
    BY FlattenSeqIsFlattening
  <2>3. QED
    BY <2>1, <2>2, JsonIsPieces
<1>4. QED
  BY <1>1, <1>2, <1>3 DEF JsonInv

\* put_comma_if_needed writes a comma where JSON has one.
LEMMA CommaIsJson ==
  ASSUME GenInv, JsonInv, WellUsed, NEW x \in Calls \ Closes
  PROVE  CommaIfNeeded.out =
           out \o (IF CommaBeforeNext(x) THEN <<"comma">> ELSE <<>>)
<1>1. /\ out \in Seq(Tokens) /\ Comma.kind = "comma"
      /\ Written.out = out
  BY DEF GenInv, Fits, Written, Comma, Text
<1>2. /\ ~await_object_value /\ ~first_elem /\ scopes # <<>>
      <=> CommaBeforeNext(x)
  <2>1. Len(calls) \in Nat /\ \A n \in 1..Len(calls) : calls[n] \in Calls
    BY LenProperties, ElementOfSeq DEF GenInv, TypeGen
  <2>2. Open[0] = <<>>
    BY <2>1, OpenIsOpening, OpeningShape
  <2>3. Len(calls) > 0 => calls[Len(calls)] \in Calls
    BY <2>1
  <2>4. ~(Len(calls) > 0) => Len(calls) = 0
    BY <2>1
  <2>5. QED
    BY <2>2, <2>3, <2>4, Zenon
    DEF JsonInv, CommaBeforeNext, Calls, Values, Opens, Closes
<1>3. Write(Written, Comma).out = Append(out, "comma")
  BY <1>1 DEF Write
<1>4. Append(out, "comma") = out \o <<"comma">> /\ out \o <<>> = out
  BY <1>1, AppendIsConcat, ConcatEmptySeq DEF Tokens
<1>5. QED
  BY <1>1, <1>2, <1>3, <1>4, Zenon DEF CommaIfNeeded

\* A text behind the comma that its call needs is the call's piece of JSON.
LEMMA TextIsJson ==
  ASSUME GenInv, JsonInv, WellUsed, NEW x \in Calls \ Closes,
         NEW token \in Texts, token.kind = Token(x)
  PROVE  Write(CommaIfNeeded, token).out = out \o NextPiece(x)
<1> DEFINE comma == IF CommaBeforeNext(x) THEN <<"comma">> ELSE <<>>
<1>1. out \in Seq(Tokens) /\ comma \in Seq(Tokens)
  <2>1. out \in Seq(Tokens)
    BY DEF GenInv, Fits, Written
  <2>2. comma \in Seq(Tokens)
    <3>1. <<>> \in Seq(Tokens) /\ <<"comma">> \in Seq(Tokens)
      BY DEF Tokens
    <3>2. QED
      BY <3>1, Zenon
  <2>3. QED
    BY <2>1, <2>2
<1>2. token.kind \in Tokens /\ <<token.kind>> \in Seq(Tokens)
  BY DEF Texts
<1>3. Write(CommaIfNeeded, token).out = Append(CommaIfNeeded.out, token.kind)
  BY CommaFits, WriteFits DEF GenInv
<1>4. CommaIfNeeded.out = out \o comma /\ out \o comma \in Seq(Tokens)
  BY <1>1, CommaIsJson, ConcatProperties
<1> HIDE DEF comma
<1>5. Append(out \o comma, token.kind) = (out \o comma) \o <<token.kind>>
  BY <1>2, <1>4, AppendIsConcat
<1>6. (out \o comma) \o <<token.kind>> = out \o (comma \o <<token.kind>>)
  BY <1>1, <1>2, ConcatAssociative
<1>7. NextPiece(x) = comma \o <<token.kind>>
  BY DEF NextPiece, comma
<1>8. QED
  BY <1>3, <1>4, <1>5, <1>6, <1>7, Zenon

\* What a call means to a generator that was used correctly before it.
LEMMA CallIsGood ==
  ASSUME GenInv, JsonInv, NEW x \in Calls, Call(x), WellUsed'
  PROVE  /\ WellUsed /\ ~aborted /\ NextIsGood(x)
         /\ scopes = Open[Len(calls)]
         /\ Open'[Len(calls')] = Opened(scopes, x)
         /\ Json' = out \o NextPiece(x)
         /\ Len(calls') > 0 /\ calls'[Len(calls')] = x
         /\ Len(calls) > 0 /\ calls[Len(calls)] = "objmember"
            => await_object_value
<1>1. calls' = Append(calls, x) /\ TypeGen
  BY DEF Call, GenInv
<1>2. /\ WellUsed /\ NextIsGood(x) /\ Json' = Json \o NextPiece(x)
      /\ Open'[Len(calls')] = Opened(Open[Len(calls)], x)
  BY <1>1, CallStep
<1>3. Len(calls') > 0 /\ calls'[Len(calls')] = x
  BY <1>1, AppendProperties, LenProperties DEF TypeGen
<1>4. QED
  BY <1>2, <1>3, Zenon DEF JsonInv

\* The step of a value that is begun, ended, or named.
LEMMA JsonStep ==
  ASSUME GenInv, JsonInv, NEW x \in Calls, Call(x), WellUsed',
         ~aborted', scopes' = Opened(scopes, x), out' = out \o NextPiece(x),
         x = "objmember" => await_object_value',
         x \in Closes \cup {"scalar"} => ~await_object_value',
         first_elem' <=> x \in Opens
  PROVE  JsonInv'
<1>1. /\ Open'[Len(calls')] = Opened(scopes, x)
      /\ Json' = out \o NextPiece(x) /\ calls'[Len(calls')] = x
  BY CallIsGood
<1>2. /\ ~aborted' /\ scopes' = Open'[Len(calls')] /\ out' = Json'
      /\ calls'[Len(calls')] = "objmember" => await_object_value'
      /\ calls'[Len(calls')] \in Closes \cup {"scalar"} => ~await_object_value'
      /\ first_elem' <=> calls'[Len(calls')] \in Opens
  BY <1>1, Zenon
<1>3. QED
  BY <1>2, Zenon DEF JsonInv

LEMMA JsonNext == GenInv /\ JsonInv /\ [NextGen]_generator => JsonInv'
<1> SUFFICES ASSUME GenInv, JsonInv, [NextGen]_generator PROVE JsonInv'
  OBVIOUS
<1>0. CASE ~WellUsed'
  BY <1>0 DEF JsonInv
<1> SUFFICES ASSUME WellUsed' PROVE JsonInv'
  BY <1>0
<1>1. ASSUME NEW x \in Opens, NEW scope, NEW brace \in {"lbrace", "lbracket"},
             Begin(x, scope, brace), scope = ScopeOf(x), brace = Token(x)
      PROVE  JsonInv'
  <2>1. x \in Calls \ Closes /\ x # "objmember" /\ x \notin Closes \cup {"scalar"}
    BY DEF Calls, Values, Opens, Closes
  <2>2. Call(x) /\ WellUsed /\ ~aborted
    BY <1>1, <2>1, CallIsGood DEF Begin
  <2>3. out' = out \o NextPiece(x)
    <3>1. Brace(brace) \in Texts /\ Brace(brace).kind = Token(x)
      BY <1>1, TextTypes DEF Brace, Text
    <3>2. out' = Write(CommaIfNeeded, Brace(brace)).out
      BY <1>1 DEF Begin, Becomes
    <3>3. QED
      BY <2>1, <2>2, <3>1, <3>2, TextIsJson
  <2>4. scopes' = Opened(scopes, x)
    BY <1>1, <2>1 DEF Begin, Opened
  <2>5. first_elem' = TRUE /\ ~aborted'
    BY <1>1, <2>2 DEF Begin
  <2>6. QED
    BY <2>1, <2>2, <2>3, <2>4, <2>5, JsonStep
<1>2. ASSUME NEW x \in Closes, NEW scope, NEW brace \in {"rbrace", "rbracket"},
             End(x, scope, brace), scope = ScopeOf(x), brace = Token(x)
      PROVE  JsonInv'
  <2>1. x \in Calls /\ x # "objmember" /\ x \notin Opens
    BY DEF Calls, Values, Opens, Closes
  <2>2. Call(x) /\ WellUsed /\ ~aborted
    BY <1>2, <2>1, CallIsGood DEF End
  <2>3. out' = out \o NextPiece(x)
    <3>1. Brace(brace) \in Texts /\ Brace(brace).kind = Token(x)
      BY <1>2, TextTypes DEF Brace, Text
    <3>2. /\ out' = Write(Written, Brace(brace)).out
          /\ Written.out = out /\ out \in Seq(Tokens)
      BY <1>2 DEF End, Becomes, Written, GenInv, Fits
    <3>3. out' = Append(out, Token(x)) /\ Token(x) \in Tokens
      BY <3>1, <3>2, WriteFits DEF GenInv, Texts
    <3>4. NextPiece(x) = <<>> \o <<Token(x)>> /\ <<Token(x)>> \in Seq(Tokens)
      BY <3>3 DEF NextPiece, CommaBeforeNext
    <3>5. <<>> \o <<Token(x)>> = <<Token(x)>>
      BY <3>4, ConcatEmptySeq
    <3>6. Append(out, Token(x)) = out \o <<Token(x)>>
      BY <3>2, <3>3, AppendIsConcat
    <3>7. QED
      BY <3>3, <3>4, <3>5, <3>6
  <2>4. scopes' = Opened(scopes, x)
    <3>1. scopes # <<>>
      BY <1>2 DEF End, Scope, ScopeOf
    <3>2. QED
      BY <1>2, <2>1, <3>1 DEF End, Opened
  <2>5. await_object_value' = FALSE /\ first_elem' = FALSE /\ ~aborted'
    BY <1>2, <2>2 DEF End, ValueDone
  <2>6. QED
    BY <2>1, <2>2, <2>3, <2>4, <2>5, JsonStep
<1>3. CASE ObjMember
  <2> DEFINE x == "objmember"
  <2>1. x \in Calls \ Closes /\ x \notin Opens /\ x \notin Closes \cup {"scalar"}
    BY DEF Calls, Values, Opens, Closes
  <2>2. Call(x) /\ WellUsed /\ ~aborted
    BY <1>3, <2>1, CallIsGood DEF ObjMember
  <2>3. out' = out \o NextPiece(x)
    <3>1. PICK n \in Lengths :
            Becomes(Write(CommaIfNeeded, Text("key", n + 4, 1)))
      BY <1>3 DEF ObjMember
    <3>2. /\ Text("key", n + 4, 1) \in Texts
          /\ Text("key", n + 4, 1).kind = Token(x)
      BY TextTypes DEF Text, Token
    <3>3. out' = Write(CommaIfNeeded, Text("key", n + 4, 1)).out
      BY <3>1 DEF Becomes
    <3>4. QED
      BY <2>1, <2>2, <3>2, <3>3, TextIsJson
  <2>4. scopes' = Opened(scopes, x)
    BY <1>3, <2>1 DEF ObjMember, Opened
  <2>5. await_object_value' = TRUE /\ first_elem' = FALSE /\ ~aborted'
    BY <1>3, <2>2 DEF ObjMember
  <2>6. QED
    BY <2>1, <2>2, <2>3, <2>4, <2>5, JsonStep
<1>4. CASE Scalar
  <2> DEFINE x == "scalar"
  <2>1. x \in Calls \ Closes /\ x \notin Opens /\ x # "objmember"
    BY DEF Calls, Values, Opens, Closes
  <2>2. Call(x) /\ WellUsed /\ ~aborted
    BY <1>4, <2>1, CallIsGood DEF Scalar
  <2>3. out' = out \o NextPiece(x)
    <3>1. PICK text \in ScalarTexts : Becomes(Write(CommaIfNeeded, text))
      BY <1>4 DEF Scalar
    <3>2. text \in Texts /\ text.kind = Token(x)
      BY TextTypes DEF ScalarTexts, Text, Token
    <3>3. out' = Write(CommaIfNeeded, text).out
      BY <3>1 DEF Becomes
    <3>4. QED
      BY <2>1, <2>2, <3>2, <3>3, TextIsJson
  <2>4. scopes' = Opened(scopes, x)
    BY <1>4, <2>1 DEF Scalar, Opened
  <2>5. await_object_value' = FALSE /\ first_elem' = FALSE /\ ~aborted'
    BY <1>4, <2>2 DEF Scalar, ValueDone
  <2>6. QED
    BY <2>1, <2>2, <2>3, <2>4, <2>5, JsonStep
<1>5. CASE BeginAborts
  <2>1. PICK x \in Opens : Call(x)
    BY <1>5 DEF BeginAborts
  <2>2. x \in Calls /\ x \in Values /\ x # "objmember" /\ x \notin Closes
    BY DEF Calls, Values, Opens, Closes
  <2>3. scopes # <<>> /\ Last(scopes) = "object" /\ ~await_object_value
    BY <1>5 DEF BeginAborts, KeyPosition, Scope
  <2>4. NextIsGood(x) /\ scopes = Open[Len(calls)]
        /\ (Len(calls) > 0 /\ calls[Len(calls)] = "objmember"
            => await_object_value)
    BY <2>1, <2>2, CallIsGood
  <2>5. QED
    BY <2>2, <2>3, <2>4 DEF NextIsGood
<1>6. CASE BeginTooDeep
  <2>1. PICK x \in Opens : Call(x)
    BY <1>6 DEF BeginTooDeep
  <2>2. x \in Calls /\ x \in Values /\ x # "objmember" /\ x \notin Closes
    BY DEF Calls, Values, Opens, Closes
  <2>3. Len(scopes) = MaxScopes
    BY <1>6 DEF BeginTooDeep
  <2>4. Len(scopes) < MaxScopes
    <3>1. NextIsGood(x) /\ scopes = Open[Len(calls)]
      BY <2>1, <2>2, CallIsGood
    <3>2. QED
      BY <2>1, <2>2, <3>1 DEF NextIsGood
  <2>5. QED
    BY <2>3, <2>4, JsonGenAssumption
<1>7. CASE EndAborts
  <2>1. PICK x \in Closes : Call(x) /\ Scope # ScopeOf(x)
    BY <1>7 DEF EndAborts, Closes, ScopeOf
  <2>2. x \in Calls /\ x \notin Values /\ x # "objmember"
    BY DEF Calls, Values, Opens, Closes
  <2>3. scopes # <<>> /\ Last(scopes) = ScopeOf(x)
    BY <2>1, <2>2, CallIsGood DEF NextIsGood
  <2>4. QED
    BY <2>1, <2>3 DEF Scope
<1>8. CASE ObjMemberAborts
  <2>1. Call("objmember") /\ "objmember" \in Calls
    BY <1>8 DEF ObjMemberAborts, Calls
  <2>2. scopes # <<>> /\ Last(scopes) = "object"
    <3>1. NextIsGood("objmember") /\ scopes = Open[Len(calls)]
      BY <2>1, CallIsGood
    <3>2. "objmember" \notin Values /\ "objmember" \notin Closes
      BY DEF Values, Opens, Closes
    <3>3. QED
      BY <3>1, <3>2 DEF NextIsGood
  <2>3. QED
    BY <1>8, <2>2 DEF ObjMemberAborts, Scope
<1>9. CASE UNCHANGED generator
  <2>1. /\ calls' = calls /\ scopes' = scopes /\ out' = out
        /\ await_object_value' = await_object_value
        /\ first_elem' = first_elem /\ aborted' = aborted
    BY <1>9 DEF generator, flags, storage
  <2>2. Open' = Open
    BY <2>1 DEF Open
  <2>3. WellUsed' = WellUsed
    BY <2>1, <2>2 DEF WellUsed, GoodCall
  <2>4. Json' = Json
    BY <2>1, <2>2 DEF Json, CommaBefore
  <2>5. QED
    BY <2>1, <2>2, <2>3, <2>4 DEF JsonInv
<1>10. QED
  <2>1. BeginObject \/ BeginArray => JsonInv'
    BY <1>1 DEF BeginObject, BeginArray, ScopeOf, Token, Opens
  <2>2. EndObject \/ EndArray => JsonInv'
    BY <1>2 DEF EndObject, EndArray, ScopeOf, Token, Closes
  <2>3. QED
    BY <1>3, <1>4, <1>5, <1>6, <1>7, <1>8, <1>9, <2>1, <2>2 DEF NextGen

\* Calls that stand for a JSON text write that text, every comma in its place,
\* and run into no assertion, however long and however deep the text is.
THEOREM WritesTheJsonText == SpecGen => []WritesJson
<1>1. JsonInv => WritesJson
  BY DEF JsonInv, WritesJson
<1>2. QED
  BY <1>1, JsonInit, JsonNext, GenInductive, PTL DEF SpecGen

=============================================================================
