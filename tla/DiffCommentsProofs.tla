-------------------------- MODULE DiffCommentsProofs --------------------------
(* Proofs about PatchParser and DiffComments for texts of any length: what   *)
(* the parser reads as a hunk holds body lines only, the list of comments    *)
(* never grows beyond the lines that were read, comments stay in their hunk, *)
(* and an annotated diff that keeps to the manual is read as it is meant.    *)
EXTENDS DiffComments, Induction, SequenceTheorems, FiniteSetTheorems, TLAPS

-----------------------------------------------------------------------------
(* The lines of a text. *)

\* From the start of t and below each "@@" line only body lines stand, up to
\* the next line that ends a body.
Clean(t) ==
  \A k \in 0..Len(t) :
    k = 0 \/ t[k] = "@@" =>
      \A m \in k + 1..Len(t) :
        (\A j \in k + 1..m : t[j] \notin BodyEnds) => t[m] \in BodyKinds

Lines == {"@@"} \cup DiffWords \cup HeadLines \cup Loose

Texts == {t \in Seq(Lines) : Clean(t)}

LEMMA Words ==
  /\ Loose \subseteq Lines
  /\ Loose \ BodyEnds \subseteq BodyKinds
  /\ "@@" \in Lines /\ "@@" \in BodyEnds
  /\ "@@" \notin DiffWords \cup HeadLines \cup Loose
  /\ DiffWords \subseteq BodyEnds
<1>1. Loose \subseteq Lines /\ "@@" \in Lines
  BY Zenon DEF Lines
<1>2. ASSUME NEW w \in Loose, w \notin BodyEnds PROVE w \in BodyKinds
  BY <1>2, Zenon DEF Loose, BodyEnds, DiffWords, HunkWords
<1>3. "@@" \in BodyEnds /\ DiffWords \subseteq BodyEnds
  BY Zenon DEF BodyEnds, HunkWords
<1>4. "@@" \notin DiffWords /\ "@@" \notin HeadLines
  BY DEF DiffWords, HeadLines
<1>5. "@@" \notin Loose
  BY DEF Loose, Separators, BodyKinds, DiffKinds, Changed, NoteKinds
<1>6. QED
  BY <1>1, <1>2, <1>3, <1>4, <1>5, Zenon

\* A set of texts that is closed under putting one behind another.
LEMMA CleanConcat ==
  ASSUME NEW a \in Texts, NEW b \in Texts
  PROVE  a \o b \in Texts
<1> DEFINE d == a \o b
           la == Len(a)
           lb == Len(b)
<1>1. /\ a \in Seq(Lines) /\ b \in Seq(Lines) /\ Clean(a) /\ Clean(b)
      /\ la \in Nat /\ lb \in Nat
  BY LenProperties DEF Texts
<1>2. /\ d \in Seq(Lines) /\ Len(d) = la + lb
      /\ \A j \in 1..la + lb : d[j] = IF j <= la THEN a[j] ELSE b[j - la]
  BY <1>1, ConcatProperties
<1> HIDE DEF d
<1>3. ASSUME NEW k \in 0..la + lb, k = 0 \/ d[k] = "@@",
             NEW m \in k + 1..la + lb,
             \A j \in k + 1..m : d[j] \notin BodyEnds
      PROVE  d[m] \in BodyKinds
  <2>1. CASE m <= la
    <3>1. k \in 0..la /\ m \in k + 1..la /\ d[m] = a[m]
      BY <1>1, <1>2, <2>1
    <3>2. k = 0 \/ a[k] = "@@"
      BY <1>1, <1>2, <1>3, <3>1
    <3>3. \A j \in k + 1..m : a[j] \notin BodyEnds
      BY <1>1, <1>2, <1>3, <3>1
    <3>4. QED
      BY <1>1, <3>1, <3>2, <3>3 DEF Clean
  <2>2. CASE m > la /\ k <= la
    <3>1. /\ m - la \in 0 + 1..lb /\ d[m] = b[m - la] /\ 0 \in 0..lb
      BY <1>1, <1>2, <2>2
    <3>2. ASSUME NEW j \in 0 + 1..m - la PROVE b[j] \notin BodyEnds
      <4>1. /\ la + j \in k + 1..m /\ la + j \in 1..la + lb /\ ~(la + j <= la)
            /\ (la + j) - la = j
        BY <1>1, <2>2, <3>1
      <4>2. d[la + j] = b[j]
        BY <1>2, <4>1, Zenon
      <4>3. QED
        BY <1>3, <4>1, <4>2
    <3>3. QED
      BY <1>1, <3>1, <3>2 DEF Clean
  <2>3. CASE m > la /\ k > la
    <3>1. /\ k - la \in 0..lb /\ m - la \in (k - la) + 1..lb
          /\ d[m] = b[m - la] /\ d[k] = b[k - la] /\ k # 0
      BY <1>1, <1>2, <2>3
    <3>2. ASSUME NEW j \in (k - la) + 1..m - la PROVE b[j] \notin BodyEnds
      <4>1. /\ la + j \in k + 1..m /\ la + j \in 1..la + lb /\ ~(la + j <= la)
            /\ (la + j) - la = j
        BY <1>1, <2>3, <3>1
      <4>2. d[la + j] = b[j]
        BY <1>2, <4>1, Zenon
      <4>3. QED
        BY <1>3, <4>1, <4>2
    <3>3. QED
      BY <1>1, <1>3, <3>1, <3>2 DEF Clean
  <2>4. QED
    BY <1>1, <2>1, <2>2, <2>3
<1>4. Clean(d)
  BY <1>2, <1>3 DEF Clean
<1>5. QED
  BY <1>2, <1>4 DEF Texts, d

LEMMA CleanLoose ==
  ASSUME NEW t \in Seq(Loose)
  PROVE  t \in Texts
<1>1. t \in Seq(Lines) /\ Len(t) \in Nat /\ \A j \in 1..Len(t) : t[j] \in Loose
  BY Words, SeqMonotonic, ElementOfSeq, LenProperties
<1>2. ASSUME NEW k \in 0..Len(t), NEW m \in k + 1..Len(t),
             \A j \in k + 1..m : t[j] \notin BodyEnds
      PROVE  t[m] \in BodyKinds
  <2>1. m \in 1..Len(t) /\ m \in k + 1..m
    BY <1>1
  <2>2. t[m] \in Loose \ BodyEnds
    BY <1>1, <1>2, <2>1
  <2>3. QED
    BY <2>2, Words
<1>3. QED
  BY <1>1, <1>2 DEF Texts, Clean

\* Nothing that could be taken for a body stands before the first "@@" line.
LEMMA CleanHead ==
  ASSUME NEW t \in FileHead
  PROVE  t \in Texts
<1>1. /\ t \in Seq(Lines) /\ Len(t) \in Nat /\ Len(t) # 0
      /\ t[1] \in BodyEnds /\ \A k \in 1..Len(t) : t[k] # "@@"
  <2>1. /\ t \in Seq(DiffWords \cup HeadLines \cup Loose) /\ t # <<>>
        /\ t[1] \in DiffWords
    BY DEF FileHead
  <2>2. DiffWords \cup HeadLines \cup Loose \subseteq Lines
    BY Zenon DEF Lines
  <2>3. t \in Seq(Lines) /\ Len(t) \in Nat /\ Len(t) # 0
    BY <2>1, <2>2, SeqMonotonic, EmptySeq
  <2>4. \A k \in 1..Len(t) : t[k] \in DiffWords \cup HeadLines \cup Loose
    BY <2>1, ElementOfSeq
  <2>5. QED
    BY <2>1, <2>3, <2>4, Words, Zenon
<1>2. ASSUME NEW k \in 0..Len(t), k = 0 \/ t[k] = "@@", NEW m \in k + 1..Len(t),
             \A j \in k + 1..m : t[j] \notin BodyEnds
      PROVE  FALSE
  <2>1. k = 0
    BY <1>1, <1>2
  <2>2. 1 \in k + 1..m
    BY <1>1, <2>1
  <2>3. QED
    BY <1>1, <1>2, <2>2
<1>3. QED
  BY <1>1, <1>2 DEF Texts, Clean

LEMMA CleanHunk ==
  ASSUME NEW t \in Seq(Loose)
  PROVE  <<"@@">> \o t \in Texts
<1> DEFINE d == <<"@@">> \o t
<1>1. t \in Seq(Lines) /\ Len(t) \in Nat /\ \A j \in 1..Len(t) : t[j] \in Loose
  BY Words, SeqMonotonic, ElementOfSeq, LenProperties
<1>2. <<"@@">> \in Seq(Lines) /\ Len(<<"@@">>) = 1
  BY Words
<1>3. /\ d \in Seq(Lines) /\ Len(d) = 1 + Len(t)
      /\ \A j \in 1..1 + Len(t) : d[j] = IF j <= 1 THEN "@@" ELSE t[j - 1]
  <2>1. /\ d \in Seq(Lines) /\ Len(d) = 1 + Len(t)
        /\ \A j \in 1..1 + Len(t) :
             d[j] = IF j <= 1 THEN <<"@@">>[j] ELSE t[j - 1]
    BY <1>1, <1>2, ConcatProperties
  <2>2. QED
    BY <2>1
<1> HIDE DEF d
<1>4. ASSUME NEW k \in 0..Len(d), NEW m \in k + 1..Len(d),
             \A j \in k + 1..m : d[j] \notin BodyEnds
      PROVE  d[m] \in BodyKinds
  <2>1. m # 1
    BY <1>1, <1>3, <1>4, Words
  <2>2. m \in 1..1 + Len(t) /\ m - 1 \in 1..Len(t) /\ ~(m <= 1) /\ m \in k + 1..m
    BY <1>1, <1>3, <2>1
  <2>3. d[m] \in Loose \ BodyEnds
    BY <1>1, <1>3, <1>4, <2>2
  <2>4. QED
    BY <2>3, Words
<1>5. QED
  BY <1>3, <1>4 DEF Texts, Clean, d

\* What the parser is given is such a text.
LEMMA CleanPrinted ==
  ASSUME NEW s \in Sources
  PROVE  Printed(s) \in Texts
<1>0. /\ Texts \in SUBSET Seq(Lines) /\ <<>> \in Texts
      /\ \A a \in Texts, b \in Texts : a \o b \in Texts
  <2>1. <<>> \in Seq(Loose)
    BY EmptySeq
  <2>2. QED
    BY <2>1, CleanLoose, CleanConcat DEF Texts
<1>1. ASSUME NEW n \in Nat, NEW q \in [1..n -> Texts]
      PROVE  FlattenSeq(q) \in Texts
  <2>1. q \in Seq(Texts)
    BY SeqDef
  <2>2. QED
    BY <1>0, <2>1, FlattenClosed, Zenon
<1>2. ASSUME NEW f \in PatchFile PROVE PrintedFile(f) \in Texts
  <2>1. f.head \in FileHead /\ f.hunks \in Seq(Seq(Loose)) /\ Len(f.hunks) \in Nat
    BY LenProperties DEF PatchFile
  <2>2. \A k \in 1..Len(f.hunks) : <<"@@">> \o f.hunks[k] \in Texts
    BY <2>1, ElementOfSeq, CleanHunk
  <2> DEFINE q == [k \in 1..Len(f.hunks) |-> <<"@@">> \o f.hunks[k]]
  <2>3. q \in [1..Len(f.hunks) -> Texts]
    BY <2>2
  <2> HIDE DEF q
  <2>4. FlattenSeq(q) \in Texts /\ f.head \in Texts
    BY <1>1, <2>1, <2>3, CleanHead
  <2>5. QED
    BY <1>0, <2>4 DEF PrintedFile, q
<1>3. ASSUME NEW p \in Commit PROVE PrintedPatch(p) \in Texts
  <2>1. /\ p.prelude \in Seq(Loose) /\ p.trailer \in Seq(Loose)
        /\ p.files \in Seq(PatchFile) /\ Len(p.files) \in Nat
    BY LenProperties DEF Commit
  <2>2. \A k \in 1..Len(p.files) : PrintedFile(p.files[k]) \in Texts
    BY <1>2, <2>1, ElementOfSeq
  <2> DEFINE q == [k \in 1..Len(p.files) |-> PrintedFile(p.files[k])]
  <2>3. q \in [1..Len(p.files) -> Texts]
    BY <2>2
  <2> HIDE DEF q
  <2>4. FlattenSeq(q) \in Texts /\ p.prelude \in Texts /\ p.trailer \in Texts
    BY <1>1, <2>1, <2>3, CleanLoose
  <2>5. QED
    BY <1>0, <2>4 DEF PrintedPatch, q
<1>4. s.patches \in Seq(Commit) /\ Len(s.patches) \in Nat
  BY SourcesAssumption, LenProperties
<1>5. \A k \in 1..Len(s.patches) : PrintedPatch(s.patches[k]) \in Texts
  BY <1>3, <1>4, ElementOfSeq
<1> DEFINE q == [k \in 1..Len(s.patches) |-> PrintedPatch(s.patches[k])]
<1>6. q \in [1..Len(s.patches) -> Texts]
  BY <1>5
<1> HIDE DEF q
<1>7. QED
  BY <1>1, <1>4, <1>6 DEF Printed, q

-----------------------------------------------------------------------------
(* Where a prelude, a hunk and a trailer end. *)

LEMMA EndBeforeShape ==
  ASSUME text \in Seq(Lines), hd \in 1..Len(text) + 1, NEW kinds
  PROVE  /\ EndBefore(kinds) \in hd - 1..Len(text)
         /\ \A k \in hd..EndBefore(kinds) : text[k] \notin kinds
         /\ EndBefore(kinds) < Len(text) => text[EndBefore(kinds) + 1] \in kinds
<1> DEFINE next == {k \in hd..Len(text) : text[k] \in kinds}
           end == IF next = {} THEN Len(text) ELSE Min(next) - 1
<1>1. Len(text) \in Nat /\ hd \in Int
  BY LenProperties
<1>2. EndBefore(kinds) = end
  BY DEF EndBefore
<1>3. CASE next = {}
  <2>1. end = Len(text)
    BY <1>3
  <2>2. \A k \in hd..Len(text) : text[k] \notin kinds
    BY <1>3
  <2> HIDE DEF end
  <2>3. QED
    BY <1>1, <1>2, <2>1, <2>2
<1>4. CASE next # {}
  <2>1. end = Min(next) - 1
    BY <1>4
  <2>2. next \in SUBSET Int /\ \A k \in next : hd <= k
    BY <1>1
  <2>3. Min(next) \in next /\ \A k \in next : Min(next) <= k
    <3> HIDE DEF next
    <3>1. QED
      BY <1>1, <1>4, <2>2, MinShape
  <2>4. /\ Min(next) \in hd..Len(text) /\ text[Min(next)] \in kinds
        /\ \A k \in hd..Min(next) - 1 : text[k] \notin kinds
    <3> DEFINE m == Min(next)
    <3>1. m \in hd..Len(text) /\ text[m] \in kinds
      BY <2>3
    <3>2. \A k \in hd..Len(text) : text[k] \in kinds => m <= k
      BY <2>3
    <3> HIDE DEF m
    <3>3. \A k \in hd..m - 1 : text[k] \notin kinds
      BY <1>1, <3>1, <3>2
    <3>4. QED
      BY <3>1, <3>3 DEF m
  <2> DEFINE m == Min(next)
  <2> HIDE DEF end, next, m
  <2>5. end = m - 1 /\ m \in hd..Len(text) /\ text[m] \in kinds
        /\ \A k \in hd..m - 1 : text[k] \notin kinds
    BY <2>1, <2>4 DEF m
  <2>6. end \in hd - 1..Len(text) /\ end + 1 = m
    BY <1>1, <2>5
  <2>7. QED
    BY <1>2, <2>5, <2>6
<1>5. QED
  BY <1>3, <1>4

\* The last line of the hunk whose "@@" line is the next.
BodyEnd ==
  IF hd = Len(text) THEN hd
  ELSE Max({k \in hd..Len(text) :
              \A j \in hd + 1..k : text[j] \notin BodyEnds})

LEMMA BodyEndShape ==
  ASSUME text \in Seq(Lines), hd \in 1..Len(text)
  PROVE  /\ BodyEnd \in hd..Len(text)
         /\ \A j \in hd + 1..BodyEnd : text[j] \notin BodyEnds
         /\ BodyEnd < Len(text) => text[BodyEnd + 1] \in BodyEnds
<1> DEFINE S == {k \in hd..Len(text) :
                   \A j \in hd + 1..k : text[j] \notin BodyEnds}
<1>1. Len(text) \in Nat /\ hd \in 1..Len(text)
  BY LenProperties
<1>2. hd \in S /\ S \in SUBSET Int /\ \A k \in S : k <= Len(text)
  BY <1>1
<1>3. Max(S) \in S /\ \A k \in S : k <= Max(S)
  <2> HIDE DEF S
  <2>1. S # {} /\ Len(text) \in Int
    BY <1>1, <1>2
  <2>2. QED
    BY <1>2, <2>1, MaxShape
<1>4. BodyEnd = Max(S)
  <2>1. CASE hd = Len(text)
    <3>1. \A k \in S : k = hd
      BY <1>1, <2>1
    <3>2. Max(S) = hd
      BY <1>3, <3>1
    <3>3. QED
      BY <2>1, <3>2 DEF BodyEnd
  <2>2. CASE hd # Len(text)
    BY <2>2 DEF BodyEnd
  <2>3. QED
    BY <2>1, <2>2
<1> DEFINE m == Max(S)
<1>5. /\ m \in hd..Len(text) /\ \A j \in hd + 1..m : text[j] \notin BodyEnds
      /\ \A k \in hd..Len(text) :
           (\A j \in hd + 1..k : text[j] \notin BodyEnds) => k <= m
  BY <1>3
<1> HIDE DEF m, S
<1>6. ASSUME m < Len(text), text[m + 1] \notin BodyEnds PROVE FALSE
  <2>1. m + 1 \in hd..Len(text) /\ m \in Int
    BY <1>1, <1>5, <1>6
  <2>2. ASSUME NEW j \in hd + 1..m + 1 PROVE text[j] \notin BodyEnds
    <3>1. j = m + 1 \/ j \in hd + 1..m
      BY <2>1
    <3>2. QED
      BY <1>5, <1>6, <3>1
  <2>3. m + 1 <= m
    BY <1>5, <2>1, <2>2
  <2>4. QED
    BY <2>1, <2>3
<1>7. QED
  BY <1>4, <1>5, <1>6 DEF m

\* The hunk itself.
LEMMA BodyOfHunk ==
  ASSUME text \in Texts, hd \in 1..Len(text), text[hd] = "@@"
  PROVE  SubSeq(text, hd + 1, BodyEnd) \in Seq(BodyKinds)
<1>1. /\ text \in Seq(Lines) /\ Clean(text) /\ Len(text) \in Nat
  BY LenProperties DEF Texts
<1>2. /\ BodyEnd \in hd..Len(text)
      /\ \A j \in hd + 1..BodyEnd : text[j] \notin BodyEnds
  BY <1>1, BodyEndShape
<1>3. ASSUME NEW m \in hd + 1..BodyEnd PROVE text[m] \in BodyKinds
  <2>1. /\ hd \in 0..Len(text) /\ m \in hd + 1..Len(text)
        /\ \A j \in hd + 1..m : j \in hd + 1..BodyEnd
    BY <1>1, <1>2
  <2>2. \A j \in hd + 1..m : text[j] \notin BodyEnds
    BY <1>2, <2>1
  <2>3. QED
    BY <1>1, <2>1, <2>2 DEF Clean
<1>4. hd + 1 \in Int /\ BodyEnd \in Int
  BY <1>1, <1>2
<1>5. QED
  BY <1>3, <1>4, SubSeqProperties

\* The trailer starts within the body.
LEMMA LastTrailerShape ==
  ASSUME NEW n \in Nat, NEW found \in SUBSET (2..n), found # {}
  PROVE  LastTrailer(found) \in 2..n
<1> DEFINE last == Max(found)
           S == {k \in found : \A j \in k..last : j \in found}
           first == Min(S)
<1>1. last \in found /\ \A k \in found : k <= last
  <2>1. \A k \in found : k \in 2..n
    OBVIOUS
  <2>2. found \in SUBSET Int /\ n \in Int /\ \A k \in found : k <= n
    BY <2>1
  <2>3. QED
    BY <2>2, MaxShape
<1>2. last \in S /\ S \in SUBSET Int /\ \A k \in S : 2 <= k
  <2>0. \A k \in found : k \in 2..n
    OBVIOUS
  <2> HIDE DEF last
  <2>1. last \in Int
    BY <1>1, <2>0
  <2>2. \A j \in last..last : j = last
    BY <2>1
  <2>3. last \in S
    BY <1>1, <2>2
  <2>4. \A k \in S : k \in Int /\ 2 <= k
    BY <2>0
  <2>5. QED
    BY <2>3, <2>4
<1>3. first \in S /\ \A k \in S : first <= k
  <2> HIDE DEF S, last
  <2>1. S # {} /\ 2 \in Int
    BY <1>2
  <2>2. QED
    BY <1>2, <2>1, MinShape
<1>4. first \in 2..n /\ last \in 2..n /\ first <= last
  <2>1. first \in found
    BY <1>3
  <2> HIDE DEF first, last
  <2>2. QED
    BY <1>1, <1>2, <1>3, <2>1
<1>5. LastTrailer(found) = first + 2 * ((last - first) \div 2)
  BY DEF LastTrailer
<1> HIDE DEF first, last
<1>6. /\ (last - first) \div 2 \in Nat
      /\ 2 * ((last - first) \div 2) <= last - first
  BY <1>4
<1>7. QED
  BY <1>4, <1>5, <1>6

-----------------------------------------------------------------------------
(* Types. *)

ParserTypes ==
  /\ source \in Sources /\ text \in Texts /\ cut \in BOOLEAN
  /\ pc \in Places \cup Broken
  /\ hd \in 1..Len(text) + 1
  /\ patch \in Seq(Seq(BodyKinds))
  /\ hunks \in 0..Len(patch) /\ diffs \in Nat
  /\ pc = "line" => patch # <<>>

LEMMA InitParserTypes == InitParser => ParserTypes
<1> SUFFICES ASSUME InitParser PROVE ParserTypes
  OBVIOUS
<1>1. /\ source \in Sources /\ text = Printed(source) /\ cut \in BOOLEAN
      /\ pc = (IF source.series THEN "series prelude" ELSE "prelude")
      /\ hd = 1 /\ patch = <<>> /\ diffs = 0 /\ hunks = 0
  BY DEF InitParser
<1>2. text \in Texts
  BY <1>1, CleanPrinted
<1>3. text \in Seq(Lines) /\ Len(text) \in Nat
  BY <1>2, LenProperties DEF Texts
<1>4. patch \in Seq(Seq(BodyKinds)) /\ Len(patch) = 0
  BY <1>1, EmptySeq
<1>5. pc \in Places \cup Broken /\ pc # "line"
  <2>1. pc = "series prelude" \/ pc = "prelude"
    BY <1>1, Zenon
  <2>2. pc \in Places \cup Broken
    BY <2>1, Zenon DEF Places
  <2>3. pc # "line"
    BY <2>1
  <2>4. QED
    BY <2>2, <2>3, Zenon
<1>6. hd \in 1..Len(text) + 1 /\ hunks \in 0..Len(patch) /\ diffs \in Nat
  <2>1. hd = 1 /\ hunks = 0 /\ diffs = 0
    BY <1>1
  <2>2. QED
    BY <1>3, <1>4, <2>1
<1>7. QED
  BY <1>1, <1>2, <1>4, <1>5, <1>6 DEF ParserTypes

\* Where a step of the parser only goes on to a place and a line.
LEMMA AdvanceTypes ==
  ASSUME ParserTypes, NEW place \in Places \cup Broken, NEW to \in 1..Len(text) + 1,
         Advance(place, to), diffs' \in Nat, hunks' \in 0..Len(patch),
         place = "line" => patch # <<>>
  PROVE  ParserTypes'
<1>1. /\ pc' = place /\ hd' = to /\ source' = source /\ text' = text
      /\ cut' = cut /\ patch' = patch
  BY DEF Advance, file
<1>2. Len(text') = Len(text) /\ Len(patch') = Len(patch)
  BY <1>1
<1>3. QED
  BY <1>1, <1>2, Zenon DEF ParserTypes

LEMMA ParserTypesStep ==
  ASSUME ParserTypes, NextParser
  PROVE  ParserTypes'
<1>1. /\ text \in Texts /\ text \in Seq(Lines) /\ Len(text) \in Nat
      /\ hd \in 1..Len(text) + 1 /\ diffs \in Nat /\ hunks \in 0..Len(patch)
      /\ patch \in Seq(Seq(BodyKinds)) /\ Len(patch) \in Nat
      /\ cut \in BOOLEAN /\ source \in Sources
  BY LenProperties DEF ParserTypes, Texts
<1>2. /\ {"series prelude", "series", "prelude", "diffs", "header",
          "new file mode", "index", "r file", "a file", "hunks", "line",
          "done", "failed", "abort"} \subseteq Places \cup Broken
  BY Zenon DEF Places, Broken
<1>3. \A kinds : EndBefore(kinds) + 1 \in 1..Len(text) + 1
  <2>1. SUFFICES ASSUME NEW kinds PROVE EndBefore(kinds) + 1 \in 1..Len(text) + 1
    OBVIOUS
  <2>2. EndBefore(kinds) \in hd - 1..Len(text)
    BY <1>1, EndBeforeShape
  <2>3. QED
    BY <1>1, <2>2
<1>4. \A kinds : Sees(kinds) => hd \in 1..Len(text) /\ hd + 1 \in 1..Len(text) + 1
  BY <1>1 DEF Sees, AtEnd
<1>5. 0 \in Nat /\ diffs + 1 \in Nat /\ 0 \in 0..Len(patch)
  BY <1>1
<1>6. CASE SeriesPrelude
  BY <1>1, <1>2, <1>3, <1>6, AdvanceTypes DEF SeriesPrelude
<1>7. CASE NextPatch
  BY <1>1, <1>2, <1>7, AdvanceTypes DEF NextPatch
<1>8. CASE PatchPrelude
  BY <1>1, <1>2, <1>3, <1>5, <1>8, AdvanceTypes DEF PatchPrelude
<1>9. CASE NextDiff
  BY <1>1, <1>2, <1>5, <1>9, AdvanceTypes DEF NextDiff
<1>10. CASE DiffHeader
  BY <1>1, <1>2, <1>4, <1>10, AdvanceTypes DEF DiffHeader
<1>11. CASE NewFileMode
  <2> DEFINE to == IF Sees({"new file mode"}) THEN hd + 1 ELSE hd
  <2>1. to \in 1..Len(text) + 1
    BY <1>1, <1>4
  <2>2. Advance("index", to) /\ diffs' = diffs /\ hunks' = hunks
    BY <1>11 DEF NewFileMode
  <2> HIDE DEF to
  <2>3. QED
    BY <1>1, <1>2, <2>1, <2>2, AdvanceTypes
<1>12. CASE IndexLine
  BY <1>1, <1>2, <1>4, <1>12, AdvanceTypes DEF IndexLine
<1>13. CASE FileLine
  <2> DEFINE place == IF pc = "r file" THEN "a file" ELSE "hunks"
  <2>1. place \in Places \cup Broken /\ place # "line"
    BY <1>2
  <2>2. Advance(place, hd + 1) /\ diffs' = diffs /\ hunks' = hunks
        /\ hd + 1 \in 1..Len(text) + 1
    BY <1>4, <1>13 DEF FileLine
  <2> HIDE DEF place
  <2>3. QED
    BY <1>1, <2>1, <2>2, AdvanceTypes
<1>14. CASE Hunk
  <2>1. /\ pc = "hunks" /\ hd \in 1..Len(text) /\ text[hd] = "@@"
    BY <1>4, <1>14 DEF Hunk, Sees, line
  <2>2. /\ patch' = Append(patch, SubSeq(text, hd + 1, BodyEnd))
        /\ hd' = BodyEnd + 1 /\ hunks' = hunks + 1
        /\ source' = source /\ text' = text /\ cut' = cut /\ pc' = pc
        /\ diffs' = diffs
    BY <1>14 DEF Hunk, BodyEnd, file
  <2>3. SubSeq(text, hd + 1, BodyEnd) \in Seq(BodyKinds)
        /\ BodyEnd \in hd..Len(text)
    BY <1>1, <2>1, BodyOfHunk, BodyEndShape
  <2>4. patch' \in Seq(Seq(BodyKinds)) /\ Len(patch') = Len(patch) + 1
    BY <1>1, <2>2, <2>3, AppendProperties
  <2>5. hd' \in 1..Len(text') + 1 /\ hunks' \in 0..Len(patch')
    BY <1>1, <2>1, <2>2, <2>3, <2>4
  <2>6. QED
    BY <1>1, <1>2, <2>1, <2>2, <2>4, <2>5, Zenon DEF ParserTypes
<1>15. CASE DiffEnd
  BY <1>1, <1>2, <1>15, AdvanceTypes DEF DiffEnd
<1>16. CASE Fixup
  <2> DEFINE body == Last(patch)
             found == IF diffs = 0 THEN {} ELSE Trailers(body, cut /\ AtEnd)
  <2>1. /\ PatchEnds /\ ~(diffs > 0 /\ hunks = 0)
        /\ IF found = {} THEN patch' = patch /\ cut' = cut
           ELSE /\ patch' = [patch EXCEPT ![Len(patch)] =
                               SubSeq(body, 1, LastTrailer(found) - 1)]
                /\ cut' = (cut /\ ~AtEnd)
        /\ pc' = AfterPatch
        /\ source' = source /\ text' = text /\ hd' = hd /\ diffs' = diffs
        /\ hunks' = hunks
    BY <1>16 DEF Fixup, file
  <2>2. cut' \in BOOLEAN
    BY <1>1, <2>1, Zenon
  <2>3. patch' \in Seq(Seq(BodyKinds)) /\ Len(patch') = Len(patch)
    <3>1. CASE found = {}
      BY <1>1, <2>1, <3>1
    <3>2. CASE found # {}
      <4>1. diffs # 0 /\ found = Trailers(body, cut /\ AtEnd)
        BY <3>2
      <4>2. Len(patch) \in 1..Len(patch) /\ body \in Seq(BodyKinds)
        <5>1. Len(patch) \in 1..Len(patch)
          BY <1>1, <2>1, <4>1
        <5>2. QED
          BY <1>1, <5>1, ElementOfSeq DEF Last
      <4>3. Len(body) \in Nat /\ found \in SUBSET (2..Len(body))
        BY <4>1, <4>2, LenProperties DEF Trailers
      <4>4. LastTrailer(found) \in 2..Len(body)
        BY <3>2, <4>3, LastTrailerShape
      <4> DEFINE m == LastTrailer(found) - 1
                 cut_body == SubSeq(body, 1, m)
      <4>5. m \in 1..Len(body) /\ 1 \in Int /\ m \in Int
        BY <4>3, <4>4
      <4> HIDE DEF m, body, found
      <4>6. \A k \in 1..m : body[k] \in BodyKinds
        BY <4>2, <4>3, <4>5, ElementOfSeq
      <4>7. cut_body \in Seq(BodyKinds)
        BY <4>5, <4>6, SubSeqProperties
      <4>8. patch' = [patch EXCEPT ![Len(patch)] = cut_body]
        BY <2>1, <3>2 DEF m
      <4> HIDE DEF cut_body
      <4>9. QED
        BY <1>1, <4>2, <4>7, <4>8, ExceptSeq
    <3>3. QED
      BY <3>1, <3>2
  <2>4. pc' \in Places \cup Broken /\ (pc' = "line" => patch' # <<>>)
    <3>1. pc' \in {"series", "done", "line"} /\ (pc' = "line" => patch # <<>>)
      BY <2>1 DEF AfterPatch
    <3>2. patch # <<>> => patch' # <<>>
      BY <1>1, <2>3, EmptySeq
    <3>3. QED
      BY <1>2, <3>1, <3>2
  <2>5. hunks' \in 0..Len(patch') /\ hd' \in 1..Len(text') + 1
    BY <1>1, <2>1, <2>3
  <2>6. QED
    BY <1>1, <2>1, <2>2, <2>3, <2>4, <2>5, Zenon DEF ParserTypes
<1>17. CASE FixupAborts
  BY <1>1, <1>2, <1>17, AdvanceTypes DEF FixupAborts
<1>18. CASE SeriesEnd
  <2> DEFINE place == IF patch = <<>> THEN "done" ELSE "line"
  <2>1. place \in Places \cup Broken /\ (place = "line" => patch # <<>>)
    BY <1>2
  <2>2. Advance(place, hd) /\ diffs' = diffs /\ hunks' = hunks
    BY <1>18 DEF SeriesEnd
  <2> HIDE DEF place
  <2>3. QED
    BY <1>1, <2>1, <2>2, AdvanceTypes
<1>19. CASE ParserFails
  <2>1. Advance("failed", hd) /\ diffs' = diffs /\ hunks' = hunks
    BY <1>19 DEF ParserFails
  <2>2. QED
    BY <1>1, <1>2, <2>1, AdvanceTypes
<1>20. QED
  BY <1>6, <1>7, <1>8, <1>9, <1>10, <1>11, <1>12, <1>13, <1>14, <1>15, <1>16,
     <1>17, <1>18, <1>19 DEF NextParser

Sides == [start : Int, end : Int]

CommentType ==
  [hunk : Int, line : Int, after : Sides, before : Sides,
   start_is_in_new : BOOLEAN, end_is_in_new : BOOLEAN, text : Seq(Int)]

Parsing == pc \in Places \ {"line", "done"}

\* The lines of the hunks from the k-th on.
LinesFrom(k) == Len(FlattenSeq(Onward(patch, k)))

\* Of the scanner: before it runs, where it is, what it has, and that it makes
\* at most one comment of a line.
ScannerTypes ==
  /\ Parsing => /\ h = 1 /\ i = 1 /\ row = RangeStart(1) /\ comments = <<>>
                /\ range_start = 0
                /\ in_comment = FALSE /\ in_multiline = FALSE /\ is_first = TRUE
  /\ pc = "line" => /\ h \in 1..Len(patch) /\ i \in 1..Len(hunk) + 1
                    /\ range_start \in 0..Len(hunk)
  /\ row \in [after : Nat, before : Nat]
  /\ comments \in Seq(CommentType)
  /\ in_comment \in BOOLEAN /\ in_multiline \in BOOLEAN /\ is_first \in BOOLEAN
  /\ pc = "line" => Len(comments) + LinesFrom(h + 1) + Len(hunk) + 1 - i
                      <= Len(FlattenSeq(patch))
  /\ pc # "line" => Len(comments) <= Len(FlattenSeq(patch))

TypeInv == ParserTypes /\ ScannerTypes

LEMMA LinesFromShape ==
  ASSUME patch \in Seq(Seq(BodyKinds))
  PROVE  /\ \A k \in 1..Len(patch) : /\ Len(patch[k]) \in Nat
                                     /\ LinesFrom(k) = Len(patch[k]) + LinesFrom(k + 1)
         /\ \A k \in 1..Len(patch) + 1 : LinesFrom(k) \in Nat
         /\ LinesFrom(1) = Len(FlattenSeq(patch))
         /\ Len(FlattenSeq(patch)) \in Nat
<1>1. /\ \A k \in 1..Len(patch) : FlattenSeq(Onward(patch, k))
                                    = patch[k] \o FlattenSeq(Onward(patch, k + 1))
      /\ \A k \in 1..Len(patch) + 1 : FlattenSeq(Onward(patch, k)) \in Seq(BodyKinds)
      /\ Len(patch) \in Nat
  BY FlattenOnward, LenProperties
<1>2. ASSUME NEW k \in 1..Len(patch)
      PROVE  /\ Len(patch[k]) \in Nat
             /\ LinesFrom(k) = Len(patch[k]) + LinesFrom(k + 1)
  <2>1. /\ patch[k] \in Seq(BodyKinds) /\ k + 1 \in 1..Len(patch) + 1
    BY <1>1, ElementOfSeq
  <2>2. FlattenSeq(Onward(patch, k + 1)) \in Seq(BodyKinds)
    BY <1>1, <2>1
  <2>3. QED
    BY <1>1, <2>1, <2>2, ConcatProperties, LenProperties DEF LinesFrom
<1>3. \A k \in 1..Len(patch) + 1 : LinesFrom(k) \in Nat
  BY <1>1, LenProperties DEF LinesFrom
<1>4. LinesFrom(1) = Len(FlattenSeq(patch))
  BY OnwardAll DEF LinesFrom
<1>5. 1 \in 1..Len(patch) + 1
  BY <1>1
<1>6. QED
  BY <1>2, <1>3, <1>4, <1>5

LEMMA InitTypes == Init => TypeInv
<1> SUFFICES ASSUME Init PROVE TypeInv
  OBVIOUS
<1>1. /\ h = 1 /\ i = 1 /\ row = RangeStart(1) /\ comments = <<>>
      /\ range_start = 0 /\ in_comment = FALSE /\ in_multiline = FALSE
      /\ is_first = TRUE
  BY DEF Init
<1>2. ParserTypes
  BY InitParserTypes DEF Init
<1>3. pc # "line"
  <2>1. pc = "series prelude" \/ pc = "prelude"
    BY Zenon DEF Init, InitParser
  <2>2. QED
    BY <2>1
<1>4. row \in [after : Nat, before : Nat]
  BY <1>1 DEF RangeStart, HunkDistance
<1>5. comments \in Seq(CommentType) /\ Len(comments) = 0
  BY <1>1, EmptySeq
<1>6. Len(FlattenSeq(patch)) \in Nat
  BY <1>2, LinesFromShape DEF ParserTypes
<1>7. Len(comments) <= Len(FlattenSeq(patch))
  BY <1>5, <1>6
<1>8. QED
  BY <1>1, <1>2, <1>3, <1>4, <1>5, <1>7, Zenon DEF ScannerTypes, TypeInv

\* The parser leaves the scanner alone until it has done its work.
LEMMA ParseTypes ==
  ASSUME TypeInv, Parse
  PROVE  TypeInv'
<1>1. /\ NextParser /\ h' = h /\ i' = i /\ comments' = comments /\ row' = row
      /\ range_start' = range_start /\ in_comment' = in_comment
      /\ in_multiline' = in_multiline /\ is_first' = is_first
  BY DEF Parse, scan
<1>2. ParserTypes'
  BY <1>1, ParserTypesStep DEF TypeInv
<1>3. Parsing
  <2>1. pc \notin {"line", "done"}
    BY <1>1 DEF NextParser, SeriesPrelude, NextPatch, PatchPrelude, NextDiff,
                DiffHeader, NewFileMode, IndexLine, FileLine, Hunk, DiffEnd,
                Fixup, FixupAborts, SeriesEnd, ParserFails, PatchEnds
  <2>2. pc \notin Broken
    BY <1>1 DEF NextParser, SeriesPrelude, NextPatch, PatchPrelude, NextDiff,
                DiffHeader, NewFileMode, IndexLine, FileLine, Hunk, DiffEnd,
                Fixup, FixupAborts, SeriesEnd, ParserFails, PatchEnds, Broken
  <2>3. QED
    BY <2>1, <2>2 DEF Parsing, TypeInv, ParserTypes
<1>4. /\ h' = 1 /\ i' = 1 /\ row' = RangeStart(1) /\ comments' = <<>>
      /\ range_start' = 0 /\ in_comment' = FALSE /\ in_multiline' = FALSE
      /\ is_first' = TRUE
  BY <1>1, <1>3, Zenon DEF TypeInv, ScannerTypes
<1>5. row' \in [after : Nat, before : Nat]
  BY <1>1 DEF TypeInv, ScannerTypes
<1>6. comments' \in Seq(CommentType) /\ Len(comments') = 0
  BY <1>4, EmptySeq
<1> DEFINE n == Len(FlattenSeq(patch))
<1>7. n' \in Nat /\ Len(comments') <= n'
  <2>1. patch' \in Seq(Seq(BodyKinds))
    BY <1>2 DEF ParserTypes
  <2>2. FlattenSeq(patch') \in Seq(BodyKinds)
    <3>1. <<>> \in Seq(BodyKinds)
      BY EmptySeq
    <3>2. QED
      BY <2>1, <3>1, FlattenAppend
  <2>3. QED
    BY <1>6, <2>2, LenProperties
<1>8. ASSUME pc' = "line"
      PROVE  /\ h' \in 1..Len(patch') /\ i' \in 1..Len(hunk') + 1
             /\ range_start' \in 0..Len(hunk')
             /\ Len(comments') + LinesFrom(h + 1)' + Len(hunk') + 1 - i' <= n'
  <2>1. patch' \in Seq(Seq(BodyKinds)) /\ patch' # <<>>
    BY <1>2, <1>8 DEF ParserTypes
  <2>2. Len(patch') \in Nat \ {0} /\ 1 \in 1..Len(patch')
    BY <2>1, EmptySeq
  <2>3. patch'[1] \in Seq(BodyKinds) /\ hunk' = patch'[1]
    BY <1>4, <2>1, <2>2, ElementOfSeq DEF hunk
  <2>4. Len(hunk') \in Nat
    BY <2>3, LenProperties
  <2>5. LinesFrom(1)' = Len(hunk') + LinesFrom(h + 1)' /\ LinesFrom(1)' = n'
    <3>1. /\ FlattenSeq(Onward(patch', 1))
               = patch'[1] \o FlattenSeq(Onward(patch', 1 + 1))
          /\ FlattenSeq(Onward(patch', 1 + 1)) \in Seq(BodyKinds)
      <4>1. 1 + 1 \in 1..Len(patch') + 1
        BY <2>2
      <4>2. QED
        BY <2>1, <2>2, <4>1, FlattenOnward, Zenon
    <3>2. Len(FlattenSeq(Onward(patch', 1)))
            = Len(patch'[1]) + Len(FlattenSeq(Onward(patch', 1 + 1)))
      BY <2>3, <3>1, ConcatProperties
    <3>3. Onward(patch', 1) = patch'
      BY <2>1, OnwardAll
    <3>4. /\ LinesFrom(1)' = Len(FlattenSeq(Onward(patch', 1)))
          /\ LinesFrom(h + 1)' = Len(FlattenSeq(Onward(patch', 1 + 1)))
      BY <1>4, Zenon DEF LinesFrom
    <3>5. QED
      BY <2>3, <3>2, <3>3, <3>4, Zenon
  <2>6. h' = 1 /\ i' = 1 /\ range_start' = 0
    BY <1>4
  <2>7. /\ h' \in 1..Len(patch') /\ i' \in 1..Len(hunk') + 1
        /\ range_start' \in 0..Len(hunk')
    BY <2>2, <2>4, <2>6
  <2>8. Len(hunk') + LinesFrom(h + 1)' = n'
    BY <2>5
  <2> DEFINE behind == LinesFrom(h + 1)'
             top == n'
             lines == Len(hunk')
  <2> HIDE DEF behind, top, lines
  <2>9. lines \in Nat /\ top \in Nat /\ lines + behind = top
    BY <1>7, <2>4, <2>8 DEF behind, top, lines
  <2>10. behind \in Nat
    <3>1. FlattenSeq(Onward(patch', h' + 1)) \in Seq(BodyKinds)
      <4>1. h' + 1 \in 1..Len(patch') + 1
        BY <2>2, <2>6
      <4>2. QED
        BY <2>1, <4>1, FlattenOnward
    <3>2. QED
      BY <3>1, LenProperties DEF behind, LinesFrom
  <2>11. 0 + behind + lines + 1 - 1 <= top
    BY <2>9, <2>10
  <2>12. Len(comments') + behind + lines + 1 - i' <= top
    BY <1>6, <2>6, <2>11
  <2>13. QED
    BY <2>7, <2>12 DEF behind, top, lines
<1>9. ScannerTypes'
  BY <1>4, <1>5, <1>6, <1>7, <1>8, Zenon DEF ScannerTypes
<1>10. QED
  BY <1>2, <1>9 DEF TypeInv

-----------------------------------------------------------------------------
(* What the steps of the scanner make of a comment. *)

LEMMA FieldsOfComment ==
  ASSUME NEW x \in CommentType
  PROVE  /\ x.hunk \in Int /\ x.line \in Int
         /\ x.after \in Sides /\ x.before \in Sides
         /\ x.start_is_in_new \in BOOLEAN /\ x.end_is_in_new \in BOOLEAN
         /\ x.text \in Seq(Int)
         /\ x = [hunk |-> x.hunk, line |-> x.line, after |-> x.after,
                 before |-> x.before, start_is_in_new |-> x.start_is_in_new,
                 end_is_in_new |-> x.end_is_in_new, text |-> x.text]
BY Zenon DEF CommentType

LEMMA CommentIs ==
  ASSUME NEW a \in Int, NEW b \in Int, NEW u \in Sides, NEW v \in Sides,
         NEW s \in BOOLEAN, NEW e \in BOOLEAN, NEW t \in Seq(Int)
  PROVE  [hunk |-> a, line |-> b, after |-> u, before |-> v,
          start_is_in_new |-> s, end_is_in_new |-> e, text |-> t] \in CommentType
BY Zenon DEF CommentType

LEMMA CommentTyped ==
  ASSUME h \in Int, i \in Int, row \in [after : Nat, before : Nat]
  PROVE  Comment \in CommentType
<1>1. /\ [start |-> row.after, end |-> row.after] \in Sides
      /\ [start |-> row.before, end |-> row.before] \in Sides
  BY DEF Sides
<1>2. <<>> \in Seq(Int) /\ FALSE \in BOOLEAN
  BY EmptySeq, Zenon
<1>3. QED
  BY <1>1, <1>2, CommentIs, Zenon DEF Comment

\* A diff line completes a comment that lacks its text, or tells one in braces
\* on which side it is, or leaves it alone.
LEMMA NoticedShape ==
  ASSUME c \in CommentType, h \in Int, i \in Int
  PROVE  /\ Noticed \in CommentType
         /\ Noticed = [hunk |-> c.hunk, line |-> c.line, after |-> c.after,
                       before |-> c.before,
                       start_is_in_new |-> Noticed.start_is_in_new,
                       end_is_in_new |-> Noticed.end_is_in_new,
                       text |-> IF c.text = <<>> /\ ~in_multiline
                                  THEN <<h, i, i>> ELSE c.text]
         /\ c.text = <<>> /\ ~in_multiline =>
              Noticed.start_is_in_new = (kind = "add")
                /\ Noticed.end_is_in_new = (kind = "add")
         /\ in_comment /\ in_multiline =>
              Noticed.start_is_in_new
                = (IF is_first THEN kind = "add" ELSE c.start_is_in_new)
                /\ Noticed.end_is_in_new = (kind = "add")
         /\ c.text # <<>> /\ ~(in_comment /\ in_multiline) => Noticed = c
<1> DEFINE new == kind = "add"
           A == c.text = <<>> /\ ~in_multiline
           B == in_comment /\ in_multiline
           s == IF is_first THEN new ELSE c.start_is_in_new
<1>1. /\ c.hunk \in Int /\ c.line \in Int
      /\ c.after \in Sides /\ c.before \in Sides
      /\ c.start_is_in_new \in BOOLEAN /\ c.end_is_in_new \in BOOLEAN
      /\ c.text \in Seq(Int)
      /\ c = [hunk |-> c.hunk, line |-> c.line, after |-> c.after,
              before |-> c.before, start_is_in_new |-> c.start_is_in_new,
              end_is_in_new |-> c.end_is_in_new, text |-> c.text]
  BY FieldsOfComment
<1>2. new \in BOOLEAN /\ s \in BOOLEAN /\ <<h, i, i>> \in Seq(Int)
  <2>1. new \in BOOLEAN
    BY Zenon
  <2>2. s \in BOOLEAN
    BY <1>1, <2>1, Zenon
  <2>3. QED
    BY <2>1, <2>2
<1>3. CASE A
  <2> DEFINE d == [hunk |-> c.hunk, line |-> c.line, after |-> c.after,
                   before |-> c.before, start_is_in_new |-> new,
                   end_is_in_new |-> new, text |-> <<h, i, i>>]
  <2>1. ~B
    BY <1>3, Zenon
  <2>2. Noticed = [c EXCEPT !.text = <<h, i, i>>, !.start_is_in_new = new,
                            !.end_is_in_new = new]
    BY <1>3, <2>1, Zenon DEF Noticed
  <2> HIDE DEF new
  <2>3. Noticed = d
    BY <1>1, <2>2, Zenon
  <2>4. d \in CommentType
    BY <1>1, <1>2, CommentIs, Zenon
  <2>5. d.start_is_in_new = new /\ d.end_is_in_new = new
    BY Zenon
  <2> HIDE DEF d
  <2>6. Noticed \in CommentType /\ Noticed.start_is_in_new = new
        /\ Noticed.end_is_in_new = new
    BY <2>3, <2>4, <2>5, Zenon
  <2>7. Noticed = [hunk |-> c.hunk, line |-> c.line, after |-> c.after,
                   before |-> c.before,
                   start_is_in_new |-> Noticed.start_is_in_new,
                   end_is_in_new |-> Noticed.end_is_in_new,
                   text |-> <<h, i, i>>]
    BY <2>3, <2>6, Zenon DEF d
  <2>8. QED
    BY <1>3, <2>1, <2>6, <2>7, Zenon DEF new
<1>4. CASE ~A /\ B
  <2> DEFINE d == [hunk |-> c.hunk, line |-> c.line, after |-> c.after,
                   before |-> c.before, start_is_in_new |-> s,
                   end_is_in_new |-> new, text |-> c.text]
  <2>2. Noticed = [c EXCEPT !.start_is_in_new = IF is_first THEN new ELSE @,
                            !.end_is_in_new = new]
    BY <1>4, Zenon DEF Noticed
  <2> HIDE DEF new
  <2>3. Noticed = d
    BY <1>1, <2>2, Zenon
  <2> HIDE DEF s
  <2>4. d \in CommentType
    BY <1>1, <1>2, CommentIs, Zenon
  <2>5. d.start_is_in_new = s /\ d.end_is_in_new = new
    BY Zenon
  <2> HIDE DEF d
  <2>6. Noticed \in CommentType /\ Noticed.start_is_in_new = s
        /\ Noticed.end_is_in_new = new
    BY <2>3, <2>4, <2>5, Zenon
  <2>7. Noticed = [hunk |-> c.hunk, line |-> c.line, after |-> c.after,
                   before |-> c.before,
                   start_is_in_new |-> Noticed.start_is_in_new,
                   end_is_in_new |-> Noticed.end_is_in_new,
                   text |-> c.text]
    BY <2>3, <2>6, Zenon DEF d
  <2>8. QED
    BY <1>4, <2>6, <2>7, Zenon DEF new, s
<1>5. CASE ~A /\ ~B
  <2>1. Noticed = c
    BY <1>5, Zenon DEF Noticed
  <2>2. QED
    BY <1>1, <1>5, <2>1, Zenon
<1>6. QED
  BY <1>3, <1>4, <1>5, Zenon

LEMMA EndRowTyped ==
  ASSUME NEW range \in Sides, NEW next \in Int
  PROVE  EndRow(range, next) \in Sides
<1>1. [range EXCEPT !.end = next - 1] \in Sides
  BY DEF Sides
<1>2. QED
  BY <1>1, Zenon DEF EndRow

\* A `}' completes a comment.
LEMMA ClosedShape ==
  ASSUME c \in CommentType, h \in Int, i \in Int, range_start \in Int,
         row \in [after : Nat, before : Nat]
  PROVE  /\ Closed \in CommentType
         /\ Closed = [hunk |-> c.hunk, line |-> c.line,
                      after |-> EndRow(c.after, row.after),
                      before |-> EndRow(c.before, row.before),
                      start_is_in_new |-> c.start_is_in_new,
                      end_is_in_new |-> c.end_is_in_new,
                      text |-> <<h, range_start + 1, i - 1>>]
<1> DEFINE t == <<h, range_start + 1, i - 1>>
           d == [hunk |-> c.hunk, line |-> c.line,
                 after |-> EndRow(c.after, row.after),
                 before |-> EndRow(c.before, row.before),
                 start_is_in_new |-> c.start_is_in_new,
                 end_is_in_new |-> c.end_is_in_new, text |-> t]
<1>1. /\ c.hunk \in Int /\ c.line \in Int
      /\ c.after \in Sides /\ c.before \in Sides
      /\ c.start_is_in_new \in BOOLEAN /\ c.end_is_in_new \in BOOLEAN
      /\ c.text \in Seq(Int)
      /\ c = [hunk |-> c.hunk, line |-> c.line, after |-> c.after,
              before |-> c.before, start_is_in_new |-> c.start_is_in_new,
              end_is_in_new |-> c.end_is_in_new, text |-> c.text]
  BY FieldsOfComment
<1>2. row.after \in Int /\ row.before \in Int /\ t \in Seq(Int)
  OBVIOUS
<1>3. /\ EndRow(c.after, row.after) \in Sides
      /\ EndRow(c.before, row.before) \in Sides
  BY <1>1, <1>2, EndRowTyped
<1> HIDE DEF t
<1>4. d \in CommentType
  BY <1>1, <1>2, <1>3, CommentIs, Zenon
<1>5. Closed = [c EXCEPT !.text = t, !.after = EndRow(@, row.after),
                         !.before = EndRow(@, row.before)]
  BY Zenon DEF Closed, t
<1>6. Closed = d
  BY <1>1, <1>5, Zenon
<1>7. QED
  BY <1>4, <1>6, Zenon DEF t

-----------------------------------------------------------------------------
(* The scanner keeps its types. *)

LEMMA NoteShape ==
  ASSUME i \in Nat, Len(hunk) \in Nat, At(NoteKinds), NoteEnds # {}
  PROVE  /\ Min(NoteEnds) \in i + 1..Len(hunk)
         /\ hunk[Min(NoteEnds)] \in Changed \cup {"open"}
         /\ \A k \in i..Min(NoteEnds) - 1 : hunk[k] \notin Changed \cup {"open"}
<1>1. NoteEnds \in SUBSET Int /\ \A k \in NoteEnds : i <= k
  BY DEF NoteEnds
<1>2. Min(NoteEnds) \in NoteEnds /\ \A k \in NoteEnds : Min(NoteEnds) <= k
  BY <1>1, MinShape
<1> DEFINE m == Min(NoteEnds)
<1>3. /\ m \in i..Len(hunk) /\ hunk[m] \in Changed \cup {"open"}
      /\ \A k \in i..Len(hunk) : hunk[k] \in Changed \cup {"open"} => m <= k
  BY <1>2 DEF NoteEnds
<1> HIDE DEF m
<1>4. m # i
  <2>1. hunk[i] \in NoteKinds
    BY DEF At, kind
  <2>2. hunk[i] \notin Changed \cup {"open"}
    BY <2>1 DEF NoteKinds, Changed
  <2>3. QED
    BY <1>3, <2>2
<1>5. \A k \in i..m - 1 : hunk[k] \notin Changed \cup {"open"}
  BY <1>3
<1>6. QED
  BY <1>3, <1>4, <1>5 DEF m

LEMMA LastComment ==
  ASSUME comments \in Seq(CommentType), comments # <<>>
  PROVE  /\ Len(comments) \in 1..Len(comments)
         /\ c \in CommentType /\ c = comments[Len(comments)]
<1>1. Len(comments) \in 1..Len(comments)
  BY EmptySeq
<1>2. QED
  BY <1>1, ElementOfSeq DEF Last, c

\* A step within a hunk that goes on to line next, with a list that is longer
\* by at most one.
LEMMA WithinHunk ==
  ASSUME TypeInv, pc = "line", UNCHANGED <<file, cut, pc, parser, h>>,
         NEW next \in i + 1..Len(hunk) + 1, i' = next,
         row' \in [after : Nat, before : Nat],
         comments' \in Seq(CommentType), Len(comments') <= Len(comments) + 1,
         range_start' \in 0..Len(hunk),
         in_comment' \in BOOLEAN, in_multiline' \in BOOLEAN, is_first' \in BOOLEAN
  PROVE  TypeInv'
<1>1. /\ source' = source /\ text' = text /\ cut' = cut /\ pc' = pc /\ hd' = hd
      /\ patch' = patch /\ diffs' = diffs /\ hunks' = hunks /\ h' = h
  BY DEF file, parser
<1>2. ParserTypes'
  <2>1. ParserTypes
    BY DEF TypeInv
  <2>2. QED
    BY <1>1, <2>1, Zenon DEF ParserTypes
<1>3. /\ patch \in Seq(Seq(BodyKinds)) /\ h \in 1..Len(patch)
      /\ i \in 1..Len(hunk) + 1 /\ comments \in Seq(CommentType)
      /\ Len(comments) + LinesFrom(h + 1) + Len(hunk) + 1 - i
           <= Len(FlattenSeq(patch))
  BY DEF TypeInv, ScannerTypes, ParserTypes
<1>4. hunk' = hunk /\ LinesFrom(h + 1)' = LinesFrom(h + 1)
      /\ Len(FlattenSeq(patch))' = Len(FlattenSeq(patch))
  BY <1>1 DEF hunk, LinesFrom
<1>5. Len(hunk) \in Nat /\ Len(comments) \in Nat /\ Len(comments') \in Nat
      /\ Len(FlattenSeq(patch)) \in Nat /\ LinesFrom(h + 1) \in Nat
  <2>1. Len(hunk) \in Nat /\ Len(FlattenSeq(patch)) \in Nat
    BY <1>3, LinesFromShape DEF hunk
  <2>2. h + 1 \in 1..Len(patch) + 1
    BY <1>3
  <2>3. LinesFrom(h + 1) \in Nat
    BY <1>3, <2>2, LinesFromShape
  <2>4. QED
    BY <1>3, <2>1, <2>3, LenProperties
<1> DEFINE behind == LinesFrom(h + 1)
           top == Len(FlattenSeq(patch))
           lines == Len(hunk)
           many == Len(comments)
           more == Len(comments')
<1> HIDE DEF behind, top, lines, many, more
<1>6. more + behind + lines + 1 - next <= top
  <2>1. many + behind + lines + 1 - i <= top /\ more <= many + 1
    BY <1>3 DEF behind, top, lines, many, more
  <2>2. /\ many \in Nat /\ more \in Nat /\ behind \in Nat /\ lines \in Nat
        /\ top \in Nat
    BY <1>5 DEF behind, top, lines, many, more
  <2>3. next \in i + 1..lines + 1 /\ i \in Int
    BY <1>3 DEF lines
  <2>4. QED
    BY <2>1, <2>2, <2>3
<1>7. Len(comments') + LinesFrom(h + 1)' + Len(hunk') + 1 - i'
        <= Len(FlattenSeq(patch'))
  BY <1>1, <1>4, <1>6 DEF behind, top, lines, more
<1>8. /\ h' \in 1..Len(patch') /\ i' \in 1..Len(hunk') + 1
      /\ range_start' \in 0..Len(hunk')
  BY <1>1, <1>3, <1>4, <1>5
<1>9. pc' = "line" /\ ~Parsing'
  BY <1>1 DEF Parsing
<1>10. ScannerTypes'
  BY <1>7, <1>8, <1>9, Zenon DEF ScannerTypes
<1>11. QED
  BY <1>2, <1>10 DEF TypeInv

LEMMA BreakOffTypes ==
  ASSUME TypeInv, pc = "line", NEW how \in Broken \cup {"done"}, BreakOff(how)
  PROVE  TypeInv'
<1>1. /\ source' = source /\ text' = text /\ cut' = cut /\ pc' = how /\ hd' = hd
      /\ patch' = patch /\ diffs' = diffs /\ hunks' = hunks /\ h' = h /\ i' = i
      /\ comments' = comments /\ row' = row /\ range_start' = range_start
      /\ in_comment' = in_comment /\ in_multiline' = in_multiline
      /\ is_first' = is_first
  BY DEF BreakOff, file, parser, scan
<1>2. how \in Places \cup Broken /\ how # "line" /\ how \notin Places \ {"line", "done"}
  BY DEF Places, Broken
<1>3. ParserTypes'
  <2>1. ParserTypes
    BY DEF TypeInv
  <2>2. QED
    BY <1>1, <1>2, <2>1, Zenon DEF ParserTypes
<1>4. /\ patch \in Seq(Seq(BodyKinds)) /\ h \in 1..Len(patch)
      /\ i \in 1..Len(hunk) + 1 /\ comments \in Seq(CommentType)
      /\ Len(comments) + LinesFrom(h + 1) + Len(hunk) + 1 - i
           <= Len(FlattenSeq(patch))
  BY DEF TypeInv, ScannerTypes, ParserTypes
<1>5. Len(hunk) \in Nat /\ Len(comments) \in Nat
      /\ Len(FlattenSeq(patch)) \in Nat /\ LinesFrom(h + 1) \in Nat
  <2>1. Len(hunk) \in Nat /\ Len(FlattenSeq(patch)) \in Nat
    BY <1>4, LinesFromShape DEF hunk
  <2>2. h + 1 \in 1..Len(patch) + 1
    BY <1>4
  <2>3. LinesFrom(h + 1) \in Nat
    BY <1>4, <2>2, LinesFromShape
  <2>4. QED
    BY <1>4, <2>1, <2>3, LenProperties
<1>6. Len(comments) <= Len(FlattenSeq(patch))
  BY <1>4, <1>5
<1>7. Len(comments') <= Len(FlattenSeq(patch'))
  BY <1>1, <1>6
<1>8. ~Parsing' /\ pc' # "line"
  BY <1>1, <1>2 DEF Parsing
<1>9. ScannerTypes'
  <2>1. ScannerTypes
    BY DEF TypeInv
  <2>2. QED
    BY <1>1, <1>7, <1>8, <2>1, Zenon DEF ScannerTypes
<1>10. QED
  BY <1>3, <1>9 DEF TypeInv

LEMMA NextTypes ==
  ASSUME TypeInv, Next
  PROVE  TypeInv'
<1>1. pc = "line" => /\ h \in 1..Len(patch) /\ i \in 1..Len(hunk) + 1
                     /\ range_start \in 0..Len(hunk)
  BY DEF TypeInv, ScannerTypes
<1>2. /\ patch \in Seq(Seq(BodyKinds)) /\ Len(patch) \in Nat
      /\ comments \in Seq(CommentType) /\ Len(comments) \in Nat
      /\ row \in [after : Nat, before : Nat]
      /\ in_comment \in BOOLEAN /\ in_multiline \in BOOLEAN
      /\ is_first \in BOOLEAN
  BY LenProperties DEF TypeInv, ParserTypes, ScannerTypes
<1>3. pc = "line" => /\ Len(hunk) \in Nat /\ h \in Nat /\ i \in Nat
                     /\ range_start \in Int
  <2>1. SUFFICES ASSUME pc = "line"
                 PROVE  /\ Len(hunk) \in Nat /\ h \in Nat /\ i \in Nat
                        /\ range_start \in Int
    OBVIOUS
  <2>2. Len(hunk) \in Nat
    BY <1>1, <1>2, <2>1, LinesFromShape DEF hunk
  <2>3. QED
    BY <1>1, <2>1, <2>2
<1>4. \A kinds : At(kinds) =>
        /\ pc = "line" /\ i + 1 \in i + 1..Len(hunk) + 1 /\ i \in 1..Len(hunk)
  <2>1. SUFFICES ASSUME NEW kinds, At(kinds)
                 PROVE  /\ pc = "line" /\ i + 1 \in i + 1..Len(hunk) + 1
                        /\ i \in 1..Len(hunk)
    OBVIOUS
  <2>2. pc = "line" /\ i <= Len(hunk)
    BY <2>1 DEF At
  <2>3. QED
    BY <1>1, <1>3, <2>2
<1>5. comments # <<>> => /\ Len(comments) \in 1..Len(comments)
                         /\ c \in CommentType /\ c = comments[Len(comments)]
  BY <1>2, LastComment
<1>6. TRUE \in BOOLEAN /\ FALSE \in BOOLEAN
  BY Zenon
<1>7. CASE Parse
  BY <1>7, ParseTypes
<1>8. CASE Note
  <2>1. /\ pc = "line" /\ At(NoteKinds) /\ NoteEnds # {}
        /\ comments' = Append(comments, Comment) /\ i' = Min(NoteEnds)
        /\ in_comment' = TRUE /\ in_multiline' = FALSE /\ is_first' = TRUE
        /\ UNCHANGED <<file, cut, pc, parser, h>> /\ row' = row
        /\ range_start' = range_start
    BY <1>4, <1>8 DEF Note
  <2>2. Min(NoteEnds) \in i + 1..Len(hunk) + 1
    BY <1>3, <2>1, NoteShape
  <2>3. Comment \in CommentType
    BY <1>2, <1>3, <2>1, CommentTyped
  <2>4. comments' \in Seq(CommentType) /\ Len(comments') <= Len(comments) + 1
    BY <1>2, <2>1, <2>3, AppendProperties
  <2>5. range_start' \in 0..Len(hunk) /\ row' \in [after : Nat, before : Nat]
    BY <1>1, <1>2, <2>1
  <2>6. in_comment' \in BOOLEAN /\ in_multiline' \in BOOLEAN /\ is_first' \in BOOLEAN
    BY <2>1, Zenon
  <2>7. QED
    BY <2>1, <2>2, <2>4, <2>5, <2>6, WithinHunk
<1>9. CASE NoteOverflows
  <2>1. pc = "line" /\ BreakOff("overflow") /\ "overflow" \in Broken \cup {"done"}
    BY <1>4, <1>9 DEF NoteOverflows, Broken
  <2>2. QED
    BY <2>1, BreakOffTypes
<1>10. CASE NoteAtEnd
  <2>1. pc = "line" /\ BreakOff("failed") /\ "failed" \in Broken \cup {"done"}
    BY <1>4, <1>10 DEF NoteAtEnd, Broken
  <2>2. QED
    BY <2>1, BreakOffTypes
<1>11. CASE NoteCut
  <2>1. pc = "line" /\ BreakOff("null") /\ "null" \in Broken \cup {"done"}
    BY <1>4, <1>11 DEF NoteCut, Broken
  <2>2. QED
    BY <2>1, BreakOffTypes
<1>12. CASE DiffLine
  <2>1. /\ pc = "line" /\ row' = NextRow /\ is_first' = FALSE
        /\ comments' = IF comments = <<>> THEN <<>>
                       ELSE [comments EXCEPT ![Len(comments)] = Noticed]
        /\ i' = i + 1 /\ UNCHANGED <<file, cut, pc, parser, h>>
        /\ range_start' = range_start /\ in_comment' = in_comment
        /\ in_multiline' = in_multiline
    BY <1>4, <1>12 DEF DiffLine
  <2>2. row' \in [after : Nat, before : Nat]
    BY <1>2, <2>1 DEF NextRow
  <2>3. comments' \in Seq(CommentType) /\ Len(comments') = Len(comments)
    <3>1. CASE comments = <<>>
      BY <1>2, <2>1, <3>1
    <3>2. CASE comments # <<>>
      <4>1. h \in Int /\ i \in Int /\ c \in CommentType
        BY <1>3, <1>5, <2>1, <3>2
      <4>2. Noticed \in CommentType
        BY <4>1, NoticedShape
      <4>3. comments' = [comments EXCEPT ![Len(comments)] = Noticed]
        BY <2>1, <3>2
      <4>4. QED
        BY <1>2, <1>5, <3>2, <4>2, <4>3, ExceptSeq
    <3>3. QED
      BY <3>1, <3>2
  <2>4. Len(comments') <= Len(comments) + 1
    BY <1>2, <2>3
  <2>5. range_start' \in 0..Len(hunk) /\ i + 1 \in i + 1..Len(hunk) + 1
    BY <1>1, <1>4, <1>12, <2>1 DEF DiffLine
  <2>6. in_comment' \in BOOLEAN /\ in_multiline' \in BOOLEAN /\ is_first' \in BOOLEAN
    BY <1>2, <2>1, Zenon
  <2>7. QED
    BY <2>1, <2>2, <2>3, <2>4, <2>5, <2>6, WithinHunk
<1>13. CASE Blank
  <2>1. /\ pc = "line" /\ i' = i + 1 /\ i + 1 \in i + 1..Len(hunk) + 1
        /\ UNCHANGED <<file, cut, pc, parser, h>>
        /\ comments' = comments /\ row' = row /\ range_start' = range_start
        /\ in_comment' = in_comment /\ in_multiline' = in_multiline
        /\ is_first' = is_first
    BY <1>4, <1>13 DEF Blank, scan
  <2>2. /\ Len(comments') <= Len(comments) + 1 /\ range_start' \in 0..Len(hunk)
    BY <1>1, <1>2, <2>1
  <2>3. /\ comments' \in Seq(CommentType) /\ row' \in [after : Nat, before : Nat]
        /\ in_comment' \in BOOLEAN /\ in_multiline' \in BOOLEAN
        /\ is_first' \in BOOLEAN
    BY <1>2, <2>1, Zenon
  <2>4. QED
    BY <2>1, <2>2, <2>3, WithinHunk
<1>14. CASE Open
  <2>1. /\ pc = "line" /\ i' = i + 1 /\ i + 1 \in i + 1..Len(hunk) + 1
        /\ i \in 1..Len(hunk)
        /\ UNCHANGED <<file, cut, pc, parser, h>>
        /\ comments' = comments /\ row' = row /\ range_start' = i
        /\ in_comment' = in_comment /\ in_multiline' = TRUE
        /\ is_first' = is_first
    BY <1>4, <1>14 DEF Open
  <2>2. /\ Len(comments') <= Len(comments) + 1 /\ range_start' \in 0..Len(hunk)
    BY <1>2, <1>3, <2>1
  <2>3. /\ comments' \in Seq(CommentType) /\ row' \in [after : Nat, before : Nat]
        /\ in_comment' \in BOOLEAN /\ in_multiline' \in BOOLEAN
        /\ is_first' \in BOOLEAN
    BY <1>2, <2>1, Zenon
  <2>4. QED
    BY <2>1, <2>2, <2>3, WithinHunk
<1>15. CASE OpenFails
  <2>1. pc = "line" /\ BreakOff("failed") /\ "failed" \in Broken \cup {"done"}
    BY <1>4, <1>15 DEF OpenFails, Broken
  <2>2. QED
    BY <2>1, BreakOffTypes
<1>16. CASE Close
  <2>1. /\ pc = "line" /\ i' = i + 1 /\ i + 1 \in i + 1..Len(hunk) + 1
        /\ comments # <<>>
        /\ UNCHANGED <<file, cut, pc, parser, h>>
        /\ row' = row /\ range_start' = range_start
        /\ in_comment' = FALSE /\ in_multiline' = in_multiline
        /\ is_first' = is_first
    BY <1>4, <1>16 DEF Close, InRange
  <2>2. comments' = [comments EXCEPT ![Len(comments)] = Closed]
    BY <1>16 DEF Close
  <2>3. comments' \in Seq(CommentType) /\ Len(comments') = Len(comments)
    <3>1. Closed \in CommentType
      BY <1>2, <1>3, <1>5, <2>1, ClosedShape
    <3>2. QED
      BY <1>2, <1>5, <2>1, <2>2, <3>1, ExceptSeq
  <2>4. /\ Len(comments') <= Len(comments) + 1 /\ range_start' \in 0..Len(hunk)
    BY <1>1, <1>2, <2>1, <2>3
  <2>5. /\ row' \in [after : Nat, before : Nat]
        /\ in_comment' \in BOOLEAN /\ in_multiline' \in BOOLEAN
        /\ is_first' \in BOOLEAN
    BY <1>2, <2>1, Zenon
  <2>6. QED
    BY <2>1, <2>3, <2>4, <2>5, WithinHunk
<1>17. CASE CloseFails
  <2>1. pc = "line" /\ BreakOff("failed") /\ "failed" \in Broken \cup {"done"}
    BY <1>4, <1>17 DEF CloseFails, Broken
  <2>2. QED
    BY <2>1, BreakOffTypes
<1>18. CASE CloseAborts
  <2>1. pc = "line" /\ BreakOff("abort") /\ "abort" \in Broken \cup {"done"}
    BY <1>4, <1>18 DEF CloseAborts, Broken
  <2>2. QED
    BY <2>1, BreakOffTypes
<1>19. CASE HunkEnd
  <2>1. /\ pc = "line" /\ h < Len(patch) /\ i > Len(hunk)
        /\ h' = h + 1 /\ i' = 1 /\ row' = RangeStart(h + 1)
        /\ range_start' = 0 /\ in_comment' = FALSE /\ in_multiline' = FALSE
        /\ is_first' = TRUE /\ comments' = comments
        /\ source' = source /\ text' = text /\ cut' = cut /\ pc' = pc
        /\ hd' = hd /\ patch' = patch /\ diffs' = diffs /\ hunks' = hunks
    BY <1>19 DEF HunkEnd, file, parser
  <2>2. ParserTypes'
    <3>1. ParserTypes
      BY DEF TypeInv
    <3>2. QED
      BY <2>1, <3>1, Zenon DEF ParserTypes
  <2>3. h + 1 \in 1..Len(patch) /\ h + 1 \in 1..Len(patch) + 1
        /\ (h + 1) + 1 \in 1..Len(patch) + 1
    BY <1>1, <1>2, <2>1
  <2>4. /\ LinesFrom(h + 1) = Len(patch[h + 1]) + LinesFrom((h + 1) + 1)
        /\ Len(patch[h + 1]) \in Nat /\ LinesFrom((h + 1) + 1) \in Nat
        /\ Len(FlattenSeq(patch)) \in Nat
    BY <1>2, <2>3, LinesFromShape
  <2>5. /\ hunk' = patch[h + 1] /\ LinesFrom(h + 1)' = LinesFrom((h + 1) + 1)
    BY <2>1, Zenon DEF hunk, LinesFrom
  <2>6. i = Len(hunk) + 1
    BY <1>1, <1>3, <2>1
  <2>7. Len(comments) + LinesFrom(h + 1) + Len(hunk) + 1 - i
          <= Len(FlattenSeq(patch))
    BY <2>1 DEF TypeInv, ScannerTypes
  <2>8. Len(comments) + LinesFrom((h + 1) + 1) + Len(patch[h + 1]) + 1 - 1
          <= Len(FlattenSeq(patch))
    <3> DEFINE many == Len(comments)
               top == Len(FlattenSeq(patch))
               lines == Len(hunk)
               more == Len(patch[h + 1])
               there == LinesFrom(h + 1)
               behind == LinesFrom((h + 1) + 1)
    <3> HIDE DEF many, top, lines, more, there, behind
    <3>1. /\ many + there + lines + 1 - i <= top /\ i = lines + 1
          /\ there = more + behind
      BY <2>4, <2>6, <2>7 DEF many, top, lines, more, there, behind
    <3>2. /\ many \in Nat /\ top \in Nat /\ lines \in Nat /\ more \in Nat
          /\ behind \in Nat
      BY <1>2, <1>3, <2>1, <2>4 DEF many, top, lines, more, there, behind
    <3>3. many + behind + more + 1 - 1 <= top
      BY <3>1, <3>2
    <3>4. QED
      BY <3>3 DEF many, top, lines, more, there, behind
  <2>9. Len(comments') + LinesFrom(h + 1)' + Len(hunk') + 1 - i'
          <= Len(FlattenSeq(patch'))
    BY <2>1, <2>5, <2>8, Zenon
  <2>10. /\ h' \in 1..Len(patch') /\ i' \in 1..Len(hunk') + 1
         /\ range_start' \in 0..Len(hunk')
    BY <2>1, <2>3, <2>4, <2>5
  <2>11. row' \in [after : Nat, before : Nat]
    <3>1. h + 1 \in Nat
      BY <2>3
    <3>2. QED
      BY <2>1, <3>1 DEF RangeStart, HunkDistance
  <2>12. pc' = "line" /\ ~Parsing'
    BY <2>1 DEF Parsing
  <2>13. ScannerTypes'
    BY <1>2, <1>6, <2>1, <2>9, <2>10, <2>11, <2>12, Zenon DEF ScannerTypes
  <2>14. QED
    BY <2>2, <2>13 DEF TypeInv
<1>20. CASE PatchEnd
  <2>1. pc = "line" /\ BreakOff("done") /\ "done" \in Broken \cup {"done"}
    BY <1>20 DEF PatchEnd
  <2>2. QED
    BY <2>1, BreakOffTypes
<1>21. QED
  BY <1>7, <1>8, <1>9, <1>10, <1>11, <1>12, <1>13, <1>14, <1>15, <1>16, <1>17,
     <1>18, <1>19, <1>20 DEF Next

LEMMA StutterTypes ==
  ASSUME TypeInv, UNCHANGED vars
  PROVE  TypeInv'
<1>1. /\ source' = source /\ text' = text /\ cut' = cut /\ pc' = pc /\ hd' = hd
      /\ patch' = patch /\ diffs' = diffs /\ hunks' = hunks /\ h' = h /\ i' = i
      /\ comments' = comments /\ row' = row /\ range_start' = range_start
      /\ in_comment' = in_comment /\ in_multiline' = in_multiline
      /\ is_first' = is_first
  BY DEF vars, file, parser, scan
<1>2. ParserTypes' /\ Parsing' = Parsing /\ hunk' = hunk
      /\ LinesFrom(h + 1)' = LinesFrom(h + 1)
  BY <1>1, Zenon DEF TypeInv, ParserTypes, Parsing, hunk, LinesFrom
<1>3. ScannerTypes'
  BY <1>1, <1>2, Zenon DEF TypeInv, ScannerTypes
<1>4. QED
  BY <1>2, <1>3 DEF TypeInv

\* The state keeps its types, the parser and the scanner keep within the text
\* and the hunks, and there is never a comment more than lines were read, for
\* texts of any length (gcli_parse_patch_series, gcli_hunk_get_comments).
THEOREM TypeCorrect == Spec => []TypeOK
<1>1. TypeInv /\ [Next]_vars => TypeInv'
  BY NextTypes, StutterTypes
<1>2. TypeInv => TypeOK
  <2> SUFFICES ASSUME TypeInv PROVE TypeOK
    OBVIOUS
  <2>1. /\ cut \in BOOLEAN /\ pc \in Places \cup Broken
        /\ hd \in 1..Len(text) + 1 /\ hunks \in 0..Len(patch) /\ diffs \in Nat
        /\ patch \in Seq(Seq(BodyKinds))
    BY DEF TypeInv, ParserTypes
  <2>2. Len(comments) <= Len(FlattenSeq(patch))
    <3>1. CASE pc # "line"
      BY <3>1 DEF TypeInv, ScannerTypes
    <3>2. CASE pc = "line"
      <4>1. /\ h \in 1..Len(patch) /\ i \in 1..Len(hunk) + 1
            /\ Len(comments) + LinesFrom(h + 1) + Len(hunk) + 1 - i
                 <= Len(FlattenSeq(patch))
        BY <3>2 DEF TypeInv, ScannerTypes
      <4>2. Len(comments) \in Nat /\ Len(FlattenSeq(patch)) \in Nat
            /\ Len(hunk) \in Nat
        BY <2>1, <4>1, LinesFromShape, LenProperties
           DEF TypeInv, ScannerTypes, hunk
      <4>3. LinesFrom(h + 1) \in Nat
        <5>1. h + 1 \in 1..Len(patch) + 1
          BY <2>1, <4>1
        <5>2. QED
          BY <2>1, <5>1, LinesFromShape
      <4>4. QED
        BY <4>1, <4>2, <4>3
    <3>3. QED
      BY <3>1, <3>2
  <2>3. /\ row \in [after : Nat, before : Nat]
        /\ in_comment \in BOOLEAN /\ in_multiline \in BOOLEAN
        /\ is_first \in BOOLEAN
        /\ pc = "line" => h \in 1..Len(patch) /\ i \in 1..Len(hunk) + 1
                            /\ range_start \in 0..Len(hunk)
    BY Zenon DEF TypeInv, ScannerTypes
  <2>4. QED
    BY <2>1, <2>2, <2>3, Zenon DEF TypeOK
<1>3. QED
  BY InitTypes, <1>1, <1>2, PTL DEF Spec

-----------------------------------------------------------------------------
(* Comments stay in their hunk. *)

Complete(x) == x.text # <<>> /\ x.text[1] = x.hunk /\ x.text[2] > x.line

\* The last comment has its lines;
Finished == Complete(c) /\ ~(in_comment /\ in_multiline)

\* or the line it is about, or the brace before the first, is the next;
Awaits ==
  /\ c.text = <<>> /\ c.hunk = h /\ c.line < i
  /\ in_comment /\ ~in_multiline
  /\ i <= Len(hunk) /\ hunk[i] \in Changed \cup {"open"}

\* or the scanner stands between the braces.
InBraces ==
  /\ c.text = <<>> /\ c.hunk = h /\ c.line < range_start
  /\ in_comment /\ in_multiline
  /\ range_start \in 1..i - 1 /\ hunk[range_start] = "open"
  /\ \A k \in range_start + 1..i - 1 : hunk[k] \in DiffKinds \cup {"blank"}

StayInv ==
  ClosedBraces =>
    /\ pc \in {"line", "done"} =>
         \A n \in 1..Len(comments) : n < Len(comments) => Complete(comments[n])
    /\ pc = "line" /\ comments # <<>> => Finished \/ Awaits \/ InBraces
    /\ pc = "done" /\ comments # <<>> => Complete(c)

LEMMA Kinds ==
  /\ Changed \subseteq DiffKinds
  /\ \A k \in NoteKinds : k \notin DiffKinds \cup {"blank", "open", "close"}
  /\ \A k \in DiffKinds : k \notin {"blank", "open", "close"}
  /\ \A k \in Changed : k \notin {"blank", "open", "close"}
<1>1. Changed \subseteq DiffKinds
  BY DEF DiffKinds
<1>2. ASSUME NEW k \in NoteKinds
      PROVE  k \notin DiffKinds \cup {"blank", "open", "close"}
  BY DEF NoteKinds, DiffKinds, Changed
<1>3. ASSUME NEW k \in DiffKinds PROVE k \notin {"blank", "open", "close"}
  BY DEF DiffKinds, Changed
<1>4. QED
  BY <1>1, <1>2, <1>3

\* The closing brace is still ahead.
LEMMA InsideBraces ==
  ASSUME ClosedBraces, InBraces, h \in 1..Len(patch), i \in 1..Len(hunk) + 1,
         Len(hunk) \in Nat
  PROVE  i <= Len(hunk) /\ hunk[i] \in DiffKinds \cup {"blank", "close"}
<1>1. /\ range_start \in 1..i - 1 /\ hunk[range_start] = "open"
      /\ \A k \in range_start + 1..i - 1 : hunk[k] \in DiffKinds \cup {"blank"}
  BY DEF InBraces
<1>2. range_start \in 1..Len(hunk)
  BY <1>1
<1>3. PICK to \in range_start..Len(hunk) :
        /\ hunk[to] = "close"
        /\ \A k \in range_start + 1..to - 1 : hunk[k] \in DiffKinds \cup {"blank"}
  BY <1>1, <1>2 DEF ClosedBraces, AllIn, hunk
<1>4. to # range_start
  BY <1>1, <1>3
<1>5. ~(to \in range_start + 1..i - 1)
  <2>1. hunk[to] \notin DiffKinds \cup {"blank"}
    BY <1>3, Kinds
  <2>2. QED
    BY <1>1, <2>1
<1>6. to >= i
  BY <1>1, <1>3, <1>4, <1>5
<1>7. i <= Len(hunk)
  BY <1>3, <1>6
<1>8. hunk[i] \in DiffKinds \cup {"blank", "close"}
  <2>1. CASE i = to
    BY <1>3, <2>1
  <2>2. CASE i # to
    <3>1. i \in range_start + 1..to - 1
      BY <1>1, <1>3, <1>6, <2>2
    <3>2. QED
      BY <1>3, <3>1
  <2>3. QED
    BY <2>1, <2>2
<1>9. QED
  BY <1>7, <1>8

\* What a step of the scanner must show when it changes the last comment only.
LEMMA LastChanges ==
  ASSUME comments \in Seq(CommentType), comments # <<>>, NEW x \in CommentType,
         comments' = [comments EXCEPT ![Len(comments)] = x],
         \A n \in 1..Len(comments) : n < Len(comments) => Complete(comments[n])
  PROVE  /\ c' = x /\ comments' # <<>>
         /\ \A n \in 1..Len(comments') :
              n < Len(comments') => Complete(comments'[n])
<1>1. Len(comments) \in 1..Len(comments)
  BY LastComment
<1>2. /\ Len(comments') = Len(comments) /\ comments' \in Seq(CommentType)
      /\ \A n \in 1..Len(comments) :
           comments'[n] = IF n = Len(comments) THEN x ELSE comments[n]
  BY <1>1, ExceptSeq
<1>3. c' = x
  BY <1>1, <1>2 DEF c, Last
<1>4. comments' # <<>>
  BY <1>1, <1>2, EmptySeq
<1>5. ASSUME NEW n \in 1..Len(comments), n < Len(comments)
      PROVE  Complete(comments'[n])
  <2>1. n # Len(comments)
    BY <1>1, <1>5
  <2>2. comments'[n] = comments[n]
    BY <1>2, <2>1
  <2>3. QED
    BY <1>5, <2>2
<1>6. QED
  BY <1>2, <1>3, <1>4, <1>5

LEMMA NextStays ==
  ASSUME TypeInv, StayInv, Next
  PROVE  StayInv'
<1>1. CASE Parse
  <2>1. TypeInv' /\ comments' = comments /\ Parsing
    <3>1. pc \in Places \cup Broken /\ NextParser /\ comments' = comments
      BY <1>1 DEF TypeInv, ParserTypes, Parse
    <3>2. pc \notin {"line", "done"} \cup Broken
      BY <3>1 DEF NextParser, SeriesPrelude, NextPatch, PatchPrelude, NextDiff,
                  DiffHeader, NewFileMode, IndexLine, FileLine, Hunk, DiffEnd,
                  Fixup, FixupAborts, SeriesEnd, ParserFails, PatchEnds, Broken
    <3>3. QED
      BY <1>1, <3>1, <3>2, ParseTypes DEF Parsing
  <2>2. comments' = <<>>
    BY <2>1, Zenon DEF TypeInv, ScannerTypes
  <2>3. Len(comments') = 0
    BY <2>2, EmptySeq
  <2>4. \A n \in 1..Len(comments') :
          n < Len(comments') => Complete(comments'[n])
    BY <2>3
  <2>5. QED
    BY <2>2, <2>4 DEF StayInv
<1>2. CASE ~Parse
  <2>0. pc = "line" /\ patch' = patch /\ ClosedBraces' = ClosedBraces
    <3>1. pc = "line" /\ patch' = patch
      BY <1>2 DEF Next, At, Note, NoteOverflows, NoteAtEnd, NoteCut, DiffLine,
                  Blank, Open, OpenFails, Close, CloseFails, CloseAborts, HunkEnd,
                  PatchEnd, BreakOff, parser
    <3>2. ClosedBraces' = ClosedBraces
      BY <3>1 DEF ClosedBraces, AllIn
    <3>3. QED
      BY <3>1, <3>2
  <2> SUFFICES ASSUME ClosedBraces PROVE StayInv'
    BY <2>0 DEF StayInv
  <2>1. /\ h \in 1..Len(patch) /\ i \in 1..Len(hunk) + 1 /\ Len(hunk) \in Nat
        /\ h \in Int /\ i \in Int /\ range_start \in 0..Len(hunk)
        /\ comments \in Seq(CommentType) /\ Len(comments) \in Nat
        /\ row \in [after : Nat, before : Nat]
    <3>1. /\ h \in 1..Len(patch) /\ i \in 1..Len(hunk) + 1
          /\ range_start \in 0..Len(hunk)
          /\ comments \in Seq(CommentType) /\ Len(comments) \in Nat
          /\ row \in [after : Nat, before : Nat]
      BY <2>0, LenProperties DEF TypeInv, ScannerTypes
    <3>2. Len(hunk) \in Nat
      BY <3>1, LinesFromShape DEF hunk, TypeInv, ParserTypes
    <3>3. QED
      BY <3>1, <3>2
  <2>2. /\ \A n \in 1..Len(comments) :
             n < Len(comments) => Complete(comments[n])
        /\ comments # <<>> => Finished \/ Awaits \/ InBraces
    BY <2>0 DEF StayInv
  <2>3. InBraces => i <= Len(hunk) /\ hunk[i] \in DiffKinds \cup {"blank", "close"}
    BY <2>1, InsideBraces
  <2>4. Awaits => i <= Len(hunk) /\ hunk[i] \in Changed \cup {"open"}
    BY DEF Awaits
  <2>5. comments # <<>> => /\ Len(comments) \in 1..Len(comments)
                           /\ c \in CommentType /\ c = comments[Len(comments)]
                           /\ c.text \in Seq(Int) /\ c.hunk \in Int /\ c.line \in Int
    BY <2>1, LastComment, FieldsOfComment
  <2>6. ASSUME pc' = "line", comments' # <<>> => (Finished \/ Awaits \/ InBraces)',
               \A n \in 1..Len(comments') :
                 n < Len(comments') => Complete(comments'[n])
        PROVE  StayInv'
    BY <2>6 DEF StayInv
  <2>7. ASSUME NEW how, how \in Broken, BreakOff(how) PROVE StayInv'
    <3>1. pc' = how /\ how \notin {"line", "done"}
      BY <2>7 DEF BreakOff, Broken
    <3>2. QED
      BY <3>1 DEF StayInv
  <2>8. /\ "failed" \in Broken /\ "overflow" \in Broken /\ "null" \in Broken
        /\ "abort" \in Broken
    BY DEF Broken
  <2>9. CASE Note
    <3>1. /\ pc' = pc /\ h' = h /\ hunk' = hunk
          /\ comments' = Append(comments, Comment)
          /\ i' = Min(NoteEnds) /\ in_comment' = TRUE /\ in_multiline' = FALSE
          /\ At(NoteKinds) /\ NoteEnds # {} /\ hunk[i] \in NoteKinds
      BY <2>9 DEF Note, At, kind, parser, hunk
    <3>2. /\ Min(NoteEnds) \in i + 1..Len(hunk)
          /\ hunk[Min(NoteEnds)] \in Changed \cup {"open"}
      BY <2>1, <3>1, NoteShape
    <3>3. Comment \in CommentType
      BY <2>1, CommentTyped
    <3>4. /\ comments' \in Seq(CommentType) /\ Len(comments') = Len(comments) + 1
          /\ \A n \in 1..Len(comments) : comments'[n] = comments[n]
          /\ comments'[Len(comments) + 1] = Comment /\ comments' # <<>>
      BY <2>1, <3>1, <3>3, AppendProperties
    <3>5. c' = Comment
      BY <3>4 DEF c, Last
    <3>6. Comment.text = <<>> /\ Comment.hunk = h /\ Comment.line = i
      BY DEF Comment
    <3>7. Awaits'
      <4>1. c'.text = <<>> /\ c'.hunk = h' /\ c'.line < i' /\ i' <= Len(hunk')
        BY <2>1, <3>1, <3>2, <3>5, <3>6
      <4>2. hunk'[i'] \in Changed \cup {"open"}
        BY <3>1, <3>2
      <4>3. QED
        BY <3>1, <4>1, <4>2, Zenon DEF Awaits
    <3>8. comments # <<>> => Complete(c)
      <4>1. ~Awaits /\ ~InBraces
        BY <2>3, <2>4, <3>1, Kinds
      <4>2. QED
        BY <2>2, <4>1 DEF Finished
    <3>9. ASSUME NEW n \in 1..Len(comments'), n < Len(comments')
          PROVE  Complete(comments'[n])
      <4>1. n \in 1..Len(comments) /\ comments'[n] = comments[n]
        BY <2>1, <3>4, <3>9
      <4>2. comments # <<>>
        BY <4>1, EmptySeq
      <4>3. CASE n < Len(comments)
        BY <2>2, <4>1, <4>3
      <4>4. CASE n = Len(comments)
        BY <2>5, <3>8, <4>1, <4>2, <4>4
      <4>5. QED
        BY <2>1, <4>1, <4>3, <4>4
    <3>10. QED
      BY <2>0, <2>6, <3>1, <3>7, <3>9
  <2>10. CASE NoteOverflows
    BY <2>7, <2>8, <2>10 DEF NoteOverflows
  <2>11. CASE NoteAtEnd
    BY <2>7, <2>8, <2>11 DEF NoteAtEnd
  <2>12. CASE NoteCut
    BY <2>7, <2>8, <2>12 DEF NoteCut
  <2>13. CASE DiffLine
    <3>1. /\ pc' = pc /\ h' = h /\ hunk' = hunk /\ i' = i + 1
          /\ in_comment' = in_comment /\ in_multiline' = in_multiline
          /\ range_start' = range_start /\ hunk[i] \in DiffKinds
      BY <2>13 DEF DiffLine, At, kind, parser, hunk
    <3>2. CASE comments = <<>>
      <4>1. comments' = <<>>
        BY <2>13, <3>2 DEF DiffLine
      <4>2. Len(comments') = 0
        BY <4>1, EmptySeq
      <4>3. QED
        BY <2>0, <2>6, <3>1, <4>1, <4>2
    <3>3. CASE comments # <<>>
      <4>1. comments' = [comments EXCEPT ![Len(comments)] = Noticed]
        BY <2>13, <3>3 DEF DiffLine
      <4>2. /\ Noticed \in CommentType
            /\ Noticed.hunk = c.hunk /\ Noticed.line = c.line
            /\ Noticed.text = IF c.text = <<>> /\ ~in_multiline
                                THEN <<h, i, i>> ELSE c.text
            /\ c.text # <<>> /\ ~(in_comment /\ in_multiline) => Noticed = c
        <5> DEFINE t == IF c.text = <<>> /\ ~in_multiline
                          THEN <<h, i, i>> ELSE c.text
        <5>1. /\ Noticed \in CommentType
              /\ Noticed = [hunk |-> c.hunk, line |-> c.line, after |-> c.after,
                            before |-> c.before,
                            start_is_in_new |-> Noticed.start_is_in_new,
                            end_is_in_new |-> Noticed.end_is_in_new, text |-> t]
              /\ c.text # <<>> /\ ~(in_comment /\ in_multiline) => Noticed = c
          BY <2>1, <2>5, <3>3, NoticedShape
        <5> HIDE DEF t
        <5>2. Noticed.hunk = c.hunk /\ Noticed.line = c.line /\ Noticed.text = t
          BY <5>1
        <5>3. QED
          BY <5>1, <5>2, Zenon DEF t
      <4>3. /\ c' = Noticed /\ comments' # <<>>
            /\ \A n \in 1..Len(comments') :
                 n < Len(comments') => Complete(comments'[n])
        BY <2>1, <2>2, <3>3, <4>1, <4>2, LastChanges
      <4>4. CASE Finished
        <5>1. c.text # <<>> /\ ~(in_comment /\ in_multiline)
          BY <4>4 DEF Finished, Complete
        <5>2. Finished'
          BY <3>1, <4>2, <4>3, <4>4, <5>1, Zenon DEF Finished, Complete
        <5>3. QED
          BY <2>0, <2>6, <3>1, <4>3, <5>2
      <4>5. CASE Awaits
        <5>1. c.text = <<>> /\ ~in_multiline /\ c.hunk = h /\ c.line < i
          BY <4>5 DEF Awaits
        <5>2. Noticed.text = <<h, i, i>>
          BY <4>2, <5>1
        <5>3. <<h, i, i>> # <<>> /\ <<h, i, i>>[1] = h /\ <<h, i, i>>[2] = i
          OBVIOUS
        <5>4. Complete(Noticed)
          BY <2>1, <4>2, <5>1, <5>2, <5>3 DEF Complete
        <5>5. Finished'
          BY <3>1, <4>3, <5>1, <5>4, Zenon DEF Finished, Complete
        <5>6. QED
          BY <2>0, <2>6, <3>1, <4>3, <5>5
      <4>6. CASE InBraces
        <5>1. /\ c.text = <<>> /\ c.hunk = h /\ c.line < range_start
              /\ in_comment /\ in_multiline
              /\ range_start \in 1..i - 1 /\ hunk[range_start] = "open"
              /\ \A k \in range_start + 1..i - 1 :
                   hunk[k] \in DiffKinds \cup {"blank"}
          BY <4>6 DEF InBraces
        <5>2. c'.text = <<>> /\ c'.hunk = h' /\ c'.line < range_start'
          BY <3>1, <4>2, <4>3, <5>1, Zenon
        <5>3. /\ range_start' \in 1..i' - 1 /\ hunk'[range_start'] = "open"
              /\ \A k \in range_start' + 1..i' - 1 :
                   hunk'[k] \in DiffKinds \cup {"blank"}
          <6>1. range_start \in 1..i /\ (i + 1) - 1 = i
            BY <2>1, <5>1
          <6>2. \A k \in range_start + 1..i : k \in range_start + 1..i - 1 \/ k = i
            BY <2>1
          <6>3. \A k \in range_start + 1..i : hunk[k] \in DiffKinds \cup {"blank"}
            BY <3>1, <5>1, <6>2
          <6>4. QED
            BY <3>1, <5>1, <6>1, <6>3
        <5>4. InBraces'
          BY <3>1, <5>1, <5>2, <5>3, Zenon DEF InBraces
        <5>5. QED
          BY <2>0, <2>6, <3>1, <4>3, <5>4
      <4>7. QED
        BY <2>2, <3>3, <4>4, <4>5, <4>6
    <3>4. QED
      BY <3>2, <3>3
  <2>14. CASE Blank
    <3>1. /\ pc' = pc /\ h' = h /\ hunk' = hunk /\ i' = i + 1
          /\ in_comment' = in_comment /\ in_multiline' = in_multiline
          /\ range_start' = range_start /\ hunk[i] = "blank"
          /\ comments' = comments /\ c' = c
      BY <2>14 DEF Blank, At, kind, parser, hunk, scan, c
    <3>2. ~Awaits
      BY <2>4, <3>1, Kinds
    <3>3. Finished => Finished'
      BY <3>1, Zenon DEF Finished, Complete
    <3>4. InBraces => InBraces'
      <4>1. SUFFICES ASSUME InBraces PROVE InBraces'
        OBVIOUS
      <4>2. /\ c.text = <<>> /\ c.hunk = h /\ c.line < range_start
            /\ in_comment /\ in_multiline
            /\ range_start \in 1..i - 1 /\ hunk[range_start] = "open"
            /\ \A k \in range_start + 1..i - 1 :
                 hunk[k] \in DiffKinds \cup {"blank"}
        BY <4>1 DEF InBraces
      <4>3. range_start \in 1..i /\ (i + 1) - 1 = i
        BY <2>1, <4>2
      <4>4. \A k \in range_start + 1..i : k \in range_start + 1..i - 1 \/ k = i
        BY <2>1
      <4>5. \A k \in range_start + 1..i : hunk[k] \in DiffKinds \cup {"blank"}
        BY <3>1, <4>2, <4>4
      <4>6. /\ range_start' \in 1..i' - 1
            /\ \A k \in range_start' + 1..i' - 1 :
                 hunk'[k] \in DiffKinds \cup {"blank"}
        BY <3>1, <4>3, <4>5
      <4>7. QED
        BY <3>1, <4>2, <4>6, Zenon DEF InBraces
    <3>5. QED
      BY <2>0, <2>2, <2>6, <3>1, <3>2, <3>3, <3>4
  <2>15. CASE Open
    <3>1. /\ pc' = pc /\ h' = h /\ hunk' = hunk /\ i' = i + 1
          /\ in_comment' = in_comment /\ in_multiline' = TRUE
          /\ range_start' = i /\ hunk[i] = "open"
          /\ comments' = comments /\ c' = c /\ comments # <<>> /\ c.text = <<>>
          /\ i <= Len(hunk)
      BY <2>15 DEF Open, Waiting, At, kind, parser, hunk, c
    <3>2. Awaits
      <4>1. ~Finished
        BY <3>1 DEF Finished, Complete
      <4>2. ~InBraces
        BY <2>3, <3>1, Kinds
      <4>3. QED
        BY <2>2, <3>1, <4>1, <4>2
    <3>3. c.hunk = h /\ c.line < i /\ in_comment
      BY <3>2 DEF Awaits
    <3>4. range_start' \in 1..i' - 1 /\ \A k \in range_start' + 1..i' - 1 : FALSE
      BY <2>1, <3>1
    <3>5. InBraces'
      BY <3>1, <3>3, <3>4, Zenon DEF InBraces
    <3>6. QED
      BY <2>0, <2>2, <2>6, <3>1, <3>5
  <2>16. CASE OpenFails
    BY <2>7, <2>8, <2>16 DEF OpenFails
  <2>17. CASE Close
    <3>1. /\ pc' = pc /\ h' = h /\ hunk' = hunk
          /\ in_comment' = FALSE
          /\ comments # <<>> /\ in_comment /\ in_multiline
          /\ comments' = [comments EXCEPT ![Len(comments)] = Closed]
      BY <2>17 DEF Close, InRange, parser, hunk
    <3>2. InBraces
      BY <2>2, <3>1 DEF Finished, Awaits
    <3>3. c.hunk = h /\ c.line < range_start /\ range_start \in 1..i - 1
      BY <3>2 DEF InBraces
    <3>4. /\ Closed \in CommentType /\ Closed.hunk = c.hunk
          /\ Closed.line = c.line /\ Closed.text = <<h, range_start + 1, i - 1>>
      <4>1. range_start \in Int
        BY <2>1
      <4>2. /\ Closed \in CommentType
            /\ Closed = [hunk |-> c.hunk, line |-> c.line,
                         after |-> EndRow(c.after, row.after),
                         before |-> EndRow(c.before, row.before),
                         start_is_in_new |-> c.start_is_in_new,
                         end_is_in_new |-> c.end_is_in_new,
                         text |-> <<h, range_start + 1, i - 1>>]
        BY <2>1, <2>5, <3>1, <4>1, ClosedShape
      <4>3. QED
        BY <4>2
    <3>5. Complete(Closed)
      <4> DEFINE t == <<h, range_start + 1, i - 1>>
      <4>1. t # <<>> /\ t[1] = h /\ t[2] = range_start + 1
        OBVIOUS
      <4>2. c.line \in Int /\ range_start + 1 > c.line
        BY <2>1, <2>5, <3>1, <3>3
      <4> HIDE DEF t
      <4>3. Closed.text = t
        BY <3>4 DEF t
      <4>4. QED
        BY <3>3, <3>4, <4>1, <4>2, <4>3 DEF Complete
    <3>6. /\ c' = Closed /\ comments' # <<>>
          /\ \A n \in 1..Len(comments') :
               n < Len(comments') => Complete(comments'[n])
      BY <2>1, <2>2, <3>1, <3>4, LastChanges
    <3>7. Finished'
      BY <3>1, <3>5, <3>6, Zenon DEF Finished, Complete
    <3>8. QED
      BY <2>0, <2>6, <3>1, <3>6, <3>7
  <2>18. CASE CloseFails
    BY <2>7, <2>8, <2>18 DEF CloseFails
  <2>19. CASE CloseAborts
    BY <2>7, <2>8, <2>19 DEF CloseAborts
  <2>20. ASSUME i > Len(hunk), comments # <<>> PROVE Complete(c)
    <3>1. ~Awaits /\ ~InBraces
      BY <2>1, <2>3, <2>4, <2>20
    <3>2. QED
      BY <2>2, <2>20, <3>1 DEF Finished
  <2>21. CASE HunkEnd
    <3>1. /\ pc' = pc /\ i > Len(hunk) /\ comments' = comments /\ c' = c
          /\ in_comment' = FALSE
      BY <2>21 DEF HunkEnd, c
    <3>2. comments' # <<>> => Finished'
      BY <2>20, <3>1, Zenon DEF Finished, Complete
    <3>3. QED
      BY <2>0, <2>2, <2>6, <3>1, <3>2
  <2>22. CASE PatchEnd
    <3>1. pc' = "done" /\ i > Len(hunk) /\ comments' = comments /\ c' = c
      BY <2>22 DEF PatchEnd, BreakOff, c
    <3>2. comments' # <<>> => Complete(c')
      BY <2>20, <3>1
    <3>3. QED
      BY <2>2, <3>1, <3>2, Zenon DEF StayInv, Complete
  <2>23. QED
    BY <1>2, <2>9, <2>10, <2>11, <2>12, <2>13, <2>14, <2>15, <2>16, <2>17, <2>18,
       <2>19, <2>21, <2>22 DEF Next
<1>3. QED
  BY <1>1, <1>2

LEMMA InitStays == Init => StayInv
<1> SUFFICES ASSUME Init PROVE StayInv
  OBVIOUS
<1>1. comments = <<>> /\ Len(comments) = 0
  BY EmptySeq DEF Init
<1>2. QED
  BY <1>1 DEF StayInv

LEMMA StutterStays ==
  ASSUME StayInv, UNCHANGED vars
  PROVE  StayInv'
<1>1. /\ patch' = patch /\ pc' = pc /\ comments' = comments /\ i' = i /\ h' = h
      /\ in_comment' = in_comment /\ in_multiline' = in_multiline
      /\ range_start' = range_start
  BY DEF vars, parser, scan
<1>2. ClosedBraces' = ClosedBraces /\ Finished' = Finished /\ Awaits' = Awaits
      /\ InBraces' = InBraces /\ c' = c
  BY <1>1 DEF ClosedBraces, AllIn, Finished, Complete, Awaits, InBraces, c, hunk
<1>3. QED
  BY <1>1, <1>2, Zenon DEF StayInv, Complete

\* Where every `{' is closed in time, each comment of an accepted diff carries
\* lines of the hunk its note stands in, from below the note; for hunks of any
\* length and any order of notes, ranges and changes (gcli_hunk_get_comments).
THEOREM StayInTheirHunk == Spec => []CommentsStayInTheirHunk
<1>1. TypeInv /\ StayInv /\ [Next]_vars => (TypeInv /\ StayInv)'
  BY NextTypes, StutterTypes, NextStays, StutterStays
<1>2. TypeInv /\ StayInv => CommentsStayInTheirHunk
  <2> SUFFICES ASSUME TypeInv, StayInv, ClosedBraces, pc = "done",
                      NEW n \in 1..Len(comments)
               PROVE  Complete(comments[n])
    BY DEF CommentsStayInTheirHunk, Complete
  <2>1. /\ comments \in Seq(CommentType) /\ Len(comments) \in Nat
        /\ \A k \in 1..Len(comments) : k < Len(comments) => Complete(comments[k])
        /\ comments # <<>> => Complete(c)
    BY LenProperties DEF TypeInv, ScannerTypes, StayInv
  <2>2. CASE n < Len(comments)
    BY <2>1, <2>2
  <2>3. CASE n = Len(comments)
    <3>1. comments # <<>>
      BY <2>1, EmptySeq
    <3>2. QED
      BY <2>1, <2>3, <3>1 DEF c, Last
  <2>4. QED
    BY <2>1, <2>2, <2>3
<1>3. QED
  BY InitTypes, InitStays, <1>1, <1>2, PTL DEF Spec

-----------------------------------------------------------------------------
(* What the text is made of, from a patch, a file or a hunk on. *)

commits == source.patches
FileAt(q, f) == commits[q].files[f]

PatchTexts == [k \in 1..Len(commits) |-> PrintedPatch(commits[k])]
FileTexts(q) ==
  [k \in 1..Len(commits[q].files) |-> PrintedFile(commits[q].files[k])]
HunkTexts(q, f) ==
  [k \in 1..Len(FileAt(q, f).hunks) |-> <<"@@">> \o FileAt(q, f).hunks[k]]

TextFrom(q) == FlattenSeq(Onward(PatchTexts, q))
FilesFrom(q, f) == FlattenSeq(Onward(FileTexts(q), f))
HunksFrom(q, f, k) == FlattenSeq(Onward(HunkTexts(q, f), k))

\* The hunks that are to come.
PatchHunks ==
  [k \in 1..Len(commits) |->
     FlattenSeq([f \in 1..Len(commits[k].files) |-> commits[k].files[f].hunks])]
FileHunks(q) == [f \in 1..Len(commits[q].files) |-> commits[q].files[f].hunks]

LeftFrom(q) == FlattenSeq(Onward(PatchHunks, q))
LeftInPatch(q, f) == FlattenSeq(Onward(FileHunks(q), f)) \o LeftFrom(q + 1)

\* What stands behind file f of patch q.
Behind(q, f) == FilesFrom(q, f + 1) \o (commits[q].trailer \o TextFrom(q + 1))

LEMMA LooseLines ==
  ASSUME NEW t \in Seq(Loose)
  PROVE  t \in Seq(Lines) /\ <<"@@">> \o t \in Seq(Lines) /\ <<"@@">> \in Seq(Lines)
<1>1. t \in Seq(Lines) /\ "@@" \in Lines
  BY Words, SeqMonotonic
<1>2. <<"@@">> \in Seq(Lines)
  BY <1>1
<1>3. QED
  BY <1>1, <1>2, ConcatProperties

LEMMA CommitTypes ==
  ASSUME source \in Sources, NEW q \in 1..Len(commits)
  PROVE  /\ commits[q] \in Commit
         /\ commits[q].prelude \in Seq(Loose) /\ commits[q].prelude \in Seq(Lines)
         /\ commits[q].trailer \in Seq(Loose) /\ commits[q].trailer \in Seq(Lines)
         /\ commits[q].files \in Seq(PatchFile) /\ Len(commits[q].files) \in Nat
         /\ \A f \in 1..Len(commits[q].files) :
              /\ FileAt(q, f) \in PatchFile
              /\ FileAt(q, f).head \in Seq(Lines)
              /\ FileAt(q, f).hunks \in Seq(Seq(Loose))
              /\ Len(FileAt(q, f).hunks) \in Nat
<1>1. commits \in Seq(Commit)
  BY SourcesAssumption DEF commits
<1>2. commits[q] \in Commit
  BY <1>1, ElementOfSeq
<1>3. /\ commits[q].prelude \in Seq(Loose) /\ commits[q].trailer \in Seq(Loose)
      /\ commits[q].files \in Seq(PatchFile)
  BY <1>2 DEF Commit
<1>4. /\ commits[q].prelude \in Seq(Lines) /\ commits[q].trailer \in Seq(Lines)
      /\ Len(commits[q].files) \in Nat
  BY <1>3, LooseLines, LenProperties
<1>5. ASSUME NEW f \in 1..Len(commits[q].files)
      PROVE  /\ FileAt(q, f) \in PatchFile
             /\ FileAt(q, f).head \in Seq(Lines)
             /\ FileAt(q, f).hunks \in Seq(Seq(Loose))
             /\ Len(FileAt(q, f).hunks) \in Nat
  <2>1. FileAt(q, f) \in PatchFile
    BY <1>3, ElementOfSeq DEF FileAt
  <2>2. FileAt(q, f).head \in FileHead /\ FileAt(q, f).hunks \in Seq(Seq(Loose))
    BY <2>1 DEF PatchFile
  <2>3. FileAt(q, f).head \in Texts
    BY <2>2, CleanHead
  <2>4. QED
    BY <2>1, <2>2, <2>3, LenProperties DEF Texts
<1>6. QED
  BY <1>2, <1>3, <1>4, <1>5

\* The texts of the hunks of a file
LEMMA HunkTextsShape ==
  ASSUME source \in Sources, NEW q \in 1..Len(commits),
         NEW f \in 1..Len(commits[q].files)
  PROVE  /\ \A k \in 1..Len(FileAt(q, f).hunks) :
              /\ FileAt(q, f).hunks[k] \in Seq(Loose)
              /\ FileAt(q, f).hunks[k] \in Seq(Lines)
              /\ HunksFrom(q, f, k)
                   = (<<"@@">> \o FileAt(q, f).hunks[k]) \o HunksFrom(q, f, k + 1)
         /\ \A k \in 1..Len(FileAt(q, f).hunks) + 1 : HunksFrom(q, f, k) \in Seq(Lines)
         /\ HunksFrom(q, f, Len(FileAt(q, f).hunks) + 1) = <<>>
         /\ PrintedFile(FileAt(q, f)) = FileAt(q, f).head \o HunksFrom(q, f, 1)
<1> DEFINE s == HunkTexts(q, f)
           top == Len(FileAt(q, f).hunks)
<1>1. FileAt(q, f).hunks \in Seq(Seq(Loose)) /\ top \in Nat
  BY CommitTypes
<1>2. ASSUME NEW k \in 1..top
      PROVE  /\ FileAt(q, f).hunks[k] \in Seq(Loose)
             /\ FileAt(q, f).hunks[k] \in Seq(Lines)
             /\ <<"@@">> \o FileAt(q, f).hunks[k] \in Seq(Lines)
  BY <1>1, ElementOfSeq, LooseLines
<1>3. s \in Seq(Seq(Lines)) /\ Len(s) = top
      /\ \A k \in 1..top : s[k] = <<"@@">> \o FileAt(q, f).hunks[k]
  <2>1. s \in [1..top -> Seq(Lines)]
    BY <1>2 DEF HunkTexts
  <2>2. s \in Seq(Seq(Lines)) /\ Len(s) = top
    <3> HIDE DEF top, s
    <3>1. QED
      BY <1>1, <2>1, FunctionIsSeq
  <2>3. QED
    BY <2>2 DEF HunkTexts
<1> HIDE DEF s
<1>4. /\ \A k \in 1..top : FlattenSeq(Onward(s, k))
                             = s[k] \o FlattenSeq(Onward(s, k + 1))
      /\ FlattenSeq(Onward(s, top + 1)) = <<>>
      /\ \A k \in 1..top + 1 : FlattenSeq(Onward(s, k)) \in Seq(Lines)
  BY <1>3, FlattenOnward
<1>5. PrintedFile(FileAt(q, f)) = FileAt(q, f).head \o HunksFrom(q, f, 1)
  <2>1. Onward(s, 1) = s
    BY <1>3, OnwardAll
  <2>2. QED
    BY <2>1 DEF PrintedFile, HunksFrom, s, HunkTexts
<1>6. QED
  BY <1>2, <1>3, <1>4, <1>5 DEF HunksFrom, s

\* The texts of the files of a patch
LEMMA FileTextsShape ==
  ASSUME source \in Sources, NEW q \in 1..Len(commits)
  PROVE  /\ \A f \in 1..Len(commits[q].files) :
              FilesFrom(q, f) = (FileAt(q, f).head \o HunksFrom(q, f, 1))
                                  \o FilesFrom(q, f + 1)
         /\ \A f \in 1..Len(commits[q].files) + 1 : FilesFrom(q, f) \in Seq(Lines)
         /\ FilesFrom(q, Len(commits[q].files) + 1) = <<>>
         /\ PrintedPatch(commits[q])
              = commits[q].prelude \o FilesFrom(q, 1) \o commits[q].trailer
<1> DEFINE s == FileTexts(q)
           top == Len(commits[q].files)
<1>1. top \in Nat
  BY CommitTypes
<1>2. ASSUME NEW f \in 1..top
      PROVE  /\ PrintedFile(commits[q].files[f]) \in Seq(Lines)
             /\ PrintedFile(commits[q].files[f])
                  = FileAt(q, f).head \o HunksFrom(q, f, 1)
  <2>1. FileAt(q, f).head \in Seq(Lines) /\ Len(FileAt(q, f).hunks) \in Nat
    BY CommitTypes
  <2>2. 1 \in 1..Len(FileAt(q, f).hunks) + 1
    BY <2>1
  <2>3. /\ HunksFrom(q, f, 1) \in Seq(Lines)
        /\ PrintedFile(FileAt(q, f)) = FileAt(q, f).head \o HunksFrom(q, f, 1)
    BY <2>2, HunkTextsShape
  <2>4. QED
    BY <2>1, <2>3, ConcatProperties DEF FileAt
<1>3. s \in Seq(Seq(Lines)) /\ Len(s) = top
      /\ \A f \in 1..top : s[f] = PrintedFile(commits[q].files[f])
  <2>1. s \in [1..top -> Seq(Lines)]
    BY <1>2 DEF FileTexts
  <2>2. s \in Seq(Seq(Lines)) /\ Len(s) = top
    <3> HIDE DEF top, s
    <3>1. QED
      BY <1>1, <2>1, FunctionIsSeq
  <2>3. QED
    BY <2>2 DEF FileTexts
<1> HIDE DEF s
<1>4. /\ \A f \in 1..top : FlattenSeq(Onward(s, f))
                             = s[f] \o FlattenSeq(Onward(s, f + 1))
      /\ FlattenSeq(Onward(s, top + 1)) = <<>>
      /\ \A f \in 1..top + 1 : FlattenSeq(Onward(s, f)) \in Seq(Lines)
  BY <1>3, FlattenOnward
<1>5. PrintedPatch(commits[q])
        = commits[q].prelude \o FilesFrom(q, 1) \o commits[q].trailer
  <2>1. Onward(s, 1) = s
    BY <1>3, OnwardAll
  <2>2. QED
    BY <2>1 DEF PrintedPatch, FilesFrom, s, FileTexts
<1>6. QED
  BY <1>2, <1>3, <1>4, <1>5 DEF FilesFrom, s

\* The texts of the patches
LEMMA PatchTextsShape ==
  ASSUME source \in Sources
  PROVE  /\ Len(commits) \in Nat
         /\ \A q \in 1..Len(commits) :
              TextFrom(q) = (commits[q].prelude \o FilesFrom(q, 1)
                               \o commits[q].trailer) \o TextFrom(q + 1)
         /\ \A q \in 1..Len(commits) + 1 : TextFrom(q) \in Seq(Lines)
         /\ TextFrom(Len(commits) + 1) = <<>>
         /\ Printed(source) = TextFrom(1)
<1> DEFINE s == PatchTexts
           top == Len(commits)
<1>1. top \in Nat
  <2>1. commits \in Seq(Commit)
    BY SourcesAssumption DEF commits
  <2>2. QED
    BY <2>1, LenProperties
<1>2. ASSUME NEW q \in 1..top
      PROVE  /\ PrintedPatch(commits[q]) \in Seq(Lines)
             /\ PrintedPatch(commits[q])
                  = commits[q].prelude \o FilesFrom(q, 1) \o commits[q].trailer
  <2>1. /\ commits[q].prelude \in Seq(Lines) /\ commits[q].trailer \in Seq(Lines)
        /\ Len(commits[q].files) \in Nat
    BY CommitTypes
  <2>2. 1 \in 1..Len(commits[q].files) + 1
    BY <2>1
  <2>3. /\ FilesFrom(q, 1) \in Seq(Lines)
        /\ PrintedPatch(commits[q])
             = commits[q].prelude \o FilesFrom(q, 1) \o commits[q].trailer
    BY <2>2, FileTextsShape
  <2>4. commits[q].prelude \o FilesFrom(q, 1) \in Seq(Lines)
    BY <2>1, <2>3, ConcatProperties
  <2>5. QED
    BY <2>1, <2>3, <2>4, ConcatProperties
<1>3. s \in Seq(Seq(Lines)) /\ Len(s) = top
      /\ \A q \in 1..top : s[q] = PrintedPatch(commits[q])
  <2>1. s \in [1..top -> Seq(Lines)]
    BY <1>2 DEF PatchTexts
  <2>2. s \in Seq(Seq(Lines)) /\ Len(s) = top
    <3> HIDE DEF top, s
    <3>1. QED
      BY <1>1, <2>1, FunctionIsSeq
  <2>3. QED
    BY <2>2 DEF PatchTexts
<1> HIDE DEF s
<1>4. /\ \A q \in 1..top : FlattenSeq(Onward(s, q))
                             = s[q] \o FlattenSeq(Onward(s, q + 1))
      /\ FlattenSeq(Onward(s, top + 1)) = <<>>
      /\ \A q \in 1..top + 1 : FlattenSeq(Onward(s, q)) \in Seq(Lines)
  BY <1>3, FlattenOnward
<1>5. Printed(source) = TextFrom(1)
  <2>1. Onward(s, 1) = s
    BY <1>3, OnwardAll
  <2>2. QED
    BY <2>1 DEF Printed, TextFrom, s, PatchTexts, commits
<1>6. QED
  BY <1>1, <1>2, <1>3, <1>4, <1>5 DEF TextFrom, s

\* The hunks of the files of a patch, and of the patches
LEMMA LeftShape ==
  ASSUME source \in Sources
  PROVE  /\ LeftFrom(Len(commits) + 1) = <<>>
         /\ LeftFrom(1) = annotated
         /\ \A q \in 1..Len(commits) + 1 : LeftFrom(q) \in Seq(Seq(Loose))
         /\ \A q \in 1..Len(commits) :
              /\ LeftFrom(q) = LeftInPatch(q, 1)
              /\ LeftInPatch(q, Len(commits[q].files) + 1) = LeftFrom(q + 1)
              /\ \A f \in 1..Len(commits[q].files) + 1 :
                   LeftInPatch(q, f) \in Seq(Seq(Loose))
              /\ \A f \in 1..Len(commits[q].files) :
                   LeftInPatch(q, f) = FileAt(q, f).hunks \o LeftInPatch(q, f + 1)
<1> DEFINE T == Seq(Loose)
           top == Len(commits)
<1>1. top \in Nat
  BY PatchTextsShape
<1>2. ASSUME NEW q \in 1..top
      PROVE  /\ FileHunks(q) \in Seq(Seq(T))
             /\ Len(FileHunks(q)) = Len(commits[q].files)
             /\ FlattenSeq(FileHunks(q)) \in Seq(T)
             /\ \A f \in 1..Len(commits[q].files) :
                  FileHunks(q)[f] = FileAt(q, f).hunks
  <2>1. Len(commits[q].files) \in Nat
        /\ \A f \in 1..Len(commits[q].files) : FileAt(q, f).hunks \in Seq(T)
    BY CommitTypes
  <2>2. FileHunks(q) \in [1..Len(commits[q].files) -> Seq(T)]
        /\ \A f \in 1..Len(commits[q].files) :
             FileHunks(q)[f] = FileAt(q, f).hunks
    BY <2>1 DEF FileHunks, FileAt
  <2>3. FileHunks(q) \in Seq(Seq(T)) /\ Len(FileHunks(q)) = Len(commits[q].files)
    BY <2>1, <2>2, FunctionIsSeq
  <2>4. FlattenSeq(FileHunks(q)) \in Seq(T)
    <3>1. <<>> \in Seq(T)
      BY EmptySeq
    <3>2. QED
      BY <2>3, <3>1, FlattenAppend
  <2>5. QED
    BY <2>2, <2>3, <2>4
<1>3. /\ PatchHunks \in Seq(Seq(T)) /\ Len(PatchHunks) = top
      /\ \A q \in 1..top : PatchHunks[q] = FlattenSeq(FileHunks(q))
  <2>1. /\ PatchHunks \in [1..top -> Seq(T)]
        /\ \A q \in 1..top : PatchHunks[q] = FlattenSeq(FileHunks(q))
    BY <1>2 DEF PatchHunks, FileHunks
  <2>2. QED
    BY <1>1, <2>1, FunctionIsSeq
<1> HIDE DEF T
<1>4. /\ \A q \in 1..top : LeftFrom(q) = PatchHunks[q] \o LeftFrom(q + 1)
      /\ LeftFrom(top + 1) = <<>>
      /\ \A q \in 1..top + 1 : LeftFrom(q) \in Seq(T)
  BY <1>3, FlattenOnward DEF LeftFrom
<1>5. LeftFrom(1) = annotated
  <2>1. Onward(PatchHunks, 1) = PatchHunks
    BY <1>3, OnwardAll
  <2>2. QED
    BY <2>1 DEF annotated, LeftFrom, PatchHunks, commits
<1>6. ASSUME NEW q \in 1..top
      PROVE  /\ LeftFrom(q) = LeftInPatch(q, 1)
             /\ LeftInPatch(q, Len(commits[q].files) + 1) = LeftFrom(q + 1)
             /\ \A f \in 1..Len(commits[q].files) + 1 :
                  LeftInPatch(q, f) \in Seq(T)
             /\ \A f \in 1..Len(commits[q].files) :
                  LeftInPatch(q, f) = FileAt(q, f).hunks \o LeftInPatch(q, f + 1)
  <2> DEFINE s == FileHunks(q)
             n == Len(commits[q].files)
  <2>1. /\ s \in Seq(Seq(T)) /\ Len(s) = n /\ n \in Nat
        /\ \A f \in 1..n : s[f] = FileAt(q, f).hunks /\ s[f] \in Seq(T)
    BY <1>2, ElementOfSeq, LenProperties
  <2> HIDE DEF s, n
  <2>2. /\ \A f \in 1..n : FlattenSeq(Onward(s, f))
                             = s[f] \o FlattenSeq(Onward(s, f + 1))
        /\ FlattenSeq(Onward(s, n + 1)) = <<>>
        /\ \A f \in 1..n + 1 : FlattenSeq(Onward(s, f)) \in Seq(T)
        /\ Onward(s, 1) = s
    BY <2>1, FlattenOnward, OnwardAll
  <2>3. LeftFrom(q + 1) \in Seq(T)
    <3>1. q + 1 \in 1..top + 1
      BY <1>1
    <3>2. QED
      BY <1>4, <3>1
  <2>4. LeftFrom(q) = LeftInPatch(q, 1)
    BY <1>3, <1>4, <2>2 DEF LeftInPatch, s
  <2>5. LeftInPatch(q, n + 1) = LeftFrom(q + 1)
    BY <2>2, <2>3, ConcatEmptySeq DEF LeftInPatch, s
  <2>6. ASSUME NEW f \in 1..n + 1 PROVE LeftInPatch(q, f) \in Seq(T)
    BY <2>2, <2>3, ConcatProperties DEF LeftInPatch, s
  <2>7. ASSUME NEW f \in 1..n
        PROVE  LeftInPatch(q, f) = FileAt(q, f).hunks \o LeftInPatch(q, f + 1)
    <3>1. f + 1 \in 1..n + 1
      BY <2>1
    <3>2. FlattenSeq(Onward(s, f + 1)) \in Seq(T)
      BY <2>2, <3>1
    <3>3. (s[f] \o FlattenSeq(Onward(s, f + 1))) \o LeftFrom(q + 1)
            = s[f] \o (FlattenSeq(Onward(s, f + 1)) \o LeftFrom(q + 1))
      <4> DEFINE a == s[f]
                 b == FlattenSeq(Onward(s, f + 1))
                 d == LeftFrom(q + 1)
      <4>1. a \in Seq(T) /\ b \in Seq(T) /\ d \in Seq(T)
        BY <2>1, <2>3, <3>2
      <4> HIDE DEF a, b, d
      <4>2. (a \o b) \o d = a \o (b \o d)
        BY <4>1, ConcatAssociative
      <4>3. QED
        BY <4>2 DEF a, b, d
    <3>4. QED
      BY <2>1, <2>2, <3>3 DEF LeftInPatch, s
  <2>8. QED
    BY <2>4, <2>5, <2>6, <2>7 DEF n
<1>7. QED
  BY <1>1, <1>4, <1>5, <1>6 DEF T

-----------------------------------------------------------------------------
(* Where the parser stands in an annotated diff that keeps to the manual.    *)

\* What has not been read, and what has been with what is to come.
Ahead == Onward(text, hd)

Qs == 1..Len(commits)
Fs(q) == 1..Len(commits[q].files)
Ks(q, f) == 1..Len(FileAt(q, f).hunks)

\* The next line is the first of patch q; line n of a head; the first of a hunk.
AtPatch(q) == Ahead = TextFrom(q) /\ patch \o LeftFrom(q) = annotated

InHead(q, f, n) ==
  /\ Ahead = Onward(FileAt(q, f).head, n) \o (HunksFrom(q, f, 1) \o Behind(q, f))
  /\ patch \o LeftInPatch(q, f) = annotated

AtHunk(q, f, k) ==
  /\ Ahead = HunksFrom(q, f, k) \o Behind(q, f)
  /\ patch \o (Onward(FileAt(q, f).hunks, k) \o LeftInPatch(q, f + 1)) = annotated

\* The last hunk of patch q has been read, and the trailer with it.
PatchRead(q) ==
  /\ Ahead = TextFrom(q + 1)
  /\ diffs > 0 /\ hunks > 0
  /\ \E pre \in Seq(Seq(Loose)), x \in Seq(Loose) :
       /\ patch = Append(pre, x \o commits[q].trailer)
       /\ Append(pre, x) \o LeftFrom(q + 1) = annotated
       /\ x # <<>> /\ \A j \in 1..Len(x) : x[j] # "dashes"

NothingLeft == Ahead = <<>> /\ patch = annotated /\ diffs = 0

HeadPlaces == {"header", "new file mode", "index", "r file", "a file"}

\* The line of a head of n lines that is read at a place.
HeadLine(place, n) ==
  CASE place = "header" -> 1
    [] place = "new file mode" -> 2
    [] place = "index" -> n - 2
    [] place = "r file" -> n - 1
    [] place = "a file" -> n

Following ==
  /\ pc = "series prelude" => hd = 1 /\ AtPatch(1)
  /\ pc = "series" => \E q \in 1..Len(commits) + 1 : AtPatch(q)
  /\ pc \in {"series prelude", "series"} => source.series
  /\ pc = "prelude" => \E q \in Qs : AtPatch(q)
  /\ pc = "diffs" =>
       \/ NothingLeft
       \/ \E q \in Qs : PatchRead(q) \/ \E f \in Fs(q) : InHead(q, f, 1)
  /\ pc \in HeadPlaces =>
       \E q \in Qs : \E f \in Fs(q) :
         InHead(q, f, HeadLine(pc, Len(FileAt(q, f).head)))
  /\ pc = "hunks" =>
       \E q \in Qs : \/ PatchRead(q)
                     \/ \E f \in Fs(q) : \/ InHead(q, f, 1)
                                         \/ \E k \in Ks(q, f) : AtHunk(q, f, k)
  /\ pc \in HeadPlaces \cup {"hunks"} => diffs > 0
  /\ pc \in {"line", "done"} => patch = annotated

\* A run of lines without some kinds and with one of them behind it is what
\* EndBefore finds.
LEMMA EndBeforeIs ==
  ASSUME text \in Seq(Lines), hd \in 1..Len(text) + 1, NEW kinds,
         NEW s \in Seq(Lines), NEW b \in Seq(Lines), Ahead = s \o b,
         \A j \in 1..Len(s) : s[j] \notin kinds,
         b = <<>> \/ b[1] \in kinds
  PROVE  /\ EndBefore(kinds) + 1 = hd + Len(s)
         /\ hd + Len(s) \in 1..Len(text) + 1
         /\ Onward(text, hd + Len(s)) = b
<1>0. /\ hd + Len(s) \in 1..Len(text) + 1 /\ Onward(text, hd + Len(s)) = b
      /\ Len(text) = hd + Len(s) + Len(b) - 1
      /\ \A j \in 1..Len(s) : text[hd + j - 1] = s[j]
      /\ \A j \in 1..Len(b) : text[hd + Len(s) + j - 1] = b[j]
  <2>1. IsMadeOf(text, hd, s, b)
    BY DEF Ahead, IsMadeOf
  <2>2. QED
    BY <2>1, OnwardOfConcat
<1> DEFINE e == EndBefore(kinds)
           m == hd + Len(s)
           lt == Len(text)
           lb == Len(b)
<1>1. /\ m \in 1..lt + 1 /\ Onward(text, m) = b
      /\ lt = hd + Len(s) + lb - 1
      /\ \A j \in 1..Len(s) : text[hd + j - 1] = s[j]
      /\ \A j \in 1..lb : text[hd + Len(s) + j - 1] = b[j]
  BY <1>0
<1>2. /\ e \in hd - 1..lt /\ \A k \in hd..e : text[k] \notin kinds
      /\ e < lt => text[e + 1] \in kinds
  BY EndBeforeShape
<1>3. lt \in Nat /\ lb \in Nat /\ Len(s) \in Nat /\ hd \in 1..lt + 1
  BY LenProperties
<1> HIDE DEF e, lt, lb
<1>4. ASSUME e + 1 < m PROVE FALSE
  <2>1. e < lt /\ e + 1 - hd + 1 \in 1..Len(s)
        /\ hd + (e + 1 - hd + 1) - 1 = e + 1
    BY <1>1, <1>2, <1>3, <1>4
  <2>2. text[e + 1] = s[e + 1 - hd + 1]
    BY <1>1, <2>1, Zenon
  <2>3. QED
    BY <1>2, <2>1, <2>2
<1>5. ASSUME e + 1 > m PROVE FALSE
  <2>1. m \in hd..e /\ lb # 0 /\ 1 \in 1..lb /\ hd + Len(s) + 1 - 1 = m
    BY <1>1, <1>2, <1>3, <1>5
  <2>2. text[m] = b[1]
    BY <1>1, <2>1, Zenon
  <2>3. b # <<>>
    BY <2>1, EmptySeq DEF lb
  <2>4. QED
    BY <1>2, <2>1, <2>2, <2>3
<1>6. e + 1 = m
  BY <1>1, <1>2, <1>3, <1>4, <1>5
<1>7. QED
  BY <1>1, <1>6 DEF e, lt

\* Likewise for the lines of a hunk.
LEMMA BodyEndIs ==
  ASSUME text \in Seq(Lines), hd \in 1..Len(text) + 1,
         NEW x \in Seq(Lines), NEW b \in Seq(Lines), Ahead = (<<"@@">> \o x) \o b,
         \A j \in 1..Len(x) : x[j] \notin BodyEnds,
         b = <<>> \/ b[1] \in BodyEnds
  PROVE  /\ hd \in 1..Len(text) /\ text[hd] = "@@"
         /\ BodyEnd + 1 \in 1..Len(text) + 1
         /\ Onward(text, BodyEnd + 1) = b
         /\ SubSeq(text, hd + 1, BodyEnd) = x
<1> DEFINE e == BodyEnd
           a == <<"@@">> \o x
           lt == Len(text)
           lb == Len(b)
           lx == Len(x)
           m == hd + Len(a)
<1>0. /\ a \in Seq(Lines) /\ Len(a) = 1 + lx /\ lx \in Nat /\ a[1] = "@@"
      /\ \A j \in 1..lx : a[1 + j] = x[j]
  <2>1. <<"@@">> \in Seq(Lines) /\ Len(<<"@@">>) = 1 /\ lx \in Nat
    BY Words, LenProperties
  <2>2. /\ a \in Seq(Lines) /\ Len(a) = 1 + lx
        /\ \A j \in 1..1 + lx : a[j] = IF j <= 1 THEN <<"@@">>[j] ELSE x[j - 1]
    BY <2>1, ConcatProperties
  <2>3. a[1] = "@@"
    BY <2>1, <2>2
  <2>4. ASSUME NEW j \in 1..lx PROVE a[1 + j] = x[j]
    <3>1. 1 + j \in 1..1 + lx /\ ~(1 + j <= 1) /\ (1 + j) - 1 = j
      BY <2>1
    <3>2. QED
      BY <2>2, <3>1, Zenon
  <2>5. QED
    BY <2>1, <2>2, <2>3, <2>4
<1> HIDE DEF a
<1>1. /\ m \in 1..lt + 1 /\ Onward(text, m) = b
      /\ lt = hd + Len(a) + lb - 1
      /\ \A j \in 1..Len(a) : text[hd + j - 1] = a[j]
      /\ \A j \in 1..lb : text[hd + Len(a) + j - 1] = b[j]
  <2>1. IsMadeOf(text, hd, a, b)
    BY DEF Ahead, IsMadeOf, a
  <2>2. /\ hd + Len(a) \in 1..Len(text) + 1 /\ Onward(text, hd + Len(a)) = b
        /\ Len(text) = hd + Len(a) + Len(b) - 1
        /\ \A j \in 1..Len(a) : text[hd + j - 1] = a[j]
        /\ \A j \in 1..Len(b) : text[hd + Len(a) + j - 1] = b[j]
    <3> HIDE DEF lt, lb, lx, m, e
    <3>1. a \in Seq(Lines)
      BY <1>0
    <3>2. QED
      BY <2>1, <3>1, OnwardOfConcat
  <2>3. QED
    BY <2>2
<1>2. lt \in Nat /\ lb \in Nat /\ hd \in 1..lt + 1
  BY LenProperties
<1> HIDE DEF lt, lb, lx
<1>3. /\ m = hd + 1 + lx /\ hd \in 1..lt /\ text[hd] = "@@"
      /\ \A j \in 1..lx : text[hd + j] = x[j]
      /\ lb # 0 => text[m] = b[1]
  <2>1. m = hd + 1 + lx /\ hd \in 1..lt
    BY <1>0, <1>1, <1>2
  <2>2. ASSUME NEW j \in 0..lx PROVE text[hd + j] = a[1 + j]
    <3>1. 1 + j \in 1..Len(a) /\ hd + (1 + j) - 1 = hd + j
      BY <1>0, <1>2
    <3>2. QED
      BY <1>1, <3>1, Zenon
  <2>3. text[hd] = "@@"
    <3>1. 0 \in 0..lx /\ hd + 0 = hd /\ 1 + 0 = 1
      BY <1>0, <1>2
    <3>2. QED
      BY <1>0, <2>2, <3>1
  <2>4. \A j \in 1..lx : text[hd + j] = x[j]
    BY <1>0, <2>2
  <2>5. ASSUME lb # 0 PROVE text[m] = b[1]
    <3>1. 1 \in 1..lb /\ hd + Len(a) + 1 - 1 = m
      BY <1>0, <1>2, <2>5
    <3>2. QED
      BY <1>1, <3>1, Zenon
  <2>6. QED
    BY <2>1, <2>3, <2>4, <2>5
<1>4. /\ e \in hd..lt /\ \A j \in hd + 1..e : text[j] \notin BodyEnds
      /\ e < lt => text[e + 1] \in BodyEnds
  BY <1>3, BodyEndShape DEF lt
<1> HIDE DEF e, m
<1>5. ASSUME e + 1 < m PROVE FALSE
  <2>1. e < lt /\ e + 1 - hd \in 1..lx /\ hd + (e + 1 - hd) = e + 1
    BY <1>0, <1>1, <1>2, <1>3, <1>4, <1>5
  <2>2. text[e + 1] = x[e + 1 - hd]
    BY <1>3, <2>1, Zenon
  <2>3. QED
    BY <1>4, <2>1, <2>2 DEF lx
<1>6. ASSUME e + 1 > m PROVE FALSE
  <2>1. m \in hd + 1..e /\ lb # 0
    BY <1>0, <1>1, <1>2, <1>3, <1>4, <1>6
  <2>2. b # <<>>
    BY <2>1, EmptySeq DEF lb
  <2>3. QED
    BY <1>3, <1>4, <2>1, <2>2
<1>7. e + 1 = m
  BY <1>0, <1>2, <1>3, <1>4, <1>5, <1>6
<1>8. SubSeq(text, hd + 1, e) = x
  <2> DEFINE d == SubSeq(text, hd + 1, e)
  <2>0. e = hd + lx /\ hd \in Nat /\ e \in Int /\ e - (hd + 1) + 1 = lx
    BY <1>0, <1>2, <1>3, <1>4, <1>7
  <2>1. \A j \in hd + 1..e : text[j] \in Lines
    <3>1. \A j \in hd + 1..e : j \in 1..lt
      BY <1>2, <1>4
    <3>2. QED
      BY <3>1, ElementOfSeq DEF lt
  <2>2. /\ d \in Seq(Lines)
        /\ Len(d) = IF hd + 1 <= e THEN e - (hd + 1) + 1 ELSE 0
        /\ \A j \in 1..e - (hd + 1) + 1 : d[j] = text[hd + 1 + j - 1]
    <3>1. hd + 1 \in Int /\ e \in Int
      BY <2>0
    <3>2. QED
      BY <2>1, <3>1, SubSeqProperties
  <2> HIDE DEF d
  <2>3. Len(d) = lx
    BY <1>0, <2>0, <2>2
  <2>4. ASSUME NEW j \in 1..lx PROVE d[j] = x[j]
    <3>1. hd + 1 + j - 1 = hd + j /\ j \in 1..e - (hd + 1) + 1
      BY <2>0
    <3>2. QED
      BY <1>3, <2>2, <3>1, Zenon
  <2>5. d = x
    BY <2>2, <2>3, <2>4, SeqEqual DEF lx
  <2>6. QED
    BY <2>5 DEF d
<1>9. QED
  BY <1>1, <1>3, <1>7, <1>8 DEF e, m, lt

-----------------------------------------------------------------------------
(* What the manual says of the patches.                                      *)

LEMMA ManualPatch ==
  ASSUME source \in Sources, WellFormed, NEW q \in Qs
  PROVE  /\ source.series \/ Len(commits) = 1
         /\ source.series => commits[q].prelude # <<>> /\ commits[q].prelude[1] = "sep"
         /\ \A j \in 1..Len(commits[q].prelude) : commits[q].prelude[j] \notin DiffWords
         /\ commits[q].trailer = <<>> \/ commits[q].trailer = <<"dashes", "note", "blank">>
         /\ \A j \in 1..Len(commits[q].trailer) : commits[q].trailer[j] \notin BodyEnds
<1>1. WellFormedPatch(commits[q], source.series) /\ (source.series \/ Len(commits) = 1)
  BY DEF WellFormed, commits, Qs
<1>2. /\ source.series => commits[q].prelude # <<>> /\ commits[q].prelude[1] = "sep"
      /\ ToSet(commits[q].prelude) \cap DiffWords = {}
      /\ commits[q].trailer \in {<<>>, <<"dashes", "note", "blank">>}
  BY <1>1 DEF WellFormedPatch
<1>3. commits[q].prelude \in Seq(Lines) /\ commits[q].trailer \in Seq(Lines)
  BY CommitTypes DEF Qs
<1>4. ASSUME NEW j \in 1..Len(commits[q].prelude)
      PROVE  commits[q].prelude[j] \notin DiffWords
  <2>1. j \in DOMAIN commits[q].prelude
    BY <1>3, LenProperties
  <2>2. commits[q].prelude[j] \in ToSet(commits[q].prelude)
    BY <2>1 DEF ToSet
  <2>3. QED
    BY <1>2, <2>2
<1>5. ASSUME NEW j \in 1..Len(commits[q].trailer)
      PROVE  commits[q].trailer[j] \notin BodyEnds
  <2>1. CASE commits[q].trailer = <<>>
    BY <2>1
  <2>2. CASE commits[q].trailer = <<"dashes", "note", "blank">>
    <3>1. commits[q].trailer[j] \in {"dashes", "note", "blank"}
      BY <2>2
    <3>2. QED
      BY <3>1 DEF BodyEnds, DiffWords, HunkWords, Separators
  <2>3. QED
    BY <1>2, <2>1, <2>2
<1>6. QED
  BY <1>1, <1>2, <1>4, <1>5

LEMMA ManualFile ==
  ASSUME source \in Sources, WellFormed, NEW q \in Qs, NEW f \in Fs(q)
  PROVE  /\ FileAt(q, f).head \in Heads
         /\ Len(FileAt(q, f).hunks) \in Nat \ {0}
         /\ \A k \in Ks(q, f) :
              /\ WellFormedHunk(FileAt(q, f).hunks[k])
              /\ FileAt(q, f).hunks[k] # <<>>
              /\ \A j \in 1..Len(FileAt(q, f).hunks[k]) :
                   FileAt(q, f).hunks[k][j] \notin BodyEnds
         /\ f = Len(commits[q].files) =>
              \A j \in 1..Len(FileAt(q, f).hunks[Len(FileAt(q, f).hunks)]) :
                FileAt(q, f).hunks[Len(FileAt(q, f).hunks)][j] # "dashes"
<1>1. WellFormedPatch(commits[q], source.series)
  BY DEF WellFormed, commits, Qs
<1>2. /\ WellFormedFile(FileAt(q, f))
      /\ commits[q].files # <<>> =>
           "dashes" \notin ToSet(Last(Last(commits[q].files).hunks))
  BY <1>1 DEF WellFormedPatch, FileAt, Fs
<1>3. /\ FileAt(q, f).hunks \in Seq(Seq(Loose)) /\ Len(FileAt(q, f).hunks) \in Nat
      /\ commits[q].files \in Seq(PatchFile) /\ Len(commits[q].files) \in Nat
  BY CommitTypes DEF Qs, Fs
<1>4. /\ FileAt(q, f).head \in Heads /\ FileAt(q, f).hunks # <<>>
      /\ \A k \in Ks(q, f) : WellFormedHunk(FileAt(q, f).hunks[k])
  BY <1>2 DEF WellFormedFile, Ks
<1>5. Len(FileAt(q, f).hunks) \in Nat \ {0}
  BY <1>3, <1>4, EmptySeq
<1>6. ASSUME NEW k \in Ks(q, f)
      PROVE  /\ FileAt(q, f).hunks[k] # <<>>
             /\ \A j \in 1..Len(FileAt(q, f).hunks[k]) :
                  FileAt(q, f).hunks[k][j] \notin BodyEnds
  <2> DEFINE x == FileAt(q, f).hunks[k]
  <2>1. x # <<>> /\ ToSet(x) \subseteq Changed \cup NoteKinds \cup {"open", "close"}
    BY <1>4 DEF WellFormedHunk
  <2>2. x \in Seq(Loose)
    BY <1>3, ElementOfSeq DEF Ks
  <2> HIDE DEF x
  <2>3. ASSUME NEW j \in 1..Len(x) PROVE x[j] \notin BodyEnds
    <3>1. x[j] \in Changed \cup NoteKinds \cup {"open", "close"}
      BY <2>1, <2>2, LenProperties DEF ToSet
    <3>2. QED
      BY <3>1 DEF Changed, NoteKinds, BodyEnds, DiffWords, HunkWords, Separators
  <2>4. QED
    BY <2>1, <2>3 DEF x
<1>7. ASSUME f = Len(commits[q].files)
      PROVE  \A j \in 1..Len(FileAt(q, f).hunks[Len(FileAt(q, f).hunks)]) :
               FileAt(q, f).hunks[Len(FileAt(q, f).hunks)][j] # "dashes"
  <2> DEFINE x == FileAt(q, f).hunks[Len(FileAt(q, f).hunks)]
  <2>1. commits[q].files # <<>>
    <3>1. Len(commits[q].files) # 0
      BY <1>7, <1>3 DEF Fs
    <3>2. QED
      BY <3>1, EmptySeq
  <2>2. x = Last(Last(commits[q].files).hunks)
    BY <1>7 DEF Last, FileAt
  <2>3. "dashes" \notin ToSet(x)
    BY <1>2, <2>1, <2>2
  <2>4. x \in Seq(Loose)
    BY <1>3, <1>5, ElementOfSeq
  <2> HIDE DEF x
  <2>5. \A j \in 1..Len(x) : x[j] \in ToSet(x)
    BY <2>4, LenProperties DEF ToSet
  <2>6. QED
    BY <2>3, <2>5 DEF x
<1>8. QED
  BY <1>4, <1>5, <1>6, <1>7

\* The heads that the manual knows.
LEMMA HeadShape ==
  ASSUME NEW t \in Heads
  PROVE  /\ Len(t) \in {4, 5} /\ t \in Seq(Lines)
         /\ t[1] = "diff"
         /\ t[Len(t) - 2] = "index"
         /\ Len(t) = 5 => t[2] = "new file mode"
         /\ t[Len(t) - 1] \in FileLines("r file")
         /\ t[Len(t)] \in FileLines("a file")
<1>1. /\ "diff" \in Lines /\ "index" \in Lines /\ "--- a/" \in Lines
      /\ "+++ b/" \in Lines /\ "new file mode" \in Lines
      /\ "--- /dev/null" \in Lines
  BY Zenon DEF Lines, DiffWords, HeadLines
<1>2. /\ {"--- a/", "--- /dev/null"} \subseteq FileLines("r file")
      /\ "+++ b/" \in FileLines("a file")
  BY DEF FileLines
<1>0. ASSUME NEW T, NEW v \in T, NEW w \in T, NEW x \in T, NEW y \in T, NEW z \in T
      PROVE  <<v, w, x, y>> \in Seq(T) /\ <<v, w, x, y, z>> \in Seq(T)
  OBVIOUS
<1>3. CASE t = <<"diff", "index", "--- a/", "+++ b/">>
  <2>1. t \in Seq(Lines)
    <3>1. <<"diff", "index", "--- a/", "+++ b/">> \in Seq(Lines)
      BY <1>0, <1>1, Zenon
    <3>2. QED
      BY <1>3, <3>1
  <2>2. /\ t[1] = "diff" /\ t[2] = "index" /\ t[3] = "--- a/"
        /\ t[4] = "+++ b/"
    BY <1>3
  <2>3. Len(t) = 4 /\ Len(t) - 2 = 2 /\ Len(t) - 1 = 3 /\ Len(t) # 5
    <3>1. Len(t) = 4
      BY <1>3
    <3>2. QED
      BY <3>1
  <2>4. QED
    BY <1>2, <2>1, <2>2, <2>3, Zenon
<1>4. CASE t = <<"diff", "new file mode", "index", "--- /dev/null", "+++ b/">>
  <2>1. t \in Seq(Lines)
    <3>1. <<"diff", "new file mode", "index", "--- /dev/null", "+++ b/">>
            \in Seq(Lines)
      BY <1>0, <1>1, Zenon
    <3>2. QED
      BY <1>4, <3>1
  <2>2. /\ t[1] = "diff" /\ t[2] = "new file mode"
        /\ t[3] = "index" /\ t[4] = "--- /dev/null" /\ t[5] = "+++ b/"
    BY <1>4
  <2>3. Len(t) = 5 /\ Len(t) - 2 = 3 /\ Len(t) - 1 = 4
    <3>1. Len(t) = 5
      BY <1>4
    <3>2. QED
      BY <3>1
  <2>4. QED
    BY <1>2, <2>1, <2>2, <2>3, Zenon
<1>5. QED
  BY <1>3, <1>4 DEF Heads

-----------------------------------------------------------------------------
(* What comes next in the text.                                              *)

Rest(q) == commits[q].trailer \o TextFrom(q + 1)

LEMMA RestTypes ==
  ASSUME source \in Sources, NEW q \in Qs
  PROVE  /\ Rest(q) \in Seq(Lines) /\ TextFrom(q + 1) \in Seq(Lines)
         /\ q + 1 \in 1..Len(commits) + 1
<1>1. q + 1 \in 1..Len(commits) + 1
  BY PatchTextsShape DEF Qs
<1>2. TextFrom(q + 1) \in Seq(Lines)
  BY <1>1, PatchTextsShape
<1>3. commits[q].trailer \in Seq(Lines)
  BY CommitTypes DEF Qs
<1>4. QED
  BY <1>1, <1>2, <1>3, ConcatProperties DEF Rest

\* From a file on: its head, its hunks and what is behind it.
LEMMA FileThenRest ==
  ASSUME source \in Sources, NEW q \in Qs, NEW f \in Fs(q)
  PROVE  /\ FilesFrom(q, f) \o Rest(q)
              = FileAt(q, f).head \o (HunksFrom(q, f, 1) \o Behind(q, f))
         /\ Behind(q, f) \in Seq(Lines) /\ HunksFrom(q, f, 1) \in Seq(Lines)
         /\ HunksFrom(q, f, 1) \o Behind(q, f) \in Seq(Lines)
         /\ FileAt(q, f).head \in Seq(Lines)
         /\ f + 1 \in Fs(q) \/ (f = Len(commits[q].files) /\ Behind(q, f) = Rest(q))
         /\ f + 1 \in Fs(q) =>
              Behind(q, f) = FilesFrom(q, f + 1) \o Rest(q)
<1> DEFINE n == Len(commits[q].files)
           head == FileAt(q, f).head
           body == HunksFrom(q, f, 1)
           next == FilesFrom(q, f + 1)
           rest == Rest(q)
<1>1. n \in Nat /\ f \in 1..n /\ f + 1 \in 1..n + 1 /\ head \in Seq(Lines)
      /\ 1 \in 1..Len(FileAt(q, f).hunks) + 1
  <2>1. q \in 1..Len(commits) /\ f \in 1..n
    BY DEF Qs, Fs
  <2>2. n \in Nat /\ head \in Seq(Lines) /\ Len(FileAt(q, f).hunks) \in Nat
    BY <2>1, CommitTypes
  <2> HIDE DEF n, head
  <2>3. QED
    BY <2>1, <2>2
<1>2. /\ FilesFrom(q, f) = (head \o body) \o next
      /\ next \in Seq(Lines) /\ FilesFrom(q, n + 1) = <<>>
  BY <1>1, FileTextsShape DEF Qs
<1>3. body \in Seq(Lines)
  BY <1>1, HunkTextsShape DEF Qs
<1>4. rest \in Seq(Lines) /\ Behind(q, f) = next \o rest
  BY RestTypes DEF Behind, Rest
<1> HIDE DEF n, head, body, next, rest
<1>5. ((head \o body) \o next) \o rest = head \o (body \o (next \o rest))
  <2>1. head \in Seq(Lines) /\ body \in Seq(Lines) /\ next \in Seq(Lines)
        /\ rest \in Seq(Lines)
    BY <1>1, <1>2, <1>3, <1>4
  <2>2. Joined(Joined(Joined(head, body), next), rest)
          = Joined(head, Joined(body, Joined(next, rest)))
    BY <2>1, RegroupFour
  <2>3. QED
    BY <2>2, Zenon DEF Joined
<1>6. next \o rest \in Seq(Lines) /\ body \o (next \o rest) \in Seq(Lines)
  BY <1>2, <1>3, <1>4, ConcatProperties
<1>7. f + 1 \in Fs(q) \/ (f = n /\ Behind(q, f) = rest)
  <2>1. f + 1 \in 1..n \/ f = n
    BY <1>1
  <2>2. ASSUME f = n PROVE Behind(q, f) = rest
    <3>1. next = <<>>
      BY <1>2, <2>2 DEF next
    <3>2. QED
      BY <1>4, <3>1, ConcatEmptySeq
  <2>3. QED
    BY <2>1, <2>2 DEF Fs, n
<1>8. QED
  BY <1>1, <1>2, <1>3, <1>4, <1>5, <1>6, <1>7 DEF n, head, body, next, rest

\* In a series each patch starts with a separator.
LEMMA TextStarts ==
  ASSUME source \in Sources, WellFormed, NEW q \in Qs
  PROVE  source.series => TextFrom(q) # <<>> /\ TextFrom(q)[1] = "sep"
<1> SUFFICES ASSUME source.series
             PROVE  TextFrom(q) # <<>> /\ TextFrom(q)[1] = "sep"
  OBVIOUS
<1> DEFINE a == commits[q].prelude
           b == FilesFrom(q, 1)
           d == commits[q].trailer
           rest == TextFrom(q + 1)
<1>1. a \in Seq(Lines) /\ d \in Seq(Lines) /\ 1 \in 1..Len(commits[q].files) + 1
  BY CommitTypes DEF Qs
<1>2. b \in Seq(Lines) /\ rest \in Seq(Lines)
  BY <1>1, FileTextsShape, RestTypes DEF Qs
<1>3. TextFrom(q) = ((a \o b) \o d) \o rest
  BY PatchTextsShape DEF Qs
<1>4. a # <<>> /\ a[1] = "sep"
  BY ManualPatch
<1> HIDE DEF a, b, d, rest
<1>5. a \o b # <<>> /\ (a \o b)[1] = "sep" /\ a \o b \in Seq(Lines)
  BY <1>1, <1>2, <1>4, ConcatFirst, ConcatProperties
<1>6. (a \o b) \o d # <<>> /\ ((a \o b) \o d)[1] = "sep" /\ (a \o b) \o d \in Seq(Lines)
  BY <1>1, <1>5, ConcatFirst, ConcatProperties
<1>7. QED
  BY <1>2, <1>3, <1>6, ConcatFirst

LEMMA NextTextStarts ==
  ASSUME source \in Sources, WellFormed, NEW q \in Qs
  PROVE  /\ TextFrom(q + 1) = <<>> \/ TextFrom(q + 1)[1] = "sep"
         /\ source.series \/ (q = 1 /\ TextFrom(q + 1) = <<>> /\ LeftFrom(q + 1) = <<>>)
<1>1. source.series \/ Len(commits) = 1
  BY ManualPatch
<1>2. Len(commits) \in Nat /\ TextFrom(Len(commits) + 1) = <<>>
      /\ LeftFrom(Len(commits) + 1) = <<>>
  BY PatchTextsShape, LeftShape
<1>3. q + 1 \in Qs \/ q = Len(commits)
  BY <1>2 DEF Qs
<1>4. q + 1 \in Qs => source.series
  <2>1. Len(commits) = 1 => q + 1 \notin Qs
    BY DEF Qs
  <2>2. QED
    BY <1>1, <2>1
<1>5. CASE q + 1 \in Qs
  BY <1>4, <1>5, TextStarts
<1>6. CASE q = Len(commits)
  BY <1>1, <1>2, <1>6
<1>7. QED
  BY <1>3, <1>5, <1>6

\* From patch q on the text is s without a diff and then b: nothing, or the
\* first file there is.
FirstDiffBehind(q, s, b) ==
  /\ s \in Seq(Lines) /\ b \in Seq(Lines) /\ TextFrom(q) = s \o b
  /\ \A j \in 1..Len(s) : s[j] \notin DiffWords
  /\ \/ b = <<>> /\ LeftFrom(q) = <<>>
     \/ \E p \in Qs : /\ 1 \in Fs(p)
                      /\ b = FilesFrom(p, 1) \o Rest(p)
                      /\ LeftFrom(q) = LeftInPatch(p, 1)

LEMMA FirstDiff ==
  ASSUME source \in Sources, WellFormed, NEW q \in 1..Len(commits) + 1
  PROVE  \E s \in Seq(Lines), b \in Seq(Lines) : FirstDiffBehind(q, s, b)
<1> DEFINE top == Len(commits)
           Has(m) == \E s \in Seq(Lines), b \in Seq(Lines) :
                       FirstDiffBehind(top + 1 - m, s, b)
           S == {m \in Nat : Has(m)}
<1>1. /\ top \in Nat /\ TextFrom(top + 1) = <<>> /\ LeftFrom(top + 1) = <<>>
      /\ <<>> \in Seq(Lines) /\ Len(<<>>) = 0
  BY PatchTextsShape, LeftShape, EmptySeq
<1>2. 0 \in S
  <2>1. <<>> \o <<>> = <<>>
    BY <1>1, ConcatEmptySeq
  <2>2. \A j \in 1..Len(<<>>) : <<>>[j] \notin DiffWords
    BY <1>1
  <2>3. FirstDiffBehind(top + 1, <<>>, <<>>)
    BY <1>1, <2>1, <2>2 DEF FirstDiffBehind
  <2>4. top + 1 - 0 = top + 1
    BY <1>1
  <2>5. QED
    BY <1>1, <2>3, <2>4
<1>3. ASSUME NEW m \in 0..top - 1, m \in S PROVE m + 1 \in S
  <2> DEFINE p == top - m
             a == commits[p].prelude
             d == commits[p].trailer
             files == FilesFrom(p, 1)
             next == TextFrom(p + 1)
             n == Len(commits[p].files)
  <2>1. p \in Qs /\ top + 1 - m = p + 1 /\ top + 1 - (m + 1) = p /\ m + 1 \in Nat
    BY <1>1 DEF Qs
  <2>2. PICK s \in Seq(Lines), b \in Seq(Lines) : FirstDiffBehind(p + 1, s, b)
    BY <1>3, <2>1
  <2> HIDE DEF p, top
  <2>3. /\ a \in Seq(Lines) /\ d \in Seq(Lines) /\ n \in Nat
    BY <2>1, CommitTypes DEF Qs
  <2>4. 1 \in 1..n + 1
    BY <2>3
  <2>5. /\ files \in Seq(Lines) /\ next \in Seq(Lines)
        /\ Rest(p) \in Seq(Lines) /\ Rest(p) = d \o next
        /\ TextFrom(p) = ((a \o files) \o d) \o next
        /\ LeftFrom(p) = LeftInPatch(p, 1)
        /\ LeftInPatch(p, n + 1) = LeftFrom(p + 1)
    BY <2>1, <2>4, FileTextsShape, RestTypes, PatchTextsShape, LeftShape DEF Rest, Qs
  <2>6. /\ \A j \in 1..Len(a) : a[j] \notin DiffWords
        /\ \A j \in 1..Len(d) : d[j] \notin DiffWords
    BY <2>1, ManualPatch, Words
  <2>7. n = 0 => files = <<>>
    <3>1. n = 0 => n + 1 = 1
      OBVIOUS
    <3>2. FilesFrom(p, n + 1) = <<>>
      BY <2>1, FileTextsShape DEF Qs
    <3>3. QED
      BY <3>1, <3>2
  <2>8. CASE n # 0
    <3>1. 1 \in Fs(p)
      BY <2>3, <2>8 DEF Fs
    <3> HIDE DEF a, d, files, next, n
    <3>2. TextFrom(p) = a \o (files \o (d \o next))
      <4>1. a \in Seq(Lines) /\ d \in Seq(Lines) /\ files \in Seq(Lines)
            /\ next \in Seq(Lines)
        BY <2>3, <2>5
      <4>2. Joined(Joined(Joined(a, files), d), next)
              = Joined(a, Joined(files, Joined(d, next)))
        BY <4>1, RegroupFour
      <4>3. QED
        BY <2>5, <4>2 DEF Joined
    <3>3. files \o Rest(p) \in Seq(Lines)
      BY <2>5, ConcatProperties
    <3>4. FirstDiffBehind(p, a, files \o Rest(p))
      BY <2>1, <2>3, <2>5, <2>6, <3>1, <3>2, <3>3 DEF FirstDiffBehind, files
    <3>5. QED
      BY <2>1, <2>3, <3>3, <3>4
  <2>9. CASE n = 0
    <3>1. LeftFrom(p) = LeftFrom(p + 1)
      BY <2>5, <2>9
    <3> HIDE DEF a, d, files, next, n
    <3> DEFINE ad == a \o d
               ads == ad \o s
    <3>2. /\ ad \in Seq(Lines)
          /\ \A j \in 1..Len(ad) : ad[j] \notin DiffWords
      BY <2>3, <2>6, ConcatNone, ConcatProperties
    <3>3. /\ next = s \o b /\ \A j \in 1..Len(s) : s[j] \notin DiffWords
      BY <2>2 DEF FirstDiffBehind, next
    <3> HIDE DEF ad
    <3>4. /\ ads \in Seq(Lines)
          /\ \A j \in 1..Len(ads) : ads[j] \notin DiffWords
      BY <3>2, <3>3, ConcatNone, ConcatProperties
    <3>5. TextFrom(p) = ads \o b
      <4>1. a \o files = a
        BY <2>3, <2>7, <2>9, ConcatEmptySeq
      <4>2. TextFrom(p) = ad \o (s \o b)
        BY <2>5, <3>3, <4>1 DEF ad
      <4>3. (ad \o s) \o b = ad \o (s \o b)
        BY <3>2, ConcatThree
      <4>4. QED
        BY <4>2, <4>3
    <3> HIDE DEF ads
    <3>6. FirstDiffBehind(p, ads, b)
      BY <2>2, <3>1, <3>4, <3>5 DEF FirstDiffBehind
    <3>7. QED
      BY <2>1, <3>4, <3>6
  <2>10. QED
    BY <2>8, <2>9
<1>4. \A m \in 0..top : m \in S
  <2>1. \A m \in 0..top - 1 : m \in S => m + 1 \in S
    BY <1>3
  <2>2. 0 \in Int /\ top \in Int /\ (0 <= top => 0 \in S)
    BY <1>1, <1>2
  <2> HIDE DEF S, top
  <2>3. QED
    BY <2>1, <2>2, InductUpTo, Zenon
<1>5. top + 1 - q \in 0..top /\ top + 1 - (top + 1 - q) = q
  BY <1>1
<1>6. QED
  BY <1>4, <1>5

-----------------------------------------------------------------------------
(* The parser reads the text piece by piece.                                 *)

\* The source and what is made from it do not change.
LEMMA SameText ==
  ASSUME source' = source
  PROVE  /\ commits' = commits /\ annotated' = annotated /\ WellFormed' = WellFormed
         /\ Qs' = Qs
         /\ \A q : /\ Fs(q)' = Fs(q) /\ TextFrom(q)' = TextFrom(q)
                   /\ LeftFrom(q)' = LeftFrom(q)
         /\ \A q, f : /\ FileAt(q, f)' = FileAt(q, f) /\ Ks(q, f)' = Ks(q, f)
                      /\ LeftInPatch(q, f)' = LeftInPatch(q, f)
                      /\ Behind(q, f)' = Behind(q, f)
         /\ \A q, f, k : HunksFrom(q, f, k)' = HunksFrom(q, f, k)
<1>1. commits' = commits /\ Qs' = Qs /\ WellFormed' = WellFormed
  BY DEF commits, Qs, WellFormed
<1>2. annotated' = annotated
  BY DEF annotated
<1>3. ASSUME NEW q
      PROVE  /\ Fs(q)' = Fs(q) /\ TextFrom(q)' = TextFrom(q)
             /\ LeftFrom(q)' = LeftFrom(q)
  BY <1>1 DEF Fs, TextFrom, PatchTexts, LeftFrom, PatchHunks
<1>4. ASSUME NEW q, NEW f
      PROVE  /\ FileAt(q, f)' = FileAt(q, f) /\ Ks(q, f)' = Ks(q, f)
             /\ LeftInPatch(q, f)' = LeftInPatch(q, f)
             /\ Behind(q, f)' = Behind(q, f)
  <2>1. FileAt(q, f)' = FileAt(q, f)
    BY <1>1 DEF FileAt
  <2>2. Ks(q, f)' = Ks(q, f)
    BY <2>1 DEF Ks
  <2>3. LeftInPatch(q, f)' = LeftInPatch(q, f)
    BY <1>1, <1>3 DEF LeftInPatch, FileHunks
  <2>4. Behind(q, f)' = Behind(q, f)
    BY <1>1, <1>3 DEF Behind, FilesFrom, FileTexts
  <2>5. QED
    BY <2>1, <2>2, <2>3, <2>4
<1>5. ASSUME NEW q, NEW f, NEW k PROVE HunksFrom(q, f, k)' = HunksFrom(q, f, k)
  BY <1>4 DEF HunksFrom, HunkTexts
<1>6. QED
  BY <1>1, <1>2, <1>3, <1>4, <1>5, Zenon

LEMMA ParserShape ==
  ASSUME ParserTypes
  PROVE  /\ source \in Sources /\ text \in Seq(Lines) /\ Len(text) \in Nat
         /\ hd \in 1..Len(text) + 1
         /\ patch \in Seq(Seq(Loose)) /\ Len(patch) \in Nat
         /\ hunks \in Nat /\ diffs \in Nat
         /\ Ahead \in Seq(Lines)
         /\ AtEnd <=> Ahead = <<>>
         /\ ~AtEnd => line = Ahead[1] /\ hd \in 1..Len(text)
<1>1. /\ source \in Sources /\ text \in Seq(Lines) /\ hd \in 1..Len(text) + 1
      /\ Len(text) \in Nat /\ diffs \in Nat
  BY LenProperties DEF ParserTypes, Texts
<1>2. patch \in Seq(Seq(Loose)) /\ Len(patch) \in Nat
  <2>1. BodyKinds \subseteq Loose
    BY Zenon DEF Loose
  <2>2. Seq(BodyKinds) \subseteq Seq(Loose)
    BY <2>1, SeqMonotonic
  <2>3. QED
    BY <2>2, SeqMonotonic, LenProperties DEF ParserTypes
<1>3. hunks \in Nat
  BY <1>2 DEF ParserTypes
<1>4. /\ Ahead \in Seq(Lines) /\ Len(Ahead) = Len(text) - hd + 1
      /\ \A j \in 1..Len(text) - hd + 1 : Ahead[j] = text[hd + j - 1]
  BY <1>1, SuffixShape DEF Ahead, Onward
<1>5. AtEnd <=> Ahead = <<>>
  <2>1. AtEnd <=> Len(Ahead) = 0
    BY <1>1, <1>4 DEF AtEnd
  <2>2. QED
    BY <1>4, <2>1, EmptySeq
<1>6. ASSUME ~AtEnd PROVE line = Ahead[1] /\ hd \in 1..Len(text)
  <2>1. 1 \in 1..Len(text) - hd + 1 /\ hd + 1 - 1 = hd /\ hd \in 1..Len(text)
    BY <1>1, <1>6 DEF AtEnd
  <2>2. QED
    BY <1>4, <2>1 DEF line
<1>7. QED
  BY <1>1, <1>2, <1>3, <1>4, <1>5, <1>6

LEMMA SeesShape ==
  ASSUME ParserTypes, NEW kinds
  PROVE  Sees(kinds) <=> Ahead # <<>> /\ Ahead[1] \in kinds
BY ParserShape DEF Sees

\* The last element of a sequence is replaced.
LEMMA LastReplaced ==
  ASSUME NEW T, NEW s \in Seq(T), NEW x \in T, NEW y \in T
  PROVE  [Append(s, x) EXCEPT ![Len(s) + 1] = y] = Append(s, y)
<1> DEFINE d == Append(s, x)
           e == [d EXCEPT ![Len(s) + 1] = y]
           g == Append(s, y)
           n == Len(s) + 1
<1>1. /\ d \in Seq(T) /\ Len(d) = n /\ \A j \in 1..Len(s) : d[j] = s[j]
      /\ g \in Seq(T) /\ Len(g) = n /\ \A j \in 1..Len(s) : g[j] = s[j]
      /\ g[n] = y /\ n \in 1..n /\ Len(s) \in Nat
      /\ \A j \in 1..n : j = n \/ j \in 1..Len(s)
  BY AppendProperties, LenProperties
<1> HIDE DEF d, g, n
<1>2. [d EXCEPT ![n] = y] = g
  <2> DEFINE f == [d EXCEPT ![n] = y]
  <2>1. f \in Seq(T) /\ Len(f) = n /\ f[n] = y /\ \A j \in 1..n : j # n => f[j] = d[j]
    BY <1>1, ExceptSeq
  <2> HIDE DEF f
  <2>2. \A j \in 1..n : f[j] = g[j]
    BY <1>1, <2>1
  <2>3. f = g
    BY <1>1, <2>1, <2>2, SeqEqual
  <2>4. QED
    BY <2>3 DEF f
<1>3. QED
  BY <1>2 DEF d, g, n

LEMMA StartsAtOne ==
  ASSUME NEW n \in Nat \ {0}
  PROVE  1 \in 1..n
OBVIOUS

\* What is read of a head.
LEMMA InHeadShape ==
  ASSUME ParserTypes, WellFormed, NEW q \in Qs, NEW f \in Fs(q),
         NEW n \in 1..Len(FileAt(q, f).head), InHead(q, f, n)
  PROVE  /\ Ahead # <<>> /\ Ahead[1] = FileAt(q, f).head[n]
         /\ hd + 1 \in 1..Len(text) + 1
         /\ Onward(text, hd + 1) = Onward(FileAt(q, f).head, n + 1)
                                     \o (HunksFrom(q, f, 1) \o Behind(q, f))
<1> DEFINE head == FileAt(q, f).head
           rest == HunksFrom(q, f, 1) \o Behind(q, f)
           first == <<head[n]>>
           next == Onward(head, n + 1)
<1>1. source \in Sources /\ text \in Seq(Lines) /\ hd \in 1..Len(text) + 1
  BY ParserShape
<1>2. head \in Seq(Lines) /\ rest \in Seq(Lines)
  BY <1>1, FileThenRest
<1>3. Ahead = Onward(head, n) \o rest
  BY DEF InHead
<1>4. n \in 1..Len(head)
  OBVIOUS
<1> HIDE DEF head, rest
<1>5. /\ Onward(head, n) = first \o next
      /\ next \in Seq(Lines) /\ first \in Seq(Lines)
  BY <1>2, <1>4, OnwardFirst
<1>6. first[1] = head[n] /\ first # <<>> /\ Len(first) = 1
  OBVIOUS
<1> DEFINE b == next \o rest
<1>7. b \in Seq(Lines)
  BY <1>2, <1>5, ConcatProperties
<1> HIDE DEF first, next
<1>8. Ahead = first \o b
  <2>1. Joined(Joined(first, next), rest) = Joined(first, Joined(next, rest))
    BY <1>2, <1>5, Regroup
  <2>2. QED
    BY <1>3, <1>5, <2>1 DEF Joined
<1> HIDE DEF b
<1>9. Ahead # <<>> /\ Ahead[1] = head[n]
  BY <1>5, <1>6, <1>7, <1>8, ConcatFirst
<1>10. hd + Len(first) \in 1..Len(text) + 1 /\ Onward(text, hd + Len(first)) = b
  <2>1. IsMadeOf(text, hd, first, b)
    BY <1>8 DEF IsMadeOf, Ahead
  <2>2. first \in Seq(Lines) /\ b \in Seq(Lines)
    BY <1>5, <1>7
  <2>3. QED
    BY <1>1, <2>1, <2>2, OnwardOfConcat
<1>11. QED
  BY <1>6, <1>9, <1>10 DEF head, next, rest, b

\* The first line of a head.
LEMMA HeadAhead ==
  ASSUME ParserTypes, WellFormed, NEW q \in Qs, NEW f \in Fs(q), InHead(q, f, 1)
  PROVE  Ahead # <<>> /\ Ahead[1] = "diff"
<1>1. FileAt(q, f).head \in Heads
  BY ManualFile, ParserShape
<1>2. Len(FileAt(q, f).head) \in {4, 5} /\ FileAt(q, f).head[1] = "diff"
  BY <1>1, HeadShape
<1>3. 1 \in 1..Len(FileAt(q, f).head)
  BY <1>2
<1>4. QED
  BY <1>2, <1>3, InHeadShape

\* Behind a patch there is no line of a diff.
LEMMA PatchAhead ==
  ASSUME ParserTypes, WellFormed, NEW q \in Qs, PatchRead(q)
  PROVE  Ahead = <<>> \/ Ahead[1] = "sep"
BY ParserShape, NextTextStarts DEF PatchRead

\* A step to a line of a head.
LEMMA ToHead ==
  ASSUME NEW place \in HeadPlaces, NEW to, Advance(place, to), diffs' > 0,
         NEW q \in Qs, NEW f \in Fs(q), NEW n,
         n = HeadLine(place, Len(FileAt(q, f).head)),
         Onward(text, to) = Onward(FileAt(q, f).head, n)
                              \o (HunksFrom(q, f, 1) \o Behind(q, f)),
         patch \o LeftInPatch(q, f) = annotated
  PROVE  Following' /\ pc' \notin Broken
<1>1. /\ pc' = place /\ hd' = to /\ source' = source /\ text' = text
      /\ patch' = patch
  BY DEF Advance, file
<1>2. InHead(q, f, n)'
  BY <1>1, SameText DEF InHead, Ahead
<1>3. q \in Qs' /\ f \in Fs(q)'
  BY <1>1, SameText
<1>4. HeadLine(pc, Len(FileAt(q, f).head))' = n
  BY <1>1, SameText DEF HeadLine
<1>5. /\ place \notin {"series prelude", "series", "prelude", "diffs", "hunks",
                       "line", "done"}
      /\ place \notin Broken
  BY DEF HeadPlaces, Broken
<1>6. \E qq \in Qs' : \E ff \in Fs(qq)' :
        InHead(qq, ff, HeadLine(pc, Len(FileAt(qq, ff).head)))'
  BY <1>2, <1>3, <1>4
<1>7. Following'
  BY <1>1, <1>5, <1>6 DEF Following
<1>8. QED
  BY <1>1, <1>5, <1>7

\* A step to the start of a patch.
LEMMA ToPatch ==
  ASSUME source' = source, text' = text, NEW q \in 1..Len(commits) + 1,
         \/ pc' = "series" /\ source.series
         \/ pc' = "prelude" /\ q \in Qs,
         Onward(text, hd') = TextFrom(q), patch' \o LeftFrom(q) = annotated
  PROVE  Following' /\ pc' \notin Broken
<1>1. AtPatch(q)'
  BY SameText DEF AtPatch, Ahead
<1>2. /\ pc' \notin {"series prelude", "diffs", "hunks", "line", "done"}
      /\ pc' \notin HeadPlaces /\ pc' \notin Broken
  BY DEF HeadPlaces, Broken
<1>3. (1..Len(commits) + 1)' = 1..Len(commits) + 1 /\ Qs' = Qs
  BY SameText
<1>4. pc' = "series" => source.series' /\ \E qq \in (1..Len(commits) + 1)' : AtPatch(qq)'
  BY <1>1, <1>3
<1>5. pc' = "prelude" => \E qq \in Qs' : AtPatch(qq)'
  BY <1>1, <1>3
<1>6. Following'
  BY <1>2, <1>4, <1>5 DEF Following
<1>7. QED
  BY <1>2, <1>6

\* A step behind a patch.
LEMMA ToDiffs ==
  ASSUME pc' = "diffs",
         \/ NothingLeft'
         \/ \E q \in Qs' : PatchRead(q)' \/ \E f \in Fs(q)' : InHead(q, f, 1)'
  PROVE  Following' /\ pc' \notin Broken
BY DEF Following, HeadPlaces, Broken

LEMMA ToHunks ==
  ASSUME pc' = "hunks", diffs' > 0,
         \E q \in Qs' : \/ PatchRead(q)'
                        \/ \E f \in Fs(q)' : \/ InHead(q, f, 1)'
                                             \/ \E k \in Ks(q, f)' : AtHunk(q, f, k)'
  PROVE  Following' /\ pc' \notin Broken
BY DEF Following, HeadPlaces, Broken

LEMMA ToEnd ==
  ASSUME pc' \in {"line", "done"}, patch' = annotated, source' = source
  PROVE  Following' /\ pc' \notin Broken
BY SameText DEF Following, HeadPlaces, Broken

LEMMA InitFollows ==
  ASSUME InitParser, WellFormed
  PROVE  Following /\ pc \notin Broken
<1>1. /\ source \in Sources /\ text = Printed(source) /\ hd = 1 /\ patch = <<>>
      /\ pc = (IF source.series THEN "series prelude" ELSE "prelude")
      /\ ParserTypes
  BY InitParserTypes DEF InitParser
<1>2. AtPatch(1)
  <2>1. Ahead = text
    BY <1>1, ParserShape, OnwardAll DEF Ahead
  <2>2. Printed(source) = TextFrom(1)
    BY <1>1, PatchTextsShape
  <2>3. LeftFrom(1) = annotated /\ LeftFrom(1) \in Seq(Seq(Loose))
    <3>1. Len(commits) \in Nat
      BY <1>1, PatchTextsShape
    <3>2. 1 \in 1..Len(commits) + 1
      BY <3>1
    <3>3. QED
      BY <1>1, <3>2, LeftShape
  <2>4. patch \o LeftFrom(1) = annotated
    BY <1>1, <2>3, ConcatEmptySeq
  <2>5. QED
    BY <1>1, <2>1, <2>2, <2>4 DEF AtPatch
<1>3. CASE source.series
  <2>1. pc = "series prelude"
    BY <1>1, <1>3
  <2>2. QED
    BY <1>1, <1>2, <1>3, <2>1 DEF Following, HeadPlaces, Broken
<1>4. CASE ~source.series
  <2>1. pc = "prelude"
    BY <1>1, <1>4
  <2>2. Len(commits) = 1
    BY <1>4 DEF WellFormed, commits
  <2>3. 1 \in Qs
    BY <2>2 DEF Qs
  <2>4. QED
    BY <1>2, <2>1, <2>3 DEF Following, HeadPlaces, Broken
<1>5. QED
  BY <1>3, <1>4

LEMMA SeriesPreludeFollows ==
  ASSUME ParserTypes, WellFormed, Following, SeriesPrelude
  PROVE  Following' /\ pc' \notin Broken
<1>1. /\ pc = "series prelude" /\ pc' = "series" /\ source' = source /\ text' = text
      /\ patch' = patch /\ hd' = EndBefore(Separators) + 1
  BY DEF SeriesPrelude, Advance, file
<1>2. hd = 1 /\ AtPatch(1) /\ source.series
  BY <1>1 DEF Following
<1>3. /\ source \in Sources /\ text \in Seq(Lines) /\ hd \in 1..Len(text) + 1
  BY ParserShape
<1>4. /\ Len(commits) \in Nat /\ TextFrom(Len(commits) + 1) = <<>>
      /\ 1 \in 1..Len(commits) + 1
  BY <1>3, PatchTextsShape
<1>5. TextFrom(1) \in Seq(Lines)
  BY <1>3, <1>4, PatchTextsShape
<1>6. TextFrom(1) = <<>> \/ TextFrom(1)[1] \in Separators
  <2>1. CASE 1 \in Qs
    BY <1>2, <1>3, <2>1, TextStarts DEF Separators
  <2>2. CASE 1 \notin Qs
    <3>1. Len(commits) + 1 = 1
      BY <1>4, <2>2 DEF Qs
    <3>2. QED
      BY <1>4, <3>1
  <2>3. QED
    BY <2>1, <2>2
<1>7. <<>> \in Seq(Lines) /\ Len(<<>>) = 0
  BY EmptySeq
<1>8. Ahead = <<>> \o TextFrom(1)
  BY <1>2, <1>5, ConcatEmptySeq DEF AtPatch
<1>9. \A j \in 1..Len(<<>>) : <<>>[j] \notin Separators
  BY <1>7
<1>10. EndBefore(Separators) + 1 = hd + Len(<<>>)
  BY <1>3, <1>5, <1>6, <1>7, <1>8, <1>9, EndBeforeIs
<1>11. hd' = hd
  <2>1. hd + Len(<<>>) = hd
    BY <1>2, <1>7
  <2>2. QED
    BY <1>1, <1>10, <2>1, Zenon
<1>12. Onward(text, hd') = TextFrom(1) /\ patch' \o LeftFrom(1) = annotated
  BY <1>1, <1>2, <1>11 DEF AtPatch, Ahead
<1>13. QED
  BY <1>1, <1>2, <1>4, <1>12, ToPatch

LEMMA NextPatchFollows ==
  ASSUME ParserTypes, WellFormed, Following, NextPatch
  PROVE  Following' /\ pc' \notin Broken
<1>1. /\ pc = "series" /\ ~AtEnd /\ pc' = "prelude" /\ source' = source
      /\ text' = text /\ patch' = patch /\ hd' = hd
  BY DEF NextPatch, Advance, file
<1>2. PICK q \in 1..Len(commits) + 1 : AtPatch(q)
  BY <1>1 DEF Following
<1>3. Len(commits) \in Nat /\ TextFrom(Len(commits) + 1) = <<>>
  BY ParserShape, PatchTextsShape
<1>4. q # Len(commits) + 1
  BY <1>1, <1>2, <1>3, ParserShape DEF AtPatch
<1>5. q \in Qs
  BY <1>3, <1>4 DEF Qs
<1>6. Onward(text, hd') = TextFrom(q) /\ patch' \o LeftFrom(q) = annotated
  BY <1>1, <1>2 DEF AtPatch, Ahead
<1>7. QED
  BY <1>1, <1>5, <1>6, ToPatch

LEMMA SeriesEndFollows ==
  ASSUME ParserTypes, WellFormed, Following, SeriesEnd
  PROVE  Following' /\ pc' \notin Broken
<1>1. /\ pc = "series" /\ AtEnd /\ pc' \in {"line", "done"} /\ source' = source
      /\ patch' = patch
  BY DEF SeriesEnd, Advance, file
<1>2. PICK q \in 1..Len(commits) + 1 : AtPatch(q)
  BY <1>1 DEF Following
<1>3. Len(commits) \in Nat /\ LeftFrom(Len(commits) + 1) = <<>> /\ source.series
  BY <1>1, ParserShape, PatchTextsShape, LeftShape DEF Following
<1>4. q \notin Qs
  BY <1>1, <1>2, <1>3, ParserShape, TextStarts DEF AtPatch
<1>5. q = Len(commits) + 1
  BY <1>3, <1>4 DEF Qs
<1>6. patch = annotated
  BY <1>2, <1>3, <1>5, ParserShape, ConcatEmptySeq DEF AtPatch
<1>7. QED
  BY <1>1, <1>6, ToEnd

LEMMA PatchPreludeFollows ==
  ASSUME ParserTypes, WellFormed, Following, PatchPrelude
  PROVE  Following' /\ pc' \notin Broken
<1>1. /\ pc = "prelude" /\ pc' = "diffs" /\ source' = source /\ text' = text
      /\ patch' = patch /\ hd' = EndBefore(DiffWords) + 1 /\ diffs' = 0
  BY DEF PatchPrelude, Advance, file
<1>2. PICK q \in Qs : AtPatch(q)
  BY <1>1 DEF Following
<1>3. /\ source \in Sources /\ text \in Seq(Lines) /\ hd \in 1..Len(text) + 1
      /\ patch \in Seq(Seq(Loose))
  BY ParserShape
<1>4. q \in 1..Len(commits) + 1
  BY <1>3, PatchTextsShape DEF Qs
<1>5. PICK s \in Seq(Lines), b \in Seq(Lines) : FirstDiffBehind(q, s, b)
  BY <1>3, <1>4, FirstDiff
<1>6. /\ Ahead = s \o b /\ \A j \in 1..Len(s) : s[j] \notin DiffWords
  BY <1>2, <1>5 DEF AtPatch, FirstDiffBehind
<1>7. CASE b = <<>> /\ LeftFrom(q) = <<>>
  <2>1. EndBefore(DiffWords) + 1 = hd + Len(s) /\ Onward(text, hd + Len(s)) = b
    BY <1>3, <1>6, <1>7, EndBeforeIs
  <2>2. patch = annotated
    BY <1>2, <1>3, <1>7, ConcatEmptySeq DEF AtPatch
  <2>3. NothingLeft'
    BY <1>1, <1>7, <2>1, <2>2, SameText DEF NothingLeft, Ahead
  <2>4. QED
    BY <1>1, <2>3, ToDiffs
<1>8. CASE \E p \in Qs : /\ 1 \in Fs(p)
                         /\ b = FilesFrom(p, 1) \o Rest(p)
                         /\ LeftFrom(q) = LeftInPatch(p, 1)
  <2>1. PICK p \in Qs : /\ 1 \in Fs(p)
                        /\ b = FilesFrom(p, 1) \o Rest(p)
                        /\ LeftFrom(q) = LeftInPatch(p, 1)
    BY <1>8
  <2> DEFINE head == FileAt(p, 1).head
             rest == HunksFrom(p, 1, 1) \o Behind(p, 1)
  <2>2. b = head \o rest /\ head \in Seq(Lines) /\ rest \in Seq(Lines)
    BY <1>3, <2>1, FileThenRest
  <2>3. head[1] = "diff" /\ head # <<>> /\ Onward(head, 1) = head
    <3>1. head \in Heads
      BY <1>3, <2>1, ManualFile
    <3>2. head[1] = "diff" /\ Len(head) # 0
      <4> HIDE DEF head
      <4>1. head[1] = "diff" /\ Len(head) \in {4, 5}
        BY <3>1, HeadShape, Zenon
      <4>2. QED
        BY <4>1
    <3>3. QED
      BY <2>2, <3>2, OnwardAll, EmptySeq
  <2>4. b[1] \in DiffWords
    <3>1. b[1] = head[1]
      <4> HIDE DEF head, rest
      <4>1. QED
        BY <2>2, <2>3, ConcatFirst
    <3>2. QED
      BY <2>3, <3>1 DEF DiffWords
  <2>5. EndBefore(DiffWords) + 1 = hd + Len(s) /\ Onward(text, hd + Len(s)) = b
    BY <1>3, <1>6, <2>4, EndBeforeIs
  <2>6. Ahead' = Onward(head, 1) \o rest
    BY <1>1, <2>2, <2>3, <2>5 DEF Ahead
  <2>7. patch \o LeftInPatch(p, 1) = annotated
    BY <1>2, <2>1 DEF AtPatch
  <2>8. InHead(p, 1, 1)'
    BY <1>1, <2>6, <2>7, SameText DEF InHead
  <2>9. p \in Qs' /\ 1 \in Fs(p)'
    BY <1>1, <2>1, SameText
  <2>10. QED
    BY <1>1, <2>8, <2>9, ToDiffs
<1>9. QED
  BY <1>5, <1>7, <1>8 DEF FirstDiffBehind

LEMMA NextDiffFollows ==
  ASSUME ParserTypes, WellFormed, Following, NextDiff
  PROVE  Following' /\ pc' \notin Broken
<1>1. /\ pc = "diffs" /\ Sees(DiffWords) /\ Advance("header", hd)
      /\ diffs' = diffs + 1
  BY DEF NextDiff
<1>2. Ahead # <<>> /\ Ahead[1] # "sep" /\ diffs' > 0
  <2>1. Ahead # <<>> /\ Ahead[1] \in DiffWords
    BY <1>1, SeesShape
  <2>2. "sep" \notin DiffWords
    BY DEF DiffWords
  <2>3. diffs' > 0
    BY <1>1, ParserShape
  <2>4. QED
    BY <2>1, <2>2, <2>3
<1>3. PICK q \in Qs : PatchRead(q) \/ \E f \in Fs(q) : InHead(q, f, 1)
  BY <1>1, <1>2 DEF Following, NothingLeft
<1>4. ~PatchRead(q)
  BY <1>2, PatchAhead
<1>5. PICK f \in Fs(q) : InHead(q, f, 1)
  BY <1>3, <1>4
<1>6. /\ "header" \in HeadPlaces
      /\ 1 = HeadLine("header", Len(FileAt(q, f).head))
  BY DEF HeadPlaces, HeadLine
<1>7. /\ Onward(text, hd) = Onward(FileAt(q, f).head, 1)
                              \o (HunksFrom(q, f, 1) \o Behind(q, f))
      /\ patch \o LeftInPatch(q, f) = annotated
  BY <1>5 DEF InHead, Ahead
<1>8. QED
  BY <1>1, <1>2, <1>6, <1>7, ToHead

\* Where a head is read: what stands there, what comes next.
LEMMA AtHeadLine ==
  ASSUME ParserTypes, WellFormed, Following, pc \in HeadPlaces
  PROVE  \E q \in Qs : \E f \in Fs(q) :
           LET head == FileAt(q, f).head
               n == HeadLine(pc, Len(head))
           IN  /\ InHead(q, f, n) /\ n \in 1..Len(head)
               /\ head \in Heads
               /\ Ahead # <<>> /\ Ahead[1] = head[n]
               /\ hd + 1 \in 1..Len(text) + 1
               /\ Onward(text, hd + 1) = Onward(head, n + 1)
                                           \o (HunksFrom(q, f, 1) \o Behind(q, f))
               /\ patch \o LeftInPatch(q, f) = annotated
<1>1. PICK q \in Qs : \E f \in Fs(q) : InHead(q, f, HeadLine(pc, Len(FileAt(q, f).head)))
  BY DEF Following
<1>2. PICK f \in Fs(q) : InHead(q, f, HeadLine(pc, Len(FileAt(q, f).head)))
  BY <1>1
<1> DEFINE head == FileAt(q, f).head
           n == HeadLine(pc, Len(head))
<1>3. head \in Heads
  BY ParserShape, ManualFile
<1>4. n \in 1..Len(head)
  <2> HIDE DEF head
  <2>1. Len(head) \in {4, 5}
    BY <1>3, HeadShape
  <2>2. n \in {1, 2, Len(head) - 2, Len(head) - 1, Len(head)}
    BY DEF HeadPlaces, HeadLine
  <2> DEFINE m == Len(head)
             nn == HeadLine(pc, m)
  <2>3. m \in {4, 5} /\ nn \in {1, 2, m - 2, m - 1, m}
    BY <2>1, <2>2
  <2> HIDE DEF m, nn
  <2>4. nn \in 1..m
    BY <2>3
  <2>5. QED
    BY <2>4 DEF m, nn
<1>5. InHead(q, f, n)
  BY <1>2
<1>6. /\ Ahead # <<>> /\ Ahead[1] = head[n]
      /\ hd + 1 \in 1..Len(text) + 1
      /\ Onward(text, hd + 1) = Onward(head, n + 1)
                                  \o (HunksFrom(q, f, 1) \o Behind(q, f))
  <2> HIDE DEF n
  <2>1. QED
    BY <1>4, <1>5, InHeadShape
<1>7. patch \o LeftInPatch(q, f) = annotated
  BY <1>5 DEF InHead
<1>8. QED
  BY <1>3, <1>4, <1>5, <1>6, <1>7

\* The heads of the manual are read without fail.
LEMMA HeadFollows ==
  ASSUME ParserTypes, WellFormed, Following, pc \in HeadPlaces, diffs' = diffs
  PROVE  DiffHeader \/ NewFileMode \/ IndexLine \/ (FileLine /\ pc = "r file")
           => Following' /\ pc' \notin Broken
<1>1. diffs' > 0
  BY DEF Following
<1>2. PICK q \in Qs : \E f \in Fs(q) :
         LET head == FileAt(q, f).head
             n == HeadLine(pc, Len(head))
         IN  /\ InHead(q, f, n) /\ n \in 1..Len(head)
             /\ head \in Heads
             /\ Ahead # <<>> /\ Ahead[1] = head[n]
             /\ hd + 1 \in 1..Len(text) + 1
             /\ Onward(text, hd + 1) = Onward(head, n + 1)
                                         \o (HunksFrom(q, f, 1) \o Behind(q, f))
             /\ patch \o LeftInPatch(q, f) = annotated
  BY <1>1, AtHeadLine
<1>3. PICK f \in Fs(q) :
         LET head == FileAt(q, f).head
             n == HeadLine(pc, Len(head))
         IN  /\ InHead(q, f, n) /\ n \in 1..Len(head)
             /\ head \in Heads
             /\ Ahead # <<>> /\ Ahead[1] = head[n]
             /\ hd + 1 \in 1..Len(text) + 1
             /\ Onward(text, hd + 1) = Onward(head, n + 1)
                                         \o (HunksFrom(q, f, 1) \o Behind(q, f))
             /\ patch \o LeftInPatch(q, f) = annotated
  BY <1>2
<1> DEFINE head == FileAt(q, f).head
           n == HeadLine(pc, Len(head))
           rest == HunksFrom(q, f, 1) \o Behind(q, f)
<1>4. /\ InHead(q, f, n) /\ n \in 1..Len(head) /\ head \in Heads
      /\ Ahead # <<>> /\ Ahead[1] = head[n]
      /\ Onward(text, hd + 1) = Onward(head, n + 1) \o rest
      /\ Onward(text, hd) = Onward(head, n) \o rest
      /\ patch \o LeftInPatch(q, f) = annotated
  BY <1>3 DEF InHead, Ahead
<1> HIDE DEF rest
<1>5. /\ Len(head) \in {4, 5} /\ head[1] = "diff" /\ head[Len(head) - 2] = "index"
      /\ Len(head) = 5 => head[2] = "new file mode"
  <2> HIDE DEF head
  <2>1. QED
    BY <1>4, HeadShape
<1> DEFINE top == Len(head)
<1>5a. top \in {4, 5} /\ n = HeadLine(pc, top)
  BY <1>5
<1>6. /\ HeadLine("header", Len(head)) = 1
      /\ HeadLine("new file mode", Len(head)) = 2
      /\ HeadLine("index", Len(head)) = Len(head) - 2
      /\ HeadLine("r file", Len(head)) = Len(head) - 1
      /\ HeadLine("a file", Len(head)) = Len(head)
  BY DEF HeadLine
<1>7. {"header", "new file mode", "index", "r file", "a file"} \subseteq HeadPlaces
  BY Zenon DEF HeadPlaces
<1>8. ASSUME NEW place \in HeadPlaces, NEW m, NEW to, m = HeadLine(place, Len(head)),
             Advance(place, to), Onward(text, to) = Onward(head, m) \o rest
      PROVE  Following' /\ pc' \notin Broken
  BY <1>1, <1>4, <1>8, ToHead DEF rest
<1>9. CASE DiffHeader
  <2>1. pc = "header" /\ Advance("new file mode", hd + 1)
    BY <1>9 DEF DiffHeader
  <2>2. n = 1
    BY <1>6, <2>1
  <2>3. Onward(text, hd + 1) = Onward(head, 2) \o rest
    <3>1. n + 1 = 2
      <4> HIDE DEF n
      <4>1. QED
        BY <2>2
    <3>2. QED
      BY <1>4, <3>1
  <2> HIDE DEF n
  <2>4. QED
    BY <1>6, <1>7, <1>8, <2>1, <2>3
<1>10. CASE NewFileMode
  <2>1. /\ pc = "new file mode"
        /\ Advance("index", IF Sees({"new file mode"}) THEN hd + 1 ELSE hd)
    BY <1>10 DEF NewFileMode
  <2>2. n = 2
    BY <1>6, <2>1
  <2>3. CASE Len(head) = 5
    <3>1. Sees({"new file mode"})
      BY <1>4, <1>5, <2>2, <2>3, SeesShape
    <3>2. Len(head) - 2 = 3 /\ n + 1 = 3
      <4> HIDE DEF n, head
      <4>1. QED
        BY <2>2, <2>3
    <3>3. Onward(text, hd + 1) = Onward(head, Len(head) - 2) \o rest
      BY <1>4, <3>2
    <3>4. Advance("index", hd + 1)
      BY <2>1, <3>1
    <3> HIDE DEF n
    <3>5. QED
      BY <1>6, <1>7, <1>8, <3>3, <3>4
  <2>4. CASE Len(head) = 4
    <3>1. Len(head) - 2 = 2
      <4> HIDE DEF head
      <4>1. QED
        BY <2>4
    <3>2. ~Sees({"new file mode"})
      <4>1. Ahead[1] = "index"
        BY <1>4, <1>5, <2>2, <3>1, Zenon
      <4>2. "index" \notin {"new file mode"}
        OBVIOUS
      <4>3. Ahead[1] \notin {"new file mode"}
        BY <4>1, <4>2
      <4>4. QED
        BY <4>3, SeesShape
    <3>3. Onward(text, hd) = Onward(head, Len(head) - 2) \o rest
      BY <1>4, <2>2, <3>1
    <3>4. Advance("index", hd)
      BY <2>1, <3>2
    <3> HIDE DEF n
    <3>5. QED
      BY <1>6, <1>7, <1>8, <3>3, <3>4
  <2>5. QED
    BY <1>5, <2>3, <2>4
<1>11. CASE IndexLine
  <2>1. pc = "index" /\ Advance("r file", hd + 1)
    BY <1>11 DEF IndexLine
  <2>2. n + 1 = Len(head) - 1
    <3>1. n = top - 2
      BY <1>6, <2>1
    <3> HIDE DEF n, top
    <3>2. n + 1 = top - 1
      BY <1>5a, <3>1
    <3>3. QED
      BY <3>2 DEF top
  <2>3. Onward(text, hd + 1) = Onward(head, Len(head) - 1) \o rest
    BY <1>4, <2>2
  <2> HIDE DEF n
  <2>4. QED
    BY <1>6, <1>7, <1>8, <2>1, <2>3
<1>12. CASE FileLine /\ pc = "r file"
  <2>1. pc = "r file" /\ Advance("a file", hd + 1)
    BY <1>12 DEF FileLine
  <2>2. n + 1 = Len(head)
    <3>1. n = top - 1
      BY <1>6, <2>1
    <3> HIDE DEF n, top
    <3>2. n + 1 = top
      BY <1>5a, <3>1
    <3>3. QED
      BY <3>2 DEF top
  <2>3. Onward(text, hd + 1) = Onward(head, Len(head)) \o rest
    BY <1>4, <2>2
  <2> HIDE DEF n
  <2>4. QED
    BY <1>6, <1>7, <1>8, <2>1, <2>3
<1>13. QED
  BY <1>9, <1>10, <1>11, <1>12

LEMMA FileLineFollows ==
  ASSUME ParserTypes, WellFormed, Following, pc = "a file", FileLine
  PROVE  Following' /\ pc' \notin Broken
<1>1. /\ pc' = "hunks" /\ hd' = hd + 1 /\ source' = source /\ text' = text
      /\ patch' = patch /\ diffs' = diffs /\ pc \in HeadPlaces
  BY DEF FileLine, Advance, file, HeadPlaces
<1>2. diffs' > 0
  BY <1>1 DEF Following
<1>3. PICK q \in Qs : \E f \in Fs(q) :
         LET head == FileAt(q, f).head
             n == HeadLine(pc, Len(head))
         IN  /\ InHead(q, f, n) /\ n \in 1..Len(head)
             /\ head \in Heads
             /\ Ahead # <<>> /\ Ahead[1] = head[n]
             /\ hd + 1 \in 1..Len(text) + 1
             /\ Onward(text, hd + 1) = Onward(head, n + 1)
                                         \o (HunksFrom(q, f, 1) \o Behind(q, f))
             /\ patch \o LeftInPatch(q, f) = annotated
  BY <1>1, AtHeadLine
<1>4. PICK f \in Fs(q) :
         LET head == FileAt(q, f).head
             n == HeadLine(pc, Len(head))
         IN  /\ InHead(q, f, n) /\ n \in 1..Len(head)
             /\ head \in Heads
             /\ Ahead # <<>> /\ Ahead[1] = head[n]
             /\ hd + 1 \in 1..Len(text) + 1
             /\ Onward(text, hd + 1) = Onward(head, n + 1)
                                         \o (HunksFrom(q, f, 1) \o Behind(q, f))
             /\ patch \o LeftInPatch(q, f) = annotated
  BY <1>3
<1> DEFINE head == FileAt(q, f).head
           x == FileAt(q, f).hunks
           rest == HunksFrom(q, f, 1) \o Behind(q, f)
           left == LeftInPatch(q, f + 1)
<1>5. /\ HeadLine(pc, Len(head)) = Len(head)
      /\ Onward(text, hd + 1) = Onward(head, Len(head) + 1) \o rest
      /\ patch \o LeftInPatch(q, f) = annotated
  <2>1. HeadLine(pc, Len(head)) = Len(head)
    BY DEF HeadLine
  <2>2. QED
    BY <1>4, <2>1
<1>6. /\ source \in Sources /\ head \in Seq(Lines) /\ rest \in Seq(Lines)
      /\ x \in Seq(Seq(Loose)) /\ Len(x) \in Nat \ {0}
      /\ LeftInPatch(q, f) = x \o left
  BY ParserShape, FileThenRest, CommitTypes, ManualFile, LeftShape DEF Qs, Fs
<1>7. Onward(text, hd + 1) = rest
  <2> HIDE DEF head, rest
  <2>1. Onward(head, Len(head) + 1) = <<>>
    BY <1>6, OnwardAll
  <2>2. QED
    BY <1>5, <1>6, <2>1, ConcatEmptySeq
<1>8. Onward(x, 1) = x
  <2> HIDE DEF x
  <2>1. QED
    BY <1>6, OnwardAll
<1>9. AtHunk(q, f, 1)'
  <2>1. Ahead' = rest
    BY <1>1, <1>7 DEF Ahead
  <2>2. patch \o (Onward(x, 1) \o left) = annotated
    BY <1>5, <1>6, <1>8
  <2>3. QED
    BY <1>1, <2>1, <2>2, SameText DEF AtHunk
<1>10. q \in Qs' /\ f \in Fs(q)' /\ 1 \in Ks(q, f)'
  <2>1. 1 \in Ks(q, f)
    <3>1. 1 \in 1..Len(x)
      <4> HIDE DEF x
      <4>1. QED
        BY <1>6, StartsAtOne, Zenon
    <3>2. QED
      BY <3>1 DEF Ks
  <2>2. QED
    BY <1>1, <2>1, SameText
<1>11. QED
  BY <1>1, <1>2, <1>9, <1>10, ToHunks

\* What comes at a hunk: its "@@" line, its lines, and what is behind it.
LEMMA AtHunkShape ==
  ASSUME ParserTypes, WellFormed, NEW q \in Qs, NEW f \in Fs(q), NEW k \in Ks(q, f),
         AtHunk(q, f, k)
  PROVE  LET x == FileAt(q, f).hunks[k]
             b == HunksFrom(q, f, k + 1) \o Behind(q, f)
         IN  /\ x \in Seq(Loose) /\ x \in Seq(Lines) /\ b \in Seq(Lines)
             /\ Ahead = (<<"@@">> \o x) \o b
             /\ Ahead # <<>> /\ Ahead[1] = "@@"
             /\ \A j \in 1..Len(x) : x[j] \notin BodyEnds
<1> DEFINE x == FileAt(q, f).hunks[k]
           first == <<"@@">> \o x
           next == HunksFrom(q, f, k + 1)
           behind == Behind(q, f)
           b == next \o behind
           top == Len(FileAt(q, f).hunks)
<1>1. source \in Sources /\ q \in 1..Len(commits) /\ f \in 1..Len(commits[q].files)
  BY ParserShape DEF Qs, Fs
<1>2. top \in Nat
  BY <1>1, ManualFile
<1>3. k \in 1..top /\ k + 1 \in 1..top + 1
  <2>1. k \in 1..top
    BY DEF Ks
  <2> HIDE DEF top
  <2>2. QED
    BY <1>2, <2>1
<1>4. /\ x \in Seq(Loose) /\ x \in Seq(Lines)
      /\ HunksFrom(q, f, k) = first \o next /\ next \in Seq(Lines)
  BY <1>1, <1>3, HunkTextsShape
<1>5. behind \in Seq(Lines)
  BY <1>1, FileThenRest
<1>6. Ahead = HunksFrom(q, f, k) \o behind
  BY DEF AtHunk
<1>7. \A j \in 1..Len(x) : x[j] \notin BodyEnds
  BY <1>1, ManualFile
<1> HIDE DEF x, next, behind
<1>8. <<"@@">> \in Seq(Lines) /\ <<"@@">> # <<>> /\ <<"@@">>[1] = "@@"
  BY Words
<1>9. first \in Seq(Lines) /\ first # <<>> /\ first[1] = "@@" /\ b \in Seq(Lines)
  BY <1>4, <1>5, <1>8, ConcatProperties, ConcatFirst
<1> HIDE DEF first
<1>10. Ahead = first \o b
  <2>1. Joined(Joined(first, next), behind) = Joined(first, Joined(next, behind))
    BY <1>4, <1>5, <1>9, Regroup
  <2>2. QED
    BY <1>4, <1>6, <2>1 DEF Joined
<1> HIDE DEF b
<1>11. Ahead # <<>> /\ Ahead[1] = "@@"
  BY <1>9, <1>10, ConcatFirst
<1>12. QED
  BY <1>4, <1>7, <1>9, <1>10, <1>11 DEF x, first, next, behind, b

LEMMA HunkFollows ==
  ASSUME ParserTypes, WellFormed, Following, Hunk
  PROVE  Following' /\ pc' \notin Broken
<1>1. /\ pc = "hunks" /\ Sees({"@@"}) /\ pc' = pc
      /\ patch' = Append(patch, SubSeq(text, hd + 1, BodyEnd))
      /\ hd' = BodyEnd + 1 /\ hunks' = hunks + 1 /\ diffs' = diffs
      /\ source' = source /\ text' = text
  BY DEF Hunk, BodyEnd, file
<1>2. /\ source \in Sources /\ text \in Seq(Lines) /\ hd \in 1..Len(text) + 1
      /\ patch \in Seq(Seq(Loose)) /\ hunks' > 0 /\ diffs' > 0
  <2>1. diffs' > 0
    BY <1>1 DEF Following
  <2>2. hunks' > 0
    BY <1>1, ParserShape
  <2>3. QED
    BY <2>1, <2>2, ParserShape
<1>3. Ahead # <<>> /\ Ahead[1] = "@@"
  BY <1>1, SeesShape
<1>4. PICK q \in Qs : \/ PatchRead(q)
                      \/ \E f \in Fs(q) : \/ InHead(q, f, 1)
                                          \/ \E k \in Ks(q, f) : AtHunk(q, f, k)
  BY <1>1 DEF Following
<1>5. ~PatchRead(q)
  BY <1>3, PatchAhead
<1>6. PICK f \in Fs(q) : InHead(q, f, 1) \/ \E k \in Ks(q, f) : AtHunk(q, f, k)
  BY <1>4, <1>5
<1>7. ~InHead(q, f, 1)
  BY <1>3, HeadAhead
<1>8. PICK k \in Ks(q, f) : AtHunk(q, f, k)
  BY <1>6, <1>7
<1> DEFINE s == FileAt(q, f).hunks
           top == Len(s)
           x == s[k]
           behind == Behind(q, f)
           b == HunksFrom(q, f, k + 1) \o behind
           left == LeftInPatch(q, f + 1)
<1>9. /\ x \in Seq(Loose) /\ x \in Seq(Lines) /\ b \in Seq(Lines)
      /\ Ahead = (<<"@@">> \o x) \o b
      /\ \A j \in 1..Len(x) : x[j] \notin BodyEnds
  BY <1>8, AtHunkShape
<1>10. /\ s \in Seq(Seq(Loose)) /\ behind \in Seq(Lines)
       /\ q \in 1..Len(commits) /\ f \in 1..Len(commits[q].files)
       /\ q \in Qs' /\ f \in Fs(q)'
  BY <1>1, <1>2, CommitTypes, FileThenRest, SameText DEF Qs, Fs
<1>11. top \in Nat /\ k \in 1..top /\ (k + 1 \in 1..top \/ k = top)
  <2>1. top \in Nat /\ k \in 1..top
    BY <1>10, LenProperties DEF Ks
  <2> HIDE DEF top
  <2>2. QED
    BY <2>1
<1>12. left \in Seq(Seq(Loose))
  <2>1. Len(commits[q].files) \in Nat
    BY <1>2, <1>10, CommitTypes
  <2>2. f + 1 \in 1..Len(commits[q].files) + 1
    BY <1>10, <2>1
  <2>3. QED
    BY <1>2, <1>10, <2>2, LeftShape
<1>13. patch \o (Onward(s, k) \o left) = annotated
  BY <1>8 DEF AtHunk
\* What was to come starts with this hunk.
<1>14. /\ Append(patch, x) \o (Onward(s, k + 1) \o left) = annotated
       /\ Onward(s, k + 1) \in Seq(Seq(Loose))
       /\ Append(patch, x) \in Seq(Seq(Loose))
  <2> DEFINE next == Onward(s, k + 1)
             only == <<x>>
  <2>1. Onward(s, k) = only \o next /\ next \in Seq(Seq(Loose))
        /\ only \in Seq(Seq(Loose))
    <3> HIDE DEF s, top
    <3>1. k \in 1..Len(s)
      BY <1>11 DEF top
    <3>2. QED
      BY <1>10, <3>1, OnwardFirst
  <2>2. Append(patch, x) = patch \o only /\ Append(patch, x) \in Seq(Seq(Loose))
    BY <1>2, <1>9, AppendIsConcat, AppendProperties
  <2> HIDE DEF next, only
  <2>3. Joined(Joined(patch, only), Joined(next, left))
          = Joined(patch, Joined(Joined(only, next), left))
    BY <1>2, <1>12, <2>1, Regroup
  <2>4. QED
    BY <1>13, <2>1, <2>2, <2>3 DEF Joined, next
<1> HIDE DEF s, top, x, behind, b, left
<1>15. CASE k + 1 \in 1..top
  <2>1. k + 1 \in Ks(q, f)
    BY <1>15 DEF Ks, top, s
  <2>2. b = HunksFrom(q, f, k + 1) \o behind /\ b[1] \in BodyEnds
    <3> DEFINE y == s[k + 1]
               first == <<"@@">> \o y
               next == HunksFrom(q, f, (k + 1) + 1)
    <3>1. /\ HunksFrom(q, f, k + 1) = first \o next /\ y \in Seq(Lines)
          /\ next \in Seq(Lines)
      <4>1. (k + 1) + 1 \in 1..top + 1
        BY <1>11, <1>15
      <4>2. QED
        BY <1>2, <1>10, <1>15, <4>1, HunkTextsShape DEF top, s
    <3>2. <<"@@">> \in Seq(Lines) /\ <<"@@">> # <<>> /\ <<"@@">>[1] = "@@"
      BY Words
    <3> HIDE DEF y, next
    <3>3. first \in Seq(Lines) /\ first # <<>> /\ first[1] = "@@"
      BY <3>1, <3>2, ConcatProperties, ConcatFirst
    <3> HIDE DEF first
    <3> DEFINE all == first \o next
    <3>4. all \in Seq(Lines) /\ all # <<>> /\ all[1] = "@@"
      BY <3>1, <3>3, ConcatProperties, ConcatFirst
    <3> HIDE DEF all
    <3>5. (all \o behind)[1] = "@@"
      BY <1>10, <3>4, ConcatFirst
    <3>6. QED
      BY <3>1, <3>5, Words DEF b, all
  <2>3. /\ Onward(text, BodyEnd + 1) = b
        /\ SubSeq(text, hd + 1, BodyEnd) = x
    BY <1>2, <1>9, <2>2, BodyEndIs
  <2>4. AtHunk(q, f, k + 1)'
    <3>1. Ahead' = HunksFrom(q, f, k + 1) \o Behind(q, f)
      BY <1>1, <2>2, <2>3 DEF Ahead, behind
    <3>2. patch' \o (Onward(FileAt(q, f).hunks, k + 1) \o LeftInPatch(q, f + 1))
            = annotated
      BY <1>1, <1>14, <2>3 DEF s, left
    <3>3. QED
      BY <1>1, <3>1, <3>2, SameText DEF AtHunk
  <2>5. k + 1 \in Ks(q, f)'
    BY <1>1, <2>1, SameText
  <2>6. QED
    BY <1>1, <1>2, <1>10, <2>4, <2>5, ToHunks
<1>16. CASE k = top
  <2>1. HunksFrom(q, f, k + 1) = <<>> /\ Onward(s, k + 1) = <<>>
    BY <1>2, <1>10, <1>16, HunkTextsShape, OnwardAll DEF top, s
  <2>2. b = behind /\ Append(patch, x) \o left = annotated
    BY <1>10, <1>12, <1>14, <2>1, ConcatEmptySeq DEF b
  <2>3. CASE f + 1 \in Fs(q)
    <3> DEFINE head == FileAt(q, f + 1).head
               rest == HunksFrom(q, f + 1, 1) \o Behind(q, f + 1)
    <3>1. behind = head \o rest /\ head \in Seq(Lines) /\ rest \in Seq(Lines)
      BY <1>2, <2>3, FileThenRest DEF behind
    <3>2. head[1] = "diff" /\ head # <<>> /\ Onward(head, 1) = head
      <4>1. head \in Heads
        BY <1>2, <2>3, ManualFile
      <4> HIDE DEF head
      <4>2. head[1] = "diff" /\ Len(head) \in {4, 5}
        BY <4>1, HeadShape, Zenon
      <4>3. Len(head) # 0
        BY <4>2
      <4>4. QED
        BY <3>1, <4>2, <4>3, OnwardAll, EmptySeq
    <3>3. b[1] \in BodyEnds
      <4>1. "diff" \in BodyEnds
        BY Words DEF DiffWords
      <4> HIDE DEF head, rest
      <4>2. QED
        BY <2>2, <3>1, <3>2, <4>1, ConcatFirst
    <3>4. /\ Onward(text, BodyEnd + 1) = b
          /\ SubSeq(text, hd + 1, BodyEnd) = x
      BY <1>2, <1>9, <3>3, BodyEndIs
    <3>5. InHead(q, f + 1, 1)'
      <4>1. Ahead' = Onward(head, 1) \o rest
        BY <1>1, <2>2, <3>1, <3>2, <3>4 DEF Ahead
      <4>2. patch' \o LeftInPatch(q, f + 1) = annotated
        BY <1>1, <2>2, <3>4 DEF left
      <4>3. QED
        BY <1>1, <4>1, <4>2, SameText DEF InHead
    <3>6. f + 1 \in Fs(q)'
      BY <1>1, <2>3, SameText
    <3>7. QED
      BY <1>1, <1>2, <1>10, <3>5, <3>6, ToHunks
  <2>4. CASE f + 1 \notin Fs(q)
    <3> DEFINE tail == commits[q].trailer
               next == TextFrom(q + 1)
               xt == x \o tail
    <3>1. f = Len(commits[q].files) /\ behind = tail \o next
      BY <1>2, <2>4, FileThenRest DEF behind, Rest
    <3>2. /\ tail \in Seq(Loose) /\ tail \in Seq(Lines) /\ next \in Seq(Lines)
          /\ \A j \in 1..Len(tail) : tail[j] \notin BodyEnds
          /\ next = <<>> \/ next[1] \in BodyEnds
      <4>1. "sep" \in BodyEnds
        BY DEF BodyEnds, Separators
      <4>2. QED
        BY <1>2, <1>10, <4>1, CommitTypes, RestTypes, ManualPatch, NextTextStarts
    <3> HIDE DEF tail, next
    <3>3. /\ xt \in Seq(Lines) /\ \A j \in 1..Len(xt) : xt[j] \notin BodyEnds
      BY <1>9, <3>2, ConcatProperties, ConcatNone
    <3>4. Ahead = (<<"@@">> \o xt) \o next
      <4> DEFINE at == <<"@@">>
      <4>1. at \in Seq(Lines)
        BY Words
      <4> HIDE DEF at
      <4>2. Joined(Joined(at, x), Joined(tail, next))
              = Joined(Joined(at, Joined(x, tail)), next)
        BY <1>9, <3>2, <4>1, Regroup
      <4>3. Ahead = (at \o x) \o (tail \o next)
        BY <1>9, <2>2, <3>1 DEF at
      <4>4. QED
        BY <4>2, <4>3 DEF Joined, at
    <3> HIDE DEF xt
    <3>5. /\ Onward(text, BodyEnd + 1) = next
          /\ SubSeq(text, hd + 1, BodyEnd) = xt
      BY <1>2, <3>2, <3>3, <3>4, BodyEndIs
    <3>6. x # <<>> /\ \A j \in 1..Len(x) : x[j] # "dashes"
      <4>1. x # <<>>
        BY <1>2, ManualFile DEF x, s
      <4>2. \A j \in 1..Len(x) : x[j] # "dashes"
        BY <1>2, <1>16, <3>1, ManualFile DEF x, s, top
      <4>3. QED
        BY <4>1, <4>2
    <3>7. Append(patch, x) \o LeftFrom(q + 1) = annotated
      <4>1. left = LeftFrom(q + 1)
        BY <1>2, <1>10, <3>1, LeftShape DEF left
      <4>2. QED
        BY <2>2, <4>1
    <3>8. patch' = Append(patch, x \o tail) /\ Ahead' = next
      BY <1>1, <3>5 DEF Ahead, xt
    <3>9. PatchRead(q)'
      <4>1. \E pre \in Seq(Seq(Loose)), y \in Seq(Loose) :
               /\ patch' = Append(pre, y \o commits[q].trailer)
               /\ Append(pre, y) \o LeftFrom(q + 1) = annotated
               /\ y # <<>> /\ \A j \in 1..Len(y) : y[j] # "dashes"
        BY <1>2, <1>9, <3>6, <3>7, <3>8 DEF tail
      <4>2. QED
        BY <1>1, <1>2, <3>8, <4>1, SameText DEF PatchRead, next
    <3>10. QED
      BY <1>1, <1>2, <1>10, <3>9, ToHunks
  <2>5. QED
    BY <2>3, <2>4
<1>17. QED
  BY <1>11, <1>15, <1>16

LEMMA DiffEndFollows ==
  ASSUME ParserTypes, WellFormed, Following, DiffEnd
  PROVE  Following' /\ pc' \notin Broken
<1>1. /\ pc = "hunks" /\ ~Sees(HunkWords) /\ pc' = "diffs" /\ hd' = hd
      /\ source' = source /\ text' = text /\ patch' = patch
      /\ diffs' = diffs /\ hunks' = hunks
  BY DEF DiffEnd, Advance, file
<1>2. Ahead = <<>> \/ Ahead[1] # "@@"
  <2>1. "@@" \in HunkWords
    BY DEF HunkWords
  <2>2. QED
    BY <1>1, <2>1, SeesShape
<1>3. PICK q \in Qs : \/ PatchRead(q)
                      \/ \E f \in Fs(q) : \/ InHead(q, f, 1)
                                          \/ \E k \in Ks(q, f) : AtHunk(q, f, k)
  BY <1>1 DEF Following
<1>4. ASSUME NEW f \in Fs(q), NEW k \in Ks(q, f) PROVE ~AtHunk(q, f, k)
  BY <1>2, AtHunkShape
<1>5. Ahead' = Ahead /\ q \in Qs'
  BY <1>1, SameText DEF Ahead
<1>6. CASE PatchRead(q)
  <2>1. PatchRead(q)'
    BY <1>1, <1>5, <1>6, SameText DEF PatchRead
  <2>2. QED
    BY <1>1, <1>5, <2>1, ToDiffs
<1>7. CASE \E f \in Fs(q) : InHead(q, f, 1)
  <2>1. PICK f \in Fs(q) : InHead(q, f, 1)
    BY <1>7
  <2>2. InHead(q, f, 1)' /\ f \in Fs(q)'
    BY <1>1, <1>5, <2>1, SameText DEF InHead
  <2>3. QED
    BY <1>1, <1>5, <2>2, ToDiffs
<1>8. QED
  BY <1>3, <1>4, <1>6, <1>7

\* Behind a patch that has been read its trailer is all that is cut off.
LEMMA TrailerIs ==
  ASSUME NEW x \in Seq(Loose), x # <<>>, \A j \in 1..Len(x) : x[j] # "dashes",
         NEW unended
  PROVE  /\ Trailers(x \o <<>>, unended) = {}
         /\ LET body == x \o <<"dashes", "note", "blank">>
                found == Trailers(body, unended)
            IN  /\ found # {}
                /\ SubSeq(body, 1, LastTrailer(found) - 1) = x
<1> DEFINE tail == <<"dashes", "note", "blank">>
           body == x \o tail
           found == Trailers(body, unended)
           lx == Len(x)
<1>1. lx \in Nat \ {0} /\ x \in Seq(Loose)
  BY EmptySeq, LenProperties
<1>2. x \o <<>> = x
  BY ConcatEmptySeq
<1>3. Trailers(x, unended) = {}
  BY <1>1 DEF Trailers
<1>4. /\ tail \in Seq(Loose) /\ Len(tail) = 3
      /\ tail[1] = "dashes" /\ tail[2] = "note" /\ tail[3] = "blank"
  <2>1. "dashes" \in Loose /\ "note" \in Loose /\ "blank" \in Loose
    BY Zenon DEF Loose, BodyKinds, DiffKinds, Changed, NoteKinds
  <2>2. QED
    BY <2>1
<1> HIDE DEF tail
<1>5. /\ Len(body) = lx + 3 /\ body \in Seq(Loose)
      /\ \A j \in 1..lx + 3 : body[j] = IF j <= lx THEN x[j] ELSE tail[j - lx]
  <2>1. x \in Seq(Loose) /\ tail \in Seq(Loose)
    BY <1>1, <1>4
  <2>2. /\ Len(body) = lx + Len(tail) /\ body \in Seq(Loose)
        /\ \A j \in 1..lx + Len(tail) :
             body[j] = IF j <= lx THEN x[j] ELSE tail[j - lx]
    BY <2>1, ConcatProperties
  <2> HIDE DEF body, lx
  <2>3. QED
    BY <1>4, <2>2
<1> HIDE DEF body
<1>6. /\ body[lx + 1] = "dashes" /\ body[lx + 2] # "dashes"
      /\ body[lx + 3] # "dashes" /\ \A j \in 1..lx : body[j] # "dashes"
  <2>1. body[lx + 1] = tail[1] /\ body[lx + 2] = tail[2] /\ body[lx + 3] = tail[3]
        /\ \A j \in 1..lx : body[j] = x[j]
    <3> HIDE DEF lx
    <3>0. lx \in Nat
      BY <1>1
    <3>1. /\ lx + 1 \in 1..lx + 3 /\ ~(lx + 1 <= lx) /\ lx + 1 - lx = 1
          /\ lx + 2 \in 1..lx + 3 /\ ~(lx + 2 <= lx) /\ lx + 2 - lx = 2
          /\ lx + 3 \in 1..lx + 3 /\ ~(lx + 3 <= lx) /\ lx + 3 - lx = 3
          /\ \A j \in 1..lx : j \in 1..lx + 3 /\ j <= lx
      BY <3>0
    <3>2. ASSUME NEW j \in 1..lx + 3, ~(j <= lx) PROVE body[j] = tail[j - lx]
      BY <1>5, <3>2, Zenon
    <3>3. ASSUME NEW m \in 1..3 PROVE body[lx + m] = tail[m]
      <4> DEFINE j == lx + m
      <4>1. j \in 1..lx + 3 /\ ~(j <= lx) /\ j - lx = m
        BY <3>0
      <4> HIDE DEF j
      <4>2. body[j] = tail[m]
        BY <3>2, <4>1
      <4>3. QED
        BY <4>2 DEF j
    <3>4. \A j \in 1..lx : body[j] = x[j]
      BY <1>5, <3>1, Zenon
    <3>5. QED
      BY <3>3, <3>4
  <2>2. QED
    BY <1>4, <2>1
<1>7. found = {lx + 1}
  <2>1. lx + 1 \in found
    <3> DEFINE m == lx + 1
    <3>1. m \in 2..Len(body) /\ m < Len(body) /\ body[m] = "dashes"
      BY <1>1, <1>5, <1>6
    <3> HIDE DEF m
    <3>2. m \in found
      BY <3>1 DEF Trailers
    <3>3. QED
      BY <3>2 DEF m
  <2>2. ASSUME NEW k \in found PROVE k = lx + 1
    <3>1. k \in 2..Len(body) /\ body[k] = "dashes"
      BY DEF Trailers
    <3> HIDE DEF lx, found
    <3>2. k \in 1..lx \/ k = lx + 1 \/ k = lx + 2 \/ k = lx + 3
      BY <1>1, <1>5, <3>1
    <3>3. QED
      BY <1>6, <3>1, <3>2
  <2>3. QED
    BY <2>1, <2>2
<1> HIDE DEF found
<1>8. LastTrailer(found) = lx + 1
  <2> DEFINE last == Max(found)
             S == {k \in found : \A j \in k..last : j \in found}
             first == Min(S)
             m == lx + 1
  <2>0. m \in Nat
    BY <1>1
  <2>1. found = {m}
    BY <1>7
  <2> HIDE DEF m
  <2>2. last = m
    <3>1. found \in SUBSET Int /\ found # {} /\ m \in Int /\ \A k \in found : k <= m
      BY <2>0, <2>1
    <3>2. last \in found
      BY <3>1, MaxShape
    <3>3. QED
      BY <2>1, <3>2
  <2> HIDE DEF last
  <2>3. S = {m}
    BY <2>0, <2>1, <2>2
  <2> HIDE DEF S
  <2>4. first = m
    <3>1. S \in SUBSET Int /\ S # {} /\ \A k \in S : m <= k
      BY <2>0, <2>3
    <3>2. first \in S
      BY <2>0, <3>1, MinShape
    <3>3. QED
      BY <2>3, <3>2
  <2>5. LastTrailer(found) = first + 2 * ((last - first) \div 2)
    BY DEF LastTrailer, first, S, last
  <2> HIDE DEF first
  <2>6. LastTrailer(found) = m
    <3>1. last - first = 0
      BY <2>0, <2>2, <2>4
    <3>2. 0 \div 2 = 0 /\ 2 * 0 = 0 /\ first + 0 = m
      BY <2>0, <2>4
    <3>3. QED
      BY <2>5, <3>1, <3>2
  <2>7. QED
    BY <2>6 DEF m
<1>9. SubSeq(body, 1, LastTrailer(found) - 1) = x
  <2>1. LastTrailer(found) - 1 = lx
    BY <1>1, <1>8
  <2>2. SubSeq(x \o tail, 1, lx) = x
    <3>1. x \in Seq(Loose) /\ tail \in Seq(Loose)
      BY <1>1, <1>4
    <3>2. Len(x) \in 0..Len(x)
      BY <1>1
    <3>3. SubSeq(x \o tail, 1, Len(x)) = SubSeq(x, 1, Len(x))
      <4>1. \A t : t \in Seq(Loose) => SubSeq(t, 1, Len(t)) = t
        BY SubSeqFull
      <4>2. Len(x) \in Nat /\ 1 \in 1..Len(x) + 1 /\ Len(x) \in 1 - 1..Len(x)
        BY <1>1
      <4>3. QED
        BY <3>1, <4>2, SubSeqOfConcat1
    <3>4. QED
      BY <3>1, <3>3, SubSeqFull
  <2>3. QED
    BY <2>1, <2>2 DEF body
<1>10. QED
  BY <1>2, <1>3, <1>7, <1>9 DEF found, body, tail

\* The loop over the diffs of a patch ends: the trailer goes, and the next
\* patch of a series comes, or the scanner.
LEMMA FixupFollows ==
  ASSUME ParserTypes, WellFormed, Following, Fixup
  PROVE  Following' /\ pc' \notin Broken
<1>1. /\ pc = "diffs" /\ ~Sees(DiffWords) /\ pc' = AfterPatch
      /\ hd' = hd /\ source' = source /\ text' = text
  BY DEF Fixup, PatchEnds, file
<1>2. LET body == Last(patch)
          found == IF diffs = 0 THEN {} ELSE Trailers(body, cut /\ AtEnd)
      IN  IF found = {} THEN patch' = patch
          ELSE patch' = [patch EXCEPT ![Len(patch)] =
                           SubSeq(body, 1, LastTrailer(found) - 1)]
  BY DEF Fixup
<1>3. /\ source \in Sources /\ Len(commits) \in Nat
      /\ TextFrom(Len(commits) + 1) = <<>> /\ LeftFrom(Len(commits) + 1) = <<>>
      /\ patch \in Seq(Seq(Loose)) /\ Len(commits) + 1 \in 1..Len(commits) + 1
  <2>1. source \in Sources /\ patch \in Seq(Seq(Loose))
    BY ParserShape
  <2>2. Len(commits) \in Nat
    BY <2>1, PatchTextsShape
  <2>3. QED
    BY <2>1, <2>2, PatchTextsShape, LeftShape
<1>4. /\ source.series => pc' = "series"
      /\ ~source.series => pc' \in {"line", "done"}
  BY <1>1 DEF AfterPatch
<1>5. ASSUME NEW q \in Qs, NEW f \in Fs(q) PROVE ~InHead(q, f, 1)
  <2>1. "diff" \in DiffWords
    BY DEF DiffWords
  <2>2. QED
    BY <1>1, <2>1, SeesShape, HeadAhead
<1>6. CASE NothingLeft
  <2>1. patch' = annotated /\ Ahead = <<>>
    BY <1>2, <1>6 DEF NothingLeft
  <2>2. CASE source.series
    <3>1. Onward(text, hd') = TextFrom(Len(commits) + 1)
      BY <1>1, <1>3, <2>1 DEF Ahead
    <3>2. patch' \o LeftFrom(Len(commits) + 1) = annotated
      <4>1. patch' \in Seq(Seq(Loose))
        BY <1>2, <1>3, <1>6 DEF NothingLeft
      <4>2. QED
        BY <1>3, <2>1, <4>1, ConcatEmptySeq
    <3>3. QED
      BY <1>1, <1>3, <1>4, <2>2, <3>1, <3>2, ToPatch
  <2>3. CASE ~source.series
    BY <1>1, <1>4, <2>1, <2>3, ToEnd
  <2>4. QED
    BY <2>2, <2>3
<1>7. ASSUME NEW q \in Qs, PatchRead(q)
      PROVE  Following' /\ pc' \notin Broken
  <2>1. Ahead = TextFrom(q + 1) /\ diffs > 0
    BY <1>7 DEF PatchRead
  <2>2. PICK pre \in Seq(Seq(Loose)), x \in Seq(Loose) :
          /\ patch = Append(pre, x \o commits[q].trailer)
          /\ Append(pre, x) \o LeftFrom(q + 1) = annotated
          /\ x # <<>> /\ \A j \in 1..Len(x) : x[j] # "dashes"
    BY <1>7 DEF PatchRead
  <2> DEFINE tail == commits[q].trailer
             body == x \o tail
             found == Trailers(body, cut /\ AtEnd)
  <2>3. tail \in Seq(Loose)
        /\ (tail = <<>> \/ tail = <<"dashes", "note", "blank">>)
    BY <1>3, CommitTypes, ManualPatch DEF Qs
  <2>4. body \in Seq(Loose) /\ x \o <<>> = x
    BY <2>3, ConcatProperties, ConcatEmptySeq
  <2>5. /\ patch = Append(pre, body) /\ Len(patch) = Len(pre) + 1
        /\ Len(pre) \in Nat /\ Last(patch) = body
    <3>1. patch = Append(pre, body)
      BY <2>2
    <3> HIDE DEF body
    <3>2. /\ Len(patch) = Len(pre) + 1 /\ Len(pre) \in Nat
          /\ patch[Len(pre) + 1] = body
      BY <2>4, <3>1, AppendProperties, LenProperties
    <3>3. QED
      BY <3>1, <3>2 DEF Last
  <2>6. IF found = {} THEN patch' = patch
        ELSE patch' = [patch EXCEPT ![Len(patch)] =
                         SubSeq(body, 1, LastTrailer(found) - 1)]
    <3>1. diffs # 0
      BY <2>1, ParserShape
    <3> HIDE DEF body
    <3>2. QED
      BY <1>2, <2>5, <3>1
  <2>7. patch' = Append(pre, x)
    <3>1. CASE tail = <<>>
      <4>1. body = x /\ found = {}
        BY <2>2, <2>4, <3>1, TrailerIs
      <4> HIDE DEF found, body
      <4>2. QED
        BY <2>5, <2>6, <4>1
    <3>2. CASE tail = <<"dashes", "note", "blank">>
      <4>1. found # {} /\ SubSeq(body, 1, LastTrailer(found) - 1) = x
        BY <2>2, <3>2, TrailerIs
      <4> HIDE DEF found, body
      <4>2. patch' = [patch EXCEPT ![Len(pre) + 1] = x]
        BY <2>5, <2>6, <4>1
      <4>3. QED
        BY <2>4, <2>5, <4>2, LastReplaced
    <3>3. QED
      BY <2>3, <3>1, <3>2
  <2>8. patch' \o LeftFrom(q + 1) = annotated /\ patch' \in Seq(Seq(Loose))
    BY <2>2, <2>7, AppendProperties
  <2>9. CASE source.series
    <3>1. q + 1 \in 1..Len(commits) + 1
      BY <1>3, RestTypes
    <3>2. Onward(text, hd') = TextFrom(q + 1)
      BY <1>1, <2>1 DEF Ahead
    <3>3. QED
      BY <1>1, <1>4, <2>8, <2>9, <3>1, <3>2, ToPatch
  <2>10. CASE ~source.series
    <3>1. LeftFrom(q + 1) = <<>>
      BY <1>3, <2>10, NextTextStarts
    <3>2. patch' = annotated
      BY <2>8, <3>1, ConcatEmptySeq
    <3>3. QED
      BY <1>1, <1>4, <2>10, <3>2, ToEnd
  <2>11. QED
    BY <2>9, <2>10
<1>8. NothingLeft \/ \E q \in Qs : PatchRead(q) \/ \E f \in Fs(q) : InHead(q, f, 1)
  BY <1>1 DEF Following
<1>9. QED
  BY <1>5, <1>6, <1>7, <1>8

LEMMA FixupNeverAborts ==
  ASSUME ParserTypes, WellFormed, Following
  PROVE  ~FixupAborts
<1> SUFFICES ASSUME FixupAborts PROVE FALSE
  OBVIOUS
<1>1. pc = "diffs" /\ ~Sees(DiffWords) /\ diffs > 0 /\ hunks = 0
  BY DEF FixupAborts, PatchEnds
<1>2. ASSUME NEW q \in Qs, NEW f \in Fs(q) PROVE ~InHead(q, f, 1)
  <2>1. "diff" \in DiffWords
    BY DEF DiffWords
  <2>2. QED
    BY <1>1, <2>1, SeesShape, HeadAhead
<1>3. ~NothingLeft /\ \A q \in Qs : ~PatchRead(q)
  <2>1. diffs # 0 /\ ~(hunks > 0)
    BY <1>1, ParserShape
  <2>2. QED
    BY <2>1 DEF NothingLeft, PatchRead
<1>4. QED
  BY <1>1, <1>2, <1>3 DEF Following

\* Every line that stands in a head is one that the parser takes there, and
\* no hunk starts like a line of its own.
LEMMA NeverFails ==
  ASSUME ParserTypes, WellFormed, Following
  PROVE  ~ParserFails
<1> SUFFICES ASSUME ParserFails PROVE FALSE
  OBVIOUS
<1>1. \/ pc = "header" /\ ~Sees(ReadableHeaders)
      \/ pc = "new file mode" /\ AtEnd
      \/ pc = "index" /\ ~Sees({"index"})
      \/ pc \in {"r file", "a file"} /\ ~Sees(FileLines(pc))
      \/ pc = "hunks" /\ Sees({"stray @@"})
  BY DEF ParserFails
<1>2. ASSUME pc \in HeadPlaces
      PROVE  /\ ~AtEnd
             /\ pc = "header" => Sees(ReadableHeaders)
             /\ pc = "index" => Sees({"index"})
             /\ pc \in {"r file", "a file"} => Sees(FileLines(pc))
  <2>1. PICK q \in Qs : \E f \in Fs(q) :
          LET head == FileAt(q, f).head
              n == HeadLine(pc, Len(head))
          IN  head \in Heads /\ Ahead # <<>> /\ Ahead[1] = head[n]
    BY <1>2, AtHeadLine
  <2>2. PICK f \in Fs(q) :
          LET head == FileAt(q, f).head
              n == HeadLine(pc, Len(head))
          IN  head \in Heads /\ Ahead # <<>> /\ Ahead[1] = head[n]
    BY <2>1
  <2> DEFINE head == FileAt(q, f).head
             n == HeadLine(pc, Len(head))
  <2>3. head \in Heads /\ Ahead # <<>> /\ Ahead[1] = head[n]
    BY <2>2
  <2> HIDE DEF head
  <2>4. /\ head[1] = "diff" /\ head[Len(head) - 2] = "index"
        /\ head[Len(head) - 1] \in FileLines("r file")
        /\ head[Len(head)] \in FileLines("a file")
    BY <2>3, HeadShape
  <2>5. pc = "header" => Ahead[1] \in ReadableHeaders
    BY <2>3, <2>4 DEF HeadLine, ReadableHeaders
  <2>6. pc = "index" => Ahead[1] \in {"index"}
    BY <2>3, <2>4 DEF HeadLine
  <2>7. pc = "r file" => Ahead[1] \in FileLines(pc)
    BY <2>3, <2>4 DEF HeadLine
  <2>8. pc = "a file" => Ahead[1] \in FileLines(pc)
    BY <2>3, <2>4 DEF HeadLine
  <2>9. QED
    BY <2>3, <2>5, <2>6, <2>7, <2>8, ParserShape, SeesShape
<1>3. ASSUME pc = "hunks" PROVE ~Sees({"stray @@"})
  <2>1. "stray @@" \notin {"sep", "diff", "@@"}
    OBVIOUS
  <2>2. PICK q \in Qs : \/ PatchRead(q)
                        \/ \E f \in Fs(q) : \/ InHead(q, f, 1)
                                            \/ \E k \in Ks(q, f) : AtHunk(q, f, k)
    BY <1>3 DEF Following
  <2>3. Ahead = <<>> \/ Ahead[1] \in {"sep", "diff", "@@"}
    BY <2>2, PatchAhead, HeadAhead, AtHunkShape
  <2>4. Sees({"stray @@"}) => Ahead # <<>> /\ Ahead[1] \in {"stray @@"}
    BY SeesShape, Zenon
  <2>5. QED
    BY <2>1, <2>3, <2>4
<1>4. QED
  BY <1>1, <1>2, <1>3 DEF HeadPlaces

LEMMA ParserFollows ==
  ASSUME ParserTypes, WellFormed, Following, NextParser
  PROVE  Following' /\ pc' \notin Broken
<1>1. ~FixupAborts /\ ~ParserFails
  BY FixupNeverAborts, NeverFails
<1>2. ASSUME DiffHeader \/ NewFileMode \/ IndexLine \/ (FileLine /\ pc = "r file")
      PROVE  Following' /\ pc' \notin Broken
  <2>1. pc \in HeadPlaces /\ diffs' = diffs
    BY <1>2 DEF DiffHeader, NewFileMode, IndexLine, FileLine, HeadPlaces
  <2>2. QED
    BY <1>2, <2>1, HeadFollows
<1>3. FileLine => pc = "r file" \/ pc = "a file"
  BY DEF FileLine
<1>4. FileLine => Following' /\ pc' \notin Broken
  BY <1>2, <1>3, FileLineFollows
<1>5. QED
  BY <1>1, <1>2, <1>4, SeriesPreludeFollows, NextPatchFollows,
     PatchPreludeFollows, NextDiffFollows, HunkFollows, DiffEndFollows,
     FixupFollows, SeriesEndFollows DEF NextParser

-----------------------------------------------------------------------------
(* What the manual says of a hunk.                                           *)

ManualHunks == {x \in Seq(Loose) : WellFormedHunk(x)}

LEMMA HunksAreManual ==
  ASSUME source \in Sources, WellFormed
  PROVE  annotated \in Seq(ManualHunks)
<1> DEFINE s == PatchHunks
           top == Len(commits)
<1>1. top \in Nat
  BY PatchTextsShape
<1>2. ASSUME NEW q \in 1..top PROVE s[q] \in Seq(ManualHunks)
  <2> DEFINE t == FileHunks(q)
             n == Len(commits[q].files)
  <2>1. n \in Nat /\ q \in Qs
    BY CommitTypes DEF Qs
  <2>2. ASSUME NEW f \in 1..n PROVE commits[q].files[f].hunks \in Seq(ManualHunks)
    <3>1. f \in Fs(q)
      BY DEF Fs
    <3> DEFINE u == FileAt(q, f).hunks
    <3>2. u \in Seq(Seq(Loose)) /\ \A k \in 1..Len(u) : WellFormedHunk(u[k])
      BY <2>1, <3>1, CommitTypes, ManualFile DEF Qs, Fs, Ks
    <3> HIDE DEF u
    <3>3. u \in Seq(ManualHunks)
      <4>1. \A k \in 1..Len(u) : u[k] \in ManualHunks
        BY <3>2, ElementOfSeq DEF ManualHunks
      <4>2. u \in [1..Len(u) -> ManualHunks] /\ Len(u) \in Nat
        BY <3>2, <4>1, LenProperties
      <4>3. QED
        BY <4>2, FunctionIsSeq
    <3>4. QED
      BY <3>3 DEF u, FileAt
  <2>3. t \in Seq(Seq(ManualHunks))
    <3>1. t \in [1..n -> Seq(ManualHunks)]
      BY <2>2 DEF FileHunks
    <3> HIDE DEF t, n
    <3>2. QED
      BY <2>1, <3>1, FunctionIsSeq
  <2>4. FlattenSeq(t) \in Seq(ManualHunks)
    <3>1. <<>> \in Seq(ManualHunks)
      BY EmptySeq
    <3> HIDE DEF t
    <3>2. QED
      BY <2>3, <3>1, FlattenAppend
  <2>5. s[q] = FlattenSeq(t)
    BY DEF PatchHunks, FileHunks
  <2>6. QED
    BY <2>4, <2>5
<1>3. s \in Seq(Seq(ManualHunks))
  <2>1. s \in [1..top -> Seq(ManualHunks)]
    BY <1>2 DEF PatchHunks
  <2> HIDE DEF s, top
  <2>2. QED
    BY <1>1, <2>1, FunctionIsSeq
<1>4. FlattenSeq(s) \in Seq(ManualHunks)
  <2>1. <<>> \in Seq(ManualHunks)
    BY EmptySeq
  <2> HIDE DEF s
  <2>2. QED
    BY <1>3, <2>1, FlattenAppend
<1>5. annotated = FlattenSeq(s)
  BY DEF annotated, PatchHunks, commits
<1>6. QED
  BY <1>4, <1>5

LEMMA LinesOfHunk ==
  ASSUME NEW x \in ManualHunks
  PROVE  /\ Len(x) \in Nat \ {0} /\ x \in Seq(Loose)
         /\ \A k \in 1..Len(x) :
              /\ x[k] \in Changed \cup NoteKinds \cup {"open", "close"}
              /\ x[k] = "open" => /\ k > 1 /\ x[k - 1] \in NoteKinds
                                  /\ \E to \in k + 1..Len(x) : Braces(x, k, to)
              /\ x[k] = "close" => \E from \in 1..k - 1 : Braces(x, from, k)
              /\ x[k] \in NoteKinds =>
                   /\ k + 1 \in 1..Len(x)
                   /\ x[k + 1] \in NoteKinds \cup Changed \cup {"open"}
<1>1. x \in Seq(Loose) /\ WellFormedHunk(x)
  BY DEF ManualHunks
<1>2. Len(x) \in Nat \ {0} /\ DOMAIN x = 1..Len(x)
  BY <1>1, EmptySeq, LenProperties DEF WellFormedHunk
<1>3. ASSUME NEW k \in 1..Len(x)
      PROVE  /\ x[k] \in Changed \cup NoteKinds \cup {"open", "close"}
             /\ x[k] = "open" => /\ k > 1 /\ x[k - 1] \in NoteKinds
                                 /\ \E to \in k + 1..Len(x) : Braces(x, k, to)
             /\ x[k] = "close" => \E from \in 1..k - 1 : Braces(x, from, k)
             /\ x[k] \in NoteKinds =>
                  /\ k + 1 \in 1..Len(x)
                  /\ x[k + 1] \in NoteKinds \cup Changed \cup {"open"}
  <2>1. x[k] \in Changed \cup NoteKinds \cup {"open", "close"}
    BY <1>1, <1>2 DEF WellFormedHunk, ToSet
  <2>2. /\ x[k] = "open" => /\ k > 1 /\ x[k - 1] \in NoteKinds
                            /\ \E to \in k..Len(x) : Braces(x, k, to)
        /\ x[k] = "close" => \E from \in 1..k : Braces(x, from, k)
        /\ x[k] \in NoteKinds =>
             k < Len(x) /\ x[k + 1] \in NoteKinds \cup Changed \cup {"open"}
    BY <1>1 DEF WellFormedHunk
  <2>3. ASSUME NEW to \in k..Len(x), Braces(x, k, to) PROVE to \in k + 1..Len(x)
    BY <2>3 DEF Braces
  <2>4. ASSUME NEW from \in 1..k, Braces(x, from, k) PROVE from \in 1..k - 1
    BY <2>4 DEF Braces
  <2>5. k < Len(x) => k + 1 \in 1..Len(x)
    BY <1>2
  <2>6. QED
    BY <2>1, <2>2, <2>3, <2>4, <2>5
<1>4. QED
  BY <1>1, <1>2, <1>3

LEMMA WordKinds ==
  /\ \A w \in NoteKinds : w \notin Changed \cup {"open", "close", "blank", "nonl"}
  /\ \A w \in Changed : w \notin {"open", "close", "blank", "nonl"}
  /\ DiffKinds = Changed \cup {"nonl"}
  /\ Changed \subseteq Loose /\ "open" # "close" /\ "blank" \notin {"open", "close"}
  /\ "nonl" \notin {"open", "close"}
<1>1. \A w \in NoteKinds : w \notin Changed \cup {"open", "close", "blank", "nonl"}
  BY DEF NoteKinds, Changed
<1>2. \A w \in Changed : w \notin {"open", "close", "blank", "nonl"}
  BY DEF Changed
<1>3. Changed \subseteq Loose
  BY Zenon DEF Loose, BodyKinds, DiffKinds
<1>4. QED
  BY <1>1, <1>2, <1>3 DEF DiffKinds

\* From a note on, up to the next change or brace, there are notes only.
LEMMA NotesOnly ==
  ASSUME NEW x \in ManualHunks, NEW a \in 1..Len(x), x[a] \in NoteKinds,
         NEW m \in a..Len(x) + 1, \A k \in a..m - 1 : x[k] \notin Changed \cup {"open"}
  PROVE  /\ \A k \in a..m - 1 : x[k] \in NoteKinds
         /\ m # Len(x) + 1
<1> DEFINE S == {k \in Int : x[k] \in NoteKinds}
           top == Len(x)
<1>0. top \in Nat /\ a \in Int /\ m - 1 \in Int /\ a \in 1..top /\ m \in a..top + 1
  BY LinesOfHunk
<1>1. a <= m - 1 => a \in S
  BY <1>0
<1>2. ASSUME NEW k \in a..m - 1 - 1, k \in S PROVE k + 1 \in S
  <2>1. k \in 1..top /\ x[k] \in NoteKinds /\ k + 1 \in a..m - 1 /\ k + 1 \in Int
    BY <1>0, <1>2
  <2>2. x[k + 1] \in NoteKinds \cup Changed \cup {"open"}
    BY <2>1, LinesOfHunk
  <2>3. QED
    BY <2>1, <2>2
<1>3. \A k \in a..m - 1 : k \in S
  <2>1. \A k \in a..m - 1 - 1 : k \in S => k + 1 \in S
    BY <1>2
  <2> HIDE DEF S
  <2>2. QED
    BY <1>0, <1>1, <2>1, InductUpTo, Zenon
<1>4. m # top + 1
  <2>1. SUFFICES ASSUME m = top + 1 PROVE FALSE
    OBVIOUS
  <2>2. top \in a..m - 1 /\ top \in 1..top /\ ~(top + 1 \in 1..top)
    BY <1>0, <2>1
  <2>3. x[top] \in NoteKinds
    BY <1>3, <2>2
  <2>4. QED
    BY <2>2, <2>3, LinesOfHunk
<1>5. QED
  BY <1>3, <1>4

\* Between braces nothing but changes stands.
LEMMA NotAcross ==
  ASSUME NEW x, NEW from \in Int, NEW to \in Int, NEW k \in from..to - 1,
         Braces(x, from, to)
  PROVE  x[k] \in Changed \cup {"open"} /\ (k = from \/ x[k] \in Changed)
<1>1. x[from] = "open" /\ \A j \in from + 1..to - 1 : x[j] \in Changed
  BY DEF Braces, AllIn
<1>2. k = from \/ k \in from + 1..to - 1
  OBVIOUS
<1>3. QED
  BY <1>1, <1>2

-----------------------------------------------------------------------------
(* Where the scanner stands in a hunk that keeps to the manual.              *)

\* On the line below a note, which has no lines yet;
Below ==
  /\ c.hunk = h
  /\ c.line \in 1..i - 1 /\ \A j \in c.line..i - 1 : hunk[j] \in NoteKinds
  /\ i \in 1..Len(hunk) /\ hunk[i] \in Changed \cup {"open"}
  /\ in_comment /\ ~in_multiline /\ is_first

\* between the braces below a note;
Inside ==
  /\ c.hunk = h
  /\ c.line \in 1..range_start - 1
  /\ \A j \in c.line..range_start - 1 : hunk[j] \in NoteKinds
  /\ range_start \in 2..i - 1
  /\ \E to \in i..Len(hunk) : Braces(hunk, range_start, to)
  /\ in_comment /\ in_multiline
  /\ i = range_start + 1 => is_first
  /\ i # range_start + 1 => ~is_first

\* or elsewhere.
Free ==
  /\ ~(in_comment /\ in_multiline)
  /\ i = 1 \/ hunk[i - 1] \notin NoteKinds
  /\ \A from \in 1..i - 1 : \A to \in i..Len(hunk) : ~Braces(hunk, from, to)

Phases == pc = "line" => /\ Waiting => Below \/ Inside
                         /\ ~Waiting => Free

PhaseInv == WellFormed => Following /\ Phases /\ pc \notin Broken

\* What is known of a state in which the scanner reads such a hunk.
LEMMA ReadingShape ==
  ASSUME TypeInv, WellFormed, Following, pc = "line"
  PROVE  /\ patch = annotated /\ source \in Sources
         /\ annotated \in Seq(ManualHunks) /\ Len(annotated) \in Nat
         /\ h \in 1..Len(annotated) /\ hunk = annotated[h] /\ hunk \in ManualHunks
         /\ Len(hunk) \in Nat \ {0}
         /\ i \in 1..Len(hunk) + 1 /\ range_start \in 0..Len(hunk)
         /\ h \in Int /\ i \in Int /\ i \in Nat /\ range_start \in Int
         /\ row \in [after : Nat, before : Nat]
         /\ comments \in Seq(CommentType) /\ Len(comments) \in Nat
         /\ in_comment \in BOOLEAN /\ in_multiline \in BOOLEAN /\ is_first \in BOOLEAN
<1>1. patch = annotated
  BY DEF Following
<1>2. source \in Sources /\ annotated \in Seq(ManualHunks)
  BY HunksAreManual DEF TypeInv, ParserTypes
<1>3. /\ h \in 1..Len(annotated) /\ hunk = annotated[h]
      /\ i \in 1..Len(hunk) + 1 /\ range_start \in 0..Len(hunk)
      /\ row \in [after : Nat, before : Nat] /\ comments \in Seq(CommentType)
      /\ in_comment \in BOOLEAN /\ in_multiline \in BOOLEAN /\ is_first \in BOOLEAN
  BY <1>1 DEF TypeInv, ScannerTypes, hunk
<1>4. hunk \in ManualHunks
  BY <1>2, <1>3, ElementOfSeq
<1>5. Len(hunk) \in Nat \ {0}
  BY <1>4, LinesOfHunk
<1>6. Len(annotated) \in Nat /\ Len(comments) \in Nat
  BY <1>2, <1>3, LenProperties
<1>7. h \in Int /\ i \in Int /\ i \in Nat /\ range_start \in Int
  BY <1>3, <1>5, <1>6
<1>8. QED
  BY <1>1, <1>2, <1>3, <1>4, <1>5, <1>6, <1>7

\* What stands at the line that is read.
LEMMA LineShape ==
  ASSUME TypeInv, WellFormed, Following, Phases, NEW kinds, At(kinds)
  PROVE  /\ pc = "line" /\ i \in 1..Len(hunk) /\ hunk[i] \in kinds
         /\ hunk[i] \in Changed \cup NoteKinds \cup {"open", "close"}
         /\ Waiting => Below \/ Inside
         /\ ~Waiting => Free
         /\ Below => hunk[i] \in Changed \cup {"open"}
         /\ Inside => hunk[i] \in Changed \cup {"close"}
         /\ Free => hunk[i] \notin {"open", "close"}
<1>1. pc = "line" /\ i <= Len(hunk) /\ hunk[i] \in kinds
  BY DEF At, kind
<1>2. /\ hunk \in ManualHunks /\ Len(hunk) \in Nat /\ i \in 1..Len(hunk) + 1
      /\ range_start \in Int /\ i \in Int
  BY <1>1, ReadingShape
<1>3. i \in 1..Len(hunk)
  BY <1>1, <1>2
<1>4. hunk[i] \in Changed \cup NoteKinds \cup {"open", "close"}
  BY <1>2, <1>3, LinesOfHunk
<1>5. (Waiting => Below \/ Inside) /\ (~Waiting => Free)
  BY <1>1 DEF Phases
<1>6. Below => hunk[i] \in Changed \cup {"open"}
  BY DEF Below
<1>7. ASSUME Inside PROVE hunk[i] \in Changed \cup {"close"}
  <2>1. PICK to \in i..Len(hunk) : Braces(hunk, range_start, to)
    BY <1>7 DEF Inside
  <2>2. /\ hunk[to] = "close" /\ range_start + 1 <= i
        /\ \A j \in range_start + 1..to - 1 : hunk[j] \in Changed
    BY <1>2, <1>7, <2>1 DEF Inside, Braces, AllIn
  <2>3. i = to \/ i \in range_start + 1..to - 1
    BY <1>2, <2>2
  <2>4. QED
    BY <2>2, <2>3
<1>8. ASSUME Free PROVE hunk[i] \notin {"open", "close"}
  <2>1. /\ i = 1 \/ hunk[i - 1] \notin NoteKinds
        /\ \A from \in 1..i - 1 : \A to \in i..Len(hunk) : ~Braces(hunk, from, to)
    BY <1>8 DEF Free
  <2>2. hunk[i] # "open"
    <3>1. hunk[i] = "open" => i > 1 /\ hunk[i - 1] \in NoteKinds
      BY <1>2, <1>3, LinesOfHunk
    <3>2. i > 1 => i # 1
      BY <1>2
    <3>3. QED
      BY <2>1, <3>1, <3>2
  <2>3. hunk[i] # "close"
    <3>1. hunk[i] = "close" => \E from \in 1..i - 1 : Braces(hunk, from, i)
      BY <1>2, <1>3, LinesOfHunk
    <3>2. i \in i..Len(hunk)
      BY <1>3
    <3>3. QED
      BY <2>1, <3>1, <3>2
  <2>4. QED
    BY <2>2, <2>3
<1>9. QED
  BY <1>1, <1>3, <1>4, <1>5, <1>6, <1>7, <1>8

LEMMA NeverBreaksOff ==
  ASSUME TypeInv, WellFormed, Following, Phases
  PROVE  /\ ~NoteOverflows /\ ~NoteAtEnd /\ ~NoteCut
         /\ ~OpenFails /\ ~CloseFails /\ ~CloseAborts /\ ~Blank
<1>1. ASSUME At(NoteKinds) PROVE NoteEnds # {}
  <2>1. hunk \in ManualHunks /\ i \in 1..Len(hunk) /\ hunk[i] \in NoteKinds
    BY <1>1, LineShape, ReadingShape
  <2>2. Len(hunk) + 1 \in i..Len(hunk) + 1 /\ Len(hunk) + 1 - 1 = Len(hunk)
    BY <2>1, LinesOfHunk
  <2>3. ASSUME NoteEnds = {} PROVE FALSE
    <3>1. \A k \in i..Len(hunk) : hunk[k] \notin Changed \cup {"open"}
      BY <2>3 DEF NoteEnds
    <3>2. Len(hunk) + 1 # Len(hunk) + 1
      BY <2>1, <2>2, <3>1, NotesOnly
    <3>3. QED
      BY <3>2
  <2>4. QED
    BY <2>3
<1>2. ~NoteAtEnd /\ ~NoteCut
  BY <1>1 DEF NoteAtEnd, NoteCut
<1>3. ~NoteOverflows
  <2> SUFFICES ASSUME NoteOverflows PROVE FALSE
    OBVIOUS
  <2>1. At(NoteKinds) /\ NoteEnds # {} /\ NegativeChunk(Min(NoteEnds))
    BY DEF NoteOverflows
  <2>2. /\ hunk \in ManualHunks /\ i \in 1..Len(hunk) /\ Len(hunk) \in Nat
        /\ i \in Nat
    BY <2>1, LineShape, ReadingShape
  <2> DEFINE end == Min(NoteEnds)
  <2>3. end \in i + 1..Len(hunk)
    BY <2>1, <2>2, NoteShape
  <2>4. hunk[end - 1] = "blank"
    BY <2>1 DEF NegativeChunk
  <2> HIDE DEF end
  <2>5. end - 1 \in 1..Len(hunk)
    BY <2>2, <2>3
  <2>6. hunk[end - 1] \in Changed \cup NoteKinds \cup {"open", "close"}
    BY <2>2, <2>5, LinesOfHunk
  <2>7. QED
    BY <2>4, <2>6, WordKinds
<1>4. ~Blank
  <2>1. At({"blank"}) => hunk[i] = "blank"
                         /\ hunk[i] \in Changed \cup NoteKinds \cup {"open", "close"}
    BY LineShape
  <2>2. QED
    BY <2>1, WordKinds DEF Blank
<1>5. ~OpenFails
  <2>1. At({"open"}) => Waiting
    BY LineShape
  <2>2. QED
    BY <2>1 DEF OpenFails
<1>6. At({"close"}) => Inside /\ Waiting
  BY LineShape, WordKinds
<1>7. Inside /\ Waiting => InRange /\ range_start # 0
  BY DEF Inside, Waiting, InRange
<1>8. ~CloseFails /\ ~CloseAborts
  BY <1>6, <1>7 DEF CloseFails, CloseAborts
<1>9. QED
  BY <1>2, <1>3, <1>4, <1>5, <1>8

\* A note starts where the scanner is free, and all lines to its end are notes.
LEMMA NotePhases ==
  ASSUME TypeInv, WellFormed, Following, Phases, Note
  PROVE  /\ ~Waiting /\ Free /\ Waiting' /\ Below' /\ ~Inside' /\ c' = Comment
         /\ comments' = Append(comments, Comment)
         /\ i' \in i + 1..Len(hunk) /\ hunk' = hunk /\ h' = h /\ row' = row
         /\ pc' = pc /\ source' = source /\ patch' = patch
         /\ \A j \in i..i' - 1 : hunk[j] \in NoteKinds
         /\ hunk[i'] \in Changed \cup {"open"}
         /\ i \in 1..Len(hunk)
<1>1. /\ At(NoteKinds) /\ NoteEnds # {} /\ pc' = pc /\ h' = h /\ hunk' = hunk
      /\ source' = source /\ patch' = patch /\ row' = row
      /\ comments' = Append(comments, Comment)
      /\ i' = Min(NoteEnds) /\ in_comment' = TRUE /\ in_multiline' = FALSE
      /\ is_first' = TRUE
  BY DEF Note, parser, hunk, file
<1>2. /\ hunk \in ManualHunks /\ i \in Nat /\ Len(hunk) \in Nat
      /\ h \in Int /\ i \in Int /\ row \in [after : Nat, before : Nat]
      /\ comments \in Seq(CommentType) /\ i \in 1..Len(hunk) /\ hunk[i] \in NoteKinds
  BY <1>1, ReadingShape, LineShape
<1>3. ~Below /\ ~Inside /\ ~Waiting /\ Free
  BY <1>1, <1>2, LineShape, WordKinds
<1>4. /\ i' \in i + 1..Len(hunk) /\ hunk[i'] \in Changed \cup {"open"}
      /\ \A k \in i..i' - 1 : hunk[k] \notin Changed \cup {"open"}
  BY <1>1, <1>2, NoteShape
<1>5. \A k \in i..i' - 1 : hunk[k] \in NoteKinds
  <2>1. i' \in i..Len(hunk) + 1
    BY <1>2, <1>4
  <2>2. QED
    BY <1>2, <1>4, <2>1, NotesOnly
<1>6. c' = Comment /\ comments' # <<>>
  <2>1. Comment \in CommentType
    BY <1>2, CommentTyped
  <2>2. /\ Len(comments') = Len(comments) + 1 /\ comments' # <<>>
        /\ comments'[Len(comments) + 1] = Comment
    BY <1>1, <1>2, <2>1, AppendProperties
  <2>3. QED
    BY <2>2 DEF c, Last
<1>7. Comment.text = <<>> /\ Comment.hunk = h /\ Comment.line = i
  BY DEF Comment
<1>8. Waiting' /\ ~Inside'
  BY <1>1, <1>6, <1>7 DEF Waiting, Inside
<1>9. Below'
  <2>1. /\ c'.hunk = h' /\ c'.line \in 1..i' - 1 /\ i' \in 1..Len(hunk')
        /\ \A j \in c'.line..i' - 1 : hunk'[j] \in NoteKinds
        /\ hunk'[i'] \in Changed \cup {"open"}
    <3>1. i \in 1..i' - 1 /\ i' \in 1..Len(hunk)
      <4> DEFINE m == i'
                 n == Len(hunk)
      <4>1. m \in i + 1..n /\ i \in 1..n /\ n \in Nat
        BY <1>2, <1>4
      <4> HIDE DEF m, n
      <4>2. i \in 1..m - 1 /\ m \in 1..n
        BY <4>1
      <4>3. QED
        BY <4>2 DEF m, n
    <3>2. QED
      BY <1>1, <1>4, <1>5, <1>6, <1>7, <3>1
  <2>2. QED
    BY <1>1, <2>1, Zenon DEF Below
<1>10. QED
  BY <1>1, <1>2, <1>3, <1>4, <1>5, <1>6, <1>8, <1>9

\* A change completes the comment on a note that stands above it; between
\* braces it goes on; elsewhere nothing happens to the list.
LEMMA DiffLinePhases ==
  ASSUME TypeInv, WellFormed, Following, Phases, DiffLine
  PROVE  /\ i \in 1..Len(hunk) /\ hunk[i] \in Changed
         /\ hunk' = hunk /\ h' = h /\ i' = i + 1 /\ row' = NextRow
         /\ pc' = pc /\ source' = source /\ patch' = patch
         /\ is_first' = FALSE /\ range_start' = range_start
         /\ in_comment' = in_comment /\ in_multiline' = in_multiline
         /\ Waiting => /\ comments # <<>> /\ (Below \/ Inside)
                       /\ comments' = [comments EXCEPT ![Len(comments)] = Noticed]
                       /\ c' = Noticed
         /\ Waiting /\ Below => ~Waiting' /\ Free' /\ ~in_multiline
         /\ Waiting /\ Inside => Waiting' /\ Inside' /\ in_multiline
         /\ ~Waiting => ~Waiting' /\ Free' /\ comments' = comments
<1>1. /\ At(DiffKinds) /\ pc' = pc /\ h' = h /\ hunk' = hunk /\ i' = i + 1
      /\ source' = source /\ patch' = patch
      /\ comments' = IF comments = <<>> THEN <<>>
                     ELSE [comments EXCEPT ![Len(comments)] = Noticed]
      /\ is_first' = FALSE /\ row' = NextRow
      /\ in_comment' = in_comment /\ in_multiline' = in_multiline
      /\ range_start' = range_start
  BY DEF DiffLine, parser, hunk, file
<1>2. /\ hunk \in ManualHunks /\ Len(hunk) \in Nat /\ i \in 1..Len(hunk)
      /\ h \in Int /\ i \in Int /\ comments \in Seq(CommentType)
      /\ range_start \in Int /\ pc = "line"
  BY <1>1, ReadingShape, LineShape
<1>3. hunk[i] \in Changed
  BY <1>1, LineShape, WordKinds
<1>4. hunk[i] \notin NoteKinds \cup {"open", "close"}
  BY <1>3, WordKinds
\* Braces across this line stood across the line above.
<1>5. ASSUME NEW from \in 1..i, NEW to \in i + 1..Len(hunk), Braces(hunk, from, to)
      PROVE  /\ from \in 1..i - 1 /\ to \in i..Len(hunk)
             /\ hunk[i - 1] \notin NoteKinds
  <2>1. i \in from..to - 1 /\ from \in Int /\ to \in Int
    BY <1>2
  <2>2. from # i
    BY <1>4, <1>5 DEF Braces
  <2>3. from \in 1..i - 1 /\ to \in i..Len(hunk) /\ i - 1 \in from..to - 1
    BY <1>2, <2>1, <2>2
  <2>4. hunk[i - 1] \in Changed \cup {"open"}
    BY <1>5, <2>1, <2>3, NotAcross
  <2>5. QED
    BY <2>3, <2>4, WordKinds
<1>6. ASSUME Waiting
      PROVE  /\ comments # <<>> /\ (Below \/ Inside)
             /\ comments' = [comments EXCEPT ![Len(comments)] = Noticed]
             /\ c \in CommentType /\ c.text = <<>>
             /\ c' = Noticed /\ comments' # <<>>
             /\ Noticed.hunk = c.hunk /\ Noticed.line = c.line
             /\ Noticed.text = IF in_multiline THEN <<>> ELSE <<h, i, i>>
  <2>1. comments # <<>> /\ c.text = <<>> /\ (Below \/ Inside)
    BY <1>2, <1>6 DEF Waiting, Phases
  <2>2. comments' = [comments EXCEPT ![Len(comments)] = Noticed]
    BY <1>1, <2>1
  <2>3. c \in CommentType /\ Len(comments) \in 1..Len(comments)
    BY <1>2, <2>1, LastComment
  <2> DEFINE t == IF c.text = <<>> /\ ~in_multiline THEN <<h, i, i>> ELSE c.text
  <2>4. /\ Noticed \in CommentType
        /\ Noticed = [hunk |-> c.hunk, line |-> c.line, after |-> c.after,
                      before |-> c.before,
                      start_is_in_new |-> Noticed.start_is_in_new,
                      end_is_in_new |-> Noticed.end_is_in_new, text |-> t]
    BY <1>2, <2>3, NoticedShape
  <2> HIDE DEF t
  <2>5. Noticed.hunk = c.hunk /\ Noticed.line = c.line /\ Noticed.text = t
    BY <2>4
  <2>6. t = IF in_multiline THEN <<>> ELSE <<h, i, i>>
    BY <2>1, Zenon DEF t
  <2>7. c' = Noticed /\ comments' # <<>>
    <3>1. /\ Len(comments') = Len(comments)
          /\ comments'[Len(comments)] = Noticed
      BY <1>2, <2>2, <2>3, <2>4, ExceptSeq
    <3>2. comments' # <<>>
      BY <2>3, <3>1, EmptySeq
    <3>3. QED
      BY <3>1, <3>2 DEF c, Last
  <2>8. QED
    BY <2>1, <2>2, <2>3, <2>5, <2>6, <2>7
<1>7. ASSUME Waiting, Below PROVE ~Waiting' /\ Free' /\ ~in_multiline
  <2>1. ~in_multiline /\ hunk[i - 1] \in NoteKinds
    <3>1. ~in_multiline /\ c.line \in 1..i - 1
          /\ \A j \in c.line..i - 1 : hunk[j] \in NoteKinds
      BY <1>7 DEF Below
    <3>2. i - 1 \in c.line..i - 1
      BY <1>2, <3>1
    <3>3. QED
      BY <3>1, <3>2
  <2>2. c'.text = <<h, i, i>> /\ <<h, i, i>> # <<>>
    BY <1>6, <1>7, <2>1
  <2>3. ~Waiting'
    BY <2>2 DEF Waiting
  <2>4. Free'
    <3>1. i' = 1 \/ hunk'[i' - 1] \notin NoteKinds
      <4>1. i' - 1 = i
        BY <1>1, <1>2
      <4>2. QED
        BY <1>1, <1>4, <4>1
    <3>2. \A from \in 1..i' - 1 : \A to \in i'..Len(hunk') : ~Braces(hunk', from, to)
      <4>1. i' - 1 = i
        BY <1>1, <1>2
      <4>2. QED
        BY <1>1, <1>5, <2>1, <4>1
    <3>3. QED
      BY <1>1, <2>1, <3>1, <3>2, Zenon DEF Free
  <2>5. QED
    BY <2>1, <2>3, <2>4
<1>8. ASSUME Waiting, Inside PROVE Waiting' /\ Inside' /\ in_multiline
  <2>1. in_multiline /\ in_comment /\ c.hunk = h
    BY <1>8 DEF Inside
  <2>2. Waiting' /\ c'.hunk = h' /\ c'.line = c.line
    BY <1>1, <1>6, <1>8, <2>1, Zenon DEF Waiting
  <2>3. /\ c'.line \in 1..range_start' - 1
        /\ \A j \in c'.line..range_start' - 1 : hunk'[j] \in NoteKinds
    BY <1>1, <1>8, <2>2 DEF Inside
  <2>4. range_start' \in 2..i' - 1 /\ i' # range_start' + 1
    BY <1>1, <1>2, <1>8 DEF Inside
  <2>5. \E to \in i'..Len(hunk') : Braces(hunk', range_start', to)
    <3>1. PICK to \in i..Len(hunk) : Braces(hunk, range_start, to)
      BY <1>8 DEF Inside
    <3>2. to # i
      BY <1>4, <3>1 DEF Braces
    <3>3. to \in i + 1..Len(hunk)
      BY <1>2, <3>1, <3>2
    <3>4. QED
      BY <1>1, <3>1, <3>3
  <2>6. Inside'
    BY <1>1, <2>1, <2>2, <2>3, <2>4, <2>5, Zenon DEF Inside
  <2>7. QED
    BY <2>1, <2>2, <2>6
<1>9. ASSUME ~Waiting PROVE ~Waiting' /\ Free' /\ comments' = comments
  <2>1. /\ ~(in_comment /\ in_multiline)
        /\ \A from \in 1..i - 1 : \A to \in i..Len(hunk) : ~Braces(hunk, from, to)
    BY <1>2, <1>9 DEF Phases, Free
  <2>2. comments' = comments
    <3>1. CASE comments = <<>>
      BY <1>1, <3>1
    <3>2. CASE comments # <<>>
      <4>1. c.text # <<>> /\ c \in CommentType /\ Len(comments) \in 1..Len(comments)
            /\ c = comments[Len(comments)]
        BY <1>2, <1>9, <3>2, LastComment DEF Waiting
      <4>2. Noticed = c
        BY <1>2, <2>1, <4>1, NoticedShape
      <4>3. comments' = [comments EXCEPT ![Len(comments)] = comments[Len(comments)]]
        BY <1>1, <3>2, <4>1, <4>2
      <4>4. QED
        BY <1>2, <4>1, <4>3
    <3>3. QED
      BY <3>1, <3>2
  <2>3. ~Waiting'
    BY <1>9, <2>2 DEF Waiting, c
  <2>4. Free'
    <3>1. i' - 1 = i
      BY <1>1, <1>2
    <3>2. i' = 1 \/ hunk'[i' - 1] \notin NoteKinds
      BY <1>1, <1>4, <3>1
    <3>3. \A from \in 1..i' - 1 : \A to \in i'..Len(hunk') : ~Braces(hunk', from, to)
      BY <1>1, <1>5, <2>1, <3>1
    <3>4. QED
      BY <1>1, <2>1, <3>2, <3>3, Zenon DEF Free
  <2>5. QED
    BY <2>2, <2>3, <2>4
<1>10. QED
  BY <1>1, <1>2, <1>3, <1>6, <1>7, <1>8, <1>9

\* A `{' stands right below a note.
LEMMA OpenPhases ==
  ASSUME TypeInv, WellFormed, Following, Phases, Open
  PROVE  /\ Waiting /\ Below /\ Waiting' /\ Inside'
         /\ i \in 1..Len(hunk) /\ hunk[i] = "open"
         /\ hunk' = hunk /\ h' = h /\ i' = i + 1 /\ row' = row
         /\ comments' = comments /\ c' = c /\ range_start' = i
         /\ pc' = pc /\ source' = source /\ patch' = patch
         /\ is_first' = is_first /\ in_multiline'
<1>1. /\ At({"open"}) /\ pc' = pc /\ h' = h /\ hunk' = hunk /\ i' = i + 1
      /\ source' = source /\ patch' = patch /\ row' = row
      /\ comments' = comments /\ c' = c /\ range_start' = i
      /\ in_multiline' = TRUE /\ in_comment' = in_comment /\ is_first' = is_first
      /\ Waiting
  BY DEF Open, parser, hunk, file, c
<1>2. /\ hunk \in ManualHunks /\ Len(hunk) \in Nat /\ i \in 1..Len(hunk)
      /\ i \in Int /\ hunk[i] = "open"
  BY <1>1, ReadingShape, LineShape
<1>3. Below
  BY <1>1, <1>2, LineShape, WordKinds
<1>4. /\ c.hunk = h /\ c.line \in 1..i - 1 /\ in_comment /\ is_first
      /\ \A j \in c.line..i - 1 : hunk[j] \in NoteKinds
  BY <1>3 DEF Below
<1>5. PICK to \in i + 1..Len(hunk) : Braces(hunk, i, to)
  BY <1>2, LinesOfHunk
<1>6. /\ range_start' \in 2..i' - 1 /\ i' = range_start' + 1
  BY <1>1, <1>2, <1>4
<1>7. \E t \in i'..Len(hunk') : Braces(hunk', range_start', t)
  BY <1>1, <1>5
<1>8. Inside'
  BY <1>1, <1>4, <1>6, <1>7, Zenon DEF Inside
<1>9. Waiting'
  BY <1>1 DEF Waiting
<1>10. QED
  BY <1>1, <1>2, <1>3, <1>8, <1>9

\* A `}' ends the comment on the note above its `{'.
LEMMA ClosePhases ==
  ASSUME TypeInv, WellFormed, Following, Phases, Close
  PROVE  /\ Waiting /\ Inside /\ ~Waiting' /\ Free'
         /\ i \in 1..Len(hunk) /\ hunk[i] = "close"
         /\ hunk' = hunk /\ h' = h /\ i' = i + 1 /\ row' = row
         /\ comments' = [comments EXCEPT ![Len(comments)] = Closed]
         /\ pc' = pc /\ source' = source /\ patch' = patch
<1>1. /\ At({"close"}) /\ pc' = pc /\ h' = h /\ hunk' = hunk /\ i' = i + 1
      /\ source' = source /\ patch' = patch /\ row' = row
      /\ comments' = [comments EXCEPT ![Len(comments)] = Closed]
      /\ in_comment' = FALSE
  BY DEF Close, parser, hunk, file
<1>2. /\ hunk \in ManualHunks /\ Len(hunk) \in Nat /\ i \in 1..Len(hunk)
      /\ h \in Int /\ i \in Int /\ range_start \in Int /\ hunk[i] = "close"
      /\ row \in [after : Nat, before : Nat] /\ comments \in Seq(CommentType)
  BY <1>1, ReadingShape, LineShape
<1>3. Waiting /\ Inside /\ hunk[i] \notin NoteKinds \cup Changed \cup {"open"}
  BY <1>1, <1>2, LineShape, WordKinds
<1>4. ~Waiting'
  <2>1. comments # <<>>
    BY <1>3 DEF Waiting
  <2>2. c \in CommentType /\ Len(comments) \in 1..Len(comments)
    BY <1>2, <2>1, LastComment
  <2> DEFINE t == <<h, range_start + 1, i - 1>>
  <2>3. /\ Closed \in CommentType
        /\ Closed = [hunk |-> c.hunk, line |-> c.line,
                     after |-> EndRow(c.after, row.after),
                     before |-> EndRow(c.before, row.before),
                     start_is_in_new |-> c.start_is_in_new,
                     end_is_in_new |-> c.end_is_in_new, text |-> t]
    BY <1>2, <2>2, ClosedShape
  <2>4. t # <<>>
    OBVIOUS
  <2> HIDE DEF t
  <2>5. Closed.text # <<>>
    BY <2>3, <2>4
  <2>6. Len(comments') = Len(comments) /\ comments'[Len(comments)] = Closed
    BY <1>1, <1>2, <2>2, <2>3, ExceptSeq
  <2>7. c' = Closed
    BY <2>6 DEF c, Last
  <2>8. QED
    BY <2>5, <2>7 DEF Waiting
<1>5. Free'
  <2>1. i' - 1 = i
    BY <1>1, <1>2
  <2>2. i' = 1 \/ hunk'[i' - 1] \notin NoteKinds
    BY <1>1, <1>3, <2>1
  <2>3. ASSUME NEW from \in 1..i, NEW to \in i + 1..Len(hunk), Braces(hunk, from, to)
        PROVE  FALSE
    <3>1. from \in Int /\ to \in Int /\ i \in from..to - 1
      BY <1>2
    <3>2. QED
      BY <1>3, <2>3, <3>1, NotAcross
  <2>4. \A from \in 1..i' - 1 : \A to \in i'..Len(hunk') : ~Braces(hunk', from, to)
    BY <1>1, <2>1, <2>3
  <2>5. QED
    BY <1>1, <2>2, <2>4, Zenon DEF Free
<1>6. QED
  BY <1>1, <1>2, <1>3, <1>4, <1>5

\* At the end of a hunk no note waits for its change.
LEMMA EndPhases ==
  ASSUME TypeInv, WellFormed, Following, Phases, pc = "line", i > Len(hunk)
  PROVE  ~Waiting /\ Free /\ i = Len(hunk) + 1
<1>1. Len(hunk) \in Nat /\ i \in 1..Len(hunk) + 1 /\ i \in Int
  BY ReadingShape
<1>2. ~(i \in 1..Len(hunk)) /\ i..Len(hunk) = {} /\ i = Len(hunk) + 1
  BY <1>1
<1>3. ~Below
  BY <1>2 DEF Below
<1>4. ~Inside
  BY <1>2 DEF Inside
<1>5. QED
  BY <1>2, <1>3, <1>4 DEF Phases

LEMMA HunkEndPhases ==
  ASSUME TypeInv, WellFormed, Following, Phases, HunkEnd
  PROVE  /\ ~Waiting /\ Free /\ ~Waiting' /\ Free' /\ i = Len(hunk) + 1
         /\ h < Len(patch) /\ h' = h + 1 /\ i' = 1 /\ row' = RangeStart(h + 1)
         /\ comments' = comments
         /\ pc' = pc /\ source' = source /\ patch' = patch /\ pc = "line"
<1>1. /\ pc = "line" /\ i > Len(hunk) /\ pc' = pc /\ h' = h + 1 /\ i' = 1
      /\ source' = source /\ patch' = patch /\ comments' = comments /\ c' = c
      /\ in_comment' = FALSE /\ row' = RangeStart(h + 1) /\ h < Len(patch)
  BY DEF HunkEnd, parser, file, c
<1>2. ~Waiting /\ Free /\ i = Len(hunk) + 1
  BY <1>1, EndPhases
<1>3. ~Waiting'
  BY <1>1, <1>2 DEF Waiting
<1>4. \A from \in 1..i' - 1 : FALSE
  BY <1>1
<1>5. Free'
  BY <1>1, <1>4, Zenon DEF Free
<1>6. QED
  BY <1>1, <1>2, <1>3, <1>5

LEMMA InitPhases == Init => PhaseInv
<1> SUFFICES ASSUME Init, WellFormed PROVE Following /\ Phases /\ pc \notin Broken
  BY DEF PhaseInv
<1>1. Following /\ pc \notin Broken
  BY InitFollows DEF Init
<1>2. pc # "line"
  <2>1. pc = "series prelude" \/ pc = "prelude"
    BY Zenon DEF Init, InitParser
  <2>2. QED
    BY <2>1
<1>3. QED
  BY <1>1, <1>2 DEF Phases

\* The parser hands over to the scanner at the start of the first hunk.
LEMMA ParsePhases ==
  ASSUME TypeInv, WellFormed, Following, Parse
  PROVE  /\ Following' /\ pc' \notin Broken /\ Phases' /\ ~Waiting'
         /\ h' = 1 /\ i' = 1 /\ row' = RangeStart(1) /\ comments' = <<>>
         /\ source' = source /\ pc \notin {"line", "done"}
<1>1. /\ NextParser /\ comments' = comments /\ h' = h /\ i' = i
      /\ row' = row /\ in_comment' = in_comment
  BY DEF Parse, scan
<1>2. ParserTypes /\ pc \in Places \cup Broken /\ source' = source
  <2>1. ParserTypes /\ pc \in Places \cup Broken
    BY DEF TypeInv, ParserTypes
  <2>2. source' = source
    BY <1>1 DEF NextParser, SeriesPrelude, NextPatch, PatchPrelude, NextDiff,
                DiffHeader, NewFileMode, IndexLine, FileLine, Hunk, DiffEnd,
                Fixup, FixupAborts, SeriesEnd, ParserFails, Advance, file
  <2>3. QED
    BY <2>1, <2>2
<1>3. Following' /\ pc' \notin Broken
  BY <1>1, <1>2, ParserFollows
<1>4. Parsing /\ pc \notin {"line", "done"}
  <2>1. pc \notin {"line", "done"} \cup Broken
    BY <1>1 DEF NextParser, SeriesPrelude, NextPatch, PatchPrelude, NextDiff,
                DiffHeader, NewFileMode, IndexLine, FileLine, Hunk, DiffEnd,
                Fixup, FixupAborts, SeriesEnd, ParserFails, PatchEnds, Broken
  <2>2. QED
    BY <1>2, <2>1 DEF Parsing
<1>5. /\ comments = <<>> /\ h = 1 /\ i = 1 /\ row = RangeStart(1)
      /\ in_comment = FALSE
  BY <1>4, Zenon DEF TypeInv, ScannerTypes
<1>6. ~Waiting'
  BY <1>1, <1>5 DEF Waiting
<1>7. Free'
  <2>1. i' = 1 /\ in_comment' = FALSE
    BY <1>1, <1>5
  <2>2. \A from \in 1..i' - 1 : FALSE
    BY <2>1
  <2>3. QED
    BY <2>1, <2>2, Zenon DEF Free
<1>8. QED
  BY <1>1, <1>2, <1>3, <1>4, <1>5, <1>6, <1>7 DEF Phases

LEMMA NextPhases ==
  ASSUME TypeInv, PhaseInv, Next
  PROVE  PhaseInv'
<1>0. source' = source
  BY DEF Next, Parse, NextParser, SeriesPrelude, NextPatch, PatchPrelude,
         NextDiff, DiffHeader, NewFileMode, IndexLine, FileLine, Hunk, DiffEnd,
         Fixup, FixupAborts, SeriesEnd, ParserFails, Advance,
         Note, NoteOverflows, NoteAtEnd, NoteCut, DiffLine, Blank, Open, OpenFails,
         Close, CloseFails, CloseAborts, HunkEnd, PatchEnd, BreakOff, file
<1> SUFFICES ASSUME WellFormed
             PROVE  Following' /\ Phases' /\ pc' \notin Broken
  BY <1>0, SameText DEF PhaseInv
<1>1. Following /\ Phases
  BY DEF PhaseInv
<1>2. CASE Parse
  BY <1>1, <1>2, ParsePhases
<1>3. ASSUME pc = "line", pc' = pc, patch' = patch
      PROVE  Following' /\ pc' \notin Broken
  <2>1. patch' = annotated /\ pc' \in {"line", "done"}
    BY <1>1, <1>3, ReadingShape
  <2>2. QED
    BY <1>0, <2>1, ToEnd
<1>4. CASE Note
  <2>1. /\ Waiting' /\ Below' /\ pc' = pc /\ patch' = patch /\ pc = "line"
    BY <1>1, <1>4, NotePhases DEF Note, At
  <2>2. QED
    BY <1>3, <2>1 DEF Phases
<1>5. CASE DiffLine
  <2>1. /\ pc' = pc /\ patch' = patch /\ pc = "line"
        /\ Waiting /\ Below => ~Waiting' /\ Free'
        /\ Waiting /\ Inside => Waiting' /\ Inside'
        /\ ~Waiting => ~Waiting' /\ Free'
        /\ Waiting => Below \/ Inside
    BY <1>1, <1>5, DiffLinePhases DEF DiffLine, At
  <2>2. QED
    BY <1>3, <2>1 DEF Phases
<1>6. CASE Open
  <2>1. /\ Waiting' /\ Inside' /\ pc' = pc /\ patch' = patch /\ pc = "line"
    BY <1>1, <1>6, OpenPhases DEF Open, At
  <2>2. QED
    BY <1>3, <2>1 DEF Phases
<1>7. CASE Close
  <2>1. /\ ~Waiting' /\ Free' /\ pc' = pc /\ patch' = patch /\ pc = "line"
    BY <1>1, <1>7, ClosePhases DEF Close, At
  <2>2. QED
    BY <1>3, <2>1 DEF Phases
<1>8. CASE HunkEnd
  <2>1. /\ ~Waiting' /\ Free' /\ pc' = pc /\ patch' = patch /\ pc = "line"
    BY <1>1, <1>8, HunkEndPhases
  <2>2. QED
    BY <1>3, <2>1 DEF Phases
<1>9. CASE PatchEnd
  <2>1. pc = "line" /\ pc' = "done" /\ patch' = patch
    BY <1>9 DEF PatchEnd, BreakOff, parser
  <2>2. patch' = annotated
    BY <1>1, <2>1, ReadingShape
  <2>3. Following' /\ pc' \notin Broken
    BY <1>0, <2>1, <2>2, ToEnd
  <2>4. QED
    BY <2>1, <2>3 DEF Phases
<1>10. QED
  BY <1>1, <1>2, <1>4, <1>5, <1>6, <1>7, <1>8, <1>9, NeverBreaksOff DEF Next

LEMMA StutterPhases ==
  ASSUME PhaseInv, UNCHANGED vars
  PROVE  PhaseInv'
<1>1. /\ source' = source /\ text' = text /\ cut' = cut /\ pc' = pc /\ hd' = hd
      /\ patch' = patch /\ diffs' = diffs /\ hunks' = hunks /\ h' = h /\ i' = i
      /\ comments' = comments /\ range_start' = range_start
      /\ in_comment' = in_comment
      /\ in_multiline' = in_multiline /\ is_first' = is_first
  BY DEF vars, file, parser, scan
<1>2. Phases' = Phases
  <2>1. c' = c /\ hunk' = hunk
    BY <1>1 DEF c, hunk
  <2>2. Below' = Below /\ Inside' = Inside /\ Free' = Free /\ Waiting' = Waiting
    BY <1>1, <2>1, Zenon DEF Below, Inside, Free, Waiting
  <2>3. QED
    BY <1>1, <2>2, Zenon DEF Phases
<1>3. Following => Following'
  <2>1. Ahead' = Ahead
    BY <1>1 DEF Ahead
  <2>2. NothingLeft' = NothingLeft
    BY <1>1, <2>1, SameText DEF NothingLeft
  <2>3. \A q : AtPatch(q) => AtPatch(q)'
    <3>1. ASSUME NEW q, AtPatch(q) PROVE AtPatch(q)'
      <4>1. TextFrom(q)' = TextFrom(q) /\ LeftFrom(q)' = LeftFrom(q)
        BY <1>1, SameText
      <4>2. annotated' = annotated
        BY <1>1, SameText
      <4>3. QED
        BY <1>1, <2>1, <3>1, <4>1, <4>2 DEF AtPatch
    <3>2. QED
      BY <3>1
  <2>4. \A q : PatchRead(q) => PatchRead(q)'
    <3>1. ASSUME NEW q, PatchRead(q) PROVE PatchRead(q)'
      <4>1. /\ TextFrom(q + 1)' = TextFrom(q + 1) /\ LeftFrom(q + 1)' = LeftFrom(q + 1)
            /\ annotated' = annotated /\ commits' = commits
        BY <1>1, SameText
      <4>2. QED
        BY <1>1, <2>1, <3>1, <4>1, Zenon DEF PatchRead
    <3>2. QED
      BY <3>1
  <2>5. \A q, f, n : InHead(q, f, n)' = InHead(q, f, n)
    BY <1>1, <2>1, SameText DEF InHead
  <2>6. \A q, f, k : AtHunk(q, f, k)' = AtHunk(q, f, k)
    BY <1>1, <2>1, SameText DEF AtHunk
  <2>7. commits' = commits /\ annotated' = annotated /\ Qs' = Qs
    BY <1>1, SameText
  <2>8. \A q, f : Fs(q)' = Fs(q) /\ FileAt(q, f)' = FileAt(q, f) /\ Ks(q, f)' = Ks(q, f)
    BY <1>1, SameText
  <2> SUFFICES ASSUME Following PROVE Following'
    OBVIOUS
  <2>9. (pc = "series prelude" => hd = 1 /\ AtPatch(1))'
    BY <1>1, <2>3 DEF Following
  <2>10. (pc = "series" => \E q \in 1..Len(commits) + 1 : AtPatch(q))'
    BY <1>1, <2>3, <2>7 DEF Following
  <2>11. (pc = "prelude" => \E q \in Qs : AtPatch(q))'
    BY <1>1, <2>3, <2>7 DEF Following
  <2>12. (pc = "diffs" =>
           \/ NothingLeft
           \/ \E q \in Qs : PatchRead(q) \/ \E f \in Fs(q) : InHead(q, f, 1))'
    BY <1>1, <2>2, <2>4, <2>5, <2>7, <2>8 DEF Following
  <2>13. (pc \in HeadPlaces =>
           \E q \in Qs : \E f \in Fs(q) :
             InHead(q, f, HeadLine(pc, Len(FileAt(q, f).head))))'
    BY <1>1, <2>5, <2>7, <2>8 DEF Following
  <2>14. (pc = "hunks" =>
           \E q \in Qs : \/ PatchRead(q)
                         \/ \E f \in Fs(q) : \/ InHead(q, f, 1)
                                             \/ \E k \in Ks(q, f) : AtHunk(q, f, k))'
    BY <1>1, <2>4, <2>5, <2>6, <2>7, <2>8 DEF Following
  <2>15. /\ (pc \in {"series prelude", "series"} => source.series)'
         /\ (pc \in HeadPlaces \cup {"hunks"} => diffs > 0)'
         /\ (pc \in {"line", "done"} => patch = annotated)'
    BY <1>1, <2>7 DEF Following
  <2>16. QED
    BY <2>9, <2>10, <2>11, <2>12, <2>13, <2>14, <2>15, Zenon DEF Following
<1>4. WellFormed' = WellFormed
  BY <1>1, SameText
<1>5. QED
  BY <1>1, <1>2, <1>3, <1>4, Zenon DEF PhaseInv

\* An annotated diff that keeps to the manual is accepted, however many
\* patches, files, hunks, notes and ranges it has: no step of the parser or the
\* scanner fails, aborts or leaves the text (gcli_parse_patch_series,
\* gcli_hunk_get_comments).
THEOREM AcceptManual == Spec => []AcceptsTheManual
<1>1. TypeInv /\ PhaseInv /\ [Next]_vars => (TypeInv /\ PhaseInv)'
  BY NextTypes, StutterTypes, NextPhases, StutterPhases
<1>2. PhaseInv => AcceptsTheManual
  BY DEF PhaseInv, AcceptsTheManual
<1>3. QED
  BY InitTypes, InitPhases, <1>1, <1>2, PTL DEF Spec

-----------------------------------------------------------------------------
(* Rows.                                                                     *)

New == {"add", "keep"}
Old == {"del", "keep"}

\* As functions: the rows at the lines of a hunk, and what its notes mean.
Row == [hk \in Nat |-> [k \in Nat |->
         [after |-> RowAt(hk, k, New), before |-> RowAt(hk, k, Old)]]]
MeantAt == [hk \in Nat |-> [k \in Nat |-> Meant(hk, k)]]

LEMMA RowAtShape ==
  ASSUME NEW hk \in Nat, NEW kinds
  PROVE  /\ \A k \in Nat : RowAt(hk, k, kinds) \in Nat
         /\ RowAt(hk, 1, kinds) = HunkDistance * hk
         /\ \A k \in Nat \ {0} :
              RowAt(hk, k + 1, kinds) = RowAt(hk, k, kinds)
                + IF annotated[hk][k] \in kinds THEN 1 ELSE 0
<1> DEFINE S(k) == {j \in 1..k - 1 : annotated[hk][j] \in kinds}
           d == HunkDistance * hk
<1>1. d \in Nat
  BY DEF HunkDistance
<1>2. ASSUME NEW k \in Nat PROVE IsFiniteSet(S(k)) /\ Cardinality(S(k)) \in Nat
  <2>1. IsFiniteSet(1..k - 1)
    BY FS_Interval
  <2>2. S(k) \in SUBSET (1..k - 1)
    OBVIOUS
  <2> HIDE DEF S
  <2>3. IsFiniteSet(S(k))
    BY <2>1, <2>2, FS_Subset
  <2>4. QED
    BY <2>3, FS_CardinalityType
<1>3. \A k \in Nat : RowAt(hk, k, kinds) = d + Cardinality(S(k))
  BY DEF RowAt
<1>4. S(1) = {}
  OBVIOUS
<1>5. ASSUME NEW k \in Nat \ {0}
      PROVE  Cardinality(S(k + 1)) = Cardinality(S(k))
               + IF annotated[hk][k] \in kinds THEN 1 ELSE 0
  <2>1. k \in Nat /\ k \notin S(k)
    OBVIOUS
  <2>2. 1..k + 1 - 1 = (1..k - 1) \cup {k}
    OBVIOUS
  <2>3. CASE annotated[hk][k] \in kinds
    <3>1. S(k + 1) = S(k) \cup {k}
      BY <2>2, <2>3
    <3> HIDE DEF S
    <3>2. Cardinality(S(k) \cup {k}) = Cardinality(S(k)) + 1
      BY <1>2, <2>1, FS_AddElement
    <3>3. QED
      BY <2>3, <3>1, <3>2
  <2>4. CASE annotated[hk][k] \notin kinds
    <3>1. S(k + 1) = S(k)
      BY <2>2, <2>4
    <3> HIDE DEF S
    <3>2. Cardinality(S(k)) \in Nat
      BY <1>2, <2>1
    <3>3. QED
      BY <2>4, <3>1, <3>2
  <2>5. QED
    BY <2>3, <2>4
<1>6. Cardinality(S(1)) = 0
  BY <1>4, FS_EmptySet
<1> HIDE DEF S, d
<1>7. ASSUME NEW k \in Nat PROVE RowAt(hk, k, kinds) \in Nat
  BY <1>1, <1>2, <1>3
<1>8. RowAt(hk, 1, kinds) = d
  BY <1>1, <1>3, <1>6
<1>9. ASSUME NEW k \in Nat \ {0}
      PROVE  RowAt(hk, k + 1, kinds) = RowAt(hk, k, kinds)
               + IF annotated[hk][k] \in kinds THEN 1 ELSE 0
  <2> DEFINE w == IF annotated[hk][k] \in kinds THEN 1 ELSE 0
             u == Cardinality(S(k))
             v == Cardinality(S(k + 1))
             a == RowAt(hk, k, kinds)
             b == RowAt(hk, k + 1, kinds)
  <2>1. k \in Nat /\ k + 1 \in Nat
    OBVIOUS
  <2>2. w \in Nat
    BY Zenon
  <2>3. a = d + u /\ b = d + v /\ v = u + w /\ u \in Nat
    BY <1>2, <1>3, <1>5, <2>1
  <2> HIDE DEF w, u, v, a, b
  <2>4. b = a + w
    BY <1>1, <2>2, <2>3
  <2>5. QED
    BY <2>4 DEF w, a, b
<1>10. QED
  BY <1>7, <1>8, <1>9 DEF d

\* Lines that a file does not have leave its row alone; rows never go back.
LEMMA RowAtSkips ==
  ASSUME NEW hk \in Nat, NEW kinds, NEW a \in Nat \ {0}, NEW b \in Nat, a <= b
  PROVE  /\ RowAt(hk, a, kinds) <= RowAt(hk, b, kinds)
         /\ (\A j \in a..b - 1 : annotated[hk][j] \notin kinds) =>
              RowAt(hk, b, kinds) = RowAt(hk, a, kinds)
<1> DEFINE r(k) == RowAt(hk, k, kinds)
           S == {k \in Nat \ {0} : r(a) <= r(k)}
           T == {k \in Nat \ {0} : r(k) = r(a)}
<1>1. /\ \A k \in Nat : r(k) \in Nat
      /\ \A k \in Nat \ {0} :
           r(k + 1) = r(k) + IF annotated[hk][k] \in kinds THEN 1 ELSE 0
  BY RowAtShape
<1>2. b \in a..b /\ a \in Int /\ b \in Int
  OBVIOUS
<1> HIDE DEF r
<1>3. a \in S /\ a \in T
  <2>1. a \in Nat
    OBVIOUS
  <2>2. r(a) \in Nat
    BY <1>1, <2>1
  <2>3. QED
    BY <2>2
<1>4. ASSUME NEW k \in a..b - 1, k \in S PROVE k + 1 \in S
  <2>1. /\ k \in Nat \ {0} /\ k \in Nat /\ k + 1 \in Nat \ {0} /\ k + 1 \in Nat
        /\ a \in Nat
    OBVIOUS
  <2> DEFINE w == IF annotated[hk][k] \in kinds THEN 1 ELSE 0
  <2>2. w \in Nat
    BY Zenon
  <2>3. r(k + 1) = r(k) + w /\ r(k) \in Nat /\ r(k + 1) \in Nat /\ r(a) \in Nat
    BY <1>1, <2>1
  <2> HIDE DEF w
  <2>4. r(a) <= r(k)
    BY <1>4
  <2>5. r(a) <= r(k + 1)
    BY <2>2, <2>3, <2>4
  <2>6. QED
    BY <2>1, <2>5
<1>5. b \in S
  <2>1. \A k \in a..b - 1 : k \in S => k + 1 \in S
    BY <1>4
  <2> HIDE DEF S
  <2>2. QED
    BY <1>2, <1>3, <2>1, InductUpTo
<1>6. ASSUME \A j \in a..b - 1 : annotated[hk][j] \notin kinds PROVE r(b) = r(a)
  <2>1. ASSUME NEW k \in a..b - 1, k \in T PROVE k + 1 \in T
    <3>1. /\ k \in Nat \ {0} /\ k \in Nat /\ k + 1 \in Nat \ {0}
      OBVIOUS
    <3>2. r(k + 1) = r(k) + 0 /\ r(k) \in Nat
      BY <1>1, <1>6, <3>1
    <3>3. r(k + 1) = r(k)
      BY <3>2
    <3>4. QED
      BY <2>1, <3>1, <3>3
  <2>2. \A k \in a..b - 1 : k \in T => k + 1 \in T
    BY <2>1
  <2>3. b \in T
    <3> HIDE DEF T
    <3>1. QED
      BY <1>2, <1>3, <2>2, InductUpTo
  <2>4. QED
    BY <2>3
<1>7. r(a) <= r(b)
  BY <1>5
<1>8. QED
  BY <1>6, <1>7 DEF r
\* The row at the start of a hunk, and from one line to the next.
LEMMA RowShape ==
  ASSUME NEW hk \in Nat
  PROVE  /\ \A k \in Nat :
              /\ Row[hk][k] = [after |-> RowAt(hk, k, New), before |-> RowAt(hk, k, Old)]
              /\ Row[hk][k].after \in Nat /\ Row[hk][k].before \in Nat
              /\ Row[hk][k].after = RowAt(hk, k, New)
              /\ Row[hk][k].before = RowAt(hk, k, Old)
         /\ Row[hk][1] = RangeStart(hk)
         /\ \A k \in Nat \ {0} :
              /\ Row[hk][k + 1].after = Row[hk][k].after
                   + IF annotated[hk][k] \in New THEN 1 ELSE 0
              /\ Row[hk][k + 1].before = Row[hk][k].before
                   + IF annotated[hk][k] \in Old THEN 1 ELSE 0
<1>1. ASSUME NEW k \in Nat
      PROVE  /\ Row[hk][k] = [after |-> RowAt(hk, k, New),
                              before |-> RowAt(hk, k, Old)]
             /\ Row[hk][k].after = RowAt(hk, k, New)
             /\ Row[hk][k].before = RowAt(hk, k, Old)
             /\ Row[hk][k].after \in Nat /\ Row[hk][k].before \in Nat
  <2>1. Row[hk][k] = [after |-> RowAt(hk, k, New), before |-> RowAt(hk, k, Old)]
    BY DEF Row
  <2>2. RowAt(hk, k, New) \in Nat /\ RowAt(hk, k, Old) \in Nat
    BY RowAtShape
  <2>3. QED
    BY <2>1, <2>2
<1>2. Row[hk][1] = RangeStart(hk)
  <2>1. 1 \in Nat
    OBVIOUS
  <2>2. RowAt(hk, 1, New) = HunkDistance * hk /\ RowAt(hk, 1, Old) = HunkDistance * hk
    BY RowAtShape
  <2>3. QED
    BY <1>1, <2>1, <2>2 DEF RangeStart
<1>3. ASSUME NEW k \in Nat \ {0}
      PROVE  /\ Row[hk][k + 1].after = Row[hk][k].after
                  + IF annotated[hk][k] \in New THEN 1 ELSE 0
             /\ Row[hk][k + 1].before = Row[hk][k].before
                  + IF annotated[hk][k] \in Old THEN 1 ELSE 0
  <2>1. k \in Nat /\ k + 1 \in Nat
    OBVIOUS
  <2>2. /\ RowAt(hk, k + 1, New) = RowAt(hk, k, New)
             + IF annotated[hk][k] \in New THEN 1 ELSE 0
        /\ RowAt(hk, k + 1, Old) = RowAt(hk, k, Old)
             + IF annotated[hk][k] \in Old THEN 1 ELSE 0
    BY RowAtShape
  <2>3. QED
    BY <1>1, <2>1, <2>2
<1>4. QED
  BY <1>1, <1>2, <1>3

\* Lines that are neither changes nor context leave both rows alone.
LEMMA RowSkips ==
  ASSUME NEW hk \in Nat, NEW a \in Nat \ {0}, NEW b \in Nat, a <= b,
         \A j \in a..b - 1 : annotated[hk][j] \notin New \cup Old
  PROVE  Row[hk][b] = Row[hk][a]
<1>1. RowAt(hk, b, New) = RowAt(hk, a, New) /\ RowAt(hk, b, Old) = RowAt(hk, a, Old)
  BY RowAtSkips
<1>2. a \in Nat
  OBVIOUS
<1>3. /\ Row[hk][a] = [after |-> RowAt(hk, a, New), before |-> RowAt(hk, a, Old)]
      /\ Row[hk][b] = [after |-> RowAt(hk, b, New), before |-> RowAt(hk, b, Old)]
  BY <1>2, RowShape
<1>4. QED
  BY <1>1, <1>3

-----------------------------------------------------------------------------
(* What the notes mean.                                                      *)

\* The rows of a comment that has no lines yet.
Standing(r) == [start |-> r, end |-> r]

\* EndRow makes of them what the lines of the range cover.
LEMMA RowsShape ==
  ASSUME NEW hk \in Nat, NEW kinds, NEW a \in Nat \ {0}, NEW b \in Nat, a <= b + 1
  PROVE  Rows(hk, a, b, kinds)
           = EndRow(Standing(RowAt(hk, a, kinds)), RowAt(hk, b + 1, kinds))
<1> DEFINE p == RowAt(hk, a, kinds)
           q == RowAt(hk, b + 1, kinds)
           S == {p, q - 1}
<1>1. p \in Nat /\ q \in Nat /\ p <= q
  <2>1. b + 1 \in Nat /\ a \in Nat
    OBVIOUS
  <2>2. QED
    BY <2>1, RowAtShape, RowAtSkips
<1> DEFINE m == Max(S)
<1>2. Rows(hk, a, b, kinds) = [start |-> p, end |-> m]
  BY DEF Rows
<1> HIDE DEF p, q
<1>3. m \in S /\ \A x \in S : x <= m
  <2>1. S \in SUBSET Int /\ S # {} /\ q \in Int /\ \A x \in S : x <= q
    BY <1>1
  <2> HIDE DEF S
  <2>2. QED
    BY <2>1, MaxShape
<1> HIDE DEF m
<1>4. m = IF p = q THEN p ELSE q - 1
  BY <1>1, <1>3
<1>5. EndRow(Standing(p), q) = [start |-> p, end |-> m]
  <2>1. CASE p = q
    BY <1>4, <2>1 DEF EndRow, Standing
  <2>2. CASE p # q
    BY <1>4, <2>2 DEF EndRow, Standing
  <2>3. QED
    BY <2>1, <2>2
<1>6. QED
  BY <1>2, <1>5 DEF p, q

\* One line of a file moves its row by at most one.
LEMMA RowsOfLine ==
  ASSUME NEW hk \in Nat, NEW kinds, NEW a \in Nat \ {0}
  PROVE  Rows(hk, a, a, kinds) = Standing(RowAt(hk, a, kinds))
<1> DEFINE p == RowAt(hk, a, kinds)
           q == RowAt(hk, a + 1, kinds)
           w == IF annotated[hk][a] \in kinds THEN 1 ELSE 0
<1>1. p \in Nat /\ (q = p \/ q = p + 1)
  <2>1. a \in Nat
    OBVIOUS
  <2>2. p \in Nat /\ q = p + w
    BY <2>1, RowAtShape
  <2>3. w = 0 \/ w = 1
    BY Zenon
  <2> HIDE DEF p, q, w
  <2>4. QED
    BY <2>2, <2>3
<1>2. Rows(hk, a, a, kinds) = EndRow(Standing(p), q)
  BY RowsShape
<1> HIDE DEF p, q
<1>3. EndRow(Standing(p), q) = Standing(p)
  <2>1. CASE q = p
    BY <2>1 DEF EndRow, Standing
  <2>2. CASE q = p + 1
    BY <1>1, <2>2 DEF EndRow, Standing
  <2>3. QED
    BY <1>1, <2>1, <2>2
<1>4. QED
  BY <1>2, <1>3 DEF p

\* The first line of a hunk behind a note that is not one of the note.
LEMMA LineBelow ==
  ASSUME NEW x, NEW n \in Nat, Len(x) = n, NEW k \in 1..n, NEW m \in k..n,
         \A j \in k..m - 1 : x[j] \in NoteKinds, x[m] \notin NoteKinds
  PROVE  Min({j \in k..Len(x) : x[j] \notin NoteKinds}) = m
<1> DEFINE S == {j \in k..Len(x) : x[j] \notin NoteKinds}
<1>1. S \in SUBSET Int /\ S # {} /\ k \in Int /\ (\A j \in S : k <= j) /\ m \in S
  OBVIOUS
<1>2. \A j \in S : m <= j
  OBVIOUS
<1> HIDE DEF S
<1>3. Min(S) \in S /\ \A j \in S : Min(S) <= j
  BY <1>1, MinShape
<1> DEFINE least == Min(S)
<1> HIDE DEF least
<1>4. least \in S /\ least <= m /\ m <= least
  BY <1>1, <1>2, <1>3 DEF least
<1>5. least = m
  BY <1>1, <1>4
<1>6. QED
  BY <1>5 DEF S, least

LEMMA CloseBelow ==
  ASSUME NEW x, NEW n \in Nat, Len(x) = n, NEW k \in 1..n, NEW m \in k..n,
         \A j \in k..m - 1 : x[j] # "close", x[m] = "close"
  PROVE  Min({j \in k..Len(x) : x[j] = "close"}) = m
<1> DEFINE S == {j \in k..Len(x) : x[j] = "close"}
<1>1. S \in SUBSET Int /\ S # {} /\ k \in Int /\ (\A j \in S : k <= j) /\ m \in S
  OBVIOUS
<1>2. \A j \in S : m <= j
  OBVIOUS
<1> HIDE DEF S
<1>3. Min(S) \in S /\ \A j \in S : Min(S) <= j
  BY <1>1, MinShape
<1> DEFINE least == Min(S)
<1> HIDE DEF least
<1>4. least \in S /\ least <= m /\ m <= least
  BY <1>1, <1>2, <1>3 DEF least
<1>5. least = m
  BY <1>1, <1>4
<1>6. QED
  BY <1>5 DEF S, least

\* The comment on the lines from a to b of a hunk, of which a note from line k
\* on speaks.
CommentOn(hk, k, a, b) ==
  [hunk |-> hk, line |-> k,
   after |-> Rows(hk, a, b, New), before |-> Rows(hk, a, b, Old),
   start_is_in_new |-> annotated[hk][a] = "add",
   end_is_in_new |-> annotated[hk][b] = "add", text |-> <<hk, a, b>>]

LEMMA MeantBelow ==
  ASSUME NEW hk \in Nat \ {0}, annotated[hk] \in ManualHunks,
         NEW m \in 1..Len(annotated[hk]), NEW k \in 1..m - 1,
         \A j \in k..m - 1 : annotated[hk][j] \in NoteKinds,
         annotated[hk][m] \in Changed
  PROVE  /\ Meant(hk, k) = CommentOn(hk, k, m, m)
         /\ Rows(hk, m, m, New) = Standing(Row[hk][m].after)
         /\ Rows(hk, m, m, Old) = Standing(Row[hk][m].before)
<1> DEFINE x == annotated[hk]
<1>1. Len(x) \in Nat /\ m \in Nat \ {0} /\ m \in Nat /\ k \in 1..Len(x)
      /\ m \in k..Len(x) /\ hk \in Nat
  BY LinesOfHunk
<1>2. x[m] \notin NoteKinds /\ x[m] # "open"
  BY WordKinds
<1>3. Min({j \in k..Len(x) : x[j] \notin NoteKinds}) = m
  BY <1>1, <1>2, LineBelow
<1>4. Meant(hk, k) = CommentOn(hk, k, m, m)
  BY <1>2, <1>3, Zenon DEF Meant, CommentOn, New, Old
<1>5. /\ Rows(hk, m, m, New) = Standing(RowAt(hk, m, New))
      /\ Rows(hk, m, m, Old) = Standing(RowAt(hk, m, Old))
  BY <1>1, RowsOfLine
<1>6. QED
  BY <1>1, <1>4, <1>5, RowShape

LEMMA MeantInBraces ==
  ASSUME NEW hk \in Nat \ {0}, annotated[hk] \in ManualHunks,
         NEW o \in 1..Len(annotated[hk]), NEW k \in 1..o - 1,
         \A j \in k..o - 1 : annotated[hk][j] \in NoteKinds,
         NEW to \in o..Len(annotated[hk]), Braces(annotated[hk], o, to)
  PROVE  /\ Meant(hk, k) = CommentOn(hk, k, o + 1, to - 1)
         /\ Rows(hk, o + 1, to - 1, New)
              = EndRow(Standing(Row[hk][o + 1].after), Row[hk][to].after)
         /\ Rows(hk, o + 1, to - 1, Old)
              = EndRow(Standing(Row[hk][o + 1].before), Row[hk][to].before)
<1> DEFINE x == annotated[hk]
           n == Len(x)
<1>1. /\ n \in Nat /\ hk \in Nat /\ o \in Nat \ {0} /\ o \in 1..n /\ k \in 1..n
      /\ o \in k..n /\ to \in o..n
  BY LinesOfHunk
<1>2. /\ o + 1 < to /\ x[o] = "open" /\ x[to] = "close"
      /\ \A j \in o + 1..to - 1 : x[j] \in Changed
  BY DEF Braces, AllIn
<1>3. Min({j \in k..n : x[j] \notin NoteKinds}) = o
  <2>1. x[o] \notin NoteKinds
    BY <1>2 DEF NoteKinds
  <2>2. QED
    BY <1>1, <2>1, LineBelow
<1>4. Min({j \in o..n : x[j] = "close"}) = to
  <2>1. ASSUME NEW j \in o..to - 1 PROVE x[j] # "close"
    <3>1. j = o \/ j \in o + 1..to - 1
      BY <1>1
    <3>2. QED
      BY <1>2, <3>1, WordKinds
  <2> HIDE DEF x, n
  <2>2. QED
    BY <1>1, <1>2, <2>1, CloseBelow DEF n
<1>5. Meant(hk, k) = CommentOn(hk, k, o + 1, to - 1)
  BY <1>2, <1>3, <1>4, Zenon DEF Meant, CommentOn, New, Old
<1>6. /\ o + 1 \in Nat \ {0} /\ to - 1 \in Nat /\ o + 1 <= (to - 1) + 1
      /\ (to - 1) + 1 = to /\ o + 1 \in Nat /\ to \in Nat
  BY <1>1, <1>2
<1>7. /\ Rows(hk, o + 1, to - 1, New)
           = EndRow(Standing(RowAt(hk, o + 1, New)), RowAt(hk, to, New))
      /\ Rows(hk, o + 1, to - 1, Old)
           = EndRow(Standing(RowAt(hk, o + 1, Old)), RowAt(hk, to, Old))
  <2> DEFINE a == o + 1
             b == to - 1
             e == b + 1
  <2>1. a \in Nat \ {0} /\ b \in Nat /\ a <= b + 1
    BY <1>6
  <2> HIDE DEF a, b
  <2>2. /\ Rows(hk, a, b, New) = EndRow(Standing(RowAt(hk, a, New)), RowAt(hk, e, New))
        /\ Rows(hk, a, b, Old) = EndRow(Standing(RowAt(hk, a, Old)), RowAt(hk, e, Old))
    BY <1>1, <2>1, RowsShape
  <2>3. e = to
    BY <1>6 DEF b
  <2>4. QED
    BY <2>2, <2>3 DEF a, b
<1>8. QED
  BY <1>1, <1>5, <1>6, <1>7, RowShape

\* The comments on the notes of the hunks, line by line; those on the notes of
\* a hunk from a line on; those on the notes of the hunks from one on.
Pieces ==
  [hk \in 1..Len(annotated) |-> [k \in 1..Len(annotated[hk]) |->
    IF k \in NoteStarts(annotated[hk]) THEN <<MeantAt[hk][k]>> ELSE <<>>]]
AllMeant == [hk \in 1..Len(annotated) |-> FlattenSeq(Pieces[hk])]

NotesFrom(hk, k) == FlattenSeq(Onward(Pieces[hk], k))
LaterNotes(hk) == FlattenSeq(Onward(AllMeant, hk))

Remark == CommentType \cup {MeantAt[hk][k] : hk \in Nat, k \in Nat}

LEMMA PiecesShape ==
  ASSUME annotated \in Seq(ManualHunks), NEW hk \in 1..Len(annotated)
  PROVE  /\ Pieces[hk] \in Seq(Seq(Remark))
         /\ Len(Pieces[hk]) = Len(annotated[hk])
         /\ \A k \in 1..Len(annotated[hk]) : Pieces[hk][k] =
              IF k \in NoteStarts(annotated[hk]) THEN <<MeantAt[hk][k]>> ELSE <<>>
         /\ MeantInHunk(hk) = FlattenSeq(Pieces[hk])
<1> DEFINE x == annotated[hk]
           n == Len(x)
           p == [k \in 1..n |->
                  IF k \in NoteStarts(x) THEN <<MeantAt[hk][k]>> ELSE <<>>]
           r == [k \in 1..n |->
                  IF k \in NoteStarts(x) THEN <<Meant(hk, k)>> ELSE <<>>]
<1>1. x \in ManualHunks /\ hk \in Nat
  BY ElementOfSeq, LenProperties
<1>2. n \in Nat
  BY <1>1, LinesOfHunk
<1>3. Pieces[hk] = p
  BY DEF Pieces
<1>4. ASSUME NEW k \in 1..n
      PROVE  /\ p[k] = IF k \in NoteStarts(x) THEN <<MeantAt[hk][k]>> ELSE <<>>
             /\ p[k] \in Seq(Remark)
             /\ MeantAt[hk][k] = Meant(hk, k)
  <2>1. k \in Nat
    BY <1>2
  <2>2. MeantAt[hk][k] \in Remark
    BY <1>1, <2>1 DEF Remark
  <2>3. <<MeantAt[hk][k]>> \in Seq(Remark) /\ <<>> \in Seq(Remark)
    BY <2>2, EmptySeq
  <2>4. p[k] = IF k \in NoteStarts(x) THEN <<MeantAt[hk][k]>> ELSE <<>>
    OBVIOUS
  <2>5. MeantAt[hk][k] = Meant(hk, k)
    BY <1>1, <2>1 DEF MeantAt
  <2>6. p[k] \in Seq(Remark)
    BY <2>3, <2>4, Zenon
  <2>7. QED
    BY <2>4, <2>5, <2>6
<1>5. p = r
  BY <1>4
<1>6. MeantInHunk(hk) = FlattenSeq(r)
  BY DEF MeantInHunk
<1>7. p \in [1..n -> Seq(Remark)]
  BY <1>4
<1>8. p \in Seq(Seq(Remark)) /\ Len(p) = n
  <2> HIDE DEF p, n
  <2>1. QED
    BY <1>2, <1>7, FunctionIsSeq
<1>9. \A k \in 1..n : p[k] = IF k \in NoteStarts(x) THEN <<MeantAt[hk][k]>> ELSE <<>>
  OBVIOUS
<1> HIDE DEF p, r
<1>10. QED
  BY <1>3, <1>5, <1>6, <1>8, <1>9

LEMMA NotesShape ==
  ASSUME annotated \in Seq(ManualHunks), NEW hk \in 1..Len(annotated)
  PROVE  /\ \A k \in 1..Len(annotated[hk]) :
              NotesFrom(hk, k) = Pieces[hk][k] \o NotesFrom(hk, k + 1)
         /\ \A k \in 1..Len(annotated[hk]) + 1 : NotesFrom(hk, k) \in Seq(Remark)
         /\ NotesFrom(hk, Len(annotated[hk]) + 1) = <<>>
         /\ NotesFrom(hk, 1) = FlattenSeq(Pieces[hk])
<1> DEFINE p == Pieces[hk]
           n == Len(annotated[hk])
<1>1. p \in Seq(Seq(Remark)) /\ Len(p) = n
  BY PiecesShape
<1> HIDE DEF p, n
<1>2. /\ \A k \in 1..n : FlattenSeq(Onward(p, k)) = p[k] \o FlattenSeq(Onward(p, k + 1))
      /\ FlattenSeq(Onward(p, n + 1)) = <<>>
      /\ \A k \in 1..n + 1 : FlattenSeq(Onward(p, k)) \in Seq(Remark)
      /\ Onward(p, 1) = p
  BY <1>1, FlattenOnward, OnwardAll
<1>3. QED
  BY <1>2 DEF NotesFrom, p, n

LEMMA LaterShape ==
  ASSUME annotated \in Seq(ManualHunks)
  PROVE  /\ \A hk \in 1..Len(annotated) :
              LaterNotes(hk) = NotesFrom(hk, 1) \o LaterNotes(hk + 1)
         /\ \A hk \in 1..Len(annotated) + 1 : LaterNotes(hk) \in Seq(Remark)
         /\ LaterNotes(Len(annotated) + 1) = <<>>
         /\ LaterNotes(1) = MeantComments
<1> DEFINE n == Len(annotated)
<1>1. n \in Nat
  BY LenProperties
<1>2. ASSUME NEW hk \in 1..n
      PROVE  /\ FlattenSeq(Pieces[hk]) \in Seq(Remark)
             /\ NotesFrom(hk, 1) = FlattenSeq(Pieces[hk])
             /\ MeantInHunk(hk) = FlattenSeq(Pieces[hk])
  <2>1. annotated[hk] \in ManualHunks
    BY ElementOfSeq
  <2>2. 1 \in 1..Len(annotated[hk]) + 1
    BY <2>1, LinesOfHunk
  <2>3. QED
    BY <2>2, NotesShape, PiecesShape
<1>3. AllMeant \in [1..n -> Seq(Remark)]
  BY <1>2 DEF AllMeant
<1>4. AllMeant \in Seq(Seq(Remark)) /\ Len(AllMeant) = n
  <2> HIDE DEF n
  <2>1. QED
    BY <1>1, <1>3, FunctionIsSeq
<1>5. /\ \A hk \in 1..n : FlattenSeq(Onward(AllMeant, hk))
                            = AllMeant[hk] \o FlattenSeq(Onward(AllMeant, hk + 1))
      /\ FlattenSeq(Onward(AllMeant, n + 1)) = <<>>
      /\ \A hk \in 1..n + 1 : FlattenSeq(Onward(AllMeant, hk)) \in Seq(Remark)
      /\ Onward(AllMeant, 1) = AllMeant
  BY <1>4, FlattenOnward, OnwardAll
<1>6. \A hk \in 1..n : AllMeant[hk] = NotesFrom(hk, 1)
  BY <1>2 DEF AllMeant
<1>7. MeantComments = FlattenSeq(AllMeant)
  <2>1. [hk \in 1..n |-> MeantInHunk(hk)] = AllMeant
    BY <1>2 DEF AllMeant
  <2>2. QED
    BY <2>1 DEF MeantComments
<1>8. QED
  BY <1>5, <1>6, <1>7 DEF LaterNotes

\* Nothing changes with the place alone: the notes are read from the source.
LEMMA SameMeant ==
  ASSUME source' = source
  PROVE  /\ Row' = Row /\ MeantAt' = MeantAt /\ Pieces' = Pieces
         /\ AllMeant' = AllMeant /\ MeantComments' = MeantComments
<1>1. annotated' = annotated
  BY SameText
<1>2. Row' = Row
  BY <1>1 DEF Row, RowAt
<1>3. MeantAt' = MeantAt
  BY <1>1 DEF MeantAt, Meant, Rows, RowAt
<1>4. Pieces' = Pieces
  BY <1>1, <1>3 DEF Pieces, NoteStarts
<1>5. AllMeant' = AllMeant
  BY <1>1, <1>4 DEF AllMeant
<1>6. MeantComments' = MeantComments
  BY <1>1 DEF MeantComments, MeantInHunk, Meant, Rows, RowAt, NoteStarts
<1>7. QED
  BY <1>2, <1>3, <1>4, <1>5, <1>6

-----------------------------------------------------------------------------
(* Which comments the list has, and which are still to come.                 *)

ToCome == NotesFrom(h, i) \o LaterNotes(h + 1)

\* The list with the comment it lacks lines of as that will be.
Finally ==
  IF Waiting THEN [comments EXCEPT ![Len(comments)] = MeantAt[h][c.line]]
  ELSE comments

ListInv ==
  /\ pc = "line" => Finally \o ToCome = MeantComments
  /\ pc = "done" => comments = MeantComments

\* The comment without lines has the rows of the line that is to be its first;
\* behind a first line in braces it knows the sides of the first and the last.
AtRows(k) ==
  c.after = Standing(Row[h][k].after) /\ c.before = Standing(Row[h][k].before)

RowsInv ==
  pc = "line" =>
    /\ row = Row[h][i]
    /\ Waiting /\ ~in_multiline => AtRows(i)
    /\ Waiting /\ in_multiline =>
         /\ AtRows(range_start + 1)
         /\ ~is_first => /\ c.start_is_in_new = (hunk[range_start + 1] = "add")
                         /\ c.end_is_in_new = (hunk[i - 1] = "add")

ManualInv == WellFormed => RowsInv /\ ListInv

\* Lines on which no note starts have no comments.
LEMMA NoNotes ==
  ASSUME annotated \in Seq(ManualHunks), NEW hk \in 1..Len(annotated),
         NEW a \in 1..Len(annotated[hk]) + 1, NEW b \in a..Len(annotated[hk]) + 1,
         \A k \in a..b - 1 : k \notin NoteStarts(annotated[hk])
  PROVE  NotesFrom(hk, b) = NotesFrom(hk, a)
<1> DEFINE n == Len(annotated[hk])
           f(k) == NotesFrom(hk, k)
           S == {k \in Int : f(k) = f(a)}
<1>1. n \in Nat
  <2>1. annotated[hk] \in ManualHunks
    BY ElementOfSeq
  <2>2. QED
    BY <2>1, LinesOfHunk
<1>2. ASSUME NEW k \in a..b - 1 PROVE f(k + 1) = f(k)
  <2>1. k \in 1..n /\ k + 1 \in 1..n + 1
    BY <1>1
  <2>2. f(k) = Pieces[hk][k] \o f(k + 1) /\ f(k + 1) \in Seq(Remark)
    BY <2>1, NotesShape
  <2>3. Pieces[hk][k] = <<>>
    BY <2>1, PiecesShape
  <2>4. QED
    BY <2>2, <2>3, ConcatEmptySeq
<1> HIDE DEF f
<1>3. a \in Int /\ b \in Int /\ b \in a..b /\ a \in S
  BY <1>1
<1>4. ASSUME NEW k \in a..b - 1, k \in S PROVE k + 1 \in S
  <2>1. k \in Int /\ k + 1 \in Int
    BY <1>3
  <2>2. QED
    BY <1>2, <1>4, <2>1
<1>5. b \in S
  <2>1. \A k \in a..b - 1 : k \in S => k + 1 \in S
    BY <1>4
  <2> HIDE DEF S
  <2>2. QED
    BY <1>3, <2>1, InductUpTo
<1>6. QED
  BY <1>5 DEF f

\* A note has one comment.
LEMMA NoteAhead ==
  ASSUME annotated \in Seq(ManualHunks), NEW hk \in 1..Len(annotated),
         NEW a \in 1..Len(annotated[hk]), NEW b \in a + 1..Len(annotated[hk]),
         \A k \in a..b - 1 : annotated[hk][k] \in NoteKinds,
         a = 1 \/ annotated[hk][a - 1] \notin NoteKinds
  PROVE  /\ NotesFrom(hk, a) = <<MeantAt[hk][a]>> \o NotesFrom(hk, b)
         /\ NotesFrom(hk, b) \in Seq(Remark)
         /\ MeantAt[hk][a] \in Remark
<1> DEFINE x == annotated[hk]
           n == Len(x)
<1>1. n \in Nat /\ hk \in Nat
  <2>1. x \in ManualHunks /\ hk \in Nat
    BY ElementOfSeq
  <2>2. QED
    BY <2>1, LinesOfHunk
<1>2. a \in Int /\ a \in a..b - 1 /\ a \in Nat
  BY <1>1
<1>3. a \in NoteStarts(x)
  BY <1>2 DEF NoteStarts
<1>4. ASSUME NEW k \in a + 1..b - 1 PROVE k \notin NoteStarts(x)
  <2>1. k - 1 \in a..b - 1 /\ k # 1
    BY <1>1, <1>2
  <2>2. x[k - 1] \in NoteKinds
    BY <2>1
  <2>3. QED
    BY <2>1, <2>2 DEF NoteStarts
<1>5. NotesFrom(hk, b) = NotesFrom(hk, a + 1)
  <2>1. a + 1 \in 1..n + 1 /\ b \in a + 1..n + 1
    BY <1>1, <1>2
  <2>2. QED
    BY <1>4, <2>1, NoNotes
<1>6. NotesFrom(hk, a) = Pieces[hk][a] \o NotesFrom(hk, a + 1)
  BY NotesShape
<1>7. Pieces[hk][a] = <<MeantAt[hk][a]>>
  BY <1>3, PiecesShape
<1>8. NotesFrom(hk, b) \in Seq(Remark)
  <2>1. b \in 1..n + 1
    BY <1>1, <1>2
  <2>2. QED
    BY <2>1, NotesShape
<1>9. MeantAt[hk][a] \in Remark
  BY <1>1, <1>2 DEF Remark
<1>10. QED
  BY <1>5, <1>6, <1>7, <1>8, <1>9

\* Types of what the list is made of.
LEMMA ListShape ==
  ASSUME TypeInv, WellFormed, Following, Phases, pc = "line"
  PROVE  /\ comments \in Seq(Remark) /\ Finally \in Seq(Remark)
         /\ NotesFrom(h, i) \in Seq(Remark) /\ LaterNotes(h + 1) \in Seq(Remark)
         /\ ToCome \in Seq(Remark)
         /\ Waiting => Len(comments) \in 1..Len(comments)
<1>1. /\ annotated \in Seq(ManualHunks) /\ h \in 1..Len(annotated)
      /\ hunk = annotated[h] /\ i \in 1..Len(hunk) + 1
      /\ comments \in Seq(CommentType) /\ Len(annotated) \in Nat
      /\ Len(hunk) \in Nat /\ range_start \in Int /\ i \in Int
  BY ReadingShape
<1>2. comments \in Seq(Remark)
  BY <1>1, SeqMonotonic DEF Remark
<1>3. NotesFrom(h, i) \in Seq(Remark)
  BY <1>1, NotesShape
<1>4. LaterNotes(h + 1) \in Seq(Remark)
  <2>1. h + 1 \in 1..Len(annotated) + 1
    BY <1>1
  <2>2. QED
    BY <1>1, <2>1, LaterShape
<1>5. ToCome \in Seq(Remark)
  BY <1>3, <1>4, ConcatProperties DEF ToCome
<1>6. Waiting => Len(comments) \in 1..Len(comments)
  BY <1>1, LastComment DEF Waiting
<1>7. Finally \in Seq(Remark)
  <2>1. CASE Waiting
    <3>1. c.line \in Nat
      <4>1. Below \/ Inside
        BY <2>1 DEF Phases
      <4>2. Below => c.line \in Nat
        BY <1>1 DEF Below
      <4>3. Inside => c.line \in Nat
        BY <1>1 DEF Inside
      <4>4. QED
        BY <4>1, <4>2, <4>3
    <3>2. h \in Nat
      BY <1>1
    <3>3. MeantAt[h][c.line] \in Remark
      BY <3>1, <3>2 DEF Remark
    <3>4. [comments EXCEPT ![Len(comments)] = MeantAt[h][c.line]] \in Seq(Remark)
      BY <1>2, <1>6, <2>1, <3>3, ExceptSeq
    <3>5. QED
      BY <2>1, <3>4, Zenon DEF Finally
  <2>2. CASE ~Waiting
    BY <1>2, <2>2, Zenon DEF Finally
  <2>3. QED
    BY <2>1, <2>2
<1>8. QED
  BY <1>2, <1>3, <1>4, <1>5, <1>6, <1>7

\* A line that is not one of a note takes nothing from what is to come.
LEMMA NothingTaken ==
  ASSUME TypeInv, WellFormed, Following, pc = "line", i \in 1..Len(hunk),
         hunk[i] \notin NoteKinds, source' = source, h' = h, i' = i + 1
  PROVE  ToCome' = ToCome
<1>1. /\ annotated \in Seq(ManualHunks) /\ h \in 1..Len(annotated)
      /\ hunk = annotated[h] /\ Len(hunk) \in Nat /\ i \in Int
  BY ReadingShape
<1>2. \A k \in i..i + 1 - 1 : k \notin NoteStarts(annotated[h])
  <2>1. i \notin NoteStarts(annotated[h])
    BY <1>1 DEF NoteStarts
  <2>2. \A k \in i..i + 1 - 1 : k = i
    BY <1>1
  <2>3. QED
    BY <2>1, <2>2
<1>3. NotesFrom(h, i + 1) = NotesFrom(h, i)
  <2>1. i \in 1..Len(annotated[h]) + 1 /\ i + 1 \in i..Len(annotated[h]) + 1
    BY <1>1
  <2>2. QED
    BY <1>1, <1>2, <2>1, NoNotes
<1>4. Pieces' = Pieces /\ AllMeant' = AllMeant
  BY SameMeant
<1>5. ToCome' = NotesFrom(h, i + 1) \o LaterNotes(h + 1)
  BY <1>4 DEF ToCome, NotesFrom, LaterNotes
<1>6. QED
  BY <1>3, <1>5 DEF ToCome

\* The same for a name of it, which the provers find more easily.
Ending(t, y) == [t EXCEPT ![Len(t)] = y]

LEMMA EndReplaced ==
  ASSUME NEW T, NEW s \in Seq(T), NEW x \in T, NEW y \in T,
         NEW t, t = Append(s, x)
  PROVE  Ending(t, y) = s \o <<y>>
<1>1. Len(t) = Len(s) + 1
  BY AppendProperties
<1>2. [t EXCEPT ![Len(s) + 1] = y] = Append(s, y)
  BY LastReplaced
<1>3. Append(s, y) = s \o <<y>>
  BY AppendIsConcat
<1>4. QED
  BY <1>1, <1>2, <1>3 DEF Ending

LEMMA NoteReads ==
  ASSUME TypeInv, WellFormed, Following, Phases, RowsInv, ListInv, Note
  PROVE  RowsInv' /\ ListInv'
<1>1. /\ ~Waiting /\ Waiting' /\ c' = Comment
      /\ comments' = Append(comments, Comment) /\ i' \in i + 1..Len(hunk)
      /\ h' = h /\ row' = row /\ pc' = pc /\ source' = source
      /\ (\A j \in i..i' - 1 : hunk[j] \in NoteKinds)
      /\ (i = 1 \/ hunk[i - 1] \notin NoteKinds) /\ i \in 1..Len(hunk)
  BY NotePhases DEF Free
<1>2. pc = "line" /\ in_multiline' = FALSE
  BY DEF Note, At
<1>3. /\ annotated \in Seq(ManualHunks) /\ h \in 1..Len(annotated) /\ h \in Nat
      /\ hunk = annotated[h] /\ Len(hunk) \in Nat /\ i \in Int
      /\ row \in [after : Nat, before : Nat] /\ comments \in Seq(CommentType)
  <2>1. /\ annotated \in Seq(ManualHunks) /\ h \in 1..Len(annotated)
        /\ hunk = annotated[h] /\ Len(hunk) \in Nat /\ i \in Int
        /\ row \in [after : Nat, before : Nat] /\ comments \in Seq(CommentType)
        /\ Len(annotated) \in Nat
    BY <1>2, ReadingShape
  <2>2. h \in Nat
    BY <2>1
  <2>3. QED
    BY <2>1, <2>2
<1>4. Row' = Row /\ MeantAt' = MeantAt /\ Pieces' = Pieces /\ AllMeant' = AllMeant
      /\ MeantComments' = MeantComments
  BY <1>1, SameMeant
<1>5. RowsInv'
  <2>1. Row[h][i'] = Row[h][i]
    <3>1. \A j \in i..i' - 1 : annotated[h][j] \notin New \cup Old
      <4>1. \A w \in NoteKinds : w \notin New \cup Old
        BY DEF NoteKinds, New, Old
      <4>2. QED
        BY <1>1, <1>3, <4>1
    <3> DEFINE m == i'
    <3>2. i \in Nat \ {0} /\ m \in Nat /\ i <= m
      BY <1>1, <1>3
    <3>3. \A j \in i..m - 1 : annotated[h][j] \notin New \cup Old
      BY <3>1
    <3> HIDE DEF m
    <3>4. Row[h][m] = Row[h][i]
      BY <1>3, <3>2, <3>3, RowSkips
    <3>5. QED
      BY <3>4 DEF m
  <2>2. row' = Row'[h'][i']
    BY <1>1, <1>2, <1>4, <2>1 DEF RowsInv
  <2>3. Comment.after = Standing(row.after) /\ Comment.before = Standing(row.before)
    BY DEF Comment, Standing
  <2>4. AtRows(i)'
    <3>1. /\ c'.after = Standing(Row'[h'][i'].after)
          /\ c'.before = Standing(Row'[h'][i'].before)
      BY <1>1, <2>2, <2>3
    <3>2. QED
      BY <3>1 DEF AtRows
  <2>5. QED
    BY <1>2, <2>2, <2>4, Zenon DEF RowsInv
<1>6. Finally' = comments \o <<MeantAt[h][i]>>
  <2>1. Comment \in CommentType /\ Comment.line = i
    <3>1. h \in Int
      BY <1>3
    <3>2. QED
      BY <1>3, <3>1, CommentTyped DEF Comment
  <2>2. MeantAt[h][i] \in Remark /\ Comment \in Remark /\ comments \in Seq(Remark)
    <3>1. i \in Nat
      BY <1>1, <1>3
    <3>2. QED
      BY <1>3, <2>1, <3>1, SeqMonotonic DEF Remark
  <2> DEFINE t == Append(comments, Comment)
  <2>3. t = Append(comments, Comment)
    OBVIOUS
  <2> HIDE DEF t
  <2>4. Ending(t, MeantAt[h][i]) = comments \o <<MeantAt[h][i]>>
    BY <2>2, <2>3, EndReplaced
  <2>5. comments' = t /\ c'.line = i
    BY <1>1, <2>1, <2>3
  <2>6. Finally' = Ending(t, MeantAt[h][i])
    BY <1>1, <1>4, <2>5, Zenon DEF Finally, Ending
  <2>7. QED
    BY <2>4, <2>6
<1>7. ToCome = <<MeantAt[h][i]>> \o ToCome'
      /\ MeantAt[h][i] \in Remark /\ ToCome' \in Seq(Remark)
  <2> DEFINE m == i'
             p == <<MeantAt[h][i]>>
             f == NotesFrom(h, m)
             g == LaterNotes(h + 1)
  <2>1. /\ NotesFrom(h, i) = p \o f /\ f \in Seq(Remark) /\ MeantAt[h][i] \in Remark
    <3>1. m \in i + 1..Len(annotated[h]) /\ i \in 1..Len(annotated[h])
      BY <1>1, <1>3
    <3>2. /\ \A k \in i..m - 1 : annotated[h][k] \in NoteKinds
          /\ i = 1 \/ annotated[h][i - 1] \notin NoteKinds
      BY <1>1, <1>3
    <3> HIDE DEF m
    <3>3. QED
      BY <1>3, <3>1, <3>2, NoteAhead
  <2>2. g \in Seq(Remark) /\ p \in Seq(Remark)
    BY <1>2, <2>1, ListShape
  <2>3. ToCome' = f \o g
    BY <1>1, <1>4 DEF ToCome, NotesFrom, LaterNotes
  <2>4. ToCome = (p \o f) \o g
    BY <2>1 DEF ToCome
  <2> HIDE DEF p, f, g
  <2>5. (p \o f) \o g = p \o (f \o g) /\ f \o g \in Seq(Remark)
    BY <2>1, <2>2, ConcatThree
  <2>6. QED
    BY <2>1, <2>3, <2>4, <2>5 DEF p
<1>8. Finally' \o ToCome' = MeantComments
  <2> DEFINE p == <<MeantAt[h][i]>>
             later == ToCome'
  <2>1. Finally = comments /\ comments \in Seq(Remark)
    BY <1>1, <1>2, ListShape, Zenon DEF Finally
  <2>2. p \in Seq(Remark) /\ later \in Seq(Remark)
    BY <1>7
  <2>3. comments \o (p \o later) = MeantComments
    BY <1>2, <1>7, <2>1, Zenon DEF ListInv
  <2> HIDE DEF p, later
  <2>4. (comments \o p) \o later = comments \o (p \o later)
    BY <2>1, <2>2, ConcatThree
  <2>5. QED
    BY <1>6, <2>3, <2>4 DEF p, later
<1>9. ListInv'
  <2>1. pc' # "done"
    BY <1>1, <1>2
  <2>2. QED
    BY <1>4, <1>8, <2>1, Zenon DEF ListInv
<1>10. QED
  BY <1>5, <1>9

LEMMA EndingShape ==
  ASSUME NEW T, NEW s \in Seq(T), s # <<>>, NEW x \in T, NEW y \in T
  PROVE  Ending(Ending(s, x), y) = Ending(s, y) /\ Ending(s, x) \in Seq(T)
<1> DEFINE n == Len(s)
           d == [s EXCEPT ![n] = x]
           e == [d EXCEPT ![n] = y]
           g == [s EXCEPT ![n] = y]
<1>1. n \in 1..n /\ n \in Nat
  BY EmptySeq, LenProperties
<1> HIDE DEF n
<1>2. d \in Seq(T) /\ Len(d) = n /\ \A j \in 1..n : j # n => d[j] = s[j]
  BY <1>1, ExceptSeq DEF n
<1>3. g \in Seq(T) /\ Len(g) = n /\ g[n] = y /\ \A j \in 1..n : j # n => g[j] = s[j]
  BY <1>1, ExceptSeq DEF n
<1>4. Ending(s, x) = d /\ Ending(s, y) = g
  BY Zenon DEF Ending, n
<1> HIDE DEF d
<1>5. e \in Seq(T) /\ Len(e) = n /\ e[n] = y /\ \A j \in 1..n : j # n => e[j] = d[j]
  BY <1>1, <1>2, ExceptSeq
<1>6. Ending(d, y) = e
  BY <1>2, Zenon DEF Ending
<1> HIDE DEF e, g
<1>7. \A j \in 1..n : e[j] = g[j]
  BY <1>2, <1>3, <1>5
<1>8. e = g
  BY <1>3, <1>5, <1>7, SeqEqual
<1>9. QED
  BY <1>2, <1>4, <1>6, <1>8

\* The rows at the next line.
LEMMA RowNext ==
  ASSUME TypeInv, WellFormed, Following, pc = "line", RowsInv, i \in 1..Len(hunk)
  PROVE  /\ NextRow = Row[h][i + 1]
         /\ hunk[i] \notin New \cup Old => row = Row[h][i + 1]
<1>1. /\ h \in 1..Len(annotated) /\ hunk = annotated[h] /\ Len(annotated) \in Nat
      /\ Len(hunk) \in Nat /\ row = Row[h][i]
  BY ReadingShape DEF RowsInv
<1>2. h \in Nat /\ i \in Nat \ {0} /\ i \in Nat /\ i + 1 \in Nat /\ i \in Int
  BY <1>1
<1> DEFINE m == i + 1
<1>3. /\ Row[h][m] = [after |-> RowAt(h, m, New), before |-> RowAt(h, m, Old)]
      /\ Row[h][m].after = RowAt(h, m, New) /\ Row[h][m].before = RowAt(h, m, Old)
  <2>1. m \in Nat
    BY <1>2
  <2> HIDE DEF m
  <2>2. QED
    BY <1>2, <2>1, RowShape
<1>4. /\ Row[h][i + 1].after = Row[h][i].after + IF annotated[h][i] \in New THEN 1 ELSE 0
      /\ Row[h][i + 1].before
           = Row[h][i].before + IF annotated[h][i] \in Old THEN 1 ELSE 0
  BY <1>2, RowShape
<1>5. NextRow = Row[h][i + 1]
  <2>1. NextRow = [after |-> Row[h][i + 1].after, before |-> Row[h][i + 1].before]
    BY <1>1, <1>4, Zenon DEF NextRow, New, Old, kind
  <2>2. QED
    BY <1>3, <2>1
<1>6. ASSUME hunk[i] \notin New \cup Old PROVE row = Row[h][i + 1]
  <2>1. \A j \in i..m - 1 : annotated[h][j] \notin New \cup Old
    <3>1. \A j \in i..m - 1 : j = i
      BY <1>2
    <3>2. QED
      BY <1>1, <1>6, <3>1
  <2>2. m \in Nat /\ i <= m
    BY <1>2
  <2> HIDE DEF m
  <2>3. Row[h][m] = Row[h][i]
    BY <1>2, <2>1, <2>2, RowSkips
  <2>4. QED
    BY <1>1, <2>3 DEF m
<1>7. QED
  BY <1>5, <1>6

\* A change below a note makes the comment what it is to be,
LEMMA NoticedIs ==
  ASSUME TypeInv, WellFormed, Following, Phases, RowsInv, pc = "line",
         i \in 1..Len(hunk), hunk[i] \in Changed, Waiting, Below
  PROVE  Noticed = MeantAt[h][c.line]
<1>1. /\ annotated \in Seq(ManualHunks) /\ h \in 1..Len(annotated)
      /\ hunk = annotated[h] /\ hunk \in ManualHunks /\ Len(annotated) \in Nat
      /\ Len(hunk) \in Nat /\ h \in Int /\ i \in Int /\ comments \in Seq(CommentType)
  BY ReadingShape
<1>2. /\ c.hunk = h /\ c.line \in 1..i - 1 /\ ~in_multiline
      /\ \A j \in c.line..i - 1 : hunk[j] \in NoteKinds
  BY DEF Below
<1>3. c \in CommentType /\ c.text = <<>>
  BY <1>1, LastComment DEF Waiting
<1>4. /\ c.after = Standing(Row[h][i].after) /\ c.before = Standing(Row[h][i].before)
  BY <1>2 DEF RowsInv, AtRows
<1> DEFINE k == c.line
<1>5. /\ Meant(h, k) = CommentOn(h, k, i, i)
      /\ Rows(h, i, i, New) = Standing(Row[h][i].after)
      /\ Rows(h, i, i, Old) = Standing(Row[h][i].before)
  <2>1. h \in Nat \ {0} /\ i \in 1..Len(annotated[h]) /\ k \in 1..i - 1
    BY <1>1, <1>2
  <2>2. \A j \in k..i - 1 : annotated[h][j] \in NoteKinds
    BY <1>1, <1>2
  <2> HIDE DEF k
  <2>3. QED
    BY <1>1, <2>1, <2>2, MeantBelow
<1>6. MeantAt[h][k] = Meant(h, k)
  <2>1. h \in Nat /\ k \in Nat
    BY <1>1, <1>2
  <2>2. QED
    BY <2>1 DEF MeantAt
<1> DEFINE t == IF c.text = <<>> /\ ~in_multiline THEN <<h, i, i>> ELSE c.text
<1>7. /\ Noticed = [hunk |-> c.hunk, line |-> c.line, after |-> c.after,
                    before |-> c.before,
                    start_is_in_new |-> Noticed.start_is_in_new,
                    end_is_in_new |-> Noticed.end_is_in_new, text |-> t]
      /\ Noticed.start_is_in_new = (kind = "add")
      /\ Noticed.end_is_in_new = (kind = "add")
  BY <1>1, <1>2, <1>3, NoticedShape
<1>8. t = <<h, i, i>>
  BY <1>2, <1>3, Zenon
<1> HIDE DEF t
<1>9. Noticed = CommentOn(h, k, i, i)
  <2>1. CommentOn(h, k, i, i)
          = [hunk |-> h, line |-> k, after |-> Rows(h, i, i, New),
             before |-> Rows(h, i, i, Old), start_is_in_new |-> hunk[i] = "add",
             end_is_in_new |-> hunk[i] = "add", text |-> <<h, i, i>>]
    BY <1>1, Zenon DEF CommentOn
  <2> DEFINE new == kind = "add"
             s == Noticed.start_is_in_new
             e == Noticed.end_is_in_new
  <2>2. s = new /\ e = new
    BY <1>7
  <2>3. new = (hunk[i] = "add")
    BY Zenon DEF kind
  <2>4. Noticed = [hunk |-> h, line |-> k, after |-> Rows(h, i, i, New),
                   before |-> Rows(h, i, i, Old), start_is_in_new |-> s,
                   end_is_in_new |-> e, text |-> <<h, i, i>>]
    BY <1>2, <1>4, <1>5, <1>7, <1>8, Zenon
  <2> HIDE DEF new, s, e
  <2>5. QED
    BY <2>1, <2>2, <2>3, <2>4, Zenon
<1>10. QED
  BY <1>5, <1>6, <1>9

\* and so does a `}' behind the last of several.
LEMMA ClosedIs ==
  ASSUME TypeInv, WellFormed, Following, Phases, RowsInv, pc = "line",
         i \in 1..Len(hunk), hunk[i] = "close", Waiting, Inside
  PROVE  Closed = MeantAt[h][c.line]
<1> DEFINE o == range_start
           k == c.line
<1>1. /\ annotated \in Seq(ManualHunks) /\ h \in 1..Len(annotated)
      /\ hunk = annotated[h] /\ hunk \in ManualHunks /\ Len(annotated) \in Nat
      /\ Len(hunk) \in Nat /\ h \in Int /\ i \in Int /\ o \in Int
      /\ row \in [after : Nat, before : Nat] /\ comments \in Seq(CommentType)
  BY ReadingShape
<1>2. /\ c.hunk = h /\ k \in 1..o - 1 /\ in_multiline
      /\ \A j \in k..o - 1 : hunk[j] \in NoteKinds
      /\ o \in 2..i - 1
      /\ \E to \in i..Len(hunk) : Braces(hunk, o, to)
      /\ i # o + 1 => ~is_first
  BY DEF Inside
<1>3. Braces(hunk, o, i) /\ i # o + 1
  <2>1. PICK to \in i..Len(hunk) : Braces(hunk, o, to)
    BY <1>2
  <2>2. \A j \in o + 1..to - 1 : hunk[j] # "close"
    BY <2>1, WordKinds DEF Braces, AllIn
  <2>3. to = i
    <3>1. i \notin o + 1..to - 1
      BY <2>2
    <3>2. QED
      BY <1>1, <1>2, <2>1, <3>1
  <2>4. o + 1 < i
    BY <2>1, <2>3 DEF Braces
  <2>5. QED
    BY <1>1, <2>1, <2>3, <2>4
<1>4. c \in CommentType /\ c.text = <<>>
  BY <1>1, LastComment DEF Waiting
<1>5. /\ c.after = Standing(Row[h][o + 1].after)
      /\ c.before = Standing(Row[h][o + 1].before)
      /\ c.start_is_in_new = (hunk[o + 1] = "add")
      /\ c.end_is_in_new = (hunk[i - 1] = "add")
      /\ row = Row[h][i]
  BY <1>2, <1>3 DEF RowsInv, AtRows
<1>6. /\ Meant(h, k) = CommentOn(h, k, o + 1, i - 1)
      /\ Rows(h, o + 1, i - 1, New)
           = EndRow(Standing(Row[h][o + 1].after), Row[h][i].after)
      /\ Rows(h, o + 1, i - 1, Old)
           = EndRow(Standing(Row[h][o + 1].before), Row[h][i].before)
  <2>1. /\ h \in Nat \ {0} /\ o \in 1..Len(annotated[h]) /\ k \in 1..o - 1
        /\ i \in o..Len(annotated[h])
    BY <1>1, <1>2
  <2>2. /\ \A j \in k..o - 1 : annotated[h][j] \in NoteKinds
        /\ Braces(annotated[h], o, i)
    BY <1>1, <1>2, <1>3
  <2> HIDE DEF k, o
  <2>3. QED
    BY <1>1, <2>1, <2>2, MeantInBraces
<1>7. MeantAt[h][k] = Meant(h, k)
  <2>1. h \in Nat /\ k \in Nat
    BY <1>1, <1>2
  <2>2. QED
    BY <2>1 DEF MeantAt
<1>8. Closed = [hunk |-> c.hunk, line |-> c.line,
                after |-> EndRow(c.after, row.after),
                before |-> EndRow(c.before, row.before),
                start_is_in_new |-> c.start_is_in_new,
                end_is_in_new |-> c.end_is_in_new,
                text |-> <<h, o + 1, i - 1>>]
  BY <1>1, <1>4, ClosedShape
<1>9. CommentOn(h, k, o + 1, i - 1)
        = [hunk |-> h, line |-> k, after |-> Rows(h, o + 1, i - 1, New),
           before |-> Rows(h, o + 1, i - 1, Old),
           start_is_in_new |-> hunk[o + 1] = "add",
           end_is_in_new |-> hunk[i - 1] = "add", text |-> <<h, o + 1, i - 1>>]
  BY <1>1, Zenon DEF CommentOn
<1>10. Closed = CommentOn(h, k, o + 1, i - 1)
  <2>1. /\ EndRow(c.after, row.after) = Rows(h, o + 1, i - 1, New)
        /\ EndRow(c.before, row.before) = Rows(h, o + 1, i - 1, Old)
    BY <1>5, <1>6
  <2> HIDE DEF o
  <2>2. QED
    BY <1>2, <1>5, <1>8, <1>9, <2>1, Zenon
<1>11. QED
  BY <1>6, <1>7, <1>10

LEMMA DiffLineReads ==
  ASSUME TypeInv, WellFormed, Following, Phases, RowsInv, ListInv, DiffLine
  PROVE  RowsInv' /\ ListInv'
<1>1. /\ i \in 1..Len(hunk) /\ hunk[i] \in Changed
      /\ hunk' = hunk /\ h' = h /\ i' = i + 1 /\ row' = NextRow
      /\ pc' = pc /\ source' = source /\ is_first' = FALSE
      /\ range_start' = range_start
      /\ in_comment' = in_comment /\ in_multiline' = in_multiline
      /\ Waiting => /\ comments # <<>> /\ (Below \/ Inside)
                    /\ comments' = [comments EXCEPT ![Len(comments)] = Noticed]
                    /\ c' = Noticed
      /\ Waiting /\ Below => ~Waiting' /\ ~in_multiline
      /\ Waiting /\ Inside => Waiting' /\ in_multiline
      /\ ~Waiting => ~Waiting' /\ comments' = comments
  BY DiffLinePhases
<1>2. pc = "line" /\ pc' # "done"
  BY <1>1 DEF DiffLine, At
<1>3. /\ hunk = annotated[h] /\ h \in Int /\ i \in Int /\ range_start \in Int
      /\ comments \in Seq(CommentType)
  BY <1>2, ReadingShape
<1>4. Row' = Row /\ MeantAt' = MeantAt /\ MeantComments' = MeantComments
  BY <1>1, SameMeant
<1>5. row' = Row'[h'][i']
  BY <1>1, <1>2, <1>4, RowNext
<1>6. ToCome' = ToCome
  BY <1>1, <1>2, NothingTaken, WordKinds
<1>7. Finally \o ToCome = MeantComments
  BY <1>2 DEF ListInv
<1>8. CASE ~Waiting
  <2>1. Finally' = Finally
    BY <1>1, <1>8, Zenon DEF Finally
  <2>2. ~Waiting'
    BY <1>1, <1>8
  <2>3. RowsInv'
    BY <1>5, <2>2, Zenon DEF RowsInv
  <2>4. ListInv'
    BY <1>2, <1>4, <1>6, <1>7, <2>1, Zenon DEF ListInv
  <2>5. QED
    BY <2>3, <2>4
<1>9. CASE Waiting /\ Below
  <2>1. ~Waiting' /\ comments' = [comments EXCEPT ![Len(comments)] = Noticed]
    BY <1>1, <1>9
  <2>2. Noticed = MeantAt[h][c.line]
    BY <1>1, <1>2, <1>9, NoticedIs
  <2>3. Finally' = Finally
    BY <1>9, <2>1, <2>2, Zenon DEF Finally
  <2>4. RowsInv'
    BY <1>5, <2>1, Zenon DEF RowsInv
  <2>5. ListInv'
    BY <1>2, <1>4, <1>6, <1>7, <2>3, Zenon DEF ListInv
  <2>6. QED
    BY <2>4, <2>5
<1>10. CASE Waiting /\ Inside
  <2>1. /\ comments' = [comments EXCEPT ![Len(comments)] = Noticed]
        /\ c' = Noticed /\ comments # <<>> /\ Waiting' /\ in_multiline
        /\ in_multiline' /\ in_comment
    BY <1>1, <1>10 DEF Inside
  <2>2. c \in CommentType /\ c.line \in Nat
    BY <1>3, <1>10, <2>1, LastComment DEF Inside
  <2> DEFINE t == IF c.text = <<>> /\ ~in_multiline THEN <<h, i, i>> ELSE c.text
  <2>3. /\ Noticed \in CommentType
        /\ Noticed = [hunk |-> c.hunk, line |-> c.line, after |-> c.after,
                      before |-> c.before,
                      start_is_in_new |-> Noticed.start_is_in_new,
                      end_is_in_new |-> Noticed.end_is_in_new, text |-> t]
        /\ Noticed.start_is_in_new
             = (IF is_first THEN kind = "add" ELSE c.start_is_in_new)
        /\ Noticed.end_is_in_new = (kind = "add")
    BY <1>3, <2>1, <2>2, NoticedShape
  <2> HIDE DEF t
  <2>4. c'.line = c.line /\ c'.after = c.after /\ c'.before = c.before
    BY <2>1, <2>3
  <2>5. Finally' = Finally
    <3> DEFINE m == MeantAt[h][c.line]
               d == Noticed
    <3>1. h \in Nat
      <4>1. h \in 1..Len(annotated) /\ Len(annotated) \in Nat
        BY <1>2, ReadingShape
      <4>2. QED
        BY <4>1
    <3>2. m \in Remark /\ d \in Remark /\ comments \in Seq(Remark)
      BY <1>3, <2>2, <2>3, <3>1, SeqMonotonic DEF Remark
    <3>3. Finally = Ending(comments, m)
      BY <1>10, Zenon DEF Finally, Ending
    <3>4. comments' = Ending(comments, d)
      BY <2>1, Zenon DEF Ending
    <3>5. Finally' = Ending(comments', m)
      BY <1>1, <1>4, <2>1, <2>4, Zenon DEF Finally, Ending
    <3> HIDE DEF m, d
    <3>6. Ending(Ending(comments, d), m) = Ending(comments, m)
      BY <2>1, <3>2, EndingShape
    <3>7. QED
      BY <3>3, <3>4, <3>5, <3>6
  <2>6. AtRows(range_start + 1)'
    <3>1. AtRows(range_start + 1)
      BY <1>2, <1>10, <2>1 DEF RowsInv
    <3>2. QED
      BY <1>1, <1>4, <2>4, <3>1 DEF AtRows
  <2>7. /\ c'.start_is_in_new = (hunk'[range_start' + 1] = "add")
        /\ c'.end_is_in_new = (hunk'[i' - 1] = "add")
    <3>1. i' - 1 = i
      BY <1>1, <1>3
    <3>2. c'.end_is_in_new = (hunk'[i' - 1] = "add")
      BY <1>1, <2>1, <2>3, <3>1 DEF kind
    <3>3. c'.start_is_in_new = (hunk'[range_start' + 1] = "add")
      <4>1. CASE is_first
        <5>1. i = range_start + 1
          BY <1>10, <4>1 DEF Inside
        <5>2. QED
          BY <1>1, <2>1, <2>3, <4>1, <5>1 DEF kind
      <4>2. CASE ~is_first
        <5>1. c.start_is_in_new = (hunk[range_start + 1] = "add")
          BY <1>2, <1>10, <2>1, <4>2 DEF RowsInv
        <5>2. QED
          BY <1>1, <2>1, <2>3, <4>2, <5>1
      <4>3. QED
        BY <4>1, <4>2
    <3>4. QED
      BY <3>2, <3>3
  <2>8. RowsInv'
    BY <1>5, <2>1, <2>6, <2>7, Zenon DEF RowsInv
  <2>9. ListInv'
    BY <1>2, <1>4, <1>6, <1>7, <2>5, Zenon DEF ListInv
  <2>10. QED
    BY <2>8, <2>9
<1>11. QED
  BY <1>1, <1>8, <1>9, <1>10

LEMMA OpenReads ==
  ASSUME TypeInv, WellFormed, Following, Phases, RowsInv, ListInv, Open
  PROVE  RowsInv' /\ ListInv'
<1>1. /\ Waiting /\ Below /\ Waiting' /\ i \in 1..Len(hunk) /\ hunk[i] = "open"
      /\ h' = h /\ i' = i + 1 /\ row' = row /\ comments' = comments /\ c' = c
      /\ range_start' = i /\ pc' = pc /\ source' = source
      /\ is_first' = is_first /\ in_multiline'
  BY OpenPhases
<1>2. pc = "line" /\ pc' # "done"
  BY <1>1 DEF Open, At
<1>3. is_first /\ ~in_multiline
  BY <1>1 DEF Below
<1>4. Row' = Row /\ MeantAt' = MeantAt /\ MeantComments' = MeantComments
  BY <1>1, SameMeant
<1>5. hunk[i] \notin New \cup Old /\ hunk[i] \notin NoteKinds
  BY <1>1 DEF New, Old, NoteKinds
<1>6. row' = Row'[h'][i'] /\ Row[h][i + 1] = Row[h][i]
  <2>1. row = Row[h][i + 1] /\ row = Row[h][i]
    BY <1>1, <1>2, <1>5, RowNext DEF RowsInv
  <2>2. QED
    BY <1>1, <1>4, <2>1
<1>7. ToCome' = ToCome
  BY <1>1, <1>2, <1>5, NothingTaken
<1>8. AtRows(range_start + 1)'
  <2>1. AtRows(i)
    BY <1>1, <1>2, <1>3 DEF RowsInv
  <2>2. QED
    BY <1>1, <1>4, <1>6, <2>1 DEF AtRows
<1>9. RowsInv'
  BY <1>1, <1>3, <1>6, <1>8, Zenon DEF RowsInv
<1>10. ListInv'
  <2>1. Finally' = Finally
    BY <1>1, <1>4, Zenon DEF Finally
  <2>2. QED
    BY <1>2, <1>4, <1>7, <2>1, Zenon DEF ListInv
<1>11. QED
  BY <1>9, <1>10

LEMMA CloseReads ==
  ASSUME TypeInv, WellFormed, Following, Phases, RowsInv, ListInv, Close
  PROVE  RowsInv' /\ ListInv'
<1>1. /\ Waiting /\ Inside /\ ~Waiting' /\ i \in 1..Len(hunk) /\ hunk[i] = "close"
      /\ h' = h /\ i' = i + 1 /\ row' = row
      /\ comments' = [comments EXCEPT ![Len(comments)] = Closed]
      /\ pc' = pc /\ source' = source
  BY ClosePhases
<1>2. pc = "line" /\ pc' # "done"
  BY <1>1 DEF Close, At
<1>3. Row' = Row /\ MeantComments' = MeantComments
  BY <1>1, SameMeant
<1>4. hunk[i] \notin New \cup Old /\ hunk[i] \notin NoteKinds
  BY <1>1 DEF New, Old, NoteKinds
<1>5. row' = Row'[h'][i']
  <2>1. row = Row[h][i + 1]
    BY <1>1, <1>2, <1>4, RowNext
  <2>2. QED
    BY <1>1, <1>3, <2>1
<1>6. ToCome' = ToCome
  BY <1>1, <1>2, <1>4, NothingTaken
<1>7. RowsInv'
  BY <1>1, <1>5, Zenon DEF RowsInv
<1>8. ListInv'
  <2>1. Closed = MeantAt[h][c.line]
    BY <1>1, <1>2, ClosedIs
  <2>2. Finally' = Finally
    BY <1>1, <2>1, Zenon DEF Finally
  <2>3. QED
    BY <1>2, <1>3, <1>6, <2>2, Zenon DEF ListInv
<1>9. QED
  BY <1>7, <1>8

\* At the end of a hunk all its notes have their comments.
LEMMA NothingInHunk ==
  ASSUME TypeInv, WellFormed, Following, Phases, ListInv, pc = "line",
         i > Len(hunk)
  PROVE  comments \o LaterNotes(h + 1) = MeantComments
<1>1. ~Waiting /\ i = Len(hunk) + 1
  BY EndPhases
<1>2. /\ annotated \in Seq(ManualHunks) /\ h \in 1..Len(annotated)
      /\ hunk = annotated[h]
  BY ReadingShape
<1>3. NotesFrom(h, i) = <<>>
  BY <1>1, <1>2, NotesShape
<1>4. ToCome = LaterNotes(h + 1)
  <2>1. LaterNotes(h + 1) \in Seq(Remark)
    BY ListShape
  <2>2. QED
    BY <1>3, <2>1, ConcatEmptySeq DEF ToCome
<1>5. Finally = comments
  BY <1>1, Zenon DEF Finally
<1>6. QED
  BY <1>4, <1>5 DEF ListInv

LEMMA HunkEndReads ==
  ASSUME TypeInv, WellFormed, Following, Phases, RowsInv, ListInv, HunkEnd
  PROVE  RowsInv' /\ ListInv'
<1>1. /\ ~Waiting' /\ h < Len(patch) /\ h' = h + 1 /\ i' = 1
      /\ row' = RangeStart(h + 1) /\ comments' = comments
      /\ pc' = pc /\ source' = source /\ pc = "line"
  BY HunkEndPhases
<1>2. i > Len(hunk) /\ pc' # "done"
  BY <1>1 DEF HunkEnd
<1>3. /\ annotated \in Seq(ManualHunks) /\ h \in 1..Len(annotated)
      /\ patch = annotated /\ Len(annotated) \in Nat
  BY <1>1, ReadingShape
<1>4. h + 1 \in 1..Len(annotated) /\ h + 1 \in Nat /\ h + 1 \in 1..Len(annotated) + 1
      /\ h + 1 + 1 \in 1..Len(annotated) + 1
  BY <1>1, <1>3
<1>5. Row' = Row /\ Pieces' = Pieces /\ AllMeant' = AllMeant
      /\ MeantComments' = MeantComments
  BY <1>1, SameMeant
<1>6. row' = Row'[h'][i']
  <2>1. Row[h + 1][1] = RangeStart(h + 1)
    BY <1>4, RowShape
  <2>2. QED
    BY <1>1, <1>5, <2>1
<1>7. ToCome' = LaterNotes(h + 1)
  <2>1. ToCome' = NotesFrom(h + 1, 1) \o LaterNotes(h + 1 + 1)
    BY <1>1, <1>5 DEF ToCome, NotesFrom, LaterNotes
  <2>2. LaterNotes(h + 1) = NotesFrom(h + 1, 1) \o LaterNotes(h + 1 + 1)
    BY <1>3, <1>4, LaterShape
  <2>3. QED
    BY <2>1, <2>2
<1>8. comments \o LaterNotes(h + 1) = MeantComments
  BY <1>1, <1>2, NothingInHunk
<1>9. Finally' = comments
  BY <1>1, Zenon DEF Finally
<1>10. RowsInv'
  BY <1>1, <1>6, Zenon DEF RowsInv
<1>11. ListInv'
  BY <1>2, <1>5, <1>7, <1>8, <1>9, Zenon DEF ListInv
<1>12. QED
  BY <1>10, <1>11

LEMMA PatchEndReads ==
  ASSUME TypeInv, WellFormed, Following, Phases, ListInv, PatchEnd
  PROVE  RowsInv' /\ ListInv'
<1>1. /\ pc = "line" /\ i > Len(hunk) /\ h = Len(patch) /\ pc' = "done"
      /\ source' = source /\ comments' = comments
  BY DEF PatchEnd, BreakOff, file
<1>2. /\ annotated \in Seq(ManualHunks) /\ patch = annotated
      /\ comments \in Seq(Remark)
  BY <1>1, ReadingShape, ListShape
<1>3. comments \o LaterNotes(h + 1) = MeantComments
  BY <1>1, NothingInHunk
<1>4. LaterNotes(h + 1) = <<>>
  BY <1>1, <1>2, LaterShape
<1>5. comments = MeantComments
  BY <1>2, <1>3, <1>4, ConcatEmptySeq
<1>6. MeantComments' = MeantComments
  BY <1>1, SameMeant
<1>7. pc' # "line"
  BY <1>1
<1>8. QED
  BY <1>1, <1>5, <1>6, <1>7, Zenon DEF RowsInv, ListInv

\* The parser hands over all hunks, or there is none.
LEMMA ParseReads ==
  ASSUME TypeInv, WellFormed, Following, TypeInv', Parse
  PROVE  RowsInv' /\ ListInv'
<1>1. /\ Following' /\ ~Waiting' /\ h' = 1 /\ i' = 1 /\ row' = RangeStart(1)
      /\ comments' = <<>> /\ source' = source /\ pc \notin {"line", "done"}
  BY ParsePhases
<1>2. /\ Row' = Row /\ Pieces' = Pieces /\ AllMeant' = AllMeant
      /\ MeantComments' = MeantComments /\ annotated' = annotated
  BY <1>1, SameMeant, SameText
<1>3. annotated \in Seq(ManualHunks)
  BY HunksAreManual DEF TypeInv, ParserTypes
<1>4. ASSUME pc' = "line" PROVE row' = Row'[h'][i'] /\ Finally' \o ToCome' = MeantComments'
  <2>1. patch' = annotated /\ h' \in 1..Len(patch')
    BY <1>1, <1>2, <1>4 DEF Following, TypeInv, ScannerTypes
  <2>2. 1 \in 1..Len(annotated)
    BY <1>1, <2>1
  <2>3. row' = Row'[h'][i']
    <3>1. Row[1][1] = RangeStart(1)
      BY RowShape
    <3>2. QED
      BY <1>1, <1>2, <3>1
  <2>4. ToCome' = MeantComments
    <3>1. ToCome' = NotesFrom(1, 1) \o LaterNotes(1 + 1)
      BY <1>1, <1>2 DEF ToCome, NotesFrom, LaterNotes
    <3>2. LaterNotes(1) = NotesFrom(1, 1) \o LaterNotes(1 + 1)
          /\ LaterNotes(1) = MeantComments
      BY <1>3, <2>2, LaterShape
    <3>3. QED
      BY <3>1, <3>2
  <2>5. Finally' = <<>>
    BY <1>1, Zenon DEF Finally
  <2>6. <<>> \o MeantComments = MeantComments
    <3>1. LaterNotes(1) \in Seq(Remark) /\ LaterNotes(1) = MeantComments
      <4>1. 1 \in 1..Len(annotated) + 1
        BY <1>3, LenProperties
      <4>2. QED
        BY <1>3, <4>1, LaterShape
    <3>2. QED
      BY <3>1, ConcatEmptySeq
  <2>7. QED
    BY <1>2, <2>3, <2>4, <2>5, <2>6
<1>5. ASSUME pc' = "done" PROVE comments' = MeantComments'
  <2>1. patch' = annotated
    BY <1>1, <1>2, <1>5 DEF Following
  <2>2. patch' = <<>>
    <3>1. pc' = "done" => patch' = <<>>
      BY DEF Parse, NextParser, SeriesPrelude, NextPatch, PatchPrelude, NextDiff,
             DiffHeader, NewFileMode, IndexLine, FileLine, Hunk, DiffEnd, Fixup,
             FixupAborts, SeriesEnd, ParserFails, Advance, AfterPatch
    <3>2. QED
      BY <1>5, <3>1
  <2>3. MeantComments = <<>>
    <3>1. Len(annotated) = 0
      BY <2>1, <2>2
    <3>2. LaterNotes(0 + 1) = <<>>
      BY <1>3, <3>1, LaterShape
    <3>3. QED
      BY <1>3, <3>2, LaterShape
  <2>4. QED
    BY <1>1, <1>2, <2>3
<1>6. RowsInv'
  BY <1>1, <1>4, Zenon DEF RowsInv
<1>7. QED
  BY <1>4, <1>5, <1>6, Zenon DEF ListInv

LEMMA InitReads == Init => ManualInv
<1> SUFFICES ASSUME Init PROVE ManualInv
  OBVIOUS
<1>1. pc = "series prelude" \/ pc = "prelude"
  BY Zenon DEF Init, InitParser
<1>2. pc # "line" /\ pc # "done"
  BY <1>1
<1>3. QED
  BY <1>2, Zenon DEF ManualInv, RowsInv, ListInv

LEMMA NextReads ==
  ASSUME TypeInv, PhaseInv, ManualInv, Next
  PROVE  ManualInv'
<1>1. source' = source
  BY DEF Next, Parse, NextParser, SeriesPrelude, NextPatch, PatchPrelude,
         NextDiff, DiffHeader, NewFileMode, IndexLine, FileLine, Hunk, DiffEnd,
         Fixup, FixupAborts, SeriesEnd, ParserFails, Advance,
         Note, NoteOverflows, NoteAtEnd, NoteCut, DiffLine, Blank, Open, OpenFails,
         Close, CloseFails, CloseAborts, HunkEnd, PatchEnd, BreakOff, file
<1> SUFFICES ASSUME WellFormed PROVE RowsInv' /\ ListInv'
  BY <1>1, SameText DEF ManualInv
<1>2. Following /\ Phases /\ RowsInv /\ ListInv
  BY DEF PhaseInv, ManualInv
<1>3. TypeInv'
  BY NextTypes
<1>4. ~NoteOverflows /\ ~NoteAtEnd /\ ~NoteCut /\ ~OpenFails /\ ~CloseFails
      /\ ~CloseAborts /\ ~Blank
  BY <1>2, NeverBreaksOff
<1>5. CASE Parse
  BY <1>2, <1>3, <1>5, ParseReads
<1>6. CASE Note
  BY <1>2, <1>6, NoteReads
<1>7. CASE DiffLine
  BY <1>2, <1>7, DiffLineReads
<1>8. CASE Open
  BY <1>2, <1>8, OpenReads
<1>9. CASE Close
  BY <1>2, <1>9, CloseReads
<1>10. CASE HunkEnd
  BY <1>2, <1>10, HunkEndReads
<1>11. CASE PatchEnd
  BY <1>2, <1>11, PatchEndReads
<1>12. QED
  BY <1>4, <1>5, <1>6, <1>7, <1>8, <1>9, <1>10, <1>11, Zenon DEF Next

LEMMA StutterReads ==
  ASSUME ManualInv, UNCHANGED vars
  PROVE  ManualInv'
<1>1. /\ source' = source /\ pc' = pc /\ h' = h /\ i' = i /\ row' = row
      /\ patch' = patch /\ comments' = comments /\ range_start' = range_start
      /\ in_multiline' = in_multiline /\ is_first' = is_first
  BY DEF vars, file, parser, scan
<1>2. c' = c /\ hunk' = hunk
  BY <1>1 DEF c, hunk
<1>3. /\ Row' = Row /\ MeantAt' = MeantAt /\ Pieces' = Pieces /\ AllMeant' = AllMeant
      /\ MeantComments' = MeantComments /\ WellFormed' = WellFormed
  BY <1>1, SameMeant, SameText
<1>4. Waiting' = Waiting
  BY <1>1, <1>2, Zenon DEF Waiting
<1>5. ToCome' = ToCome
  BY <1>1, <1>3 DEF ToCome, NotesFrom, LaterNotes
<1>6. Finally' = Finally
  BY <1>1, <1>2, <1>3, <1>4, Zenon DEF Finally
<1>7. /\ AtRows(i)' = AtRows(i)
      /\ AtRows(range_start + 1)' = AtRows(range_start + 1)
  BY <1>1, <1>2, <1>3 DEF AtRows
<1>8. RowsInv => RowsInv'
  <2>1. row = Row[h][i] => row' = Row'[h'][i']
    BY <1>1, <1>3
  <2>2. QED
    BY <1>1, <1>2, <1>4, <1>7, <2>1, Zenon DEF RowsInv
<1>9. ListInv => ListInv'
  BY <1>1, <1>3, <1>5, <1>6, Zenon DEF ListInv
<1>10. QED
  BY <1>3, <1>8, <1>9, Zenon DEF ManualInv

\* Of an annotated diff that keeps to the manual every note becomes one
\* comment, in order, with the rows before and after the change below it and
\* the lines of that change, whatever the patches, files and hunks
\* (gcli_hunk_get_comments, read_comment).
THEOREM ReadManual == Spec => []ReadsTheManual
<1>1. TypeInv /\ PhaseInv /\ ManualInv /\ [Next]_vars => (TypeInv /\ PhaseInv /\ ManualInv)'
  BY NextTypes, StutterTypes, NextPhases, StutterPhases, NextReads, StutterReads
<1>2. ManualInv => ReadsTheManual
  BY DEF ManualInv, ListInv, ReadsTheManual
<1>3. QED
  BY InitTypes, InitPhases, InitReads, <1>1, <1>2, PTL DEF Spec

=============================================================================
