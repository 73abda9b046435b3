---------------------------- MODULE ActionsProofs ----------------------------
(* Proofs about Actions for lines of any words and any length: the words     *)
(* behind an option, those a handler takes and those the manual gives to an  *)
(* action are compared by their positions in the line.                       *)
EXTENDS Actions, Induction, SequenceTheorems, TLAPS

-----------------------------------------------------------------------------
(* The inductive invariant. *)

\* The position in the line of the first word that is left.
here == Len(line) - Len(args) + 1

Rest(p) == SubSeq(line, p, Len(line))

\* An option may stand at position p, and the word before it is no option that
\* waits for its word.
Boundary(p) ==
  /\ \/ p = 1
     \/ p > 1 /\ IsOption[p - 1] /\ line[p - 1] \in Flags
     \/ p > 2 /\ IsOption[p - 2] /\ line[p - 2] \in WithWord
  /\ p > 1 /\ IsOption[p - 1] => line[p - 1] \in Flags

\* The positions before p of some options, and the word given with the last.
Before(p, options) == {i \in 1..p - 1 : IsOption[i] /\ line[i] \in options}

IsLast(p, options, word) ==
  \/ word = None /\ Before(p, options) = {}
  \/ \E j \in Before(p, options) :
       word = line[j + 1] /\ \A i \in Before(p, options) : i <= j

\* The options before p have been read.
HasRead(p) ==
  /\ Boundary(p)
  /\ IsLast(p, IdOptions, opts.id)
  /\ cmd # "pipelines" => /\ IsLast(p, {"-o"}, opts.o)
                          /\ IsLast(p, {"-r"}, opts.r)
  /\ cmd = "pipelines" => /\ opts.r = None
                          /\ opts.o = None => Before(p, {"-o", "-r"}) = {}
  /\ opts.by = {line[i] : i \in Before(p, IdOptions)}

ReadingOptions ==
  pc = "options" => attempts = <<>> /\ \A p \in Nat : p = here => HasRead(p)

\* The options name the object and the repository as the manual has it.
OptionsKnown ==
  pc \in {"lookup", "handle", "shift", "free", "returned"} \/ attempts # <<>> =>
    /\ opts.id = Given(IdOptions)
    /\ opts.o = Given({"-o"})
    /\ opts.r = Given({"-r"})
    /\ Subject = table

\* While actions are run there are words left, and the object is named.
Running ==
  /\ pc \in {"lookup", "handle", "shift"} => ~ListAsked
  /\ pc \in {"lookup", "handle"} => args # <<>>
  /\ pc = "handle" => name \in ActionsOf(table)

\* The words of the actions that were run and those left are the words of the
\* line; but the last one may be an action that misses its word, and a
\* checkout loses one.
AllWords ==
  ~SkipsWord =>
  /\ pc \in {"lookup", "handle"} => FlattenSeq(attempts) \o args = Words
  /\ pc = "shift" /\ args # <<>> =>
       \/ rc # EX_OK /\ argc = 1
       \/ FlattenSeq(attempts) \o Tail(args) = Words
  /\ pc \in {"free", "returned"} /\ rc = EX_OK /\ ~IgnoresWords =>
       FlattenSeq(attempts) = Words

\* The actions that were run and those the manual reads in the words left are
\* those it reads in the line.
Follows ==
  ~Exceptions =>
    /\ IsPrefix(attempts, Reading)
    /\ pc \in {"lookup", "handle"} => Reading = attempts \o ReadFrom[here]
    /\ pc = "shift" /\ argc > 1 => Reading = attempts \o ReadFrom[here + 1]

Suffix ==
  /\ line \in Seq(STRING \ {None})
  /\ here \in 1..Len(line) + 1
  /\ args = Rest(here)

IInv ==
  /\ TypeOK /\ Suffix /\ ReadingOptions /\ OptionsKnown /\ Running
  /\ AllWords /\ Follows

-----------------------------------------------------------------------------
(* The operators of the manual's reading. *)

\* An option stands at the start, behind a flag or behind an option's word.
LEMMA IsOptionShape ==
  ASSUME Len(line) \in Nat
  PROVE  \A i \in 1..Len(line) :
           IsOption[i] <=>
             /\ line[i] \in WithWord \cup Flags
             /\ \/ i = 1
                \/ i > 1 /\ IsOption[i - 1] /\ line[i - 1] \in Flags
                \/ i > 2 /\ IsOption[i - 2] /\ line[i - 2] \in WithWord
<1> DEFINE top == Len(line)
           B(f, i) == /\ i > 0 => line[i] \in WithWord \cup Flags
                      /\ \/ i <= 1
                         \/ f[i - 1] /\ line[i - 1] \in Flags
                         \/ i > 2 /\ f[i - 2] /\ line[i - 2] \in WithWord
           Good(f, n) == f = [i \in 0..n |-> B(f, i)]
           S == {n \in 0..top : \E f : Good(f, n)}
<1>1. 0 \in S
  <2> DEFINE h == [j \in 0..0 |-> TRUE]
  <2>1. \A i \in 0..0 : B(h, i) = TRUE
    OBVIOUS
  <2>2. Good(h, 0)
    <3>1. [i \in 0..0 |-> TRUE] = [i \in 0..0 |-> B(h, i)]
      <4> HIDE DEF h, B
      <4>1. QED
        BY <2>1, Zenon
    <3>2. h = [i \in 0..0 |-> TRUE]
      OBVIOUS
    <3> HIDE DEF h, B
    <3>3. QED
      BY <3>1, <3>2, Zenon
  <2>3. 0 \in 0..top
    OBVIOUS
  <2> HIDE DEF Good, h, top
  <2>4. QED
    BY <2>2, <2>3, Zenon
<1>2. ASSUME NEW k \in 0..top - 1, k \in S PROVE k + 1 \in S
  <2>1. PICK f : Good(f, k)
    BY <1>2
  <2> DEFINE g == [i \in 0..k + 1 |-> B(f, i)]
  <2>2. \A i \in 0..k : i \in 0..k + 1 /\ g[i] = f[i]
    <3>1. ASSUME NEW i \in 0..k PROVE g[i] = f[i] /\ i \in 0..k + 1
      <4>1. i \in 0..k + 1
        OBVIOUS
      <4>2. g[i] = B(f, i)
        BY <4>1
      <4>3. f[i] = B(f, i)
        BY <2>1
      <4>4. QED
        BY <4>1, <4>2, <4>3
    <3>2. QED
      BY <3>1
  <2>3. ASSUME NEW i \in 0..k + 1 PROVE B(g, i) = B(f, i)
    <3>1. CASE i <= 1
      <4>1. ~(i > 2)
        BY <3>1
      <4> HIDE DEF g
      <4>2. QED
        BY <3>1, <4>1, Zenon
    <3>2. CASE i > 1 /\ ~(i > 2)
      <4>1. i - 1 \in 0..k
        BY <3>2
      <4>2. g[i - 1] = f[i - 1]
        BY <2>2, <4>1
      <4> HIDE DEF g
      <4>3. QED
        BY <3>2, <4>2, Zenon
    <3>3. CASE i > 2
      <4>1. i - 1 \in 0..k /\ i - 2 \in 0..k
        BY <3>3
      <4>2. g[i - 1] = f[i - 1] /\ g[i - 2] = f[i - 2]
        BY <2>2, <4>1
      <4> HIDE DEF g
      <4>3. QED
        BY <4>2, Zenon
    <3>4. QED
      BY <3>1, <3>2, <3>3
  <2>4. Good(g, k + 1)
    <3>1. [i \in 0..k + 1 |-> B(f, i)] = [i \in 0..k + 1 |-> B(g, i)]
      <4> HIDE DEF g, B
      <4>1. QED
        BY <2>3, Zenon
    <3>2. QED
      BY <3>1, Zenon
  <2>5. k + 1 \in 0..top
    OBVIOUS
  <2>6. QED
    BY <2>4, <2>5
<1>3. top \in S
  <2>1. 0 \in Int /\ top \in Int /\ (0 <= top => 0 \in S)
    BY <1>1
  <2>2. \A k \in 0..top - 1 : k \in S => k + 1 \in S
    BY <1>2
  <2>3. \A k \in 0..top : k \in S
    <3> HIDE DEF S, top
    <3>1. QED
      BY <2>1, <2>2, InductUpTo, Zenon
  <2>4. QED
    BY <2>3
<1>4. Good(IsOption, top)
  <2>1. \E f : Good(f, top)
    BY <1>3
  <2>2. IsOption = CHOOSE f : Good(f, top)
    BY Zenon DEF IsOption
  <2> HIDE DEF Good
  <2>3. QED
    BY <2>1, <2>2, Zenon
<1>5. ASSUME NEW i \in 1..top
      PROVE  IsOption[i] <=>
               /\ line[i] \in WithWord \cup Flags
               /\ \/ i = 1
                  \/ i > 1 /\ IsOption[i - 1] /\ line[i - 1] \in Flags
                  \/ i > 2 /\ IsOption[i - 2] /\ line[i - 2] \in WithWord
  <2>1. /\ i \in 0..top /\ i > 0 /\ (i <= 1 <=> i = 1) /\ (i <= 1 <=> ~(i > 1))
        /\ (i > 2 => i > 1)
    OBVIOUS
  <2>2. IsOption[i] = B(IsOption, i)
    <3> HIDE DEF B
    <3>1. QED
      BY <1>4, <2>1, Zenon
  <2>3. QED
    BY <2>1, <2>2, Zenon
<1>6. QED
  BY <1>5

\* The options of a subcommand.
LEMMA OptionSets ==
  ASSUME cmd \in DOMAIN OptionsOf
  PROVE  /\ cmd \in {"pulls", "issues", "milestones", "pipelines"}
         /\ WithWord \cap Flags = {}
         /\ WithWord \cup Flags \subseteq Dashed
         /\ {"-o", "-r"} \subseteq WithWord
         /\ (IdOptions \cup {"-o", "-r"}) \cap Flags = {}
         /\ IdOptions \cap WithWord = IF cmd = "pipelines" THEN {"-p", "-j"} ELSE {"-i"}
<1>1. cmd \in {"pulls", "issues", "milestones", "pipelines"}
  BY DEF OptionsOf
<1>6. ASSUME Flags \subseteq {"-a", "-s"} PROVE WithWord \cup Flags \subseteq Dashed
  <2> DEFINE words == UNION {OptionsOf[c].word : c \in DOMAIN OptionsOf}
  <2>1. WithWord \in {OptionsOf[c].word : c \in DOMAIN OptionsOf}
    BY DEF WithWord
  <2>2. WithWord \subseteq words
    BY <2>1, Zenon
  <2>3. Dashed = Squash \cup InhibitDelete \cup words \cup {"-a", "-d", "-x"}
    BY DEF Dashed
  <2> HIDE DEF words
  <2>4. QED
    BY <1>6, <2>2, <2>3 DEF Squash
<1>2. CASE cmd = "pulls"
  <2>1. WithWord = PullOptions.word /\ Flags = PullOptions.flag
    BY <1>2 DEF WithWord, Flags, OptionsOf
  <2>2. /\ WithWord \cap Flags = {} /\ {"-o", "-r"} \subseteq WithWord
        /\ Flags \subseteq {"-a", "-s"}
    BY <2>1 DEF PullOptions
  <2>3. IdOptions \cap WithWord =
          IF cmd = "pipelines" THEN {"-p", "-j"} ELSE {"-i"}
    BY <1>2, <2>1 DEF PullOptions, IdOptions
  <2>4. (IdOptions \cup {"-o", "-r"}) \cap Flags = {}
    BY <2>2 DEF IdOptions
  <2>5. QED
    BY <1>1, <1>6, <2>2, <2>3, <2>4
<1>3. CASE cmd = "issues"
  <2>1. WithWord = IssueOptions.word /\ Flags = IssueOptions.flag
    BY <1>3 DEF WithWord, Flags, OptionsOf
  <2>2. /\ WithWord \cap Flags = {} /\ {"-o", "-r"} \subseteq WithWord
        /\ Flags \subseteq {"-a", "-s"}
    BY <2>1 DEF IssueOptions
  <2>3. IdOptions \cap WithWord =
          IF cmd = "pipelines" THEN {"-p", "-j"} ELSE {"-i"}
    BY <1>3, <2>1 DEF IssueOptions, IdOptions
  <2>4. (IdOptions \cup {"-o", "-r"}) \cap Flags = {}
    BY <2>2 DEF IdOptions
  <2>5. QED
    BY <1>1, <1>6, <2>2, <2>3, <2>4
<1>4. CASE cmd = "milestones"
  <2>1. WithWord = MilestoneOptions.word /\ Flags = MilestoneOptions.flag
    BY <1>4 DEF WithWord, Flags, OptionsOf
  <2>2. /\ WithWord \cap Flags = {} /\ {"-o", "-r"} \subseteq WithWord
        /\ Flags \subseteq {"-a", "-s"}
    BY <2>1 DEF MilestoneOptions
  <2>3. IdOptions \cap WithWord =
          IF cmd = "pipelines" THEN {"-p", "-j"} ELSE {"-i"}
    BY <1>4, <2>1 DEF MilestoneOptions, IdOptions
  <2>4. (IdOptions \cup {"-o", "-r"}) \cap Flags = {}
    BY <2>2 DEF IdOptions
  <2>5. QED
    BY <1>1, <1>6, <2>2, <2>3, <2>4
<1>5. CASE cmd = "pipelines"
  <2>1. WithWord = PipelineOptions.word /\ Flags = PipelineOptions.flag
    BY <1>5 DEF WithWord, Flags, OptionsOf
  <2>2. /\ WithWord \cap Flags = {} /\ {"-o", "-r"} \subseteq WithWord
        /\ Flags \subseteq {"-a", "-s"}
    BY <2>1 DEF PipelineOptions
  <2>3. IdOptions \cap WithWord =
          IF cmd = "pipelines" THEN {"-p", "-j"} ELSE {"-i"}
    BY <1>5, <2>1 DEF PipelineOptions, IdOptions
  <2>4. (IdOptions \cup {"-o", "-r"}) \cap Flags = {}
    BY <2>2 DEF IdOptions
  <2>5. QED
    BY <1>1, <1>6, <2>2, <2>3, <2>4
<1>7. QED
  BY <1>1, <1>2, <1>3, <1>4, <1>5

\* Behind a flag, and behind an option and its word, there may be an option;
\* the word of an option is none.
LEMMA BoundaryMoves ==
  ASSUME cmd \in DOMAIN OptionsOf, Len(line) \in Nat,
         NEW p \in 1..Len(line), Boundary(p)
  PROVE  /\ IsOption[p] <=> line[p] \in WithWord \cup Flags
         /\ line[p] \in Flags => Boundary(p + 1)
         /\ line[p] \in WithWord /\ p < Len(line) =>
              Boundary(p + 2) /\ ~IsOption[p + 1]
<1>1. WithWord \cap Flags = {}
  BY OptionSets
<1>2. IsOption[p] <=> line[p] \in WithWord \cup Flags
  BY IsOptionShape DEF Boundary
<1>3. ASSUME line[p] \in Flags PROVE Boundary(p + 1)
  <2>1. p + 1 > 1 /\ (p + 1) - 1 = p
    OBVIOUS
  <2>2. QED
    BY <1>2, <1>3, <2>1 DEF Boundary
<1>4. ASSUME line[p] \in WithWord, p < Len(line)
      PROVE  Boundary(p + 2) /\ ~IsOption[p + 1]
  <2>1. /\ p + 1 \in 1..Len(line) /\ (p + 1) - 1 = p /\ (p + 1) - 2 = p - 1
        /\ p + 1 # 1 /\ (p + 1 > 2 => p > 1)
        /\ p + 2 > 2 /\ p + 2 > 1 /\ (p + 2) - 2 = p /\ (p + 2) - 1 = p + 1
    BY <1>4
  <2>2. line[p] \notin Flags
    BY <1>1, <1>4
  <2>3. ~(p > 1 /\ IsOption[p - 1] /\ line[p - 1] \in WithWord)
    BY <1>1 DEF Boundary
  <2>4. IsOption[p + 1] <=>
          /\ line[p + 1] \in WithWord \cup Flags
          /\ \/ p + 1 = 1
             \/ p + 1 > 1 /\ IsOption[(p + 1) - 1] /\ line[(p + 1) - 1] \in Flags
             \/ p + 1 > 2 /\ IsOption[(p + 1) - 2] /\ line[(p + 1) - 2] \in WithWord
    BY <2>1, IsOptionShape
  <2>5. ~IsOption[p + 1]
    BY <2>1, <2>2, <2>3, <2>4, Zenon
  <2>6. IsOption[p]
    BY <1>2, <1>4
  <2>7. Boundary(p + 2)
    BY <1>4, <2>1, <2>5, <2>6, Zenon DEF Boundary
  <2>8. QED
    BY <2>5, <2>7
<1>5. QED
  BY <1>2, <1>3, <1>4

\* The options end where the next word is none.
Ends(p) ==
  /\ p \in 1..Len(line) + 1
  /\ Boundary(p)
  /\ p <= Len(line) => line[p] \notin WithWord \cup Flags

LEMMA NoneBehind ==
  ASSUME cmd \in DOMAIN OptionsOf, Len(line) \in Nat, NEW p, Ends(p)
  PROVE  \A i \in p..Len(line) : ~IsOption[i]
<1> DEFINE top == Len(line)
           S == {i \in p..top : ~IsOption[i] /\ (i < top => ~IsOption[i + 1])}
<1>1. p \in 1..top + 1 /\ top \in Nat
  BY DEF Ends
<1>2. \A i \in 1..top :
        IsOption[i] =>
          \/ i = 1
          \/ i > 1 /\ IsOption[i - 1]
          \/ i > 2 /\ IsOption[i - 2]
  BY IsOptionShape
<1>3. ASSUME p <= top PROVE ~IsOption[p] /\ (p < top => ~IsOption[p + 1])
  <2>1. p \in 1..top /\ line[p] \notin WithWord \cup Flags /\ Boundary(p)
    BY <1>1, <1>3 DEF Ends
  <2>2. ~IsOption[p]
    BY <2>1, BoundaryMoves
  <2>3. ASSUME p < top PROVE ~IsOption[p + 1]
    <3>1. /\ p + 1 \in 1..top /\ (p + 1) - 1 = p /\ (p + 1) - 2 = p - 1
          /\ p + 1 # 1 /\ (p + 1 > 2 => p > 1)
      BY <2>1, <2>3
    <3>2. ~(p > 1 /\ IsOption[p - 1] /\ line[p - 1] \in WithWord)
      BY <2>1, OptionSets DEF Boundary
    <3>3. IsOption[p + 1] <=>
            /\ line[p + 1] \in WithWord \cup Flags
            /\ \/ p + 1 = 1
               \/ p + 1 > 1 /\ IsOption[(p + 1) - 1] /\ line[(p + 1) - 1] \in Flags
               \/ p + 1 > 2 /\ IsOption[(p + 1) - 2] /\ line[(p + 1) - 2] \in WithWord
      BY <3>1, IsOptionShape
    <3>4. QED
      BY <2>2, <3>1, <3>2, <3>3, Zenon
  <2>4. QED
    BY <2>2, <2>3
<1>4. ASSUME NEW i \in p..top - 1, i \in S PROVE i + 1 \in S
  <2>1. i + 1 \in p..top /\ ~IsOption[i] /\ ~IsOption[i + 1]
    BY <1>1, <1>4
  <2>2. ASSUME i + 1 < top PROVE ~IsOption[(i + 1) + 1]
    <3>1. /\ i + 2 \in 1..top /\ (i + 1) + 1 = i + 2 /\ (i + 2) - 1 = i + 1
          /\ (i + 2) - 2 = i /\ i + 2 # 1
      BY <1>1, <2>1, <2>2
    <3>2. IsOption[i + 2] =>
            \/ i + 2 = 1
            \/ i + 2 > 1 /\ IsOption[(i + 2) - 1]
            \/ i + 2 > 2 /\ IsOption[(i + 2) - 2]
      BY <1>2, <3>1
    <3>3. QED
      BY <2>1, <3>1, <3>2, Zenon
  <2>3. QED
    BY <2>1, <2>2
<1>5. \A i \in p..top : i \in S
  <2>1. p \in Int /\ top \in Int /\ (p <= top => p \in S)
    BY <1>1, <1>3
  <2>2. \A i \in p..top - 1 : i \in S => i + 1 \in S
    BY <1>4
  <2> HIDE DEF S, top
  <2>3. QED
    BY <2>1, <2>2, InductUpTo, Zenon
<1>6. QED
  BY <1>5

\* The first word that is no option is where the options end.
LEMMA EndIsFirstWord ==
  ASSUME cmd \in DOMAIN OptionsOf, Len(line) \in Nat, NEW p, Ends(p)
  PROVE  /\ OptionAt = {i \in 1..p - 1 : IsOption[i]}
         /\ FirstWord = p
<1>1. p \in 1..Len(line) + 1 /\ Boundary(p)
  BY DEF Ends
<1>2. \A i \in p..Len(line) : ~IsOption[i]
  BY NoneBehind
<1>3. \A i \in 1..Len(line) : i < p \/ i \in p..Len(line)
  BY <1>1
<1>4. OptionAt = {i \in 1..p - 1 : IsOption[i]}
  <2>1. ASSUME NEW i \in OptionAt PROVE i \in 1..p - 1 /\ IsOption[i]
    <3>1. i \in 1..Len(line) /\ IsOption[i]
      BY DEF OptionAt
    <3>2. i < p
      BY <1>2, <1>3, <3>1
    <3>3. QED
      BY <1>1, <3>1, <3>2
  <2>2. ASSUME NEW i \in 1..p - 1, IsOption[i] PROVE i \in OptionAt
    <3>1. i \in 1..Len(line) /\ (i = Len(line) => p > 1 /\ i = p - 1)
      BY <1>1
    <3>2. i = Len(line) => line[i] \in Flags
      BY <1>1, <2>2, <3>1 DEF Boundary
    <3>3. QED
      BY <2>2, <3>1, <3>2 DEF OptionAt
  <2>3. OptionAt \subseteq Nat
    BY DEF OptionAt
  <2>4. QED
    BY <2>1, <2>2
<1> DEFINE end(i) == IF line[i] \in Flags THEN i ELSE i + 1
           M == {0} \cup {end(i) : i \in OptionAt}
<1>5. ASSUME NEW i \in OptionAt PROVE end(i) \in Int /\ end(i) <= p - 1
  <2>1. i \in 1..p - 1 /\ IsOption[i]
    BY <1>4
  <2>2. i = p - 1 => line[i] \in Flags
    BY <1>1, <2>1 DEF Boundary
  <2>3. QED
    BY <1>1, <2>1, <2>2
<1>6. M \in SUBSET Int /\ M # {} /\ \A x \in M : x <= p - 1
  BY <1>1, <1>5
<1>7. p - 1 \in M
  <2>1. CASE p = 1
    BY <2>1
  <2>2. CASE p > 1 /\ IsOption[p - 1] /\ line[p - 1] \in Flags
    <3>1. p - 1 \in 1..p - 1
      BY <1>1, <2>2
    <3>2. p - 1 \in OptionAt
      BY <1>4, <2>2, <3>1
    <3>3. end(p - 1) = p - 1
      BY <2>2
    <3>4. QED
      BY <3>2, <3>3, Zenon
  <2>3. CASE p > 2 /\ IsOption[p - 2] /\ line[p - 2] \in WithWord
    <3>1. p - 2 \in 1..p - 1 /\ (p - 2) + 1 = p - 1
      BY <1>1, <2>3
    <3>2. p - 2 \in OptionAt
      BY <1>4, <2>3, <3>1
    <3>3. end(p - 2) = p - 1
      BY <2>3, <3>1, OptionSets
    <3>4. QED
      BY <3>2, <3>3, Zenon
  <2>4. QED
    BY <1>1, <2>1, <2>2, <2>3 DEF Boundary
<1>8. Max(M) = p - 1
  <2> HIDE DEF M
  <2>1. p - 1 \in Int
    BY <1>1
  <2>2. Max(M) \in M /\ \A x \in M : x <= Max(M)
    BY <1>6, <2>1, MaxShape, Zenon
  <2>3. Max(M) \in Int /\ Max(M) <= p - 1 /\ p - 1 <= Max(M)
    BY <1>6, <1>7, <2>2, Zenon
  <2>4. QED
    BY <2>1, <2>3
<1>9. FirstWord = Max(M) + 1
  BY DEF FirstWord
<1>10. QED
  BY <1>1, <1>4, <1>8, <1>9

\* The word given with the last of some options is the one they were read with.
LEMMA LastIsGiven ==
  ASSUME cmd \in DOMAIN OptionsOf, Len(line) \in Nat, NEW p, Ends(p),
         NEW options, NEW word, IsLast(p, options, word)
  PROVE  Given(options) = word
<1> DEFINE P == {i \in OptionAt : line[i] \in options}
<1>1. p \in 1..Len(line) + 1 /\ P = Before(p, options)
  BY EndIsFirstWord DEF Ends, Before
<1>2. CASE word = None /\ Before(p, options) = {}
  BY <1>1, <1>2 DEF Given
<1>3. CASE \E j \in Before(p, options) :
             word = line[j + 1] /\ \A i \in Before(p, options) : i <= j
  <2>1. PICK j \in P : word = line[j + 1] /\ \A i \in P : i <= j
    BY <1>1, <1>3
  <2>2. P \in SUBSET Int /\ P # {} /\ j \in Int
    BY <1>1 DEF Before
  <2>3. Max(P) \in P /\ \A i \in P : i <= Max(P)
    <3> HIDE DEF P
    <3>1. QED
      BY <2>1, <2>2, MaxShape, Zenon
  <2>4. Max(P) = j
    <3> HIDE DEF P
    <3>1. Max(P) \in Int /\ Max(P) <= j /\ j <= Max(P)
      BY <2>1, <2>2, <2>3, Zenon
    <3>2. QED
      BY <2>2, <3>1
  <2>5. Given(options) = IF P = {} THEN None ELSE line[Max(P) + 1]
    BY DEF Given
  <2>6. QED
    BY <2>1, <2>2, <2>4, <2>5
<1>4. QED
  BY <1>2, <1>3 DEF IsLast

\* The pairs behind `labels' are in the line, and a handler that stops at the
\* first that is none takes all of them.
LEMMA LabelPairsMax ==
  ASSUME NEW words, Len(words) \in Nat, NEW i \in 1..Len(words)
  PROVE  /\ Max(LabelPairs(i, words)) \in Nat
         /\ i + 2 * Max(LabelPairs(i, words)) <= Len(words)
         /\ \A k \in LabelPairs(i, words) :
              k + 1 \notin LabelPairs(i, words) => k = Max(LabelPairs(i, words))
<1> DEFINE L == LabelPairs(i, words)
           m == Max(L)
<1>1. /\ L \in SUBSET Int /\ 0 \in L /\ L # {} /\ Len(words) \in Int
      /\ \A x \in L : x <= Len(words)
  BY DEF LabelPairs
<1>2. m \in L /\ \A x \in L : x <= m
  <2> HIDE DEF L
  <2>1. QED
    BY <1>1, MaxShape, Zenon
<1>3. \A k \in L : /\ k \in 0..Len(words)
                   /\ \A j \in 1..k : /\ i + 2 * j <= Len(words)
                                      /\ words[i + 2 * j - 1] \in {"add", "remove"}
  BY DEF LabelPairs
<1>4. m \in 0..Len(words)
  BY <1>2, <1>3
<1>5. i + 2 * m <= Len(words)
  <2>1. CASE m = 0
    BY <2>1
  <2>2. CASE m # 0
    <3>1. m \in 1..m
      BY <1>4, <2>2
    <3>2. QED
      BY <1>2, <1>3, <3>1
  <2>3. QED
    BY <2>1, <2>2
<1>6. ASSUME NEW k \in L, k + 1 \notin L PROVE k = m
  <2>1. k <= m /\ k \in 0..Len(words)
    BY <1>2, <1>3
  <2>2. ASSUME k < m PROVE FALSE
    <3>1. k + 1 \in 0..Len(words) /\ \A j \in 1..k + 1 : j \in 1..m
      BY <1>4, <2>1, <2>2
    <3>2. \A j \in 1..k + 1 : /\ i + 2 * j <= Len(words)
                              /\ words[i + 2 * j - 1] \in {"add", "remove"}
      BY <1>2, <1>3, <3>1
    <3>3. k + 1 \in LabelPairs(i, words)
      BY <3>1, <3>2 DEF LabelPairs
    <3>4. QED
      BY <1>6, <3>3
  <2>3. QED
    BY <1>4, <2>1, <2>2
<1>7. m \in Nat
  BY <1>4
<1>8. QED
  BY <1>5, <1>6, <1>7

\* The pairs the handler finds in what is left are those of the line.
LEMMA LabelPairsLeft ==
  ASSUME NEW T, line \in Seq(T), NEW p \in 1..Len(line)
  PROVE  LabelPairs(1, Rest(p)) = LabelPairs(p, line)
<1> DEFINE d == Rest(p)
<1>1. /\ Len(line) \in Nat /\ Len(d) = Len(line) - p + 1
      /\ \A i \in 1..Len(line) - p + 1 : d[i] = line[p + i - 1]
  BY SuffixShape DEF Rest
<1> HIDE DEF d
<1>2. ASSUME NEW j \in Nat \ {0}
      PROVE  (/\ 1 + 2 * j <= Len(d)
              /\ d[1 + 2 * j - 1] \in {"add", "remove"})
             <=> (/\ p + 2 * j <= Len(line)
                  /\ line[p + 2 * j - 1] \in {"add", "remove"})
  <2>1. CASE p + 2 * j <= Len(line)
    <3>1. /\ 1 + 2 * j - 1 \in 1..Len(line) - p + 1 /\ 1 + 2 * j <= Len(d)
          /\ p + (1 + 2 * j - 1) - 1 = p + 2 * j - 1
      BY <1>1, <2>1
    <3>2. d[1 + 2 * j - 1] = line[p + 2 * j - 1]
      BY <1>1, <3>1
    <3>3. QED
      BY <2>1, <3>1, <3>2
  <2>2. CASE ~(p + 2 * j <= Len(line))
    <3>1. ~(1 + 2 * j <= Len(d))
      BY <1>1, <2>2
    <3>2. QED
      BY <2>2, <3>1
  <2>3. QED
    BY <2>1, <2>2
<1>3. ASSUME NEW k \in LabelPairs(1, d) PROVE k \in LabelPairs(p, line)
  <2>1. k \in 0..Len(d) /\ \A j \in 1..k : /\ 1 + 2 * j <= Len(d)
                                          /\ d[1 + 2 * j - 1] \in {"add", "remove"}
    BY DEF LabelPairs
  <2>2. k \in 0..Len(line)
    BY <1>1, <2>1
  <2>3. \A j \in 1..k : /\ p + 2 * j <= Len(line)
                        /\ line[p + 2 * j - 1] \in {"add", "remove"}
    BY <1>2, <2>1
  <2>4. QED
    BY <2>2, <2>3 DEF LabelPairs
<1>4. ASSUME NEW k \in LabelPairs(p, line) PROVE k \in LabelPairs(1, d)
  <2>1. k \in 0..Len(line)
        /\ \A j \in 1..k : /\ p + 2 * j <= Len(line)
                           /\ line[p + 2 * j - 1] \in {"add", "remove"}
    BY DEF LabelPairs
  <2>2. k \in 0..Len(d)
    <3>1. CASE k = 0
      BY <1>1, <3>1
    <3>2. CASE k # 0
      <4>1. k \in 1..k
        BY <2>1, <3>2
      <4>2. p + 2 * k <= Len(line)
        BY <2>1, <4>1
      <4>3. QED
        BY <1>1, <2>1, <4>2
    <3>3. QED
      BY <3>1, <3>2
  <2>3. \A j \in 1..k : /\ 1 + 2 * j <= Len(d)
                        /\ d[1 + 2 * j - 1] \in {"add", "remove"}
    BY <1>2, <2>1
  <2>4. QED
    BY <2>2, <2>3 DEF LabelPairs
<1>5. QED
  BY <1>3, <1>4 DEF d

\* The option words behind `merge' are in the line; a handler that takes one
\* at most takes all of them if there are no more.
LEMMA MergeOptionsMax ==
  ASSUME Len(line) \in Nat, NEW i \in 1..Len(line)
  PROVE  /\ Max(MergeOptions(i)) \in Nat
         /\ i + Max(MergeOptions(i)) <= Len(line)
         /\ Max(MergeOptions(i)) <= 1 =>
              Max(MergeOptions(i)) =
                IF i < Len(line) /\ line[i + 1] \in Squash \cup InhibitDelete
                THEN 1 ELSE 0
<1> DEFINE L == MergeOptions(i)
           m == Max(L)
<1>1. /\ L \in SUBSET Int /\ 0 \in L /\ L # {} /\ Len(line) - i \in Int
      /\ \A x \in L : x <= Len(line) - i
  <2>1. Len(line) - i \in Nat
    OBVIOUS
  <2>2. L \subseteq 0..Len(line) - i
    BY DEF MergeOptions
  <2>3. 0 \in 0..Len(line) - i /\ 1..0 = {}
    BY <2>1
  <2>4. 0 \in L
    BY <2>3 DEF MergeOptions
  <2> HIDE DEF L
  <2>5. QED
    BY <2>1, <2>2, <2>4
<1>2. m \in L /\ \A x \in L : x <= m
  <2> HIDE DEF L
  <2>1. QED
    BY <1>1, MaxShape, Zenon
<1>3. /\ m \in 0..Len(line) - i
      /\ \A j \in 1..m : line[i + j] \in Squash \cup InhibitDelete
  BY <1>2 DEF MergeOptions
<1>4. ASSUME m <= 1
      PROVE  m = IF i < Len(line) /\ line[i + 1] \in Squash \cup InhibitDelete
                 THEN 1 ELSE 0
  <2>1. CASE i < Len(line) /\ line[i + 1] \in Squash \cup InhibitDelete
    <3>1. 1 \in 0..Len(line) - i /\ \A j \in 1..1 : j = 1
      BY <2>1
    <3>2. 1 \in L
      BY <2>1, <3>1 DEF MergeOptions
    <3>3. 1 <= m
      BY <1>2, <3>2
    <3>4. QED
      BY <1>3, <1>4, <2>1, <3>3
  <2>2. CASE ~(i < Len(line) /\ line[i + 1] \in Squash \cup InhibitDelete)
    <3>1. m # 1
      <4>1. SUFFICES ASSUME m = 1 PROVE FALSE
        OBVIOUS
      <4>2. 1 \in 1..m /\ i < Len(line)
        BY <1>3, <4>1
      <4>3. QED
        BY <1>3, <2>2, <4>2
    <3>2. QED
      BY <1>3, <1>4, <2>2, <3>1
  <2>3. QED
    BY <2>1, <2>2
<1>5. m \in Nat /\ i + m <= Len(line)
  BY <1>3
<1>6. QED
  BY <1>4, <1>5

\* An action has a number of words.
LEMMA SpanShape ==
  ASSUME Len(line) \in Nat, NEW i \in 1..Len(line)
  PROVE  Span(i) \in Nat
<1>1. 2 * Max(LabelPairs(i, line)) \in Nat
  BY LabelPairsMax
<1>2. Max(MergeOptions(i)) \in Nat
  BY MergeOptionsMax
<1>3. QED
  BY <1>1, <1>2 DEF Span

\* The reading from each position is the action there and the reading behind
\* its words.
LEMMA ReadFromIs ==
  ASSUME Len(line) \in Nat
  PROVE  \A i \in 1..Len(line) + 1 :
           ReadFrom[i] =
             IF i > Len(line) \/ ~Readable(i) THEN <<>>
             ELSE <<SubSeq(line, i, i + Span(i))>> \o ReadFrom[i + Span(i) + 1]
<1> DEFINE top == Len(line)
           F(f, i) == IF i > top \/ ~Readable(i) THEN <<>>
                      ELSE <<SubSeq(line, i, i + Span(i))>> \o f[i + Span(i) + 1]
           Good(f, n) == f = [i \in n..top + 1 |-> F(f, i)]
           S == {k \in 0..top : \E f : Good(f, top + 1 - k)}
<1>1. 0 \in S
  <2> DEFINE h == [i \in top + 1..top + 1 |-> <<>>]
  <2>1. \A i \in top + 1..top + 1 : F(h, i) = <<>>
    <3>1. \A i \in top + 1..top + 1 : i > top
      OBVIOUS
    <3> HIDE DEF h
    <3>2. QED
      BY <3>1, Zenon
  <2>2. h = [i \in top + 1..top + 1 |-> F(h, i)]
    <3>1. h = [i \in top + 1..top + 1 |-> <<>>]
      OBVIOUS
    <3> HIDE DEF h, F
    <3>2. QED
      BY <2>1, <3>1, Zenon
  <2>3. 0 \in 0..top /\ top + 1 - 0 = top + 1
    OBVIOUS
  <2> HIDE DEF h, F, top
  <2>4. QED
    BY <2>2, <2>3, Zenon
<1>2. ASSUME NEW k \in 0..top - 1, k \in S PROVE k + 1 \in S
  <2> DEFINE n == top - k
  <2>1. n \in 1..top /\ top + 1 - k = n + 1 /\ top + 1 - (k + 1) = n
    OBVIOUS
  <2>2. PICK f : Good(f, n + 1)
    BY <1>2, <2>1
  <2> DEFINE g == [i \in n..top + 1 |-> F(f, i)]
  <2> HIDE DEF n
  <2>3. \A i \in n + 1..top + 1 : g[i] = f[i]
    <3>1. ASSUME NEW i \in n + 1..top + 1 PROVE g[i] = f[i]
      <4>1. i \in n..top + 1
        BY <2>1
      <4> HIDE DEF F
      <4>2. g[i] = F(f, i) /\ f[i] = F(f, i)
        BY <2>2, <4>1, Zenon
      <4>3. QED
        BY <4>2, Zenon
    <3>2. QED
      BY <3>1
  <2>4. ASSUME NEW i \in n..top + 1 PROVE F(g, i) = F(f, i)
    <3>1. CASE i > top \/ ~Readable(i)
      <4> HIDE DEF g
      <4>1. QED
        BY <3>1, Zenon
    <3>2. CASE ~(i > top) /\ Readable(i)
      <4>1. i \in 1..Len(line)
        BY <2>1, <3>2
      <4>2. Span(i) \in Nat /\ i + Span(i) <= Len(line)
        BY <3>2, <4>1, SpanShape DEF Readable
      <4>3. i + Span(i) + 1 \in n + 1..top + 1
        BY <2>1, <4>1, <4>2
      <4>4. g[i + Span(i) + 1] = f[i + Span(i) + 1]
        BY <2>3, <4>3
      <4> HIDE DEF g
      <4>5. QED
        BY <3>2, <4>4, Zenon
    <3>3. QED
      BY <3>1, <3>2
  <2>5. Good(g, n)
    <3>1. [i \in n..top + 1 |-> F(f, i)] = [i \in n..top + 1 |-> F(g, i)]
      <4> HIDE DEF g, F
      <4>1. QED
        BY <2>4, Zenon
    <3>2. QED
      BY <3>1, Zenon
  <2>6. k + 1 \in 0..top
    OBVIOUS
  <2> HIDE DEF g, F, Good, top
  <2>7. QED
    BY <2>1, <2>5, <2>6, Zenon
<1>3. top \in S
  <2>1. 0 \in Int /\ top \in Int /\ (0 <= top => 0 \in S) /\ top \in 0..top
    BY <1>1
  <2>2. \A k \in 0..top - 1 : k \in S => k + 1 \in S
    BY <1>2
  <2> HIDE DEF S, top
  <2>3. QED
    BY <2>1, <2>2, InductUpTo, Zenon
<1>4. Good(ReadFrom, 1)
  <2>1. top + 1 - top = 1
    OBVIOUS
  <2>2. \E f : Good(f, 1)
    <3> HIDE DEF Good, top
    <3>1. QED
      BY <1>3, <2>1
  <2>3. ReadFrom = CHOOSE f : Good(f, 1)
    BY Zenon DEF ReadFrom
  <2> HIDE DEF Good
  <2>4. QED
    BY <2>2, <2>3, Zenon
<1>5. ASSUME NEW i \in 1..top + 1 PROVE ReadFrom[i] = F(ReadFrom, i)
  <2> HIDE DEF F
  <2>1. QED
    BY <1>4, Zenon
<1>6. QED
  BY <1>5, Zenon

\* A reading is a sequence of sequences of words.
LEMMA ReadFromType ==
  ASSUME NEW T, line \in Seq(T)
  PROVE  \A i \in 1..Len(line) + 1 : ReadFrom[i] \in Seq(Seq(T))
<1> DEFINE top == Len(line)
           S == {n \in Nat : \A i \in 1..top + 1 :
                   i >= top + 1 - n => ReadFrom[i] \in Seq(Seq(T))}
<1>1. top \in Nat
  OBVIOUS
<1>2. ASSUME NEW i \in 1..top + 1,
             \A j \in 1..top + 1 : j > i => ReadFrom[j] \in Seq(Seq(T))
      PROVE  ReadFrom[i] \in Seq(Seq(T))
  <2>1. CASE i > Len(line) \/ ~Readable(i)
    <3>1. ReadFrom[i] = <<>>
      BY <1>1, <2>1, ReadFromIs
    <3>2. QED
      BY <3>1, EmptySeq
  <2>2. CASE ~(i > Len(line)) /\ Readable(i)
    <3>1. i \in 1..Len(line)
      BY <1>1, <2>2
    <3>2. Span(i) \in Nat /\ i + Span(i) <= Len(line)
      BY <1>1, <2>2, <3>1, SpanShape DEF Readable
    <3>3. i + Span(i) + 1 \in 1..top + 1 /\ i + Span(i) + 1 > i
          /\ Span(i) \in 0..Len(line) - i
      BY <1>1, <3>1, <3>2
    <3>4. ReadFrom[i + Span(i) + 1] \in Seq(Seq(T))
      BY <1>2, <3>3
    <3>5. SubSeq(line, i, i + Span(i)) \in Seq(T)
      BY <3>1, <3>3, SuffixSplit
    <3>6. <<SubSeq(line, i, i + Span(i))>> \in Seq(Seq(T))
      BY <3>5
    <3>7. ReadFrom[i] = <<SubSeq(line, i, i + Span(i))>> \o ReadFrom[i + Span(i) + 1]
      BY <1>1, <2>2, ReadFromIs
    <3>8. QED
      BY <3>4, <3>6, <3>7, ConcatProperties
  <2>3. QED
    BY <2>1, <2>2
<1>3. 0 \in S
  <2>1. ASSUME NEW i \in 1..top + 1, i >= top + 1 - 0
        PROVE  ReadFrom[i] \in Seq(Seq(T))
    <3>1. \A j \in 1..top + 1 : ~(j > i)
      BY <1>1, <2>1
    <3>2. QED
      BY <1>2, <3>1
  <2>2. QED
    BY <2>1
<1>4. ASSUME NEW n \in Nat, n \in S PROVE n + 1 \in S
  <2>1. ASSUME NEW i \in 1..top + 1, i >= top + 1 - (n + 1)
        PROVE  ReadFrom[i] \in Seq(Seq(T))
    <3>1. \A j \in 1..top + 1 : j > i => j >= top + 1 - n
      BY <1>1, <2>1
    <3>2. \A j \in 1..top + 1 : j > i => ReadFrom[j] \in Seq(Seq(T))
      BY <1>4, <3>1
    <3>3. QED
      BY <1>2, <3>2
  <2>2. QED
    BY <2>1
<1>5. \A n \in Nat : n \in S
  <2> HIDE DEF S
  <2>1. QED
    BY <1>3, <1>4, Induct
<1>6. top \in S
  BY <1>1, <1>5
<1>7. \A i \in 1..top + 1 : i >= top + 1 - top
  BY <1>1
<1>8. QED
  BY <1>6, <1>7

-----------------------------------------------------------------------------
(* What a step leaves as it is, and where it leads in the line. *)

\* The line is what was given on the command line.
LEMMA InputStays == ASSUME [Next]_vars PROVE UNCHANGED <<cmd, line, inhibit>>
BY DEF Next, vars, input, ReadOptions, BadOption, Option, Flag, NoSubject,
   NoRepository, List, Begin, Fails, UnknownAction, Fetch, Found, Shift,
   NotEnoughArguments, Free, Handler, PullPrints, PullAsks, PullChanges,
   IssuePrints, IssueAsks, IssueChanges, MilestonePrints, MilestoneAsks,
   PipelinePrints, PipelineAsks, JobPrints, JobAsks, Open, Review, MissingWord,
   WordAction, Title, TitleFails, Artifacts, Labels, Merge, Checkout,
   CheckoutFails, Prints, Asks, OpenUrl, Return

\* So the manual's reading of it stays, too.
LEMMA ReadingStays ==
  ASSUME cmd' = cmd, line' = line
  PROVE  /\ WithWord' = WithWord /\ Flags' = Flags
         /\ IsOption' = IsOption
         /\ OptionAt' = OptionAt
         /\ FirstWord' = FirstWord
         /\ Words' = Words
         /\ Subject' = Subject
         /\ ListAsked' = ListAsked
         /\ Given(IdOptions)' = Given(IdOptions)
         /\ Given({"-o"})' = Given({"-o"})
         /\ Given({"-r"})' = Given({"-r"})
         /\ ReadFrom' = ReadFrom
         /\ Reading' = Reading
         /\ IgnoresWords' = IgnoresWords
         /\ Exceptions' = Exceptions
<1>1. WithWord' = WithWord /\ Flags' = Flags
  BY DEF WithWord, Flags
<1>2. IsOption' = IsOption
  BY DEF IsOption, WithWord, Flags
<1>3. OptionAt' = OptionAt
  BY <1>1, <1>2 DEF OptionAt
<1>4. FirstWord' = FirstWord
  BY <1>1, <1>3 DEF FirstWord
<1>5. Words' = Words
  BY <1>4 DEF Words
<1>6. Subject' = Subject
  BY <1>3 DEF Subject
<1>7. \A S : Given(S)' = Given(S)
  BY <1>3 DEF Given
<1>8. ListAsked' = ListAsked
  BY <1>7 DEF ListAsked
<1>9. ReadFrom' = ReadFrom
  BY DEF ReadFrom, Readable, Span, Subject, OptionAt, IsOption, WithWord, Flags,
     MergeOptions, LabelPairs, ActionsOf
<1>10. Reading' = Reading
  BY <1>4, <1>5, <1>8, <1>9 DEF Reading
<1>11. IgnoresWords' = IgnoresWords
  BY <1>8 DEF IgnoresWords
<1>12. Exceptions' = Exceptions
  BY <1>6 DEF Exceptions, MergeOptions
<1>13. QED
  BY <1>1, <1>2, <1>3, <1>4, <1>5, <1>6, <1>7, <1>8, <1>9, <1>10, <1>11, <1>12

\* A checkout that lost a word stays one.
LEMMA SkipsStays ==
  ASSUME cmd' = cmd, line' = line, attempts' = attempts
  PROVE  SkipsWord' = SkipsWord
<1>1. ListAsked' = ListAsked
  BY ReadingStays
<1>2. QED
  BY <1>1 DEF SkipsWord

LEMMA SkipsGrows ==
  ASSUME cmd' = cmd, line' = line, NEW T, attempts \in Seq(T), NEW x \in T,
         attempts' = Append(attempts, x)
  PROVE  SkipsWord => SkipsWord'
<1>1. ListAsked' = ListAsked
  BY ReadingStays
<1>2. /\ Len(attempts) \in Nat /\ Len(attempts') = Len(attempts) + 1
      /\ \A k \in 1..Len(attempts) : attempts'[k] = attempts[k]
  OBVIOUS
<1>3. 1..Len(attempts) \subseteq 1..Len(attempts')
  BY <1>2
<1>4. QED
  BY <1>1, <1>2, <1>3 DEF SkipsWord

\* What is left of the line.
LEMMA LeftShape ==
  ASSUME Suffix
  PROVE  /\ Len(line) \in Nat /\ argc \in Nat
         /\ argc = Len(line) - here + 1
         /\ args \in Seq(STRING \ {None})
         /\ args # <<>> <=> here \in 1..Len(line)
         /\ \A i \in 1..argc : args[i] = line[here + i - 1]
         /\ args # <<>> => name = line[here] /\ Tail(args) = Rest(here + 1)
         /\ argc > 1 => args[2] = line[here + 1] /\ Tail(Tail(args)) = Rest(here + 2)
<1>1. /\ line \in Seq(STRING \ {None}) /\ here \in 1..Len(line) + 1
      /\ Len(line) \in Nat
      /\ args = SubSeq(line, here, Len(line))
  BY DEF Suffix, Rest
<1>2. /\ args \in Seq(STRING \ {None})
      /\ argc = Len(line) - here + 1
      /\ \A i \in 1..Len(line) - here + 1 : args[i] = line[here + i - 1]
      /\ here <= Len(line) => args # <<>>
  <2> HIDE DEF here
  <2>1. QED
    BY <1>1, SuffixShape DEF argc
<1>3. args # <<>> <=> here \in 1..Len(line)
  <2>1. here > Len(line) => args = <<>>
    <3> HIDE DEF here
    <3>1. QED
      BY <1>1, SubSeqEmpty
  <2>2. QED
    BY <1>1, <1>2, <2>1
<1>4. here \in 1..Len(line) => name = line[here] /\ Tail(args) = Rest(here + 1)
  <2> HIDE DEF here
  <2>1. QED
    BY <1>1, SuffixTail DEF name, Rest
<1>5. argc > 1 => args[2] = line[here + 1] /\ Tail(Tail(args)) = Rest(here + 2)
  <2>1. SUFFICES ASSUME argc > 1
                 PROVE  args[2] = line[here + 1] /\ Tail(Tail(args)) = Rest(here + 2)
    OBVIOUS
  <2> HIDE DEF here
  <2>2. here \in 1..Len(line) /\ here + 1 \in 1..Len(line)
    BY <1>1, <1>2, <2>1
  <2>3. Tail(SubSeq(line, here + 1, Len(line))) = SubSeq(line, (here + 1) + 1, Len(line))
    BY <1>1, <2>2, SuffixTail
  <2>4. 2 \in 1..Len(line) - here + 1 /\ here + 2 - 1 = here + 1
        /\ (here + 1) + 1 = here + 2
    BY <1>1, <1>2, <2>1
  <2>5. args[2] = line[here + 1]
    BY <1>2, <2>4
  <2>6. QED
    BY <1>4, <2>2, <2>3, <2>4, <2>5 DEF Rest
<1>6. argc \in Nat
  BY <1>2 DEF argc
<1>7. QED
  BY <1>1, <1>2, <1>3, <1>4, <1>5, <1>6

\* A word of what is left is one of the line's.
LEMMA LineWords ==
  ASSUME Suffix
  PROVE  /\ line \in Seq(ToSet(line)) /\ args \in Seq(ToSet(line))
         /\ \A i \in 1..Len(line) : line[i] \in ToSet(line) /\ line[i] # None
<1>1. line \in Seq(STRING \ {None}) /\ Len(line) \in Nat
      /\ here \in 1..Len(line) + 1 /\ args = SubSeq(line, here, Len(line))
  BY DEF Suffix, Rest
<1>2. \A i \in 1..Len(line) : line[i] \in ToSet(line) /\ line[i] # None
  BY <1>1, ElementOfSeq DEF ToSet
<1>3. line \in Seq(ToSet(line))
  BY <1>1, <1>2
<1>4. args \in Seq(ToSet(line))
  <2> HIDE DEF here
  <2>1. QED
    BY <1>1, <1>3, SuffixShape
<1>5. QED
  BY <1>2, <1>3, <1>4

\* Words are taken off the front of the line.
LEMMA Moves ==
  ASSUME Suffix, line' = line, NEW w \in 0..argc, args' = Rest(here + w)
  PROVE  Suffix' /\ here' = here + w
<1>1. /\ line \in Seq(STRING \ {None}) /\ here \in 1..Len(line) + 1
      /\ Len(line) \in Nat /\ argc = Len(line) - here + 1
  BY LeftShape DEF Suffix
<1> DEFINE p == here + w
<1>2. p \in 1..Len(line) + 1
  <2> HIDE DEF here
  <2>1. QED
    BY <1>1
<1>3. Len(args') = Len(line) - p + 1
  <2>1. args' = SubSeq(line, p, Len(line))
    BY DEF Rest
  <2> HIDE DEF p
  <2>2. QED
    BY <1>1, <1>2, <2>1, SuffixShape
<1>4. here' = p
  <2>1. here' = Len(line) - Len(args') + 1
    BY DEF here
  <2> HIDE DEF here
  <2>2. p \in Int
    BY <1>1
  <2> HIDE DEF p
  <2>3. QED
    BY <1>1, <1>3, <2>1, <2>2
<1>5. Suffix'
  <2>1. args' = SubSeq(line', here', Len(line'))
    BY <1>4 DEF Rest
  <2>2. QED
    BY <1>1, <1>2, <1>4, <2>1 DEF Suffix, Rest
<1>6. QED
  BY <1>4, <1>5

-----------------------------------------------------------------------------
(* Options. *)

\* An option that is read adds its position.
LEMMA BeforeMoves ==
  ASSUME cmd \in DOMAIN OptionsOf, Len(line) \in Nat,
         NEW p \in 1..Len(line), Boundary(p), NEW options
  PROVE  /\ line[p] \in Flags =>
              Before(p + 1, options) =
                Before(p, options) \cup (IF line[p] \in options THEN {p} ELSE {})
         /\ line[p] \in WithWord /\ p < Len(line) =>
              Before(p + 2, options) =
                Before(p, options) \cup (IF line[p] \in options THEN {p} ELSE {})
<1>1. IsOption[p] <=> line[p] \in WithWord \cup Flags
  BY BoundaryMoves
<1>2. ASSUME line[p] \in Flags
      PROVE  Before(p + 1, options) =
               Before(p, options) \cup (IF line[p] \in options THEN {p} ELSE {})
  <2>1. \A i \in Int : i \in 1..(p + 1) - 1 <=> i \in 1..p - 1 \/ i = p
    OBVIOUS
  <2>2. p \in Int
    OBVIOUS
  <2>3. QED
    BY <1>1, <1>2, <2>1, <2>2 DEF Before
<1>3. ASSUME line[p] \in WithWord, p < Len(line)
      PROVE  Before(p + 2, options) =
               Before(p, options) \cup (IF line[p] \in options THEN {p} ELSE {})
  <2>1. \A i \in Int : i \in 1..(p + 2) - 1 <=> i \in 1..p - 1 \/ i = p \/ i = p + 1
    OBVIOUS
  <2>2. ~IsOption[p + 1] /\ p \in Int
    BY <1>3, BoundaryMoves
  <2>3. QED
    BY <1>1, <1>3, <2>1, <2>2 DEF Before
<1>4. QED
  BY <1>2, <1>3

\* The option that is read is the last one.
LEMMA LastMoves ==
  ASSUME cmd \in DOMAIN OptionsOf, Len(line) \in Nat,
         NEW p \in 1..Len(line), Boundary(p), NEW options, NEW word,
         IsLast(p, options, word)
  PROVE  /\ line[p] \in Flags \ options => IsLast(p + 1, options, word)
         /\ line[p] \in WithWord \ options /\ p < Len(line) =>
              IsLast(p + 2, options, word)
         /\ line[p] \in WithWord \cap options /\ p < Len(line) =>
              IsLast(p + 2, options, line[p + 1])
<1>1. ASSUME line[p] \in Flags \ options PROVE IsLast(p + 1, options, word)
  <2>1. Before(p + 1, options) = Before(p, options)
    <3>1. Before(p + 1, options) =
            Before(p, options) \cup (IF line[p] \in options THEN {p} ELSE {})
      BY <1>1, BeforeMoves
    <3>2. \A S : S \cup {} = S
      OBVIOUS
    <3>3. QED
      BY <1>1, <3>1, <3>2
  <2>2. QED
    BY <2>1 DEF IsLast
<1>2. ASSUME line[p] \in WithWord \ options, p < Len(line)
      PROVE  IsLast(p + 2, options, word)
  <2>1. Before(p + 2, options) = Before(p, options)
    <3>1. Before(p + 2, options) =
            Before(p, options) \cup (IF line[p] \in options THEN {p} ELSE {})
      BY <1>2, BeforeMoves
    <3>2. \A S : S \cup {} = S
      OBVIOUS
    <3>3. QED
      BY <1>2, <3>1, <3>2
  <2>2. QED
    BY <2>1 DEF IsLast
<1>3. ASSUME line[p] \in WithWord \cap options, p < Len(line)
      PROVE  IsLast(p + 2, options, line[p + 1])
  <2>1. Before(p + 2, options) = Before(p, options) \cup {p}
    BY <1>3, BeforeMoves
  <2>2. \A i \in Before(p, options) : i <= p
    BY DEF Before
  <2>3. p <= p
    OBVIOUS
  <2>4. QED
    BY <2>1, <2>2, <2>3 DEF IsLast
<1>4. QED
  BY <1>1, <1>2, <1>3

\* What was read, after a step.
LEMMA HasReadNext ==
  ASSUME cmd' = cmd, line' = line, NEW q,
         Boundary(q), IsLast(q, IdOptions, opts'.id),
         cmd # "pipelines" => IsLast(q, {"-o"}, opts'.o) /\ IsLast(q, {"-r"}, opts'.r),
         cmd = "pipelines" => /\ opts'.r = None
                              /\ opts'.o = None => Before(q, {"-o", "-r"}) = {},
         opts'.by = {line[i] : i \in Before(q, IdOptions)}
  PROVE  HasRead(q)'
<1>1. IsOption' = IsOption /\ WithWord' = WithWord /\ Flags' = Flags
  BY ReadingStays
<1>2. \A S : Before(q, S)' = Before(q, S)
  BY <1>1 DEF Before
<1>3. Boundary(q)'
  BY <1>1 DEF Boundary
<1>4. /\ IsLast(q, IdOptions, opts.id)'
      /\ cmd # "pipelines" => IsLast(q, {"-o"}, opts.o)' /\ IsLast(q, {"-r"}, opts.r)'
  BY <1>1 DEF IsLast, Before
<1>5. QED
  BY <1>2, <1>3, <1>4 DEF HasRead

\* The types after a step.
OptsType ==
  [o : ToSet(line) \cup {None}, r : ToSet(line) \cup {None},
   id : Numbers \cup {None}, by : SUBSET IdOptions, all : BOOLEAN]

LEMMA TypesNext ==
  ASSUME TypeOK, UNCHANGED <<cmd, line, inhibit>>, Suffix', opts' \in OptsType,
         pc' \in {"options", "lookup", "handle", "shift", "free", "returned", "exit1"},
         item' \in {"null", "held", "freed"},
         rc' \in {EX_OK, EX_USAGE, EX_DATAERR},
         branch' \in {"there", "deleted"},
         attempts' \in Seq(Seq(ToSet(line)))
  PROVE  TypeOK'
<1>1. \E i \in 0..Len(line') : args' = SubSeq(line', i + 1, Len(line'))
  <2>1. /\ line' \in Seq(STRING \ {None}) /\ here' \in 1..Len(line') + 1
        /\ args' = SubSeq(line', here', Len(line'))
    BY Zenon DEF Suffix, Rest
  <2>2. Len(line') \in Nat
    BY <2>1
  <2> HIDE DEF here
  <2>3. \A n \in Nat : \A h \in 1..n + 1 : h - 1 \in 0..n /\ (h - 1) + 1 = h
    OBVIOUS
  <2>4. here' - 1 \in 0..Len(line') /\ (here' - 1) + 1 = here'
    BY <2>1, <2>2, <2>3, Zenon
  <2>5. QED
    BY <2>1, <2>4
<1>2. QED
  BY <1>1 DEF TypeOK, OptsType

\* The fields that reading an option changes.
LEMMA OptionFields ==
  ASSUME opts \in OptsType, Option, NEW word, word = args[2]
  PROVE  /\ name \in IdOptions =>
              /\ opts'.id = word /\ opts'.by = opts.by \cup {name}
              /\ opts'.o = opts.o /\ opts'.r = opts.r /\ opts'.all = opts.all
         /\ name \notin IdOptions =>
              opts'.id = opts.id /\ opts'.by = opts.by
         /\ name = "-o" \/ (name = "-r" /\ cmd = "pipelines") =>
              opts'.o = word /\ opts'.r = opts.r /\ opts'.all = opts.all
         /\ name = "-r" /\ cmd # "pipelines" =>
              opts'.r = word /\ opts'.o = opts.o /\ opts'.all = opts.all
         /\ name \notin IdOptions \cup {"-o", "-r"} =>
              /\ opts'.o = opts.o /\ opts'.r = opts.r
              /\ opts'.all \in {opts.all, TRUE}
         /\ opts' = [o |-> opts'.o, r |-> opts'.r, id |-> opts'.id,
                     by |-> opts'.by, all |-> opts'.all]
<1>1. CASE name \in IdOptions
  <2> DEFINE A == [opts EXCEPT !.id = args[2], !.by = @ \cup {name}]
             B == [opts EXCEPT ![FieldOf(name)] = args[2]]
             C == [opts EXCEPT !.all = TRUE]
  <2>1. opts' = CASE name \in IdOptions -> A
                  [] name \in {"-o", "-r"} -> B
                  [] name = "-A" /\ cmd = "pulls" -> C
                  [] OTHER -> opts
    BY Zenon DEF Option
  <2>2. opts' = A
    <3>1. name \notin {"-o", "-r"} /\ name # "-A"
      BY <1>1 DEF IdOptions
    <3> HIDE DEF A, B, C
    <3>2. QED
      BY <1>1, <2>1, <3>1
  <2> DEFINE M == [opts EXCEPT !.id = args[2]]
  <2>3. A = [M EXCEPT !.by = opts.by \cup {name}]
    BY Zenon
  <2>4. M = [o |-> opts.o, r |-> opts.r, id |-> word, by |-> opts.by,
             all |-> opts.all]
    BY DEF OptsType
  <2>5. opts' = [o |-> opts.o, r |-> opts.r, id |-> word,
                 by |-> opts.by \cup {name}, all |-> opts.all]
    <3> HIDE DEF M, A
    <3>1. QED
      BY <2>2, <2>3, <2>4
  <2>6. name # "-o" /\ name # "-r"
    BY <1>1 DEF IdOptions
  <2>7. QED
    BY <1>1, <2>5, <2>6
<1>2. CASE name = "-o"
  <2>1. name \notin IdOptions
    BY <1>2 DEF IdOptions
  <2>2. opts' = [opts EXCEPT !.o = word]
    BY <1>2, <2>1 DEF Option, FieldOf
  <2>3. QED
    BY <1>2, <2>1, <2>2 DEF OptsType
<1>3. CASE name = "-r" /\ cmd = "pipelines"
  <2>1. name \notin IdOptions
    BY <1>3 DEF IdOptions
  <2>2. opts' = [opts EXCEPT !.o = word]
    BY <1>3, <2>1 DEF Option, FieldOf
  <2>3. QED
    BY <1>3, <2>1, <2>2 DEF OptsType
<1>4. CASE name = "-r" /\ cmd # "pipelines"
  <2>1. name \notin IdOptions
    BY <1>4 DEF IdOptions
  <2>2. opts' = [opts EXCEPT !.r = word]
    BY <1>4, <2>1 DEF Option, FieldOf
  <2>3. QED
    BY <1>4, <2>1, <2>2 DEF OptsType
<1>5. CASE name \notin IdOptions \cup {"-o", "-r"}
  <2>1. opts' = [opts EXCEPT !.all = TRUE] \/ opts' = opts
    BY <1>5 DEF Option
  <2>2. QED
    BY <1>5, <2>1 DEF OptsType
<1>6. QED
  BY <1>1, <1>2, <1>3, <1>4, <1>5

\* What the options before p + 2 say, when an option with a word is at p.
LEMMA OptionMoves ==
  ASSUME cmd \in DOMAIN OptionsOf, Len(line) \in Nat,
         NEW p \in 1..Len(line), HasRead(p), line[p] \in WithWord, p < Len(line)
  PROVE  /\ Boundary(p + 2)
         /\ IsLast(p + 2, IdOptions,
                   IF line[p] \in IdOptions THEN line[p + 1] ELSE opts.id)
         /\ cmd # "pipelines" =>
              /\ IsLast(p + 2, {"-o"}, IF line[p] = "-o" THEN line[p + 1] ELSE opts.o)
              /\ IsLast(p + 2, {"-r"}, IF line[p] = "-r" THEN line[p + 1] ELSE opts.r)
         /\ cmd = "pipelines" =>
              /\ opts.r = None
              /\ opts.o = None /\ line[p] \notin {"-o", "-r"} =>
                   Before(p + 2, {"-o", "-r"}) = {}
         /\ {line[i] : i \in Before(p + 2, IdOptions)} =
              opts.by \cup (IF line[p] \in IdOptions THEN {line[p]} ELSE {})
<1>1. Boundary(p) /\ Boundary(p + 2)
  BY BoundaryMoves DEF HasRead
<1>2. ASSUME NEW options, NEW word, IsLast(p, options, word)
      PROVE  IsLast(p + 2, options, IF line[p] \in options THEN line[p + 1] ELSE word)
  <2>1. CASE line[p] \in options
    BY <1>1, <1>2, <2>1, LastMoves
  <2>2. CASE line[p] \notin options
    BY <1>1, <1>2, <2>2, LastMoves
  <2>3. QED
    BY <2>1, <2>2
<1>3. IsLast(p + 2, IdOptions,
             IF line[p] \in IdOptions THEN line[p + 1] ELSE opts.id)
  <2>1. IsLast(p, IdOptions, opts.id)
    BY DEF HasRead
  <2>2. QED
    BY <1>2, <2>1, Zenon
<1>4. ASSUME cmd # "pipelines"
      PROVE  /\ IsLast(p + 2, {"-o"}, IF line[p] = "-o" THEN line[p + 1] ELSE opts.o)
             /\ IsLast(p + 2, {"-r"}, IF line[p] = "-r" THEN line[p + 1] ELSE opts.r)
  <2>1. IsLast(p, {"-o"}, opts.o) /\ IsLast(p, {"-r"}, opts.r)
    BY <1>4 DEF HasRead
  <2>2. IsLast(p + 2, {"-o"}, IF line[p] \in {"-o"} THEN line[p + 1] ELSE opts.o)
    BY <1>2, <2>1, Zenon
  <2>3. IsLast(p + 2, {"-r"}, IF line[p] \in {"-r"} THEN line[p + 1] ELSE opts.r)
    BY <1>2, <2>1, Zenon
  <2>4. (line[p] \in {"-o"} <=> line[p] = "-o") /\ (line[p] \in {"-r"} <=> line[p] = "-r")
    OBVIOUS
  <2>5. QED
    BY <2>2, <2>3, <2>4, Zenon
<1>5. ASSUME cmd = "pipelines", opts.o = None, line[p] \notin {"-o", "-r"}
      PROVE  Before(p + 2, {"-o", "-r"}) = {}
  <2>1. Before(p, {"-o", "-r"}) = {}
    BY <1>5 DEF HasRead
  <2>2. Before(p + 2, {"-o", "-r"}) =
          Before(p, {"-o", "-r"}) \cup
            (IF line[p] \in {"-o", "-r"} THEN {p} ELSE {})
    BY <1>1, BeforeMoves
  <2>3. QED
    BY <1>5, <2>1, <2>2
<1>6. cmd = "pipelines" => opts.r = None
  BY DEF HasRead
<1>7. {line[i] : i \in Before(p + 2, IdOptions)} =
        opts.by \cup (IF line[p] \in IdOptions THEN {line[p]} ELSE {})
  <2>1. Before(p + 2, IdOptions) =
          Before(p, IdOptions) \cup (IF line[p] \in IdOptions THEN {p} ELSE {})
    BY <1>1, BeforeMoves
  <2>2. opts.by = {line[i] : i \in Before(p, IdOptions)}
    BY DEF HasRead
  <2>3. QED
    BY <2>1, <2>2
<1>8. QED
  BY <1>1, <1>3, <1>4, <1>5, <1>6, <1>7

\* What they say when a flag is at p.
LEMMA FlagMoves ==
  ASSUME cmd \in DOMAIN OptionsOf, Len(line) \in Nat,
         NEW p \in 1..Len(line), HasRead(p), line[p] \in Flags
  PROVE  /\ Boundary(p + 1)
         /\ IsLast(p + 1, IdOptions, opts.id)
         /\ cmd # "pipelines" => /\ IsLast(p + 1, {"-o"}, opts.o)
                                 /\ IsLast(p + 1, {"-r"}, opts.r)
         /\ cmd = "pipelines" =>
              /\ opts.r = None
              /\ opts.o = None => Before(p + 1, {"-o", "-r"}) = {}
         /\ opts.by = {line[i] : i \in Before(p + 1, IdOptions)}
<1>1. Boundary(p) /\ Boundary(p + 1)
  BY BoundaryMoves DEF HasRead
<1>2. line[p] \notin IdOptions /\ line[p] \notin {"-o", "-r"}
  BY OptionSets
<1>3. /\ IsLast(p + 1, IdOptions, opts.id)
      /\ cmd # "pipelines" => /\ IsLast(p + 1, {"-o"}, opts.o)
                              /\ IsLast(p + 1, {"-r"}, opts.r)
  BY <1>1, <1>2, LastMoves DEF HasRead
<1>4. ASSUME NEW options, line[p] \notin options
      PROVE  Before(p + 1, options) = Before(p, options)
  <2>1. Before(p + 1, options) =
          Before(p, options) \cup (IF line[p] \in options THEN {p} ELSE {})
    BY <1>1, BeforeMoves
  <2>2. \A S : S \cup {} = S
    OBVIOUS
  <2>3. QED
    BY <1>4, <2>1, <2>2
<1>5. /\ Before(p + 1, IdOptions) = Before(p, IdOptions)
      /\ Before(p + 1, {"-o", "-r"}) = Before(p, {"-o", "-r"})
  BY <1>2, <1>4
<1>6. QED
  BY <1>1, <1>3, <1>5 DEF HasRead

\* A step that reads an option keeps the invariant.
LEMMA ReadsOne ==
  ASSUME IInv, pc = "options", UNCHANGED <<input, pc, item, rc, branch, attempts>>,
         Suffix', opts' \in OptsType, NEW q, q = here', HasRead(q)'
  PROVE  IInv'
<1>1. /\ cmd' = cmd /\ line' = line /\ inhibit' = inhibit
      /\ attempts = <<>> /\ attempts' = <<>> /\ pc' = "options"
  BY DEF input, IInv, ReadingOptions
<1>2. TypeOK'
  <2>1. TypeOK /\ UNCHANGED <<cmd, line, inhibit>>
    BY <1>1 DEF IInv
  <2>2. /\ pc' \in {"options", "lookup", "handle", "shift", "free", "returned", "exit1"}
        /\ item' \in {"null", "held", "freed"}
        /\ rc' \in {EX_OK, EX_USAGE, EX_DATAERR}
        /\ branch' \in {"there", "deleted"}
        /\ attempts' \in Seq(Seq(ToSet(line)))
    BY <2>1 DEF TypeOK
  <2>3. QED
    BY <2>1, <2>2, TypesNext
<1>3. ReadingOptions'
  BY <1>1 DEF ReadingOptions
<1>4. Follows'
  <2>1. Exceptions' = Exceptions /\ Reading' = Reading
    BY <1>1, ReadingStays
  <2>2. ~Exceptions => IsPrefix(attempts, Reading)
    BY DEF IInv, Follows
  <2>3. QED
    BY <1>1, <2>1, <2>2 DEF Follows
<1>5. OptionsKnown' /\ Running' /\ AllWords'
  BY <1>1 DEF OptionsKnown, Running, AllWords
<1>6. QED
  BY <1>2, <1>3, <1>4, <1>5 DEF IInv

LEMMA OptionInv == ASSUME IInv, Option PROVE IInv'
<1>1. /\ TypeOK /\ Suffix /\ pc = "options" /\ args # <<>>
      /\ name \in WithWord /\ argc > 1 /\ ~Unacceptable(args[2])
      /\ args' = Tail(Tail(args))
      /\ UNCHANGED <<input, pc, item, rc, branch, attempts>>
      /\ cmd' = cmd /\ line' = line
  BY DEF IInv, Option, OptionsLeft, input
<1>2. /\ cmd \in DOMAIN OptionsOf /\ opts \in OptsType
  BY <1>1 DEF TypeOK, OptsType
<1>3. PICK p \in Nat : p = here
  BY <1>1 DEF Suffix
<1>4. HasRead(p)
  BY <1>1, <1>3 DEF IInv, ReadingOptions
<1>5. /\ p \in 1..Len(line) /\ p < Len(line) /\ Len(line) \in Nat
      /\ name = line[p] /\ args[2] = line[p + 1] /\ args' = Rest(p + 2)
      /\ argc \in Nat /\ 2 \in 0..argc
  <2>1. /\ argc = Len(line) - p + 1 /\ Len(line) \in Nat
        /\ p \in 1..Len(line) /\ name = line[p] /\ argc \in Nat
        /\ args[2] = line[p + 1] /\ args' = Rest(p + 2)
    BY <1>1, <1>3, LeftShape
  <2>2. QED
    BY <1>1, <2>1
<1> DEFINE word == line[p + 1]
<1>6. word \in ToSet(line) /\ word # None
  <2>1. p + 1 \in 1..Len(line)
    BY <1>5
  <2>2. QED
    BY <1>1, <2>1, LineWords
<1>7. Suffix' /\ here' = p + 2
  BY <1>1, <1>3, <1>5, Moves
<1>8. /\ name \in IdOptions =>
           /\ opts'.id = word /\ opts'.by = opts.by \cup {name}
           /\ opts'.o = opts.o /\ opts'.r = opts.r /\ opts'.all = opts.all
      /\ name \notin IdOptions =>
           opts'.id = opts.id /\ opts'.by = opts.by
      /\ name = "-o" \/ (name = "-r" /\ cmd = "pipelines") =>
           opts'.o = word /\ opts'.r = opts.r /\ opts'.all = opts.all
      /\ name = "-r" /\ cmd # "pipelines" =>
           opts'.r = word /\ opts'.o = opts.o /\ opts'.all = opts.all
      /\ name \notin IdOptions \cup {"-o", "-r"} =>
           /\ opts'.o = opts.o /\ opts'.r = opts.r
           /\ opts'.all \in {opts.all, TRUE}
      /\ opts' = [o |-> opts'.o, r |-> opts'.r, id |-> opts'.id,
                  by |-> opts'.by, all |-> opts'.all]
  <2>1. word = args[2]
    BY <1>5
  <2> HIDE DEF word
  <2>2. QED
    BY <1>2, <2>1, OptionFields
<1> HIDE DEF word
<1>9. opts' \in OptsType
  <2>1. name \in IdOptions => word \in Numbers
    BY <1>1, <1>5 DEF Unacceptable, word
  <2>2. /\ opts.o \in ToSet(line) \cup {None} /\ opts.r \in ToSet(line) \cup {None}
        /\ opts.id \in Numbers \cup {None} /\ opts.by \in SUBSET IdOptions
        /\ opts.all \in BOOLEAN
    BY <1>2 DEF OptsType
  <2>3. name \notin {"-o", "-r"} \/ name = "-o" \/ name = "-r"
    OBVIOUS
  <2>4. name \in IdOptions => name \notin {"-o", "-r"}
    BY DEF IdOptions
  <2>5. /\ opts'.o \in {opts.o, word} /\ opts'.r \in {opts.r, word}
        /\ opts'.all \in {opts.all, TRUE}
    <3>1. CASE name \in IdOptions
      BY <1>8, <3>1, Zenon
    <3>2. CASE name \notin IdOptions \cup {"-o", "-r"}
      BY <1>8, <3>2, Zenon
    <3>3. CASE name = "-o" \/ (name = "-r" /\ cmd = "pipelines")
      BY <1>8, <3>3, Zenon
    <3>4. CASE name = "-r" /\ cmd # "pipelines"
      BY <1>8, <3>4, Zenon
    <3>5. \/ name \in IdOptions \/ name \notin IdOptions \cup {"-o", "-r"}
          \/ name = "-o" \/ name = "-r"
      OBVIOUS
    <3>6. QED
      BY <3>1, <3>2, <3>3, <3>4, <3>5
  <2>6. opts'.id \in Numbers \cup {None} /\ opts'.by \in SUBSET IdOptions
    <3>1. CASE name \in IdOptions
      <4>1. opts'.id = word /\ opts'.by = opts.by \cup {name}
        BY <1>8, <3>1, Zenon
      <4>2. QED
        BY <2>1, <2>2, <3>1, <4>1
    <3>2. CASE name \notin IdOptions
      <4>1. opts'.id = opts.id /\ opts'.by = opts.by
        BY <1>8, <3>2, Zenon
      <4>2. QED
        BY <2>2, <4>1
    <3>3. QED
      BY <3>1, <3>2
  <2>7. /\ opts'.o \in ToSet(line) \cup {None}
        /\ opts'.r \in ToSet(line) \cup {None}
        /\ opts'.all \in BOOLEAN
    BY <1>6, <2>2, <2>5
  <2>8. opts' = [o |-> opts'.o, r |-> opts'.r, id |-> opts'.id,
                 by |-> opts'.by, all |-> opts'.all]
    BY <1>8
  <2>9. QED
    BY <2>6, <2>7, <2>8 DEF OptsType
<1>10. HasRead(p + 2)'
  <2>1. /\ Boundary(p + 2)
        /\ IsLast(p + 2, IdOptions, IF name \in IdOptions THEN word ELSE opts.id)
        /\ cmd # "pipelines" =>
             /\ IsLast(p + 2, {"-o"}, IF name = "-o" THEN word ELSE opts.o)
             /\ IsLast(p + 2, {"-r"}, IF name = "-r" THEN word ELSE opts.r)
        /\ cmd = "pipelines" =>
             /\ opts.r = None
             /\ opts.o = None /\ name \notin {"-o", "-r"} =>
                  Before(p + 2, {"-o", "-r"}) = {}
        /\ {line[i] : i \in Before(p + 2, IdOptions)} =
             opts.by \cup (IF name \in IdOptions THEN {name} ELSE {})
    BY <1>1, <1>2, <1>4, <1>5, OptionMoves DEF word
  <2>2. name \in IdOptions => name # "-o" /\ name # "-r"
    BY DEF IdOptions
  <2>3. /\ opts'.id = IF name \in IdOptions THEN word ELSE opts.id
        /\ opts'.by = opts.by \cup (IF name \in IdOptions THEN {name} ELSE {})
    BY <1>8
  <2>4. cmd # "pipelines" =>
          /\ opts'.o = IF name = "-o" THEN word ELSE opts.o
          /\ opts'.r = IF name = "-r" THEN word ELSE opts.r
    <3>1. CASE name \in IdOptions
      BY <1>8, <2>2, <3>1, Zenon
    <3>2. CASE name \notin IdOptions \cup {"-o", "-r"}
      <4>1. name # "-o" /\ name # "-r"
        BY <3>2
      <4>2. QED
        BY <1>8, <3>2, <4>1, Zenon
    <3>3. CASE name = "-o"
      <4>1. name = "-o" \/ (name = "-r" /\ cmd = "pipelines") =>
              opts'.o = word /\ opts'.r = opts.r /\ opts'.all = opts.all
        BY <1>8, Zenon
      <4>2. opts'.o = word /\ opts'.r = opts.r
        BY <3>3, <4>1
      <4>3. QED
        BY <3>3, <4>2
    <3>4. CASE name = "-r"
      <4>1. cmd # "pipelines" => opts'.r = word /\ opts'.o = opts.o
        BY <1>8, <3>4, Zenon
      <4>2. QED
        BY <3>4, <4>1
    <3>5. QED
      BY <3>1, <3>2, <3>3, <3>4
  <2>5. cmd = "pipelines" =>
          /\ opts'.r = opts.r
          /\ opts'.o = IF name \in {"-o", "-r"} THEN word ELSE opts.o
    BY <1>8, <2>2
  <2>6. cmd = "pipelines" =>
          /\ opts'.r = None
          /\ opts'.o = None => Before(p + 2, {"-o", "-r"}) = {}
    BY <1>6, <2>1, <2>5
  <2>7. IsLast(p + 2, IdOptions, opts'.id)
    BY <2>1, <2>3
  <2>8. cmd # "pipelines" =>
          IsLast(p + 2, {"-o"}, opts'.o) /\ IsLast(p + 2, {"-r"}, opts'.r)
    BY <2>1, <2>4
  <2>9. opts'.by = {line[i] : i \in Before(p + 2, IdOptions)}
    BY <2>1, <2>3
  <2>10. QED
    BY <1>1, <2>1, <2>6, <2>7, <2>8, <2>9, HasReadNext, Zenon
<1>11. QED
  BY <1>1, <1>7, <1>9, <1>10, ReadsOne, Zenon

LEMMA FlagInv == ASSUME IInv, Flag PROVE IInv'
<1>1. /\ TypeOK /\ Suffix /\ pc = "options" /\ args # <<>> /\ name \in Flags
      /\ args' = Tail(args)
      /\ opts' = IF name = "-a" THEN [opts EXCEPT !.all = TRUE] ELSE opts
      /\ UNCHANGED <<input, pc, item, rc, branch, attempts>>
      /\ cmd' = cmd /\ line' = line
  BY DEF IInv, Flag, OptionsLeft, input
<1>2. /\ cmd \in DOMAIN OptionsOf /\ opts \in OptsType
  BY <1>1 DEF TypeOK, OptsType
<1>3. PICK p \in Nat : p = here
  BY <1>1 DEF Suffix
<1>4. HasRead(p)
  BY <1>1, <1>3 DEF IInv, ReadingOptions
<1>5. /\ p \in 1..Len(line) /\ Len(line) \in Nat
      /\ name = line[p] /\ args' = Rest(p + 1)
      /\ 1 \in 0..argc
  <2>1. /\ argc = Len(line) - p + 1 /\ Len(line) \in Nat
        /\ p \in 1..Len(line) /\ name = line[p] /\ argc \in Nat
        /\ args' = Rest(p + 1)
    BY <1>1, <1>3, LeftShape
  <2>2. QED
    BY <1>1, <2>1
<1>6. Suffix' /\ here' = p + 1
  BY <1>1, <1>3, <1>5, Moves
<1>7. /\ opts' \in OptsType
      /\ opts'.o = opts.o /\ opts'.r = opts.r
      /\ opts'.id = opts.id /\ opts'.by = opts.by
  BY <1>1, <1>2 DEF OptsType
<1>8. HasRead(p + 1)'
  <2>1. /\ Boundary(p + 1)
        /\ IsLast(p + 1, IdOptions, opts.id)
        /\ cmd # "pipelines" => /\ IsLast(p + 1, {"-o"}, opts.o)
                                /\ IsLast(p + 1, {"-r"}, opts.r)
        /\ cmd = "pipelines" =>
             /\ opts.r = None
             /\ opts.o = None => Before(p + 1, {"-o", "-r"}) = {}
        /\ opts.by = {line[i] : i \in Before(p + 1, IdOptions)}
    BY <1>1, <1>2, <1>4, <1>5, FlagMoves
  <2>2. QED
    BY <1>1, <1>7, <2>1, HasReadNext
<1>9. QED
  BY <1>1, <1>6, <1>7, <1>8, ReadsOne, Zenon

-----------------------------------------------------------------------------
(* Where the options end. *)

\* A step that leaves the options alone keeps what they mean, provided that it
\* starts where their meaning is known.
LEMMA KeepsOptions ==
  ASSUME IInv, UNCHANGED <<input, opts>>, Suffix', pc' # "options",
         pc \in {"lookup", "handle", "shift", "free", "returned"} \/ attempts # <<>>
           \/ OptionsKnown' \/ (pc' = "exit1" /\ attempts' = attempts),
         pc' \in {"lookup", "handle", "shift", "free", "returned", "exit1"},
         item' \in {"null", "held", "freed"},
         rc' \in {EX_OK, EX_USAGE, EX_DATAERR},
         branch' \in {"there", "deleted"},
         attempts' \in Seq(Seq(ToSet(line))),
         Running', AllWords', Follows'
  PROVE  IInv'
<1>1. cmd' = cmd /\ line' = line /\ inhibit' = inhibit /\ opts' = opts
  BY DEF input
<1>2. TypeOK /\ OptionsKnown
  BY DEF IInv
<1>3. TypeOK'
  <2>1. opts' \in OptsType
    BY <1>1, <1>2 DEF TypeOK, OptsType
  <2>2. pc' \in {"options", "lookup", "handle", "shift", "free", "returned", "exit1"}
    OBVIOUS
  <2>3. QED
    BY <1>1, <1>2, <2>1, <2>2, TypesNext
<1>4. ReadingOptions'
  BY DEF ReadingOptions
<1>5. OptionsKnown'
  <2>1. /\ Given(IdOptions)' = Given(IdOptions)
        /\ Given({"-o"})' = Given({"-o"})
        /\ Given({"-r"})' = Given({"-r"})
        /\ Subject' = Subject /\ table' = table
    BY <1>1, ReadingStays DEF table
  <2>2. CASE pc \in {"lookup", "handle", "shift", "free", "returned"}
             \/ attempts # <<>>
    BY <1>1, <1>2, <2>1, <2>2 DEF OptionsKnown
  <2>3. CASE pc' = "exit1" /\ attempts' = attempts /\ attempts = <<>>
    BY <2>3 DEF OptionsKnown
  <2>4. QED
    BY <2>2, <2>3
<1>6. QED
  BY <1>3, <1>4, <1>5 DEF IInv

\* A step that leaves line and actions as they are, and is not within the loop.
LEMMA StaysBehind ==
  ASSUME IInv, UNCHANGED <<input, args, attempts>>
  PROVE  Suffix' /\ here' = here /\ attempts' \in Seq(Seq(ToSet(line)))
         /\ (~Exceptions => IsPrefix(attempts, Reading))'
<1>1. cmd' = cmd /\ line' = line /\ args' = args /\ attempts' = attempts
  BY DEF input
<1>2. Suffix'
  BY <1>1 DEF IInv, Suffix, here, Rest
<1>3. here' = here
  BY <1>1 DEF here
<1>4. attempts' \in Seq(Seq(ToSet(line)))
  BY <1>1 DEF IInv, TypeOK
<1>5. (~Exceptions => IsPrefix(attempts, Reading))'
  BY <1>1, ReadingStays DEF IInv, Follows
<1>6. QED
  BY <1>2, <1>3, <1>4, <1>5

LEMMA FailsInv == ASSUME IInv, Fails PROVE IInv'
<1>1. /\ UNCHANGED <<input, args, opts, item, rc, branch, attempts>>
      /\ pc' = "exit1"
  BY DEF Fails
<1>2. /\ Suffix' /\ attempts' \in Seq(Seq(ToSet(line)))
      /\ (~Exceptions => IsPrefix(attempts, Reading))'
  BY <1>1, StaysBehind DEF input
<1>3. Running' /\ AllWords' /\ Follows'
  BY <1>1, <1>2 DEF Running, AllWords, Follows
<1>4. TypeOK
  BY DEF IInv
<1>5. /\ item' \in {"null", "held", "freed"}
      /\ rc' \in {EX_OK, EX_USAGE, EX_DATAERR}
      /\ branch' \in {"there", "deleted"}
  BY <1>1, <1>4 DEF TypeOK
<1>6. QED
  BY <1>1, <1>2, <1>3, <1>5, KeepsOptions

\* An option of the object that was read has its word.
LEMMA LastIsWord ==
  ASSUME Suffix, cmd \in DOMAIN OptionsOf, NEW p \in Nat, p = here, Boundary(p),
         NEW options, options \cap Flags = {}, NEW word, IsLast(p, options, word)
  PROVE  word = None <=> Before(p, options) = {}
<1>1. SUFFICES ASSUME NEW j \in Before(p, options), word = line[j + 1]
               PROVE  word # None
  BY DEF IsLast
<1>2. j \in 1..p - 1 /\ IsOption[j] /\ line[j] \notin Flags
  BY DEF Before
<1>3. Len(line) \in Nat /\ p \in 1..Len(line) + 1
  BY LeftShape DEF Suffix
<1>4. j # p - 1
  <2>1. SUFFICES ASSUME j = p - 1 PROVE FALSE
    OBVIOUS
  <2>2. p > 1
    BY <1>2, <1>3, <2>1
  <2>3. QED
    BY <1>2, <2>1, <2>2 DEF Boundary
<1>5. j + 1 \in 1..Len(line)
  BY <1>2, <1>3, <1>4
<1>6. QED
  BY <1>1, <1>5, LineWords

\* Where the options end, the manual's reading of them is what was read.
LEMMA EndKnown ==
  ASSUME IInv, OptionsRead
  PROVE  /\ Words = args
         /\ FirstWord = here
         /\ opts.id = Given(IdOptions)
         /\ Subject = table
         /\ Lists <=> ListAsked
         /\ ~(cmd = "pipelines" /\ OneOfTwo) =>
              opts.o = Given({"-o"}) /\ opts.r = Given({"-r"})
         /\ attempts = <<>>
<1>1. /\ TypeOK /\ Suffix /\ pc = "options"
      /\ args # <<>> => name \notin Dashed
      /\ attempts = <<>>
  BY DEF IInv, OptionsRead, ReadingOptions
<1>2. cmd \in DOMAIN OptionsOf
  BY <1>1 DEF TypeOK
<1>3. PICK p \in Nat : p = here
  BY <1>1 DEF Suffix
<1>4. HasRead(p)
  BY <1>1, <1>3 DEF IInv, ReadingOptions
<1>5. /\ Len(line) \in Nat /\ p \in 1..Len(line) + 1 /\ args = Rest(p)
      /\ p \in 1..Len(line) => args # <<>> /\ name = line[p]
  BY <1>1, <1>3, LeftShape DEF Suffix
<1>6. Ends(p)
  <2>1. Boundary(p)
    BY <1>4 DEF HasRead
  <2>2. p <= Len(line) => line[p] \notin WithWord \cup Flags
    <3>1. p <= Len(line) => p \in 1..Len(line)
      BY <1>5
    <3>2. WithWord \cup Flags \subseteq Dashed
      BY <1>2, OptionSets
    <3>3. QED
      BY <1>1, <1>5, <3>1, <3>2
  <2>3. QED
    BY <1>5, <2>1, <2>2 DEF Ends
<1>7. /\ OptionAt = {i \in 1..p - 1 : IsOption[i]}
      /\ FirstWord = p
  BY <1>2, <1>5, <1>6, EndIsFirstWord
<1>8. Words = args
  BY <1>5, <1>7 DEF Words, Rest
<1>9. \A S, w : IsLast(p, S, w) => Given(S) = w
  BY <1>2, <1>5, <1>6, LastIsGiven
<1>10. opts.id = Given(IdOptions)
  BY <1>4, <1>9 DEF HasRead
<1>11. opts.id = None <=> Before(p, IdOptions) = {}
  <2>1. Boundary(p) /\ IsLast(p, IdOptions, opts.id)
    BY <1>4 DEF HasRead
  <2>2. IdOptions \cap Flags = {}
    BY <1>2, OptionSets
  <2>3. QED
    <3>1. \A S, w : S \cap Flags = {} /\ IsLast(p, S, w) =>
                      (w = None <=> Before(p, S) = {})
      BY <1>1, <1>2, <1>3, <2>1, LastIsWord
    <3>2. QED
      BY <2>1, <2>2, <3>1
<1>12. opts.by = {line[i] : i \in Before(p, IdOptions)}
  BY <1>4 DEF HasRead
<1>13. Lists <=> ListAsked
  <2>1. opts.by = {} <=> opts.id = None
    BY <1>11, <1>12
  <2>2. CASE cmd = "pipelines"
    BY <1>10, <2>1, <2>2 DEF Lists, ListAsked
  <2>3. CASE cmd # "pipelines"
    BY <1>10, <2>3 DEF Lists, ListAsked
  <2>4. QED
    BY <2>2, <2>3
<1>14. Subject = table
  <2>1. (\E i \in OptionAt : line[i] = "-j") <=> "-j" \in opts.by
    <3>1. "-j" \in opts.by <=> \E i \in Before(p, IdOptions) : line[i] = "-j"
      BY <1>12
    <3>2. \A i : line[i] = "-j" => (i \in Before(p, IdOptions) <=> i \in OptionAt)
      BY <1>7 DEF Before, IdOptions
    <3>3. QED
      BY <3>1, <3>2
  <2>2. CASE cmd # "pipelines"
    BY <2>2 DEF Subject, table
  <2>3. CASE cmd = "pipelines"
    BY <2>1, <2>3 DEF Subject, table
  <2>4. QED
    BY <2>2, <2>3
<1>15. ASSUME ~(cmd = "pipelines" /\ OneOfTwo)
       PROVE  opts.o = Given({"-o"}) /\ opts.r = Given({"-r"})
  <2>1. CASE cmd # "pipelines"
    BY <1>4, <1>9, <2>1 DEF HasRead
  <2>2. CASE cmd = "pipelines"
    <3>1. opts.r = None /\ (opts.o = None => Before(p, {"-o", "-r"}) = {})
      BY <1>4, <2>2 DEF HasRead
    <3>2. opts.o = None
      BY <1>15, <2>2, <3>1 DEF OneOfTwo
    <3>3. Before(p, {"-o"}) = {} /\ Before(p, {"-r"}) = {}
      BY <3>1, <3>2 DEF Before
    <3>4. IsLast(p, {"-o"}, None) /\ IsLast(p, {"-r"}, None)
      BY <3>3 DEF IsLast
    <3>5. QED
      BY <1>9, <3>1, <3>2, <3>4
  <2>3. QED
    BY <2>1, <2>2
<1>16. QED
  BY <1>1, <1>3, <1>7, <1>8, <1>10, <1>13, <1>14, <1>15

\* No action, no words.
LEMMA FlattenNone == FlattenSeq(<<>>) = <<>>
BY FlattenSeqIsFlattening

LEMMA BeginInv == ASSUME IInv, Begin PROVE IInv'
<1>1. /\ OptionsRead /\ ~Refused /\ ~Lists
      /\ pc' = "lookup"
      /\ UNCHANGED <<input, args, opts, item, rc, branch, attempts>>
      /\ cmd' = cmd /\ line' = line /\ args' = args /\ opts' = opts
      /\ attempts' = attempts /\ rc' = rc
  BY DEF Begin, input
<1>2. /\ Words = args /\ FirstWord = here /\ opts.id = Given(IdOptions)
      /\ Subject = table /\ (Lists <=> ListAsked)
      /\ (~(cmd = "pipelines" /\ OneOfTwo) =>
            opts.o = Given({"-o"}) /\ opts.r = Given({"-r"}))
      /\ attempts = <<>>
  BY <1>1, EndKnown, Zenon
<1>3. args # <<>> /\ ~(cmd = "pipelines" /\ OneOfTwo)
  BY <1>1 DEF Refused
<1>4. /\ Suffix' /\ here' = here /\ attempts' \in Seq(Seq(ToSet(line)))
      /\ (~Exceptions => IsPrefix(attempts, Reading))'
  BY <1>1, StaysBehind DEF input
<1>5. /\ Given(IdOptions)' = Given(IdOptions)
      /\ Given({"-o"})' = Given({"-o"}) /\ Given({"-r"})' = Given({"-r"})
      /\ Subject' = Subject /\ table' = table
      /\ Words' = Words /\ Reading' = Reading /\ ReadFrom' = ReadFrom
      /\ ListAsked' = ListAsked
  BY <1>1, ReadingStays DEF table
<1>14. opts.o = Given({"-o"}) /\ opts.r = Given({"-r"})
  BY <1>2, <1>3
<1>6. OptionsKnown'
  <2>1. /\ opts.id = Given(IdOptions) /\ Subject = table
        /\ opts.o = Given({"-o"}) /\ opts.r = Given({"-r"}) /\ opts' = opts
    BY <1>1, <1>2, <1>14
  <2>2. QED
    BY <1>5, <2>1 DEF OptionsKnown
<1>7. Running'
  BY <1>1, <1>2, <1>3, <1>5 DEF Running
<1>8. /\ line \in Seq(ToSet(line)) /\ args \in Seq(ToSet(line))
      /\ here \in 1..Len(line) + 1 /\ Len(line) \in Nat
  BY LineWords, LeftShape DEF IInv, Suffix
<1>9. AllWords'
  <2>1. FlattenSeq(attempts) \o args = args
    BY <1>2, <1>8, FlattenNone, ConcatEmptySeq
  <2>2. FlattenSeq(attempts') \o args' = Words'
    BY <1>1, <1>2, <1>5, <2>1
  <2>3. QED
    BY <1>1, <2>2 DEF AllWords
<1>10. Follows'
  <2>1. Reading = ReadFrom[here]
    BY <1>1, <1>2, <1>3 DEF Reading
  <2>2. ReadFrom[here] \in Seq(Seq(ToSet(line)))
    <3> HIDE DEF here
    <3>1. QED
      BY <1>8, ReadFromType
  <2>3. Reading = attempts \o ReadFrom[here]
    BY <1>2, <2>1, <2>2, ConcatEmptySeq
  <2>4. Reading' = attempts' \o ReadFrom'[here']
    BY <1>1, <1>4, <1>5, <2>3
  <2>5. QED
    BY <1>1, <1>4, <2>4 DEF Follows
<1>11. TypeOK
  BY DEF IInv
<1>12. /\ item' \in {"null", "held", "freed"}
       /\ rc' \in {EX_OK, EX_USAGE, EX_DATAERR}
       /\ branch' \in {"there", "deleted"}
  BY <1>1, <1>11 DEF TypeOK
<1>13. QED
  BY <1>1, <1>4, <1>6, <1>7, <1>9, <1>10, <1>12, KeepsOptions

\* A list takes the whole rest of the line.
LEMMA ListInv == ASSUME IInv, List PROVE IInv'
<1>1. /\ OptionsRead /\ ~Refused /\ Lists
      /\ attempts' = IF args = <<>> \/ cmd = "milestones" THEN <<>> ELSE <<args>>
      /\ args' = <<>>
      /\ rc' \in {EX_OK, EX_DATAERR}
      /\ pc' = "returned"
      /\ UNCHANGED <<input, opts, item, branch>>
      /\ cmd' = cmd /\ line' = line /\ opts' = opts
  BY DEF List, input
<1>2. /\ Words = args /\ opts.id = Given(IdOptions)
      /\ Subject = table /\ (Lists <=> ListAsked)
      /\ (~(cmd = "pipelines" /\ OneOfTwo) =>
            opts.o = Given({"-o"}) /\ opts.r = Given({"-r"}))
      /\ attempts = <<>>
  BY <1>1, EndKnown, Zenon
<1>3. ~(cmd = "pipelines" /\ OneOfTwo) /\ TypeOK /\ Suffix
  BY <1>1 DEF Refused, IInv
<1>4. /\ Given(IdOptions)' = Given(IdOptions)
      /\ Given({"-o"})' = Given({"-o"}) /\ Given({"-r"})' = Given({"-r"})
      /\ Subject' = Subject /\ table' = table
      /\ Words' = Words /\ Reading' = Reading /\ Exceptions' = Exceptions
      /\ IgnoresWords' = IgnoresWords
  BY <1>1, ReadingStays DEF table
<1>5. /\ Len(line) \in Nat /\ argc \in Nat /\ argc = Len(line) - here + 1
      /\ line \in Seq(STRING \ {None}) /\ here \in 1..Len(line) + 1
      /\ args \in Seq(ToSet(line))
  BY <1>3, LeftShape, LineWords DEF Suffix
<1>6. Suffix'
  <2>1. here + argc = Len(line) + 1 /\ argc \in 0..argc
    <3> HIDE DEF here
    <3>1. QED
      BY <1>5
  <2>2. Rest(Len(line) + 1) = <<>>
    BY <1>5, SubSeqEmpty DEF Rest
  <2>3. QED
    BY <1>1, <1>3, <2>1, <2>2, Moves
<1>7. OptionsKnown' /\ Running'
  <2>1. opts.o = Given({"-o"}) /\ opts.r = Given({"-r"})
    BY <1>2, <1>3
  <2>2. /\ opts.id = Given(IdOptions) /\ Subject = table /\ opts' = opts
        /\ pc' = "returned"
    BY <1>1, <1>2
  <2>3. QED
    BY <1>4, <2>1, <2>2 DEF OptionsKnown, Running
<1>8. <<args>> = Append(<<>>, args) /\ <<args>> \in Seq(Seq(ToSet(line)))
      /\ <<>> \in Seq(Seq(ToSet(line)))
  BY <1>5
<1>9. attempts' \in Seq(Seq(ToSet(line)))
  BY <1>1, <1>8
<1>10. AllWords'
  <2>1. SUFFICES ASSUME ~IgnoresWords PROVE FlattenSeq(attempts') = Words'
    BY <1>1, <1>4 DEF AllWords
  <2>2. cmd # "milestones"
    BY <1>1, <1>2, <2>1 DEF IgnoresWords
  <2>3. FlattenSeq(<<args>>) = args
    <3>1. FlattenSeq(Append(<<>>, args)) = FlattenSeq(<<>>) \o args
      BY <1>5, <1>8, FlattenAppend
    <3>2. QED
      BY <1>5, <1>8, <3>1, FlattenNone, ConcatEmptySeq
  <2>4. CASE args = <<>>
    BY <1>1, <1>2, <1>4, <2>4, FlattenNone
  <2>5. CASE args # <<>>
    BY <1>1, <1>2, <1>4, <2>2, <2>3, <2>5
  <2>6. QED
    BY <2>4, <2>5
<1>11. Follows'
  <2>1. Reading = <<args>>
    BY <1>1, <1>2 DEF Reading
  <2>2. IsPrefix(<<>>, <<>> \o <<args>>) /\ IsPrefix(<<args>>, <<args>> \o <<>>)
    BY <1>8, PrefixOfConcat
  <2>3. <<>> \o <<args>> = <<args>> /\ <<args>> \o <<>> = <<args>>
    BY <1>8, ConcatEmptySeq
  <2>4. IsPrefix(attempts', Reading')
    BY <1>1, <1>4, <2>1, <2>2, <2>3
  <2>5. QED
    BY <1>1, <2>4 DEF Follows
<1>12. /\ item' \in {"null", "held", "freed"}
       /\ rc' \in {EX_OK, EX_USAGE, EX_DATAERR}
       /\ branch' \in {"there", "deleted"}
  BY <1>1, <1>3 DEF TypeOK
<1>13. QED
  BY <1>1, <1>6, <1>7, <1>9, <1>10, <1>11, <1>12, KeepsOptions

-----------------------------------------------------------------------------
(* The loop. *)

\* The tables: an action that needs the object takes no words, and only
\* actions with a handler of their own read more than one word.
LEMMA TableShape ==
  ASSUME TypeOK
  PROVE  /\ table \in DOMAIN Table
         /\ Table[table].needsItem \subseteq Table[table].plain
         /\ Table[table].plain \cap
              (Table[table].takesWord \cup {"title", "labels", "merge", "artifacts"}) = {}
         /\ Table[table].takesWord \cap
              {"labels", "merge", "artifacts", "open", "review", "checkout"} = {}
         /\ "checkout" \in ActionsOf(table) => table = "pulls"
         /\ "merge" \in ActionsOf(table) => table = "pulls"
         /\ "artifacts" \in ActionsOf(table) => table = "jobs"
         /\ table = "pulls" => cmd = "pulls"
<1>1. cmd \in {"pulls", "issues", "milestones", "pipelines"}
  BY DEF TypeOK, OptionsOf
<1>2. table \in {"pulls", "issues", "milestones", "pipelines", "jobs"}
      /\ (table = "pulls" => cmd = "pulls")
  BY <1>1 DEF table
<1>3. DOMAIN Table = {"pulls", "issues", "milestones", "pipelines", "jobs"}
  BY DEF Table
<1>4. CASE table = "pulls"
  <2>1. Table[table] = PullActions
    BY <1>4 DEF Table
  <2>2. QED
    BY <1>2, <1>3, <1>4, <2>1 DEF PullActions, ActionsOf
<1>5. CASE table = "issues"
  <2>1. Table[table] = IssueActions
    BY <1>5 DEF Table
  <2>2. QED
    BY <1>2, <1>3, <1>5, <2>1 DEF IssueActions, ActionsOf
<1>6. CASE table = "milestones"
  <2>1. Table[table] = MilestoneActions
    BY <1>6 DEF Table
  <2>2. QED
    BY <1>2, <1>3, <1>6, <2>1 DEF MilestoneActions, ActionsOf
<1>7. CASE table = "pipelines"
  <2>1. Table[table] = PipelineActions
    BY <1>7 DEF Table
  <2>2. QED
    BY <1>2, <1>3, <1>7, <2>1 DEF PipelineActions, ActionsOf
<1>8. CASE table = "jobs"
  <2>1. Table[table] = JobActions
    BY <1>8 DEF Table
  <2>2. QED
    BY <1>2, <1>3, <1>8, <2>1 DEF JobActions, ActionsOf
<1>9. QED
  BY <1>2, <1>4, <1>5, <1>6, <1>7, <1>8

\* A step of the loop that leaves the line and the actions as they are.
LEMMA LoopStays ==
  ASSUME IInv, UNCHANGED <<input, args, opts, branch, attempts>>,
         pc \in {"lookup", "handle", "shift", "free"},
         pc' \in {"handle", "shift", "free", "returned", "exit1"},
         item' \in {"null", "held", "freed"},
         rc' \in {EX_OK, EX_USAGE, EX_DATAERR},
         pc' = "handle" => pc = "lookup" /\ name \in ActionsOf(table),
         pc' = "shift" => pc = "handle" /\ argc = 1 /\ rc' # EX_OK,
         pc' \in {"free", "returned"} => rc' # EX_OK \/ (pc = "free" /\ rc' = rc)
  PROVE  IInv'
<1>1. /\ TypeOK /\ Suffix /\ Running /\ AllWords /\ Follows
      /\ cmd' = cmd /\ line' = line /\ args' = args /\ opts' = opts
      /\ attempts' = attempts /\ branch' = branch
  BY DEF IInv, input
<1>2. /\ Suffix' /\ here' = here /\ attempts' \in Seq(Seq(ToSet(line)))
      /\ (~Exceptions => IsPrefix(attempts, Reading))'
  BY <1>1, StaysBehind DEF input
<1>3. /\ table' = table /\ Words' = Words /\ Reading' = Reading
      /\ ReadFrom' = ReadFrom /\ Exceptions' = Exceptions
      /\ ListAsked' = ListAsked /\ IgnoresWords' = IgnoresWords
      /\ name' = name /\ argc' = argc /\ SkipsWord' = SkipsWord
  BY <1>1, ReadingStays, SkipsStays DEF table, name, argc
<1>4. Running'
  <2>1. \A t : ActionsOf(t)' = ActionsOf(t)
    BY DEF ActionsOf, Table
  <2>2. QED
    BY <1>1, <1>3, <2>1 DEF Running, ActionsOf
<1>5. AllWords'
  BY <1>1, <1>3 DEF AllWords
<1>6. Follows'
  BY <1>1, <1>2, <1>3 DEF Follows
<1>7. branch' \in {"there", "deleted"}
  BY <1>1 DEF TypeOK
<1>8. QED
  BY <1>1, <1>2, <1>4, <1>5, <1>6, <1>7, KeepsOptions

LEMMA UnknownActionInv == ASSUME IInv, UnknownAction PROVE IInv'
<1>1. TypeOK
  BY DEF IInv
<1>2. /\ pc = "lookup" /\ pc' = "free" /\ rc' = EX_USAGE
      /\ UNCHANGED <<input, args, opts, item, branch, attempts>>
      /\ item' \in {"null", "held", "freed"}
  BY <1>1 DEF UnknownAction, TypeOK
<1>3. rc' # EX_OK
  BY <1>2 DEF EX_OK, EX_USAGE
<1>4. QED
  BY <1>2, <1>3, LoopStays

LEMMA FetchInv == ASSUME IInv, Fetch PROVE IInv'
<1>1. TypeOK
  BY DEF IInv
<1>2. /\ pc = "lookup" /\ Needs(name) /\ item' = "held"
      /\ pc' = "handle" \/ (pc' = "free" /\ rc' = EX_DATAERR)
      /\ rc' \in {EX_OK, EX_DATAERR}
      /\ UNCHANGED <<input, args, opts, branch, attempts>>
  BY DEF Fetch
<1>3. name \in ActionsOf(table)
  BY <1>1, <1>2, TableShape DEF Needs, ActionsOf
<1>4. EX_DATAERR # EX_OK
  BY DEF EX_OK, EX_DATAERR
<1>5. QED
  BY <1>2, <1>3, <1>4, LoopStays

LEMMA FoundInv == ASSUME IInv, Found PROVE IInv'
<1>1. TypeOK
  BY DEF IInv
<1>2. /\ pc = "lookup" /\ pc' = "handle" /\ name \in ActionsOf(table)
      /\ UNCHANGED <<input, args, opts, item, rc, branch, attempts>>
      /\ item' \in {"null", "held", "freed"}
      /\ rc' \in {EX_OK, EX_USAGE, EX_DATAERR}
  BY <1>1 DEF Found, TypeOK
<1>3. QED
  BY <1>2, LoopStays

LEMMA NotEnoughArgumentsInv == ASSUME IInv, NotEnoughArguments PROVE IInv'
<1>1. TypeOK
  BY DEF IInv
<1>2. /\ pc = "shift" /\ pc' = "exit1"
      /\ UNCHANGED <<input, args, opts, item, rc, branch, attempts>>
      /\ item' \in {"null", "held", "freed"}
      /\ rc' \in {EX_OK, EX_USAGE, EX_DATAERR}
  BY <1>1 DEF NotEnoughArguments, TypeOK
<1>3. QED
  BY <1>2, LoopStays

LEMMA FreeInv == ASSUME IInv, Free PROVE IInv'
<1>1. TypeOK
  BY DEF IInv
<1>2. /\ pc = "free" /\ pc' = "returned" /\ rc' = rc
      /\ UNCHANGED <<input, args, opts, rc, branch, attempts>>
      /\ item' \in {"null", "held", "freed"}
      /\ rc' \in {EX_OK, EX_USAGE, EX_DATAERR}
  BY <1>1 DEF Free, TypeOK
<1>3. QED
  BY <1>2, LoopStays

\* The action's name is taken off the line.
LEMMA ShiftInv == ASSUME IInv, Shift PROVE IInv'
<1>1. /\ TypeOK /\ Suffix /\ Running /\ AllWords /\ Follows
      /\ pc = "shift" /\ args # <<>> /\ args' = Tail(args)
      /\ pc' = IF argc = 1 THEN "free" ELSE "lookup"
      /\ UNCHANGED <<input, opts, item, rc, branch, attempts>>
      /\ cmd' = cmd /\ line' = line /\ opts' = opts /\ attempts' = attempts
      /\ rc' = rc
  BY DEF IInv, Shift, input
<1>2. /\ Len(line) \in Nat /\ argc \in Nat /\ argc = Len(line) - here + 1
      /\ here \in 1..Len(line) /\ args' = Rest(here + 1)
      /\ line \in Seq(STRING \ {None})
  BY <1>1, LeftShape DEF Suffix
<1>3. Suffix' /\ here' = here + 1
  <2>1. 1 \in 0..argc
    <3> HIDE DEF here
    <3>1. QED
      BY <1>2
  <2>2. QED
    BY <1>1, <1>2, <2>1, Moves
<1>4. args' = <<>> <=> argc = 1
  <2> HIDE DEF here
  <2>1. here + 1 \in 1..Len(line) + 1 /\ (argc = 1 <=> here + 1 > Len(line))
    BY <1>2
  <2>2. here + 1 > Len(line) => SubSeq(line, here + 1, Len(line)) = <<>>
    BY <1>2, <2>1, SubSeqEmpty
  <2>3. here + 1 <= Len(line) => SubSeq(line, here + 1, Len(line)) # <<>>
    BY <1>2, <2>1, SuffixShape
  <2>4. QED
    BY <1>2, <2>1, <2>2, <2>3 DEF Rest
<1>5. /\ table' = table /\ Words' = Words /\ Reading' = Reading
      /\ ReadFrom' = ReadFrom /\ Exceptions' = Exceptions
      /\ ListAsked' = ListAsked /\ IgnoresWords' = IgnoresWords
      /\ SkipsWord' = SkipsWord
  BY <1>1, ReadingStays, SkipsStays DEF table
<1>6. Running'
  BY <1>1, <1>4, <1>5 DEF Running
<1>7. ASSUME ~SkipsWord PROVE AllWords'
  <2>1. (rc # EX_OK /\ argc = 1) \/ FlattenSeq(attempts) \o args' = Words
    BY <1>1, <1>7 DEF AllWords
  <2>2. CASE argc = 1
    <3>1. FlattenSeq(attempts) \in Seq(ToSet(line))
      <4>1. attempts \in Seq(Seq(ToSet(line)))
        BY <1>1 DEF TypeOK
      <4>2. <<>> \in Seq(ToSet(line))
        OBVIOUS
      <4>3. QED
        BY <4>1, <4>2, FlattenAppend
    <3>2. rc = EX_OK => FlattenSeq(attempts) = Words
      BY <1>4, <2>1, <2>2, <3>1, ConcatEmptySeq
    <3>3. QED
      BY <1>1, <1>5, <2>2, <3>2 DEF AllWords
  <2>3. CASE argc # 1
    BY <1>1, <1>5, <2>1, <2>3 DEF AllWords
  <2>4. QED
    BY <2>2, <2>3
<1>8. Follows'
  <2>1. argc # 1 => argc > 1
    <3>1. argc # 0
      <4> HIDE DEF here
      <4>1. QED
        BY <1>2
    <3>2. QED
      BY <1>2, <3>1
  <2>2. ~Exceptions => IsPrefix(attempts', Reading')
    BY <1>1, <1>5 DEF Follows
  <2>3. ~Exceptions /\ argc # 1 => Reading = attempts \o ReadFrom[here + 1]
    BY <1>1, <2>1 DEF Follows
  <2>4. QED
    BY <1>1, <1>3, <1>5, <2>2, <2>3 DEF Follows
<1>9. /\ item' \in {"null", "held", "freed"}
      /\ rc' \in {EX_OK, EX_USAGE, EX_DATAERR}
      /\ branch' \in {"there", "deleted"}
      /\ attempts' \in Seq(Seq(ToSet(line)))
  BY <1>1 DEF TypeOK
<1>10. AllWords'
  BY <1>5, <1>7 DEF AllWords
<1>11. QED
  BY <1>1, <1>3, <1>6, <1>8, <1>9, <1>10, KeepsOptions

-----------------------------------------------------------------------------
(* Handlers. *)

\* While a handler runs its action's name is in front.
LEMMA InHandler ==
  ASSUME IInv, pc = "handle"
  PROVE  /\ TypeOK /\ Suffix
         /\ line \in Seq(ToSet(line)) /\ args \in Seq(ToSet(line))
         /\ Len(line) \in Nat /\ here \in 1..Len(line)
         /\ argc \in Nat \ {0} /\ argc = Len(line) - here + 1
         /\ args = Rest(here)
         /\ name = line[here]
         /\ argc > 1 => args[2] = line[here + 1]
         /\ Subject = table /\ name \in ActionsOf(table) /\ ~ListAsked
<1>1. /\ TypeOK /\ Suffix /\ args # <<>> /\ Subject = table
      /\ name \in ActionsOf(table) /\ ~ListAsked
  BY DEF IInv, Running, OptionsKnown
<1>2. /\ Len(line) \in Nat /\ argc \in Nat /\ argc = Len(line) - here + 1
      /\ here \in 1..Len(line) /\ args = Rest(here) /\ name = line[here]
      /\ argc > 1 => args[2] = line[here + 1]
      /\ line \in Seq(ToSet(line)) /\ args \in Seq(ToSet(line))
  BY <1>1, LeftShape, LineWords DEF Suffix
<1>3. argc # 0
  <2> HIDE DEF here
  <2>1. QED
    BY <1>2
<1>4. QED
  BY <1>1, <1>2, <1>3

\* The words the manual gives to the action in front.
LEMMA SpanOf ==
  ASSUME IInv, pc = "handle"
  PROVE  /\ name \notin Table[table].takesWord
                          \cup {"title", "labels", "merge", "artifacts"} =>
              Span(here) = 0
         /\ name \in Table[table].takesWord \cup {"title"} => Span(here) = 1
         /\ name = "labels" => Span(here) = 2 * Max(LabelPairs(here, line))
         /\ name = "merge" => Span(here) = Max(MergeOptions(here))
         /\ name = "artifacts" =>
              Span(here) =
                IF here < Len(line) /\ line[here + 1] = "-o" THEN 2 ELSE 0
<1>1. name = line[here] /\ Subject = table /\ TypeOK
  BY InHandler
<1>2. Table[table].takesWord \cap {"labels", "merge", "artifacts"} = {}
  BY <1>1, TableShape
<1> DEFINE labels == 2 * Max(LabelPairs(here, line))
           merge == Max(MergeOptions(here))
           artifacts == IF here < Len(line) /\ line[here + 1] = "-o" THEN 2 ELSE 0
           W == Table[table].takesWord
<1>3. Span(here) = CASE name \in W \cup {"title"} -> 1
                     [] name = "labels" -> labels
                     [] name = "merge" -> merge
                     [] name = "artifacts" -> artifacts
                     [] OTHER -> 0
  BY <1>1, Zenon DEF Span
<1>4. W \cap {"labels", "merge", "artifacts"} = {}
  BY <1>2
<1> HIDE DEF labels, merge, artifacts, W
<1>5. /\ name \notin W \cup {"title", "labels", "merge", "artifacts"} => Span(here) = 0
      /\ name \in W \cup {"title"} => Span(here) = 1
      /\ name = "labels" => Span(here) = labels
      /\ name = "merge" => Span(here) = merge
      /\ name = "artifacts" => Span(here) = artifacts
  BY <1>3, <1>4
<1>6. QED
  BY <1>5 DEF labels, merge, artifacts, W

LEMMA Reassociate ==
  ASSUME NEW T, NEW s \in Seq(T), NEW t \in Seq(T), NEW u \in Seq(T)
  PROVE  (s \o t) \o u = s \o (t \o u)
BY ConcatAssociative

\* The action with some words behind it, and the line behind them.
LEMMA Taken ==
  ASSUME IInv, pc = "handle", NEW w \in 0..argc - 1,
         NEW a, a = Append(attempts, SubSeq(args, 1, 1 + w))
  PROVE  /\ a \in Seq(Seq(ToSet(line)))
         /\ SubSeq(args, 1 + w, argc) = Rest(here + w)
         /\ ~SkipsWord => FlattenSeq(a) \o Rest(here + w + 1) = Words
         /\ ~Exceptions /\ w = Span(here) =>
              /\ Reading = a \o ReadFrom[here + w + 1]
              /\ IsPrefix(a, Reading)
<1>1. /\ line \in Seq(ToSet(line)) /\ Len(line) \in Nat /\ here \in 1..Len(line)
      /\ argc \in Nat /\ argc = Len(line) - here + 1 /\ args = Rest(here)
      /\ name = line[here] /\ Subject = table /\ name \in ActionsOf(table)
  BY InHandler
<1>2. attempts \in Seq(Seq(ToSet(line)))
  BY InHandler DEF TypeOK
<1>3. PICK p \in 1..Len(line) : p = here
  BY <1>1
<1>4. w \in 0..Len(line) - p /\ p + w + 1 \in 1..Len(line) + 1
  <2> HIDE DEF here
  <2>1. QED
    BY <1>1, <1>3
<1> DEFINE x == SubSeq(line, p, p + w)
           r == Rest(p + w + 1)
<1>5. /\ SubSeq(args, 1, 1 + w) = x
      /\ SubSeq(args, 1 + w, argc) = Rest(p + w)
      /\ x \in Seq(ToSet(line))
      /\ args = x \o r
  <2> DEFINE d == SubSeq(line, p, Len(line))
  <2>1. args = d /\ argc = Len(d)
    BY <1>1, <1>3 DEF Rest, argc
  <2>2. /\ SubSeq(d, 1, 1 + w) = SubSeq(line, p, p + w)
        /\ SubSeq(d, 1 + w, Len(d)) = SubSeq(line, p + w, Len(line))
        /\ SubSeq(line, p, p + w) \in Seq(ToSet(line))
        /\ d = SubSeq(line, p, p + w) \o SubSeq(line, p + w + 1, Len(line))
    BY <1>1, <1>4, SuffixSplit
  <2> HIDE DEF d
  <2>3. QED
    BY <2>1, <2>2 DEF Rest
<1>6. r \in Seq(ToSet(line))
  BY <1>1, <1>4, SuffixShape DEF Rest
<1> HIDE DEF x, r
<1>7. /\ a = Append(attempts, x) /\ a = attempts \o <<x>>
      /\ a \in Seq(Seq(ToSet(line)))
      /\ <<x>> \in Seq(Seq(ToSet(line)))
  <2>1. /\ a = Append(attempts, x)
        /\ Append(attempts, x) \in Seq(Seq(ToSet(line)))
        /\ <<x>> \in Seq(Seq(ToSet(line)))
    BY <1>2, <1>5
  <2>2. Append(attempts, x) = attempts \o <<x>>
    BY <1>2, <1>5, AppendIsConcat
  <2>3. QED
    BY <2>1, <2>2
<1>8. ASSUME ~SkipsWord PROVE FlattenSeq(a) \o r = Words
  <2> DEFINE f == FlattenSeq(attempts)
  <2>1. f \in Seq(ToSet(line)) /\ FlattenSeq(a) = f \o x
    BY <1>2, <1>5, <1>7, FlattenAppend
  <2>2. f \o args = Words
    BY <1>8 DEF IInv, AllWords
  <2> HIDE DEF f
  <2>3. (f \o x) \o r = f \o (x \o r)
    <3> DEFINE T == ToSet(line)
    <3>1. f \in Seq(T) /\ x \in Seq(T) /\ r \in Seq(T)
      BY <1>5, <1>6, <2>1
    <3> HIDE DEF T
    <3>2. QED
      BY <3>1, Reassociate
  <2>4. QED
    BY <1>5, <1>6, <2>1, <2>2, <2>3
<1>9. ASSUME ~Exceptions, w = Span(here)
      PROVE  Reading = a \o ReadFrom[p + w + 1] /\ IsPrefix(a, Reading)
  <2>1. Reading = attempts \o ReadFrom[p]
    BY <1>3, <1>9 DEF IInv, Follows
  <2>2. Readable(p) /\ w = Span(p) /\ ~(p > Len(line))
    <3>1. p + w <= Len(line) /\ ~(p > Len(line))
      BY <1>1, <1>4
    <3>2. QED
      BY <1>1, <1>3, <1>9, <3>1 DEF Readable
  <2>3. ReadFrom[p] = <<x>> \o ReadFrom[p + w + 1]
    <3>1. p \in 1..Len(line) + 1
      BY <1>1
    <3>2. ReadFrom[p] =
            IF p > Len(line) \/ ~Readable(p) THEN <<>>
            ELSE <<SubSeq(line, p, p + Span(p))>> \o ReadFrom[p + Span(p) + 1]
      BY <1>1, <3>1, ReadFromIs
    <3>3. QED
      BY <2>2, <3>2 DEF x
  <2>4. ReadFrom[p + w + 1] \in Seq(Seq(ToSet(line)))
    BY <1>1, <1>4, ReadFromType
  <2>5. Reading = (attempts \o <<x>>) \o ReadFrom[p + w + 1]
    <3>1. (attempts \o <<x>>) \o ReadFrom[p + w + 1]
            = attempts \o (<<x>> \o ReadFrom[p + w + 1])
      <4> DEFINE b == ReadFrom[p + w + 1]
                 y == <<x>>
                 W == Seq(ToSet(line))
      <4>1. attempts \in Seq(W) /\ y \in Seq(W) /\ b \in Seq(W)
        BY <1>2, <1>7, <2>4
      <4> HIDE DEF b, y, W
      <4>2. (attempts \o y) \o b = attempts \o (y \o b)
        BY <4>1, Reassociate, SMTT(60)
      <4>3. QED
        BY <4>2 DEF b, y
    <3>2. QED
      BY <2>1, <2>3, <3>1
  <2>6. IsPrefix(a, a \o ReadFrom[p + w + 1])
    BY <1>7, <2>4, PrefixOfConcat
  <2>7. QED
    BY <1>7, <2>5, <2>6
<1>10. QED
  BY <1>3, <1>5, <1>7, <1>8, <1>9 DEF r

\* A handler that runs its action with w words, and takes v off the line.
LEMMA HandlerStep ==
  ASSUME IInv, pc = "handle", UNCHANGED <<input, opts>>,
         NEW w \in 0..argc - 1, NEW v \in 0..argc,
         attempts' = Append(attempts, SubSeq(args, 1, 1 + w)),
         args' = Rest(here + v),
         \/ pc' = "shift" /\ (v = w \/ args' = <<>> \/ (Exceptions /\ SkipsWord'))
         \/ pc' = "exit1",
         ~Exceptions => w = Span(here),
         item' \in {"null", "held", "freed"},
         rc' \in {EX_OK, EX_USAGE, EX_DATAERR},
         branch' \in {"there", "deleted"}
  PROVE  IInv'
<1>1. cmd' = cmd /\ line' = line /\ opts' = opts
  BY DEF input
<1>2. /\ Suffix /\ line \in Seq(ToSet(line)) /\ Len(line) \in Nat
      /\ here \in 1..Len(line) /\ ~ListAsked
      /\ argc \in Nat /\ argc = Len(line) - here + 1
  BY InHandler
<1>3. Suffix' /\ here' = here + v
  BY <1>1, <1>2, Moves
<1>4. PICK a : a = attempts' /\ a = Append(attempts, SubSeq(args, 1, 1 + w))
  OBVIOUS
<1>5. /\ a \in Seq(Seq(ToSet(line)))
      /\ ~SkipsWord => FlattenSeq(a) \o Rest(here + w + 1) = Words
      /\ ~Exceptions => /\ Reading = a \o ReadFrom[here + w + 1]
                        /\ IsPrefix(a, Reading)
  BY <1>4, Taken
<1>6. /\ Words' = Words /\ Reading' = Reading /\ ReadFrom' = ReadFrom
      /\ Exceptions' = Exceptions /\ ListAsked' = ListAsked
  BY <1>1, ReadingStays
<1>7. Running'
  BY <1>2, <1>6 DEF Running
<1>8. ASSUME v = w PROVE Tail(args') = Rest(here + w + 1)
  <2>1. here + w \in 1..Len(line)
    <3> HIDE DEF here
    <3>1. QED
      BY <1>2
  <2>2. args' = SubSeq(line, here + w, Len(line))
    BY <1>8 DEF Rest
  <2>3. Tail(SubSeq(line, here + w, Len(line))) = SubSeq(line, here + w + 1, Len(line))
    <3> HIDE DEF here
    <3>1. QED
      BY <1>2, <2>1, SuffixTail
  <2>4. QED
    BY <2>2, <2>3 DEF Rest
<1>9. AllWords'
  <2>1. SkipsWord => SkipsWord'
    <3>1. /\ attempts \in Seq(Seq(ToSet(line))) /\ 1 + w \in 1..Len(args)
          /\ args \in Seq(ToSet(line))
      <4>1. attempts \in Seq(Seq(ToSet(line)))
        BY InHandler DEF TypeOK
      <4>2. args \in Seq(ToSet(line))
        BY <1>2, LineWords, LeftShape DEF Suffix
      <4>3. 1 + w \in 1..Len(args)
        BY <1>2 DEF argc
      <4>4. QED
        BY <4>1, <4>2, <4>3
    <3>2. SubSeq(args, 1, 1 + w) \in Seq(ToSet(line))
      BY <3>1
    <3>3. QED
      BY <1>1, <3>1, <3>2, SkipsGrows
  <2>2. ASSUME pc' = "shift", args' # <<>>, ~SkipsWord'
        PROVE  FlattenSeq(attempts') \o Tail(args') = Words'
    BY <1>4, <1>5, <1>6, <1>8, <2>1, <2>2
  <2>3. QED
    BY <2>2 DEF AllWords
<1>10. Follows'
  <2>1. ASSUME ~Exceptions', pc' = "shift", argc' > 1
        PROVE  Reading' = attempts' \o ReadFrom'[here' + 1]
    <3>1. args' # <<>>
      BY <2>1 DEF argc
    <3>2. v = w
      BY <1>6, <2>1, <3>1
    <3>3. QED
      BY <1>3, <1>4, <1>5, <1>6, <2>1, <3>2
  <2>2. ~Exceptions' => IsPrefix(attempts', Reading')
    BY <1>4, <1>5, <1>6
  <2>3. QED
    BY <2>1, <2>2 DEF Follows
<1>11. attempts' \in Seq(Seq(ToSet(line)))
  BY <1>4, <1>5
<1>12. QED
  BY <1>3, <1>7, <1>9, <1>10, <1>11, KeepsOptions

\* A handler that takes the words of its action.
LEMMA TakeInv ==
  ASSUME IInv, pc = "handle", UNCHANGED <<input, opts, item>>,
         NEW w \in 0..argc - 1, Take(w), ~Exceptions => w = Span(here),
         pc' \in {"shift", "exit1"},
         rc' \in {EX_OK, EX_USAGE, EX_DATAERR},
         branch' \in {"there", "deleted"}
  PROVE  IInv'
<1>1. /\ attempts' = Append(attempts, SubSeq(args, 1, 1 + w))
      /\ args' = SubSeq(args, 1 + w, argc)
  BY DEF Take
<1>2. \A a : a = Append(attempts, SubSeq(args, 1, 1 + w)) =>
               SubSeq(args, 1 + w, argc) = Rest(here + w)
  BY Taken
<1>3. args' = Rest(here + w)
  BY <1>1, <1>2
<1>4. item' \in {"null", "held", "freed"}
  BY InHandler DEF TypeOK
<1>5. w \in 0..argc /\ argc \in Nat
  BY InHandler
<1>6. QED
  BY <1>1, <1>3, <1>4, <1>5, HandlerStep

\* Actions that take no words.
LEMMA TakeNoneInv ==
  ASSUME IInv, pc = "handle", Take(0), UNCHANGED <<input, opts, item, branch>>,
         name \notin Table[table].takesWord \cup {"title", "labels", "merge", "artifacts"},
         pc' \in {"shift", "exit1"}, rc' \in {EX_OK, EX_USAGE, EX_DATAERR}
  PROVE  IInv'
<1>1. Span(here) = 0
  BY SpanOf
<1>2. 0 \in 0..argc - 1 /\ TypeOK
  BY InHandler
<1>3. branch' \in {"there", "deleted"}
  BY <1>2 DEF TypeOK
<1>4. QED
  BY <1>1, <1>2, <1>3, TakeInv

LEMMA AsksInv ==
  ASSUME IInv, NEW t, NEW names, names \subseteq Table[t].plain, Asks(t, names)
  PROVE  IInv'
<1>1. /\ table = t /\ pc = "handle" /\ name \in names /\ Take(0)
      /\ rc' \in {EX_OK, EX_DATAERR} /\ pc' = "shift"
      /\ UNCHANGED <<input, opts, item>> /\ UNCHANGED branch
  BY DEF Asks, Handle, Return
<1>2. name \notin Table[table].takesWord \cup {"title", "labels", "merge", "artifacts"}
  BY <1>1, TableShape DEF IInv
<1>3. QED
  BY <1>1, <1>2, TakeNoneInv

LEMMA PrintsInv ==
  ASSUME IInv, NEW t, NEW names, names \subseteq Table[t].plain, Prints(t, names)
  PROVE  IInv'
<1>1. /\ table = t /\ pc = "handle" /\ name \in names /\ Take(0)
      /\ rc' = EX_OK /\ pc' = "shift"
      /\ UNCHANGED <<input, opts, item>> /\ UNCHANGED branch
  BY DEF Prints, Handle, Return
<1>2. name \notin Table[table].takesWord \cup {"title", "labels", "merge", "artifacts"}
  BY <1>1, TableShape DEF IInv
<1>3. QED
  BY <1>1, <1>2, TakeNoneInv

LEMMA PlainInv ==
  ASSUME IInv,
         \/ PullPrints \/ PullAsks \/ PullChanges
         \/ IssuePrints \/ IssueAsks \/ IssueChanges
         \/ MilestonePrints \/ MilestoneAsks \/ PipelinePrints \/ PipelineAsks
         \/ JobPrints \/ JobAsks
  PROVE  IInv'
<1>1. /\ Table["pulls"] = PullActions /\ Table["issues"] = IssueActions
      /\ Table["milestones"] = MilestoneActions
      /\ Table["pipelines"] = PipelineActions /\ Table["jobs"] = JobActions
  BY DEF Table
<1>2. CASE PullPrints
  <2>1. {"op", "status"} \subseteq Table["pulls"].plain
    BY <1>1 DEF PullActions
  <2>2. QED
    BY <1>2, <2>1, PrintsInv, Zenon DEF PullPrints
<1>3. CASE PullAsks
  <2>1. {"all", "commits", "diff", "patch", "notes", "comments", "ci"}
          \subseteq Table["pulls"].plain
    BY <1>1 DEF PullActions
  <2>2. QED
    BY <1>3, <2>1, AsksInv, Zenon DEF PullAsks
<1>4. CASE PullChanges
  <2>1. {"close", "reopen"} \subseteq Table["pulls"].plain
    BY <1>1 DEF PullActions
  <2>2. QED
    BY <1>4, <2>1, AsksInv, Zenon DEF PullChanges
<1>5. CASE IssuePrints
  <2>1. {"all", "op", "status"} \subseteq Table["issues"].plain
    BY <1>1 DEF IssueActions
  <2>2. QED
    BY <1>5, <2>1, PrintsInv, Zenon DEF IssuePrints
<1>6. CASE IssueAsks
  <2>1. {"comments", "notes", "attachments"} \subseteq Table["issues"].plain
    BY <1>1 DEF IssueActions
  <2>2. QED
    BY <1>6, <2>1, AsksInv, Zenon DEF IssueAsks
<1>7. CASE IssueChanges
  <2>1. {"close", "reopen"} \subseteq Table["issues"].plain
    BY <1>1 DEF IssueActions
  <2>2. QED
    BY <1>7, <2>1, AsksInv, Zenon DEF IssueChanges
<1>8. CASE MilestonePrints
  <2>1. {"status"} \subseteq Table["milestones"].plain
    BY <1>1 DEF MilestoneActions
  <2>2. QED
    BY <1>8, <2>1, PrintsInv, Zenon DEF MilestonePrints
<1>9. CASE MilestoneAsks
  <2>1. {"all", "issues", "delete"} \subseteq Table["milestones"].plain
    BY <1>1 DEF MilestoneActions
  <2>2. QED
    BY <1>9, <2>1, AsksInv, Zenon DEF MilestoneAsks
<1>10. CASE PipelinePrints
  <2>1. {"status"} \subseteq Table["pipelines"].plain
    BY <1>1 DEF PipelineActions
  <2>2. QED
    BY <1>10, <2>1, PrintsInv, Zenon DEF PipelinePrints
<1>11. CASE PipelineAsks
  <2>1. {"all", "jobs", "children"} \subseteq Table["pipelines"].plain
    BY <1>1 DEF PipelineActions
  <2>2. QED
    BY <1>11, <2>1, AsksInv, Zenon DEF PipelineAsks
<1>12. CASE JobPrints
  <2>1. {"status"} \subseteq Table["jobs"].plain
    BY <1>1 DEF JobActions
  <2>2. QED
    BY <1>12, <2>1, PrintsInv, Zenon DEF JobPrints
<1>13. CASE JobAsks
  <2>1. {"log", "cancel", "retry"} \subseteq Table["jobs"].plain
    BY <1>1 DEF JobActions
  <2>2. QED
    BY <1>13, <2>1, AsksInv, Zenon DEF JobAsks
<1>14. QED
  BY <1>2, <1>3, <1>4, <1>5, <1>6, <1>7, <1>8, <1>9, <1>10, <1>11, <1>12, <1>13

LEMMA OpenInv == ASSUME IInv, Open PROVE IInv'
<1>1. /\ pc = "handle" /\ name = "open" /\ Take(0)
      /\ rc' \in {EX_OK, EX_DATAERR} /\ pc' = "shift"
      /\ UNCHANGED <<input, opts, item>> /\ UNCHANGED branch
  BY DEF Open, OpenUrl, Handle, Return
<1>2. name \notin Table[table].takesWord \cup {"title", "labels", "merge", "artifacts"}
  BY <1>1, TableShape DEF IInv
<1>3. QED
  BY <1>1, <1>2, TakeNoneInv

LEMMA ReviewInv == ASSUME IInv, Review PROVE IInv'
<1>1. /\ pc = "handle" /\ name = "review" /\ Take(0)
      /\ rc' \in {EX_OK, EX_DATAERR, rc} /\ pc' \in {"shift", "exit1"}
      /\ UNCHANGED <<input, opts, item>> /\ UNCHANGED branch
  BY DEF Review, Handle, Return
<1>2. name \notin Table[table].takesWord \cup {"title", "labels", "merge", "artifacts"}
  BY <1>1, TableShape DEF IInv
<1>3. rc' \in {EX_OK, EX_USAGE, EX_DATAERR}
  BY <1>1 DEF IInv, TypeOK
<1>4. QED
  BY <1>1, <1>2, <1>3, TakeNoneInv

LEMMA CheckoutFailsInv == ASSUME IInv, CheckoutFails PROVE IInv'
<1>1. /\ pc = "handle" /\ name = "checkout" /\ Take(0)
      /\ rc' = EX_DATAERR /\ pc' = "shift"
      /\ UNCHANGED <<input, opts, item>> /\ UNCHANGED branch
  BY DEF CheckoutFails, Handle, Return
<1>2. name \notin Table[table].takesWord \cup {"title", "labels", "merge", "artifacts"}
  BY <1>1, TableShape DEF IInv
<1>3. QED
  BY <1>1, <1>2, TakeNoneInv

\* The action that misses its word is the last on the line.
LEMMA MissingWordInv == ASSUME IInv, MissingWord PROVE IInv'
<1>1. /\ pc = "handle" /\ argc < 2 /\ rc' = EX_USAGE /\ pc' = "shift"
      /\ UNCHANGED <<input, opts, item>> /\ UNCHANGED <<args, branch, attempts>>
  BY DEF MissingWord, Handle, Return
<1>2. argc \in Nat \ {0} /\ TypeOK
  BY <1>1, InHandler
<1>3. argc = 1 /\ item' \in {"null", "held", "freed"}
  BY <1>1, <1>2 DEF TypeOK
<1>4. rc' # EX_OK
  BY <1>1 DEF EX_OK, EX_USAGE
<1>5. QED
  BY <1>1, <1>3, <1>4, LoopStays

LEMMA WordActionInv == ASSUME IInv, WordAction PROVE IInv'
<1>1. /\ pc = "handle" /\ name \in Table[table].takesWord /\ argc >= 2 /\ Take(1)
      /\ rc' \in WordCodes /\ pc' = "shift"
      /\ UNCHANGED <<input, opts, item>> /\ UNCHANGED branch
  BY DEF WordAction, Handle, Return
<1>2. Span(here) = 1
  BY <1>1, SpanOf
<1>3. argc \in Nat /\ TypeOK
  BY <1>1, InHandler
<1>4. 1 \in 0..argc - 1
  BY <1>1, <1>3
<1>5. rc' \in {EX_OK, EX_USAGE, EX_DATAERR} /\ branch' \in {"there", "deleted"}
  BY <1>1, <1>3 DEF WordCodes, TypeOK
<1>6. QED
  BY <1>1, <1>2, <1>4, <1>5, TakeInv

LEMMA TitleInv == ASSUME IInv, Title PROVE IInv'
<1>1. /\ pc = "handle" /\ name = "title" /\ argc >= 2 /\ Take(1)
      /\ rc' = EX_OK /\ pc' = "shift"
      /\ UNCHANGED <<input, opts, item>> /\ UNCHANGED branch
  BY DEF Title, Handle, Return
<1>2. Span(here) = 1
  BY <1>1, SpanOf
<1>3. argc \in Nat /\ TypeOK
  BY <1>1, InHandler
<1>4. 1 \in 0..argc - 1
  BY <1>1, <1>3
<1>5. branch' \in {"there", "deleted"}
  BY <1>1, <1>3 DEF TypeOK
<1>6. QED
  BY <1>1, <1>2, <1>4, <1>5, TakeInv

LEMMA TitleFailsInv == ASSUME IInv, TitleFails PROVE IInv'
<1>1. /\ pc = "handle" /\ name = "title" /\ argc >= 2 /\ pc' = "exit1"
      /\ attempts' = Append(attempts, SubSeq(args, 1, 2))
      /\ UNCHANGED <<input, args, opts, item, rc, branch>>
      /\ UNCHANGED <<input, opts>>
  BY DEF TitleFails, Handle
<1>2. Span(here) = 1
  BY <1>1, SpanOf
<1>3. argc \in Nat /\ TypeOK /\ args = Rest(here) /\ here \in 1..Len(line)
      /\ Len(line) \in Nat
  BY <1>1, InHandler
<1>4. 1 \in 0..argc - 1 /\ 0 \in 0..argc /\ 1 + 1 = 2
  BY <1>1, <1>3
<1>5. args' = Rest(here + 0)
  <2>1. here + 0 = here
    <3> HIDE DEF here
    <3>1. QED
      BY <1>3
  <2>2. QED
    BY <1>1, <1>3, <2>1
<1>6. /\ branch' \in {"there", "deleted"} /\ item' \in {"null", "held", "freed"}
      /\ rc' \in {EX_OK, EX_USAGE, EX_DATAERR}
  BY <1>1, <1>3 DEF TypeOK
<1>7. attempts' = Append(attempts, SubSeq(args, 1, 1 + 1))
  BY <1>1, <1>4
<1>8. QED
  BY <1>1, <1>2, <1>4, <1>5, <1>6, <1>7, HandlerStep

\* `artifacts' takes its option unless nothing stands behind it.
LEMMA ArtifactsInv == ASSUME IInv, Artifacts PROVE IInv'
<1>1. /\ pc = "handle" /\ name = "artifacts" /\ Take(ArtifactWords)
      /\ rc' \in {EX_OK, EX_USAGE} /\ pc' = "shift"
      /\ UNCHANGED <<input, opts, item>> /\ UNCHANGED branch
  BY DEF Artifacts, Handle, Return
<1>2. /\ argc \in Nat \ {0} /\ Len(line) \in Nat /\ here \in 1..Len(line)
      /\ argc = Len(line) - here + 1 /\ name = line[here] /\ TypeOK
      /\ argc > 1 => args[2] = line[here + 1]
      /\ Subject = table /\ name \in ActionsOf(table)
      /\ line \in Seq(ToSet(line))
  BY <1>1, InHandler
<1>3. ArtifactWords \in 0..argc - 1
  BY <1>2 DEF ArtifactWords
<1>4. ASSUME ~Exceptions PROVE ArtifactWords = Span(here)
  <2>1. Span(here) = IF here < Len(line) /\ line[here + 1] = "-o" THEN 2 ELSE 0
    BY <1>1, SpanOf
  <2>2. Subject = "jobs"
    BY <1>1, <1>2, TableShape
  <2>3. argc > 1 <=> here < Len(line)
    <3> HIDE DEF here
    <3>1. QED
      BY <1>2
  <2>4. ~(argc = 2 /\ args[2] = "-o")
    <3>1. SUFFICES ASSUME argc = 2, args[2] = "-o" PROVE FALSE
      OBVIOUS
    <3>2. PICK p \in 1..Len(line) : p = here
      BY <1>2
    <3>3. p = Len(line) - 1 /\ Len(line) > 1 /\ line[p] = "artifacts"
          /\ line[p + 1] = "-o" /\ p + 1 = Len(line)
      BY <1>1, <1>2, <3>1, <3>2
    <3>4. SubSeq(line, Len(line) - 1, Len(line)) = <<"artifacts", "-o">>
      <4>1. \A i \in p..Len(line) : line[i] \in ToSet(line)
        BY <1>2, ElementOfSeq
      <4>2. /\ SubSeq(line, p, Len(line)) \in Seq(ToSet(line))
            /\ Len(SubSeq(line, p, Len(line))) = Len(line) - p + 1
            /\ \A i \in 1..Len(line) - p + 1 :
                 SubSeq(line, p, Len(line))[i] = line[p + i - 1]
        BY <1>2, SuffixShape
      <4> DEFINE d == SubSeq(line, p, Len(line))
      <4>3. Len(d) = 2 /\ d[1] = "artifacts" /\ d[2] = "-o"
        BY <1>2, <3>3, <4>2
      <4>4. d \in Seq(ToSet(line))
        BY <4>2
      <4> HIDE DEF d
      <4>5. d = <<"artifacts", "-o">>
        BY <4>3, <4>4
      <4>6. QED
        BY <3>3, <4>5 DEF d
    <3>5. QED
      BY <1>4, <2>2, <3>3, <3>4 DEF Exceptions
  <2>5. QED
    BY <1>2, <2>1, <2>3, <2>4 DEF ArtifactWords
<1>5. branch' \in {"there", "deleted"}
  BY <1>1, <1>2 DEF TypeOK
<1>6. QED
  BY <1>1, <1>3, <1>4, <1>5, TakeInv

\* `labels' takes the pairs that the manual gives it.
LEMMA LabelsInv == ASSUME IInv, Labels PROVE IInv'
<1>1. PICK k \in LabelPairs(1, args) :
        /\ pc = "handle" /\ name = "labels"
        /\ k + 1 \notin LabelPairs(1, args)
        /\ Take(2 * k)
        /\ rc' \in {EX_OK, EX_DATAERR} /\ pc' = "shift"
        /\ UNCHANGED <<input, opts, item>> /\ UNCHANGED branch
  BY DEF Labels, Handle, Return
<1>2. /\ argc \in Nat \ {0} /\ line \in Seq(ToSet(line)) /\ here \in 1..Len(line)
      /\ args = Rest(here) /\ TypeOK
  BY <1>1, InHandler
<1>3. LabelPairs(1, args) = LabelPairs(here, line)
  BY <1>2, LabelPairsLeft
<1> DEFINE m == Max(LabelPairs(1, args))
<1>4. m \in Nat /\ 1 + 2 * m <= argc /\ k = m
  <2>1. 1 \in 1..Len(args) /\ Len(args) \in Nat
    BY <1>2 DEF argc
  <2>2. QED
    BY <1>1, <2>1, LabelPairsMax DEF argc
<1>5. Span(here) = 2 * m
  BY <1>1, <1>3, SpanOf
<1>6. 2 * k \in 0..argc - 1 /\ 2 * k = Span(here)
  <2> HIDE DEF m
  <2>1. QED
    BY <1>2, <1>4, <1>5
<1>7. branch' \in {"there", "deleted"}
  BY <1>1, <1>2 DEF TypeOK
<1>8. QED
  BY <1>1, <1>6, <1>7, TakeInv

\* `merge' takes the one option word there is.
LEMMA MergeInv == ASSUME IInv, Merge PROVE IInv'
<1>1. /\ pc = "handle" /\ name = "merge" /\ Take(MergeWord)
      /\ rc' \in {EX_OK, EX_DATAERR} /\ pc' = "shift"
      /\ UNCHANGED <<input, opts, item>> /\ branch' \in {"deleted", branch}
  BY DEF Merge, Handle, Return
<1>2. /\ argc \in Nat \ {0} /\ Len(line) \in Nat /\ here \in 1..Len(line)
      /\ argc = Len(line) - here + 1 /\ name = line[here] /\ TypeOK
      /\ argc > 1 => args[2] = line[here + 1]
      /\ name \in ActionsOf(table)
  BY <1>1, InHandler
<1>3. MergeWord \in 0..argc - 1
  BY <1>2 DEF MergeWord
<1>4. ASSUME ~Exceptions PROVE MergeWord = Span(here)
  <2>1. Span(here) = Max(MergeOptions(here))
    BY <1>1, SpanOf
  <2>2. cmd = "pulls"
    BY <1>1, <1>2, TableShape
  <2>3. PICK p \in 1..Len(line) : p = here
    BY <1>2
  <2>4. ~(Max(MergeOptions(p)) > 1)
    BY <1>1, <1>2, <1>4, <2>2, <2>3 DEF Exceptions
  <2>5. /\ Max(MergeOptions(p)) \in Nat
        /\ Max(MergeOptions(p)) <= 1 =>
             Max(MergeOptions(p)) =
               IF p < Len(line) /\ line[p + 1] \in Squash \cup InhibitDelete
               THEN 1 ELSE 0
    BY <1>2, MergeOptionsMax
  <2>6. Max(MergeOptions(p)) =
          IF p < Len(line) /\ line[p + 1] \in Squash \cup InhibitDelete
          THEN 1 ELSE 0
    <3> DEFINE m == Max(MergeOptions(p))
    <3>1. m \in Nat /\ ~(m > 1)
      BY <2>4, <2>5
    <3> HIDE DEF m
    <3>2. m <= 1
      BY <3>1
    <3>3. QED
      BY <2>5, <3>2 DEF m
  <2>7. argc > 1 <=> p < Len(line)
    BY <1>2, <2>3
  <2>8. QED
    BY <1>2, <2>1, <2>3, <2>6, <2>7 DEF MergeWord
<1>5. branch' \in {"there", "deleted"}
  BY <1>1, <1>2 DEF TypeOK
<1>6. QED
  BY <1>1, <1>3, <1>4, <1>5, TakeInv

\* `checkout' takes its own name off the line; the next word gets lost.
LEMMA CheckoutInv == ASSUME IInv, Checkout PROVE IInv'
<1>1. /\ pc = "handle" /\ name = "checkout"
      /\ attempts' = Append(attempts, SubSeq(args, 1, 1 + 0))
      /\ args' = Tail(args)
      /\ rc' = EX_OK /\ pc' = "shift"
      /\ UNCHANGED <<input, opts, item>> /\ UNCHANGED <<input, opts>>
      /\ cmd' = cmd /\ line' = line /\ branch' = branch
  BY DEF Checkout, Handle, Return, input
<1>2. /\ argc \in Nat \ {0} /\ Len(line) \in Nat /\ here \in 1..Len(line)
      /\ argc = Len(line) - here + 1 /\ name = line[here] /\ TypeOK /\ Suffix
      /\ name \in ActionsOf(table) /\ ~ListAsked
      /\ args \in Seq(ToSet(line))
  BY <1>1, InHandler
<1>3. Exceptions
  <2>1. cmd = "pulls"
    BY <1>1, <1>2, TableShape
  <2>2. PICK p \in 1..Len(line) : p = here
    BY <1>2
  <2>3. QED
    BY <1>1, <1>2, <2>1, <2>2 DEF Exceptions
<1>4. args' = Rest(here + 1) /\ 1 \in 0..argc /\ 0 \in 0..argc - 1
  <2>1. args # <<>>
    BY <1>2 DEF argc
  <2>2. QED
    BY <1>1, <1>2, <2>1, LeftShape
<1>5. /\ branch' \in {"there", "deleted"} /\ item' \in {"null", "held", "freed"}
      /\ rc' \in {EX_OK, EX_USAGE, EX_DATAERR}
  BY <1>1, <1>2 DEF TypeOK
<1>6. SkipsWord'
  <2>1. SubSeq(args, 1, 1) = <<"checkout">>
    <3>1. 1 \in 1..Len(args) /\ args[1] = "checkout"
      BY <1>1, <1>2 DEF argc, name
    <3> DEFINE one == SubSeq(args, 1, 1)
    <3>2. one \in Seq(ToSet(line)) /\ Len(one) = 1 /\ one[1] = args[1]
      BY <1>2, <3>1
    <3> HIDE DEF one
    <3>3. one = <<"checkout">>
      BY <3>1, <3>2
    <3>4. QED
      BY <3>3 DEF one
  <2>2. attempts \in Seq(Seq(ToSet(line))) /\ 1 + 0 = 1
    BY <1>2 DEF TypeOK
  <2>3. attempts' = Append(attempts, <<"checkout">>)
    BY <1>1, <2>1, <2>2
  <2>4. /\ Len(attempts') = Len(attempts) + 1 /\ Len(attempts) \in Nat
        /\ attempts'[Len(attempts) + 1] = <<"checkout">>
    BY <2>2, <2>3
  <2>5. ListAsked' = ListAsked
    BY <1>1, ReadingStays
  <2>6. Len(attempts) + 1 \in 1..Len(attempts')
    BY <2>4
  <2>7. QED
    BY <1>2, <2>4, <2>5, <2>6 DEF SkipsWord
<1>7. QED
  BY <1>1, <1>3, <1>4, <1>5, <1>6, HandlerStep

-----------------------------------------------------------------------------
(* The theorems. *)

\* The first word that is no option is in the line or behind its end.
LEMMA FirstWordShape ==
  ASSUME Len(line) \in Nat
  PROVE  FirstWord \in 1..Len(line) + 1
<1> DEFINE end(i) == IF line[i] \in Flags THEN i ELSE i + 1
           M == {0} \cup {end(i) : i \in OptionAt}
<1>1. ASSUME NEW i \in OptionAt PROVE end(i) \in 0..Len(line)
  <2>1. i \in 1..Len(line) /\ (i = Len(line) => line[i] \in Flags)
    BY DEF OptionAt
  <2>2. QED
    BY <2>1
<1>2. M \in SUBSET Int /\ M # {} /\ M \subseteq 0..Len(line)
  BY <1>1
<1>3. \A x \in M : x <= Len(line)
  BY <1>2
<1>4. Max(M) \in M
  <2>1. Len(line) \in Int
    OBVIOUS
  <2> HIDE DEF M
  <2>2. QED
    BY <1>2, <1>3, <2>1, MaxShape, Zenon
<1>5. FirstWord = Max(M) + 1
  BY DEF FirstWord
<1> HIDE DEF M
<1>6. Max(M) \in 0..Len(line)
  BY <1>2, <1>4
<1> DEFINE m == Max(M)
<1> HIDE DEF m
<1>7. m + 1 \in 1..Len(line) + 1
  BY <1>6 DEF m
<1>8. QED
  BY <1>5, <1>7 DEF m

LEMMA InitInv == Init => IInv
<1>1. SUFFICES ASSUME Init PROVE IInv
  OBVIOUS
<1>2. /\ cmd \in DOMAIN OptionsOf /\ line \in Seq(STRING \ {None})
      /\ inhibit \in BOOLEAN /\ args = line
      /\ opts = [o |-> None, r |-> None, id |-> None, by |-> {}, all |-> FALSE]
      /\ pc = "options" /\ item = "null" /\ rc = EX_OK /\ branch = "there"
      /\ attempts = <<>>
  BY <1>1, LinesAssumption DEF Init
<1>3. Len(line) \in Nat /\ line \in Seq(STRING) /\ line \in Seq(ToSet(line))
  <2>1. Len(line) \in Nat /\ \A i \in 1..Len(line) : line[i] \in STRING
    BY <1>2, ElementOfSeq
  <2>2. line \in Seq(STRING)
    BY <1>2, <2>1
  <2>3. line \in Seq(ToSet(line))
    BY <1>2, <2>1 DEF ToSet
  <2>4. QED
    BY <2>1, <2>2, <2>3
<1>4. SubSeq(line, 1, Len(line)) = line
  BY <1>2, SubSeqFull
<1>5. here = 1
  BY <1>2, <1>3 DEF here
<1>6. Suffix
  <2>1. 1 \in 1..Len(line) + 1
    BY <1>3
  <2>2. QED
    BY <1>2, <1>4, <1>5, <2>1 DEF Suffix, Rest
<1>7. TypeOK
  <2>1. \E i \in 0..Len(line) : args = SubSeq(line, i + 1, Len(line))
    <3>1. 0 \in 0..Len(line) /\ 0 + 1 = 1
      BY <1>3
    <3>2. QED
      BY <1>2, <1>4, <3>1
  <2>2. attempts \in Seq(Seq(ToSet(line)))
    BY <1>2
  <2>3. QED
    BY <1>2, <1>3, <2>1, <2>2 DEF TypeOK
<1>8. ReadingOptions
  <2>1. \A S : Before(1, S) = {}
    BY DEF Before
  <2>2. \A S : IsLast(1, S, None)
    BY <2>1 DEF IsLast
  <2>3. Boundary(1)
    BY DEF Boundary
  <2>4. opts.by = {line[i] : i \in Before(1, IdOptions)}
    BY <1>2, <2>1
  <2>5. HasRead(1)
    BY <1>2, <2>1, <2>2, <2>3, <2>4 DEF HasRead
  <2>6. QED
    BY <1>2, <1>5, <2>5 DEF ReadingOptions
<1>9. OptionsKnown /\ Running /\ AllWords
  BY <1>2 DEF OptionsKnown, Running, AllWords
<1>10. Follows
  <2>1. Reading \in Seq(Seq(ToSet(line)))
    <3>1. FirstWord \in 1..Len(line) + 1
      BY <1>3, FirstWordShape
    <3>2. Words \in Seq(ToSet(line))
      BY <1>3, <3>1, SuffixShape DEF Words
    <3>3. ReadFrom[FirstWord] \in Seq(Seq(ToSet(line)))
      BY <1>3, <3>1, ReadFromType
    <3>4. <<Words>> \in Seq(Seq(ToSet(line))) /\ <<>> \in Seq(Seq(ToSet(line)))
      BY <3>2
    <3>5. QED
      BY <3>3, <3>4 DEF Reading
  <2>2. <<>> \in Seq(Seq(ToSet(line))) /\ <<>> \o Reading = Reading
    BY <2>1, ConcatEmptySeq
  <2>3. IsPrefix(<<>>, <<>> \o Reading)
    BY <2>1, <2>2, PrefixOfConcat
  <2>4. QED
    BY <1>2, <2>2, <2>3 DEF Follows
<1>11. QED
  BY <1>6, <1>7, <1>8, <1>9, <1>10 DEF IInv

LEMMA NextInv == IInv /\ [Next]_vars => IInv'
<1>1. SUFFICES ASSUME IInv, [Next]_vars PROVE IInv'
  OBVIOUS
<1>2. CASE ReadOptions
  <2>1. ASSUME BadOption \/ NoSubject \/ NoRepository PROVE Fails
    BY <2>1 DEF BadOption, NoSubject, NoRepository
  <2>2. QED
    BY <1>1, <1>2, <2>1, FailsInv, OptionInv, FlagInv, ListInv, BeginInv
       DEF ReadOptions
<1>3. CASE UnknownAction \/ Fetch \/ Found \/ Shift \/ NotEnoughArguments \/ Free
  BY <1>1, <1>3, UnknownActionInv, FetchInv, FoundInv, ShiftInv,
     NotEnoughArgumentsInv, FreeInv
<1>4. CASE Handler
  BY <1>1, <1>4, PlainInv, OpenInv, ReviewInv, MissingWordInv, WordActionInv,
     TitleInv, TitleFailsInv, ArtifactsInv, LabelsInv, MergeInv, CheckoutInv,
     CheckoutFailsInv DEF Handler
<1>5. CASE UNCHANGED vars
  <2>1. /\ UNCHANGED <<cmd, line, inhibit>> /\ args' = args /\ opts' = opts
        /\ pc' = pc /\ item' = item /\ rc' = rc /\ branch' = branch
        /\ attempts' = attempts
    BY <1>5 DEF vars, input
  <2>2. /\ Suffix' /\ here' = here /\ attempts' \in Seq(Seq(ToSet(line)))
        /\ (~Exceptions => IsPrefix(attempts, Reading))'
    BY <1>1, <2>1, StaysBehind DEF input
  <2>3. CASE pc = "options"
    <3>1. PICK p \in Nat : p = here
      BY <1>1 DEF IInv, Suffix
    <3>2. HasRead(p)
      BY <1>1, <2>3, <3>1 DEF IInv, ReadingOptions
    <3>3. HasRead(p)'
      BY <2>1, <3>2, HasReadNext DEF HasRead
    <3>4. opts' \in OptsType
      BY <1>1, <2>1 DEF IInv, TypeOK, OptsType
    <3>5. p = here'
      BY <2>2, <3>1
    <3>6. UNCHANGED <<input, pc, item, rc, branch, attempts>>
      BY <2>1 DEF input
    <3>7. QED
      BY <1>1, <2>2, <2>3, <3>3, <3>4, <3>5, <3>6, ReadsOne
  <2>4. CASE pc # "options"
    <3>1. /\ Words' = Words /\ Reading' = Reading /\ ReadFrom' = ReadFrom
          /\ Exceptions' = Exceptions /\ ListAsked' = ListAsked
          /\ IgnoresWords' = IgnoresWords /\ SkipsWord' = SkipsWord
          /\ table' = table /\ name' = name /\ argc' = argc
      BY <2>1, ReadingStays, SkipsStays DEF table, name, argc
    <3>2. /\ OptionsKnown /\ Running /\ AllWords /\ Follows /\ TypeOK
      BY <1>1 DEF IInv
    <3>3. Running'
      BY <2>1, <3>1, <3>2 DEF Running, ActionsOf
    <3>4. AllWords'
      BY <2>1, <3>1, <3>2 DEF AllWords
    <3>5. Follows'
      BY <2>1, <2>2, <3>1, <3>2 DEF Follows
    <3>6. /\ pc' \in {"lookup", "handle", "shift", "free", "returned", "exit1"}
          /\ item' \in {"null", "held", "freed"}
          /\ rc' \in {EX_OK, EX_USAGE, EX_DATAERR}
          /\ branch' \in {"there", "deleted"}
      BY <2>1, <2>4, <3>2 DEF TypeOK
    <3>7. UNCHANGED <<input, opts>> /\ pc' # "options"
      BY <2>1, <2>4 DEF input
    <3>8. pc \in {"lookup", "handle", "shift", "free", "returned"}
          \/ (pc' = "exit1" /\ attempts' = attempts)
      BY <2>1, <2>4, <3>2 DEF TypeOK
    <3>9. QED
      BY <1>1, <2>2, <3>3, <3>4, <3>5, <3>6, <3>7, <3>8, KeepsOptions
  <2>5. QED
    BY <2>3, <2>4
<1>6. QED
  BY <1>1, <1>2, <1>3, <1>4, <1>5 DEF Next

LEMMA Invariance == Spec => []IInv
BY InitInv, NextInv, PTL DEF Spec

\* The variables of the actions keep their types: what is left of the line is
\* always its end, whatever the handlers take off it, and no action is run with
\* a word that is not on it.
THEOREM TypeCorrect == Spec => []TypeOK
<1>1. IInv => TypeOK
  BY DEF IInv
<1>2. QED
  BY <1>1, Invariance, PTL

\* gcli runs the actions of any line in its order, each once and with the words
\* the manual gives it, on the object and in the repository that the options
\* name (gcli_cmd_actions_handle and the handlers), but for the exceptions.
THEOREM RunsTheLine == Spec => []FollowsTheLine
<1>1. IInv => FollowsTheLine
  BY DEF IInv, Follows, OptionsKnown, FollowsTheLine
<1>2. QED
  BY <1>1, Invariance, PTL

\* Exit status 0 is never the result of a line that was read in part only:
\* every word of the line is a word of an action that was run.  Only a list of
\* milestones and a checkout that lost a word are excepted; lines with several
\* options of `merge' or an empty `artifacts -o' are not.
THEOREM ZeroIsAllRead == Spec => []ZeroMeansAllRead
<1>1. IInv => ZeroMeansAllRead
  BY DEF IInv, AllWords, ZeroMeansAllRead
<1>2. QED
  BY <1>1, Invariance, PTL

=============================================================================
