---------------------------- MODULE DiffComments ----------------------------
(***************************************************************************)
(* How the notes in an annotated diff are read (src/src/diffutil.c): the   *)
(* scanner of gcli_hunk_get_comments with read_comment, for every hunk of  *)
(* every diff of the patches that PatchParser.tla has taken apart, the     *)
(* comments going to one list.  One step reads one diff line, one brace or *)
(* one whole note.                                                         *)
(***************************************************************************)
EXTENDS PatchParser

VARIABLES
  h, i,           \* the current hunk and the line at ctx.front
  row,            \* ctx.line_info: the current rows after and before
  comments,       \* the list of comments
  range_start,    \* the line of the last `{' of the hunk, or 0
  in_comment, in_multiline, is_first

scan == <<row, range_start, in_comment, in_multiline, is_first>>
vars == <<file, cut, pc, parser, h, i, comments, scan>>

\* range_a_start and range_r_start of a hunk; the model leaves the same
\* distance between all hunks.
HunkDistance == 20
RangeStart(hunk) == [after |-> HunkDistance * hunk,
                     before |-> HunkDistance * hunk]

Init ==
  /\ InitParser
  /\ h = 1 /\ i = 1
  /\ row = RangeStart(1)
  /\ comments = <<>>
  /\ range_start = 0
  /\ in_comment = FALSE /\ in_multiline = FALSE /\ is_first = TRUE

-----------------------------------------------------------------------------
hunk == patch[h]

kind == hunk[i]

At(kinds) == pc = "line" /\ i <= Len(hunk) /\ kind \in kinds

c == Last(comments)

BreakOff(how) ==
  /\ pc' = how
  /\ UNCHANGED <<file, cut, parser, h, i, comments, scan>>

-----------------------------------------------------------------------------
(* read_comment *)

\* Mutant: a brace does not end a note.
MutNoteEnds == {k \in i..Len(hunk) : hunk[k] \in Changed}

\* A note goes on to the next context, added or removed line or `{'.
NoteEnds == {k \in i..Len(hunk) : hunk[k] \in Changed \cup {"open"}}

\* make_comment: rows are those of the line below the note.
Comment ==
  [hunk |-> h, line |-> i,
   after |-> [start |-> row.after, end |-> row.after],
   before |-> [start |-> row.before, end |-> row.before],
   start_is_in_new |-> FALSE, end_is_in_new |-> FALSE,
   text |-> <<>>]       \* diff_text: <<hunk, first line, last line>>

\* In a quoted note a blank line before a context line makes the length of a
\* chunk negative.
NegativeChunk(end) ==
  kind = "quoted" /\ end > i /\ hunk[end - 1] = "blank" /\ hunk[end] = "keep"

\* Mutant: ctx.in_multiline is not reset.
MutNote ==
  /\ At(NoteKinds) /\ NoteEnds # {} /\ ~NegativeChunk(Min(NoteEnds))
  /\ comments' = Append(comments, Comment)
  /\ i' = Min(NoteEnds)
  /\ in_comment' = TRUE /\ is_first' = TRUE
  /\ UNCHANGED <<file, cut, pc, parser, h, row, range_start, in_multiline>>

Note ==
  /\ At(NoteKinds) /\ NoteEnds # {} /\ ~NegativeChunk(Min(NoteEnds))
  /\ comments' = Append(comments, Comment)
  /\ i' = Min(NoteEnds)
  /\ in_comment' = TRUE /\ in_multiline' = FALSE /\ is_first' = TRUE
  /\ UNCHANGED <<file, cut, pc, parser, h, row, range_start>>

NoteOverflows ==
  /\ At(NoteKinds) /\ NoteEnds # {} /\ NegativeChunk(Min(NoteEnds))
  /\ BreakOff("overflow")

LastLineIsCut == cut /\ h = Len(patch)

\* "invalid: comment at end of hunk"
NoteAtEnd == At(NoteKinds) /\ NoteEnds = {} /\ ~LastLineIsCut
               /\ BreakOff("failed")

\* Without a newline to find, the scanner goes on at a null pointer.
NoteCut == At(NoteKinds) /\ NoteEnds = {} /\ LastLineIsCut
             /\ BreakOff("null")

-----------------------------------------------------------------------------
(* The other lines *)

NextRow ==
  [after |-> row.after + IF kind \in {"add", "keep"} THEN 1 ELSE 0,
   before |-> row.before + IF kind \in {"del", "keep"} THEN 1 ELSE 0]

\* The last comment of the list takes this line as its diff_text, if it has
\* none, or learns on which side its range starts and ends.
Noticed ==
  LET new == kind = "add"
  IN  CASE c.text = <<>> /\ ~in_multiline ->
             [c EXCEPT !.text = <<h, i, i>>, !.start_is_in_new = new,
                       !.end_is_in_new = new]
        [] in_comment /\ in_multiline ->
             [c EXCEPT !.start_is_in_new = IF is_first THEN new ELSE @,
                       !.end_is_in_new = new]
        [] OTHER -> c

DiffLine ==
  /\ At(DiffKinds)
  /\ row' = NextRow
  /\ comments' = IF comments = <<>> THEN <<>>
                 ELSE [comments EXCEPT ![Len(comments)] = Noticed]
  /\ is_first' = FALSE
  /\ i' = i + 1
  /\ UNCHANGED <<file, cut, pc, parser, h, range_start, in_comment, in_multiline>>

Blank ==
  /\ At({"blank"})
  /\ i' = i + 1
  /\ UNCHANGED <<file, cut, pc, parser, h, comments, scan>>

Waiting == comments # <<>> /\ c.text = <<>>

Open ==
  /\ At({"open"}) /\ Waiting
  /\ range_start' = i
  /\ in_multiline' = TRUE
  /\ i' = i + 1
  /\ UNCHANGED <<file, cut, pc, parser, h, row, comments, in_comment, is_first>>

OpenFails == At({"open"}) /\ ~Waiting /\ BreakOff("failed")

\* Mutant: the row behind the range.
MutEndRow(range, next) ==
  IF range.end = next THEN range ELSE [range EXCEPT !.end = next]

\* "FIXME: add deletion-only and addition-only detection here"
EndRow(range, next) ==
  IF range.end = next THEN range ELSE [range EXCEPT !.end = next - 1]

InRange == comments # <<>> /\ in_comment /\ in_multiline

Closed ==
  [c EXCEPT !.text = <<h, range_start + 1, i - 1>>,
            !.after = EndRow(@, row.after), !.before = EndRow(@, row.before)]

Close ==
  /\ At({"close"}) /\ range_start # 0 /\ InRange
  /\ comments' = [comments EXCEPT ![Len(comments)] = Closed]
  /\ in_comment' = FALSE
  /\ i' = i + 1
  /\ UNCHANGED <<file, cut, pc, parser, h, row, range_start, in_multiline, is_first>>

CloseFails ==
  At({"close"}) /\ range_start # 0 /\ ~InRange /\ BreakOff("failed")

\* assert(range_start != NULL)
CloseAborts == At({"close"}) /\ range_start = 0 /\ BreakOff("abort")

-----------------------------------------------------------------------------
(* gcli_diff_get_comments, gcli_patch_get_comments: the next hunk *)

\* Mutant: range_start outlives its hunk.
MutHunkEnd ==
  /\ pc = "line" /\ i > Len(hunk) /\ h < Len(patch)
  /\ h' = h + 1 /\ i' = 1
  /\ row' = RangeStart(h + 1)
  /\ in_comment' = FALSE /\ in_multiline' = FALSE /\ is_first' = TRUE
  /\ UNCHANGED <<file, cut, pc, parser, comments, range_start>>

HunkEnd ==
  /\ pc = "line" /\ i > Len(hunk) /\ h < Len(patch)
  /\ h' = h + 1 /\ i' = 1
  /\ row' = RangeStart(h + 1)
  /\ range_start' = 0
  /\ in_comment' = FALSE /\ in_multiline' = FALSE /\ is_first' = TRUE
  /\ UNCHANGED <<file, cut, pc, parser, comments>>

PatchEnd == pc = "line" /\ i > Len(hunk) /\ h = Len(patch) /\ BreakOff("done")

Parse == NextParser /\ UNCHANGED <<h, i, comments, scan>>

Next ==
  \/ Parse
  \/ Note \/ NoteOverflows \/ NoteAtEnd \/ NoteCut
  \/ DiffLine \/ Blank
  \/ Open \/ OpenFails \/ Close \/ CloseFails \/ CloseAborts
  \/ HunkEnd \/ PatchEnd

Spec == Init /\ [][Next]_vars

-----------------------------------------------------------------------------
(* What gcli-pulls-review(1) says an annotated diff is: notes above the     *)
(* change they refer to, which is a diff line, or several in braces.        *)

AllIn(x, from, to, kinds) == \A k \in from..to : x[k] \in kinds

\* Lines from and to are the braces around at least one diff line.
Braces(x, from, to) ==
  /\ from + 1 < to
  /\ x[from] = "open" /\ x[to] = "close"
  /\ AllIn(x, from + 1, to - 1, Changed)

WellFormedHunk(x) ==
  /\ x # <<>>
  /\ ToSet(x) \subseteq Changed \cup NoteKinds \cup {"open", "close"}
  /\ \A k \in 1..Len(x) :
       /\ x[k] = "open" => /\ k > 1 /\ x[k - 1] \in NoteKinds
                           /\ \E to \in k..Len(x) : Braces(x, k, to)
       /\ x[k] = "close" => \E from \in 1..k : Braces(x, from, k)
       /\ x[k] \in NoteKinds =>
            k < Len(x) /\ x[k + 1] \in NoteKinds \cup Changed \cup {"open"}

\* The heads that git writes for a file that was changed or is new.  The
\* manual knows no others; for one that is deleted, renamed, binary or has a
\* space in its name the parser fails.
Heads ==
  {<<"diff", "index", "--- a/", "+++ b/">>,
   <<"diff", "new file mode", "index", "--- /dev/null", "+++ b/">>}

\* No note stands inside braces: Braces allows diff lines only.
WellFormedFile(f) ==
  /\ f.head \in Heads /\ f.hunks # <<>>
  /\ \A k \in 1..Len(f.hunks) : WellFormedHunk(f.hunks[k])

\* In the last hunk of a patch a line "--" is taken for the start of the
\* trailer, though it may stand for the removal of a line "-".
WellFormedPatch(p, series) ==
  /\ series => p.prelude # <<>> /\ p.prelude[1] = "sep"
  /\ ToSet(p.prelude) \cap DiffWords = {}
  /\ \A k \in 1..Len(p.files) : WellFormedFile(p.files[k])
  /\ p.files # <<>> => "dashes" \notin ToSet(Last(Last(p.files).hunks))
  /\ p.trailer \in {<<>>, <<"dashes", "note", "blank">>}

WellFormed ==
  /\ source.series \/ Len(source.patches) = 1
  /\ \A k \in 1..Len(source.patches) :
       WellFormedPatch(source.patches[k], source.series)

\* The hunks in the text
annotated ==
  FlattenSeq([k \in 1..Len(source.patches) |->
    FlattenSeq([f \in 1..Len(source.patches[k].files) |->
      source.patches[k].files[f].hunks])])

\* First lines of the notes of a hunk.
NoteStarts(x) ==
  {k \in 1..Len(x) : x[k] \in NoteKinds /\ (k = 1 \/ x[k - 1] \notin NoteKinds)}

\* Row of the new (old) file that the next line of it has at line k.
RowAt(hk, k, kinds) ==
  HunkDistance * hk + Cardinality({j \in 1..k - 1 : annotated[hk][j] \in kinds})

\* Rows that lines a to b of a hunk cover in one of the files; an empty range
\* stands at the row that follows.
Rows(hk, a, b, kinds) ==
  [start |-> RowAt(hk, a, kinds),
   end |-> Max({RowAt(hk, a, kinds), RowAt(hk, b + 1, kinds) - 1})]

\* The comment on a note of a well-formed hunk.
Meant(hk, k) ==
  LET x == annotated[hk]
      below == Min({j \in k..Len(x) : x[j] \notin NoteKinds})
      a == IF x[below] = "open" THEN below + 1 ELSE below
      b == IF x[below] = "open"
             THEN Min({j \in below..Len(x) : x[j] = "close"}) - 1 ELSE below
  IN  [hunk |-> hk, line |-> k,
       after |-> Rows(hk, a, b, {"add", "keep"}),
       before |-> Rows(hk, a, b, {"del", "keep"}),
       start_is_in_new |-> x[a] = "add", end_is_in_new |-> x[b] = "add",
       text |-> <<hk, a, b>>]

MeantInHunk(hk) ==
  LET x == annotated[hk]
  IN  FlattenSeq([k \in 1..Len(x) |->
        IF k \in NoteStarts(x) THEN <<Meant(hk, k)>> ELSE <<>>])

MeantComments == FlattenSeq([hk \in 1..Len(annotated) |-> MeantInHunk(hk)])

-----------------------------------------------------------------------------
Broken == {"failed", "overflow", "null", "abort"}

Places == {"series prelude", "series", "prelude", "diffs", "header",
           "new file mode", "index", "r file", "a file", "hunks", "line", "done"}

\* The parser and the scanner keep within the text, the scanner within the
\* hunks; every comment has a note of its own.
TypeOK ==
  /\ cut \in BOOLEAN /\ pc \in Places \cup Broken
  /\ hd \in 1..Len(text) + 1 /\ hunks \in 0..Len(patch) /\ diffs \in Nat
  /\ patch \in Seq(Seq(BodyKinds))
  /\ pc = "line" => h \in 1..Len(patch) /\ i \in 1..Len(hunk) + 1
                      /\ range_start \in 0..Len(hunk)
  /\ row \in [after : Nat, before : Nat]
  /\ Len(comments) <= Len(FlattenSeq(patch))
  /\ {in_comment, in_multiline, is_first} \subseteq BOOLEAN

\* An annotated diff that keeps to the manual is accepted.
AcceptsTheManual == WellFormed => pc \notin Broken

\* Every note of it becomes one comment, in order, with the rows before and
\* after the change that stand below it and the diff lines of that change.
ReadsTheManual == WellFormed /\ pc = "done" => comments = MeantComments

\* A comment of an accepted diff carries lines from below its note and of the
\* same hunk, if every `{' is closed before the next note or the hunk's end.
ClosedBraces ==
  \A hk \in 1..Len(patch) :
    LET x == patch[hk]
    IN  \A k \in 1..Len(x) :
          x[k] = "open" =>
            \E to \in k..Len(x) : x[to] = "close"
              /\ AllIn(x, k + 1, to - 1, DiffKinds \cup {"blank"})

CommentsStayInTheirHunk ==
  ClosedBraces /\ pc = "done" =>
    \A n \in 1..Len(comments) :
      LET x == comments[n]
      IN  x.text # <<>> /\ x.text[1] = x.hunk /\ x.text[2] > x.line

=============================================================================
