---------------------------- MODULE PatchParser -----------------------------
(***************************************************************************)
(* How an annotated diff, or a series of patches, is taken apart           *)
(* (gcli_parse_patch and gcli_parse_patch_series of src/src/diffutil.c).   *)
(* One step reads a prelude, a header line or a hunk.  The hunks of all    *)
(* files and patches come to stand in one row, which DiffComments.tla      *)
(* reads.                                                                  *)
(*                                                                         *)
(* A line of a hunk is known by what its first characters tell the parser  *)
(* and the scanner of comments:                                            *)
(*   add "+"  keep " "  del "-"  dashes "--"  nonl "\"  open "{"           *)
(*   close "}"  blank  quoted "> "  note (any other text)                  *)
(*   stray diff, stray @@ (notes that start with "diff" or "@@")           *)
(* The lines of a prelude are notes.  The others are named for what they   *)
(* are; sep is "From <hash> Mon Sep 17 00:00:00 2001".                     *)
(***************************************************************************)
EXTENDS Integers, Sequences, SequencesExt, FiniteSetsExt

CONSTANT Sources    \* what the texts are made from, see Printed

VARIABLES
  source,       \* what the text was made from
  text,         \* the lines of the file
  cut,          \* the last line of the file has no newline
  pc,           \* the function that runs
  hd,           \* parser->hd: the next line
  patch,        \* the bodies of the hunks
  diffs,        \* diffs in the current patch
  hunks         \* hunks in the current diff

file == <<source, text>>
parser == <<hd, patch, diffs, hunks>>

\* The lines that belong to a hunk
Changed == {"add", "keep", "del", "dashes"}
DiffKinds == Changed \cup {"nonl"}
NoteKinds == {"note", "quoted"}
BodyKinds == DiffKinds \cup NoteKinds \cup {"open", "close", "blank"}

DiffWords == {"diff", "odd diff", "stray diff"}    \* lines that start so
HunkWords == {"@@", "stray @@"}
Separators == {"sep"}                              \* is_patch_separator

\* The lines of a head below its "diff" line
HeadLines ==
  {"new file mode", "deleted file mode", "old mode", "new mode",
   "similarity index", "rename from", "rename to", "index", "binary files",
   "--- a/", "--- /dev/null", "+++ b/", "+++ /dev/null"}

\* A source is a record: series tells the two entry points apart, patches is a
\* sequence of records of a prelude, a sequence of files, each with a head and
\* a sequence of hunks, and a trailer.  A head starts with its "diff" line, a
\* hunk is the lines below its "@@" line; text that git has not written may
\* look like the first line of either.
Loose == BodyKinds \cup Separators \cup {"stray diff", "stray @@"}
FileHead == {x \in Seq(DiffWords \cup HeadLines \cup Loose) :
               x # <<>> /\ x[1] \in DiffWords}
PatchFile == [head : FileHead, hunks : Seq(Seq(Loose))]
Commit == [prelude : Seq(Loose), files : Seq(PatchFile), trailer : Seq(Loose)]

ASSUME SourcesAssumption ==
  Sources \subseteq [series : BOOLEAN, patches : Seq(Commit)]

PrintedFile(f) ==
  f.head \o FlattenSeq([k \in 1..Len(f.hunks) |-> <<"@@">> \o f.hunks[k]])

PrintedPatch(p) ==
  p.prelude
    \o FlattenSeq([k \in 1..Len(p.files) |-> PrintedFile(p.files[k])])
    \o p.trailer

Printed(s) ==
  FlattenSeq([k \in 1..Len(s.patches) |-> PrintedPatch(s.patches[k])])

InitParser ==
  /\ source \in Sources
  /\ text = Printed(source)
  /\ cut \in BOOLEAN
  /\ cut => text # <<>> /\ Last(text) \in BodyKinds
  /\ pc = IF source.series THEN "series prelude" ELSE "prelude"
  /\ hd = 1
  /\ patch = <<>>
  /\ diffs = 0 /\ hunks = 0

-----------------------------------------------------------------------------
\* readfilename ends a name at the first space, which git does not escape: a
\* header with a space or a quote in a name, the odd one, is not readable.
ReadableHeaders == {"diff"}

AtEnd == hd > Len(text)
line == text[hd]
Sees(kinds) == ~AtEnd /\ line \in kinds

\* The lines up to the next of some kind.
EndBefore(kinds) ==
  LET next == {k \in hd..Len(text) : text[k] \in kinds}
  IN  IF next = {} THEN Len(text) ELSE Min(next) - 1

Advance(place, to) == pc' = place /\ hd' = to /\ UNCHANGED <<file, cut, patch>>

\* patch_series_read_prelude
SeriesPrelude ==
  /\ pc = "series prelude"
  /\ Advance("series", EndBefore(Separators) + 1)
  /\ UNCHANGED <<diffs, hunks>>

\* The loop of gcli_parse_patch_series
NextPatch ==
  /\ pc = "series" /\ ~AtEnd
  /\ Advance("prelude", hd)
  /\ UNCHANGED <<diffs, hunks>>

\* gcli_patch_parse_prelude.  Separators behind the first are text like any
\* other.
PatchPrelude ==
  /\ pc = "prelude"
  /\ Advance("diffs", EndBefore(DiffWords) + 1)
  /\ diffs' = 0 /\ hunks' = 0

\* The loop of gcli_parse_patch
NextDiff ==
  /\ pc = "diffs" /\ Sees(DiffWords)
  /\ Advance("header", hd)
  /\ diffs' = diffs + 1 /\ hunks' = 0

\* parse_diff_header
DiffHeader ==
  /\ pc = "header" /\ Sees(ReadableHeaders)
  /\ Advance("new file mode", hd + 1)
  /\ UNCHANGED <<diffs, hunks>>

NewFileMode ==
  /\ pc = "new file mode" /\ ~AtEnd
  /\ Advance("index", IF Sees({"new file mode"}) THEN hd + 1 ELSE hd)
  /\ UNCHANGED <<diffs, hunks>>

IndexLine ==
  /\ pc = "index" /\ Sees({"index"})
  /\ Advance("r file", hd + 1)
  /\ UNCHANGED <<diffs, hunks>>

\* parse_hunk_a_or_r_file takes either kind of line for either file, and no
\* "+++ /dev/null".
FileLines(place) ==
  IF place = "r file" THEN {"--- a/", "--- /dev/null", "+++ b/"}
  ELSE {"--- /dev/null", "+++ b/"}

FileLine ==
  /\ pc \in {"r file", "a file"} /\ Sees(FileLines(pc))
  /\ Advance(IF pc = "r file" THEN "a file" ELSE "hunks", hd + 1)
  /\ UNCHANGED <<diffs, hunks>>

\* read_hunk_body
BodyEnds == DiffWords \cup HunkWords \cup Separators

\* parse_hunk_range_info and read_hunk_body
Hunk ==
  /\ pc = "hunks" /\ Sees({"@@"})
  /\ LET to == IF hd = Len(text) THEN hd
               ELSE Max({k \in hd..Len(text) :
                           \A j \in hd + 1..k : text[j] \notin BodyEnds})
     IN  /\ patch' = Append(patch, SubSeq(text, hd + 1, to))
         /\ hd' = to + 1
  /\ hunks' = hunks + 1
  /\ UNCHANGED <<file, cut, pc, diffs>>

\* The loop of gcli_parse_diff ends.
DiffEnd ==
  /\ pc = "hunks" /\ ~Sees(HunkWords)
  /\ Advance("diffs", hd)
  /\ UNCHANGED <<diffs, hunks>>

ParserFails ==
  /\ \/ pc = "header" /\ ~Sees(ReadableHeaders)
     \/ pc = "new file mode" /\ AtEnd
     \/ pc = "index" /\ ~Sees({"index"})
     \/ pc \in {"r file", "a file"} /\ ~Sees(FileLines(pc))
     \/ pc = "hunks" /\ Sees({"stray @@"})
  /\ Advance("failed", hd)
  /\ UNCHANGED <<diffs, hunks>>

-----------------------------------------------------------------------------
(* fixup_last_diff_in_patch: "\n--\n" and what follows is the trailer.      *)

\* The lines that are "--" between two newlines; of several in a row
\* gcli_strrstr finds every other one.
Trailers(body, unended) ==
  {k \in 2..Len(body) : body[k] = "dashes" /\ (unended => k < Len(body))}

LastTrailer(found) ==
  LET last == Max(found)
      first == Min({k \in found : \A j \in k..last : j \in found})
  IN  first + 2 * ((last - first) \div 2)

PatchEnds == pc = "diffs" /\ ~Sees(DiffWords)

AfterPatch ==
  CASE source.series -> "series"
    [] ~source.series /\ patch = <<>> -> "done"
    [] OTHER -> "line"

Fixup ==
  /\ PatchEnds /\ ~(diffs > 0 /\ hunks = 0)
  /\ LET body == Last(patch)
         found == IF diffs = 0 THEN {} ELSE Trailers(body, cut /\ AtEnd)
     IN  IF found = {} THEN UNCHANGED <<patch, cut>>
         ELSE /\ patch' = [patch EXCEPT ![Len(patch)] =
                             SubSeq(body, 1, LastTrailer(found) - 1)]
              /\ cut' = (cut /\ ~AtEnd)
  /\ pc' = AfterPatch
  /\ UNCHANGED <<file, hd, diffs, hunks>>

\* assert(h): the last diff of the patch has no hunk.
FixupAborts ==
  /\ PatchEnds /\ diffs > 0 /\ hunks = 0
  /\ Advance("abort", hd)
  /\ UNCHANGED <<diffs, hunks>>

SeriesEnd ==
  /\ pc = "series" /\ AtEnd
  /\ Advance(IF patch = <<>> THEN "done" ELSE "line", hd)
  /\ UNCHANGED <<diffs, hunks>>

NextParser ==
  \/ SeriesPrelude \/ NextPatch \/ PatchPrelude \/ NextDiff
  \/ DiffHeader \/ NewFileMode \/ IndexLine \/ FileLine \/ Hunk \/ DiffEnd
  \/ Fixup \/ FixupAborts \/ SeriesEnd \/ ParserFails

=============================================================================
