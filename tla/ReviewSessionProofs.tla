------------------------- MODULE ReviewSessionProofs ------------------------
(* Proofs about ReviewSession for any set of pull requests, any number of   *)
(* versions and notes, and sessions that follow each other without end.     *)
EXTENDS ReviewSession, SequenceTheorems, TLAPS

-----------------------------------------------------------------------------
(* The steps by what they do to the state. *)

Outcomes == {"none", "postponed", "failed", "submitted", "killed"}

\* A session ends without having sent anything more.
Ends ==
  \E how \in Outcomes : EndSession(how) /\ UNCHANGED <<session, posts>>

\* The forge receives items.
Sends(items, next) == AnswerLost(items) \/ Answered(items, next)

NextNote == Item("note", comments[sent + 1], anchor)

Sending ==
  \/ pc = "submit" /\ forge = "github" /\ Sends(GitHubItems, "done")
  \/ /\ pc = "notes" /\ sent < Len(comments) /\ anchor.version > 0
     /\ Sends(<<NextNote>>, "notes")
  \/ pc = "body" /\ Sends(<<Item("body", NoNote, NoDiff)>>, "verdict")
  \/ pc = "verdict" /\ Sends(<<Item(verdict, NoNote, NoDiff)>>, "done")

\* Every step is of one of these shapes.
LEMMA Steps ==
  ASSUME Next
  PROVE  \/ Push
         \/ \E p \in Pulls : Start(p)
         \/ pc = "open" /\ Truncate
         \/ Resume \/ Download \/ Edit \/ Extract \/ Decide \/ NotesPosted
         \/ Ends \/ Sending
<1>1. Kill \/ Postpone \/ Abort \/ DownloadFails \/ EditorFails \/ ExtractFails
        => Ends
  BY DEF Kill, Postpone, Abort, DownloadFails, EditorFails, ExtractFails, Ends,
         Outcomes
<1>2. Submit => Ends \/ Sending \/ NotesPosted
  BY DEF Submit, SubmitGitHub, SubmitGitea, PostNote, PostNoteWithoutMeta,
         UnsetReturnCode, PostBody, PostVerdict, CommentOnly, Submitted,
         Request, Refused, Ends, Outcomes, Sends, Sending, NextNote
<1>3. FirstTime \/ StartOver => pc = "open" /\ Truncate
  BY DEF FirstTime, StartOver
<1>4. QED
  BY <1>1, <1>2, <1>3 DEF Next

-----------------------------------------------------------------------------
(* Types: the count of answered requests by the place in the submission,    *)
(* and of versions by that of pushes.                                       *)

Phase ==
  /\ pc \in {"open", "download", "editor", "ask"} => verdict = "none"
  /\ pc \in {"submit", "notes", "body", "verdict", "done"} => verdict # "none"
  /\ verdict = "none" => sent = 0
  /\ pc = "submit" => sent = 0
  /\ pc = "notes" => sent <= Len(comments)
  /\ pc = "body" => sent = Len(comments)
  /\ pc = "verdict" => sent <= Len(comments) + 1
  /\ \A p \in Pulls : head[p] <= pushes + 1

TypeInv == TypeOK /\ Phase

\* No diff, and the empty files, are of their types.
LEMMA Blanks ==
  /\ NoDiff \in Diffs /\ NoDiff.version = 0
  /\ Absent \in Files /\ Empty \in Files
<1>1. (CHOOSE p \in Pulls : TRUE) \in Pulls
  BY ReviewAssumption
<1>2. NoDiff \in Diffs /\ NoDiff.version = 0
  BY <1>1, ReviewAssumption DEF NoDiff, Diffs
<1>3. <<>> \in Seq(Notes)
  BY EmptySeq
<1>4. QED
  BY <1>2, <1>3 DEF Absent, Empty, Files

LEMMA TypeInit == Init => TypeInv
<1> SUFFICES ASSUME Init PROVE TypeInv
  OBVIOUS
<1>1. comments \in Seq(Notes) /\ posts \in Seq(Items)
  BY EmptySeq DEF Init
<1>2. file \in [FileNames -> Files]
  BY Blanks DEF Init
<1>3. anchor \in Diffs /\ pull \in Pulls
  BY Blanks DEF Init
<1>4. head \in [Pulls -> 1..MaxPushes + 1] /\ pushes \in 0..MaxPushes
        /\ written \in 0..MaxNotes
        /\ \A p \in Pulls : head[p] <= pushes + 1
  BY ReviewAssumption DEF Init
<1>5. QED
  BY <1>1, <1>2, <1>3, <1>4 DEF Init, TypeInv, TypeOK, Phase

\* The review file of a pull request has a name.
LEMMA FileNamed == TypeOK => thisFile \in FileNames
BY DEF TypeOK, thisFile, FileNames

\* What the forge is sent are items.
LEMMA ItemTypes ==
  ASSUME TypeInv
  PROVE  /\ NoNote \in [n : 0..MaxNotes, pull : Pulls, on : Diffs]
         /\ \A note \in Notes, at \in Diffs : Item("note", note, at) \in Items
         /\ Item("body", NoNote, NoDiff) \in Items
         /\ verdict # "none" => Item(verdict, NoNote, NoDiff) \in Items
<1>1. NoNote \in [n : 0..MaxNotes, pull : Pulls, on : Diffs]
  BY Blanks, ReviewAssumption DEF NoNote, TypeInv, TypeOK
<1>2. \A note \in Notes : note \in [n : 0..MaxNotes, pull : Pulls, on : Diffs]
  BY ReviewAssumption DEF Notes
<1>3. QED
  BY <1>1, <1>2, Blanks DEF Item, Items, TypeInv, TypeOK

LEMMA BodyPartType ==
  ASSUME NEW S, NEW item \in S
  PROVE  BodyPart(item) \in Seq(S)
BY EmptySeq, SeqDef DEF BodyPart

\* The hashes of the newest version are the diff of one.
LEMMA NewestDiff ==
  ASSUME TypeInv
  PROVE  [pull |-> pull, version |-> head[pull]] \in Diffs
BY DEF TypeInv, TypeOK, Diffs

\* The items of one request are a sequence of them.
LEMMA GitHubItemTypes ==
  ASSUME TypeInv, verdict # "none" PROVE GitHubItems \in Seq(Items)
<1> DEFINE at == [pull |-> pull, version |-> head[pull]]
           noted == [i \in 1..Len(comments) |-> Item("note", comments[i], at)]
<1>1. noted \in Seq(Items)
  <2>1. Len(comments) \in Nat
    BY LenProperties DEF TypeInv, TypeOK
  <2>2. \A i \in 1..Len(comments) : comments[i] \in Notes
    BY ElementOfSeq DEF TypeInv, TypeOK
  <2>3. noted \in [1..Len(comments) -> Items]
    BY <2>2, NewestDiff, ItemTypes
  <2>4. QED
    BY <2>1, <2>3, SeqDef
<1> HIDE DEF noted
<1>2. BodyPart(Item("body", NoNote, NoDiff)) \in Seq(Items)
  BY ItemTypes, BodyPartType
<1>3. <<Item(verdict, NoNote, NoDiff)>> \in Seq(Items)
  BY ItemTypes
<1>4. noted \o BodyPart(Item("body", NoNote, NoDiff)) \in Seq(Items)
  BY <1>1, <1>2, ConcatProperties
<1>5. (noted \o BodyPart(Item("body", NoNote, NoDiff)))
        \o <<Item(verdict, NoNote, NoDiff)>> \in Seq(Items)
  BY <1>3, <1>4, ConcatProperties
<1>6. QED
  BY <1>5 DEF GitHubItems, noted

\* A change of the review file keeps the files' type.
LEMMA SaveType ==
  ASSUME TypeOK, NEW content \in Files,
         file' = [file EXCEPT ![thisFile] = content]
  PROVE  file' \in [FileNames -> Files]
BY FileNamed DEF TypeOK

LEMMA EditTypes == ASSUME TypeInv, Edit PROVE TypeInv'
<1> USE DEF env, session
<1>1. file' \in [FileNames -> Files] /\ written' \in 0..MaxNotes
  <2>1. file[thisFile] \in Files
    BY FileNamed DEF TypeInv, TypeOK
  <2>2. CASE WriteBody \/ RemoveMeta
    <3>1. [file[thisFile] EXCEPT !.body = TRUE] \in Files
            /\ [file[thisFile] EXCEPT !.meta = FALSE] \in Files
      BY <2>1 DEF Files
    <3>2. QED
      BY <2>2, <3>1, SaveType DEF WriteBody, RemoveMeta, Save, TypeInv, TypeOK
  <2>3. CASE WriteNote
    <3> DEFINE note == [n |-> written + 1, pull |-> pull,
                        on |-> file[thisFile].diff]
    <3>1. note \in Notes
      BY <2>1, <2>3, ReviewAssumption
      DEF WriteNote, Files, Notes, TypeInv, TypeOK
    <3> HIDE DEF note
    <3>2. Append(file[thisFile].notes, note) \in Seq(Notes)
      BY <2>1, <3>1, AppendProperties DEF Files
    <3>3. [file[thisFile] EXCEPT !.notes = Append(@, note)] \in Files
      BY <2>1, <3>2 DEF Files
    <3>4. file' = [file EXCEPT ![thisFile] =
                     [file[thisFile] EXCEPT !.notes = Append(@, note)]]
      BY <2>3 DEF WriteNote, Save, note
    <3>5. written' \in 0..MaxNotes
      BY <2>3, ReviewAssumption DEF WriteNote, TypeInv, TypeOK
    <3>6. QED
      BY <3>3, <3>4, <3>5, SaveType DEF TypeInv
  <2>4. QED
    BY <2>2, <2>3 DEF Edit
<1>2. UNCHANGED <<env, pc, session, outcome, posts>>
  BY DEF Edit, WriteNote, WriteBody, RemoveMeta, Save
<1>3. QED
  BY <1>1, <1>2 DEF TypeInv, TypeOK, Phase

LEMMA SendingTypes == ASSUME TypeInv, Sending PROVE TypeInv'
<1> USE DEF env, session
<1>0. Len(comments) \in Nat /\ sent \in Nat
  <2>1. Len(comments) \in Nat
    BY LenProperties DEF TypeInv, TypeOK
  <2>2. QED
    BY <2>1 DEF TypeInv, TypeOK
<1>1. ASSUME NEW items \in Seq(Items), AnswerLost(items) PROVE TypeInv'
  <2>1. posts' \in Seq(Items)
    BY <1>1, ConcatProperties DEF AnswerLost, TypeInv, TypeOK
  <2>2. QED
    BY <1>1, <2>1 DEF AnswerLost, EndSession, TypeInv, TypeOK, Phase
<1>2. ASSUME NEW items \in Seq(Items), NEW next, Answered(items, next),
             next \in {"notes", "verdict", "done"},
             verdict # "none", sent + 1 <= Len(comments) + 2,
             next = "notes" => sent < Len(comments),
             next = "verdict" => sent <= Len(comments)
      PROVE  TypeInv'
  <2>1. posts' \in Seq(Items)
    BY <1>2, ConcatProperties DEF Answered, TypeInv, TypeOK
  <2>2. sent' = sent + 1 /\ UNCHANGED <<comments, verdict>> /\ pc' = next
    BY <1>2 DEF Answered
  <2>3. sent' \in 0..Len(comments') + 2
    BY <1>0, <1>2, <2>2
  <2>4. TypeOK'
    BY <1>2, <2>1, <2>2, <2>3 DEF Answered, TypeInv, TypeOK
  <2>5. Phase'
    BY <1>0, <1>2, <2>2 DEF Answered, TypeInv, Phase
  <2>6. QED
    BY <2>4, <2>5 DEF TypeInv
<1>3. CASE pc = "submit" /\ Sends(GitHubItems, "done")
  <2>1. verdict # "none" /\ sent = 0
    BY <1>3 DEF TypeInv, Phase
  <2>2. GitHubItems \in Seq(Items)
    BY <2>1, GitHubItemTypes
  <2>3. CASE AnswerLost(GitHubItems)
    BY <2>2, <2>3, <1>1
  <2>4. CASE Answered(GitHubItems, "done")
    <3>1. sent + 1 <= Len(comments) + 2
      BY <1>0, <2>1
    <3>2. QED
      BY <2>1, <2>2, <2>4, <3>1, <1>2
  <2>5. QED
    BY <1>3, <2>3, <2>4 DEF Sends
<1>4. CASE pc = "notes" /\ sent < Len(comments) /\ Sends(<<NextNote>>, "notes")
  <2>1. verdict # "none"
    BY <1>4 DEF TypeInv, Phase
  <2>2. comments[sent + 1] \in Notes
    BY <1>0, <1>4, ElementOfSeq DEF TypeInv, TypeOK
  <2>3. NextNote \in Items
    BY <2>2, ItemTypes DEF NextNote, TypeInv, TypeOK
  <2>4. <<NextNote>> \in Seq(Items)
    BY <2>3
  <2>5. CASE AnswerLost(<<NextNote>>)
    BY <2>4, <2>5, <1>1
  <2>6. CASE Answered(<<NextNote>>, "notes")
    <3>1. sent + 1 <= Len(comments) + 2 /\ sent < Len(comments)
      BY <1>0, <1>4
    <3> DEFINE items == <<NextNote>>
    <3>2. items \in Seq(Items) /\ Answered(items, "notes")
      BY <2>4, <2>6
    <3> HIDE DEF items
    <3>3. QED
      BY <2>1, <3>1, <3>2, <1>2
  <2>7. QED
    BY <1>4, <2>5, <2>6 DEF Sends
<1>5. CASE pc = "body" /\ Sends(<<Item("body", NoNote, NoDiff)>>, "verdict")
  <2> DEFINE items == <<Item("body", NoNote, NoDiff)>>
  <2>1. verdict # "none" /\ sent = Len(comments)
    BY <1>5 DEF TypeInv, Phase
  <2>2. items \in Seq(Items)
    BY ItemTypes
  <2> HIDE DEF items
  <2>3. CASE AnswerLost(items)
    BY <2>2, <2>3, <1>1
  <2>4. CASE Answered(items, "verdict")
    BY <1>0, <2>1, <2>2, <2>4, <1>2
  <2>5. QED
    BY <1>5, <2>3, <2>4 DEF Sends, items
<1>6. CASE pc = "verdict" /\ Sends(<<Item(verdict, NoNote, NoDiff)>>, "done")
  <2> DEFINE items == <<Item(verdict, NoNote, NoDiff)>>
  <2>1. verdict # "none" /\ sent <= Len(comments) + 1
    BY <1>6 DEF TypeInv, Phase
  <2>2. items \in Seq(Items)
    BY <2>1, ItemTypes
  <2> HIDE DEF items
  <2>3. CASE AnswerLost(items)
    BY <2>2, <2>3, <1>1
  <2>4. CASE Answered(items, "done")
    BY <1>0, <2>1, <2>2, <2>4, <1>2
  <2>5. QED
    BY <1>6, <2>3, <2>4 DEF Sends, items
<1>7. QED
  BY <1>3, <1>4, <1>5, <1>6 DEF Sending

LEMMA TypeNext == TypeInv /\ [Next]_vars => TypeInv'
<1> SUFFICES ASSUME TypeInv, [Next]_vars PROVE TypeInv'
  OBVIOUS
<1> USE DEF env, session
<1>1. CASE Push
  <2>1. PICK p \in Pulls : head' = [head EXCEPT ![p] = @ + 1]
    BY <1>1 DEF Push
  <2>2. pushes' \in 0..MaxPushes /\ \A q \in Pulls : head'[q] <= pushes' + 1
    BY <1>1, <2>1, ReviewAssumption DEF Push, TypeInv, TypeOK, Phase
  <2>3. head' \in [Pulls -> 1..MaxPushes + 1]
    BY <2>1, <2>2, ReviewAssumption DEF TypeInv, TypeOK
  <2>4. QED
    BY <1>1, <2>2, <2>3 DEF Push, TypeInv, TypeOK, Phase
<1>2. ASSUME NEW p \in Pulls, Start(p) PROVE TypeInv'
  <2>1. comments' \in Seq(Notes) /\ posts' \in Seq(Items) /\ anchor' \in Diffs
    BY <1>2, Blanks, EmptySeq DEF Start
  <2>2. QED
    BY <1>2, <2>1 DEF Start, TypeInv, TypeOK, Phase
<1>3. CASE pc = "open" /\ Truncate
  <2>1. file' \in [FileNames -> Files]
    BY <1>3, Blanks, SaveType DEF Truncate, TypeInv
  <2>2. QED
    BY <1>3, <2>1 DEF Truncate, TypeInv, TypeOK, Phase
<1>4. CASE Resume
  BY <1>4 DEF Resume, TypeInv, TypeOK, Phase
<1>5. CASE Download
  <2>1. file[thisFile] \in Files
    BY FileNamed DEF TypeInv, TypeOK
  <2>2. [file[thisFile] EXCEPT
           !.diff = [pull |-> pull, version |-> head[pull]],
           !.meta = forge = "gitlab"] \in Files
    BY <2>1, NewestDiff DEF Files
  <2>3. file' = [file EXCEPT ![thisFile] =
                   [file[thisFile] EXCEPT
                      !.diff = [pull |-> pull, version |-> head[pull]],
                      !.meta = forge = "gitlab"]]
    BY <1>5, FileNamed DEF Download, TypeInv, TypeOK
  <2>4. file' \in [FileNames -> Files]
    BY <2>2, <2>3, SaveType DEF TypeInv
  <2>5. QED
    BY <1>5, <2>4 DEF Download, TypeInv, TypeOK, Phase
<1>6. CASE Edit
  BY <1>6, EditTypes
<1>7. CASE Extract
  <2>1. file[thisFile] \in Files
    BY FileNamed DEF TypeInv, TypeOK
  <2>2. comments' \in Seq(Notes) /\ body' \in BOOLEAN /\ anchor' \in Diffs
    BY <1>7, <2>1, Blanks DEF Extract, Files
  <2>3. verdict = "none" /\ sent = 0
    BY <1>7 DEF Extract, TypeInv, Phase
  <2>4. QED
    BY <1>7, <2>2, <2>3 DEF Extract, TypeInv, TypeOK, Phase
<1>8. CASE Decide
  <2>1. verdict = "none" /\ sent = 0
    BY <1>8 DEF Decide, TypeInv, Phase
  <2>2. Len(comments) \in Nat
    BY LenProperties DEF TypeInv, TypeOK
  <2>3. verdict' \in Verdicts /\ "none" \notin Verdicts
    BY <1>8 DEF Decide, Verdicts
  <2>4. QED
    BY <1>8, <2>1, <2>2, <2>3 DEF Decide, TypeInv, TypeOK, Phase
<1>9. CASE NotesPosted
  <2>1. Len(comments) \in Nat
    BY LenProperties DEF TypeInv, TypeOK
  <2>2. QED
    BY <1>9, <2>1 DEF NotesPosted, TypeInv, TypeOK, Phase
<1>10. CASE Ends
  BY <1>10 DEF Ends, EndSession, Outcomes, TypeInv, TypeOK, Phase
<1>11. CASE Sending
  BY <1>11, SendingTypes
<1>12. CASE UNCHANGED vars
  BY <1>12 DEF vars, TypeInv, TypeOK, Phase
<1>13. QED
  BY <1>1, <1>2, <1>3, <1>4, <1>5, <1>6, <1>7, <1>8, <1>9, <1>10, <1>11, <1>12,
     Steps

\* The types of a session, of the review files and of what the forge has got.
THEOREM TypeCorrect == Spec => []TypeOK
<1>1. TypeInv => TypeOK
  BY DEF TypeInv
<1>2. QED
  BY <1>1, TypeInit, TypeNext, PTL DEF Spec

-----------------------------------------------------------------------------
(* Where the notes come from: those in a review file were written on the    *)
(* diff in it, for a pull request with that file name; those of a session   *)
(* are those of its file; those the forge has are those of the session.     *)

NotesOn(f, diff) == {x \in Notes : x.on = diff /\ FileName(x.pull) = f}

FilesInv ==
  /\ \A f \in FileNames : file[f].notes \in Seq(NotesOn(f, file[f].diff))
  /\ pc = "download" => file[thisFile].notes = <<>>

NotesFor(p, at) ==
  {x \in Notes : /\ at.version > 0 => x.on = at
                 /\ FileName(x.pull) = FileName(p)}

SessionInv ==
  /\ pc \in {"open", "download", "editor"} => comments = <<>>
  /\ comments = <<>> \/ comments = file[thisFile].notes
  /\ comments \in Seq(NotesFor(pull, anchor))

GoodItems ==
  {x \in Items : x.kind = "note" =>
                   /\ forge = "gitlab" => x.at = x.note.on
                   /\ FileName(x.note.pull) = FileName(x.pull)}

NotesInv == FilesInv /\ SessionInv /\ posts \in Seq(GoodItems)

LEMMA NotesInit == Init => NotesInv
<1> SUFFICES ASSUME Init PROVE NotesInv
  OBVIOUS
<1>1. FilesInv
  BY EmptySeq DEF Init, FilesInv, Absent
<1>2. SessionInv /\ posts \in Seq(GoodItems)
  BY EmptySeq DEF Init, SessionInv
<1>3. QED
  BY <1>1, <1>2 DEF NotesInv

\* What is typed in the editor: a note on a line of the diff, in its file.
LEMMA EditNotes == ASSUME TypeInv, NotesInv, Edit PROVE NotesInv'
<1> USE DEF env, session
<1>1. /\ UNCHANGED <<env, pc, session, outcome, posts>> /\ pc = "editor"
      /\ thisFile' = thisFile
  BY DEF Edit, WriteNote, WriteBody, RemoveMeta, Save, thisFile
<1>2. thisFile \in FileNames /\ file \in [FileNames -> Files]
        /\ file[thisFile] \in Files
  BY FileNamed DEF TypeInv, TypeOK
<1>3. \A f \in FileNames \ {thisFile} : file'[f] = file[f]
  BY <1>2 DEF Edit, WriteNote, WriteBody, RemoveMeta, Save
<1>4. file'[thisFile].notes \in Seq(NotesOn(thisFile, file'[thisFile].diff))
  <2>1. CASE WriteBody \/ RemoveMeta
    BY <1>2, <2>1 DEF WriteBody, RemoveMeta, Save, Files, NotesInv, FilesInv
  <2>2. CASE WriteNote
    <3> DEFINE note == [n |-> written + 1, pull |-> pull,
                        on |-> file[thisFile].diff]
               S == NotesOn(thisFile, file[thisFile].diff)
    <3>1. note \in S
      BY <1>2, <2>2, ReviewAssumption
      DEF WriteNote, Files, Notes, NotesOn, thisFile, TypeInv, TypeOK
    <3>2. file'[thisFile].diff = file[thisFile].diff
            /\ file'[thisFile].notes = Append(file[thisFile].notes, note)
      BY <1>2, <2>2 DEF WriteNote, Save, Files
    <3> HIDE DEF note
    <3>3. file[thisFile].notes \in Seq(S)
      BY <1>2 DEF NotesInv, FilesInv
    <3> HIDE DEF S
    <3>4. Append(file[thisFile].notes, note) \in Seq(S)
      BY <3>1, <3>3, AppendProperties
    <3>5. QED
      BY <3>2, <3>4 DEF S
  <2>3. QED
    BY <2>1, <2>2 DEF Edit
<1>5. FilesInv'
  BY <1>1, <1>3, <1>4 DEF NotesInv, FilesInv
<1>6. SessionInv'
  BY <1>1 DEF NotesInv, SessionInv
<1>7. posts' \in Seq(GoodItems')
  BY <1>1 DEF NotesInv, GoodItems
<1>8. QED
  BY <1>5, <1>6, <1>7 DEF NotesInv

\* What the forge receives of a session with good notes is good.
LEMMA SendingNotes == ASSUME TypeInv, NotesInv, Sending PROVE NotesInv'
<1> USE DEF env, session
<1>0. /\ UNCHANGED <<env, file, pull, comments, anchor>> /\ thisFile' = thisFile
      /\ pc' \notin {"open", "download", "editor"}
  BY DEF Sending, Sends, AnswerLost, Answered, EndSession, thisFile
<1>1. FilesInv' /\ SessionInv'
  BY <1>0 DEF NotesInv, FilesInv, SessionInv
<1>2. \A i \in 1..Len(comments) : comments[i] \in NotesFor(pull, anchor)
  BY ElementOfSeq DEF NotesInv, SessionInv
<1>3. ASSUME NEW items \in Seq(GoodItems), NEW next, Sends(items, next)
      PROVE  posts' \in Seq(GoodItems')
  <2>1. posts' = posts \o items
    BY <1>3 DEF Sends, AnswerLost, Answered
  <2>2. posts \o items \in Seq(GoodItems)
    BY ConcatProperties DEF NotesInv
  <2>3. GoodItems' = GoodItems
    BY <1>0 DEF GoodItems
  <2>4. QED
    BY <2>1, <2>2, <2>3
<1>4. Item("body", NoNote, NoDiff) \in GoodItems
        /\ (verdict # "none" => Item(verdict, NoNote, NoDiff) \in GoodItems)
  BY ItemTypes DEF GoodItems, Item, TypeInv, TypeOK, Verdicts
<1>5. CASE pc = "submit" /\ forge = "github" /\ Sends(GitHubItems, "done")
  <2> DEFINE at == [pull |-> pull, version |-> head[pull]]
             noted == [i \in 1..Len(comments) |-> Item("note", comments[i], at)]
  <2>1. noted \in Seq(GoodItems)
    <3>1. Len(comments) \in Nat
      BY LenProperties DEF TypeInv, TypeOK
    <3>2. ASSUME NEW i \in 1..Len(comments)
          PROVE  Item("note", comments[i], at) \in GoodItems
      <4>1. Item("note", comments[i], at) \in Items
        BY <1>2, NewestDiff, ItemTypes DEF NotesFor
      <4>2. QED
        BY <4>1, <1>2, <1>5 DEF GoodItems, Item, NotesFor
    <3>3. noted \in [1..Len(comments) -> GoodItems]
      BY <3>2
    <3>4. QED
      BY <3>1, <3>3, SeqDef
  <2> HIDE DEF noted
  <2>2. BodyPart(Item("body", NoNote, NoDiff)) \in Seq(GoodItems)
    BY <1>4, BodyPartType
  <2>3. <<Item(verdict, NoNote, NoDiff)>> \in Seq(GoodItems)
    BY <1>4, <1>5 DEF TypeInv, Phase
  <2>4. noted \o BodyPart(Item("body", NoNote, NoDiff)) \in Seq(GoodItems)
    BY <2>1, <2>2, ConcatProperties
  <2>5. (noted \o BodyPart(Item("body", NoNote, NoDiff)))
          \o <<Item(verdict, NoNote, NoDiff)>> \in Seq(GoodItems)
    BY <2>3, <2>4, ConcatProperties
  <2>6. GitHubItems \in Seq(GoodItems)
    BY <2>5 DEF GitHubItems, noted
  <2>7. QED
    BY <1>1, <1>3, <1>5, <2>6 DEF NotesInv
<1>6. CASE /\ pc = "notes" /\ sent < Len(comments) /\ anchor.version > 0
           /\ Sends(<<NextNote>>, "notes")
  <2>1. comments[sent + 1] \in NotesFor(pull, anchor)
    <3>1. Len(comments) \in Nat /\ sent \in Nat
      BY LenProperties DEF TypeInv, TypeOK
    <3>2. QED
      BY <1>2, <1>6, <3>1
  <2>2. NextNote \in Items
    BY <2>1, ItemTypes DEF NextNote, NotesFor, TypeInv, TypeOK
  <2>3. NextNote \in GoodItems
    BY <1>6, <2>1, <2>2 DEF NextNote, GoodItems, Item, NotesFor
  <2>4. <<NextNote>> \in Seq(GoodItems)
    BY <2>3
  <2>5. QED
    BY <1>1, <1>3, <1>6, <2>4 DEF NotesInv
<1>7. CASE pc = "body" /\ Sends(<<Item("body", NoNote, NoDiff)>>, "verdict")
  <2>1. <<Item("body", NoNote, NoDiff)>> \in Seq(GoodItems)
    BY <1>4
  <2>2. QED
    BY <1>1, <1>3, <1>7, <2>1 DEF NotesInv
<1>8. CASE pc = "verdict" /\ Sends(<<Item(verdict, NoNote, NoDiff)>>, "done")
  <2>1. <<Item(verdict, NoNote, NoDiff)>> \in Seq(GoodItems)
    BY <1>4, <1>8 DEF TypeInv, Phase
  <2>2. QED
    BY <1>1, <1>3, <1>8, <2>1 DEF NotesInv
<1>9. QED
  BY <1>5, <1>6, <1>7, <1>8 DEF Sending

LEMMA NotesNext == TypeInv /\ NotesInv /\ [Next]_vars => NotesInv'
<1> SUFFICES ASSUME TypeInv, NotesInv, [Next]_vars PROVE NotesInv'
  OBVIOUS
<1> USE DEF env, session
<1>0. /\ thisFile \in FileNames /\ file \in [FileNames -> Files]
      /\ file[thisFile] \in Files
  BY FileNamed DEF TypeInv, TypeOK
<1>1. CASE Push
  BY <1>1 DEF Push, NotesInv, FilesInv, SessionInv, GoodItems, thisFile
<1>2. ASSUME NEW p \in Pulls, Start(p) PROVE NotesInv'
  <2>1. FilesInv'
    BY <1>2 DEF Start, NotesInv, FilesInv
  <2>2. SessionInv' /\ posts' \in Seq(GoodItems')
    BY <1>2, EmptySeq DEF Start, SessionInv
  <2>3. QED
    BY <2>1, <2>2 DEF NotesInv
<1>3. CASE pc = "open" /\ Truncate
  <2>1. FilesInv'
    BY <1>0, <1>3, EmptySeq
    DEF Truncate, NotesInv, FilesInv, Empty, Absent, thisFile
  <2>2. SessionInv' /\ posts' \in Seq(GoodItems')
    BY <1>3 DEF Truncate, NotesInv, SessionInv, GoodItems
  <2>3. QED
    BY <2>1, <2>2 DEF NotesInv
<1>4. CASE Resume
  BY <1>4 DEF Resume, NotesInv, FilesInv, SessionInv, GoodItems, thisFile
<1>5. CASE Download
  <2>1. file'[thisFile].notes = <<>>
          /\ \A f \in FileNames \ {thisFile} : file'[f] = file[f]
    BY <1>0, <1>5 DEF Download, Files, NotesInv, FilesInv
  <2>2. FilesInv'
    BY <1>5, <2>1, EmptySeq DEF Download, NotesInv, FilesInv, thisFile
  <2>3. SessionInv' /\ posts' \in Seq(GoodItems')
    BY <1>5 DEF Download, NotesInv, SessionInv, GoodItems
  <2>4. QED
    BY <2>2, <2>3 DEF NotesInv
<1>6. CASE Edit
  BY <1>6, EditNotes
<1>7. CASE Extract
  <2>1. comments' = file[thisFile].notes /\ UNCHANGED <<env, file, pull, posts>>
          /\ thisFile' = thisFile /\ pc' = "ask"
          /\ anchor' = IF file[thisFile].meta THEN file[thisFile].diff ELSE NoDiff
    BY <1>7 DEF Extract, thisFile
  <2>2. NotesOn(thisFile, file[thisFile].diff) \subseteq NotesFor(pull', anchor')
    BY <2>1, Blanks DEF NotesOn, NotesFor, thisFile
  <2>3. comments' \in Seq(NotesFor(pull', anchor'))
    BY <1>0, <2>1, <2>2, SeqMonotonic DEF NotesInv, FilesInv
  <2>4. QED
    BY <2>1, <2>3 DEF NotesInv, FilesInv, SessionInv, GoodItems
<1>8. CASE Decide
  BY <1>8 DEF Decide, NotesInv, FilesInv, SessionInv, GoodItems, thisFile
<1>9. CASE NotesPosted
  BY <1>9 DEF NotesPosted, NotesInv, FilesInv, SessionInv, GoodItems, thisFile
<1>10. CASE Ends
  BY <1>10
  DEF Ends, EndSession, NotesInv, FilesInv, SessionInv, GoodItems, thisFile
<1>11. CASE Sending
  BY <1>11, SendingNotes
<1>12. CASE UNCHANGED vars
  BY <1>12 DEF vars, NotesInv, FilesInv, SessionInv, GoodItems, thisFile
<1>13. QED
  BY <1>1, <1>2, <1>3, <1>4, <1>5, <1>6, <1>7, <1>8, <1>9, <1>10, <1>11, <1>12,
     Steps

LEMMA NotesAlways == Spec => []NotesInv
BY TypeInit, TypeNext, NotesInit, NotesNext, PTL DEF Spec

\* However a session ends, the notes it read are in the review file: rerunning
\* the review picks them up (edit_diff, fetch_patch of pull_reviews.c).
THEOREM PickedUp == Spec => []PickUpAgain
<1>1. NotesInv => PickUpAgain
  BY DEF NotesInv, SessionInv, PickUpAgain, ToSet
<1>2. QED
  BY <1>1, NotesAlways, PTL

\* GitLab puts every note on the version it was written on, whatever was
\* pushed and resumed since (post_diff_comment).
THEOREM Anchored == Spec => []AnchoredAsWritten
<1>1. NotesInv => AnchoredAsWritten
  BY ElementOfSeq DEF NotesInv, GoodItems, AnchoredAsWritten
<1>2. QED
  BY <1>1, NotesAlways, PTL

\* Pull requests with the same file name are those the xor of
\* get_review_diff_file_name cannot tell apart.
LEMMA SameFileName ==
  ASSUME NEW p, NEW q, FileName(p) = FileName(q) PROVE Confusable(p, q)
<1>1. p.id = q.id
  BY DEF FileName
<1>2. {w \in {p.owner, p.repo} : p.owner # p.repo}
        = {w \in {q.owner, q.repo} : q.owner # q.repo}
  BY DEF FileName
<1>3. QED
  BY <1>1, <1>2 DEF Confusable

\* A note reaches its own pull request or one with the same file name.
THEOREM NotesReach == Spec => []NotesReachTheirPull
<1>1. NotesInv => NotesReachTheirPull
  BY ElementOfSeq, SameFileName DEF NotesInv, GoodItems, NotesReachTheirPull
<1>2. QED
  BY <1>1, NotesAlways, PTL

-----------------------------------------------------------------------------
(* The order of a submission: what the forge has is the beginning of what   *)
(* is intended, and how far that goes is told by the place in the program.  *)

Pairs == ({"note", "body", "none"} \cup Verdicts) \X (0..MaxNotes)

Fact(x) == <<x.kind, x.note.n>>

Total == Len(comments) + (IF body THEN 1 ELSE 0) + 1

OrderInv ==
  /\ verdict = "none" => posts = <<>>
  /\ verdict # "none" =>
       /\ Len(posts) <= Total
       /\ \A i \in 1..Len(posts) : Fact(posts[i]) = Intended[i]
  /\ pc = "submit" => posts = <<>>
  /\ pc = "notes" => Len(posts) = sent
  /\ pc = "body" => body /\ Len(posts) = Len(comments)
  /\ pc = "verdict" => Len(posts) = Total - 1
  /\ pc = "done" => Len(posts) = Total

LEMMA OneMore ==
  ASSUME NEW S, NEW s \in Seq(S), NEW x \in S
  PROVE  /\ s \o <<x>> \in Seq(S)
         /\ Len(s \o <<x>>) = Len(s) + 1
         /\ \A i \in 1..Len(s) : (s \o <<x>>)[i] = s[i]
         /\ (s \o <<x>>)[Len(s) + 1] = x
<1> DEFINE one == <<x>>
<1>1. one \in Seq(S) /\ Len(one) = 1 /\ one[1] = x
  OBVIOUS
<1>2. Len(s) \in Nat
  BY LenProperties
<1> HIDE DEF one
<1>3. /\ s \o one \in Seq(S)
      /\ Len(s \o one) = Len(s) + Len(one)
      /\ \A i \in 1..Len(s) + Len(one) :
           (s \o one)[i] = IF i <= Len(s) THEN s[i] ELSE one[i - Len(s)]
  BY <1>1, ConcatProperties
<1>4. /\ s \o one \in Seq(S) /\ Len(s \o one) = Len(s) + 1
      /\ \A i \in 1..Len(s) : (s \o one)[i] = s[i]
      /\ (s \o one)[Len(s) + 1] = x
  BY <1>1, <1>2, <1>3
<1>5. QED
  BY <1>4 DEF one

\* t is made of the notes s, the body x if there is one, and the verdict y.
IsReview(t, s, x, y) ==
  /\ Len(t) = Len(s) + (IF body THEN 1 ELSE 0) + 1
  /\ \A i \in 1..Len(s) : t[i] = s[i]
  /\ body => t[Len(s) + 1] = x
  /\ t[Len(t)] = y

LEMMA ThreeParts ==
  ASSUME NEW S, NEW s \in Seq(S), NEW x \in S, NEW y \in S, body \in BOOLEAN,
         NEW t, t = s \o BodyPart(x) \o <<y>>
  PROVE  t \in Seq(S) /\ IsReview(t, s, x, y)
<1>0. Len(s) \in Nat
  BY LenProperties
<1> DEFINE u == s \o BodyPart(x)
<1>1. /\ u \in Seq(S)
      /\ Len(u) = Len(s) + (IF body THEN 1 ELSE 0)
      /\ \A i \in 1..Len(s) : u[i] = s[i]
      /\ body => u[Len(s) + 1] = x
  <2>1. CASE body
    <3>1. u = s \o <<x>>
      BY <2>1 DEF BodyPart
    <3>2. QED
      BY <2>1, <3>1, OneMore
  <2>2. CASE ~body
    <3>1. BodyPart(x) = <<>>
      BY <2>2 DEF BodyPart
    <3>2. u = s
      BY <3>1, ConcatEmptySeq
    <3>3. QED
      BY <1>0, <2>2, <3>2
  <2>3. QED
    BY <2>1, <2>2
<1>2. t = u \o <<y>>
  OBVIOUS
<1> HIDE DEF u
<1>3. u \in Seq(S)
  BY <1>1
<1>4. /\ u \o <<y>> \in Seq(S) /\ Len(u \o <<y>>) = Len(u) + 1
      /\ \A i \in 1..Len(u) : (u \o <<y>>)[i] = u[i]
      /\ (u \o <<y>>)[Len(u) + 1] = y
  BY <1>3, OneMore
<1>5. /\ t \in Seq(S) /\ Len(t) = Len(u) + 1
      /\ \A i \in 1..Len(u) : t[i] = u[i]
      /\ t[Len(u) + 1] = y
  BY <1>2, <1>4, Zenon
<1>6. QED
  BY <1>0, <1>1, <1>5 DEF IsReview

LEMMA IntendedShape ==
  ASSUME TypeInv
  PROVE  /\ Intended \in Seq(Pairs) /\ Len(Intended) = Total /\ Total \in Nat
         /\ \A i \in 1..Len(comments) : Intended[i] = <<"note", comments[i].n>>
         /\ body => Intended[Len(comments) + 1] = <<"body", 0>>
         /\ Intended[Total] = <<verdict, 0>>
<1> DEFINE noted == [i \in 1..Len(comments) |-> <<"note", comments[i].n>>]
<1>0. Len(comments) \in Nat
  BY LenProperties DEF TypeInv, TypeOK
<1>1. noted \in Seq(Pairs) /\ Len(noted) = Len(comments)
        /\ \A i \in 1..Len(comments) : noted[i] = <<"note", comments[i].n>>
  <2>1. \A i \in 1..Len(comments) : comments[i] \in Notes
    BY ElementOfSeq DEF TypeInv, TypeOK
  <2>2. \A i \in 1..Len(comments) : comments[i].n \in 0..MaxNotes
    BY <2>1 DEF Notes
  <2>3. noted \in [1..Len(comments) -> Pairs]
    BY <2>2 DEF Pairs
  <2>4. QED
    BY <1>0, <2>3, IsASeq
<1>2. <<"body", 0>> \in Pairs /\ <<verdict, 0>> \in Pairs /\ body \in BOOLEAN
  BY ReviewAssumption DEF Pairs, TypeInv, TypeOK
<1>3. Intended = noted \o BodyPart(<<"body", 0>>) \o <<<<verdict, 0>>>>
  BY DEF Intended
<1> DEFINE x == <<"body", 0>>
           y == <<verdict, 0>>
<1>4. x \in Pairs /\ y \in Pairs /\ Intended = noted \o BodyPart(x) \o <<y>>
  BY <1>2, <1>3
<1> HIDE DEF noted, x, y
<1>5. Intended \in Seq(Pairs) /\ IsReview(Intended, noted, x, y)
  <2>1. noted \in Seq(Pairs) /\ body \in BOOLEAN
    BY <1>1, <1>2
  <2>2. QED
    BY <1>4, <2>1, ThreeParts, Zenon
<1>6. Len(Intended) = Total /\ Total \in Nat
  BY <1>0, <1>1, <1>5 DEF Total, IsReview
<1>7. /\ \A i \in 1..Len(comments) : Intended[i] = <<"note", comments[i].n>>
      /\ body => Intended[Len(comments) + 1] = x
      /\ Intended[Total] = y
  BY <1>1, <1>5, <1>6 DEF IsReview
<1>8. QED
  BY <1>5, <1>6, <1>7 DEF x, y

\* GitHub's one request has all of it, in the same order.
LEMMA GitHubShape ==
  ASSUME TypeInv, verdict # "none"
  PROVE  /\ Len(GitHubItems) = Total
         /\ \A i \in 1..Total : Fact(GitHubItems[i]) = Intended[i]
<1> DEFINE at == [pull |-> pull, version |-> head[pull]]
           noted == [i \in 1..Len(comments) |-> Item("note", comments[i], at)]
<1>0. Len(comments) \in Nat /\ body \in BOOLEAN
  BY LenProperties DEF TypeInv, TypeOK
<1>1. noted \in Seq(Items) /\ Len(noted) = Len(comments)
        /\ \A i \in 1..Len(comments) : noted[i] = Item("note", comments[i], at)
  <2>1. \A i \in 1..Len(comments) : comments[i] \in Notes
    BY ElementOfSeq DEF TypeInv, TypeOK
  <2>2. noted \in [1..Len(comments) -> Items]
    BY <2>1, NewestDiff, ItemTypes
  <2>3. QED
    BY <1>0, <2>2, IsASeq
<1>2. Item("body", NoNote, NoDiff) \in Items
        /\ Item(verdict, NoNote, NoDiff) \in Items
  BY ItemTypes
<1>3. GitHubItems = noted \o BodyPart(Item("body", NoNote, NoDiff))
                      \o <<Item(verdict, NoNote, NoDiff)>>
  BY DEF GitHubItems
<1> DEFINE x == Item("body", NoNote, NoDiff)
           y == Item(verdict, NoNote, NoDiff)
<1> HIDE DEF noted, at, x, y
<1>4. /\ Len(GitHubItems) = Len(noted) + (IF body THEN 1 ELSE 0) + 1
      /\ \A i \in 1..Len(noted) : GitHubItems[i] = noted[i]
      /\ body => GitHubItems[Len(noted) + 1] = Item("body", NoNote, NoDiff)
      /\ GitHubItems[Len(GitHubItems)] = Item(verdict, NoNote, NoDiff)
  <2>1. x \in Items /\ y \in Items
          /\ GitHubItems = noted \o BodyPart(x) \o <<y>>
    BY <1>2, <1>3 DEF x, y
  <2>2. noted \in Seq(Items) /\ body \in BOOLEAN
    BY <1>0, <1>1
  <2>3. IsReview(GitHubItems, noted, x, y)
    BY <2>1, <2>2, ThreeParts, Zenon
  <2>4. QED
    BY <2>3 DEF IsReview, x, y
<1>5. Fact(Item("body", NoNote, NoDiff)) = <<"body", 0>>
        /\ Fact(Item(verdict, NoNote, NoDiff)) = <<verdict, 0>>
        /\ \A note : Fact(Item("note", note, at)) = <<"note", note.n>>
  BY DEF Fact, Item, NoNote
<1>6. Len(GitHubItems) = Total
  BY <1>1, <1>4 DEF Total
<1>7. ASSUME NEW i \in 1..Total PROVE Fact(GitHubItems[i]) = Intended[i]
  <2>1. CASE i <= Len(comments)
    <3>1. i \in 1..Len(comments)
      BY <1>0, <2>1, IntendedShape
    <3>2. GitHubItems[i] = Item("note", comments[i], at)
      BY <1>1, <1>4, <3>1
    <3>3. Fact(GitHubItems[i]) = <<"note", comments[i].n>>
      BY <1>5, <3>2
    <3>4. QED
      BY <3>1, <3>3, IntendedShape
  <2>2. CASE body /\ i = Len(comments) + 1
    BY <1>1, <1>4, <1>5, <2>2, IntendedShape
  <2>3. CASE i = Total
    BY <1>4, <1>5, <1>6, <2>3, IntendedShape
  <2>4. QED
    BY <1>0, <2>1, <2>2, <2>3 DEF Total
<1>8. QED
  BY <1>6, <1>7

LEMMA SendingOrder == ASSUME TypeInv, OrderInv, Sending PROVE OrderInv'
<1> USE DEF env, session
<1>0. /\ Len(comments) \in Nat /\ Len(posts) \in Nat /\ sent \in Nat
      /\ posts \in Seq(Items) /\ Total \in Nat /\ verdict # "none"
  BY LenProperties, IntendedShape DEF Sending, TypeInv, TypeOK, Phase
<1>1. UNCHANGED <<comments, body, verdict>> /\ Total' = Total
        /\ Intended' = Intended
  <2>1. UNCHANGED <<comments, body, verdict>>
    BY DEF Sending, Sends, AnswerLost, Answered
  <2>2. QED
    BY <2>1 DEF Total, Intended, BodyPart
<1>2. ASSUME NEW item \in Items, NEW next, Sends(<<item>>, next),
             Len(posts) < Total, Fact(item) = Intended[Len(posts) + 1]
      PROVE  /\ Len(posts') = Len(posts) + 1
             /\ \A i \in 1..Len(posts') : Fact(posts'[i]) = Intended[i]
  <2>1. posts' = posts \o <<item>>
    BY <1>2 DEF Sends, AnswerLost, Answered
  <2>2. <<item>> \in Seq(Items) /\ Len(<<item>>) = 1 /\ <<item>>[1] = item
    OBVIOUS
  <2>3. /\ Len(posts') = Len(posts) + 1
        /\ \A i \in 1..Len(posts) : posts'[i] = posts[i]
        /\ posts'[Len(posts) + 1] = item
    BY <1>0, <2>1, <2>2, ConcatProperties
  <2>4. \A i \in 1..Len(posts) : Fact(posts[i]) = Intended[i]
    BY <1>0 DEF OrderInv
  <2>5. QED
    BY <1>0, <1>2, <2>3, <2>4
<1>3. ASSUME NEW items, NEW next, Sends(items, next)
      PROVE  pc' = "idle" \/ (pc' = next /\ sent' = sent + 1)
  BY <1>3 DEF Sends, AnswerLost, Answered, EndSession
<1>4. CASE pc = "submit" /\ Sends(GitHubItems, "done")
  <2>1. posts' = <<>> \o GitHubItems
    BY <1>4 DEF Sends, AnswerLost, Answered, OrderInv
  <2>2. GitHubItems \in Seq(Items)
    BY <1>0, GitHubItemTypes
  <2>3. posts' = GitHubItems
    BY <2>1, <2>2, ConcatEmptySeq
  <2>4. Len(posts') = Total
          /\ \A i \in 1..Len(posts') : Fact(posts'[i]) = Intended[i]
    BY <1>0, <2>3, GitHubShape
  <2>5. pc' \in {"idle", "done"}
    BY <1>3, <1>4
  <2>6. QED
    BY <1>0, <1>1, <2>4, <2>5 DEF OrderInv
<1>5. CASE pc = "notes" /\ sent < Len(comments) /\ Sends(<<NextNote>>, "notes")
  <2>1. Len(posts) = sent /\ Len(posts) < Total
    BY <1>0, <1>5 DEF OrderInv, Total
  <2>2. comments[sent + 1] \in Notes
    BY <1>0, <1>5, ElementOfSeq DEF TypeInv, TypeOK
  <2>3. NextNote \in Items
    BY <2>2, ItemTypes DEF NextNote, TypeInv, TypeOK
  <2>4. Fact(NextNote) = Intended[Len(posts) + 1]
    BY <1>0, <1>5, <2>1, IntendedShape DEF Fact, NextNote, Item
  <2>5. Len(posts') = Len(posts) + 1
          /\ \A i \in 1..Len(posts') : Fact(posts'[i]) = Intended[i]
    BY <1>2, <1>5, <2>1, <2>3, <2>4
  <2>6. pc' = "idle" \/ (pc' = "notes" /\ sent' = sent + 1)
    BY <1>3, <1>5
  <2>7. QED
    BY <1>0, <1>1, <2>1, <2>5, <2>6 DEF OrderInv
<1>6. CASE pc = "body" /\ Sends(<<Item("body", NoNote, NoDiff)>>, "verdict")
  <2>1. body /\ Len(posts) = Len(comments) /\ Len(posts) + 2 = Total
    BY <1>0, <1>6 DEF OrderInv, Total
  <2>2. Item("body", NoNote, NoDiff) \in Items
    BY ItemTypes
  <2>3. Fact(Item("body", NoNote, NoDiff)) = Intended[Len(posts) + 1]
    BY <2>1, IntendedShape DEF Fact, Item, NoNote
  <2>4. Len(posts') = Len(posts) + 1
          /\ \A i \in 1..Len(posts') : Fact(posts'[i]) = Intended[i]
    BY <1>0, <1>2, <1>6, <2>1, <2>2, <2>3
  <2>5. pc' \in {"idle", "verdict"}
    BY <1>3, <1>6
  <2>6. QED
    BY <1>0, <1>1, <2>1, <2>4, <2>5 DEF OrderInv
<1>7. CASE pc = "verdict" /\ Sends(<<Item(verdict, NoNote, NoDiff)>>, "done")
  <2>1. Len(posts) + 1 = Total
    BY <1>0, <1>7 DEF OrderInv
  <2>2. Item(verdict, NoNote, NoDiff) \in Items
    BY <1>0, ItemTypes
  <2>3. Fact(Item(verdict, NoNote, NoDiff)) = Intended[Len(posts) + 1]
    BY <2>1, IntendedShape DEF Fact, Item, NoNote
  <2>4. Len(posts') = Len(posts) + 1
          /\ \A i \in 1..Len(posts') : Fact(posts'[i]) = Intended[i]
    BY <1>0, <1>2, <1>7, <2>1, <2>2, <2>3
  <2>5. pc' \in {"idle", "done"}
    BY <1>3, <1>7
  <2>6. QED
    BY <1>0, <1>1, <2>1, <2>4, <2>5 DEF OrderInv
<1>8. QED
  BY <1>4, <1>5, <1>6, <1>7 DEF Sending

LEMMA OrderNext == TypeInv /\ OrderInv /\ [Next]_vars => OrderInv'
<1> SUFFICES ASSUME TypeInv, OrderInv, [Next]_vars PROVE OrderInv'
  OBVIOUS
<1> USE DEF env, session
<1>1. CASE Push \/ (pc = "open" /\ Truncate) \/ Resume \/ Download \/ Edit
  <2>1. UNCHANGED <<comments, body, verdict, sent, posts>>
          /\ (pc' = pc \/ pc' \in {"download", "editor"})
    BY <1>1 DEF Push, Truncate, Resume, Download, Edit, WriteNote, WriteBody,
                RemoveMeta, Save
  <2>2. Total' = Total /\ Intended' = Intended
    BY <2>1 DEF Total, Intended, BodyPart
  <2>3. QED
    BY <2>1, <2>2 DEF OrderInv
<1>2. ASSUME NEW p \in Pulls, Start(p) PROVE OrderInv'
  BY <1>2 DEF Start, OrderInv
<1>3. CASE Extract
  <2>1. verdict = "none" /\ posts = <<>>
    BY <1>3 DEF Extract, TypeInv, Phase, OrderInv
  <2>2. QED
    BY <1>3, <2>1 DEF Extract, OrderInv
<1>4. CASE Decide
  <2>1. verdict = "none" /\ posts = <<>> /\ sent = 0
    BY <1>4 DEF Decide, TypeInv, Phase, OrderInv
  <2>2. verdict' # "none" /\ posts' = <<>> /\ sent' = 0 /\ Len(posts') = 0
          /\ pc' \in {"notes", "submit"} /\ Total' \in Nat
    <3>1. Total' = Total
      BY <1>4 DEF Decide, Total
    <3>2. QED
      BY <1>4, <2>1, <3>1, IntendedShape DEF Decide, Verdicts
  <2>3. QED
    BY <2>2 DEF OrderInv
<1>5. CASE NotesPosted
  <2>1. Len(posts) = sent /\ sent = Len(comments) /\ Len(comments) \in Nat
          /\ pc' = IF body THEN "body" ELSE "verdict"
    BY <1>5, LenProperties DEF NotesPosted, OrderInv, TypeInv, TypeOK
  <2>2. UNCHANGED <<comments, body, verdict, sent, posts>> /\ Total' = Total
          /\ Intended' = Intended
    BY <1>5 DEF NotesPosted, Total, Intended, BodyPart
  <2>3. ~body => Len(posts) = Total - 1
    BY <2>1 DEF Total
  <2>4. QED
    BY <2>1, <2>2, <2>3 DEF OrderInv
<1>6. CASE Ends
  <2>1. UNCHANGED <<comments, body, verdict, sent, posts>> /\ pc' = "idle"
    BY <1>6 DEF Ends, EndSession
  <2>2. Total' = Total /\ Intended' = Intended
    BY <2>1 DEF Total, Intended, BodyPart
  <2>3. QED
    BY <2>1, <2>2 DEF OrderInv
<1>7. CASE Sending
  BY <1>7, SendingOrder
<1>8. CASE UNCHANGED vars
  <2>1. Total' = Total /\ Intended' = Intended
    BY <1>8 DEF vars, Total, Intended, BodyPart
  <2>2. QED
    BY <1>8, <2>1 DEF vars, OrderInv
<1>9. QED
  BY <1>1, <1>2, <1>3, <1>4, <1>5, <1>6, <1>7, <1>8, Steps

LEMMA OrderInit == Init => OrderInv
BY DEF Init, OrderInv

LEMMA OrderAlways == Spec => [](TypeInv /\ OrderInv)
BY TypeInit, TypeNext, OrderInit, OrderNext, PTL DEF Spec

\* Pointwise, and as sequences.
LEMMA ReceivedShape ==
  ASSUME TypeInv, OrderInv, verdict # "none"
  PROVE  /\ Received \in Seq(Pairs) /\ Len(Received) = Len(posts)
         /\ Len(posts) \in Nat /\ Len(posts) <= Total
         /\ \A i \in 1..Len(posts) : Received[i] = Intended[i]
<1>1. Len(posts) \in Nat /\ \A i \in 1..Len(posts) : posts[i] \in Items
  BY LenProperties, ElementOfSeq DEF TypeInv, TypeOK
<1>2. \A i \in 1..Len(posts) : <<posts[i].kind, posts[i].note.n>> \in Pairs
  BY <1>1 DEF Items, Pairs
<1>3. Received \in [1..Len(posts) -> Pairs]
  BY <1>2 DEF Received
<1>4. Received \in Seq(Pairs) /\ Len(Received) = Len(posts)
  BY <1>1, <1>3, IsASeq DEF Received
<1>5. QED
  BY <1>1, <1>4 DEF OrderInv, Fact, Received

\* The forge has the notes of a submission in order and once, the body behind
\* them and a verdict only behind both, wherever a request is refused, an
\* answer lost or gcli killed (gitlab_mr_create_review,
\* github_pull_create_review).
THEOREM VerdictLast == Spec => []VerdictAfterTheNotes
<1>1. TypeInv /\ OrderInv => VerdictAfterTheNotes
  <2> SUFFICES ASSUME TypeInv, OrderInv, verdict # "none"
               PROVE  IsPrefix(Received, Intended)
    BY DEF VerdictAfterTheNotes, Submitting
  <2> DEFINE n == Len(posts)
  <2>1. n \in Nat /\ n <= Total /\ Total \in Nat
    BY ReceivedShape, IntendedShape
  <2>2. \A i \in 1..n : i \in 1..Total
    BY <2>1
  <2>3. /\ SubSeq(Received, 1, n) = [i \in 1..n |-> Received[i]]
        /\ SubSeq(Intended, 1, n) = [i \in 1..n |-> Intended[i]]
    BY <2>1, <2>2, ReceivedShape, IntendedShape, SubSeqRestrict
  <2>4. \A i \in 1..n : Received[i] = Intended[i]
    BY ReceivedShape
  <2>5. [i \in 1..n |-> Received[i]] = [i \in 1..n |-> Intended[i]]
    BY <2>4
  <2>6. QED
    BY <2>1, <2>3, <2>5, ReceivedShape, IntendedShape DEF IsPrefix
<1>2. QED
  BY <1>1, OrderAlways, PTL

\* do_review_session returns only when all of the review has been received.
THEOREM WholeReview == Spec => []SuccessIsComplete
<1>1. TypeInv /\ OrderInv => SuccessIsComplete
  <2> SUFFICES ASSUME TypeInv, OrderInv, pc = "done"
               PROVE  Received = Intended
    BY DEF SuccessIsComplete
  <2>1. verdict # "none" /\ Len(posts) = Total
    BY DEF TypeInv, Phase, OrderInv
  <2>2. QED
    BY <2>1, ReceivedShape, IntendedShape, SeqEqual
<1>2. QED
  BY <1>1, OrderAlways, PTL

=============================================================================
