---------------------------- MODULE ReviewSession ----------------------------
(***************************************************************************)
(* The review tool: `gcli pulls -i ID review' (src/src/cmd/pull_reviews.c) *)
(* with the two requests it makes of a forge, the diff download and the    *)
(* submission (gitlab/merge_requests.c, github/pulls.c).                   *)
(*                                                                         *)
(* A session downloads the diff of a pull request into a review file, lets *)
(* the user annotate it in an editor, reads the notes back, asks for a     *)
(* verdict and submits.  The file outlives the session: that is how a      *)
(* review is postponed, retried, or picked up after a kill.  Meanwhile the *)
(* author of the pull request may push new versions.                       *)
(***************************************************************************)
EXTENDS Integers, Sequences, SequencesExt

CONSTANTS
  Pulls,            \* paths of pull requests: [owner, repo, id]
  MaxPushes,        \* bound on the new versions of all pull requests together
  MaxNotes          \* bound on the notes written

ASSUME ReviewAssumption ==
  /\ Pulls # {}
  /\ MaxPushes \in Nat /\ MaxNotes \in Nat

Forges == {"gitlab", "github", "gitea"}
Verdicts == {"accept", "request", "comment"}

VARIABLES
  forge,        \* the type of forge gcli talks to
  head,         \* the newest version of each pull request
  pushes,       \* new versions so far
  file,         \* the review files
  pc,           \* where the session is
  pull,         \* details.path
  comments,     \* details.comments
  body,         \* details.body is not empty
  anchor,       \* the diff named by details.meta_lines, or none
  verdict,      \* details.review_state
  sent,         \* requests of this submission the forge answered with success
  outcome,      \* how the session ended
  written,      \* history: number of notes written so far
  posts         \* history: what the forge received from this session

session == <<pull, comments, body, anchor, verdict, sent>>
env == <<forge, head, pushes>>
vars == <<env, file, pc, session, outcome, written, posts>>

\* Mutant: the id is left out of the name.
MutFileName(p) ==
  [hash |-> {w \in {p.owner, p.repo} : p.owner # p.repo}, id |-> 0]

\* get_review_diff_file_name: djb2 of the owner xor djb2 of the repository,
\* and the id.  The xor of equal hashes is 0, and it does not see which of the
\* two is the owner.
FileName(p) ==
  [hash |-> {w \in {p.owner, p.repo} : p.owner # p.repo}, id |-> p.id]

FileNames == {FileName(p) : p \in Pulls}

\* The diff of a version of a pull request; version 0, of whichever pull
\* request, is no diff at all.
Diffs == [pull : Pulls, version : 0..MaxPushes + 1]
NoDiff == [pull |-> CHOOSE p \in Pulls : TRUE, version |-> 0]

Notes == [n : 1..MaxNotes, pull : Pulls, on : Diffs]

\* meta: the GCLI: lines with the hashes of the diff are in place.
Files == [there : BOOLEAN, diff : Diffs, meta : BOOLEAN, notes : Seq(Notes),
          body : BOOLEAN]

Absent == [there |-> FALSE, diff |-> NoDiff, meta |-> FALSE, notes |-> <<>>,
           body |-> FALSE]
Empty == [Absent EXCEPT !.there = TRUE]

Init ==
  /\ forge \in Forges
  /\ head = [p \in Pulls |-> 1] /\ pushes = 0
  /\ file = [f \in FileNames |-> Absent]
  /\ pull \in Pulls /\ anchor = NoDiff
  /\ pc = "idle"
  /\ comments = <<>> /\ body = FALSE /\ verdict = "none" /\ sent = 0
  /\ outcome = "none"
  /\ written = 0
  /\ posts = <<>>

-----------------------------------------------------------------------------
(* The author of a pull request. *)

Push ==
  /\ pushes < MaxPushes /\ pushes' = pushes + 1
  /\ \E p \in Pulls : head' = [head EXCEPT ![p] = @ + 1]
  /\ UNCHANGED <<forge, file, pc, session, outcome, written, posts>>

-----------------------------------------------------------------------------
(* edit_diff: get the diff, unless a review file is already there. *)

thisFile == FileName(pull)

\* Mutant: the counter of posted notes outlives its session.
MutStart(p) ==
  /\ pc = "idle"
  /\ pull' = p
  /\ comments' = <<>> /\ body' = FALSE /\ anchor' = NoDiff
  /\ verdict' = "none"
  /\ outcome' = "none" /\ posts' = <<>>
  /\ pc' = "open"
  /\ UNCHANGED <<env, file, sent, written>>

\* do_review_session: the details are fresh in every session.
Start(p) ==
  /\ pc = "idle"
  /\ pull' = p
  /\ comments' = <<>> /\ body' = FALSE /\ anchor' = NoDiff
  /\ verdict' = "none" /\ sent' = 0
  /\ outcome' = "none" /\ posts' = <<>>
  /\ pc' = "open"
  /\ UNCHANGED <<env, file, written>>

\* fetch_patch: fopen(..., "w") truncates before anything is downloaded.
Truncate ==
  /\ file' = [file EXCEPT ![thisFile] = Empty]
  /\ pc' = "download"
  /\ UNCHANGED <<env, session, outcome, written, posts>>

FirstTime == pc = "open" /\ ~file[thisFile].there /\ Truncate

\* "There seems to already be a review in progress. Start over?" - yes
StartOver == pc = "open" /\ file[thisFile].there /\ Truncate

\* - no
Resume ==
  /\ pc = "open" /\ file[thisFile].there
  /\ pc' = "editor"
  /\ UNCHANGED <<env, file, session, outcome, written, posts>>

\* gcli_pull_get_diff: GitLab's diff starts with the hashes of its version.
Download ==
  /\ pc = "download"
  /\ file' = [file EXCEPT ![thisFile] =
                [@ EXCEPT !.diff = [pull |-> pull, version |-> head[pull]],
                          !.meta = forge = "gitlab"]]
  /\ pc' = "editor"
  /\ UNCHANGED <<env, session, outcome, written, posts>>

EndSession(how) ==
  /\ pc' = "idle"
  /\ outcome' = how
  /\ UNCHANGED <<env, file, written>>

\* errx(); nothing was written to the file, which stays behind.
DownloadFails ==
  /\ pc = "download"
  /\ EndSession("failed") /\ UNCHANGED <<session, posts>>

-----------------------------------------------------------------------------
(* The editor, and what the user does to the file in it. *)

Save(content) ==
  /\ pc = "editor"
  /\ file' = [file EXCEPT ![thisFile] = content]
  /\ UNCHANGED <<env, pc, session, outcome, posts>>

\* A note needs a diff line to stand above.
WriteNote ==
  /\ written < MaxNotes /\ file[thisFile].diff.version > 0
  /\ written' = written + 1
  /\ Save([file[thisFile] EXCEPT !.notes =
             Append(@, [n |-> written + 1, pull |-> pull,
                        on |-> file[thisFile].diff])])

WriteBody ==
  /\ Save([file[thisFile] EXCEPT !.body = TRUE])
  /\ UNCHANGED written

\* The user deletes the GCLI: lines.
RemoveMeta ==
  /\ Save([file[thisFile] EXCEPT !.meta = FALSE])
  /\ UNCHANGED written

\* gcli_editor_open_file: an editor that exits with an error ends gcli.
EditorFails ==
  /\ pc = "editor"
  /\ EndSession("failed") /\ UNCHANGED <<session, posts>>

\* Mutant: the hashes of the newest version are looked up instead.
MutExtract ==
  /\ pc = "editor"
  /\ comments' = file[thisFile].notes
  /\ body' = file[thisFile].body
  /\ anchor' = [pull |-> pull, version |-> head[pull]]
  /\ pc' = "ask"
  /\ UNCHANGED <<env, file, pull, verdict, sent, outcome, written,
                 posts>>

\* extract_patch_comments, process_series_prelude.  An empty prelude is read
\* past its end, and what lies there may pass for a comment.
Extract ==
  /\ pc = "editor"
  /\ comments' = file[thisFile].notes
  /\ body' \in IF file[thisFile].meta \/ file[thisFile].body
                THEN {file[thisFile].body} ELSE BOOLEAN
  /\ anchor' = IF file[thisFile].meta THEN file[thisFile].diff
                                      ELSE NoDiff
  /\ pc' = "ask"
  /\ UNCHANGED <<env, file, pull, verdict, sent, outcome, written,
                 posts>>

\* The user left something the parser rejects; any session may repair it.
ExtractFails ==
  /\ pc = "editor"
  /\ EndSession("failed") /\ UNCHANGED <<session, posts>>

-----------------------------------------------------------------------------
(* ask_for_review_state *)

\* Mutant: the review file is cleaned up.
MutPostpone ==
  /\ pc = "ask"
  /\ file' = [file EXCEPT ![thisFile] = Absent]
  /\ pc' = "idle" /\ outcome' = "postponed"
  /\ UNCHANGED <<env, session, written, posts>>

Postpone ==
  /\ pc = "ask"
  /\ EndSession("postponed") /\ UNCHANGED <<session, posts>>

\* End of file on standard input.
Abort ==
  /\ pc = "ask"
  /\ EndSession("failed") /\ UNCHANGED <<session, posts>>

Decide ==
  /\ pc = "ask"
  /\ verdict' \in Verdicts
  /\ pc' = IF forge = "gitlab" THEN "notes" ELSE "submit"
  /\ UNCHANGED <<env, file, pull, comments, body, anchor, sent,
                 outcome, written, posts>>

-----------------------------------------------------------------------------
(* Submission.  A request is answered with success, is refused, or is      *)
(* carried out by the forge but its answer never arrives.                  *)

Item(kind, note, at) ==
  [pull |-> pull, kind |-> kind, note |-> note, at |-> at]

NoNote == [n |-> 0, pull |-> pull, on |-> NoDiff]

\* The body is sent only if it has text.
BodyPart(item) == IF body THEN <<item>> ELSE <<>>

Refused == EndSession("failed") /\ UNCHANGED <<session, posts>>

AnswerLost(items) ==
  /\ posts' = posts \o items
  /\ EndSession("failed") /\ UNCHANGED session

Answered(items, next) ==
  /\ posts' = posts \o items
  /\ sent' = sent + 1
  /\ pc' = next
  /\ UNCHANGED <<env, file, pull, comments, body, anchor, verdict,
                 outcome, written>>

Request(items, next) == Refused \/ AnswerLost(items) \/ Answered(items, next)

\* github_pull_create_review: one request carries the notes, the body and the
\* verdict; the forge puts the notes on the newest version.
GitHubItems ==
  LET at == [pull |-> pull, version |-> head[pull]]
  IN  [i \in 1..Len(comments) |-> Item("note", comments[i], at)]
        \o BodyPart(Item("body", NoNote, NoDiff))
        \o <<Item(verdict, NoNote, NoDiff)>>

SubmitGitHub ==
  /\ pc = "submit" /\ forge = "github"
  /\ Request(GitHubItems, "done")

\* Gitea has no pull_create_review.
SubmitGitea == pc = "submit" /\ forge = "gitea" /\ Refused

\* Mutant: the loop over the notes does not stop at one that is refused.
MutPostNote ==
  /\ pc = "notes" /\ sent < Len(comments) /\ anchor.version > 0
  /\ LET item == Item("note", comments[sent + 1], anchor)
     IN  AnswerLost(<<item>>) \/ Answered(<<item>>, "notes")
           \/ Answered(<<>>, "notes")

\* post_diff_comment for the next note; it needs the hashes.
PostNote ==
  /\ pc = "notes" /\ sent < Len(comments) /\ anchor.version > 0
  /\ Request(<<Item("note", comments[sent + 1], anchor)>>, "notes")

PostNoteWithoutMeta ==
  /\ pc = "notes" /\ sent < Len(comments) /\ anchor.version = 0
  /\ Refused

\* Mutant: the body is forgotten.
MutNotesPosted ==
  /\ pc = "notes" /\ sent = Len(comments)
  /\ pc' = "verdict"
  /\ UNCHANGED <<env, file, session, outcome, written, posts>>

NotesPosted ==
  /\ pc = "notes" /\ sent = Len(comments)
  /\ pc' = IF body THEN "body" ELSE "verdict"
  /\ UNCHANGED <<env, file, session, outcome, written, posts>>

\* gitlab_mr_create_review tests an rc that no note has set.
UnsetReturnCode == pc = "notes" /\ comments = <<>> /\ Refused

PostBody ==
  /\ pc = "body"
  /\ Request(<<Item("body", NoNote, NoDiff)>>, "verdict")

\* Approve or unapprove; a mere comment asks nothing more of the forge, and
\* the model notes its verdict as if the forge had received it.
PostVerdict ==
  /\ pc = "verdict" /\ verdict # "comment"
  /\ Request(<<Item(verdict, NoNote, NoDiff)>>, "done")

CommentOnly ==
  /\ pc = "verdict" /\ verdict = "comment"
  /\ Answered(<<Item(verdict, NoNote, NoDiff)>>, "done")

\* The review file stays.
Submitted ==
  /\ pc = "done"
  /\ EndSession("submitted") /\ UNCHANGED <<session, posts>>

\* gcli is killed; the file stays as it is.
Kill ==
  /\ pc # "idle"
  /\ EndSession("killed") /\ UNCHANGED <<session, posts>>

Submit ==
  \/ SubmitGitHub \/ SubmitGitea
  \/ PostNote \/ PostNoteWithoutMeta \/ NotesPosted \/ UnsetReturnCode
  \/ PostBody \/ PostVerdict \/ CommentOnly \/ Submitted

Edit == WriteNote \/ WriteBody \/ RemoveMeta

Next ==
  \/ Push
  \/ \E p \in Pulls : Start(p)
  \/ FirstTime \/ StartOver \/ Resume \/ Download \/ DownloadFails
  \/ Edit \/ EditorFails \/ Extract \/ ExtractFails
  \/ Postpone \/ Abort \/ Decide
  \/ Submit \/ Kill

Spec == Init /\ [][Next]_vars

-----------------------------------------------------------------------------
Items == [pull : Pulls, kind : {"note", "body"} \cup Verdicts,
          note : [n : 0..MaxNotes, pull : Pulls, on : Diffs], at : Diffs]

TypeOK ==
  /\ forge \in Forges
  /\ head \in [Pulls -> 1..MaxPushes + 1] /\ pushes \in 0..MaxPushes
  /\ file \in [FileNames -> Files]
  /\ pc \in {"idle", "open", "download", "editor", "ask", "submit", "notes",
             "body", "verdict", "done"}
  /\ pull \in Pulls
  /\ comments \in Seq(Notes)
  /\ body \in BOOLEAN
  /\ anchor \in Diffs
  /\ verdict \in Verdicts \cup {"none"}
  /\ sent \in IF verdict = "none" THEN {0} ELSE 0..Len(comments) + 2
  /\ outcome \in {"none", "postponed", "failed", "submitted", "killed"}
  /\ written \in 0..MaxNotes
  /\ posts \in Seq(Items)

\* What the forge holds of the submission, and what it should hold.
Received == [i \in 1..Len(posts) |-> <<posts[i].kind, posts[i].note.n>>]

Intended ==
  [i \in 1..Len(comments) |-> <<"note", comments[i].n>>]
    \o BodyPart(<<"body", 0>>)
    \o <<<<verdict, 0>>>>

Submitting == verdict # "none"

\* The forge receives the notes of a submission in file order, none twice,
\* then the body, and a verdict only when all of them are there - also when
\* a request is refused, its answer is lost, or gcli is killed.
VerdictAfterTheNotes == Submitting => IsPrefix(Received, Intended)

\* do_review_session returns only when the forge holds the whole review.
SuccessIsComplete == pc = "done" => Received = Intended

\* "You can pick up again by rerunning the review subcommand": a session that
\* was postponed, failed or was killed leaves every note it read in the file.
PickUpAgain ==
  pc = "idle" => ToSet(comments) \subseteq ToSet(file[thisFile].notes)

\* On GitLab a note lands on the version of the diff it was written on, also
\* when it was resumed after the author pushed a newer one.
AnchoredAsWritten ==
  forge = "gitlab" =>
    \A i \in 1..Len(posts) :
      posts[i].kind = "note" => posts[i].at = posts[i].note.on

\* Pull requests whose review files cannot be told apart: the same number in
\* repositories whose owner and name are swapped, or are one word each.
Confusable(p, q) ==
  /\ p.id = q.id
  /\ \/ <<p.owner, p.repo>> \in {<<q.owner, q.repo>>, <<q.repo, q.owner>>}
     \/ p.owner = p.repo /\ q.owner = q.repo

\* However sessions on several pull requests are interleaved, postponed and
\* resumed, a note reaches the pull request it was written for, or one that
\* the name of the review file cannot tell from it.
NotesReachTheirPull ==
  \A i \in 1..Len(posts) :
    posts[i].kind = "note" => Confusable(posts[i].note.pull, posts[i].pull)

=============================================================================
