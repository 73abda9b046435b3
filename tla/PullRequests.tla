---------------------------- MODULE PullRequests ----------------------------
(***************************************************************************)
(* What gcli does to a pull request in several requests: creating one with *)
(* labels, reviewers and automerge, merging one and deleting its branch,   *)
(* closing and reopening, requesting a review (src/src/github/pulls.c,     *)
(* src/src/gitlab/merge_requests.c).  Several people run gcli on the same  *)
(* pull request, and the forge works on it in the background.              *)
(***************************************************************************)
EXTENDS Integers, FiniteSets

CONSTANTS
  Clients,      \* runs of gcli
  Users,        \* names of reviewers
  Work          \* what the clients do: a set of functions from Clients to Ops

Submits == [kind : {"submit"}, labels : BOOLEAN, reviewers : SUBSET Users,
            automerge : BOOLEAN]
Merges == [kind : {"merge"}, delete : BOOLEAN]
Requests == [kind : {"request"}, reviewers : {{u} : u \in Users}]
Patches == [kind : {"patch"}, state : {"open", "closed"}]
Ops == Submits \cup Merges \cup Requests \cup Patches

ASSUME WorkAssumption == Work \subseteq [Clients -> Ops]

Repos == {"target", "fork"}

VARIABLES
  forge,        \* "github" or "gitlab"
  head,         \* the repository the source branch is in
  commits,      \* the source branch has commits to merge; GitHub insists
  branches,     \* the repositories that have a branch of that name
  pr,           \* state of the pull request
  merge_status, \* what GitLab's last check for conflicts found
  labels, reviewers, automerge,
  op,           \* what each client does
  pc,           \* where each client is
  rc,           \* return code of its operation
  known,        \* the id of the created pull request could be parsed
  list,         \* GitLab: the reviewers a client has read
  did,          \* history: what the forge has confirmed to a client
  stale         \* history: a list that was out of date has been written back

pull == <<pr, labels, reviewers, automerge, branches>>
env == <<forge, head, commits, op>>
vars == <<env, pull, merge_status, pc, rc, known, list, did, stale>>

Init ==
  /\ forge \in {"github", "gitlab"}
  /\ head \in Repos
  /\ commits \in (IF forge = "github" THEN {TRUE} ELSE BOOLEAN)
  /\ branches \in {{head}, Repos}
  /\ pr = "none"
  /\ merge_status = "unchecked"
  /\ labels = FALSE /\ reviewers = {} /\ automerge = FALSE
  /\ op \in Work
  /\ pc = [c \in Clients |-> "start"]
  /\ rc = [c \in Clients |-> 0]
  /\ known = [c \in Clients |-> TRUE]
  /\ list = [c \in Clients |-> {}]
  /\ did = [c \in Clients |-> {}]
  /\ stale = FALSE

-----------------------------------------------------------------------------
(* The forge, and people who use it without gcli. *)

\* GitLab finds out in the background whether a merge request can be merged:
\* not if the branches conflict.  It does not for one without commits.
MergeCheck ==
  /\ forge = "gitlab" /\ pr = "open" /\ commits /\ merge_status = "unchecked"
  /\ merge_status' \in {"can_be_merged", "cannot_be_merged"}
  /\ UNCHANGED <<env, pull, pc, rc, known, list, did, stale>>

\* Somebody pushes to one of the branches: GitLab has to check again.
Push ==
  /\ pr = "open" /\ merge_status # "unchecked"
  /\ merge_status' = "unchecked"
  /\ UNCHANGED <<env, pull, pc, rc, known, list, did, stale>>

ClosedByOthers ==
  /\ pr = "open"
  /\ pr' = "closed"
  /\ UNCHANGED <<env, labels, reviewers, automerge, branches, merge_status, pc, rc,
                 known, list, did, stale>>

-----------------------------------------------------------------------------
(* One request of client c. *)

Does(c, kind, at) == op[c].kind = kind /\ pc[c] = at

GoTo(c, at) == pc' = [pc EXCEPT ![c] = at]

Return(c, code) ==
  /\ GoTo(c, "done")
  /\ rc' = [rc EXCEPT ![c] = code]

Confirmed(c, what) == did' = [did EXCEPT ![c] = @ \cup what]

\* The forge answers with success; the operation goes on, or ends.
Answered(c, what, next) == Confirmed(c, what) /\ GoTo(c, next) /\ UNCHANGED rc

\* The forge carried the request out, but its answer is lost.
Lost(c) == Return(c, -1) /\ UNCHANGED did

\* Mutant: the status of the answer becomes the return code.
MutFails(c) ==
  /\ Return(c, 404)
  /\ UNCHANGED <<env, pull, merge_status, known, list, did, stale>>

\* The request fails and changes nothing.
Fails(c) ==
  /\ Return(c, -1)
  /\ UNCHANGED <<env, pull, merge_status, known, list, did, stale>>

AnsweredOrLost(c, what, next) == Answered(c, what, next) \/ Lost(c)

-----------------------------------------------------------------------------
(* github_perform_submit_pull, gitlab_perform_submit_mr *)

\* The follow-up requests that were asked for, in the order they are made.
AfterLabels(c) ==
  IF op[c].reviewers # {} THEN "reviewers"
  ELSE IF op[c].automerge THEN "automerge" ELSE "done"

AfterReviewers(c) == IF op[c].automerge THEN "automerge" ELSE "done"

FirstFollowUp(c) == IF op[c].labels THEN "labels" ELSE AfterLabels(c)

\* GitLab takes labels and reviewers with the merge request.
Create(c) ==
  /\ Does(c, "submit", "start") /\ pr = "none"
  /\ pr' = "open"
  /\ IF forge = "gitlab"
       THEN /\ labels' = op[c].labels /\ reviewers' = op[c].reviewers
            /\ AnsweredOrLost(c, {"create", "labels", "reviewers"},
                              IF op[c].automerge THEN "parse" ELSE "done")
       ELSE /\ UNCHANGED <<labels, reviewers>>
            /\ AnsweredOrLost(c, {"create"},
                              IF FirstFollowUp(c) = "done" THEN "done"
                                                           ELSE "parse")
  /\ UNCHANGED <<env, automerge, branches, merge_status, known, list, stale>>

\* The look-up of the repository or of a user id, or the creation itself.
CreateFails(c) == Does(c, "submit", "start") /\ Fails(c)

\* The answer is parsed for the id; only GitLab's side heeds a parse error.
ParseCreated(c) ==
  /\ Does(c, "submit", "parse")
  /\ known' = [known EXCEPT ![c] = TRUE]
  /\ GoTo(c, IF forge = "gitlab" THEN "poll" ELSE FirstFollowUp(c))
  /\ UNCHANGED <<env, pull, merge_status, rc, list, did, stale>>

ParseCreatedFails(c) ==
  /\ Does(c, "submit", "parse")
  /\ known' = [known EXCEPT ![c] = FALSE]
  /\ IF forge = "gitlab" THEN Return(c, -1)
                         ELSE GoTo(c, FirstFollowUp(c)) /\ UNCHANGED rc
  /\ UNCHANGED <<env, pull, merge_status, list, did, stale>>

\* GitHub: one request for the labels, one for the reviewers.
AddLabels(c) ==
  /\ Does(c, "submit", "labels") /\ known[c]
  /\ labels' = TRUE
  /\ AnsweredOrLost(c, {"labels"}, AfterLabels(c))
  /\ UNCHANGED <<env, pr, reviewers, automerge, branches, merge_status, known,
                 list, stale>>

AddReviewers(c) ==
  /\ Does(c, "submit", "reviewers") /\ known[c]
  /\ reviewers' = reviewers \cup op[c].reviewers
  /\ AnsweredOrLost(c, {"reviewers"}, AfterReviewers(c))
  /\ UNCHANGED <<env, pr, labels, automerge, branches, merge_status, known, list,
                 stale>>

\* gitlab_mr_wait_until_mergeable asks every second; the answers that do not
\* say so change nothing, and neither do those that cannot be parsed.
\* Mutant: waits for automerge, which is only set afterwards.
MutMergeable == automerge /\ pr = "open"

Mergeable == merge_status = "can_be_merged"

PollMergeable(c) ==
  /\ Does(c, "submit", "poll") /\ Mergeable
  /\ GoTo(c, "automerge")
  /\ UNCHANGED <<env, pull, merge_status, rc, known, list, did, stale>>

\* The request fails, or a mergeable answer breaks off.
PollFails(c) == Does(c, "submit", "poll") /\ Fails(c)

\* GitHub: a mutation of its GraphQL interface.
SetAutomerge(c) ==
  /\ Does(c, "submit", "automerge") /\ forge = "github"
  /\ known[c] /\ pr = "open"
  /\ automerge' = TRUE
  /\ AnsweredOrLost(c, {"automerge"}, "done")
  /\ UNCHANGED <<env, pr, labels, reviewers, branches, merge_status, known, list,
                 stale>>

\* The request is answered with success and nothing is set.  GitLab is sent
\* one without a body, which asks for nothing; GitHub answers with success
\* whatever its GraphQL interface refuses, such as a pull request that the
\* parsed answer gave no node_id for.
AutomergeIgnored(c) ==
  /\ Does(c, "submit", "automerge")
  /\ AnsweredOrLost(c, {"ignored"}, "done")
  /\ UNCHANGED <<env, pull, merge_status, known, list, stale>>

\* Mutant: a submission goes on when its labels are refused.
MutFollowUpFails(c) ==
  \/ /\ Does(c, "submit", "labels")
     /\ GoTo(c, AfterLabels(c))
     /\ UNCHANGED <<env, pull, merge_status, rc, known, list, did, stale>>
  \/ /\ \E at \in {"reviewers", "automerge"} : Does(c, "submit", at)
     /\ Fails(c)

\* A follow-up that is refused ends the submission.  The labels and reviewers
\* of a pull request whose id is not known always are.
FollowUpFails(c) ==
  /\ \E at \in {"labels", "reviewers", "automerge"} : Does(c, "submit", at)
  /\ Fails(c)

Submit(c) ==
  \/ Create(c) \/ CreateFails(c) \/ ParseCreated(c) \/ ParseCreatedFails(c)
  \/ AddLabels(c) \/ AddReviewers(c) \/ PollMergeable(c) \/ SetAutomerge(c)
  \/ AutomergeIgnored(c) \/ FollowUpFails(c)

-----------------------------------------------------------------------------
(* github_pull_merge, gitlab_mr_merge *)

\* GitLab removes the source branch itself.
Merge(c) ==
  /\ Does(c, "merge", "start") /\ pr = "open" /\ commits
  /\ merge_status # "cannot_be_merged"
  /\ pr' = "merged"
  /\ branches' = IF forge = "gitlab" /\ op[c].delete THEN branches \ {head}
                                                     ELSE branches
  /\ AnsweredOrLost(c, {"merge"},
                    IF forge = "github" /\ op[c].delete THEN "branch"
                                                        ELSE "done")
  /\ UNCHANGED <<env, labels, reviewers, automerge, merge_status, known, list,
                 stale>>

\* Mutant: the branch is deleted whatever became of the merge.
MutMergeFails(c) ==
  /\ Does(c, "merge", "start") /\ pr # "none"
  /\ IF forge = "github" /\ op[c].delete
       THEN /\ GoTo(c, "branch")
            /\ UNCHANGED <<env, pull, merge_status, rc, known, list, did, stale>>
       ELSE Fails(c)

MergeFails(c) == Does(c, "merge", "start") /\ pr # "none" /\ Fails(c)

\* github_pull_delete_head_branch: the branch of that name in the repository
\* of the pull request.
DeleteHeadBranch(c) ==
  /\ Does(c, "merge", "branch") /\ "target" \in branches
  /\ branches' = branches \ {"target"}
  /\ AnsweredOrLost(c, {"delete"}, "done")
  /\ UNCHANGED <<env, pr, labels, reviewers, automerge, merge_status, known, list,
                 stale>>

\* The pull request cannot be fetched again, or the deletion is refused.
DeleteHeadBranchFails(c) == Does(c, "merge", "branch") /\ Fails(c)

\* The pull request that was fetched again names no head: the name of the
\* branch is searched for in NULL.
DeleteHeadBranchCrashes(c) ==
  /\ Does(c, "merge", "branch")
  /\ GoTo(c, "crashed")
  /\ UNCHANGED <<env, pull, merge_status, rc, known, list, did, stale>>

\* github_pull_patch_state, gitlab_mr_patch_state: close and reopen.
PatchState(c) ==
  /\ Does(c, "patch", "start") /\ pr \in {"open", "closed"}
  /\ pr' = op[c].state
  /\ AnsweredOrLost(c, {}, "done")
  /\ UNCHANGED <<env, labels, reviewers, automerge, branches, merge_status, known,
                 list, stale>>

PatchStateFails(c) == Does(c, "patch", "start") /\ pr # "none" /\ Fails(c)

MergePull(c) ==
  \/ Merge(c) \/ MergeFails(c)
  \/ DeleteHeadBranch(c) \/ DeleteHeadBranchFails(c) \/ DeleteHeadBranchCrashes(c)

-----------------------------------------------------------------------------
(* github_pull_add_reviewer, gitlab_mr_add_reviewer *)

PostReviewer(c) ==
  /\ Does(c, "request", "start") /\ forge = "github" /\ pr # "none"
  /\ reviewers' = reviewers \cup op[c].reviewers
  /\ AnsweredOrLost(c, {"reviewers"}, "done")
  /\ UNCHANGED <<env, pr, labels, automerge, branches, merge_status, known, list,
                 stale>>

\* gitlab_mr_get_reviewers: of a broken answer some reviewers are kept.
ReadReviewers(c) ==
  /\ Does(c, "request", "start") /\ forge = "gitlab" /\ pr # "none"
  /\ \E some \in SUBSET reviewers : list' = [list EXCEPT ![c] = some]
  /\ GoTo(c, "lookup")
  /\ UNCHANGED <<env, pull, merge_status, rc, known, did, stale>>

RequestFails(c) ==
  /\ pr # "none" /\ \E at \in {"start", "put"} : Does(c, "request", at)
  /\ Fails(c)

\* gitlab_user_id
LookUpUser(c) ==
  /\ Does(c, "request", "lookup")
  /\ GoTo(c, "put")
  /\ UNCHANGED <<env, pull, merge_status, rc, known, list, did, stale>>

\* The look-up's error is not returned: rc is still that of the list.
LookUpUserFails(c) ==
  /\ Does(c, "request", "lookup")
  /\ Return(c, 0)
  /\ UNCHANGED <<env, pull, merge_status, known, list, did, stale>>

\* Mutant: only the new reviewer is written.
MutPutReviewers(c) ==
  /\ Does(c, "request", "put")
  /\ reviewers' = op[c].reviewers
  /\ stale' = (stale \/ list[c] # reviewers)
  /\ AnsweredOrLost(c, {"reviewers"}, "done")
  /\ UNCHANGED <<env, pr, labels, automerge, branches, merge_status, known, list>>

\* The whole list is written back with the new reviewer.
PutReviewers(c) ==
  /\ Does(c, "request", "put")
  /\ reviewers' = list[c] \cup op[c].reviewers
  /\ stale' = (stale \/ list[c] # reviewers)
  /\ AnsweredOrLost(c, {"reviewers"}, "done")
  /\ UNCHANGED <<env, pr, labels, automerge, branches, merge_status, known, list>>

RequestReview(c) ==
  \/ PostReviewer(c) \/ ReadReviewers(c) \/ RequestFails(c)
  \/ LookUpUser(c) \/ LookUpUserFails(c) \/ PutReviewers(c)

-----------------------------------------------------------------------------
Step(c) ==
  \/ Submit(c) \/ MergePull(c) \/ RequestReview(c)
  \/ PatchState(c) \/ PatchStateFails(c)

Next ==
  \/ MergeCheck \/ Push \/ ClosedByOthers
  \/ \E c \in Clients : Step(c) \/ PollFails(c)

Spec == Init /\ [][Next]_vars

\* Every request of gcli ends, which is the network's and the forge's fairness:
\* gcli sets no timeout.  GitLab's merge check is made.  Nothing makes a poll
\* fail: a client that polls may go on for ever.
FairSpec ==
  /\ Spec
  /\ WF_vars(MergeCheck)
  /\ \A c \in Clients : WF_vars(Step(c))

-----------------------------------------------------------------------------
Places == {"start", "parse", "labels", "reviewers", "poll", "automerge",
           "branch", "lookup", "put", "crashed", "done"}
Facts == {"create", "labels", "reviewers", "automerge", "ignored", "merge",
          "delete"}

TypeOK ==
  /\ forge \in {"github", "gitlab"} /\ head \in Repos /\ commits \in BOOLEAN
  /\ branches \in SUBSET Repos
  /\ pr \in {"none", "open", "merged", "closed"}
  /\ merge_status \in {"unchecked", "can_be_merged", "cannot_be_merged"}
  /\ labels \in BOOLEAN /\ reviewers \in SUBSET Users /\ automerge \in BOOLEAN
  /\ op \in Work
  /\ pc \in [Clients -> Places]
  /\ rc \in [Clients -> {-1, 0}]
  /\ known \in [Clients -> BOOLEAN]
  /\ list \in [Clients -> SUBSET Users]
  /\ did \in [Clients -> SUBSET Facts]
  /\ stale \in BOOLEAN

Succeeded(c, kind) == Does(c, kind, "done") /\ rc[c] = 0

\* Automerge was asked for, answered with success, and not set.
Ignored(c) == "ignored" \in did[c]

\* A submission that reports success has had every part of it done and
\* confirmed: the pull request, its labels, its reviewers and automerge; but
\* that its automerge was ignored goes unnoticed.
SubmitIsComplete ==
  \A c \in Clients :
    Succeeded(c, "submit") =>
      /\ "create" \in did[c]
      /\ op[c].labels => "labels" \in did[c]
      /\ op[c].reviewers # {} => "reviewers" \in did[c]
      /\ op[c].automerge => "automerge" \in did[c] \/ Ignored(c)

\* No branch is deleted unless the pull request is merged, whoever else
\* merges, closes or reopens it at the same time.
DeletesMergedOnly == [][branches' # branches => pr' = "merged"]_vars

\* A reviewer whose request was confirmed stays one, unless GitLab was sent a
\* list that was out of date: GitHub adds reviewers, and never removes one.
ReviewersStay ==
  forge = "github" \/ ~stale =>
    \A c \in Clients :
      op[c].kind # "merge" /\ "reviewers" \in did[c] =>
        op[c].reviewers \subseteq reviewers

\* A submission comes to an end if the pull request stays open, has commits
\* and no conflicts, and people stop pushing: the poll ends when GitLab has
\* checked it.  With conflicts it goes on until somebody resolves them.
SubmitEnds ==
  /\ <>[](pr = "open" /\ commits /\ merge_status # "cannot_be_merged")
  /\ <>[][~Push]_vars
  => \A c \in Clients : <>(op[c].kind = "submit" => pc[c] = "done")

\* "The source branch is deleted by default" (gcli-pulls.1.in:177): after a
\* merge that was to delete it and reports success it is gone.
SourceBranchDeleted ==
  \A c \in Clients :
    Succeeded(c, "merge") /\ op[c].delete => head \notin branches

=============================================================================
