------------------------- MODULE PullRequestsProofs -------------------------
(* Proofs about PullRequests for any number of runs of gcli, whatever each  *)
(* of them does to the pull request.                                        *)
EXTENDS PullRequests, TLAPS

-----------------------------------------------------------------------------
(* The inductive invariant. *)

\* Client c has sent its requests so far, and none of them has failed.
Unfailed(c) == pc[c] # "start" /\ rc[c] = 0

\* What a submission has had confirmed when it is at a place: all that comes
\* before it, or that automerge was ignored.  GitLab takes labels and reviewers
\* with the creation.
Confirms(c) ==
  op[c].kind = "submit" /\ Unfailed(c) =>
    /\ "create" \in did[c]
    /\ forge = "gitlab" => {"labels", "reviewers"} \subseteq did[c]
    /\ pc[c] \in {"reviewers", "automerge", "done"} /\ op[c].labels =>
         "labels" \in did[c]
    /\ pc[c] \in {"automerge", "done"} /\ op[c].reviewers # {} =>
         "reviewers" \in did[c]
    /\ pc[c] = "done" /\ op[c].automerge =>
         "automerge" \in did[c] \/ "ignored" \in did[c]

\* Only an operation that has ended has an error; GitLab alone looks users up
\* for a request for review and is polled by a submission; merging, closing and
\* reopening confirm no reviewers.
Shape(c) ==
  /\ rc[c] # 0 => pc[c] = "done"
  /\ op[c].kind \in {"merge", "patch"} => "reviewers" \notin did[c]
  /\ op[c].kind = "request" /\ pc[c] \in {"lookup", "put"} => forge = "gitlab"
  /\ op[c].kind = "submit" /\ pc[c] = "poll" => forge = "gitlab"
  /\ op[c].kind = "submit" => pc[c] # "crashed"

\* A client deletes the branch after its merge, which nothing takes back.
Merged(c) == Does(c, "merge", "branch") => pr = "merged"

\* Before the pull request is there, no request has been confirmed.
Unborn(c) == pr = "none" => did[c] = {} /\ pc[c] \in {"start", "done"}

IInv ==
  /\ TypeOK
  /\ \A c \in Clients : Confirms(c) /\ Shape(c) /\ Merged(c) /\ Unborn(c)
  /\ ReviewersStay

-----------------------------------------------------------------------------
\* Which fields the operation of a client has depends on its kind.
LEMMA Fields ==
  ASSUME TypeOK, NEW c \in Clients
  PROVE  /\ op[c].kind \in {"submit", "merge", "request", "patch"}
         /\ op[c].kind = "submit" =>
              /\ op[c].labels \in BOOLEAN /\ op[c].automerge \in BOOLEAN
              /\ op[c].reviewers \in SUBSET Users
         /\ op[c].kind = "merge" => op[c].delete \in BOOLEAN
         /\ op[c].kind = "request" => op[c].reviewers \in SUBSET Users
         /\ op[c].kind = "patch" => op[c].state \in {"open", "closed"}
<1>1. op[c] \in Ops
  BY WorkAssumption DEF TypeOK
<1>2. CASE op[c] \in Submits
  BY <1>2 DEF Submits
<1>3. CASE op[c] \in Merges
  BY <1>3 DEF Merges
<1>4. CASE op[c] \in Requests
  BY <1>4 DEF Requests
<1>5. CASE op[c] \in Patches
  BY <1>5 DEF Patches
<1>6. QED
  BY <1>1, <1>2, <1>3, <1>4, <1>5 DEF Ops

\* The start of all clients.
LEMMA InitInv == Init => IInv
<1> SUFFICES ASSUME Init PROVE IInv
  OBVIOUS
<1>1. TypeOK
  BY DEF Init, TypeOK, Repos, Places, Facts
<1>2. ASSUME NEW c \in Clients
      PROVE  Confirms(c) /\ Shape(c) /\ Merged(c) /\ Unborn(c)
  BY <1>2 DEF Init, Confirms, Unfailed, Shape, Merged, Unborn, Does
<1>3. ReviewersStay
  BY DEF Init, ReviewersStay
<1>4. QED
  BY <1>1, <1>2, <1>3 DEF IInv

-----------------------------------------------------------------------------
(* What a step of one client leaves alone. *)

Moves(c) ==
  /\ UNCHANGED env
  /\ \A d \in Clients \ {c} :
       pc'[d] = pc[d] /\ rc'[d] = rc[d] /\ did'[d] = did[d]
  /\ pr = "merged" => pr' = "merged"
  /\ pr' = "none" => pr = "none"

\* The invariant of a client survives the steps of the others.
LEMMA Others ==
  ASSUME IInv, NEW c \in Clients, Moves(c), NEW d \in Clients \ {c}
  PROVE  Confirms(d)' /\ Shape(d)' /\ Merged(d)' /\ Unborn(d)'
BY DEF IInv, Moves, env, Confirms, Unfailed, Shape, Merged, Unborn, Does

\* Reviewers stay while they are only added to and every confirmation that is
\* new is true.
LEMMA MoreReviewers ==
  ASSUME IInv, UNCHANGED env, stale => stale',
         forge = "github" \/ ~stale' => reviewers \subseteq reviewers',
         \A d \in Clients : "reviewers" \in did'[d] /\ op[d].kind # "merge" =>
           "reviewers" \in did[d] \/ op[d].reviewers \subseteq reviewers'
  PROVE  ReviewersStay'
BY DEF IInv, ReviewersStay, env

\* A request that fails changes nothing but the return code.
LEMMA FailsInv == ASSUME IInv, NEW c \in Clients, Fails(c) PROVE IInv'
<1> USE DEF Fails, Return, GoTo, pull, env
<1>1. TypeOK'
  BY DEF IInv, TypeOK, Places
<1>2. Moves(c)
  BY DEF Moves, IInv, TypeOK
<1>3. Confirms(c)' /\ Shape(c)' /\ Merged(c)' /\ Unborn(c)'
  BY DEF IInv, TypeOK, Confirms, Unfailed, Shape, Merged, Unborn, Does
<1>4. ReviewersStay'
  BY DEF IInv, ReviewersStay
<1>5. QED
  BY <1>1, <1>2, <1>3, <1>4, Others DEF IInv

\* What an answer, or its loss, does to the functions of the client.
LEMMA AnsweredOrLostShape ==
  ASSUME TypeOK, NEW c \in Clients, NEW what \in SUBSET Facts, NEW next \in Places,
         AnsweredOrLost(c, what, next)
  PROVE  /\ pc' \in [Clients -> Places] /\ rc' \in [Clients -> {-1, 0}]
         /\ did' \in [Clients -> SUBSET Facts]
         /\ \A d \in Clients \ {c} :
              pc'[d] = pc[d] /\ rc'[d] = rc[d] /\ did'[d] = did[d]
         /\ \/ pc'[c] = next /\ rc'[c] = rc[c] /\ did'[c] = did[c] \cup what
            \/ pc'[c] = "done" /\ rc'[c] = -1 /\ did'[c] = did[c]
<1>1. CASE Answered(c, what, next)
  BY <1>1 DEF Answered, Confirmed, GoTo, TypeOK
<1>2. CASE Lost(c)
  BY <1>2 DEF Lost, Return, GoTo, TypeOK, Places
<1>3. QED
  BY <1>1, <1>2 DEF AnsweredOrLost

-----------------------------------------------------------------------------
(* The steps of a submission. *)

LEMMA CreateInv == ASSUME IInv, NEW c \in Clients, Create(c) PROVE IInv'
<1> DEFINE what == IF forge = "gitlab" THEN {"create", "labels", "reviewers"}
                                      ELSE {"create"}
           next == IF forge = "gitlab"
                     THEN IF op[c].automerge THEN "parse" ELSE "done"
                     ELSE IF FirstFollowUp(c) = "done" THEN "done" ELSE "parse"
<1> USE DEF env
<1>1. AnsweredOrLost(c, what, next)
  BY DEF Create
<1>2. /\ Does(c, "submit", "start") /\ pr = "none" /\ pr' = "open"
      /\ UNCHANGED <<env, automerge, branches, merge_status, known, list, stale>>
      /\ IF forge = "gitlab"
           THEN labels' = op[c].labels /\ reviewers' = op[c].reviewers
           ELSE UNCHANGED <<labels, reviewers>>
  BY DEF Create
<1>3. what \in SUBSET Facts /\ next \in Places
  BY DEF Facts, Places
<1> HIDE DEF what, next
<1>4. /\ pc' \in [Clients -> Places] /\ rc' \in [Clients -> {-1, 0}]
      /\ did' \in [Clients -> SUBSET Facts]
      /\ \A d \in Clients \ {c} :
           pc'[d] = pc[d] /\ rc'[d] = rc[d] /\ did'[d] = did[d]
      /\ \/ pc'[c] = next /\ rc'[c] = rc[c] /\ did'[c] = did[c] \cup what
         \/ pc'[c] = "done" /\ rc'[c] = -1 /\ did'[c] = did[c]
  BY <1>1, <1>3, AnsweredOrLostShape DEF IInv
<1>5. TypeOK'
  BY <1>2, <1>4, Fields DEF IInv, TypeOK, Does
<1>6. Moves(c)
  BY <1>2, <1>4 DEF Moves
<1>7. Confirms(c)' /\ Shape(c)' /\ Merged(c)' /\ Unborn(c)'
  BY <1>2, <1>4, Fields
  DEF IInv, Confirms, Unfailed, Shape, Merged, Unborn, Does, what, next,
      FirstFollowUp, AfterLabels
<1>8. ReviewersStay'
  <2>1. SUFFICES ASSUME NEW d \in Clients, op[d].kind # "merge",
                        "reviewers" \in did'[d]
                 PROVE  op[d].reviewers \subseteq reviewers'
    BY <1>2 DEF ReviewersStay
  <2>2. did[d] = {}
    BY <1>2 DEF IInv, Unborn
  <2>3. d = c /\ did'[c] = did[c] \cup what
    BY <1>4, <2>1, <2>2
  <2>4. forge = "gitlab"
    BY <2>1, <2>2, <2>3 DEF what
  <2>5. QED
    BY <1>2, <2>3, <2>4
<1>9. QED
  BY <1>5, <1>6, <1>7, <1>8, Others DEF IInv

\* Parsing the answer, and waiting for the merge check, confirm nothing.
LEMMA ParseInv ==
  ASSUME IInv, NEW c \in Clients,
         ParseCreated(c) \/ ParseCreatedFails(c) \/ PollMergeable(c)
  PROVE  IInv'
<1> USE DEF env, pull, GoTo, Return
<1>1. TypeOK'
  <2>1. FirstFollowUp(c) \in Places
    BY DEF FirstFollowUp, AfterLabels, Places
  <2>2. {"poll", "automerge", "done"} \subseteq Places
    BY DEF Places
  <2>3. CASE ParseCreated(c)
    BY <2>1, <2>2, <2>3 DEF IInv, TypeOK, ParseCreated
  <2>4. CASE ParseCreatedFails(c)
    BY <2>1, <2>2, <2>4 DEF IInv, TypeOK, ParseCreatedFails
  <2>5. CASE PollMergeable(c)
    BY <2>2, <2>5 DEF IInv, TypeOK, PollMergeable
  <2>6. QED
    BY <2>3, <2>4, <2>5
<1>2. Moves(c)
  BY DEF Moves, IInv, TypeOK, ParseCreated, ParseCreatedFails, PollMergeable
<1>3. Confirms(c)'
  BY Fields
  DEF IInv, TypeOK, Confirms, Unfailed, Shape, Does, ParseCreated,
      ParseCreatedFails, PollMergeable, FirstFollowUp, AfterLabels
<1>4. Shape(c)' /\ Merged(c)' /\ Unborn(c)'
  BY Fields
  DEF IInv, TypeOK, Shape, Merged, Unborn, Does, ParseCreated,
      ParseCreatedFails, PollMergeable, FirstFollowUp, AfterLabels
<1>5. ReviewersStay'
  BY DEF IInv, ReviewersStay, ParseCreated, ParseCreatedFails, PollMergeable
<1>6. QED
  BY <1>1, <1>2, <1>3, <1>4, <1>5, Others DEF IInv

\* GitHub gets the labels in a request of their own,
LEMMA AddLabelsInv == ASSUME IInv, NEW c \in Clients, AddLabels(c) PROVE IInv'
<1> DEFINE what == {"labels"}
           next == AfterLabels(c)
<1> USE DEF env
<1>1. AnsweredOrLost(c, what, next)
  BY DEF AddLabels
<1>2. /\ Does(c, "submit", "labels") /\ labels' = TRUE
      /\ UNCHANGED <<env, pr, reviewers, automerge, branches, merge_status, known,
                     list, stale>>
  BY DEF AddLabels
<1>3. what \in SUBSET Facts /\ next \in Places
  BY DEF Facts, Places, AfterLabels
<1> HIDE DEF what, next
<1>4. /\ pc' \in [Clients -> Places] /\ rc' \in [Clients -> {-1, 0}]
      /\ did' \in [Clients -> SUBSET Facts]
      /\ \A d \in Clients \ {c} :
           pc'[d] = pc[d] /\ rc'[d] = rc[d] /\ did'[d] = did[d]
      /\ \/ pc'[c] = next /\ rc'[c] = rc[c] /\ did'[c] = did[c] \cup what
         \/ pc'[c] = "done" /\ rc'[c] = -1 /\ did'[c] = did[c]
  BY <1>1, <1>3, AnsweredOrLostShape DEF IInv
<1>5. TypeOK'
  BY <1>2, <1>4, Fields DEF IInv, TypeOK, Does
<1>6. Moves(c)
  BY <1>2, <1>4 DEF Moves
<1>7. Confirms(c)' /\ Shape(c)' /\ Merged(c)' /\ Unborn(c)'
  BY <1>2, <1>4, Fields
  DEF IInv, Confirms, Unfailed, Shape, Merged, Unborn, Does, what, next, AfterLabels
<1>8. ReviewersStay'
  <2>1. \A d \in Clients : "reviewers" \in did'[d] /\ op[d].kind # "merge" =>
          "reviewers" \in did[d] \/ op[d].reviewers \subseteq reviewers'
    BY <1>2, <1>4 DEF Does, what
  <2>2. forge = "github" \/ ~stale' => reviewers \subseteq reviewers'
    BY <1>2 DEF IInv, Shape, Does
  <2>3. QED
    BY <1>2, <2>1, <2>2, MoreReviewers
<1>9. QED
  BY <1>5, <1>6, <1>7, <1>8, Others DEF IInv

\* the reviewers in another one,
LEMMA AddReviewersInv == ASSUME IInv, NEW c \in Clients, AddReviewers(c) PROVE IInv'
<1> DEFINE what == {"reviewers"}
           next == AfterReviewers(c)
<1> USE DEF env
<1>1. AnsweredOrLost(c, what, next)
  BY DEF AddReviewers
<1>2. /\ Does(c, "submit", "reviewers")
      /\ reviewers' = reviewers \cup op[c].reviewers
      /\ UNCHANGED <<env, pr, labels, automerge, branches, merge_status, known,
                     list, stale>>
  BY DEF AddReviewers
<1>3. what \in SUBSET Facts /\ next \in Places
  BY DEF Facts, Places, AfterReviewers
<1> HIDE DEF what, next
<1>4. /\ pc' \in [Clients -> Places] /\ rc' \in [Clients -> {-1, 0}]
      /\ did' \in [Clients -> SUBSET Facts]
      /\ \A d \in Clients \ {c} :
           pc'[d] = pc[d] /\ rc'[d] = rc[d] /\ did'[d] = did[d]
      /\ \/ pc'[c] = next /\ rc'[c] = rc[c] /\ did'[c] = did[c] \cup what
         \/ pc'[c] = "done" /\ rc'[c] = -1 /\ did'[c] = did[c]
  BY <1>1, <1>3, AnsweredOrLostShape DEF IInv
<1>5. TypeOK'
  BY <1>2, <1>4, Fields DEF IInv, TypeOK, Does
<1>6. Moves(c)
  BY <1>2, <1>4 DEF Moves
<1>7. Confirms(c)' /\ Shape(c)' /\ Merged(c)' /\ Unborn(c)'
  BY <1>2, <1>4, Fields
  DEF IInv, Confirms, Unfailed, Shape, Merged, Unborn, Does, what, next, AfterReviewers
<1>8. ReviewersStay'
  <2>1. \A d \in Clients : "reviewers" \in did'[d] /\ op[d].kind # "merge" =>
          "reviewers" \in did[d] \/ op[d].reviewers \subseteq reviewers'
    BY <1>2, <1>4 DEF Does, what
  <2>2. forge = "github" \/ ~stale' => reviewers \subseteq reviewers'
    BY <1>2 DEF IInv, Shape, Does
  <2>3. QED
    BY <1>2, <2>1, <2>2, MoreReviewers
<1>9. QED
  BY <1>5, <1>6, <1>7, <1>8, Others DEF IInv

\* and automerge in the last.
LEMMA SetAutomergeInv == ASSUME IInv, NEW c \in Clients, SetAutomerge(c) PROVE IInv'
<1> DEFINE what == {"automerge"}
           next == "done"
<1> USE DEF env
<1>1. AnsweredOrLost(c, what, next)
  BY DEF SetAutomerge
<1>2. /\ Does(c, "submit", "automerge")
      /\ automerge' = TRUE
      /\ UNCHANGED <<env, pr, labels, reviewers, branches, merge_status, known,
                     list, stale>>
  BY DEF SetAutomerge
<1>3. what \in SUBSET Facts /\ next \in Places
  BY DEF Facts, Places
<1> HIDE DEF what, next
<1>4. /\ pc' \in [Clients -> Places] /\ rc' \in [Clients -> {-1, 0}]
      /\ did' \in [Clients -> SUBSET Facts]
      /\ \A d \in Clients \ {c} :
           pc'[d] = pc[d] /\ rc'[d] = rc[d] /\ did'[d] = did[d]
      /\ \/ pc'[c] = next /\ rc'[c] = rc[c] /\ did'[c] = did[c] \cup what
         \/ pc'[c] = "done" /\ rc'[c] = -1 /\ did'[c] = did[c]
  BY <1>1, <1>3, AnsweredOrLostShape DEF IInv
<1>5. TypeOK'
  BY <1>2, <1>4, Fields DEF IInv, TypeOK, Does
<1>6. Moves(c)
  BY <1>2, <1>4 DEF Moves
<1>7. Confirms(c)' /\ Shape(c)' /\ Merged(c)' /\ Unborn(c)'
  BY <1>2, <1>4, Fields
  DEF IInv, Confirms, Unfailed, Shape, Merged, Unborn, Does, what, next
<1>8. ReviewersStay'
  <2>1. \A d \in Clients : "reviewers" \in did'[d] /\ op[d].kind # "merge" =>
          "reviewers" \in did[d] \/ op[d].reviewers \subseteq reviewers'
    BY <1>2, <1>4 DEF Does, what
  <2>2. forge = "github" \/ ~stale' => reviewers \subseteq reviewers'
    BY <1>2 DEF IInv, Shape, Does
  <2>3. QED
    BY <1>2, <2>1, <2>2, MoreReviewers
<1>9. QED
  BY <1>5, <1>6, <1>7, <1>8, Others DEF IInv

\* An automerge that is ignored is answered all the same.
LEMMA AutomergeIgnoredInv == ASSUME IInv, NEW c \in Clients, AutomergeIgnored(c) PROVE IInv'
<1> DEFINE what == {"ignored"}
           next == "done"
<1> USE DEF env
<1>1. AnsweredOrLost(c, what, next)
  BY DEF AutomergeIgnored
<1>2. /\ Does(c, "submit", "automerge")
      /\ UNCHANGED <<env, pr, labels, reviewers, automerge, branches, merge_status,
                     known, list, stale>>
  BY DEF AutomergeIgnored, pull
<1>3. what \in SUBSET Facts /\ next \in Places
  BY DEF Facts, Places
<1> HIDE DEF what, next
<1>4. /\ pc' \in [Clients -> Places] /\ rc' \in [Clients -> {-1, 0}]
      /\ did' \in [Clients -> SUBSET Facts]
      /\ \A d \in Clients \ {c} :
           pc'[d] = pc[d] /\ rc'[d] = rc[d] /\ did'[d] = did[d]
      /\ \/ pc'[c] = next /\ rc'[c] = rc[c] /\ did'[c] = did[c] \cup what
         \/ pc'[c] = "done" /\ rc'[c] = -1 /\ did'[c] = did[c]
  BY <1>1, <1>3, AnsweredOrLostShape DEF IInv
<1>5. TypeOK'
  BY <1>2, <1>4, Fields DEF IInv, TypeOK, Does
<1>6. Moves(c)
  BY <1>2, <1>4 DEF Moves
<1>7. Confirms(c)' /\ Shape(c)' /\ Merged(c)' /\ Unborn(c)'
  BY <1>2, <1>4, Fields
  DEF IInv, Confirms, Unfailed, Shape, Merged, Unborn, Does, what, next
<1>8. ReviewersStay'
  <2>1. \A d \in Clients : "reviewers" \in did'[d] /\ op[d].kind # "merge" =>
          "reviewers" \in did[d] \/ op[d].reviewers \subseteq reviewers'
    BY <1>2, <1>4 DEF Does, what
  <2>2. forge = "github" \/ ~stale' => reviewers \subseteq reviewers'
    BY <1>2 DEF IInv, Shape, Does
  <2>3. QED
    BY <1>2, <2>1, <2>2, MoreReviewers
<1>9. QED
  BY <1>5, <1>6, <1>7, <1>8, Others DEF IInv

-----------------------------------------------------------------------------
(* Merging, closing and requests for review. *)

\* Only a merge leads to the deletion of the branch.
LEMMA MergeInv == ASSUME IInv, NEW c \in Clients, Merge(c) PROVE IInv'
<1> DEFINE what == {"merge"}
           next == IF forge = "github" /\ op[c].delete THEN "branch" ELSE "done"
<1> USE DEF env
<1>1. AnsweredOrLost(c, what, next)
  BY DEF Merge
<1>2. /\ Does(c, "merge", "start") /\ pr = "open" /\ pr' = "merged"
      /\ branches' \in {branches, branches \ {head}}
      /\ UNCHANGED <<env, labels, reviewers, automerge, merge_status, known, list,
                     stale>>
  BY DEF Merge
<1>3. what \in SUBSET Facts /\ next \in Places
  BY DEF Facts, Places
<1> HIDE DEF what, next
<1>4. /\ pc' \in [Clients -> Places] /\ rc' \in [Clients -> {-1, 0}]
      /\ did' \in [Clients -> SUBSET Facts]
      /\ \A d \in Clients \ {c} :
           pc'[d] = pc[d] /\ rc'[d] = rc[d] /\ did'[d] = did[d]
      /\ \/ pc'[c] = next /\ rc'[c] = rc[c] /\ did'[c] = did[c] \cup what
         \/ pc'[c] = "done" /\ rc'[c] = -1 /\ did'[c] = did[c]
  BY <1>1, <1>3, AnsweredOrLostShape DEF IInv
<1>5. TypeOK'
  BY <1>2, <1>4, Fields DEF IInv, TypeOK, Does
<1>6. Moves(c)
  BY <1>2, <1>4 DEF Moves
<1>7. Confirms(c)' /\ Shape(c)' /\ Merged(c)' /\ Unborn(c)'
  BY <1>2, <1>4, Fields
  DEF IInv, Confirms, Unfailed, Shape, Merged, Unborn, Does, what, next
<1>8. ReviewersStay'
  <2>1. \A d \in Clients : "reviewers" \in did'[d] /\ op[d].kind # "merge" =>
          "reviewers" \in did[d] \/ op[d].reviewers \subseteq reviewers'
    BY <1>2, <1>4 DEF Does, what
  <2>2. forge = "github" \/ ~stale' => reviewers \subseteq reviewers'
    BY <1>2 DEF IInv, Shape, Does
  <2>3. QED
    BY <1>2, <2>1, <2>2, MoreReviewers
<1>9. QED
  BY <1>5, <1>6, <1>7, <1>8, Others DEF IInv

\* The branch is deleted, nothing else changes.
LEMMA DeleteHeadBranchInv == ASSUME IInv, NEW c \in Clients, DeleteHeadBranch(c) PROVE IInv'
<1> DEFINE what == {"delete"}
           next == "done"
<1> USE DEF env
<1>1. AnsweredOrLost(c, what, next)
  BY DEF DeleteHeadBranch
<1>2. /\ Does(c, "merge", "branch") /\ branches' = branches \ {"target"}
      /\ UNCHANGED <<env, pr, labels, reviewers, automerge, merge_status, known,
                     list, stale>>
  BY DEF DeleteHeadBranch
<1>3. what \in SUBSET Facts /\ next \in Places
  BY DEF Facts, Places
<1> HIDE DEF what, next
<1>4. /\ pc' \in [Clients -> Places] /\ rc' \in [Clients -> {-1, 0}]
      /\ did' \in [Clients -> SUBSET Facts]
      /\ \A d \in Clients \ {c} :
           pc'[d] = pc[d] /\ rc'[d] = rc[d] /\ did'[d] = did[d]
      /\ \/ pc'[c] = next /\ rc'[c] = rc[c] /\ did'[c] = did[c] \cup what
         \/ pc'[c] = "done" /\ rc'[c] = -1 /\ did'[c] = did[c]
  BY <1>1, <1>3, AnsweredOrLostShape DEF IInv
<1>5. TypeOK'
  BY <1>2, <1>4, Fields DEF IInv, TypeOK, Does
<1>6. Moves(c)
  BY <1>2, <1>4 DEF Moves
<1>7. Confirms(c)' /\ Shape(c)' /\ Merged(c)' /\ Unborn(c)'
  BY <1>2, <1>4, Fields
  DEF IInv, Confirms, Unfailed, Shape, Merged, Unborn, Does, what, next
<1>8. ReviewersStay'
  <2>1. \A d \in Clients : "reviewers" \in did'[d] /\ op[d].kind # "merge" =>
          "reviewers" \in did[d] \/ op[d].reviewers \subseteq reviewers'
    BY <1>2, <1>4 DEF Does, what
  <2>2. forge = "github" \/ ~stale' => reviewers \subseteq reviewers'
    BY <1>2 DEF IInv, Shape, Does
  <2>3. QED
    BY <1>2, <2>1, <2>2, MoreReviewers
<1>9. QED
  BY <1>5, <1>6, <1>7, <1>8, Others DEF IInv

\* A merged pull request is neither closed nor reopened.
LEMMA PatchStateInv == ASSUME IInv, NEW c \in Clients, PatchState(c) PROVE IInv'
<1> DEFINE what == {}
           next == "done"
<1> USE DEF env
<1>1. AnsweredOrLost(c, what, next)
  BY DEF PatchState
<1>2. /\ Does(c, "patch", "start") /\ pr \in {"open", "closed"}
      /\ pr' = op[c].state /\ pr' \in {"open", "closed"}
      /\ UNCHANGED <<env, labels, reviewers, automerge, branches, merge_status,
                     known, list, stale>>
  BY Fields DEF IInv, PatchState, Does
<1>3. what \in SUBSET Facts /\ next \in Places
  BY DEF Facts, Places
<1> HIDE DEF what, next
<1>4. /\ pc' \in [Clients -> Places] /\ rc' \in [Clients -> {-1, 0}]
      /\ did' \in [Clients -> SUBSET Facts]
      /\ \A d \in Clients \ {c} :
           pc'[d] = pc[d] /\ rc'[d] = rc[d] /\ did'[d] = did[d]
      /\ \/ pc'[c] = next /\ rc'[c] = rc[c] /\ did'[c] = did[c] \cup what
         \/ pc'[c] = "done" /\ rc'[c] = -1 /\ did'[c] = did[c]
  BY <1>1, <1>3, AnsweredOrLostShape DEF IInv
<1>5. TypeOK'
  BY <1>2, <1>4, Fields DEF IInv, TypeOK, Does
<1>6. Moves(c)
  BY <1>2, <1>4 DEF Moves
<1>7. Confirms(c)' /\ Shape(c)' /\ Merged(c)' /\ Unborn(c)'
  BY <1>2, <1>4, Fields
  DEF IInv, Confirms, Unfailed, Shape, Merged, Unborn, Does, what, next
<1>8. ReviewersStay'
  <2>1. \A d \in Clients : "reviewers" \in did'[d] /\ op[d].kind # "merge" =>
          "reviewers" \in did[d] \/ op[d].reviewers \subseteq reviewers'
    BY <1>2, <1>4 DEF Does, what
  <2>2. forge = "github" \/ ~stale' => reviewers \subseteq reviewers'
    BY <1>2 DEF IInv, Shape, Does
  <2>3. QED
    BY <1>2, <2>1, <2>2, MoreReviewers
<1>9. QED
  BY <1>5, <1>6, <1>7, <1>8, Others DEF IInv

\* GitHub is sent the new reviewer only,
LEMMA PostReviewerInv == ASSUME IInv, NEW c \in Clients, PostReviewer(c) PROVE IInv'
<1> DEFINE what == {"reviewers"}
           next == "done"
<1> USE DEF env
<1>1. AnsweredOrLost(c, what, next)
  BY DEF PostReviewer
<1>2. /\ Does(c, "request", "start") /\ pr # "none"
      /\ reviewers' = reviewers \cup op[c].reviewers
      /\ UNCHANGED <<env, pr, labels, automerge, branches, merge_status, known,
                     list, stale>>
  BY DEF PostReviewer
<1>3. what \in SUBSET Facts /\ next \in Places
  BY DEF Facts, Places
<1> HIDE DEF what, next
<1>4. /\ pc' \in [Clients -> Places] /\ rc' \in [Clients -> {-1, 0}]
      /\ did' \in [Clients -> SUBSET Facts]
      /\ \A d \in Clients \ {c} :
           pc'[d] = pc[d] /\ rc'[d] = rc[d] /\ did'[d] = did[d]
      /\ \/ pc'[c] = next /\ rc'[c] = rc[c] /\ did'[c] = did[c] \cup what
         \/ pc'[c] = "done" /\ rc'[c] = -1 /\ did'[c] = did[c]
  BY <1>1, <1>3, AnsweredOrLostShape DEF IInv
<1>5. TypeOK'
  BY <1>2, <1>4, Fields DEF IInv, TypeOK, Does
<1>6. Moves(c)
  BY <1>2, <1>4 DEF Moves
<1>7. Confirms(c)' /\ Shape(c)' /\ Merged(c)' /\ Unborn(c)'
  BY <1>2, <1>4, Fields
  DEF IInv, Confirms, Unfailed, Shape, Merged, Unborn, Does, what, next
<1>8. ReviewersStay'
  <2>1. \A d \in Clients : "reviewers" \in did'[d] /\ op[d].kind # "merge" =>
          "reviewers" \in did[d] \/ op[d].reviewers \subseteq reviewers'
    BY <1>2, <1>4 DEF Does, what
  <2>2. forge = "github" \/ ~stale' => reviewers \subseteq reviewers'
    BY <1>2 DEF IInv, Shape, Does
  <2>3. QED
    BY <1>2, <2>1, <2>2, MoreReviewers
<1>9. QED
  BY <1>5, <1>6, <1>7, <1>8, Others DEF IInv

\* GitLab the whole list: it replaces the reviewers there are.
LEMMA PutReviewersInv == ASSUME IInv, NEW c \in Clients, PutReviewers(c) PROVE IInv'
<1> DEFINE what == {"reviewers"}
           next == "done"
<1> USE DEF env
<1>1. AnsweredOrLost(c, what, next)
  BY DEF PutReviewers
<1>2. /\ Does(c, "request", "put")
      /\ reviewers' = list[c] \cup op[c].reviewers
      /\ stale' = (stale \/ list[c] # reviewers)
      /\ UNCHANGED <<env, pr, labels, automerge, branches, merge_status, known,
                     list>>
  BY DEF PutReviewers
<1>3. what \in SUBSET Facts /\ next \in Places
  BY DEF Facts, Places
<1> HIDE DEF what, next
<1>4. /\ pc' \in [Clients -> Places] /\ rc' \in [Clients -> {-1, 0}]
      /\ did' \in [Clients -> SUBSET Facts]
      /\ \A d \in Clients \ {c} :
           pc'[d] = pc[d] /\ rc'[d] = rc[d] /\ did'[d] = did[d]
      /\ \/ pc'[c] = next /\ rc'[c] = rc[c] /\ did'[c] = did[c] \cup what
         \/ pc'[c] = "done" /\ rc'[c] = -1 /\ did'[c] = did[c]
  BY <1>1, <1>3, AnsweredOrLostShape DEF IInv
<1>5. TypeOK'
  BY <1>2, <1>4, Fields DEF IInv, TypeOK, Does
<1>6. Moves(c)
  BY <1>2, <1>4 DEF Moves
<1>7. Confirms(c)' /\ Shape(c)' /\ Merged(c)' /\ Unborn(c)'
  BY <1>2, <1>4, Fields
  DEF IInv, Confirms, Unfailed, Shape, Merged, Unborn, Does, what, next
<1>8. ReviewersStay'
  <2>1. \A d \in Clients : "reviewers" \in did'[d] /\ op[d].kind # "merge" =>
          "reviewers" \in did[d] \/ op[d].reviewers \subseteq reviewers'
    BY <1>2, <1>4 DEF Does, what
  <2>2. forge = "github" \/ ~stale' => reviewers \subseteq reviewers'
    BY <1>2 DEF IInv, Shape, Does
  <2>3. QED
    BY <1>2, <2>1, <2>2, MoreReviewers
<1>9. QED
  BY <1>5, <1>6, <1>7, <1>8, Others DEF IInv

\* gcli may crash between the merge and the deletion of the branch.
LEMMA CrashInv ==
  ASSUME IInv, NEW c \in Clients, DeleteHeadBranchCrashes(c) PROVE IInv'
<1> USE DEF env, pull, GoTo, DeleteHeadBranchCrashes
<1>1. TypeOK'
  BY DEF IInv, TypeOK, Places
<1>2. Moves(c)
  BY DEF Moves, IInv, TypeOK
<1>3. Confirms(c)' /\ Shape(c)' /\ Merged(c)' /\ Unborn(c)'
  BY DEF IInv, TypeOK, Confirms, Unfailed, Shape, Merged, Unborn, Does
<1>4. ReviewersStay'
  BY DEF IInv, ReviewersStay
<1>5. QED
  BY <1>1, <1>2, <1>3, <1>4, Others DEF IInv

\* Reading the list, and looking up the user, change nothing on the forge.
LEMMA ReadReviewersInv ==
  ASSUME IInv, NEW c \in Clients,
         ReadReviewers(c) \/ LookUpUser(c) \/ LookUpUserFails(c)
  PROVE  IInv'
<1> USE DEF env, pull, GoTo, Return
<1>1. TypeOK'
  BY DEF IInv, TypeOK, Places, ReadReviewers, LookUpUser, LookUpUserFails
<1>2. Moves(c)
  BY DEF Moves, IInv, TypeOK, ReadReviewers, LookUpUser, LookUpUserFails
<1>3. Confirms(c)' /\ Shape(c)' /\ Merged(c)' /\ Unborn(c)'
  BY DEF IInv, TypeOK, Confirms, Unfailed, Shape, Merged, Unborn, Does,
         ReadReviewers, LookUpUser, LookUpUserFails
<1>4. ReviewersStay'
  BY DEF IInv, ReviewersStay, ReadReviewers, LookUpUser, LookUpUserFails
<1>5. QED
  BY <1>1, <1>2, <1>3, <1>4, Others DEF IInv

-----------------------------------------------------------------------------
(* The world outside gcli changes no client. *)

LEMMA WorldInv == ASSUME IInv, MergeCheck \/ Push \/ ClosedByOthers PROVE IInv'
<1> USE DEF env, pull, MergeCheck, Push, ClosedByOthers
<1>1. TypeOK'
  BY DEF IInv, TypeOK
<1>2. ASSUME NEW c \in Clients
      PROVE  Confirms(c)' /\ Shape(c)' /\ Merged(c)' /\ Unborn(c)'
  BY DEF IInv, Confirms, Unfailed, Shape, Merged, Unborn, Does
<1>3. ReviewersStay'
  BY DEF IInv, ReviewersStay
<1>4. QED
  BY <1>1, <1>2, <1>3 DEF IInv

\* Every step, of whoever it is, keeps the invariant.
LEMMA NextInv == IInv /\ [Next]_vars => IInv'
<1> SUFFICES ASSUME IInv, [Next]_vars PROVE IInv'
  OBVIOUS
<1>1. CASE MergeCheck \/ Push \/ ClosedByOthers
  BY <1>1, WorldInv
<1>2. ASSUME NEW c \in Clients, Submit(c) PROVE IInv'
  BY <1>2, CreateInv, ParseInv, AddLabelsInv, AddReviewersInv, SetAutomergeInv,
     AutomergeIgnoredInv, FailsInv
  DEF Submit, CreateFails, FollowUpFails
<1>3. ASSUME NEW c \in Clients, MergePull(c) PROVE IInv'
  BY <1>3, MergeInv, DeleteHeadBranchInv, CrashInv, FailsInv
  DEF MergePull, MergeFails, DeleteHeadBranchFails
<1>4. ASSUME NEW c \in Clients, RequestReview(c) PROVE IInv'
  BY <1>4, PostReviewerInv, ReadReviewersInv, PutReviewersInv, FailsInv
  DEF RequestReview, RequestFails
<1>5. ASSUME NEW c \in Clients, PatchState(c) \/ PatchStateFails(c) \/ PollFails(c)
      PROVE  IInv'
  BY <1>5, PatchStateInv, FailsInv DEF PatchStateFails, PollFails
<1>6. CASE UNCHANGED vars
  <2> USE <1>6 DEF vars, env, pull
  <2>1. TypeOK'
    BY DEF IInv, TypeOK
  <2>2. ASSUME NEW c \in Clients
        PROVE  Confirms(c)' /\ Shape(c)' /\ Merged(c)' /\ Unborn(c)'
    BY DEF IInv, Confirms, Unfailed, Shape, Merged, Unborn, Does
  <2>3. ReviewersStay'
    BY DEF IInv, ReviewersStay
  <2>4. QED
    BY <2>1, <2>2, <2>3 DEF IInv
<1>7. QED
  BY <1>1, <1>2, <1>3, <1>4, <1>5, <1>6 DEF Next, Step

LEMMA Inductive == Spec => []IInv
BY InitInv, NextInv, PTL DEF Spec

-----------------------------------------------------------------------------
\* The types of gcli's and the forge's state, for any number of clients.
THEOREM TypeCorrect == Spec => []TypeOK
<1>1. IInv => TypeOK
  BY DEF IInv
<1>2. QED
  BY <1>1, Inductive, PTL

\* A submission that reports success has had its pull request, its labels, its
\* reviewers and automerge done and confirmed (github_perform_submit_pull,
\* gitlab_perform_submit_mr), whatever others do in between; an automerge that
\* the forge answered and ignored is the only thing that goes unnoticed.
THEOREM SubmissionComplete == Spec => []SubmitIsComplete
<1>1. IInv => SubmitIsComplete
  BY DEF IInv, SubmitIsComplete, Ignored, Confirms, Unfailed, Succeeded, Does
<1>2. QED
  BY <1>1, Inductive, PTL

\* A confirmed reviewer is lost only through a list GitLab was sent out of
\* date (gitlab_mr_add_reviewer); on GitHub never.
THEOREM ReviewersKept == Spec => []ReviewersStay
<1>1. IInv => ReviewersStay
  BY DEF IInv
<1>2. QED
  BY <1>1, Inductive, PTL

\* No branch is deleted unless the pull request is merged, however the steps
\* of those who merge, close and reopen it are interleaved: gcli's second
\* request (github_pull_delete_head_branch) finds it merged.
THEOREM OnlyMergedDeleted == Spec => DeletesMergedOnly
<1>1. IInv /\ [Next]_vars => [branches' # branches => pr' = "merged"]_vars
  <2> SUFFICES ASSUME IInv, Next, branches' # branches PROVE pr' = "merged"
    BY DEF vars, pull
  <2>1. PICK c \in Clients : Step(c) \/ PollFails(c)
    BY DEF Next, MergeCheck, Push, ClosedByOthers, pull
  <2>2. Merge(c) \/ DeleteHeadBranch(c)
    <3>1. ~PatchState(c) /\ ~Fails(c)
      BY DEF PatchState, Fails, pull
    <3>2. ~Submit(c)
      BY <3>1
      DEF Submit, Create, CreateFails, ParseCreated, ParseCreatedFails,
          AddLabels, AddReviewers, PollMergeable, SetAutomerge,
          AutomergeIgnored, FollowUpFails, pull
    <3>3. ~RequestReview(c)
      BY <3>1
      DEF RequestReview, PostReviewer, ReadReviewers, RequestFails, LookUpUser,
          LookUpUserFails, PutReviewers, pull
    <3>4. QED
      BY <2>1, <3>1, <3>2, <3>3
      DEF Step, MergePull, MergeFails, DeleteHeadBranchFails,
          DeleteHeadBranchCrashes, PatchStateFails, PollFails, pull
  <2>3. CASE Merge(c)
    BY <2>3 DEF Merge
  <2>4. CASE DeleteHeadBranch(c)
    BY <2>4 DEF DeleteHeadBranch, IInv, Merged
  <2>5. QED
    BY <2>2, <2>3, <2>4
<1>2. QED
  BY <1>1, Inductive, PTL DEF Spec, DeletesMergedOnly

=============================================================================
