--------------------------- MODULE MCPullRequests ---------------------------
(* PullRequests with three runs of gcli: one that creates the pull request
   and two that use it.  Either the first asks for any of labels, a reviewer
   and automerge while one of the others closes the pull request, or it asks
   for nothing and the others merge, change the state or request reviews. *)
EXTENDS PullRequests

Others == Merges \cup Requests \cup Patches

Plain == [kind |-> "submit", labels |-> FALSE, reviewers |-> {},
          automerge |-> FALSE]

Close == [kind |-> "patch", state |-> "closed"]

MCWork ==
  {[c1 |-> submit, c2 |-> a, c3 |-> Close] :
     submit \in {s \in Submits : s.reviewers \subseteq {"u1"}},
     a \in Others}
  \cup
  {[c1 |-> Plain, c2 |-> a, c3 |-> b] :
     a \in Merges \cup Requests, b \in Others}

=============================================================================
