--------------------------- MODULE MCReviewSession ---------------------------
(* ReviewSession with two pull requests that share a review file, because
   owner and repository are swapped, and one that has its own. *)
EXTENDS ReviewSession

MCPulls == {[owner |-> "a", repo |-> "b", id |-> 1],
            [owner |-> "b", repo |-> "a", id |-> 1],
            [owner |-> "a", repo |-> "b", id |-> 2]}

=============================================================================
