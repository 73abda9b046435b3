----------------------------- MODULE MCRequests -----------------------------
(* Requests with the plans of all subcommands on all forges, up to two labels
   to add and to remove, two reviewers of a new pull request, two pages behind
   the first, and up to one asset more than a release may have. *)
EXTENDS Requests, Plans

MCEffects ==
  ({c.op : c \in Commands}
     \cup {"label", "unlabel", "release", "asset", "private", "fork",
           "origin renamed", "origin added", "emptied", "artifacts",
           "pull", "reviewer", "shown"})
    \X (0..MaxAssets + 1)

MCPlan == [c \in Commands |-> PlanOf(c)]
MCPromise == [c \in Commands |-> PromiseOf(c)]
MCRequired == [c \in Commands |-> RequiredOf(c)]
MCAsking == {c \in Commands : IsAsking(c)}
MCCareless == {c \in Commands : IsCareless(c)}
MCMisread == {c \in Commands : IsMisread(c)}
MCCompound == {c \in Commands : IsCompound(c)}

=============================================================================
