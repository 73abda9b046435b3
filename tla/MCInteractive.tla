--------------------------- MODULE MCInteractive ---------------------------
(* Interactive with an issue, a pull request and a commit, of which two at  *)
(* a time notify the user, and discussions of one and three lines through a *)
(* pipe that holds two.                                                     *)
EXTENDS Interactive

CONSTANTS i1, p1, c1

MCThreads == {i1, p1, c1}
MCKind == [t \in MCThreads |->
             CASE t = i1 -> "issue" [] t = p1 -> "pull" [] t = c1 -> "commit"]
MCDiscussion ==
  [t \in MCThreads |->
     CASE t = i1 -> <<"i.1", "i.2", "i.3">>
       [] t = p1 -> <<"p.1">>
       [] t = c1 -> <<>>]

============================================================================
