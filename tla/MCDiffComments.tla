--------------------------- MODULE MCDiffComments ---------------------------
(* DiffComments on: every hunk of up to three lines of any kind, longer ones *)
(* with nested and repeated notes and ranges, pairs of hunks, and texts with *)
(* all heads git writes, odd lines between them, and series of patches.     *)
EXTENDS DiffComments

HunksOf(kinds, n) == UNION {[1..k -> kinds] : k \in 1..n}

Modified == <<"diff", "index", "--- a/", "+++ b/">>
New == <<"diff", "new file mode", "index", "--- /dev/null", "+++ b/">>
OtherHeads ==
  {<<"diff", "deleted file mode", "index", "--- a/", "+++ /dev/null">>,
   <<"diff", "index", "--- a/", "+++ /dev/null">>,
   <<"diff", "similarity index", "rename from", "rename to">>,
   <<"diff", "old mode", "new mode">>,
   <<"diff", "index", "binary files">>,
   <<"diff", "index", "+++ b/", "--- /dev/null">>,
   <<"odd diff", "index", "--- a/", "+++ b/">>,
   Modified \o <<"note">>, Modified \o <<"stray @@">>,
   <<"diff">>, <<"diff", "new file mode">>, <<"diff", "index">>}

File(head, hunk_list) == [head |-> head, hunks |-> hunk_list]
Patch(prelude, files, trailer) ==
  [prelude |-> prelude, files |-> files, trailer |-> trailer]
Single(p) == [series |-> FALSE, patches |-> <<p>>]
Plain(hunk_list) == Single(Patch(<<>>, <<File(Modified, hunk_list)>>, <<>>))

Noted == {<<"note", "add">>, <<"add">>, <<"keep", "dashes">>,
          <<"dashes", "dashes", "dashes">>, <<"add", "stray diff">>}
Files ==
  {File(hd1, <<x>>) : hd1 \in OtherHeads \cup {Modified, New}, x \in Noted}
    \cup {File(hd1, <<>>) : hd1 \in OtherHeads \cup {Modified}}
Trailer == <<"dashes", "note", "blank">>

Commits ==
  {Patch(pre, <<File(Modified, <<x>>)>>, Trailer) :
     pre \in {<<"sep", "note">>, <<"note">>}, x \in Noted}
    \cup {Patch(<<"sep", "note">>, <<>>, <<>>)}

MCSources ==
  {Plain(<<x>>) : x \in HunksOf(BodyKinds, 3)}
    \cup {Plain(<<x>>) : x \in HunksOf(BodyKinds \cup {"stray diff", "stray @@"}, 2)}
    \cup {Plain(<<x>>) : x \in HunksOf(BodyKinds \ {"dashes", "nonl", "blank"}, 4)}
    \cup {Plain(<<x>>) : x \in HunksOf({"add", "del", "note", "open", "close"}, 5)}
    \cup {Plain(<<x, y>>) : x \in HunksOf({"add", "note", "open", "close"}, 3),
                            y \in HunksOf({"keep", "note", "open", "close"}, 2)}
    \cup {Single(Patch(pre, <<f>>, <<>>)) :
             pre \in {<<"note">>, <<"note", "stray diff">>}, f \in Files}
    \cup {Single(Patch(<<>>, <<File(Modified, <<x>>), f>>, <<>>)) :
             x \in Noted, f \in Files}
    \cup {[series |-> TRUE, patches |-> <<p, q>>] : p \in Commits, q \in Commits}
    \cup {[series |-> TRUE, patches |-> <<>>], Single(Patch(<<>>, <<>>, <<>>))}

=============================================================================
