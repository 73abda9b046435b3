------------------------------ MODULE MCActions ------------------------------
(* Actions on every line of up to three of the words below behind `pulls    *)
(* -i 7' - one action of each kind, the options of merge and labels, and a  *)
(* word that is no action and may stand for a label, a title or a milestone *)
(* - and on longer lines of those whose handlers take a varying number of   *)
(* words; on the lines of the other subcommands likewise, and on up to      *)
(* three options with the words behind them.                                *)
EXTENDS Actions

LinesOf(words, n) == [1..n -> words]

UpTo(words, n) == UNION {LinesOf(words, k) : k \in 0..n}

Behind(c, prefix, tails) == {[cmd |-> c, line |-> prefix \o t] : t \in tails}

PullLines ==
  UpTo({"status", "close", "merge", "-s", "-D", "labels", "add",
        "milestone", "title", "review", "checkout", "word"}, 3)
    \cup LinesOf({"status", "merge", "-s", "-D", "labels", "add", "word"}, 4)
    \cup LinesOf({"labels", "add", "title", "word"}, 5)

ActionLines ==
  Behind("pulls", <<"-i", "7">>, PullLines)
    \cup Behind("issues", <<"-i", "7">>,
                UpTo({"all", "close", "assign", "milestone", "title", "labels",
                      "add", "-d", "word"}, 3))
    \cup Behind("milestones", <<"-i", "7">>,
                UpTo({"status", "open", "delete", "set-duedate", "word"}, 3))
    \cup Behind("pipelines", <<"-p", "7">>, UpTo({"all", "jobs", "word"}, 3))
    \cup Behind("pipelines", <<"-j", "7">>,
                UpTo({"status", "log", "artifacts", "-o", "word"}, 4))

Options ==
  {<<"-a">>, <<"-s">>, <<"-o", "me">>, <<"-r", "here">>, <<"-o", "you">>,
   <<"-i", "7">>, <<"-i", "0">>, <<"-p", "7">>, <<"-j", "0">>, <<"-n", "0">>,
   <<"-n", "word">>, <<"-A", "me">>, <<"-x">>}

MCLines ==
  ActionLines
    \cup {[cmd |-> c, line |-> FlattenSeq(o) \o t] :
            c \in DOMAIN OptionsOf, o \in UpTo(Options, 3),
            t \in {<<>>, <<"status">>, <<"word">>, <<"status", "-o">>}}

=============================================================================
