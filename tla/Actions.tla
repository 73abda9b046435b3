------------------------------- MODULE Actions -------------------------------
(***************************************************************************)
(* The subcommands that run actions on one object: `gcli pulls -i ID       *)
(* actions...' and the same of issues, milestones, pipelines (-p) and jobs *)
(* (-j).  The options come first, then the loop that reads a line of       *)
(* actions (gcli_cmd_actions_handle, src/src/cmd/actions.c) and the        *)
(* handlers of the subcommand's table, each of which takes its own         *)
(* arguments off the line.  The loop takes off one word more, the action's *)
(* name, when the handler has returned.                                    *)
(***************************************************************************)
EXTENDS Integers, Sequences, SequencesExt, FiniteSetsExt

CONSTANT Lines      \* records [cmd, line]: a subcommand and the words behind it

VARIABLES
  cmd,          \* history: the subcommand
  line,         \* history: the words behind it
  inhibit,      \* option pr.inhibit-delete-source-branch
  args,         \* argv: what is left of the line
  opts,         \* what the options said
  pc,           \* where gcli is
  item,         \* the fetched object: "null", "held" or "freed"
  rc,           \* return code of the last call
  branch,       \* the source branch of the pull request
  attempts      \* history: the actions run, each with the words it took

input == <<cmd, line, inhibit>>
vars == <<input, args, opts, pc, item, rc, branch, attempts>>

EX_OK == 0
EX_USAGE == 1
EX_DATAERR == 2

\* The tables of actions: those whose handler takes no words, those among
\* them that need the object, those that take a word, and those of their own.
PullActions ==
  [plain |-> {"all", "op", "status", "open", "commits", "diff", "patch",
              "notes", "comments", "ci", "close", "reopen"},
   needsItem |-> {"all", "op", "status", "open"},
   takesWord |-> {"milestone", "request-review"},
   special |-> {"merge", "labels", "title", "review", "checkout"}]

IssueActions ==
  [plain |-> {"all", "op", "status", "open", "comments", "notes", "close",
              "reopen", "attachments"},
   needsItem |-> {"all", "op", "status", "open"},
   takesWord |-> {"assign", "milestone", "title"},
   special |-> {"labels"}]

MilestoneActions ==
  [plain |-> {"all", "status", "open", "issues", "delete"},
   needsItem |-> {"all", "status", "open"},
   takesWord |-> {"set-duedate"},
   special |-> {}]

PipelineActions ==
  [plain |-> {"all", "status", "open", "jobs", "children"},
   needsItem |-> {"all", "status", "open"},
   takesWord |-> {}, special |-> {}]

JobActions ==
  [plain |-> {"status", "open", "log", "cancel", "retry"},
   needsItem |-> {"status", "open"},
   takesWord |-> {}, special |-> {"artifacts"}]

Table ==
  [pulls |-> PullActions, issues |-> IssueActions,
   milestones |-> MilestoneActions, pipelines |-> PipelineActions,
   jobs |-> JobActions]

ActionsOf(t) == Table[t].plain \cup Table[t].takesWord \cup Table[t].special

Squash == {"-s", "--squash"}
InhibitDelete == {"-D", "--inhibit-delete"}

\* Options of the subcommands, by whether a word belongs to them.
PullOptions ==
  [word |-> {"-o", "-r", "-i", "-n", "-A", "-L", "-M"}, flag |-> {"-a", "-s"}]
IssueOptions ==
  [word |-> {"-o", "-r", "-i", "-n", "-A", "-L", "-M"}, flag |-> {"-a", "-s"}]
MilestoneOptions ==
  [word |-> {"-o", "-r", "-i", "-n"}, flag |-> {}]
PipelineOptions ==
  [word |-> {"-o", "-r", "-p", "-j", "-n"}, flag |-> {}]

OptionsOf ==
  [pulls |-> PullOptions, issues |-> IssueOptions,
   milestones |-> MilestoneOptions, pipelines |-> PipelineOptions]
WithWord == OptionsOf[cmd].word
Flags == OptionsOf[cmd].flag
IdOptions == {"-i", "-p", "-j"}
Dashed == Squash \cup InhibitDelete \cup (UNION {OptionsOf[c].word : c \in DOMAIN OptionsOf})
            \cup {"-a", "-d", "-x"}
Numbers == {"0", "7"}
None == "none"

ASSUME LinesAssumption ==
  \A l \in Lines : l.cmd \in DOMAIN OptionsOf /\ l.line \in Seq(STRING \ {None})

Init ==
  /\ \E l \in Lines : cmd = l.cmd /\ line = l.line
  /\ inhibit \in BOOLEAN
  /\ args = line
  /\ opts = [o |-> None, r |-> None, id |-> None, by |-> {}, all |-> FALSE]
  /\ pc = "options"
  /\ item = "null"
  /\ rc = EX_OK
  /\ branch = "there"
  /\ attempts = <<>>

argc == Len(args)

name == Head(args)

\* The table the options lead to.
table == IF cmd = "pipelines" /\ "-j" \in opts.by THEN "jobs" ELSE cmd

-----------------------------------------------------------------------------
(* Options: getopt_long stops at the first word that is none.  Every way   *)
(* out of here but a listing ends gcli with status 1.                      *)

OptionsLeft == pc = "options" /\ args # <<>> /\ name \in Dashed

Fails ==
  /\ pc' = "exit1"
  /\ UNCHANGED <<input, args, opts, item, rc, branch, attempts>>

\* pulls and issues refuse the number 0.
Unacceptable(word) ==
  /\ name \in IdOptions \cup {"-n"}
  /\ \/ word \notin Numbers
     \/ word = "0" /\ cmd \in {"pulls", "issues"}

BadOption ==
  /\ OptionsLeft
  /\ \/ name \notin WithWord \cup Flags
     \/ name \in WithWord /\ argc = 1
     \/ name \in WithWord /\ argc > 1 /\ Unacceptable(args[2])
  /\ Fails

\* subcommand_pipelines writes the argument of -r over the owner.
FieldOf(option) ==
  CASE option \in IdOptions -> "id"
    [] option = "-o" -> "o"
    [] option = "-r" -> IF cmd = "pipelines" THEN "o" ELSE "r"

Option ==
  /\ OptionsLeft
  /\ name \in WithWord /\ argc > 1 /\ ~Unacceptable(args[2])
  /\ opts' = CASE name \in IdOptions -> [opts EXCEPT !.id = args[2], !.by = @ \cup {name}]
               [] name \in {"-o", "-r"} -> [opts EXCEPT ![FieldOf(name)] = args[2]]
               [] name = "-A" /\ cmd = "pulls" -> [opts EXCEPT !.all = TRUE]
               [] OTHER -> opts
  /\ args' = Tail(Tail(args))
  /\ UNCHANGED <<input, pc, item, rc, branch, attempts>>

Flag ==
  /\ OptionsLeft /\ name \in Flags
  /\ opts' = IF name = "-a" THEN [opts EXCEPT !.all = TRUE] ELSE opts
  /\ args' = Tail(args)
  /\ UNCHANGED <<input, pc, item, rc, branch, attempts>>

OptionsRead == pc = "options" /\ (args # <<>> => name \notin Dashed)

\* check_owner_and_repo asks for both or none.
OneOfTwo == (opts.o = None) # (opts.r = None)

\* No object is named, so there is a list to show.
Lists == IF cmd = "pipelines" THEN opts.by = {} ELSE opts.id \in {None, "0"}

\* Not on Bugzilla: one of the two is refused for certain where the forge
\* must be GitLab, and may be for want of a repository elsewhere.
Refused ==
  \/ cmd = "pipelines" /\ OneOfTwo
  \/ Cardinality(opts.by) = 2
  \/ cmd = "pipelines" /\ Lists /\ args # <<>>
  \/ ~Lists /\ opts.all
  \/ ~Lists /\ args = <<>>

NoSubject == OptionsRead /\ Refused /\ Fails

\* check_path finds no repository, or half of one and the forge is not
\* Bugzilla; or a pipeline is asked of another forge than GitLab.
NoRepository == OptionsRead /\ ~Refused /\ Fails

\* What is left of the line is a search term; milestones do not look at it.
List ==
  /\ OptionsRead /\ ~Refused /\ Lists
  /\ attempts' = IF args = <<>> \/ cmd = "milestones" THEN <<>> ELSE <<args>>
  /\ args' = <<>>
  /\ rc' \in {EX_OK, EX_DATAERR}
  /\ pc' = "returned"
  /\ UNCHANGED <<input, opts, item, branch>>

Begin ==
  /\ OptionsRead /\ ~Refused /\ ~Lists
  /\ pc' = "lookup"
  /\ UNCHANGED <<input, args, opts, item, rc, branch, attempts>>

-----------------------------------------------------------------------------
(* The loop of gcli_cmd_actions_handle. *)

\* Mutant: an unknown action ends the line with the code of the last one.
MutUnknownActionCode ==
  /\ pc = "lookup" /\ name \notin ActionsOf(table)
  /\ pc' = "free"
  /\ UNCHANGED <<input, args, opts, item, rc, branch, attempts>>

\* Mutant: an unknown action is looked up again.
MutUnknownActionAgain ==
  /\ pc = "lookup" /\ name \notin ActionsOf(table)
  /\ rc' = EX_USAGE
  /\ UNCHANGED <<input, args, opts, pc, item, branch, attempts>>

\* find_action fails.
UnknownAction ==
  /\ pc = "lookup" /\ name \notin ActionsOf(table)
  /\ rc' = EX_USAGE
  /\ pc' = "free"
  /\ UNCHANGED <<input, args, opts, item, branch, attempts>>

Needs(action) == action \in Table[table].needsItem

\* Mutant: the library's return code becomes the exit status.
MutFetch ==
  /\ pc = "lookup" /\ Needs(name) /\ item = "null"
  /\ item' = "held"
  /\ \/ rc' = EX_OK /\ pc' = "handle"
     \/ rc' = -1 /\ pc' = "free"
  /\ UNCHANGED <<input, args, opts, branch, attempts>>

\* The object is fetched for the first action that needs it.
Fetch ==
  /\ pc = "lookup" /\ Needs(name) /\ item = "null"
  /\ item' = "held"
  /\ \/ rc' = EX_OK /\ pc' = "handle"
     \/ rc' = EX_DATAERR /\ pc' = "free"
  /\ UNCHANGED <<input, args, opts, branch, attempts>>

Found ==
  /\ pc = "lookup" /\ name \in ActionsOf(table)
  /\ Needs(name) => item # "null"
  /\ pc' = "handle"
  /\ UNCHANGED <<input, args, opts, item, rc, branch, attempts>>

\* shift(): runs out of arguments if the handler took the last one too.
Shift ==
  /\ pc = "shift" /\ args # <<>>
  /\ args' = Tail(args)
  /\ pc' = IF argc = 1 THEN "free" ELSE "lookup"
  /\ UNCHANGED <<input, opts, item, rc, branch, attempts>>

NotEnoughArguments ==
  /\ pc = "shift" /\ args = <<>>
  /\ pc' = "exit1"
  /\ UNCHANGED <<input, args, opts, item, rc, branch, attempts>>

Free ==
  /\ pc = "free"
  /\ item' = IF item = "held" THEN "freed" ELSE item
  /\ pc' = "returned"
  /\ UNCHANGED <<input, args, opts, rc, branch, attempts>>

-----------------------------------------------------------------------------
(* Handlers.  None of them returns a negative code, so the loop goes on    *)
(* after a failed action; some failures end gcli at once.                  *)

\* The handler takes `words' words off the line, beside the action's name.
Take(words) ==
  /\ attempts' = Append(attempts, SubSeq(args, 1, 1 + words))
  /\ args' = SubSeq(args, 1 + words, argc)

Handle(names) == pc = "handle" /\ name \in names

Return(codes) ==
  /\ rc' \in codes
  /\ pc' = "shift"
  /\ UNCHANGED <<input, opts, item>>

\* A handler that prints what was fetched, and one that asks the forge.
Prints(t, names) ==
  /\ table = t /\ Handle(names)
  /\ Take(0)
  /\ Return({EX_OK})
  /\ UNCHANGED branch

Asks(t, names) ==
  /\ table = t /\ Handle(names)
  /\ Take(0)
  /\ Return({EX_OK, EX_DATAERR})
  /\ UNCHANGED branch

PullPrints == Prints("pulls", {"op", "status"})
PullAsks == Asks("pulls", {"all", "commits", "diff", "patch", "notes", "comments", "ci"})
PullChanges == Asks("pulls", {"close", "reopen"})

IssuePrints == Prints("issues", {"all", "op", "status"})
IssueAsks == Asks("issues", {"comments", "notes", "attachments"})
IssueChanges == Asks("issues", {"close", "reopen"})

MilestonePrints == Prints("milestones", {"status"})
MilestoneAsks == Asks("milestones", {"all", "issues", "delete"})

PipelinePrints == Prints("pipelines", {"status"})
PipelineAsks == Asks("pipelines", {"all", "jobs", "children"})

JobPrints == Prints("jobs", {"status"})
JobAsks == Asks("jobs", {"log", "cancel", "retry"})

\* gcli_cmd_open_url: the browser is a child process whose exit status
\* counts; the forge may have sent no address.
OpenUrl == Return({EX_OK, EX_DATAERR})

Open == Handle({"open"}) /\ Take(0) /\ OpenUrl /\ UNCHANGED branch

\* do_review_session exits when it fails; without enable-experimental it is
\* refused.
Review ==
  /\ Handle({"review"})
  /\ Take(0)
  /\ \/ Return({EX_OK, EX_DATAERR})
     \/ pc' = "exit1" /\ UNCHANGED <<input, opts, item, rc>>
  /\ UNCHANGED branch

\* The labels of a pull request are not missed: its handler tests for no
\* words at all, not even its own name.
MissingWord ==
  /\ \/ Handle(Table[table].takesWord \cup ({"title"} \cap Table[table].special))
     \/ Handle({"labels"}) /\ table = "issues"
  /\ argc < 2
  /\ Return({EX_USAGE})
  /\ UNCHANGED <<args, branch, attempts>>

\* A milestone is a number or -d for none.
WordCodes ==
  IF name = "milestone" /\ args[2] \notin Numbers \cup {"-d"}
  THEN IF table = "issues" THEN {EX_USAGE} ELSE {EX_DATAERR}
  ELSE {EX_OK, EX_DATAERR}

\* Mutant: the word is not taken off the line.
MutWordAction ==
  /\ Handle(Table[table].takesWord) /\ argc >= 2
  /\ attempts' = Append(attempts, SubSeq(args, 1, 2))
  /\ args' = args
  /\ Return(WordCodes)
  /\ UNCHANGED branch

WordAction ==
  /\ Handle(Table[table].takesWord) /\ argc >= 2
  /\ Take(1)
  /\ Return(WordCodes)
  /\ UNCHANGED branch

\* The title of a pull request takes its word only after success; a failure
\* ends gcli.
Title ==
  /\ Handle({"title"} \cap Table[table].special) /\ argc >= 2
  /\ Take(1)
  /\ Return({EX_OK})
  /\ UNCHANGED branch

TitleFails ==
  /\ Handle({"title"} \cap Table[table].special) /\ argc >= 2
  /\ pc' = "exit1"
  /\ attempts' = Append(attempts, SubSeq(args, 1, 2))
  /\ UNCHANGED <<input, args, opts, item, rc, branch>>

\* action_job_artifacts: -o counts only with a file name behind it.
ArtifactWords == IF argc > 2 /\ args[2] = "-o" THEN 2 ELSE 0

Artifacts ==
  /\ Handle({"artifacts"})
  /\ Take(ArtifactWords)
  /\ Return({EX_OK, EX_USAGE})
  /\ UNCHANGED branch

\* parse_labels_options takes pairs as long as there are any.
LabelPairs(i, words) ==
  {k \in 0..Len(words) :
    \A j \in 1..k : /\ i + 2 * j <= Len(words)
                    /\ words[i + 2 * j - 1] \in {"add", "remove"}}

Labels ==
  /\ Handle({"labels"})
  /\ table = "issues" => argc >= 2
  /\ \E k \in LabelPairs(1, args) :
       /\ k + 1 \notin LabelPairs(1, args)
       /\ Take(2 * k)
       /\ Return(IF k = 0 THEN {EX_OK} ELSE {EX_OK, EX_DATAERR})
  /\ UNCHANGED branch

\* One option word at most is taken; the source branch is deleted unless the
\* configuration or that word forbids it.
MergeWord ==
  IF argc > 1 /\ args[2] \in Squash \cup InhibitDelete THEN 1 ELSE 0

DeletesHead ==
  ~inhibit /\ ~(MergeWord = 1 /\ args[2] \in InhibitDelete)

Merge ==
  /\ Handle({"merge"})
  /\ Take(MergeWord)
  /\ \/ /\ Return({EX_OK})
        /\ branch' = IF DeletesHead THEN "deleted" ELSE branch
     \/ Return({EX_DATAERR}) /\ UNCHANGED branch

\* action_checkout, which has no words of its own, takes its name off the
\* line; the loop then takes off the word behind it, which nobody read.
Checkout ==
  /\ Handle({"checkout"})
  /\ attempts' = Append(attempts, SubSeq(args, 1, 1))
  /\ args' = Tail(args)
  /\ Return({EX_OK})
  /\ UNCHANGED branch

CheckoutFails ==
  /\ Handle({"checkout"})
  /\ Take(0)
  /\ Return({EX_DATAERR})
  /\ UNCHANGED branch

ReadOptions ==
  \/ BadOption \/ Option \/ Flag
  \/ NoSubject \/ NoRepository \/ List \/ Begin

Handler ==
  \/ PullPrints \/ PullAsks \/ PullChanges
  \/ IssuePrints \/ IssueAsks \/ IssueChanges
  \/ MilestonePrints \/ MilestoneAsks \/ PipelinePrints \/ PipelineAsks
  \/ JobPrints \/ JobAsks \/ Open
  \/ Review \/ MissingWord \/ WordAction \/ Title \/ TitleFails
  \/ Artifacts \/ Labels \/ Merge \/ Checkout \/ CheckoutFails

Next ==
  \/ ReadOptions \/ UnknownAction \/ Fetch \/ Found \/ Handler
  \/ Shift \/ NotEnoughArguments \/ Free

Spec == Init /\ [][Next]_vars

\* gcli runs until it ends.  It sets no timeout for a request: that each gets
\* an answer or an error is the network's and the forge's fairness.
FairSpec == Spec /\ WF_vars(Next)

-----------------------------------------------------------------------------
(* The line as the manual pages read it. *)

\* Whether each word is an option: it stands at the start, behind a flag or
\* behind the word of an option.
IsOption ==
  LET at[i \in 0..Len(line)] ==
        /\ i > 0 => line[i] \in WithWord \cup Flags
        /\ \/ i <= 1
           \/ at[i - 1] /\ line[i - 1] \in Flags
           \/ i > 2 /\ at[i - 2] /\ line[i - 2] \in WithWord
  IN  at

\* The positions of the options that have their word.
OptionAt ==
  {i \in 1..Len(line) : IsOption[i] /\ (i = Len(line) => line[i] \in Flags)}

\* The word given last with one of the options.
Given(options) ==
  LET P == {i \in OptionAt : line[i] \in options}
  IN  IF P = {} THEN None ELSE line[Max(P) + 1]

FirstWord ==
  Max({0} \cup {IF line[i] \in Flags THEN i ELSE i + 1 : i \in OptionAt}) + 1

Subject ==
  IF cmd = "pipelines" /\ \E i \in OptionAt : line[i] = "-j" THEN "jobs" ELSE cmd

Words == SubSeq(line, FirstWord, Len(line))

\* A pipeline or a job may have the number 0.
ListAsked ==
  Given(IdOptions) \in IF cmd = "pipelines" THEN {None} ELSE {None, "0"}

MergeOptions(i) ==
  {k \in 0..Len(line) - i :
    \A j \in 1..k : line[i + j] \in Squash \cup InhibitDelete}

\* Words the action at position i takes beside its name, and those it needs.
Span(i) ==
  CASE line[i] \in Table[Subject].takesWord \cup {"title"} -> 1
    [] line[i] = "labels" -> 2 * Max(LabelPairs(i, line))
    [] line[i] = "merge" -> Max(MergeOptions(i))
    [] line[i] = "artifacts" -> IF i < Len(line) /\ line[i + 1] = "-o" THEN 2 ELSE 0
    [] OTHER -> 0

Readable(i) == line[i] \in ActionsOf(Subject) /\ i + Span(i) <= Len(line)

\* The actions from each position with their words, up to the first that
\* cannot be read.
ReadFrom ==
  LET from[i \in 1..Len(line) + 1] ==
        IF i > Len(line) \/ ~Readable(i) THEN <<>>
        ELSE <<SubSeq(line, i, i + Span(i))>> \o from[i + Span(i) + 1]
  IN  from

\* The actions of the line; for a list, the words to search for.
Reading ==
  IF ListAsked THEN <<Words>>
  ELSE IF Words = <<>> THEN <<>> ELSE ReadFrom[FirstWord]

\* The lines on which gcli and its manual differ.
Exceptions ==
  \/ cmd = "pulls" /\ \E i \in 1..Len(line) :
        \/ line[i] = "checkout"
        \/ line[i] = "merge" /\ Max(MergeOptions(i)) > 1
  \/ Subject = "jobs" /\ Len(line) > 1 /\ SubSeq(line, Len(line) - 1, Len(line)) = <<"artifacts", "-o">>

\* A list of milestones does not look at the words behind its options.
IgnoresWords == cmd = "milestones" /\ ListAsked

\* A successful checkout loses the word behind it, also when that is an action.
SkipsWord ==
  ~ListAsked /\ \E k \in 1..Len(attempts) : attempts[k] = <<"checkout">>

\* The source branch is to be kept by the merge at position i.
KeepAsked(i) ==
  \E k \in MergeOptions(i) : k > 0 /\ line[i + k] \in InhibitDelete

-----------------------------------------------------------------------------
Ended == pc \in {"returned", "exit1"}

TypeOK ==
  /\ cmd \in DOMAIN OptionsOf
  /\ line \in Seq(STRING)
  /\ inhibit \in BOOLEAN
  /\ \E i \in 0..Len(line) : args = SubSeq(line, i + 1, Len(line))
  /\ opts \in [o : ToSet(line) \cup {None}, r : ToSet(line) \cup {None},
               id : Numbers \cup {None}, by : SUBSET IdOptions, all : BOOLEAN]
  /\ pc \in {"options", "lookup", "handle", "shift", "free", "returned", "exit1"}
  /\ item \in {"null", "held", "freed"}
  /\ rc \in {EX_OK, EX_USAGE, EX_DATAERR}
  /\ branch \in {"there", "deleted"}
  /\ attempts \in Seq(Seq(ToSet(line)))

\* gcli runs the actions of the line in its order, each once and with its own
\* words, also when one of them fails: no word is read both as an argument
\* and as an action, none is lost.  It runs them on the object that the
\* options name, in the repository they name.
FollowsTheLine ==
  /\ ~Exceptions => IsPrefix(attempts, Reading)
  /\ attempts # <<>> => /\ opts.id = Given(IdOptions)
                        /\ opts.o = Given({"-o"})
                        /\ opts.r = Given({"-r"})

\* Exit status 0 is never the result of a line that was read in part only:
\* every word was that of an action that was run.  The exceptions are the
\* words behind a list of milestones and the one a checkout loses.
ZeroMeansAllRead ==
  pc = "returned" /\ rc = EX_OK /\ ~IgnoresWords /\ ~SkipsWord =>
    FlattenSeq(attempts) = Words

\* gcli ends: every option and every action shortens the line.
Terminates == <>Ended

\* "merge [-s] [-D] ... -D = inhibit deleting source branch" (cmd/pulls.c:91):
\* a source branch is deleted only if some merge was not told to keep it.
SourceBranchKept ==
  branch = "deleted" =>
    \E i \in 1..Len(line) : line[i] = "merge" /\ ~KeepAsked(i)

=============================================================================
