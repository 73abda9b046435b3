------------------------------ MODULE Requests ------------------------------
(***************************************************************************)
(* One run of gcli that changes something on a forge.  What a command does *)
(* is a plan: the steps it takes in order, each with what the code does    *)
(* when the step fails.  Plans.tla holds the plans of the subcommands; this*)
(* module runs one of them against a user who may decline and a forge that *)
(* may refuse a request or carry it out without its answer arriving.       *)
(***************************************************************************)
EXTENDS Integers, Sequences

CONSTANTS
  Commands,   \* command lines
  Effects,    \* single changes on the forge or in the local repository
  Plan,       \* Plan[c]: the steps the code takes for command c
  Promise,    \* Promise[c]: the changes c stands for, in order
  Required,   \* Required[c]: how many of them a success must have made
  Asking,     \* commands that are confirmed by the user
  Careless,   \* commands whose code reports success whatever happened
  Misread,    \* commands with a word that is taken for one it is not
  Compound    \* commands that a failure may leave half done

Kinds ==
  {"edit",      \* the editor is run for a message, which may stay empty
   "prompt",    \* a line is read from the terminal until there is one
   "ask",       \* yes or no
   "read",      \* a request that changes nothing
   "need",      \* something has to be there: a label, a file, a token
   "refuse",    \* what is asked for is not offered
   "parse",     \* an answer is parsed
   "write",     \* a request that changes something
   "local",     \* a change on this machine
   "free"}      \* the message is freed a second time

\* What the code does when a step fails: end the program with a failure or
\* with success, return an error to the subcommand, take the next step, or
\* touch memory it must not touch.
Policies == {"exit", "leave", "stop", "ignore", "crash"}

Steps == [do : Kinds, what : Seq(Effects), else : SUBSET Policies]

ASSUME CommandsAssumption ==
  /\ Plan \in [Commands -> Seq(Steps)]
  /\ Promise \in [Commands -> Seq(Effects)]
  /\ Required \in [Commands -> Nat]

\* Only requests and local steps change something.  The message is freed
\* behind everything else, which ends no program with success.  A command that
\* is confirmed asks before every change, and a no ends it.
ASSUME PlansAssumption ==
  \A c \in Commands :
    /\ \A i \in 1..Len(Plan[c]) :
         Plan[c][i].what # <<>> => Plan[c][i].do \in {"write", "local"}
    /\ \A i \in 1..Len(Plan[c]) :
         Plan[c][i].do = "free" =>
           /\ "leave" \notin Plan[c][i].else
           /\ \A j \in i..Len(Plan[c]) : Plan[c][j].do = "free"
    /\ c \in Asking =>
         \A i \in 1..Len(Plan[c]) :
           /\ Plan[c][i].do = "ask" => "ignore" \notin Plan[c][i].else
           /\ Plan[c][i].what # <<>> => \E j \in 1..i - 1 : Plan[c][j].do = "ask"

\* The number of changes that the steps before each step of a plan make.
Before(c) ==
  LET n[i \in 1..Len(Plan[c]) + 1] ==
        IF i = 1 THEN 0 ELSE n[i - 1] + Len(Plan[c][i - 1].what)
  IN  n

\* The steps that no refusal stands before, the end of the plan included.
Reached(c) ==
  {i \in 1..Len(Plan[c]) + 1 : \A j \in 1..i - 1 :
     Plan[c][j].do = "refuse" => ~(Plan[c][j].else \subseteq {"stop", "exit"})}

\* The changes of a plan are the first of its promise, in that order, if its
\* words are those of the manual; none comes behind one that may be left out.
ASSUME OrderAssumption ==
  \A c \in Commands : \A i \in Reached(c) \ {Len(Plan[c]) + 1} :
    LET step == Plan[c][i] IN
    /\ c \notin Misread =>
         /\ Before(c)[i] + Len(step.what) <= Len(Promise[c])
         /\ \A k \in 1..Len(step.what) :
              step.what[k] = Promise[c][Before(c)[i] + k]
    /\ step.what # <<>> /\ "ignore" \in step.else =>
         \A j \in i + 1..Len(Plan[c]) : Plan[c][j].what = <<>>

\* Until a plan has made what is required no step ends it with success, none
\* goes on without its change, and the plan does not end.
ASSUME SuccessAssumption ==
  \A c \in Commands \ (Careless \cup Misread) : \A i \in Reached(c) :
    \/ Before(c)[i] >= Required[c]
    \/ /\ i # Len(Plan[c]) + 1
       /\ "leave" \notin Plan[c][i].else
       /\ Plan[c][i].what # <<>> => "ignore" \notin Plan[c][i].else

\* Behind the change of a command that makes one, no step fails the command.
ASSUME FailureAssumption ==
  \A c \in Commands \ Compound : \A i \in 1..Len(Plan[c]) :
    (\E j \in 1..i - 1 : Plan[c][j].what # <<>>) =>
      Plan[c][i].else \cap {"stop", "exit"} = {}

VARIABLES
  cmd,        \* the command line
  pc,         \* the step that is next
  text,       \* the editor left a message
  agreed,     \* the user has said yes
  rc,         \* what the library returned to the subcommand
  lost,       \* history: a request was carried out, its answer did not arrive
  done,       \* history: the changes that were made
  outcome     \* how the run ended

vars == <<cmd, pc, text, agreed, rc, lost, done, outcome>>

Init ==
  /\ cmd \in Commands
  /\ pc = 1
  /\ text = FALSE
  /\ agreed = FALSE
  /\ rc = 0
  /\ lost = FALSE
  /\ done = <<>>
  /\ outcome = "none"

-----------------------------------------------------------------------------
Step == Plan[cmd][pc]

At(kind) ==
  /\ outcome = "none"
  /\ pc \in 1..Len(Plan[cmd])
  /\ Step.do = kind

Proceed == pc' = pc + 1 /\ UNCHANGED <<cmd, rc, outcome>>

MutReturn == rc' = -1 /\ pc' = pc + 1 /\ UNCHANGED <<cmd, outcome>>

\* An error is returned to the subcommand, which frees the message first.
Return ==
  /\ rc' = -1
  /\ pc' \in pc + 1..Len(Plan[cmd]) + 1
  /\ pc' \in 1..Len(Plan[cmd]) => Plan[cmd][pc'].do = "free"
  /\ \A i \in pc + 1..pc' - 1 : Plan[cmd][i].do # "free"
  /\ UNCHANGED <<cmd, outcome>>

End(how) == outcome' = how /\ UNCHANGED <<cmd, pc, rc>>

GiveUp ==
  \/ "ignore" \in Step.else /\ Proceed
  \/ "stop" \in Step.else /\ Return
  \/ "exit" \in Step.else /\ End("failure")
  \/ "leave" \in Step.else /\ End("success")
  \/ "crash" \in Step.else /\ End("crash")

-----------------------------------------------------------------------------
\* The user leaves a message in the editor, or only lines starting with `!'.
Edit ==
  /\ At("edit")
  /\ \/ text' = TRUE /\ Proceed
     \/ text' = FALSE /\ GiveUp
  /\ UNCHANGED <<agreed, lost, done>>

\* An empty line is no answer: gcli asks again.
Prompt == At("prompt") /\ Proceed /\ UNCHANGED <<text, agreed, lost, done>>

MutAsk ==
  /\ At("ask")
  /\ agreed' \in BOOLEAN
  /\ Proceed
  /\ UNCHANGED <<text, lost, done>>

\* Anything but yes, the end of the input included, is a no.
Ask ==
  /\ At("ask")
  /\ \/ agreed' = TRUE /\ Proceed
     \/ agreed' = FALSE /\ GiveUp
  /\ UNCHANGED <<text, lost, done>>

\* A step that only looks at something may find it or not.
Look ==
  /\ At("read") \/ At("need") \/ At("parse")
  /\ Proceed \/ GiveUp
  /\ UNCHANGED <<text, agreed, lost, done>>

Refuse == At("refuse") /\ GiveUp /\ UNCHANGED <<text, agreed, lost, done>>

Carried == done' = done \o Step.what

\* Mutant: a request whose answer is lost is sent again.
MutWrite ==
  /\ At("write")
  /\ \/ Carried /\ Proceed /\ UNCHANGED lost
     \/ GiveUp /\ UNCHANGED <<done, lost>>
     \/ Carried /\ UNCHANGED <<cmd, pc, rc, outcome>> /\ lost' = TRUE
  /\ UNCHANGED <<text, agreed>>

\* A request is carried out, refused, or carried out with the answer lost.
Write ==
  /\ At("write")
  /\ \/ Carried /\ Proceed /\ UNCHANGED lost
     \/ GiveUp /\ UNCHANGED <<done, lost>>
     \/ Carried /\ GiveUp /\ lost' = TRUE
  /\ UNCHANGED <<text, agreed>>

Local ==
  /\ At("local")
  /\ \/ Carried /\ Proceed
     \/ GiveUp /\ UNCHANGED done
  /\ UNCHANGED <<text, agreed, lost>>

\* free(NULL) does nothing.
FreeAgain ==
  /\ At("free")
  /\ IF text THEN GiveUp ELSE Proceed
  /\ UNCHANGED <<text, agreed, lost, done>>

\* Mutant: the return code is not looked at.
MutFinishBlindly ==
  /\ outcome = "none"
  /\ pc = Len(Plan[cmd]) + 1
  /\ End("success")
  /\ UNCHANGED <<text, agreed, lost, done>>

\* Mutant: the subcommand never sets its exit status from the return code.
MutFinishFailing ==
  /\ outcome = "none"
  /\ pc = Len(Plan[cmd]) + 1
  /\ End("failure")
  /\ UNCHANGED <<text, agreed, lost, done>>

\* The subcommand turns the return code into the exit status.
Finish ==
  /\ outcome = "none"
  /\ pc = Len(Plan[cmd]) + 1
  /\ End(IF rc = 0 THEN "success" ELSE "failure")
  /\ UNCHANGED <<text, agreed, lost, done>>

Next ==
  \/ Edit \/ Prompt \/ Ask \/ Look \/ Refuse
  \/ Write \/ Local \/ FreeAgain \/ Finish

Spec == Init /\ [][Next]_vars

-----------------------------------------------------------------------------
\* The types: a run has either a place in its plan or an outcome, and a
\* library error leads to the end of the plan, never back into it.
TypeOK ==
  /\ cmd \in Commands
  /\ pc \in 1..Len(Plan[cmd]) + 1
  /\ text \in BOOLEAN /\ agreed \in BOOLEAN /\ lost \in BOOLEAN
  /\ rc \in {0, -1}
  /\ done \in Seq(Effects)
  /\ outcome \in {"none", "success", "failure", "crash"}
  /\ rc = -1 =>
       \A i \in pc..Len(Plan[cmd]) : Plan[cmd][i].do = "free"

\* The changes made are, in order, the first of those the command stands for:
\* nothing is done twice, left out in the middle or done on top.  A word that
\* is taken for one it is not changes what nobody asked for.
InOrder ==
  cmd \notin Misread =>
    /\ Len(done) <= Len(Promise[cmd])
    /\ \A i \in 1..Len(done) : done[i] = Promise[cmd][i]

\* Exit status 0 means that the forge has all of what the command stands for,
\* on every forge that offers the operation.
SuccessIsComplete ==
  outcome = "success" /\ cmd \notin Careless \cup Misread =>
    Len(done) >= Required[cmd]

\* A command that fails has changed nothing and may be repeated, unless it
\* stands for several changes or the answer of the forge was lost.
FailureChangesNothing ==
  outcome = "failure" /\ ~lost /\ cmd \notin Compound => done = <<>>

\* Nothing is submitted or deleted before the user has agreed to it.
AsksFirst == [][done' # done /\ cmd \in Asking => agreed]_vars

=============================================================================
