----------------------------- MODULE Interactive -----------------------------
(***************************************************************************)
(* `gcli status': the notifications of the user, one of which is opened    *)
(* and its discussion read in a pager (src/src/cmd/status.c,               *)
(* src/src/cmd/status_interactive.c, src/src/cmd/interactive.c).  The      *)
(* pager takes three processes.  gcli forks the printer and waits for it;  *)
(* the printer makes a pipe and forks the pager, writes the discussion     *)
(* into the pipe and waits for the pager.  gcli and the pager share the    *)
(* terminal's input.  Standard output is the terminal, so that stdio       *)
(* passes on each line when it is complete.                                *)
(***************************************************************************)
EXTENDS Integers, Sequences, SequencesExt

CONSTANTS
  Threads,      \* issues, pull requests and others that may notify the user
  Kind,         \* the notification type of a thread
  Discussion,   \* the lines of its comments
  MaxRows,      \* bound: notifications the forge keeps
  PipeSize      \* lines a pipe holds

ASSUME ThreadsAssumption ==
  /\ Kind \in [Threads -> {"issue", "pull", "commit"}]
  /\ \A t \in Threads : Discussion[t] \in Seq(STRING)
ASSUME BoundsAssumption == MaxRows \in Nat /\ PipeSize \in Nat \ {0}

VARIABLES
  inbox,        \* the notifications as the forge has them, newest first
  input,        \* whether there may be more input on the terminal
  list,         \* struct gcli_notification_list
  screen,       \* the table printed last
  pc,           \* where gcli is
  notif,        \* the row that was opened, 0 for none
  printer,      \* where the printer is
  sent,         \* lines the printer has written
  pager,        \* where the pager is
  fds,          \* ends of the pipe each of the two holds open, by descriptor
  pipe,         \* lines in the pipe
  shown,        \* lines the pager has shown
  whole         \* whether the pager has seen the end of its input

forge == <<inbox, input>>
menu == <<list, screen, notif>>
text == <<pipe, shown, whole>>
vars == <<forge, menu, pc, printer, sent, pager, fds, text>>

NoPager ==
  /\ printer = "none" /\ sent = 0
  /\ pager = "none"
  /\ fds = [p \in {"printer", "pager"} |-> {}]
  /\ pipe = <<>> /\ shown = <<>> /\ whole = FALSE

Init ==
  /\ inbox \in UNION {[1..n -> Threads] : n \in 0..MaxRows}
  /\ IsInjective(inbox)
  /\ input = TRUE
  /\ list = <<>> /\ screen = <<>> /\ notif = 0
  /\ pc = "start"
  /\ NoPager

-----------------------------------------------------------------------------
(* The rest of the world: other people, other clients, the terminal.       *)

Notify(t) ==
  /\ Len(inbox) < MaxRows /\ t \notin ToSet(inbox)
  /\ inbox' = <<t>> \o inbox
  /\ UNCHANGED <<input, menu, pc, printer, sent, pager, fds, text>>

ReadElsewhere(n) ==
  /\ n \in DOMAIN inbox
  /\ inbox' = RemoveAt(inbox, n)
  /\ UNCHANGED <<input, menu, pc, printer, sent, pager, fds, text>>

InputEnds ==
  /\ input /\ input' = FALSE
  /\ UNCHANGED <<inbox, menu, pc, printer, sent, pager, fds, text>>

-----------------------------------------------------------------------------
(* gcli *)

Goto(place) ==
  /\ pc' = place
  /\ UNCHANGED <<forge, printer, sent, pager, fds, text>>

\* subcommand_status without options
StartSession == pc = "start" /\ Goto("refresh") /\ UNCHANGED menu

\* -l does not look at the return code of gcli_status_list.
ListOnly ==
  /\ pc = "start"
  /\ screen' \in {inbox, <<>>}
  /\ Goto("exit0") /\ UNCHANGED <<list, notif>>

\* -m
MarkOnly(n) ==
  /\ pc = "start" /\ n \in DOMAIN inbox
  /\ inbox' = RemoveAt(inbox, n)
  /\ pc' = "exit0"
  /\ UNCHANGED <<input, menu, printer, sent, pager, fds, text>>

\* Wrong options, no notification to mark, and every failed request.
Fails ==
  /\ pc \in {"start", "refresh", "item", "comments", "fork"}
  /\ Goto("exit1") /\ UNCHANGED menu

\* Mutant: the list is fetched again and not printed.
MutRefresh ==
  /\ pc = "refresh"
  /\ list' = inbox /\ screen' = IF screen = <<>> THEN inbox ELSE screen
  /\ Goto("prompt") /\ UNCHANGED notif

\* refresh_notifications and print_notification_table
Refresh ==
  /\ pc = "refresh"
  /\ list' = inbox /\ screen' = inbox
  /\ Goto("prompt") /\ UNCHANGED notif

\* gcli_cmd_prompt without a default, at the end of the input: the line is
\* empty, and the prompt or its caller asks again.
AskAgain == pc \in {"prompt", "what"} /\ ~input /\ UNCHANGED vars

\* An answer that neither prompt knows, and "status".
OtherAnswer == pc \in {"prompt", "what"} /\ input /\ UNCHANGED vars

Quit ==
  /\ pc \in {"prompt", "what"} /\ input
  /\ notif' = 0
  /\ Goto(IF pc = "prompt" THEN "exit0" ELSE "prompt")
  /\ UNCHANGED <<list, screen>>

ListAgain == pc = "prompt" /\ input /\ Goto("refresh") /\ UNCHANGED menu

\* notification_handlers
Handled == {"issue", "pull"}

\* Mutant: one number too many is taken.
MutPick(n) ==
  /\ pc = "prompt" /\ input
  /\ n \in 1..Len(list) + 1
  /\ n \in DOMAIN list => Kind[list[n]] \in Handled
  /\ notif' = n
  /\ Goto("item") /\ UNCHANGED <<list, screen>>

\* status_interactive_notification
Pick(n) ==
  /\ pc = "prompt" /\ input
  /\ n \in 1..Len(list) /\ Kind[list[n]] \in Handled
  /\ notif' = n
  /\ Goto("item") /\ UNCHANGED <<list, screen>>

Unsupported(n) ==
  /\ pc = "prompt" /\ input
  /\ n \in 1..Len(list) /\ Kind[list[n]] \notin Handled
  /\ UNCHANGED vars

FetchIssue ==
  /\ pc = "item" /\ Kind[list[notif]] = "issue"
  /\ Goto("what") /\ UNCHANGED menu

FetchPull ==
  /\ pc = "item" /\ Kind[list[notif]] = "pull"
  /\ Goto("what") /\ UNCHANGED menu

AskForDiscussion ==
  /\ pc = "what" /\ input
  /\ Goto("comments") /\ UNCHANGED menu

FetchComments == pc = "comments" /\ Goto("fork") /\ UNCHANGED menu

\* gcli_cmd_into_pager.  A pager that an earlier, failed printer left behind
\* is not followed any further.
Fork ==
  /\ pc = "fork" /\ pc' = "wait"
  /\ printer' = "start" /\ sent' = 0
  /\ pager' = "none"
  /\ fds' = [p \in DOMAIN fds |-> {}]
  /\ pipe' = <<>> /\ shown' = <<>> /\ whole' = FALSE
  /\ UNCHANGED <<forge, menu>>

Gone == {"exited", "failed", "killed"}

\* Whatever became of the printer.
Reap == pc = "wait" /\ printer \in Gone /\ Goto("what") /\ UNCHANGED menu

-----------------------------------------------------------------------------
(* The printer.  err() ends it, and with it its descriptors are closed.    *)

HasReader == \E p \in DOMAIN fds : fds[p] \cap {"fds[0]", "stdin"} # {}
HasWriter == \E p \in DOMAIN fds : fds[p] \cap {"fds[1]", "stdout"} # {}

Lines == Discussion[list[notif]]

PrinterGoes(from, to) ==
  /\ printer = from /\ printer' = to
  /\ UNCHANGED <<forge, menu, pc>>

MakePipe ==
  /\ PrinterGoes("start", "fork")
  /\ fds' = [fds EXCEPT !["printer"] = {"fds[0]", "fds[1]"}]
  /\ UNCHANGED <<sent, pager, text>>

ForkPager ==
  /\ PrinterGoes("fork", "close")
  /\ pager' = "start"
  /\ fds' = [fds EXCEPT !["pager"] = fds["printer"]]
  /\ UNCHANGED <<sent, text>>

CloseRead ==
  /\ PrinterGoes("close", "dup2")
  /\ fds' = [fds EXCEPT !["printer"] = @ \ {"fds[0]"}]
  /\ UNCHANGED <<sent, pager, text>>

DupStdout ==
  /\ PrinterGoes("dup2", "print")
  /\ fds' = [fds EXCEPT !["printer"] = @ \cup {"stdout"}]
  /\ UNCHANGED <<sent, pager, text>>

\* print_comment_list; a full pipe blocks it.
Write ==
  /\ PrinterGoes("print", "print")
  /\ sent < Len(Lines) /\ HasReader /\ Len(pipe) < PipeSize
  /\ sent' = sent + 1
  /\ pipe' = Append(pipe, Lines[sent + 1])
  /\ UNCHANGED <<pager, fds, shown, whole>>

\* SIGPIPE
WriteInVain ==
  /\ PrinterGoes("print", "killed")
  /\ sent < Len(Lines) /\ ~HasReader
  /\ fds' = [fds EXCEPT !["printer"] = {}]
  /\ UNCHANGED <<sent, pager, text>>

\* pipe or fork fails, or the date of a comment cannot be formatted.
PrinterFails ==
  /\ \/ printer \in {"start", "fork"}
     \/ printer = "print" /\ sent < Len(Lines)
  /\ PrinterGoes(printer, "failed")
  /\ fds' = [fds EXCEPT !["printer"] = {}]
  /\ UNCHANGED <<sent, pager, text>>

CloseStdout ==
  /\ PrinterGoes("print", "close2")
  /\ sent = Len(Lines)
  /\ fds' = [fds EXCEPT !["printer"] = @ \ {"stdout"}]
  /\ UNCHANGED <<sent, pager, text>>

CloseWrite ==
  /\ PrinterGoes("close2", "waitpid")
  /\ fds' = [fds EXCEPT !["printer"] = @ \ {"fds[1]"}]
  /\ UNCHANGED <<sent, pager, text>>

\* Mutant: the printer does not wait for the pager.
MutWaitForPager ==
  /\ PrinterGoes("waitpid", "exited")
  /\ UNCHANGED <<sent, pager, fds, text>>

WaitForPager ==
  /\ PrinterGoes("waitpid", "exited")
  /\ pager = "exited"
  /\ UNCHANGED <<sent, pager, fds, text>>

-----------------------------------------------------------------------------
(* The pager: a child of the printer up to its exec, then another program. *)

PagerGoes(from, to) ==
  /\ pager = from /\ pager' = to
  /\ UNCHANGED <<forge, menu, pc, printer, sent>>

DupStdin ==
  /\ PagerGoes("start", "close")
  /\ fds' = [fds EXCEPT !["pager"] = @ \cup {"stdin"}]
  /\ UNCHANGED text

\* Mutant: the pager keeps the end it does not write to.
MutPagerCloses ==
  /\ PagerGoes("close", "exec")
  /\ UNCHANGED <<fds, text>>

PagerCloses ==
  /\ PagerGoes("close", "exec")
  /\ fds' = [fds EXCEPT !["pager"] = @ \ {"fds[1]"}]
  /\ UNCHANGED text

Exec == PagerGoes("exec", "reads") /\ UNCHANGED <<fds, text>>

ExecFails ==
  /\ PagerGoes("exec", "exited")
  /\ fds' = [fds EXCEPT !["pager"] = {}]
  /\ UNCHANGED text

Read ==
  /\ PagerGoes("reads", "reads") /\ pipe # <<>>
  /\ shown' = Append(shown, Head(pipe))
  /\ pipe' = Tail(pipe)
  /\ UNCHANGED <<fds, whole>>

ReadEnd ==
  /\ PagerGoes("reads", "end") /\ pipe = <<>> /\ ~HasWriter
  /\ whole' = TRUE
  /\ UNCHANGED <<fds, pipe, shown>>

\* The user has seen the end, or enough.
LeavePager(from) ==
  /\ PagerGoes(from, "exited")
  /\ fds' = [fds EXCEPT !["pager"] = {}]
  /\ UNCHANGED text

-----------------------------------------------------------------------------
World ==
  \/ \E t \in Threads : Notify(t)
  \/ \E n \in 1..Len(inbox) : ReadElsewhere(n)
  \/ InputEnds

User ==
  \/ StartSession \/ ListOnly \/ \E n \in 1..Len(inbox) : MarkOnly(n)
  \/ OtherAnswer \/ Quit \/ ListAgain \/ AskForDiscussion
  \/ \E n \in 1..Len(list) + 1 : Pick(n) \/ Unsupported(n)
  \/ LeavePager("reads")

Gcli ==
  \/ Refresh \/ FetchIssue \/ FetchPull \/ FetchComments \/ Fork \/ Reap
  \/ AskAgain

Printer ==
  \/ MakePipe \/ ForkPager \/ CloseRead \/ DupStdout \/ Write \/ WriteInVain
  \/ CloseStdout \/ CloseWrite \/ WaitForPager

Pager == DupStdin \/ PagerCloses \/ Exec \/ Read \/ ReadEnd

Next ==
  \/ World \/ User \/ Gcli \/ Printer \/ Pager
  \/ Fails \/ PrinterFails \/ ExecFails \/ LeavePager("end")

\* The kernel runs every process; a user who has read to the end leaves the
\* pager.  Nobody has to answer a prompt.
Spec ==
  /\ Init /\ [][Next]_vars
  /\ WF_vars(Gcli) /\ WF_vars(Printer) /\ WF_vars(Pager)
  /\ WF_vars(LeavePager("end"))

-----------------------------------------------------------------------------
\* The states of the three processes; the row that is open is one of the list.
TypeOK ==
  /\ inbox \in Seq(Threads) /\ list \in Seq(Threads) /\ screen \in Seq(Threads)
  /\ input \in BOOLEAN
  /\ pc \in {"start", "refresh", "prompt", "item", "what", "comments", "fork",
             "wait", "exit0", "exit1"}
  /\ notif \in 0..Len(list)
  /\ printer \in {"none", "start", "fork", "close", "dup2", "print", "close2",
                  "waitpid"} \cup Gone
  /\ pager \in {"none", "start", "close", "exec", "reads", "end", "exited"}
  /\ fds \in [{"printer", "pager"} ->
                SUBSET {"fds[0]", "fds[1]", "stdin", "stdout"}]
  /\ sent \in Nat
  /\ pipe \in Seq(STRING) /\ Len(pipe) <= PipeSize
  /\ shown \in Seq(STRING) /\ whole \in BOOLEAN

\* The discussion in the pager is the one of the row the user saw in the
\* table, from its first line, and all of it once the pager is at its end,
\* unless a comment could not be printed.
ShowsTheThread ==
  pc = "wait" =>
    /\ notif \in DOMAIN screen
    /\ IsPrefix(shown, Discussion[screen[notif]])
    /\ whole /\ printer # "failed" => shown = Discussion[screen[notif]]

\* gcli and the pager never read from the terminal at the same time, unless
\* the printer has failed: then nobody waits for the pager.
OneReader ==
  pc \in {"prompt", "what"} /\ printer # "failed" =>
    pager \in {"none", "exited"}

\* A discussion that was asked for ends in the prompt again: the pager sees
\* the end of its input, and no process waits for one that waits for it.
BackToPrompt == (pc = "wait") ~> (pc = "what")

=============================================================================
