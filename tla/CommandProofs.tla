---------------------------- MODULE CommandProofs ----------------------------
(***************************************************************************)
(* Proofs about the program around a subcommand: Interactive, for any      *)
(* threads and discussions, any number of notifications and a pipe of any  *)
(* size; and Startup, for any configuration file, tables of commands and   *)
(* aliases, .gcli and .git/config files, environment and arguments.        *)
(***************************************************************************)
EXTENDS Interactive, Startup, Induction

-----------------------------------------------------------------------------
(* Interactive: the steps by what they leave alone.                         *)

processes == <<printer, sent, pager, fds, text>>

\* gcli talks to the user and the forge; there is no printer at work.
MenuStep ==
  \/ StartSession \/ ListOnly \/ \E n \in 1..Len(inbox) : MarkOnly(n)
  \/ Quit \/ ListAgain \/ AskForDiscussion
  \/ \E n \in 1..Len(list) + 1 : Pick(n)
  \/ Refresh \/ FetchIssue \/ FetchPull \/ FetchComments \/ Reap \/ Fails

PrinterStep == Printer \/ PrinterFails

PagerStep ==
  Pager \/ ExecFails \/ LeavePager("reads") \/ LeavePager("end")

LEMMA Steps ==
  ASSUME [Next]_vars
  PROVE  \/ World \/ MenuStep \/ Fork \/ PrinterStep \/ PagerStep
         \/ UNCHANGED vars
BY DEF Next, User, Gcli, MenuStep, PrinterStep, PagerStep, AskAgain,
       OtherAnswer, Unsupported

LEMMA MenuFrame == ASSUME MenuStep PROVE UNCHANGED processes /\ pc' # "wait"
BY DEF MenuStep, StartSession, ListOnly, MarkOnly, Quit, ListAgain,
       AskForDiscussion, Pick, Refresh, FetchIssue, FetchPull, FetchComments,
       Reap, Fails, Goto, processes, text

LEMMA WorldFrame ==
  ASSUME World PROVE UNCHANGED <<menu, pc, processes>>
BY DEF World, Notify, ReadElsewhere, InputEnds, processes, menu, text

LEMMA PrinterFrame ==
  ASSUME PrinterStep
  PROVE  UNCHANGED <<forge, menu, pc, shown, whole>>
BY DEF PrinterStep, Printer, PrinterFails, PrinterGoes, MakePipe, ForkPager,
       CloseRead, DupStdout, Write, WriteInVain, CloseStdout, CloseWrite,
       WaitForPager, text

LEMMA PagerFrame ==
  ASSUME PagerStep PROVE UNCHANGED <<forge, menu, pc, printer, sent>>
BY DEF PagerStep, Pager, ExecFails, LeavePager, DupStdin, PagerCloses, Exec,
       Read, ReadEnd, PagerGoes

-----------------------------------------------------------------------------
(* Types, and which row of which table is open where gcli is. *)

Menu ==
  /\ pc \in {"start", "refresh", "prompt"} => notif = 0
  /\ pc \in {"item", "what", "comments", "fork", "wait"} =>
       notif \in 1..Len(list)
  /\ pc \in {"prompt", "item", "what", "comments", "fork", "wait"} =>
       screen = list
  /\ pc # "wait" => printer \in Gone \cup {"none"}

TypeInv == TypeOK /\ Menu

Fds == [{"printer", "pager"} -> SUBSET {"fds[0]", "fds[1]", "stdin", "stdout"}]

\* A list without one of its rows is a list.
LEMMA Removed ==
  ASSUME NEW S, NEW s \in Seq(S), NEW n \in DOMAIN s
  PROVE  RemoveAt(s, n) \in Seq(S)
<1>1. Len(s) \in Nat /\ n \in 1..Len(s) /\ \A i \in 1..Len(s) : s[i] \in S
  BY LenProperties, ElementOfSeq
<1>2. SubSeq(s, 1, n - 1) \in Seq(S)
  BY <1>1, SubSeqProperties
<1>3. SubSeq(s, n + 1, Len(s)) \in Seq(S)
  BY <1>1, SubSeqProperties
<1>4. QED
  BY <1>2, <1>3, ConcatProperties DEF RemoveAt

\* The lines of the thread that is open.
LEMMA LinesType ==
  ASSUME TypeOK, notif \in 1..Len(list)
  PROVE  Lines \in Seq(STRING) /\ Len(Lines) \in Nat
<1>1. list[notif] \in Threads
  BY ElementOfSeq DEF TypeOK
<1>2. QED
  BY <1>1, ThreadsAssumption, LenProperties DEF Lines

LEMMA TypeInit == Init => TypeInv
<1> SUFFICES ASSUME Init PROVE TypeInv
  OBVIOUS
<1>1. inbox \in Seq(Threads)
  BY BoundsAssumption, SeqDef DEF Init
<1>2. list \in Seq(Threads) /\ screen \in Seq(Threads) /\ Len(list) = 0
  BY EmptySeq DEF Init
<1>3. /\ pipe \in Seq(STRING) /\ Len(pipe) <= PipeSize
      /\ shown \in Seq(STRING)
  BY EmptySeq, BoundsAssumption DEF Init, NoPager
<1>4. fds \in Fds
  BY DEF Init, NoPager, Fds
<1>5. /\ input = TRUE /\ notif = 0 /\ pc = "start" /\ printer = "none"
      /\ sent = 0 /\ pager = "none" /\ whole = FALSE
  BY DEF Init, NoPager
<1>6. TypeOK
  <2>1. notif \in 0..Len(list) /\ sent \in Nat
    BY <1>2, <1>5
  <2>2. QED
    BY <1>1, <1>2, <1>3, <1>4, <1>5, <2>1 DEF TypeOK, Fds
<1>7. Menu
  BY <1>5 DEF Menu
<1>8. QED
  BY <1>6, <1>7 DEF TypeInv

LEMMA TypeWorld == ASSUME TypeInv, World PROVE TypeInv'
<1>1. inbox' \in Seq(Threads) /\ input' \in BOOLEAN
  <2>1. CASE \E t \in Threads : Notify(t)
    <3>1. PICK t \in Threads : Notify(t)
      BY <2>1
    <3>2. <<t>> \in Seq(Threads)
      OBVIOUS
    <3>3. QED
      BY <3>1, <3>2, ConcatProperties DEF Notify, TypeInv, TypeOK
  <2>2. CASE \E n \in 1..Len(inbox) : ReadElsewhere(n)
    BY <2>2, Removed DEF ReadElsewhere, TypeInv, TypeOK
  <2>3. CASE InputEnds
    BY <2>3 DEF InputEnds, TypeInv, TypeOK
  <2>4. QED
    BY <2>1, <2>2, <2>3 DEF World
<1>2. QED
  BY <1>1, WorldFrame DEF TypeInv, TypeOK, Menu, menu, processes, text

LEMMA TypeMenu == ASSUME TypeInv, MenuStep PROVE TypeInv'
<1>0. /\ list \in Seq(Threads) /\ Len(list) \in Nat /\ inbox \in Seq(Threads)
      /\ Len(inbox) \in Nat
  BY LenProperties DEF TypeInv, TypeOK
<1>1. UNCHANGED processes
  BY MenuFrame
<1>2. CASE \E n \in 1..Len(inbox) : MarkOnly(n)
  <2>1. PICK n \in 1..Len(inbox) : MarkOnly(n)
    BY <1>2
  <2>2. inbox' \in Seq(Threads)
    BY <1>0, <2>1, Removed DEF MarkOnly
  <2>3. UNCHANGED <<input, menu>> /\ pc = "start" /\ pc' = "exit0"
    BY <2>1 DEF MarkOnly
  <2>4. QED
    BY <1>1, <2>2, <2>3 DEF TypeInv, TypeOK, Menu, menu, processes, text
<1>3. CASE ~\E n \in 1..Len(inbox) : MarkOnly(n)
  <2>1. UNCHANGED forge
    BY <1>3 DEF MenuStep, StartSession, ListOnly, Quit, ListAgain,
       AskForDiscussion, Pick, Refresh, FetchIssue, FetchPull, FetchComments,
       Reap, Fails, Goto
  <2>2. /\ list' \in Seq(Threads) /\ screen' \in Seq(Threads)
        /\ notif' \in 0..Len(list')
        /\ pc' \in {"refresh", "prompt", "item", "what", "comments", "fork",
                    "exit0", "exit1"}
        /\ Menu'
    <3>1. CASE StartSession \/ ListAgain \/ AskForDiscussion \/ FetchIssue
                 \/ FetchPull \/ FetchComments \/ Reap \/ Fails
      BY <1>0, <1>1, <3>1 DEF StartSession, ListAgain, AskForDiscussion,
         FetchIssue, FetchPull, FetchComments, Reap, Fails, Goto, TypeInv,
         TypeOK, Menu, menu, processes
    <3>2. CASE ListOnly
      BY <1>0, <1>1, <3>2, EmptySeq
      DEF ListOnly, Goto, TypeInv, TypeOK, Menu, processes
    <3>3. CASE Quit
      BY <1>0, <1>1, <3>3 DEF Quit, Goto, TypeInv, TypeOK, Menu, processes
    <3>4. CASE \E n \in 1..Len(list) + 1 : Pick(n)
      BY <1>0, <1>1, <3>4 DEF Pick, Goto, TypeInv, TypeOK, Menu, processes
    <3>5. CASE Refresh
      BY <1>0, <1>1, <3>5 DEF Refresh, Goto, TypeInv, TypeOK, Menu, processes
    <3>6. QED
      BY <1>3, <3>1, <3>2, <3>3, <3>4, <3>5 DEF MenuStep
  <2>3. QED
    BY <1>1, <2>1, <2>2 DEF TypeInv, TypeOK, forge, processes, text
<1>4. QED
  BY <1>2, <1>3

LEMMA TypeFork == ASSUME TypeInv, Fork PROVE TypeInv'
<1>1. <<>> \in Seq(STRING) /\ Len(<<>>) <= PipeSize
  BY EmptySeq, BoundsAssumption
<1>2. fds' \in Fds
  BY DEF Fork, TypeInv, TypeOK, Fds
<1>3. QED
  BY <1>1, <1>2 DEF Fork, TypeInv, TypeOK, Menu, menu, forge, Gone, Fds

LEMMA TypePrinter == ASSUME TypeInv, PrinterStep PROVE TypeInv'
<1>1. UNCHANGED <<forge, menu, pc, shown, whole>>
  BY PrinterFrame
<1>2. printer \notin Gone \cup {"none"} /\ pc = "wait"
  BY DEF PrinterStep, Printer, PrinterFails, PrinterGoes, MakePipe, ForkPager,
     CloseRead, DupStdout, Write, WriteInVain, CloseStdout, CloseWrite,
     WaitForPager, Gone, TypeInv, Menu
<1>3. fds' \in Fds
  BY DEF PrinterStep, Printer, PrinterFails, PrinterGoes, MakePipe, ForkPager,
     CloseRead, DupStdout, Write, WriteInVain, CloseStdout, CloseWrite,
     WaitForPager, TypeInv, TypeOK, Fds
<1>4. CASE Write
  <2>1. Lines \in Seq(STRING) /\ Len(Lines) \in Nat /\ sent \in Nat
    BY <1>2, LinesType DEF TypeInv, TypeOK, Menu
  <2>2. Lines[sent + 1] \in STRING
    BY <1>4, <2>1, ElementOfSeq DEF Write
  <2>3. pipe' \in Seq(STRING) /\ Len(pipe') = Len(pipe) + 1
    BY <1>4, <2>2, AppendProperties DEF Write, TypeInv, TypeOK
  <2>4. Len(pipe') <= PipeSize
    BY <1>4, <2>3, BoundsAssumption, LenProperties DEF Write, TypeInv, TypeOK
  <2>5. QED
    BY <1>1, <1>2, <1>3, <1>4, <2>1, <2>3, <2>4
    DEF Write, PrinterGoes, TypeInv, TypeOK, Menu, forge, menu, Fds
<1>5. CASE ~Write
  <2>1. UNCHANGED <<sent, pipe>>
          /\ pager' \in {pager, "start"}
          /\ printer' \in {"fork", "close", "dup2", "print", "close2",
                           "waitpid"} \cup Gone
    BY <1>5 DEF PrinterStep, Printer, PrinterFails, PrinterGoes, MakePipe,
       ForkPager, CloseRead, DupStdout, WriteInVain, CloseStdout, CloseWrite,
       WaitForPager, text, Gone
  <2>2. QED
    BY <1>1, <1>2, <1>3, <2>1 DEF TypeInv, TypeOK, Menu, forge, menu, Fds
<1>6. QED
  BY <1>4, <1>5

LEMMA TypePager == ASSUME TypeInv, PagerStep PROVE TypeInv'
<1>1. UNCHANGED <<forge, menu, pc, printer, sent>>
  BY PagerFrame
<1>2. /\ fds' \in Fds /\ whole' \in BOOLEAN
      /\ pager' \in {"close", "exec", "reads", "end", "exited"}
  BY DEF PagerStep, Pager, ExecFails, LeavePager, DupStdin, PagerCloses, Exec,
     Read, ReadEnd, PagerGoes, text, TypeInv, TypeOK, Fds
<1>3. /\ pipe' \in Seq(STRING) /\ Len(pipe') <= PipeSize
      /\ shown' \in Seq(STRING)
  <2>1. CASE Read
    <3>1. Head(pipe) \in STRING /\ Tail(pipe) \in Seq(STRING)
            /\ Len(Tail(pipe)) = Len(pipe) - 1
      BY <2>1, HeadTailProperties DEF Read, TypeInv, TypeOK
    <3>2. shown' \in Seq(STRING)
      BY <2>1, <3>1, AppendProperties DEF Read, TypeInv, TypeOK
    <3>3. QED
      BY <2>1, <3>1, <3>2, BoundsAssumption, LenProperties
      DEF Read, TypeInv, TypeOK
  <2>2. CASE ~Read
    BY <2>2 DEF PagerStep, Pager, ExecFails, LeavePager, DupStdin,
       PagerCloses, Exec, ReadEnd, PagerGoes, text, TypeInv, TypeOK
  <2>3. QED
    BY <2>1, <2>2
<1>4. QED
  BY <1>1, <1>2, <1>3 DEF TypeInv, TypeOK, Menu, forge, menu, Fds

LEMMA TypeNext == TypeInv /\ [Next]_vars => TypeInv'
<1> SUFFICES ASSUME TypeInv, [Next]_vars PROVE TypeInv'
  OBVIOUS
<1>1. CASE UNCHANGED vars
  BY <1>1 DEF vars, TypeInv, TypeOK, Menu, forge, menu, text
<1>2. QED
  BY <1>1, Steps, TypeWorld, TypeMenu, TypeFork, TypePrinter, TypePager

\* The states of the three processes, and the row that is open.
THEOREM TypeCorrect == Spec => []TypeOK
<1>1. TypeInv => TypeOK
  BY DEF TypeInv
<1>2. QED
  BY <1>1, TypeInit, TypeNext, PTL DEF Spec

-----------------------------------------------------------------------------
(* Who holds which end of the pipe, and what is left of the two processes.  *)

Alive == {"start", "close", "exec", "reads", "end"}
Running == {"close", "dup2", "print", "close2", "waitpid"}
MayWrite == {"fork", "close", "dup2", "print", "close2"}

Processes ==
  /\ printer \in {"none", "start", "fork"} => pager = "none"
  /\ printer \in Running => pager # "none"
  /\ printer \in {"exited", "killed"} => pager = "exited"
  /\ printer = "fork" => "fds[0]" \in fds["printer"]
  /\ printer \in MayWrite => "fds[1]" \in fds["printer"]
  /\ pager \in Alive => "fds[0]" \in fds["pager"]

\* The ends that are held while a process is at work.
LEMMA Ends ==
  ASSUME TypeInv, Processes
  PROVE  /\ pager \in Alive => HasReader
         /\ printer \in MayWrite => HasWriter
<1>1. DOMAIN fds = {"printer", "pager"}
  BY DEF TypeInv, TypeOK
<1>2. QED
  BY <1>1 DEF Processes, HasReader, HasWriter

LEMMA ProcessesPrinter ==
  ASSUME TypeInv, Processes, PrinterStep PROVE Processes'
<1>0. fds \in Fds
  BY DEF TypeInv, TypeOK, Fds
<1>1. CASE MakePipe
  BY <1>0, <1>1
  DEF MakePipe, PrinterGoes, Processes, Fds, Running, MayWrite, Alive
<1>2. CASE ForkPager
  <2>1. /\ printer = "fork" /\ printer' = "close" /\ pager' = "start"
        /\ fds'["printer"] = fds["printer"] /\ fds'["pager"] = fds["printer"]
    BY <1>0, <1>2 DEF ForkPager, PrinterGoes, Fds
  <2>2. QED
    BY <2>1 DEF Processes, Running, MayWrite, Alive
<1>3. CASE CloseRead \/ DupStdout \/ CloseStdout
  <2>1. /\ printer \in MayWrite \cap Running /\ printer' \in MayWrite \cap Running
        /\ pager' = pager /\ fds'["pager"] = fds["pager"]
        /\ "fds[1]" \in fds["printer"] => "fds[1]" \in fds'["printer"]
        /\ printer' # "fork"
    BY <1>0, <1>3 DEF CloseRead, DupStdout, CloseStdout, PrinterGoes, Fds,
       Running, MayWrite
  <2>2. QED
    BY <2>1 DEF Processes, Running, MayWrite
<1>4. CASE Write
  BY <1>4 DEF Write, PrinterGoes, Processes
<1>5. CASE WriteInVain
  <2>1. pager = "exited"
    BY <1>5, Ends DEF WriteInVain, PrinterGoes, Processes, TypeInv, TypeOK,
       Alive, Running
  <2>2. QED
    BY <1>5, <2>1
    DEF WriteInVain, PrinterGoes, Processes, Running, MayWrite, Alive
<1>6. CASE CloseWrite
  BY <1>0, <1>6
  DEF CloseWrite, PrinterGoes, Processes, Fds, Running, MayWrite, Alive
<1>7. CASE WaitForPager
  BY <1>7 DEF WaitForPager, PrinterGoes, Processes, Running, MayWrite, Alive
<1>8. CASE PrinterFails
  <2>1. /\ printer' = "failed" /\ pager' = pager
        /\ fds'["pager"] = fds["pager"]
    BY <1>0, <1>8 DEF PrinterFails, PrinterGoes, Fds
  <2>2. QED
    BY <2>1 DEF Processes, Running, MayWrite
<1>9. QED
  BY <1>1, <1>2, <1>3, <1>4, <1>5, <1>6, <1>7, <1>8 DEF PrinterStep, Printer

LEMMA ProcessesPager ==
  ASSUME TypeInv, Processes, PagerStep PROVE Processes'
<1>1. fds \in Fds
  BY DEF TypeInv, TypeOK, Fds
<1>2. pager \in Alive /\ pager' \in Alive \cup {"exited"}
  BY DEF PagerStep, Pager, ExecFails, LeavePager, DupStdin, PagerCloses, Exec,
     Read, ReadEnd, PagerGoes, Alive
<1>3. printer' = printer /\ fds'["printer"] = fds["printer"]
  BY <1>1 DEF PagerStep, Pager, ExecFails, LeavePager, DupStdin, PagerCloses,
     Exec, Read, ReadEnd, PagerGoes, Fds
<1>4. pager' \in Alive =>
        ("fds[0]" \in fds["pager"] => "fds[0]" \in fds'["pager"])
  BY <1>1 DEF PagerStep, Pager, ExecFails, LeavePager, DupStdin, PagerCloses,
     Exec, Read, ReadEnd, PagerGoes, Fds, Alive
<1>5. pager' # "none" /\ pager # "exited" /\ pager # "none"
  BY <1>2 DEF Alive
<1>6. QED
  BY <1>2, <1>3, <1>4, <1>5 DEF Processes

LEMMA ProcessesNext ==
  TypeInv /\ Processes /\ [Next]_vars => Processes'
<1> SUFFICES ASSUME TypeInv, Processes, [Next]_vars PROVE Processes'
  OBVIOUS
<1>1. CASE World
  BY <1>1, WorldFrame DEF Processes, processes
<1>2. CASE MenuStep
  BY <1>2, MenuFrame DEF Processes, processes
<1>3. CASE Fork
  BY <1>3 DEF Fork, Processes, Running, MayWrite, Alive
<1>4. CASE UNCHANGED vars
  BY <1>4 DEF vars, Processes
<1>5. QED
  BY <1>1, <1>2, <1>3, <1>4, Steps, ProcessesPrinter, ProcessesPager

LEMMA ProcessesAlways == Spec => [](TypeInv /\ Processes)
<1>1. Init => Processes
  BY DEF Init, NoPager, Processes, Running, MayWrite, Alive
<1>2. QED
  BY <1>1, TypeInit, TypeNext, ProcessesNext, PTL DEF Spec

\* gcli and the pager do not share the terminal, whatever killed either of
\* the two processes, unless the printer could not finish
\* (gcli_cmd_into_pager of interactive.c).
THEOREM OneReaderAtATime == Spec => []OneReader
<1>1. TypeInv /\ Processes => OneReader
  BY DEF TypeInv, Menu, Processes, OneReader, Gone
<1>2. QED
  BY <1>1, ProcessesAlways, PTL

-----------------------------------------------------------------------------
(* What has gone through the pipe.  At the end of its input the pager has   *)
(* all of it only because the pipe is drained and no end for writing left.  *)

Transfer ==
  /\ whole => /\ pipe = <<>>
              /\ printer \in {"waitpid", "exited", "failed"}
              /\ pager \in {"end", "exited"}
  /\ pc = "wait" =>
       /\ sent = Len(shown) + Len(pipe) /\ sent <= Len(Lines)
       /\ \A i \in 1..Len(shown) : shown[i] = Lines[i]
       /\ \A i \in 1..Len(pipe) : pipe[i] = Lines[Len(shown) + i]
       /\ printer \in {"close2", "waitpid", "exited"} => sent = Len(Lines)

LEMMA TransferPrinter ==
  ASSUME TypeInv, Processes, Transfer, PrinterStep PROVE Transfer'
<1>0. /\ Len(pipe) \in Nat /\ Len(shown) \in Nat /\ Len(Lines) \in Nat
      /\ sent \in Nat /\ pc = "wait"
  <2>1. pc = "wait"
    BY DEF PrinterStep, Printer, PrinterFails, PrinterGoes, MakePipe,
       ForkPager, CloseRead, DupStdout, Write, WriteInVain, CloseStdout,
       CloseWrite, WaitForPager, Gone, TypeInv, Menu
  <2>2. QED
    BY <2>1, LenProperties, LinesType DEF TypeInv, TypeOK, Menu
<1>1. UNCHANGED <<pc, shown, whole>> /\ Lines' = Lines
  BY PrinterFrame DEF menu, Lines
<1>2. CASE Write
  <2>1. printer = "print" /\ printer' = "print" /\ whole = FALSE
          /\ sent < Len(Lines) /\ sent' = sent + 1
    BY <1>2 DEF Write, PrinterGoes, Transfer, TypeInv, TypeOK
  <2>2. Lines[sent + 1] \in STRING
    BY <1>0, <2>1, LinesType, ElementOfSeq DEF TypeInv, Menu
  <2>3. /\ Len(pipe') = Len(pipe) + 1
        /\ \A i \in 1..Len(pipe) : pipe'[i] = pipe[i]
        /\ pipe'[Len(pipe) + 1] = Lines[sent + 1]
    BY <1>2, <2>2, AppendProperties DEF Write, TypeInv, TypeOK
  <2>4. \A i \in 1..Len(pipe') : pipe'[i] = Lines[Len(shown) + i]
    <3>1. /\ \A i \in 1..Len(pipe) : pipe[i] = Lines[Len(shown) + i]
          /\ sent = Len(shown) + Len(pipe)
      BY <1>0 DEF Transfer
    <3>2. sent + 1 = Len(shown) + (Len(pipe) + 1)
      BY <1>0, <3>1
    <3>3. ASSUME NEW i \in 1..Len(pipe')
          PROVE  pipe'[i] = Lines[Len(shown) + i]
      <4>1. i \in 1..Len(pipe) \/ i = Len(pipe) + 1
        BY <1>0, <2>3
      <4>2. QED
        BY <2>3, <3>1, <3>2, <4>1
    <3>4. QED
      BY <3>3
  <2>5. sent' = Len(shown) + Len(pipe') /\ sent' <= Len(Lines)
    BY <1>0, <2>1, <2>3 DEF Transfer
  <2>6. QED
    BY <1>0, <1>1, <2>1, <2>4, <2>5 DEF Transfer
<1>3. CASE CloseStdout
  <2>1. /\ printer = "print" /\ printer' = "close2" /\ sent = Len(Lines)
        /\ UNCHANGED <<sent, pager, pipe>>
    BY <1>3 DEF CloseStdout, PrinterGoes, text
  <2>2. QED
    BY <1>0, <1>1, <2>1 DEF Transfer
<1>4. CASE CloseWrite \/ WaitForPager
  <2>1. /\ printer \in {"close2", "waitpid"}
        /\ printer' \in {"waitpid", "exited"}
        /\ UNCHANGED <<sent, pager, pipe>>
    BY <1>4 DEF CloseWrite, WaitForPager, PrinterGoes, text
  <2>2. QED
    BY <1>0, <1>1, <2>1 DEF Transfer
<1>5. CASE MakePipe \/ ForkPager \/ CloseRead \/ DupStdout \/ WriteInVain
             \/ PrinterFails
  <2>1. /\ printer \notin {"waitpid", "exited", "failed"}
        /\ printer' \notin {"close2", "waitpid", "exited"}
        /\ UNCHANGED <<sent, pipe>>
    BY <1>5 DEF MakePipe, ForkPager, CloseRead, DupStdout, WriteInVain,
       PrinterFails, PrinterGoes, text
  <2>2. ~whole
    BY <2>1 DEF Transfer
  <2>3. QED
    BY <1>0, <1>1, <2>1, <2>2 DEF Transfer
<1>6. QED
  BY <1>2, <1>3, <1>4, <1>5 DEF PrinterStep, Printer

LEMMA TransferPager ==
  ASSUME TypeInv, Processes, Transfer, PagerStep PROVE Transfer'
<1>0. Len(pipe) \in Nat /\ Len(shown) \in Nat /\ sent \in Nat
        /\ pipe \in Seq(STRING) /\ shown \in Seq(STRING)
  BY LenProperties DEF TypeInv, TypeOK
<1>1. UNCHANGED <<pc, printer, sent>> /\ Lines' = Lines
  BY PagerFrame DEF menu, Lines
<1>2. CASE Read
  <2>1. pager = "reads" /\ pager' = "reads" /\ pipe # <<>> /\ ~whole
          /\ whole' = whole
    BY <1>2 DEF Read, PagerGoes, Transfer
  <2>2. /\ Head(pipe) = pipe[1] /\ Head(pipe) \in STRING
        /\ Len(Tail(pipe)) = Len(pipe) - 1 /\ Len(pipe) > 0
        /\ \A i \in 1..Len(Tail(pipe)) : Tail(pipe)[i] = pipe[i + 1]
    BY <1>0, <2>1, HeadTailProperties, EmptySeq
  <2>3. /\ Len(shown') = Len(shown) + 1
        /\ \A i \in 1..Len(shown) : shown'[i] = shown[i]
        /\ shown'[Len(shown) + 1] = pipe[1]
    BY <1>0, <1>2, <2>2, AppendProperties DEF Read
  <2>4. pipe' = Tail(pipe)
    BY <1>2 DEF Read
  <2>5. ASSUME pc = "wait"
        PROVE  /\ \A i \in 1..Len(shown') : shown'[i] = Lines[i]
               /\ \A i \in 1..Len(pipe') : pipe'[i] = Lines[Len(shown') + i]
               /\ sent = Len(shown') + Len(pipe')
    <3>1. /\ \A i \in 1..Len(shown) : shown[i] = Lines[i]
          /\ \A i \in 1..Len(pipe) : pipe[i] = Lines[Len(shown) + i]
          /\ sent = Len(shown) + Len(pipe)
      BY <2>5 DEF Transfer
    <3>2. \A i \in 1..Len(shown') : shown'[i] = Lines[i]
      BY <1>0, <2>2, <2>3, <3>1
    <3>3. ASSUME NEW i \in 1..Len(pipe')
          PROVE  pipe'[i] = Lines[Len(shown') + i]
      <4>1. i + 1 \in 1..Len(pipe) /\ pipe'[i] = pipe[i + 1]
        BY <1>0, <2>2, <2>4
      <4>2. Len(shown) + (i + 1) = Len(shown') + i
        BY <1>0, <2>3
      <4>3. QED
        BY <3>1, <4>1, <4>2
    <3>4. QED
      <4>1. Len(pipe') = Len(pipe) - 1 /\ Len(shown') = Len(shown) + 1
        BY <2>2, <2>3, <2>4
      <4>2. sent = Len(shown) + Len(pipe)
        BY <3>1
      <4>3. sent = Len(shown') + Len(pipe')
        BY <1>0, <4>1, <4>2
      <4>4. QED
        BY <3>2, <3>3, <4>3
  <2>6. QED
    BY <1>1, <2>1, <2>5 DEF Transfer
<1>3. CASE ReadEnd
  <2>1. pager = "reads" /\ pager' = "end" /\ pipe = <<>> /\ ~HasWriter
          /\ UNCHANGED <<pipe, shown>>
    BY <1>3 DEF ReadEnd, PagerGoes
  <2>2. printer \notin MayWrite
    BY <2>1, Ends
  <2>3. printer \in {"waitpid", "failed"}
    BY <2>1, <2>2 DEF Processes, MayWrite, TypeInv, TypeOK, Gone
  <2>4. QED
    BY <1>1, <2>1, <2>3 DEF Transfer
<1>4. CASE DupStdin \/ PagerCloses \/ Exec \/ ExecFails \/ LeavePager("reads")
             \/ LeavePager("end")
  <2>1. UNCHANGED text /\ pager \in Alive
          /\ (pager = "end" => pager' = "exited")
    BY <1>4 DEF DupStdin, PagerCloses, Exec, ExecFails, LeavePager, PagerGoes,
       Alive
  <2>2. QED
    BY <1>1, <2>1 DEF text, Transfer, Alive
<1>5. QED
  BY <1>2, <1>3, <1>4 DEF PagerStep, Pager

LEMMA TransferNext ==
  TypeInv /\ Processes /\ Transfer /\ [Next]_vars => Transfer'
<1> SUFFICES ASSUME TypeInv, Processes, Transfer, [Next]_vars PROVE Transfer'
  OBVIOUS
<1>1. CASE World
  BY <1>1, WorldFrame DEF Transfer, processes, text, menu, Lines
<1>2. CASE MenuStep
  BY <1>2, MenuFrame DEF Transfer, processes, text
<1>3. CASE Fork
  <2>1. Len(Lines) \in Nat /\ Lines' = Lines
    BY <1>3, LinesType DEF Fork, TypeInv, Menu, menu, Lines
  <2>2. /\ ~whole' /\ sent' = 0 /\ pipe' = <<>> /\ shown' = <<>>
        /\ printer' = "start"
    BY <1>3 DEF Fork
  <2>3. QED
    BY <2>1, <2>2 DEF Transfer
<1>4. CASE UNCHANGED vars
  BY <1>4 DEF vars, Transfer, text, menu, Lines
<1>5. QED
  BY <1>1, <1>2, <1>3, <1>4, Steps, TransferPrinter, TransferPager

\* A sequence with no more elements than another, and all of them the same.
LEMMA PrefixByElements ==
  ASSUME NEW S, NEW s \in Seq(S), NEW t \in Seq(S), Len(s) <= Len(t),
         \A i \in 1..Len(s) : s[i] = t[i]
  PROVE  IsPrefix(s, t)
<1> DEFINE n == Len(s)
<1>1. n \in Nat /\ Len(t) \in Nat /\ n \in 0..Len(s) /\ n \in 0..Len(t)
  BY LenProperties
<1>2. \A i \in 1..n : s[i] \in S /\ t[i] \in S
  BY <1>1, ElementOfSeq
<1>3. /\ SubSeq(s, 1, n) \in Seq(S) /\ SubSeq(t, 1, n) \in Seq(S)
      /\ Len(SubSeq(s, 1, n)) = n /\ Len(SubSeq(t, 1, n)) = n
      /\ \A i \in 1..n : SubSeq(s, 1, n)[i] = s[i]
      /\ \A i \in 1..n : SubSeq(t, 1, n)[i] = t[i]
  BY <1>1, <1>2, SubSeqProperties
<1>4. SubSeq(s, 1, n) = SubSeq(t, 1, n)
  BY <1>3, SeqEqual
<1>5. QED
  BY <1>4 DEF IsPrefix

\* The pager shows the discussion of the row the user has seen, from its
\* first line, whatever arrives, is killed or refreshed meanwhile; at its end
\* it has shown all of it (gcli_cmd_into_pager, status_interactive.c).
THEOREM ShowsThread == Spec => []ShowsTheThread
<1>1. TypeInv /\ Processes /\ Transfer => ShowsTheThread
  <2> SUFFICES ASSUME TypeInv, Transfer, pc = "wait"
               PROVE  /\ notif \in DOMAIN screen
                      /\ IsPrefix(shown, Discussion[screen[notif]])
                      /\ whole /\ printer # "failed" =>
                           shown = Discussion[screen[notif]]
    BY DEF ShowsTheThread
  <2>1. /\ screen = list /\ notif \in 1..Len(list) /\ list \in Seq(Threads)
        /\ shown \in Seq(STRING)
    BY DEF TypeInv, TypeOK, Menu
  <2>2. notif \in DOMAIN screen /\ Lines = Discussion[screen[notif]]
    BY <2>1, LenProperties DEF Lines
  <2>3. Lines \in Seq(STRING) /\ Len(Lines) \in Nat
    BY <2>1, LinesType DEF TypeInv
  <2>4. /\ Len(shown) \in Nat /\ Len(pipe) \in Nat /\ Len(shown) <= Len(Lines)
        /\ \A i \in 1..Len(shown) : shown[i] = Lines[i]
    BY <2>1, <2>3, LenProperties DEF Transfer, TypeInv, TypeOK
  <2>5. IsPrefix(shown, Lines)
    BY <2>1, <2>3, <2>4, PrefixByElements
  <2>6. ASSUME whole, printer # "failed" PROVE shown = Lines
    <3>1. Len(shown) = Len(Lines)
      BY <2>4, <2>6, EmptySeq DEF Transfer
    <3>2. QED
      BY <2>1, <2>3, <2>4, <3>1, SeqEqual
  <2>7. QED
    BY <2>2, <2>5, <2>6
<1>2. Init => Transfer
  BY DEF Init, NoPager, Transfer
<1>3. QED
  BY <1>1, <1>2, TypeInit, TypeNext, ProcessesNext, TransferNext,
     ProcessesAlways, PTL DEF Spec

-----------------------------------------------------------------------------
(* Startup: what the program has read and kept, and what the input says.    *)
(* First, the first element of a set of numbers when a larger one is added. *)

LEMMA FirstOfMore ==
  ASSUME NEW n \in Nat, NEW S \in SUBSET (1..n), NEW X \in SUBSET {n + 1}
  PROVE  /\ S # {} => Min(S) \in S /\ Min(S \cup X) = Min(S)
         /\ S = {} /\ X # {} => Min(S \cup X) = n + 1
<1>1. CASE S # {}
  <2> DEFINE U == S \cup X
  <2>1. /\ S \in SUBSET Int /\ \A x \in S : 1 <= x
        /\ U \in SUBSET Int /\ U # {} /\ \A x \in U : 1 <= x
    BY <1>1
  <2>2. U \subseteq S \cup {n + 1} /\ S \subseteq U /\ \A x \in S : x <= n
    OBVIOUS
  <2> HIDE DEF U
  <2>3. Min(S) \in S /\ \A x \in S : Min(S) <= x
    BY <1>1, <2>1, MinShape
  <2>4. Min(U) \in U /\ \A x \in U : Min(U) <= x
    BY <2>1, MinShape
  <2>5. Min(U) <= Min(S) /\ Min(S) <= n /\ Min(U) \in Int /\ Min(S) \in Int
    BY <2>1, <2>2, <2>3, <2>4
  <2>6. Min(U) \in S
    BY <2>2, <2>4, <2>5
  <2>7. Min(U) = Min(S)
    BY <2>3, <2>5, <2>6
  <2>8. QED
    BY <1>1, <2>3, <2>7 DEF U
<1>2. CASE S = {} /\ X # {}
  <2>1. S \cup X = {n + 1}
    BY <1>2
  <2>2. /\ {n + 1} \in SUBSET Int /\ {n + 1} # {} /\ n + 1 \in Int
        /\ \A x \in {n + 1} : n + 1 <= x
    OBVIOUS
  <2>3. Min({n + 1}) \in {n + 1}
    BY <2>2, MinShape
  <2>4. QED
    BY <1>2, <2>1, <2>3
<1>3. QED
  BY <1>1, <1>2

-----------------------------------------------------------------------------
(* Reading the config file, line by line.                                   *)

SectionsOf(lines) ==
  [title : {lines[i].title : i \in 1..Len(lines)}, entries : Seq(ToSet(lines))]

ParserStates(lines) ==
  {v \in [sections : Seq(SectionsOf(lines)), at : {"top", "section", "broken"}] :
     v.at = "section" => v.sections # <<>>}

\* The recursive function of ParseFile has a name.
ParsedLines(old, lines) ==
  CHOOSE parsed : parsed = [n \in 0..Len(lines) |->
                              IF n = 0 THEN [sections |-> old, at |-> "top"]
                              ELSE ParseLine(parsed[n - 1], lines[n])]

LEMMA ParseFileIsParsedLines ==
  ASSUME NEW old, NEW lines
  PROVE  ParseFile(old, lines) = ParsedLines(old, lines)[Len(lines)]
BY DEF ParseFile, ParsedLines

LEMMA ParseLineTypes ==
  ASSUME NEW lines, lines \in Seq(ToSet(lines)), NEW v \in ParserStates(lines),
         NEW n \in 1..Len(lines)
  PROVE  ParseLine(v, lines[n]) \in ParserStates(lines)
<1> DEFINE l == lines[n]
           secs == v.sections
           last == Len(secs)
           Sec == SectionsOf(lines)
<1>1. /\ secs \in Seq(Sec) /\ v.at \in {"top", "section", "broken"}
      /\ v.at = "section" => secs # <<>>
      /\ v = [sections |-> secs, at |-> v.at]
      /\ last \in Nat
  BY LenProperties DEF ParserStates
<1>2. l.title \in {lines[i].title : i \in 1..Len(lines)} /\ l \in ToSet(lines)
  BY ElementOfSeq
<1>3. CASE l.line = "comment" \/ v.at = "broken"
  BY <1>3 DEF ParseLine
<1>4. CASE v.at = "top" /\ l.line = "open"
  <2>1. [title |-> l.title, entries |-> <<>>] \in Sec
    BY <1>2, EmptySeq DEF SectionsOf
  <2>2. /\ Append(secs, [title |-> l.title, entries |-> <<>>]) \in Seq(Sec)
        /\ Append(secs, [title |-> l.title, entries |-> <<>>]) # <<>>
    BY <1>1, <2>1, AppendProperties
  <2>3. ParseLine(v, l) = [sections |-> Append(secs, [title |-> l.title, entries |-> <<>>]), at |-> "section"]
    BY <1>4 DEF ParseLine
  <2>4. QED
    BY <2>2, <2>3 DEF ParserStates
<1>5. CASE v.at = "section" /\ l.line = "entry"
  <2>1. last \in 1..last /\ secs[last] \in Sec
    BY <1>1, <1>5, ElementOfSeq, EmptySeq
  <2>2. Append(secs[last].entries, l) \in Seq(ToSet(lines))
    BY <1>2, <2>1, AppendProperties DEF SectionsOf
  <2> DEFINE new == [secs[last] EXCEPT !.entries = Append(secs[last].entries, l)]
             more == [secs EXCEPT ![last] = new]
  <2>3. new \in Sec
    BY <2>1, <2>2 DEF SectionsOf
  <2>4. more \in Seq(Sec) /\ Len(more) = last
    BY <1>1, <2>1, <2>3, ExceptSeq
  <2>5. more # <<>>
    BY <2>1, <2>4, EmptySeq
  <2>6. ParseLine(v, l) = [v EXCEPT !.sections = more]
    BY <1>5 DEF ParseLine
  <2> HIDE DEF more
  <2>7. QED
    BY <1>1, <2>4, <2>5, <2>6 DEF ParserStates
<1>6. CASE v.at = "section" /\ l.line = "close"
  <2>1. ParseLine(v, l) = [v EXCEPT !.at = "top"]
    BY <1>6 DEF ParseLine
  <2>2. QED
    BY <1>1, <2>1 DEF ParserStates
<1>7. CASE ~(l.line = "comment" \/ v.at = "broken") /\ ~(v.at = "top" /\ l.line = "open")
           /\ ~(v.at = "section" /\ l.line = "entry") /\ ~(v.at = "section" /\ l.line = "close")
  <2>1. ParseLine(v, l) = [v EXCEPT !.at = "broken"]
    BY <1>7 DEF ParseLine
  <2>2. QED
    BY <1>1, <2>1 DEF ParserStates
<1>8. QED
  BY <1>3, <1>4, <1>5, <1>6, <1>7

\* The states of the parser behind each line.
LEMMA ParsedShape ==
  ASSUME NEW lines, lines \in Seq(ToSet(lines)), NEW old \in Seq(SectionsOf(lines))
  PROVE  LET p == ParsedLines(old, lines) IN
         /\ p \in [0..Len(lines) -> ParserStates(lines)]
         /\ p[0] = [sections |-> old, at |-> "top"]
         /\ \A n \in 1..Len(lines) : p[n] = ParseLine(p[n - 1], lines[n])
<1> DEFINE top == Len(lines)
           T == ParserStates(lines)
           a == [sections |-> old, at |-> "top"]
           step == [i \in 1..top |-> [v \in T |-> ParseLine(v, lines[i])]]
           Is(f) == f = [n \in 0..top |-> IF n = 0 THEN a ELSE ParseLine(f[n - 1], lines[n])]
<1>1. top \in Nat /\ a \in T
  BY LenProperties DEF ParserStates
<1>2. \A i \in 1..top, v \in T :
        step[i][v] = ParseLine(v, lines[i]) /\ step[i][v] \in T
  <2>1. \A i \in 1..top, v \in T : ParseLine(v, lines[i]) \in T
    BY ParseLineTypes
  <2> HIDE DEF T
  <2>2. QED
    BY <2>1
<1> HIDE DEF top, T, a
<1>3. PICK f \in [0..top -> T] : Recurs(f, 0, top, a, step)
  <2>1. 0 \in Int /\ top \in Int /\ 0 <= top /\ 0 + 1 = 1
    BY <1>1
  <2>2. IsStep(step, 0, top, T)
    BY <1>2, <2>1 DEF IsStep
  <2> HIDE DEF step
  <2>3. QED
    BY <1>1, <2>1, <2>2, Recursion, Zenon
<1>4. f[0] = a /\ \A n \in 1..top : f[n] = ParseLine(f[n - 1], lines[n])
  <2>1. ASSUME NEW n \in 1..top PROVE f[n] = ParseLine(f[n - 1], lines[n])
    <3>1. n \in 0 + 1..top /\ n - 1 \in 0..top
      BY <1>1
    <3>2. f[n - 1] \in T
      BY <3>1
    <3> HIDE DEF step
    <3>3. step[n][f[n - 1]] = ParseLine(f[n - 1], lines[n])
      BY <3>2, <1>2, Zenon
    <3>4. f[n] = step[n][f[n - 1]]
      BY <3>1, <1>3, Zenon DEF Recurs
    <3>5. QED
      BY <3>3, <3>4, Zenon
  <2>2. QED
    BY <2>1, <1>3 DEF Recurs
<1>5. Is(f)
  <2>1. ASSUME NEW n \in 0..top
        PROVE  f[n] = IF n = 0 THEN a ELSE ParseLine(f[n - 1], lines[n])
    <3>1. n # 0 => n \in 1..top
      BY <1>1
    <3>2. QED
      BY <1>4, <3>1, Zenon
  <2>2. f = [n \in 0..top |-> f[n]]
    BY <1>3
  <2>3. QED
    BY <2>1, <2>2, Zenon
<1> DEFINE p == ParsedLines(old, lines)
<1>6. Is(p)
  BY <1>5, Zenon DEF ParsedLines, top, a
<1> HIDE DEF p
<1>7. p[0] = a /\ \A n \in 1..top : p[n] = ParseLine(p[n - 1], lines[n])
  <2>1. 0 \in 0..top /\ \A n \in 1..top : n \in 0..top /\ n # 0
    BY <1>1
  <2>2. QED
    BY <1>6, <2>1, Zenon
<1>8. p \in [0..top -> T]
  <2> DEFINE S == {n \in 0..top : p[n] \in T}
  <2>1. 0 \in S
    BY <1>1, <1>7
  <2>2. \A n \in 0..top - 1 : n \in S => n + 1 \in S
    <3>1. ASSUME NEW n \in 0..top - 1, n \in S PROVE n + 1 \in S
      <4>1. n + 1 \in 1..top /\ (n + 1) - 1 = n
        BY <1>1
      <4>2. p[n + 1] = ParseLine(p[n], lines[n + 1])
        BY <1>7, <4>1, Zenon
      <4>3. QED
        BY <3>1, <4>1, <4>2, ParseLineTypes DEF T, top
    <3>2. QED
      BY <3>1
  <2>3. \A n \in 0..top : n \in S
    <3>1. 0 \in Int /\ top \in Int /\ (0 <= top => 0 \in S)
      BY <1>1, <2>1
    <3> HIDE DEF S
    <3>2. QED
      BY <2>2, <3>1, InductUpTo, Zenon
  <2>4. p = [n \in 0..top |-> p[n]]
    BY <1>6, Zenon
  <2>5. QED
    BY <2>3, <2>4
<1>9. QED
  BY <1>7, <1>8 DEF p, top, T, a

-----------------------------------------------------------------------------
(* What the reference reads in the first lines of a file, and what the      *)
(* parser has kept of them.                                                 *)

\* An entry with the key.
Gives(l, key) == l.line = "entry" /\ l.key = key

Opens(lines, title, n) ==
  {i \in 1..n : lines[i].line = "open" /\ lines[i].title = title}

OpenAt(lines, title, n) == Min(Opens(lines, title, n))

ClosedBy(lines, title, n) ==
  \E j \in OpenAt(lines, title, n)..n : lines[j].line = "close"

Under(lines, title, key, n) ==
  {i \in 1..n : /\ Gives(lines[i], key)
                /\ i > OpenAt(lines, title, n)
                /\ ~\E j \in OpenAt(lines, title, n)..i : lines[j].line = "close"}

Titled(secs, title) == {k \in 1..Len(secs) : secs[k].title = title}

Keyed(ls, key) == {j \in 1..Len(ls) : Gives(ls[j], key)}

\* A section, and its entries, agree with what is under the first opening.
EntriesAgree(ls, lines, title, key, n) ==
  /\ Keyed(ls, key) # {} <=> Under(lines, title, key, n) # {}
  /\ Keyed(ls, key) # {} =>
       ls[Min(Keyed(ls, key))] = lines[Min(Under(lines, title, key, n))]

IsOpen(v, title) == v.at = "section" /\ Min(Titled(v.sections, title)) = Len(v.sections)

Agrees(v, lines, title, key, n) ==
  /\ Titled(v.sections, title) # {} <=> Opens(lines, title, n) # {}
  /\ Titled(v.sections, title) # {} =>
       /\ EntriesAgree(v.sections[Min(Titled(v.sections, title))].entries,
                       lines, title, key, n)
       /\ IsOpen(v, title) <=> ~ClosedBy(lines, title, n)

\* One line more.
LEMMA OpensMore ==
  ASSUME NEW lines, NEW title, NEW n \in Nat
  PROVE  /\ lines[n + 1].line = "open" /\ lines[n + 1].title = title =>
              Opens(lines, title, n + 1) = Opens(lines, title, n) \cup {n + 1}
         /\ lines[n + 1].line # "open" \/ lines[n + 1].title # title =>
              Opens(lines, title, n + 1) = Opens(lines, title, n)
<1>1. 1..n + 1 = (1..n) \cup {n + 1}
  OBVIOUS
<1>2. QED
  BY <1>1 DEF Opens

LEMMA FirstOpening ==
  ASSUME NEW lines, NEW title, NEW n \in Nat, Opens(lines, title, n) # {}
  PROVE  /\ OpenAt(lines, title, n) \in 1..n
         /\ OpenAt(lines, title, n + 1) = OpenAt(lines, title, n)
<1>1. Opens(lines, title, n) \in SUBSET (1..n)
  BY DEF Opens
<1>2. PICK X \in SUBSET {n + 1} : Opens(lines, title, n + 1) = Opens(lines, title, n) \cup X
  <2>1. {n + 1} \in SUBSET {n + 1} /\ {} \in SUBSET {n + 1}
    OBVIOUS
  <2>2. \/ Opens(lines, title, n + 1) = Opens(lines, title, n) \cup {n + 1}
        \/ Opens(lines, title, n + 1) = Opens(lines, title, n) \cup {}
    BY OpensMore
  <2>3. QED
    BY <2>1, <2>2
<1> DEFINE S == Opens(lines, title, n)
<1>3. S \in SUBSET (1..n) /\ S # {}
  BY <1>1
<1> HIDE DEF S
<1>4. Min(S) \in S /\ Min(S \cup X) = Min(S)
  BY <1>3, FirstOfMore
<1>5. QED
  BY <1>2, <1>3, <1>4 DEF OpenAt, S

LEMMA UnderMore ==
  ASSUME NEW lines, NEW title, NEW key, NEW n \in Nat, Opens(lines, title, n) # {}
  PROVE  LET l == lines[n + 1]
             new == Gives(l, key) /\ ~ClosedBy(lines, title, n)
         IN
         /\ new => Under(lines, title, key, n + 1) = Under(lines, title, key, n) \cup {n + 1}
         /\ ~new => Under(lines, title, key, n + 1) = Under(lines, title, key, n)
         /\ ClosedBy(lines, title, n + 1) <=> ClosedBy(lines, title, n) \/ l.line = "close"
<1> DEFINE o == OpenAt(lines, title, n)
<1>1. o \in 1..n /\ OpenAt(lines, title, n + 1) = o
  BY FirstOpening
<1>2. 1..n + 1 = (1..n) \cup {n + 1} /\ o..n + 1 = (o..n) \cup {n + 1}
  BY <1>1
<1> HIDE DEF o
<1>3. \A i \in 1..n : i \in Under(lines, title, key, n + 1) <=> i \in Under(lines, title, key, n)
  BY <1>1, <1>2 DEF Under, o
<1>4. n + 1 \in Under(lines, title, key, n + 1) <=>
        Gives(lines[n + 1], key) /\ ~ClosedBy(lines, title, n)
  <2>1. n + 1 > o /\ (Gives(lines[n + 1], key) => lines[n + 1].line # "close")
    BY <1>1 DEF Gives
  <2>2. QED
    BY <1>1, <1>2, <2>1 DEF Under, ClosedBy, o
<1>5. Under(lines, title, key, n) \subseteq 1..n /\ Under(lines, title, key, n + 1) \subseteq 1..n + 1
  BY DEF Under
<1>6. ClosedBy(lines, title, n + 1) <=> ClosedBy(lines, title, n) \/ lines[n + 1].line = "close"
  BY <1>1, <1>2 DEF ClosedBy, o
<1>7. QED
  BY <1>2, <1>3, <1>4, <1>5, <1>6

\* One section, or one entry, more.
LEMMA TitledMore ==
  ASSUME NEW T, NEW secs \in Seq(T), NEW s \in T, NEW title
  PROVE  LET more == Append(secs, s)
             old == Titled(secs, title)
         IN
         /\ Titled(more, title) # {} <=> old # {} \/ s.title = title
         /\ old # {} => /\ Min(Titled(more, title)) = Min(old)
                        /\ Min(old) \in 1..Len(secs)
                        /\ more[Min(old)] = secs[Min(old)]
         /\ old = {} /\ s.title = title => Min(Titled(more, title)) = Len(secs) + 1
<1> DEFINE n == Len(secs)
           more == Append(secs, s)
           S == Titled(secs, title)
           X == IF s.title = title THEN {n + 1} ELSE {}
<1>1. /\ n \in Nat /\ Len(more) = n + 1
      /\ \A i \in 1..n : more[i] = secs[i]
      /\ more[n + 1] = s
  BY AppendProperties, LenProperties
<1>2. S \in SUBSET (1..n) /\ X \in SUBSET {n + 1}
  BY DEF Titled
<1>3. Titled(more, title) = S \cup X
  <2>1. 1..n + 1 = (1..n) \cup {n + 1}
    BY <1>1
  <2>2. QED
    BY <1>1, <2>1 DEF Titled
<1>4. X # {} <=> s.title = title
  OBVIOUS
<1> HIDE DEF n, more, S, X
<1>5. /\ S # {} => Min(S) \in S /\ Min(S \cup X) = Min(S)
      /\ S = {} /\ X # {} => Min(S \cup X) = n + 1
  BY <1>1, <1>2, FirstOfMore
<1>6. QED
  BY <1>1, <1>2, <1>3, <1>4, <1>5 DEF n, more, S

LEMMA KeyedMore ==
  ASSUME NEW T, NEW ls \in Seq(T), NEW l \in T, NEW key
  PROVE  LET more == Append(ls, l)
             old == Keyed(ls, key)
         IN
         /\ old # {} => /\ Keyed(more, key) # {}
                        /\ more[Min(Keyed(more, key))] = ls[Min(old)]
         /\ old = {} /\ Gives(l, key) =>
              Keyed(more, key) # {} /\ more[Min(Keyed(more, key))] = l
         /\ old = {} /\ ~Gives(l, key) => Keyed(more, key) = {}
<1> DEFINE n == Len(ls)
           more == Append(ls, l)
           S == Keyed(ls, key)
           new == Gives(l, key)
           X == IF new THEN {n + 1} ELSE {}
<1>1. /\ n \in Nat /\ Len(more) = n + 1
      /\ \A i \in 1..n : more[i] = ls[i]
      /\ more[n + 1] = l
  BY AppendProperties, LenProperties
<1>2. S \in SUBSET (1..n) /\ X \in SUBSET {n + 1}
  BY DEF Keyed
<1>3. Keyed(more, key) = S \cup X
  <2>1. 1..n + 1 = (1..n) \cup {n + 1}
    BY <1>1
  <2>2. QED
    BY <1>1, <2>1 DEF Keyed
<1>4. X # {} <=> new
  OBVIOUS
<1> HIDE DEF n, more, S, X
<1>5. /\ S # {} => Min(S) \in S /\ Min(S \cup X) = Min(S)
      /\ S = {} /\ X # {} => Min(S \cup X) = n + 1
  BY <1>1, <1>2, FirstOfMore
<1>6. QED
  BY <1>1, <1>2, <1>3, <1>4, <1>5 DEF n, more, S

\* The same on the side of the reference.
LEMMA UnderGrows ==
  ASSUME NEW lines, NEW title, NEW key, NEW n \in Nat, Opens(lines, title, n) # {}
  PROVE  LET l == lines[n + 1]
             old == Under(lines, title, key, n)
             more == Under(lines, title, key, n + 1)
         IN
         /\ old # {} => more # {} /\ lines[Min(more)] = lines[Min(old)]
         /\ old = {} /\ Gives(l, key) /\ ~ClosedBy(lines, title, n) =>
              more # {} /\ lines[Min(more)] = l
         /\ old = {} /\ (~Gives(l, key) \/ ClosedBy(lines, title, n)) => more = {}
<1> DEFINE l == lines[n + 1]
           S == Under(lines, title, key, n)
           new == Gives(l, key) /\ ~ClosedBy(lines, title, n)
           X == IF new THEN {n + 1} ELSE {}
<1>1. Under(lines, title, key, n + 1) = S \cup X
  BY UnderMore
<1>2. S \in SUBSET (1..n) /\ X \in SUBSET {n + 1}
  BY DEF Under
<1>3. X # {} <=> new
  OBVIOUS
<1> HIDE DEF S, X
<1>4. /\ S # {} => Min(S) \in S /\ Min(S \cup X) = Min(S)
      /\ S = {} /\ X # {} => Min(S \cup X) = n + 1
  BY <1>2, FirstOfMore
<1>5. QED
  BY <1>1, <1>2, <1>3, <1>4 DEF S

\* A line that is neither an opening nor an entry leaves both sides alone.
LEMMA AgreeOnOthers ==
  ASSUME NEW lines, NEW title, NEW key, NEW n \in Nat, NEW v,
         lines[n + 1].line \notin {"open", "entry", "close"},
         Agrees(v, lines, title, key, n)
  PROVE  Agrees(v, lines, title, key, n + 1)
<1>1. Opens(lines, title, n + 1) = Opens(lines, title, n)
  BY OpensMore
<1>2. CASE Titled(v.sections, title) = {}
  BY <1>1, <1>2 DEF Agrees
<1>3. CASE Titled(v.sections, title) # {}
  <2>1. Opens(lines, title, n) # {}
    BY <1>3 DEF Agrees
  <2>2. /\ Under(lines, title, key, n + 1) = Under(lines, title, key, n)
        /\ ClosedBy(lines, title, n + 1) <=> ClosedBy(lines, title, n)
    <3>1. ~Gives(lines[n + 1], key)
      BY DEF Gives
    <3>2. QED
      BY <2>1, <3>1, UnderMore
  <2>3. QED
    BY <1>1, <2>2 DEF Agrees, EntriesAgree
<1>4. QED
  BY <1>2, <1>3

LEMMA AgreeOnClose ==
  ASSUME NEW lines, NEW title, NEW key, NEW n \in Nat, NEW v,
         lines[n + 1].line = "close", Agrees(v, lines, title, key, n),
         NEW w, w.sections = v.sections, w.at = "top"
  PROVE  Agrees(w, lines, title, key, n + 1)
<1>1. Opens(lines, title, n + 1) = Opens(lines, title, n)
  BY OpensMore
<1>2. w.sections = v.sections /\ ~IsOpen(w, title)
  BY DEF IsOpen
<1>3. CASE Titled(v.sections, title) = {}
  BY <1>1, <1>2, <1>3 DEF Agrees
<1>4. CASE Titled(v.sections, title) # {}
  <2>1. Opens(lines, title, n) # {}
    BY <1>4 DEF Agrees
  <2>2. /\ Under(lines, title, key, n + 1) = Under(lines, title, key, n)
        /\ ClosedBy(lines, title, n + 1)
    <3>1. ~Gives(lines[n + 1], key)
      BY DEF Gives
    <3>2. lines[n + 1].line = "close"
      OBVIOUS
    <3>3. QED
      BY <2>1, <3>1, <3>2, UnderMore
  <2> DEFINE ls == v.sections[Min(Titled(v.sections, title))].entries
  <2>3. EntriesAgree(ls, lines, title, key, n)
    BY <1>4 DEF Agrees
  <2>4. EntriesAgree(ls, lines, title, key, n + 1)
    BY <2>2, <2>3 DEF EntriesAgree
  <2>5. Opens(lines, title, n + 1) # {}
    BY <1>1, <2>1
  <2>6. QED
    BY <1>2, <1>4, <2>2, <2>4, <2>5 DEF Agrees
<1>5. QED
  BY <1>3, <1>4

LEMMA AgreeOnOpen ==
  ASSUME NEW lines, NEW title, NEW key, NEW n \in Nat, NEW T, NEW v,
         v.sections \in Seq(T), v.at = "top", NEW s \in T,
         lines[n + 1].line = "open", s.title = lines[n + 1].title, s.entries = <<>>,
         NEW w, w.sections = Append(v.sections, s), w.at = "section",
         Agrees(v, lines, title, key, n)
  PROVE  Agrees(w, lines, title, key, n + 1)
<1>0. lines[n + 1].line = "open"
  OBVIOUS
<1> DEFINE old == Titled(v.sections, title)
           more == Titled(w.sections, title)
           last == Len(v.sections)
<1>1. /\ more # {} <=> old # {} \/ s.title = title
      /\ old # {} => /\ Min(more) = Min(old) /\ Min(old) \in 1..last
                     /\ w.sections[Min(old)] = v.sections[Min(old)]
      /\ old = {} /\ s.title = title => Min(more) = last + 1
  <2> HIDE DEF old, last
  <2>1. more = Titled(Append(v.sections, s), title)
    OBVIOUS
  <2> HIDE DEF more
  <2>2. QED
    BY <2>1, TitledMore DEF old, last
<1>2. /\ last \in Nat /\ Len(w.sections) = last + 1 /\ w.sections[last + 1] = s
  BY AppendProperties, LenProperties
<1>3. CASE old # {}
  <2>1. Opens(lines, title, n) # {}
    BY <1>3 DEF Agrees
  <2>2. Opens(lines, title, n + 1) # {}
    BY <2>1, OpensMore
  <2>3. /\ Under(lines, title, key, n + 1) = Under(lines, title, key, n)
        /\ ClosedBy(lines, title, n + 1) <=> ClosedBy(lines, title, n)
    <3>1. ~Gives(lines[n + 1], key)
      BY DEF Gives
    <3>2. QED
      BY <2>1, <3>1, UnderMore
  <2>4. ClosedBy(lines, title, n)
    BY <1>3 DEF Agrees, IsOpen
  <2>5. Min(more) # Len(w.sections)
    BY <1>1, <1>2, <1>3
  <2>6. EntriesAgree(v.sections[Min(old)].entries, lines, title, key, n)
    BY <1>3 DEF Agrees
  <2>7. EntriesAgree(w.sections[Min(more)].entries, lines, title, key, n + 1)
    BY <1>1, <1>3, <2>3, <2>6 DEF EntriesAgree
  <2>8. QED
    BY <1>1, <1>3, <2>2, <2>3, <2>4, <2>5, <2>7 DEF Agrees, IsOpen
<1>4. CASE old = {} /\ s.title = title
  <2>1. Opens(lines, title, n) = {}
    BY <1>4 DEF Agrees
  <2>2. Opens(lines, title, n + 1) = {n + 1}
    <3>1. lines[n + 1].title = title
      BY <1>4
    <3>2. Opens(lines, title, n + 1) = Opens(lines, title, n) \cup {n + 1}
      BY <1>0, <3>1, OpensMore
    <3>3. QED
      BY <2>1, <3>1, <3>2
  <2>3. OpenAt(lines, title, n + 1) = n + 1
    BY <2>2 DEF OpenAt, Min
  <2>4. Under(lines, title, key, n + 1) = {} /\ ~ClosedBy(lines, title, n + 1)
    BY <2>3 DEF Under, ClosedBy
  <2>5. Keyed(<<>>, key) = {}
    BY DEF Keyed
  <2>6. Min(more) = last + 1 /\ w.sections[Min(more)] = s /\ more # {}
    BY <1>1, <1>2, <1>4
  <2>7. EntriesAgree(w.sections[Min(more)].entries, lines, title, key, n + 1)
    BY <2>4, <2>5, <2>6 DEF EntriesAgree
  <2>8. IsOpen(w, title)
    BY <1>2, <2>6 DEF IsOpen
  <2>9. QED
    BY <2>2, <2>4, <2>6, <2>7, <2>8 DEF Agrees
<1>5. CASE old = {} /\ s.title # title
  <2>1. Opens(lines, title, n + 1) = {}
    <3>1. lines[n + 1].title # title
      BY <1>5
    <3>2. Opens(lines, title, n + 1) = Opens(lines, title, n)
      BY <1>0, <3>1, OpensMore
    <3>3. Opens(lines, title, n) = {}
      BY <1>5 DEF Agrees
    <3>4. QED
      BY <3>2, <3>3
  <2>2. QED
    BY <1>1, <1>5, <2>1 DEF Agrees
<1>6. QED
  BY <1>3, <1>4, <1>5

LEMMA AgreeOnEntry ==
  ASSUME NEW lines, NEW title, NEW key, NEW n \in Nat, NEW L, NEW T, NEW v, NEW w,
         lines[n + 1].line = "entry", lines[n + 1] \in L,
         v.sections \in Seq(T), w.sections \in Seq(T),
         Len(w.sections) = Len(v.sections), Len(v.sections) > 0,
         v.at = "section", w.at = "section",
         \A k \in 1..Len(v.sections) : w.sections[k].title = v.sections[k].title,
         \A k \in 1..Len(v.sections) - 1 : w.sections[k] = v.sections[k],
         v.sections[Len(v.sections)].entries \in Seq(L),
         w.sections[Len(v.sections)].entries =
           Append(v.sections[Len(v.sections)].entries, lines[n + 1]),
         Agrees(v, lines, title, key, n)
  PROVE  Agrees(w, lines, title, key, n + 1)
<1> DEFINE hits == Titled(v.sections, title)
           last == Len(v.sections)
           m == Min(hits)
           ls == v.sections[last].entries
           old == Under(lines, title, key, n)
           more == Under(lines, title, key, n + 1)
<1>1. last \in Nat
  BY LenProperties
<1>2. Titled(w.sections, title) = hits
  BY <1>1 DEF Titled
<1>3. Opens(lines, title, n + 1) = Opens(lines, title, n)
  <2>1. lines[n + 1].line # "open"
    OBVIOUS
  <2>2. QED
    BY <2>1, OpensMore
<1>4. CASE hits = {}
  BY <1>2, <1>3, <1>4 DEF Agrees
<1>5. CASE hits # {}
  <2>1. Opens(lines, title, n) # {}
    BY <1>5 DEF Agrees
  <2>2. m \in 1..last
    <3>1. hits \in SUBSET Int /\ \A k \in hits : 1 <= k
      BY <1>1 DEF Titled
    <3>2. hits \subseteq 1..last
      BY DEF Titled
    <3> HIDE DEF hits
    <3>3. Min(hits) \in hits
      BY ONLY <1>5, <3>1, 1 \in Int, MinShape
    <3>4. QED
      BY <3>2, <3>3
  <2>3. ClosedBy(lines, title, n + 1) <=> ClosedBy(lines, title, n)
    <3>1. lines[n + 1].line # "close"
      OBVIOUS
    <3>2. QED
      BY <2>1, <3>1, UnderMore
  <2>4. /\ EntriesAgree(v.sections[m].entries, lines, title, key, n)
        /\ IsOpen(v, title) <=> ~ClosedBy(lines, title, n)
    BY <1>5 DEF Agrees
  <2>5. IsOpen(w, title) <=> IsOpen(v, title)
    BY <1>2 DEF IsOpen
  <2>6. /\ old # {} => more # {} /\ lines[Min(more)] = lines[Min(old)]
        /\ old = {} /\ Gives(lines[n + 1], key) /\ ~ClosedBy(lines, title, n) =>
             more # {} /\ lines[Min(more)] = lines[n + 1]
        /\ old = {} /\ (~Gives(lines[n + 1], key) \/ ClosedBy(lines, title, n)) => more = {}
    <3>1. lines[n + 1].line = "entry"
      OBVIOUS
    <3>2. QED
      BY <2>1, <3>1, UnderGrows
  <2>7. EntriesAgree(w.sections[m].entries, lines, title, key, n + 1)
    <3>1. CASE m = last
      <4>1. IsOpen(v, title) /\ ~ClosedBy(lines, title, n)
        BY <2>4, <3>1 DEF IsOpen
      <4> DEFINE es == Append(ls, lines[n + 1])
      <4>2. /\ Keyed(ls, key) # {} => /\ Keyed(es, key) # {}
                                      /\ es[Min(Keyed(es, key))] = ls[Min(Keyed(ls, key))]
            /\ Keyed(ls, key) = {} /\ Gives(lines[n + 1], key) =>
                 Keyed(es, key) # {} /\ es[Min(Keyed(es, key))] = lines[n + 1]
            /\ Keyed(ls, key) = {} /\ ~Gives(lines[n + 1], key) => Keyed(es, key) = {}
        <5>1. lines[n + 1].line = "entry"
          OBVIOUS
        <5>2. ls \in Seq(L)
          OBVIOUS
        <5>3. lines[n + 1] \in L
          OBVIOUS
        <5> HIDE DEF ls
        <5>4. QED
          BY <5>1, <5>2, <5>3, KeyedMore
      <4>3. w.sections[m].entries = es /\ v.sections[m].entries = ls
        BY <3>1
      <4>4. /\ Keyed(ls, key) # {} <=> old # {}
            /\ Keyed(ls, key) # {} => ls[Min(Keyed(ls, key))] = lines[Min(old)]
        BY <2>4, <4>3 DEF EntriesAgree
      <4> HIDE DEF es, ls, m, old, more
      <4>5. /\ Keyed(es, key) # {} <=> more # {}
            /\ Keyed(es, key) # {} => es[Min(Keyed(es, key))] = lines[Min(more)]
        BY <2>6, <4>1, <4>2, <4>4
      <4>6. EntriesAgree(es, lines, title, key, n + 1)
        BY <4>5 DEF EntriesAgree, more
      <4>7. QED
        BY <4>3, <4>6
    <3>2. CASE m # last
      <4>1. ClosedBy(lines, title, n)
        BY <2>4, <3>2 DEF IsOpen
      <4>2. m \in 1..last - 1
        BY <1>1, <2>2, <3>2
      <4>3. w.sections[m] = v.sections[m]
        BY <4>2
      <4>4. more # {} <=> old # {}
        BY <2>6, <4>1
      <4> HIDE DEF m, old, more
      <4>5. QED
        BY <2>4, <2>6, <4>3, <4>4 DEF EntriesAgree, old, more
    <3>3. QED
      BY <3>1, <3>2
  <2>8. Titled(w.sections, title) # {}
    BY <1>2, <1>5
  <2>9. Opens(lines, title, n + 1) # {}
    BY <1>3, <2>1
  <2>10. EntriesAgree(w.sections[Min(Titled(w.sections, title))].entries,
                      lines, title, key, n + 1)
    BY <1>2, <2>7
  <2>11. IsOpen(w, title) <=> ~ClosedBy(lines, title, n + 1)
    BY <2>3, <2>4, <2>5
  <2>12. QED
    BY <2>8, <2>9, <2>10, <2>11 DEF Agrees
<1>6. QED
  BY <1>4, <1>5

WithEntry(secs, l) ==
  [secs EXCEPT ![Len(secs)].entries = Append(secs[Len(secs)].entries, l)]

\* What the parser makes of a line.
LEMMA ParseLineShape ==
  ASSUME NEW lines, lines \in Seq(ToSet(lines)), NEW v \in ParserStates(lines),
         NEW n \in 1..Len(lines), ParseLine(v, lines[n]).at # "broken"
  PROVE  LET l == lines[n]
             w == ParseLine(v, l)
             last == Len(v.sections)
         IN
         /\ v.at # "broken"
         /\ \/ l.line = "comment" /\ w = v
            \/ /\ l.line = "close" /\ v.at = "section"
               /\ w.sections = v.sections /\ w.at = "top"
            \/ /\ l.line = "open" /\ v.at = "top" /\ w.at = "section"
               /\ w.sections = Append(v.sections, [title |-> l.title, entries |-> <<>>])
            \/ /\ l.line = "entry" /\ v.at = "section" /\ w.at = "section"
               /\ last > 0 /\ v.sections[last] \in SectionsOf(lines)
               /\ w.sections = WithEntry(v.sections, l)
<1> DEFINE l == lines[n]
           w == ParseLine(v, l)
           secs == v.sections
           last == Len(secs)
<1>1. /\ secs \in Seq(SectionsOf(lines)) /\ v.at \in {"top", "section", "broken"}
      /\ v.at = "section" => secs # <<>>
      /\ v = [sections |-> secs, at |-> v.at]
      /\ last \in Nat
  BY LenProperties DEF ParserStates
<1>2. w.at # "broken"
  OBVIOUS
<1>3. v.at # "broken"
  BY <1>2 DEF ParseLine
<1>4. CASE l.line = "comment"
  BY <1>3, <1>4 DEF ParseLine
<1>5. CASE v.at = "top" /\ l.line = "open"
  BY <1>3, <1>5 DEF ParseLine
<1>6. CASE v.at = "section" /\ l.line = "entry"
  <2>1. last \in 1..last /\ last > 0 /\ secs[last] \in SectionsOf(lines)
    BY <1>1, <1>6, ElementOfSeq, EmptySeq
  <2>2. w = [v EXCEPT !.sections =
               [secs EXCEPT ![last].entries = Append(secs[last].entries, l)]]
    BY <1>6 DEF ParseLine
  <2>3. /\ w.sections = [secs EXCEPT ![last].entries = Append(secs[last].entries, l)]
        /\ w.at = "section"
    BY <1>1, <1>6, <2>2
  <2>4. QED
    BY <1>6, <2>1, <2>3 DEF WithEntry
<1>7. CASE v.at = "section" /\ l.line = "close"
  <2>1. w = [v EXCEPT !.at = "top"]
    BY <1>7 DEF ParseLine
  <2>2. w.sections = secs /\ w.at = "top"
    BY <1>1, <2>1
  <2>3. QED
    BY <1>3, <1>7, <2>2
<1>8. CASE ~(l.line = "comment" \/ v.at = "broken") /\ ~(v.at = "top" /\ l.line = "open")
           /\ ~(v.at = "section" /\ l.line = "entry") /\ ~(v.at = "section" /\ l.line = "close")
  <2>1. w = [v EXCEPT !.at = "broken"]
    BY <1>8 DEF ParseLine
  <2>2. QED
    BY <1>1, <1>2, <2>1
<1>9. QED
  BY <1>3, <1>4, <1>5, <1>6, <1>7, <1>8

\* The section that is being read after an entry more.
LEMMA EntryShape ==
  ASSUME NEW lines, NEW secs \in Seq(SectionsOf(lines)), Len(secs) > 0,
         NEW l \in ToSet(lines), NEW more, more = WithEntry(secs, l)
  PROVE  /\ Len(more) = Len(secs)
         /\ secs[Len(secs)].entries \in Seq(ToSet(lines))
         /\ more[Len(secs)].entries = Append(secs[Len(secs)].entries, l)
         /\ \A k \in 1..Len(secs) : more[k].title = secs[k].title
         /\ \A k \in 1..Len(secs) - 1 : more[k] = secs[k]
<1> DEFINE last == Len(secs)
           es == secs[last].entries
           new == [secs[last] EXCEPT !.entries = Append(es, l)]
<1>1. last \in 1..last /\ secs[last] \in SectionsOf(lines)
  BY LenProperties, ElementOfSeq
<1>2. es \in Seq(ToSet(lines)) /\ Append(es, l) \in Seq(ToSet(lines))
  BY <1>1, AppendProperties DEF SectionsOf
<1>3. /\ new \in SectionsOf(lines) /\ new.title = secs[last].title
      /\ new.entries = Append(es, l)
  BY <1>1, <1>2 DEF SectionsOf
<1>4. more = [secs EXCEPT ![last] = new]
  BY DEF WithEntry
<1> HIDE DEF new
<1> DEFINE put == [secs EXCEPT ![last] = new]
           Sec == SectionsOf(lines)
<1>5. /\ Len(put) = last
      /\ \A j \in 1..last : put[j] = IF j = last THEN new ELSE secs[j]
  <2>1. Len(put) = last
    BY <1>1, <1>3, ExceptSeq
  <2>2. DOMAIN secs = 1..last
    BY LenProperties
  <2>3. \A j \in 1..last : put[j] = IF j = last THEN new ELSE secs[j]
    BY <2>2
  <2>4. QED
    BY <2>1, <2>3
<1>6. QED
  BY <1>1, <1>2, <1>3, <1>4, <1>5

LEMMA AgreesStep ==
  ASSUME NEW lines, lines \in Seq(ToSet(lines)), NEW v \in ParserStates(lines),
         NEW n \in 0..Len(lines) - 1, NEW title, NEW key, NEW w,
         w = ParseLine(v, lines[n + 1]), w.at # "broken",
         Agrees(v, lines, title, key, n)
  PROVE  Agrees(w, lines, title, key, n + 1)
<1> DEFINE l == lines[n + 1]
           secs == v.sections
           Sec == SectionsOf(lines)
<1>1. /\ n \in Nat /\ n + 1 \in 1..Len(lines) /\ secs \in Seq(Sec)
      /\ l \in ToSet(lines)
  BY LenProperties, ElementOfSeq DEF ParserStates
<1>2. w \in ParserStates(lines)
  BY <1>1, ParseLineTypes
<1>3. \/ l.line = "comment" /\ w = v
      \/ /\ l.line = "close" /\ v.at = "section"
         /\ w.sections = secs /\ w.at = "top"
      \/ /\ l.line = "open" /\ v.at = "top" /\ w.at = "section"
         /\ w.sections = Append(secs, [title |-> l.title, entries |-> <<>>])
      \/ /\ l.line = "entry" /\ v.at = "section" /\ w.at = "section"
         /\ Len(secs) > 0
         /\ w.sections = WithEntry(secs, l)
  BY <1>1, ParseLineShape
<1>4. CASE l.line = "comment" /\ w = v
  <2>1. l.line \notin {"open", "entry", "close"}
    BY <1>4
  <2>2. Agrees(v, lines, title, key, n + 1)
    BY <1>1, <2>1, AgreeOnOthers
  <2>3. QED
    BY <1>4, <2>2
<1>5. CASE l.line = "close" /\ w.sections = secs /\ w.at = "top"
  BY <1>1, <1>5, AgreeOnClose
<1>6. CASE /\ l.line = "open" /\ v.at = "top" /\ w.at = "section"
           /\ w.sections = Append(secs, [title |-> l.title, entries |-> <<>>])
  <2> DEFINE s == [title |-> l.title, entries |-> <<>>]
  <2>1. s.title = l.title /\ s.entries = <<>> /\ s \in Sec
    BY <1>1, EmptySeq DEF SectionsOf
  <2>2. w.sections = Append(secs, s)
    BY <1>6
  <2> HIDE DEF s, Sec
  <2>3. QED
    BY <1>1, <1>6, <2>1, <2>2, AgreeOnOpen
<1>7. CASE /\ l.line = "entry" /\ v.at = "section" /\ w.at = "section"
           /\ Len(secs) > 0
           /\ w.sections = WithEntry(secs, l)
  <2> DEFINE L == ToSet(lines)
             more == w.sections
  <2>1. more \in Seq(Sec)
    BY <1>2 DEF ParserStates
  <2>2. /\ Len(more) = Len(secs)
        /\ secs[Len(secs)].entries \in Seq(L)
        /\ more[Len(secs)].entries = Append(secs[Len(secs)].entries, l)
        /\ \A k \in 1..Len(secs) : more[k].title = secs[k].title
        /\ \A k \in 1..Len(secs) - 1 : more[k] = secs[k]
    BY <1>1, <1>7, EntryShape
  <2> HIDE DEF L, Sec
  <2>3. l \in L
    BY <1>1 DEF L
  <2>4. QED
    BY <1>1, <1>7, <2>1, <2>2, <2>3, AgreeOnEntry
<1>8. QED
  BY <1>3, <1>4, <1>5, <1>6, <1>7

\* A file that was read to its end from nothing.
LEMMA FileRead ==
  ASSUME NEW lines, lines \in Seq(ToSet(lines)), NEW title, NEW key,
         ParseFile(<<>>, lines).at # "broken"
  PROVE  /\ Agrees(ParseFile(<<>>, lines), lines, title, key, Len(lines))
         /\ ParseFile(<<>>, lines) \in ParserStates(lines)
<1> DEFINE p == ParsedLines(<<>>, lines)
           top == Len(lines)
           T == ParserStates(lines)
<1>1. top \in Nat /\ ParseFile(<<>>, lines) = p[top]
  BY LenProperties, ParseFileIsParsedLines
<1>2. /\ p \in [0..top -> T]
      /\ p[0] = [sections |-> <<>>, at |-> "top"]
      /\ \A n \in 1..top : p[n] = ParseLine(p[n - 1], lines[n])
  <2>1. <<>> \in Seq(SectionsOf(lines))
    BY EmptySeq
  <2>2. QED
    BY <2>1, ParsedShape
<1> HIDE DEF p, top
<1> DEFINE S == {n \in 0..top : p[n].at # "broken" => Agrees(p[n], lines, title, key, n)}
<1>3. 0 \in S
  <2>1. Opens(lines, title, 0) = {} /\ Titled(<<>>, title) = {}
    BY DEF Opens, Titled
  <2>2. QED
    BY <1>1, <1>2, <2>1 DEF Agrees
<1>4. ASSUME NEW n \in 0..top - 1, n \in S PROVE n + 1 \in S
  <2>1. n + 1 \in 1..top /\ n \in 0..top /\ n + 1 \in 0..top /\ (n + 1) - 1 = n
    BY <1>1
  <2>2. p[n] \in T /\ p[n + 1] = ParseLine(p[n], lines[n + 1])
    BY <1>2, <2>1
  <2>3. SUFFICES ASSUME p[n + 1].at # "broken"
                 PROVE  Agrees(p[n + 1], lines, title, key, n + 1)
    BY <2>1
  <2>4. p[n].at # "broken"
    BY <2>1, <2>2, <2>3, ParseLineShape DEF top
  <2>5. Agrees(p[n], lines, title, key, n)
    BY <1>4, <2>4
  <2>6. n \in 0..Len(lines) - 1
    BY DEF top
  <2>7. QED
    BY <2>2, <2>3, <2>5, <2>6, AgreesStep
<1>5. \A n \in 0..top : n \in S
  <2>1. \A n \in 0..top - 1 : n \in S => n + 1 \in S
    BY <1>4
  <2>2. 0 \in Int /\ top \in Int /\ (0 <= top => 0 \in S)
    BY <1>1, <1>3
  <2> HIDE DEF S
  <2>3. QED
    BY <2>1, <2>2, InductUpTo, Zenon
<1>6. top \in 0..top /\ p[top].at # "broken"
  BY <1>1
<1>7. QED
  BY <1>1, <1>2, <1>5, <1>6 DEF top

\* A file that is read once more after it was read: nothing is found in it
\* that was not found before.
KeepsOld(old, v, lines, n) ==
  LET secs == v.sections IN
  /\ Len(secs) >= Len(old)
  /\ \A k \in 1..Len(old) : secs[k] = old[k]
  /\ v.at = "section" => Len(secs) > Len(old)
  /\ \A k \in Len(old) + 1..Len(secs) : Opens(lines, secs[k].title, n) # {}

LEMMA KeepsOldStep ==
  ASSUME NEW lines, lines \in Seq(ToSet(lines)), NEW v \in ParserStates(lines),
         NEW n \in 0..Len(lines) - 1, NEW old \in Seq(SectionsOf(lines)), NEW w,
         w = ParseLine(v, lines[n + 1]), w.at # "broken",
         KeepsOld(old, v, lines, n)
  PROVE  KeepsOld(old, w, lines, n + 1)
<1> DEFINE l == lines[n + 1]
           secs == v.sections
           more == w.sections
           Sec == SectionsOf(lines)
           lo == Len(old)
<1>1. /\ n \in Nat /\ n + 1 \in 1..Len(lines) /\ secs \in Seq(Sec)
      /\ l \in ToSet(lines) /\ lo \in Nat /\ Len(secs) \in Nat
  BY LenProperties, ElementOfSeq DEF ParserStates
<1>2. /\ Len(secs) >= lo
      /\ \A k \in 1..lo : secs[k] = old[k]
      /\ v.at = "section" => Len(secs) > lo
      /\ \A k \in lo + 1..Len(secs) : Opens(lines, secs[k].title, n) # {}
  BY DEF KeepsOld
<1>3. \A k \in lo + 1..Len(secs) : Opens(lines, secs[k].title, n + 1) # {}
  <2>1. ASSUME NEW k \in lo + 1..Len(secs) PROVE Opens(lines, secs[k].title, n + 1) # {}
    <3>1. Opens(lines, secs[k].title, n) # {}
      BY <1>2
    <3>2. Opens(lines, secs[k].title, n) \subseteq Opens(lines, secs[k].title, n + 1)
      BY <1>1 DEF Opens
    <3>3. QED
      BY <3>1, <3>2
  <2>2. QED
    BY <2>1
<1>4. \/ l.line = "comment" /\ w = v
      \/ /\ l.line = "close" /\ v.at = "section"
         /\ w.sections = secs /\ w.at = "top"
      \/ /\ l.line = "open" /\ v.at = "top" /\ w.at = "section"
         /\ w.sections = Append(secs, [title |-> l.title, entries |-> <<>>])
      \/ /\ l.line = "entry" /\ v.at = "section" /\ w.at = "section"
         /\ Len(secs) > 0
         /\ w.sections = WithEntry(secs, l)
  BY <1>1, ParseLineShape
<1>5. CASE w = v
  BY <1>2, <1>3, <1>5 DEF KeepsOld
<1>6. CASE w.sections = secs /\ w.at = "top"
  BY <1>2, <1>3, <1>6 DEF KeepsOld
<1>7. CASE /\ l.line = "open" /\ w.at = "section"
           /\ w.sections = Append(secs, [title |-> l.title, entries |-> <<>>])
  <2> DEFINE s == [title |-> l.title, entries |-> <<>>]
             top == Len(secs)
  <2>1. s.title = l.title /\ s \in Sec
    BY <1>1, EmptySeq DEF SectionsOf
  <2>2. more = Append(secs, s)
    BY <1>7
  <2> HIDE DEF s, Sec, more
  <2>3. /\ Len(more) = top + 1 /\ more[top + 1] = s
        /\ \A k \in 1..top : more[k] = secs[k]
    BY <1>1, <2>1, <2>2, AppendProperties
  <2>4. n + 1 \in Opens(lines, l.title, n + 1)
    BY <1>1, <1>7 DEF Opens
  <2> HIDE DEF l
  <2>5. ASSUME NEW k \in lo + 1..top + 1 PROVE Opens(lines, more[k].title, n + 1) # {}
    <3>1. CASE k = top + 1
      <4>1. more[k].title = l.title
        BY <2>1, <2>3, <3>1
      <4>2. QED
        BY <2>4, <4>1
    <3>2. CASE k # top + 1
      <4>1. k \in lo + 1..top /\ k \in 1..top
        BY <1>1, <3>2
      <4>2. more[k] = secs[k]
        BY <2>3, <4>1
      <4>3. QED
        BY <1>3, <4>1, <4>2
    <3>3. QED
      BY <3>1, <3>2
  <2>6. Len(more) >= lo /\ Len(more) > lo
    BY <1>1, <1>2, <2>3
  <2>7. \A k \in 1..lo : more[k] = old[k]
    BY <1>1, <1>2, <2>3
  <2>8. \A k \in lo + 1..Len(more) : Opens(lines, more[k].title, n + 1) # {}
    BY <2>3, <2>5
  <2>9. QED
    BY <2>6, <2>7, <2>8 DEF KeepsOld, more
<1>8. CASE /\ v.at = "section" /\ w.at = "section"
           /\ Len(secs) > 0
           /\ w.sections = WithEntry(secs, l)
  <2>1. /\ Len(more) = Len(secs)
        /\ \A k \in 1..Len(secs) : more[k].title = secs[k].title
        /\ \A k \in 1..Len(secs) - 1 : more[k] = secs[k]
    BY <1>1, <1>8, EntryShape
  <2> HIDE DEF secs, more
  <2>2. Len(secs) > lo
    BY <1>2, <1>8
  <2>3. \A k \in 1..lo : more[k] = old[k]
    BY <1>1, <1>2, <2>1, <2>2
  <2>4. \A k \in lo + 1..Len(more) : Opens(lines, more[k].title, n + 1) # {}
    <3>1. ASSUME NEW k \in lo + 1..Len(more) PROVE Opens(lines, more[k].title, n + 1) # {}
      <4>1. k \in 1..Len(secs) /\ k \in lo + 1..Len(secs)
        BY <1>1, <2>1
      <4>2. more[k].title = secs[k].title
        BY <2>1, <4>1
      <4>3. QED
        BY <1>3, <4>1, <4>2
    <3>2. QED
      BY <3>1
  <2>5. Len(more) > lo /\ Len(more) >= lo
    BY <1>1, <2>1, <2>2
  <2>6. QED
    BY <2>3, <2>4, <2>5 DEF KeepsOld, more
<1>9. QED
  BY <1>4, <1>5, <1>6, <1>7, <1>8

LEMMA FileReadAgain ==
  ASSUME NEW lines, lines \in Seq(ToSet(lines)),
         NEW old \in Seq(SectionsOf(lines)), ParseFile(old, lines).at # "broken"
  PROVE  /\ KeepsOld(old, ParseFile(old, lines), lines, Len(lines))
         /\ ParseFile(old, lines) \in ParserStates(lines)
<1> DEFINE p == ParsedLines(old, lines)
           top == Len(lines)
           T == ParserStates(lines)
<1>1. top \in Nat /\ ParseFile(old, lines) = p[top]
  BY LenProperties, ParseFileIsParsedLines
<1>2. /\ p \in [0..top -> T]
      /\ p[0] = [sections |-> old, at |-> "top"]
      /\ \A n \in 1..top : p[n] = ParseLine(p[n - 1], lines[n])
  BY ParsedShape
<1> HIDE DEF p, top
<1> DEFINE S == {n \in 0..top : p[n].at # "broken" => KeepsOld(old, p[n], lines, n)}
<1>3. 0 \in S
  <2>1. Len(old) \in Nat
    BY LenProperties
  <2>2. p[0].sections = old /\ p[0].at = "top"
    BY <1>2
  <2>3. KeepsOld(old, p[0], lines, 0)
    BY <2>1, <2>2 DEF KeepsOld
  <2>4. QED
    BY <1>1, <2>3
<1>4. ASSUME NEW n \in 0..top - 1, n \in S PROVE n + 1 \in S
  <2>1. n + 1 \in 1..top /\ n \in 0..top /\ n + 1 \in 0..top /\ (n + 1) - 1 = n
    BY <1>1
  <2>2. p[n] \in T /\ p[n + 1] = ParseLine(p[n], lines[n + 1])
    BY <1>2, <2>1
  <2>3. SUFFICES ASSUME p[n + 1].at # "broken"
                 PROVE  KeepsOld(old, p[n + 1], lines, n + 1)
    BY <2>1
  <2>4. p[n].at # "broken"
    BY <2>1, <2>2, <2>3, ParseLineShape DEF top
  <2>5. KeepsOld(old, p[n], lines, n)
    BY <1>4, <2>4
  <2>6. n \in 0..Len(lines) - 1
    BY DEF top
  <2>7. QED
    BY <2>2, <2>3, <2>5, <2>6, KeepsOldStep
<1>5. \A n \in 0..top : n \in S
  <2>1. \A n \in 0..top - 1 : n \in S => n + 1 \in S
    BY <1>4
  <2>2. 0 \in Int /\ top \in Int /\ (0 <= top => 0 \in S)
    BY <1>1, <1>3
  <2> HIDE DEF S
  <2>3. QED
    BY <2>1, <2>2, InductUpTo, Zenon
<1>6. top \in 0..top /\ p[top].at # "broken"
  BY <1>1
<1>7. QED
  BY <1>1, <1>2, <1>5, <1>6 DEF top

-----------------------------------------------------------------------------
(* The settings of the config file are those of the reference.              *)

LEMMA SettingShape ==
  ASSUME NEW title, NEW key
  PROVE  LET n == Len(in.file) IN
         Setting(title, key) =
           IF Opens(in.file, title, n) = {} \/ Under(in.file, title, key, n) = {}
           THEN None ELSE in.file[Min(Under(in.file, title, key, n))].value
BY DEF Setting, Opens, Under, OpenAt, Gives

LEMMA FindByKeyShape ==
  ASSUME NEW secs, NEW title, NEW key
  PROVE  /\ Titled(secs, title) = {} => FindByKey(secs, title, key) = None
         /\ Titled(secs, title) # {} =>
              LET ls == secs[Min(Titled(secs, title))].entries IN
              FindByKey(secs, title, key) =
                IF Keyed(ls, key) = {} THEN None ELSE ls[Min(Keyed(ls, key))].value
<1>1. \A ls : EntryOf(ls, key) =
         IF Keyed(ls, key) = {} THEN None ELSE ls[Min(Keyed(ls, key))].value
  BY DEF EntryOf, Keyed, Gives
<1>2. FindSection(secs, title) =
        IF Titled(secs, title) = {} THEN <<>> ELSE secs[Min(Titled(secs, title))].entries
  BY DEF FindSection, Titled
<1>3. EntryOf(<<>>, key) = None
  <2>1. Keyed(<<>>, key) = {}
    BY DEF Keyed
  <2>2. QED
    BY <1>1, <2>1
<1>4. QED
  BY <1>1, <1>2, <1>3 DEF FindByKey

LEMMA AgreeingValue ==
  ASSUME NEW v, NEW title, NEW key, Agrees(v, in.file, title, key, Len(in.file))
  PROVE  FindByKey(v.sections, title, key) = Setting(title, key)
<1> DEFINE n == Len(in.file)
           secs == v.sections
           hits == Titled(secs, title)
           ls == secs[Min(hits)].entries
           under == Under(in.file, title, key, n)
<1>1. CASE hits = {}
  <2>1. Opens(in.file, title, n) = {}
    BY <1>1 DEF Agrees
  <2>2. Setting(title, key) = None
    BY <2>1, SettingShape
  <2>3. FindByKey(secs, title, key) = None
    BY <1>1, FindByKeyShape
  <2>4. QED
    BY <2>2, <2>3
<1>2. CASE hits # {}
  <2>1. Opens(in.file, title, n) # {} /\ EntriesAgree(ls, in.file, title, key, n)
    BY <1>2 DEF Agrees
  <2>2. /\ Keyed(ls, key) # {} <=> under # {}
        /\ Keyed(ls, key) # {} => ls[Min(Keyed(ls, key))] = in.file[Min(under)]
    BY <2>1 DEF EntriesAgree
  <2>3. FindByKey(secs, title, key) =
          IF Keyed(ls, key) = {} THEN None ELSE ls[Min(Keyed(ls, key))].value
    BY <1>2, FindByKeyShape
  <2>4. Opens(in.file, title, n) # {}
    BY <2>1
  <2>5. Setting(title, key) = IF under = {} THEN None ELSE in.file[Min(under)].value
    BY <2>4, SettingShape
  <2> HIDE DEF ls, under, secs
  <2>6. QED
    BY <2>2, <2>3, <2>5 DEF secs
<1>3. QED
  BY <1>1, <1>2

FileAssumption == in.file \in Seq(ToSet(in.file))

Once == ParseFile(<<>>, in.file)
Twice == ParseFile(Once.sections, in.file)

LEMMA ReadOnce ==
  ASSUME FileAssumption, Once.at # "broken", NEW title, NEW key
  PROVE  /\ FindByKey(Once.sections, title, key) = Setting(title, key)
         /\ Once \in ParserStates(in.file)
BY FileRead, AgreeingValue DEF FileAssumption, Once

\* Reading the file a second time changes no answer.
LEMMA ReadTwice ==
  ASSUME FileAssumption, Once.at # "broken", Twice.at # "broken", NEW title, NEW key
  PROVE  FindByKey(Twice.sections, title, key) = Setting(title, key)
<1> DEFINE old == Once.sections
           secs == Twice.sections
           n == Len(in.file)
           Sec == SectionsOf(in.file)
<1>1. /\ Once \in ParserStates(in.file) /\ Agrees(Once, in.file, title, key, n)
      /\ FindByKey(old, title, key) = Setting(title, key)
  BY FileRead, ReadOnce DEF FileAssumption, Once
<1>2. old \in Seq(Sec)
  BY <1>1 DEF ParserStates
<1>3. KeepsOld(old, Twice, in.file, n) /\ Twice \in ParserStates(in.file)
  BY <1>2, FileReadAgain DEF FileAssumption, Twice
<1>4. /\ secs \in Seq(Sec) /\ Len(secs) \in Nat /\ Len(old) \in Nat
  BY <1>2, <1>3, LenProperties DEF ParserStates
<1>5. /\ Len(secs) >= Len(old)
      /\ \A k \in 1..Len(old) : secs[k] = old[k]
      /\ \A k \in Len(old) + 1..Len(secs) : Opens(in.file, secs[k].title, n) # {}
  BY <1>3 DEF KeepsOld
<1> HIDE DEF old, secs, n
<1> DEFINE S == Titled(old, title)
           U == Titled(secs, title)
<1>6. S \subseteq U
  BY <1>4, <1>5 DEF Titled
<1>7. CASE S # {}
  <2>1. S \in SUBSET Int /\ \A x \in S : 1 <= x
    BY <1>4 DEF Titled
  <2>2. \A x \in U : x \in S \/ x > Len(old)
    BY <1>4, <1>5 DEF Titled
  <2>3. \A x \in S : x \in 1..Len(old)
    BY DEF Titled
  <2>4. U \in SUBSET Int
    BY <1>4 DEF Titled
  <2>5. U # {}
    BY <1>6, <1>7
  <2>6. \A x \in U : 1 <= x
    BY <1>4 DEF Titled
  <2>a. S \in SUBSET Int
    BY <2>1
  <2>b. \A x \in S : 1 <= x
    BY <2>1
  <2> HIDE DEF S, U
  <2>c. Min(S) \in S /\ \A x \in S : Min(S) <= x
    BY <1>7, <2>a, <2>b, MinShape
  <2>d. Min(U) \in U /\ \A x \in U : Min(U) <= x
    BY <2>4, <2>5, <2>6, MinShape
  <2>e. Min(S) \in S /\ Min(S) \in U
    BY <1>6, <2>c
  <2>f. Min(U) <= Min(S)
    BY <2>d, <2>e
  <2>g. Min(S) \in 1..Len(old)
    BY <2>3, <2>e
  <2>h. Min(U) \in Int /\ Min(S) \in Int
    BY <2>a, <2>4, <2>c, <2>d
  <2>i. Min(U) \in S \/ Min(U) > Len(old)
    BY <2>2, <2>d
  <2>7. Min(U) \in S
    BY <1>4, <2>f, <2>g, <2>h, <2>i
  <2>j. Min(S) <= Min(U)
    BY <2>c, <2>7
  <2>8. Min(U) = Min(S)
    BY <2>f, <2>h, <2>j
  <2>9. secs[Min(U)] = old[Min(S)]
    BY <1>5, <2>g, <2>8
  <2>10. FindSection(secs, title) = FindSection(old, title)
    BY <1>7, <2>5, <2>9, Zenon DEF FindSection, Titled, S, U
  <2>11. QED
    BY <1>1, <2>10 DEF FindByKey, secs, old
<1>8. CASE S = {}
  <2>1. Opens(in.file, title, n) = {}
    BY <1>1, <1>8 DEF Agrees, old
  <2>2. U = {}
    BY <1>4, <1>5, <1>8, <2>1 DEF Titled
  <2>3. FindByKey(secs, title, key) = None /\ FindByKey(old, title, key) = None
    BY <1>8, <2>2, FindByKeyShape
  <2>4. QED
    BY <1>1, <2>3 DEF secs, old
<1>9. QED
  BY <1>7, <1>8

-----------------------------------------------------------------------------
(* The options of the command line, one after the other.                    *)

\* The values cfg can take while they are read.
ConfigsFrom(c) ==
  LET args == {c.account, c.remote, c.type}
                \cup {in.options[i].arg : i \in 1..Len(in.options)}
  IN  [inited : BOOLEAN, account : args, remote : args, type : args,
       force : BOOLEAN, nocolour : BOOLEAN, testedtty : BOOLEAN,
       nospinner : BOOLEAN, nomarkdown : BOOLEAN, experimental : BOOLEAN]

\* The recursive function of WithOptions has a name.
GivenUpTo(c) ==
  CHOOSE given : given = [n \in 0..Len(in.options) |->
                            IF n = 0 THEN c ELSE Option(given[n - 1], in.options[n])]

LEMMA WithOptionsIsGiven ==
  ASSUME NEW c
  PROVE  WithOptions(c) = GivenUpTo(c)[Len(in.options)]
BY DEF WithOptions, GivenUpTo

OptionsAssumption == in.options \in Seq(ToSet(in.options))

LEMMA OptionTypes ==
  ASSUME NEW c, NEW v \in ConfigsFrom(c), NEW n \in 1..Len(in.options)
  PROVE  Option(v, in.options[n]) \in ConfigsFrom(c)
<1> DEFINE o == in.options[n]
           args == {c.account, c.remote, c.type}
                     \cup {in.options[i].arg : i \in 1..Len(in.options)}
<1>1. o.arg \in args
  OBVIOUS
<1>2. v \in [inited : BOOLEAN, account : args, remote : args, type : args,
             force : BOOLEAN, nocolour : BOOLEAN, testedtty : BOOLEAN,
             nospinner : BOOLEAN, nomarkdown : BOOLEAN, experimental : BOOLEAN]
  BY DEF ConfigsFrom
<1>3. \/ Option(v, o) = [v EXCEPT !.account = o.arg]
      \/ Option(v, o) = [v EXCEPT !.remote = o.arg]
      \/ Option(v, o) = [v EXCEPT !.type = o.arg]
      \/ Option(v, o) = [v EXCEPT !.force = TRUE]
      \/ Option(v, o) = [v EXCEPT !.nocolour = FALSE]
      \/ Option(v, o) = [v EXCEPT !.nospinner = TRUE]
      \/ Option(v, o) = [v EXCEPT !.nomarkdown = TRUE]
      \/ Option(v, o) = v
  BY DEF Option
<1> HIDE DEF args, o
<1>4. Option(v, o) \in
            [inited : BOOLEAN, account : args, remote : args, type : args,
             force : BOOLEAN, nocolour : BOOLEAN, testedtty : BOOLEAN,
             nospinner : BOOLEAN, nomarkdown : BOOLEAN, experimental : BOOLEAN]
  BY <1>1, <1>2, <1>3
<1>5. QED
  BY <1>4 DEF ConfigsFrom, args, o

LEMMA GivenShape ==
  ASSUME OptionsAssumption, NEW c, c \in ConfigsFrom(c)
  PROVE  LET g == GivenUpTo(c) IN
         /\ g \in [0..Len(in.options) -> ConfigsFrom(c)]
         /\ g[0] = c
         /\ \A n \in 1..Len(in.options) : g[n] = Option(g[n - 1], in.options[n])
<1> DEFINE top == Len(in.options)
           T == ConfigsFrom(c)
           step == [i \in 1..top |-> [v \in T |-> Option(v, in.options[i])]]
           Is(f) == f = [n \in 0..top |-> IF n = 0 THEN c ELSE Option(f[n - 1], in.options[n])]
<1>1. top \in Nat /\ c \in T
  BY LenProperties DEF OptionsAssumption
<1>2. \A i \in 1..top, v \in T :
        step[i][v] = Option(v, in.options[i]) /\ step[i][v] \in T
  <2>1. \A i \in 1..top, v \in T : Option(v, in.options[i]) \in T
    BY OptionTypes
  <2> HIDE DEF T
  <2>2. QED
    BY <2>1
<1> HIDE DEF top, T
<1>3. PICK f \in [0..top -> T] : Recurs(f, 0, top, c, step)
  <2>1. 0 \in Int /\ top \in Int /\ 0 <= top /\ 0 + 1 = 1
    BY <1>1
  <2>2. IsStep(step, 0, top, T)
    BY <1>2, <2>1 DEF IsStep
  <2> HIDE DEF step
  <2>3. QED
    BY <1>1, <2>1, <2>2, Recursion, Zenon
<1>4. f[0] = c /\ \A n \in 1..top : f[n] = Option(f[n - 1], in.options[n])
  <2>1. ASSUME NEW n \in 1..top PROVE f[n] = Option(f[n - 1], in.options[n])
    <3>1. n \in 0 + 1..top /\ n - 1 \in 0..top
      BY <1>1
    <3>2. f[n - 1] \in T
      BY <3>1
    <3> HIDE DEF step
    <3>3. step[n][f[n - 1]] = Option(f[n - 1], in.options[n])
      BY <3>2, <1>2, Zenon
    <3>4. f[n] = step[n][f[n - 1]]
      BY <3>1, <1>3, Zenon DEF Recurs
    <3>5. QED
      BY <3>3, <3>4, Zenon
  <2>2. QED
    BY <2>1, <1>3 DEF Recurs
<1>5. Is(f)
  <2>1. ASSUME NEW n \in 0..top
        PROVE  f[n] = IF n = 0 THEN c ELSE Option(f[n - 1], in.options[n])
    <3>1. n # 0 => n \in 1..top
      BY <1>1
    <3>2. QED
      BY <1>4, <3>1, Zenon
  <2>2. f = [n \in 0..top |-> f[n]]
    BY <1>3
  <2>3. QED
    BY <2>1, <2>2, Zenon
<1> DEFINE p == GivenUpTo(c)
<1>6. Is(p)
  BY <1>5, Zenon DEF GivenUpTo, top
<1> HIDE DEF p
<1>7. p[0] = c /\ \A n \in 1..top : p[n] = Option(p[n - 1], in.options[n])
  <2>1. 0 \in 0..top /\ \A n \in 1..top : n \in 0..top /\ n # 0
    BY <1>1
  <2>2. QED
    BY <1>6, <2>1, Zenon
<1>8. p \in [0..top -> T]
  <2> DEFINE S == {n \in 0..top : p[n] \in T}
  <2>1. 0 \in S
    BY <1>1, <1>7
  <2>2. \A n \in 0..top - 1 : n \in S => n + 1 \in S
    <3>1. ASSUME NEW n \in 0..top - 1, n \in S PROVE n + 1 \in S
      <4>1. n + 1 \in 1..top /\ (n + 1) - 1 = n
        BY <1>1
      <4>2. p[n + 1] = Option(p[n], in.options[n + 1])
        BY <1>7, <4>1, Zenon
      <4>3. QED
        BY <3>1, <4>1, <4>2, OptionTypes DEF T, top
    <3>2. QED
      BY <3>1
  <2>3. \A n \in 0..top : n \in S
    <3>1. 0 \in Int /\ top \in Int /\ (0 <= top => 0 \in S)
      BY <1>1, <2>1
    <3> HIDE DEF S
    <3>2. QED
      BY <2>2, <3>1, InductUpTo, Zenon
  <2>4. \A n \in 0..top : p[n] \in T
    BY <2>3
  <2>5. p = [n \in 0..top |-> p[n]]
    BY <1>6, Zenon
  <2>6. QED
    BY <2>4, <2>5
<1>9. QED
  BY <1>7, <1>8 DEF p, top, T

\* The last element of a set of numbers when a larger one is added.
LEMMA LastOfMore ==
  ASSUME NEW n \in Nat, NEW S \in SUBSET (1..n)
  PROVE  Max(S \cup {n + 1}) = n + 1
<1> DEFINE U == S \cup {n + 1}
<1>1. U \in SUBSET Int /\ n + 1 \in U /\ n + 1 \in Int
  OBVIOUS
<1>2. \A x \in U : x <= n + 1
  OBVIOUS
<1>3. U \in SUBSET Int /\ U # {}
  BY <1>1
<1> HIDE DEF U
<1>4. Max(U) \in U /\ \A x \in U : x <= Max(U)
  BY <1>1, <1>2, <1>3, MaxShape
<1>5. Max(U) \in Int /\ Max(U) <= n + 1 /\ n + 1 <= Max(U)
  BY <1>1, <1>2, <1>3, <1>4
<1>6. QED
  BY <1>5 DEF U

\* The first n options that are opt, and the argument of the last of them.
GivenBy(opt, n) == {i \in 1..n : in.options[i].opt = opt}

LastArg(opt, n, default) ==
  IF GivenBy(opt, n) = {} THEN default ELSE in.options[Max(GivenBy(opt, n))].arg

LEMMA GivenByMore ==
  ASSUME NEW n \in Nat, NEW opt, NEW default
  PROVE  LET o == in.options[n + 1] IN
         /\ o.opt = opt => /\ GivenBy(opt, n + 1) # {}
                           /\ LastArg(opt, n + 1, default) = o.arg
         /\ o.opt # opt => /\ GivenBy(opt, n + 1) = GivenBy(opt, n)
                           /\ LastArg(opt, n + 1, default) = LastArg(opt, n, default)
<1> DEFINE o == in.options[n + 1]
           S == GivenBy(opt, n)
<1>1. S \in SUBSET (1..n)
  BY DEF GivenBy
<1>2. o.opt = opt => GivenBy(opt, n + 1) = S \cup {n + 1}
  BY DEF GivenBy
<1>3. o.opt # opt => GivenBy(opt, n + 1) = S
  BY DEF GivenBy
<1> HIDE DEF S
<1>4. Max(S \cup {n + 1}) = n + 1
  BY <1>1, LastOfMore
<1>5. CASE o.opt = opt
  <2>1. GivenBy(opt, n + 1) = S \cup {n + 1} /\ GivenBy(opt, n + 1) # {}
    BY <1>2, <1>5
  <2>2. LastArg(opt, n + 1, default) = in.options[n + 1].arg
    BY <1>4, <2>1, Zenon DEF LastArg
  <2>3. QED
    BY <1>5, <2>1, <2>2
<1>6. CASE o.opt # opt
  BY <1>3, <1>6 DEF S, LastArg
<1>7. QED
  BY <1>5, <1>6

\* What the first n options have made of c.
Tells(v, c, n) ==
  /\ v.account = LastArg("account", n, c.account)
  /\ v.remote = LastArg("remote", n, c.remote)
  /\ v.type = LastArg("type", n, c.type)

Switches(v, c, n) ==
  /\ v.force <=> c.force \/ GivenBy("c", n) # {}
  /\ v.nocolour <=> c.nocolour /\ GivenBy("colours", n) = {}
  /\ v.nospinner <=> c.nospinner \/ GivenBy("no-spinner", n) # {}
  /\ v.nomarkdown <=> c.nomarkdown \/ GivenBy("no-markdown", n) # {}
  /\ v.experimental = c.experimental
  /\ v.testedtty = c.testedtty

\* What one option does to each field.
LEMMA OptionSets ==
  ASSUME NEW c, NEW v \in ConfigsFrom(c), NEW o
  PROVE  LET w == Option(v, o) IN
         /\ w.account = IF o.opt = "account" THEN o.arg ELSE v.account
         /\ w.remote = IF o.opt = "remote" THEN o.arg ELSE v.remote
         /\ w.type = IF o.opt = "type" THEN o.arg ELSE v.type
         /\ w.force = IF o.opt = "c" THEN TRUE ELSE v.force
         /\ w.nocolour = IF o.opt = "colours" THEN FALSE ELSE v.nocolour
         /\ w.nospinner = IF o.opt = "no-spinner" THEN TRUE ELSE v.nospinner
         /\ w.nomarkdown = IF o.opt = "no-markdown" THEN TRUE ELSE v.nomarkdown
         /\ w.experimental = v.experimental
         /\ w.testedtty = v.testedtty
<1> DEFINE w == Option(v, o)
<1>1. v \in [inited : BOOLEAN, account : {v.account}, remote : {v.remote}, type : {v.type},
             force : BOOLEAN, nocolour : BOOLEAN, testedtty : BOOLEAN,
             nospinner : BOOLEAN, nomarkdown : BOOLEAN, experimental : BOOLEAN]
  BY DEF ConfigsFrom
<1>2. CASE o.opt = "account"
  <2>1. w = [v EXCEPT !.account = o.arg]
    BY <1>2 DEF Option
  <2>2. QED
    BY <1>1, <1>2, <2>1
<1>3. CASE o.opt = "remote"
  <2>1. w = [v EXCEPT !.remote = o.arg]
    BY <1>3 DEF Option
  <2>2. QED
    BY <1>1, <1>3, <2>1
<1>4. CASE o.opt = "type"
  <2>1. w = [v EXCEPT !.type = o.arg]
    BY <1>4 DEF Option
  <2>2. QED
    BY <1>1, <1>4, <2>1
<1>5. CASE o.opt = "c"
  <2>1. w = [v EXCEPT !.force = TRUE]
    BY <1>5 DEF Option
  <2>2. QED
    BY <1>1, <1>5, <2>1
<1>6. CASE o.opt = "colours"
  <2>1. w = [v EXCEPT !.nocolour = FALSE]
    BY <1>6 DEF Option
  <2>2. QED
    BY <1>1, <1>6, <2>1
<1>7. CASE o.opt = "no-spinner"
  <2>1. w = [v EXCEPT !.nospinner = TRUE]
    BY <1>7 DEF Option
  <2>2. QED
    BY <1>1, <1>7, <2>1
<1>8. CASE o.opt = "no-markdown"
  <2>1. w = [v EXCEPT !.nomarkdown = TRUE]
    BY <1>8 DEF Option
  <2>2. QED
    BY <1>1, <1>8, <2>1
<1>9. CASE o.opt \notin {"account", "remote", "type", "c", "colours",
                         "no-spinner", "no-markdown"}
  <2>1. w = v
    BY <1>9 DEF Option
  <2>2. QED
    BY <1>1, <1>9, <2>1
<1>10. QED
  BY <1>2, <1>3, <1>4, <1>5, <1>6, <1>7, <1>8, <1>9

LEMMA OptionStep ==
  ASSUME NEW c, NEW n \in Nat, NEW v \in ConfigsFrom(c), c \in ConfigsFrom(c),
         Tells(v, c, n), Switches(v, c, n)
  PROVE  LET w == Option(v, in.options[n + 1]) IN
         Tells(w, c, n + 1) /\ Switches(w, c, n + 1)
<1> DEFINE o == in.options[n + 1]
           w == Option(v, o)
<1>1. /\ w.account = IF o.opt = "account" THEN o.arg ELSE v.account
      /\ w.remote = IF o.opt = "remote" THEN o.arg ELSE v.remote
      /\ w.type = IF o.opt = "type" THEN o.arg ELSE v.type
  BY OptionSets
<1>2. /\ w.force = IF o.opt = "c" THEN TRUE ELSE v.force
      /\ w.nocolour = IF o.opt = "colours" THEN FALSE ELSE v.nocolour
      /\ w.nospinner = IF o.opt = "no-spinner" THEN TRUE ELSE v.nospinner
      /\ w.nomarkdown = IF o.opt = "no-markdown" THEN TRUE ELSE v.nomarkdown
      /\ w.experimental = v.experimental
      /\ w.testedtty = v.testedtty
  BY OptionSets
<1>3. \A opt : /\ o.opt = opt => GivenBy(opt, n + 1) # {}
               /\ o.opt # opt => GivenBy(opt, n + 1) = GivenBy(opt, n)
  BY GivenByMore
<1>4. \A opt, default :
         /\ o.opt = opt => LastArg(opt, n + 1, default) = o.arg
         /\ o.opt # opt => LastArg(opt, n + 1, default) = LastArg(opt, n, default)
  BY GivenByMore
<1> HIDE DEF o, w
<1>5. Tells(w, c, n + 1)
  <2>1. w.account = LastArg("account", n + 1, c.account)
    BY <1>1, <1>4 DEF Tells
  <2>2. w.remote = LastArg("remote", n + 1, c.remote)
    BY <1>1, <1>4 DEF Tells
  <2>3. w.type = LastArg("type", n + 1, c.type)
    BY <1>1, <1>4 DEF Tells
  <2>4. QED
    BY <2>1, <2>2, <2>3 DEF Tells
<1>6. Switches(w, c, n + 1)
  <2>1. w.force <=> c.force \/ GivenBy("c", n + 1) # {}
    BY <1>2, <1>3, Zenon DEF Switches
  <2>2. w.nocolour <=> c.nocolour /\ GivenBy("colours", n + 1) = {}
    BY <1>2, <1>3, Zenon DEF Switches
  <2>3. w.nospinner <=> c.nospinner \/ GivenBy("no-spinner", n + 1) # {}
    BY <1>2, <1>3, Zenon DEF Switches
  <2>4. w.nomarkdown <=> c.nomarkdown \/ GivenBy("no-markdown", n + 1) # {}
    BY <1>2, <1>3, Zenon DEF Switches
  <2>5. w.experimental = c.experimental /\ w.testedtty = c.testedtty
    BY <1>2 DEF Switches
  <2>6. QED
    BY <2>1, <2>2, <2>3, <2>4, <2>5, Zenon DEF Switches
<1>7. QED
  BY <1>5, <1>6 DEF w, o

LEMMA OptionsGiven ==
  ASSUME OptionsAssumption, NEW c, c \in ConfigsFrom(c)
  PROVE  LET n == Len(in.options) IN
         /\ WithOptions(c) \in ConfigsFrom(c)
         /\ Tells(WithOptions(c), c, n)
         /\ Switches(WithOptions(c), c, n)
<1> DEFINE top == Len(in.options)
           g == GivenUpTo(c)
           T == ConfigsFrom(c)
           S == {n \in 0..top : Tells(g[n], c, n) /\ Switches(g[n], c, n)}
<1>1. top \in Nat
  BY LenProperties DEF OptionsAssumption
<1>2. g \in [0..top -> T] /\ g[0] = c
  BY GivenShape
<1>3. \A n \in 1..top : g[n] = Option(g[n - 1], in.options[n])
  BY GivenShape
<1> HIDE DEF g, top, T
<1>4. 0 \in S
  <2>1. \A opt : GivenBy(opt, 0) = {}
    BY DEF GivenBy
  <2>2. Tells(g[0], c, 0)
    BY <1>2, <2>1 DEF Tells, LastArg
  <2>3. Switches(c, c, 0)
    BY <2>1, Zenon DEF Switches
  <2>4. QED
    BY <1>1, <1>2, <2>2, <2>3
<1>5. ASSUME NEW n \in 0..top - 1, n \in S PROVE n + 1 \in S
  <2>1. n + 1 \in 1..top /\ n \in 0..top /\ n + 1 \in 0..top /\ n \in Nat
    BY <1>1
  <2>2. g[n] \in ConfigsFrom(c)
    BY <1>2, <2>1 DEF T
  <2>3. g[n + 1] = Option(g[n], in.options[n + 1])
    <3>1. (n + 1) - 1 = n
      BY <2>1
    <3>2. QED
      BY <1>3, <2>1, <3>1, Zenon
  <2>4. Tells(g[n], c, n) /\ Switches(g[n], c, n)
    BY <1>5
  <2>5. Tells(g[n + 1], c, n + 1) /\ Switches(g[n + 1], c, n + 1)
    BY <2>1, <2>2, <2>3, <2>4, OptionStep
  <2>6. QED
    BY <2>1, <2>5
<1>6. top \in S
  <2>1. \A n \in 0..top - 1 : n \in S => n + 1 \in S
    BY <1>5
  <2>2. 0 \in Int /\ top \in Int /\ (0 <= top => 0 \in S)
    BY <1>1, <1>4
  <2>3. top \in 0..top
    BY <1>1
  <2> HIDE DEF S
  <2>4. QED
    BY <2>1, <2>2, <2>3, InductUpTo, Zenon
<1>7. g[top] \in T
  BY <1>1, <1>2
<1>8. QED
  BY <1>6, <1>7, WithOptionsIsGiven DEF g, top, T

\* The same in the words of the reference.
LEMMA OptionGivenIsLast ==
  ASSUME NEW opt
  PROVE  /\ OptionGiven(opt) = LastArg(opt, Len(in.options), None)
         /\ Flag(opt) <=> GivenBy(opt, Len(in.options)) # {}
<1>1. OptionGiven(opt) = LastArg(opt, Len(in.options), None)
  BY DEF OptionGiven, LastArg, GivenBy
<1>2. Flag(opt) <=> GivenBy(opt, Len(in.options)) # {}
  BY DEF Flag, GivenBy
<1>3. QED
  BY <1>1, <1>2

\* An option with an argument is a value.
ArgumentsAssumption ==
  \A i \in 1..Len(in.options) :
    in.options[i].opt \in {"account", "remote", "type"} => in.options[i].arg # None

LEMMA LastIsGiven ==
  ASSUME OptionsAssumption, NEW opt, GivenBy(opt, Len(in.options)) # {}
  PROVE  LET i == Max(GivenBy(opt, Len(in.options))) IN
         /\ i \in 1..Len(in.options) /\ in.options[i].opt = opt
         /\ OptionGiven(opt) = in.options[i].arg
<1> DEFINE n == Len(in.options)
           S == GivenBy(opt, n)
<1>1. n \in Nat
  BY LenProperties DEF OptionsAssumption
<1>2. S \in SUBSET Int /\ n \in Int
  BY <1>1 DEF GivenBy
<1>3. \A x \in S : x <= n
  BY <1>1 DEF GivenBy
<1>4. \A x \in S : x \in 1..n /\ in.options[x].opt = opt
  BY DEF GivenBy
<1>5. OptionGiven(opt) = in.options[Max(S)].arg
  BY OptionGivenIsLast DEF LastArg
<1>6. S # {}
  OBVIOUS
<1> HIDE DEF S
<1>7. Max(S) \in S
  BY <1>2, <1>3, <1>6, MaxShape
<1>8. QED
  BY <1>4, <1>5, <1>7 DEF S

LEMMA LastArgMeans ==
  ASSUME OptionsAssumption, ArgumentsAssumption,
         NEW opt \in {"account", "remote", "type"}, NEW default
  PROVE  LastArg(opt, Len(in.options), default) =
           IF OptionGiven(opt) = None THEN default ELSE OptionGiven(opt)
<1> DEFINE n == Len(in.options)
           S == GivenBy(opt, n)
<1>1. CASE S = {}
  <2>1. OptionGiven(opt) = None /\ LastArg(opt, n, default) = default
    BY <1>1, OptionGivenIsLast DEF LastArg
  <2>2. QED
    BY <2>1
<1>2. CASE S # {}
  <2>1. /\ Max(S) \in 1..n /\ in.options[Max(S)].opt = opt
        /\ OptionGiven(opt) = in.options[Max(S)].arg
    BY <1>2, LastIsGiven
  <2>2. in.options[Max(S)].arg # None
    BY <2>1 DEF ArgumentsAssumption
  <2>3. LastArg(opt, n, default) = in.options[Max(S)].arg
    BY <1>2 DEF LastArg
  <2>4. QED
    BY <2>1, <2>2, <2>3
<1>3. QED
  BY <1>1, <1>2

\* A type that the loop over the options has accepted is a forge.
LEMMA TypeGiven ==
  ASSUME OptionsAssumption, Accepted
  PROVE  OptionGiven("type") \in Forges \cup {None}
<1> DEFINE n == Len(in.options)
           S == GivenBy("type", n)
<1>1. CASE S = {}
  <2>1. OptionGiven("type") = None
    BY <1>1, OptionGivenIsLast DEF LastArg
  <2>2. QED
    BY <2>1
<1>2. CASE S # {}
  <2>1. /\ Max(S) \in 1..n /\ in.options[Max(S)].opt = "type"
        /\ OptionGiven("type") = in.options[Max(S)].arg
    BY <1>2, LastIsGiven
  <2>2. in.options[Max(S)].arg \in Forges
    BY <2>1 DEF Accepted, Stops
  <2>3. QED
    BY <2>1, <2>2
<1>3. QED
  BY <1>1, <1>2

-----------------------------------------------------------------------------
(* The first of the places that gives a value.                              *)

LEMMA FirstOfTwo ==
  ASSUME NEW a, NEW b
  PROVE  FirstOf(<<a, b>>) = IF a # None THEN a ELSE b
<1> DEFINE s == <<a, b>>
           S == {i \in 1..Len(s) : s[i] # None}
<1>1. Len(s) = 2 /\ s[1] = a /\ s[2] = b
  OBVIOUS
<1>2. S \in SUBSET Int
  BY <1>1
<1>3. \A x \in S : 1 <= x
  BY <1>1
<1>4. \A x \in S : x \in {1, 2} /\ s[x] # None
  BY <1>1
<1>5. 1 \in S <=> a # None
  BY <1>1
<1>6. 2 \in S <=> b # None
  BY <1>1
<1>7. FirstOf(s) = IF S = {} THEN None ELSE s[Min(S)]
  BY DEF FirstOf
<1> HIDE DEF S, s
<1>8. CASE S = {}
  BY <1>5, <1>6, <1>7, <1>8 DEF s
<1>9. CASE S # {}
  <2>1. Min(S) \in S /\ \A x \in S : Min(S) <= x
    BY <1>2, <1>3, <1>9, MinShape
  <2>2. Min(S) \in {1, 2}
    BY <1>4, <2>1
  <2>3. a # None => Min(S) = 1
    BY <1>5, <2>1, <2>2
  <2>4. a = None => Min(S) = 2
    BY <1>5, <2>1, <2>2
  <2>5. FirstOf(s) = s[Min(S)]
    BY <1>7, <1>9
  <2>6. QED
    BY <1>1, <2>3, <2>4, <2>5 DEF s
<1>10. QED
  BY <1>8, <1>9

LEMMA FirstOfThree ==
  ASSUME NEW a, NEW b, NEW c
  PROVE  FirstOf(<<a, b, c>>) = IF a # None THEN a ELSE IF b # None THEN b ELSE c
<1> DEFINE s == <<a, b, c>>
           S == {i \in 1..Len(s) : s[i] # None}
<1>1. Len(s) = 3 /\ s[1] = a /\ s[2] = b /\ s[3] = c
  OBVIOUS
<1>2. S \in SUBSET Int
  BY <1>1
<1>3. \A x \in S : 1 <= x
  BY <1>1
<1>4. \A x \in S : x \in {1, 2, 3} /\ s[x] # None
  BY <1>1
<1>5. 1 \in S <=> a # None
  BY <1>1
<1>6. 2 \in S <=> b # None
  BY <1>1
<1>a. 3 \in S <=> c # None
  BY <1>1
<1>7. FirstOf(s) = IF S = {} THEN None ELSE s[Min(S)]
  BY DEF FirstOf
<1> HIDE DEF S, s
<1>8. CASE S = {}
  <2>1. a = None /\ b = None /\ c = None
    BY <1>5, <1>6, <1>a, <1>8
  <2>2. FirstOf(s) = None
    BY <1>7, <1>8
  <2>3. QED
    BY <2>1, <2>2 DEF s
<1>9. CASE S # {}
  <2>1. Min(S) \in S /\ \A x \in S : Min(S) <= x
    BY <1>2, <1>3, <1>9, MinShape
  <2>2. Min(S) \in {1, 2, 3}
    BY <1>4, <2>1
  <2>3. a # None => Min(S) = 1
    BY <1>5, <2>1, <2>2
  <2>4. a = None /\ b # None => Min(S) = 2
    BY <1>5, <1>6, <2>1, <2>2
  <2>5. a = None /\ b = None => Min(S) = 3
    BY <1>5, <1>6, <2>1, <2>2
  <2>6. FirstOf(s) = s[Min(S)]
    BY <1>7, <1>9
  <2>7. QED
    BY <1>1, <2>3, <2>4, <2>5, <2>6 DEF s
<1>10. QED
  BY <1>8, <1>9

-----------------------------------------------------------------------------
(* The settings once the arguments are parsed.                              *)

\* cfg before: only gcli_config_init has touched it.
BlankConfig(c) ==
  c = [inited |-> c.inited, account |-> None, remote |-> None, type |-> None,
       force |-> FALSE, nocolour |-> FALSE, testedtty |-> FALSE,
       nospinner |-> FALSE, nomarkdown |-> FALSE, experimental |-> FALSE]

ConfigRead(c) ==
  /\ c.account = MeantAccount
  /\ c.remote = MeantRemote
  /\ c.type = OptionGiven("type") /\ c.type \in Forges \cup {None}

SwitchesRead(c) ==
  /\ c.force <=> Flag("c")
  /\ c.nospinner <=> MeansTrue(in.env.nospinner) \/ Flag("no-spinner")
  /\ c.experimental <=> MeansTrue(in.env.experimental)

ColoursRead(c) ==
  /\ c.nocolour <=> MeansTrue(in.env.nocolour) /\ ~Flag("colours")
  /\ ~c.testedtty

MarkdownRead(c) ==
  c.nomarkdown <=> \/ in.env.markdown # None /\ ~MeansTrue(in.env.markdown)
                   \/ Flag("no-markdown")

ConfigShape(c) ==
  c \in [inited : BOOLEAN, account : {c.account}, remote : {c.remote},
         type : {c.type}, force : BOOLEAN, nocolour : BOOLEAN,
         testedtty : BOOLEAN, nospinner : BOOLEAN, nomarkdown : BOOLEAN,
         experimental : BOOLEAN]

LEMMA NoneIsNotYes == ~MeansTrue(None)
BY NoneAssumption DEF MeansTrue

LEMMA EnvironmentRead ==
  ASSUME NEW c, BlankConfig(c), c.inited \in BOOLEAN
  PROVE  LET e == ReadEnv([c EXCEPT !.type = None]) IN
         /\ ConfigShape(e)
         /\ e.account = in.env.account /\ e.remote = None /\ e.type = None
         /\ e.force = FALSE /\ e.testedtty = FALSE
         /\ e.nocolour = MeansTrue(in.env.nocolour)
         /\ e.nospinner = MeansTrue(in.env.nospinner)
         /\ e.nomarkdown = (in.env.markdown # None /\ ~MeansTrue(in.env.markdown))
         /\ e.experimental = MeansTrue(in.env.experimental)
<1> DEFINE e == ReadEnv(c)
           env == in.env
           i == c.inited
<1>1. c = [inited |-> i, account |-> None, remote |-> None, type |-> None,
           force |-> FALSE, nocolour |-> FALSE, testedtty |-> FALSE,
           nospinner |-> FALSE, nomarkdown |-> FALSE, experimental |-> FALSE]
  BY DEF BlankConfig
<1>2. i \in BOOLEAN
  OBVIOUS
<1> HIDE DEF i
<1>3. c \in [inited : BOOLEAN, account : {None}, remote : {None}, type : {None},
             force : BOOLEAN, nocolour : BOOLEAN, testedtty : BOOLEAN,
             nospinner : BOOLEAN, nomarkdown : BOOLEAN, experimental : BOOLEAN]
  BY <1>1, <1>2
<1>4. /\ c.account = None /\ c.remote = None /\ c.type = None
      /\ c.force = FALSE /\ c.nocolour = FALSE /\ c.testedtty = FALSE
      /\ c.nospinner = FALSE /\ c.nomarkdown = FALSE /\ c.experimental = FALSE
  BY <1>1
<1>5. [c EXCEPT !.type = None] = c
  BY <1>3, <1>4
<1>6. ~MeansTrue(None) /\ \A x : MeansTrue(x) \in BOOLEAN
  BY NoneIsNotYes DEF MeansTrue
<1>7. /\ e.account = IF env.account = None THEN c.account ELSE env.account
      /\ e.nocolour = IF env.nocolour = None THEN c.nocolour ELSE MeansTrue(env.nocolour)
      /\ e.nospinner = IF env.nospinner = None THEN c.nospinner
                       ELSE MeansTrue(env.nospinner)
      /\ e.nomarkdown = IF env.markdown = None THEN c.nomarkdown
                        ELSE ~MeansTrue(env.markdown)
      /\ e.experimental = IF env.experimental = None THEN c.experimental
                          ELSE MeansTrue(env.experimental)
      /\ e.remote = c.remote /\ e.type = c.type /\ e.force = c.force
      /\ e.testedtty = c.testedtty
  BY <1>3 DEF ReadEnv
<1>8. ConfigShape(e)
  <2>1. e = [f \in DOMAIN c |-> e[f]]
    BY <1>3 DEF ReadEnv
  <2>2. DOMAIN c = {"inited", "account", "remote", "type", "force", "nocolour", "testedtty",
                    "nospinner", "nomarkdown", "experimental"}
    BY <1>1
  <2>3. e.inited = c.inited
    BY <1>3 DEF ReadEnv
  <2>4. /\ e.inited \in BOOLEAN /\ e.force \in BOOLEAN /\ e.testedtty \in BOOLEAN
    BY <1>3, <1>7, <2>3
  <2>5. e.nocolour \in BOOLEAN /\ e.nospinner \in BOOLEAN
    BY <1>3, <1>6, <1>7
  <2>6. e.nomarkdown \in BOOLEAN /\ e.experimental \in BOOLEAN
    BY <1>3, <1>6, <1>7
  <2> HIDE DEF e
  <2>7. QED
    BY <2>1, <2>2, <2>4, <2>5, <2>6 DEF ConfigShape
<1> HIDE DEF e
<1>9. /\ e.account = in.env.account /\ e.remote = None /\ e.type = None
      /\ e.force = FALSE /\ e.testedtty = FALSE
  BY <1>4, <1>7
<1>10. e.nocolour = MeansTrue(in.env.nocolour)
  BY <1>4, <1>6, <1>7
<1>11. e.nospinner = MeansTrue(in.env.nospinner)
  BY <1>4, <1>6, <1>7
<1>12. e.nomarkdown = (in.env.markdown # None /\ ~MeansTrue(in.env.markdown))
  BY <1>4, <1>6, <1>7
<1>13. e.experimental = MeansTrue(in.env.experimental)
  BY <1>4, <1>6, <1>7
<1>14. QED
  BY <1>5, <1>8, <1>9, <1>10, <1>11, <1>12, <1>13 DEF e

LEMMA ArgumentsRead ==
  ASSUME OptionsAssumption, ArgumentsAssumption, Accepted,
         NEW c, BlankConfig(c), c.inited \in BOOLEAN
  PROVE  LET w == [WithOptions(ReadEnv([c EXCEPT !.type = None])) EXCEPT !.inited = FALSE] IN
         /\ ConfigShape(w) /\ ~w.inited
         /\ ConfigRead(w) /\ SwitchesRead(w) /\ ColoursRead(w) /\ MarkdownRead(w)
<1> DEFINE e == ReadEnv([c EXCEPT !.type = None])
           v == WithOptions(e)
           w == [v EXCEPT !.inited = FALSE]
           n == Len(in.options)
<1>1. ConfigShape(e)
  BY EnvironmentRead
<1>2. e.account = in.env.account /\ e.remote = None /\ e.type = None
      /\ e.force = FALSE /\ e.testedtty = FALSE
  BY EnvironmentRead
<1>3. /\ e.nocolour = MeansTrue(in.env.nocolour)
      /\ e.nospinner = MeansTrue(in.env.nospinner)
      /\ e.nomarkdown = (in.env.markdown # None /\ ~MeansTrue(in.env.markdown))
      /\ e.experimental = MeansTrue(in.env.experimental)
  BY EnvironmentRead
<1> HIDE DEF e
<1>4. e \in ConfigsFrom(e)
  BY <1>1 DEF ConfigShape, ConfigsFrom
<1>5. v \in ConfigsFrom(e) /\ Tells(v, e, n) /\ Switches(v, e, n)
  BY <1>4, OptionsGiven
<1> HIDE DEF v
<1>6. ConfigShape(v)
  BY <1>5 DEF ConfigShape, ConfigsFrom
<1>7. /\ ConfigShape(w) /\ w.inited = FALSE
      /\ w.account = v.account /\ w.remote = v.remote /\ w.type = v.type
      /\ w.force = v.force /\ w.nocolour = v.nocolour /\ w.testedtty = v.testedtty
      /\ w.nospinner = v.nospinner /\ w.nomarkdown = v.nomarkdown
      /\ w.experimental = v.experimental
  BY <1>6 DEF ConfigShape
<1> HIDE DEF w
<1>8. ConfigRead(w)
  <2>1. v.account = LastArg("account", n, in.env.account)
    BY <1>2, <1>5 DEF Tells
  <2>2. v.remote = LastArg("remote", n, None) /\ v.type = LastArg("type", n, None)
    BY <1>2, <1>5 DEF Tells
  <2>3. v.account = IF OptionGiven("account") = None THEN in.env.account
                    ELSE OptionGiven("account")
    BY <2>1, LastArgMeans
  <2>4. MeantAccount = IF OptionGiven("account") # None THEN OptionGiven("account")
                       ELSE in.env.account
    BY FirstOfTwo DEF MeantAccount
  <2>5. v.remote = OptionGiven("remote") /\ v.type = OptionGiven("type")
    BY <2>2, OptionGivenIsLast
  <2>6. QED
    BY <1>7, <2>3, <2>4, <2>5, TypeGiven DEF ConfigRead, MeantRemote
<1>9. \A opt : Flag(opt) <=> GivenBy(opt, n) # {}
  BY OptionGivenIsLast
<1>10. SwitchesRead(w)
  <2>1. w.force <=> Flag("c")
    BY <1>2, <1>5, <1>7, <1>9, Zenon DEF Switches
  <2>2. w.nospinner <=> MeansTrue(in.env.nospinner) \/ Flag("no-spinner")
    BY <1>3, <1>5, <1>7, <1>9, Zenon DEF Switches
  <2>3. w.experimental <=> MeansTrue(in.env.experimental)
    BY <1>3, <1>5, <1>7, Zenon DEF Switches
  <2>4. QED
    BY <2>1, <2>2, <2>3 DEF SwitchesRead
<1>11. ColoursRead(w)
  <2>1. w.nocolour <=> MeansTrue(in.env.nocolour) /\ ~Flag("colours")
    BY <1>3, <1>5, <1>7, <1>9, Zenon DEF Switches
  <2>2. w.testedtty = FALSE
    BY <1>2, <1>5, <1>7, Zenon DEF Switches
  <2>3. QED
    BY <2>1, <2>2 DEF ColoursRead
<1>12. MarkdownRead(w)
  BY <1>3, <1>5, <1>7, <1>9, Zenon DEF Switches, MarkdownRead
<1>13. QED
  BY <1>7, <1>8, <1>10, <1>11, <1>12 DEF w, v, e

-----------------------------------------------------------------------------
(* The nearest .gcli, and what it says.                                     *)

LEMMA NearestIsFirst ==
  ASSUME NEW T, NEW dirs \in Seq(T), dirs # <<>>
  PROVE  FindUpwards(dirs) = FirstOf(IF Len(dirs) = 1 THEN dirs ELSE Front(dirs))
<1> DEFINE n == Len(dirs)
           front == IF n = 1 THEN dirs ELSE Front(dirs)
           hits == {i \in 1..n : dirs[i] # None /\ (i < n \/ n = 1)}
           given == {i \in 1..Len(front) : front[i] # None}
<1>1. n \in Nat \ {0}
  BY LenProperties, EmptySeq
<1>2. CASE n = 1
  <2>1. front = dirs
    BY <1>2
  <2>2. hits = given
    BY <1>2, <2>1
  <2>3. QED
    BY <2>1, <2>2, <1>2 DEF FindUpwards, FirstOf
<1>3. CASE n # 1
  <2>1. front = SubSeq(dirs, 1, n - 1)
    BY <1>3 DEF Front
  <2>2. Len(front) = n - 1 /\ \A i \in 1..n - 1 : front[i] = dirs[i]
    <3>0. \A k \in Nat \ {0} : k # 1 =>
            k - 1 \in Int /\ 1 <= k - 1 /\ (k - 1) - 1 + 1 = k - 1
      OBVIOUS
    <3>1. 1 \in Int /\ n - 1 \in Int /\ 1 <= n - 1 /\ (n - 1) - 1 + 1 = n - 1
      <4> HIDE DEF n
      <4>1. n \in Nat \ {0} /\ n # 1
        BY <1>1, <1>3
      <4>2. QED
        BY <4>1, <3>0
    <3>4. \A i \in 1..n - 1 : dirs[i] \in T /\ 1 + i - 1 = i
      BY <1>1, ElementOfSeq
    <3>5. /\ Len(SubSeq(dirs, 1, n - 1)) = IF 1 <= n - 1 THEN (n - 1) - 1 + 1 ELSE 0
          /\ \A i \in 1..(n - 1) - 1 + 1 : SubSeq(dirs, 1, n - 1)[i] = dirs[1 + i - 1]
      BY <3>1, <3>4, SubSeqProperties
    <3>2. /\ Len(SubSeq(dirs, 1, n - 1)) = n - 1
          /\ \A i \in 1..n - 1 : SubSeq(dirs, 1, n - 1)[i] = dirs[i]
      BY <3>1, <3>4, <3>5
    <3>3. QED
      BY <2>1, <3>2
  <2> HIDE DEF front
  <2>3. \A i \in 1..n - 1 : i \in 1..n /\ i < n
    BY <1>1
  <2>4. \A i \in 1..n : i < n => i \in 1..n - 1
    BY <1>1
  <2>5. hits = given
    BY <1>3, <2>2, <2>3, <2>4
  <2>6. FindUpwards(dirs) = IF hits = {} THEN None ELSE dirs[Min(hits)]
    BY DEF FindUpwards
  <2>7. FirstOf(front) = IF given = {} THEN None ELSE front[Min(given)]
    BY DEF FirstOf
  <2>8. given # {} => front[Min(given)] = dirs[Min(given)]
    <3>1. given \in SUBSET Int
      BY <1>1, <2>2
    <3>2. \A x \in given : 1 <= x
      BY <1>1, <2>2
    <3>3. \A x \in given : x \in 1..n - 1
      BY <2>2
    <3> HIDE DEF given
    <3>4. given # {} => Min(given) \in given
      BY <3>1, <3>2, MinShape
    <3>5. QED
      BY <2>2, <3>3, <3>4
  <2> HIDE DEF hits, given
  <2>9. FindUpwards(dirs) = FirstOf(front)
    BY <2>5, <2>6, <2>7, <2>8
  <2>10. QED
    BY <2>9 DEF front
<1>4. QED
  BY <1>2, <1>3

LEMMA NearestIsOne ==
  ASSUME NEW T, NEW dirs \in Seq(T), FindUpwards(dirs) # None
  PROVE  \E i \in 1..Len(dirs) : dirs[i] # None /\ FindUpwards(dirs) = dirs[i]
<1> DEFINE hits == {i \in 1..Len(dirs) : dirs[i] # None /\ (i < Len(dirs) \/ Len(dirs) = 1)}
<1>1. hits # {} /\ FindUpwards(dirs) = dirs[Min(hits)]
  BY DEF FindUpwards
<1>2. hits \in SUBSET Int
  BY LenProperties
<1>3. \A x \in hits : 1 <= x
  BY LenProperties
<1>4. \A x \in hits : x \in 1..Len(dirs) /\ dirs[x] # None
  OBVIOUS
<1>5. hits # {}
  BY <1>1
<1>a. FindUpwards(dirs) = dirs[Min(hits)]
  BY <1>1
<1> HIDE DEF hits
<1>6. Min(hits) \in hits
  BY <1>2, <1>3, <1>5, MinShape
<1>7. QED
  BY <1>4, <1>6, <1>a

LEMMA EntryIsFirst ==
  ASSUME NEW lines, lines \in Seq(ToSet(lines)), NEW key,
         \A j \in 1..Len(lines) : lines[j].line = "entry" => lines[j].value # None
  PROVE  EntryOf(lines, key) =
           FirstOf([i \in 1..Len(lines) |->
                     IF lines[i].line = "entry" /\ lines[i].key = key
                     THEN lines[i].value ELSE None])
<1> DEFINE n == Len(lines)
           val(i) == IF lines[i].line = "entry" /\ lines[i].key = key
                     THEN lines[i].value ELSE None
           s == [i \in 1..n |-> val(i)]
           hits == {i \in 1..n : lines[i].line = "entry" /\ lines[i].key = key}
           given == {i \in 1..Len(s) : s[i] # None}
<1>1. n \in Nat
  BY LenProperties
<1>2. Len(s) = n
  <2>1. s \in [1..n -> {val(i) : i \in 1..n}]
    OBVIOUS
  <2> HIDE DEF s
  <2>2. QED
    BY <1>1, <2>1, FunctionIsSeq
<1>3. \A i \in 1..n : s[i] # None <=> lines[i].line = "entry" /\ lines[i].key = key
  OBVIOUS
<1>4. \A i \in hits : s[i] = lines[i].value
  OBVIOUS
<1>5. EntryOf(lines, key) = IF hits = {} THEN None ELSE lines[Min(hits)].value
  BY DEF EntryOf
<1>6. FirstOf(s) = IF given = {} THEN None ELSE s[Min(given)]
  BY DEF FirstOf
<1> HIDE DEF s
<1>7. hits = given
  BY <1>2, <1>3
<1>8. hits \in SUBSET Int
  BY <1>1
<1>9. \A x \in hits : 1 <= x
  BY <1>1
<1> HIDE DEF hits, given
<1>10. hits # {} => Min(hits) \in hits
  BY <1>8, <1>9, MinShape
<1>11. EntryOf(lines, key) = FirstOf(s)
  BY <1>4, <1>5, <1>6, <1>7, <1>10
<1>12. QED
  BY <1>11 DEF s

DotgcliAssumption ==
  /\ in.dotgcli \in Seq(ToSet(in.dotgcli)) /\ in.dotgcli # <<>>
  /\ \A i \in 1..Len(in.dotgcli) : in.dotgcli[i] # None =>
       /\ in.dotgcli[i] \in Seq(ToSet(in.dotgcli[i]))
       /\ \A j \in 1..Len(in.dotgcli[i]) :
            in.dotgcli[i][j].line = "entry" => in.dotgcli[i][j].value # None

\* .gcli is kept as it was found, or looked for.
DotgcliKept == dotgcli \in {None, ReadDotgcli(in.dotgcli)}

LEMMA LocalMeant ==
  ASSUME DotgcliAssumption, DotgcliKept, NEW key
  PROVE  LocalEntry(key) = LocalSetting(key)
<1> DEFINE lines == ReadDotgcli(in.dotgcli)
<1>1. Dotgcli = lines
  BY DEF Dotgcli, DotgcliKept
<1>2. lines = FirstOf(IF Len(in.dotgcli) = 1 THEN in.dotgcli ELSE Front(in.dotgcli))
  BY NearestIsFirst DEF ReadDotgcli, DotgcliAssumption
<1>3. LocalEntry(key) = IF lines = None THEN None ELSE EntryOf(lines, key)
  BY <1>1 DEF LocalEntry
<1>4. CASE lines = None
  BY <1>2, <1>3, <1>4 DEF LocalSetting
<1>5. CASE lines # None
  <2>1. PICK i \in 1..Len(in.dotgcli) : in.dotgcli[i] # None /\ lines = in.dotgcli[i]
    BY <1>5, NearestIsOne DEF ReadDotgcli, DotgcliAssumption
  <2>2. /\ lines \in Seq(ToSet(lines))
        /\ \A j \in 1..Len(lines) : lines[j].line = "entry" => lines[j].value # None
    BY <2>1 DEF DotgcliAssumption
  <2> HIDE DEF lines
  <2>3. EntryOf(lines, key) =
           FirstOf([j \in 1..Len(lines) |->
                     IF lines[j].line = "entry" /\ lines[j].key = key
                     THEN lines[j].value ELSE None])
    BY <2>2, EntryIsFirst
  <2>4. QED
    BY <1>2, <1>3, <1>5, <2>3 DEF LocalSetting
<1>6. QED
  BY <1>4, <1>5

-----------------------------------------------------------------------------
(* The remotes, as they were found or are looked for.                       *)

\* The remotes of .git/config have names.
NamedRemote == {r \in GitRemote : r.name # None}

GitSection == [name : STRING \cup {None}, url : Url]

GitAssumption == in.git \in Seq({None} \cup Seq(GitSection))

LEMMA RemotesInTypes ==
  ASSUME NEW section \in GitSection
  PROVE  RemotesIn(section) \in Seq(NamedRemote)
<1> DEFINE url == section.url
           r == [name |-> section.name, url |-> url,
                 forge |-> ForgeOfUrl(url), repo |-> RepoOfUrl(url)]
<1>1. CASE section.name = None
  BY <1>1, EmptySeq DEF RemotesIn
<1>2. CASE section.name # None
  <2>1. url \in [scheme : STRING, host : STRING, owner : STRING, repo : STRING]
        /\ url \in Url /\ section.name \in STRING
    BY <1>2 DEF GitSection, Url
  <2>2. ForgeOfUrl(url) \in Forges \cup {None}
    <3>1. \A h \in DOMAIN Hosts : Hosts[h] \in Forges
      BY DEF Hosts, Forges
    <3>2. QED
      BY <3>1 DEF ForgeOfUrl
  <2>3. RepoOfUrl(url) \in Seq(STRING \cup {None})
    <3> DEFINE S == STRING \cup {None}
    <3>1. url.host \in S /\ url.owner \in S /\ url.repo \in S /\ None \in S
      BY <2>1
    <3> HIDE DEF S
    <3>2. /\ <<None, None>> \in Seq(S)
          /\ <<url.host, url.owner, url.repo>> \in Seq(S)
          /\ <<url.owner, url.repo>> \in Seq(S)
      BY <3>1
    <3>3. \/ RepoOfUrl(url) = <<None, None>>
          \/ RepoOfUrl(url) = <<url.host, url.owner, url.repo>>
          \/ RepoOfUrl(url) = <<url.owner, url.repo>>
      BY DEF RepoOfUrl
    <3>4. QED
      BY <3>2, <3>3 DEF S
  <2>4. r \in NamedRemote
    BY <1>2, <2>1, <2>2, <2>3 DEF NamedRemote, GitRemote
  <2>5. RemotesIn(section) = <<r>>
    BY <1>2 DEF RemotesIn
  <2> HIDE DEF r
  <2>6. QED
    BY <2>4, <2>5
<1>3. QED
  BY <1>1, <1>2

LEMMA FoundRemotes ==
  ASSUME NEW config \in Seq(GitSection)
  PROVE  FlattenSeq([i \in 1..Len(config) |-> RemotesIn(config[i])]) \in Seq(NamedRemote)
<1> DEFINE n == Len(config)
           s == [i \in 1..n |-> RemotesIn(config[i])]
           C == Seq(NamedRemote)
<1>1. n \in Nat
  BY LenProperties
<1>2. \A i \in 1..n : RemotesIn(config[i]) \in C
  BY ElementOfSeq, RemotesInTypes
<1>3. s \in Seq(C)
  <2>1. s \in [1..n -> C]
    BY <1>2
  <2> HIDE DEF s, C
  <2>2. QED
    BY <1>1, <2>1, FunctionIsSeq
<1>4. <<>> \in C /\ \A a \in C, b \in C : a \o b \in C
  BY EmptySeq, ConcatProperties
<1>5. C \in SUBSET Seq(NamedRemote)
  OBVIOUS
<1> HIDE DEF s
<1>6. FlattenSeq(s) \in C
  BY <1>3, <1>4, <1>5, FlattenClosed
<1>7. QED
  BY <1>6 DEF s

LEMMA RemotesRead ==
  ASSUME GitAssumption
  PROVE  ReadGitconfig(in.git) \in {None} \cup Seq(NamedRemote)
<1> DEFINE config == FindGitconfig(in.git)
           found == FlattenSeq([i \in 1..Len(config) |-> RemotesIn(config[i])])
<1>1. ReadGitconfig(in.git) = IF config = None THEN <<>>
        ELSE IF config = <<>> \/ Len(found) > MaxRemotes THEN None ELSE found
  BY DEF ReadGitconfig
<1>2. CASE config = None
  BY <1>1, <1>2, EmptySeq
<1>3. CASE config # None
  <2>1. PICK i \in 1..Len(in.git) : in.git[i] # None /\ config = in.git[i]
    BY <1>3, NearestIsOne DEF FindGitconfig, GitAssumption
  <2>2. config \in Seq(GitSection)
    BY <2>1, ElementOfSeq DEF GitAssumption
  <2> HIDE DEF config
  <2>3. found \in Seq(NamedRemote)
    BY <2>2, FoundRemotes
  <2> HIDE DEF found
  <2>4. QED
    BY <1>1, <1>3, <2>3
<1>4. QED
  BY <1>2, <1>3

\* The remotes are kept as they were read, or not read yet.
RemotesKept == remotes \in {None, ReadGitconfig(in.git)}

LEMMA RemotesAreRead ==
  ASSUME RemotesKept
  PROVE  Remotes = ReadGitconfig(in.git)
BY DEF RemotesKept, Remotes

\* The first of the remotes with a name.
LEMMA FirstRemoteIsOne ==
  ASSUME GitAssumption, NEW name, GitRemotes(name) # {}
  PROVE  LET read == ReadGitconfig(in.git)
             i == Min(GitRemotes(name))
         IN  /\ read \in Seq(NamedRemote)
             /\ i \in 1..Len(read) /\ read[i] \in NamedRemote
             /\ name \in {None, read[i].name}
             /\ \A j \in GitRemotes(name) : i <= j
<1> DEFINE read == ReadGitconfig(in.git)
           S == GitRemotes(name)
<1>1. read # None /\ S = {i \in 1..Len(read) : name \in {None, read[i].name}}
  BY DEF GitRemotes
<1>2. read \in Seq(NamedRemote)
  BY <1>1, RemotesRead
<1> HIDE DEF read
<1>3. S \in SUBSET Int
  BY <1>1, <1>2
<1>4. \A x \in S : 1 <= x
  BY <1>1, <1>2
<1>5. \A x \in S : x \in 1..Len(read) /\ name \in {None, read[x].name}
  BY <1>1
<1>6. S # {}
  OBVIOUS
<1> HIDE DEF S
<1>7. Min(S) \in S /\ \A x \in S : Min(S) <= x
  BY <1>3, <1>4, <1>6, MinShape
<1>8. read[Min(S)] \in NamedRemote
  BY <1>2, <1>5, <1>7, ElementOfSeq
<1>9. QED
  BY <1>2, <1>5, <1>7, <1>8 DEF read, S

LEMMA UsedRemoteMeant ==
  ASSUME GitAssumption, RemotesKept, Remotes # None, cfg.remote = MeantRemote
  PROVE  /\ RemoteUsed = None <=> GitRemotes(MeantRemote) = {}
         /\ RemoteUsed # None =>
              /\ RemoteUsed \in NamedRemote
              /\ RemoteUsed.forge = FirstRemote(MeantRemote, "forge")
              /\ RemoteUsed.repo = FirstRemote(MeantRemote, "repo")
<1> DEFINE read == ReadGitconfig(in.git)
           S == GitRemotes(MeantRemote)
<1>1. Remotes = read /\ read # None
  BY RemotesAreRead
<1>2. S = {i \in 1..Len(read) : MeantRemote \in {None, read[i].name}}
  BY <1>1 DEF GitRemotes
<1>3. RemoteUsed = IF S = {} THEN None ELSE read[Min(S)]
  BY <1>1, <1>2 DEF RemoteUsed, RemoteByName
<1>4. S # {} => read[Min(S)] \in NamedRemote
  BY FirstRemoteIsOne
<1>5. S # {} => read[Min(S)] # None
  BY <1>4, NoneAssumption DEF NamedRemote
<1>6. S # {} => /\ read[Min(S)].forge = FirstRemote(MeantRemote, "forge")
                /\ read[Min(S)].repo = FirstRemote(MeantRemote, "repo")
  BY DEF FirstRemote
<1> HIDE DEF S, read
<1>7. RemoteUsed = None <=> S = {}
  BY <1>3, <1>5
<1>8. RemoteUsed # None => RemoteUsed = read[Min(S)] /\ S # {}
  BY <1>3
<1>9. QED
  BY <1>4, <1>6, <1>7, <1>8 DEF S

\* The forge of the remote that was named, or else of the first.
LEMMA RemoteForgeMeant ==
  ASSUME GitAssumption, RemotesKept, Remotes # None
  PROVE  /\ RemoteForge(Remotes, MeantRemote) =
              IF GitRemotes(MeantRemote) # {} THEN FirstRemote(MeantRemote, "forge")
              ELSE FirstRemote(None, "forge")
         /\ RemoteForge(Remotes, MeantRemote) \in Forges \cup {None}
<1> DEFINE read == ReadGitconfig(in.git)
           name == MeantRemote
           S == GitRemotes(name)
           A == GitRemotes(None)
           named == {i \in 1..Len(read) : read[i].name = name}
<1>1. Remotes = read /\ read # None
  BY RemotesAreRead
<1>2. read \in Seq(NamedRemote)
  BY <1>1, RemotesRead
<1>3. S = {i \in 1..Len(read) : name \in {None, read[i].name}} /\ A = 1..Len(read)
  BY <1>1 DEF GitRemotes
<1>4. \A i \in 1..Len(read) : read[i].name # None
  BY <1>2, ElementOfSeq DEF NamedRemote
<1>5. \A r \in NamedRemote : r.forge \in Forges \cup {None}
  BY DEF NamedRemote, GitRemote
<1>6. RemoteForge(read, name) = IF named # {} THEN read[Min(named)].forge
                                ELSE IF read # <<>> THEN read[1].forge ELSE None
  BY Zenon DEF RemoteForge
<1>7. A # {} => FirstRemote(None, "forge") = read[1].forge /\ read[1] \in NamedRemote
  <2> SUFFICES ASSUME A # {}
               PROVE  FirstRemote(None, "forge") = read[1].forge /\ read[1] \in NamedRemote
    OBVIOUS
  <2>1. FirstRemote(None, "forge") = read[Min(A)].forge
    BY DEF FirstRemote
  <2>2. Min(A) \in 1..Len(read) /\ (\A j \in A : Min(A) <= j) /\ read[Min(A)] \in NamedRemote
    BY FirstRemoteIsOne
  <2>3. Len(read) \in Nat
    BY <1>2, LenProperties
  <2> HIDE DEF read, A
  <2>4. Len(read) >= 1
    BY <2>2, <2>3
  <2>5. 1 \in A
    BY <1>3, <2>3, <2>4
  <2>6. Min(A) = 1
    BY <2>2, <2>3, <2>5
  <2>7. QED
    BY <2>1, <2>2, <2>6
<1>8. A = {} => read = <<>> /\ FirstRemote(None, "forge") = None
  <2> SUFFICES ASSUME A = {} PROVE read = <<>> /\ FirstRemote(None, "forge") = None
    OBVIOUS
  <2>1. FirstRemote(None, "forge") = None
    BY DEF FirstRemote
  <2>2. Len(read) \in Nat /\ 1..Len(read) = {}
    BY <1>2, <1>3, LenProperties
  <2> HIDE DEF read, A
  <2>3. Len(read) = 0
    BY <2>2
  <2>4. QED
    BY <1>2, <2>1, <2>3, EmptySeq
<1>9. A # {} => read # <<>>
  BY <1>3
<1>10. CASE name = None
  <2>1. named = {} /\ S = A
    BY <1>3, <1>4, <1>10
  <2>2. FirstRemote(name, "forge") = FirstRemote(None, "forge")
    BY <1>10
  <2> HIDE DEF read, A, S, named
  <2>3. QED
    BY <1>1, <1>5, <1>6, <1>7, <1>8, <1>9, <2>1, <2>2 DEF S, A
<1>11. CASE name # None
  <2>1. named = S
    BY <1>3, <1>11
  <2>2. S # {} => /\ FirstRemote(name, "forge") = read[Min(S)].forge
                  /\ read[Min(S)] \in NamedRemote
    BY FirstRemoteIsOne DEF FirstRemote
  <2> HIDE DEF read, A, S, named
  <2>3. CASE S # {}
    BY <1>1, <1>5, <1>6, <2>1, <2>2, <2>3 DEF S
  <2>4. CASE S = {}
    BY <1>1, <1>5, <1>6, <1>7, <1>8, <1>9, <2>1, <2>4 DEF S
  <2>5. QED
    BY <2>3, <2>4
<1>12. QED
  BY <1>10, <1>11

\* The first remote on a forge.
LEMMA RemoteOnMeant ==
  ASSUME GitAssumption, RemotesKept, Remotes # None
  PROVE  LET there == {i \in GitRemotes(None) : ReadGitconfig(in.git)[i].forge = MeantForge}
         IN  RemoteOn(Remotes, MeantForge) =
               IF there = {} THEN None ELSE ReadGitconfig(in.git)[Min(there)].url
<1> DEFINE read == ReadGitconfig(in.git)
<1>1. Remotes = read /\ read # None
  BY RemotesAreRead
<1>2. GitRemotes(None) = 1..Len(read)
  BY <1>1 DEF GitRemotes
<1> HIDE DEF read
<1>3. {i \in GitRemotes(None) : read[i].forge = MeantForge} =
      {i \in 1..Len(read) : read[i].forge = MeantForge}
  BY <1>2
<1>4. QED
  BY <1>1, <1>3, Zenon DEF RemoteOn, read

-----------------------------------------------------------------------------
(* The answer to each question is the one that is meant.                    *)

SettingsRead == \A title, key : Config(title, key) = Setting(title, key)

\* What the sub-command can rely on when it asks.
Known ==
  /\ DotgcliAssumption /\ DotgcliKept
  /\ GitAssumption /\ RemotesKept
  /\ ConfigRead(cfg) /\ SettingsRead

LEMMA ForgeAnswer ==
  ASSUME Known, InfersForge => Remotes # None, ForgeType # None
  PROVE  ForgeType = MeantForge /\ ForgeType \in Forges
<1> DEFINE local == LocalSetting("forge-type")
           remote == IF GitRemotes(MeantRemote) # {} THEN FirstRemote(MeantRemote, "forge")
                     ELSE FirstRemote(None, "forge")
           named == IF MeantAccount # None THEN Setting(MeantAccount, "forge-type")
                    ELSE FirstOf(<<local, remote>>)
           type == OptionGiven("type")
<1>1. /\ cfg.account = MeantAccount /\ cfg.remote = MeantRemote
      /\ cfg.type = type /\ cfg.type \in Forges \cup {None}
  BY DEF Known, ConfigRead
<1>2. LocalEntry("forge-type") = local
  BY LocalMeant DEF Known
<1>3. NamedType = IF MeantAccount # None THEN Setting(MeantAccount, "forge-type") ELSE local
  BY <1>1, <1>2 DEF NamedType, Known, SettingsRead
<1>4. MeantForge = IF type # None THEN type ELSE named
  BY FirstOfTwo DEF MeantForge
<1>5. FirstOf(<<local, remote>>) = IF local # None THEN local ELSE remote
  BY FirstOfTwo
<1>6. None \notin Forges
  BY NoneAssumption
<1>7. Remotes # None => /\ RemoteForge(Remotes, MeantRemote) = remote
                        /\ remote \in Forges \cup {None}
  BY RemoteForgeMeant DEF Known
<1> HIDE DEF local, remote, type
<1>8. CASE cfg.type # None
  <2>1. ForgeType = cfg.type
    BY <1>8 DEF ForgeType, InfersForge
  <2>2. QED
    BY <1>1, <1>4, <1>8, <2>1
<1>9. CASE cfg.type = None /\ NamedType \in Forges
  <2>1. ForgeType = NamedType
    BY <1>6, <1>9 DEF ForgeType, InfersForge
  <2>2. NamedType # None
    BY <1>6, <1>9
  <2>3. named = NamedType
    BY <1>3, <1>5, <2>2
  <2>4. QED
    BY <1>1, <1>4, <1>9, <2>1, <2>3
<1>10. CASE InfersForge
  <2>1. cfg.type = None /\ cfg.account = None /\ NamedType = None
    BY <1>10 DEF InfersForge
  <2>2. Remotes # None
    BY <1>10
  <2>3. ForgeType = RemoteForge(Remotes, cfg.remote)
    BY <1>6, <1>10, <2>1, <2>2 DEF ForgeType
  <2>4. local = None /\ MeantAccount = None
    BY <1>1, <1>3, <2>1
  <2>5. named = remote
    BY <1>5, <2>4
  <2>6. QED
    BY <1>1, <1>4, <1>7, <2>1, <2>2, <2>3, <2>5
<1>11. CASE cfg.type = None /\ NamedType \notin Forges /\ ~InfersForge
  <2>1. ForgeType = None
    BY <1>11 DEF ForgeType
  <2>2. QED
    BY <2>1
<1>12. QED
  BY <1>8, <1>9, <1>10, <1>11

LEMMA AccountAnswer ==
  ASSUME Known, ForgeType = MeantForge
  PROVE  /\ Account = AccountUsed
         /\ \A key : AccountEntry(key) = OfAccount(key)
<1>1. cfg.account = MeantAccount
  BY DEF Known, ConfigRead
<1>2. Account = AccountUsed
  <2> DEFINE default == Setting("defaults", MeantForge \o "-default-account")
  <2>1. AccountUsed = IF MeantAccount # None THEN MeantAccount ELSE default
    BY FirstOfTwo DEF AccountUsed
  <2>2. Config("defaults", ForgeType \o "-default-account") = default
    BY DEF Known, SettingsRead
  <2> HIDE DEF default
  <2>3. QED
    BY <1>1, <2>1, <2>2 DEF Account
<1>3. ASSUME NEW key PROVE AccountEntry(key) = OfAccount(key)
  <2>1. Config(AccountUsed, key) = Setting(AccountUsed, key)
    BY DEF Known, SettingsRead
  <2>2. QED
    BY <1>2, <2>1 DEF AccountEntry, OfAccount
<1>4. QED
  BY <1>2, <1>3

LEMMA ApiBaseAnswer ==
  ASSUME Known, ForgeType = MeantForge, apibase = None
  PROVE  ApiBase = Meant("apibase")
<1> DEFINE a == OfAccount("api-base")
           b == OfAccount("apibase")
           c == DefaultUrl[MeantForge]
<1>1. AccountEntry("api-base") = a /\ AccountEntry("apibase") = b
  BY AccountAnswer
<1>2. Meant("apibase") = FirstOf(<<a, b, c>>)
  BY DEF Meant
<1>3. FirstOf(<<a, b, c>>) = IF a # None THEN a ELSE IF b # None THEN b ELSE c
  BY FirstOfThree
<1>4. ApiBase = IF a # None THEN a ELSE IF b # None THEN b ELSE c
  BY <1>1 DEF ApiBase
<1> HIDE DEF a, b, c
<1>5. QED
  BY <1>2, <1>3, <1>4

\* The repository: where the remotes are needed they could be read, and where
\* a remote was named and has a forge, the forge asked for is known.
LEMMA RepoAnswer ==
  ASSUME Known,
         cfg.remote # None \/ LocalEntry("pr.upstream") = None => Remotes # None,
         cfg.remote # None /\ RemoteUsed # None /\ RemoteUsed.forge # None =>
           ForgeType = MeantForge
  PROVE  Repo = OrError(MeantRepo)
<1> DEFINE local == LocalSetting("pr.upstream")
           site == FirstRemote(MeantRemote, "forge")
           repo == FirstRemote(MeantRemote, "repo")
<1>1. cfg.remote = MeantRemote /\ LocalEntry("pr.upstream") = local
  BY LocalMeant DEF Known, ConfigRead
<1>2. Remotes # None =>
        /\ RemoteUsed = None <=> GitRemotes(MeantRemote) = {}
        /\ RemoteUsed # None => /\ RemoteUsed \in NamedRemote
                                /\ RemoteUsed.forge = site
                                /\ RemoteUsed.repo = repo
  BY <1>1, UsedRemoteMeant DEF Known
<1>3. \A r \in NamedRemote : r.repo # None
  BY NoneAssumption DEF NamedRemote, GitRemote
<1>4. Remotes # None /\ RemoteUsed = None => site = None /\ repo = None
  BY <1>2 DEF FirstRemote
<1>5. MeantRepo = IF MeantRemote # None
                  THEN IF site \in {None, MeantForge} THEN repo ELSE None
                  ELSE FirstOf(<<local, FirstRemote(None, "repo")>>)
  BY DEF MeantRepo
<1>6. FirstOf(<<local, FirstRemote(None, "repo")>>) =
        IF local # None THEN local ELSE FirstRemote(None, "repo")
  BY FirstOfTwo
<1>7. MeantRemote = None => repo = FirstRemote(None, "repo")
  OBVIOUS
<1> HIDE DEF local, site, repo
<1>8. CASE cfg.remote = None /\ local # None
  <2>1. Repo = local
    BY <1>1, <1>8 DEF Repo
  <2>2. MeantRepo = local
    BY <1>1, <1>5, <1>6, <1>8
  <2>3. QED
    BY <1>8, <2>1, <2>2 DEF OrError
<1>9. CASE cfg.remote = None /\ local = None
  <2>1. Remotes # None
    BY <1>1, <1>9
  <2>2. MeantRepo = repo
    BY <1>1, <1>5, <1>6, <1>7, <1>9
  <2>3. CASE RemoteUsed = None
    <3>1. Repo = Error
      BY <1>1, <1>9, <2>3 DEF Repo
    <3>2. QED
      BY <1>4, <2>1, <2>2, <2>3, <3>1 DEF OrError
  <2>4. CASE RemoteUsed # None
    <3>1. Repo = RemoteUsed.repo
      BY <1>1, <1>9, <2>4 DEF Repo
    <3>2. repo # None /\ Repo = repo
      BY <1>2, <1>3, <2>1, <2>4, <3>1
    <3>3. QED
      BY <2>2, <3>2 DEF OrError
  <2>5. QED
    BY <2>3, <2>4
<1>10. CASE cfg.remote # None
  <2>1. Remotes # None
    BY <1>10
  <2>2. MeantRepo = IF site \in {None, MeantForge} THEN repo ELSE None
    BY <1>1, <1>5, <1>10
  <2>3. CASE RemoteUsed = None
    <3>1. Repo = Error
      BY <1>10, <2>3 DEF Repo
    <3>2. MeantRepo = None
      BY <1>4, <2>1, <2>2, <2>3
    <3>3. QED
      BY <3>1, <3>2 DEF OrError
  <2>4. CASE RemoteUsed # None
    <3>1. RemoteUsed.forge = site /\ RemoteUsed.repo = repo /\ repo # None
      BY <1>2, <1>3, <2>1, <2>4
    <3>2. site # None => ForgeType = MeantForge
      BY <1>10, <2>4, <3>1
    <3>3. CASE site \in {None, MeantForge}
      <4>1. site \in {None, ForgeType}
        BY <3>2, <3>3
      <4>2. Repo = repo
        BY <1>10, <2>4, <3>1, <4>1 DEF Repo
      <4>3. QED
        BY <2>2, <3>1, <3>3, <4>2 DEF OrError
    <3>4. CASE site \notin {None, MeantForge}
      <4>1. site \notin {None, ForgeType}
        BY <3>2, <3>4
      <4>2. Repo = Error
        BY <1>10, <2>4, <3>1, <4>1 DEF Repo
      <4>3. QED
        BY <2>2, <3>4, <4>2 DEF OrError
    <3>5. QED
      BY <3>3, <3>4
  <2>5. QED
    BY <2>3, <2>4
<1>11. QED
  BY <1>8, <1>9, <1>10

LEMMA RemoteAnswer ==
  ASSUME Known, cfg.remote = None => ForgeType = MeantForge /\ Remotes # None
  PROVE  Remote = OrError(MeantUrl)
<1> DEFINE read == ReadGitconfig(in.git)
           there == {i \in GitRemotes(None) : read[i].forge = MeantForge}
           url == IF there = {} THEN None ELSE read[Min(there)].url
<1>1. cfg.remote = MeantRemote
  BY DEF Known, ConfigRead
<1>2. MeantUrl = IF MeantRemote # None THEN MeantRemote ELSE url
  BY FirstOfTwo DEF MeantUrl
<1>3. cfg.remote = None => RemoteOn(Remotes, ForgeType) = url
  BY RemoteOnMeant DEF Known
<1> HIDE DEF url
<1>4. CASE cfg.remote # None
  <2>1. Remote = cfg.remote
    BY <1>4 DEF Remote
  <2>2. QED
    BY <1>1, <1>2, <1>4, <2>1 DEF OrError
<1>5. CASE cfg.remote = None
  <2>1. RemoteOn(Remotes, ForgeType) = url
    BY <1>3, <1>5
  <2>2. Remote = IF url # None THEN url ELSE Error
    BY <1>5, <2>1 DEF Remote
  <2>3. QED
    BY <1>1, <1>2, <1>5, <2>2 DEF OrError
<1>6. QED
  BY <1>4, <1>5

LEMMA PathAnswer ==
  ASSUME Known, ForgeType = MeantForge, Path # Error,
         AsksRepo("path") =>
           (cfg.remote # None \/ LocalEntry("pr.upstream") = None => Remotes # None)
  PROVE  Path = Meant("path")
<1> DEFINE no == <<None, None>>
           kind == IF MeantForge # "bugzilla" THEN "default"
                   ELSE IF in.path.id = None THEN "bugzilla"
                   ELSE IF OwnersRepo = no THEN "id" ELSE "default"
           which == IF OwnersRepo # no \/ MeantForge = "bugzilla" THEN OwnersRepo
                    ELSE MeantRepo
<1>1. Meant("path") = [repo |-> which, kind |-> kind]
  BY DEF Meant
<1>2. CASE ForgeType = "bugzilla"
  <2>1. Path = [repo |-> OwnersRepo,
                kind |-> CASE in.path.id = None -> "bugzilla"
                           [] in.path.id # None /\ OwnersRepo = no -> "id"
                           [] OTHER -> "default"]
    BY <1>2 DEF Path
  <2>2. which = OwnersRepo
    BY <1>2
  <2>3. (CASE in.path.id = None -> "bugzilla"
           [] in.path.id # None /\ OwnersRepo = no -> "id"
           [] OTHER -> "default") = kind
    BY <1>2
  <2> HIDE DEF kind, which, no
  <2>4. QED
    BY <1>1, <2>1, <2>2, <2>3
<1>3. CASE ForgeType # "bugzilla" /\ OwnersRepo = no
  <2>1. Path = IF Repo = Error THEN Error ELSE [repo |-> Repo, kind |-> "default"]
    BY <1>3 DEF Path
  <2>2. AsksRepo("path")
    BY <1>3 DEF AsksRepo
  <2>3. Repo = OrError(MeantRepo)
    BY <2>2, RepoAnswer
  <2>4. Repo # Error /\ Path = [repo |-> Repo, kind |-> "default"]
    BY <2>1
  <2>5. Repo = MeantRepo
    BY <2>3, <2>4 DEF OrError
  <2>6. kind = "default" /\ which = MeantRepo
    BY <1>3
  <2> HIDE DEF kind, which, no
  <2>7. QED
    BY <1>1, <2>4, <2>5, <2>6
<1>4. CASE ForgeType # "bugzilla" /\ OwnersRepo # no
  <2>1. Path = IF None \in {in.path.owner, in.path.repo} THEN Error
               ELSE [repo |-> OwnersRepo, kind |-> "default"]
    BY <1>4 DEF Path
  <2>2. Path = [repo |-> OwnersRepo, kind |-> "default"]
    BY <2>1
  <2>3. kind = "default" /\ which = OwnersRepo
    BY <1>4
  <2> HIDE DEF kind, which, no
  <2>4. QED
    BY <1>1, <2>2, <2>3
<1>5. QED
  BY <1>2, <1>3, <1>4

LEMMA SwitchSetting ==
  ASSUME SettingsRead, NEW key, NEW default
  PROVE  LET entry == Config("defaults", key) IN
         Switch(key, default) = IF entry = None THEN default ELSE MeansTrue(entry)
<1>1. Config("defaults", key) = Setting("defaults", key)
  BY DEF SettingsRead
<1>2. QED
  BY <1>1 DEF Switch

LEMMA SwitchOn ==
  ASSUME SettingsRead, NEW key
  PROVE  Switch(key, FALSE) <=> MeansTrue(Config("defaults", key))
<1>1. Switch(key, FALSE) =
        IF Config("defaults", key) = None THEN FALSE ELSE MeansTrue(Config("defaults", key))
  BY SwitchSetting
<1>2. QED
  BY <1>1, NoneIsNotYes

LEMMA SpinnerAnswer ==
  ASSUME Known, SwitchesRead(cfg), ~DiffersFromManual("spinner")
  PROVE  Spinner = Meant("spinner")
<1> DEFINE env == in.env.nospinner
           file == Switch("disable-spinner", FALSE)
           on == IF env # None THEN ~Affirms(env) ELSE ~file
<1>1. cfg.nospinner <=> MeansTrue(in.env.nospinner) \/ Flag("no-spinner")
  BY DEF SwitchesRead
<1>2. Switch("disable-spinner", FALSE) <=> MeansTrue(Config("defaults", "disable-spinner"))
  BY SwitchOn DEF Known
<1>3. Meant("spinner") = (~Flag("no-spinner") /\ on)
  BY DEF Meant
<1>7. MeansTrue(env) <=> Affirms(env)
  BY DEF DiffersFromManual, MistakenFor
<1>8. env # None /\ ~Affirms(env) => ~file
  BY DEF DiffersFromManual, KeepsSpinnerOff
<1>9. on <=> ~MeansTrue(env) /\ ~file
  <2>1. CASE env # None
    BY <1>7, <1>8, <2>1, Zenon
  <2>2. CASE env = None
    <3>1. ~MeansTrue(env)
      BY <2>2, NoneIsNotYes
    <3>2. on <=> ~file
      BY <2>2
    <3>3. QED
      BY <3>1, <3>2, Zenon
  <2>3. QED
    BY <2>1, <2>2
<1>4. Spinner <=> ~cfg.nospinner /\ ~MeansTrue(Config("defaults", "disable-spinner"))
  BY DEF Spinner
<1>5. Spinner \in BOOLEAN
  BY DEF Spinner
<1> HIDE DEF on, file, env
<1>6. Spinner <=> ~Flag("no-spinner") /\ on
  BY <1>1, <1>2, <1>4, <1>9, Zenon DEF env, file
<1>10. QED
  BY <1>3, <1>5, <1>6, Zenon

LEMMA ExperimentalAnswer ==
  ASSUME Known, SwitchesRead(cfg)
  PROVE  Answer("experimental") = Meant("experimental")
<1> DEFINE entry == MeansTrue(Config("defaults", "enable-experimental"))
<1>1. cfg.experimental <=> MeansTrue(in.env.experimental)
  BY DEF SwitchesRead
<1>2. Switch("enable-experimental", FALSE) <=> entry
  BY SwitchOn DEF Known
<1>3. Meant("experimental") = \/ MeansTrue(in.env.experimental)
                              \/ Switch("enable-experimental", FALSE)
  BY DEF Meant
<1>4. Answer("experimental") = (cfg.experimental \/ entry)
  BY DEF Answer
<1>6. QED
  BY <1>1, <1>2, <1>3, <1>4, Zenon

LEMMA AnswerIsMeant ==
  ASSUME Known, SwitchesRead(cfg), NEW q \in Questions, ~Exits(q),
         q = "apibase" => apibase = None, ~DiffersFromManual(q)
  PROVE  Answer(q) = Meant(q)
<1>1. /\ ReadsRemotes(q) => Remotes # None
      /\ AsksForge(q) => ForgeType # None
      /\ q = "path" => Path # Error
  BY DEF Exits
<1>2. AsksForge(q) => ForgeType = MeantForge
  <2> SUFFICES ASSUME AsksForge(q) PROVE ForgeType = MeantForge
    OBVIOUS
  <2>1. InfersForge => Remotes # None
    BY <1>1 DEF ReadsRemotes
  <2>2. QED
    BY <1>1, <2>1, ForgeAnswer
<1>3. AsksRepo(q) => (cfg.remote # None \/ LocalEntry("pr.upstream") = None => Remotes # None)
  BY <1>1 DEF ReadsRemotes
<1>4. CASE q = "forge"
  <2>1. AsksForge(q)
    BY <1>4 DEF AsksForge, OfForge
  <2>2. Answer(q) = ForgeType /\ Meant(q) = MeantForge
    BY <1>4 DEF Answer, Meant
  <2>3. QED
    BY <1>2, <2>1, <2>2
<1>5. CASE q = "account"
  <2>1. AsksForge(q)
    BY <1>5 DEF AsksForge, OfForge
  <2>2. Answer(q) = Account /\ Meant(q) = AccountUsed
    BY <1>5 DEF Answer, Meant
  <2>3. QED
    BY <1>2, <2>1, <2>2, AccountAnswer
<1>6. CASE q = "apibase"
  <2>1. AsksForge(q)
    BY <1>6 DEF AsksForge, OfForge
  <2>2. Answer(q) = ApiBase
    BY <1>6 DEF Answer
  <2>3. QED
    BY <1>2, <1>6, <2>1, <2>2, ApiBaseAnswer
<1>7. CASE q = "token"
  <2>1. AsksForge(q)
    BY <1>7 DEF AsksForge, OfForge
  <2>2. Answer(q) = AccountEntry("token") /\ Meant(q) = OfAccount("token")
    BY <1>7 DEF Answer, Meant
  <2>3. QED
    BY <1>2, <2>1, <2>2, AccountAnswer
<1>8. CASE q = "repo"
  <2>1. AsksRepo(q)
    BY <1>8 DEF AsksRepo
  <2>2. cfg.remote # None /\ RemoteUsed # None /\ RemoteUsed.forge # None => AsksForge(q)
    BY <1>8 DEF AsksForge
  <2>3. Repo = OrError(MeantRepo)
    BY <1>2, <1>3, <2>1, <2>2, RepoAnswer
  <2>4. Answer(q) = Repo /\ Meant(q) = OrError(MeantRepo)
    BY <1>8 DEF Answer, Meant
  <2>5. QED
    BY <2>3, <2>4
<1>9. CASE q = "remote"
  <2>1. cfg.remote = None => AsksForge(q) /\ ReadsRemotes(q)
    BY <1>9 DEF AsksForge, ReadsRemotes
  <2>2. Answer(q) = Remote /\ Meant(q) = OrError(MeantUrl)
    BY <1>9 DEF Answer, Meant
  <2>3. QED
    BY <1>1, <1>2, <2>1, <2>2, RemoteAnswer
<1>10. CASE q = "path"
  <2>1. AsksForge(q)
    BY <1>10 DEF AsksForge, OfForge
  <2>2. Answer(q) = Path
    BY <1>10 DEF Answer
  <2>3. Path = Meant("path")
    BY <1>1, <1>2, <1>3, <1>10, <2>1, PathAnswer
  <2>4. QED
    BY <1>10, <2>2, <2>3
<1>11. CASE q = "base"
  <2>1. Answer(q) = LocalEntry("pr.base") /\ Meant(q) = LocalSetting("pr.base")
    BY <1>11 DEF Answer, Meant
  <2>2. QED
    BY <2>1, LocalMeant DEF Known
<1>12. CASE q = "inhibit"
  <2> DEFINE key == "pr.inhibit-delete-source-branch"
  <2>1. Answer(q) = (LocalEntry(key) = "yes") /\ Meant(q) = (LocalSetting(key) = "yes")
    BY <1>12 DEF Answer, Meant
  <2>2. LocalEntry(key) = LocalSetting(key)
    BY LocalMeant DEF Known
  <2>3. QED
    BY <2>1, <2>2
<1>13. CASE q = "spinner"
  <2>1. Answer(q) = Spinner
    BY <1>13 DEF Answer
  <2>2. QED
    BY <1>13, <2>1, SpinnerAnswer
<1>14. CASE q = "experimental"
  BY <1>14, ExperimentalAnswer
<1>15. QED
  BY <1>4, <1>5, <1>6, <1>7, <1>8, <1>9, <1>10, <1>11, <1>12, <1>13, <1>14
     DEF Questions, OfForge, OfRepo

\* What the terminal and the settings say when colours are asked for first.
LEMMA ColoursAnswer ==
  ASSUME SwitchesRead(cfg), ColoursRead(cfg), ~DiffersFromManual("colours")
  PROVE  (cfg.force \/ ~(cfg.nocolour \/ (~cfg.testedtty /\ ~in.tty))) = Meant("colours")
<1>1. cfg.force <=> Flag("c")
  BY DEF SwitchesRead
<1>2. cfg.nocolour <=> MeansTrue(in.env.nocolour) /\ ~Flag("colours")
  BY DEF ColoursRead
<1>3. ~cfg.testedtty
  BY DEF ColoursRead
<1>4. Meant("colours") = (Flag("c") \/ Flag("colours")
                             \/ (in.tty /\ ~Affirms(in.env.nocolour)))
  BY DEF Meant
<1>5. /\ MeansTrue(in.env.nocolour) <=> Affirms(in.env.nocolour)
      /\ Flag("colours") /\ ~Flag("c") => in.tty
  BY DEF DiffersFromManual, MistakenFor, ColoursOnTerminalOnly
<1>6. (cfg.force \/ ~(cfg.nocolour \/ (~cfg.testedtty /\ ~in.tty)))
        <=> Flag("c") \/ Flag("colours") \/ (in.tty /\ ~Affirms(in.env.nocolour))
  BY <1>1, <1>2, <1>3, <1>5, Zenon
<1>7. QED
  BY <1>4, <1>6, Zenon

LEMMA MarkdownAnswer ==
  ASSUME SettingsRead, MarkdownRead(cfg)
  PROVE  LET entry == Config("defaults", "render-markdown") IN
         (~(cfg.nomarkdown \/ (entry # None /\ ~MeansTrue(entry)))) = Meant("markdown")
<1> DEFINE entry == Config("defaults", "render-markdown")
           switch == Switch("render-markdown", TRUE)
<1>1. cfg.nomarkdown <=> \/ in.env.markdown # None /\ ~MeansTrue(in.env.markdown)
                         \/ Flag("no-markdown")
  BY DEF MarkdownRead
<1>2. switch = IF entry = None THEN TRUE ELSE MeansTrue(entry)
  BY SwitchSetting
<1>3. Meant("markdown") = (/\ ~Flag("no-markdown")
                           /\ in.env.markdown # None => MeansTrue(in.env.markdown)
                           /\ switch)
  BY DEF Meant
<1> HIDE DEF entry, switch
<1>4. switch <=> ~(entry # None /\ ~MeansTrue(entry))
  BY <1>2
<1>5. (~(cfg.nomarkdown \/ (entry # None /\ ~MeansTrue(entry)))) = Meant("markdown")
  BY <1>1, <1>3, <1>4, Zenon
<1>6. QED
  BY <1>5 DEF entry

-----------------------------------------------------------------------------
(* The table of sub-commands.                                               *)

\* What an entry of it can be.
Targets == ToSet(Commands)
Entries ==
  [name : Targets \cup {"pr"} \cup {in.file[i].key : i \in 1..Len(in.file)},
   runs : Targets]
Tables == Seq(Entries)

LEMMA BuiltInTypes ==
  BuiltIn \in Tables
<1> DEFINE n == Len(Commands)
<1>1. n \in Nat /\ \A i \in 1..n : Commands[i] \in Targets
  BY CommandsAssumption, LenProperties DEF Targets, ToSet
<1>2. BuiltIn \in [1..n -> Entries]
  <2>1. ASSUME NEW i \in 1..n
        PROVE  [name |-> Commands[i], runs |-> Commands[i]] \in Entries
    <3>1. Commands[i] \in Targets
      BY <1>1
    <3>2. QED
      BY <3>1 DEF Entries
  <2> HIDE DEF n
  <2>2. QED
    BY <2>1 DEF BuiltIn, n
<1> HIDE DEF n
<1>3. QED
  BY <1>1, <1>2, FunctionIsSeq DEF Tables

LEMMA FoundTypes ==
  ASSUME NEW tbl \in Tables, NEW word
  PROVE  FindSubcommand(tbl, word) \in Targets \cup {None}
<1> DEFINE hits == Matches(tbl, word)
<1>1. FindSubcommand(tbl, word) = IF hits = {} \/ Min(hits) + 1 \in hits THEN None
                                  ELSE tbl[Min(hits)].runs
  BY DEF FindSubcommand
<1>2. CASE hits = {}
  BY <1>1, <1>2
<1>3. CASE hits # {}
  <2>1. Len(tbl) \in Nat
    BY LenProperties DEF Tables
  <2>2. hits \in SUBSET Int
    BY <2>1 DEF Matches
  <2>3. \A x \in hits : 1 <= x
    BY <2>1 DEF Matches
  <2>4. \A x \in hits : x \in 1..Len(tbl)
    BY DEF Matches
  <2> HIDE DEF hits
  <2>5. Min(hits) \in hits
    BY <1>3, <2>2, <2>3, MinShape
  <2>6. tbl[Min(hits)] \in Entries
    BY <2>4, <2>5, ElementOfSeq DEF Tables
  <2>7. tbl[Min(hits)].runs \in Targets
    BY <2>6 DEF Entries
  <2>8. QED
    BY <1>1, <2>7
<1>4. QED
  BY <1>2, <1>3

LEMMA AliasTypes ==
  ASSUME NEW tbl \in Tables, NEW alias,
         alias.key \in {"pr"} \cup {in.file[i].key : i \in 1..Len(in.file)}
  PROVE  AddAlias(tbl, alias) \in Tables
<1> DEFINE target == FindSubcommand(tbl, alias.value)
           entry == [name |-> alias.key, runs |-> target]
<1>1. target \in Targets \cup {None}
  BY FoundTypes
<1>2. AddAlias(tbl, alias) = IF target = None THEN <<>> ELSE Append(tbl, entry)
  BY DEF AddAlias
<1> HIDE DEF target
<1>3. target # None => entry \in Entries
  BY <1>1 DEF Entries
<1>4. <<>> \in Tables /\ \A e \in Entries : Append(tbl, e) \in Tables
  BY EmptySeq, AppendProperties DEF Tables
<1> HIDE DEF entry
<1>5. QED
  BY <1>2, <1>3, <1>4

LEMMA InsertTypes ==
  ASSUME NEW tbl \in Tables, NEW entry \in Entries
  PROVE  Insert(tbl, entry) \in Tables
<1> DEFINE n == Len(tbl)
           above == {i \in 1..n : Rank(tbl[i].name) > Rank(entry.name)} \cup {n + 1}
           k == Min(above)
<1>1. n \in Nat /\ tbl \in Seq(Entries)
  BY LenProperties DEF Tables
<1>2. Insert(tbl, entry) = SubSeq(tbl, 1, k - 1) \o <<entry>> \o SubSeq(tbl, k, n)
  BY DEF Insert, InsertAt
<1>3. above \in SUBSET Int
  BY <1>1
<1>4. \A x \in above : 1 <= x
  BY <1>1
<1>5. above # {}
  OBVIOUS
<1>6. \A x \in above : x \in 1..n + 1
  BY <1>1
<1> HIDE DEF above
<1>7. Min(above) \in above
  BY <1>3, <1>4, <1>5, MinShape
<1>8. k \in 1..n + 1
  BY <1>6, <1>7
<1> HIDE DEF k, n
<1>9. k - 1 \in Int /\ k \in Int /\ n \in Int /\ 1 \in Int
  BY <1>1, <1>8
<1>10. /\ \A i \in 1..k - 1 : tbl[i] \in Entries
       /\ \A i \in k..n : tbl[i] \in Entries
  <2>1. \A i \in 1..n : tbl[i] \in Entries
    BY <1>1, ElementOfSeq DEF n
  <2>2. \A i \in 1..k - 1 : i \in 1..n
    BY <1>1, <1>8
  <2>3. \A i \in k..n : i \in 1..n
    BY <1>1, <1>8
  <2>4. QED
    BY <2>1, <2>2, <2>3
<1>11. SubSeq(tbl, 1, k - 1) \in Seq(Entries)
  BY <1>9, <1>10, SubSeqProperties
<1>12. SubSeq(tbl, k, n) \in Seq(Entries)
  BY <1>9, <1>10, SubSeqProperties
<1>13. <<entry>> \in Seq(Entries)
  OBVIOUS
<1>14. QED
  BY <1>2, <1>11, <1>12, <1>13, ConcatProperties DEF Tables

\* The aliases that are installed, "pr" first.
InstalledAliases ==
  <<[key |-> "pr", value |-> "pulls"]>> \o FindSection(Parsed.sections, "aliases")

AliasLines == {[key |-> "pr", value |-> "pulls"]} \cup ToSet(in.file)

\* The recursive functions of InstalledTable and Sorted have names.
InstalledWith(aliases) ==
  CHOOSE installed : installed = [n \in 0..Len(aliases) |->
                       IF n = 0 THEN BuiltIn ELSE AddAlias(installed[n - 1], aliases[n])]

SortedFrom(tbl) ==
  CHOOSE sorted : sorted = [n \in 0..Len(tbl) |->
                    IF n = 0 THEN <<>> ELSE Insert(sorted[n - 1], tbl[n])]

LEMMA AliasLineTypes ==
  ASSUME FileAssumption, NEW alias \in AliasLines
  PROVE  alias.key \in {"pr"} \cup {in.file[i].key : i \in 1..Len(in.file)}
<1>1. CASE alias = [key |-> "pr", value |-> "pulls"]
  BY <1>1
<1>2. CASE alias \in ToSet(in.file)
  <2>1. PICK i \in DOMAIN in.file : alias = in.file[i]
    BY <1>2 DEF ToSet
  <2>2. DOMAIN in.file = 1..Len(in.file)
    BY LenProperties DEF FileAssumption
  <2>3. QED
    BY <2>1, <2>2
<1>3. QED
  BY <1>1, <1>2 DEF AliasLines

LEMMA InstalledTypes ==
  ASSUME FileAssumption, NEW aliases \in Seq(AliasLines)
  PROVE  InstalledWith(aliases)[Len(aliases)] \in Tables
<1> DEFINE top == Len(aliases)
           T == Tables
           step == [i \in 1..top |-> [v \in T |-> AddAlias(v, aliases[i])]]
           Is(f) == f = [n \in 0..top |-> IF n = 0 THEN BuiltIn ELSE AddAlias(f[n - 1], aliases[n])]
<1>1. top \in Nat /\ BuiltIn \in T
  BY LenProperties, BuiltInTypes
<1>0. \A i \in 1..top, v \in T : AddAlias(v, aliases[i]) \in T
  BY ElementOfSeq, AliasTypes, AliasLineTypes
<1>2. \A i \in 1..top, v \in T :
        step[i][v] = AddAlias(v, aliases[i]) /\ step[i][v] \in T
  <2> HIDE DEF T
  <2>1. QED
    BY <1>0
<1> HIDE DEF top, T
<1>3. PICK f \in [0..top -> T] : Recurs(f, 0, top, BuiltIn, step)
  <2>1. 0 \in Int /\ top \in Int /\ 0 <= top /\ 0 + 1 = 1
    BY <1>1
  <2>2. IsStep(step, 0, top, T)
    BY <1>2, <2>1 DEF IsStep
  <2> HIDE DEF step
  <2>3. QED
    BY <1>1, <2>1, <2>2, Recursion, Zenon
<1>4. f[0] = BuiltIn /\ \A n \in 1..top : f[n] = AddAlias(f[n - 1], aliases[n])
  <2>1. ASSUME NEW n \in 1..top PROVE f[n] = AddAlias(f[n - 1], aliases[n])
    <3>1. n \in 0 + 1..top /\ n - 1 \in 0..top
      BY <1>1
    <3>2. f[n - 1] \in T
      BY <3>1
    <3> HIDE DEF step
    <3>3. step[n][f[n - 1]] = AddAlias(f[n - 1], aliases[n])
      BY <3>2, <1>2, Zenon
    <3>4. f[n] = step[n][f[n - 1]]
      BY <3>1, <1>3, Zenon DEF Recurs
    <3>5. QED
      BY <3>3, <3>4, Zenon
  <2>2. QED
    BY <2>1, <1>3 DEF Recurs
<1>5. Is(f)
  <2>1. ASSUME NEW n \in 0..top
        PROVE  f[n] = IF n = 0 THEN BuiltIn ELSE AddAlias(f[n - 1], aliases[n])
    <3>1. n # 0 => n \in 1..top
      BY <1>1
    <3>2. QED
      BY <1>4, <3>1, Zenon
  <2>2. f = [n \in 0..top |-> f[n]]
    BY <1>3
  <2>3. QED
    BY <2>1, <2>2, Zenon
<1> DEFINE p == InstalledWith(aliases)
<1>6. Is(p)
  BY <1>5, Zenon DEF InstalledWith, top
<1> HIDE DEF p
<1>7. p[0] = BuiltIn /\ \A n \in 1..top : p[n] = AddAlias(p[n - 1], aliases[n])
  <2>1. 0 \in 0..top /\ \A n \in 1..top : n \in 0..top /\ n # 0
    BY <1>1
  <2>2. QED
    BY <1>6, <2>1, Zenon
<1> DEFINE R == {n \in 0..top : p[n] \in T}
<1>8. 0 \in R
  BY <1>1, <1>7
<1>9. ASSUME NEW n \in 0..top - 1, n \in R PROVE n + 1 \in R
  <2>1. n + 1 \in 1..top /\ n + 1 \in 0..top /\ (n + 1) - 1 = n
    BY <1>1
  <2>2. p[n + 1] = AddAlias(p[n], aliases[n + 1])
    BY <1>7, <2>1, Zenon
  <2>3. p[n] \in T
    BY <1>9
  <2>4. p[n + 1] \in T
    BY <1>0, <2>1, <2>2, <2>3
  <2>5. QED
    BY <2>1, <2>4
<1>10. top \in R
  <2>1. \A n \in 0..top - 1 : n \in R => n + 1 \in R
    BY <1>9
  <2>2. 0 \in Int /\ top \in Int /\ (0 <= top => 0 \in R) /\ top \in 0..top
    BY <1>1, <1>8
  <2> HIDE DEF R
  <2>3. QED
    BY <2>1, <2>2, InductUpTo, Zenon
<1>11. QED
  BY <1>10 DEF p, top, T

LEMMA SortedTypes ==
  ASSUME NEW tbl \in Tables
  PROVE  SortedFrom(tbl)[Len(tbl)] \in Tables
<1> DEFINE top == Len(tbl)
           T == Tables
           step == [i \in 1..top |-> [v \in T |-> Insert(v, tbl[i])]]
           Is(f) == f = [n \in 0..top |-> IF n = 0 THEN <<>> ELSE Insert(f[n - 1], tbl[n])]
<1>1. top \in Nat /\ <<>> \in T
  BY LenProperties, EmptySeq DEF Tables
<1>0. \A i \in 1..top, v \in T : Insert(v, tbl[i]) \in T
  BY ElementOfSeq, InsertTypes DEF Tables
<1>2. \A i \in 1..top, v \in T :
        step[i][v] = Insert(v, tbl[i]) /\ step[i][v] \in T
  <2> HIDE DEF T
  <2>1. QED
    BY <1>0
<1> HIDE DEF top, T
<1>3. PICK f \in [0..top -> T] : Recurs(f, 0, top, <<>>, step)
  <2>1. 0 \in Int /\ top \in Int /\ 0 <= top /\ 0 + 1 = 1
    BY <1>1
  <2>2. IsStep(step, 0, top, T)
    BY <1>2, <2>1 DEF IsStep
  <2> HIDE DEF step
  <2>3. QED
    BY <1>1, <2>1, <2>2, Recursion, Zenon
<1>4. f[0] = <<>> /\ \A n \in 1..top : f[n] = Insert(f[n - 1], tbl[n])
  <2>1. ASSUME NEW n \in 1..top PROVE f[n] = Insert(f[n - 1], tbl[n])
    <3>1. n \in 0 + 1..top /\ n - 1 \in 0..top
      BY <1>1
    <3>2. f[n - 1] \in T
      BY <3>1
    <3> HIDE DEF step
    <3>3. step[n][f[n - 1]] = Insert(f[n - 1], tbl[n])
      BY <3>2, <1>2, Zenon
    <3>4. f[n] = step[n][f[n - 1]]
      BY <3>1, <1>3, Zenon DEF Recurs
    <3>5. QED
      BY <3>3, <3>4, Zenon
  <2>2. QED
    BY <2>1, <1>3 DEF Recurs
<1>5. Is(f)
  <2>1. ASSUME NEW n \in 0..top
        PROVE  f[n] = IF n = 0 THEN <<>> ELSE Insert(f[n - 1], tbl[n])
    <3>1. n # 0 => n \in 1..top
      BY <1>1
    <3>2. QED
      BY <1>4, <3>1, Zenon
  <2>2. f = [n \in 0..top |-> f[n]]
    BY <1>3
  <2>3. QED
    BY <2>1, <2>2, Zenon
<1> DEFINE p == SortedFrom(tbl)
<1>6. Is(p)
  BY <1>5, Zenon DEF SortedFrom, top
<1> HIDE DEF p
<1>7. p[0] = <<>> /\ \A n \in 1..top : p[n] = Insert(p[n - 1], tbl[n])
  <2>1. 0 \in 0..top /\ \A n \in 1..top : n \in 0..top /\ n # 0
    BY <1>1
  <2>2. QED
    BY <1>6, <2>1, Zenon
<1> DEFINE R == {n \in 0..top : p[n] \in T}
<1>8. 0 \in R
  BY <1>1, <1>7
<1>9. ASSUME NEW n \in 0..top - 1, n \in R PROVE n + 1 \in R
  <2>1. n + 1 \in 1..top /\ n + 1 \in 0..top /\ (n + 1) - 1 = n
    BY <1>1
  <2>2. p[n + 1] = Insert(p[n], tbl[n + 1])
    BY <1>7, <2>1, Zenon
  <2>3. p[n] \in T
    BY <1>9
  <2>4. p[n + 1] \in T
    BY <1>0, <2>1, <2>2, <2>3
  <2>5. QED
    BY <2>1, <2>4
<1>10. top \in R
  <2>1. \A n \in 0..top - 1 : n \in R => n + 1 \in R
    BY <1>9
  <2>2. 0 \in Int /\ top \in Int /\ (0 <= top => 0 \in R) /\ top \in 0..top
    BY <1>1, <1>8
  <2> HIDE DEF R
  <2>3. QED
    BY <2>1, <2>2, InductUpTo, Zenon
<1>11. QED
  BY <1>10 DEF p, top, T

LEMMA SortIsSorted ==
  ASSUME NEW tbl
  PROVE  Sorted(tbl) = SortedFrom(tbl)[Len(tbl)]
BY DEF Sorted, SortedFrom

LEMMA InstalledIsInstalled ==
  InstalledTable = InstalledWith(InstalledAliases)[Len(InstalledAliases)]
BY DEF InstalledTable, InstalledWith, InstalledAliases

\* The entries of a section are lines of the file.
LEMMA InstalledTableTypes ==
  ASSUME FileAssumption, Parsed.sections \in Seq(SectionsOf(in.file))
  PROVE  InstalledTable \in Tables
<1> DEFINE secs == Parsed.sections
           hits == {i \in 1..Len(secs) : secs[i].title = "aliases"}
           section == FindSection(secs, "aliases")
<1>1. section \in Seq(ToSet(in.file))
  <2>1. section = IF hits = {} THEN <<>> ELSE secs[Min(hits)].entries
    BY DEF FindSection
  <2>2. CASE hits = {}
    BY <2>1, <2>2, EmptySeq
  <2>3. CASE hits # {}
    <3>1. hits \in SUBSET Int
      BY LenProperties
    <3>2. \A x \in hits : 1 <= x
      BY LenProperties
    <3>3. \A x \in hits : x \in 1..Len(secs)
      OBVIOUS
    <3> HIDE DEF hits
    <3>4. Min(hits) \in hits
      BY <2>3, <3>1, <3>2, MinShape
    <3>5. secs[Min(hits)] \in SectionsOf(in.file)
      BY <3>3, <3>4, ElementOfSeq
    <3>6. secs[Min(hits)].entries \in Seq(ToSet(in.file))
      BY <3>5 DEF SectionsOf
    <3> HIDE DEF secs, section
    <3>7. QED
      BY <2>1, <2>3, <3>6
  <2>4. QED
    BY <2>2, <2>3
<1> HIDE DEF section
<1>2. section \in Seq(AliasLines)
  BY <1>1, SeqMonotonic DEF AliasLines
<1> DEFINE pr == [key |-> "pr", value |-> "pulls"]
<1>3. pr \in AliasLines
  BY DEF AliasLines
<1> HIDE DEF pr
<1>4. <<pr>> \in Seq(AliasLines)
  BY <1>3
<1>5. InstalledAliases \in Seq(AliasLines)
  BY <1>2, <1>4, ConcatProperties DEF InstalledAliases, section, pr
<1>6. QED
  BY <1>5, InstalledTypes, InstalledIsInstalled

-----------------------------------------------------------------------------
(* The inductive invariant.                                                 *)

Stages == {"setup", "presort", "args", "lookup", "spinner", "run", "returned",
           "exit0", "exit1"}

\* The config file is read before the first look-up and again before the
\* sub-command is called.
SectionsInv ==
  /\ stage = "setup" => sections = <<>> /\ ~cfg.inited
  /\ stage \in {"presort", "args", "lookup", "spinner"} =>
       sections = Once.sections /\ Once.at # "broken"
  /\ stage \in {"lookup", "spinner"} => ~cfg.inited
  /\ stage \in {"run", "returned"} => SettingsRead

\* The switches stay as they were parsed until they are asked for.
ConfigInv ==
  /\ ConfigShape(cfg)
  /\ cfg.type \in Forges \cup {None}
  /\ stage \in {"setup", "presort", "args"} => BlankConfig(cfg)
  /\ stage \in {"lookup", "spinner", "run", "returned"} =>
       /\ ConfigRead(cfg) /\ SwitchesRead(cfg)
       /\ "colours" \notin Answered => ColoursRead(cfg)
       /\ "markdown" \notin Answered => MarkdownRead(cfg)

AnswersInv ==
  /\ Answered \subseteq Questions \cup {"colours", "markdown"}
  /\ apibase # None => "apibase" \in Answered
  /\ AnswersFollowPrecedence
  /\ "forge" \in Answered => answers["forge"] \in Forges

StartupInv ==
  /\ in \in Inputs
  /\ stage \in Stages
  /\ table \in Tables
  /\ runs \in Targets \cup {None}
  /\ SectionsInv
  /\ ConfigInv
  /\ DotgcliKept /\ RemotesKept
  /\ AnswersInv

LEMMA InputsAre ==
  ASSUME in \in Inputs
  PROVE  /\ OptionsAssumption /\ ArgumentsAssumption /\ FileAssumption
         /\ DotgcliAssumption /\ GitAssumption
<1>1. OptionsAssumption
  BY InputsAssumption DEF OptionsAssumption
<1>2. ArgumentsAssumption
  BY InputsAssumption DEF ArgumentsAssumption
<1>3. FileAssumption
  BY InputsAssumption DEF FileAssumption
<1>4. DotgcliAssumption
  <2>1. in.dotgcli \in Seq(ToSet(in.dotgcli)) /\ in.dotgcli # <<>>
    BY InputsAssumption
  <2>2. \A i \in 1..Len(in.dotgcli) : in.dotgcli[i] # None =>
         /\ in.dotgcli[i] \in Seq(ToSet(in.dotgcli[i]))
         /\ \A j \in 1..Len(in.dotgcli[i]) :
              in.dotgcli[i][j].line = "entry" => in.dotgcli[i][j].value # None
    BY InputsAssumption, Zenon
  <2>3. QED
    BY <2>1, <2>2 DEF DotgcliAssumption
<1>5. GitAssumption
  BY InputsAssumption DEF GitAssumption, GitSection
<1>6. QED
  BY <1>1, <1>2, <1>3, <1>4, <1>5

\* What is meant depends on what gcli was started with and on nothing else.
LEMMA MeaningStays ==
  ASSUME in' = in
  PROVE  /\ Tables' = Tables /\ Once' = Once
         /\ \A title, key : Setting(title, key)' = Setting(title, key)
         /\ \A q : /\ Meant(q)' = Meant(q)
                   /\ DiffersFromManual(q)' <=> DiffersFromManual(q)
         /\ ReadDotgcli(in.dotgcli)' = ReadDotgcli(in.dotgcli)
         /\ ReadGitconfig(in.git)' = ReadGitconfig(in.git)
         /\ MeantAccount' = MeantAccount /\ MeantRemote' = MeantRemote
         /\ \A opt : OptionGiven(opt)' = OptionGiven(opt) /\ (Flag(opt)' <=> Flag(opt))
<1>1. Tables' = Tables /\ Once' = Once
  BY DEF Tables, Entries, Once
<1>2. \A title, key : Setting(title, key)' = Setting(title, key)
  BY DEF Setting
<1>3. /\ ReadDotgcli(in.dotgcli)' = ReadDotgcli(in.dotgcli)
      /\ ReadGitconfig(in.git)' = ReadGitconfig(in.git)
  BY Zenon
<1>4. \A key : LocalSetting(key)' = LocalSetting(key)
  BY Zenon DEF LocalSetting
<1>5. \A opt : OptionGiven(opt)' = OptionGiven(opt) /\ (Flag(opt)' <=> Flag(opt))
  BY DEF OptionGiven, Flag
<1>6. \A name, field : /\ GitRemotes(name)' = GitRemotes(name)
                       /\ FirstRemote(name, field)' = FirstRemote(name, field)
  BY <1>3 DEF GitRemotes, FirstRemote
<1>7. MeantAccount' = MeantAccount /\ MeantRemote' = MeantRemote
  BY <1>5 DEF MeantAccount, MeantRemote
<1>8. MeantForge' = MeantForge
  BY <1>2, <1>4, <1>5, <1>6, <1>7 DEF MeantForge
<1>9. /\ AccountUsed' = AccountUsed /\ MeantRepo' = MeantRepo /\ MeantUrl' = MeantUrl
      /\ OwnersRepo' = OwnersRepo
  <2>1. AccountUsed' = AccountUsed
    BY <1>2, <1>7, <1>8 DEF AccountUsed
  <2>2. MeantRepo' = MeantRepo
    BY <1>4, <1>6, <1>7, <1>8 DEF MeantRepo
  <2>3. MeantUrl' = MeantUrl
    <3>1. MeantForge' = MeantForge /\ MeantRemote' = MeantRemote
      BY <1>7, <1>8
    <3>2. GitRemotes(None)' = GitRemotes(None)
      BY <1>6
    <3>3. QED
      BY <3>1, <3>2, Zenon DEF MeantUrl
  <2>4. OwnersRepo' = OwnersRepo
    BY DEF OwnersRepo
  <2>5. QED
    BY <2>1, <2>2, <2>3, <2>4
<1>10. \A key : OfAccount(key)' = OfAccount(key)
  BY <1>2, <1>9 DEF OfAccount
<1>11. \A key, default : (Switch(key, default)' = Switch(key, default))
  BY <1>2 DEF Switch
<1>12. \A q : Meant(q)' = Meant(q)
  BY <1>4, <1>5, <1>8, <1>9, <1>10, <1>11 DEF Meant
<1>13. \A q : DiffersFromManual(q)' <=> DiffersFromManual(q)
  <2>1. Switch("disable-spinner", FALSE)' = Switch("disable-spinner", FALSE)
    BY <1>11
  <2>2. QED
    BY <1>5, <2>1
       DEF DiffersFromManual, MistakenFor, KeepsSpinnerOff, ColoursOnTerminalOnly
<1>14. QED
  BY <1>1, <1>2, <1>3, <1>5, <1>7, <1>12, <1>13

LEMMA ConfigReadStays ==
  ASSUME in' = in, cfg'.account = cfg.account, cfg'.remote = cfg.remote,
         cfg'.type = cfg.type, ConfigRead(cfg)
  PROVE  ConfigRead(cfg)'
<1>1. MeantAccount' = MeantAccount /\ MeantRemote' = MeantRemote
  BY MeaningStays
<1>2. OptionGiven("type")' = OptionGiven("type")
  BY MeaningStays
<1>3. QED
  BY <1>1, <1>2 DEF ConfigRead

LEMMA SwitchesReadStays ==
  ASSUME in' = in, cfg'.force = cfg.force, cfg'.nospinner = cfg.nospinner,
         cfg'.experimental = cfg.experimental, SwitchesRead(cfg)
  PROVE  SwitchesRead(cfg)'
<1>1. \A opt : Flag(opt)' <=> Flag(opt)
  BY MeaningStays
<1>2. QED
  BY <1>1 DEF SwitchesRead

LEMMA ColoursReadStays ==
  ASSUME in' = in, cfg'.nocolour = cfg.nocolour, cfg'.testedtty = cfg.testedtty,
         ColoursRead(cfg)
  PROVE  ColoursRead(cfg)'
<1>1. \A opt : Flag(opt)' <=> Flag(opt)
  BY MeaningStays
<1>2. QED
  BY <1>1 DEF ColoursRead

LEMMA MarkdownReadStays ==
  ASSUME in' = in, cfg'.nomarkdown = cfg.nomarkdown, MarkdownRead(cfg)
  PROVE  MarkdownRead(cfg)'
<1>1. \A opt : Flag(opt)' <=> Flag(opt)
  BY MeaningStays
<1>2. QED
  BY <1>1 DEF MarkdownRead

LEMMA AnswersStay ==
  ASSUME StartupInv, in' = in, answers' = answers, apibase' = apibase
  PROVE  AnswersInv'
<1>1. Answered' = Answered
  BY DEF Answered
<1>2. AnswersFollowPrecedence'
  <2>1. \A q \in Answered : DiffersFromManual(q) \/ answers[q] = Meant(q)
    BY DEF StartupInv, AnswersInv, AnswersFollowPrecedence
  <2>2. \A q : /\ Meant(q)' = Meant(q)
               /\ DiffersFromManual(q)' <=> DiffersFromManual(q)
    BY MeaningStays
  <2>3. QED
    BY <1>1, <2>1, <2>2 DEF AnswersFollowPrecedence
<1>3. QED
  BY <1>1, <1>2 DEF StartupInv, AnswersInv

LEMMA ConfigStays ==
  ASSUME StartupInv, in' = in, cfg' = cfg, answers' = answers,
         stage' = stage \/ stage' \in {"exit0", "exit1"}
           \/ (stage = "presort" /\ stage' = "args")
           \/ (stage = "lookup" /\ stage' = "spinner")
           \/ (stage = "run" /\ stage' = "returned")
  PROVE  ConfigInv'
<1>1. Answered' = Answered
  BY DEF Answered
<1>2. ConfigShape(cfg)' /\ (cfg.type \in Forges \cup {None})'
      /\ (BlankConfig(cfg)' <=> BlankConfig(cfg))
  BY DEF StartupInv, ConfigInv, ConfigShape, BlankConfig
<1>3. /\ ConfigRead(cfg) => ConfigRead(cfg)'
      /\ SwitchesRead(cfg) => SwitchesRead(cfg)'
      /\ ColoursRead(cfg) => ColoursRead(cfg)'
      /\ MarkdownRead(cfg) => MarkdownRead(cfg)'
  BY ConfigReadStays, SwitchesReadStays, ColoursReadStays, MarkdownReadStays
<1>4. QED
  BY <1>1, <1>2, <1>3 DEF StartupInv, ConfigInv

LEMMA FoundStays ==
  ASSUME StartupInv, in' = in,
         dotgcli' = dotgcli \/ dotgcli' = Dotgcli,
         remotes' = remotes \/ remotes' = Remotes
  PROVE  DotgcliKept' /\ RemotesKept'
<1>1. /\ ReadDotgcli(in.dotgcli)' = ReadDotgcli(in.dotgcli)
      /\ ReadGitconfig(in.git)' = ReadGitconfig(in.git)
  BY MeaningStays
<1>2. Dotgcli = ReadDotgcli(in.dotgcli) /\ Remotes = ReadGitconfig(in.git)
  BY RemotesAreRead DEF StartupInv, DotgcliKept, Dotgcli
<1>3. DotgcliKept /\ RemotesKept
  BY DEF StartupInv
<1>4. QED
  BY <1>1, <1>2, <1>3 DEF DotgcliKept, RemotesKept

LEMMA SettingsStay ==
  ASSUME in' = in, sections' = sections, SettingsRead
  PROVE  SettingsRead'
<1>1. ASSUME NEW title, NEW key
      PROVE  Config(title, key)' = Setting(title, key)'
  <2>1. Setting(title, key)' = Setting(title, key)
    BY MeaningStays
  <2>2. Config(title, key)' = Config(title, key)
    BY DEF Config
  <2>3. Config(title, key) = Setting(title, key)
    BY DEF SettingsRead
  <2>4. QED
    BY <2>1, <2>2, <2>3
<1>2. QED
  BY <1>1 DEF SettingsRead

LEMMA SectionsStay ==
  ASSUME StartupInv, in' = in, sections' = sections, cfg'.inited = cfg.inited,
         stage' = stage \/ stage' \in {"exit0", "exit1"}
           \/ (stage = "presort" /\ stage' = "args")
           \/ (stage = "lookup" /\ stage' = "spinner")
           \/ (stage = "run" /\ stage' = "returned")
  PROVE  SectionsInv'
<1>1. Once' = Once
  BY MeaningStays
<1>2. SettingsRead => SettingsRead'
  BY SettingsStay
<1>3. SectionsInv
  BY DEF StartupInv
<1>4. QED
  BY <1>1, <1>2, <1>3 DEF SectionsInv

\* The steps that leave everything but the stage and the table alone.
LEMMA PlainStep ==
  ASSUME StartupInv, in' = in, table' \in Tables, runs' \in Targets \cup {None},
         stage' \in Stages,
         stage' \in {"exit0", "exit1"}
           \/ (stage = "presort" /\ stage' = "args")
           \/ (stage = "lookup" /\ stage' = "spinner")
           \/ (stage = "run" /\ stage' = "returned"),
         UNCHANGED <<cfg, sections, dotgcli, remotes, apibase, answers>>
  PROVE  StartupInv'
<1>1. AnswersInv'
  BY AnswersStay
<1>2. ConfigInv'
  BY ConfigStays
<1>3. SectionsInv'
  BY SectionsStay
<1>4. DotgcliKept' /\ RemotesKept'
  BY FoundStays
<1>5. Tables' = Tables
  BY MeaningStays
<1>6. (in \in Inputs)' /\ (stage \in Stages)' /\ (table \in Tables)'
      /\ (runs \in Targets \cup {None})'
  BY <1>5 DEF StartupInv, Stages, Targets
<1>7. QED
  BY <1>1, <1>2, <1>3, <1>4, <1>6 DEF StartupInv

LEMMA InstallAliasesKeeps ==
  ASSUME StartupInv, InstallAliases
  PROVE  StartupInv'
<1>1. /\ stage = "setup" /\ Parsed.at = "top" /\ sections' = Parsed.sections
      /\ cfg' = [cfg EXCEPT !.inited = TRUE]
      /\ table' = InstalledTable
      /\ stage' \in {"exit1", "presort"}
      /\ UNCHANGED <<in, dotgcli, remotes, apibase, runs, answers>>
  BY DEF InstallAliases, EnsureConfig
<1>2. sections = <<>> /\ ~cfg.inited
  BY <1>1 DEF StartupInv, SectionsInv
<1>3. Parsed = Once
  BY <1>2 DEF Parsed, Once
<1>4. Once.at # "broken"
  BY <1>1, <1>3
<1>5. Once \in ParserStates(in.file)
  BY <1>4, InputsAre, ReadOnce DEF StartupInv
<1>6. table' \in Tables
  <2>1. Parsed.sections \in Seq(SectionsOf(in.file))
    BY <1>3, <1>5 DEF ParserStates
  <2>2. FileAssumption
    BY InputsAre DEF StartupInv
  <2>3. QED
    BY <1>1, <2>1, <2>2, InstalledTableTypes
<1>7. Once' = Once /\ Tables' = Tables
  BY <1>1, MeaningStays
<1>8. SectionsInv'
  BY <1>1, <1>3, <1>4, <1>7 DEF SectionsInv
<1>9. ConfigInv'
  <2>1. BlankConfig(cfg) /\ ConfigShape(cfg)
    BY <1>1 DEF StartupInv, ConfigInv
  <2> DEFINE w == cfg'
  <2>2. w = [cfg EXCEPT !.inited = TRUE]
    BY <1>1
  <2> HIDE DEF w
  <2>3. w.inited = TRUE /\ w.type = cfg.type /\ ConfigShape(w)
    BY <2>1, <2>2 DEF ConfigShape
  <2>4. BlankConfig(w)
    <3>1. cfg = [inited |-> FALSE, account |-> None, remote |-> None, type |-> None,
       force |-> FALSE, nocolour |-> FALSE, testedtty |-> FALSE,
       nospinner |-> FALSE, nomarkdown |-> FALSE, experimental |-> FALSE]
      BY <1>2, <2>1 DEF BlankConfig, ConfigShape
    <3>2. QED
      BY <2>2, <2>3, <3>1 DEF BlankConfig
  <2>5. ConfigShape(cfg)' /\ BlankConfig(cfg)'
    BY <2>3, <2>4 DEF w, ConfigShape, BlankConfig
  <2>6. cfg'.type \in Forges \cup {None}
    BY <2>3 DEF w, StartupInv, ConfigInv
  <2>7. QED
    BY <1>1, <2>5, <2>6 DEF ConfigInv
<1>10. AnswersInv'
  BY <1>1, AnswersStay
<1>11. DotgcliKept' /\ RemotesKept'
  BY <1>1, FoundStays
<1>12. (in \in Inputs)' /\ (stage \in Stages)' /\ (table \in Tables)'
       /\ (runs \in Targets \cup {None})'
  BY <1>1, <1>6, <1>7 DEF StartupInv, Stages, Targets
<1>13. QED
  BY <1>8, <1>9, <1>10, <1>11, <1>12 DEF StartupInv

LEMMA ParseArgsKeeps ==
  ASSUME StartupInv, ParseArgs
  PROVE  StartupInv'
<1> DEFINE w == [WithOptions(ReadEnv([cfg EXCEPT !.type = None])) EXCEPT !.inited = FALSE]
<1>1. /\ stage = "args" /\ Accepted /\ cfg' = w
      /\ stage' \in {"exit1", "lookup"}
      /\ UNCHANGED <<in, table, sections, dotgcli, remotes, apibase, runs, answers>>
  BY DEF ParseArgs
<1>2. BlankConfig(cfg) /\ cfg.inited \in BOOLEAN
  BY <1>1 DEF StartupInv, ConfigInv, ConfigShape
<1>3. OptionsAssumption /\ ArgumentsAssumption
  BY InputsAre DEF StartupInv
<1>4. /\ ConfigShape(w) /\ ~w.inited
      /\ ConfigRead(w) /\ SwitchesRead(w) /\ ColoursRead(w) /\ MarkdownRead(w)
  BY <1>1, <1>2, <1>3, ArgumentsRead
<1> HIDE DEF w
<1>5. w.type \in Forges \cup {None}
  BY <1>4 DEF ConfigRead
<1>6. ConfigRead(cfg)' /\ SwitchesRead(cfg)' /\ ColoursRead(cfg)' /\ MarkdownRead(cfg)'
  <2>1. /\ MeantAccount' = MeantAccount /\ MeantRemote' = MeantRemote
        /\ OptionGiven("type")' = OptionGiven("type")
    BY <1>1, MeaningStays
  <2>2. \A opt : Flag(opt)' <=> Flag(opt)
    BY <1>1, MeaningStays
  <2>3. ConfigRead(cfg)'
    BY <1>1, <1>4, <2>1 DEF ConfigRead
  <2>4. SwitchesRead(cfg)'
    BY <1>1, <1>4, <2>2 DEF SwitchesRead
  <2>5. ColoursRead(cfg)'
    BY <1>1, <1>4, <2>2 DEF ColoursRead
  <2>6. MarkdownRead(cfg)'
    BY <1>1, <1>4, <2>2 DEF MarkdownRead
  <2>7. QED
    BY <2>3, <2>4, <2>5, <2>6
<1>7. ConfigInv'
  <2>1. ConfigShape(cfg)' /\ cfg'.type \in Forges \cup {None}
    BY <1>1, <1>4, <1>5 DEF ConfigShape
  <2>2. QED
    BY <1>1, <1>6, <2>1 DEF ConfigInv
<1>8. SectionsInv'
  <2>1. Once' = Once
    BY <1>1, MeaningStays
  <2>2. sections = Once.sections /\ Once.at # "broken"
    BY <1>1 DEF StartupInv, SectionsInv
  <2>3. ~cfg'.inited
    BY <1>1, <1>4
  <2>4. QED
    BY <1>1, <2>1, <2>2, <2>3 DEF SectionsInv
<1>9. AnswersInv'
  BY <1>1, AnswersStay
<1>10. DotgcliKept' /\ RemotesKept'
  BY <1>1, FoundStays
<1>11. Tables' = Tables
  BY <1>1, MeaningStays
<1>12. (in \in Inputs)' /\ (stage \in Stages)' /\ (table \in Tables)'
       /\ (runs \in Targets \cup {None})'
  BY <1>1, <1>11 DEF StartupInv, Stages, Targets
<1>13. QED
  BY <1>7, <1>8, <1>9, <1>10, <1>12 DEF StartupInv

LEMMA BrokenConfigKeeps ==
  ASSUME StartupInv, BrokenConfig
  PROVE  StartupInv'
<1>1. stage' = "exit1" /\ UNCHANGED <<in, table, cfg, sections, dotgcli, remotes, apibase,
                                      runs, answers>>
  BY DEF BrokenConfig
<1>2. QED
  BY <1>1, PlainStep DEF StartupInv, Stages

LEMMA PresortKeeps ==
  ASSUME StartupInv, Presort
  PROVE  StartupInv'
<1>1. /\ stage = "presort" /\ stage' = "args" /\ table' = Sorted(table)
      /\ UNCHANGED <<in, cfg, sections, dotgcli, remotes, apibase, runs, answers>>
  BY DEF Presort
<1>2. table' \in Tables
  BY <1>1, SortIsSorted, SortedTypes DEF StartupInv
<1>3. QED
  BY <1>1, <1>2, PlainStep DEF StartupInv, Stages

LEMMA RejectArgsKeeps ==
  ASSUME StartupInv, RejectArgs
  PROVE  StartupInv'
<1>1. /\ stage' \in {"exit0", "exit1"}
      /\ UNCHANGED <<in, table, cfg, sections, dotgcli, remotes, apibase, runs, answers>>
  BY DEF RejectArgs
<1>2. QED
  BY <1>1, PlainStep DEF StartupInv, Stages

LEMMA LookupKeeps ==
  ASSUME StartupInv, Lookup
  PROVE  StartupInv'
<1>1. /\ stage = "lookup" /\ stage' \in {"exit1", "spinner"}
      /\ runs' = FindSubcommand(table, in.word)
      /\ UNCHANGED <<in, table, cfg, sections, dotgcli, remotes, apibase, answers>>
  BY DEF Lookup
<1>2. runs' \in Targets \cup {None}
  BY <1>1, FoundTypes DEF StartupInv
<1>3. QED
  BY <1>1, <1>2, PlainStep DEF StartupInv, Stages

LEMMA ReturnKeeps ==
  ASSUME StartupInv, Return
  PROVE  StartupInv'
<1>1. /\ stage = "run" /\ stage' = "returned"
      /\ UNCHANGED <<in, table, cfg, sections, dotgcli, remotes, apibase, runs, answers>>
  BY DEF Return
<1>2. QED
  BY <1>1, PlainStep DEF StartupInv, Stages

LEMMA AskInVainKeeps ==
  ASSUME StartupInv, NEW q \in Questions, AskInVain(q)
  PROVE  StartupInv'
<1>1. /\ stage' = "exit1"
      /\ UNCHANGED <<in, table, cfg, sections, dotgcli, remotes, apibase, runs, answers>>
  BY DEF AskInVain
<1>2. QED
  BY <1>1, PlainStep DEF StartupInv, Stages

LEMMA CallCommandKeeps ==
  ASSUME StartupInv, CallCommand
  PROVE  StartupInv'
<1>1. /\ stage = "spinner" /\ stage' = "run"
      /\ Parsed.at = "top" /\ sections' = Parsed.sections
      /\ cfg' = [cfg EXCEPT !.inited = TRUE]
      /\ UNCHANGED <<in, table, dotgcli, remotes, apibase, runs, answers>>
  BY DEF CallCommand, EnsureConfig
<1>2. sections = Once.sections /\ Once.at # "broken" /\ ~cfg.inited
  BY <1>1 DEF StartupInv, SectionsInv
<1>3. Parsed = Twice
  BY <1>2 DEF Parsed, Twice
<1>4. SettingsRead'
  <2>1. FileAssumption /\ Twice.at # "broken"
    BY <1>1, <1>3, InputsAre DEF StartupInv
  <2>2. ASSUME NEW title, NEW key PROVE Config(title, key)' = Setting(title, key)'
    <3>1. FindByKey(Twice.sections, title, key) = Setting(title, key)
      BY <1>2, <2>1, ReadTwice
    <3>2. Config(title, key)' = FindByKey(Twice.sections, title, key)
      BY <1>1, <1>3 DEF Config
    <3>3. Setting(title, key)' = Setting(title, key)
      BY <1>1, MeaningStays
    <3>4. QED
      BY <3>1, <3>2, <3>3
  <2>3. QED
    BY <2>2 DEF SettingsRead
<1>5. SectionsInv'
  BY <1>1, <1>4 DEF SectionsInv
<1>6. /\ ConfigShape(cfg) /\ cfg.type \in Forges \cup {None}
      /\ ConfigRead(cfg) /\ SwitchesRead(cfg)
      /\ "colours" \notin Answered => ColoursRead(cfg)
      /\ "markdown" \notin Answered => MarkdownRead(cfg)
  BY <1>1 DEF StartupInv, ConfigInv
<1>7. ConfigInv'
  <2>1. /\ ConfigShape(cfg)'
        /\ cfg'.account = cfg.account /\ cfg'.remote = cfg.remote /\ cfg'.type = cfg.type
        /\ cfg'.force = cfg.force /\ cfg'.nocolour = cfg.nocolour
        /\ cfg'.testedtty = cfg.testedtty /\ cfg'.nospinner = cfg.nospinner
        /\ cfg'.nomarkdown = cfg.nomarkdown /\ cfg'.experimental = cfg.experimental
    BY <1>1, <1>6 DEF ConfigShape
  <2>2. /\ ConfigRead(cfg)' /\ SwitchesRead(cfg)'
        /\ ColoursRead(cfg) => ColoursRead(cfg)'
        /\ MarkdownRead(cfg) => MarkdownRead(cfg)'
    BY <1>1, <1>6, <2>1, ConfigReadStays, SwitchesReadStays, ColoursReadStays,
       MarkdownReadStays
  <2>3. Answered' = Answered
    BY <1>1 DEF Answered
  <2>4. QED
    BY <1>1, <1>6, <2>1, <2>2, <2>3 DEF ConfigInv
<1>8. AnswersInv'
  BY <1>1, AnswersStay
<1>9. DotgcliKept' /\ RemotesKept'
  BY <1>1, FoundStays
<1>10. Tables' = Tables
  BY <1>1, MeaningStays
<1>11. (in \in Inputs)' /\ (stage \in Stages)' /\ (table \in Tables)'
       /\ (runs \in Targets \cup {None})'
  BY <1>1, <1>10 DEF StartupInv, Stages, Targets
<1>12. QED
  BY <1>5, <1>7, <1>8, <1>9, <1>11 DEF StartupInv

-----------------------------------------------------------------------------
(* The questions.                                                           *)

LEMMA OneMore ==
  ASSUME NEW q, NEW v, q \notin Answered
  PROVE  /\ DOMAIN Noted(q, v) = Answered \cup {q}
         /\ Noted(q, v)[q] = v
BY DEF Noted, Answered

\* One more answer, and it is the one that is meant unless gcli differs.
LEMMA AnswersGrow ==
  ASSUME StartupInv, in' = in, NEW q \in Questions \cup {"colours", "markdown"},
         NEW v, q \notin Answered, answers' = Noted(q, v),
         DiffersFromManual(q) \/ v = Meant(q),
         q = "forge" => v \in Forges,
         apibase' # None => apibase # None \/ q = "apibase"
  PROVE  AnswersInv' /\ Answered' = Answered \cup {q}
<1>1. /\ Answered' = Answered \cup {q} /\ answers'[q] = v
      /\ \A x \in Answered : answers'[x] = answers[x]
  <2>1. Answered' = DOMAIN answers'
    BY DEF Answered
  <2>2. DOMAIN Noted(q, v) = Answered \cup {q}
    BY OneMore
  <2>3. Noted(q, v)[q] = v
    BY OneMore
  <2>4. ASSUME NEW x \in Answered
        PROVE  Noted(q, v)[x] = answers[x]
    BY DEF Noted, Answered
  <2>5. QED
    BY <2>1, <2>2, <2>3, <2>4
<1>2. /\ Answered \subseteq Questions \cup {"colours", "markdown"}
      /\ apibase # None => "apibase" \in Answered
      /\ \A x \in Answered : DiffersFromManual(x) \/ answers[x] = Meant(x)
      /\ "forge" \in Answered => answers["forge"] \in Forges
  BY DEF StartupInv, AnswersInv, AnswersFollowPrecedence
<1>3. \A x : /\ Meant(x)' = Meant(x)
             /\ DiffersFromManual(x)' <=> DiffersFromManual(x)
  BY MeaningStays
<1>4. AnswersFollowPrecedence'
  <2>1. \A x \in Answered' : DiffersFromManual(x) \/ answers'[x] = Meant(x)
    BY <1>1, <1>2
  <2>2. \A x \in Answered' : DiffersFromManual(x)' \/ answers'[x] = Meant(x)'
    BY <1>3, <2>1
  <2>3. QED
    BY <2>2 DEF AnswersFollowPrecedence
<1>5. (Answered \subseteq Questions \cup {"colours", "markdown"})'
  BY <1>1, <1>2 DEF Questions, OfForge, OfRepo
<1>6. (apibase # None => "apibase" \in Answered)'
  BY <1>1, <1>2
<1>7. ("forge" \in Answered => answers["forge"] \in Forges)'
  BY <1>1, <1>2 DEF Forges
<1>8. QED
  BY <1>1, <1>4, <1>5, <1>6, <1>7 DEF AnswersInv

LEMMA AtRun ==
  ASSUME StartupInv, stage = "run"
  PROVE  Known /\ SwitchesRead(cfg)
<1>1. ConfigRead(cfg) /\ SwitchesRead(cfg)
  BY DEF StartupInv, ConfigInv
<1>2. SettingsRead
  BY DEF StartupInv, SectionsInv
<1>3. DotgcliAssumption /\ GitAssumption
  BY InputsAre DEF StartupInv
<1>4. DotgcliKept /\ RemotesKept
  BY DEF StartupInv
<1>5. QED
  BY <1>1, <1>2, <1>3, <1>4 DEF Known

LEMMA AskKeeps ==
  ASSUME StartupInv, NEW q \in Questions, Ask(q)
  PROVE  StartupInv'
<1>1. /\ stage = "run" /\ q \notin Answered /\ ~Exits(q)
      /\ answers' = Noted(q, Answer(q))
      /\ UNCHANGED <<in, stage, table, cfg, sections, runs>>
  BY DEF Ask, CanAsk, Answered
<1>2. /\ dotgcli' = dotgcli \/ dotgcli' = Dotgcli
      /\ remotes' = remotes \/ remotes' = Remotes
  BY DEF Ask
<1>3. apibase' # None => apibase # None \/ q = "apibase"
  BY DEF Ask
<1>4. Known /\ SwitchesRead(cfg)
  BY <1>1, AtRun
<1>5. q = "apibase" => apibase = None
  BY <1>1 DEF StartupInv, AnswersInv
<1>6. DiffersFromManual(q) \/ Answer(q) = Meant(q)
  BY <1>1, <1>4, <1>5, AnswerIsMeant
<1>7. q = "forge" => Answer(q) \in Forges
  <2> SUFFICES ASSUME q = "forge" PROVE Answer(q) \in Forges
    OBVIOUS
  <2>1. AsksForge(q) /\ Answer(q) = ForgeType
    BY DEF AsksForge, OfForge, Answer
  <2>2. ForgeType # None /\ (InfersForge => Remotes # None)
    BY <1>1, <2>1 DEF Exits, ReadsRemotes
  <2>3. QED
    BY <1>4, <2>1, <2>2, ForgeAnswer
<1>8. AnswersInv' /\ Answered' = Answered \cup {q}
  <2> DEFINE v == Answer(q)
  <2>1. /\ answers' = Noted(q, v) /\ (q = "forge" => v \in Forges)
        /\ DiffersFromManual(q) \/ v = Meant(q)
    BY <1>1, <1>6, <1>7
  <2> HIDE DEF v
  <2>2. QED
    BY <1>1, <1>3, <2>1, AnswersGrow
<1>9. DotgcliKept' /\ RemotesKept'
  BY <1>1, <1>2, FoundStays
<1>10. SectionsInv'
  BY <1>1, SectionsStay
<1>11. ConfigInv'
  <2>1. /\ ConfigShape(cfg) /\ cfg.type \in Forges \cup {None}
        /\ ConfigRead(cfg) /\ SwitchesRead(cfg)
        /\ "colours" \notin Answered => ColoursRead(cfg)
        /\ "markdown" \notin Answered => MarkdownRead(cfg)
    BY <1>1 DEF StartupInv, ConfigInv
  <2>2. ConfigShape(cfg)' /\ ConfigRead(cfg)' /\ SwitchesRead(cfg)'
        /\ (ColoursRead(cfg) => ColoursRead(cfg)')
        /\ (MarkdownRead(cfg) => MarkdownRead(cfg)')
    BY <1>1, <2>1, ConfigReadStays, SwitchesReadStays, ColoursReadStays,
       MarkdownReadStays DEF ConfigShape
  <2>3. /\ "colours" \notin Answered' => "colours" \notin Answered
        /\ "markdown" \notin Answered' => "markdown" \notin Answered
    BY <1>8
  <2>4. QED
    BY <1>1, <2>1, <2>2, <2>3 DEF ConfigInv
<1>12. Tables' = Tables
  BY <1>1, MeaningStays
<1>13. (in \in Inputs)' /\ (stage \in Stages)' /\ (table \in Tables)'
       /\ (runs \in Targets \cup {None})'
  BY <1>1, <1>12 DEF StartupInv, Stages, Targets
<1>14. QED
  BY <1>8, <1>9, <1>10, <1>11, <1>13 DEF StartupInv

LEMMA AskColoursKeeps ==
  ASSUME StartupInv, AskColours
  PROVE  StartupInv'
<1> DEFINE off == cfg.nocolour \/ (~cfg.testedtty /\ ~in.tty)
           looks == ~cfg.force /\ ~cfg.nocolour
           v == cfg.force \/ ~off
<1>1. /\ stage = "run" /\ "colours" \notin Answered
      /\ cfg' = IF looks THEN [cfg EXCEPT !.nocolour = off, !.testedtty = TRUE] ELSE cfg
      /\ answers' = Noted("colours", v)
      /\ UNCHANGED <<in, stage, table, sections, dotgcli, remotes, apibase, runs>>
  BY DEF AskColours, CanAsk, Answered
<1>2. /\ ConfigShape(cfg) /\ cfg.type \in Forges \cup {None}
      /\ ConfigRead(cfg) /\ SwitchesRead(cfg) /\ ColoursRead(cfg)
      /\ "markdown" \notin Answered => MarkdownRead(cfg)
  BY <1>1 DEF StartupInv, ConfigInv
<1>3. DiffersFromManual("colours") \/ v = Meant("colours")
  BY <1>2, ColoursAnswer
<1>4. off \in BOOLEAN
  OBVIOUS
<1> HIDE DEF off, looks, v
<1>5. AnswersInv' /\ Answered' = Answered \cup {"colours"}
  BY <1>1, <1>3, AnswersGrow
<1>6. /\ ConfigShape(cfg)'
      /\ cfg'.account = cfg.account /\ cfg'.remote = cfg.remote /\ cfg'.type = cfg.type
      /\ cfg'.force = cfg.force /\ cfg'.nospinner = cfg.nospinner
      /\ cfg'.nomarkdown = cfg.nomarkdown /\ cfg'.experimental = cfg.experimental
      /\ cfg'.inited = cfg.inited
  <2> DEFINE w == [cfg EXCEPT !.nocolour = off, !.testedtty = TRUE]
  <2>1. /\ ConfigShape(w) /\ w.account = cfg.account /\ w.remote = cfg.remote
        /\ w.type = cfg.type /\ w.force = cfg.force /\ w.nospinner = cfg.nospinner
        /\ w.nomarkdown = cfg.nomarkdown /\ w.experimental = cfg.experimental
        /\ w.inited = cfg.inited
    BY <1>2, <1>4 DEF ConfigShape
  <2> HIDE DEF w
  <2>2. cfg' = w \/ cfg' = cfg
    BY <1>1 DEF w
  <2>3. CASE cfg' = w
    BY <2>1, <2>3 DEF ConfigShape
  <2>4. CASE cfg' = cfg
    BY <1>2, <2>4 DEF ConfigShape
  <2>5. QED
    BY <2>2, <2>3, <2>4
<1>7. ConfigInv'
  <2>1. ConfigRead(cfg)' /\ SwitchesRead(cfg)'
        /\ (MarkdownRead(cfg) => MarkdownRead(cfg)')
    BY <1>1, <1>2, <1>6, ConfigReadStays, SwitchesReadStays, MarkdownReadStays
  <2>2. /\ "colours" \in Answered'
        /\ "markdown" \notin Answered' => "markdown" \notin Answered
    BY <1>5
  <2>3. QED
    BY <1>1, <1>2, <1>6, <2>1, <2>2 DEF ConfigInv
<1>8. SectionsInv'
  BY <1>1, <1>6, SectionsStay
<1>9. DotgcliKept' /\ RemotesKept'
  BY <1>1, FoundStays
<1>10. Tables' = Tables
  BY <1>1, MeaningStays
<1>11. (in \in Inputs)' /\ (stage \in Stages)' /\ (table \in Tables)'
       /\ (runs \in Targets \cup {None})'
  BY <1>1, <1>10 DEF StartupInv, Stages, Targets
<1>12. QED
  BY <1>5, <1>7, <1>8, <1>9, <1>11 DEF StartupInv

LEMMA AskMarkdownKeeps ==
  ASSUME StartupInv, AskMarkdown
  PROVE  StartupInv'
<1> DEFINE entry == Config("defaults", "render-markdown")
           off == cfg.nomarkdown \/ (entry # None /\ ~MeansTrue(entry))
           v == ~off
<1>1. /\ stage = "run" /\ "markdown" \notin Answered
      /\ cfg' = [cfg EXCEPT !.nomarkdown = off]
      /\ answers' = Noted("markdown", v)
      /\ UNCHANGED <<in, stage, table, sections, dotgcli, remotes, apibase, runs>>
  BY DEF AskMarkdown, CanAsk, Answered
<1>2. /\ ConfigShape(cfg) /\ cfg.type \in Forges \cup {None}
      /\ ConfigRead(cfg) /\ SwitchesRead(cfg) /\ MarkdownRead(cfg)
      /\ "colours" \notin Answered => ColoursRead(cfg)
  BY <1>1 DEF StartupInv, ConfigInv
<1>3. v = Meant("markdown")
  <2>1. SettingsRead
    BY <1>1 DEF StartupInv, SectionsInv
  <2>2. QED
    BY <1>2, <2>1, MarkdownAnswer
<1>4. off \in BOOLEAN
  OBVIOUS
<1> HIDE DEF off, v
<1>5. AnswersInv' /\ Answered' = Answered \cup {"markdown"}
  BY <1>1, <1>3, AnswersGrow
<1>6. /\ ConfigShape(cfg)'
      /\ cfg'.account = cfg.account /\ cfg'.remote = cfg.remote /\ cfg'.type = cfg.type
      /\ cfg'.force = cfg.force /\ cfg'.nospinner = cfg.nospinner
      /\ cfg'.nocolour = cfg.nocolour /\ cfg'.testedtty = cfg.testedtty
      /\ cfg'.experimental = cfg.experimental /\ cfg'.inited = cfg.inited
  BY <1>1, <1>2, <1>4 DEF ConfigShape
<1>7. ConfigInv'
  <2>1. ConfigRead(cfg)' /\ SwitchesRead(cfg)'
        /\ (ColoursRead(cfg) => ColoursRead(cfg)')
    BY <1>1, <1>2, <1>6, ConfigReadStays, SwitchesReadStays, ColoursReadStays
  <2>2. /\ "markdown" \in Answered'
        /\ "colours" \notin Answered' => "colours" \notin Answered
    BY <1>5
  <2>3. QED
    BY <1>1, <1>2, <1>6, <2>1, <2>2 DEF ConfigInv
<1>8. SectionsInv'
  BY <1>1, <1>6, SectionsStay
<1>9. DotgcliKept' /\ RemotesKept'
  BY <1>1, FoundStays
<1>10. Tables' = Tables
  BY <1>1, MeaningStays
<1>11. (in \in Inputs)' /\ (stage \in Stages)' /\ (table \in Tables)'
       /\ (runs \in Targets \cup {None})'
  BY <1>1, <1>10 DEF StartupInv, Stages, Targets
<1>12. QED
  BY <1>5, <1>7, <1>8, <1>9, <1>11 DEF StartupInv

-----------------------------------------------------------------------------
(* The theorems.                                                            *)

LEMMA StartupBegins ==
  ASSUME InitMain
  PROVE  StartupInv
<1>1. /\ in \in Inputs /\ stage = "setup" /\ table = <<>> /\ sections = <<>>
      /\ dotgcli = None /\ remotes = None /\ apibase = None /\ runs = None
      /\ answers = <<>>
      /\ cfg = [inited |-> FALSE, account |-> None, remote |-> None,
                type |-> None, force |-> FALSE, nocolour |-> FALSE,
                testedtty |-> FALSE, nospinner |-> FALSE, nomarkdown |-> FALSE,
                experimental |-> FALSE]
  BY DEF InitMain
<1>2. Answered = {}
  BY <1>1 DEF Answered
<1>3. SectionsInv
  <2>1. ~cfg.inited
    BY <1>1
  <2>2. QED
    BY <1>1, <2>1 DEF SectionsInv
<1>4. ConfigInv
  <2>1. BlankConfig(cfg) /\ ConfigShape(cfg) /\ cfg.type \in Forges \cup {None}
    BY <1>1 DEF BlankConfig, ConfigShape
  <2>2. QED
    BY <1>1, <2>1 DEF ConfigInv
<1>5. AnswersInv
  BY <1>1, <1>2 DEF AnswersInv, AnswersFollowPrecedence
<1>6. table \in Tables /\ stage \in Stages
  BY <1>1, EmptySeq DEF Tables, Stages
<1>7. QED
  BY <1>1, <1>3, <1>4, <1>5, <1>6 DEF StartupInv, DotgcliKept, RemotesKept

LEMMA StartupStutters ==
  ASSUME StartupInv, UNCHANGED main_vars
  PROVE  StartupInv'
<1>1. UNCHANGED <<in, stage, table, cfg, sections, dotgcli, remotes, apibase, runs, answers>>
  BY DEF main_vars
<1>2. AnswersInv'
  BY <1>1, AnswersStay
<1>3. ConfigInv'
  BY <1>1, ConfigStays
<1>4. SectionsInv'
  BY <1>1, SectionsStay
<1>5. DotgcliKept' /\ RemotesKept'
  BY <1>1, FoundStays
<1>6. Tables' = Tables
  BY <1>1, MeaningStays
<1>7. (in \in Inputs)' /\ (stage \in Stages)' /\ (table \in Tables)'
      /\ (runs \in Targets \cup {None})'
  BY <1>1, <1>6 DEF StartupInv, Stages, Targets
<1>8. QED
  BY <1>2, <1>3, <1>4, <1>5, <1>7 DEF StartupInv

LEMMA StartupKeeps ==
  ASSUME StartupInv, [NextMain]_main_vars
  PROVE  StartupInv'
<1>1. CASE InstallAliases
  BY <1>1, InstallAliasesKeeps
<1>2. CASE BrokenConfig
  BY <1>2, BrokenConfigKeeps
<1>3. CASE Presort
  BY <1>3, PresortKeeps
<1>4. CASE ParseArgs
  BY <1>4, ParseArgsKeeps
<1>5. CASE RejectArgs
  BY <1>5, RejectArgsKeeps
<1>6. CASE Lookup
  BY <1>6, LookupKeeps
<1>7. CASE CallCommand
  BY <1>7, CallCommandKeeps
<1>8. ASSUME NEW q \in Questions, Ask(q) \/ AskInVain(q) PROVE StartupInv'
  BY <1>8, AskKeeps, AskInVainKeeps
<1>9. CASE AskColours
  BY <1>9, AskColoursKeeps
<1>10. CASE AskMarkdown
  BY <1>10, AskMarkdownKeeps
<1>11. CASE Return
  BY <1>11, ReturnKeeps
<1>12. CASE UNCHANGED main_vars
  BY <1>12, StartupStutters
<1>13. QED
  BY <1>1, <1>2, <1>3, <1>4, <1>5, <1>6, <1>7, <1>8, <1>9, <1>10, <1>11, <1>12
     DEF NextMain

LEMMA StartupInvariant == SpecMain => []StartupInv
<1>1. InitMain => StartupInv
  BY StartupBegins
<1>2. StartupInv /\ [NextMain]_main_vars => StartupInv'
  BY StartupKeeps
<1>3. QED
  BY <1>1, <1>2, PTL DEF SpecMain

\* gcli(1): the table holds sub-commands that exist, the type of the forge is
\* one of the four or not given, and a forge that was asked for is one of the
\* four (main, gcli_config_parse_args, gcli_config_get_forge_type).
THEOREM StartupTypes == SpecMain => []MainTypeOK
<1>1. StartupInv => MainTypeOK
  <2> SUFFICES ASSUME StartupInv PROVE MainTypeOK
    OBVIOUS
  <2>1. \A i \in 1..Len(table) : table[i].runs \in ToSet(Commands)
    <3>1. \A i \in 1..Len(table) : table[i] \in Entries
      BY ElementOfSeq DEF StartupInv, Tables
    <3>2. QED
      BY <3>1 DEF Entries, Targets
  <2>2. QED
    BY <2>1 DEF StartupInv, ConfigInv, AnswersInv, MainTypeOK, Stages, Targets
<1>2. QED
  BY <1>1, StartupInvariant, PTL

\* gcli(1) and gcli(5): whatever the sub-command asks, and in whatever order,
\* the answer is the first that the documented places give - although the
\* config file is parsed twice into the same list, the remotes and .gcli are
\* remembered or looked up again, and the API base is kept; the spinner and
\* the colours excepted where DiffersFromManual names what gcli does instead.
THEOREM FollowPrecedence == SpecMain => []AnswersFollowPrecedence
<1>1. StartupInv => AnswersFollowPrecedence
  BY DEF StartupInv, AnswersInv
<1>2. QED
  BY <1>1, StartupInvariant, PTL

\* gcli_config_get_repo: with -r, a repository that is handed out is that of
\* a remote on the forge that is asked.
THEOREM OnItsForge == SpecMain => []RepositoryOnItsForge
<1>1. StartupInv => RepositoryOnItsForge
  <2> SUFFICES ASSUME StartupInv, MeantRemote # None, "repo" \in Answered,
                      answers["repo"] # Error
               PROVE  FirstRemote(MeantRemote, "forge") \in {None, MeantForge}
    BY DEF RepositoryOnItsForge
  <2>1. answers["repo"] = OrError(MeantRepo)
    <3>1. answers["repo"] = Meant("repo")
      BY DEF StartupInv, AnswersInv, AnswersFollowPrecedence, DiffersFromManual
    <3>2. QED
      BY <3>1 DEF Meant
  <2>2. MeantRepo # None
    BY <2>1 DEF OrError
  <2>3. QED
    BY <2>2 DEF MeantRepo
<1>2. QED
  BY <1>1, StartupInvariant, PTL

=============================================================================
