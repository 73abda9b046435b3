--------------------------- MODULE RequestsProofs ---------------------------
(* Proofs about Requests for any plans of the shape PlansAssumption gives.  *)
EXTENDS Requests, Induction, SequenceTheorems, TLAPS

-----------------------------------------------------------------------------
(* The inductive invariant. *)

\* A confirmed command that is still under way and behind a question has had
\* a yes.
AskedIsAgreed ==
  outcome = "none" /\ rc = 0 /\ cmd \in Asking =>
    \A i \in 1..pc - 1 : Plan[cmd][i].do = "ask" => agreed

IInv == TypeOK /\ AskedIsAgreed

\* A run that is under way has made the changes of the steps behind it, or it
\* has left out one that was not required, and none is to come.
OnCourse ==
  outcome = "none" /\ rc = 0 =>
    /\ pc \in Reached(cmd)
    /\ \/ Len(done) = Before(cmd)[pc]
       \/ /\ \A j \in pc..Len(Plan[cmd]) : Plan[cmd][j].what = <<>>
          /\ cmd \notin Careless \cup Misread => Len(done) >= Required[cmd]

\* A simple command whose answers all arrived has changed nothing if it has
\* failed, and is behind its change if it has changed something.
NothingChanged ==
  ~lost /\ cmd \notin Compound =>
    /\ rc = -1 \/ outcome = "failure" => done = <<>>
    /\ outcome = "none" /\ rc = 0 /\ done # <<>> =>
         \E j \in 1..pc - 1 : Plan[cmd][j].what # <<>>

CourseInv == InOrder /\ OnCourse /\ SuccessIsComplete

-----------------------------------------------------------------------------
\* What the constants say of the step a run is at.
LEMMA StepShape ==
  ASSUME TypeOK, NEW kind \in Kinds, At(kind)
  PROVE  /\ Plan[cmd] \in Seq(Steps)
         /\ Step \in Steps
         /\ pc \in 1..Len(Plan[cmd])
         /\ Len(Plan[cmd]) \in Nat
         /\ rc = -1 => kind = "free"
<1>1. Plan[cmd] \in Seq(Steps)
  BY CommandsAssumption DEF TypeOK
<1>2. pc \in 1..Len(Plan[cmd]) /\ Len(Plan[cmd]) \in Nat
  BY <1>1 DEF At
<1>3. Step \in Steps
  BY <1>1, <1>2, ElementOfSeq DEF Step
<1>4. rc = -1 => kind = "free"
  BY <1>2 DEF TypeOK, At, Step
<1>5. QED
  BY <1>1, <1>2, <1>3, <1>4

\* The next step keeps the place in the plan, and an error keeps to the
\* message that is freed.
LEMMA ProceedPlace ==
  ASSUME TypeOK, NEW kind \in Kinds, At(kind), Proceed
  PROVE  /\ pc' = pc + 1
         /\ pc' \in 1..Len(Plan[cmd]) + 1
         /\ cmd' = cmd /\ rc' = rc /\ outcome' = outcome
         /\ rc = -1 => \A i \in pc'..Len(Plan[cmd]) : Plan[cmd][i].do = "free"
BY StepShape DEF TypeOK, Proceed

\* Behind the first step that frees the message there are only more of them.
LEMMA ReturnPlace ==
  ASSUME TypeOK, NEW kind \in Kinds, At(kind), Return
  PROVE  /\ pc' \in 1..Len(Plan[cmd]) + 1
         /\ rc' = -1 /\ cmd' = cmd /\ outcome' = outcome
         /\ \A i \in pc'..Len(Plan[cmd]) : Plan[cmd][i].do = "free"
<1>1. /\ pc \in 1..Len(Plan[cmd]) /\ Len(Plan[cmd]) \in Nat
      /\ cmd \in Commands
  BY StepShape DEF TypeOK
<1>2. pc' \in pc + 1..Len(Plan[cmd]) + 1 /\ pc' \in 1..Len(Plan[cmd]) + 1
  BY <1>1 DEF Return
<1>3. ASSUME NEW i \in pc'..Len(Plan[cmd]) PROVE Plan[cmd][i].do = "free"
  <2>1. pc' \in 1..Len(Plan[cmd]) /\ Plan[cmd][pc'].do = "free"
    BY <1>1, <1>2 DEF Return
  <2>2. QED
    BY <1>1, <2>1, PlansAssumption
<1>4. QED
  BY <1>2, <1>3 DEF Return

\* Wherever a step that does not work out leads, the place, the return code
\* and the outcome keep their types.
LEMMA GiveUpTypes ==
  ASSUME TypeOK, NEW kind \in Kinds, At(kind), GiveUp
  PROVE  /\ cmd' = cmd
         /\ pc' \in 1..Len(Plan[cmd]) + 1
         /\ rc' \in {0, -1}
         /\ outcome' \in {"none", "success", "failure", "crash"}
         /\ rc' = -1 => \A i \in pc'..Len(Plan[cmd]) : Plan[cmd][i].do = "free"
<1>1. CASE Proceed
  BY <1>1, ProceedPlace DEF TypeOK
<1>2. CASE Return
  BY <1>2, ReturnPlace DEF TypeOK, At
<1>3. CASE \E how \in {"success", "failure", "crash"} : End(how)
  BY <1>3 DEF TypeOK, End
<1>4. QED
  BY <1>1, <1>2, <1>3 DEF GiveUp

\* A step that does not work out goes on with the next one, or ends the way
\* through the plan.
LEMMA GiveUpLeads ==
  ASSUME TypeOK, NEW kind \in Kinds, At(kind), GiveUp
  PROVE  \/ "ignore" \in Step.else /\ Proceed
         \/ rc' = -1
         \/ outcome' # "none"
BY DEF GiveUp, Return, End

\* What holds of the place after a step that worked out, or did not.
LEMMA Moves ==
  ASSUME TypeOK, NEW kind \in Kinds, At(kind), Proceed \/ GiveUp,
         text' \in BOOLEAN, agreed' \in BOOLEAN, lost' \in BOOLEAN,
         done' \in Seq(Effects)
  PROVE  TypeOK'
<1>1. CASE Proceed
  BY <1>1, ProceedPlace DEF TypeOK
<1>2. CASE GiveUp
  BY <1>2, GiveUpTypes DEF TypeOK
<1>3. QED
  BY <1>1, <1>2

\* A step that is no question leaves what was agreed.
LEMMA NoQuestion ==
  ASSUME IInv, NEW kind \in Kinds \ {"ask"}, At(kind), Proceed \/ GiveUp,
         agreed' = agreed
  PROVE  AskedIsAgreed'
<1>1. SUFFICES ASSUME outcome' = "none", rc' = 0, cmd' \in Asking,
                      NEW i \in 1..pc' - 1, Plan[cmd'][i].do = "ask"
               PROVE  agreed
  BY DEF AskedIsAgreed
<1>2. Proceed
  BY <1>1, GiveUpLeads DEF IInv
<1>3. /\ pc' = pc + 1 /\ cmd' = cmd /\ rc' = rc /\ outcome' = outcome
      /\ pc \in 1..Len(Plan[cmd]) /\ Len(Plan[cmd]) \in Nat
  BY <1>2, ProceedPlace, StepShape DEF IInv
<1>4. i # pc
  BY <1>1, <1>3 DEF At, Step
<1>5. i \in 1..pc - 1
  BY <1>1, <1>3, <1>4
<1>6. QED
  BY <1>1, <1>3, <1>5 DEF IInv, AskedIsAgreed

-----------------------------------------------------------------------------
(* The steps. *)

\* The start.
LEMMA InitInv == Init => IInv
<1> SUFFICES ASSUME Init PROVE IInv
  OBVIOUS
<1>1. Len(Plan[cmd]) \in Nat
  BY CommandsAssumption DEF Init
<1>2. TypeOK
  <2>1. cmd \in Commands /\ text \in BOOLEAN /\ agreed \in BOOLEAN /\ lost \in BOOLEAN
    BY DEF Init
  <2>2. pc \in 1..Len(Plan[cmd]) + 1 /\ rc = 0
    BY <1>1 DEF Init
  <2>3. done \in Seq(Effects) /\ outcome = "none"
    BY DEF Init
  <2>4. QED
    BY <2>1, <2>2, <2>3 DEF TypeOK
<1>3. AskedIsAgreed
  BY DEF Init, AskedIsAgreed
<1>4. QED
  BY <1>2, <1>3 DEF IInv

\* A question is passed with a yes only.
LEMMA AskInv == ASSUME IInv, Ask PROVE IInv'
<1>1. At("ask") /\ "ask" \in Kinds
  BY DEF Ask, Kinds
<1>2. TypeOK'
  BY <1>1, Moves DEF IInv, Ask, TypeOK
<1>3. AskedIsAgreed'
  <2>1. SUFFICES ASSUME outcome' = "none", rc' = 0, cmd' \in Asking, ~agreed'
                 PROVE  FALSE
    BY DEF AskedIsAgreed
  <2>2. GiveUp
    BY <2>1 DEF Ask
  <2>3. "ignore" \in Step.else /\ Proceed
    BY <1>1, <2>1, <2>2, GiveUpLeads DEF IInv
  <2>4. /\ cmd \in Asking /\ cmd \in Commands
        /\ pc \in 1..Len(Plan[cmd])
    BY <1>1, <2>1, <2>3, StepShape DEF Proceed, IInv, TypeOK
  <2>5. QED
    BY <1>1, <2>3, <2>4, PlansAssumption DEF At, Step
<1>4. QED
  BY <1>2, <1>3 DEF IInv

\* The steps that change nothing on the forge and ask nothing.
LEMMA QuietInv ==
  ASSUME IInv, Edit \/ Prompt \/ Look \/ Refuse \/ FreeAgain
  PROVE  IInv'
<1>1. PICK kind \in Kinds \ {"ask"} : At(kind)
  BY DEF Edit, Prompt, Look, Refuse, FreeAgain, Kinds
<1>2. /\ Proceed \/ GiveUp
      /\ text' \in BOOLEAN
      /\ UNCHANGED <<agreed, lost, done>>
  BY DEF Edit, Prompt, Look, Refuse, FreeAgain, IInv, TypeOK
<1>3. TypeOK'
  BY <1>1, <1>2, Moves DEF IInv, TypeOK
<1>4. AskedIsAgreed'
  BY <1>1, <1>2, NoQuestion
<1>5. QED
  BY <1>3, <1>4 DEF IInv

\* The steps that change something.
LEMMA ChangeInv == ASSUME IInv, Write \/ Local PROVE IInv'
<1>1. PICK kind \in {"write", "local"} : At(kind)
  BY DEF Write, Local
<1>2. kind \in Kinds \ {"ask"}
  BY <1>1 DEF Kinds
<1>3. /\ Proceed \/ GiveUp
      /\ text' = text /\ agreed' = agreed /\ lost' \in BOOLEAN
      /\ Carried \/ done' = done
  BY DEF Write, Local, IInv, TypeOK
<1>4. Step.what \in Seq(Effects)
  BY <1>1, <1>2, StepShape DEF IInv, Steps
<1>5. done' \in Seq(Effects)
  BY <1>3, <1>4, ConcatProperties DEF Carried, IInv, TypeOK
<1>6. TypeOK'
  BY <1>1, <1>2, <1>3, <1>5, Moves DEF IInv, TypeOK
<1>7. AskedIsAgreed'
  BY <1>1, <1>2, <1>3, NoQuestion
<1>8. QED
  BY <1>6, <1>7 DEF IInv

\* The end of a run.
LEMMA FinishInv == ASSUME IInv, Finish PROVE IInv'
BY DEF Finish, End, IInv, TypeOK, AskedIsAgreed

\* Every step keeps the invariant.
LEMMA NextInv == IInv /\ [Next]_vars => IInv'
<1> SUFFICES ASSUME IInv, [Next]_vars PROVE IInv'
  OBVIOUS
<1>1. CASE Ask
  BY <1>1, AskInv
<1>2. CASE Edit \/ Prompt \/ Look \/ Refuse \/ FreeAgain
  BY <1>2, QuietInv
<1>3. CASE Write \/ Local
  BY <1>3, ChangeInv
<1>4. CASE Finish
  BY <1>4, FinishInv
<1>5. CASE UNCHANGED vars
  BY <1>5 DEF vars, IInv, TypeOK, AskedIsAgreed
<1>6. QED
  BY <1>1, <1>2, <1>3, <1>4, <1>5 DEF Next

-----------------------------------------------------------------------------
\* A run has a place in its plan or an outcome, and an error the library
\* returns leads to the end of the plan: for any plans of any commands.
THEOREM TypeCorrect == Spec => []TypeOK
<1>1. IInv => TypeOK
  BY DEF IInv
<1>2. QED
  BY <1>1, InitInv, NextInv, PTL DEF Spec

\* A step that changes something stands behind a question.
LEMMA ChangeIsAgreed ==
  ASSUME IInv, [Next]_vars, done' # done, cmd \in Asking
  PROVE  agreed
<1>1. (Write \/ Local) /\ Carried
  BY DEF Next, vars, Edit, Prompt, Ask, Look, Refuse, Write, Local, FreeAgain,
         Finish
<1>2. PICK kind \in {"write", "local"} : At(kind)
  BY <1>1 DEF Write, Local
<1>3. /\ kind \in Kinds
      /\ Step \in Steps /\ pc \in 1..Len(Plan[cmd]) /\ Len(Plan[cmd]) \in Nat
      /\ rc = 0 /\ outcome = "none" /\ cmd \in Commands
  BY <1>2, StepShape DEF Kinds, IInv, TypeOK, At
<1>4. Step.what # <<>>
  <2>1. SUFFICES ASSUME Step.what = <<>> PROVE FALSE
    OBVIOUS
  <2>2. done \o <<>> = done
    BY ConcatEmptySeq DEF IInv, TypeOK
  <2>3. QED
    BY <1>1, <2>1, <2>2 DEF Carried
<1>5. PICK j \in 1..pc - 1 : Plan[cmd][j].do = "ask"
  BY <1>3, <1>4, PlansAssumption DEF Step
<1>6. QED
  BY <1>3, <1>5 DEF IInv, AskedIsAgreed

\* Nothing is submitted or deleted before the user has agreed to it, whatever
\* the commands, the editor and the answers of the forge: for any plans that
\* put a question a no ends before each change.
THEOREM AskedFirst == Spec => AsksFirst
<1>1. IInv /\ [Next]_vars => [done' # done /\ cmd \in Asking => agreed]_vars
  BY ChangeIsAgreed
<1>2. QED
  BY <1>1, InitInv, NextInv, PTL DEF Spec, AsksFirst


-----------------------------------------------------------------------------
(* What was changed, compared with the plan and the promise. *)

\* The changes before a step are those before the last one and its own.
LEMMA BeforeShape ==
  ASSUME NEW c \in Commands
  PROVE  /\ Len(Plan[c]) \in Nat
         /\ Before(c) \in [1..Len(Plan[c]) + 1 -> Nat]
         /\ Before(c)[1] = 0
         /\ \A i \in 1..Len(Plan[c]) :
              /\ Len(Plan[c][i].what) \in Nat
              /\ Before(c)[i + 1] = Before(c)[i] + Len(Plan[c][i].what)
<1> DEFINE size == Len(Plan[c])
           change == [i \in 1..size |-> Len(Plan[c][i].what)]
<1>1. size \in Nat /\ \A i \in 1..size : change[i] \in Nat
  <2>1. Plan[c] \in Seq(Steps)
    BY CommandsAssumption
  <2>2. ASSUME NEW i \in 1..size PROVE Len(Plan[c][i].what) \in Nat
    <3>1. Plan[c][i] \in Steps
      BY <2>1, ElementOfSeq
    <3>2. Plan[c][i].what \in Seq(Effects)
      BY <3>1 DEF Steps
    <3>3. QED
      BY <3>2
  <2>3. QED
    BY <2>1, <2>2
<1> DEFINE Counts(f) ==
             f = [i \in 1..size + 1 |->
                    IF i = 1 THEN 0 ELSE f[i - 1] + Len(Plan[c][i - 1].what)]
           step == [k \in 2..size + 1 |-> [v \in Nat |-> v + change[k - 1]]]
<1>2. Before(c) = CHOOSE f : Counts(f)
  BY DEF Before
<1>3. \A i \in 1..size : Len(Plan[c][i].what) = change[i]
  OBVIOUS
<1> HIDE DEF size, change
<1>4. \A k \in 1 + 1..size + 1, v \in Nat :
        step[k][v] = v + change[k - 1] /\ step[k][v] \in Nat
  BY <1>1
<1>5. PICK f \in [1..size + 1 -> Nat] : Recurs(f, 1, size + 1, 0, step)
  <2>1. 1 \in Int /\ size + 1 \in Int /\ 1 <= size + 1 /\ 0 \in Nat
    BY <1>1
  <2>2. IsStep(step, 1, size + 1, Nat)
    BY <1>4 DEF IsStep
  <2> HIDE DEF step
  <2>3. QED
    BY <2>1, <2>2, Recursion, Zenon
<1>6. f[1] = 0 /\ \A k \in 2..size + 1 : f[k] = f[k - 1] + change[k - 1]
  <2>1. ASSUME NEW k \in 2..size + 1 PROVE f[k] = f[k - 1] + change[k - 1]
    <3>1. k \in 1 + 1..size + 1 /\ f[k - 1] \in Nat
      BY <1>1
    <3> HIDE DEF step
    <3>2. QED
      BY <3>1, <1>4, <1>5 DEF Recurs
  <2>2. QED
    BY <2>1, <1>5 DEF Recurs
<1>7. Counts(f)
  <2>1. ASSUME NEW i \in 1..size + 1, i # 1
        PROVE  f[i] = f[i - 1] + Len(Plan[c][i - 1].what)
    <3>1. i \in 2..size + 1 /\ i - 1 \in 1..size
      BY <1>1, <2>1
    <3>2. QED
      BY <1>3, <1>6, <3>1
  <2>2. QED
    BY <1>5, <1>6, <2>1
<1> DEFINE g == CHOOSE h : Counts(h)
<1>8. Counts(g)
  BY <1>7
<1> HIDE DEF g
<1>9. ASSUME NEW n \in 1..size + 1 PROVE g[n] = f[n]
  <2> DEFINE S == {k \in 1..size + 1 : g[k] = f[k]}
  <2>1. 1 \in S
    BY <1>1, <1>6, <1>8
  <2>2. ASSUME NEW k \in 1..(size + 1) - 1, k \in S PROVE k + 1 \in S
    <3>1. /\ k + 1 \in 2..size + 1 /\ k + 1 \in 1..size + 1
          /\ k + 1 # 1 /\ (k + 1) - 1 = k /\ k \in 1..size
      BY <1>1
    <3>2. g[k + 1] = g[k] + Len(Plan[c][k].what)
      BY <1>8, <3>1
    <3>3. g[k + 1] = f[k] + change[k]
      BY <1>3, <2>2, <3>1, <3>2
    <3>4. QED
      BY <1>6, <3>1, <3>3
  <2>3. \A k \in 1..size + 1 : k \in S
    <3> HIDE DEF S
    <3>1. size + 1 \in Int /\ 1 \in Int
      BY <1>1
    <3>2. QED
      BY <2>1, <2>2, <3>1, InductUpTo, Zenon
  <2>4. QED
    BY <2>3
<1>10. g = f
  BY <1>8, <1>9, <1>1, <1>5
<1>11. Before(c) = f
  BY <1>2, <1>10 DEF g
<1>12. \A i \in 1..size : f[i + 1] = f[i] + change[i]
  BY <1>1, <1>6
<1>13. QED
  BY <1>1, <1>5, <1>6, <1>11, <1>12 DEF size, change

\* What the assumptions say of the step a run is at that is on its course.
LEMMA StepOnCourse ==
  ASSUME IInv, OnCourse, NEW kind \in Kinds, At(kind), rc = 0
  PROVE  /\ pc \in Reached(cmd) \ {Len(Plan[cmd]) + 1}
         /\ Step.what \in Seq(Effects)
         /\ Before(cmd)[pc] \in Nat
         /\ Before(cmd)[pc + 1] = Before(cmd)[pc] + Len(Step.what)
         /\ Step.what # <<>> => kind \in {"write", "local"}
<1>1. /\ pc \in 1..Len(Plan[cmd]) /\ Len(Plan[cmd]) \in Nat
      /\ Step \in Steps /\ cmd \in Commands /\ outcome = "none"
  BY StepShape DEF IInv, TypeOK, At
<1>2. pc \in Reached(cmd) /\ pc # Len(Plan[cmd]) + 1
  BY <1>1 DEF OnCourse
<1>3. /\ Before(cmd)[pc] \in Nat
      /\ Before(cmd)[pc + 1] = Before(cmd)[pc] + Len(Step.what)
  <2>1. /\ Before(cmd) \in [1..Len(Plan[cmd]) + 1 -> Nat]
        /\ \A i \in 1..Len(Plan[cmd]) :
             Before(cmd)[i + 1] = Before(cmd)[i] + Len(Plan[cmd][i].what)
    BY <1>1, BeforeShape
  <2>2. pc \in 1..Len(Plan[cmd]) + 1
    BY <1>1
  <2>3. QED
    BY <1>1, <2>1, <2>2 DEF Step
<1>4. Step.what \in Seq(Effects)
  BY <1>1 DEF Steps
<1>5. Step.what # <<>> => kind \in {"write", "local"}
  BY <1>1, PlansAssumption DEF Step, At
<1>6. QED
  BY <1>2, <1>3, <1>4, <1>5

\* The next step of a plan is reached unless this one is a refusal that
\* nothing passes.
LEMMA ReachedNext ==
  ASSUME NEW c \in Commands, NEW i \in Reached(c), i # Len(Plan[c]) + 1,
         Plan[c][i].do = "refuse" => "ignore" \in Plan[c][i].else
  PROVE  i + 1 \in Reached(c)
<1>1. i \in 1..Len(Plan[c]) /\ Len(Plan[c]) \in Nat
  BY BeforeShape DEF Reached
<1>2. ASSUME NEW j \in 1..(i + 1) - 1, Plan[c][j].do = "refuse",
             Plan[c][j].else \subseteq {"stop", "exit"}
      PROVE  FALSE
  <2>1. j \in 1..i - 1 \/ j = i
    BY <1>1
  <2>2. QED
    BY <1>2, <2>1 DEF Reached
<1>3. QED
  BY <1>1, <1>2 DEF Reached

\* A change goes behind those made.
LEMMA CarriedShape ==
  ASSUME IInv, Step.what \in Seq(Effects), Carried
  PROVE  /\ done \in Seq(Effects) /\ done' \in Seq(Effects)
         /\ Len(done') = Len(done) + Len(Step.what)
         /\ \A i \in 1..Len(done) : done'[i] = done[i]
         /\ \A i \in 1..Len(Step.what) : done'[Len(done) + i] = Step.what[i]
         /\ Step.what = <<>> => done' = done
<1>1. done \in Seq(Effects)
  BY DEF IInv, TypeOK
<1>2. /\ done \o Step.what \in Seq(Effects)
      /\ Len(done \o Step.what) = Len(done) + Len(Step.what)
      /\ \A i \in 1..Len(done) + Len(Step.what) :
           (done \o Step.what)[i] =
             IF i <= Len(done) THEN done[i] ELSE Step.what[i - Len(done)]
  BY <1>1, ConcatProperties, Zenon
<1>3. Len(done) \in Nat /\ Len(Step.what) \in Nat
  BY <1>1
<1>4. done \o <<>> = done
  BY <1>1, ConcatEmptySeq
<1>5. done' = done \o Step.what
  BY DEF Carried
<1>6. \A i \in 1..Len(done) + Len(Step.what) :
        done'[i] = IF i <= Len(done) THEN done[i] ELSE Step.what[i - Len(done)]
  BY <1>2, <1>5
<1>7. \A i \in 1..Len(done) : done'[i] = done[i]
  BY <1>3, <1>6
<1>8. ASSUME NEW i \in 1..Len(Step.what)
      PROVE  done'[Len(done) + i] = Step.what[i]
  <2>1. /\ Len(done) + i \in 1..Len(done) + Len(Step.what)
        /\ ~(Len(done) + i <= Len(done)) /\ Len(done) + i - Len(done) = i
    BY <1>3
  <2>2. QED
    BY <1>6, <2>1
<1>9. QED
  BY <1>1, <1>2, <1>4, <1>5, <1>7, <1>8

\* A step in the plan makes its change, or it makes none: because it has none,
\* because it was left out, or because it ends the way through the plan.
Acts(kind) ==
  /\ At(kind)
  /\ Proceed \/ GiveUp
  /\ kind = "refuse" => GiveUp
  /\ \/ kind \in {"write", "local"} /\ Carried
     \/ done' = done /\ (Step.what = <<>> \/ GiveUp)

\* The actions but the last are such steps.
LEMMA AllAct ==
  ASSUME IInv, Edit \/ Prompt \/ Ask \/ Look \/ Refuse \/ Write \/ Local \/ FreeAgain
  PROVE  \E kind \in Kinds : Acts(kind)
<1>1. ASSUME NEW kind \in Kinds, At(kind), kind \notin {"write", "local"}
      PROVE  Step.what = <<>>
  <2>1. pc \in 1..Len(Plan[cmd]) /\ cmd \in Commands
    BY <1>1, StepShape DEF IInv, TypeOK
  <2>2. QED
    BY <1>1, <2>1, PlansAssumption DEF Step, At
<1>2. CASE Edit \/ Prompt \/ Ask \/ Look \/ FreeAgain
  <2>1. PICK kind \in Kinds \ {"write", "local", "refuse"} : At(kind)
    BY <1>2 DEF Edit, Prompt, Ask, Look, FreeAgain, Kinds
  <2>2. (Proceed \/ GiveUp) /\ done' = done
    BY <1>2 DEF Edit, Prompt, Ask, Look, FreeAgain
  <2>3. QED
    BY <1>1, <2>1, <2>2 DEF Acts
<1>3. CASE Refuse
  BY <1>3 DEF Refuse, Acts, Kinds
<1>4. CASE Write
  <2>1. "write" \in Kinds
    BY DEF Kinds
  <2>2. Acts("write")
    BY <1>4 DEF Write, Acts
  <2>3. QED
    BY <2>1, <2>2
<1>5. CASE Local
  <2>1. "local" \in Kinds
    BY DEF Kinds
  <2>2. Acts("local")
    BY <1>5 DEF Local, Acts
  <2>3. QED
    BY <2>1, <2>2
<1>6. QED
  BY <1>2, <1>3, <1>4, <1>5

\* A step goes on, is given up for good, or ends the program.
LEMMA Outcomes ==
  ASSUME IInv, NEW kind \in Kinds, Acts(kind)
  PROVE  /\ cmd' = cmd
         /\ outcome' = "success" => "leave" \in Step.else /\ GiveUp
         /\ outcome' = "none" /\ rc' = 0 =>
              /\ pc' = pc + 1 /\ rc = 0
              /\ kind = "refuse" => "ignore" \in Step.else
              /\ \/ Carried
                 \/ done' = done /\ (Step.what = <<>> \/ "ignore" \in Step.else)
<1>1. At(kind) /\ TypeOK
  BY DEF Acts, IInv
<1>2. cmd' = cmd
  BY <1>1, ProceedPlace, GiveUpTypes DEF Acts
<1>3. outcome' = "success" => "leave" \in Step.else /\ GiveUp
  BY <1>1 DEF Acts, At, GiveUp, Proceed, Return, End
<1>4. ASSUME outcome' = "none", rc' = 0
      PROVE  /\ pc' = pc + 1 /\ rc = 0
             /\ GiveUp => "ignore" \in Step.else
  <2>1. GiveUp => "ignore" \in Step.else /\ Proceed
    BY <1>1, <1>4, GiveUpLeads
  <2>2. QED
    BY <1>4, <2>1 DEF Acts, Proceed
<1>5. QED
  BY <1>2, <1>3, <1>4 DEF Acts

\* Nothing is done twice, left out in the middle or done on top.
LEMMA ActInOrder ==
  ASSUME IInv, CourseInv, NEW kind \in Kinds, Acts(kind) PROVE InOrder'
<1>1. cmd' = cmd /\ At(kind) /\ InOrder /\ OnCourse
  BY Outcomes DEF Acts, CourseInv
<1>2. CASE done' = done
  BY <1>1, <1>2 DEF InOrder
<1>3. ASSUME kind \in {"write", "local"}, Carried, cmd \notin Misread
      PROVE  InOrder'
  <2>1. rc = 0 /\ outcome = "none"
    BY <1>1, <1>3, StepShape DEF IInv, TypeOK, At
  <2>2. /\ pc \in Reached(cmd) \ {Len(Plan[cmd]) + 1}
        /\ Step.what \in Seq(Effects) /\ cmd \in Commands
        /\ pc \in 1..Len(Plan[cmd])
    BY <1>1, <2>1, StepOnCourse, StepShape DEF IInv, TypeOK
  <2>3. /\ Before(cmd)[pc] + Len(Step.what) <= Len(Promise[cmd])
        /\ \A k \in 1..Len(Step.what) :
             Step.what[k] = Promise[cmd][Before(cmd)[pc] + k]
    BY <1>3, <2>2, OrderAssumption DEF Step
  <2>4. CASE Step.what = <<>>
    <3>1. done' = done
      BY <1>3, <2>2, <2>4, CarriedShape
    <3>2. QED
      BY <1>2, <3>1
  <2>5. CASE Step.what # <<>>
    <3>1. Len(done) = Before(cmd)[pc]
      BY <1>1, <2>1, <2>2, <2>5 DEF OnCourse, Step
    <3>2. /\ Len(done') = Len(done) + Len(Step.what)
          /\ \A k \in 1..Len(done) : done'[k] = done[k]
          /\ \A k \in 1..Len(Step.what) : done'[Len(done) + k] = Step.what[k]
          /\ Len(done) \in Nat /\ Len(Step.what) \in Nat
      BY <1>3, <2>2, CarriedShape
    <3>3. ASSUME NEW k \in 1..Len(done') PROVE done'[k] = Promise[cmd][k]
      <4>1. CASE k <= Len(done)
        BY <1>1, <1>3, <3>2, <4>1 DEF InOrder
      <4>2. CASE k > Len(done)
        <5>1. /\ k - Len(done) \in 1..Len(Step.what)
              /\ Len(done) + (k - Len(done)) = k
          BY <3>2, <4>2
        <5>2. done'[k] = Step.what[k - Len(done)]
          BY <3>2, <5>1
        <5>3. Step.what[k - Len(done)] = Promise[cmd][Before(cmd)[pc] + (k - Len(done))]
          BY <2>3, <5>1
        <5>4. QED
          BY <3>1, <5>1, <5>2, <5>3
      <4>3. QED
        BY <3>2, <4>1, <4>2
    <3>4. Len(done') <= Len(Promise[cmd])
      BY <2>3, <3>1, <3>2
    <3>5. QED
      BY <1>1, <3>3, <3>4 DEF InOrder
  <2>6. QED
    BY <2>4, <2>5
<1>4. cmd \in Misread => InOrder'
  BY <1>1 DEF InOrder
<1>5. QED
  BY <1>2, <1>3, <1>4 DEF Acts

\* No change is ever taken back.
LEMMA ActGrows ==
  ASSUME IInv, OnCourse, NEW kind \in Kinds, Acts(kind), rc = 0
  PROVE  Len(done') >= Len(done)
<1>1. At(kind) /\ done \in Seq(Effects)
  BY DEF Acts, IInv, TypeOK
<1>2. Step.what \in Seq(Effects)
  BY <1>1, StepOnCourse
<1>3. CASE Carried
  BY <1>1, <1>2, <1>3, CarriedShape
<1>4. CASE done' = done
  BY <1>1, <1>4
<1>5. QED
  BY <1>3, <1>4 DEF Acts

\* A step that ends gcli with success has all of what is required behind it.
LEMMA ActSuccess ==
  ASSUME IInv, CourseInv, NEW kind \in Kinds, Acts(kind)
  PROVE  SuccessIsComplete'
<1>1. SUFFICES ASSUME outcome' = "success", cmd' \notin Careless \cup Misread
               PROVE  Len(done') >= Required[cmd']
  BY DEF SuccessIsComplete
<1>2. /\ cmd' = cmd /\ "leave" \in Step.else /\ At(kind) /\ OnCourse
      /\ cmd \in Commands
  BY <1>1, Outcomes DEF Acts, CourseInv, IInv, TypeOK
<1>3. outcome = "none" /\ pc \in 1..Len(Plan[cmd]) /\ kind # "free" /\ rc = 0
  <2>1. outcome = "none" /\ pc \in 1..Len(Plan[cmd])
    BY <1>2 DEF At
  <2>2. kind # "free"
    BY <1>2, <2>1, PlansAssumption DEF Step, At
  <2>3. QED
    BY <1>2, <2>1, <2>2, StepShape DEF IInv, TypeOK
<1>4. /\ pc \in Reached(cmd) \ {Len(Plan[cmd]) + 1}
      /\ Before(cmd)[pc] \in Nat
  BY <1>2, <1>3, StepOnCourse
<1>5. Before(cmd)[pc] >= Required[cmd]
  BY <1>1, <1>2, <1>4, SuccessAssumption DEF Step
<1>6. Len(done) >= Required[cmd]
  BY <1>1, <1>2, <1>3, <1>5 DEF OnCourse
<1>7. Len(done') >= Len(done)
  BY <1>2, <1>3, ActGrows
<1>8. /\ Len(done) \in Nat /\ Len(done') \in Nat /\ Required[cmd] \in Nat
  <2>1. done \in Seq(Effects) /\ Required[cmd] \in Nat
    BY <1>2, CommandsAssumption DEF IInv, TypeOK
  <2>2. done' \in Seq(Effects)
    BY <1>2, <1>3, <2>1, StepOnCourse, CarriedShape DEF Acts
  <2>3. QED
    BY <2>1, <2>2
<1>9. QED
  BY <1>2, <1>6, <1>7, <1>8

\* A step that goes on leaves the run on its course.
LEMMA ActOnCourse ==
  ASSUME IInv, CourseInv, NEW kind \in Kinds, Acts(kind) PROVE OnCourse'
<1>1. SUFFICES ASSUME outcome' = "none", rc' = 0
               PROVE  /\ pc' \in Reached(cmd')
                      /\ \/ Len(done') = Before(cmd')[pc']
                         \/ /\ \A j \in pc'..Len(Plan[cmd']) :
                                 Plan[cmd'][j].what = <<>>
                            /\ cmd' \notin Careless \cup Misread => Len(done') >= Required[cmd']
  BY DEF OnCourse
<1>2. /\ cmd' = cmd /\ pc' = pc + 1 /\ rc = 0
      /\ At(kind) /\ OnCourse /\ cmd \in Commands /\ outcome = "none"
      /\ kind = "refuse" => "ignore" \in Step.else
      /\ \/ Carried
         \/ done' = done /\ (Step.what = <<>> \/ "ignore" \in Step.else)
  BY <1>1, Outcomes DEF Acts, CourseInv, IInv, TypeOK, At
<1>3. /\ pc \in Reached(cmd) \ {Len(Plan[cmd]) + 1}
      /\ pc \in 1..Len(Plan[cmd]) /\ Len(Plan[cmd]) \in Nat
      /\ Step.what \in Seq(Effects)
      /\ Before(cmd)[pc + 1] = Before(cmd)[pc] + Len(Step.what)
  BY <1>2, StepOnCourse, StepShape DEF IInv
<1>4. pc + 1 \in Reached(cmd)
  BY <1>2, <1>3, ReachedNext DEF Step, At
<1>5. Step.what = <<>> => done' = done
  BY <1>2, <1>3, CarriedShape
<1>6. CASE \A j \in pc..Len(Plan[cmd]) : Plan[cmd][j].what = <<>>
  <2>1. done' = done /\ Step.what = <<>>
    BY <1>3, <1>5, <1>6 DEF Step
  <2>2. Len(Step.what) = 0 /\ Before(cmd)[pc] \in Nat
    BY <1>2, <2>1, StepOnCourse
  <2>3. Before(cmd)[pc + 1] = Before(cmd)[pc]
    BY <1>3, <2>2
  <2>4. \A j \in pc + 1..Len(Plan[cmd]) : Plan[cmd][j].what = <<>>
    BY <1>3, <1>6
  <2>5. \/ Len(done) = Before(cmd)[pc]
        \/ cmd \notin Careless \cup Misread => Len(done) >= Required[cmd]
    BY <1>2 DEF OnCourse
  <2>6. QED
    BY <1>2, <1>4, <2>1, <2>3, <2>4, <2>5
<1>7. CASE ~\A j \in pc..Len(Plan[cmd]) : Plan[cmd][j].what = <<>>
  <2>1. Len(done) = Before(cmd)[pc]
    BY <1>2, <1>7 DEF OnCourse
  <2>2. CASE Carried
    <3>1. Len(done') = Len(done) + Len(Step.what)
      BY <1>3, <2>2, CarriedShape
    <3>2. QED
      BY <1>2, <1>3, <1>4, <2>1, <3>1
  <2>3. CASE done' = done /\ Step.what = <<>>
    <3>1. Len(Step.what) = 0 /\ Before(cmd)[pc] \in Nat
      BY <1>2, <2>3, StepOnCourse
    <3>2. QED
      BY <1>2, <1>3, <1>4, <2>1, <2>3, <3>1
  <2>4. CASE done' = done /\ Step.what # <<>> /\ "ignore" \in Step.else
    <3>1. \A j \in pc + 1..Len(Plan[cmd]) : Plan[cmd][j].what = <<>>
      BY <1>2, <1>3, <2>4, OrderAssumption DEF Step
    <3>2. cmd \notin Careless \cup Misread => Before(cmd)[pc] >= Required[cmd]
      BY <1>2, <1>3, <2>4, SuccessAssumption DEF Step
    <3>3. QED
      BY <1>2, <1>4, <2>1, <2>4, <3>1, <3>2
  <2>5. QED
    BY <1>2, <2>2, <2>3, <2>4
<1>8. QED
  BY <1>6, <1>7

\* The end of a plan: with success it has everything behind it.
LEMMA FinishCourse == ASSUME IInv, CourseInv, Finish PROVE CourseInv'
<1>1. /\ UNCHANGED <<cmd, pc, rc, done>> /\ outcome = "none"
      /\ pc = Len(Plan[cmd]) + 1 /\ cmd \in Commands
      /\ outcome' = IF rc = 0 THEN "success" ELSE "failure"
  BY DEF Finish, End, IInv, TypeOK
<1>2. InOrder'
  BY <1>1 DEF CourseInv, InOrder
<1>3. OnCourse'
  BY <1>1 DEF OnCourse
<1>4. SuccessIsComplete'
  <2>1. SUFFICES ASSUME rc = 0, cmd \notin Careless \cup Misread
                 PROVE  Len(done) >= Required[cmd]
    BY <1>1 DEF SuccessIsComplete
  <2>2. pc \in Reached(cmd)
    BY <1>1, <2>1 DEF CourseInv, OnCourse
  <2>3. Before(cmd)[pc] >= Required[cmd]
    BY <1>1, <2>1, <2>2, SuccessAssumption
  <2>4. QED
    BY <1>1, <2>1, <2>3 DEF CourseInv, OnCourse
<1>5. QED
  BY <1>2, <1>3, <1>4 DEF CourseInv

\* The start.
LEMMA InitCourse == Init => CourseInv
<1> SUFFICES ASSUME Init PROVE CourseInv
  OBVIOUS
<1>1. /\ cmd \in Commands /\ pc = 1 /\ done = <<>> /\ Len(done) = 0
      /\ outcome = "none"
  BY DEF Init
<1>2. /\ Len(Plan[cmd]) \in Nat
      /\ Before(cmd)[1] = 0
  BY <1>1, BeforeShape
<1>3. Promise[cmd] \in Seq(Effects)
  BY <1>1, CommandsAssumption
<1>4. pc \in Reached(cmd)
  BY <1>1, <1>2 DEF Reached
<1>5. InOrder
  BY <1>1, <1>3 DEF InOrder
<1>6. OnCourse
  BY <1>1, <1>2, <1>4 DEF OnCourse
<1>7. SuccessIsComplete
  BY <1>1 DEF SuccessIsComplete
<1>8. QED
  BY <1>5, <1>6, <1>7 DEF CourseInv

\* Every step keeps to the course.
LEMMA NextCourse == IInv /\ CourseInv /\ [Next]_vars => CourseInv'
<1> SUFFICES ASSUME IInv, CourseInv, [Next]_vars PROVE CourseInv'
  OBVIOUS
<1>1. CASE Finish
  BY <1>1, FinishCourse
<1>2. CASE Edit \/ Prompt \/ Ask \/ Look \/ Refuse \/ Write \/ Local \/ FreeAgain
  <2>1. PICK kind \in Kinds : Acts(kind)
    BY <1>2, AllAct
  <2>2. QED
    BY <2>1, ActInOrder, ActOnCourse, ActSuccess DEF CourseInv
<1>3. CASE UNCHANGED vars
  BY <1>3 DEF vars, CourseInv, InOrder, OnCourse, SuccessIsComplete
<1>4. QED
  BY <1>1, <1>2, <1>3 DEF Next

\* What a run has changed is, in order, the first of what its command stands
\* for, whatever fails and whatever the user answers: for any plans that list
\* their changes in the order of the promise.
THEOREM DoneInOrder == Spec => []InOrder
<1>1. CourseInv => InOrder
  BY DEF CourseInv
<1>2. QED
  BY <1>1, InitInv, NextInv, InitCourse, NextCourse, PTL DEF Spec

\* Exit status 0 means that all that is required has been made: for any plans
\* in which no step before that goes on without its change or ends gcli with
\* success.
THEOREM ZeroIsComplete == Spec => []SuccessIsComplete
<1>1. CourseInv => SuccessIsComplete
  BY DEF CourseInv
<1>2. QED
  BY <1>1, InitInv, NextInv, InitCourse, NextCourse, PTL DEF Spec

-----------------------------------------------------------------------------
(* What a failure leaves behind. *)

\* A step that fails the command has changed nothing, or its answer was lost.
LEMMA ActFails ==
  ASSUME IInv, NothingChanged, NEW kind \in Kinds, At(kind), GiveUp, done' = done,
         cmd' = cmd, lost = FALSE, cmd \notin Compound,
         rc' = -1 \/ outcome' = "failure"
  PROVE  done = <<>>
<1>1. /\ pc \in 1..Len(Plan[cmd]) /\ cmd \in Commands
      /\ outcome = "none" /\ rc \in {0, -1}
  BY StepShape DEF IInv, TypeOK, At
<1>2. CASE rc = -1
  BY <1>2 DEF NothingChanged
<1>3. CASE rc = 0
  <2>1. Step.else \cap {"stop", "exit"} # {}
    BY <1>1, <1>3 DEF GiveUp, Proceed, Return, End
  <2>2. ~ \E j \in 1..pc - 1 : Plan[cmd][j].what # <<>>
    BY <1>1, <2>1, FailureAssumption DEF Step
  <2>3. QED
    BY <1>1, <1>3, <2>2 DEF NothingChanged
<1>4. QED
  BY <1>1, <1>2, <1>3

\* A change that is made lies behind the run at its next step.
LEMMA ActBehind ==
  ASSUME IInv, NothingChanged, NEW kind \in Kinds, Acts(kind),
         lost = FALSE, cmd \notin Compound,
         outcome' = "none", rc' = 0, done' # <<>>
  PROVE  \E j \in 1..pc' - 1 : Plan[cmd'][j].what # <<>>
<1>1. /\ pc' = pc + 1 /\ cmd' = cmd /\ rc = 0 /\ At(kind)
      /\ pc \in 1..Len(Plan[cmd]) /\ Len(Plan[cmd]) \in Nat
      /\ outcome = "none"
  BY Outcomes, StepShape DEF Acts, IInv, At
<1>2. CASE done # <<>>
  <2>1. PICK j \in 1..pc - 1 : Plan[cmd][j].what # <<>>
    BY <1>1, <1>2 DEF NothingChanged
  <2>2. j \in 1..pc' - 1
    BY <1>1
  <2>3. QED
    BY <1>1, <2>1, <2>2
<1>3. CASE done = <<>>
  <2>1. Carried
    BY <1>3 DEF Acts
  <2>2. Step.what # <<>>
    BY <1>3, <2>1, ConcatEmptySeq DEF Carried, IInv, TypeOK
  <2>3. pc \in 1..pc' - 1
    BY <1>1
  <2>4. QED
    BY <1>1, <2>2, <2>3 DEF Step
<1>4. QED
  BY <1>2, <1>3

\* Every step of a simple command keeps that nothing is changed by a failure.
LEMMA NextNothing == IInv /\ NothingChanged /\ [Next]_vars => NothingChanged'
<1> SUFFICES ASSUME IInv, NothingChanged, [Next]_vars PROVE NothingChanged'
  OBVIOUS
<1>1. CASE Finish
  <2>1. /\ UNCHANGED <<cmd, pc, rc, done, lost>> /\ outcome = "none"
        /\ outcome' = IF rc = 0 THEN "success" ELSE "failure"
        /\ rc \in {0, -1}
    BY <1>1 DEF Finish, End, IInv, TypeOK
  <2>2. QED
    BY <2>1 DEF NothingChanged
<1>2. CASE Edit \/ Prompt \/ Ask \/ Look \/ Refuse \/ Write \/ Local \/ FreeAgain
  <2>1. PICK kind \in Kinds : Acts(kind)
    BY <1>2, AllAct
  <2>2. SUFFICES ASSUME ~lost', cmd \notin Compound
                 PROVE  /\ rc' = -1 \/ outcome' = "failure" => done' = <<>>
                        /\ outcome' = "none" /\ rc' = 0 /\ done' # <<>> =>
                             \E j \in 1..pc' - 1 : Plan[cmd'][j].what # <<>>
    BY <2>1, Outcomes DEF NothingChanged
  <2>3. lost = FALSE /\ cmd' = cmd
    <3>1. lost' = lost \/ lost' = TRUE
      BY <1>2 DEF Edit, Prompt, Ask, Look, Refuse, Write, Local, FreeAgain
    <3>2. QED
      BY <2>1, <2>2, <3>1, Outcomes DEF IInv, TypeOK
  <2>4. ASSUME rc' = -1 \/ outcome' = "failure" PROVE done' = <<>>
    <3>1. CASE GiveUp /\ done' = done
      BY <2>1, <2>2, <2>3, <2>4, <3>1, ActFails DEF Acts
    <3>2. CASE Proceed
      <4>1. rc = -1 /\ outcome' = "none" /\ kind = "free"
        BY <2>1, <2>4, <3>2, StepShape DEF Acts, Proceed, IInv, At
      <4>2. done' = done
        BY <2>1, <4>1 DEF Acts
      <4>3. QED
        BY <2>2, <2>3, <4>1, <4>2 DEF NothingChanged
    <3>3. QED
      BY <1>2, <2>2, <3>1, <3>2
         DEF Edit, Prompt, Ask, Look, Refuse, Write, Local, FreeAgain
  <2>5. QED
    BY <2>1, <2>2, <2>3, <2>4, ActBehind
<1>3. CASE UNCHANGED vars
  BY <1>3 DEF vars, NothingChanged
<1>4. QED
  BY <1>1, <1>2, <1>3 DEF Next

\* A command that fails has changed nothing and may be repeated, unless it is
\* made of several changes or an answer was lost: for any plans in which no
\* step behind a change of a simple command fails the command.
THEOREM FailureIsClean == Spec => []FailureChangesNothing
<1>1. Init => NothingChanged
  BY DEF Init, NothingChanged
<1>2. IInv /\ NothingChanged => FailureChangesNothing
  BY DEF IInv, TypeOK, NothingChanged, FailureChangesNothing
<1>3. QED
  BY <1>1, <1>2, InitInv, NextInv, NextNothing, PTL DEF Spec

=============================================================================
