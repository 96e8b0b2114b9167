--------------------------- MODULE RunPair_proofs ---------------------------
(***************************************************************************)
(* Proofs about run_pair (runner/parallel.py) and the process groups its   *)
(* jobs supervise, for every number of interrupts and with or without      *)
(* workers that are killed from outside.                                   *)
(*                                                                         *)
(* The invariant says what ties the parent to the workers it cannot see:   *)
(* a complete message is in the pipe only of a worker that has nothing     *)
(* left to do but exit, the parent has received only such messages, every  *)
(* outcome has a cause in a worker or in an interrupt, and that cause      *)
(* stays, and the test process of a worker that ended by itself is gone.   *)
(***************************************************************************)
EXTENDS RunPair, TLAPS

\* Every interrupt of the user and the one SIGTERM of _stop.
SignalsBounded ==
  \A j \in Jobs : signals[j] <=
    interrupts + (IF parent \in Working \cup {"terminate"} THEN 0 ELSE 1)

\* The parent forks until every job has a worker, and reads only then.
ForksInOrder ==
  /\ parent = "fork" => \E j \in Jobs : step[j] = "none"
  /\ parent \in {"receive", "recv", "join"} => \A j \in Jobs : step[j] # "none"
  /\ parent = "recv" => peer \in Jobs
  /\ \A j \in started : step[j] # "none"

\* A worker that reports or stops its group has something to report.
ValuesSet ==
  \A j \in Jobs : step[j] \in {"term", "poll", "reap", "report", "send", "blocked"} => value[j] # "none"

\* A message is complete when its worker has sent it, and a worker that is
\* alive holds the write end of its pipe.
MessagesSent ==
  \A j \in Jobs :
    /\ step[j] = "none" => pipe[j] = "empty"
    /\ pipe[j] \in {"result", "error"} => step[j] \in {"closing", "exited"}
    /\ Alive(j) => j \in holders[j]

\* What the parent has received was sent.
ResultsReceived ==
  /\ \A j \in got : pipe[j] = "result"
  /\ parent = "join" => got = Jobs

\* A test process runs while its worker supervises it; it is left behind
\* only by a worker that was interrupted or killed, and on Linux it dies with
\* the worker. Before the job starts it there is nothing, after communicate()
\* nobody has its output, and after SIGKILL its group is empty.
GroupsLed ==
  \A j \in Jobs :
    /\ step[j] \in {"none", "boot", "job"} => group[j] = {}
    /\ "leader" \in group[j] =>
         step[j] \in {"spawn", "child", "term", "poll"} \/ value[j] = "error" \/ code[j] = "bad"
    /\ linux /\ ~Alive(j) => "leader" \notin group[j]
    /\ step[j] = "drain" => ~OutputOpen(j)
    /\ step[j] = "reap" => ~GroupExists(j)

\* A worker that will not complete a result any more.
Lost(j) == (step[j] = "exited" /\ pipe[j] # "result") \/ code[j] = "bad"

\* Every outcome has its cause, and the cause stays.
OutcomesCaused ==
  /\ parent \notin Working => outcome # <<"none">>
  /\ outcome = <<"cancelled">> => interrupts > 0
  /\ outcome = <<"startFailed">> => parent \notin Working /\ \E j \in Jobs : step[j] = "none"
  /\ \A j \in Jobs : outcome = <<"error", j>> => pipe[j] = "error"
  /\ outcome \in {<<"workerFailed">>, <<"messageBroken">>, <<"cleanupFailed">>} =>
       \E j \in Jobs : Lost(j)
  /\ outcome = <<"returned">> =>
       \A j \in Jobs : step[j] = "exited" /\ code[j] = "ok" /\ pipe[j] = "result"

\* The parent closes its connections after the last worker has exited.
StoppedFirst == parent \in {"close", "done"} => \A j \in started : ~Alive(j)

Typed == TypeOK /\ SignalsBounded /\ ForksInOrder /\ ValuesSet

PairInv ==
  /\ Typed
  /\ MessagesSent
  /\ ResultsReceived
  /\ GroupsLed
  /\ OutcomesCaused
  /\ StoppedFirst
------------------------------------------------------------------------------
(***************************************************************************)
(* The steps of the parent and of a worker keep every variable in its type *)
(* and within its bound.                                                   *)
(***************************************************************************)
LEMMA JobsAre == 1 \in Jobs /\ 2 \in Jobs /\ 0 \notin Jobs /\ Jobs \subseteq Nat
  BY DEF Jobs

LEMMA InitTyped == Init => Typed
  BY PairAssumption, JobsAre
  DEF Init, Typed, TypeOK, SignalsBounded, ForksInOrder, ValuesSet, Working, Steps

\* The death of workers.
LEMMA ExitsTyped ==
  ASSUME TypeOK, NEW dead \in SUBSET Jobs, Exits(dead)
  PROVE  /\ step' \in [Jobs -> Steps]
         /\ signals' \in [Jobs -> 0..(MaxInterrupts + 1)]
         /\ holders' \in [Jobs -> SUBSET (Jobs \cup {0})]
         /\ group' \in [Jobs -> SUBSET Members]
         /\ \A j \in Jobs : signals'[j] <= signals[j]
         /\ \A j \in Jobs : step'[j] = IF j \in dead THEN "exited" ELSE step[j]
         /\ \A j \in Jobs :
              /\ group'[j] \subseteq group[j]
              /\ linux /\ j \in dead => "leader" \notin group'[j]
  <1> QED BY PairAssumption DEF Exits, TypeOK, Steps

LEMMA ParentTyped ==
  ASSUME Typed, ParentStep \/ ForkFails \/ Interrupt
  PROVE  Typed'
  <1> USE PairAssumption, JobsAre DEF Typed
  <1>1. CASE Fork
    <2>1. PICK k \in Jobs :
            /\ step[k] = "none"
            /\ step' = [step EXCEPT ![k] = "boot"]
            /\ holders' = [i \in Jobs |->
                 IF i = k THEN {0, k}
                 ELSE IF 0 \in holders[i] THEN holders[i] \cup {k} ELSE holders[i]]
      BY <1>1 DEF Fork
    <2>2. /\ parent = "fork" /\ parent' = "register"
          /\ UNCHANGED <<linux, peer, started, got, outcome, interrupts, value, code, signals, pipe, group>>
      BY <1>1 DEF Fork
    <2>3. TypeOK'
      BY <2>1, <2>2 DEF TypeOK, Working, Steps
    <2>4. SignalsBounded' /\ ForksInOrder' /\ ValuesSet'
      BY <2>1, <2>2 DEF TypeOK, SignalsBounded, ForksInOrder, ValuesSet, Working
    <2> QED BY <2>3, <2>4
  <1>2. CASE Register
    BY <1>2 DEF Register, NextAfterRegister, TypeOK, SignalsBounded, ForksInOrder, ValuesSet,
       Working, workerVars
  <1>3. CASE \E j \in Jobs : BeginReceive(j)
    BY <1>3 DEF BeginReceive, TypeOK, SignalsBounded, ForksInOrder, ValuesSet, Working, workerVars
  <1>4. CASE Receive
    <2>1. peer \in Jobs /\ parent = "recv"
      BY <1>4 DEF Receive, ForksInOrder
    <2> QED
      BY <1>4, <2>1
      DEF Receive, BrokenMessage, TypeOK, SignalsBounded, ForksInOrder, ValuesSet, Working, workerVars
  <1>5. CASE Join
    BY <1>5 DEF Join, TypeOK, SignalsBounded, ForksInOrder, ValuesSet, Working, workerVars
  <1>6. CASE Terminate
    <2>1. /\ parent = "terminate" /\ parent' = "wait"
          /\ UNCHANGED <<linux, peer, started, got, outcome, interrupts, step, value, code, pipe, holders, group>>
          /\ \A j \in Jobs : signals'[j] \in {signals[j], signals[j] + 1}
          /\ signals' = [j \in Jobs |-> signals'[j]]
      BY <1>6 DEF Terminate
    <2>2. \A j \in Jobs : signals[j] \in Nat /\ signals[j] <= interrupts
      BY <2>1 DEF TypeOK, SignalsBounded
    <2>3. \A j \in Jobs : signals'[j] \in 0..(MaxInterrupts + 1) /\ signals'[j] <= interrupts + 1
      BY <2>1, <2>2 DEF TypeOK
    <2>4. TypeOK'
      BY <2>1, <2>3 DEF TypeOK
    <2> QED BY <2>1, <2>3, <2>4 DEF SignalsBounded, ForksInOrder, ValuesSet, Working
  <1>7. CASE Stopped
    BY <1>7 DEF Stopped, TypeOK, SignalsBounded, ForksInOrder, ValuesSet, Working, workerVars
  <1>8. CASE KillStragglers
    <2>1. PICK dead \in SUBSET Jobs :
            Exits(dead) /\ code' = [j \in Jobs |-> IF j \in dead THEN "bad" ELSE code[j]]
      BY <1>8 DEF KillStragglers, TypeOK
    <2>2. /\ parent = "wait" /\ parent' = "close" /\ outcome' = <<"cleanupFailed">>
          /\ UNCHANGED <<linux, peer, started, got, interrupts, value, pipe>>
      BY <1>8 DEF KillStragglers
    <2>3. TypeOK'
      BY <2>1, <2>2, ExitsTyped DEF TypeOK
    <2>4. SignalsBounded'
      BY <2>1, <2>2, ExitsTyped DEF TypeOK, SignalsBounded, Working
    <2>5. ForksInOrder' /\ ValuesSet'
      BY <2>1, <2>2, ExitsTyped DEF TypeOK, ForksInOrder, ValuesSet
    <2> QED BY <2>3, <2>4, <2>5
  <1>9. CASE Close
    BY <1>9 DEF Close, TypeOK, SignalsBounded, ForksInOrder, ValuesSet, Working, Over, workerVars
  <1>10. CASE ForkFails
    BY <1>10 DEF ForkFails, TypeOK, SignalsBounded, ForksInOrder, ValuesSet, Working, workerVars
  <1>11. CASE Interrupt
    <2>1. /\ interrupts < MaxInterrupts /\ interrupts' = interrupts + 1
          /\ parent \notin Over
          /\ outcome' = <<"cancelled">>
          /\ parent' = IF parent \in Working THEN "terminate" ELSE "broken"
          /\ peer' = 0
          /\ UNCHANGED <<linux, started, got, step, value, code, pipe, holders, group>>
          /\ \A j \in Jobs : signals'[j] \in {signals[j], signals[j] + 1}
          /\ signals' = [j \in Jobs |-> signals'[j]]
      BY <1>11 DEF Interrupt
    <2>2. interrupts' \in 0..MaxInterrupts
      BY <2>1 DEF TypeOK
    <2>3. SignalsBounded'
      BY <2>1 DEF TypeOK, SignalsBounded, Working
    <2>4. \A j \in Jobs : signals'[j] \in 0..(MaxInterrupts + 1)
      BY <2>1, <2>2, <2>3 DEF TypeOK, SignalsBounded
    <2>5. TypeOK'
      BY <2>1, <2>2, <2>4 DEF TypeOK, Over
    <2>6. ForksInOrder' /\ ValuesSet'
      BY <2>1 DEF ForksInOrder, ValuesSet
    <2> QED BY <2>3, <2>5, <2>6
  <1> QED
    BY <1>1, <1>2, <1>3, <1>4, <1>5, <1>6, <1>7, <1>8, <1>9, <1>10, <1>11 DEF ParentStep

\* A step of a worker concerns its own variables only.
WorkerMoves(j) ==
  WorkerStep(j) \/ HandleSignal(j) \/ StrayAppears(j) \/ StrayExits(j) \/ LeaderExits(j) \/ Die(j)

LEMMA WorkerOwn ==
  ASSUME Typed, NEW j \in Jobs, WorkerMoves(j)
  PROVE  /\ UNCHANGED parentVars
         /\ step' \in [Jobs -> Steps] /\ value' \in [Jobs -> {"none", "result", "error"}]
         /\ \A i \in Jobs : i # j => step'[i] = step[i] /\ value'[i] = value[i]
         /\ step[j] = "none" <=> step'[j] = "none"
         /\ step'[j] \in {"term", "poll", "reap", "report", "send", "blocked"} => value'[j] # "none"
         /\ signals' \in [Jobs -> Nat] /\ \A i \in Jobs : signals'[i] <= signals[i]
  <1> USE PairAssumption, JobsAre DEF Goto, WorkerSame, parentVars, workerVars
  <1>0. /\ step \in [Jobs -> Steps] /\ value \in [Jobs -> {"none", "result", "error"}]
        /\ signals \in [Jobs -> Nat]
        /\ step[j] \in {"term", "poll", "reap", "report", "send", "blocked"} => value[j] # "none"
    BY DEF Typed, TypeOK, ValuesSet
  <1>1. CASE Boot(j) \/ SpawnChild(j) \/ Supervise(j) \/ ChildDone(j) \/ StrayAppears(j) \/ StrayExits(j) \/ LeaderExits(j)
             \/ JobEnds(j) \/ NotDrained(j) \/ TermGroup(j) \/ KillGroup(j) \/ Reap(j)
             \/ Send(j) \/ SendLarge(j) \/ FinishSend(j)
    <2>1. UNCHANGED parentVars /\ UNCHANGED signals
      BY <1>1
      DEF Boot, SpawnChild, Supervise, ChildDone, StrayAppears, StrayExits, LeaderExits, JobEnds, NotDrained,
          TermGroup, KillGroup, Reap, Send, SendLarge, FinishSend
    <2>2. CASE Boot(j) \/ SpawnChild(j) \/ Supervise(j) \/ ChildDone(j) \/ TermGroup(j) \/ KillGroup(j) \/ Reap(j)
               \/ Send(j) \/ SendLarge(j) \/ FinishSend(j)
      <3>1. /\ UNCHANGED value
            /\ \E s \in Steps \ {"none"} : step' = [step EXCEPT ![j] = s]
            /\ step[j] # "none"
            /\ step'[j] \in {"term", "poll", "reap", "report", "send", "blocked"} =>
                 step[j] \in {"term", "poll", "reap", "report", "send", "blocked"}
        BY <1>0, <2>2
        DEF Boot, SpawnChild, Supervise, ChildDone, TermGroup, KillGroup, Reap, Send, SendLarge, FinishSend, Steps
      <3> QED BY <1>0, <2>1, <3>1
    <2>3. CASE JobEnds(j) \/ NotDrained(j)
      <3>1. /\ \E v \in {"result", "error"} : value' = [value EXCEPT ![j] = v]
            /\ \E s \in Steps \ {"none"} : step' = [step EXCEPT ![j] = s]
            /\ step[j] # "none"
        BY <1>0, <2>3 DEF JobEnds, NotDrained, Steps
      <3> QED BY <1>0, <2>1, <3>1
    <2>4. CASE StrayAppears(j) \/ StrayExits(j) \/ LeaderExits(j)
      BY <1>0, <2>1, <2>4 DEF StrayAppears, StrayExits, LeaderExits
    <2> QED BY <1>1, <2>2, <2>3, <2>4
  <1>2. CASE Exit(j) \/ InterruptBoot(j) \/ Die(j)
    <2>1. Exits({j}) /\ UNCHANGED <<parentVars, value>> /\ step[j] # "none"
      BY <1>2 DEF Exit, InterruptBoot, Die, Alive
    <2>2. /\ step' \in [Jobs -> Steps] /\ signals' \in [Jobs -> Nat]
          /\ \A i \in Jobs : signals'[i] <= signals[i]
          /\ step'[j] = "exited" /\ \A i \in Jobs : i # j => step'[i] = step[i]
      BY <2>1, ExitsTyped DEF Typed
    <2> QED BY <1>0, <2>1, <2>2
  <1>3. CASE InterruptJob(j) \/ InterruptResult(j) \/ InterruptReport(j)
    <2>1. /\ UNCHANGED parentVars
          /\ signals[j] > 0 /\ signals' = [signals EXCEPT ![j] = @ - 1]
          /\ \E s \in Steps \ {"none"} : step' = [step EXCEPT ![j] = s]
          /\ step[j] # "none"
          /\ \/ value' = [value EXCEPT ![j] = "error"]
             \/ UNCHANGED value /\ step'[j] = "closing"
      BY <1>0, <1>3
      DEF InterruptJob, InterruptResult, InterruptReport, Handled, Steps
    <2> QED BY <1>0, <2>1
  <1> QED
    BY <1>1, <1>2, <1>3 DEF WorkerMoves, WorkerStep, HandleSignal

LEMMA WorkerTyped ==
  ASSUME Typed, NEW j \in Jobs, WorkerMoves(j)
  PROVE  Typed'
  <1>0. TypeOK
    BY DEF Typed
  <1>1. SignalsBounded' /\ ForksInOrder' /\ ValuesSet'
    <2>1. SignalsBounded'
      BY WorkerOwn, <1>0, PairAssumption DEF Typed, SignalsBounded, TypeOK, parentVars
    <2>2. ForksInOrder'
      <3>1. \A i \in Jobs : step'[i] = "none" <=> step[i] = "none"
        BY WorkerOwn
      <3>2. started \subseteq Jobs /\ UNCHANGED <<parent, peer, started>>
        BY <1>0, WorkerOwn DEF TypeOK, parentVars
      <3> QED BY <3>1, <3>2 DEF Typed, ForksInOrder
    <2>3. ValuesSet'
      BY WorkerOwn DEF Typed, ValuesSet
    <2> QED BY <2>1, <2>2, <2>3
  <1>2. code' \in [Jobs -> {"none", "ok", "bad"}]
    BY <1>0
    DEF WorkerMoves, WorkerStep, HandleSignal, Boot, SpawnChild, Supervise, ChildDone, StrayAppears,
        StrayExits, LeaderExits, JobEnds, NotDrained, TermGroup, KillGroup, Reap, Send, SendLarge, FinishSend,
        Exit, InterruptBoot, InterruptJob, InterruptResult, InterruptReport, Die, WorkerSame,
        workerVars, TypeOK
  <1>3. pipe' \in [Jobs -> {"empty", "partial", "result", "error"}]
    <2>1. step[j] \in {"report", "send"} => value[j] \in {"result", "error"}
      BY <1>0 DEF Typed, TypeOK, ValuesSet
    <2> QED
      BY <1>0, <2>1
      DEF WorkerMoves, WorkerStep, HandleSignal, Boot, SpawnChild, Supervise, ChildDone, StrayAppears,
          StrayExits, LeaderExits, JobEnds, NotDrained, TermGroup, KillGroup, Reap, Send, SendLarge, FinishSend,
          Exit, InterruptBoot, InterruptJob, InterruptResult, InterruptReport, Die, Goto, TypeOK
  <1>4. holders' \in [Jobs -> SUBSET (Jobs \cup {0})]
    <2>1. CASE UNCHANGED holders
      BY <1>0, <2>1 DEF TypeOK
    <2>2. CASE Exits({j})
      BY <1>0, <2>2, ExitsTyped
    <2> QED
      BY <2>1, <2>2
      DEF WorkerMoves, WorkerStep, HandleSignal, Boot, SpawnChild, Supervise, ChildDone, StrayAppears,
          StrayExits, LeaderExits, JobEnds, NotDrained, TermGroup, KillGroup, Reap, Send, SendLarge, FinishSend,
          Exit, InterruptBoot, InterruptJob, InterruptResult, InterruptReport, Die, WorkerSame
  <1>5. group' \in [Jobs -> SUBSET Members]
    <2>1. CASE UNCHANGED group
      BY <1>0, <2>1 DEF TypeOK
    <2>2. CASE Exits({j})
      BY <1>0, <2>2, ExitsTyped
    <2>3. ASSUME NEW g \in SUBSET Members, group' = [group EXCEPT ![j] = g]
          PROVE  group' \in [Jobs -> SUBSET Members]
      BY <1>0, <2>3 DEF TypeOK
    <2>4. CASE SpawnChild(j)
      BY <2>3, <2>4 DEF SpawnChild, Members
    <2>5. CASE StrayAppears(j) \/ StrayExits(j) \/ LeaderExits(j)
      <3>1. \E g \in SUBSET Members : group' = [group EXCEPT ![j] = g]
        BY <1>0, <2>5 DEF StrayAppears, StrayExits, LeaderExits, TypeOK, Members
      <3> QED BY <2>3, <3>1
    <2>6. CASE TermGroup(j) \/ KillGroup(j)
      <3>1. \E g \in SUBSET Members : group' = [group EXCEPT ![j] = g]
        BY <1>0, <2>6 DEF TermGroup, KillGroup, TypeOK
      <3> QED BY <2>3, <3>1
    <2> QED
      BY <2>1, <2>2, <2>4, <2>5, <2>6
      DEF WorkerMoves, WorkerStep, HandleSignal, Boot, Supervise, ChildDone, JobEnds,
          NotDrained, Reap, Send, SendLarge, FinishSend, Exit, InterruptBoot, InterruptJob,
          InterruptResult, InterruptReport, Die
  <1>6. signals' \in [Jobs -> 0..(MaxInterrupts + 1)]
    BY <1>0, WorkerOwn, PairAssumption DEF TypeOK
  <1>7. TypeOK'
    BY <1>0, <1>2, <1>3, <1>4, <1>5, <1>6, WorkerOwn DEF TypeOK, parentVars
  <1> QED BY <1>1, <1>7 DEF Typed

LEMMA StepTyped == Typed /\ [Next]_vars => Typed'
  <1> SUFFICES ASSUME Typed, [Next]_vars PROVE Typed'
    OBVIOUS
  <1>1. CASE ParentStep \/ ForkFails \/ Interrupt
    BY <1>1, ParentTyped
  <1>2. CASE \E j \in Jobs : WorkerMoves(j)
    BY <1>2, WorkerTyped
  <1>3. CASE UNCHANGED vars
    BY <1>3
    DEF vars, parentVars, workerVars, Typed, TypeOK, SignalsBounded, ForksInOrder, ValuesSet
  <1> QED BY <1>1, <1>2, <1>3 DEF Next, WorkerMoves, Finished

(***************************************************************************)
(* Whatever the two workers, their jobs and the user do, every variable of *)
(* run_pair's model stays in its type: in particular no worker ever owes   *)
(* more interrupts than the user and _stop have sent (run_pair, _stop).    *)
(***************************************************************************)
THEOREM TypeCorrect == Spec => []TypeOK
  <1>1. Typed => TypeOK
    BY DEF Typed
  <1> QED BY InitTyped, StepTyped, <1>1, PTL DEF Spec
------------------------------------------------------------------------------
(***************************************************************************)
(* What a step of a worker and a step of the parent do to what the other   *)
(* parts of the invariant speak of.                                        *)
(***************************************************************************)
\* The other worker's pipe, exit code and group are not touched, and it
\* keeps the write end of its pipe.
LEMMA WorkerElsewhere ==
  ASSUME Typed, NEW j \in Jobs, WorkerMoves(j), NEW i \in Jobs, i # j
  PROVE  /\ pipe'[i] = pipe[i] /\ code'[i] = code[i] /\ group'[i] = group[i]
         /\ step'[i] = step[i]
         /\ i \in holders[i] => i \in holders'[i]
  <1>1. step'[i] = step[i]
    BY WorkerOwn
  <1>2. /\ pipe'[i] = pipe[i] /\ code'[i] = code[i] /\ group'[i] = group[i]
        /\ i \in holders[i] => i \in holders'[i]
    BY DEF Typed, TypeOK, WorkerMoves, WorkerStep, HandleSignal, Boot, SpawnChild, Supervise, ChildDone,
       StrayAppears, StrayExits, LeaderExits, JobEnds, NotDrained, TermGroup, KillGroup, Reap, Send, SendLarge,
       FinishSend, Exit, InterruptBoot, InterruptJob, InterruptResult, InterruptReport, Die,
       Exits, WorkerSame, workerVars
  <1> QED BY <1>1, <1>2

\* A message is written by a worker that reports, and the exit is final.
LEMMA WorkerReports ==
  ASSUME Typed, GroupsLed, NEW j \in Jobs, WorkerMoves(j)
  PROVE  /\ step[j] # "none"
         /\ step[j] = "exited" => step'[j] = "exited" /\ pipe'[j] = pipe[j] /\ code'[j] = code[j]
         /\ step[j] = "closing" => step'[j] \in {"closing", "exited"} /\ pipe'[j] = pipe[j]
         /\ \/ pipe'[j] = pipe[j] \/ pipe'[j] = "partial"
            \/ step'[j] = "closing"
         /\ code[j] = "bad" => code'[j] = "bad"
         /\ step'[j] # "exited" /\ j \in holders[j] => j \in holders'[j]
  <1> USE DEF Typed, TypeOK, Goto, WorkerSame, workerVars
  <1>1. CASE Boot(j) \/ SpawnChild(j) \/ Supervise(j) \/ ChildDone(j) \/ JobEnds(j) \/ NotDrained(j)
             \/ TermGroup(j) \/ KillGroup(j) \/ Reap(j) \/ InterruptJob(j)
    BY <1>1
    DEF Boot, SpawnChild, Supervise, ChildDone, JobEnds, NotDrained, TermGroup, KillGroup, Reap, InterruptJob
  <1>2. CASE StrayAppears(j) \/ StrayExits(j) \/ LeaderExits(j)
    <2>1. step[j] # "none"
      BY <1>2 DEF StrayAppears, StrayExits, LeaderExits, GroupsLed
    <2> QED BY <1>2, <2>1 DEF StrayAppears, StrayExits, LeaderExits
  <1>4. CASE Send(j) \/ SendLarge(j) \/ FinishSend(j)
    BY <1>4 DEF Send, SendLarge, FinishSend
  <1>5. CASE InterruptResult(j) \/ InterruptReport(j)
    BY <1>5 DEF InterruptResult, InterruptReport
  <1>6. CASE Exit(j) \/ InterruptBoot(j) \/ Die(j)
    BY <1>6 DEF Exit, InterruptBoot, Die, Exits, Alive
  <1> QED
    BY <1>1, <1>2, <1>4, <1>5, <1>6 DEF WorkerMoves, WorkerStep, HandleSignal

\* The parent writes into no pipe, and changes a worker only when it forks
\* it or kills it.
LEMMA ParentEffects ==
  ASSUME Typed, ParentStep \/ ForkFails \/ Interrupt, NEW j \in Jobs
  PROVE  /\ UNCHANGED <<linux, pipe, value>>
         /\ \/ step'[j] = step[j] /\ code'[j] = code[j] /\ group'[j] = group[j]
            \/ /\ step[j] = "none" /\ step'[j] = "boot" /\ code'[j] = code[j]
               /\ group'[j] = group[j] /\ parent = "fork" /\ j \in holders'[j]
            \/ /\ Alive(j) /\ step'[j] = "exited" /\ code'[j] = "bad"
               /\ linux => "leader" \notin group'[j]
         /\ j \in holders[j] /\ step'[j] # "exited" => j \in holders'[j]
  <1> USE JobsAre DEF Typed, TypeOK, workerVars
  <1>1. CASE Fork
    <2>1. PICK k \in Jobs :
            /\ step[k] = "none"
            /\ step' = [step EXCEPT ![k] = "boot"]
            /\ holders' = [i \in Jobs |->
                 IF i = k THEN {0, k}
                 ELSE IF 0 \in holders[i] THEN holders[i] \cup {k} ELSE holders[i]]
      BY <1>1 DEF Fork
    <2>2. parent = "fork" /\ UNCHANGED <<linux, pipe, value, code, group>>
      BY <1>1 DEF Fork
    <2> QED BY <2>1, <2>2
  <1>2. CASE Register
    BY <1>2 DEF Register
  <1>3. CASE KillStragglers
    <2>1. PICK dead \in SUBSET Jobs :
            /\ dead = {i \in started : Alive(i)}
            /\ Exits(dead) /\ code' = [i \in Jobs |-> IF i \in dead THEN "bad" ELSE code[i]]
      BY <1>3 DEF KillStragglers
    <2>2. UNCHANGED <<linux, pipe, value>>
      BY <1>3 DEF KillStragglers
    <2>3. CASE j \in dead
      BY <1>3, <2>1, <2>2, <2>3 DEF Exits
    <2>4. CASE j \notin dead
      BY <1>3, <2>1, <2>2, <2>4 DEF Exits
    <2> QED BY <2>3, <2>4
  <1>4. CASE (\E i \in Jobs : BeginReceive(i)) \/ Receive \/ Join \/ Terminate \/ Stopped
             \/ Close \/ ForkFails \/ Interrupt
    BY <1>4 DEF BeginReceive, Receive, Join, Terminate, Stopped, Close, ForkFails, Interrupt
  <1> QED BY <1>1, <1>2, <1>3, <1>4 DEF ParentStep
------------------------------------------------------------------------------
(***************************************************************************)
(* The steps keep the other parts of the invariant.                        *)
(***************************************************************************)
LEMMA InitPair == Init => PairInv
  <1> SUFFICES ASSUME Init PROVE PairInv
    OBVIOUS
  <1>1. Typed
    BY InitTyped
  <1> QED
    BY <1>1
    DEF Init, PairInv, MessagesSent, ResultsReceived, GroupsLed, OutcomesCaused, StoppedFirst,
        Alive, Working

LEMMA SentStep ==
  ASSUME Typed, MessagesSent, GroupsLed, [Next]_vars
  PROVE  MessagesSent'
  <1>1. CASE ParentStep \/ ForkFails \/ Interrupt
    BY <1>1, ParentEffects DEF MessagesSent, Alive
  <1>2. CASE \E j \in Jobs : WorkerMoves(j)
    <2>1. PICK j \in Jobs : WorkerMoves(j)
      BY <1>2
    <2> SUFFICES ASSUME NEW i \in Jobs
                 PROVE  /\ step'[i] = "none" => pipe'[i] = "empty"
                        /\ pipe'[i] \in {"result", "error"} => step'[i] \in {"closing", "exited"}
                        /\ Alive(i)' => i \in holders'[i]
      BY DEF MessagesSent
    <2>2. CASE i = j
      <3>1. step'[j] # "none"
        BY <2>1, WorkerOwn, WorkerReports
      <3> QED BY <2>1, <2>2, <3>1, WorkerReports DEF MessagesSent, Alive
    <2>3. CASE i # j
      BY <2>1, <2>3, WorkerElsewhere DEF MessagesSent, Alive
    <2> QED BY <2>2, <2>3
  <1>3. CASE UNCHANGED vars
    BY <1>3 DEF vars, workerVars, MessagesSent, Alive
  <1> QED BY <1>1, <1>2, <1>3 DEF Next, WorkerMoves, Finished

\* A complete message stays as it is, and so does the end of a worker.
LEMMA MessagesStay ==
  ASSUME Typed, MessagesSent, GroupsLed, [Next]_vars, NEW i \in Jobs
  PROVE  /\ pipe[i] \in {"result", "error"} => pipe'[i] = pipe[i]
         /\ step[i] = "exited" => step'[i] = "exited" /\ pipe'[i] = pipe[i] /\ code'[i] = code[i]
         /\ Lost(i) => Lost(i)'
  <1>1. CASE ParentStep \/ ForkFails \/ Interrupt
    BY <1>1, ParentEffects DEF MessagesSent, Alive, Lost
  <1>2. CASE \E j \in Jobs : WorkerMoves(j)
    <2>1. PICK j \in Jobs : WorkerMoves(j)
      BY <1>2
    <2>2. CASE i = j
      BY <2>1, <2>2, WorkerReports DEF MessagesSent, Alive, Lost
    <2>3. CASE i # j
      BY <2>1, <2>3, WorkerElsewhere DEF Lost
    <2> QED BY <2>2, <2>3
  <1>3. CASE UNCHANGED vars
    BY <1>3 DEF vars, workerVars, Lost
  <1> QED BY <1>1, <1>2, <1>3 DEF Next, WorkerMoves, Finished

LEMMA ReceivedStep ==
  ASSUME Typed, MessagesSent, GroupsLed, ResultsReceived, [Next]_vars
  PROVE  ResultsReceived'
  <1>0. got \in SUBSET Jobs /\ \A j \in Jobs : pipe[j] = "result" => pipe'[j] = "result"
    BY MessagesStay DEF Typed, TypeOK
  <1>1. CASE Receive
    <2>1. /\ peer \in Jobs
          /\ \/ pipe[peer] = "result" /\ got' = got \cup {peer} /\ (parent' = "join" => got' = Jobs)
             \/ got' = got /\ parent' = "terminate"
      BY <1>1 DEF Receive, Typed, ForksInOrder
    <2> QED BY <1>0, <2>1 DEF ResultsReceived
  <1>2. CASE got' = got /\ (parent' = "join" => parent = "join")
    BY <1>0, <1>2 DEF ResultsReceived
  <1>3. CASE ParentStep \/ ForkFails \/ Interrupt
    BY <1>1, <1>2, <1>3
    DEF ParentStep, Fork, Register, NextAfterRegister, BeginReceive, Join, Terminate, Stopped,
        KillStragglers, Close, ForkFails, Interrupt, Working
  <1>4. CASE \E j \in Jobs : WorkerMoves(j)
    BY <1>2, <1>4, WorkerOwn DEF parentVars
  <1>5. CASE UNCHANGED vars
    BY <1>2, <1>5 DEF vars, parentVars
  <1> QED BY <1>3, <1>4, <1>5 DEF Next, WorkerMoves, Finished

\* A worker's own steps and those of the processes it started.
LEMMA WorkerLed ==
  ASSUME Typed, GroupsLed, NEW j \in Jobs, WorkerMoves(j)
  PROVE  /\ step'[j] \in {"none", "boot", "job"} => group'[j] = {}
         /\ "leader" \in group'[j] =>
              \/ step'[j] \in {"spawn", "child", "term", "poll"}
              \/ value'[j] = "error" \/ code'[j] = "bad"
         /\ linux /\ ~Alive(j)' => "leader" \notin group'[j]
         /\ step'[j] = "drain" => ~OutputOpen(j)'
         /\ step'[j] = "reap" => ~GroupExists(j)'
  <1> USE DEF Goto, WorkerSame, workerVars, OutputOpen, GroupExists, HasOutput, InGroup, Alive
  <1>0. /\ step \in [Jobs -> Steps] /\ value \in [Jobs -> {"none", "result", "error"}]
        /\ code \in [Jobs -> {"none", "ok", "bad"}] /\ group \in [Jobs -> SUBSET Members]
        /\ step[j] \in {"none", "boot", "job"} => group[j] = {}
        /\ "leader" \in group[j] =>
             step[j] \in {"spawn", "child", "term", "poll"} \/ value[j] = "error" \/ code[j] = "bad"
        /\ linux /\ ~Alive(j) => "leader" \notin group[j]
        /\ step[j] = "drain" => ~OutputOpen(j)
        /\ step[j] = "reap" => ~GroupExists(j)
    BY DEF Typed, TypeOK, GroupsLed
  <1>1. CASE Boot(j) \/ SpawnChild(j) \/ Supervise(j) \/ ChildDone(j)
    BY <1>0, <1>1 DEF Boot, SpawnChild, Supervise, ChildDone
  <1>2. CASE JobEnds(j) \/ NotDrained(j)
    BY <1>0, <1>2 DEF JobEnds, NotDrained
  <1>3. CASE TermGroup(j)
    BY <1>0, <1>3 DEF TermGroup
  <1>4. CASE KillGroup(j) \/ Reap(j)
    BY <1>0, <1>4 DEF KillGroup, Reap
  <1>5. CASE Send(j) \/ SendLarge(j) \/ FinishSend(j)
    BY <1>0, <1>5 DEF Send, SendLarge, FinishSend
  <1>6. CASE InterruptJob(j) \/ InterruptResult(j) \/ InterruptReport(j)
    BY <1>0, <1>6 DEF InterruptJob, InterruptResult, InterruptReport
  <1>7. CASE Exit(j) \/ InterruptBoot(j) \/ Die(j)
    <2>1. /\ Exits({j}) /\ value' = value
          /\ code'[j] = "bad" \/ (step[j] = "closing" /\ (code[j] = "bad" => code'[j] = "bad"))
      BY <1>0, <1>7 DEF Exit, InterruptBoot, Die
    <2>2. /\ step'[j] = "exited" /\ group'[j] \subseteq group[j]
          /\ linux => "leader" \notin group'[j]
      BY <2>1, ExitsTyped DEF Typed
    <2> QED BY <1>0, <2>1, <2>2
  <1>8. CASE StrayAppears(j)
    BY <1>0, <1>8 DEF StrayAppears
  <1>9. CASE StrayExits(j) \/ LeaderExits(j)
    BY <1>0, <1>9 DEF StrayExits, LeaderExits
  <1> QED
    BY <1>1, <1>2, <1>3, <1>4, <1>5, <1>6, <1>7, <1>8, <1>9
    DEF WorkerMoves, WorkerStep, HandleSignal

LEMMA LedStep ==
  ASSUME Typed, GroupsLed, [Next]_vars
  PROVE  GroupsLed'
  <1> USE DEF GroupsLed, Alive, OutputOpen, GroupExists
  <1>1. CASE ParentStep \/ ForkFails \/ Interrupt
    <2> SUFFICES ASSUME NEW j \in Jobs
                 PROVE  /\ step'[j] \in {"none", "boot", "job"} => group'[j] = {}
                        /\ "leader" \in group'[j] =>
                             \/ step'[j] \in {"spawn", "child", "term", "poll"}
                             \/ value'[j] = "error" \/ code'[j] = "bad"
                        /\ linux' /\ ~Alive(j)' => "leader" \notin group'[j]
                        /\ step'[j] = "drain" => ~OutputOpen(j)'
                        /\ step'[j] = "reap" => ~GroupExists(j)'
      OBVIOUS
    <2>0. linux' = linux /\ value' = value
      BY <1>1, ParentEffects
    <2>1. CASE step'[j] = step[j] /\ code'[j] = code[j] /\ group'[j] = group[j]
      BY <2>0, <2>1
    <2>2. CASE /\ step[j] = "none" /\ step'[j] = "boot" /\ code'[j] = code[j]
               /\ group'[j] = group[j]
      BY <2>0, <2>2
    <2>3. CASE /\ step'[j] = "exited" /\ code'[j] = "bad"
               /\ linux => "leader" \notin group'[j]
      BY <2>0, <2>3
    <2> QED BY <1>1, <2>1, <2>2, <2>3, ParentEffects
  <1>2. CASE \E j \in Jobs : WorkerMoves(j)
    <2>1. PICK j \in Jobs : WorkerMoves(j)
      BY <1>2
    <2>2. linux' = linux
      BY <2>1, WorkerOwn DEF parentVars
    <2>3. \A i \in Jobs : i # j =>
            step'[i] = step[i] /\ value'[i] = value[i] /\ code'[i] = code[i] /\ group'[i] = group[i]
      BY <2>1, WorkerElsewhere, WorkerOwn
    <2> QED BY <2>1, <2>2, <2>3, WorkerLed
  <1>3. CASE UNCHANGED vars
    BY <1>3 DEF vars, parentVars, workerVars
  <1> QED BY <1>1, <1>2, <1>3 DEF Next, WorkerMoves, Finished

\* The ways in which the parent changes the outcome.
LEMMA OutcomeStep ==
  ASSUME Typed, ParentStep \/ ForkFails \/ Interrupt
  PROVE  \/ outcome' = outcome /\ interrupts' = interrupts
            /\ (parent \notin Working <=> parent' \notin Working)
         \/ outcome' = <<"cancelled">> /\ interrupts' > 0
         \/ /\ outcome' = <<"startFailed">> /\ parent' \notin Working /\ UNCHANGED step
            /\ \E j \in Jobs : step[j] = "none"
         \/ \E j \in Jobs : outcome' = <<"error", j>> /\ pipe[j] = "error"
         \/ \E j \in Jobs : outcome' \in {<<"workerFailed">>, <<"messageBroken">>}
                            /\ holders[j] = {} /\ pipe[j] \in {"empty", "partial"} /\ step[j] # "none"
                            /\ UNCHANGED <<step, code>>
         \/ \E j \in Jobs : outcome' = <<"workerFailed">> /\ code[j] = "bad" /\ code' = code
         \/ /\ outcome' = <<"returned">> /\ UNCHANGED <<step, code, got>> /\ parent = "join"
            /\ \A j \in Jobs : step[j] = "exited" /\ code[j] = "ok"
         \/ \E j \in Jobs : outcome' = <<"cleanupFailed">> /\ code'[j] = "bad"
  <1> USE DEF workerVars
  <1>1. CASE Fork \/ Register \/ (\E j \in Jobs : BeginReceive(j)) \/ Terminate \/ Stopped \/ Close
    BY <1>1
    DEF Fork, Register, NextAfterRegister, BeginReceive, Terminate, Stopped, Close, Working
  <1>2. CASE Receive
    <2>1. peer \in Jobs /\ step[peer] # "none" /\ parent = "recv"
      BY <1>2 DEF Receive, Typed, ForksInOrder
    <2> QED BY <1>2, <2>1 DEF Receive, EndOfFile, BrokenMessage, Working
  <1>3. CASE Join
    BY <1>3 DEF Join
  <1>4. CASE KillStragglers
    <2>1. PICK j \in started : Stuck(j)
      BY <1>4 DEF KillStragglers
    <2>2. j \in Jobs /\ Alive(j)
      BY <2>1 DEF Stuck, Alive, Typed, TypeOK
    <2>3. outcome' = <<"cleanupFailed">> /\ code'[j] = "bad"
      BY <1>4, <2>1, <2>2 DEF KillStragglers
    <2> QED BY <2>2, <2>3
  <1>5. CASE ForkFails
    BY <1>5 DEF ForkFails, Typed, ForksInOrder, Working
  <1>6. CASE Interrupt
    BY <1>6 DEF Interrupt, Typed, TypeOK
  <1> QED BY <1>1, <1>2, <1>3, <1>4, <1>5, <1>6 DEF ParentStep

LEMMA CausedStep ==
  ASSUME Typed, MessagesSent, GroupsLed, ResultsReceived, OutcomesCaused, [Next]_vars
  PROVE  OutcomesCaused'
  <1>1. /\ \A j \in Jobs : pipe[j] \in {"result", "error"} => pipe'[j] = pipe[j]
        /\ \A j \in Jobs : step[j] = "exited" =>
             step'[j] = "exited" /\ pipe'[j] = pipe[j] /\ code'[j] = code[j]
        /\ \A j \in Jobs : Lost(j) => Lost(j)'
    BY MessagesStay
  <1>2. ASSUME UNCHANGED <<outcome, interrupts>>,
               parent' \notin Working <=> parent \notin Working,
               \A j \in Jobs : parent \notin Working /\ step[j] = "none" => step'[j] = "none"
        PROVE  OutcomesCaused'
    BY <1>1, <1>2 DEF OutcomesCaused
  <1>3. CASE ParentStep \/ ForkFails \/ Interrupt
    <2>0. \A j \in Jobs : pipe'[j] = pipe[j]
      BY <1>3, ParentEffects
    <2>1. CASE /\ outcome' = outcome /\ interrupts' = interrupts
               /\ parent \notin Working <=> parent' \notin Working
      <3>1. \A j \in Jobs : parent \notin Working /\ step[j] = "none" => step'[j] = "none"
        BY <1>3, ParentEffects DEF Working, Alive
      <3> QED BY <1>2, <2>1, <3>1
    <2>2. CASE outcome' = <<"cancelled">> /\ interrupts' > 0
      BY <2>2 DEF OutcomesCaused
    <2>3. CASE /\ outcome' = <<"startFailed">> /\ parent' \notin Working /\ UNCHANGED step
               /\ \E j \in Jobs : step[j] = "none"
      BY <2>3 DEF OutcomesCaused
    <2>4. CASE \E j \in Jobs : outcome' = <<"error", j>> /\ pipe[j] = "error"
      BY <2>0, <2>4 DEF OutcomesCaused
    <2>5. CASE \E j \in Jobs : outcome' \in {<<"workerFailed">>, <<"messageBroken">>}
                            /\ holders[j] = {} /\ pipe[j] \in {"empty", "partial"} /\ step[j] # "none"
                            /\ UNCHANGED <<step, code>>
      <3>1. \E j \in Jobs : Lost(j)'
        BY <2>0, <2>5 DEF Lost, MessagesSent, Alive
      <3> QED BY <2>5, <3>1 DEF OutcomesCaused
    <2>6. CASE \E j \in Jobs : outcome' = <<"workerFailed">> /\ code[j] = "bad" /\ code' = code
      <3>1. \E j \in Jobs : Lost(j)'
        BY <2>6 DEF Lost
      <3> QED BY <2>6, <3>1 DEF OutcomesCaused
    <2>7. CASE /\ outcome' = <<"returned">> /\ UNCHANGED <<step, code, got>> /\ parent = "join"
               /\ \A j \in Jobs : step[j] = "exited" /\ code[j] = "ok"
      <3>1. \A j \in Jobs : pipe[j] = "result"
        BY <2>7 DEF ResultsReceived
      <3> QED BY <2>0, <2>7, <3>1 DEF OutcomesCaused
    <2>8. CASE \E j \in Jobs : outcome' = <<"cleanupFailed">> /\ code'[j] = "bad"
      <3>1. \E j \in Jobs : Lost(j)'
        BY <2>8 DEF Lost
      <3> QED BY <2>8, <3>1 DEF OutcomesCaused
    <2> QED
      BY <1>3, <2>1, <2>2, <2>3, <2>4, <2>5, <2>6, <2>7, <2>8, OutcomeStep
  <1>4. CASE \E j \in Jobs : WorkerMoves(j)
    <2>1. PICK j \in Jobs : WorkerMoves(j)
      BY <1>4
    <2>2. /\ UNCHANGED <<parent, outcome, interrupts>>
          /\ \A i \in Jobs : step[i] = "none" => step'[i] = "none"
      BY <2>1, WorkerOwn DEF parentVars
    <2> QED BY <1>2, <2>2
  <1>5. CASE UNCHANGED vars
    BY <1>2, <1>5 DEF vars, parentVars, workerVars
  <1> QED BY <1>3, <1>4, <1>5 DEF Next, WorkerMoves, Finished

LEMMA StoppedStep ==
  ASSUME Typed, MessagesSent, GroupsLed, StoppedFirst, [Next]_vars
  PROVE  StoppedFirst'
  <1>0. /\ started \in SUBSET Jobs /\ \A j \in started : step[j] # "none"
        /\ \A j \in Jobs : step[j] = "exited" => step'[j] = "exited"
    BY MessagesStay DEF Typed, TypeOK, ForksInOrder
  <1>1. CASE started' = started /\ (parent' \in {"close", "done"} => parent \in {"close", "done"})
    BY <1>0, <1>1 DEF StoppedFirst, Alive
  <1>2. CASE ParentStep \/ ForkFails \/ Interrupt
    <2>1. CASE Stopped
      BY <1>0, <2>1 DEF Stopped, StoppedFirst, Alive, workerVars
    <2>2. CASE KillStragglers
      BY <1>0, <2>2 DEF KillStragglers, Exits, StoppedFirst, Alive
    <2>3. CASE Fork \/ Register \/ (\E j \in Jobs : BeginReceive(j)) \/ Receive \/ Join
               \/ Terminate \/ Close \/ ForkFails \/ Interrupt
      <3>1. \/ started' = started /\ (parent' \in {"close", "done"} => parent \in {"close", "done"})
            \/ parent' \notin {"close", "done"}
        BY <2>3
        DEF Fork, Register, NextAfterRegister, BeginReceive, Receive, Join, Terminate, Close,
            ForkFails, Interrupt
      <3> QED BY <1>1, <3>1 DEF StoppedFirst
    <2> QED BY <1>2, <2>1, <2>2, <2>3 DEF ParentStep
  <1>3. CASE \E j \in Jobs : WorkerMoves(j)
    BY <1>1, <1>3, WorkerOwn DEF parentVars
  <1>4. CASE UNCHANGED vars
    BY <1>1, <1>4 DEF vars, parentVars
  <1> QED BY <1>2, <1>3, <1>4 DEF Next, WorkerMoves, Finished

LEMMA PairStep == PairInv /\ [Next]_vars => PairInv'
  BY StepTyped, SentStep, ReceivedStep, LedStep, CausedStep, StoppedStep DEF PairInv

LEMMA PairInvariant == Spec => []PairInv
  BY InitPair, PairStep, PTL DEF Spec
------------------------------------------------------------------------------
(***************************************************************************)
(* run_pair returns only two complete results of workers that exited with  *)
(* code 0: every way in which a worker can die or be interrupted, before,  *)
(* in the middle of or after its message, leads to another outcome         *)
(* (_receive, the joins of run_pair).                                      *)
(***************************************************************************)
THEOREM ResultsComplete == Spec => []PairComplete
  <1>1. PairInv => PairComplete
    BY DEF PairInv, OutcomesCaused, PairComplete
  <1> QED BY PairInvariant, <1>1, PTL

(***************************************************************************)
(* A check whose two workers both delivered a result and exited with code  *)
(* 0 does not fail, unless the user cancelled it: the order in which       *)
(* messages, ends of file and exits come cannot make it fail (_receive,    *)
(* _stop).                                                                 *)
(***************************************************************************)
THEOREM FailuresTrue == Spec => []NoFalseFailure
  <1>1. PairInv => NoFalseFailure
    <2> SUFFICES ASSUME PairInv, parent = "done", interrupts = 0,
                        \A j \in Jobs : pipe[j] = "result" /\ code[j] = "ok"
                 PROVE  outcome = <<"returned">>
      BY DEF NoFalseFailure
    <2>1. outcome # <<"none">> /\ outcome # <<"cancelled">>
      BY DEF PairInv, OutcomesCaused, Working
    <2>2. outcome # <<"startFailed">>
      BY DEF PairInv, OutcomesCaused, MessagesSent
    <2>3. \A j \in Jobs : outcome # <<"error", j>>
      BY DEF PairInv, OutcomesCaused
    <2>4. outcome \notin {<<"workerFailed">>, <<"messageBroken">>, <<"cleanupFailed">>}
      BY DEF PairInv, OutcomesCaused, Lost
    <2> QED BY <2>1, <2>2, <2>3, <2>4 DEF PairInv, Typed, TypeOK
  <1> QED BY PairInvariant, <1>1, PTL

(***************************************************************************)
(* When run_pair is over every worker it registered has exited, whatever   *)
(* was interrupted or killed on the way (_stop); its test process has,     *)
(* too, on Linux (arm_parent_death), and elsewhere unless the worker was   *)
(* itself interrupted or killed.                                           *)
(***************************************************************************)
THEOREM WorkersStopped == Spec => []WorkersGone
  <1>1. PairInv => WorkersGone
    <2> SUFFICES ASSUME PairInv, parent = "done", NEW j \in started
                 PROVE  /\ ~Alive(j)
                        /\ "leader" \in group[j] => ~linux /\ (code[j] = "bad" \/ value[j] = "error")
      BY DEF WorkersGone
    <2>1. ~Alive(j) /\ j \in Jobs
      BY DEF PairInv, StoppedFirst, Typed, TypeOK
    <2> QED BY <2>1 DEF PairInv, GroupsLed, Alive
  <1> QED BY PairInvariant, <1>1, PTL

(***************************************************************************)
(* A worker that reaches its report by itself, not because an interrupt    *)
(* threw it there, has an empty process group, and nobody has the output   *)
(* it has read: nothing the job started and can know of is left to write   *)
(* into the snapshot (_run_process, _completed_process,                    *)
(* _terminate_process_group).                                              *)
(***************************************************************************)
THEOREM GroupsDrained == Spec => DrainedBeforeReport
  <1>1. PairInv /\ [Next]_vars =>
          [\A j \in Jobs :
             step[j] # "report" /\ step'[j] = "report" /\ signals'[j] = signals[j] =>
               group'[j] = {}]_vars
    <2> SUFFICES ASSUME PairInv, [Next]_vars, NEW j \in Jobs,
                        step[j] # "report", step'[j] = "report", signals'[j] = signals[j]
                 PROVE  group'[j] = {}
      OBVIOUS
    <2>0. /\ Typed /\ GroupsLed /\ TypeOK
          /\ group[j] \in SUBSET Members
      BY DEF PairInv, Typed, TypeOK
    <2>1. WorkerMoves(j)
      <3>1. ~(ParentStep \/ ForkFails \/ Interrupt)
        BY <2>0, ParentEffects
      <3>2. \A i \in Jobs : WorkerMoves(i) => i = j
        BY <2>0, WorkerOwn
      <3>3. ~UNCHANGED vars
        BY DEF vars, workerVars
      <3> QED BY <3>1, <3>2, <3>3 DEF Next, WorkerMoves, Finished
    <2>2. JobEnds(j) \/ Reap(j)
      BY <2>0, <2>1
      DEF TypeOK, WorkerMoves, WorkerStep, HandleSignal, Boot, SpawnChild, Supervise, ChildDone,
          StrayAppears, StrayExits, LeaderExits, NotDrained, TermGroup, KillGroup, Send,
          SendLarge, FinishSend, Exit, InterruptBoot, InterruptJob, InterruptResult,
          InterruptReport, Die, Exits, Handled, Goto, workerVars
    <2>3. CASE JobEnds(j)
      <3>1. group' = group /\ (step[j] = "job" \/ (step[j] = "drain" /\ ~GroupExists(j)))
        BY <2>3 DEF JobEnds
      <3> QED
        BY <2>0, <3>1 DEF GroupsLed, GroupExists, OutputOpen, InGroup, HasOutput, Members
    <2>4. CASE Reap(j)
      <3>1. group' = group /\ step[j] = "reap" /\ ~OutputOpen(j)
        BY <2>4 DEF Reap, Goto
      <3> QED
        BY <2>0, <3>1 DEF GroupsLed, GroupExists, OutputOpen, InGroup, HasOutput, Members
    <2> QED BY <2>2, <2>3, <2>4
  <1> QED BY PairInvariant, <1>1, PTL DEF Spec, DrainedBeforeReport
==============================================================================
