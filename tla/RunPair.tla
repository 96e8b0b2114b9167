------------------------------- MODULE RunPair -------------------------------
(***************************************************************************)
(* The parallel mode of `check': run_pair (runner/parallel.py) runs the    *)
(* coverage and the mutation job in two forked workers, each with a pipe   *)
(* to the parent, and each job supervises a process group of its own       *)
(* (_run_process and its helpers, runner/mutation_backend.py).             *)
(*                                                                         *)
(* Time is left out: a deadline passes while what it waits for is missing, *)
(* and the ten seconds of _stop pass only for a worker that is stuck.      *)
(***************************************************************************)
EXTENDS Integers, FiniteSets

CONSTANTS
  MaxInterrupts, \* how often the user interrupts the command
  MaxStrays,     \* how many processes of a job outlive its test process
  MayDie         \* may a worker be killed from outside?

Jobs == 1..2

ASSUME PairAssumption ==
  /\ MaxInterrupts \in Nat
  /\ MaxStrays \in Nat
  /\ MayDie \in BOOLEAN

VARIABLES
  linux,       \* does the kernel kill the leaders of dead workers' groups?
  parent,      \* the step run_pair is at
  peer,        \* the job whose message it is reading, 0 if none
  started,     \* the jobs in `processes'
  got,         \* the jobs whose result was received
  outcome,     \* what run_pair will return or raise
  interrupts,  \* interrupts so far
  step,        \* step[j]: the step worker j is at
  value,       \* value[j]: what its job ended with
  code,        \* code[j]: its exit code, "ok" or "bad"
  signals,     \* signals[j]: interrupts it has not handled yet
  pipe,        \* pipe[j]: the bytes in its pipe
  holders,     \* holders[j]: the processes that have its write end open
  group        \* group[j]: the processes that its job has started

parentVars == <<linux, parent, peer, started, got, outcome, interrupts>>
workerVars == <<step, value, code, signals>>
vars == <<parentVars, workerVars, pipe, holders, group>>

(***************************************************************************)
(* The leader is the test process. What it leaves behind has its output    *)
(* closed ("quiet"), still has the leader's output ("loud"), or has the    *)
(* output and a session of its own ("away"), where no signal finds it.     *)
(***************************************************************************)
Members == {"leader", "quiet", "loud", "away"}

InGroup == {"leader", "quiet", "loud"}
HasOutput == {"leader", "loud", "away"}

GroupExists(j) == group[j] \cap InGroup # {}

OutputOpen(j) == group[j] \cap HasOutput # {}

Alive(j) == step[j] \notin {"none", "exited"}

\* run_pair is in its try block, where an interrupt leads to _stop.
Working == {"fork", "register", "receive", "recv", "join"}

\* run_pair is over; "broken" if its finally clause was interrupted.
Over == {"done", "broken"}

Init ==
  /\ linux \in BOOLEAN
  /\ parent = "fork" /\ peer = 0 /\ started = {} /\ got = {}
  /\ outcome = <<"none">> /\ interrupts = 0
  /\ step = [j \in Jobs |-> "none"]
  /\ value = [j \in Jobs |-> "none"]
  /\ code = [j \in Jobs |-> "none"]
  /\ signals = [j \in Jobs |-> 0]
  /\ pipe = [j \in Jobs |-> "empty"]
  /\ holders = [j \in Jobs |-> {}]
  /\ group = [j \in Jobs |-> {}]
------------------------------------------------------------------------------
(***************************************************************************)
(* The parent.                                                             *)
(***************************************************************************)
\* Pipe and process.start(): the child also inherits every write end that
\* the parent has open at that moment.
Fork ==
  /\ parent = "fork"
  /\ \E j \in Jobs :
       /\ step[j] = "none"
       /\ \A i \in Jobs : i < j => step[i] # "none"
       /\ step' = [step EXCEPT ![j] = "boot"]
       /\ holders' = [i \in Jobs |->
            IF i = j THEN {0, j}
            ELSE IF 0 \in holders[i] THEN holders[i] \cup {j} ELSE holders[i]]
  /\ parent' = "register"
  /\ UNCHANGED <<linux, peer, started, got, outcome, interrupts, value, code, signals, pipe, group>>

\* A directory, a pipe or a process cannot be made.
ForkFails ==
  /\ parent = "fork"
  /\ outcome' = <<"startFailed">>
  /\ parent' = "terminate"
  /\ UNCHANGED <<linux, peer, started, got, interrupts, workerVars, pipe, holders, group>>

NextAfterRegister == IF \E i \in Jobs : step[i] = "none" THEN "fork" ELSE "receive"

\* child.close() and the two appends.
Register ==
  /\ parent = "register"
  /\ started' = {j \in Jobs : step[j] # "none"}
  /\ holders' = [j \in Jobs |-> holders[j] \ {0}]
  /\ parent' = NextAfterRegister
  /\ UNCHANGED <<linux, peer, got, outcome, interrupts, workerVars, pipe, group>>

\* Mistake: the end of the file is seen before the bytes in front of it.
EarlyEndOfFile(j) == holders[j] = {}

EndOfFile(j) == pipe[j] \in {"empty", "partial"} /\ holders[j] = {}

\* The parent starts to read job j, whose message may be incomplete yet.
BeginReceive(j) ==
  /\ parent = "receive"
  /\ j \notin got
  /\ pipe[j] # "empty" \/ EndOfFile(j)
  /\ parent' = "recv"
  /\ peer' = j
  /\ UNCHANGED <<linux, started, got, outcome, interrupts, workerVars, pipe, holders, group>>

\* Mistake: the end of a pipe means that the worker is not ready yet.
ReceiveAgain ==
  /\ parent = "recv"
  /\ \/ /\ pipe[peer] = "result"
        /\ got' = got \cup {peer}
        /\ parent' = IF got' = Jobs THEN "join" ELSE "receive"
        /\ UNCHANGED outcome
     \/ /\ pipe[peer] = "error"
        /\ outcome' = <<"error", peer>>
        /\ parent' = "terminate"
        /\ UNCHANGED got
     \/ /\ EndOfFile(peer)
        /\ parent' = "receive"
        /\ UNCHANGED <<got, outcome>>
  /\ peer' = 0
  /\ UNCHANGED <<linux, started, interrupts, workerVars, pipe, holders, group>>

\* What recv() of run_pair raises at the end of the file: EOFError between
\* two parts of a message, OSError, which nobody expects, inside of one.
BrokenMessage(j) ==
  {<<"workerFailed">>} \cup (IF pipe[j] = "partial" THEN {<<"messageBroken">>} ELSE {})

\* connection.recv(): a result, the error of the job, or end of file.
Receive ==
  /\ parent = "recv"
  /\ \/ /\ pipe[peer] = "result"
        /\ got' = got \cup {peer}
        /\ parent' = IF got' = Jobs THEN "join" ELSE "receive"
        /\ UNCHANGED outcome
     \/ /\ pipe[peer] = "error"
        /\ outcome' = <<"error", peer>>
        /\ parent' = "terminate"
        /\ UNCHANGED got
     \/ /\ EndOfFile(peer)
        /\ outcome' \in BrokenMessage(peer)
        /\ parent' = "terminate"
        /\ UNCHANGED got
  /\ peer' = 0
  /\ UNCHANGED <<linux, started, interrupts, workerVars, pipe, holders, group>>

\* Mistake: the exit codes are not looked at.
JoinAny ==
  /\ parent = "join"
  /\ \A j \in Jobs : step[j] = "exited"
  /\ outcome' = <<"returned">>
  /\ parent' = "terminate"
  /\ UNCHANGED <<linux, peer, started, got, interrupts, workerVars, pipe, holders, group>>

\* process.join() in order; the first bad exit code is an error.
Join ==
  /\ parent = "join"
  /\ \/ /\ \A j \in Jobs : step[j] = "exited" /\ code[j] = "ok"
        /\ outcome' = <<"returned">>
     \/ /\ \E j \in Jobs :
             /\ step[j] = "exited" /\ code[j] = "bad"
             /\ \A i \in Jobs : i < j => step[i] = "exited" /\ code[i] = "ok"
        /\ outcome' = <<"workerFailed">>
  /\ parent' = "terminate"
  /\ UNCHANGED <<linux, peer, started, got, interrupts, workerVars, pipe, holders, group>>

\* Mistake: SIGTERM again and again until every worker is gone.
TerminateAgain ==
  /\ parent = "terminate"
  /\ signals' = [j \in Jobs |->
       IF j \in started /\ Alive(j) THEN signals[j] + 1 ELSE signals[j]]
  /\ parent' = IF \E j \in started : Alive(j) THEN "terminate" ELSE "wait"
  /\ UNCHANGED <<linux, peer, started, got, outcome, interrupts, step, value, code, pipe, holders, group>>

\* _stop: SIGTERM to every worker that is alive.
Terminate ==
  /\ parent = "terminate"
  /\ signals' = [j \in Jobs |->
       IF j \in started /\ Alive(j) THEN signals[j] + 1 ELSE signals[j]]
  /\ parent' = "wait"
  /\ UNCHANGED <<linux, peer, started, got, outcome, interrupts, step, value, code, pipe, holders, group>>

Stopped ==
  /\ parent = "wait"
  /\ \A j \in started : ~Alive(j)
  /\ parent' = "close"
  /\ UNCHANGED <<linux, peer, started, got, outcome, interrupts, workerVars, pipe, holders, group>>

\* A worker that dies gives up its write ends, and on Linux the kernel kills
\* the leader of its group (arm_parent_death); the other processes live on.
Exits(dead) ==
  /\ step' = [j \in Jobs |-> IF j \in dead THEN "exited" ELSE step[j]]
  /\ signals' = [j \in Jobs |-> IF j \in dead THEN 0 ELSE signals[j]]
  /\ holders' = [j \in Jobs |-> holders[j] \ dead]
  /\ group' = [j \in Jobs |->
       IF linux /\ j \in dead THEN group[j] \ {"leader"} ELSE group[j]]

\* A worker that waits for room in its pipe, which nobody empties, or for a
\* process that no signal reaches to close its output.
Stuck(j) ==
  /\ signals[j] = 0
  /\ step[j] \in {"send", "blocked"} \/ (step[j] = "reap" /\ OutputOpen(j))

\* Mistake: after join(10) the stragglers are left alone.
LeaveStragglers ==
  /\ parent = "wait"
  /\ \E j \in started : Stuck(j)
  /\ outcome' = <<"cleanupFailed">>
  /\ parent' = "close"
  /\ UNCHANGED <<linux, peer, started, got, interrupts, workerVars, pipe, holders, group>>

\* join(10) ran out: the stragglers are killed, and that is the error now.
KillStragglers ==
  /\ parent = "wait"
  /\ \E j \in started : Stuck(j)
  /\ LET dead == {j \in started : Alive(j)}
     IN  /\ Exits(dead)
         /\ code' = [j \in Jobs |-> IF j \in dead THEN "bad" ELSE code[j]]
  /\ outcome' = <<"cleanupFailed">>
  /\ parent' = "close"
  /\ UNCHANGED <<linux, peer, started, got, interrupts, value, pipe>>

\* The connections are closed and the temporary directory is removed.
Close ==
  /\ parent = "close"
  /\ parent' = "done"
  /\ UNCHANGED <<linux, peer, started, got, outcome, interrupts, workerVars, pipe, holders, group>>
------------------------------------------------------------------------------
(***************************************************************************)
(* A worker and the process group of its job.                              *)
(***************************************************************************)
WorkerSame(j) == UNCHANGED <<parentVars, code, signals, holders>>

Goto(j, from, to) ==
  /\ step[j] = from
  /\ step' = [step EXCEPT ![j] = to]

\* The signal handlers are in place and the job begins.
Boot(j) ==
  /\ Goto(j, "boot", "job")
  /\ WorkerSame(j)
  /\ UNCHANGED <<value, pipe, group>>

\* Popen: the test process runs from here on, but is not supervised yet.
SpawnChild(j) ==
  /\ Goto(j, "job", "spawn")
  /\ group' = [group EXCEPT ![j] = {"leader"}]
  /\ WorkerSame(j)
  /\ UNCHANGED <<value, pipe>>

\* Popen returned and the try block begins.
Supervise(j) ==
  /\ Goto(j, "spawn", "child")
  /\ WorkerSame(j)
  /\ UNCHANGED <<value, pipe, group>>

\* A process of the project's tests starts another, which may outlive it.
StrayAppears(j) ==
  /\ group[j] \cap {"leader", "loud"} # {}
  /\ Cardinality(group[j] \ {"leader"}) < MaxStrays
  /\ \E s \in {"quiet", "loud", "away"} \ group[j] :
       group' = [group EXCEPT ![j] = @ \cup {s}]
  /\ UNCHANGED <<parentVars, workerVars, pipe, holders>>

LeaderExits(j) ==
  /\ "leader" \in group[j]
  /\ group' = [group EXCEPT ![j] = @ \ {"leader"}]
  /\ UNCHANGED <<parentVars, workerVars, pipe, holders>>

\* The last stray process of a kind ends, which nothing makes it do.
StrayExits(j) ==
  /\ \E s \in group[j] \ {"leader"} : group' = [group EXCEPT ![j] = @ \ {s}]
  /\ UNCHANGED <<parentVars, workerVars, pipe, holders>>

\* communicate() without a timeout returns when the leader has ended and
\* every process that inherited its output has closed it.
ChildDone(j) ==
  /\ Goto(j, "child", "drain")
  /\ ~OutputOpen(j)
  /\ WorkerSame(j)
  /\ UNCHANGED <<value, pipe, group>>

\* Mistake: nobody looks at what the test process left behind.
JobEndsUndrained(j) ==
  /\ step[j] \in {"job", "drain"}
  /\ step' = [step EXCEPT ![j] = "report"]
  /\ \E v \in {"result", "error"} : value' = [value EXCEPT ![j] = v]
  /\ WorkerSame(j)
  /\ UNCHANGED <<pipe, group>>

\* The job ends with a result or with an error of its own.
JobEnds(j) ==
  /\ \/ step[j] = "job"
     \/ step[j] = "drain" /\ ~GroupExists(j)
  /\ step' = [step EXCEPT ![j] = "report"]
  /\ \E v \in {"result", "error"} : value' = [value EXCEPT ![j] = v]
  /\ WorkerSame(j)
  /\ UNCHANGED <<pipe, group>>

\* _completed_process: the group is not empty (childProcessTreeNotDrained).
NotDrained(j) ==
  /\ Goto(j, "drain", "term")
  /\ GroupExists(j)
  /\ value' = [value EXCEPT ![j] = "error"]
  /\ WorkerSame(j)
  /\ UNCHANGED <<pipe, group>>

\* _terminate_process_group: SIGTERM, which a process may ignore...
TermGroup(j) ==
  /\ Goto(j, "term", "poll")
  /\ \E dead \in SUBSET (group[j] \cap InGroup) : group' = [group EXCEPT ![j] = @ \ dead]
  /\ WorkerSame(j)
  /\ UNCHANGED <<value, pipe>>

\* ... then SIGKILL after a quarter of a second...
KillGroup(j) ==
  /\ Goto(j, "poll", "reap")
  /\ group' = [group EXCEPT ![j] = @ \ InGroup]
  /\ WorkerSame(j)
  /\ UNCHANGED <<value, pipe>>

\* ... then communicate() again, which waits for the output again: after
\* five seconds the leader is killed, and it waits without a limit.
Reap(j) ==
  /\ Goto(j, "reap", "report")
  /\ ~OutputOpen(j)
  /\ WorkerSame(j)
  /\ UNCHANGED <<value, pipe, group>>

\* connection.send: a message that fits the pipe is complete at once.
Send(j) ==
  /\ Goto(j, "report", "closing")
  /\ pipe' = [pipe EXCEPT ![j] = value[j]]
  /\ WorkerSame(j)
  /\ UNCHANGED <<value, group>>

\* A large result fills the pipe and waits for the reader.
SendLarge(j) ==
  /\ Goto(j, "report", "send")
  /\ value[j] = "result"
  /\ pipe' = [pipe EXCEPT ![j] = "partial"]
  /\ WorkerSame(j)
  /\ UNCHANGED <<value, group>>

FinishSend(j) ==
  /\ Goto(j, "send", "closing")
  /\ parent = "recv" /\ peer = j
  /\ pipe' = [pipe EXCEPT ![j] = value[j]]
  /\ WorkerSame(j)
  /\ UNCHANGED <<value, group>>

\* connection.close() and the exit of the process.
Exit(j) ==
  /\ step[j] = "closing"
  /\ code' = [code EXCEPT ![j] = IF @ = "none" THEN "ok" ELSE @]
  /\ Exits({j})
  /\ UNCHANGED <<parentVars, value, pipe>>

Handled(j) == signals' = [signals EXCEPT ![j] = @ - 1]

\* KeyboardInterrupt before the handlers and the try block of _worker.
InterruptBoot(j) ==
  /\ signals[j] > 0
  /\ step[j] = "boot"
  /\ code' = [code EXCEPT ![j] = "bad"]
  /\ Exits({j})
  /\ UNCHANGED <<parentVars, value, pipe>>

\* The job is interrupted: the first communicate() leads to the termination
\* of the group, any other place straight to the except clause of _worker.
InterruptJob(j) ==
  /\ signals[j] > 0
  /\ step[j] \in {"job", "spawn", "child", "drain", "term", "poll", "reap"}
  /\ step' = [step EXCEPT ![j] = IF @ = "child" THEN "term" ELSE "report"]
  /\ value' = [value EXCEPT ![j] = "error"]
  /\ Handled(j)
  /\ UNCHANGED <<parentVars, code, pipe, holders, group>>

\* The report of a result is interrupted before or in the middle of send:
\* the error follows, and finds no room behind a partial message.
InterruptResult(j) ==
  /\ signals[j] > 0
  /\ value[j] = "result"
  /\ step[j] \in {"report", "send"}
  /\ step' = [step EXCEPT ![j] = IF @ = "send" THEN "blocked" ELSE "report"]
  /\ value' = [value EXCEPT ![j] = "error"]
  /\ Handled(j)
  /\ UNCHANGED <<parentVars, code, pipe, holders, group>>

\* The report of an error is interrupted, or the exit: nobody catches it.
InterruptReport(j) ==
  /\ signals[j] > 0
  /\ \/ step[j] = "report" /\ value[j] = "error"
     \/ step[j] \in {"blocked", "closing"}
  /\ step' = [step EXCEPT ![j] = "closing"]
  /\ code' = [code EXCEPT ![j] = "bad"]
  /\ Handled(j)
  /\ UNCHANGED <<parentVars, value, pipe, holders, group>>
------------------------------------------------------------------------------
(***************************************************************************)
(* The environment: a worker is killed from outside (memory, os._exit),    *)
(* the user interrupts the whole command or only its first process.        *)
(***************************************************************************)
Die(j) ==
  /\ MayDie
  /\ Alive(j)
  /\ code' = [code EXCEPT ![j] = "bad"]
  /\ Exits({j})
  /\ UNCHANGED <<parentVars, value, pipe>>

Interrupt ==
  /\ interrupts < MaxInterrupts
  /\ parent \notin Over
  /\ interrupts' = interrupts + 1
  /\ \E hit \in {{}, {j \in Jobs : Alive(j)}} :
       signals' = [j \in Jobs |-> IF j \in hit THEN signals[j] + 1 ELSE signals[j]]
  /\ outcome' = <<"cancelled">>
  /\ parent' = IF parent \in Working THEN "terminate" ELSE "broken"
  /\ peer' = 0
  /\ UNCHANGED <<linux, started, got, step, value, code, pipe, holders, group>>
------------------------------------------------------------------------------
ParentStep ==
  \/ Fork \/ Register \/ (\E j \in Jobs : BeginReceive(j)) \/ Receive \/ Join
  \/ Terminate \/ Stopped \/ KillStragglers \/ Close

WorkerStep(j) ==
  \/ Boot(j) \/ SpawnChild(j) \/ Supervise(j) \/ ChildDone(j) \/ JobEnds(j)
  \/ NotDrained(j) \/ TermGroup(j) \/ KillGroup(j) \/ Reap(j)
  \/ Send(j) \/ SendLarge(j) \/ FinishSend(j) \/ Exit(j)

HandleSignal(j) ==
  InterruptBoot(j) \/ InterruptJob(j) \/ InterruptResult(j) \/ InterruptReport(j)

\* run_pair is over; a worker it no longer looks after may wait forever.
Finished ==
  /\ parent \in Over
  /\ parent = "done" => \A j \in started : ~Alive(j)
  /\ UNCHANGED vars

Next ==
  \/ ParentStep
  \/ \E j \in Jobs : WorkerStep(j) \/ HandleSignal(j)
  \/ \E j \in Jobs : StrayAppears(j) \/ StrayExits(j) \/ LeaderExits(j) \/ Die(j)
  \/ ForkFails
  \/ Interrupt
  \/ Finished

\* Every process keeps running and the test processes end; nobody has to
\* die or to interrupt, and what a test process leaves behind may stay.
Fairness ==
  /\ WF_vars(ParentStep)
  /\ \A j \in Jobs : WF_vars(WorkerStep(j)) /\ WF_vars(HandleSignal(j)) /\ WF_vars(LeaderExits(j))

Spec == Init /\ [][Next]_vars

FairSpec == Spec /\ Fairness
------------------------------------------------------------------------------
Steps ==
  {"none", "boot", "job", "spawn", "child", "drain", "term", "poll", "reap",
   "report", "send", "blocked", "closing", "exited"}

(***************************************************************************)
(* Type invariant. A worker owes at most one interrupt per interrupt of    *)
(* the user and one SIGTERM of _stop.                                      *)
(***************************************************************************)
TypeOK ==
  /\ linux \in BOOLEAN
  /\ parent \in Working \cup {"terminate", "wait", "close"} \cup Over
  /\ peer \in Jobs \cup {0}
  /\ started \in SUBSET Jobs
  /\ got \in SUBSET Jobs
  /\ outcome \in {<<"none">>, <<"returned">>, <<"startFailed">>, <<"workerFailed">>,
                  <<"messageBroken">>, <<"cleanupFailed">>, <<"cancelled">>} \cup {<<"error", j>> : j \in Jobs}
  /\ interrupts \in 0..MaxInterrupts
  /\ step \in [Jobs -> Steps]
  /\ value \in [Jobs -> {"none", "result", "error"}]
  /\ code \in [Jobs -> {"none", "ok", "bad"}]
  /\ signals \in [Jobs -> 0..(MaxInterrupts + 1)]
  /\ pipe \in [Jobs -> {"empty", "partial", "result", "error"}]
  /\ holders \in [Jobs -> SUBSET (Jobs \cup {0})]
  /\ group \in [Jobs -> SUBSET Members]

(***************************************************************************)
(* run_pair returns only two complete results of two workers that exited   *)
(* with code 0: a dead or interrupted worker never becomes a partial       *)
(* result (_receive and the joins of run_pair).                            *)
(***************************************************************************)
PairComplete ==
  parent = "done" /\ outcome = <<"returned">> =>
    \A j \in Jobs : pipe[j] = "result" /\ code[j] = "ok"

(***************************************************************************)
(* Without an interrupt, two workers that sent their results and exited    *)
(* with code 0 are never reported as a failure, in whatever order the      *)
(* messages, the ends of file and the exits come (_receive).               *)
(***************************************************************************)
NoFalseFailure ==
  parent = "done" /\ interrupts = 0 /\ (\A j \in Jobs : pipe[j] = "result" /\ code[j] = "ok") =>
    outcome = <<"returned">>

(***************************************************************************)
(* When run_pair is over, and its temporary directory is gone, no worker   *)
(* it registered is alive, unless the user interrupted the cleanup itself  *)
(* (_stop). The test process of a worker is gone, too, on Linux, where the *)
(* kernel sees to it (arm_parent_death); elsewhere it may outlive only a   *)
(* worker that was killed or interrupted, never one that ended by itself.  *)
(***************************************************************************)
WorkersGone ==
  parent = "done" =>
    \A j \in started :
      /\ ~Alive(j)
      /\ "leader" \in group[j] => ~linux /\ (code[j] = "bad" \/ value[j] = "error")

(***************************************************************************)
(* A worker that comes to its report without having been interrupted on    *)
(* the way leaves an empty process group behind, and nobody who could      *)
(* still write the output it has read (_run_process, _completed_process).  *)
(***************************************************************************)
DrainedBeforeReport ==
  [][\A j \in Jobs :
       step[j] # "report" /\ step'[j] = "report" /\ signals'[j] = signals[j] =>
         group'[j] = {}]_vars

(***************************************************************************)
(* run_pair ends although a worker may die at any point, without a message *)
(* or in the middle of one: the write ends are closed in every process     *)
(* that does not write, so the end of the pipe is seen (run_pair). One     *)
(* thing can keep it from ending: a process that outlives its test process *)
(* and keeps the output of it open for ever, since communicate() has no    *)
(* limit of time (_run_process).                                           *)
(***************************************************************************)
Finishes ==
  \/ <>(parent \in Over)
  \/ \E j \in Jobs : <>[](group[j] \cap {"loud", "away"} # {})

(***************************************************************************)
(* The error of a job is what run_pair raises: nothing that happens while  *)
(* the sibling is stopped replaces it (_stop in the finally of run_pair).  *)
(***************************************************************************)
OwnErrorKept == [][outcome[1] = "error" => outcome' = outcome]_vars

(***************************************************************************)
(* When run_pair is over, whether a job failed or the user cancelled, what *)
(* the jobs started is gone: no process group of a registered job is left  *)
(* (_terminate_process_group under _stop), and no forked worker waits to   *)
(* write a result nobody will read (_stop knows only `processes').         *)
(***************************************************************************)
CleanedUp ==
  parent = "done" =>
    /\ \A j \in started : ~GroupExists(j)
    /\ \A j \in Jobs : step[j] # "send"
==============================================================================
