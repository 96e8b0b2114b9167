----------------------------- MODULE MutationRun -----------------------------
(***************************************************************************)
(* One mutation measurement: run_mutmut (runner/mutation_backend.py) plans *)
(* the candidates, runs the unmodified tests twice, lets mutmut test every *)
(* planned mutant, replays each failure that mutmut reports, and the gate  *)
(* (mutation.py) judges the records.                                       *)
(*                                                                         *)
(* Tests may be flaky. What the tests really do with a mutant is `truth',  *)
(* and a run that shows something else is a flake; the claims of this      *)
(* module are about the verdict and the truth.                             *)
(***************************************************************************)
EXTENDS Integers, FiniteSets

CONSTANTS
  N,            \* number of candidates
  MaxFlakes,    \* how many test runs may differ from the truth
  MutationMin   \* percentage of killed mutants the gate asks for

ASSUME RunAssumption ==
  /\ N \in Nat
  /\ MaxFlakes \in Nat
  /\ MutationMin \in 0..100

Candidates == 1..N
\* The snapshot, and the tree mutmut instrumented with no mutant active.
Original == 0
Instrumented == N + 1
Subjects == 0..(N + 1)

VARIABLES
  truth,     \* truth[s]: what the tests do with s, chosen at its first run
  flakes,    \* test runs that showed something else
  step,      \* the step run_mutmut is at
  selected,  \* the candidates of the selected functions
  first,     \* what the first baseline showed
  raw,       \* raw[c]: what mutmut's run of mutant c showed
  replayed,  \* replayed[c]: the failure state of c after its replay
  records,   \* records[c]: the normalized status of c
  outcome    \* the verdict of the gate, or the error

vars == <<truth, flakes, step, selected, first, raw, replayed, records, outcome>>
------------------------------------------------------------------------------
(***************************************************************************)
(* What a pytest run shows. "pass" and "passOther" are complete passes of  *)
(* two different test inventories, "assertA" and "assertB" two different   *)
(* failures of an assertion, "error" a failure by another exception.       *)
(* "silent" exits with 1 and leaves no report, "crash" is a signal.        *)
(***************************************************************************)
Passes == {"pass", "passOther"}
AssertionOnly == {"assertA", "assertB"}
Reported == Passes \cup AssertionOnly \cup {"error", "empty", "internal"}
Shown == Reported \cup {"silent", "crash"}

\* The exit codes that the raw results distinguish.
ExitOne == AssertionOnly \cup {"error", "silent"}

\* "planFailed" is any error before the first baseline, such as a test
\* command that is not supported; "unknownRawState" also stands for
\* runnerInternalError.
Errors ==
  {"planFailed", "pytestObservationMissing", "baselineTestsFailed",
   "baselineInventoryChanged", "backendFailed", "killProofInvalid",
   "unknownRawState"}

Verdicts == {"passed", "zeroMutants", "nonKilledMutant"}

\* "runtimeError" stands for timedOut, pending, compileError and ignored
\* too: a mutant with any of these was neither killed nor survived, and the
\* gate takes them alike.
Statuses == {"killed", "survived", "uncovered", "runtimeError"}

Init ==
  /\ truth = [s \in Subjects |-> "unknown"]
  /\ flakes = 0
  /\ step = "plan"
  /\ selected = {}
  /\ first = "none"
  /\ raw = [c \in Candidates |-> "none"]
  /\ replayed = [c \in Candidates |-> "none"]
  /\ records = [c \in Candidates |-> "none"]
  /\ outcome = "none"

\* A run of the tests with subject s shows o.
Observe(s, o) ==
  /\ \/ truth[s] # "unknown" /\ UNCHANGED truth
     \/ truth[s] = "unknown" /\ \E t \in Shown : truth' = [truth EXCEPT ![s] = t]
  /\ \/ o = truth'[s] /\ UNCHANGED flakes
     \/ o # truth'[s] /\ flakes < MaxFlakes /\ flakes' = flakes + 1

NoTestRun == UNCHANGED <<truth, flakes>>

Raise(code) ==
  /\ step' = "done"
  /\ outcome' = code
------------------------------------------------------------------------------
(***************************************************************************)
(* The snapshot is copied and the candidates are enumerated; a selection   *)
(* of functions keeps some of them, no selection keeps all.                *)
(***************************************************************************)
Plan ==
  /\ step = "plan"
  /\ selected' \in SUBSET Candidates
  /\ step' = "first"
  /\ NoTestRun
  /\ UNCHANGED <<first, raw, replayed, records, outcome>>

PlanFails ==
  /\ step = "plan"
  /\ Raise("planFailed")
  /\ NoTestRun
  /\ UNCHANGED <<selected, first, raw, replayed, records>>

FirstBaseline ==
  /\ step = "first"
  /\ \E o \in Shown :
       /\ Observe(Original, o)
       /\ first' = o
       /\ IF o \in Reported
          THEN step' = "second" /\ UNCHANGED outcome
          ELSE Raise("pytestObservationMissing")
  /\ UNCHANGED <<selected, raw, replayed, records>>

\* Both baselines are judged after the second; no selected candidate means
\* an empty execution.
SecondBaseline ==
  /\ step = "second"
  /\ \E o \in Shown :
       /\ Observe(Original, o)
       /\ IF o \notin Reported THEN Raise("pytestObservationMissing")
          ELSE IF {first, o} \notin SUBSET Passes THEN Raise("baselineTestsFailed")
          ELSE IF first # o THEN Raise("baselineInventoryChanged")
          ELSE /\ step' = IF selected = {} THEN "gate" ELSE "backend"
               /\ UNCHANGED outcome
  /\ UNCHANGED <<selected, first, raw, replayed, records>>

Least(S) == CHOOSE x \in S : \A y \in S : x <= y

Untested == {c \in selected : raw[c] = "none"}

\* mutmut tests the planned mutants one after the other.
BackendTests ==
  /\ step = "backend"
  /\ \E c \in Untested :
       /\ c = Least(Untested)
       /\ \E o \in Shown :
            /\ Observe(c, o)
            /\ raw' = [raw EXCEPT ![c] = o]
  /\ UNCHANGED <<step, selected, first, replayed, records, outcome>>

\* No test reaches the mutant, so none is run (exit code 33).
BackendSkips ==
  /\ step = "backend"
  /\ \E c \in Untested :
       /\ c = Least(Untested)
       /\ raw' = [raw EXCEPT ![c] = "empty"]
  /\ NoTestRun
  /\ UNCHANGED <<step, selected, first, replayed, records, outcome>>

\* mutmut ends with 0; its result set is compared with the candidates.
BackendEnds ==
  /\ step = "backend"
  /\ Untested = {}
  /\ step' = IF \E c \in selected : raw[c] \in ExitOne THEN "control" ELSE "load"
  /\ NoTestRun
  /\ UNCHANGED <<selected, first, raw, replayed, records, outcome>>

BackendFails ==
  /\ step = "backend"
  /\ Raise("backendFailed")
  /\ NoTestRun
  /\ UNCHANGED <<selected, first, raw, replayed, records>>

\* Mistake: the instrumented tree is not run without a mutant.
ControlSkipped ==
  /\ step = "control"
  /\ step' = "replay"
  /\ NoTestRun
  /\ UNCHANGED <<selected, first, raw, replayed, records, outcome>>

\* The instrumented tree without an active mutant must pass.
Control ==
  /\ step = "control"
  /\ \E o \in Shown :
       /\ Observe(Instrumented, o)
       /\ IF o \notin Reported THEN Raise("pytestObservationMissing")
          ELSE IF o \notin Passes THEN Raise("baselineTestsFailed")
          ELSE step' = "replay" /\ UNCHANGED outcome
  /\ UNCHANGED <<selected, first, raw, replayed, records>>

Unreplayed == {c \in selected : raw[c] \in ExitOne /\ replayed[c] = "none"}

\* Mistakes: the failures of the two runs are not compared; only failed
\* assertions are accepted; the state is the failure itself.
SameExit(initial, replay) == initial \in ExitOne /\ replay \in ExitOne

OnlyAssertions(initial, replay) == initial \in AssertionOnly /\ replay = initial

\* The replay shows the same tests and the same failures.
SameFailure(initial, replay) == initial \in ExitOne /\ replay = initial

FailureItself(o) == o

FailureState(o) == IF o \in AssertionOnly THEN "killed" ELSE "runtimeError"

\* _replay_failure, for the failed mutants in sorted order.
Replay ==
  /\ step = "replay"
  /\ \E c \in Unreplayed :
       /\ c = Least(Unreplayed)
       /\ \/ /\ raw[c] \notin Reported
             /\ Raise("pytestObservationMissing")
             /\ NoTestRun
             /\ UNCHANGED replayed
          \/ /\ raw[c] \in Reported
             /\ \E o \in Shown :
                  /\ Observe(c, o)
                  /\ IF o \notin Reported
                     THEN Raise("pytestObservationMissing") /\ UNCHANGED replayed
                     ELSE IF ~SameFailure(raw[c], o)
                     THEN Raise("killProofInvalid") /\ UNCHANGED replayed
                     ELSE /\ replayed' = [replayed EXCEPT ![c] = FailureState(raw[c])]
                          /\ UNCHANGED <<step, outcome>>
  /\ UNCHANGED <<selected, first, raw, records>>

ReplayEnds ==
  /\ step = "replay"
  /\ Unreplayed = {}
  /\ step' = "load"
  /\ NoTestRun
  /\ UNCHANGED <<selected, first, raw, replayed, records, outcome>>

\* _normalize_status and _RAW_STATE_MAP.
Status(c) ==
  CASE raw[c] \in ExitOne  -> replayed[c]
    [] raw[c] \in Passes   -> "survived"
    [] raw[c] = "empty"    -> "uncovered"
    [] raw[c] = "crash"    -> "runtimeError"

\* load_results; an internal error of the runner (exit 3) and an unknown
\* exit code have no status.
Load ==
  /\ step = "load"
  /\ IF \E c \in Candidates : raw[c] = "internal"
     THEN Raise("unknownRawState") /\ UNCHANGED records
     ELSE /\ records' = [c \in Candidates |-> IF c \in selected THEN Status(c) ELSE "none"]
          /\ step' = "gate"
          /\ UNCHANGED outcome
  /\ NoTestRun
  /\ UNCHANGED <<selected, first, raw, replayed>>

Killed == {c \in selected : records[c] = "killed"}

\* Mistake: a mutant that no test reaches does not count.
RateOverCovered ==
  Cardinality(Killed) * 100 >=
    MutationMin * Cardinality({c \in selected : records[c] # "uncovered"})

KillRatePasses == Cardinality(Killed) * 100 >= MutationMin * Cardinality(selected)

\* evaluate_mutation_gate.
Gate ==
  /\ step = "gate"
  /\ Raise(IF selected = {} THEN "zeroMutants"
           ELSE IF KillRatePasses THEN "passed" ELSE "nonKilledMutant")
  /\ NoTestRun
  /\ UNCHANGED <<selected, first, raw, replayed, records>>
------------------------------------------------------------------------------
Done == step = "done" /\ UNCHANGED vars

Next ==
  \/ Plan \/ PlanFails \/ FirstBaseline \/ SecondBaseline
  \/ BackendTests \/ BackendSkips \/ BackendEnds \/ BackendFails
  \/ Control \/ Replay \/ ReplayEnds \/ Load \/ Gate
  \/ Done

Spec == Init /\ [][Next]_vars
------------------------------------------------------------------------------
(***************************************************************************)
(* Type invariant: the shapes of the observations, of the raw results and  *)
(* of the records (mutation_backend.py, mutmut_adapter.py).                *)
(***************************************************************************)
TypeOK ==
  /\ truth \in [Subjects -> Shown \cup {"unknown"}]
  /\ flakes \in 0..MaxFlakes
  /\ step \in {"plan", "first", "second", "backend", "control", "replay", "load",
               "gate", "done"}
  /\ selected \in SUBSET Candidates
  /\ first \in Shown \cup {"none"}
  /\ raw \in [Candidates -> Shown \cup {"none"}]
  /\ replayed \in [Candidates -> {"none", "killed", "runtimeError"}]
  /\ records \in [Candidates -> Statuses \cup {"none"}]
  /\ outcome \in Verdicts \cup Errors \cup {"none"}

(***************************************************************************)
(* One flaky test run cannot make a kill: if at most one run differed from *)
(* the truth, every killed mutant is one that the tests really detect by   *)
(* an assertion (_replay_failure).                                         *)
(***************************************************************************)
KillsAreReal ==
  flakes <= 1 => \A c \in Candidates : records[c] = "killed" => truth[c] \in AssertionOnly

(***************************************************************************)
(* With deterministic tests a kill is caused by the mutation: the same     *)
(* instrumented tree passes without it (_classify_test_failures).          *)
(***************************************************************************)
KillsAreCaused ==
  flakes = 0 /\ (\E c \in Candidates : records[c] = "killed") =>
    truth[Original] \in Passes /\ truth[Instrumented] \in Passes

(***************************************************************************)
(* A passed gate is earned: if at most one run differed from the truth,    *)
(* the tests really detect the share of the selected mutants that the gate *)
(* asks for, and there is at least one (evaluate_mutation_gate).           *)
(***************************************************************************)
PassIsEarned ==
  outcome = "passed" /\ flakes <= 1 =>
    /\ selected # {}
    /\ Cardinality({c \in selected : truth[c] \in AssertionOnly}) * 100
         >= MutationMin * Cardinality(selected)

(***************************************************************************)
(* Deterministic tests get a verdict: the only errors are those of the     *)
(* plan, of the backend, of tests that fail without a mutant and of        *)
(* mutants that leave no report or break the runner.                       *)
(***************************************************************************)
NoFalseAlarm ==
  outcome \in Errors \ {"planFailed", "backendFailed"} /\ flakes = 0 =>
    \/ truth[Original] \notin Passes
    \/ truth[Instrumented] \notin Passes
    \/ \E c \in selected : truth[c] \in {"silent", "internal"}
==============================================================================
