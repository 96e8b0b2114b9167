-------------------------- MODULE MutationRun_proofs --------------------------
(***************************************************************************)
(* Theorems about MutationRun for every number of candidates, of flaky     *)
(* test runs and every threshold.                                          *)
(***************************************************************************)
EXTENDS MutationRun, FiniteSetTheorems, TLAPS

\* After the backend every selected mutant has a raw result, and a verdict is
\* formed only at the end.
StepsInOrder ==
  /\ step \in {"control", "replay", "load"} => Untested = {}
  /\ outcome \in Verdicts => step = "done"

Typed == TypeOK /\ StepsInOrder

\* A failure that mutmut's run showed is what the tests do, or one run was flaky.
FailuresSeenOnce ==
  \A c \in Candidates : raw[c] \in ExitOne => truth[c] = raw[c] \/ flakes >= 1

\* A confirmed kill was shown by two runs, so it takes two flakes to fake one.
KillsSeenTwice ==
  \A c \in Candidates : replayed[c] = "killed" =>
    raw[c] \in AssertionOnly /\ (truth[c] = raw[c] \/ flakes >= 2)

\* Only confirmed kills are on record, and only of selected mutants.
KillsConfirmed ==
  \A c \in Candidates : records[c] = "killed" => replayed[c] = "killed" /\ c \in selected

\* The plan is made before there are records.
PlanFirst == step = "plan" => \A c \in Candidates : records[c] = "none"

KillInv == Typed /\ PlanFirst /\ FailuresSeenOnce /\ KillsSeenTwice /\ KillsConfirmed

\* What the gate looked at when it let the run pass.
PassInv == outcome = "passed" => selected # {} /\ KillRatePasses
------------------------------------------------------------------------------
(***************************************************************************)
(* A run of the tests learns the truth of its own subject at most and adds *)
(* one flake at most; a run that contradicts a known truth is a flake.     *)
(***************************************************************************)
LEMMA ObserveTyped ==
  ASSUME TypeOK, NEW s \in Subjects, NEW o \in Shown, Observe(s, o)
  PROVE  /\ truth' \in [Subjects -> Shown \cup {"unknown"}]
         /\ flakes' \in 0..MaxFlakes
         /\ flakes <= flakes' /\ flakes' <= flakes + 1
         /\ \A u \in Subjects : u # s \/ truth[u] # "unknown" => truth'[u] = truth[u]
         /\ truth'[s] = o \/ flakes' = flakes + 1
  <1>1. CASE truth' = truth
    <2>1. (o = truth'[s] /\ flakes' = flakes) \/ (flakes < MaxFlakes /\ flakes' = flakes + 1)
      BY DEF Observe
    <2> QED
      BY <1>1, <2>1, RunAssumption DEF TypeOK
  <1>2. CASE truth[s] = "unknown" /\ \E t \in Shown : truth' = [truth EXCEPT ![s] = t]
    <2>1. (o = truth'[s] /\ flakes' = flakes) \/ (flakes < MaxFlakes /\ flakes' = flakes + 1)
      BY DEF Observe
    <2> QED
      BY <1>2, <2>1, RunAssumption DEF TypeOK
  <1> QED
    BY <1>1, <1>2 DEF Observe

LEMMA InitTyped == Init => Typed
  BY RunAssumption DEF Init, Typed, TypeOK, StepsInOrder, Verdicts

LEMMA StepTyped ==
  ASSUME Typed, [Next]_vars
  PROVE  Typed'
  <1> USE DEF Typed
  <1>0. Candidates \subseteq Subjects /\ Original \in Subjects /\ Instrumented \in Subjects
    BY RunAssumption DEF Candidates, Subjects, Original, Instrumented
  <1>1. CASE Plan
    BY <1>1 DEF Plan, NoTestRun, TypeOK, StepsInOrder, Verdicts
  <1>2. CASE PlanFails
    BY <1>2 DEF PlanFails, Raise, NoTestRun, TypeOK, StepsInOrder, Verdicts, Errors
  <1>3. CASE FirstBaseline
    <2>1. PICK o \in Shown :
            /\ Observe(Original, o)
            /\ first' = o
            /\ \/ step' = "second" /\ outcome' = outcome
               \/ step' = "done" /\ outcome' \in Errors
      BY <1>3 DEF FirstBaseline, Raise, Errors
    <2> QED
      BY <1>0, <1>3, <2>1, ObserveTyped DEF FirstBaseline, TypeOK, StepsInOrder, Verdicts, Errors
  <1>4. CASE SecondBaseline
    <2>1. PICK o \in Shown :
            /\ Observe(Original, o)
            /\ \/ step' \in {"gate", "backend"} /\ outcome' = outcome
               \/ step' = "done" /\ outcome' \in Errors
      BY <1>4 DEF SecondBaseline, Raise, Errors
    <2> QED
      BY <1>0, <1>4, <2>1, ObserveTyped DEF SecondBaseline, TypeOK, StepsInOrder, Verdicts, Errors
  <1>5. CASE BackendTests
    <2>1. PICK c \in Untested, o \in Shown : Observe(c, o) /\ raw' = [raw EXCEPT ![c] = o]
      BY <1>5 DEF BackendTests
    <2>2. c \in Candidates /\ c \in Subjects
      BY <1>0, <2>1 DEF Untested, TypeOK
    <2> QED
      BY <1>5, <2>1, <2>2, ObserveTyped DEF BackendTests, TypeOK, StepsInOrder
  <1>6. CASE BackendSkips
    <2>1. PICK c \in Untested : raw' = [raw EXCEPT ![c] = "empty"]
      BY <1>6 DEF BackendSkips
    <2> QED
      BY <1>6, <2>1 DEF BackendSkips, NoTestRun, TypeOK, StepsInOrder, Shown, Reported
  <1>7. CASE BackendEnds
    BY <1>7 DEF BackendEnds, NoTestRun, TypeOK, StepsInOrder, Untested
  <1>8. CASE BackendFails
    BY <1>8 DEF BackendFails, Raise, NoTestRun, TypeOK, StepsInOrder, Errors
  <1>9. CASE Control
    <2>1. PICK o \in Shown :
            /\ Observe(Instrumented, o)
            /\ \/ step' = "replay" /\ outcome' = outcome
               \/ step' = "done" /\ outcome' \in Errors
      BY <1>9 DEF Control, Raise, Errors
    <2>2. Untested' = Untested /\ Untested = {}
      BY <1>9 DEF Control, Untested, StepsInOrder
    <2> QED
      BY <1>0, <1>9, <2>1, <2>2, ObserveTyped DEF Control, TypeOK, StepsInOrder, Verdicts, Errors
  <1>10. CASE Replay
    <2>1. Untested' = Untested /\ Untested = {}
      BY <1>10 DEF Replay, Untested, StepsInOrder
    <2>2. CASE NoTestRun /\ replayed' = replayed /\ Raise("pytestObservationMissing")
      BY <1>10, <2>1, <2>2 DEF Replay, NoTestRun, Raise, TypeOK, StepsInOrder, Verdicts, Errors
    <2>3. CASE \E c \in Unreplayed, o \in Shown :
                  /\ Observe(c, o)
                  /\ \/ replayed' = [replayed EXCEPT ![c] = FailureState(raw[c])]
                        /\ step' = step /\ outcome' = outcome
                     \/ replayed' = replayed /\ step' = "done" /\ outcome' \in Errors
      <3>1. PICK c \in Unreplayed, o \in Shown :
                  /\ Observe(c, o)
                  /\ \/ replayed' = [replayed EXCEPT ![c] = FailureState(raw[c])]
                        /\ step' = step /\ outcome' = outcome
                     \/ replayed' = replayed /\ step' = "done" /\ outcome' \in Errors
        BY <2>3
      <3>2. c \in Subjects /\ FailureState(raw[c]) \in {"killed", "runtimeError"}
        BY <1>0, <3>1 DEF Unreplayed, TypeOK, FailureState
      <3>3. replayed' \in [Candidates -> {"none", "killed", "runtimeError"}]
        BY <3>1, <3>2 DEF TypeOK
      <3> QED
        BY <1>10, <2>1, <3>1, <3>2, <3>3, ObserveTyped
        DEF Replay, TypeOK, StepsInOrder, Verdicts, Errors
    <2> QED
      BY <1>10, <2>2, <2>3 DEF Replay, Raise, Errors
  <1>11. CASE ReplayEnds
    BY <1>11 DEF ReplayEnds, NoTestRun, TypeOK, StepsInOrder, Untested
  <1>12. CASE Load
    <2>1. CASE \E c \in Candidates : raw[c] = "internal"
      BY <1>12, <2>1 DEF Load, Raise, NoTestRun, TypeOK, StepsInOrder, Verdicts, Errors
    <2>2. CASE ~ \E c \in Candidates : raw[c] = "internal"
      <3>1. ASSUME NEW c \in selected
            PROVE  Status(c) \in Statuses \cup {"none"}
        <4>1. c \in Candidates /\ raw[c] # "none" /\ raw[c] # "internal" /\ raw[c] \in Shown
          BY <1>12, <2>2 DEF Load, StepsInOrder, Untested, TypeOK
        <4>2. replayed[c] \in {"none", "killed", "runtimeError"}
          BY <4>1 DEF TypeOK
        <4> QED
          BY <4>1, <4>2 DEF Status, Statuses, Shown, Reported, ExitOne, Passes, AssertionOnly
      <3>2. records' \in [Candidates -> Statuses \cup {"none"}]
        BY <1>12, <2>2, <3>1 DEF Load, TypeOK
      <3> QED
        BY <1>12, <2>2, <3>2 DEF Load, NoTestRun, TypeOK, StepsInOrder
    <2> QED
      BY <2>1, <2>2
  <1>13. CASE Gate
    BY <1>13 DEF Gate, Raise, NoTestRun, TypeOK, StepsInOrder, Verdicts
  <1>14. CASE UNCHANGED vars
    BY <1>14 DEF vars, TypeOK, StepsInOrder, Untested
  <1> QED
    BY <1>1, <1>2, <1>3, <1>4, <1>5, <1>6, <1>7, <1>8, <1>9, <1>10, <1>11, <1>12, <1>13, <1>14
    DEF Next, Done

(***************************************************************************)
(* Every observation, raw result and record keeps its type, for any number *)
(* of candidates (mutation_backend.py, mutmut_adapter.py).                 *)
(***************************************************************************)
THEOREM TypeCorrect == Spec => []TypeOK
  <1>1. Init => Typed
    BY InitTyped
  <1>2. Typed /\ [Next]_vars => Typed'
    BY StepTyped
  <1>3. Typed => TypeOK
    BY DEF Typed
  <1> QED
    BY <1>1, <1>2, <1>3, PTL DEF Spec
------------------------------------------------------------------------------
(***************************************************************************)
(* A run of another subject, or of a subject whose truth is known, leaves  *)
(* the three facts about kills as they are.                                *)
(***************************************************************************)
LEMMA ObserveKeepsKills ==
  ASSUME KillInv, NEW s \in Subjects, NEW o \in Shown, Observe(s, o),
         UNCHANGED <<raw, replayed, records, selected>>
  PROVE  (FailuresSeenOnce /\ KillsSeenTwice /\ KillsConfirmed)'
  <1>1. Candidates \subseteq Subjects /\ "unknown" \notin ExitOne
        /\ AssertionOnly \subseteq ExitOne
    BY RunAssumption DEF Candidates, Subjects, ExitOne, AssertionOnly
  <1>2. /\ flakes \in Nat /\ flakes' \in Nat /\ flakes <= flakes'
        /\ \A u \in Subjects : truth[u] # "unknown" => truth'[u] = truth[u]
    BY ObserveTyped, RunAssumption DEF KillInv, Typed, TypeOK
  <1> QED
    BY <1>1, <1>2 DEF KillInv, FailuresSeenOnce, KillsSeenTwice, KillsConfirmed

\* A step without a test run that keeps the results keeps them too.
LEMMA StutterKeepsKills ==
  ASSUME KillInv, UNCHANGED <<truth, flakes, raw, replayed, records>>, selected \subseteq selected'
  PROVE  (FailuresSeenOnce /\ KillsSeenTwice /\ KillsConfirmed)'
  BY DEF KillInv, FailuresSeenOnce, KillsSeenTwice, KillsConfirmed

LEMMA StepKeepsKills ==
  ASSUME KillInv, [Next]_vars
  PROVE  (FailuresSeenOnce /\ KillsSeenTwice /\ KillsConfirmed)'
  <1>0. /\ Candidates \subseteq Subjects /\ Original \in Subjects /\ Instrumented \in Subjects
        /\ "unknown" \notin ExitOne /\ "none" \notin ExitOne /\ "empty" \notin ExitOne
        /\ AssertionOnly \subseteq ExitOne
    BY RunAssumption
    DEF Candidates, Subjects, Original, Instrumented, ExitOne, AssertionOnly
  <1>1. CASE Plan
    BY <1>1
    DEF Plan, NoTestRun, KillInv, PlanFirst, FailuresSeenOnce, KillsSeenTwice, KillsConfirmed
  <1>2. CASE PlanFails \/ BackendEnds \/ BackendFails \/ ReplayEnds \/ Gate \/ UNCHANGED vars
    BY <1>2, StutterKeepsKills
    DEF PlanFails, BackendEnds, BackendFails, ReplayEnds, Gate, NoTestRun, vars
  <1>3. CASE FirstBaseline
    BY <1>0, <1>3, ObserveKeepsKills DEF FirstBaseline
  <1>4. CASE SecondBaseline
    BY <1>0, <1>4, ObserveKeepsKills DEF SecondBaseline
  <1>5. CASE BackendTests
    <2>1. PICK c \in Untested, o \in Shown : Observe(c, o) /\ raw' = [raw EXCEPT ![c] = o]
      BY <1>5 DEF BackendTests
    <2>2. /\ c \in Candidates /\ c \in Subjects /\ raw[c] = "none"
          /\ raw \in [Candidates -> Shown \cup {"none"}] /\ flakes \in Nat
          /\ UNCHANGED <<replayed, records, selected>>
      BY <1>0, <1>5, <2>1, RunAssumption DEF BackendTests, Untested, KillInv, Typed, TypeOK
    <2>3. /\ flakes' \in Nat /\ flakes <= flakes'
          /\ \A u \in Subjects : u # c => truth'[u] = truth[u]
          /\ truth'[c] = o \/ flakes' = flakes + 1
      BY <2>1, <2>2, ObserveTyped, RunAssumption DEF KillInv, Typed, TypeOK
    <2>4. FailuresSeenOnce'
      BY <1>0, <2>1, <2>2, <2>3 DEF KillInv, FailuresSeenOnce
    <2>5. KillsSeenTwice'
      BY <1>0, <2>1, <2>2, <2>3 DEF KillInv, KillsSeenTwice, AssertionOnly
    <2>6. KillsConfirmed'
      BY <2>2 DEF KillInv, KillsConfirmed
    <2> QED
      BY <2>4, <2>5, <2>6
  <1>6. CASE BackendSkips
    <2>1. PICK c \in Untested : raw' = [raw EXCEPT ![c] = "empty"]
      BY <1>6 DEF BackendSkips
    <2>2. /\ c \in Candidates /\ raw[c] = "none" /\ raw \in [Candidates -> Shown \cup {"none"}]
          /\ UNCHANGED <<truth, flakes, replayed, records, selected>>
      BY <1>6, <2>1 DEF BackendSkips, NoTestRun, Untested, KillInv, Typed, TypeOK
    <2> QED
      BY <1>0, <2>1, <2>2
      DEF KillInv, FailuresSeenOnce, KillsSeenTwice, KillsConfirmed, AssertionOnly
  <1>7. CASE Control
    BY <1>0, <1>7, ObserveKeepsKills DEF Control
  <1>8. CASE Replay
    <2>1. CASE NoTestRun /\ replayed' = replayed
      BY <1>8, <2>1, StutterKeepsKills DEF Replay, NoTestRun
    <2>2. CASE (\E c \in Unreplayed, o \in Shown : Observe(c, o)) /\ replayed' = replayed
      BY <1>0, <1>8, <2>2, ObserveKeepsKills
      DEF Replay, Unreplayed, KillInv, Typed, TypeOK
    <2>3. CASE \E c \in Unreplayed, o \in Shown :
                  /\ Observe(c, o)
                  /\ SameFailure(raw[c], o)
                  /\ replayed' = [replayed EXCEPT ![c] = FailureState(raw[c])]
      <3>1. PICK c \in Unreplayed, o \in Shown :
                  /\ Observe(c, o)
                  /\ SameFailure(raw[c], o)
                  /\ replayed' = [replayed EXCEPT ![c] = FailureState(raw[c])]
        BY <2>3
      <3>2. /\ c \in Candidates /\ c \in Subjects /\ raw[c] \in ExitOne /\ raw[c] = o
            /\ replayed[c] = "none" /\ flakes \in Nat
            /\ replayed \in [Candidates -> {"none", "killed", "runtimeError"}]
            /\ UNCHANGED <<raw, records, selected>>
        BY <1>0, <1>8, <3>1, RunAssumption
        DEF Replay, Unreplayed, SameFailure, KillInv, Typed, TypeOK
      <3>3. /\ flakes' \in Nat /\ flakes <= flakes'
            /\ \A u \in Subjects : u # c \/ truth[u] # "unknown" => truth'[u] = truth[u]
            /\ truth'[c] = o \/ flakes' = flakes + 1
        BY <3>1, <3>2, ObserveTyped, RunAssumption DEF KillInv, Typed, TypeOK
      <3>4. FailuresSeenOnce'
        BY <1>0, <3>2, <3>3 DEF KillInv, FailuresSeenOnce
      <3>5. truth'[c] = raw[c] \/ flakes' >= 2
        <4>1. CASE truth[c] = raw[c]
          BY <1>0, <3>2, <3>3, <4>1
        <4>2. CASE truth[c] # raw[c]
          BY <3>2, <3>3, <4>2 DEF KillInv, FailuresSeenOnce
        <4> QED
          BY <4>1, <4>2
      <3>6. replayed'[c] = "killed" => raw[c] \in AssertionOnly
        BY <3>1, <3>2 DEF FailureState
      <3>7. \A u \in Candidates : u # c => replayed'[u] = replayed[u]
        BY <3>1, <3>2
      <3>8. KillsSeenTwice'
        BY <1>0, <3>2, <3>3, <3>5, <3>6, <3>7 DEF KillInv, KillsSeenTwice
      <3>9. KillsConfirmed'
        BY <3>2, <3>7 DEF KillInv, KillsConfirmed
      <3> QED
        BY <3>4, <3>8, <3>9
    <2> QED
      BY <1>8, <2>1, <2>2, <2>3 DEF Replay
  <1>9. CASE Load
    <2>1. UNCHANGED <<truth, flakes, raw, replayed, selected>>
      BY <1>9 DEF Load, NoTestRun
    <2>2. FailuresSeenOnce' /\ KillsSeenTwice'
      BY <2>1 DEF KillInv, FailuresSeenOnce, KillsSeenTwice
    <2>3. CASE \E c \in Candidates : raw[c] = "internal"
      BY <1>9, <2>1, <2>3, StutterKeepsKills DEF Load
    <2>4. CASE ~ \E c \in Candidates : raw[c] = "internal"
      <3>1. records' = [c \in Candidates |-> IF c \in selected THEN Status(c) ELSE "none"]
        BY <1>9, <2>4 DEF Load
      <3>2. ASSUME NEW c \in selected, Status(c) = "killed"
            PROVE  replayed[c] = "killed"
        <4>1. raw[c] # "none" /\ raw[c] # "internal" /\ raw[c] \in Shown
          BY <1>9, <2>4, <3>2 DEF Load, KillInv, Typed, StepsInOrder, Untested, TypeOK
        <4> QED
          BY <3>2, <4>1 DEF Status, Shown, Reported, ExitOne, Passes, AssertionOnly
      <3>3. KillsConfirmed'
        BY <2>1, <3>1, <3>2 DEF KillsConfirmed
      <3> QED
        BY <2>2, <3>3
    <2> QED
      BY <2>3, <2>4
  <1> QED
    BY <1>1, <1>2, <1>3, <1>4, <1>5, <1>6, <1>7, <1>8, <1>9 DEF Next, Done

LEMMA InitKills == Init => KillInv /\ PassInv
  <1>1. Init => PlanFirst /\ FailuresSeenOnce /\ KillsSeenTwice /\ KillsConfirmed /\ PassInv
    BY DEF Init, PlanFirst, FailuresSeenOnce, KillsSeenTwice, KillsConfirmed, PassInv, ExitOne,
           AssertionOnly
  <1> QED
    BY <1>1, InitTyped DEF KillInv

LEMMA StepKills ==
  ASSUME KillInv, [Next]_vars
  PROVE  KillInv'
  <1>1. Typed'
    BY StepTyped DEF KillInv
  <1>2. PlanFirst'
    <2>1. step' = "plan" => UNCHANGED vars
      BY DEF Next, Plan, PlanFails, FirstBaseline, SecondBaseline, BackendTests, BackendSkips,
             BackendEnds, BackendFails, Control, Replay, ReplayEnds, Load, Gate, Done, Raise
    <2> QED
      BY <2>1 DEF KillInv, PlanFirst, vars
  <1> QED
    BY <1>1, <1>2, StepKeepsKills DEF KillInv

LEMMA KillsFollow == KillInv => KillsAreReal
  BY RunAssumption
  DEF KillInv, KillsConfirmed, KillsSeenTwice, KillsAreReal, Typed, TypeOK

(***************************************************************************)
(* One flaky test run cannot make a kill, whatever the number of           *)
(* candidates and whatever else happens: a mutant on record as killed      *)
(* while at most one run differed from the truth is one that the tests     *)
(* really detect by an assertion (_replay_failure).                        *)
(***************************************************************************)
THEOREM KillsReal == Spec => []KillsAreReal
  <1>1. Init => KillInv
    BY InitKills
  <1>2. KillInv /\ [Next]_vars => KillInv'
    BY StepKills
  <1> QED
    BY <1>1, <1>2, KillsFollow, PTL DEF Spec
------------------------------------------------------------------------------
(***************************************************************************)
(* A run passes in the gate and nowhere else, and nothing changes after.   *)
(***************************************************************************)
LEMMA StepPass ==
  ASSUME Typed, PassInv, [Next]_vars
  PROVE  PassInv'
  <1>1. CASE UNCHANGED vars
    BY <1>1 DEF vars, PassInv, KillRatePasses, Killed
  <1>2. CASE Gate
    <2>1. /\ outcome' = "passed" => selected # {} /\ KillRatePasses
          /\ selected' = selected /\ records' = records
      BY <1>2 DEF Gate, Raise
    <2> QED
      BY <2>1 DEF PassInv, KillRatePasses, Killed
  <1>3. CASE Next /\ ~Gate /\ ~Done
    <2>1. step # "done" /\ outcome' \in Errors \cup {outcome}
      BY <1>3
      DEF Next, Plan, PlanFails, FirstBaseline, SecondBaseline, BackendTests, BackendSkips,
          BackendEnds, BackendFails, Control, Replay, ReplayEnds, Load, Raise, NoTestRun, Errors
    <2>2. outcome' # "passed"
      BY <2>1 DEF Typed, StepsInOrder, Verdicts, Errors
    <2> QED
      BY <2>2 DEF PassInv
  <1> QED
    BY <1>1, <1>2, <1>3 DEF Done

LEMMA PassFollows == KillInv /\ PassInv => PassIsEarned
  <1> SUFFICES ASSUME KillInv, PassInv, outcome = "passed", flakes <= 1
               PROVE  /\ selected # {}
                      /\ Cardinality({c \in selected : truth[c] \in AssertionOnly}) * 100
                           >= MutationMin * Cardinality(selected)
    BY DEF PassIsEarned
  <1> DEFINE real == {c \in selected : truth[c] \in AssertionOnly}
  <1>1. selected # {} /\ Cardinality(Killed) * 100 >= MutationMin * Cardinality(selected)
    BY DEF PassInv, KillRatePasses
  <1>2. IsFiniteSet(selected)
    <2>1. IsFiniteSet(Candidates)
      BY RunAssumption, FS_Interval DEF Candidates
    <2>2. selected \subseteq Candidates
      BY DEF KillInv, Typed, TypeOK
    <2> QED
      BY <2>1, <2>2, FS_Subset
  <1>3. IsFiniteSet(real) /\ real \subseteq selected
    BY <1>2, FS_Subset
  <1>4. Killed \subseteq real
    BY KillsFollow DEF KillsAreReal, Killed, KillInv, Typed, TypeOK
  <1>5. /\ Cardinality(Killed) \in Nat /\ Cardinality(real) \in Nat
        /\ Cardinality(selected) \in Nat /\ Cardinality(Killed) <= Cardinality(real)
    BY <1>2, <1>3, <1>4, FS_Subset, FS_CardinalityType
  <1> HIDE DEF real
  <1>6. Cardinality(real) * 100 >= Cardinality(Killed) * 100
    BY <1>5
  <1>7. MutationMin * Cardinality(selected) \in Int
    BY <1>5, RunAssumption
  <1> QED
    BY <1>1, <1>5, <1>6, <1>7 DEF real

(***************************************************************************)
(* A passed gate is earned, for every number of candidates and every       *)
(* threshold: if at most one test run differed from the truth, there are   *)
(* selected mutants and the tests really detect the share of them that was *)
(* asked for (evaluate_mutation_gate).                                     *)
(***************************************************************************)
THEOREM PassEarned == Spec => []PassIsEarned
  <1>1. Init => KillInv /\ PassInv
    BY InitKills
  <1>2. KillInv /\ PassInv /\ [Next]_vars => (KillInv /\ PassInv)'
    BY StepKills, StepPass DEF KillInv
  <1> QED
    BY <1>1, <1>2, PassFollows, PTL DEF Spec
------------------------------------------------------------------------------
(***************************************************************************)
(* Deterministic tests: as long as no test run was a flake, every result   *)
(* is the truth, and a step behind a baseline has seen it pass.            *)
(***************************************************************************)
ResultsTrue == \A c \in Candidates : raw[c] \notin {"none", "empty"} => truth[c] = raw[c]

ResultsSelected ==
  /\ \A c \in Candidates : raw[c] # "none" => c \in selected
  /\ step = "plan" => \A c \in Candidates : raw[c] = "none"

BaselinesTrue ==
  /\ step = "second" => truth[Original] = first
  /\ step \in {"backend", "control", "replay", "load", "gate"} => truth[Original] \in Passes
  /\ step = "replay" => truth[Instrumented] \in Passes

ReplaysCaused ==
  \A c \in Candidates : replayed[c] # "none" =>
    truth[Original] \in Passes /\ truth[Instrumented] \in Passes

\* The run goes on only without an error and without a verdict.
OutcomeLast == step # "done" => outcome = "none"

SteadyInv ==
  /\ KillInv
  /\ OutcomeLast
  /\ ResultsSelected
  /\ flakes = 0 => ResultsTrue /\ BaselinesTrue /\ ReplaysCaused
  /\ NoFalseAlarm

\* A test run that is no flake shows the truth and changes no truth.
LEMMA ObserveSteady ==
  ASSUME TypeOK, NEW s \in Subjects, NEW o \in Shown, Observe(s, o), flakes' = 0
  PROVE  /\ flakes = 0
         /\ truth'[s] = o
         /\ \A u \in Subjects : u # s \/ truth[u] # "unknown" => truth'[u] = truth[u]
  <1>1. flakes \in Nat /\ flakes <= flakes' /\ (truth'[s] = o \/ flakes' = flakes + 1)
    BY ObserveTyped, RunAssumption DEF TypeOK
  <1> QED BY <1>1, ObserveTyped

\* What a run of the tests keeps, whatever its subject.
LEMMA ObserveKeepsSteady ==
  ASSUME SteadyInv, NEW s \in Subjects, NEW o \in Shown, Observe(s, o), flakes' = 0,
         UNCHANGED <<raw, selected>>
  PROVE  /\ ResultsTrue'
         /\ \A u \in Subjects : truth[u] \in Passes => truth'[u] \in Passes
  <1>1. TypeOK
    BY DEF SteadyInv, KillInv, Typed
  <1>2. /\ flakes = 0
        /\ \A u \in Subjects : truth[u] # "unknown" => truth'[u] = truth[u]
    BY <1>1, ObserveSteady
  <1>3. Candidates \subseteq Subjects
    BY RunAssumption DEF Candidates, Subjects
  <1>4. ASSUME NEW c \in Candidates, raw'[c] \notin {"none", "empty"}
        PROVE  truth'[c] = raw'[c]
    <2>1. truth[c] = raw[c] /\ raw[c] \in Shown
      BY <1>1, <1>2, <1>4 DEF SteadyInv, ResultsTrue, TypeOK
    <2>2. truth[c] # "unknown"
      BY <2>1 DEF Shown, Reported, Passes, AssertionOnly
    <2> QED BY <1>2, <1>3, <2>1, <2>2
  <1>5. ASSUME NEW u \in Subjects, truth[u] \in Passes
        PROVE  truth'[u] \in Passes
    BY <1>2, <1>5 DEF Passes
  <1> QED BY <1>4, <1>5 DEF ResultsTrue

LEMMA StepSteady ==
  ASSUME SteadyInv, [Next]_vars
  PROVE  SteadyInv'
  <1> USE DEF SteadyInv
  <1>0. /\ TypeOK /\ KillInv /\ KillInv'
        /\ Candidates \subseteq Subjects /\ Original \in Subjects /\ Instrumented \in Subjects
        /\ Original \notin Candidates /\ Instrumented \notin Candidates
        /\ Original # Instrumented
    BY StepKills, RunAssumption
    DEF KillInv, Typed, Candidates, Subjects, Original, Instrumented
  <1> DEFINE Results == flakes' = 0 => ResultsTrue' /\ BaselinesTrue' /\ ReplaysCaused'
  <1>a. OutcomeLast'
    BY DEF Next, Plan, PlanFails, FirstBaseline, SecondBaseline, BackendTests, BackendSkips,
       BackendEnds, BackendFails, Control, Replay, ReplayEnds, Load, Gate, Done, Raise,
       OutcomeLast, vars
  <1>b. outcome' = "none" => NoFalseAlarm'
    BY DEF NoFalseAlarm, Errors
  <1>1. CASE Plan
    <2>1. /\ step = "plan" /\ step' = "first"
          /\ UNCHANGED <<truth, flakes, first, raw, replayed, records, outcome>>
      BY <1>1 DEF Plan, NoTestRun
    <2>2. ResultsSelected' /\ outcome' = "none"
      BY <2>1 DEF ResultsSelected, OutcomeLast
    <2>3. Results
      BY <2>1 DEF ResultsTrue, BaselinesTrue, ReplaysCaused
    <2> QED BY <1>0, <1>a, <1>b, <2>2, <2>3
  <1>2. CASE PlanFails \/ BackendFails
    <2>1. /\ step' = "done" /\ outcome' \in {"planFailed", "backendFailed"}
          /\ UNCHANGED <<truth, flakes, selected, first, raw, replayed, records>>
      BY <1>2 DEF PlanFails, BackendFails, Raise, NoTestRun
    <2>2. ResultsSelected' /\ Results /\ NoFalseAlarm'
      BY <2>1 DEF ResultsSelected, ResultsTrue, BaselinesTrue, ReplaysCaused, NoFalseAlarm
    <2> QED BY <1>0, <1>a, <2>2
  <1>3. CASE FirstBaseline
    <2>1. PICK o \in Shown :
            /\ Observe(Original, o)
            /\ first' = o
            /\ \/ o \in Reported /\ step' = "second" /\ outcome' = outcome
               \/ o \notin Reported /\ step' = "done" /\ outcome' = "pytestObservationMissing"
      BY <1>3 DEF FirstBaseline, Raise
    <2>2. UNCHANGED <<selected, raw, replayed, records>> /\ step = "first"
      BY <1>3 DEF FirstBaseline
    <2>3. ResultsSelected'
      BY <2>1, <2>2 DEF ResultsSelected
    <2>4. ASSUME flakes' = 0
          PROVE  ResultsTrue' /\ BaselinesTrue' /\ ReplaysCaused' /\ NoFalseAlarm'
      <3>1. /\ flakes = 0 /\ truth'[Original] = o /\ ResultsTrue'
            /\ \A u \in Subjects : truth[u] \in Passes => truth'[u] \in Passes
        BY <1>0, <2>1, <2>2, <2>4, ObserveSteady, ObserveKeepsSteady
      <3>2. BaselinesTrue'
        BY <2>1, <3>1 DEF BaselinesTrue
      <3>3. ReplaysCaused'
        BY <1>0, <2>2, <3>1 DEF ReplaysCaused
      <3>4. o \notin Reported => truth'[Original] \notin Passes
        BY <3>1 DEF Reported
      <3>5. NoFalseAlarm'
        BY <1>b, <2>1, <2>2, <3>4 DEF NoFalseAlarm, OutcomeLast
      <3> QED BY <3>1, <3>2, <3>3, <3>5
    <2> QED BY <1>0, <1>a, <2>3, <2>4 DEF NoFalseAlarm
  <1>4. CASE SecondBaseline
    <2>1. PICK o \in Shown :
            /\ Observe(Original, o)
            /\ \/ o \notin Reported /\ step' = "done" /\ outcome' = "pytestObservationMissing"
               \/ /\ {first, o} \notin SUBSET Passes
                  /\ step' = "done" /\ outcome' = "baselineTestsFailed"
               \/ first # o /\ step' = "done" /\ outcome' = "baselineInventoryChanged"
               \/ /\ first = o /\ {first, o} \in SUBSET Passes
                  /\ step' \in {"gate", "backend"} /\ outcome' = outcome
      BY <1>4 DEF SecondBaseline, Raise
    <2>2. UNCHANGED <<selected, first, raw, replayed, records>> /\ step = "second"
      BY <1>4 DEF SecondBaseline
    <2>3. ResultsSelected'
      BY <2>1, <2>2 DEF ResultsSelected
    <2>4. ASSUME flakes' = 0
          PROVE  ResultsTrue' /\ BaselinesTrue' /\ ReplaysCaused' /\ NoFalseAlarm'
      <3>1. /\ flakes = 0 /\ truth'[Original] = o /\ ResultsTrue'
            /\ \A u \in Subjects : truth[u] \in Passes => truth'[u] \in Passes
            /\ truth[Original] # "unknown" => truth'[Original] = truth[Original]
        BY <1>0, <2>1, <2>2, <2>4, ObserveSteady, ObserveKeepsSteady
      <3>2. ReplaysCaused'
        BY <1>0, <2>2, <3>1 DEF ReplaysCaused
      <3>3. truth[Original] = first
        BY <2>2, <3>1 DEF BaselinesTrue
      <3>4. first # "unknown" => first = o
        BY <3>1, <3>3
      <3>5. first # "unknown"
        BY <1>0 DEF TypeOK, Shown, Reported, Passes, AssertionOnly
      <3>6. BaselinesTrue'
        BY <2>1, <3>1 DEF BaselinesTrue
      <3>7. NoFalseAlarm'
        <4>1. CASE outcome' = outcome
          BY <1>b, <2>2, <4>1 DEF OutcomeLast
        <4>2. CASE outcome' # outcome
          BY <2>1, <3>1, <3>4, <3>5, <4>2 DEF NoFalseAlarm, Reported
        <4> QED BY <4>1, <4>2
      <3> QED BY <3>1, <3>2, <3>6, <3>7
    <2> QED BY <1>0, <1>a, <2>3, <2>4 DEF NoFalseAlarm
  <1>5. CASE BackendTests
    <2>1. PICK c \in Untested, o \in Shown :
            Observe(c, o) /\ raw' = [raw EXCEPT ![c] = o]
      BY <1>5 DEF BackendTests
    <2>2. /\ UNCHANGED <<step, selected, first, replayed, records, outcome>> /\ step = "backend"
          /\ c \in selected /\ c \in Candidates /\ c \in Subjects
          /\ raw \in [Candidates -> Shown \cup {"none"}]
      BY <1>0, <1>5, <2>1 DEF BackendTests, Untested, TypeOK
    <2>3. ResultsSelected' /\ outcome' = "none"
      BY <2>1, <2>2 DEF ResultsSelected, OutcomeLast
    <2>4. ASSUME flakes' = 0
          PROVE  ResultsTrue' /\ BaselinesTrue' /\ ReplaysCaused'
      <3>1. /\ flakes = 0 /\ truth'[c] = o
            /\ \A u \in Subjects : u # c \/ truth[u] # "unknown" => truth'[u] = truth[u]
        BY <1>0, <2>1, <2>2, <2>4, ObserveSteady
      <3>2. truth'[Original] = truth[Original] /\ truth'[Instrumented] = truth[Instrumented]
        BY <1>0, <2>2, <3>1
      <3>3. ResultsTrue'
        BY <1>0, <2>1, <2>2, <3>1 DEF ResultsTrue
      <3>4. BaselinesTrue' /\ ReplaysCaused'
        BY <2>2, <3>1, <3>2 DEF BaselinesTrue, ReplaysCaused
      <3> QED BY <3>3, <3>4
    <2> QED BY <1>0, <1>a, <1>b, <2>3, <2>4
  <1>6. CASE BackendSkips
    <2>1. PICK c \in Untested : raw' = [raw EXCEPT ![c] = "empty"]
      BY <1>6 DEF BackendSkips
    <2>2. /\ UNCHANGED <<truth, flakes, step, selected, first, replayed, records, outcome>>
          /\ c \in selected /\ c \in Candidates /\ step = "backend"
          /\ raw \in [Candidates -> Shown \cup {"none"}]
      BY <1>0, <1>6, <2>1 DEF BackendSkips, NoTestRun, Untested, TypeOK
    <2>3. ResultsSelected' /\ Results /\ outcome' = "none"
      BY <2>1, <2>2
      DEF ResultsSelected, ResultsTrue, BaselinesTrue, ReplaysCaused, OutcomeLast
    <2> QED BY <1>0, <1>a, <1>b, <2>3
  <1>7. CASE BackendEnds
    <2>1. /\ step = "backend" /\ step' \in {"control", "load"}
          /\ UNCHANGED <<truth, flakes, selected, first, raw, replayed, records, outcome>>
      BY <1>7 DEF BackendEnds, NoTestRun
    <2>2. ResultsSelected' /\ Results /\ outcome' = "none"
      BY <2>1 DEF ResultsSelected, ResultsTrue, BaselinesTrue, ReplaysCaused, OutcomeLast
    <2> QED BY <1>0, <1>a, <1>b, <2>2
  <1>8. CASE Control
    <2>1. PICK o \in Shown :
            /\ Observe(Instrumented, o)
            /\ \/ o \notin Passes /\ step' = "done"
                  /\ outcome' \in {"pytestObservationMissing", "baselineTestsFailed"}
               \/ o \in Passes /\ step' = "replay" /\ outcome' = outcome
      BY <1>8 DEF Control, Raise, Reported
    <2>2. UNCHANGED <<selected, first, raw, replayed, records>> /\ step = "control"
      BY <1>8 DEF Control
    <2>3. ResultsSelected'
      BY <2>1, <2>2 DEF ResultsSelected
    <2>4. ASSUME flakes' = 0
          PROVE  ResultsTrue' /\ BaselinesTrue' /\ ReplaysCaused' /\ NoFalseAlarm'
      <3>1. /\ flakes = 0 /\ truth'[Instrumented] = o /\ ResultsTrue'
            /\ \A u \in Subjects : truth[u] \in Passes => truth'[u] \in Passes
        BY <1>0, <2>1, <2>2, <2>4, ObserveSteady, ObserveKeepsSteady
      <3>2. ReplaysCaused'
        BY <1>0, <2>2, <3>1 DEF ReplaysCaused
      <3>3. BaselinesTrue'
        BY <1>0, <2>1, <2>2, <3>1 DEF BaselinesTrue
      <3>4. NoFalseAlarm'
        BY <1>b, <2>1, <2>2, <3>1 DEF NoFalseAlarm, OutcomeLast
      <3> QED BY <3>1, <3>2, <3>3, <3>4
    <2> QED BY <1>0, <1>a, <2>3, <2>4 DEF NoFalseAlarm
  <1>9. CASE Replay
    <2>1. /\ step = "replay" /\ UNCHANGED <<selected, first, raw, records>>
          /\ step' \in {"replay", "done"}
      BY <1>9 DEF Replay, Raise
    <2>2. ResultsSelected'
      BY <2>1 DEF ResultsSelected
    <2>3. PICK c \in Unreplayed :
            \/ /\ raw[c] \notin Reported /\ outcome' = "pytestObservationMissing"
               /\ UNCHANGED <<truth, flakes, replayed>>
            \/ /\ raw[c] \in Reported
               /\ \E o \in Shown :
                    /\ Observe(c, o)
                    /\ \/ o \notin Reported /\ UNCHANGED replayed
                       \/ ~SameFailure(raw[c], o) /\ UNCHANGED replayed
                       \/ /\ replayed' = [replayed EXCEPT ![c] = FailureState(raw[c])]
                          /\ UNCHANGED outcome
      BY <1>9 DEF Replay, Raise, NoTestRun
    <2>4. c \in selected /\ c \in Candidates /\ c \in Subjects /\ raw[c] \in ExitOne
          /\ raw[c] \in Shown /\ raw[c] # "unknown" /\ raw[c] \notin {"none", "empty"}
          /\ replayed \in [Candidates -> {"none", "killed", "runtimeError"}]
      BY <1>0, <2>3 DEF Unreplayed, TypeOK, ExitOne, Shown, Reported, Passes, AssertionOnly
    <2>5. ASSUME flakes' = 0
          PROVE  ResultsTrue' /\ BaselinesTrue' /\ ReplaysCaused' /\ NoFalseAlarm'
      <3>1. CASE /\ raw[c] \notin Reported /\ UNCHANGED <<truth, flakes, replayed>>
        <4>1. ResultsTrue' /\ BaselinesTrue' /\ ReplaysCaused'
          BY <2>1, <2>5, <3>1 DEF ResultsTrue, BaselinesTrue, ReplaysCaused
        <4>2. truth'[c] = "silent"
          BY <2>4, <2>5, <3>1 DEF ResultsTrue, ExitOne, Reported
        <4> QED BY <2>1, <2>4, <4>1, <4>2 DEF NoFalseAlarm
      <3>2. CASE raw[c] \in Reported /\ \E o \in Shown : Observe(c, o)
        <4>1. PICK o \in Shown :
                /\ Observe(c, o)
                /\ \/ o \notin Reported /\ UNCHANGED replayed
                   \/ ~SameFailure(raw[c], o) /\ UNCHANGED replayed
                   \/ /\ replayed' = [replayed EXCEPT ![c] = FailureState(raw[c])]
                      /\ UNCHANGED outcome
          BY <2>3, <3>2
        <4>2. /\ flakes = 0 /\ truth'[c] = o /\ ResultsTrue'
              /\ \A u \in Subjects : u # c \/ truth[u] # "unknown" => truth'[u] = truth[u]
          BY <1>0, <2>1, <2>4, <2>5, <4>1, ObserveSteady, ObserveKeepsSteady
        <4>3. truth[c] = raw[c]
          BY <2>4, <4>2 DEF ResultsTrue
        <4>4. o = raw[c]
          BY <2>4, <4>2, <4>3
        <4>5. /\ replayed' = [replayed EXCEPT ![c] = FailureState(raw[c])]
              /\ UNCHANGED outcome
          BY <2>4, <3>2, <4>1, <4>4 DEF SameFailure
        <4>6. /\ truth[Original] \in Passes /\ truth[Instrumented] \in Passes
              /\ truth'[Original] = truth[Original] /\ truth'[Instrumented] = truth[Instrumented]
          BY <1>0, <2>1, <2>4, <4>2 DEF BaselinesTrue
        <4>7. BaselinesTrue' /\ ReplaysCaused'
          BY <2>1, <4>6 DEF BaselinesTrue, ReplaysCaused
        <4>8. NoFalseAlarm'
          BY <1>b, <2>1, <4>5 DEF OutcomeLast
        <4> QED BY <4>2, <4>7, <4>8
      <3> QED BY <2>3, <3>1, <3>2
    <2> QED BY <1>0, <1>a, <2>2, <2>5 DEF NoFalseAlarm
  <1>10. CASE ReplayEnds
    <2>1. /\ step = "replay" /\ step' = "load"
          /\ UNCHANGED <<truth, flakes, selected, first, raw, replayed, records, outcome>>
      BY <1>10 DEF ReplayEnds, NoTestRun
    <2>2. ResultsSelected' /\ Results /\ outcome' = "none"
      BY <2>1 DEF ResultsSelected, ResultsTrue, BaselinesTrue, ReplaysCaused, OutcomeLast
    <2> QED BY <1>0, <1>a, <1>b, <2>2
  <1>11. CASE Load
    <2>1. /\ step = "load" /\ UNCHANGED <<truth, flakes, selected, first, raw, replayed>>
          /\ \/ outcome' = outcome /\ step' = "gate"
             \/ /\ \E c \in Candidates : raw[c] = "internal"
                /\ outcome' = "unknownRawState" /\ step' = "done"
      BY <1>11 DEF Load, Raise, NoTestRun
    <2>2. ResultsSelected' /\ Results
      BY <2>1 DEF ResultsSelected, ResultsTrue, BaselinesTrue, ReplaysCaused
    <2>3. NoFalseAlarm'
      <3>1. CASE outcome' = outcome
        BY <1>b, <2>1, <3>1 DEF OutcomeLast
      <3>2. CASE \E c \in Candidates : raw[c] = "internal"
        <4>1. PICK c \in Candidates : raw[c] = "internal"
          BY <3>2
        <4>2. c \in selected /\ (flakes = 0 => truth[c] = "internal")
          BY <4>1 DEF ResultsSelected, ResultsTrue
        <4> QED BY <2>1, <4>2 DEF NoFalseAlarm
      <3> QED BY <2>1, <3>1, <3>2
    <2> QED BY <1>0, <1>a, <2>2, <2>3
  <1>12. CASE Gate
    <2>1. /\ step = "gate" /\ step' = "done" /\ outcome' \in Verdicts
          /\ UNCHANGED <<truth, flakes, selected, first, raw, replayed, records>>
      BY <1>12 DEF Gate, Raise, NoTestRun, Verdicts
    <2>2. ResultsSelected' /\ Results /\ NoFalseAlarm'
      BY <2>1
      DEF ResultsSelected, ResultsTrue, BaselinesTrue, ReplaysCaused, NoFalseAlarm, Verdicts, Errors
    <2> QED BY <1>0, <1>a, <2>2
  <1>13. CASE UNCHANGED vars
    <2>1. ResultsSelected' /\ Results /\ NoFalseAlarm'
      BY <1>13
      DEF vars, ResultsSelected, ResultsTrue, BaselinesTrue, ReplaysCaused, NoFalseAlarm
    <2> QED BY <1>0, <1>a, <2>1
  <1> QED
    BY <1>1, <1>2, <1>3, <1>4, <1>5, <1>6, <1>7, <1>8, <1>9, <1>10, <1>11, <1>12, <1>13
    DEF Next, Done

LEMMA InitSteady == Init => SteadyInv
  BY InitKills
  DEF Init, SteadyInv, OutcomeLast, ResultsSelected, ResultsTrue, BaselinesTrue, ReplaysCaused,
      NoFalseAlarm, Errors

LEMMA SteadyHolds == Spec => []SteadyInv
  <1>1. SteadyInv /\ [Next]_vars => SteadyInv'
    BY StepSteady
  <1> QED BY <1>1, InitSteady, PTL DEF Spec

(***************************************************************************)
(* With deterministic tests a kill is caused by the mutation: whatever the *)
(* tests do with the mutants, a record of a killed mutant means that they  *)
(* pass in the snapshot and in the instrumented tree without a mutant      *)
(* (_classify_test_failures).                                              *)
(***************************************************************************)
THEOREM KillsCaused == Spec => []KillsAreCaused
  <1>1. SteadyInv => KillsAreCaused
    BY DEF SteadyInv, KillInv, KillsConfirmed, ReplaysCaused, KillsAreCaused
  <1> QED BY <1>1, SteadyHolds, PTL

(***************************************************************************)
(* Deterministic tests get a verdict, for any number of mutants: an error  *)
(* that is not one of the plan or of the backend is due to tests that fail *)
(* without a mutant, or to a selected mutant that leaves no report or      *)
(* breaks the runner. No replay contradicts its run (_replay_failure).     *)
(***************************************************************************)
THEOREM AlarmsExplained == Spec => []NoFalseAlarm
  <1>1. SteadyInv => NoFalseAlarm
    BY DEF SteadyInv
  <1> QED BY <1>1, SteadyHolds, PTL
==============================================================================
