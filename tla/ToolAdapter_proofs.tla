-------------------------- MODULE ToolAdapter_proofs --------------------------
(***************************************************************************)
(* Theorems about ToolAdapter for every number of interrupts.              *)
(***************************************************************************)
EXTENDS ToolAdapter, TLAPS

\* Every interrupt of the user reaches the check at most twice: as the signal
\* of the group and as the one the adapter forwards.
SignalsBounded ==
  signals + (IF adapter = "forward" THEN 1 ELSE 0) <= 2 * interrupts

\* The check runs only after the launcher became uv.
CheckOfUv ==
  /\ launcher \in {"none", "verify"} => check = "none"
  /\ check = "none" => launcher # "uv"
  /\ check \notin {"none", "gone"} /\ launcher = "gone" =>
       adapter \in {"done", "traceback"} /\ response # "cancelled"

\* A document is about the evidence of its check, and nothing is recorded
\* before the check has one.
DocumentHonest ==
  /\ check \in {"none", "boot", "judging"} =>
       file = "none" /\ evidence = "none" /\ document = "none"
  /\ check \notin {"none", "boot", "judging", "cleanup", "gone"} => document # "none"
  /\ document \in Verdicts => evidence = document
  /\ document = "empty" => request.changed /\ evidence = "none"
  /\ file \in Verdicts => evidence = file
  /\ file = "empty" => request.changed /\ evidence = "none"

\* The adapter starts one launcher, judges when it is gone, and answers once.
JudgesLate ==
  /\ adapter \in {"read", "spawn"} => launcher = "none"
  /\ adapter = "judge" => launcher = "gone"
  /\ adapter # "done" => response = "none"
  /\ response = "cancelled" => launcher = "gone"

\* An answered verdict was read from the file of a check that had committed.
AnswerHonest ==
  /\ response \in Verdicts \cup {"noChanges"} => check \notin {"none", "boot", "judging"}
  /\ VerdictIsRecorded

AdapterInv == TypeOK /\ SignalsBounded /\ CheckOfUv /\ DocumentHonest /\ JudgesLate
              /\ AnswerHonest /\ CancelledIsOver
------------------------------------------------------------------------------
(***************************************************************************)
(* The table of exit codes, STATUS_BY_EXIT in the adapter.                 *)
(***************************************************************************)
LEMMA ExitTable ==
  /\ \A d \in DOMAIN ExitOf : ExitOf[d] \in 0..8
  /\ \A c \in 0..8 : Status(c) \in Errors \cup Verdicts \cup {"cancelled"}
  /\ \A c \in Int : c \notin {0, 2} => Status(c) \notin Verdicts \cup {"noChanges"}
  /\ \A c \in Int : Status(c) \in Errors \cup Verdicts \cup {"cancelled"}
  /\ Status(6) = "backendError" /\ Status(3) = "usageConfigError"
  /\ Status(5) = "dependencyError" /\ Status(8) = "cancelled"
  <1>1. DOMAIN ExitOf = {"passed", "empty", "toolError", "qualityFailed", "usageConfigError",
                         "baselineFailed", "dependencyError", "backendError", "evidenceError",
                         "cancelled"}
    BY DEF ExitOf
  <1>2. \A d \in DOMAIN ExitOf : ExitOf[d] \in 0..8
    BY <1>1 DEF ExitOf
  <1>3. ASSUME NEW c \in 0..8
        PROVE  Status(c) \in DOMAIN ExitOf \ {"empty"} /\ ExitOf[Status(c)] = c
    <2>1. \E s \in DOMAIN ExitOf \ {"empty"} : ExitOf[s] = c
      BY <1>1 DEF ExitOf
    <2>2. Status(c) = CHOOSE s \in DOMAIN ExitOf \ {"empty"} : ExitOf[s] = c
      BY DEF Status, StatusByExit
    <2> QED
      BY <2>1, <2>2
  <1>4. /\ Status(0) = "passed" /\ Status(1) = "toolError" /\ Status(2) = "qualityFailed"
        /\ Status(3) = "usageConfigError" /\ Status(4) = "baselineFailed"
        /\ Status(5) = "dependencyError" /\ Status(6) = "backendError"
        /\ Status(7) = "evidenceError" /\ Status(8) = "cancelled"
    BY <1>1, <1>3 DEF ExitOf
  <1>5. \A c \in Int : c \notin 0..8 => Status(c) = "backendError"
    BY DEF Status
  <1>6. \A c \in 0..8 : c \in {0, 1, 2, 3, 4, 5, 6, 7, 8}
    OBVIOUS
  <1> QED
    BY <1>2, <1>4, <1>5, <1>6 DEF Errors, Verdicts

LEMMA InitInv == Init => AdapterInv
  BY AdapterAssumption
  DEF Init, AdapterInv, TypeOK, SignalsBounded, CheckOfUv, DocumentHonest, JudgesLate,
      AnswerHonest, VerdictIsRecorded, CancelledIsOver, Verdicts, Errors, ExitOf, Running

(***************************************************************************)
(* Steps of the adapter. Only Judge and the answers concern the verdict.   *)
(***************************************************************************)
LEMMA AdapterKeeps ==
  ASSUME AdapterInv, AdapterStep
  PROVE  AdapterInv'
  <1> USE AdapterAssumption
      DEF AdapterInv, TypeOK, SignalsBounded, CheckOfUv, DocumentHonest, JudgesLate,
          AnswerHonest, VerdictIsRecorded, CancelledIsOver, Running,
          launcherVars, checkVars, Answer
  <1>1. CASE Refuse
    BY <1>1, ExitTable DEF Refuse, Errors, Verdicts
  <1>2. CASE Read \/ Spawn \/ Waited
    BY <1>2 DEF Read, Spawn, Waited, Errors, Verdicts
  <1>3. CASE SpawnFails
    BY <1>3, ExitTable DEF SpawnFails, Errors, Verdicts
  <1>4. CASE Judge
    <2>1. /\ Judgement \in Errors \cup Verdicts \cup {"noChanges", "cancelled"}
          /\ Judgement \in Verdicts => file = Judgement
          /\ Judgement = "noChanges" => file = "empty"
      BY ExitTable DEF Judgement, Errors, Verdicts
    <2>2. file \in Verdicts \cup {"empty"} => check \notin {"none", "boot", "judging"}
      BY DEF Verdicts
    <2>3. response' = Judgement /\ adapter' = "done" /\ adapter = "judge"
          /\ UNCHANGED <<request, launcherVars, checkVars, signals, interrupts>>
      BY <1>4 DEF Judge
    <2>4. check \in {"none", "gone"}
      BY <2>3
    <2> QED
      BY <2>1, <2>2, <2>3, <2>4 DEF Verdicts
  <1>5. CASE Forward
    BY <1>5 DEF Forward
  <1>6. CASE Cancelled
    BY <1>6, ExitTable DEF Cancelled, Verdicts
  <1>7. CASE KillLauncher
    BY <1>7, ExitTable DEF KillLauncher, Verdicts, Errors
  <1> QED
    BY <1>1, <1>2, <1>3, <1>4, <1>5, <1>6, <1>7 DEF AdapterStep

(***************************************************************************)
(* Steps of the launcher and of uv.                                        *)
(***************************************************************************)
LEMMA LauncherKeeps ==
  ASSUME AdapterInv, LauncherStep
  PROVE  AdapterInv'
  <1> USE AdapterAssumption
      DEF AdapterInv, TypeOK, SignalsBounded, CheckOfUv, DocumentHonest, JudgesLate,
          AnswerHonest, VerdictIsRecorded, CancelledIsOver, Running, adapterVars, checkVars
  <1>1. CASE VerifyFails
    BY <1>1 DEF VerifyFails
  <1>2. CASE RunUv
    BY <1>2 DEF RunUv, Verdicts
  <1>3. CASE UvEnds
    BY <1>3 DEF UvEnds
  <1> QED
    BY <1>1, <1>2, <1>3 DEF LauncherStep

(***************************************************************************)
(* Steps of the check: it commits once, before it has a document.          *)
(***************************************************************************)
LEMMA CheckKeeps ==
  ASSUME AdapterInv, CheckStep \/ Die
  PROVE  AdapterInv'
  <1> USE AdapterAssumption
      DEF AdapterInv, TypeOK, SignalsBounded, CheckOfUv, DocumentHonest, JudgesLate,
          AnswerHonest, VerdictIsRecorded, CancelledIsOver, Running,
          adapterVars, CheckSame, Ends
  <1>0. /\ DOMAIN ExitOf = {"passed", "empty", "toolError", "qualityFailed", "usageConfigError",
                            "baselineFailed", "dependencyError", "backendError",
                            "evidenceError", "cancelled"}
        /\ 8 \in 0..8 /\ 1 \in 0..8 /\ 0 \in 0..8
    BY DEF ExitOf
  <1>1. CASE Start
    BY <1>1 DEF Start
  <1>2. CASE Commit
    BY <1>0, <1>2 DEF Commit, Verdicts
  <1>3. CASE Skip
    BY <1>0, <1>3 DEF Skip, Verdicts
  <1>4. CASE CheckFails
    BY <1>0, <1>4 DEF CheckFails, Verdicts, Errors
  <1>5. CASE Open
    BY <1>5 DEF Open, Verdicts
  <1>6. CASE Write
    BY <1>0, <1>6 DEF Write, FileOf, Verdicts
  <1>7. CASE WriteFails
    BY <1>0, <1>7 DEF WriteFails, FileOf, Verdicts
  <1>8. CASE Leave
    <2>1. ExitOf[document] \in 0..8
      BY <1>8, ExitTable DEF Leave
    <2> QED
      BY <1>8, <2>1 DEF Leave
  <1>9. CASE CleanedUp
    BY <1>0, <1>9 DEF CleanedUp, Verdicts
  <1>10. CASE Interrupted /\ Cancel
    BY <1>10 DEF Interrupted, Cancel
  <1>11. CASE Interrupted /\ Traceback
    BY <1>11 DEF Interrupted, Traceback
  <1>12. CASE Die
    BY <1>12 DEF Die
  <1> QED
    BY <1>1, <1>2, <1>3, <1>4, <1>5, <1>6, <1>7, <1>8, <1>9, <1>10, <1>11, <1>12
    DEF CheckStep, Interrupted

LEMMA InterruptKeeps ==
  ASSUME AdapterInv, Interrupt
  PROVE  AdapterInv'
  BY AdapterAssumption
  DEF AdapterInv, TypeOK, SignalsBounded, CheckOfUv, DocumentHonest, JudgesLate,
      AnswerHonest, VerdictIsRecorded, CancelledIsOver, Running,
      checkVars, launcherVars, Interrupt, Verdicts

LEMMA StepKeeps ==
  ASSUME AdapterInv, [Next]_vars
  PROVE  AdapterInv'
  <1>1. CASE UNCHANGED vars
    BY <1>1
    DEF vars, adapterVars, launcherVars, checkVars, AdapterInv, TypeOK, SignalsBounded,
        CheckOfUv, DocumentHonest, JudgesLate, AnswerHonest, VerdictIsRecorded,
        CancelledIsOver, Running
  <1> QED
    BY <1>1, AdapterKeeps, LauncherKeeps, CheckKeeps, InterruptKeeps DEF Next, Over

LEMMA InvHolds == Spec => []AdapterInv
  BY InitInv, StepKeeps, PTL DEF Spec

(***************************************************************************)
(* Every status that is answered is one of the protocol's, and the exit    *)
(* codes and steps keep their types, for any number of interrupts.         *)
(***************************************************************************)
THEOREM TypeCorrect == Spec => []TypeOK
  <1>1. AdapterInv => TypeOK
    BY DEF AdapterInv
  <1> QED
    BY <1>1, InvHolds, PTL

(***************************************************************************)
(* A verdict that the adapter answers is the one in the store, and         *)
(* `noChanges' means that nothing was recorded, however often the user     *)
(* interrupts (main of the adapter).                                       *)
(***************************************************************************)
THEOREM VerdictRecorded == Spec => []VerdictIsRecorded
  <1>1. AdapterInv => VerdictIsRecorded
    BY DEF AdapterInv, AnswerHonest
  <1> QED
    BY <1>1, InvHolds, PTL

(***************************************************************************)
(* When the adapter answers `cancelled' no check is running any more,      *)
(* however often the user interrupts (wait after send_signal).             *)
(***************************************************************************)
THEOREM CancelIsOver == Spec => []CancelledIsOver
  <1>1. AdapterInv => CancelledIsOver
    BY DEF AdapterInv
  <1> QED
    BY <1>1, InvHolds, PTL
==============================================================================
