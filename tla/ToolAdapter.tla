----------------------------- MODULE ToolAdapter -----------------------------
(***************************************************************************)
(* sentinel-tool/sentinel-tool: one request of the tool protocol, the      *)
(* launcher it starts (scripts/toolchain.py, which becomes `uv run'), the  *)
(* check that uv runs as a child of its own, and the result file the check *)
(* leaves for the adapter.                                                 *)
(*                                                                         *)
(* Of the check only what the adapter can meet is kept: it commits         *)
(* evidence, then writes its document, then ends; or it reports an error.  *)
(* StrictCheck models the check itself. The 25 seconds of the adapter may  *)
(* pass whenever the launcher is still there.                              *)
(***************************************************************************)
EXTENDS Integers

CONSTANTS
  MaxInterrupts  \* how often the user interrupts

ASSUME AdapterAssumption == MaxInterrupts \in Nat

VARIABLES
  request,     \* is it valid, does it name changed files?
  adapter,     \* the step of main
  response,    \* the status written to stdout, "none" before
  launcher,    \* "none", "verify", "uv" or "gone"
  exit,        \* its exit code
  check,       \* the step of the check
  document,    \* the document the check is about to write
  file,        \* the result file
  evidence,    \* the terminal status the check committed
  signals,     \* interrupts the check has not handled yet
  interrupts   \* interrupts of the user so far

adapterVars == <<request, adapter, response>>
launcherVars == <<launcher, exit>>
checkVars == <<check, document, file, evidence>>
vars == <<adapterVars, launcherVars, checkVars, signals, interrupts>>

Verdicts == {"passed", "qualityFailed"}

\* The documents of the check that are diagnostics, but for `cancelled'.
Errors ==
  {"toolError", "usageConfigError", "baselineFailed", "dependencyError",
   "backendError", "evidenceError"}

\* The exit code of the check that wrote a document.
ExitOf ==
  [passed |-> 0, empty |-> 0, toolError |-> 1, qualityFailed |-> 2,
   usageConfigError |-> 3, baselineFailed |-> 4, dependencyError |-> 5,
   backendError |-> 6, evidenceError |-> 7, cancelled |-> 8]

Running == check \notin {"none", "gone"}

Init ==
  /\ request \in [valid : BOOLEAN, changed : BOOLEAN]
  /\ adapter = "read" /\ response = "none"
  /\ launcher = "none" /\ exit = 0
  /\ check = "none" /\ document = "none" /\ file = "none" /\ evidence = "none"
  /\ signals = 0 /\ interrupts = 0
------------------------------------------------------------------------------
(***************************************************************************)
(* The adapter.                                                            *)
(***************************************************************************)
StatusByExit == [c \in 0..8 |-> CHOOSE s \in DOMAIN ExitOf \ {"empty"} : ExitOf[s] = c]

\* Mistake: an exit code of no status is answered as it is.
StatusOrSignal(c) == IF c \in 0..8 THEN StatusByExit[c] ELSE "signalled"

\* STATUS_BY_EXIT and what finish makes of every other code.
Status(c) == IF c \in 0..8 THEN StatusByExit[c] ELSE "backendError"

Answer(status) == response' = status /\ adapter' = "done"

Refuse ==
  /\ adapter = "read"
  /\ ~request.valid
  /\ Answer(Status(3))
  /\ UNCHANGED <<request, launcherVars, checkVars, signals, interrupts>>

Read ==
  /\ adapter = "read"
  /\ request.valid
  /\ adapter' = "spawn"
  /\ UNCHANGED <<request, response, launcherVars, checkVars, signals, interrupts>>

Spawn ==
  /\ adapter = "spawn"
  /\ adapter' = "wait"
  /\ launcher' = "verify"
  /\ UNCHANGED <<request, response, exit, checkVars, signals, interrupts>>

SpawnFails ==
  /\ adapter = "spawn"
  /\ Answer(Status(5))
  /\ UNCHANGED <<request, launcherVars, checkVars, signals, interrupts>>

Waited ==
  /\ adapter = "wait"
  /\ launcher = "gone"
  /\ adapter' = "judge"
  /\ UNCHANGED <<request, response, launcherVars, checkVars, signals, interrupts>>

\* Mistake: the exit code alone decides.
JudgeByExit ==
  IF exit = 0 /\ file = "empty" THEN "noChanges" ELSE Status(exit)

\* A verdict needs the document of a run that says the same.
Judgement ==
  CASE exit \notin {0, 2} -> Status(exit)
    [] exit = 0 /\ file = "empty" /\ request.changed -> "noChanges"
    [] exit = 0 /\ file = "passed" -> "passed"
    [] exit = 2 /\ file = "qualityFailed" -> "qualityFailed"
    [] OTHER -> Status(6)

Judge ==
  /\ adapter = "judge"
  /\ Answer(Judgement)
  /\ UNCHANGED <<request, launcherVars, checkVars, signals, interrupts>>

\* send_signal(SIGINT): toolchain.py dies of it, uv hands it to the check.
Forward ==
  /\ adapter = "forward"
  /\ adapter' = "grace"
  /\ IF launcher = "verify"
     THEN launcher' = "gone" /\ exit' = 130
     ELSE UNCHANGED launcherVars
  /\ signals' = IF launcher = "uv" /\ Running THEN signals + 1 ELSE signals
  /\ UNCHANGED <<request, response, checkVars, interrupts>>

\* Mistake: the answer does not wait for the launcher.
AnswerAtOnce ==
  /\ adapter = "grace"
  /\ Answer(Status(8))
  /\ UNCHANGED <<request, launcherVars, checkVars, signals, interrupts>>

\* wait(timeout=25) returns: whatever the exit code is, it was a cancel.
Cancelled ==
  /\ adapter = "grace"
  /\ launcher = "gone"
  /\ Answer(Status(8))
  /\ UNCHANGED <<request, launcherVars, checkVars, signals, interrupts>>

\* Mistake: kill only what has ended anyway.
KillLate ==
  /\ adapter = "grace"
  /\ launcher = "gone"
  /\ Answer(Status(6))
  /\ UNCHANGED <<request, launcherVars, checkVars, signals, interrupts>>

\* The 25 seconds are over: the launcher is killed, not what it started.
KillLauncher ==
  /\ adapter = "grace"
  /\ launcher # "gone"
  /\ launcher' = "gone" /\ exit' = -9
  /\ Answer(Status(6))
  /\ UNCHANGED <<request, checkVars, signals, interrupts>>
------------------------------------------------------------------------------
(***************************************************************************)
(* The launcher and, as far as the adapter meets it, uv.                   *)
(***************************************************************************)
\* A tree is missing or modified, or an argument is wrong.
VerifyFails ==
  /\ launcher = "verify"
  /\ launcher' = "gone"
  /\ exit' \in {1, 2}
  /\ UNCHANGED <<adapterVars, checkVars, signals, interrupts>>

\* execve of uv, which starts the check.
RunUv ==
  /\ launcher = "verify"
  /\ launcher' = "uv"
  /\ check' = "boot"
  /\ UNCHANGED <<adapterVars, exit, document, file, evidence, signals, interrupts>>

UvEnds ==
  /\ launcher = "uv"
  /\ check = "gone"
  /\ launcher' = "gone"
  /\ UNCHANGED <<adapterVars, exit, checkVars, signals, interrupts>>
------------------------------------------------------------------------------
(***************************************************************************)
(* The check.                                                              *)
(***************************************************************************)
CheckSame == UNCHANGED <<adapterVars, launcher, interrupts>>

\* uv reports the exit code of the check, if it is still there.
Ends(c) == check' = "gone" /\ exit' = IF launcher = "uv" THEN c ELSE exit

Start ==
  /\ check = "boot"
  /\ check' = "judging"
  /\ CheckSame
  /\ UNCHANGED <<exit, document, file, evidence, signals>>

Commit ==
  /\ check = "judging"
  /\ check' = "report"
  /\ evidence' \in Verdicts
  /\ document' = evidence'
  /\ CheckSame
  /\ UNCHANGED <<exit, file, signals>>

\* No changed production source: a document without evidence.
Skip ==
  /\ check = "judging"
  /\ request.changed
  /\ check' = "report"
  /\ document' = "empty"
  /\ CheckSame
  /\ UNCHANGED <<exit, file, evidence, signals>>

CheckFails ==
  /\ check = "judging"
  /\ check' = "report"
  /\ document' \in Errors
  /\ CheckSame
  /\ UNCHANGED <<exit, file, evidence, signals>>

FileOf(d) == IF d \in Verdicts \cup {"empty"} THEN d ELSE "diagnostic"

\* write_text truncates the file first.
Open ==
  /\ check = "report"
  /\ check' = "write"
  /\ file' = "torn"
  /\ CheckSame
  /\ UNCHANGED <<exit, document, evidence, signals>>

Write ==
  /\ check = "write"
  /\ check' = "leave"
  /\ file' = FileOf(document)
  /\ CheckSame
  /\ UNCHANGED <<exit, document, evidence, signals>>

\* The file cannot be written: main reports that, into the same file.
WriteFails ==
  /\ check \in {"report", "write"}
  /\ IF FileOf(document) = "diagnostic"
     THEN Ends(1) /\ UNCHANGED document
     ELSE check' = "report" /\ document' = "evidenceError" /\ UNCHANGED exit
  /\ CheckSame
  /\ UNCHANGED <<file, evidence, signals>>

Leave ==
  /\ check = "leave"
  /\ Ends(ExitOf[document])
  /\ CheckSame
  /\ UNCHANGED <<document, file, evidence, signals>>

\* The clean-up of a cancelled check ends, or it finds the sources changed.
CleanedUp ==
  /\ check = "cleanup"
  /\ check' = "report"
  /\ document' \in {"backendError", "cancelled"}
  /\ CheckSame
  /\ UNCHANGED <<exit, file, evidence, signals>>

\* A KeyboardInterrupt in the try of cli.main, or the second in its clean-up.
Cancel ==
  /\ \/ check \in {"judging", "cleanup"}
     \/ check \in {"report", "write", "leave"} /\ FileOf(document) # "diagnostic"
  /\ check' = "cleanup"
  /\ UNCHANGED exit

\* Before that try, after it, and in its handlers it is a traceback.
Traceback ==
  /\ \/ check \in {"boot", "leave"}
     \/ check \in {"report", "write"} /\ FileOf(document) = "diagnostic"
  /\ Ends(130)

Interrupted ==
  /\ signals > 0
  /\ signals' = signals - 1
  /\ Cancel \/ Traceback
  /\ CheckSame
  /\ UNCHANGED <<document, file, evidence>>
------------------------------------------------------------------------------
(***************************************************************************)
(* The user interrupts the adapter alone, or the whole foreground group.   *)
(* Only the wait of the adapter expects it: anywhere else main ends with a *)
(* traceback.                                                              *)
(***************************************************************************)
Interrupt ==
  /\ interrupts < MaxInterrupts
  /\ adapter \notin {"done", "traceback"}
  /\ interrupts' = interrupts + 1
  /\ adapter' = IF adapter = "wait" THEN "forward" ELSE "traceback"
  /\ \E all \in BOOLEAN :
       /\ signals' = IF all /\ Running THEN signals + 1 ELSE signals
       /\ IF all /\ launcher = "verify"
          THEN launcher' = "gone" /\ exit' = 130
          ELSE UNCHANGED launcherVars
  /\ UNCHANGED <<request, response, checkVars>>

\* The check is killed from outside, by the kernel for its memory.
Die ==
  /\ Running
  /\ Ends(137)
  /\ CheckSame
  /\ UNCHANGED <<document, file, evidence, signals>>

AdapterStep ==
  \/ Refuse \/ Read \/ Spawn \/ SpawnFails \/ Waited \/ Judge
  \/ Forward \/ Cancelled \/ KillLauncher

LauncherStep == VerifyFails \/ RunUv \/ UvEnds

CheckStep ==
  \/ Start \/ Commit \/ Skip \/ CheckFails \/ Open \/ Write \/ WriteFails
  \/ Leave \/ CleanedUp \/ Interrupted

\* The adapter has ended and so has the check.
Over == adapter \in {"done", "traceback"} /\ ~Running /\ launcher \in {"none", "gone"} /\ UNCHANGED vars

Next == AdapterStep \/ LauncherStep \/ CheckStep \/ Interrupt \/ Die \/ Over

Spec == Init /\ [][Next]_vars

\* The adapter keeps running and its 25 seconds pass. Nothing is assumed of
\* the launcher and the check: a check has no time limit.
FairSpec == Spec /\ WF_vars(AdapterStep)
------------------------------------------------------------------------------
(***************************************************************************)
(* Type invariant. The status of an answer is one of the protocol's.       *)
(***************************************************************************)
TypeOK ==
  /\ request \in [valid : BOOLEAN, changed : BOOLEAN]
  /\ adapter \in {"read", "spawn", "wait", "judge", "forward", "grace", "done", "traceback"}
  /\ response \in Errors \cup Verdicts \cup {"none", "noChanges", "cancelled"}
  /\ launcher \in {"none", "verify", "uv", "gone"}
  /\ exit \in 0..8 \cup {-9, 130, 137}
  /\ check \in {"none", "boot", "judging", "report", "write", "leave", "cleanup", "gone"}
  /\ document \in DOMAIN ExitOf \cup {"none"}
  /\ file \in Verdicts \cup {"none", "torn", "empty", "diagnostic"}
  /\ evidence \in Verdicts \cup {"none"}
  /\ signals \in 0..(2 * MaxInterrupts)
  /\ interrupts \in 0..MaxInterrupts

(***************************************************************************)
(* A verdict that the adapter answers is the verdict in the store, and     *)
(* `noChanges' means that changed files were asked for and nothing was     *)
(* recorded, whatever the launcher and uv exit with (the two checks of the *)
(* result file in main).                                                   *)
(***************************************************************************)
VerdictIsRecorded ==
  /\ response \in Verdicts => evidence = response
  /\ response = "noChanges" => request.changed /\ evidence = "none"

(***************************************************************************)
(* When the adapter answers `cancelled', the check has ended: its evidence *)
(* and the project are not touched any more (the wait after send_signal).  *)
(***************************************************************************)
CancelledIsOver == response = "cancelled" => ~Running

(***************************************************************************)
(* A cancelled adapter ends although the check may hang in its clean-up or *)
(* never hear of the interrupt (wait(timeout=25) and kill).                *)
(***************************************************************************)
CancelEnds == adapter = "forward" ~> adapter \in {"done", "traceback"}

(***************************************************************************)
(* A cancelled adapter never ends without its one response, whatever the   *)
(* user presses while it waits for the check (the docstring of the         *)
(* adapter: it writes exactly one response to stdout).                     *)
(***************************************************************************)
OneResponse == [][adapter = "grace" /\ adapter' # "grace" => response' # "none"]_vars
==============================================================================
