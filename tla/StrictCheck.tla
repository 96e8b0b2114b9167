----------------------------- MODULE StrictCheck -----------------------------
(***************************************************************************)
(* The strict check of a project from load_project to the exit code:       *)
(* run_strict_check (quality.py), the outer shells of the two jobs it runs *)
(* (runner/coverage_backend.py, runner/mutation_backend.py) and main of    *)
(* cli.py, while somebody goes on editing the project.                     *)
(*                                                                         *)
(* The project is never locked. Its files are read one at a time, by the   *)
(* command and by both jobs, and inventories taken before and after are    *)
(* compared. A file is its stamp: the times, the inode and the digest that *)
(* no two edits share, 0 for a file that does not exist. How run_pair      *)
(* works inside is RunPair, the commit is EvidenceStore, and what a job    *)
(* does between its walks is MutationRun.                                  *)
(***************************************************************************)
EXTENDS Integers, FiniteSets

CONSTANTS
  Files,      \* the files that match a production pattern
  MaxEdits    \* how often a file is written, created or deleted

ASSUME CheckAssumption == MaxEdits \in Nat

Modes == {"parallel", "sequential"}

Jobs == {"coverage", "mutation"}
Walkers == Jobs \cup {"main"}

\* The walks over the files: load_project lists them, an inventory is taken
\* before and after, a snapshot is copied, the sources are read.
Walks == {"load", "before", "copy", "sources", "after"}

Unseen == -1
NotExited == -1

VARIABLES
  mode,       \* --execution-mode
  tree,       \* tree[f]: the stamp of file f
  stamp,      \* the last stamp given
  at,         \* at[w]: the walk or the step w is at
  seen,       \* seen[w][k][f]: the stamp that walk k of w found
  error,      \* error[w]: the exit codes of what w raised, {} if nothing
  gates,      \* the gates that passed
  published,  \* the terminal status of the evidence, "none" without any
  exit        \* the exit code of the command

vars == <<mode, tree, stamp, at, seen, error, gates, published, exit>>

resultVars == <<gates, published, exit>>
treeVars == <<mode, tree, stamp>>

Nothing == [f \in Files |-> Unseen]

Init ==
  /\ mode \in Modes
  /\ tree \in [Files -> 0..1]
  /\ stamp = 1
  /\ at = [w \in Walkers |-> IF w = "main" THEN "load" ELSE "idle"]
  /\ seen = [w \in Walkers |-> [k \in Walks |-> Nothing]]
  /\ error = [w \in Walkers |-> {}]
  /\ gates = {}
  /\ published = "none"
  /\ exit = NotExited

\* production_sources, which nobody lists again.
Listed == {f \in Files : seen["main"]["load"][f] > 0}

Walked(w, k) == at[w] = k /\ \A f \in Files : seen[w][k][f] # Unseen

Goto(w, to) == at' = [at EXCEPT ![w] = to]
------------------------------------------------------------------------------
\* Somebody writes or creates a file, or deletes one.
Edit ==
  /\ exit = NotExited
  /\ stamp <= MaxEdits
  /\ stamp' = stamp + 1
  /\ \E f \in Files : \E s \in {0, stamp'} :
       /\ s # tree[f]
       /\ tree' = [tree EXCEPT ![f] = s]
  /\ UNCHANGED <<mode, at, seen, error, resultVars>>

\* A walk comes to a file, in the order the directory gives.
Visit(w) ==
  /\ at[w] \in Walks
  /\ \E f \in Files :
       /\ seen[w][at[w]][f] = Unseen
       /\ seen' = [seen EXCEPT ![w][at[w]][f] = tree[f]]
  /\ UNCHANGED <<treeVars, at, error, resultVars>>

Moves == UNCHANGED <<treeVars, seen, resultVars>>

\* A walk that raises leaves nothing behind.
Abandons(w) ==
  /\ seen' = IF at[w] \in Walks THEN [seen EXCEPT ![w][at[w]] = Nothing] ELSE seen
  /\ UNCHANGED <<treeVars, resultVars>>
------------------------------------------------------------------------------
(***************************************************************************)
(* load_project, and the usage errors it and load_gate raise.              *)
(***************************************************************************)
LoadEnds ==
  /\ Walked("main", "load")
  /\ Listed # {}
  /\ Goto("main", "before")
  /\ UNCHANGED error
  /\ Moves

\* restrict_production: no changed path is a listed file, nothing is run.
EmptyScope ==
  /\ Walked("main", "load")
  /\ Listed # {}
  /\ Goto("main", "emit")
  /\ UNCHANGED error
  /\ Moves

NothingJudged == seen["main"]["before"] = Nothing

LoadFails ==
  /\ at["main"] = "load"
  /\ error' = [error EXCEPT !["main"] = {3}]
  /\ Goto("main", "emit")
  /\ Abandons("main")

(***************************************************************************)
(* The shells of the jobs, run_fresh_coverage and run_mutmut.              *)
(***************************************************************************)
BeforeEnds(w) ==
  /\ Walked(w, "before")
  /\ at' = IF w = "main"
           THEN [v \in Walkers |-> IF v = "main" THEN "jobs"
                                   ELSE IF v = "coverage" \/ mode = "parallel" THEN "before"
                                   ELSE "idle"]
           ELSE [at EXCEPT ![w] = "copy"]
  /\ UNCHANGED error
  /\ Moves

\* A symbolic link, or a file that went away: the command has no inventory.
BeforeFails ==
  /\ at["main"] = "before"
  /\ error' = [error EXCEPT !["main"] = {6}]
  /\ Goto("main", "emit")
  /\ Abandons("main")

\* The mutation job reads the sources of its candidates from the project,
\* the coverage job later from its snapshot.
CopyEnds(w) ==
  /\ Walked(w, "copy")
  /\ Goto(w, IF w = "mutation" THEN "sources" ELSE "work")
  /\ UNCHANGED error
  /\ Moves

SourcesEnd ==
  /\ Walked("mutation", "sources")
  /\ \A f \in Listed : seen["mutation"]["sources"][f] > 0
  /\ Goto("mutation", "work")
  /\ UNCHANGED error
  /\ Moves

\* Baselines, measurements and results; a listed file must be in the copy.
WorkEnds(w) ==
  /\ at[w] = "work"
  /\ \A f \in Listed : seen[w]["copy"][f] > 0
  /\ Goto(w, "after")
  /\ UNCHANGED error
  /\ Moves

\* BaselineFailure is 4; CoverageRunnerError and BackendLockError are 5; the
\* other errors of the mutation job are 6, or 1 from the analysis.
JobErrors == [coverage |-> {4, 5}, mutation |-> {1, 4, 5, 6}]

\* Before the try block the error goes straight out of the job.
JobFails(w) ==
  /\ at[w] \in {"before", "copy", "sources", "work"}
  /\ error' = [error EXCEPT ![w] = JobErrors[w]]
  /\ Goto(w, IF at[w] = "before" THEN "done" ELSE "after")
  /\ Abandons(w)

Changed(w) == seen[w]["before"] # seen[w]["after"]

\* protectedSourceChanged, wrapped by the coverage job.
ChangedCode(w) == IF w = "coverage" THEN {5} ELSE {6}

NextAfter(w) ==
  IF w \in Jobs THEN "done" ELSE IF error'[w] = {} THEN "gate" ELSE "emit"

\* Mistakes: only the jobs compare their inventories; an error that is on
\* its way is kept.
CompareInJobs(w) ==
  /\ Walked(w, "after")
  /\ error' = [error EXCEPT ![w] = IF w \in Jobs /\ Changed(w) THEN ChangedCode(w) ELSE @]
  /\ Goto(w, NextAfter(w))
  /\ Moves

CompareWithoutError(w) ==
  /\ Walked(w, "after")
  /\ error' = [error EXCEPT ![w] = IF @ = {} /\ Changed(w) THEN ChangedCode(w) ELSE @]
  /\ Goto(w, NextAfter(w))
  /\ Moves

\* The finally clauses: another inventory, whatever was raised, and the
\* difference replaces it.
AfterEnds(w) ==
  /\ Walked(w, "after")
  /\ error' = [error EXCEPT ![w] = IF Changed(w) THEN ChangedCode(w) ELSE @]
  /\ Goto(w, NextAfter(w))
  /\ Moves

\* The inventory itself fails on a file that went away under it.
AfterFails(w) ==
  /\ at[w] = "after"
  /\ error' = [error EXCEPT ![w] = ChangedCode(w)]
  /\ Goto(w, IF w \in Jobs THEN "done" ELSE "emit")
  /\ Abandons(w)
------------------------------------------------------------------------------
(***************************************************************************)
(* run_pair as run_strict_check sees it.                                   *)
(***************************************************************************)
\* Sequential mode: the mutation job follows a coverage job that returned.
NextJob ==
  /\ at["coverage"] = "done" /\ error["coverage"] = {}
  /\ at["mutation"] = "idle"
  /\ Goto("mutation", "before")
  /\ UNCHANGED error
  /\ Moves

\* The command leaves run_pair; a job that still runs is stopped and its
\* memory and its snapshot are gone.
LeavePair ==
  /\ at' = [w \in Walkers |-> IF w = "main" THEN "after"
                              ELSE IF at[w] = "done" THEN "done" ELSE "stopped"]
  /\ seen' = [w \in Walkers |-> IF w = "main" \/ at[w] = "done" THEN seen[w]
                                ELSE [k \in Walks |-> Nothing]]
  /\ UNCHANGED <<treeVars, resultVars>>

\* Mistake: the result of one job is taken for both.
PairReturnsFirst ==
  /\ at["main"] = "jobs"
  /\ \E j \in Jobs : at[j] = "done" /\ error[j] = {}
  /\ LeavePair
  /\ UNCHANGED error

PairReturns ==
  /\ at["main"] = "jobs"
  /\ \A j \in Jobs : at[j] = "done" /\ error[j] = {}
  /\ LeavePair
  /\ UNCHANGED error

\* The error of a job, or in parallel mode one of run_pair's own: a
\* ParallelExecutionError (6), or an OSError of its directory, of a fork or
\* of a broken message, which main does not catch (1).
PairRaises ==
  /\ at["main"] = "jobs"
  /\ \/ \E j \in Jobs :
          /\ at[j] = "done" /\ error[j] # {}
          /\ error' = [error EXCEPT !["main"] = error[j]]
     \/ /\ mode = "parallel"
        /\ error' = [error EXCEPT !["main"] = {1, 6}]
  /\ LeavePair
------------------------------------------------------------------------------
(***************************************************************************)
(* The gates, the commit and the result.                                   *)
(***************************************************************************)
\* Mistake: a status that names the gate.
StatusOfGate == IF gates = Jobs THEN "passed" ELSE "crapFailed"

Status == IF gates = Jobs THEN "passed" ELSE "qualityFailed"

Gate ==
  /\ at["main"] = "gate"
  /\ gates' \in SUBSET Jobs
  /\ Goto("main", "commit")
  /\ UNCHANGED <<treeVars, seen, error, published, exit>>

\* A report that cannot be read (5), an analysis (1) or a record (6).
GateFails ==
  /\ at["main"] = "gate"
  /\ error' = [error EXCEPT !["main"] = {1, 5, 6}]
  /\ Goto("main", "emit")
  /\ Moves

Commit ==
  /\ at["main"] = "commit"
  /\ published' = Status
  /\ Goto("main", "emit")
  /\ UNCHANGED <<treeVars, seen, error, gates, exit>>

\* Mistake: the result does not depend on the commit.
CommitIgnored ==
  /\ at["main"] = "commit"
  /\ published' \in {"none", Status}
  /\ Goto("main", "emit")
  /\ UNCHANGED <<treeVars, seen, error, gates, exit>>

\* An EvidenceError, also of the last sync when the run is there already.
CommitFails ==
  /\ at["main"] = "commit"
  /\ published' \in {"none", Status}
  /\ error' = [error EXCEPT !["main"] = {7}]
  /\ Goto("main", "emit")
  /\ UNCHANGED <<treeVars, seen, gates, exit>>

Emit ==
  /\ at["main"] = "emit"
  /\ exit' \in IF error["main"] # {} THEN error["main"]
               ELSE IF NothingJudged \/ Status = "passed" THEN {0} ELSE {2}
  /\ Goto("main", "exit")
  /\ UNCHANGED <<treeVars, seen, error, gates, published>>

\* --output cannot be written: an EvidenceError, whose own message goes the
\* same way, and then nobody catches it.
EmitFails ==
  /\ at["main"] = "emit"
  /\ IF error["main"] = {}
     THEN error' = [error EXCEPT !["main"] = {7}] /\ UNCHANGED <<at, exit>>
     ELSE exit' = 1 /\ Goto("main", "exit") /\ UNCHANGED error
  /\ UNCHANGED <<treeVars, seen, gates, published>>

(***************************************************************************)
(* Ctrl-C. In the jobs it goes through the finally clause, in the commit   *)
(* it may come after the run was published. While an error is reported     *)
(* nobody catches it and the process dies of it (130).                     *)
(***************************************************************************)
Interrupt ==
  /\ at["main"] \notin {"emit", "exit"}
  /\ error' = [error EXCEPT !["main"] = {8}]
  /\ \/ at["main"] = "jobs" /\ LeavePair
     \/ at["main"] \notin {"jobs", "commit"} /\ Goto("main", "emit") /\ Abandons("main")
     \/ /\ at["main"] = "commit"
        /\ published' \in {"none", Status}
        /\ Goto("main", "emit")
        /\ UNCHANGED <<treeVars, seen, gates, exit>>

InterruptEmit ==
  /\ at["main"] = "emit"
  /\ IF error["main"] = {}
     THEN error' = [error EXCEPT !["main"] = {8}] /\ UNCHANGED <<at, exit>>
     ELSE exit' = 130 /\ Goto("main", "exit") /\ UNCHANGED error
  /\ UNCHANGED <<treeVars, seen, gates, published>>
------------------------------------------------------------------------------
Exited == exit # NotExited /\ UNCHANGED vars

Job(w) == CopyEnds(w) \/ WorkEnds(w) \/ JobFails(w)

Next ==
  \/ Edit
  \/ LoadEnds \/ EmptyScope \/ LoadFails \/ BeforeFails
  \/ \E w \in Walkers : Visit(w) \/ BeforeEnds(w) \/ AfterEnds(w) \/ AfterFails(w)
  \/ \E w \in Jobs : Job(w)
  \/ SourcesEnd \/ NextJob \/ PairReturns \/ PairRaises
  \/ Gate \/ GateFails \/ Commit \/ CommitFails \/ Emit \/ EmitFails
  \/ Interrupt \/ InterruptEmit
  \/ Exited

Spec == Init /\ [][Next]_vars
------------------------------------------------------------------------------
Statuses == {"none", "passed", "qualityFailed"}

ExitCodes == 0..8 \cup {130}

(***************************************************************************)
(* Type invariant: the places of the three walkers, what they saw and the  *)
(* exit codes of main (cli.py).                                            *)
(***************************************************************************)
TypeOK ==
  /\ mode \in Modes
  /\ stamp \in 1..(MaxEdits + 1)
  /\ tree \in [Files -> 0..stamp]
  /\ at \in [Walkers -> Walks \cup {"idle", "jobs", "work", "done", "stopped", "gate",
                                     "commit", "emit", "exit"}]
  /\ seen \in [Walkers -> [Walks -> [Files -> {Unseen} \cup 0..stamp]]]
  /\ error \in [Walkers -> SUBSET ExitCodes]
  /\ gates \in SUBSET Jobs
  /\ published \in Statuses
  /\ exit \in ExitCodes \cup {NotExited}

Found(w, k, f) == seen[w][k][f]

(***************************************************************************)
(* Evidence is about one tree: every file of the first inventory is the    *)
(* same in both snapshots, in the sources of the candidates and in every   *)
(* later inventory, although each walk read it at a time of its own        *)
(* (the inventories of run_strict_check, run_mutmut, run_fresh_coverage).  *)
(***************************************************************************)
OneTree ==
  published # "none" =>
    \A f \in Files : Found("main", "before", f) # 0 =>
      /\ Found("main", "after", f) = Found("main", "before", f)
      /\ \A j \in Jobs : Found(j, "copy", f) = Found("main", "before", f)
      /\ Found("mutation", "sources", f) = Found("main", "before", f)

(***************************************************************************)
(* An edit that a job came across is what the command reports: a file of   *)
(* the first inventory that a job found different makes the command exit   *)
(* with 6, whatever else went wrong, unless the report itself is           *)
(* interrupted or cannot be written (the finally of run_strict_check).     *)
(***************************************************************************)
EditsReported ==
  exit \notin {NotExited, 1, 8, 130} =>
    \A f \in Files, j \in Jobs, k \in {"before", "copy", "sources", "after"} :
      Found("main", "before", f) > 0 /\ Found(j, k, f) \notin {Unseen, Found("main", "before", f)} =>
        exit = 6

(***************************************************************************)
(* The exit code and the store agree: 0 and 2 only with the evidence of    *)
(* just that verdict, or 0 without any when no changed file was listed and *)
(* nothing was judged, and no evidence with a usage, baseline, dependency   *)
(* or backend error, wherever the command is interrupted or fails          *)
(* (run_strict_check and main).                                            *)
(***************************************************************************)
ExitMatchesEvidence ==
  /\ exit = 0 => published = "passed" \/ (published = "none" /\ NothingJudged)
  /\ exit = 2 => published = "qualityFailed"
  /\ exit \in 3..6 => published = "none"

(***************************************************************************)
(* Evidence says passed only when both gates passed on results of two jobs *)
(* that ended without an error and found every listed file                 *)
(* (run_strict_check).                                                     *)
(***************************************************************************)
PassNeedsBoth ==
  published = "passed" =>
    /\ gates = Jobs
    /\ \A j \in Jobs :
         /\ at[j] = "done" /\ error[j] = {}
         /\ \A f \in Listed : Found(j, "copy", f) > 0
==============================================================================
