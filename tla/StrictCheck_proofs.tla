-------------------------- MODULE StrictCheck_proofs --------------------------
(***************************************************************************)
(* Theorems about StrictCheck for every set of files and every number of   *)
(* edits.                                                                  *)
(***************************************************************************)
EXTENDS StrictCheck, TLAPS

MainSteps == {"load", "before", "jobs", "after", "gate", "commit", "emit", "exit"}
JobSteps == {"idle", "before", "copy", "sources", "work", "after", "done", "stopped"}

\* The command and its jobs take different walks.
Places == at["main"] \in MainSteps /\ \A j \in Jobs : at[j] \in JobSteps

Typed == TypeOK /\ Places
------------------------------------------------------------------------------
(***************************************************************************)
(* How the memory of the walkers changes: a visit adds one stamp, a walk   *)
(* that raises is forgotten, a job that is stopped is forgotten.           *)
(***************************************************************************)
LEMMA VisitSeen ==
  ASSUME TypeOK, NEW w \in Walkers, Visit(w)
  PROVE  \E f \in Files :
           /\ at[w] \in Walks /\ seen[w][at[w]][f] = Unseen
           /\ \A v \in Walkers, k \in Walks, g \in Files :
                seen'[v][k][g] = IF v = w /\ k = at[w] /\ g = f THEN tree[f] ELSE seen[v][k][g]
           /\ seen' \in [Walkers -> [Walks -> [Files -> {Unseen} \cup 0..stamp]]]
  <1>1. PICK f \in Files :
          /\ seen[w][at[w]][f] = Unseen
          /\ seen' = [seen EXCEPT ![w][at[w]][f] = tree[f]]
    BY DEF Visit
  <1>2. at[w] \in Walks
    BY DEF Visit
  <1>3. tree[f] \in {Unseen} \cup 0..stamp
    BY DEF TypeOK
  <1>4. seen' \in [Walkers -> [Walks -> [Files -> {Unseen} \cup 0..stamp]]]
    BY <1>1, <1>2, <1>3 DEF TypeOK
  <1>5. ASSUME NEW v \in Walkers, NEW k \in Walks, NEW g \in Files
        PROVE  seen'[v][k][g] = IF v = w /\ k = at[w] /\ g = f THEN tree[f] ELSE seen[v][k][g]
    BY <1>1, <1>2 DEF TypeOK
  <1> QED
    BY <1>1, <1>2, <1>4, <1>5

LEMMA AbandonSeen ==
  ASSUME TypeOK, NEW w \in Walkers, Abandons(w)
  PROVE  /\ \A v \in Walkers, k \in Walks, g \in Files :
              seen'[v][k][g] = IF v = w /\ k = at[w] THEN Unseen ELSE seen[v][k][g]
         /\ seen' \in [Walkers -> [Walks -> [Files -> {Unseen} \cup 0..stamp]]]
  <1>1. CASE at[w] \in Walks
    <2>1. seen' = [seen EXCEPT ![w][at[w]] = Nothing]
      BY <1>1 DEF Abandons
    <2>2. Nothing \in [Files -> {Unseen} \cup 0..stamp] /\ \A g \in Files : Nothing[g] = Unseen
      BY DEF Nothing
    <2> QED
      BY <1>1, <2>1, <2>2 DEF TypeOK
  <1>2. CASE at[w] \notin Walks
    BY <1>2 DEF Abandons, TypeOK
  <1> QED
    BY <1>1, <1>2

LEMMA LeaveSeen ==
  ASSUME TypeOK, LeavePair
  PROVE  /\ \A v \in Walkers, k \in Walks, g \in Files :
              seen'[v][k][g] = IF v = "main" \/ at[v] = "done" THEN seen[v][k][g] ELSE Unseen
         /\ seen' \in [Walkers -> [Walks -> [Files -> {Unseen} \cup 0..stamp]]]
         /\ \A j \in Jobs : at'[j] = IF at[j] = "done" THEN "done" ELSE "stopped"
         /\ at'["main"] = "after"
  BY DEF LeavePair, TypeOK, Nothing, Jobs, Walkers

\* A step that moves one walker.
LEMMA GotoTyped ==
  ASSUME TypeOK, Places, NEW w \in Walkers, NEW to, Goto(w, to),
         IF w = "main" THEN to \in MainSteps ELSE to \in JobSteps
  PROVE  /\ at' \in [Walkers -> Walks \cup {"idle", "jobs", "work", "done", "stopped", "gate",
                                           "commit", "emit", "exit"}]
         /\ Places'
         /\ at'[w] = to /\ \A v \in Walkers : v # w => at'[v] = at[v]
  BY DEF TypeOK, Places, Goto, MainSteps, JobSteps, Walks, Walkers, Jobs

LEMMA InitTyped == Init => Typed
  BY CheckAssumption
  DEF Init, Typed, TypeOK, Places, Nothing, Walkers, Jobs, Walks, MainSteps, JobSteps, Statuses

\* Whatever is raised is a set of exit codes.
LEMMA CodesTyped ==
  /\ \A j \in Jobs : JobErrors[j] \in SUBSET ExitCodes /\ JobErrors[j] # {}
  /\ \A w \in Walkers : ChangedCode(w) \in SUBSET ExitCodes /\ ChangedCode(w) # {}
  /\ {{1, 5, 6}, {3}, {6}, {7}, {8}} \subseteq SUBSET ExitCodes
  /\ {0, 1, 2, 130} \subseteq ExitCodes
  BY DEF JobErrors, ChangedCode, ExitCodes, Jobs, Walkers

LEMMA StepTyped ==
  ASSUME Typed, [Next]_vars
  PROVE  Typed'
  <1>0. TypeOK /\ Places /\ Walks \subseteq {"load", "before", "copy", "sources", "after"}
        /\ Jobs \subseteq Walkers /\ "main" \in Walkers /\ "main" \notin Jobs
        /\ {"coverage", "mutation"} = Jobs
    BY DEF Typed, Walks, Jobs, Walkers
  <1>1. CASE UNCHANGED vars
    BY <1>1 DEF vars, resultVars, treeVars, Typed, TypeOK, Places
  <1>2. CASE Edit
    <2>1. stamp' = stamp + 1 /\ stamp <= MaxEdits /\ stamp \in Nat
      BY <1>0, <1>2, CheckAssumption DEF Edit, TypeOK
    <2>2. tree' \in [Files -> 0..stamp']
      BY <1>0, <1>2, <2>1 DEF Edit, TypeOK
    <2>3. seen' \in [Walkers -> [Walks -> [Files -> {Unseen} \cup 0..stamp']]]
      BY <1>0, <1>2, <2>1 DEF Edit, TypeOK
    <2>4. stamp' \in 1..(MaxEdits + 1)
      BY <1>0, <2>1, CheckAssumption DEF TypeOK
    <2> QED
      BY <1>0, <1>2, <2>2, <2>3, <2>4 DEF Edit, resultVars, Typed, TypeOK, Places
  <1>3. ASSUME NEW w \in Walkers, Visit(w)
        PROVE  Typed'
    BY <1>0, <1>3, VisitSeen DEF Visit, treeVars, resultVars, Typed, TypeOK, Places
  \* The steps that only move a walker and perhaps record an error.
  <1>4. ASSUME NEW w \in Walkers, NEW to, Goto(w, to), error' \in [Walkers -> SUBSET ExitCodes],
               IF w = "main" THEN to \in MainSteps ELSE to \in JobSteps,
               UNCHANGED <<treeVars, resultVars>>,
               seen' \in [Walkers -> [Walks -> [Files -> {Unseen} \cup 0..stamp]]]
        PROVE  Typed'
    <2>1. Places' /\ at' \in [Walkers -> Walks \cup {"idle", "jobs", "work", "done", "stopped",
                                                     "gate", "commit", "emit", "exit"}]
      BY <1>0, <1>4, GotoTyped
    <2> QED
      BY <1>0, <1>4, <2>1 DEF treeVars, resultVars, Typed, TypeOK
  <1>5. CASE LoadEnds \/ EmptyScope
    <2>1. UNCHANGED <<error, seen, treeVars, resultVars>>
      BY <1>5 DEF LoadEnds, EmptyScope, Moves
    <2>2. Goto("main", "before") \/ Goto("main", "emit")
      BY <1>5 DEF LoadEnds, EmptyScope
    <2> QED
      BY <1>0, <1>4, <2>1, <2>2 DEF TypeOK, MainSteps
  <1>6. CASE LoadFails \/ BeforeFails
    <2>1. Goto("main", "emit") /\ Abandons("main")
      BY <1>6 DEF LoadFails, BeforeFails
    <2>2. error' = [error EXCEPT !["main"] = {3}] \/ error' = [error EXCEPT !["main"] = {6}]
      BY <1>6 DEF LoadFails, BeforeFails
    <2>3. error' \in [Walkers -> SUBSET ExitCodes]
      BY <1>0, <2>2, CodesTyped DEF TypeOK
    <2> QED
      BY <1>0, <1>4, <2>1, <2>3, AbandonSeen DEF Abandons, MainSteps
  <1>7. ASSUME NEW w \in Walkers, BeforeEnds(w)
        PROVE  Typed'
    <2>1. CASE w = "main"
      <3>1. /\ at' \in [Walkers -> Walks \cup {"idle", "jobs", "work", "done", "stopped", "gate",
                                               "commit", "emit", "exit"}]
            /\ Places'
        BY <1>0, <1>7, <2>1 DEF BeforeEnds, Walkers, Jobs, Walks, Places, MainSteps, JobSteps
      <3> QED
        BY <1>0, <1>7, <3>1 DEF BeforeEnds, Moves, treeVars, resultVars, Typed, TypeOK
    <2>2. CASE w # "main"
      BY <1>0, <1>4, <1>7, <2>2 DEF BeforeEnds, Moves, Goto, TypeOK, JobSteps
    <2> QED
      BY <2>1, <2>2
  <1>8. ASSUME NEW w \in Walkers, AfterEnds(w)
        PROVE  Typed'
    <2>1. error' \in [Walkers -> SUBSET ExitCodes]
      BY <1>0, <1>8, CodesTyped DEF AfterEnds, TypeOK
    <2>2. Goto(w, NextAfter(w)) /\ UNCHANGED <<seen, treeVars, resultVars>>
      BY <1>8 DEF AfterEnds, Moves
    <2>3. IF w = "main" THEN NextAfter(w) \in MainSteps ELSE NextAfter(w) \in JobSteps
      BY <1>0 DEF NextAfter, MainSteps, JobSteps, Walkers
    <2> QED
      BY <1>0, <1>4, <2>1, <2>2, <2>3 DEF TypeOK
  <1>9. ASSUME NEW w \in Walkers, AfterFails(w)
        PROVE  Typed'
    <2>1. error' \in [Walkers -> SUBSET ExitCodes]
      BY <1>0, <1>9, CodesTyped DEF AfterFails, TypeOK
    <2>2. Goto(w, IF w \in Jobs THEN "done" ELSE "emit") /\ Abandons(w)
      BY <1>9 DEF AfterFails
    <2>3. IF w = "main" THEN (IF w \in Jobs THEN "done" ELSE "emit") \in MainSteps
                        ELSE (IF w \in Jobs THEN "done" ELSE "emit") \in JobSteps
      BY <1>0 DEF MainSteps, JobSteps, Walkers
    <2> QED
      BY <1>0, <1>4, <2>1, <2>2, <2>3, AbandonSeen DEF Abandons
  <1>10. ASSUME NEW w \in Jobs, CopyEnds(w) \/ WorkEnds(w)
         PROVE  Typed'
    <2>1. UNCHANGED <<error, seen, treeVars, resultVars>>
      BY <1>10 DEF CopyEnds, WorkEnds, Moves
    <2>2. PICK to \in JobSteps : Goto(w, to)
      BY <1>10 DEF CopyEnds, WorkEnds, JobSteps
    <2> QED
      BY <1>0, <1>4, <2>1, <2>2 DEF TypeOK
  <1>11. ASSUME NEW w \in Jobs, JobFails(w)
         PROVE  Typed'
    <2>1. error' \in [Walkers -> SUBSET ExitCodes]
      BY <1>0, <1>11, CodesTyped DEF JobFails, TypeOK
    <2>2. PICK to \in JobSteps : Goto(w, to) /\ Abandons(w)
      BY <1>11 DEF JobFails, JobSteps
    <2> QED
      BY <1>0, <1>4, <2>1, <2>2, AbandonSeen DEF Abandons
  <1>12. CASE SourcesEnd \/ NextJob
    <2>1. UNCHANGED <<error, seen, treeVars, resultVars>>
      BY <1>12 DEF SourcesEnd, NextJob, Moves
    <2>2. PICK to \in JobSteps : Goto("mutation", to)
      BY <1>12 DEF SourcesEnd, NextJob, JobSteps
    <2> QED
      BY <1>0, <1>4, <2>1, <2>2 DEF TypeOK
  <1>13. ASSUME LeavePair, error' \in [Walkers -> SUBSET ExitCodes]
         PROVE  Typed'
    <2>1. /\ at' \in [Walkers -> Walks \cup {"idle", "jobs", "work", "done", "stopped", "gate",
                                             "commit", "emit", "exit"}]
          /\ Places'
      BY <1>0, <1>13, LeaveSeen DEF LeavePair, Walkers, Jobs, Walks, Places, MainSteps, JobSteps
    <2> QED
      BY <1>0, <1>13, <2>1, LeaveSeen DEF LeavePair, treeVars, resultVars, Typed, TypeOK
  <1>14. CASE PairReturns \/ PairRaises
    <2>1. error' \in [Walkers -> SUBSET ExitCodes]
      BY <1>0, <1>14, CodesTyped DEF PairReturns, PairRaises, TypeOK
    <2> QED
      BY <1>13, <1>14, <2>1 DEF PairReturns, PairRaises
  <1>15. CASE GateFails
    <2>1. error' \in [Walkers -> SUBSET ExitCodes]
      BY <1>0, <1>15, CodesTyped DEF GateFails, TypeOK
    <2> QED
      BY <1>0, <1>4, <1>15, <2>1 DEF GateFails, Moves, TypeOK, MainSteps
  \* The steps at the end keep the tree and the memory.
  <1>16. ASSUME UNCHANGED <<treeVars, seen>>, error' \in [Walkers -> SUBSET ExitCodes],
                at' = at \/ (\E to \in MainSteps : Goto("main", to)),
                gates' \in SUBSET Jobs, published' \in Statuses,
                exit' \in ExitCodes \cup {NotExited}
         PROVE  Typed'
    <2>1. /\ at' \in [Walkers -> Walks \cup {"idle", "jobs", "work", "done", "stopped", "gate",
                                             "commit", "emit", "exit"}]
          /\ Places'
      BY <1>0, <1>16, GotoTyped DEF TypeOK, Places
    <2> QED
      BY <1>0, <1>16, <2>1 DEF treeVars, Typed, TypeOK
  <1>17. Status \in Statuses /\ "none" \in Statuses
    BY DEF Status, Statuses
  <1>18. CASE Gate \/ Commit \/ CommitFails
    <2>1. error' \in [Walkers -> SUBSET ExitCodes]
      BY <1>0, <1>18, CodesTyped DEF Gate, Commit, CommitFails, TypeOK
    <2> QED
      BY <1>0, <1>16, <1>17, <1>18, <2>1 DEF Gate, Commit, CommitFails, TypeOK, MainSteps
  <1>19. CASE Emit \/ EmitFails \/ InterruptEmit
    <2>1. error' \in [Walkers -> SUBSET ExitCodes]
      BY <1>0, <1>19, CodesTyped DEF Emit, EmitFails, InterruptEmit, TypeOK
    <2>2. exit' \in ExitCodes \cup {NotExited}
      BY <1>0, <1>19, CodesTyped DEF Emit, EmitFails, InterruptEmit, TypeOK
    <2>3. UNCHANGED <<treeVars, seen, gates, published>>
      BY <1>19 DEF Emit, EmitFails, InterruptEmit
    <2>4. at' = at \/ (\E to \in MainSteps : Goto("main", to))
      BY <1>19 DEF Emit, EmitFails, InterruptEmit, MainSteps
    <2> QED
      BY <1>0, <1>16, <2>1, <2>2, <2>3, <2>4 DEF TypeOK
  <1>20. CASE Interrupt
    <2>1. error' \in [Walkers -> SUBSET ExitCodes]
      BY <1>0, <1>20, CodesTyped DEF Interrupt, TypeOK
    <2>2. CASE LeavePair
      BY <1>13, <2>1, <2>2
    <2>3. CASE Goto("main", "emit") /\ Abandons("main")
      BY <1>0, <1>4, <2>1, <2>3, AbandonSeen DEF Abandons, MainSteps
    <2>4. CASE published' \in {"none", Status} /\ Goto("main", "emit")
               /\ UNCHANGED <<treeVars, seen, gates, exit>>
      BY <1>0, <1>16, <1>17, <2>1, <2>4 DEF TypeOK, MainSteps
    <2> QED
      BY <1>20, <2>2, <2>3, <2>4 DEF Interrupt
  <1> QED
    BY <1>1, <1>2, <1>3, <1>5, <1>6, <1>7, <1>8, <1>9, <1>10, <1>11, <1>12, <1>14, <1>15,
       <1>18, <1>19, <1>20
    DEF Next, Job, Exited

(***************************************************************************)
(* The places of the three walkers, what they saw and the exit codes keep  *)
(* their types, for every set of files (quality.py, cli.py).               *)
(***************************************************************************)
THEOREM TypeCorrect == Spec => []TypeOK
  <1>1. Typed => TypeOK
    BY DEF Typed
  <1> QED
    BY <1>1, InitTyped, StepTyped, PTL DEF Spec
------------------------------------------------------------------------------
(***************************************************************************)
(* The invariant of the check. First, the order of the walks.              *)
(***************************************************************************)
\* Jobs walk only while the command waits for them.
JobsInOrder ==
  /\ at["main"] \in {"load", "before"} =>
       \A j \in Jobs : at[j] = "idle" /\ \A k \in Walks, f \in Files : seen[j][k][f] = Unseen
  /\ at["main"] # "jobs" => \A j \in Jobs : at[j] \in {"idle", "done", "stopped"}
  /\ at["main"] # "jobs" /\ at["coverage"] = "done" => at["mutation"] # "idle"

\* The command has its first inventory before the jobs begin, and its last
\* one is empty until they are over.
MainInOrder ==
  /\ at["main"] = "load" => \A f \in Files : seen["main"]["before"][f] = Unseen
  /\ at["main"] \in {"load", "before", "jobs"} =>
       \A f \in Files : seen["main"]["after"][f] = Unseen
  /\ at["main"] \in {"jobs", "after", "gate", "commit"} =>
       \A f \in Files : seen["main"]["before"][f] # Unseen
  /\ at["main"] \in {"before", "jobs", "after", "gate", "commit"} => Files # {}
  /\ at["main"] \in {"gate", "commit"} => error["main"] = {}

\* A job without an error has walked to the end.
JobsComplete ==
  \A j \in Jobs : error[j] = {} =>
    /\ at[j] \in {"sources", "work", "after", "done"} =>
         \A f \in Files : seen[j]["copy"][f] # Unseen
    /\ at[j] \in {"after", "done"} => \A f \in Listed : seen[j]["copy"][f] > 0
    /\ j = "mutation" /\ at[j] \in {"work", "after", "done"} =>
         \A f \in Files : seen[j]["sources"][f] # Unseen

\* A verdict is near, or there.
Judged == at["main"] \in {"gate", "commit"} \/ published # "none"

BothDone ==
  (at["main"] = "after" /\ error["main"] = {}) \/ Judged =>
    \A j \in Jobs : at[j] = "done" /\ error[j] = {}

Compared ==
  Judged => /\ Files # {}
            /\ \A f \in Files : /\ seen["main"]["before"][f] # Unseen
                                /\ seen["main"]["after"][f] = seen["main"]["before"][f]

(***************************************************************************)
(* The heart: stamps are never used twice, so a file that still has, or    *)
(* that the last inventory found with, the stamp of the first inventory    *)
(* had it all the time, and no job can have read anything else.            *)
(***************************************************************************)
OnlyStamp(f) ==
  \A j \in Jobs, k \in Walks : seen[j][k][f] \in {Unseen, seen["main"]["before"][f]}

TreeKept ==
  \A f \in Files : seen["main"]["before"][f] > 0 =>
    /\ tree[f] = seen["main"]["before"][f] => OnlyStamp(f)
    /\ seen["main"]["after"][f] = seen["main"]["before"][f] => OnlyStamp(f)

CheckInv ==
  /\ Typed /\ JobsInOrder /\ MainInOrder /\ JobsComplete /\ BothDone /\ Compared /\ TreeKept
  /\ published # "none" => at["main"] \in {"emit", "exit"}

LEMMA InitCheck == Init => CheckInv
  <1> SUFFICES ASSUME Init PROVE CheckInv
    OBVIOUS
  <1>1. \A w \in Walkers, k \in Walks, f \in Files : seen[w][k][f] = Unseen
    BY DEF Init, Nothing
  <1>2. at["main"] = "load" /\ published = "none" /\ \A j \in Jobs : at[j] = "idle"
    BY DEF Init, Jobs, Walkers
  <1>3. \A f \in Files : seen["main"]["before"][f] = Unseen /\ seen["main"]["after"][f] = Unseen
    BY <1>1 DEF Walkers, Walks
  <1>4. JobsInOrder /\ MainInOrder /\ JobsComplete /\ BothDone /\ Compared
    BY <1>1, <1>2, <1>3
    DEF JobsInOrder, MainInOrder, JobsComplete, BothDone, Compared, Judged, Jobs, Walkers
  <1>5. TreeKept
    BY <1>3 DEF TreeKept, Unseen
  <1> QED
    BY <1>2, <1>4, <1>5, InitTyped DEF CheckInv

\* The memory of the two inventories and of the jobs is read by name.
LEMMA Names ==
  /\ Jobs = {"coverage", "mutation"} /\ Walkers = {"coverage", "mutation", "main"}
  /\ Walks = {"load", "before", "copy", "sources", "after"}
  BY DEF Jobs, Walkers, Walks

(***************************************************************************)
(* An edit gives a stamp that nobody has seen.                             *)
(***************************************************************************)
LEMMA EditKeeps ==
  ASSUME CheckInv, Edit
  PROVE  CheckInv'
  <1>1. Typed'
    BY StepTyped DEF CheckInv, Next
  <1>2. UNCHANGED <<at, seen, error, published>>
    BY DEF Edit, resultVars
  <1>3. (JobsInOrder /\ MainInOrder /\ JobsComplete /\ BothDone /\ Compared)'
    BY <1>2
    DEF CheckInv, JobsInOrder, MainInOrder, JobsComplete, BothDone, Compared, Judged, Listed
  <1>4. \A f \in Files : tree'[f] = tree[f] \/ tree'[f] = 0 \/ tree'[f] = stamp + 1
    BY DEF Edit, CheckInv, Typed, TypeOK
  <1>5. \A f \in Files : seen["main"]["before"][f] # stamp + 1 /\ stamp \in Nat
    BY Names DEF CheckInv, Typed, TypeOK, Unseen
  <1>6. TreeKept'
    BY <1>2, <1>4, <1>5 DEF CheckInv, TreeKept, OnlyStamp
  <1> QED
    BY <1>1, <1>2, <1>3, <1>6 DEF CheckInv

(***************************************************************************)
(* A visit reads the stamp that the file has. A job reads while the last   *)
(* inventory is empty, and the last inventory reads when the jobs are over.*)
(***************************************************************************)
LEMMA VisitKeeps ==
  ASSUME CheckInv, NEW w \in Walkers, Visit(w)
  PROVE  CheckInv'
  <1>1. Typed' /\ TypeOK
    BY StepTyped DEF CheckInv, Next, Typed
  <1>2. UNCHANGED <<at, error, published, tree>>
    BY DEF Visit, resultVars, treeVars
  <1>3. PICK g \in Files :
           /\ at[w] \in Walks /\ seen[w][at[w]][g] = Unseen
           /\ \A v \in Walkers, k \in Walks, f \in Files :
                seen'[v][k][f] = IF v = w /\ k = at[w] /\ f = g THEN tree[f] ELSE seen[v][k][f]
    BY <1>1, VisitSeen
  <1>4. tree[g] \in Nat /\ tree[g] # Unseen
    BY <1>1 DEF TypeOK, Unseen
  <1>5. w \in Jobs => at["main"] = "jobs"
    BY <1>3, Names DEF CheckInv, JobsInOrder
  <1>6. w \notin Jobs => w = "main" /\ at["main"] \in {"load", "before", "after"}
    BY <1>3, Names DEF CheckInv, Typed, Places, MainSteps
  <1>7. JobsInOrder'
    BY <1>2, <1>3, <1>5, <1>6, Names DEF CheckInv, JobsInOrder
  <1>8. MainInOrder'
    BY <1>2, <1>3, <1>4, <1>5, <1>6, Names DEF CheckInv, MainInOrder
  <1>9. JobsComplete'
    <2>1. CASE w \in Jobs
      <3>1. Listed' = Listed
        BY <1>3, <2>1, Names DEF Listed
      <3> QED
        BY <1>2, <1>3, <1>4, <2>1, <3>1, Names DEF CheckInv, JobsComplete, Listed
    <2>2. CASE w = "main" /\ at["main"] = "load"
      BY <1>2, <2>2, Names DEF CheckInv, JobsComplete, JobsInOrder
    <2>3. CASE w = "main" /\ at["main"] # "load"
      <3>1. Listed' = Listed
        BY <1>3, <2>3, Names DEF Listed
      <3> QED
        BY <1>2, <1>3, <2>3, <3>1, Names DEF CheckInv, JobsComplete, Listed
    <2> QED
      BY <1>6, <2>1, <2>2, <2>3
  <1>10. BothDone'
    BY <1>2 DEF CheckInv, BothDone, Judged
  <1>11. ~Judged /\ ~Judged' /\ published = "none"
    BY <1>2, <1>5, <1>6 DEF Judged, CheckInv
  <1>12. Compared'
    BY <1>11 DEF Compared
  <1>13. TreeKept'
    <2>1. CASE w \in Jobs
      <3>1. \A f \in Files : seen'["main"]["before"][f] = seen["main"]["before"][f]
                             /\ seen'["main"]["after"][f] = Unseen
        BY <1>3, <1>5, <2>1, Names DEF CheckInv, MainInOrder
      <3>2. ASSUME NEW f \in Files, seen["main"]["before"][f] > 0,
                   tree[f] = seen["main"]["before"][f]
            PROVE  OnlyStamp(f)'
        <4>1. OnlyStamp(f)
          BY <3>2 DEF CheckInv, TreeKept
        <4>2. \A j \in Jobs, k \in Walks : seen'[j][k][f] \in {seen[j][k][f], tree[f]}
          BY <1>3, Names
        <4> QED
          BY <3>1, <3>2, <4>1, <4>2 DEF OnlyStamp
      <3> QED
        BY <1>2, <3>1, <3>2 DEF TreeKept, Unseen
    <2>2. CASE w = "main" /\ at["main"] \in {"load", "before"}
      <3>1. \A j \in Jobs, k \in Walks, f \in Files : seen'[j][k][f] = Unseen
        BY <1>3, <2>2, Names DEF CheckInv, JobsInOrder
      <3> QED
        BY <3>1 DEF TreeKept, OnlyStamp
    <2>3. CASE w = "main" /\ at["main"] = "after"
      <3>1. /\ \A f \in Files : /\ seen'["main"]["before"][f] = seen["main"]["before"][f]
                                /\ seen'["main"]["after"][f] \in {tree[f], seen["main"]["after"][f]}
            /\ \A j \in Jobs, k \in Walks, f \in Files : seen'[j][k][f] = seen[j][k][f]
        BY <1>3, <2>3, Names
      <3> QED
        BY <1>2, <3>1 DEF CheckInv, TreeKept, OnlyStamp
    <2> QED
      BY <1>6, <2>1, <2>2, <2>3
  <1> QED
    BY <1>1, <1>2, <1>7, <1>8, <1>9, <1>10, <1>12, <1>13 DEF CheckInv

(***************************************************************************)
(* Every other step forgets stamps at most, which is harmless.             *)
(***************************************************************************)
Forgets ==
  /\ UNCHANGED tree
  /\ \A w \in Walkers, k \in Walks, f \in Files : seen'[w][k][f] \in {seen[w][k][f], Unseen}

LEMMA ForgetKeepsTree ==
  ASSUME CheckInv, Forgets
  PROVE  TreeKept'
  <1> SUFFICES ASSUME NEW f \in Files, seen'["main"]["before"][f] > 0,
                      \/ tree[f] = seen'["main"]["before"][f]
                      \/ seen'["main"]["after"][f] = seen'["main"]["before"][f]
               PROVE  OnlyStamp(f)'
    BY DEF TreeKept, Forgets
  <1>1. /\ seen'["main"]["before"][f] = seen["main"]["before"][f]
        /\ seen'["main"]["after"][f] \in {seen["main"]["after"][f], Unseen}
    BY Names DEF Forgets, Unseen
  <1>2. OnlyStamp(f)
    BY <1>1 DEF CheckInv, TreeKept, Unseen
  <1>3. \A j \in Jobs, k \in Walks : seen'[j][k][f] \in {seen[j][k][f], Unseen}
    BY Names DEF Forgets
  <1> QED
    BY <1>1, <1>2, <1>3 DEF OnlyStamp

(***************************************************************************)
(* Steps of the command before the jobs, with nothing seen by a job.       *)
(***************************************************************************)
LEMMA EarlyKeeps ==
  ASSUME CheckInv,
         \/ LoadEnds \/ EmptyScope \/ LoadFails \/ BeforeEnds("main") \/ BeforeFails
         \/ Interrupt /\ at["main"] \in {"load", "before"}
  PROVE  CheckInv'
  <1>1. Typed' /\ TypeOK /\ Places
    BY StepTyped, Names DEF CheckInv, Next, Typed
  <1>2. at["main"] \in {"load", "before"} /\ UNCHANGED <<tree, published>>
    BY DEF LoadEnds, EmptyScope, LoadFails, BeforeEnds, BeforeFails, Interrupt, Moves, Abandons,
           Walked, treeVars, resultVars
  <1>3. /\ \A j \in Jobs : at[j] = "idle"
        /\ \A j \in Jobs, k \in Walks, f \in Files : seen[j][k][f] = Unseen
        /\ \A f \in Files : seen["main"]["after"][f] = Unseen
        /\ published = "none"
    BY <1>2 DEF CheckInv, JobsInOrder, MainInOrder
  <1>4. CASE LoadEnds \/ BeforeEnds("main")
    <2>1. UNCHANGED <<seen, error>>
      BY <1>4 DEF LoadEnds, BeforeEnds, Moves
    <2>2. CASE LoadEnds
      <3>1. at'["main"] = "before" /\ (\A j \in Jobs : at'[j] = "idle") /\ Files # {}
        BY <1>1, <1>3, <2>2, Names DEF LoadEnds, Goto, TypeOK, Listed
      <3>2. (JobsInOrder /\ MainInOrder /\ JobsComplete)'
        BY <1>3, <2>1, <3>1, Names DEF JobsInOrder, MainInOrder, JobsComplete
      <3>3. (BothDone /\ Compared /\ TreeKept)'
        BY <1>2, <1>3, <2>1, <3>1, ForgetKeepsTree DEF BothDone, Compared, Judged, Forgets
      <3> QED
        BY <1>1, <1>2, <1>3, <3>2, <3>3 DEF CheckInv
    <2>3. CASE BeforeEnds("main")
      <3>1. /\ at'["main"] = "jobs" /\ at'["coverage"] = "before"
            /\ at'["mutation"] \in {"idle", "before"}
        BY <1>1, <2>3, Names DEF BeforeEnds
      <3>2. \A f \in Files : seen["main"]["before"][f] # Unseen
        BY <2>3 DEF BeforeEnds, Walked
      <3>3. Files # {}
        BY <2>3 DEF CheckInv, MainInOrder, BeforeEnds, Walked
      <3>4. (JobsInOrder /\ MainInOrder /\ JobsComplete)'
        BY <1>3, <2>1, <3>1, <3>2, <3>3, Names DEF JobsInOrder, MainInOrder, JobsComplete
      <3>5. (BothDone /\ Compared /\ TreeKept)'
        BY <1>2, <1>3, <2>1, <3>1, ForgetKeepsTree DEF BothDone, Compared, Judged, Forgets
      <3> QED
        BY <1>1, <1>2, <1>3, <3>4, <3>5 DEF CheckInv
    <2> QED
      BY <1>4, <2>2, <2>3
  <1>5. CASE ~LoadEnds /\ ~BeforeEnds("main")
    <2>1. /\ at'["main"] = "emit" /\ \A j \in Jobs : at'[j] = "idle"
          /\ \A w \in Walkers, k \in Walks, f \in Files : seen'[w][k][f] \in {seen[w][k][f], Unseen}
      <3>1. CASE EmptyScope
        BY <1>1, <1>3, <3>1, Names DEF EmptyScope, Goto, Moves, TypeOK
      <3>2. CASE Goto("main", "emit") /\ Abandons("main")
        BY <1>1, <1>3, <3>2, Names, AbandonSeen DEF Goto, TypeOK
      <3> QED
        BY <1>2, <1>5, <3>1, <3>2 DEF LoadFails, BeforeFails, Interrupt
    <2>2. \A j \in Jobs, k \in Walks, f \in Files : seen'[j][k][f] = Unseen
      BY <1>3, <2>1, Names
    <2> QED
      BY <1>1, <1>2, <1>3, <2>1, <2>2, ForgetKeepsTree, Names
      DEF CheckInv, JobsInOrder, MainInOrder, JobsComplete, BothDone, Compared, Judged, Forgets
  <1> QED
    BY <1>4, <1>5

(***************************************************************************)
(* Steps of a job. Each walk of a job that goes on has come to its end.    *)
(***************************************************************************)
LEMMA JobKeeps ==
  ASSUME CheckInv, NEW j \in Jobs,
         \/ BeforeEnds(j) \/ CopyEnds(j) \/ WorkEnds(j) \/ JobFails(j) \/ AfterEnds(j)
         \/ AfterFails(j) \/ (j = "mutation" /\ (SourcesEnd \/ NextJob))
  PROVE  CheckInv'
  <1>1. Typed' /\ TypeOK /\ Places
    BY StepTyped, Names DEF CheckInv, Next, Job, Typed
  <1>2. UNCHANGED <<tree, published>>
    BY DEF BeforeEnds, CopyEnds, WorkEnds, JobFails, AfterEnds, AfterFails, SourcesEnd, NextJob,
           Moves, Abandons, treeVars, resultVars
  <1>3. at["main"] = "jobs"
    BY Names
    DEF CheckInv, JobsInOrder, BeforeEnds, CopyEnds, WorkEnds, JobFails, AfterEnds, AfterFails,
        SourcesEnd, NextJob, Walked
  <1>4. /\ \A w \in Walkers : w # j => at'[w] = at[w] /\ error'[w] = error[w]
        /\ \A w \in Walkers, k \in Walks, f \in Files : w # j => seen'[w][k][f] = seen[w][k][f]
        /\ \A k \in Walks, f \in Files : seen'[j][k][f] \in {seen[j][k][f], Unseen}
    <2>1. CASE JobFails(j) \/ AfterFails(j)
      BY <1>1, <2>1, AbandonSeen, Names DEF JobFails, AfterFails, Goto, TypeOK
    <2>2. CASE BeforeEnds(j) \/ CopyEnds(j) \/ WorkEnds(j) \/ AfterEnds(j)
      BY <1>1, <2>2, Names
      DEF BeforeEnds, CopyEnds, WorkEnds, AfterEnds, Goto, Moves, TypeOK
    <2>3. CASE j = "mutation" /\ (SourcesEnd \/ NextJob)
      BY <1>1, <2>3, Names DEF SourcesEnd, NextJob, Goto, Moves, TypeOK
    <2> QED
      BY <2>1, <2>2, <2>3
  <1>5. Listed' = Listed
    BY <1>4, Names DEF Listed
  <1>6. error'[j] = {} => UNCHANGED seen /\ error[j] = {}
    <2>1. CASE JobFails(j) \/ AfterFails(j)
      BY <1>1, <2>1, CodesTyped, Names DEF JobFails, AfterFails, TypeOK
    <2>2. CASE ~(JobFails(j) \/ AfterFails(j))
      BY <1>1, <2>2, CodesTyped, Names
      DEF BeforeEnds, CopyEnds, WorkEnds, AfterEnds, SourcesEnd, NextJob, Moves, TypeOK
    <2> QED
      BY <2>1, <2>2
  <1>7. JobsComplete'
    <2>1. \A i \in Jobs : i # j =>
            at'[i] = at[i] /\ error'[i] = error[i]
            /\ \A k \in Walks, f \in Files : seen'[i][k][f] = seen[i][k][f]
      BY <1>4, Names
    <2>2. CASE error'[j] # {}
      <3> SUFFICES ASSUME NEW i \in Jobs, error'[i] = {}
                   PROVE  /\ at'[i] \in {"sources", "work", "after", "done"} =>
                               \A f \in Files : seen'[i]["copy"][f] # Unseen
                          /\ at'[i] \in {"after", "done"} =>
                               \A f \in Listed : seen'[i]["copy"][f] > 0
                          /\ i = "mutation" /\ at'[i] \in {"work", "after", "done"} =>
                               \A f \in Files : seen'[i]["sources"][f] # Unseen
        BY <1>5 DEF JobsComplete
      <3>1. i # j /\ Listed \subseteq Files
        BY <2>2 DEF Listed
      <3> QED
        BY <2>1, <3>1, Names DEF CheckInv, JobsComplete
    <2>3. CASE error'[j] = {}
      <3>1. /\ at'[j] \in {"sources", "work", "after", "done"} =>
                 \A f \in Files : seen[j]["copy"][f] # Unseen
            /\ at'[j] \in {"after", "done"} => \A f \in Listed : seen[j]["copy"][f] > 0
            /\ j = "mutation" /\ at'[j] \in {"work", "after", "done"} =>
                 \A f \in Files : seen[j]["sources"][f] # Unseen
        <4>1. CASE BeforeEnds(j) \/ (j = "mutation" /\ NextJob)
          BY <1>1, <2>3, <4>1, Names DEF BeforeEnds, NextJob, Goto, TypeOK
        <4>2. CASE CopyEnds(j)
          BY <1>1, <2>3, <4>2, Names DEF CopyEnds, Walked, Goto, TypeOK
        <4>3. CASE WorkEnds(j)
          BY <1>1, <1>6, <2>3, <4>3, Names DEF WorkEnds, Goto, TypeOK, CheckInv, JobsComplete
        <4>4. CASE j = "mutation" /\ SourcesEnd
          BY <1>1, <1>6, <2>3, <4>4, Names
          DEF SourcesEnd, Walked, Goto, TypeOK, CheckInv, JobsComplete
        <4>5. CASE AfterEnds(j)
          BY <1>1, <1>6, <2>3, <4>5, Names
          DEF AfterEnds, Walked, NextAfter, Goto, TypeOK, CheckInv, JobsComplete
        <4>6. CASE JobFails(j) \/ AfterFails(j)
          BY <1>1, <2>3, <4>6, CodesTyped, Names DEF JobFails, AfterFails, TypeOK
        <4> QED
          BY <4>1, <4>2, <4>3, <4>4, <4>5, <4>6
      <3> QED
        BY <1>5, <1>6, <2>1, <2>3, <3>1, Names DEF CheckInv, JobsComplete
    <2> QED
      BY <2>2, <2>3
  <1>8. at'["main"] = "jobs" /\ ~Judged' /\ published = "none"
    BY <1>2, <1>3, <1>4, Names DEF Judged, CheckInv
  <1>9. (JobsInOrder /\ MainInOrder /\ BothDone /\ Compared)'
    BY <1>3, <1>4, <1>8, Names DEF CheckInv, JobsInOrder, MainInOrder, BothDone, Compared
  <1>10. TreeKept'
    BY <1>2, <1>4, ForgetKeepsTree DEF Forgets
  <1> QED
    BY <1>1, <1>2, <1>7, <1>8, <1>9, <1>10 DEF CheckInv

(***************************************************************************)
(* Leaving run_pair: without an error only if both jobs ended without one. *)
(***************************************************************************)
LEMMA PairKeeps ==
  ASSUME CheckInv, PairReturns \/ PairRaises \/ (Interrupt /\ at["main"] = "jobs")
  PROVE  CheckInv'
  <1>1. Typed' /\ TypeOK /\ Places
    BY StepTyped DEF CheckInv, Next, Typed
  <1>2. at["main"] = "jobs" /\ LeavePair
    BY DEF PairReturns, PairRaises, Interrupt
  <1>3. /\ at'["main"] = "after"
        /\ \A j \in Jobs : at'[j] = IF at[j] = "done" THEN "done" ELSE "stopped"
        /\ \A w \in Walkers, k \in Walks, f \in Files :
             seen'[w][k][f] = IF w = "main" \/ at[w] = "done" THEN seen[w][k][f] ELSE Unseen
    BY <1>1, <1>2, LeaveSeen
  <1>4. UNCHANGED <<tree, published>> /\ published = "none" /\ Listed' = Listed
    <2>1. Listed' = Listed
      BY <1>3, Names DEF Listed
    <2> QED
      BY <1>2, <2>1 DEF LeavePair, treeVars, resultVars, CheckInv
  <1>5. \A j \in Jobs : error'[j] = error[j]
    BY <1>1, Names DEF PairReturns, PairRaises, Interrupt, TypeOK
  <1>6. error'["main"] = {} => \A j \in Jobs : at[j] = "done" /\ error[j] = {}
    <2>1. CASE PairReturns
      BY <2>1 DEF PairReturns
    <2>2. CASE PairRaises
      <3>1. PICK codes : codes # {} /\ error' = [error EXCEPT !["main"] = codes]
        <4>1. {1, 6} # {}
          OBVIOUS
        <4> QED
          BY <2>2, <4>1 DEF PairRaises
      <3> QED
        BY <1>1, <3>1, Names DEF TypeOK
    <2>3. CASE Interrupt
      BY <1>1, <2>3, Names DEF Interrupt, TypeOK
    <2> QED
      BY <2>1, <2>2, <2>3
  <1>7. (JobsInOrder /\ MainInOrder)'
    BY <1>2, <1>3, Names DEF CheckInv, JobsInOrder, MainInOrder
  <1>8. JobsComplete'
    BY <1>3, <1>4, <1>5, Names DEF CheckInv, JobsComplete, Listed
  <1>9. (BothDone /\ Compared)'
    BY <1>3, <1>4, <1>5, <1>6 DEF BothDone, Compared, Judged
  <1>10. TreeKept'
    BY <1>3, <1>4, ForgetKeepsTree DEF Forgets
  <1> QED
    BY <1>1, <1>4, <1>7, <1>8, <1>9, <1>10 DEF CheckInv

(***************************************************************************)
(* Steps of the command after the jobs, which have ended. A verdict comes  *)
(* near only by the comparison of the two inventories.                     *)
(***************************************************************************)
LateSteps ==
  \/ AfterEnds("main") \/ AfterFails("main") \/ Gate \/ GateFails \/ Commit \/ CommitFails
  \/ Emit \/ EmitFails \/ InterruptEmit
  \/ Interrupt /\ at["main"] \notin {"load", "before", "jobs"}

LEMMA LateSeen ==
  ASSUME CheckInv, LateSteps
  PROVE  /\ at["main"] \in {"after", "gate", "commit", "emit"}
         /\ at'["main"] \in {"gate", "commit", "emit", "exit"}
         /\ UNCHANGED tree
         /\ \A j \in Jobs : at'[j] = at[j] /\ error'[j] = error[j]
         /\ \A w \in Walkers, k \in Walks, f \in Files :
              /\ seen'[w][k][f] \in {seen[w][k][f], Unseen}
              /\ w # "main" \/ k # "after" => seen'[w][k][f] = seen[w][k][f]
         /\ at'["main"] # "emit" \/ at["main"] # "after" =>
              \A f \in Files : seen'["main"]["after"][f] = seen["main"]["after"][f]
  <1>1. TypeOK /\ Places
    BY DEF CheckInv, Typed
  <1>2. CASE AfterFails("main") \/ (Interrupt /\ at["main"] = "after")
    <2>1. at["main"] = "after" /\ Goto("main", "emit") /\ Abandons("main")
          /\ \A j \in Jobs : error'[j] = error[j]
      BY <1>1, <1>2, Names DEF AfterFails, Interrupt, TypeOK
    <2>2. at'["main"] = "emit" /\ (\A j \in Jobs : at'[j] = at[j]) /\ UNCHANGED tree
      BY <1>1, <2>1, Names DEF Goto, Abandons, treeVars, TypeOK
    <2>3. \A w \in Walkers, k \in Walks, f \in Files :
            seen'[w][k][f] = IF w = "main" /\ k = "after" THEN Unseen ELSE seen[w][k][f]
      BY <1>1, <2>1, AbandonSeen, Names
    <2> QED
      BY <2>1, <2>2, <2>3
  <1>3. CASE AfterEnds("main")
    BY <1>1, <1>3, Names DEF AfterEnds, NextAfter, Walked, Goto, Moves, treeVars, TypeOK
  <1>4. CASE Gate \/ GateFails \/ Commit \/ CommitFails
    BY <1>1, <1>4, Names DEF Gate, GateFails, Commit, CommitFails, Goto, Moves, treeVars, TypeOK
  <1>5. CASE Emit \/ EmitFails \/ InterruptEmit
    BY <1>1, <1>5, Names DEF Emit, EmitFails, InterruptEmit, Goto, treeVars, TypeOK
  <1>6. CASE Interrupt /\ at["main"] \notin {"load", "before", "jobs", "after"}
    <2>1. CASE at["main"] = "gate"
      <3>1. Goto("main", "emit") /\ Abandons("main") /\ \A j \in Jobs : error'[j] = error[j]
        BY <1>1, <1>6, <2>1, Names DEF Interrupt, TypeOK
      <3> QED
        BY <1>1, <2>1, <3>1, AbandonSeen, Names DEF Goto, Abandons, treeVars, TypeOK
    <2>2. CASE at["main"] = "commit"
      BY <1>1, <1>6, <2>2, Names DEF Interrupt, LeavePair, Goto, treeVars, TypeOK
    <2> QED
      BY <1>1, <1>6, <2>1, <2>2 DEF Interrupt, Places, MainSteps
  <1> QED
    BY <1>2, <1>3, <1>4, <1>5, <1>6 DEF LateSteps

LEMMA LateKeeps ==
  ASSUME CheckInv, LateSteps
  PROVE  CheckInv'
  <1>1. Typed' /\ TypeOK /\ Places
    BY StepTyped, Names DEF CheckInv, Next, LateSteps, Typed
  <1>2. /\ at["main"] \in {"after", "gate", "commit", "emit"}
        /\ at'["main"] \in {"gate", "commit", "emit", "exit"}
        /\ \A j \in Jobs : at'[j] = at[j] /\ error'[j] = error[j]
        /\ \A w \in Walkers, k \in Walks, f \in Files :
              w # "main" \/ k # "after" => seen'[w][k][f] = seen[w][k][f]
    BY LateSeen
  <1>3. Listed' = Listed
    BY <1>2, Names DEF Listed
  <1>4. JobsInOrder'
    BY <1>2, Names DEF CheckInv, JobsInOrder
  <1>5. JobsComplete'
    BY <1>2, <1>3, Names DEF CheckInv, JobsComplete, Listed
  <1>6. TreeKept'
    BY ForgetKeepsTree, LateSeen DEF Forgets
  \* Where a verdict can come near, and where it can come.
  <1>7. /\ at'["main"] \in {"gate", "commit"} =>
             /\ AfterEnds("main") \/ Gate
             /\ error'["main"] = {}
        /\ published' # published => at["main"] = "commit" /\ at'["main"] = "emit"
    <2>1. CASE AfterEnds("main")
      BY <1>1, <2>1, Names DEF AfterEnds, NextAfter, Goto, Moves, resultVars, TypeOK
    <2>2. CASE Gate
      BY <1>1, <2>2 DEF Gate, Goto, CheckInv, MainInOrder, TypeOK
    <2>3. CASE Commit \/ CommitFails
      BY <1>1, <2>3, Names DEF Commit, CommitFails, Goto, TypeOK
    <2>4. CASE AfterFails("main") \/ GateFails \/ Emit \/ EmitFails \/ InterruptEmit
      BY <1>1, <2>4, Names
      DEF AfterFails, GateFails, Emit, EmitFails, InterruptEmit, Goto, Moves, Abandons,
          resultVars, TypeOK
    <2>5. CASE Interrupt /\ at["main"] \notin {"load", "before", "jobs"}
      BY <1>1, <2>5, Names DEF Interrupt, LeavePair, Goto, Abandons, resultVars, TypeOK
    <2> QED
      BY <2>1, <2>2, <2>3, <2>4, <2>5 DEF LateSteps
  <1>8. Judged' => Judged \/ (AfterEnds("main") /\ error'["main"] = {} /\ at["main"] = "after")
    BY <1>7 DEF Judged, Gate, AfterEnds, Walked
  <1>9. AfterEnds("main") /\ error'["main"] = {} =>
          /\ error["main"] = {} /\ UNCHANGED seen
          /\ \A f \in Files : seen["main"]["before"][f] = seen["main"]["after"][f]
    BY <1>1, CodesTyped, Names DEF AfterEnds, Changed, Moves, TypeOK
  <1>10. at'["main"] \in {"gate", "commit"} => at["main"] \in {"after", "gate"}
    BY <1>7 DEF Gate, AfterEnds, Walked
  <1>11. MainInOrder'
    <2>1. \A f \in Files : seen'["main"]["before"][f] = seen["main"]["before"][f]
      BY <1>2, Names
    <2> QED
      BY <1>2, <1>7, <1>10, <2>1 DEF CheckInv, MainInOrder
  <1>12. BothDone'
    BY <1>2, <1>8, <1>9 DEF CheckInv, BothDone
  <1>13. Compared'
    <2>1. CASE Judged
      <3>1. \A f \in Files : seen'["main"]["before"][f] = seen["main"]["before"][f]
                             /\ seen'["main"]["after"][f] = seen["main"]["after"][f]
        BY <1>2, <2>1, LateSeen, Names DEF Judged, CheckInv
      <3> QED
        BY <2>1, <3>1 DEF CheckInv, Compared
    <2>2. CASE Judged' /\ ~Judged
      BY <1>2, <1>8, <1>9, <2>2 DEF CheckInv, Compared, MainInOrder
    <2> QED
      BY <2>1, <2>2 DEF Compared
  <1>14. published' # "none" => at'["main"] \in {"emit", "exit"}
    BY <1>2, <1>7, <1>10 DEF CheckInv
  <1> QED
    BY <1>1, <1>4, <1>5, <1>6, <1>11, <1>12, <1>13, <1>14 DEF CheckInv

LEMMA StepCheck ==
  ASSUME CheckInv, [Next]_vars
  PROVE  CheckInv'
  <1>1. CASE UNCHANGED vars
    <2>1. Typed'
      BY StepTyped DEF CheckInv
    <2> QED
      BY <1>1, <2>1
      DEF vars, treeVars, resultVars, CheckInv, JobsInOrder, MainInOrder, JobsComplete, BothDone,
          Compared, Judged, TreeKept, OnlyStamp, Listed
  <1>2. CASE Interrupt
    BY <1>2, EarlyKeeps, PairKeeps, LateKeeps DEF LateSteps
  <1>3. ASSUME NEW w \in Walkers, Visit(w) \/ BeforeEnds(w) \/ AfterEnds(w) \/ AfterFails(w)
        PROVE  CheckInv'
    BY <1>3, VisitKeeps, EarlyKeeps, JobKeeps, LateKeeps, Names DEF LateSteps
  <1>4. CASE Next /\ ~Interrupt /\ ~Exited
    BY <1>3, <1>4, EditKeeps, EarlyKeeps, JobKeeps, PairKeeps, LateKeeps, Names
    DEF Next, Job, LateSteps
  <1> QED
    BY <1>1, <1>2, <1>4 DEF Exited

LEMMA CheckHolds == Spec => []CheckInv
  BY InitCheck, StepCheck, PTL DEF Spec

(***************************************************************************)
(* Evidence is about one tree, for every set of files and however often    *)
(* somebody edits them while the check runs: both snapshots, the sources   *)
(* of the candidates and the last inventory found each file of the first   *)
(* inventory as it was (run_strict_check, run_mutmut, run_fresh_coverage). *)
(***************************************************************************)
THEOREM EvidenceOfOneTree == Spec => []OneTree
  <1>1. CheckInv => OneTree
    <2> SUFFICES ASSUME CheckInv, published # "none", NEW f \in Files,
                        Found("main", "before", f) # 0
                 PROVE  /\ Found("main", "after", f) = Found("main", "before", f)
                        /\ \A j \in Jobs : Found(j, "copy", f) = Found("main", "before", f)
                        /\ Found("mutation", "sources", f) = Found("main", "before", f)
      BY DEF OneTree
    <2>1. /\ seen["main"]["before"][f] # Unseen
          /\ seen["main"]["after"][f] = seen["main"]["before"][f]
          /\ \A j \in Jobs : at[j] = "done" /\ error[j] = {}
      BY DEF CheckInv, Judged, Compared, BothDone
    <2>2. seen["main"]["before"][f] > 0
      BY <2>1, Names DEF CheckInv, Typed, TypeOK, Found, Unseen
    <2>3. OnlyStamp(f)
      BY <2>1, <2>2 DEF CheckInv, TreeKept
    <2>4. (\A j \in Jobs : seen[j]["copy"][f] # Unseen) /\ seen["mutation"]["sources"][f] # Unseen
      BY <2>1, Names DEF CheckInv, JobsComplete
    <2> QED
      BY <2>1, <2>3, <2>4, Names DEF OnlyStamp, Found
  <1> QED
    BY <1>1, CheckHolds, PTL
------------------------------------------------------------------------------
(***************************************************************************)
(* The invariant of the exit code.                                         *)
(***************************************************************************)
\* A job found a file of the first inventory different.
Differs ==
  \E f \in Files, j \in Jobs, k \in Walks :
    seen["main"]["before"][f] > 0 /\ seen[j][k][f] \notin {Unseen, seen["main"]["before"][f]}

\* The codes of errors, and those that leave evidence behind.
ErrorCodes == {1, 3, 4, 5, 6, 7, 8}

VerdictInv ==
  /\ published # "none" => published = Status /\ error["main"] \subseteq {7, 8}
  /\ \A w \in Walkers : error[w] \subseteq ErrorCodes
  /\ exit # NotExited <=> at["main"] = "exit"
  /\ at["main"] \in {"emit", "exit"} /\ error["main"] = {} => published # "none" \/ NothingJudged
  /\ at["main"] \in {"emit", "exit"} /\ Differs => error["main"] \in {{6}, {8}}
  /\ at["main"] = "exit" =>
       \/ exit \in error["main"] \cup {1, 130}
       \/ error["main"] = {} /\ exit = IF NothingJudged \/ Status = "passed" THEN 0 ELSE 2

LEMMA InitVerdict == Init => VerdictInv
  BY DEF Init, VerdictInv, Walkers, NotExited

(***************************************************************************)
(* Before the report nothing but the codes of errors is at stake.          *)
(***************************************************************************)
LEMMA QuietVerdict ==
  ASSUME CheckInv, VerdictInv, UNCHANGED resultVars,
         at["main"] \notin {"emit", "exit"}, at'["main"] \notin {"emit", "exit"},
         \A w \in Walkers : error'[w] \subseteq ErrorCodes
  PROVE  VerdictInv'
  BY DEF CheckInv, VerdictInv, resultVars, Status

LEMMA RaisedCodes ==
  /\ \A j \in Jobs : JobErrors[j] \subseteq ErrorCodes
  /\ \A w \in Walkers : ChangedCode(w) \subseteq ErrorCodes
  BY DEF JobErrors, ChangedCode, ErrorCodes, Jobs

\* As long as a job has seen nothing, or the two inventories agree, no job
\* found a difference.
LEMMA NoDifference ==
  ASSUME CheckInv, at["main"] \in {"load", "before"} \/ Judged
  PROVE  ~Differs
  BY Names
  DEF CheckInv, JobsInOrder, Judged, Compared, TreeKept, OnlyStamp, Differs

LEMMA EarlyVerdict ==
  ASSUME CheckInv, CheckInv', VerdictInv,
         \/ EmptyScope \/ LoadFails \/ BeforeFails
         \/ Interrupt /\ at["main"] \in {"load", "before"}
  PROVE  VerdictInv'
  <1>1. TypeOK /\ at["main"] \in {"load", "before"} /\ UNCHANGED resultVars
    BY DEF CheckInv, Typed, EmptyScope, LoadFails, BeforeFails, Interrupt, Moves, Abandons, Walked
  <1>2. published = "none" /\ exit = NotExited
    BY <1>1 DEF CheckInv, VerdictInv
  <1>3. at'["main"] = "emit"
    BY <1>1 DEF EmptyScope, LoadFails, BeforeFails, Interrupt, Goto, TypeOK, Walkers
  <1>4. ~Differs /\ ~Differs'
    <2>1. \A j \in Jobs, k \in Walks, f \in Files : seen'[j][k][f] = Unseen
      <3>1. CASE EmptyScope
        BY <1>1, <3>1 DEF EmptyScope, Moves, CheckInv, JobsInOrder
      <3>2. CASE ~EmptyScope
        <4>1. Abandons("main")
          BY <1>1, <3>2 DEF LoadFails, BeforeFails, Interrupt
        <4>2. \A j \in Jobs, k \in Walks, f \in Files : seen'[j][k][f] = seen[j][k][f]
          BY <1>1, <4>1, AbandonSeen, Names
        <4> QED
          BY <1>1, <4>2 DEF CheckInv, JobsInOrder
      <3> QED
        BY <3>1, <3>2
    <2> QED
      BY <1>1, <2>1, NoDifference DEF Differs
  <1>5. /\ \A w \in Walkers : error'[w] \subseteq ErrorCodes
        /\ error'["main"] = {} => EmptyScope
    <2>1. CASE EmptyScope
      BY <2>1 DEF EmptyScope, VerdictInv
    <2>2. CASE ~EmptyScope
      <3>1. PICK code \in {3, 6, 8} : error' = [error EXCEPT !["main"] = {code}]
        BY <1>1, <2>2 DEF LoadFails, BeforeFails, Interrupt
      <3> QED
        BY <1>1, <3>1, Names DEF VerdictInv, ErrorCodes, TypeOK
    <2> QED
      BY <2>1, <2>2
  <1>6. EmptyScope => NothingJudged'
    <2>1. EmptyScope => UNCHANGED seen /\ at["main"] = "load"
      BY DEF EmptyScope, Moves, Walked
    <2>2. EmptyScope => \A f \in Files : seen["main"]["before"][f] = Unseen
      BY <2>1 DEF CheckInv, MainInOrder
    <2>3. seen["main"]["before"] \in [Files -> {Unseen} \cup 0..stamp]
      BY <1>1, Names DEF TypeOK
    <2> QED
      BY <2>1, <2>2, <2>3 DEF NothingJudged, Nothing
  <1> QED
    BY <1>1, <1>2, <1>3, <1>4, <1>5, <1>6 DEF VerdictInv, resultVars

LEMMA LateVerdict ==
  ASSUME CheckInv, CheckInv', VerdictInv, LateSteps
  PROVE  VerdictInv'
  <1>1. TypeOK /\ Places
    BY DEF CheckInv, Typed
  <1>2. /\ at["main"] \in {"after", "gate", "commit", "emit"} /\ exit = NotExited
        /\ \A j \in Jobs : error'[j] = error[j]
    BY LateSeen DEF VerdictInv
  <1>3. Differs' => Differs
    <2>1. \A w \in Walkers, k \in Walks, f \in Files :
            w # "main" \/ k # "after" => seen'[w][k][f] = seen[w][k][f]
      BY LateSeen
    <2>2. /\ \A f \in Files : seen'["main"]["before"][f] = seen["main"]["before"][f]
          /\ \A j \in Jobs, k \in Walks, f \in Files : seen'[j][k][f] = seen[j][k][f]
      BY <2>1, Names
    <2> QED
      BY <2>2 DEF Differs
  <1>4. CASE AfterEnds("main")
    <2>1. /\ at["main"] = "after" /\ UNCHANGED <<seen, resultVars>>
          /\ error' = [error EXCEPT !["main"] = IF Changed("main") THEN {6} ELSE @]
          /\ at'["main"] = IF error'["main"] = {} THEN "gate" ELSE "emit"
      BY <1>1, <1>4, Names
      DEF AfterEnds, Walked, Moves, ChangedCode, NextAfter, Goto, TypeOK
    <2>2. error'["main"] = IF Changed("main") THEN {6} ELSE error["main"]
      BY <1>1, <2>1, Names DEF TypeOK
    <2>3. Differs => error'["main"] = {6}
      <3>1. (\A f \in Files : seen["main"]["after"][f] = seen["main"]["before"][f]) => ~Differs
        BY Names DEF CheckInv, TreeKept, OnlyStamp, Differs
      <3>2. Differs => Changed("main")
        BY <3>1 DEF Changed
      <3> QED
        BY <2>2, <3>2
    <2>4. \A w \in Walkers : error'[w] \subseteq ErrorCodes
      BY <1>2, <2>2, Names DEF VerdictInv, ErrorCodes
    <2>5. published = "none"
      BY <2>1 DEF CheckInv
    <2> QED
      BY <1>2, <1>3, <2>1, <2>3, <2>4, <2>5 DEF VerdictInv, resultVars, Status
  <1>5. CASE AfterFails("main") \/ (Interrupt /\ at["main"] = "after")
    <2>1. PICK code \in {6, 8} : error' = [error EXCEPT !["main"] = {code}]
      BY <1>5, Names DEF AfterFails, Interrupt, ChangedCode
    <2>2. error'["main"] \in {{6}, {8}} /\ error'["main"] # {}
      BY <1>1, <2>1, Names DEF TypeOK
    <2>3. at["main"] = "after" /\ at'["main"] = "emit" /\ UNCHANGED resultVars
      BY <1>1, <1>5, Names DEF AfterFails, Interrupt, Goto, Abandons, TypeOK
    <2>4. published = "none"
      BY <2>3 DEF CheckInv
    <2>5. \A w \in Walkers : error'[w] \subseteq ErrorCodes
      BY <1>2, <2>2, Names DEF VerdictInv, ErrorCodes
    <2> QED
      BY <1>2, <2>2, <2>3, <2>4, <2>5 DEF VerdictInv, resultVars
  \* At the gate and at the commit the inventories agree.
  <1>6. CASE Gate
    BY <1>1, <1>2, <1>6 DEF Gate, Goto, VerdictInv, CheckInv, TypeOK, Walkers
  <1>7. CASE \/ GateFails \/ Commit \/ CommitFails
             \/ Interrupt /\ at["main"] \in {"gate", "commit"}
    <2>1. /\ at["main"] \in {"gate", "commit"} /\ at'["main"] = "emit"
          /\ UNCHANGED <<gates, exit>> /\ published = "none"
          /\ published' \in {"none", Status} /\ error["main"] = {}
      BY <1>1, <1>7, Names
      DEF GateFails, Commit, CommitFails, Interrupt, Goto, Abandons, LeavePair, Moves, resultVars,
          CheckInv, MainInOrder, TypeOK
    <2>2. ~Differs'
      BY <1>3, <2>1, NoDifference DEF Judged
    <2>3. CASE Commit
      <3>1. published' = Status /\ error' = error /\ Status # "none"
        BY <2>3 DEF Commit, Status
      <3> QED
        BY <1>2, <2>1, <2>2, <3>1 DEF VerdictInv, Status
    <2>4. CASE ~Commit
      <3>1. \/ error' = [error EXCEPT !["main"] = {1, 5, 6}] /\ published' = "none"
            \/ error' = [error EXCEPT !["main"] = {7}]
            \/ error' = [error EXCEPT !["main"] = {8}]
        BY <1>7, <2>1, <2>4 DEF GateFails, CommitFails, Interrupt, Moves, resultVars
      <3>2. \/ error'["main"] = {1, 5, 6} /\ published' = "none"
            \/ error'["main"] = {7} \/ error'["main"] = {8}
        BY <1>1, <3>1, Names DEF TypeOK
      <3>3. error'["main"] # {} /\ error'["main"] \subseteq ErrorCodes
            /\ (published' # "none" => error'["main"] \subseteq {7, 8})
        BY <3>2 DEF ErrorCodes
      <3> QED
        BY <1>2, <2>1, <2>2, <3>3, Names DEF VerdictInv, Status
    <2> QED
      BY <2>3, <2>4
  <1>8. CASE Emit
    <2>1. /\ at["main"] = "emit" /\ at'["main"] = "exit"
          /\ UNCHANGED <<seen, error, gates, published>>
          /\ exit' \in IF error["main"] # {} THEN error["main"]
                       ELSE IF NothingJudged \/ Status = "passed" THEN {0} ELSE {2}
      BY <1>1, <1>8, Names DEF Emit, Goto, TypeOK
    <2>2. exit' # NotExited
      BY <2>1, Names DEF VerdictInv, ErrorCodes, NotExited
    <2> QED
      BY <2>1, <2>2 DEF VerdictInv, Differs, NothingJudged, Status
  <1>9. CASE EmitFails \/ InterruptEmit
    <2>1. at["main"] = "emit" /\ UNCHANGED <<seen, gates, published>>
      BY <1>9 DEF EmitFails, InterruptEmit
    <2>2. CASE error["main"] = {}
      <3>1. PICK code \in {7, 8} : error' = [error EXCEPT !["main"] = {code}]
        BY <1>9, <2>2 DEF EmitFails, InterruptEmit
      <3>2. error'["main"] = {code} /\ UNCHANGED <<at, exit>>
        BY <1>1, <1>9, <2>2, <3>1, Names DEF EmitFails, InterruptEmit, TypeOK
      <3>3. ~Differs
        BY <2>1, <2>2 DEF VerdictInv
      <3> QED
        BY <1>2, <1>3, <2>1, <3>2, <3>3, Names DEF VerdictInv, ErrorCodes, Status
    <2>3. CASE error["main"] # {}
      <3>1. exit' \in {1, 130} /\ at'["main"] = "exit" /\ error' = error
        BY <1>1, <1>9, <2>3, Names DEF EmitFails, InterruptEmit, Goto, TypeOK
      <3> QED
        BY <2>1, <2>3, <3>1 DEF VerdictInv, Differs, NothingJudged, Status, NotExited
    <2> QED
      BY <2>2, <2>3
  <1> QED
    BY <1>2, <1>4, <1>5, <1>6, <1>7, <1>8, <1>9 DEF LateSteps, Interrupt

LEMMA StepVerdict ==
  ASSUME CheckInv, VerdictInv, [Next]_vars
  PROVE  VerdictInv'
  <1>0. CheckInv' /\ TypeOK /\ Places
    BY StepCheck DEF CheckInv, Typed
  <1>1. CASE Edit \/ UNCHANGED vars
    <2>1. UNCHANGED <<at, seen, error, resultVars>>
      BY <1>1 DEF Edit, vars, resultVars
    <2> QED
      BY <2>1 DEF VerdictInv, Differs, NothingJudged, Status, resultVars
  <1>2. ASSUME NEW w \in Walkers, Visit(w)
        PROVE  VerdictInv'
    <2>1. UNCHANGED <<at, error, resultVars>> /\ at[w] \in Walks
      BY <1>2 DEF Visit
    <2>2. at["main"] \notin {"emit", "exit"}
      BY <1>0, <2>1, Names DEF CheckInv, JobsInOrder
    <2> QED
      BY <2>1, <2>2, QuietVerdict DEF VerdictInv
  <1>3. CASE LoadEnds \/ BeforeEnds("main")
    <2>1. at["main"] \in {"load", "before"} /\ UNCHANGED <<error, resultVars>>
      BY <1>3 DEF LoadEnds, BeforeEnds, Walked, Moves
    <2>2. at'["main"] \in {"before", "jobs"}
      BY <1>0, <1>3, Names DEF LoadEnds, BeforeEnds, Goto, TypeOK
    <2> QED
      BY <2>1, <2>2, QuietVerdict DEF VerdictInv
  <1>4. ASSUME NEW j \in Jobs,
               \/ BeforeEnds(j) \/ CopyEnds(j) \/ WorkEnds(j) \/ JobFails(j) \/ AfterEnds(j)
               \/ AfterFails(j) \/ (j = "mutation" /\ (SourcesEnd \/ NextJob))
        PROVE  VerdictInv'
    <2>1. at["main"] = "jobs"
      BY <1>4, Names
      DEF CheckInv, JobsInOrder, BeforeEnds, CopyEnds, WorkEnds, JobFails, AfterEnds, AfterFails,
          SourcesEnd, NextJob, Walked
    <2>2. at'["main"] = "jobs"
      BY <1>0, <1>4, <2>1, Names
      DEF BeforeEnds, CopyEnds, WorkEnds, JobFails, AfterEnds, AfterFails, SourcesEnd, NextJob,
          Goto, TypeOK
    <2>3. UNCHANGED resultVars
      BY <1>4
      DEF BeforeEnds, CopyEnds, WorkEnds, JobFails, AfterEnds, AfterFails, SourcesEnd, NextJob,
          Moves, Abandons
    <2>4. \E codes \in {error[j], JobErrors[j], ChangedCode(j)} :
            error' = [error EXCEPT ![j] = codes] \/ error' = error
      BY <1>0, <1>4, Names
      DEF BeforeEnds, CopyEnds, WorkEnds, JobFails, AfterEnds, AfterFails, SourcesEnd, NextJob,
          TypeOK
    <2>5. \A w \in Walkers : error'[w] \subseteq ErrorCodes
      <3>1. error[j] \subseteq ErrorCodes /\ JobErrors[j] \subseteq ErrorCodes
            /\ ChangedCode(j) \subseteq ErrorCodes
        BY RaisedCodes, Names DEF VerdictInv
      <3>2. PICK codes : codes \subseteq ErrorCodes
                         /\ (error' = [error EXCEPT ![j] = codes] \/ error' = error)
        BY <2>4, <3>1
      <3> QED
        BY <1>0, <3>2 DEF VerdictInv, TypeOK
    <2> QED
      BY <2>1, <2>2, <2>3, <2>5, QuietVerdict
  <1>5. CASE PairReturns \/ PairRaises \/ (Interrupt /\ at["main"] = "jobs")
    <2>1. at["main"] = "jobs" /\ at'["main"] = "after" /\ UNCHANGED resultVars
      BY <1>0, <1>5, LeaveSeen DEF PairReturns, PairRaises, Interrupt, LeavePair
    <2>2. \E codes \in {error[w] : w \in Walkers} \cup {{1, 6}, {8}} :
            error' = [error EXCEPT !["main"] = codes] \/ error' = error
      BY <1>5, Names DEF PairReturns, PairRaises, Interrupt
    <2>3. \A w \in Walkers : error'[w] \subseteq ErrorCodes
      <3>1. PICK codes : codes \subseteq ErrorCodes
                         /\ (error' = [error EXCEPT !["main"] = codes] \/ error' = error)
        BY <2>2 DEF VerdictInv, ErrorCodes
      <3> QED
        BY <1>0, <3>1 DEF VerdictInv, TypeOK
    <2> QED
      BY <2>1, <2>3, QuietVerdict
  <1>6. CASE Interrupt
    BY <1>0, <1>5, <1>6, EarlyVerdict, LateVerdict DEF LateSteps
  <1>7. ASSUME NEW w \in Walkers, BeforeEnds(w) \/ AfterEnds(w) \/ AfterFails(w)
        PROVE  VerdictInv'
    BY <1>0, <1>3, <1>4, <1>7, LateVerdict, Names DEF LateSteps
  <1>8. CASE Next /\ ~Interrupt /\ ~Exited /\ ~Edit
    BY <1>0, <1>2, <1>3, <1>4, <1>5, <1>7, <1>8, EarlyVerdict, LateVerdict, Names
    DEF Next, Job, LateSteps
  <1> QED
    BY <1>1, <1>6, <1>8 DEF Exited

LEMMA VerdictHolds == Spec => [](CheckInv /\ VerdictInv)
  BY InitCheck, StepCheck, InitVerdict, StepVerdict, PTL DEF Spec

\* Where evidence is, something was judged.
LEMMA EvidenceJudged == CheckInv /\ published # "none" => ~NothingJudged
  BY DEF CheckInv, Compared, Judged, NothingJudged, Nothing

(***************************************************************************)
(* The exit code and the store agree, wherever the command is interrupted  *)
(* or fails and whatever is edited meanwhile (run_strict_check and main).  *)
(***************************************************************************)
THEOREM ExitAgrees == Spec => []ExitMatchesEvidence
  <1>1. CheckInv /\ VerdictInv => ExitMatchesEvidence
    <2> SUFFICES ASSUME CheckInv, VerdictInv PROVE ExitMatchesEvidence
      OBVIOUS
    <2>1. published \in {"none", "passed", "qualityFailed"} /\ error["main"] \subseteq ErrorCodes
      BY Names DEF CheckInv, Typed, TypeOK, Statuses, VerdictInv
    <2>2. ASSUME exit \in 0..6, exit # 1
          PROVE  /\ at["main"] = "exit"
                 /\ \/ exit \in error["main"]
                    \/ error["main"] = {} /\ exit = IF NothingJudged \/ Status = "passed" THEN 0 ELSE 2
      BY <2>2 DEF VerdictInv, NotExited
    <2>3. exit = 0 => published = "passed" \/ (published = "none" /\ NothingJudged)
      BY <2>1, <2>2, EvidenceJudged DEF VerdictInv, ErrorCodes
    <2>4. exit = 2 => published = "qualityFailed"
      BY <2>1, <2>2 DEF VerdictInv, ErrorCodes
    <2>5. exit \in 3..6 => published = "none"
      BY <2>1, <2>2 DEF VerdictInv, ErrorCodes
    <2> QED
      BY <2>3, <2>4, <2>5 DEF ExitMatchesEvidence
  <1> QED
    BY <1>1, VerdictHolds, PTL

(***************************************************************************)
(* An edit that a job came across makes the command exit with 6, for every *)
(* set of files and whatever else went wrong (the finally of               *)
(* run_strict_check).                                                      *)
(***************************************************************************)
THEOREM EditsAreReported == Spec => []EditsReported
  <1>1. CheckInv /\ VerdictInv => EditsReported
    <2> SUFFICES ASSUME CheckInv, VerdictInv, exit \notin {NotExited, 1, 8, 130}, Differs
                 PROVE  exit = 6
      BY Names DEF EditsReported, Found, Differs
    <2> QED
      BY DEF VerdictInv
  <1> QED
    BY <1>1, VerdictHolds, PTL

(***************************************************************************)
(* Evidence says passed only when both gates passed on the results of two  *)
(* jobs that found every listed file (run_strict_check).                   *)
(***************************************************************************)
THEOREM PassNeedsBothJobs == Spec => []PassNeedsBoth
  <1>1. CheckInv /\ VerdictInv => PassNeedsBoth
    BY Names DEF CheckInv, VerdictInv, Status, BothDone, Judged, JobsComplete, PassNeedsBoth, Found
  <1> QED
    BY <1>1, VerdictHolds, PTL
==============================================================================
