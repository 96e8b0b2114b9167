---------------------- MODULE ToolchainBootstrap_proofs ----------------------
(***************************************************************************)
(* Theorems about ToolchainBootstrap for every number of launchers, of     *)
(* files and of blocks.                                                    *)
(***************************************************************************)
EXTENDS ToolchainBootstrap, TLAPS

\* What a launcher is about to install is the locked tree.
OnlyLocked == InstalledIsLocked /\ \A p \in Launchers : pc[p] # "installBad"

\* While a launcher that began alone is at work, nobody else is.
AloneInv ==
  \A p, q \in Launchers : alone[p] /\ pc[p] # "idle" /\ p # q => pc[q] = "idle"

\* A download starts with nothing written.
CountsReset == \A p \in Launchers : pc[p] # "write" => written[p] = 0

\* What a launcher that is alone and gets an honest download finds.
AtWork(p) ==
  /\ pc[p] = "unlink" => partial # None
  /\ pc[p] = "write" =>
       partial = open[p] /\ good[open[p]] = 1..written[p] /\ length[open[p]] = written[p]
  /\ pc[p] \in {"stat", "hash", "publish"} => partial # None /\ Complete(partial)
  /\ pc[p] # "drop"
  /\ pc[p] = "extract" => archive # None /\ Complete(archive)
  /\ pc[p] \notin {"idle", "home"} => home = "none"

HonestInv == \A p \in Launchers : alone[p] /\ honest[p] => AtWork(p)

RetryInv == TypeOK /\ OnlyLocked /\ AloneInv /\ CountsReset /\ HonestInv
------------------------------------------------------------------------------
(***************************************************************************)
(* Types: the four kinds of steps.                                         *)
(***************************************************************************)
LEMMA InitTyped == Init => TypeOK
  BY BootstrapAssumption DEF Init, TypeOK, Pcs

\* A step that changes the place and nothing else that is typed.
LEMMA GotoTyped ==
  ASSUME TypeOK, NEW p \in Launchers, NEW to \in Pcs, pc[p] # "write", to # "write",
         pc' = [pc EXCEPT ![p] = to], UNCHANGED <<contents, open, written>>,
         archive' \in Files \cup {None}, partial' \in Files \cup {None},
         home' \in {"none", "good", "bad"}, outcome' \in [Launchers -> {"none", "ok", "failed"}],
         alone' \in [Launchers -> BOOLEAN], honest' \in [Launchers -> BOOLEAN]
  PROVE  TypeOK'
  BY DEF TypeOK, contents

LEMMA EndsTyped ==
  ASSUME TypeOK, NEW p \in Launchers, NEW how \in {"none", "ok", "failed"}, Ends(p, how),
         UNCHANGED <<archive, contents, home, alone>>,
         partial' \in Files \cup {None}, honest' \in [Launchers -> BOOLEAN]
  PROVE  TypeOK'
  <1>1. /\ pc' \in [Launchers -> Pcs] /\ open' \in [Launchers -> Files \cup {None}]
        /\ outcome' \in [Launchers -> {"none", "ok", "failed"}]
    BY DEF TypeOK, Ends, Pcs
  <1>2. \A q \in Launchers : (open'[q] # None) <=> (pc'[q] = "write")
    BY DEF TypeOK, Ends
  <1>3. written' \in [Launchers -> 0..(Size + 1)]
    BY BootstrapAssumption, 0 \in 0..(Size + 1) DEF TypeOK, Ends
  <1> QED
    BY <1>1, <1>2, <1>3 DEF TypeOK, contents

LEMMA OpenTyped ==
  ASSUME TypeOK, NEW p \in Launchers, Open(p)
  PROVE  TypeOK'
  <1>1. PICK f \in Files :
          /\ partial' = f
          /\ open' = [open EXCEPT ![p] = f]
          /\ good' = [good EXCEPT ![f] = {}]
          /\ length' = [length EXCEPT ![f] = 0]
    BY DEF Open, Free, TypeOK
  <1>2. f # None /\ 0 \in 0..(Size + 1)
    BY BootstrapAssumption
  <1>3. pc' = [pc EXCEPT ![p] = "write"] /\ UNCHANGED <<archive, home, written, outcome, history>>
    BY DEF Open, Goto
  <1> QED
    BY <1>1, <1>2, <1>3 DEF TypeOK, Pcs, history

LEMMA WriteTyped ==
  ASSUME TypeOK, NEW p \in Launchers, Write(p)
  PROVE  TypeOK'
  <1> DEFINE f == open[p]  b == written[p] + 1
  <1>1. f \in Files /\ b \in 0..(Size + 1) /\ b \in Nat
    BY BootstrapAssumption DEF Write, TypeOK
  <1>2. PICK right \in {FALSE, (b \in Blocks)} :
           /\ good' = [good EXCEPT ![f] = IF right THEN @ \cup {b} ELSE @ \ {b}]
           /\ length' = [length EXCEPT ![f] = IF @ < b THEN b ELSE @]
           /\ written' = [written EXCEPT ![p] = b]
           /\ honest' = [honest EXCEPT ![p] = @ /\ right]
    BY DEF Write
  <1>3. right = FALSE \/ (right = TRUE /\ b \in Blocks)
    <2>1. right = FALSE \/ right = (b \in Blocks)
      BY <1>2, Zenon
    <2>2. CASE b \in Blocks
      BY <2>1, <2>2, (b \in Blocks) = TRUE
    <2>3. CASE b \notin Blocks
      BY <2>1, <2>3, (b \in Blocks) = FALSE
    <2> QED
      BY <2>2, <2>3
  <1> HIDE DEF b, f
  <1>4. good' \in [Files -> SUBSET Blocks] /\ length' \in [Files -> 0..(Size + 1)]
    BY <1>1, <1>2, <1>3 DEF TypeOK
  <1>5. honest' \in [Launchers -> BOOLEAN]
    BY <1>2, <1>3 DEF TypeOK
  <1>6. written' \in [Launchers -> 0..(Size + 1)]
    BY <1>1, <1>2 DEF TypeOK
  <1> QED
    BY <1>4, <1>5, <1>6 DEF Write, TypeOK, paths

LEMMA WrittenTyped ==
  ASSUME TypeOK, NEW p \in Launchers, Written(p)
  PROVE  TypeOK'
  <1>1. honest' \in [Launchers -> BOOLEAN]
    BY DEF Written, TypeOK
  <1> QED
    BY <1>1, BootstrapAssumption DEF Written, Goto, TypeOK, Pcs, paths, contents

LEMMA StepTyped ==
  ASSUME TypeOK, [Next]_vars
  PROVE  TypeOK'
  <1> USE DEF paths, history
  <1>1. CASE UNCHANGED vars
    BY <1>1 DEF vars, contents, launcherVars, TypeOK
  <1>2. ASSUME NEW p \in Launchers, Begin(p)
        PROVE  TypeOK'
    <2>1. /\ alone' \in [Launchers -> BOOLEAN] /\ honest' \in [Launchers -> BOOLEAN]
          /\ outcome' \in [Launchers -> {"none", "ok", "failed"}]
      BY <1>2 DEF Begin, TypeOK
    <2> QED
      BY <1>2, <2>1, GotoTyped DEF Begin, Goto, TypeOK, Pcs
  <1>3. ASSUME NEW p \in Launchers, Step(p)
        PROVE  TypeOK'
    <2>1. CASE FindHome(p) \/ Vanished(p) \/ Drop(p) \/ ExtractFails(p)
      BY <2>1, EndsTyped DEF FindHome, Vanished, Drop, ExtractFails, TypeOK
    <2>2. CASE NoConnection(p)
      <3>1. honest' \in [Launchers -> BOOLEAN]
        BY <2>2 DEF NoConnection, TypeOK
      <3> QED
        BY <2>2, <3>1, EndsTyped DEF NoConnection, TypeOK
    <2>3. CASE NoHome(p) \/ Clear(p) \/ Probe(p) \/ Stat(p) \/ Hash(p) \/ Extract(p)
      <3>1. PICK to \in Pcs \ {"write"} : pc[p] # "write" /\ pc' = [pc EXCEPT ![p] = to]
        BY <2>3 DEF NoHome, Clear, Probe, Stat, Hash, Extract, Goto, Pcs
      <3>2. UNCHANGED <<paths, contents, home, open, written, outcome, history>>
        BY <2>3 DEF NoHome, Clear, Probe, Stat, Hash, Extract, LocalSame
      <3> QED
        BY <3>1, <3>2, GotoTyped DEF TypeOK
    <2>4. CASE Unlink(p) \/ Publish(p)
      <3>1. PICK to \in Pcs \ {"write"} : pc[p] # "write" /\ pc' = [pc EXCEPT ![p] = to]
        BY <2>4 DEF Unlink, Publish, Goto, Pcs
      <3>2. UNCHANGED <<contents, home, open, written, outcome, history>>
        BY <2>4 DEF Unlink, Publish, LocalSame
      <3>3. archive' \in Files \cup {None} /\ partial' \in Files \cup {None}
        BY <2>4 DEF Unlink, Publish, TypeOK
      <3> QED
        BY <3>1, <3>2, <3>3, GotoTyped DEF TypeOK
    <2>5. CASE Open(p)
      BY <2>5, OpenTyped
    <2>6. CASE Write(p)
      BY <2>6, WriteTyped
    <2>7. CASE Written(p)
      BY <2>7, WrittenTyped
    <2>8. CASE Install(p)
      <3>1. CASE home = "none"
        BY <2>8, <3>1, GotoTyped DEF Install, TypeOK, Pcs
      <3>2. CASE home # "none"
        BY <2>8, <3>2, EndsTyped DEF Install, TypeOK
      <3> QED
        BY <3>1, <3>2
    <2> QED
      BY <1>3, <2>1, <2>2, <2>3, <2>4, <2>5, <2>6, <2>7, <2>8 DEF Step
  <1>4. ASSUME NEW p \in Launchers, Kill(p)
        PROVE  TypeOK'
    BY <1>4, EndsTyped DEF Kill, TypeOK
  <1> QED
    BY <1>1, <1>2, <1>3, <1>4 DEF Next

(***************************************************************************)
(* Paths, files and the locals of each launcher keep their types, and only *)
(* a launcher that downloads has a file open (toolchain.py).               *)
(***************************************************************************)
THEOREM TypeCorrect == Spec => []TypeOK
  BY InitTyped, StepTyped, PTL DEF Spec
------------------------------------------------------------------------------
(***************************************************************************)
(* Only a complete archive is extracted, so only the locked tree gets as   *)
(* far as the rename.                                                      *)
(***************************************************************************)
LEMMA StepLocked ==
  ASSUME TypeOK, OnlyLocked, [Next]_vars
  PROVE  OnlyLocked'
  <1> USE DEF OnlyLocked, InstalledIsLocked
  <1>1. CASE UNCHANGED vars
    BY <1>1 DEF vars, launcherVars
  <1>2. ASSUME NEW p \in Launchers, Begin(p) \/ Step(p) \/ Kill(p)
        PROVE  OnlyLocked'
    <2>1. \A q \in Launchers : q # p => pc'[q] = pc[q]
      BY <1>2
      DEF Begin, Step, Kill, FindHome, NoHome, Probe, Clear, Vanished, Unlink, Open, NoConnection,
          Write, Written, Stat, Hash, Drop, Publish, Extract, ExtractFails, Install, Ends, Goto,
          TypeOK
    <2>2. CASE Extract(p)
      <3>1. pc'[p] = "install" /\ UNCHANGED home
        BY <2>2 DEF Extract, TreeVerified, Goto, TypeOK
      <3> QED
        BY <2>1, <3>1
    <2>3. CASE Install(p)
      <3>1. pc[p] = "install" /\ pc'[p] # "installBad" /\ home' # "bad"
        BY <2>3 DEF Install, Ends, TypeOK
      <3> QED
        BY <2>1, <3>1
    <2>4. CASE ~Extract(p) /\ ~Install(p)
      <3>1. pc'[p] # "installBad" /\ UNCHANGED home
        BY <1>2, <2>4
        DEF Begin, Step, Kill, FindHome, NoHome, Probe, Clear, Vanished, Unlink, Open,
            NoConnection, Write, Written, Stat, Hash, Drop, Publish, ExtractFails, Ends, Goto,
            TypeOK
      <3> QED
        BY <2>1, <3>1
    <2> QED
      BY <2>2, <2>3, <2>4
  <1> QED
    BY <1>1, <1>2 DEF Next

(***************************************************************************)
(* A tool that is installed is the locked one, however many launchers work *)
(* on each other's files and wherever they are killed (bootstrap).         *)
(***************************************************************************)
THEOREM InstalledLocked == Spec => []InstalledIsLocked
  <1>1. Init => TypeOK /\ OnlyLocked
    BY InitTyped DEF Init, OnlyLocked, InstalledIsLocked
  <1>2. TypeOK /\ OnlyLocked /\ [Next]_vars => (TypeOK /\ OnlyLocked)'
    BY StepTyped, StepLocked
  <1>3. OnlyLocked => InstalledIsLocked
    BY DEF OnlyLocked
  <1> QED
    BY <1>1, <1>2, <1>3, PTL DEF Spec
------------------------------------------------------------------------------
(***************************************************************************)
(* Whoever begins ends the loneliness of everybody else.                   *)
(***************************************************************************)
LEMMA StepAlone ==
  ASSUME TypeOK, AloneInv, [Next]_vars
  PROVE  AloneInv'
  <1>1. CASE UNCHANGED vars
    BY <1>1 DEF vars, launcherVars, history, AloneInv
  <1>2. ASSUME NEW p \in Launchers, Begin(p)
        PROVE  AloneInv'
    <2>1. \A q \in Launchers : alone'[q] => q = p /\ \A r \in Launchers : pc[r] = "idle"
      BY <1>2 DEF Begin
    <2>2. \A q \in Launchers : q # p => pc'[q] = pc[q]
      BY <1>2 DEF Begin, Goto, TypeOK
    <2> QED
      BY <2>1, <2>2 DEF AloneInv
  <1>3. ASSUME NEW p \in Launchers, Step(p) \/ Kill(p)
        PROVE  AloneInv'
    <2>1. UNCHANGED alone /\ pc[p] # "idle"
      BY <1>3
      DEF Step, Kill, FindHome, NoHome, Probe, Clear, Vanished, Unlink, Open, NoConnection,
          Write, Written, Stat, Hash, Drop, Publish, Extract, ExtractFails, Install, Goto,
          LocalSame, history
    <2>2. \A q \in Launchers : q # p => pc'[q] = pc[q]
      BY <1>3
      DEF Step, Kill, FindHome, NoHome, Probe, Clear, Vanished, Unlink, Open, NoConnection,
          Write, Written, Stat, Hash, Drop, Publish, Extract, ExtractFails, Install, Ends, Goto,
          TypeOK
    <2> QED
      BY <2>1, <2>2 DEF AloneInv
  <1> QED
    BY <1>1, <1>2, <1>3 DEF Next

(***************************************************************************)
(* What a launcher that is alone finds is what it left itself. One case    *)
(* per step, for the launcher that takes it; all others are idle or not    *)
(* alone.                                                                  *)
(***************************************************************************)
LEMMA OwnStep ==
  ASSUME RetryInv, NEW p \in Launchers, Begin(p) \/ Step(p) \/ Kill(p), alone'[p], honest'[p]
  PROVE  AtWork(p)'
  <1> USE DEF RetryInv, AtWork, history, paths
  <1>1. CASE Begin(p) \/ Kill(p)
    BY <1>1 DEF Begin, Kill, Goto, Ends, TypeOK
  <1>2. CASE Step(p)
    <2>1. alone[p] /\ honest[p]
      BY <1>2
      DEF Step, FindHome, NoHome, Probe, Clear, Vanished, Unlink, Open, NoConnection,
          Write, Written, Stat, Hash, Drop, Publish, Extract, ExtractFails, Install, LocalSame,
          TypeOK
    <2>2. AtWork(p)
      BY <2>1 DEF HonestInv
    <2> HIDE DEF AtWork
    <2>3. CASE FindHome(p) \/ Vanished(p) \/ NoConnection(p) \/ Drop(p) \/ ExtractFails(p)
      <3>1. pc'[p] = "idle"
        BY <2>3 DEF FindHome, Vanished, NoConnection, Drop, ExtractFails, Ends, TypeOK
      <3> QED
        BY <3>1 DEF AtWork
    <2>4. CASE NoHome(p) \/ Probe(p) \/ Clear(p)
      BY <2>2, <2>4 DEF AtWork, NoHome, Probe, Clear, Goto, Downloaded, Complete, contents, TypeOK
    <2>5. CASE Unlink(p)
      BY <2>2, <2>5 DEF AtWork, Unlink, Goto, TypeOK
    <2>6. CASE Open(p)
      <3>1. PICK f \in Files :
              /\ partial' = f
              /\ open' = [open EXCEPT ![p] = f]
              /\ good' = [good EXCEPT ![f] = {}]
              /\ length' = [length EXCEPT ![f] = 0]
        BY <2>6 DEF Open, Free, TypeOK
      <3>2. pc[p] = "open" /\ pc'[p] = "write" /\ home' = home /\ written' = written
        BY <2>6 DEF Open, Goto, TypeOK
      <3>3. written[p] = 0
        BY <3>2 DEF CountsReset
      <3>4. f \in Files /\ good'[f] = 1..0 /\ length'[f] = 0 /\ open'[p] = f /\ pc'[p] = "write"
        BY <3>1, <3>2 DEF Open, Free, TypeOK
      <3> QED
        BY <2>2, <3>1, <3>2, <3>3, <3>4 DEF AtWork
    <2>7. CASE Write(p)
      <3> DEFINE f == open[p]  b == written[p] + 1
      <3>1. /\ f \in Files /\ b \in Nat /\ partial = f /\ good[f] = 1..(b - 1)
            /\ length[f] = b - 1 /\ home = "none" /\ pc'[p] = "write"
            /\ UNCHANGED <<partial, open, home, pc>>
        BY <2>2, <2>7 DEF AtWork, Write, TypeOK
      <3>2. PICK right \in {FALSE, (b \in Blocks)} :
              /\ good' = [good EXCEPT ![f] = IF right THEN @ \cup {b} ELSE @ \ {b}]
              /\ length' = [length EXCEPT ![f] = IF @ < b THEN b ELSE @]
              /\ written' = [written EXCEPT ![p] = b]
              /\ honest' = [honest EXCEPT ![p] = @ /\ right]
        BY <2>7 DEF Write
      <3>3. written'[p] = b
        BY <3>2 DEF TypeOK
      <3> HIDE DEF f, b
      <3>4. right
        BY <3>2 DEF TypeOK
      <3>5. good'[f] = 1..b /\ length'[f] = b
        BY <3>1, <3>2, <3>4 DEF TypeOK
      <3> QED
        BY <3>1, <3>3, <3>5 DEF AtWork, f
    <2>8. CASE Written(p)
      <3>1. written[p] = Size /\ pc[p] = "write" /\ pc'[p] = "stat" /\ open[p] \in Files
        BY <2>8 DEF Written, Goto, TypeOK
      <3> QED
        BY <2>2, <2>8, <3>1, BootstrapAssumption DEF AtWork, Written, Complete, contents, Blocks
    <2>9. CASE Stat(p) \/ Hash(p)
      BY <2>2, <2>9 DEF AtWork, Stat, Hash, Complete, contents, TypeOK
    <2>10. CASE Publish(p) \/ Extract(p) \/ Install(p)
      BY <2>2, <2>10
      DEF AtWork, Publish, Extract, Install, Goto, Ends, Complete, contents, TypeOK
    <2> QED
      BY <1>2, <2>3, <2>4, <2>5, <2>6, <2>7, <2>8, <2>9, <2>10 DEF Step
  <1> QED
    BY <1>1, <1>2

LEMMA StepReset ==
  ASSUME TypeOK, CountsReset, [Next]_vars
  PROVE  CountsReset'
  <1>1. CASE UNCHANGED vars
    BY <1>1 DEF vars, launcherVars, CountsReset
  <1>2. ASSUME NEW p \in Launchers, Begin(p) \/ Step(p) \/ Kill(p)
        PROVE  CountsReset'
    <2>1. \A q \in Launchers : q # p => pc'[q] = pc[q] /\ written'[q] = written[q]
      BY <1>2
      DEF Begin, Step, Kill, FindHome, NoHome, Probe, Clear, Vanished, Unlink, Open, NoConnection,
          Write, Written, Stat, Hash, Drop, Publish, Extract, ExtractFails, Install, Ends, Goto,
          LocalSame, TypeOK
    <2>2. pc'[p] # "write" =>
            \/ written'[p] = 0
            \/ pc[p] # "write" /\ written'[p] = written[p]
      BY <1>2
      DEF Begin, Step, Kill, FindHome, NoHome, Probe, Clear, Vanished, Unlink, Open, NoConnection,
          Write, Written, Stat, Hash, Drop, Publish, Extract, ExtractFails, Install, Ends, Goto,
          LocalSame, TypeOK
    <2> QED
      BY <2>1, <2>2 DEF CountsReset
  <1> QED
    BY <1>1, <1>2 DEF Next

LEMMA StepRetry ==
  ASSUME RetryInv, [Next]_vars
  PROVE  RetryInv'
  <1>1. (TypeOK /\ OnlyLocked /\ AloneInv /\ CountsReset)'
    BY StepTyped, StepLocked, StepAlone, StepReset DEF RetryInv
  <1>2. HonestInv'
    <2>1. CASE UNCHANGED vars
      BY <2>1
      DEF RetryInv, HonestInv, AtWork, Complete, vars, paths, contents, launcherVars, history
    <2>2. ASSUME NEW p \in Launchers, Begin(p) \/ Step(p) \/ Kill(p),
                 NEW q \in Launchers, q # p, alone'[q]
          PROVE  AtWork(q)'
      <3>1. pc[q] = "idle"
        <4>1. CASE Begin(p)
          BY <2>2, <4>1 DEF Begin
        <4>2. CASE Step(p) \/ Kill(p)
          <5>1. alone[q] /\ pc[p] # "idle"
            BY <2>2, <4>2
            DEF Step, Kill, FindHome, NoHome, Probe, Clear, Vanished, Unlink, Open, NoConnection,
                Write, Written, Stat, Hash, Drop, Publish, Extract, ExtractFails, Install, Goto,
                LocalSame, history
          <5> QED
            BY <2>2, <5>1 DEF RetryInv, AloneInv
        <4> QED
          BY <2>2, <4>1, <4>2
      <3>2. TypeOK
        BY DEF RetryInv
      <3>3. pc'[q] = pc[q]
        BY <2>2, <3>2
        DEF Begin, Step, Kill, FindHome, NoHome, Probe, Clear, Vanished, Unlink, Open,
            NoConnection, Write, Written, Stat, Hash, Drop, Publish, Extract, ExtractFails,
            Install, Ends, Goto, TypeOK
      <3> QED
        BY <3>1, <3>3 DEF AtWork
    <2> QED
      BY <2>1, <2>2, OwnStep DEF HonestInv, Next
  <1> QED
    BY <1>1, <1>2 DEF RetryInv

(***************************************************************************)
(* A step that fails an honest launcher that is alone would contradict     *)
(* what it finds.                                                          *)
(***************************************************************************)
LEMMA NoFailure ==
  ASSUME RetryInv, [Next]_vars, NEW p \in Launchers,
         outcome[p] # "failed", outcome'[p] = "failed"
  PROVE  ~(alone[p] /\ honest'[p])
  <1>1. SUFFICES ASSUME alone[p], honest'[p] PROVE FALSE
    OBVIOUS
  <1>2. \/ FindHome(p) \/ Vanished(p) \/ NoConnection(p) \/ Drop(p) \/ ExtractFails(p)
        \/ Install(p) /\ home # "none"
    <2>1. TypeOK
      BY DEF RetryInv
    <2>2. PICK q \in Launchers : Begin(q) \/ Step(q) \/ Kill(q)
      BY DEF Next, vars, launcherVars
    <2>3. outcome'[q] = "failed" /\ q = p
      BY <2>1, <2>2
      DEF Begin, Step, Kill, FindHome, NoHome, Probe, Clear, Vanished, Unlink, Open, NoConnection,
          Write, Written, Stat, Hash, Drop, Publish, Extract, ExtractFails, Install, Ends,
          LocalSame, TypeOK
    <2> QED
      BY <2>1, <2>2, <2>3
      DEF Begin, Step, Kill, NoHome, Probe, Clear, Unlink, Open, Write, Written, Stat, Hash,
          Publish, Extract, Install, Ends, LocalSame, TypeOK
  <1>3. CASE NoConnection(p)
    BY <1>1, <1>3 DEF NoConnection, RetryInv, TypeOK
  <1>4. CASE FindHome(p)
    BY <1>4 DEF FindHome, Ends, RetryInv, OnlyLocked, InstalledIsLocked, TypeOK
  <1>5. CASE Vanished(p) \/ Drop(p) \/ ExtractFails(p) \/ (Install(p) /\ home # "none")
    <2>1. honest[p]
      BY <1>1, <1>5 DEF Vanished, Drop, ExtractFails, Install, history
    <2>2. AtWork(p)
      BY <1>1, <2>1 DEF RetryInv, HonestInv
    <2> QED
      BY <1>5, <2>2 DEF AtWork, Vanished, Drop, ExtractFails, Install, TreeVerified
  <1> QED
    BY <1>2, <1>3, <1>4, <1>5

(***************************************************************************)
(* A setup that failed can be repeated, for any number of launchers that   *)
(* failed or were killed before: nothing they left behind stops one that   *)
(* is alone and gets an honest download (_download).                       *)
(***************************************************************************)
THEOREM RetryWorks == Spec => RetrySucceeds
  <1>1. Init => RetryInv
    BY InitTyped
    DEF Init, RetryInv, OnlyLocked, InstalledIsLocked, AloneInv, CountsReset, HonestInv
  <1>2. RetryInv /\ [Next]_vars => RetryInv'
    BY StepRetry
  <1>3. RetryInv /\ [Next]_vars =>
          [\A p \in Launchers :
             outcome[p] # "failed" /\ outcome'[p] = "failed" => ~(alone[p] /\ honest'[p])]_vars
    BY NoFailure
  <1> QED
    BY <1>1, <1>2, <1>3, PTL DEF Spec, RetrySucceeds
==============================================================================
