-------------------------- MODULE ToolchainBootstrap --------------------------
(***************************************************************************)
(* bootstrap of scripts/toolchain.py: launchers that download, verify,     *)
(* extract and install one locked tool in one .toolchain directory, at the *)
(* same time and without a lock. Each may be killed at any step.           *)
(*                                                                         *)
(* A path names a file, and a file outlives its path while a launcher has  *)
(* it open: that is what two launchers meet each other in. The content of  *)
(* a file is the set of its good blocks; a tree is good or bad.            *)
(***************************************************************************)
EXTENDS Integers, FiniteSets

CONSTANTS
  Launchers,  \* processes that run bootstrap
  Files,      \* files a launcher may create under downloads
  Size,       \* blocks of the locked archive
  None        \* no file

ASSUME BootstrapAssumption ==
  /\ Size \in Nat \ {0}
  /\ None \notin Files

VARIABLES
  archive,  \* the file downloads/<sha>.tar.gz names, or None
  partial,  \* the file downloads/<sha>.partial names, or None
  good,     \* good[f]: the blocks of f that hold what was locked
  length,   \* length[f]: the blocks of f
  home,     \* the installed tree: "none", "good" or "bad"
  pc,       \* pc[p]: the step of launcher p
  open,     \* open[p]: the file it writes, or None
  written,  \* written[p]: the blocks it has written
  outcome,  \* outcome[p]: how its last call ended
  alone,    \* alone[p]: nobody else was at work since it began
  honest    \* honest[p]: its download was complete and what was locked

paths == <<archive, partial>>
contents == <<good, length>>
launcherVars == <<pc, open, written, outcome>>
history == <<alone, honest>>
vars == <<paths, contents, home, launcherVars, history>>

Blocks == 1..Size

\* Size and SHA-256 are those of the lock file.
Complete(f) == good[f] = Blocks /\ length[f] = Size

Init ==
  /\ archive = None /\ partial = None
  /\ good = [f \in Files |-> {}] /\ length = [f \in Files |-> 0]
  /\ home = "none"
  /\ pc = [p \in Launchers |-> "idle"]
  /\ open = [p \in Launchers |-> None]
  /\ written = [p \in Launchers |-> 0]
  /\ outcome = [p \in Launchers |-> "none"]
  /\ alone = [p \in Launchers |-> FALSE]
  /\ honest = [p \in Launchers |-> FALSE]
------------------------------------------------------------------------------
Goto(p, from, to) == pc[p] = from /\ pc' = [pc EXCEPT ![p] = to]

\* The call is over and its file is closed.
Ends(p, how) ==
  /\ pc' = [pc EXCEPT ![p] = "idle"]
  /\ open' = [open EXCEPT ![p] = None]
  /\ written' = [written EXCEPT ![p] = 0]
  /\ outcome' = [outcome EXCEPT ![p] = how]

LocalSame == UNCHANGED <<open, written, outcome, history>>

Begin(p) ==
  /\ Goto(p, "idle", "home")
  /\ outcome' = [outcome EXCEPT ![p] = "none"]
  /\ alone' = [q \in Launchers |-> q = p /\ \A r \in Launchers : pc[r] = "idle"]
  /\ honest' = [honest EXCEPT ![p] = TRUE]
  /\ UNCHANGED <<paths, contents, home, open, written>>

\* A home that exists is verified and left alone.
FindHome(p) ==
  /\ pc[p] = "home"
  /\ home # "none"
  /\ Ends(p, IF home = "good" THEN "ok" ELSE "failed")
  /\ UNCHANGED <<paths, contents, home, history>>

NoHome(p) ==
  /\ Goto(p, "home", "probe")
  /\ home = "none"
  /\ LocalSame
  /\ UNCHANGED <<paths, contents, home>>

\* Mistake: an archive that is there is taken as it is.
Usable == archive # None

\* _download returns an archive that is there and verified.
Downloaded == archive # None /\ Complete(archive)

Probe(p) ==
  /\ pc[p] = "probe"
  /\ pc' = [pc EXCEPT ![p] = IF Downloaded THEN "extract" ELSE "clear"]
  /\ LocalSame
  /\ UNCHANGED <<paths, contents, home>>

\* if partial.exists() ...
Clear(p) ==
  /\ pc[p] = "clear"
  /\ pc' = [pc EXCEPT ![p] = IF partial = None THEN "open" ELSE "unlink"]
  /\ LocalSame
  /\ UNCHANGED <<paths, contents, home>>

\* A step on the path of the partial file that somebody else took away.
Vanished(p) ==
  /\ pc[p] \in {"unlink", "stat", "hash", "publish", "drop"}
  /\ partial = None
  /\ Ends(p, "failed")
  /\ UNCHANGED <<paths, contents, home, history>>

\* ... partial.unlink()
Unlink(p) ==
  /\ Goto(p, "unlink", "open")
  /\ partial # None
  /\ partial' = None
  /\ LocalSame
  /\ UNCHANGED <<archive, contents, home>>

\* The files that no path names and nobody has open.
Free == Files \ ({archive, partial} \cup {open[q] : q \in Launchers})

\* open(partial, "wb"): a new file, or the one that is there, emptied.
Open(p) ==
  /\ Goto(p, "open", "write")
  /\ \E f \in IF partial = None THEN Free ELSE {partial} :
       /\ partial' = f
       /\ open' = [open EXCEPT ![p] = f]
       /\ good' = [good EXCEPT ![f] = {}]
       /\ length' = [length EXCEPT ![f] = 0]
  /\ UNCHANGED <<archive, home, written, outcome, history>>

\* The server answers with an error.
NoConnection(p) ==
  /\ pc[p] = "open"
  /\ Ends(p, "failed")
  /\ honest' = [honest EXCEPT ![p] = FALSE]
  /\ UNCHANGED <<paths, contents, home, alone>>

\* copyfileobj writes the next block, right or wrong; the answer may be
\* longer than the archive, and a hole may lie before the block.
Write(p) ==
  /\ pc[p] = "write"
  /\ written[p] <= Size
  /\ LET f == open[p]  b == written[p] + 1
     IN  \E right \in {FALSE, (b \in Blocks)} :
           /\ good' = [good EXCEPT ![f] = IF right THEN @ \cup {b} ELSE @ \ {b}]
           /\ length' = [length EXCEPT ![f] = IF @ < b THEN b ELSE @]
           /\ written' = [written EXCEPT ![p] = b]
           /\ honest' = [honest EXCEPT ![p] = @ /\ right]
  /\ UNCHANGED <<paths, home, pc, open, outcome, alone>>

\* Mistake: the file is verified before it is closed.
WrittenOpen(p) ==
  /\ Goto(p, "write", "stat")
  /\ honest' = [honest EXCEPT ![p] = @ /\ written[p] = Size]
  /\ UNCHANGED <<paths, contents, home, open, written, outcome, alone>>

\* The answer is read to its end, which may come too early.
Written(p) ==
  /\ Goto(p, "write", "stat")
  /\ open' = [open EXCEPT ![p] = None]
  /\ written' = [written EXCEPT ![p] = 0]
  /\ honest' = [honest EXCEPT ![p] = @ /\ written[p] = Size]
  /\ UNCHANGED <<paths, contents, home, outcome, alone>>

Stat(p) ==
  /\ pc[p] = "stat"
  /\ partial # None
  /\ pc' = [pc EXCEPT ![p] = IF length[partial] = Size THEN "hash" ELSE "drop"]
  /\ LocalSame
  /\ UNCHANGED <<paths, contents, home>>

Hash(p) ==
  /\ pc[p] = "hash"
  /\ partial # None
  /\ pc' = [pc EXCEPT ![p] = IF Complete(partial) THEN "publish" ELSE "drop"]
  /\ LocalSame
  /\ UNCHANGED <<paths, contents, home>>

\* Size or checksum mismatch: the partial file of whoever it is by now.
Drop(p) ==
  /\ pc[p] = "drop"
  /\ partial # None
  /\ partial' = None
  /\ Ends(p, "failed")
  /\ UNCHANGED <<archive, contents, home, history>>

\* os.replace(partial, archive)
Publish(p) ==
  /\ Goto(p, "publish", "extract")
  /\ partial # None
  /\ archive' = partial
  /\ partial' = None
  /\ LocalSame
  /\ UNCHANGED <<contents, home>>

\* Mistake: the extracted tree is not verified.
Readable == TRUE

\* tarfile reads the archive to its end and _verify_tree accepts the tree.
TreeVerified == Complete(archive)

\* The tree is built in a staging directory of its own.
Extract(p) ==
  /\ Goto(p, "extract", IF Complete(archive) THEN "install" ELSE "installBad")
  /\ TreeVerified
  /\ LocalSame
  /\ UNCHANGED <<paths, contents, home>>

ExtractFails(p) ==
  /\ pc[p] = "extract"
  /\ ~TreeVerified
  /\ Ends(p, "failed")
  /\ UNCHANGED <<paths, contents, home, history>>

\* os.rename(extracted, home) fails when a home is there by now.
Install(p) ==
  /\ pc[p] \in {"install", "installBad"}
  /\ IF home = "none"
     THEN /\ home' = IF pc[p] = "install" THEN "good" ELSE "bad"
          /\ pc' = [pc EXCEPT ![p] = "home"]
          /\ UNCHANGED <<open, written, outcome>>
     ELSE /\ Ends(p, "failed")
          /\ UNCHANGED home
  /\ UNCHANGED <<paths, contents, history>>

\* A launcher dies; what it left stays, its staging directory included.
Kill(p) ==
  /\ pc[p] # "idle"
  /\ Ends(p, "none")
  /\ UNCHANGED <<paths, contents, home, history>>

Step(p) ==
  \/ FindHome(p) \/ NoHome(p) \/ Probe(p) \/ Clear(p) \/ Vanished(p) \/ Unlink(p)
  \/ Open(p) \/ NoConnection(p) \/ Write(p) \/ Written(p) \/ Stat(p) \/ Hash(p)
  \/ Drop(p) \/ Publish(p) \/ Extract(p) \/ ExtractFails(p) \/ Install(p)

Next == \E p \in Launchers : Begin(p) \/ Step(p) \/ Kill(p)

Spec == Init /\ [][Next]_vars
------------------------------------------------------------------------------
Pcs ==
  {"idle", "home", "probe", "clear", "unlink", "open", "write", "stat", "hash",
   "drop", "publish", "extract", "install", "installBad"}

(***************************************************************************)
(* Type invariant. Only a launcher that downloads has a file open.         *)
(***************************************************************************)
TypeOK ==
  /\ archive \in Files \cup {None}
  /\ partial \in Files \cup {None}
  /\ good \in [Files -> SUBSET Blocks]
  /\ length \in [Files -> 0..(Size + 1)]
  /\ home \in {"none", "good", "bad"}
  /\ pc \in [Launchers -> Pcs]
  /\ open \in [Launchers -> Files \cup {None}]
  /\ \A p \in Launchers : (open[p] # None) <=> (pc[p] = "write")
  /\ written \in [Launchers -> 0..(Size + 1)]
  /\ outcome \in [Launchers -> {"none", "ok", "failed"}]
  /\ alone \in [Launchers -> BOOLEAN]
  /\ honest \in [Launchers -> BOOLEAN]

(***************************************************************************)
(* A tool that is installed is the locked one, whatever two launchers do   *)
(* to each other's files and wherever one is killed: the tree is verified  *)
(* before the one rename that makes it visible (bootstrap).                *)
(***************************************************************************)
InstalledIsLocked == home # "bad"

(***************************************************************************)
(* Nothing that earlier launchers left behind, torn archives and partial   *)
(* files of killed ones included, can stop a launcher that is alone and    *)
(* gets an honest download: a setup that failed can be repeated            *)
(* (_download verifies what it finds and clears the partial file).         *)
(***************************************************************************)
RetrySucceeds ==
  [][\A p \in Launchers :
       outcome[p] # "failed" /\ outcome'[p] = "failed" => ~(alone[p] /\ honest'[p])]_vars
==============================================================================
