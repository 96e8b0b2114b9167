----------------------------- MODULE EvidenceLog -----------------------------
(***************************************************************************)
(* What the evidence store of SENTINEL_PY promises, with the file system,  *)
(* the lock and the processes taken away: a log of completed runs that     *)
(* only grows, whose sequence numbers increase in the order of publication *)
(* and may have gaps, and readers that are answered with exactly the log.  *)
(* EvidenceStore implements this module.                                   *)
(***************************************************************************)
EXTENDS Integers, FiniteSets

CONSTANTS
  RunIds,     \* run identifiers a caller may pass
  Findings,   \* finding identities (a fingerprint stands for one of them)
  Readers,    \* processes that read the history
  MaxSeq      \* the largest sequence number: _UINT64_MAX in the code

VARIABLES
  log,      \* the set of published runs
  acked,    \* the published runs whose commit call returned
  result    \* result[q]: the outcome of the last read of q

vars == <<log, acked, result>>

Entry == [run : RunIds, seq : 1..MaxSeq, findings : SUBSET Findings]

Result == [status : {"none", "history", "refused"}, docs : SUBSET Entry]

NoResult == [status |-> "none", docs |-> {}]
------------------------------------------------------------------------------
(***************************************************************************)
(* The history document computed from a set of published runs: one row per *)
(* finding, with the first and the last sequence that observed it.         *)
(***************************************************************************)
Observers(docs, f) == {e \in docs : f \in e.findings}

HistoryRow(docs, f) ==
  LET sequences == {e.seq : e \in Observers(docs, f)}
      count     == Cardinality(Observers(docs, f))
  IN  [finding          |-> f,
       firstSequence    |-> CHOOSE s \in sequences : \A t \in sequences : s <= t,
       lastSequence     |-> CHOOSE s \in sequences : \A t \in sequences : s >= t,
       observationCount |-> count,
       repeated         |-> count >= 2]

HistoryRows(docs, repeatedOnly) ==
  {row \in {HistoryRow(docs, f) : f \in UNION {e.findings : e \in docs}} :
     repeatedOnly => row.repeated}

(***************************************************************************)
(* A later history extends an earlier one: no run disappears, a row keeps  *)
(* its first sequence, and its counts and its last sequence never go back. *)
(***************************************************************************)
HistoryExtends(old, new) ==
  /\ Cardinality(old) <= Cardinality(new)
  /\ \A before \in HistoryRows(old, FALSE) :
       \E after \in HistoryRows(new, FALSE) :
         /\ after.finding = before.finding
         /\ after.firstSequence = before.firstSequence
         /\ after.lastSequence >= before.lastSequence
         /\ after.observationCount >= before.observationCount
         /\ before.repeated => after.repeated
------------------------------------------------------------------------------
Init ==
  /\ log = {}
  /\ acked = {}
  /\ result = [q \in Readers |-> NoResult]

\* A run enters the log under a number above every number in it.
Publish(e) ==
  /\ \A x \in log : x.run # e.run /\ x.seq < e.seq
  /\ log' = log \cup {e}
  /\ UNCHANGED <<acked, result>>

\* The commit call of a published run returns to its caller.
Acknowledge(e) ==
  /\ acked' = acked \cup {e}
  /\ UNCHANGED <<log, result>>

Read(q) ==
  /\ result' = [result EXCEPT ![q] = [status |-> "history", docs |-> log]]
  /\ UNCHANGED <<log, acked>>

Refuse(q) ==
  /\ result' = [result EXCEPT ![q].status = "refused"]
  /\ UNCHANGED <<log, acked>>

\* The machine loses power: a suffix of runs that were never acknowledged
\* may go, and nobody remembers what was read.
Lose ==
  /\ \E kept \in SUBSET log :
       /\ acked \subseteq kept
       /\ \A e \in kept, x \in log \ kept : e.seq < x.seq
       /\ log' = kept
  /\ result' = [q \in Readers |-> NoResult]
  /\ UNCHANGED acked

Next ==
  \/ \E e \in Entry : Publish(e)
  \/ \E e \in log : Acknowledge(e)
  \/ \E q \in Readers : Read(q) \/ Refuse(q)
  \/ Lose

Spec == Init /\ [][Next]_vars
==============================================================================
