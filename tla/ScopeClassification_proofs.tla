---------------------- MODULE ScopeClassification_proofs ----------------------
(***************************************************************************)
(* Proofs about loading a project (config/loader.py, config/scope.py), for *)
(* any finite number of files and modules, any configuration and any       *)
(* number of files that are created and deleted meanwhile.                 *)
(*                                                                         *)
(* The invariant says what a walk that is under way has found of the files *)
(* it has looked at: whatever happens to the tree, only what the           *)
(* configuration says it is, and every file that was there all along; in a *)
(* tree nobody edits, exactly what the tree holds.                         *)
(***************************************************************************)
EXTENDS ScopeClassification, FiniteSetTheorems, TLAPS

\* The walks that are over when walk w begins.
Before(w) ==
  IF w = "sources" THEN {}
  ELSE IF w = "tests" THEN {"sources"}
  ELSE IF w = "excluded" THEN {"sources", "tests"}
  ELSE IF w = "native" THEN {"sources", "tests", "excluded"}
  ELSE IF w = "inventory" THEN {"sources", "tests", "excluded", "native"}
  ELSE {"sources", "tests", "excluded", "native", "inventory"}

\* Walk w has looked at path f.
Looked(w, f) == w \in Before(at) \/ (w = at /\ f < next)

\* A link leads to a file or out of the project, never to another link.
LinksFlat == \A f \in Files : kind[f].link \in Files => ~Link(kind[f].link)

Typed == TypeOK /\ kind \in [Files -> Kind] /\ LinksFlat

\* Whatever the tree looked like at the time: what a walk has found is what the
\* configuration says it is, a link speaking for its target.
FoundRight ==
  /\ \A f \in found["sources"] : Selected \in kind[f].prod
  /\ \A f \in found["tests"] : kind[f].test = "match"
  /\ \A f \in found["excluded"] : kind[f].excl
  /\ \A f \in found["inventory"] : \E g \in Files : Target(g) = f /\ Module \in kind[g].prod
  /\ \A m \in Modules : \A f \in inventory[m] : \E g \in Files : Target(g) = f /\ m \in kind[g].prod

\* And a walk that has come to a file that was there all along has found it.
StoodFound ==
  \A f \in Ordinary : f \in present \ touched =>
    /\ Looked("sources", f) /\ Selected \in kind[f].prod => f \in found["sources"]
    /\ Looked("tests", f) /\ kind[f].test = "match" => f \in found["tests"]
    /\ Looked("excluded", f) /\ kind[f].excl => f \in found["excluded"]
    /\ Looked("native", f) => f \in found["native"]
    /\ outcome = "none" /\ at = "inventory" /\ f < next /\ Module \in kind[f].prod =>
         f \in found["inventory"]
    /\ \A m \in Modules \ todo : m \in kind[f].prod => f \in inventory[m]

\* What was checked on the way.
Reconciled ==
  /\ outcome = "none" /\ at # "candidates" => todo # {}
  /\ at = "candidates" =>
       /\ todo = {} /\ \A m \in Modules : inventory[m] # {}
       /\ found["tests"] \cup found["excluded"] \subseteq found["native"]
  /\ outcome = "accepted" => at = "candidates" /\ next \notin Files /\ Agree

ScopeInv == Typed /\ FoundRight /\ StoodFound /\ Reconciled

\* In a tree that nobody edits a walk has found exactly what it is to find, and
\* has met nothing that it refuses.
Produces(m, g) == IsFile(g) /\ m \in kind[g].prod /\ ~kind[Target(g)].owned

ExactlyFound ==
  /\ \A w \in Walks \ {"inventory"} : \A x \in Files :
       x \in found[w] <=> \E g \in Files : Looked(w, g) /\ Finds(w, g) /\ Target(g) = x
  /\ at = "inventory" /\ outcome = "none" => \A x \in Files :
       x \in found["inventory"] <=> \E g \in Files : g < next /\ Produces(Module, g) /\ Target(g) = x
  /\ at \in Before("inventory") => found["inventory"] = {}
  /\ \A m \in Modules : \A x \in Files :
       x \in inventory[m] <=> m \notin todo /\ \E g \in Files : Produces(m, g) /\ Target(g) = x
  /\ \A w \in Walks \ {"inventory"}, f \in Files : Looked(w, f) => ~Raises(w, f)

TidySoFar ==
  edits = 0 => ExactlyFound /\ TidyIffAccepted

TidyInv == ScopeInv /\ TidySoFar
------------------------------------------------------------------------------
(***************************************************************************)
(* The load keeps every variable in its type; what a walk finds is in the  *)
(* project, because it refuses what is not.                                *)
(***************************************************************************)
LEMMA FilesCounted == Cardinality(Files) \in Nat /\ Files = 1..Cardinality(Files) /\ Files \subseteq Nat
  BY FS_CardinalityType, ScopeAssumption

LEMMA KindsTyped == \A f \in Files : Kinds[f] \subseteq Kind
  BY ScopeAssumption

LEMMA SameModule == todo' = todo => Module' = Module
  BY DEF Module

LEMMA FoundInProject ==
  ASSUME Typed, NEW w \in Walks, NEW f \in Files, Finds(w, f), ~Raises(w, f)
  PROVE  Target(f) \in Files
  <1>1. kind[f].link \in Files \cup {Outside, None} /\ present \subseteq Files
    BY DEF Typed, TypeOK, Kind
  <1>2. CASE w \in {"sources", "tests", "excluded"}
    BY <1>2 DEF Finds, Raises, IsSource, IsExcluded, Target
  <1>3. CASE Follows(w, f)
    BY <1>1, <1>3 DEF Raises, Follows, IsFile
  <1> QED BY <1>2, <1>3 DEF Finds, Walks

LEMMA InitTyped == Init => Typed
  <1> SUFFICES ASSUME Init PROVE Typed
    OBVIOUS
  <1>1. kind \in [Files -> Kind]
    <2>1. kind \in [Files -> UNION {Kinds[f] : f \in Files}] /\ \A f \in Files : kind[f] \in Kinds[f]
      BY DEF Init
    <2>2. \A f \in Files : kind[f] \in Kind
      BY <2>1, KindsTyped
    <2> QED BY <2>1, <2>2
  <1>2. TypeOK
    BY FilesCounted, ScopeAssumption DEF Init, TypeOK, Walks
  <1>3. LinksFlat
    BY DEF Init, LinksFlat
  <1> QED BY <1>1, <1>2, <1>3 DEF Typed

LEMMA StepTyped == Typed /\ [Next]_vars => Typed'
  <1> SUFFICES ASSUME Typed, [Next]_vars PROVE Typed'
    OBVIOUS
  <1>0. TypeOK /\ kind' = kind
    BY DEF Typed, Next, vars, tree, Look, LookRaises, SourcesEnd, EvidenceEnds, InventoryEnds,
       CandidatesEnd, Edit
  <1>1. kind' \in [Files -> Kind] /\ LinksFlat'
    BY <1>0 DEF Typed, LinksFlat, Link
  <1>2. TypeOK'
    <2> USE FilesCounted
    <2>1. CASE Look
      <3>1. next \in Files /\ next' = next + 1 /\ at \in Walks
        BY <1>0, <2>1 DEF Look, TypeOK
      <3>2. found' \in [Walks -> SUBSET Files]
        <4>1. CASE Finds(at, next)
          <5>1. Target(next) \in Files /\ found' = [found EXCEPT ![at] = @ \cup {Target(next)}]
            BY <2>1, <3>1, <4>1, FoundInProject DEF Look
          <5> QED BY <1>0, <3>1, <5>1 DEF TypeOK
        <4>2. CASE ~Finds(at, next)
          BY <1>0, <2>1, <4>2 DEF Look, TypeOK
        <4> QED BY <4>1, <4>2
      <3>3. /\ UNCHANGED <<kind, present, at, inventory, todo, outcome, edits, touched>>
            /\ next' \in 1..(Cardinality(Files) + 1)
        BY <2>1, <3>1 DEF Look, tree
      <3> QED BY <1>0, <3>2, <3>3 DEF TypeOK
    <2>2. CASE LookRaises
      BY <1>0, <2>2 DEF LookRaises, Refuse, TypeOK, tree
    <2>3. CASE SourcesEnd \/ EvidenceEnds
      <3>1. /\ \/ at' \in Walks /\ next' = 1 /\ outcome' = outcome
               \/ outcome' = "refused" /\ UNCHANGED <<at, next>>
            /\ UNCHANGED <<kind, present, found, inventory, todo, edits, touched>>
        BY <2>3 DEF SourcesEnd, EvidenceEnds, Begin, Refuse, tree, Walks
      <3> QED BY <1>0, <3>1 DEF TypeOK
    <2>4. CASE InventoryEnds
      <3>1. found["inventory"] \in SUBSET Files
        BY <1>0 DEF TypeOK, Walks
      <3>2. /\ inventory' = [inventory EXCEPT ![Module] = found["inventory"]]
            /\ todo' \subseteq todo
            /\ found' = [found EXCEPT !["inventory"] = {}]
            /\ \/ at' \in {"candidates", "inventory"} /\ next' = 1 /\ outcome' = outcome
               \/ outcome' = "refused" /\ UNCHANGED <<at, next>>
            /\ UNCHANGED <<kind, present, edits, touched>>
        BY <2>4 DEF InventoryEnds, Begin, Refuse, tree
      <3>3. inventory' \in [Modules -> SUBSET Files] /\ found' \in [Walks -> SUBSET Files]
        BY <1>0, <3>1, <3>2 DEF TypeOK
      <3>4. "candidates" \in Walks /\ "inventory" \in Walks /\ 1 \in 1..(Cardinality(Files) + 1)
        BY DEF Walks
      <3>5. todo' \subseteq Modules
        BY <1>0, <3>2 DEF TypeOK
      <3>6. at' \in Walks /\ next' \in 1..(Cardinality(Files) + 1)
            /\ outcome' \in {"none", "accepted", "refused"}
        BY <1>0, <3>2, <3>4 DEF TypeOK
      <3> QED BY <1>0, <3>2, <3>3, <3>5, <3>6 DEF TypeOK
    <2>5. CASE CandidatesEnd
      BY <1>0, <2>5 DEF CandidatesEnd, TypeOK, tree
    <2>6. CASE \E f \in Files : Edit(f)
      <3>1. MaxEdits \in Nat
        BY ScopeAssumption
      <3>2. edits' \in 0..MaxEdits /\ present' \subseteq Files /\ touched' \subseteq Files
        BY <1>0, <2>6, <3>1 DEF Edit, TypeOK
      <3> QED BY <1>0, <2>6, <3>2 DEF Edit, TypeOK
    <2>7. CASE UNCHANGED vars
      BY <1>0, <2>7 DEF vars, tree, TypeOK
    <2> QED BY <2>1, <2>2, <2>3, <2>4, <2>5, <2>6, <2>7 DEF Next
  <1> QED BY <1>1, <1>2 DEF Typed

(***************************************************************************)
(* However the tree changes during the load, the walks stay in the         *)
(* project: what they list are paths of the project, also where they       *)
(* follow a link (_relative_source, _production_source).                   *)
(***************************************************************************)
THEOREM TypeCorrect == Spec => []TypeOK
  <1>1. Typed => TypeOK
    BY DEF Typed
  <1> QED BY InitTyped, StepTyped, <1>1, PTL DEF Spec
------------------------------------------------------------------------------
(***************************************************************************)
(* What the steps do, as the rest of the invariant needs it.               *)
(***************************************************************************)
\* What a path is does not change.
LEMMA SameKind ==
  ASSUME [Next]_vars
  PROVE  kind' = kind /\ Ordinary' = Ordinary /\ \A f : Target(f)' = Target(f) /\ Link(f)' = Link(f)
  <1>1. kind' = kind
    BY DEF Next, vars, tree, Look, LookRaises, SourcesEnd, EvidenceEnds, InventoryEnds,
       CandidatesEnd, Edit
  <1> QED BY <1>1 DEF Ordinary, Target, Link

\* A look adds at most its target to what the walk has found.
LEMMA LookFinds ==
  ASSUME Typed, Look
  PROVE  /\ next \in Files /\ next' = next + 1 /\ at' = at /\ outcome = "none" /\ outcome' = "none"
         /\ ~Raises(at, next)
         /\ UNCHANGED <<kind, present, inventory, todo, edits, touched>> /\ Module' = Module
         /\ \A w \in Walks : w # at => found'[w] = found[w]
         /\ found'[at] = IF Finds(at, next) THEN found[at] \cup {Target(next)} ELSE found[at]
  BY SameModule DEF Look, tree, Typed, TypeOK

\* A walk that ends has looked at every path.
LEMMA WalkOver ==
  ASSUME Typed, next \notin Files
  PROVE  \A f \in Files : f < next
  BY FilesCounted DEF Typed, TypeOK

\* The end of the walk over the files of one module.
LEMMA InventoryOver ==
  ASSUME Typed, InventoryEnds
  PROVE  /\ at = "inventory" /\ outcome = "none" /\ next \notin Files
         /\ todo' = todo \ {Module}
         /\ found'["inventory"] = {} /\ \A w \in Walks \ {"inventory"} : found'[w] = found[w]
         /\ \A m \in Modules : inventory'[m] = IF m = Module THEN found["inventory"] ELSE inventory[m]
         /\ \/ /\ at' = "inventory" /\ next' = 1 /\ outcome' = "none" /\ todo' # {}
            \/ /\ at' = "candidates" /\ next' = 1 /\ outcome' = "none" /\ todo' = {}
               /\ LastInventory(found["inventory"])
            \/ /\ at' = at /\ next' = next /\ outcome' = "refused"
               /\ \/ ~(found["inventory"] \subseteq found["native"])
                  \/ todo' = {} /\ ~LastInventory(found["inventory"])
         /\ UNCHANGED <<kind, present, edits, touched>>
  BY DEF InventoryEnds, WalkEnds, Begin, Refuse, tree, Typed, TypeOK, Walks

\* The end of another walk after which the load goes on.
LEMMA NextWalk ==
  ASSUME Typed, SourcesEnd \/ EvidenceEnds, outcome' = "none"
  PROVE  /\ outcome = "none" /\ next \notin Files /\ next' = 1
         /\ at \in Walks \ {"inventory", "candidates"}
         /\ at' \in Walks \ {"candidates"} /\ Before(at') = Before(at) \cup {at}
         /\ UNCHANGED <<kind, present, found, inventory, todo, edits, touched>> /\ Module' = Module
  <1>1. UNCHANGED <<kind, present, found, inventory, todo, edits, touched>>
    BY DEF SourcesEnd, EvidenceEnds, tree
  <1>2. /\ outcome = "none" /\ next \notin Files /\ next' = 1
        /\ \/ at = "sources" /\ at' = "tests"
           \/ at = "tests" /\ at' = "excluded"
           \/ at = "excluded" /\ at' = "native"
           \/ at = "native" /\ at' = "inventory"
    BY DEF SourcesEnd, EvidenceEnds, WalkEnds, Begin, Refuse
  <1>3. Before(at') = Before(at) \cup {at}
    BY <1>2 DEF Before
  <1> QED BY <1>1, <1>2, <1>3, SameModule DEF Walks

\* A step after which the load has failed, or that ends it.
LEMMA LoadOver ==
  ASSUME Typed, LookRaises \/ SourcesEnd \/ CandidatesEnd, outcome' # "none"
  PROVE  /\ UNCHANGED <<kind, present, at, next, found, inventory, todo, edits, touched>>
         /\ Module' = Module /\ outcome = "none"
         /\ \/ outcome' = "refused"
            \/ outcome' = "accepted" /\ at = "candidates" /\ next \notin Files /\ Agree
  <1>1. UNCHANGED <<kind, present, at, next, found, inventory, todo, edits, touched>>
    BY DEF LookRaises, SourcesEnd, CandidatesEnd, WalkEnds, Begin, tree
  <1> QED
    BY <1>1, SameModule DEF LookRaises, SourcesEnd, CandidatesEnd, WalkEnds, Refuse

\* The kinds of steps there are.
LEMMA StepKinds ==
  ASSUME Typed, [Next]_vars
  PROVE  \/ Look
         \/ (SourcesEnd \/ EvidenceEnds) /\ outcome' = "none"
         \/ InventoryEnds
         \/ (LookRaises \/ SourcesEnd \/ CandidatesEnd) /\ outcome' # "none"
         \/ \E f \in Files : Edit(f)
         \/ UNCHANGED vars
  <1>2. EvidenceEnds => outcome' = "none"
    BY DEF EvidenceEnds, WalkEnds
  <1>3. LookRaises => outcome' # "none"
    BY DEF LookRaises, Refuse
  <1>4. CandidatesEnd => outcome' # "none"
    BY DEF CandidatesEnd
  <1> QED BY <1>2, <1>3, <1>4 DEF Next
------------------------------------------------------------------------------
LEMMA RightStep ==
  ASSUME Typed, FoundRight, [Next]_vars
  PROVE  FoundRight'
  <1>0. kind' = kind /\ \A f : Target(f)' = Target(f)
    BY SameKind
  <1>1. CASE Look
    <2>1. /\ \A f \in found'["sources"] : Selected \in kind[f].prod
          /\ \A f \in found'["tests"] : kind[f].test = "match"
          /\ \A f \in found'["excluded"] : kind[f].excl
      BY <1>1, LookFinds
      DEF FoundRight, Finds, Raises, IsSource, IsExcluded, Target, Walks
    <2>2. \A f \in found'["inventory"] : \E g \in Files : Target(g) = f /\ Module \in kind[g].prod
      BY <1>1, LookFinds DEF FoundRight, Finds, Follows, Walks
    <2> QED BY <1>0, <1>1, <2>1, <2>2, LookFinds DEF FoundRight
  <1>2. CASE InventoryEnds
    BY <1>0, <1>2, InventoryOver DEF FoundRight, Walks
  <1>3. CASE UNCHANGED <<found, inventory>> /\ Module' = Module
    BY <1>0, <1>3 DEF FoundRight
  <1>4. CASE (SourcesEnd \/ EvidenceEnds) /\ outcome' = "none"
    BY <1>3, <1>4, NextWalk
  <1>5. CASE (LookRaises \/ SourcesEnd \/ CandidatesEnd) /\ outcome' # "none"
    BY <1>3, <1>5, LoadOver
  <1>6. CASE (\E f \in Files : Edit(f)) \/ UNCHANGED vars
    BY <1>3, <1>6, SameModule DEF Edit, vars
  <1> QED BY <1>1, <1>2, <1>4, <1>5, <1>6, StepKinds

\* A file that has been there all along has been there before.
LEMMA StoodBefore ==
  ASSUME Typed, [Next]_vars, NEW f, f \in present' \ touched'
  PROVE  f \in present \ touched
  <1>1. CASE \E g \in Files : Edit(g)
    BY <1>1 DEF Edit
  <1>2. CASE UNCHANGED <<present, touched>>
    BY <1>2
  <1> QED
    BY <1>1, <1>2, StepKinds, LookFinds, NextWalk, InventoryOver, LoadOver DEF vars, tree

\* What an ordinary file that is there is to the walks.
LEMMA OrdinaryFinds ==
  ASSUME Typed, NEW f \in Ordinary, f \in present
  PROVE  /\ Target(f) = f /\ f \in Files
         /\ Selected \in kind[f].prod => Finds("sources", f)
         /\ kind[f].test = "match" => Finds("tests", f)
         /\ kind[f].excl => Finds("excluded", f)
         /\ Finds("native", f)
         /\ Module \in kind[f].prod => Finds("inventory", f)
  BY DEF Ordinary, Target, Finds, Follows, IsFile, IsSource, IsExcluded

LEMMA StoodStep ==
  ASSUME Typed, StoodFound, [Next]_vars
  PROVE  StoodFound'
  <1> SUFFICES ASSUME NEW f \in Ordinary, f \in present \ touched
      PROVE /\ Looked("sources", f)' /\ Selected \in kind[f].prod => f \in found'["sources"]
            /\ Looked("tests", f)' /\ kind[f].test = "match" => f \in found'["tests"]
            /\ Looked("excluded", f)' /\ kind[f].excl => f \in found'["excluded"]
            /\ Looked("native", f)' => f \in found'["native"]
            /\ outcome' = "none" /\ at' = "inventory" /\ f < next' /\ Module' \in kind[f].prod =>
                 f \in found'["inventory"]
            /\ \A m \in Modules \ todo' : m \in kind[f].prod => f \in inventory'[m]
    BY SameKind, StoodBefore DEF StoodFound
  <1>0. /\ Looked("sources", f) /\ Selected \in kind[f].prod => f \in found["sources"]
        /\ Looked("tests", f) /\ kind[f].test = "match" => f \in found["tests"]
        /\ Looked("excluded", f) /\ kind[f].excl => f \in found["excluded"]
        /\ Looked("native", f) => f \in found["native"]
        /\ outcome = "none" /\ at = "inventory" /\ f < next /\ Module \in kind[f].prod =>
             f \in found["inventory"]
        /\ \A m \in Modules \ todo : m \in kind[f].prod => f \in inventory[m]
    BY DEF StoodFound
  <1>1. CASE Look
    <2>1. f \in Files /\ f \in Nat /\ next \in Nat
      BY <1>1, OrdinaryFinds, FilesCounted, LookFinds
    <2>2. \A w : Looked(w, f)' => Looked(w, f) \/ (w = at /\ f = next)
      BY <1>1, <2>1, LookFinds DEF Looked
    <2>3. \A w \in Walks : found[w] \subseteq found'[w]
      BY <1>1, LookFinds
    <2>4. f = next => Target(next) = f /\ (Finds(at, f) => f \in found'[at])
      BY <1>1, LookFinds, OrdinaryFinds
    <2>5. f < next' => f < next \/ f = next
      BY <1>1, <2>1, LookFinds
    <2> QED
      BY <1>0, <1>1, <2>2, <2>3, <2>4, <2>5, OrdinaryFinds, LookFinds DEF Walks
  <1>2. CASE InventoryEnds
    <2>1. f < next /\ ~(f < 1)
      BY <1>2, InventoryOver, WalkOver, FilesCounted DEF Ordinary
    <2>2. \A w \in Walks \ {"inventory"} : Looked(w, f)' => Looked(w, f)
      BY <1>2, <2>1, InventoryOver DEF Looked, Before, Walks
    <2>3. ~(outcome' = "none" /\ at' = "inventory" /\ f < next')
      BY <1>2, InventoryOver, FilesCounted DEF Ordinary
    <2> QED
      BY <1>0, <1>2, <2>1, <2>2, <2>3, InventoryOver DEF Walks
  <1>3. CASE (SourcesEnd \/ EvidenceEnds) /\ outcome' = "none"
    <2>1. f < next /\ ~(f < next')
      BY <1>3, NextWalk, WalkOver, FilesCounted DEF Ordinary
    <2>2. \A w : Looked(w, f)' => Looked(w, f)
      BY <1>3, <2>1, NextWalk DEF Looked
    <2> QED BY <1>0, <1>3, <2>1, <2>2, NextWalk
  <1>4. CASE (LookRaises \/ SourcesEnd \/ CandidatesEnd) /\ outcome' # "none"
    BY <1>0, <1>4, LoadOver DEF Looked
  <1>5. CASE (\E g \in Files : Edit(g)) \/ UNCHANGED vars
    BY <1>0, <1>5, SameModule DEF Edit, vars, Looked
  <1> QED BY <1>1, <1>2, <1>3, <1>4, <1>5, StepKinds

LEMMA ReconciledStep ==
  ASSUME Typed, Reconciled, [Next]_vars
  PROVE  Reconciled'
  <1>1. CASE Look
    <2>1. at = "candidates" => UNCHANGED <<inventory, todo>> /\ at' = at
            /\ found'["tests"] = found["tests"] /\ found'["excluded"] = found["excluded"]
            /\ found'["native"] = found["native"]
      BY <1>1, LookFinds DEF Walks
    <2> QED BY <1>1, <2>1, LookFinds DEF Reconciled
  <1>2. CASE InventoryEnds
    <2>1. CASE at' = "candidates"
      <3>1. LastInventory(found["inventory"]) /\ todo' = {} /\ outcome' = "none"
        BY <1>2, <2>1, InventoryOver
      <3>2. \A m \in Modules : inventory'[m] # {}
        BY <1>2, <3>1, InventoryOver DEF LastInventory
      <3>3. found'["tests"] \cup found'["excluded"] \subseteq found'["native"]
        BY <1>2, <3>1, InventoryOver DEF LastInventory, Walks
      <3> QED BY <2>1, <3>1, <3>2, <3>3 DEF Reconciled
    <2>2. CASE at' # "candidates"
      BY <1>2, <2>2, InventoryOver DEF Reconciled
    <2> QED BY <2>1, <2>2
  <1>3. CASE (SourcesEnd \/ EvidenceEnds) /\ outcome' = "none"
    BY <1>3, NextWalk DEF Reconciled
  <1>4. CASE (LookRaises \/ SourcesEnd \/ CandidatesEnd) /\ outcome' # "none"
    BY <1>4, LoadOver DEF Reconciled, Agree, Labels
  <1>5. CASE \E g \in Files : Edit(g)
    BY <1>5 DEF Edit, Reconciled, Agree, Labels
  <1>6. CASE UNCHANGED vars
    BY <1>6 DEF vars, Reconciled, Agree, Labels
  <1> QED BY <1>1, <1>2, <1>3, <1>4, <1>5, <1>6, StepKinds

LEMMA InitScope == Init => ScopeInv
  <1> SUFFICES ASSUME Init PROVE ScopeInv
    OBVIOUS
  <1>1. Typed
    BY InitTyped
  <1>2. FoundRight /\ Reconciled
    BY ScopeAssumption DEF Init, FoundRight, Reconciled, Walks
  <1>3. StoodFound
    BY FilesCounted DEF Init, StoodFound, Looked, Before, Ordinary
  <1> QED BY <1>1, <1>2, <1>3 DEF ScopeInv

LEMMA ScopeStep == ScopeInv /\ [Next]_vars => ScopeInv'
  BY StepTyped, RightStep, StoodStep, ReconciledStep DEF ScopeInv

LEMMA ScopeInvariant == Spec => []ScopeInv
  BY InitScope, ScopeStep, PTL DEF Spec
------------------------------------------------------------------------------
(***************************************************************************)
(* The labels of a file and its places.                                    *)
(***************************************************************************)
Claimed(f) == {m \in Modules : f \in inventory[m]}
Listed(f) == {w \in {"tests", "excluded"} : f \in found[w]}

LEMMA SmallSets ==
  ASSUME NEW f, NEW P \in SUBSET Modules, NEW W \in SUBSET {"tests", "excluded"}
  PROVE  /\ IsFiniteSet(P) /\ Cardinality(P) \in Nat
         /\ IsFiniteSet(W) /\ Cardinality(W) \in Nat
  <1>1. IsFiniteSet(P)
    BY FS_Subset, ScopeAssumption
  <1>2. IsFiniteSet({"tests"} \cup {"excluded"})
    BY FS_Singleton, FS_Union
  <1>3. IsFiniteSet(W)
    BY <1>2, FS_Subset, W \subseteq {"tests"} \cup {"excluded"}
  <1> QED BY <1>1, <1>3, FS_CardinalityType

LEMMA LabelsAre ==
  ASSUME NEW f
  PROVE  /\ Labels(f) = Cardinality(Claimed(f)) + Cardinality(Listed(f))
         /\ IsFiniteSet(Claimed(f)) /\ Cardinality(Claimed(f)) \in Nat
         /\ IsFiniteSet(Listed(f)) /\ Cardinality(Listed(f)) \in Nat
  BY SmallSets DEF Labels, Claimed, Listed

\* Two sets that have one element together.
LEMMA OneTogether ==
  ASSUME NEW P, NEW W, IsFiniteSet(P), IsFiniteSet(W), Cardinality(P) + Cardinality(W) <= 1
  PROVE  /\ \A p \in P : P = {p} /\ W = {}
         /\ Cardinality(P) + Cardinality(W) = 1 /\ W = {} => P # {}
  <1>1. Cardinality(P) \in Nat /\ Cardinality(W) \in Nat
    BY FS_CardinalityType
  <1>2. (P = {} <=> Cardinality(P) = 0) /\ (W = {} <=> Cardinality(W) = 0)
    BY FS_EmptySet
  <1>3. Cardinality(P) = 1 => \E p : P = {p}
    BY FS_Singleton
  <1> QED BY <1>1, <1>2, <1>3

LEMMA PlacesAreLabels ==
  ASSUME ScopeInv, outcome = "accepted", NEW f \in Ordinary
  PROVE  /\ f \in present \ touched =>
              f \in found["native"] /\ kind[f].prod \subseteq Claimed(f) /\ Evidence(f) \subseteq Listed(f)
         /\ ~Linked(f) => Claimed(f) \subseteq kind[f].prod
         /\ Listed(f) \subseteq Evidence(f)
         /\ kind[f].prod \subseteq Modules /\ f \in Files
  <1> USE DEF ScopeInv
  <1>0. f \in Files /\ kind[f].prod \subseteq Modules
    BY DEF Ordinary, Typed, Kind
  <1>1. ASSUME f \in present \ touched
        PROVE  f \in found["native"] /\ kind[f].prod \subseteq Claimed(f) /\ Evidence(f) \subseteq Listed(f)
    <2>1. todo = {} /\ \A w \in {"sources", "tests", "excluded", "native"} : Looked(w, f)
      BY DEF Reconciled, Looked, Before
    <2> QED BY <1>0, <1>1, <2>1 DEF StoodFound, Claimed, Evidence, Listed
  <1>2. ASSUME ~Linked(f)
        PROVE  Claimed(f) \subseteq kind[f].prod
    <2>1. \A g \in Files : Target(g) = f => g = f
      BY <1>2 DEF Linked, Target
    <2> QED BY <2>1 DEF FoundRight, Claimed
  <1>3. Listed(f) \subseteq Evidence(f)
    BY DEF FoundRight, Listed, Evidence
  <1> QED BY <1>0, <1>1, <1>2, <1>3

(***************************************************************************)
(* Files that come and go while the project is loaded cannot put a file    *)
(* that stays into the wrong scope: in a project that is accepted it has   *)
(* one place, whatever the walks saw of the others, and the sources that   *)
(* were listed first are complete for it (_verify_project_scope,           *)
(* _classify_source).                                                      *)
(***************************************************************************)
THEOREM ScopesRight == Spec => []AcceptedScope
  <1>1. ScopeInv => AcceptedScope
    <2> SUFFICES ASSUME ScopeInv, outcome = "accepted", NEW f \in Ordinary
                 PROVE  LET stood == f \in present \ touched IN
                        /\ stood => Places(f) <= 1 /\ (Linked(f) \/ Places(f) = 1)
                        /\ stood /\ f \in found["sources"] => OnlySelected(f)
                        /\ OnlySelected(f) /\ (stood \/ (f \in found["native"] /\ ~Linked(f))) =>
                             f \in found["sources"]
      BY DEF AcceptedScope
    <2>0. /\ f \in found["native"] => Labels(f) = 1
          /\ found["sources"] = inventory[Selected] /\ Selected \in Modules
          /\ f \in found["sources"] => Selected \in kind[f].prod
      BY ScopeAssumption DEF ScopeInv, Reconciled, Agree, FoundRight
    <2>1. /\ IsFiniteSet(kind[f].prod) /\ Cardinality(kind[f].prod) \in Nat
          /\ IsFiniteSet(Evidence(f)) /\ Cardinality(Evidence(f)) \in Nat
      BY SmallSets, PlacesAreLabels DEF Evidence
    <2>2. ASSUME f \in present \ touched
          PROVE  Places(f) <= 1 /\ (Linked(f) \/ Places(f) = 1)
      <3>1. Labels(f) = 1
        BY <2>0, <2>2, PlacesAreLabels
      <3>2. Cardinality(kind[f].prod) <= Cardinality(Claimed(f))
        BY <2>2, PlacesAreLabels, LabelsAre, FS_Subset
      <3>3. Cardinality(Evidence(f)) <= Cardinality(Listed(f))
        BY <2>2, PlacesAreLabels, LabelsAre, FS_Subset
      <3>4. ~Linked(f) => kind[f].prod = Claimed(f) /\ Evidence(f) = Listed(f)
        BY <2>2, PlacesAreLabels
      <3> QED BY <2>1, <3>1, <3>2, <3>3, <3>4, LabelsAre DEF Places
    <2>3. ASSUME f \in present \ touched, f \in found["sources"]
          PROVE  OnlySelected(f)
      BY <2>0, <2>1, <2>2, <2>3, OneTogether DEF Places, OnlySelected
    <2>4. ASSUME OnlySelected(f), f \in present \ touched
          PROVE  f \in found["sources"]
      BY <2>0, <2>4, PlacesAreLabels DEF OnlySelected, Claimed
    <2>5. ASSUME OnlySelected(f), f \in found["native"], ~Linked(f)
          PROVE  f \in found["sources"]
      <3>1. Listed(f) = {} /\ Claimed(f) \subseteq {Selected}
        BY <2>5, PlacesAreLabels DEF OnlySelected
      <3>2. Claimed(f) # {}
        BY <2>0, <2>5, <3>1, LabelsAre, OneTogether
      <3> QED BY <2>0, <3>1, <3>2 DEF Claimed
    <2> QED BY <2>2, <2>3, <2>4, <2>5
  <1> QED BY ScopeInvariant, <1>1, PTL
------------------------------------------------------------------------------
(***************************************************************************)
(* A tree that nobody edits.                                               *)
(***************************************************************************)
LEMMA SameTree ==
  ASSUME Typed, [Next]_vars, edits' = 0
  PROVE  /\ edits = 0 /\ kind' = kind /\ present' = present /\ ~(\E f \in Files : Edit(f))
         /\ \A f : Target(f)' = Target(f)
         /\ \A w \in Walks \ {"inventory"}, f \in Files :
              (Finds(w, f)' <=> Finds(w, f)) /\ (Raises(w, f)' <=> Raises(w, f))
         /\ \A m \in Modules, f \in Files : Produces(m, f)' <=> Produces(m, f)
  <1>1. ~(\E f \in Files : Edit(f))
    BY DEF Edit, Typed, TypeOK
  <1>2. edits' = edits /\ present' = present /\ kind' = kind
    BY <1>1, StepKinds, LookFinds, NextWalk, InventoryOver, LoadOver DEF vars, tree
  <1>3. /\ \A w \in Walks \ {"inventory"}, f \in Files :
             (Finds(w, f)' <=> Finds(w, f)) /\ (Raises(w, f)' <=> Raises(w, f))
        /\ \A m \in Modules, f \in Files : Produces(m, f)' <=> Produces(m, f)
    BY <1>2 DEF Finds, Raises, Follows, IsFile, IsSource, IsExcluded, Target, Link, Produces
  <1> QED BY <1>1, <1>2, <1>3 DEF Target, Link

\* What a walk has looked at before and after a step.
LEMMA LookedStep ==
  ASSUME Typed, [Next]_vars, NEW w \in Walks \ {"inventory"}, NEW g \in Files
  PROVE  Looked(w, g)' <=> Looked(w, g) \/ (Look /\ w = at /\ g = next)
  <1>0. g \in Nat /\ ~(g < 1) /\ next \in Nat /\ at \notin Before(at)
    BY FilesCounted DEF Typed, TypeOK, Before
  <1>1. CASE Look
    BY <1>0, <1>1, LookFinds, FilesCounted DEF Looked
  <1>2. CASE InventoryEnds
    <2>1. g < next /\ at = "inventory" /\ next \notin Files
      BY <1>2, WalkOver, InventoryOver
    <2>2. \/ at' = "inventory"
          \/ at' = "candidates" /\ next' = 1
      BY <1>2, InventoryOver
    <2> QED BY <1>0, <2>1, <2>2, LookFinds DEF Looked, Before, Walks
  <1>3. CASE (SourcesEnd \/ EvidenceEnds) /\ outcome' = "none"
    <2>1. g < next /\ next \notin Files
      BY <1>3, WalkOver, NextWalk
    <2> QED BY <1>0, <1>3, <2>1, NextWalk, LookFinds DEF Looked
  <1>4. CASE (LookRaises \/ SourcesEnd \/ CandidatesEnd) /\ outcome' # "none"
    BY <1>4, LoadOver, LookFinds DEF Looked
  <1>5. CASE (\E f \in Files : Edit(f)) \/ UNCHANGED vars
    <2>1. at' = at /\ next' = next
      BY <1>5 DEF Edit, vars
    <2>2. ~Look
      BY <1>0, <2>1 DEF Look
    <2> QED BY <2>1, <2>2 DEF Looked
  <1> QED BY <1>1, <1>2, <1>3, <1>4, <1>5, StepKinds

LEMMA ExactStep ==
  ASSUME Typed, ExactlyFound, [Next]_vars, edits' = 0
  PROVE  ExactlyFound'
  <1>0. /\ \A w \in Walks \ {"inventory"} : \A x \in Files :
             x \in found[w] <=> \E g \in Files : Looked(w, g) /\ Finds(w, g) /\ Target(g) = x
        /\ \A w \in Walks \ {"inventory"}, f \in Files : Looked(w, f) => ~Raises(w, f)
    BY DEF ExactlyFound
  <1>1. ASSUME NEW w \in Walks \ {"inventory"}, NEW x \in Files
        PROVE  x \in found'[w] <=> \E g \in Files : Looked(w, g)' /\ Finds(w, g)' /\ Target(g)' = x
    <2>1. CASE Look /\ w = at
      <3>1. /\ next \in Files
            /\ found'[w] = IF Finds(w, next) THEN found[w] \cup {Target(next)} ELSE found[w]
        BY <2>1, LookFinds
      <3> QED BY <1>0, <2>1, <3>1, SameTree, LookedStep
    <2>2. CASE ~(Look /\ w = at)
      <3>1. found'[w] = found[w]
        BY <2>2, StepKinds, LookFinds, NextWalk, InventoryOver, LoadOver, SameTree DEF vars
      <3> QED BY <1>0, <2>2, <3>1, SameTree, LookedStep
    <2> QED BY <2>1, <2>2
  <1>2. ASSUME NEW w \in Walks \ {"inventory"}, NEW f \in Files, Looked(w, f)'
        PROVE  ~Raises(w, f)'
    <2>1. CASE Looked(w, f)
      BY <1>0, <2>1, SameTree
    <2>2. CASE Look /\ w = at /\ f = next
      BY <2>2, SameTree, LookFinds
    <2> QED BY <1>2, <2>1, <2>2, LookedStep
  <1>3. ASSUME at' = "inventory", outcome' = "none", NEW x \in Files
        PROVE  x \in found'["inventory"] <=>
                 \E g \in Files : g < next' /\ Produces(Module, g)' /\ Target(g)' = x
    <2>0. \A g \in Files : ~(g < 1) /\ g \in Nat
      BY FilesCounted
    <2>1. CASE Look
      <3>1. /\ next \in Files /\ next' = next + 1 /\ Module' = Module /\ outcome = "none"
            /\ found'["inventory"] = IF Finds("inventory", next)
                 THEN found["inventory"] \cup {Target(next)} ELSE found["inventory"]
            /\ \A y \in Files : y \in found["inventory"] <=>
                 \E g \in Files : g < next /\ Produces(Module, g) /\ Target(g) = y
        BY <1>3, <2>1, LookFinds DEF ExactlyFound
      <3>2. \A g \in Files : Finds("inventory", g) <=> Produces(Module, g)
        BY DEF Finds, Follows, Produces
      <3>3. \A g \in Files : g < next' <=> g < next \/ g = next
        BY <2>0, <3>1
      <3>4. \A g \in Files : Produces(Module, g)' <=> Produces(Module, g)
        BY <3>1, SameTree DEF Produces, IsFile, Target, Link
      <3> QED BY <3>1, <3>2, <3>3, <3>4, SameTree
    <2>2. CASE InventoryEnds
      BY <1>3, <2>0, <2>2, InventoryOver
    <2>3. CASE (SourcesEnd \/ EvidenceEnds) /\ outcome' = "none"
      BY <1>3, <2>0, <2>3, NextWalk DEF ExactlyFound, Walks, Before
    <2>4. CASE UNCHANGED vars
      <3>1. Module' = Module /\ UNCHANGED <<at, outcome, found, next>>
        BY <2>4, SameModule DEF vars
      <3>2. \A g \in Files : Produces(Module, g)' <=> Produces(Module, g)
        BY <3>1, SameTree DEF Produces, IsFile, Target, Link
      <3> QED BY <1>3, <3>1, <3>2, SameTree DEF ExactlyFound
    <2> QED BY <1>3, <2>1, <2>2, <2>3, <2>4, StepKinds, SameTree
  <1>4. at' \in Before("inventory") => found'["inventory"] = {}
    BY StepKinds, LookFinds, NextWalk, InventoryOver, LoadOver, SameTree
    DEF ExactlyFound, vars, Before, Walks
  <1>5. ASSUME NEW m \in Modules, NEW x \in Files
        PROVE  x \in inventory'[m] <=>
                 m \notin todo' /\ \E g \in Files : Produces(m, g)' /\ Target(g)' = x
    <2>1. CASE InventoryEnds /\ m = Module
      <3>1. inventory'[m] = found["inventory"] /\ m \notin todo' /\ at = "inventory" /\ outcome = "none"
        BY <2>1, InventoryOver
      <3>2. \A g \in Files : g < next
        BY <2>1, InventoryOver, WalkOver
      <3> QED BY <2>1, <3>1, <3>2, SameTree DEF ExactlyFound
    <2>2. CASE ~(InventoryEnds /\ m = Module)
      <3>1. inventory'[m] = inventory[m] /\ (m \in todo' <=> m \in todo)
        BY <2>2, StepKinds, LookFinds, NextWalk, InventoryOver, LoadOver, SameTree DEF vars
      <3> QED BY <3>1, SameTree DEF ExactlyFound
    <2> QED BY <2>1, <2>2
  <1> QED BY <1>1, <1>2, <1>3, <1>4, <1>5 DEF ExactlyFound
------------------------------------------------------------------------------
(***************************************************************************)
(* What the lists hold when the walks are over, in the words of the tree.  *)
(***************************************************************************)
\* What a path leads to is judged unless it is in a directory of a tool.
LEMMA TargetsJudged ==
  ASSUME Typed, NEW g \in Files, NEW x \in Files, Target(g) = x
  PROVE  IsFile(g) /\ ~kind[x].owned <=> g \in present /\ x \in Judged
  BY ScopeAssumption
  DEF Typed, TypeOK, LinksFlat, IsFile, Judged, Ordinary, Target, Link

LEMMA OwnersAre ==
  ASSUME Typed, NEW x \in Files
  PROVE  /\ Owners(x) \subseteq Modules
         /\ \A m : m \in Owners(x) <=>
              \E g \in Files : g \in present /\ m \in kind[g].prod /\ Target(g) = x
  BY DEF Owners, Typed, TypeOK, Kind

LEMMA ListsAre ==
  ASSUME Typed, ExactlyFound, NEW x \in Files
  PROVE  /\ (\A g \in Files : Looked("sources", g)) =>
              (x \in found["sources"] <=> x \in Judged /\ Selected \in kind[x].prod)
         /\ (\A g \in Files : Looked("tests", g)) =>
              (x \in found["tests"] <=> x \in present /\ ~Link(x) /\ kind[x].test = "match")
         /\ (\A g \in Files : Looked("excluded", g)) =>
              (x \in found["excluded"] <=> x \in Judged /\ kind[x].excl)
         /\ (\A g \in Files : Looked("native", g)) => (x \in found["native"] <=> x \in Judged)
         /\ (\A g \in Files : Looked("candidates", g)) =>
              (x \in found["candidates"] <=>
                 \E g \in Files : IsFile(g) /\ kind[g].test = "match" /\ Target(g) = x)
         /\ \A m \in Modules \ todo : x \in inventory[m] <=> x \in Judged /\ m \in Owners(x)
  <1>0. /\ \A w \in Walks \ {"inventory"} :
             x \in found[w] <=> \E g \in Files : Looked(w, g) /\ Finds(w, g) /\ Target(g) = x
        /\ \A w \in Walks \ {"inventory"}, g \in Files : Looked(w, g) => ~Raises(w, g)
    BY DEF ExactlyFound
  <1>1. ASSUME \A g \in Files : Looked("sources", g)
        PROVE  x \in found["sources"] <=> x \in Judged /\ Selected \in kind[x].prod
    BY <1>0, <1>1 DEF Walks, Raises, Finds, IsSource, Judged, Ordinary, Target, Follows
  <1>2. ASSUME \A g \in Files : Looked("tests", g)
        PROVE  x \in found["tests"] <=> x \in present /\ ~Link(x) /\ kind[x].test = "match"
    <2>1. \A g \in Files : g \in present /\ kind[g].test # "no" => ~Link(g)
      BY <1>0, <1>2 DEF Walks, Raises
    <2>2. \A g \in Files : Finds("tests", g) <=> g \in present /\ kind[g].test = "match"
      BY DEF Finds, Follows
    <2>3. \A g \in Files : Finds("tests", g) => Target(g) = g /\ ~Link(g)
      BY <2>1, <2>2 DEF Target
    <2>4. ~Link(x) => Target(x) = x
      BY DEF Target
    <2> QED BY <1>0, <1>2, <2>2, <2>3, <2>4 DEF Walks
  <1>3. ASSUME \A g \in Files : Looked("excluded", g)
        PROVE  x \in found["excluded"] <=> x \in Judged /\ kind[x].excl
    BY <1>0, <1>3 DEF Walks, Finds, IsExcluded, Judged, Ordinary, Target, Follows
  <1>4. ASSUME \A g \in Files : Looked("native", g)
        PROVE  x \in found["native"] <=> x \in Judged
    <2>1. \A g \in Files : Target(g) = x => (Finds("native", g) <=> g \in present /\ x \in Judged)
      BY TargetsJudged DEF Finds, Follows
    <2>2. x \in Judged => x \in present /\ Target(x) = x
      BY DEF Judged, Ordinary, Target
    <2> QED BY <1>0, <1>4, <2>1, <2>2 DEF Walks
  <1>5. ASSUME \A g \in Files : Looked("candidates", g)
        PROVE  x \in found["candidates"] <=>
                 \E g \in Files : IsFile(g) /\ kind[g].test = "match" /\ Target(g) = x
    BY <1>0, <1>5 DEF Walks, Finds, Follows
  <1>6. ASSUME NEW m \in Modules \ todo
        PROVE  x \in inventory[m] <=> x \in Judged /\ m \in Owners(x)
    <2>1. x \in inventory[m] <=> \E g \in Files : Produces(m, g) /\ Target(g) = x
      BY DEF ExactlyFound
    <2>2. \A g \in Files : Target(g) = x =>
            (Produces(m, g) <=> g \in present /\ x \in Judged /\ m \in kind[g].prod)
      BY TargetsJudged DEF Produces
    <2> QED BY <2>1, <2>2, OwnersAre
  <1> QED BY <1>1, <1>2, <1>3, <1>4, <1>5, <1>6

\* In a tidy tree no walk meets anything it refuses.
LEMMA TidyNeverRaises ==
  ASSUME Typed, Tidy, NEW w \in Walks, NEW f \in Files
  PROVE  ~Raises(w, f)
  <1>1. Follows(w, f) => Target(f) # Outside
    BY ScopeAssumption DEF Tidy, Follows, IsFile, Target
  <1> QED BY <1>1 DEF Raises, Tidy, IsSource

\* What a tidy tree says of the lists.
LEMMA TidyLists ==
  ASSUME Typed, ExactlyFound, Tidy, next \notin Files, at \notin {"inventory", "candidates"}
  PROVE  at = "sources" => found["sources"] # {}
  <1>1. PICK f \in Judged : Selected \in Owners(f)
    BY ScopeAssumption DEF Tidy
  <1>2. f \in Files /\ Selected \in kind[f].prod
    BY <1>1 DEF Tidy, Judged, Ordinary
  <1>3. at = "sources" => \A g \in Files : Looked("sources", g)
    BY WalkOver DEF Looked
  <1> QED BY <1>1, <1>2, <1>3, ListsAre

LEMMA TidyInventories ==
  ASSUME ScopeInv, ExactlyFound, Tidy, InventoryEnds
  PROVE  outcome' # "refused"
  <1> USE DEF ScopeInv
  <1>1. /\ at = "inventory" /\ outcome = "none" /\ todo # {} /\ \A g \in Files : g < next
        /\ \A w \in Before("inventory"), g \in Files : Looked(w, g)
    BY InventoryOver, WalkOver DEF Reconciled, Looked
  <1>2. /\ \A w \in Walks : found[w] \subseteq Files
        /\ \A x \in Files : x \in found["inventory"] <=>
             \E g \in Files : Produces(Module, g) /\ Target(g) = x
    BY <1>1 DEF ExactlyFound, Typed, TypeOK
  <1>3. \A x \in Files :
          /\ x \in found["native"] <=> x \in Judged
          /\ x \in found["tests"] <=> x \in present /\ ~Link(x) /\ kind[x].test = "match"
          /\ x \in found["excluded"] <=> x \in Judged /\ kind[x].excl
    BY <1>1, ListsAre DEF Before
  <1>4. found["inventory"] \subseteq found["native"]
    BY <1>2, <1>3, TargetsJudged DEF Produces, Walks
  <1>5. ASSUME todo' = {}
        PROVE  LastInventory(found["inventory"])
    <2>1. todo = {Module} /\ Module \in Modules
      BY <1>1, <1>5, InventoryOver DEF Typed, TypeOK
    <2>2. ASSUME NEW m \in Modules
          PROVE  \E f \in Files : f \in Judged /\ m \in Owners(f)
      BY DEF Tidy, Judged, Ordinary
    <2>3. found["inventory"] # {}
      <3>1. PICK f \in Files : f \in Judged /\ Module \in Owners(f)
        BY <2>1, <2>2
      <3>2. PICK g \in Files : g \in present /\ Module \in kind[g].prod /\ Target(g) = f
        BY <3>1, OwnersAre
      <3>3. Produces(Module, g)
        BY <3>1, <3>2, TargetsJudged DEF Produces
      <3> QED BY <1>2, <3>2, <3>3
    <2>4. \A m \in Modules \ {Module} : inventory[m] # {}
      BY <2>1, <2>2, ListsAre
    <2>5. found["tests"] \cup found["excluded"] \subseteq found["native"]
      <3>1. \A x \in Files : x \in present /\ ~Link(x) /\ kind[x].test = "match" => x \in Judged
        BY DEF Tidy, Judged, Ordinary
      <3> QED BY <1>2, <1>3, <3>1 DEF Walks
    <2> QED BY <2>3, <2>4, <2>5 DEF LastInventory
  <1> QED BY <1>4, <1>5, InventoryOver

\* The last comparison decides whether the tree is tidy.
LEMMA AgreeIsTidy ==
  ASSUME ScopeInv, ExactlyFound, at = "candidates", next \notin Files
  PROVE  Agree <=> Tidy
  <1> USE DEF ScopeInv
  <1>1. /\ todo = {} /\ \A m \in Modules : inventory[m] # {}
        /\ found["tests"] \cup found["excluded"] \subseteq found["native"]
        /\ \A w \in Walks \ {"inventory"}, g \in Files : Looked(w, g)
    BY WalkOver DEF Reconciled, Looked, Before, Walks
  <1>2. /\ \A w \in Walks : found[w] \subseteq Files
        /\ \A m \in Modules : inventory[m] \subseteq Files
        /\ Selected \in Modules
    BY ScopeAssumption DEF Typed, TypeOK
  <1>3. \A x \in Files :
          /\ x \in found["sources"] <=> x \in Judged /\ Selected \in kind[x].prod
          /\ x \in found["tests"] <=> x \in present /\ ~Link(x) /\ kind[x].test = "match"
          /\ x \in found["excluded"] <=> x \in Judged /\ kind[x].excl
          /\ x \in found["native"] <=> x \in Judged
          /\ x \in found["candidates"] <=>
               \E g \in Files : IsFile(g) /\ kind[g].test = "match" /\ Target(g) = x
          /\ \A m \in Modules : x \in inventory[m] <=> x \in Judged /\ m \in Owners(x)
    BY <1>1, ListsAre DEF Walks
  <1>4. \A w \in Walks \ {"inventory"}, f \in Files : ~Raises(w, f)
    BY <1>1 DEF ExactlyFound
  <1>5. ASSUME NEW x \in Files, x \in Judged
        PROVE  Labels(x) = Cardinality(Owners(x)) + Cardinality(Evidence(x))
    <2>1. Claimed(x) = Owners(x)
      BY <1>3, <1>5, OwnersAre DEF Claimed
    <2>2. Listed(x) = Evidence(x)
      BY <1>3, <1>5 DEF Listed, Evidence, Judged, Ordinary
    <2> QED BY <2>1, <2>2, LabelsAre
  <1>6. ASSUME Tidy
        PROVE  Agree
    <2>1. \A x \in Files : x \in found["candidates"] <=> x \in found["tests"]
      <3>1. \A g \in Files : IsFile(g) /\ kind[g].test = "match" => ~Link(g)
        BY <1>6 DEF Tidy, IsFile
      <3>2. \A g \in Files : ~Link(g) => Target(g) = g /\ (IsFile(g) <=> g \in present)
        BY DEF Target, IsFile
      <3> QED BY <1>3, <3>1, <3>2
    <2>2. found["candidates"] = found["tests"]
      BY <1>2, <2>1 DEF Walks
    <2>3. \A f \in found["native"] : Labels(f) = 1
      BY <1>2, <1>3, <1>5, <1>6 DEF Tidy, Walks
    <2>4. \A x \in Files : x \in found["sources"] <=> x \in inventory[Selected]
      <3>1. \A x \in Files : x \in Judged /\ Selected \in kind[x].prod => Selected \in Owners(x)
        BY OwnersAre DEF Judged, Ordinary, Target
      <3> QED BY <1>2, <1>3, <1>6, <3>1 DEF Tidy
    <2>5. found["sources"] = inventory[Selected]
      BY <1>2, <2>4 DEF Walks
    <2> QED BY <1>1, <2>2, <2>3, <2>5 DEF Agree
  <1>7. ASSUME Agree
        PROVE  Tidy
    <2>0. present \subseteq Files /\ Judged \subseteq Files
      BY DEF Typed, TypeOK, Judged, Ordinary
    <2>1. \A f \in present : kind[f].link # Outside
      <3>1. ASSUME NEW f \in present, kind[f].link = Outside
            PROVE  FALSE
        <4>1. Follows("native", f) /\ Target(f) = Outside
          BY <3>1, ScopeAssumption DEF Follows, IsFile, Target, Link
        <4> QED BY <1>4, <2>0, <4>1 DEF Raises, Walks
      <3> QED BY <3>1
    <2>2. \A f \in present : Link(f) =>
            kind[f].test = "no" /\ (Selected \in kind[f].prod => kind[f].owned)
      BY <1>4, <2>0 DEF Raises, IsSource, Walks
    <2>3. \A f \in present : kind[f].owned /\ ~Link(f) => kind[f].test # "match"
      BY <1>1, <1>3, <2>0 DEF Judged, Ordinary
    <2>4. \A m \in Modules : \E f \in Judged : m \in Owners(f)
      BY <1>1, <1>2, <1>3
    <2>5. \A f \in Judged : Cardinality(Owners(f)) + Cardinality(Evidence(f)) = 1
      BY <1>3, <1>5, <1>7, <2>0 DEF Agree
    <2>6. \A f \in Judged : Selected \in Owners(f) => Selected \in kind[f].prod
      BY <1>2, <1>3, <1>7, <2>0 DEF Agree
    <2> QED BY <2>1, <2>2, <2>3, <2>4, <2>5, <2>6 DEF Tidy
  <1> QED BY <1>6, <1>7

LEMMA TidyStep ==
  ASSUME ScopeInv, TidySoFar, [Next]_vars
  PROVE  TidySoFar'
  <1> USE DEF ScopeInv
  <1> SUFFICES ASSUME edits' = 0 PROVE ExactlyFound' /\ TidyIffAccepted'
    BY DEF TidySoFar
  <1>1. ExactlyFound /\ TidyIffAccepted /\ edits = 0
    BY SameTree DEF TidySoFar
  <1>2. ExactlyFound'
    BY <1>1, ExactStep
  <1> SUFFICES TidyIffAccepted'
    BY <1>2
  <1>3. Tidy' <=> Tidy
    BY SameTree DEF Tidy, Judged, Ordinary, Owners, Evidence, Link, Target
  <1>4. CASE outcome' = "none"
    BY <1>4 DEF TidyIffAccepted
  <1>5. CASE UNCHANGED outcome
    BY <1>1, <1>3, <1>5 DEF TidyIffAccepted
  <1>6. CASE InventoryEnds
    BY <1>1, <1>3, <1>4, <1>6, TidyInventories, InventoryOver DEF TidyIffAccepted
  <1>7. CASE LookRaises
    <2>1. ~Tidy /\ outcome' = "refused"
      BY <1>7, TidyNeverRaises DEF LookRaises, Refuse, Typed, TypeOK
    <2> QED BY <1>3, <2>1 DEF TidyIffAccepted
  <1>8. CASE SourcesEnd /\ outcome' # "none"
    <2>1. ~Tidy /\ outcome' = "refused"
      BY <1>1, <1>8, TidyLists DEF SourcesEnd, WalkEnds, Refuse
    <2> QED BY <1>3, <2>1 DEF TidyIffAccepted
  <1>9. CASE CandidatesEnd
    <2>1. at = "candidates" /\ next \notin Files /\ outcome' = IF Agree THEN "accepted" ELSE "refused"
      BY <1>9 DEF CandidatesEnd, WalkEnds
    <2> QED BY <1>1, <1>3, <2>1, AgreeIsTidy DEF TidyIffAccepted
  <1>10. CASE Look \/ ((SourcesEnd \/ EvidenceEnds) /\ outcome' = "none") \/ UNCHANGED vars
    BY <1>4, <1>5, <1>10, LookFinds DEF vars
  <1> QED
    BY <1>6, <1>7, <1>8, <1>9, <1>10, StepKinds, SameTree

(***************************************************************************)
(* A project that nobody edits while it is loaded is accepted exactly if   *)
(* its tree is tidy: for any number of files and modules, any links and    *)
(* any overlap of the patterns the six walks and the four comparisons say  *)
(* the same as one reading of the tree (load_project,                      *)
(* classify_python_scope).                                                 *)
(***************************************************************************)
THEOREM AcceptsTidyTrees == Spec => []TidyIffAccepted
  <1>1. Init => TidySoFar
    <2> SUFFICES ASSUME Init PROVE TidySoFar
      OBVIOUS
    <2>1. ExactlyFound
      BY FilesCounted DEF Init, ExactlyFound, Looked, Before, Walks
    <2> QED BY <2>1 DEF Init, TidySoFar, TidyIffAccepted
  <1>2. ScopeInv /\ TidySoFar /\ [Next]_vars => TidySoFar'
    BY TidyStep
  <1>3. TidySoFar => TidyIffAccepted
    BY DEF TidySoFar, TidyIffAccepted
  <1> QED BY ScopeInvariant, <1>1, <1>2, <1>3, PTL DEF Spec
===============================================================================
