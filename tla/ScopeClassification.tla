------------------------- MODULE ScopeClassification -------------------------
(***************************************************************************)
(* How a project is loaded (config/loader.py, config/scope.py): the tree   *)
(* is walked for the sources of the selected module, for the tests, for    *)
(* the excluded files, for every Python file, for the production files of  *)
(* each module and for the tests again, and the results are reconciled.    *)
(* Nothing locks the tree: files come and go between any two looks.        *)
(*                                                                         *)
(* A file stands for its path and what the configuration says of it. Links *)
(* to files are modelled, links to directories are not. A walk looks at    *)
(* the files in the order of their numbers; what a path is does not depend *)
(* on its number, so the order is no restriction.                          *)
(***************************************************************************)
EXTENDS Integers, FiniteSets

CONSTANTS
  Files,     \* the paths of Python files
  Modules,   \* the configured modules, in the order of their numbers
  Selected,  \* the module that is loaded
  Kinds,     \* Kinds[f]: what path f may be
  MaxEdits,  \* how often a file is created or deleted during the load
  Outside,   \* the target of a link that leaves the project
  None       \* the target of a file that is no link

Kind ==
  [prod  : SUBSET Modules,              \* whose production patterns match
   test  : {"no", "below", "match"},    \* below a test root, matching its patterns
   excl  : BOOLEAN,                     \* matched by an excluded pattern
   owned : BOOLEAN,                     \* in a directory of a tool
   link  : Files \cup {Outside, None}]

ASSUME ScopeAssumption ==
  /\ IsFiniteSet(Files) /\ Files = 1..Cardinality(Files)
  /\ Modules \subseteq Nat /\ IsFiniteSet(Modules) /\ Selected \in Modules
  /\ Kinds \in [Files -> SUBSET Kind]
  /\ MaxEdits \in Nat
  /\ {Outside, None} \cap Files = {} /\ Outside # None

VARIABLES
  kind,       \* kind[f]: what path f is
  present,    \* the paths that exist
  at,         \* the walk in progress
  next,       \* the file it looks at next
  found,      \* found[w]: what walk w has found
  inventory,  \* inventory[m]: the production files of module m
  todo,       \* the modules without an inventory
  outcome,    \* what load_project did
  edits,      \* edits so far
  touched     \* the files that were created or deleted during the load

tree == <<kind, present>>
vars == <<kind, present, at, next, found, inventory, todo, outcome, edits, touched>>

Walks == {"sources", "tests", "excluded", "native", "inventory", "candidates"}

Link(f) == kind[f].link # None

\* What resolve() makes of a path.
Target(f) == IF Link(f) THEN kind[f].link ELSE f

IsFile(f) == f \in present /\ Target(f) \in present \cup {Outside}

Init ==
  /\ kind \in [Files -> UNION {Kinds[f] : f \in Files}]
  /\ \A f \in Files : kind[f] \in Kinds[f]
  /\ \A f \in Files : kind[f].link \in Files => ~Link(kind[f].link)
  /\ present \in SUBSET Files
  /\ at = "sources" /\ next = 1
  /\ found = [w \in Walks |-> {}]
  /\ inventory = [m \in Modules |-> {}] /\ todo = Modules
  /\ outcome = "none"
  /\ edits = 0 /\ touched = {}
------------------------------------------------------------------------------
(***************************************************************************)
(* The walks. Two of them look at the path alone: a link among the sources *)
(* or below a test root is refused and an excluded link is left out. The   *)
(* others follow links and judge the target.                               *)
(***************************************************************************)
Module == CHOOSE m \in todo : \A n \in todo : m <= n

IsSource(f) == f \in present /\ Selected \in kind[f].prod /\ ~kind[f].owned

IsExcluded(f) == f \in present /\ kind[f].excl /\ ~Link(f) /\ ~kind[f].owned

\* Does walk w look at what path f resolves to?
Follows(w, f) ==
  /\ IsFile(f)
  /\ \/ w = "native"
     \/ w = "inventory" /\ Module \in kind[f].prod
     \/ w = "candidates" /\ kind[f].test = "match"

\* Mistake: a link is only refused where the sources are listed.
RaisesOnSource(w, f) ==
  \/ w = "sources" /\ IsSource(f) /\ Link(f)
  \/ Follows(w, f) /\ Target(f) = Outside

\* Mistake: where a test candidate leads to is not looked at.
RaisesOnProduction(w, f) ==
  \/ w = "sources" /\ IsSource(f) /\ Link(f)
  \/ w = "tests" /\ f \in present /\ kind[f].test # "no" /\ Link(f)
  \/ w # "candidates" /\ Follows(w, f) /\ Target(f) = Outside

Raises(w, f) ==
  \/ w = "sources" /\ IsSource(f) /\ Link(f)
  \/ w = "tests" /\ f \in present /\ kind[f].test # "no" /\ Link(f)
  \/ Follows(w, f) /\ Target(f) = Outside

\* The tests are the one walk that does not know the directories of tools.
Finds(w, f) ==
  \/ w = "sources" /\ IsSource(f)
  \/ w = "tests" /\ f \in present /\ kind[f].test = "match"
  \/ w = "excluded" /\ IsExcluded(f)
  \/ w = "candidates" /\ Follows(w, f)
  \/ w \in {"native", "inventory"} /\ Follows(w, f) /\ ~kind[Target(f)].owned

Refuse == outcome' = "refused"

Look ==
  /\ outcome = "none"
  /\ next \in Files
  /\ ~Raises(at, next)
  /\ found' = IF Finds(at, next) THEN [found EXCEPT ![at] = @ \cup {Target(next)}] ELSE found
  /\ next' = next + 1
  /\ UNCHANGED <<tree, at, inventory, todo, outcome, edits, touched>>

LookRaises ==
  /\ outcome = "none"
  /\ next \in Files
  /\ Raises(at, next)
  /\ Refuse
  /\ UNCHANGED <<tree, at, next, found, inventory, todo, edits, touched>>
------------------------------------------------------------------------------
(***************************************************************************)
(* The reconciliation. Every walk ends with the checks that follow it.     *)
(***************************************************************************)
WalkEnds(w) == outcome = "none" /\ at = w /\ next \notin Files

Begin(w) == at' = w /\ next' = 1

\* emptyProductionInventory.
SourcesEnd ==
  /\ WalkEnds("sources")
  /\ IF found["sources"] = {} THEN Refuse /\ UNCHANGED <<at, next>>
     ELSE Begin("tests") /\ UNCHANGED outcome
  /\ UNCHANGED <<tree, found, inventory, todo, edits, touched>>

EvidenceEnds ==
  /\ \/ WalkEnds("tests") /\ Begin("excluded")
     \/ WalkEnds("excluded") /\ Begin("native")
     \/ WalkEnds("native") /\ Begin("inventory")
  /\ UNCHANGED <<tree, found, inventory, todo, outcome, edits, touched>>

\* Only then are emptyProductionScope and invalidScopeEvidence checked.
LastInventory(files) ==
  /\ files # {} /\ \A m \in Modules \ {Module} : inventory[m] # {}
  /\ found["tests"] \cup found["excluded"] \subseteq found["native"]

InventoryEnds ==
  LET files == found["inventory"] IN
  /\ WalkEnds("inventory")
  /\ inventory' = [inventory EXCEPT ![Module] = files]
  /\ todo' = todo \ {Module}
  /\ found' = [found EXCEPT !["inventory"] = {}]
  /\ IF files \subseteq found["native"] /\ (todo' = {} => LastInventory(files))
     THEN Begin(IF todo' = {} THEN "candidates" ELSE "inventory") /\ UNCHANGED outcome
     ELSE Refuse /\ UNCHANGED <<at, next>>
  /\ UNCHANGED <<tree, edits, touched>>

\* The labels _classify_source counts for a file.
Labels(f) ==
  Cardinality({m \in Modules : f \in inventory[m]})
  + Cardinality({w \in {"tests", "excluded"} : f \in found[w]})

\* Mistake: the sources that were listed first are not compared.
AgreeOnTests ==
  /\ found["candidates"] \subseteq found["native"]
  /\ found["candidates"] = found["tests"]
  /\ \A f \in found["native"] : Labels(f) = 1

\* invalidTestScope, partialTestSelection, unclassifiedSource and
\* scopeOverlap, invalidProductionScope.
Agree ==
  /\ found["candidates"] \subseteq found["native"]
  /\ found["candidates"] = found["tests"]
  /\ \A f \in found["native"] : Labels(f) = 1
  /\ found["sources"] = inventory[Selected]

CandidatesEnd ==
  /\ WalkEnds("candidates")
  /\ outcome' = IF Agree THEN "accepted" ELSE "refused"
  /\ UNCHANGED <<tree, at, next, found, inventory, todo, edits, touched>>

\* An editor, a build or a checkout creates or deletes a file.
Edit(f) ==
  /\ outcome = "none"
  /\ edits < MaxEdits
  /\ present' = IF f \in present THEN present \ {f} ELSE present \cup {f}
  /\ edits' = edits + 1
  /\ touched' = touched \cup {f}
  /\ UNCHANGED <<kind, at, next, found, inventory, todo, outcome>>

Next ==
  \/ Look \/ LookRaises
  \/ SourcesEnd \/ EvidenceEnds \/ InventoryEnds \/ CandidatesEnd
  \/ \E f \in Files : Edit(f)

Spec == Init /\ [][Next]_vars
------------------------------------------------------------------------------
(***************************************************************************)
(* Type invariant. In particular what a walk finds is in the project.      *)
(***************************************************************************)
TypeOK ==
  /\ \A f \in Files : kind[f] \in Kinds[f]
  /\ present \subseteq Files
  /\ at \in Walks
  /\ next \in 1..(Cardinality(Files) + 1)
  /\ found \in [Walks -> SUBSET Files]
  /\ inventory \in [Modules -> SUBSET Files]
  /\ todo \subseteq Modules
  /\ outcome \in {"none", "accepted", "refused"}
  /\ edits \in 0..MaxEdits
  /\ touched \subseteq Files

Ordinary == {f \in Files : ~Link(f) /\ ~kind[f].owned}

\* What the configuration says of a file outside of production.
Evidence(f) ==
  {w \in {"tests", "excluded"} : IF w = "tests" THEN kind[f].test = "match" ELSE kind[f].excl}

Places(f) == Cardinality(kind[f].prod) + Cardinality(Evidence(f))

OnlySelected(f) == kind[f].prod = {Selected} /\ Evidence(f) = {}

\* A link makes its target production of the modules that match the link.
Linked(f) == \E g \in Files : kind[g].link = f

(***************************************************************************)
(* Whatever was created and deleted during the load: in a project that is  *)
(* accepted every file that was there all along has at most one place of   *)
(* its own, and exactly one if no link leads to it, a file among the       *)
(* sources that was there all along is production of the selected module   *)
(* and nothing else, and no production file of that module is missing from *)
(* the sources if it was there all along, or if the walk over the whole    *)
(* tree saw it and no link leads to it (_verify_project_scope,             *)
(* _classify_source).                                                      *)
(***************************************************************************)
AcceptedScope ==
  outcome = "accepted" =>
    \A f \in Ordinary :
      LET stood == f \in present \ touched IN
      /\ stood => Places(f) <= 1 /\ (Linked(f) \/ Places(f) = 1)
      /\ stood /\ f \in found["sources"] => OnlySelected(f)
      /\ OnlySelected(f) /\ (stood \/ (f \in found["native"] /\ ~Linked(f))) =>
           f \in found["sources"]

\* The files that are judged, and the modules whose patterns match them or a
\* link that leads to them.
Judged == present \cap Ordinary

Owners(f) == UNION {kind[g].prod : g \in {h \in present : Target(h) = f}}

(***************************************************************************)
(* A tidy tree, in the words of the user: no link leaves the project,      *)
(* none is a source of the selected module or lies below a test root, no   *)
(* test hides in a directory of a tool, every module has production files, *)
(* and each file has exactly one place. A link makes its target production *)
(* of the modules whose patterns match the link.                           *)
(***************************************************************************)
Tidy ==
  /\ \A f \in present : kind[f].link # Outside
  /\ \A f \in present : Link(f) =>
       kind[f].test = "no" /\ (Selected \in kind[f].prod => kind[f].owned)
  /\ \A f \in present : kind[f].owned /\ ~Link(f) => kind[f].test # "match"
  /\ \A m \in Modules : \E f \in Judged : m \in Owners(f)
  /\ \A f \in Judged : Cardinality(Owners(f)) + Cardinality(Evidence(f)) = 1
  /\ \A f \in Judged : Selected \in Owners(f) => Selected \in kind[f].prod

(***************************************************************************)
(* A project that nobody edits meanwhile is accepted exactly if its tree   *)
(* is tidy: the six walks agree with one reading of the tree, for links,   *)
(* directories of tools and overlapping patterns too (load_project).       *)
(***************************************************************************)
TidyIffAccepted ==
  edits = 0 /\ outcome # "none" => (outcome = "accepted" <=> Tidy)
==============================================================================
