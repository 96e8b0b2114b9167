----------------------------- MODULE QualityRun -----------------------------
(***************************************************************************)
(* From measured lines and judged mutants to a verdict in the store: the   *)
(* measurement of coverage.py and crap.py, the gates of gate.py and        *)
(* mutation.py, the summaries and findings of quality.py, and the document *)
(* that evidence/store.py builds from them and checks as its own reader    *)
(* would. The verdict is formed three times, from every callable, from the *)
(* largest score alone and from the status of the run, and the three have  *)
(* to agree.                                                               *)
(*                                                                         *)
(* Running the jobs is in StrictCheck, writing the bundle in EvidenceStore.*)
(***************************************************************************)
EXTENDS Thresholds, CallableLines

CONSTANTS
  CrapMaxTexts,      \* what --crap-max may say
  MutationMinTexts,  \* what --mutation-min may say
  MaxCallables,      \* bound: callables of a project
  MaxComplexity,     \* bound: the complexity of a callable
  MaxMutants,        \* bound: mutants of a project
  Times              \* bound: what the clock may show

ASSUME QualityAssumption ==
  /\ CrapMaxTexts \cup MutationMinTexts \subseteq ThresholdTexts(Nat)
  /\ \A text \in CrapMaxTexts : IsCrapMax(ParseThreshold(text))
  /\ \A text \in MutationMinTexts : IsMutationMin(ParseThreshold(text))
  /\ MaxCallables \in Nat /\ MaxComplexity \in Nat \ {0} /\ MaxMutants \in Nat
  /\ Times \subseteq Nat

VARIABLES
  command,  \* "crap", "mutation" or "check"
  mode,     \* "local" or "strict"
  step,     \* what the command does next
  file,     \* the callables of the file that is being measured
  metrics,  \* the metrics so far, in the order of the gate once selected
  counts,   \* the mutants by state
  limits,   \* the texts of the two thresholds
  run,      \* the run record, its components and its findings
  doc,      \* the evidence of the run
  exit      \* how the command ended

vars == <<command, mode, step, file, metrics, counts, limits, run, doc, exit>>

NotYet == [status |-> "none"]

\* The commands and the modes they may run in.
Commands ==
  {<<"crap", "local">>, <<"crap", "strict">>, <<"mutation", "strict">>, <<"check", "strict">>}

\* _expected_component_names.
Judged == IF command = "check" THEN {"crap", "mutation"} ELSE {command}

Init ==
  /\ \E c \in Commands : command = c[1] /\ mode = c[2]
  /\ step = IF command = "mutation" THEN "mutants" ELSE "measure"
  /\ file = << >> /\ metrics = << >>
  /\ counts = [killed |-> 0, survived |-> 0, other |-> 0]
  /\ limits = NotYet /\ run = NotYet /\ doc = NotYet
  /\ exit = "none"

Fail(status) == step' = "end" /\ exit' = status
------------------------------------------------------------------------------
(***************************************************************************)
(* Measuring one file after the other. What the files and the report hold  *)
(* is the project's; the report of an earlier version of a file is as good *)
(* as any whose lines are in the file.                                     *)
(***************************************************************************)
NextCallable ==
  /\ step = "measure"
  /\ Len(metrics) + Len(file) < MaxCallables
  /\ \E c \in CallableAt(Len(file)) :
       WellFormed(Append(file, c)) /\ file' = Append(file, c)
  /\ UNCHANGED <<command, mode, step, metrics, counts, limits, run, doc, exit>>

CountsOf(entry) == [i \in DOMAIN file |-> CoverageCounts(file, i, entry)]

Metric(complexity, n) ==
  [complexity |-> complexity, covered |-> n.covered, total |-> n.total, unknown |-> n.unknown]

MeasureSource ==
  /\ step = "measure" /\ file # << >>
  /\ \E n \in {CountsOf(entry) : entry \in Entries \cup {NoEntry}},
       complexity \in [DOMAIN file -> 1..MaxComplexity] :
       metrics' = metrics \o [i \in DOMAIN file |-> Metric(complexity[i], n[i])]
  /\ file' = << >>
  /\ UNCHANGED <<command, mode, step, counts, limits, run, doc, exit>>

\* A report that is no report of coverage.py, or whose lines overlap, are
\* excluded or are not in the file.
ReportFails ==
  /\ step = "measure"
  /\ Fail("dependencyError")
  /\ UNCHANGED <<command, mode, file, metrics, counts, limits, run, doc>>

\* A file that does not parse or whose callables cannot be told apart.
AnalysisFails ==
  /\ step = "measure"
  /\ Fail("toolError")
  /\ UNCHANGED <<command, mode, file, metrics, counts, limits, run, doc>>
------------------------------------------------------------------------------
Known(m) == m.unknown = ""

\* The score as a fraction that need not be in lowest terms, and as one that is.
Risk(m) == [num |-> CrapNumerator(m.complexity, m.covered, m.total), den |-> Cubed(m.total)]

Score(m) == Fraction(Risk(m).num, Risk(m).den)

Passes(m, max) ==
  Known(m) /\ CrapPasses(Risk(m).num, Risk(m).den, max)

Riskier(m, n) ==
  IF Known(m) /\ Known(n) THEN ~AtMost(Risk(m), Risk(n)) ELSE ~Known(m) /\ Known(n)

\* _metric_sort_key: unknown ones first, then by falling score, then by place.
Before(i, j) ==
  \/ Riskier(metrics[i], metrics[j])
  \/ ~Riskier(metrics[j], metrics[i]) /\ i < j

\* selected_metrics: with --function only what is still found under the
\* identifier that was selected is judged, otherwise everything.
SelectMetrics ==
  /\ step = "measure" /\ file = << >>
  /\ \E kept \in SUBSET DOMAIN metrics : \E order \in [1..Cardinality(kept) -> kept] :
       /\ \A k, l \in DOMAIN order : k < l => Before(order[k], order[l])
       /\ metrics' = [k \in DOMAIN order |-> metrics[order[k]]]
  /\ step' = IF command = "check" THEN "mutants" ELSE "judge"
  /\ UNCHANGED <<command, mode, file, counts, limits, run, doc, exit>>

InScope == counts.killed + counts.survived + counts.other

Mutate ==
  /\ step = "mutants"
  /\ counts' \in [killed : 0..MaxMutants, survived : 0..MaxMutants, other : 0..MaxMutants]
  /\ counts'.killed + counts'.survived + counts'.other <= MaxMutants
  /\ step' = "judge"
  /\ UNCHANGED <<command, mode, file, metrics, limits, run, doc, exit>>
------------------------------------------------------------------------------
CrapReason(max) ==
  IF metrics = << >> THEN "emptyCallableInventory"
  ELSE IF \E i \in DOMAIN metrics : ~Known(metrics[i]) THEN "coverageUnknown"
  ELSE IF \E i \in DOMAIN metrics : ~Passes(metrics[i], max) THEN "crapThresholdExceeded"
  ELSE "passed"

\* _gate_reason; no caller has an unauthorized exclusion to report.
MutationReason(min) ==
  IF InScope = 0 THEN "zeroMutants"
  ELSE IF ~KillRatePasses(counts.killed, InScope, min) THEN "nonKilledMutant"
  ELSE "passed"

Scores == {Score(metrics[i]) : i \in {k \in DOMAIN metrics : Known(metrics[k])}}

\* Mistake: the largest numerator stands for the largest score.
LargestNumerator ==
  IF Scores = {} THEN [num |-> 0, den |-> 1]
  ELSE CHOOSE x \in Scores : \A y \in Scores : y.num <= x.num

\* _crap_summary and _maximum_fraction; 0/1 is what _crap_component makes of none.
Maximum ==
  LET scores == Scores
  IN  IF scores = {} THEN [num |-> 0, den |-> 1]
      ELSE CHOOSE x \in scores : \A y \in scores : AtMost(y, x)

CrapComponent(max) ==
  [callableCount |-> Len(metrics), crapMax |-> ThresholdText(max), max |-> Maximum,
   pass |-> CrapReason(max) = "passed",
   unknownCount |-> Cardinality({i \in DOMAIN metrics : ~Known(metrics[i])})]

MutationComponent(min) ==
  [counts |-> counts, inScope |-> InScope, mutationMin |-> ThresholdText(min),
   pass |-> MutationReason(min) = "passed"]

Finding(category, reason, subject) ==
  [category |-> category, reason |-> reason, subject |-> subject]

MetricFinding(i) ==
  Finding("crap", IF Known(metrics[i]) THEN "crapThresholdExceeded" ELSE metrics[i].unknown, i)

\* Mistake: only what was measured can be found at fault.
FindingsOfMetrics(max) ==
  {MetricFinding(i) : i \in {k \in DOMAIN metrics : ~Passes(metrics[k], max)}}

\* _finding_identities; subject 0 is the module.
CrapFindings(max) ==
  IF metrics = << >> THEN {Finding("crap", "emptyCallableInventory", 0)}
  ELSE {MetricFinding(i) : i \in {k \in DOMAIN metrics : ~Passes(metrics[k], max)}}

\* _mutation_findings: everything that was not killed, killed or not enough.
MutationFindings ==
  IF InScope = 0 THEN {Finding("mutation", "zeroMutants", 0)}
  ELSE UNION {{Finding("mutation", state, i) : i \in 1..counts[state]} :
                 state \in {"survived", "other"}}

Reason(name, texts) ==
  IF name = "crap" THEN CrapReason(ParseThreshold(texts.crapMax))
  ELSE MutationReason(ParseThreshold(texts.mutationMin))

Component(name, texts) ==
  IF name = "crap" THEN CrapComponent(ParseThreshold(texts.crapMax))
  ELSE MutationComponent(ParseThreshold(texts.mutationMin))

Findings(name, texts) ==
  IF name = "crap" THEN CrapFindings(ParseThreshold(texts.crapMax)) ELSE MutationFindings

\* The run record, with the components and findings that go with it.
Verdict(texts, now) ==
  LET failing == {name \in Judged : Reason(name, texts) # "passed"}
  IN  [status     |-> IF failing = {} THEN "passed" ELSE "qualityFailed",
       completed  |-> now,
       components |-> [name \in Judged |-> Component(name, texts)],
       findings   |-> UNION {Findings(name, texts) : name \in Judged},
       reasons    |-> {Reason(name, texts) : name \in failing}]

Judge(texts, now) ==
  /\ step = "judge"
  /\ limits' = texts
  /\ run' = Verdict(texts, now)
  /\ step' = "commit"
  /\ UNCHANGED <<command, mode, file, metrics, counts, doc, exit>>
------------------------------------------------------------------------------
\* _is_certified.
Certified(status, components) ==
  mode = "strict" /\ status = "passed" /\ \A name \in DOMAIN components : components[name].pass

\* _diagnostic_codes.
Codes == {f.reason : f \in run.findings} \cup run.reasons

\* _evidence_document.
Document(now) ==
  [status |-> run.status, completed |-> run.completed, committed |-> now,
   components |-> run.components, certification |-> Certified(run.status, run.components),
   codes |-> Codes]

ValidCrap(v) ==
  /\ v.unknownCount <= v.callableCount
  /\ v.callableCount = v.unknownCount <=> v.max = [num |-> 0, den |-> 1]
  /\ v.max = Fraction(v.max.num, v.max.den)
  /\ IsCrapMax(ParseThreshold(v.crapMax))
  /\ v.pass <=> /\ v.callableCount > 0 /\ v.unknownCount = 0
                /\ CrapPasses(v.max.num, v.max.den, ParseThreshold(v.crapMax))

ValidMutation(v) ==
  /\ v.counts.killed + v.counts.survived + v.counts.other = v.inScope
  /\ IsMutationMin(ParseThreshold(v.mutationMin))
  /\ v.pass <=> /\ v.inScope > 0
                /\ KillRatePasses(v.counts.killed, v.inScope, ParseThreshold(v.mutationMin))

\* _validate_evidence_document; the job starts when it completes, see
\* _validated_run_values.
Valid(d) ==
  /\ DOMAIN d.components = Judged
  /\ "crap" \in Judged => ValidCrap(d.components["crap"])
  /\ "mutation" \in Judged => ValidMutation(d.components["mutation"])
  /\ d.completed <= d.committed
  /\ d.status = "passed" <=> \A name \in Judged : d.components[name].pass
  /\ d.certification = Certified(d.status, d.components)

Commit(now) ==
  /\ step = "commit"
  /\ IF Valid(Document(now))
     THEN doc' = Document(now) /\ Fail(run.status)
     ELSE doc' = doc /\ Fail("evidenceError")
  /\ UNCHANGED <<command, mode, file, metrics, counts, limits, run>>

Next ==
  \/ NextCallable \/ MeasureSource \/ ReportFails \/ AnalysisFails \/ SelectMetrics \/ Mutate
  \/ \E texts \in [crapMax : CrapMaxTexts, mutationMin : MutationMinTexts], now \in Times :
       Judge(texts, now)
  \/ \E now \in Times : Commit(now)

Spec == Init /\ [][Next]_vars
------------------------------------------------------------------------------
Hundredths(text) ==
  100 * text.whole
  + (IF Len(text.decimals) >= 1 THEN 10 * text.decimals[1] ELSE 0)
  + (IF Len(text.decimals) = 2 THEN text.decimals[2] ELSE 0)

\* The rules of the gates in whole numbers, from the numbers that were measured
\* and the text of the command line.
CrapEarned ==
  /\ metrics # << >>
  /\ \A i \in DOMAIN metrics :
       LET m == metrics[i]
       IN  /\ m.total > 0
           /\ 100 * (m.complexity * m.complexity * Cubed(m.total - m.covered) + m.complexity * Cubed(m.total))
                <= Hundredths(limits.crapMax) * Cubed(m.total)

MutationEarned ==
  InScope > 0 /\ 10000 * counts.killed >= Hundredths(limits.mutationMin) * InScope

Earned(name) == IF name = "crap" THEN CrapEarned ELSE MutationEarned

(***************************************************************************)
(* The store takes the document of every run that got as far, unless the   *)
(* clock was put back since the run was judged: the gates, which see every *)
(* callable, and the reader's check, which sees the largest score and the  *)
(* counts, never disagree (quality.py:97, store.py:513 and 1173).          *)
(***************************************************************************)
DocumentsAccepted ==
  step = "commit" =>
    \A now \in Times : run.completed <= now => Valid(Document(now))

(***************************************************************************)
(* A document says passed, of each component and of the whole, exactly if  *)
(* the numbers meet the limits as they were typed, at the limit too, and   *)
(* it is certified exactly if a strict run passed (coverage.py:266,        *)
(* mutation.py:170, store.py:784).                                         *)
(***************************************************************************)
VerdictIsExact ==
  doc # NotYet =>
    /\ \A name \in Judged : doc.components[name].pass <=> Earned(name)
    /\ exit = "passed" <=> \A name \in Judged : Earned(name)
    /\ doc.certification <=> mode = "strict" /\ exit = "passed"

(***************************************************************************)
(* A failure has a cause on record: a failed component has a finding of    *)
(* its own, and the codes of the document say why it failed. A component   *)
(* that passed has findings only for mutants (quality.py:385 and 459).     *)
(***************************************************************************)
FailureIsRecorded ==
  doc # NotYet =>
    \A name \in Judged :
      LET own == {f \in run.findings : f.category = name}
      IN  /\ ~Earned(name) => own # {} /\ {f.reason : f \in own} \subseteq doc.codes
          /\ name = "crap" /\ Earned(name) => own = {}

\* The lines that decide the score of a callable if all lines are reported.
Counted(i) ==
  IF file[i].decl = file[i].body THEN {} ELSE OwnedLines(file, i, Line)

\* The lines of bodies that count for nobody.
LinesLost ==
  (UNION {BodyText(file[i]) : i \in DOMAIN file}) \ (UNION {Counted(i) : i \in DOMAIN file})

\* What decorates the first statement of an outermost callable, without the
\* bodies of lambdas.
OuterDecorators ==
  (UNION {Decorators(file[i]) : i \in {k \in DOMAIN file : file[k].parent = 0}})
    \ (UNION {BodyText(file[i]) : i \in {k \in DOMAIN file : file[k].kind = "lambda"}})

(***************************************************************************)
(* No line counts for two callables, except the line on which the default  *)
(* of a definition ends and its one-line body begins. In a file where      *)
(* every callable has lines of its own, the lines of bodies that count for *)
(* nobody are the decorators, outside of lambdas, of the first statement   *)
(* of a callable that stands in no other: a body counts from the `def' or  *)
(* `class' of its first statement on, and the lines before count for the   *)
(* callable around (crap.py:631 and 640, coverage.py:394).                 *)
(***************************************************************************)
LinesCountedOnce ==
  /\ \A i, j \in DOMAIN file :
       i < j /\ Counted(i) \cap Counted(j) # {} =>
         \E h \in {j} \cup Ancestors(file, j) :
           file[h].header = i /\ OnBodyLine(file[i], file[h])
  /\ (\A i \in DOMAIN file : file[i].decl < file[i].body) => LinesLost = OuterDecorators
==============================================================================
