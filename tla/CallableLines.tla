---------------------------- MODULE CallableLines ----------------------------
(***************************************************************************)
(* Which lines of a file count for which callable: crap.py finds the       *)
(* callables of a file and the line ranges that nested ones take away,     *)
(* coverage.py counts the reported lines that are left to each.            *)
(*                                                                         *)
(* A file is a sequence of callables in source order, of which only the    *)
(* lines matter. Two callables meet on a line only as Python's layout      *)
(* allows. A lambda among the defaults of a lambda is not here: the        *)
(* collector does not visit those.                                         *)
(***************************************************************************)
EXTENDS Integers, Sequences, FiniteSets

CONSTANT MaxLine   \* the number of lines of a file

ASSUME LinesAssumption == MaxLine \in Nat \ {0}

Line == 1..MaxLine

\* parent: the callable in whose body it stands, 0 if in none; header: the
\* definition among whose defaults or annotations it stands, 0 if in none.
\* The first statement begins on line top with its decorators, but for the
\* code on line body, that of its `def' or `class'.
CallableAt(n) ==
  [kind : {"def", "lambda"}, parent : 0..n, header : 0..n,
   decl : Line, top : Line, body : Line, end : Line]

\* The lines of a body, and those of them that decorate its first statement.
BodyText(c) == c.top..c.end

Decorators(c) == c.top..(c.body - 1)

LinesInOrder(c) ==
  /\ c.decl <= c.top /\ c.top <= c.body /\ c.body <= c.end
  /\ c.top < c.body => c.kind = "def" /\ c.decl < c.top

\* A lambda may stand among the decorators.
Contained(p, c) ==
  /\ p.top <= c.decl /\ c.end <= p.end
  /\ c.decl < p.body => c.kind = "lambda" /\ c.end < p.body
  /\ c.kind = "def" => p.kind = "def" /\ p.decl < p.body

\* A lambda in the header of a definition ends before the body begins, or
\* on the same line if the body is a simple statement.
InHeader(d, c) ==
  /\ c.kind = "lambda" /\ d.kind = "def" /\ c.parent = d.parent
  /\ d.decl <= c.decl /\ c.end <= d.top
  /\ c.end = d.top => d.top = d.body

OnBodyLine(d, c) == c.end = d.body

\* One after the other; a definition shares no line with its siblings.
Apart(a, b) == a.end <= b.decl /\ ("def" \in {a.kind, b.kind} => a.end < b.decl)

Siblings(file, i, j) == file[i].parent = file[j].parent /\ file[j].header # i

\* Can Python source have its callables on these lines?
WellFormed(file) ==
  /\ \A i \in DOMAIN file :
       /\ LinesInOrder(file[i])
       /\ file[i].parent < i /\ file[i].header < i
       /\ file[i].parent # 0 => Contained(file[file[i].parent], file[i])
       /\ file[i].header # 0 => InHeader(file[file[i].header], file[i])
  /\ \A i, j \in DOMAIN file : i < j =>
       /\ file[i].decl <= file[j].decl
       /\ Siblings(file, i, j) => Apart(file[i], file[j])
       /\ file[j].kind = "def" =>
            \A h \in DOMAIN file :
              file[h].header = i /\ file[j].parent = i => ~OnBodyLine(file[i], file[h])
------------------------------------------------------------------------------
\* The callables on the stack of the collector when it meets callable i: the
\* smallest set with the parent of i and of every member.
Ancestors(file, i) ==
  LET closed(S) == \A k \in S \cup {i} : file[k].parent \in S \cup {0}
  IN  {k \in 1..(i - 1) : \A S \in SUBSET (1..(i - 1)) : closed(S) => k \in S}

Later(m, n) == IF m < n THEN n ELSE m

\* Mistake: nested lambdas take no lines away.
ExcludedByDefs(file, i) ==
  UNION {Later(file[j].body, file[j].decl + 1)..file[j].end :
           j \in {k \in DOMAIN file : file[k].kind = "def" /\ i \in Ancestors(file, k)}}

\* _excluded_line_ranges: the bodies of all callables below it, except what
\* stands on the line of their declaration.
ExcludedLines(file, i) ==
  UNION {Later(file[j].body, file[j].decl + 1)..file[j].end :
           j \in {k \in DOMAIN file : i \in Ancestors(file, k)}}

OwnedLines(file, i, reported) ==
  (reported \cap (file[i].body..file[i].end)) \ ExcludedLines(file, i)
------------------------------------------------------------------------------
\* The entry of a file in the coverage report, or none.
NoEntry == [reported |-> {}, executed |-> {}, found |-> FALSE]

Entries ==
  {e \in [reported : SUBSET Line, executed : SUBSET Line, found : {TRUE}] :
     e.executed \subseteq e.reported}

\* _coverage_counts; unknown is why a callable has no score, "" if it has one.
CoverageCounts(file, i, entry) ==
  LET owned == OwnedLines(file, i, entry.reported)
      unknown(reason) == [covered |-> 0, total |-> 0, unknown |-> reason]
  IN  IF ~entry.found THEN unknown("coverageFileMissing")
      ELSE IF file[i].decl = file[i].body THEN unknown("coverageLineAmbiguous")
      ELSE IF owned = {} THEN unknown("coverageNoExecutableLines")
      ELSE [covered |-> Cardinality(owned \cap entry.executed),
            total |-> Cardinality(owned), unknown |-> ""]
==============================================================================
