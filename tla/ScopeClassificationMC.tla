------------------------ MODULE ScopeClassificationMC ------------------------
(***************************************************************************)
(* ScopeClassification for TLC: the kinds of paths that the rules of the   *)
(* code tell apart, with two modules. The first path is no link and may    *)
(* have no place of its own, the second belongs to the second module, the  *)
(* third is anything, a link that gives the first its place, for example.  *)
(***************************************************************************)
EXTENDS ScopeClassification

Path(prod, test, excl, owned, link) ==
  [prod |-> prod, test |-> test, excl |-> excl, owned |-> owned, link |-> link]

File(prod, test, excl) == Path(prod, test, excl, FALSE, None)

Files1 ==
  {File({1}, "no", FALSE), File({1}, "match", FALSE), File({}, "match", FALSE),
   File({}, "no", FALSE)}

Files2 ==
  {File({2}, "no", FALSE), File({1, 2}, "no", FALSE), File({2}, "below", TRUE),
   Path({2}, "no", FALSE, TRUE, None), Path({1, 2}, "no", FALSE, FALSE, 1)}

Files3 ==
  {File({1}, "no", FALSE), File({}, "match", FALSE), File({}, "below", TRUE),
   File({}, "no", FALSE)}
  \cup {Path(prod, test, FALSE, TRUE, None) :
          prod \in {{}, {1}}, test \in {"no", "match"}}
  \cup {Path(prod, test, FALSE, owned, link) :
          prod \in {{}, {1}, {2}}, test \in {"no", "below"}, owned \in BOOLEAN,
          link \in {1, Outside}}
  \cup {Path({}, "match", FALSE, FALSE, link) : link \in {1, Outside}}

MCKinds == <<Files1, Files2, Files3>>
==============================================================================
