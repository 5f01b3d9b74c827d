----------------------------- MODULE AccessControl -----------------------------
(***************************************************************************)
(* Who may see a file (src/access.rs): a control made from the              *)
(* classification of a submission, merged with that of every other          *)
(* submission of the file, simplified, and asked with the tokens a user     *)
(* holds.  Only for TLC: it recurses over controls.                         *)
(***************************************************************************)
EXTENDS Controls, Sequences, SequencesExt

\* The members of a set of controls, with those of kind k replaced by their own.
RECURSIVE Flatten(_, _)
Flatten(S, k) == UNION {IF Has(a, k) THEN Flatten(a[k], k) ELSE {a} : a \in S}

RECURSIVE Simplify(_)
Simplify(a) ==
  IF a \in {[or |-> {}], [and |-> {}]} THEN Always
  ELSE IF Has(a, "or") THEN SimplifyOr(Flatten({Simplify(x) : x \in a.or}, "or"))
  ELSE IF Has(a, "and") THEN SimplifyAnd(Flatten({Simplify(x) : x \in a.and}, "and"))
  ELSE a

RECURSIVE CanAccess(_, _)
CanAccess(a, view) == CanAccessAll(a, {x \in Members(a) : CanAccess(x, view)}, view)

\* The control of a file: the first submission's, then each other one's merged in.
Stored(submissions) ==
  FoldLeft(LAMBDA a, c : Simplify(Merge(a, PrepareClassification(c))),
           PrepareClassification(Head(submissions)), Tail(submissions))
=============================================================================
