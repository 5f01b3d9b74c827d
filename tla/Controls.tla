------------------------------- MODULE Controls -------------------------------
(***************************************************************************)
(* Who may see a file (src/access.rs): [token], [or], [and] and [always]    *)
(* over sets of such.  What is here is done to one control, with what is    *)
(* known of its members; AccessControl does it to all.                      *)
(***************************************************************************)
EXTENDS FiniteSets

Always == [always |-> TRUE]
Token(t) == [token |-> t]
Only(S) == CHOOSE x \in S : TRUE
Has(a, k) == k \in DOMAIN a
Parts(a, k) == IF Has(a, k) THEN a[k] ELSE {a}

Members(a) == IF Has(a, "or") THEN a.or ELSE IF Has(a, "and") THEN a.and ELSE {}

IntoOr(S) == IF Cardinality(S) = 1 THEN Only(S) ELSE [or |-> S]
IntoAnd(S) == IF Cardinality(S) = 1 THEN Only(S) ELSE [and |-> S]

\* a.or(b)
Merge(a, b) == IF Always \in {a, b} THEN Always ELSE IntoOr(Parts(a, "or") \cup Parts(b, "or"))

\* a.and(b)
Both(a, b) == IntoAnd(UNION {Parts(x, "and") : x \in {a, b} \ {Always}})

\* factor: what all sets share, and what else each holds.
Common(S) == {a \in UNION S : \A s \in S : a \in s}
Unfactored(S) == {s \ Common(S) : s \in S} \ {{}}

\* simplify, of items that are simple and that are not themselves joined by "or".  One
\* remainder would be joined to what is common by "or".
SimplifyOr(items) ==
  LET operands == {Parts(x, "and") : x \in items}
      common == Common(operands)
      unfactored == Unfactored(operands)
      rest == {IntoAnd(s) : s \in unfactored}
  IN IF Always \in items THEN Always
     ELSE IF common \in operands THEN IntoAnd(common)
     ELSE IF common = {} THEN IntoOr(rest)
     ELSE IF Cardinality(unfactored) = 1 THEN Merge(Only(rest), IntoAnd(common))
     ELSE Both(IntoOr(rest), IntoAnd(common))

\* simplify, of items that are simple and that are not themselves joined by "and".
SimplifyAnd(items) ==
  LET operands == {Parts(x, "or") : x \in items \ {Always}}
      common == Common(operands)
      rest == {IntoOr(s) : s \in Unfactored(operands)}
  IN IF common = {} THEN IntoAnd(rest)
     ELSE IF rest = {} THEN IntoOr(common)
     ELSE Both(IntoAnd(rest), IntoOr(common))

\* can_access, if the user can access the members that are open.
CanAccessAll(a, open, view) ==
  CASE Has(a, "or") -> a.or \cap open # {}
    [] Has(a, "and") -> a.and \subseteq open
    [] Has(a, "token") -> a.token \in view
    [] OTHER -> TRUE

\* A classification: the text of its level, and the names it requires, of which each
\* one is required, and one of the groups and one of the subgroups, if there are any.
PrepareClassification(c) ==
  LET one(S) == IF S = {} THEN {} ELSE {IntoOr({Token(t) : t \in S})}
  IN IntoAnd({Token(c.level)} \cup {Token(t) : t \in c.required} \cup one(c.groups) \cup one(c.subgroups))

\* The tokens of a user, who may see every level up to their own.
PrepareAccess(c, levels) == levels \cup c.required \cup c.groups \cup c.subgroups

----------------------------------------------------------------------------
(* What is meant by it                                                        *)

\* Who may see a submission, by the rules of classifications.
Cleared(view, c) ==
  /\ c.level \in view /\ c.required \subseteq view
  /\ \A S \in {c.groups, c.subgroups} : S = {} \/ S \cap view # {}
=============================================================================
