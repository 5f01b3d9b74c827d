------------------------------ MODULE RuleMeaning ------------------------------
(* What a rule means where YARA evaluates it, to compare the queries with that   *)
(* RuleQuery makes of it.                                                        *)
EXTENDS RuleQuery

Concat(S, T) == {s \o t : s \in S, t \in T}
Occurs(s, content) == \E i \in 0 .. Len(content) - Len(s) : SubSeq(content, i + 1, i + Len(s)) = s

\* The byte strings a value stands for.
RECURSIVE HexInstances(_)
HexInstances(tokens) ==
  FoldLeft(LAMBDA S, t : Concat(S, CASE Kind(t) = "byte" -> {<<t.byte>>}
                                     [] Kind(t) = "jump" -> t.jump
                                     [] Kind(t) = "alts" -> UNION {HexInstances(a) : a \in Range(t.alts)}),
           {<<>>}, tokens)

RECURSIVE RegexInstances(_)
RegexInstances(n) ==
  CASE Kind(n) = "char" -> {<<n.char>>}
    [] Kind(n) = "class" -> {<<c>> : c \in n.class}
    [] Kind(n) = "empty" -> {<<>>}
    [] Kind(n) = "group" -> RegexInstances(n.group)
    [] Kind(n) = "alt" -> UNION {RegexInstances(m) : m \in Range(n.alt)}
    [] Kind(n) = "cat" -> FoldLeft(LAMBDA S, m : Concat(S, RegexInstances(m)), {<<>>}, n.cat)
    [] Kind(n) = "rep" ->
         LET times[k \in Nat] == IF k = 0 THEN {<<>>} ELSE Concat(times[k - 1], RegexInstances(n.rep))
         IN UNION {times[k] : k \in n.low .. n.high}

CaseVariants(s) == FoldLeft(LAMBDA S, c : Concat(S, {<<Lower(c)>>, <<Upper(c)>>}), {<<>>}, s)

\* Some of what may stand before and after a string that is encoded with its context.
Contexts == {<<>>, <<0>>, <<255, 7>>}

Instances(var) ==
  LET has(m) == m \in var.modifiers
      v == var.value
      i0 == CASE Kind(v) = "text" -> {v.text} [] Kind(v) = "hex" -> HexInstances(v.hex)
              [] Kind(v) = "regex" -> RegexInstances(v.regex)
      i1 == IF has("nocase") THEN UNION {CaseVariants(s) : s \in i0} ELSE i0
      i2 == IF has("wide") THEN {Pad(s) : s \in i1} \cup IF has("ascii") THEN i1 ELSE {} ELSE i1
      i3 == IF var.xor # {} THEN {Xor(s, m) : s \in i2, m \in var.xor} ELSE i2
      coded == {Characters(p \o s \o q) : p \in Contexts, s \in i3, q \in Contexts}
      wide == IF has("base64wide") THEN {Pad(s) : s \in coded} ELSE {}
  IN IF has("base64") \/ has("base64wide") THEN wide \cup IF has("base64") THEN coded ELSE {} ELSE i3

\* Whether a content meets a condition; one about no string may do so.
RECURSIVE Meets(_, _, _, _)
Meets(e, strings, scope, content) ==
  LET meets(p) == Meets(p, strings, scope, content) IN
  CASE Kind(e) = "plain" -> TRUE
    [] Kind(e) = "str" -> \E s \in Instances(strings[IF e.str = "" THEN scope ELSE e.str]) : Occurs(s, content)
    [] Kind(e) = "bytes" -> Occurs(e.bytes, content)
    [] Kind(e) = "sub" -> meets(e.sub)
    [] Kind(e) \in {"pair", "all"} -> \A p \in Range(IF Kind(e) = "pair" THEN e.pair ELSE e.all) : meets(p)
    [] Kind(e) = "any" -> \E p \in Range(e.any) : meets(p)
    [] Kind(e) = "loop" ->
         LET n == Cardinality({i \in DOMAIN e.of : Meets(e.loop, strings, e.of[i], content)}) IN
         CASE e.wanted = "any" -> n > 0
           [] e.wanted = "all" -> n = Len(e.of)
           [] e.wanted = "none" -> n = 0
           [] e.wanted = "count" -> n >= e.low
           [] e.wanted = "percent" -> n * 100 >= e.low * Len(e.of)

Matches(rule, content) == Meets(rule.condition, rule.strings, "", content)

\* Whether the trigrams of a file meet a query.
RECURSIVE Selects(_, _)
Selects(q, trigrams) ==
  CASE Kind(q) = "lit" -> Trigrams(q.lit) \subseteq trigrams
    [] Kind(q) = "ilit" -> \A t \in Trigrams(q.ilit) : trigrams \cap CaseVariants(t) # {}
    [] Kind(q) = "or" -> \E p \in q.or : Selects(p, trigrams)
    [] Kind(q) = "and" -> \A p \in q.and : Selects(p, trigrams)
    [] Kind(q) = "min" -> Cardinality({i \in DOMAIN q.of : Selects(q.of[i], trigrams)}) >= q.min
=============================================================================
