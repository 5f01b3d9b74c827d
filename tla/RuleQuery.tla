------------------------------- MODULE RuleQuery -------------------------------
(***************************************************************************)
(* From a YARA rule to the query of an index (src/query): the literals a    *)
(* string must contain, the condition over them, and the network of        *)
(* trigrams and expressions a worker evaluates.  Only for TLC: it recurses  *)
(* over rules.                                                             *)
(*                                                                         *)
(* A rule is its condition and its strings; what the parser of boreal      *)
(* returns is given by records that name their kind by their field.        *)
(***************************************************************************)
EXTENDS Integers, Sequences, FiniteSets, FiniteSetsExt, Functions, SequencesExt

----------------------------------------------------------------------------
(* Phrase queries (phrases.rs): [lit], [ilit], [or], [and], [min, of].        *)

NoQuery == [none |-> TRUE]
Kind(x) == CHOOSE k \in DOMAIN x : k \notin {"of", "nocase", "low", "high", "from", "wanted"}

Or(S) ==
  LET parts == UNION {IF Kind(q) = "or" THEN q.or ELSE {q} : q \in S \ {NoQuery}} IN
  IF parts = {} THEN NoQuery
  ELSE IF Cardinality(parts) = 1 THEN CHOOSE q \in parts : TRUE ELSE [or |-> parts]

And(S) ==
  LET parts == UNION {IF Kind(q) = "and" THEN q.and ELSE {q} : q \in S \ {NoQuery}} IN
  IF parts = {} THEN NoQuery
  ELSE IF Cardinality(parts) = 1 THEN CHOOSE q \in parts : TRUE ELSE [and |-> parts]

MinOf(n, s) ==
  IF n = 1 THEN Or(Range(s)) ELSE IF n = Len(s) THEN And(Range(s)) ELSE [min |-> n, of |-> s]

Pad(b) == [i \in 1 .. 2 * Len(b) |-> IF i % 2 = 1 THEN b[(i + 1) \div 2] ELSE 0]
Bit(n, k) == (n \div (2 ^ k)) % 2
Xor(b, mask) == [i \in DOMAIN b |-> SumSet({2 ^ k : k \in {j \in 0 .. 7 : Bit(b[i], j) # Bit(mask, j)}})]

\* The characters of base64 that depend on b alone when b starts at offset permute.
Alphabet(n) == IF n < 26 THEN n + 65 ELSE IF n < 52 THEN n + 71 ELSE IF n < 62 THEN n - 4 ELSE IF n = 62 THEN 43 ELSE 47
Sextet(b, i) ==
  LET k == (6 * i) \div 8
      byte(j) == IF j < Len(b) THEN b[j + 1] ELSE 0
  IN ((byte(k) * 256 + byte(k + 1)) \div (2 ^ (10 - ((6 * i) % 8)))) % 64
Characters(b) == [i \in 1 .. (4 * Len(b)) \div 3 |-> Alphabet(Sextet(b, i - 1))]
Base64(permute, b) ==
  LET skip == <<0, 2, 3>>[permute + 1]
      encoded == Characters([i \in 1 .. permute |-> 0] \o b)
  IN SubSeq(encoded, skip + 1, Len(encoded))

Coded(how, b) ==
  CASE Kind(how) = "pad" -> Pad(b)
    [] Kind(how) = "xor" -> Xor(b, how.xor)
    [] Kind(how) = "base64" -> Base64(how.base64, b)

RECURSIVE MapLiterals(_, _)
MapLiterals(q, how) ==
  CASE Kind(q) = "none" -> q
    [] Kind(q) = "lit" -> [lit |-> Coded(how, q.lit)]
    [] Kind(q) = "ilit" -> [ilit |-> Coded(how, q.ilit)]
    [] Kind(q) = "or" -> [or |-> {MapLiterals(p, how) : p \in q.or}]
    [] Kind(q) = "and" -> [and |-> {MapLiterals(p, how) : p \in q.and}]
    [] Kind(q) = "min" -> [min |-> q.min, of |-> [i \in DOMAIN q.of |-> MapLiterals(q.of[i], how)]]

RECURSIVE CaseInsensitive(_)
CaseInsensitive(q) ==
  CASE Kind(q) \in {"none", "ilit"} -> q
    [] Kind(q) = "lit" -> [ilit |-> q.lit]
    [] Kind(q) = "or" -> [or |-> {CaseInsensitive(p) : p \in q.or}]
    [] Kind(q) = "and" -> [and |-> {CaseInsensitive(p) : p \in q.and}]
    [] Kind(q) = "min" -> [min |-> q.min, of |-> [i \in DOMAIN q.of |-> CaseInsensitive(q.of[i])]]

----------------------------------------------------------------------------
(* The literals of a string (yara.rs).  Hex: [byte], [jump], [alts].  Regular *)
(* expressions: [char], [class], [empty], [alt], [cat], [group] and           *)
(* repetitions [rep, low, high], with from for {low,}.                         *)

RECURSIVE ProduceStrings(_, _)
ProduceStrings(tokens, limit) ==
  LET long(S) == {s \in S : Len(s) >= limit}
      step(acc, t) ==
        IF Kind(t) = "byte" THEN [acc EXCEPT !.current = {Append(s, t.byte) : s \in @}]
        ELSE LET tails == IF Kind(t) = "alts" THEN UNION {ProduceStrings(a, 1) : a \in Range(t.alts)} ELSE {}
             IN IF tails = {} THEN [strings |-> acc.strings \cup long(acc.current), current |-> {<<>>}]
                ELSE [acc EXCEPT !.current = {s \o tail : s \in @, tail \in tails}]
      end == FoldLeft(step, [strings |-> {}, current |-> {<<>>}], tokens)
  IN end.strings \cup long(end.current)

\* Segments <<start, bytes, trailing>>: whether one begins where the node begins,
\* and whether it ends where the node ends.
RECURSIVE ProduceRegex(_, _)
ProduceRegex(n, limit) ==
  LET long(S) == {s \in S : Len(s[2]) >= limit}
      step(acc, m) ==
        LET S == ProduceRegex(m, 0)
            joined == {<<o[1], o[2] \o s[2], s[3]>> : o \in acc.open, s \in {x \in S : x[1]}}
                      \cup {s \in S : ~s[1]}
            broken == IF \E s \in S : ~s[1] THEN {<<o[1], o[2], FALSE>> : o \in acc.open} ELSE {}
            open == {s \in joined : s[3]}
        IN [complete |-> acc.complete \cup long(broken \cup (joined \ open)),
            open |-> IF open = {} THEN {<<FALSE, <<>>, TRUE>>} ELSE open]
  IN CASE Kind(n) = "char" -> IF limit <= 1 THEN {<<TRUE, <<n.char>>, TRUE>>} ELSE {}
       [] Kind(n) = "class" -> IF limit = 0 THEN {<<FALSE, <<>>, TRUE>>} ELSE {}
       [] Kind(n) = "empty" -> IF limit = 0 THEN {<<TRUE, <<>>, TRUE>>} ELSE {}
       [] Kind(n) = "group" -> ProduceRegex(n.group, limit)
       [] Kind(n) = "alt" -> long(UNION {ProduceRegex(m, 0) : m \in Range(n.alt)})
       [] Kind(n) = "rep" ->
            (IF limit = 0 /\ n.low = 0 /\ ~n.from THEN {<<TRUE, <<>>, TRUE>>} ELSE {})
            \cup UNION {{s[1], FALSE} \X {s[2]} \X {s[3], FALSE} :
                        s \in {x \in ProduceRegex(n.rep, 0) : Len(x[2]) > limit}}
       [] Kind(n) = "cat" ->
            LET end == FoldLeft(step, [complete |-> {}, open |-> {<<TRUE, <<>>, TRUE>>}], n.cat)
            IN end.complete \cup long(end.open)

Literal(s, nocase) == IF nocase THEN [ilit |-> s] ELSE [lit |-> s]

ParseRegex(n, nocase) == Or({Literal(s[2], nocase) : s \in ProduceRegex(n, 3)})

\* A string: its value, the masks of xor, and its other modifiers.
ValueQuery(v) ==
  CASE Kind(v) = "text" -> [lit |-> v.text]
    [] Kind(v) = "hex" -> Or({[lit |-> s] : s \in ProduceStrings(v.hex, 3)})
    [] Kind(v) = "regex" -> ParseRegex(v.regex, v.nocase)

VariableToQuery(var) ==
  LET has(m) == m \in var.modifiers
      wide(q, too) == Or({MapLiterals(q, [pad |-> TRUE])} \cup IF too THEN {q} ELSE {})
      q1 == IF has("nocase") THEN CaseInsensitive(ValueQuery(var.value)) ELSE ValueQuery(var.value)
      q2 == IF has("wide") THEN wide(q1, has("ascii")) ELSE q1
      q3 == IF var.xor # {} THEN Or({MapLiterals(q2, [xor |-> m]) : m \in var.xor}) ELSE q2
      q4 == IF has("base64") \/ has("base64wide")
              THEN Or({MapLiterals(q3, [base64 |-> p]) : p \in 0 .. 2}) ELSE q3
  IN IF has("private") THEN NoQuery
     ELSE IF has("base64wide") THEN wide(q4, has("base64")) ELSE q4

----------------------------------------------------------------------------
(* The condition.  [str]: an expression about one string, "" for the one of   *)
(* the loop; [plain]: one about none; [sub], [pair]: operators over others;    *)
(* [loop, of, wanted, low]: a body over the strings of those names, of which   *)
(* "any", "all", "none", a "count" of low or a "percent" of low shall hold.    *)

Percent(n, size) == (n * size + 99) \div 100

RECURSIVE ParseExpression(_, _, _)
ParseExpression(e, strings, scope) ==
  LET of(names, body) ==
        SelectSeq([i \in DOMAIN names |-> ParseExpression(body, strings, names[i])], LAMBDA q : q # NoQuery)
  IN CASE Kind(e) = "plain" -> NoQuery
       [] Kind(e) = "str" -> VariableToQuery(strings[IF e.str = "" THEN scope ELSE e.str])
       [] Kind(e) = "bytes" -> [lit |-> e.bytes]
       [] Kind(e) = "sub" -> ParseExpression(e.sub, strings, scope)
       [] Kind(e) = "pair" ->
            LET q == Or({ParseExpression(p, strings, scope) : p \in Range(e.pair)})
            IN IF e.nocase THEN CaseInsensitive(q) ELSE q
       [] Kind(e) = "all" -> And({ParseExpression(p, strings, scope) : p \in Range(e.all)})
       [] Kind(e) = "any" -> Or({ParseExpression(p, strings, scope) : p \in Range(e.any)})
       [] Kind(e) = "loop" ->
            LET bodies == of(e.of, e.loop) IN
            IF bodies = <<>> THEN NoQuery
            ELSE CASE e.wanted = "any" -> Or(Range(bodies))
                   [] e.wanted = "all" -> And(Range(bodies))
                   [] e.wanted = "none" -> NoQuery
                   [] e.wanted = "count" -> MinOf(e.low, bodies)
                   [] e.wanted = "percent" -> MinOf(Percent(e.low, Len(bodies)), bodies)

PhraseQuery(rule) == ParseExpression(rule.condition, rule.strings, "")

----------------------------------------------------------------------------
(* The network (query/mod.rs): references [tri] and [expr], the second the     *)
(* number of an expression [op, low, weight], weight for each of its inputs.    *)

Trigrams(b) == {<<b[i], b[i + 1], b[i + 2]>> : i \in 1 .. Len(b) - 2}
Lower(c) == IF c \in 65 .. 90 THEN c + 32 ELSE c
Upper(c) == IF c \in 97 .. 122 THEN c - 32 ELSE c

\* Inputs are taken once; one alone stands for itself.
Node(op, refs, es) ==
  IF Cardinality(refs) = 1 THEN [root |-> CHOOSE r \in refs : TRUE, es |-> es]
  ELSE [root |-> [expr |-> Len(es) + 1], es |-> Append(es, [op |-> op, low |-> 0, weight |-> [r \in refs |-> 1]])]

InsertCaseInsensitive(t, es) ==
  LET cases(i) == {Lower(t[i]), Upper(t[i])}
  IN Node("or", {[tri |-> v] : v \in cases(1) \X cases(2) \X cases(3)}, es)

RECURSIVE Insert(_, _)
Insert(q, es) ==
  LET none == [refs |-> <<>>, es |-> es]
      add(acc, in) == [refs |-> Append(acc.refs, in.root), es |-> in.es]
      step(p, acc) == add(acc, Insert(p, acc.es))
      stepCase(t, acc) == add(acc, InsertCaseInsensitive(t, acc.es))
      node(op, in) == Node(op, Range(in.refs), in.es)
  IN CASE Kind(q) = "or" -> node("or", FoldSet(step, none, q.or))
       [] Kind(q) = "and" -> node("and", FoldSet(step, none, q.and))
       [] Kind(q) = "lit" -> Node("and", {[tri |-> t] : t \in Trigrams(q.lit)}, es)
       [] Kind(q) = "ilit" -> node("and", FoldSet(stepCase, none, Trigrams(q.ilit)))
       [] Kind(q) = "min" ->
            LET in == FoldRight(step, q.of, none)
                weight == [r \in Range(in.refs) |-> Cardinality({i \in DOMAIN in.refs : in.refs[i] = r})]
            IN [root |-> [expr |-> Len(in.es) + 1],
                es |-> Append(in.es, [op |-> "min", low |-> q.min, weight |-> weight])]

Build(q) == Insert(q, <<>>)
=============================================================================
