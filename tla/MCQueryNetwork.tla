----------------------------- MODULE MCQueryNetwork -----------------------------
(* Small instances of QueryNetwork for TLC: rules of every kind whose strings all *)
(* yield literals of three bytes or more, and files that hold the strings, parts  *)
(* of them, and several of them.                                                  *)
EXTENDS QueryNetwork, TLC

a == 97 b == 98 c == 99 d == 100 e == 101 f == 102 nine == 57

Str(value, modifiers, xor) == [value |-> value, modifiers |-> modifiers, xor |-> xor]
Text(s) == Str([text |-> s], {}, {})
Hex(s) == Str([hex |-> s], {}, {})
Regex(n, nocase) == Str([regex |-> n, nocase |-> nocase], {}, {})
Byte(x) == [byte |-> x]
Char(x) == [char |-> x]
Is(s) == [str |-> s]
Loop(body, names, wanted, low) == [loop |-> body, of |-> names, wanted |-> wanted, low |-> low]
Plain == [plain |-> TRUE]
One(string) == [condition |-> Is("x"), strings |-> [x |-> string]]
Three == [x |-> Text(<<a, b, c>>), y |-> Text(<<b, c, d>>), z |-> Text(<<c, d, d>>)]
Four == [Three EXCEPT !.z = Text(<<c, d, d, e>>)]  \* four trigrams
XYZ == <<"x", "y", "z">>

Rules == {
  One(Text(<<a, b, c, d>>)),
  One(Str([text |-> <<a, b, nine>>], {"nocase", "wide", "ascii"}, {})),
  One(Str([text |-> <<a, b, nine, d>>], {}, {1, 3})),
  One(Str([text |-> <<a, b, c>>], {"base64"}, {})),
  One(Str([text |-> <<a, b, c>>], {"base64", "base64wide"}, {})),
  One(Hex(<<Byte(a), Byte(b), [alts |-> <<<<Byte(c)>>, <<Byte(d), Byte(e)>>>>], Byte(f)>>)),
  One(Hex(<<Byte(a), Byte(b), Byte(c), [jump |-> {<<>>, <<e>>}], Byte(d), Byte(e), Byte(f)>>)),
  One(Regex([cat |-> <<Char(a), Char(b), [group |-> [alt |-> <<Char(c), [class |-> {c, nine}], [empty |-> TRUE]>>]],
                       Char(d), Char(e), Char(f)>>], FALSE)),
  One(Regex([cat |-> <<Char(a), Char(b), [rep |-> Char(c), low |-> 1, high |-> 3, from |-> TRUE],
                       Char(d), Char(e)>>], TRUE)),
  One(Regex([cat |-> <<[rep |-> [group |-> [cat |-> <<Char(a), Char(b), Char(c)>>]], low |-> 0, high |-> 2, from |-> FALSE],
                       Char(d), Char(e), Char(f)>>], FALSE)),
  [condition |-> Loop(Is(""), XYZ, "count", 2), strings |-> Three],
  [condition |-> Loop(Is(""), XYZ, "percent", 51), strings |-> Four],
  [condition |-> Loop([all |-> <<Is(""), Is("z")>>], <<"x", "y">>, "any", 0), strings |-> Four],
  [condition |-> Loop(Is(""), XYZ, "count", 2),
   strings |-> [x |-> Text(<<a, b, c>>), y |-> Text(<<a, b, c>>), z |-> Text(<<c, d, d>>)]],
  [condition |-> Loop(Is(""), <<"x", "y", "x", "z">>, "count", 3), strings |-> Three],
  [condition |-> [all |-> <<[any |-> <<Is("x"), Is("y")>>], [pair |-> <<Is("z"), Plain>>, nocase |-> FALSE]>>],
   strings |-> Three],
  [condition |-> [any |-> <<[pair |-> <<[bytes |-> <<a, b, c>>], Plain>>, nocase |-> TRUE],
                            [all |-> <<[sub |-> Is("z")], Loop(Is(""), XYZ, "all", 0)>>]>>],
   strings |-> Four],
  [condition |-> [all |-> <<Is("x"), Is("y"), Loop(Is(""), <<"z">>, "none", 0)>>],
   strings |-> [Three EXCEPT !.y = Str([text |-> <<c, c, c>>], {"private"}, {})]]}

\* Each instance of a string, and without its first byte; or one of the three strings,
\* of two of them, and of all.
Contents(rule) ==
  LET I(s) == Instances(rule.strings[s])
      one(s) == CHOOSE i \in I(s) : TRUE
      S == DOMAIN rule.strings
  IN IF S = {"x"} THEN I("x") \cup {Tail(i) : i \in I("x")}
     ELSE {one("x"), one("y"), one("x") \o one("y"), one("y") \o one("z"), one("z") \o one("x")}
          \cup {FoldSet(LAMBDA s, x : x \o one(s), <<>>, S)}

InThrees(S) ==
  LET q == FoldSet(LAMBDA x, s : Append(s, x), <<>>, S)
  IN {<<q[i], q[(i % Len(q)) + 1], q[((i + 1) % Len(q)) + 1]>> : i \in {j \in DOMAIN q : j % 3 = 1}}

Class(level, required, groups, subgroups) ==
  [level |-> level, required |-> required, groups |-> groups, subgroups |-> subgroups]
Public == Class("U", {}, {}, {})
Classes == {Public, Class("S", {"T"}, {"A", "B"}, {}), Class("S", {}, {"A", "C"}, {"G"}), Class("R", {"T"}, {"A", "B"}, {})}
Views == {PrepareAccess(Class("U", {}, {}, {}), {"U"}), PrepareAccess(Class("R", {"T"}, {"B"}, {}), {"U", "R"}),
          PrepareAccess(Class("S", {}, {"A"}, {"G"}), {"U", "R", "S"}), PrepareAccess(Class("S", {"T"}, {"C"}, {}), {"U", "R", "S"})}

\* A query of one trigram has no expression, and fails.
OneTrigram == One(Text(<<a, b, c>>))

\* Two batches; and a batch that was written, and is written again with the next file
\* after a crash.
Batchings == {<<<<1>>, <<2, 3>>>>, <<<<1, 2>>, <<1, 2, 3>>>>}

\* Four files in one batch, some without a trigram: the distance from the last to the first
\* takes two fragments, and a chunk may end between them.
Apart == {One(Text(<<a, b, c, d>>)), [condition |-> Loop(Is(""), XYZ, "count", 2), strings |-> Three]}

Ask(rule, contents, batches, submissions, view) ==
  [rule |-> rule, contents |-> contents, batches |-> batches, submissions |-> submissions, view |-> view]

MCCases ==
  UNION {{Ask(r, k, g, [i \in 1 .. 3 |-> <<Public>>], {"U"}) : k \in InThrees(Contents(r)), g \in Batchings} :
         r \in Rules \cup {OneTrigram}}
  \cup {Ask(One(Text(<<a, b, c, d>>)), [i \in 1 .. 3 |-> <<a, b, c, d>>], <<<<1, 2, 3>>>>, s, v) :
          s \in InThrees(UNION {[1 .. n -> Classes] : n \in {1, 3}}), v \in Views}
  \cup {Ask(r, k, <<<<1, 2, 3, 4>>>>, [i \in 1 .. 4 |-> <<Public>>], {"U"}) :
          r \in Apart, k \in [1 .. 4 -> {<<a, b, c, d, d>>, <<b, c, d>>}]}
=============================================================================
