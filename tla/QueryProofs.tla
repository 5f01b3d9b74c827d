------------------------------ MODULE QueryProofs ------------------------------
(***************************************************************************)
(* What TLAPS proves about a query: whatever it is, whatever the chains     *)
(* hold and however readers and tasks interleave, the files found are those *)
(* that meet it (Streams); and whoever the control stored with a file       *)
(* admits may see one of its submissions (Controls).                        *)
(***************************************************************************)
EXTENDS Streams, Controls, FiniteSetTheorems, SequenceTheorems, WellFoundedInduction, TLAPS

----------------------------------------------------------------------------
(* The inductive invariant, with what each reference has sent so far           *)

Refs == Used \cup Expressions \cup {net.root}

\* A file is in a sequence, with only files above it before.
Due(s, f) == \E i \in DOMAIN s : s[i] = f /\ \A j \in 1 .. i - 1 : s[j] > f

Running == status \in {"reading", "answered"}

Types ==
  /\ WellFormed
  /\ DOMAIN numbers \subseteq TrigramRefs
  /\ \A t \in DOMAIN numbers : numbers[t] \in Seq(Nat \ {0}) /\ Descending(numbers[t])
  /\ stream \in [DOMAIN numbers -> Seq(File)]
  /\ \A t \in DOMAIN numbers : Range(stream[t]) \subseteq Range(numbers[t])
  /\ candidate \in [Numbers -> Nat]
  /\ senders \subseteq Expressions \cup DOMAIN numbers
  /\ status \in {"new", "reading", "failed", "answered"}
  /\ status = "new" => stream = numbers /\ \A n \in Numbers : candidate[n] = 0
  /\ found \in Seq(File)
  /\ IF Running THEN chan \in [Edges -> Seq(File)] ELSE senders = {} /\ found = <<>>

\* What is sent, and what is received of it, is in the meaning of the sender.
Sound(sent) ==
  /\ \A r \in Refs : sent[r] \subseteq Meaning(r)
  /\ Running => \A e \in Edges : Range(chan[e]) \subseteq sent[e[1]]
  /\ Range(found) \subseteq sent[net.root]

\* What the root sent is received, or in the channel.
Delivered(sent) == Running => sent[net.root] \subseteq Range(found) \cup Range(chan[RootEdge])

\* An input of expression n has a file, and n has not passed it by.
Waits(sent, q, n, f) == f \in Meaning(q) /\ (f \notin sent[q] \/ Due(chan[Edge(q, n)], f))
Feeds(sent, n, f) == {q \in Inputs(n) : Waits(sent, q, n, f)}

\* Enough inputs have file f for expression n to send it.
Coming(sent, n, f) ==
  /\ net.es[n].op = "or" => Feeds(sent, n, f) # {}
  /\ net.es[n].op = "and" => Feeds(sent, n, f) = Inputs(n) /\ (candidate[n] = 0 \/ candidate[n] >= f)
  /\ net.es[n].op = "min" => Weight(n, Feeds(sent, n, f)) >= net.es[n].low

\* What sender r has to send of its meaning is below what it sent, and will come.
OwedBy(sent, r) ==
  \A f \in Meaning(r) \ sent[r] :
    /\ r \in senders /\ \A g \in sent[r] : g > f
    /\ IF r \in Expressions THEN Coming(sent, r.expr, f) ELSE Due(stream[r], f)
Owed(sent) == broken = {} => \A r \in Refs : Connected(r) => OwedBy(sent, r)

Answered == status = "answered" /\ broken = {} => Meaning(net.root) \subseteq Range(found)

History(sent) == sent \in [Refs -> SUBSET File] /\ Sound(sent) /\ Delivered(sent) /\ Owed(sent)
IInv == Types /\ Answered /\ \E sent : History(sent)

----------------------------------------------------------------------------
(* Finite sets of numbers and sequences                                       *)

LEMMA MinOfSet ==
  ASSUME NEW S \in SUBSET Nat, S # {}
  PROVE  Min(S) \in S /\ \A y \in S : Min(S) <= y
<1>1. PICK x \in S : \A y \in Nat : <<y, x>> \in OpToRel(<, Nat) => y \notin S
  BY NatLessThanWellFounded, WFMin
<1>2. ASSUME NEW y \in S PROVE x <= y
  <2>1. ~(y < x)
    BY <1>1 DEF OpToRel
  <2> QED BY <2>1
<1> QED BY <1>2 DEF Min

LEMMA MaxOfSet ==
  ASSUME NEW S \in SUBSET Nat, S # {}, IsFiniteSet(S)
  PROVE  Max(S) \in S /\ \A y \in S : y <= Max(S)
<1> DEFINE Above(x) == {y \in S : y > x}
           C == {Cardinality(Above(x)) : x \in S}
<1>1. \A x \in S : IsFiniteSet(Above(x)) /\ Cardinality(Above(x)) \in Nat
  BY FS_Subset, FS_CardinalityType
<1>2. C \subseteq Nat /\ C # {}
  BY <1>1
<1>3. Min(C) \in C /\ \A y \in C : Min(C) <= y
  <2> HIDE DEF C
  <2> QED BY <1>2, MinOfSet
<1>6. PICK x \in S : Cardinality(Above(x)) = Min(C)
  BY <1>3
<1>4. ASSUME NEW y \in S, y > x PROVE FALSE
  <2>4. y \in Nat /\ x \in Nat
    OBVIOUS
  <2>6. \A z \in S : z > y => z > x
    BY <1>4, <2>4
  <2>1. Above(y) \subseteq Above(x) /\ y \in Above(x) /\ y \notin Above(y)
    <3>1. ~(y > y)
      BY <2>4
    <3> QED BY <1>4, <2>6, <3>1
  <2>2. Cardinality(Above(y)) <= Cardinality(Above(x)) /\ Cardinality(Above(y)) # Cardinality(Above(x))
    BY <1>1, <2>1, FS_Subset
  <2>3. Cardinality(Above(y)) \in C
    OBVIOUS
  <2>5. Cardinality(Above(x)) \in Nat /\ Cardinality(Above(y)) \in Nat
    BY <1>1
  <2>7. Cardinality(Above(x)) <= Cardinality(Above(y))
    BY <1>3, <1>6, <2>3
  <2> QED BY <2>2, <2>5, <2>7
<1>5. \A y \in S : y <= x
  BY <1>4
<1> QED BY <1>5 DEF Max

LEMMA RangeIn ==
  ASSUME NEW S, NEW s \in Seq(S)
  PROVE  Range(s) \subseteq S /\ (s # <<>> => Head(s) \in Range(s) /\ Tail(s) \in Seq(S) /\ Range(Tail(s)) \subseteq Range(s))
  <1>1. Range(s) \subseteq S
    BY DEF Range
  <1>2. ASSUME s # <<>> PROVE Head(s) \in Range(s) /\ Tail(s) \in Seq(S)
    BY <1>2 DEF Range
  <1>3. ASSUME s # <<>> PROVE Range(Tail(s)) \subseteq Range(s)
    BY <1>3 DEF Range
  <1> QED BY <1>1, <1>2, <1>3

LEMMA RangeOfConcat ==
  ASSUME NEW S, NEW s \in Seq(S), NEW u \in Seq(S)
  PROVE  s \o u \in Seq(S) /\ Range(s \o u) = Range(s) \cup Range(u)
BY RangeConcatenation

LEMMA DueAppend ==
  ASSUME NEW s \in Seq(Nat), NEW u \in Seq(Nat), NEW f \in Nat, Due(s, f)
  PROVE  Due(s \o u, f)
<1>1. PICK i \in DOMAIN s : s[i] = f /\ \A j \in 1 .. i - 1 : s[j] > f
  BY DEF Due
<1>2. \A j \in 1 .. i : j \in DOMAIN (s \o u) /\ (s \o u)[j] = s[j]
  OBVIOUS
<1>3. i \in 1 .. i /\ \A j \in 1 .. i - 1 : j \in 1 .. i
  OBVIOUS
<1> QED BY <1>1, <1>2, <1>3 DEF Due

LEMMA DueAfter ==
  ASSUME NEW s \in Seq(Nat), NEW u \in Seq(Nat), NEW f \in Nat, \A g \in Range(s) : g > f, Due(u, f)
  PROVE  Due(s \o u, f)
<1>1. PICK i \in DOMAIN u : u[i] = f /\ \A j \in 1 .. i - 1 : u[j] > f
  BY DEF Due
<1>2. Len(s) + i \in DOMAIN (s \o u) /\ (s \o u)[Len(s) + i] = f
  BY <1>1
<1>3. ASSUME NEW j \in 1 .. Len(s) + i - 1 PROVE (s \o u)[j] > f
  <2>1. CASE j <= Len(s)
    BY <2>1 DEF Range
  <2>2. CASE j > Len(s)
    BY <1>1, <2>2
  <2> QED BY <2>1, <2>2
<1>4. \A j \in 1 .. (Len(s) + i) - 1 : (s \o u)[j] > f
  BY <1>3
<1> QED BY <1>2, <1>4 DEF Due

LEMMA DueHead ==
  ASSUME NEW s \in Seq(Nat), NEW f \in Nat, Due(s, f)
  PROVE  s # <<>> /\ Head(s) >= f /\ (Head(s) # f => Due(Tail(s), f))
<1>1. PICK i \in DOMAIN s : s[i] = f /\ \A j \in 1 .. i - 1 : s[j] > f
  BY DEF Due
<1>2. s # <<>> /\ Head(s) = s[1]
  BY <1>1
<1>3. Head(s) >= f
  BY <1>1, <1>2
<1>4. ASSUME Head(s) # f PROVE Due(Tail(s), f)
  <2>1. i - 1 \in DOMAIN Tail(s) /\ Tail(s)[i - 1] = f
    BY <1>1, <1>2, <1>4
  <2>2. \A j \in 1 .. i - 2 : Tail(s)[j] > f
    BY <1>1, <1>2
  <2> QED BY <1>1, <2>1, <2>2 DEF Due
<1> QED BY <1>2, <1>3, <1>4

LEMMA DueSplit ==
  ASSUME NEW s \in Seq(Nat), NEW f \in Nat, NEW k \in 1 .. Len(s), Due(s, f)
  PROVE  \/ Due(SubSeq(s, 1, k), f)
         \/ (\A g \in Range(SubSeq(s, 1, k)) : g > f) /\ Due(SubSeq(s, k + 1, Len(s)), f)
<1>1. PICK i \in DOMAIN s : s[i] = f /\ \A j \in 1 .. i - 1 : s[j] > f
  BY DEF Due
<1>2. CASE i <= k
  <2> DEFINE u == SubSeq(s, 1, k)
  <2>1. \A j \in 1 .. i : j \in DOMAIN u /\ u[j] = s[j]
    BY <1>2
  <2>2. i \in 1 .. i /\ \A j \in 1 .. i - 1 : j \in 1 .. i
    OBVIOUS
  <2> QED BY <1>1, <2>1, <2>2 DEF Due
<1>3. CASE i > k
  <2>1. \A g \in Range(SubSeq(s, 1, k)) : g > f
    BY <1>1, <1>3 DEF Range
  <2> DEFINE u == SubSeq(s, k + 1, Len(s))
  <2>2. i - k \in DOMAIN u /\ u[i - k] = f
    BY <1>1, <1>3
  <2>3. \A j \in 1 .. i - k - 1 : u[j] > f
    BY <1>1, <1>3
  <2> QED BY <2>1, <2>2, <2>3 DEF Due
<1> QED BY <1>2, <1>3

----------------------------------------------------------------------------
(* The query and its meaning                                                  *)

LEMMA Names ==
  /\ \A n : Expr(n).expr = n /\ Expr(n) # Caller
  /\ \A m, n : Expr(m) = Expr(n) => m = n
<1>1. \A n : Expr(n).expr = n
  BY DEF Expr
<1>2. ASSUME NEW n, Expr(n) = Caller PROVE FALSE
  <2>1. DOMAIN Expr(n) = {"expr"} /\ DOMAIN Caller = {"caller"}
    BY DEF Expr, Caller
  <2> QED BY <1>2, <2>1
<1> QED BY <1>1, <1>2

LEMMA Shape ==
  ASSUME WellFormed, NEW n \in Numbers
  PROVE  /\ n \in Nat /\ IsFiniteSet(Inputs(n)) /\ Expr(n) \notin Inputs(n)
         /\ Inputs(n) \subseteq Refs /\ Expr(n) \in Refs
         /\ net.es[n].op \in {"or", "and", "min"}
         /\ net.es[n].op = "and" => Inputs(n) # {}
         /\ net.es[n].op = "min" => net.es[n].low \in Nat \ {0}
         /\ \A r \in Inputs(n) : net.es[n].weight[r] \in Nat /\ (r \in Expressions => r.expr \in Numbers /\ r = Expr(r.expr))
<1>1. Expression(n) /\ n \in Nat
  BY DEF WellFormed
<1>2. Expr(n) \notin Inputs(n)
  <2>1. Expr(n) \in Expressions /\ Expr(n).expr = n
    BY Names DEF Expressions
  <2> QED BY <1>1, <2>1 DEF Expression
<1>3. \A r \in Expressions : r.expr \in Numbers /\ r = Expr(r.expr)
  BY Names DEF Expressions
<1> QED BY <1>1, <1>2, <1>3 DEF Expression, Refs, Used, Expressions

LEMMA Links ==
  /\ \A n \in Numbers : \A r \in Inputs(n) : Edge(r, n) \in Edges /\ Edge(r, n)[1] = r /\ Edge(r, n)[2] = Expr(n)
  /\ RootEdge \in Edges /\ RootEdge[1] = net.root /\ RootEdge[2] = Caller
  /\ \A e \in Edges : e[1] \in Refs
  /\ \A e \in Edges : e[2] = Caller => e = RootEdge
<1>1. \A r, n : Edge(r, n)[1] = r /\ Edge(r, n)[2] = Expr(n)
  BY DEF Edge
<1>2. RootEdge[1] = net.root /\ RootEdge[2] = Caller
  BY DEF RootEdge
<1>3. \A n \in Numbers : \A r \in Inputs(n) : Edge(r, n) \in Edges
  BY DEF Edges, Used
<1>4. \A e \in Edges : e = RootEdge \/ \E r \in Used, n \in Numbers : e = Edge(r, n)
  BY DEF Edges
<1> QED BY <1>1, <1>2, <1>3, <1>4, Names DEF Edges, Refs

LEMMA Weights ==
  ASSUME WellFormed, NEW n \in Numbers, NEW A \in SUBSET Inputs(n), NEW B \in SUBSET A
  PROVE  /\ Weight(n, A) \in Nat /\ Weight(n, B) \in Nat /\ Weight(n, B) <= Weight(n, A)
         /\ Weight(n, {}) = 0
<1> DEFINE Counted(r) == {r} \X (1 .. net.es[n].weight[r])
           F == [r \in A |-> Counted(r)]
           S == {Counted(r) : r \in A}
<1>1. IsFiniteSet(A)
  BY Shape, FS_Subset
<1>2. \A r \in A : IsFiniteSet(Counted(r))
  <2> TAKE r \in A
  <2>1. IsFiniteSet(1 .. net.es[n].weight[r])
    BY Shape, FS_Interval
  <2>2. IsFiniteSet({r})
    BY FS_Singleton
  <2> QED BY <2>1, <2>2, FS_Product
<1>3. IsFiniteSet(S)
  <2>1. F \in Surjection(A, S)
    BY DEF Surjection
  <2> QED BY <1>1, <2>1, FS_Surjection
<1>4. IsFiniteSet(UNION S)
  BY <1>2, <1>3, FS_UNION
<1>5. UNION {Counted(r) : r \in B} \in SUBSET UNION S
  OBVIOUS
<1>6. IsFiniteSet(UNION {Counted(r) : r \in B}) /\ Cardinality(UNION {Counted(r) : r \in B}) <= Cardinality(UNION S)
  BY <1>4, <1>5, FS_Subset
<1>7. Weight(n, {}) = 0
  <2>1. UNION {Counted(r) : r \in {}} = {}
    OBVIOUS
  <2> QED BY <2>1, FS_EmptySet DEF Weight
<1> QED BY <1>4, <1>6, <1>7, FS_CardinalityType DEF Weight

\* What n is given of file f, if the expressions the file meets are among met.
Given(n, f, met) == {r \in Inputs(n) : IF r \in Expressions THEN r.expr \in met ELSE f \in Holds(r)}

LEMMA FulfilsIs ==
  ASSUME WellFormed, NEW n \in Numbers, NEW f, NEW met
  PROVE  Fulfils(n, f, met) <=>
           /\ net.es[n].op = "or" => Given(n, f, met) # {}
           /\ net.es[n].op = "and" => Given(n, f, met) = Inputs(n)
           /\ net.es[n].op = "min" => Weight(n, Given(n, f, met)) >= net.es[n].low
<1> USE Shape DEF Fulfils, Given
<1>1. CASE net.es[n].op = "or"
  BY <1>1
<1>2. CASE net.es[n].op = "and"
  BY <1>2
<1>3. CASE net.es[n].op = "min"
  BY <1>3
<1> QED BY <1>1, <1>2, <1>3

LEMMA FulfilsMore ==
  ASSUME WellFormed, NEW n \in Numbers, NEW f, NEW A, NEW B \in SUBSET A, Fulfils(n, f, B)
  PROVE  Fulfils(n, f, A)
<1>1. Given(n, f, B) \subseteq Given(n, f, A) /\ Given(n, f, A) \subseteq Inputs(n)
  BY DEF Given
<1>2. net.es[n].op = "min" => Weight(n, Given(n, f, A)) >= net.es[n].low
  BY <1>1, FulfilsIs, Weights, Shape
<1>3. net.es[n].op = "or" => Given(n, f, A) # {}
  BY <1>1, FulfilsIs
<1>4. net.es[n].op = "and" => Given(n, f, A) = Inputs(n)
  BY <1>1, FulfilsIs
<1> QED BY <1>2, <1>3, <1>4, FulfilsIs

\* The expressions a file meets are those it meets given what it meets.
LEMMA MetIsFixed ==
  ASSUME WellFormed, NEW f, NEW n \in Numbers
  PROVE  n \in Met(f) <=> Fulfils(n, f, Met(f))
<1> DEFINE Closed(met) == \A m \in Numbers : Fulfils(m, f, met) => m \in met
<1>1. \A m \in Numbers : m \in Met(f) <=> \A met \in SUBSET Numbers : Closed(met) => m \in met
  BY DEF Met
<1> HIDE DEF Closed
<1>2. ASSUME NEW m \in Numbers, Fulfils(m, f, Met(f)) PROVE m \in Met(f)
  <2> SUFFICES ASSUME NEW met \in SUBSET Numbers, Closed(met) PROVE m \in met
    BY <1>1
  <2>1. Met(f) \subseteq met
    BY <1>1 DEF Met
  <2>2. Fulfils(m, f, met)
    BY <1>2, <2>1, FulfilsMore
  <2> QED BY <2>2 DEF Closed
<1>3. ASSUME n \in Met(f) PROVE Fulfils(n, f, Met(f))
  <2> DEFINE M == {m \in Numbers : Fulfils(m, f, Met(f))}
  <2>1. M \subseteq Met(f)
    BY <1>2
  <2>2. Closed(M)
    BY <2>1, FulfilsMore DEF Closed
  <2> QED BY <1>1, <1>3, <2>2
<1> QED BY <1>2, <1>3

\* What expression n means, by the meaning of its inputs.
Inside(n, f) == {q \in Inputs(n) : f \in Meaning(q)}

LEMMA MeaningIs ==
  ASSUME WellFormed, NEW n \in Numbers, NEW f \in File
  PROVE  f \in Meaning(Expr(n)) <=>
           /\ net.es[n].op = "or" => Inside(n, f) # {}
           /\ net.es[n].op = "and" => Inside(n, f) = Inputs(n)
           /\ net.es[n].op = "min" => Weight(n, Inside(n, f)) >= net.es[n].low
<1>1. f \in Meaning(Expr(n)) <=> n \in Met(f)
  BY Names DEF Meaning, Expressions
<1>2. Given(n, f, Met(f)) = Inside(n, f)
  BY DEF Given, Inside, Meaning
<1> QED BY <1>1, <1>2, MetIsFixed, FulfilsIs

LEMMA FilesAreNumbers ==
  ASSUME Types
  PROVE  File \subseteq Nat \ {0} /\ (\A r : Meaning(r) \subseteq File)
         /\ (\A t \in DOMAIN numbers : Meaning(t) = Range(numbers[t]) /\ t \in Refs /\ t \notin Expressions)
         /\ (\A r : r \notin Expressions /\ r \notin DOMAIN numbers => Meaning(r) = {})
<1>1. \A t \in DOMAIN numbers : Range(numbers[t]) \subseteq Nat \ {0}
  BY RangeIn DEF Types
<1>2. File \subseteq Nat \ {0}
  BY <1>1 DEF File, Holds
<1>3. \A t \in DOMAIN numbers : t \in Used /\ t \notin Expressions
  BY DEF Types, TrigramRefs
<1> QED BY <1>2, <1>3 DEF Meaning, Holds, File, Refs

----------------------------------------------------------------------------
(* Steps that keep the query                                                  *)

LEMMA SameQuery ==
  ASSUME WellFormed, UNCHANGED <<net, numbers>>
  PROVE  /\ Numbers' = Numbers /\ Expressions' = Expressions /\ Edges' = Edges /\ RootEdge' = RootEdge
         /\ Refs' = Refs /\ File' = File /\ WellFormed' = WellFormed /\ TrigramRefs' = TrigramRefs
         /\ \A n : Inputs(n)' = Inputs(n)
         /\ \A n, refs : Weight(n, refs)' = Weight(n, refs)
         /\ \A r : Meaning(r)' = Meaning(r)
<1>1. Numbers' = Numbers /\ (\A n : Inputs(n)' = Inputs(n))
  BY DEF Numbers, Inputs
<1>2. Expressions' = Expressions /\ Used' = Used /\ RootEdge' = RootEdge
  BY <1>1 DEF Expressions, Used, RootEdge, Numbers, Inputs
<1>3. Edges' = Edges /\ Refs' = Refs /\ TrigramRefs' = TrigramRefs
  BY <1>1, <1>2 DEF Edges, Refs, TrigramRefs
<1>4. \A n, refs : Weight(n, refs)' = Weight(n, refs)
  BY DEF Weight
<1>5. \A t : Holds(t)' = Holds(t)
  BY DEF Holds
<1>6. File' = File
  BY <1>5 DEF File
<1>7. ASSUME NEW n \in Numbers, NEW f, NEW met PROVE Fulfils(n, f, met)' <=> Fulfils(n, f, met)
  <2>1. Given(n, f, met)' = Given(n, f, met)
    BY <1>1, <1>2, <1>5 DEF Given
  <2>2. Weight(n, Given(n, f, met))' = Weight(n, Given(n, f, met))
    BY <2>1 DEF Weight
  <2>3. net.es[n].op \in {"or", "and", "min"} /\ net' = net
    BY Shape
  <2> DEFINE G == Given(n, f, met)
             W == Weight(n, G)
  <2>4. Fulfils(n, f, met) <=> CASE net.es[n].op = "or" -> G # {}
                               [] net.es[n].op = "and" -> G = Inputs(n)
                               [] net.es[n].op = "min" -> W >= net.es[n].low
    BY DEF Fulfils, Given
  <2>5. Fulfils(n, f, met)' <=> CASE net'.es[n].op = "or" -> G' # {}
                               [] net'.es[n].op = "and" -> G' = Inputs(n)'
                               [] net'.es[n].op = "min" -> W' >= net'.es[n].low
    BY DEF Fulfils, Given
  <2> HIDE DEF G, W
  <2>6. G' = G /\ W' = W
    BY <2>1, <2>2 DEF G, W
  <2> QED BY <1>1, <2>3, <2>4, <2>5, <2>6
<1>8. \A f : Met(f)' = Met(f)
  BY <1>1, <1>7 DEF Met
<1>9. \A r : Meaning(r)' = Meaning(r)
  BY <1>2, <1>5, <1>6, <1>8 DEF Meaning
<1>10. WellFormed' = WellFormed
  BY <1>1, <1>2 DEF WellFormed, Expression
<1> QED BY <1>1, <1>2, <1>3, <1>4, <1>6, <1>9, <1>10

\* Files not sent are below those sent, and come first among what is sent next.
InOrder(sent, x, out) ==
  \A f \in Meaning(x) \ sent[x] : (\A g \in sent[x] : g > f) /\ (f \in Range(out) => Due(out, f))

\* An input still has a file for an expression after more is sent to it, and after its
\* head is skipped, if that is another file.
LEMMA WaitsKept ==
  ASSUME Types, Running, NEW sent, History(sent), NEW m \in Numbers, NEW q \in Inputs(m), NEW f \in File,
         NEW x, NEW out \in Seq(File), InOrder(sent, x, out),
         UNCHANGED <<net, numbers>>,
         q = x => chan'[Edge(q, m)] = chan[Edge(q, m)] \o out,
         q # x => \/ chan'[Edge(q, m)] = chan[Edge(q, m)]
                  \/ chan'[Edge(q, m)] = Tail(chan[Edge(q, m)]) /\ Head(chan[Edge(q, m)]) # f,
         NEW s2, s2[q] = IF q = x THEN sent[x] \cup Range(out) ELSE sent[q],
         Waits(sent, q, m, f)
  PROVE  Waits(s2, q, m, f)'
<1> DEFINE c == chan[Edge(q, m)]
<1>1. f \in Meaning(q) /\ f \in Meaning(q)'
  BY SameQuery DEF Types, Waits
<1>2. c \in Seq(File) /\ Range(c) \subseteq sent[q] /\ c \in Seq(Nat) /\ out \in Seq(Nat) /\ f \in Nat
  <2>1. Edge(q, m) \in Edges /\ Edge(q, m)[1] = q /\ File \subseteq Nat
    BY Links, FilesAreNumbers
  <2>2. c \in Seq(File) /\ Range(c) \subseteq sent[q]
    BY <2>1 DEF Types, History, Sound
  <2> QED BY <2>1, <2>2, SeqMonotonic
<1>3. CASE q # x
  <2>1. CASE f \notin sent[q]
    BY <1>1, <1>3, <2>1 DEF Waits
  <2>2. CASE Due(c, f)
    <3>1. Due(chan'[Edge(q, m)], f)
      BY <1>2, <1>3, <2>2, DueHead
    <3> QED BY <1>1, <3>1 DEF Waits
  <2> QED BY <2>1, <2>2 DEF Waits
<1>4. CASE q = x
  <2>1. CASE Due(c, f)
    <3>1. Due(c \o out, f)
      BY <1>2, <2>1, DueAppend
    <3> QED BY <1>1, <1>4, <3>1 DEF Waits
  <2>2. CASE f \notin sent[q] /\ f \notin Range(out)
    BY <1>1, <1>4, <2>2 DEF Waits
  <2>3. CASE f \notin sent[q] /\ f \in Range(out)
    <3>1. Due(out, f) /\ \A g \in sent[q] : g > f
      BY <1>1, <1>4, <2>3 DEF InOrder
    <3>2. Due(c \o out, f)
      BY <1>2, <3>1, DueAfter
    <3> QED BY <1>1, <1>4, <3>2 DEF Waits
  <2> QED BY <2>1, <2>2, <2>3 DEF Waits
<1> QED BY <1>3, <1>4

\* What more inputs have comes as well.
LEMMA ComingKept ==
  ASSUME Types, UNCHANGED <<net, numbers>>, NEW sent, NEW s2, NEW n \in Numbers, NEW f, Coming(sent, n, f),
         \A q \in Inputs(n) : Waits(sent, q, n, f) => Waits(s2, q, n, f)',
         net.es[n].op = "and" => candidate'[n] = 0 \/ candidate'[n] >= f
  PROVE  Coming(s2, n, f)'
<1>1. Feeds(sent, n, f) \subseteq Feeds(s2, n, f)' /\ Feeds(s2, n, f)' \subseteq Inputs(n)
  BY SameQuery DEF Types, Feeds
<1>2. net.es[n].op = "min" => Weight(n, Feeds(s2, n, f)') >= net.es[n].low
  <2>1. WellFormed
    BY DEF Types
  <2> HIDE DEF Feeds
  <2> QED BY <1>1, <2>1, Weights, Shape DEF Coming
<1>3. Weight(n, Feeds(s2, n, f))' = Weight(n, Feeds(s2, n, f)')
  BY DEF Weight
<1> QED BY <1>1, <1>2, <1>3, SameQuery DEF Types, Coming

\* Sender x sends out; if it is an expression it skips the heads of some inputs.
Sends(x, out, skipped) ==
  /\ chan' = [e \in Edges |-> IF e[1] = x THEN chan[e] \o out
                             ELSE IF e[2] = x /\ e[1] \in skipped THEN Tail(chan[e]) ELSE chan[e]]
  /\ skipped # {} => x # Caller /\ \A e \in Edges : e[2] = x /\ e[1] \in skipped => chan[e] # <<>>
  /\ senders' \subseteq senders /\ senders \subseteq senders' \cup {x}
  /\ \A n \in Numbers : Expr(n) # x => candidate'[n] = candidate[n]
  /\ \A t \in DOMAIN numbers : t # x => stream'[t] = stream[t]
  /\ UNCHANGED <<net, numbers, status, found, broken>>

LEMMA SentChannels ==
  ASSUME Types, Running, NEW sent, History(sent), NEW x \in Refs, NEW out \in Seq(File), NEW skipped,
         Sends(x, out, skipped), Range(out) \subseteq Meaning(x),
         NEW s2, s2 = [sent EXCEPT ![x] = @ \cup Range(out)]
  PROVE  /\ chan' \in [Edges -> Seq(File)] /\ s2 \in [Refs -> SUBSET File]
         /\ Sound(s2)' /\ Delivered(s2)'
<1>1. s2 \in [Refs -> SUBSET File] /\ \A r \in Refs : s2[r] = IF r = x THEN sent[x] \cup Range(out) ELSE sent[r]
  BY RangeIn DEF History
<1>2. ASSUME NEW e \in Edges PROVE chan'[e] \in Seq(File) /\ Range(chan'[e]) \subseteq s2[e[1]]
  <2>1. chan[e] \in Seq(File) /\ Range(chan[e]) \subseteq sent[e[1]] /\ e[1] \in Refs
    BY Links DEF Types, History, Sound
  <2>2. CASE e[1] = x
    <3>1. chan'[e] = chan[e] \o out
      BY <2>2 DEF Sends
    <3> QED BY <1>1, <2>1, <2>2, <3>1, RangeOfConcat
  <2>3. CASE e[1] # x /\ e[2] = x /\ e[1] \in skipped
    <3>1. chan'[e] = Tail(chan[e]) /\ chan[e] # <<>>
      BY <2>3 DEF Sends
    <3> QED BY <1>1, <2>1, <2>3, <3>1, RangeIn
  <2>4. CASE e[1] # x /\ ~(e[2] = x /\ e[1] \in skipped)
    <3>1. chan'[e] = chan[e]
      BY <2>4 DEF Sends
    <3> QED BY <1>1, <2>1, <2>4, <3>1
  <2> QED BY <2>2, <2>3, <2>4
<1>3. chan' \in [Edges -> Seq(File)]
  BY <1>2 DEF Sends
<1>4. Edges' = Edges /\ Refs' = Refs /\ RootEdge' = RootEdge /\ net' = net /\ found' = found /\ (Running' <=> Running)
      /\ \A r : Meaning(r)' = Meaning(r)
  BY SameQuery DEF Sends, Types, Running
<1>5. \A r \in Refs : s2[r] \subseteq Meaning(r) /\ sent[r] \subseteq s2[r]
  BY <1>1 DEF History, Sound
<1>6. net.root \in Refs
  BY DEF Refs
<1>7. Sound(s2)'
  BY <1>2, <1>4, <1>5, <1>6 DEF History, Sound
<1>8. s2[net.root] \subseteq Range(found) \cup Range(chan'[RootEdge])
  <2>1. RootEdge \in Edges /\ RootEdge[1] = net.root /\ RootEdge[2] = Caller /\ chan[RootEdge] \in Seq(File)
    BY Links DEF Types
  <2>2. sent[net.root] \subseteq Range(found) \cup Range(chan[RootEdge])
    BY DEF History, Delivered
  <2>3. CASE net.root = x
    <3>1. chan'[RootEdge] = chan[RootEdge] \o out
      BY <2>1, <2>3 DEF Sends
    <3> QED BY <1>1, <1>6, <2>1, <2>2, <2>3, <3>1, RangeOfConcat
  <2>4. CASE net.root # x
    <3>1. chan'[RootEdge] = chan[RootEdge]
      BY <2>1, <2>4 DEF Sends
    <3> QED BY <1>1, <1>6, <2>2, <2>4, <3>1
  <2> QED BY <2>3, <2>4
<1> QED BY <1>1, <1>3, <1>4, <1>7, <1>8 DEF Delivered

LEMMA Connection ==
  ASSUME UNCHANGED <<net, numbers, status>>, WellFormed, senders' \subseteq senders
  PROVE  \A r : Connected(r)' => Connected(r)
<1>1. \A who : Listens(who)' => Listens(who)
  BY DEF Listens
<1> QED BY <1>1, SameQuery DEF Connected

LEMMA Listening ==
  ASSUME NEW n \in Numbers, NEW q \in Inputs(n), Expr(n) \in senders
  PROVE  Connected(q)
BY Links, Names DEF Connected, Listens

\* What is sent in order is owed no more, and everything else is owed as before.
LEMMA SentHistory ==
  ASSUME Types, Running, NEW sent, History(sent), NEW x \in Refs, NEW out \in Seq(File), NEW skipped,
         Sends(x, out, skipped), Range(out) \subseteq Meaning(x),
         NEW s2, s2 = [sent EXCEPT ![x] = @ \cup Range(out)],
         broken = {} /\ Connected(x)' => InOrder(sent, x, out) /\ OwedBy(s2, x)'
  PROVE  History(s2)'
<1>1. s2 \in [Refs -> SUBSET File] /\ Sound(s2)' /\ Delivered(s2)'
  BY SentChannels
<1>2. WellFormed /\ UNCHANGED <<net, numbers, status, found, broken>> /\ senders' \subseteq senders
  BY DEF Types, Sends
<1>3. Refs' = Refs /\ File' = File /\ Expressions' = Expressions /\ \A r : Meaning(r)' = Meaning(r)
  BY <1>2, SameQuery
<1>4. ASSUME broken = {}, NEW r \in Refs, Connected(r)', r # x PROVE OwedBy(s2, r)'
  <2>1. OwedBy(sent, r)
    BY <1>2, <1>4, Connection DEF History, Owed
  <2>2. s2[r] = sent[r]
    BY <1>4 DEF History
  <2> SUFFICES ASSUME NEW f \in Meaning(r) \ sent[r]
               PROVE  /\ r \in senders' /\ \A g \in sent[r] : g > f
                      /\ IF r \in Expressions THEN Coming(s2, r.expr, f)' ELSE Due(stream'[r], f)
    BY <1>3, <2>2 DEF OwedBy
  <2>3. r \in senders /\ r \in senders' /\ \A g \in sent[r] : g > f
    BY <1>4, <2>1 DEF OwedBy, Sends
  <2>4. CASE r \in Expressions
    <3> DEFINE m == r.expr
    <3>1. m \in Numbers /\ r = Expr(m)
      BY <2>4, Names DEF Expressions
    <3> HIDE DEF m
    <3>2. Coming(sent, m, f)
      BY <2>1, <2>4 DEF OwedBy, m
    <3>3. ASSUME NEW q \in Inputs(m), Waits(sent, q, m, f) PROVE Waits(s2, q, m, f)'
      <4> DEFINE e == Edge(q, m)
      <4>1. e \in Edges /\ e[1] = q /\ e[2] = r /\ q \in Refs
        BY <1>2, <3>1, Links, Shape
      <4>2. chan'[e] = IF q = x THEN chan[e] \o out ELSE chan[e]
        BY <1>4, <4>1 DEF Sends
      <4>3. s2[q] = IF q = x THEN sent[x] \cup Range(out) ELSE sent[q]
        BY <4>1 DEF History
      <4>4. f \in File
        BY FilesAreNumbers
      <4>5. CASE q = x
        <5>1. Connected(q)'
          <6>1. e \in Edges' /\ r # Caller
            BY <1>2, <3>1, <4>1, SameQuery, Names
          <6> QED BY <2>3, <4>1, <6>1 DEF Connected, Listens
        <5>2. InOrder(sent, x, out)
          BY <1>4, <4>5, <5>1
        <5> QED BY <1>2, <3>1, <3>3, <4>2, <4>3, <4>4, <4>5, <5>2, WaitsKept
      <4>6. CASE q # x
        <5>1. f \in Meaning(q)' /\ (f \notin s2[q] \/ Due(chan'[e], f))
          BY <1>3, <3>3, <4>2, <4>3, <4>6 DEF Waits
        <5> QED BY <5>1 DEF Waits
      <4> QED BY <4>5, <4>6
    <3>4. candidate'[m] = candidate[m]
      BY <1>4, <3>1 DEF Sends
    <3>5. Coming(s2, m, f)'
      BY <1>2, <3>1, <3>2, <3>3, <3>4, ComingKept DEF Coming
    <3> QED BY <2>3, <2>4, <3>5 DEF m
  <2>5. CASE r \notin Expressions
    <3>1. Due(stream[r], f)
      BY <2>1, <2>5 DEF OwedBy
    <3>2. r \in DOMAIN numbers
      BY <2>5, FilesAreNumbers
    <3>3. stream'[r] = stream[r]
      BY <1>4, <3>2 DEF Sends
    <3> QED BY <2>3, <2>5, <3>1, <3>3
  <2> QED BY <2>4, <2>5
<1>5. Owed(s2)'
  BY <1>2, <1>3, <1>4 DEF Owed
<1> QED BY <1>1, <1>3, <1>5 DEF History

\* Sender x ends, when nothing is owed by it.
LEMMA EndedHistory ==
  ASSUME Types, NEW sent, History(sent), NEW x,
         UNCHANGED <<net, chan, candidate, status, found, numbers, stream>>, senders' = senders \ {x},
         broken' = {} => broken = {},
         broken' = {} /\ x \in Refs /\ Connected(x)' => Meaning(x) \subseteq sent[x]
  PROVE  History(sent)'
<1>1. WellFormed /\ senders' \subseteq senders
  BY DEF Types
<1>2. /\ Refs' = Refs /\ File' = File /\ Expressions' = Expressions /\ Edges' = Edges /\ RootEdge' = RootEdge
      /\ Numbers' = Numbers /\ (\A n : Inputs(n)' = Inputs(n)) /\ (\A r : Meaning(r)' = Meaning(r)) /\ (Running' <=> Running)
  BY <1>1, SameQuery DEF Running
<1>3. Sound(sent)' /\ Delivered(sent)'
  BY <1>2 DEF History, Sound, Delivered
<1>4. ASSUME broken' = {}, NEW r \in Refs, Connected(r)' PROVE OwedBy(sent, r)'
  <2>1. OwedBy(sent, r)
    BY <1>1, <1>4, Connection DEF History, Owed
  <2> SUFFICES ASSUME NEW f \in Meaning(r) \ sent[r]
               PROVE  /\ r \in senders' /\ \A g \in sent[r] : g > f
                      /\ IF r \in Expressions THEN Coming(sent, r.expr, f)' ELSE Due(stream'[r], f)
    BY <1>2 DEF OwedBy
  <2>2. r # x
    BY <1>4
  <2>3. r \in senders' /\ (\A g \in sent[r] : g > f) /\ (r \notin Expressions => Due(stream'[r], f))
    BY <2>1, <2>2 DEF OwedBy
  <2>4. ASSUME r \in Expressions PROVE Coming(sent, r.expr, f)'
    <3>1. r.expr \in Numbers /\ Coming(sent, r.expr, f)
      BY <2>1, <2>4, Names DEF OwedBy, Expressions
    <3>2. \A q \in Inputs(r.expr) : Waits(sent, q, r.expr, f) => Waits(sent, q, r.expr, f)'
      BY <1>2 DEF Waits
    <3> HIDE DEF Waits
    <3> QED BY <3>1, <3>2, ComingKept DEF Coming
  <2> QED BY <2>3, <2>4
<1>5. Owed(sent)'
  BY <1>2, <1>4 DEF Owed
<1> QED BY <1>2, <1>3, <1>5 DEF History

----------------------------------------------------------------------------
(* The caller and the readers                                                 *)

LEMMA InitInv == Init => IInv
<1> SUFFICES ASSUME Init PROVE IInv
  OBVIOUS
<1> DEFINE sent == [r \in Refs |-> {}]
<1>1. Types
  <2>1. \A t \in DOMAIN numbers : numbers[t] \in Seq(File)
    <3> SUFFICES ASSUME NEW t \in DOMAIN numbers PROVE numbers[t] \in Seq(File)
      OBVIOUS
    <3>1. numbers[t] \in Seq(Nat \ {0}) /\ Range(numbers[t]) \subseteq File
      BY DEF Init, File, Holds
    <3> QED BY <3>1 DEF Range
  <2>2. <<>> \in Seq(File)
    OBVIOUS
  <2> QED BY <2>1, <2>2 DEF Init, StartEmpty, Types, Running
<1>2. History(sent)
  <2>1. sent \in [Refs -> SUBSET File] /\ Sound(sent) /\ Delivered(sent)
    <3>1. Range(<<>>) = {}
      BY DEF Range
    <3> QED BY <3>1 DEF Init, StartEmpty, Sound, Delivered, Running, Refs
  <2>2. \A r : ~Connected(r)
    BY DEF Init, StartEmpty, Connected, Listens
  <2> QED BY <2>1, <2>2 DEF History, Owed
<1>3. Answered
  BY DEF Init, StartEmpty, Answered
<1> QED BY <1>1, <1>2, <1>3 DEF IInv

LEMMA SetupInv ==
  ASSUME IInv, Setup(DOMAIN numbers), UNCHANGED <<numbers, stream, broken>>
  PROVE  IInv'
<1> DEFINE sent == [r \in Refs |-> {}]
<1>1. Types /\ WellFormed /\ UNCHANGED <<net, numbers>> /\ status = "new"
  BY DEF IInv, Types, Setup
<1>2. /\ Refs' = Refs /\ File' = File /\ Expressions' = Expressions /\ Edges' = Edges /\ RootEdge' = RootEdge
      /\ Numbers' = Numbers /\ (\A n : Inputs(n)' = Inputs(n)) /\ (\A r : Meaning(r)' = Meaning(r))
      /\ WellFormed' /\ TrigramRefs' = TrigramRefs
  BY <1>1, SameQuery
<1>3. Types'
  BY <1>1, <1>2 DEF Types, Setup, Running, Descending
<1>4. sent \in [Refs -> SUBSET File] /\ Sound(sent)' /\ Delivered(sent)'
  <2>1. Range(<<>>) = {}
    BY DEF Range
  <2>2. net.root \in Refs /\ \A e \in Edges : e[1] \in Refs
    BY Links DEF Refs
  <2> QED BY <1>1, <1>2, <2>1, <2>2 DEF Types, Running, Setup, Sound, Delivered
<1>5. ASSUME NEW r \in Refs PROVE OwedBy(sent, r)'
  <2> SUFFICES ASSUME NEW f \in Meaning(r)
               PROVE  r \in senders' /\ IF r \in Expressions THEN Coming(sent, r.expr, f)' ELSE Due(stream'[r], f)
    BY <1>2 DEF OwedBy
  <2>1. f \in File
    BY <1>1, FilesAreNumbers
  <2>2. CASE r \in Expressions
    <3> DEFINE n == r.expr
    <3>1. n \in Numbers /\ r = Expr(n)
      BY <2>2, Names DEF Expressions
    <3> HIDE DEF n
    <3>2. Inputs(n) \subseteq Refs /\ candidate[n] = 0
      BY <1>1, <3>1, Shape DEF Types
    <3>3. Feeds(sent, n, f)' = Inside(n, f)
      BY <1>2, <3>2 DEF Feeds, Waits, Inside
    <3>4. Weight(n, Feeds(sent, n, f))' = Weight(n, Inside(n, f))
      BY <1>1, <3>3 DEF Weight
    <3>5. candidate'[n] = 0
      BY <3>2 DEF Setup
    <3>6. Coming(sent, n, f)'
      BY <1>1, <1>2, <2>1, <3>1, <3>3, <3>4, <3>5, MeaningIs DEF Coming
    <3> QED BY <2>2, <3>6 DEF n, Setup
  <2>3. CASE r \notin Expressions
    <3>1. r \in DOMAIN numbers /\ f \in Range(numbers[r])
      BY <1>1, <2>3, FilesAreNumbers
    <3>2. Due(numbers[r], f)
      BY <1>1, <3>1 DEF Types, Descending, Due
    <3> QED BY <1>1, <2>3, <3>1, <3>2 DEF Types, Setup
  <2> QED BY <2>2, <2>3
<1>6. History(sent)'
  BY <1>2, <1>4, <1>5 DEF History, Owed
<1>7. Answered'
  BY DEF Setup, Answered
<1> QED BY <1>3, <1>6, <1>7 DEF IInv

\* Nothing is sent before the caller reads.
LEMMA SendersRun ==
  ASSUME Types, NEW x \in senders
  PROVE  Running
BY DEF Types

LEMMA SetupFailsInv ==
  ASSUME IInv, SetupFails, UNCHANGED <<numbers, stream, broken>>
  PROVE  IInv'
<1>1. Types /\ WellFormed /\ UNCHANGED <<net, numbers>> /\ status = "new" /\ ~Running /\ ~Running'
  BY DEF IInv, Types, SetupFails, Running
<1>2. /\ Refs' = Refs /\ File' = File /\ Expressions' = Expressions /\ Edges' = Edges /\ RootEdge' = RootEdge
      /\ Numbers' = Numbers /\ (\A n : Inputs(n)' = Inputs(n)) /\ (\A r : Meaning(r)' = Meaning(r))
      /\ WellFormed' /\ TrigramRefs' = TrigramRefs
  BY <1>1, SameQuery
<1>3. Types'
  BY <1>1, <1>2 DEF Types, SetupFails, Descending
<1>4. PICK sent : History(sent)
  BY DEF IInv
<1>5. \A r : ~Connected(r)'
  BY <1>1 DEF Types, SetupFails, Connected, Listens
<1>6. History(sent)'
  BY <1>1, <1>2, <1>4, <1>5 DEF SetupFails, History, Sound, Delivered, Owed
<1> QED BY <1>3, <1>6 DEF IInv, Answered, SetupFails

LEMMA ReceiveInv ==
  ASSUME IInv, Receive, UNCHANGED <<numbers, stream, broken>>
  PROVE  IInv'
<1> DEFINE c == chan[RootEdge]
<1>1. Types /\ WellFormed /\ UNCHANGED <<net, numbers, senders, candidate, status, stream, broken>> /\ Running /\ Running'
  BY DEF IInv, Types, Receive, Running
<1>2. /\ Refs' = Refs /\ File' = File /\ Expressions' = Expressions /\ Edges' = Edges /\ RootEdge' = RootEdge
      /\ Numbers' = Numbers /\ (\A n : Inputs(n)' = Inputs(n)) /\ (\A r : Meaning(r)' = Meaning(r))
      /\ WellFormed' /\ TrigramRefs' = TrigramRefs
  BY <1>1, SameQuery
<1>3. PICK sent : History(sent)
  BY DEF IInv
<1>4. RootEdge \in Edges /\ c \in Seq(File) /\ c # <<>> /\ Range(c) \subseteq sent[net.root] /\ found \in Seq(File)
  BY <1>1, <1>3, Links DEF Types, Receive, History, Sound
<1>5. /\ Head(c) \in File /\ Head(c) \in Range(c) /\ Tail(c) \in Seq(File) /\ Range(Tail(c)) \subseteq Range(c)
      /\ Range(c) \subseteq {Head(c)} \cup Range(Tail(c))
  <2>1. ASSUME NEW i \in DOMAIN c, i # 1 PROVE c[i] \in Range(Tail(c))
    <3>1. i - 1 \in DOMAIN Tail(c) /\ Tail(c)[i - 1] = c[i]
      BY <1>4, <2>1
    <3> QED BY <3>1 DEF Range
  <2>2. Range(c) \subseteq {Head(c)} \cup Range(Tail(c))
    BY <1>4, <2>1 DEF Range
  <2> QED BY <1>4, <2>2, RangeIn
<1>6. found' \in Seq(File) /\ Range(found') = Range(found) \cup {Head(c)}
  <2>0. found' = Append(found, Head(c))
    BY DEF Receive
  <2>1. found' = found \o <<Head(c)>>
    <3> HIDE DEF c
    <3> QED BY <1>4, <1>5, <2>0, AppendIsConcat
  <2>2. <<Head(c)>> \in Seq(File) /\ Range(<<Head(c)>>) = {Head(c)}
    BY <1>5 DEF Range
  <2>3. PICK u : u = <<Head(c)>>
    OBVIOUS
  <2>4. u \in Seq(File) /\ found \in Seq(File)
    BY <1>4, <2>2, <2>3
  <2>5. found \o u \in Seq(File) /\ Range(found \o u) = Range(found) \cup Range(u)
    BY <2>4, RangeOfConcat
  <2> QED BY <2>1, <2>2, <2>3, <2>5
<1>7. chan' \in [Edges -> Seq(File)] /\ \A e \in Edges : chan'[e] = IF e = RootEdge THEN Tail(c) ELSE chan[e]
  BY <1>1, <1>4, <1>5 DEF Types, Receive
<1>8. Types'
  BY <1>1, <1>2, <1>6, <1>7 DEF Types, Descending
<1>9. Sound(sent)' /\ Delivered(sent)'
  <2>1. RootEdge[1] = net.root
    BY Links
  <2> QED BY <1>1, <1>2, <1>3, <1>4, <1>5, <1>6, <1>7, <2>1 DEF History, Sound, Delivered
<1>10. \A r : Connected(r)' <=> Connected(r)
  BY <1>1, <1>2 DEF Connected, Listens
<1>11. \A n \in Numbers : \A q \in Inputs(n) : chan'[Edge(q, n)] = chan[Edge(q, n)]
  BY <1>7, Links, Names
<1>12. ASSUME NEW r \in Refs, OwedBy(sent, r) PROVE OwedBy(sent, r)'
  <2>1. ASSUME NEW f, r \in Expressions, Coming(sent, r.expr, f) PROVE Coming(sent, r.expr, f)'
    <3>1. r.expr \in Numbers
      BY <2>1, Names DEF Expressions
    <3>2. \A q \in Inputs(r.expr) : Waits(sent, q, r.expr, f) => Waits(sent, q, r.expr, f)'
      BY <1>2, <1>11, <3>1 DEF Waits
    <3> HIDE DEF Waits
    <3> QED BY <1>1, <2>1, <3>1, <3>2, ComingKept DEF Coming
  <2> QED BY <1>1, <1>2, <1>12, <2>1 DEF OwedBy
<1>13. History(sent)'
  BY <1>1, <1>2, <1>3, <1>9, <1>10, <1>12 DEF History, Owed
<1>14. Answered'
  BY DEF Receive, Answered
<1> QED BY <1>8, <1>13, <1>14 DEF IInv

LEMMA RootEndsInv ==
  ASSUME IInv, RootEnds, UNCHANGED <<numbers, stream, broken>>
  PROVE  IInv'
<1>1. Types /\ WellFormed /\ UNCHANGED <<net, numbers, chan, senders, candidate, found, stream, broken>> /\ Running /\ Running'
  BY DEF IInv, Types, RootEnds, Running
<1>2. /\ Refs' = Refs /\ File' = File /\ Expressions' = Expressions /\ Edges' = Edges /\ RootEdge' = RootEdge
      /\ Numbers' = Numbers /\ (\A n : Inputs(n)' = Inputs(n)) /\ (\A r : Meaning(r)' = Meaning(r))
      /\ WellFormed' /\ TrigramRefs' = TrigramRefs
  BY <1>1, SameQuery
<1>3. PICK sent : History(sent)
  BY DEF IInv
<1>4. Types'
  BY <1>1, <1>2 DEF Types, RootEnds, Descending
<1>5. \A r : Connected(r)' => Connected(r)
  <2>1. \A who : Listens(who)' => Listens(who)
    BY <1>1 DEF Listens, RootEnds
  <2> QED BY <1>2, <2>1 DEF Connected
<1>6. ASSUME NEW r \in Refs, OwedBy(sent, r) PROVE OwedBy(sent, r)'
  <2>1. ASSUME NEW f, r \in Expressions, Coming(sent, r.expr, f) PROVE Coming(sent, r.expr, f)'
    <3>1. r.expr \in Numbers
      BY <2>1, Names DEF Expressions
    <3>2. \A q \in Inputs(r.expr) : Waits(sent, q, r.expr, f) => Waits(sent, q, r.expr, f)'
      BY <1>1, <1>2 DEF Waits
    <3> HIDE DEF Waits
    <3> QED BY <1>1, <2>1, <3>1, <3>2, ComingKept DEF Coming
  <2> QED BY <1>1, <1>2, <1>6, <2>1 DEF OwedBy
<1>7. History(sent)'
  BY <1>1, <1>2, <1>3, <1>5, <1>6 DEF History, Sound, Delivered, Owed
<1>8. ASSUME broken = {} PROVE Meaning(net.root) \subseteq Range(found)
  <2>1. net.root \in Refs /\ Connected(net.root) /\ net.root \notin senders
    BY Links DEF Refs, Connected, Listens, RootEnds
  <2>2. Meaning(net.root) \subseteq sent[net.root]
    BY <1>3, <1>8, <2>1 DEF History, Owed, OwedBy
  <2>3. sent[net.root] \subseteq Range(found)
    <3>1. Range(chan[RootEdge]) = {}
      BY DEF RootEnds, Range
    <3> QED BY <1>1, <1>3, <3>1 DEF History, Delivered
  <2> QED BY <2>2, <2>3
<1>9. Answered'
  BY <1>1, <1>2, <1>8 DEF Answered
<1> QED BY <1>4, <1>7, <1>9 DEF IInv

\* A reader that ends, or fails.
LEMMA ReaderEndsInv ==
  ASSUME IInv, NEW t \in DOMAIN numbers, EndOfChain(t) \/ ReadFails(t)
  PROVE  IInv'
<1>1. Types /\ WellFormed /\ UNCHANGED <<net, chan, candidate, status, found, numbers, stream>> /\ senders' = senders \ {t}
      /\ (broken' = {} => broken = {} /\ stream[t] = <<>>) /\ t \in senders
  BY DEF IInv, Types, EndOfChain, ReadFails
<1>2. /\ File' = File /\ Expressions' = Expressions /\ Edges' = Edges /\ Numbers' = Numbers
      /\ WellFormed' /\ TrigramRefs' = TrigramRefs /\ Running /\ Running'
  BY <1>1, SameQuery, SendersRun DEF Running
<1>3. Types'
  BY <1>1, <1>2 DEF Types, Descending
<1>4. PICK sent : History(sent)
  BY DEF IInv
<1>5. ASSUME broken' = {}, t \in Refs, Connected(t)' PROVE Meaning(t) \subseteq sent[t]
  <2>1. Connected(t)
    BY <1>1, <1>5, Connection
  <2>2. t \notin Expressions /\ OwedBy(sent, t)
    BY <1>1, <1>4, <1>5, <2>1, FilesAreNumbers DEF History, Owed
  <2>3. \A f : ~Due(stream[t], f)
    BY <1>1, <1>5 DEF Due
  <2> QED BY <2>2, <2>3 DEF OwedBy
<1>6. History(sent)'
  BY <1>1, <1>4, <1>5, EndedHistory
<1>7. Answered'
  <2>1. RootEdge' = RootEdge /\ net' = net /\ \A r : Meaning(r)' = Meaning(r)
    BY <1>1, SameQuery
  <2> QED BY <1>1, <2>1 DEF IInv, Answered
<1> QED BY <1>3, <1>6, <1>7 DEF IInv

LEMMA ReadSomeInv ==
  ASSUME IInv, NEW t \in DOMAIN numbers, ReadSome(t)
  PROVE  IInv'
<1>1. PICK k \in 1 .. Len(stream[t]) :
        SendAll(t, SubSeq(stream[t], 1, k)) /\ stream' = [stream EXCEPT ![t] = SubSeq(@, k + 1, Len(@))]
  BY DEF ReadSome
<1> DEFINE s == stream[t]
           out == SubSeq(s, 1, k)
           left == SubSeq(s, k + 1, Len(s))
<1>2. Types /\ WellFormed /\ UNCHANGED <<net, candidate, status, found, numbers, broken>> /\ t \in senders
  BY DEF IInv, Types, ReadSome
<1>3. /\ Refs' = Refs /\ File' = File /\ Expressions' = Expressions /\ Edges' = Edges /\ Numbers' = Numbers
      /\ WellFormed' /\ TrigramRefs' = TrigramRefs /\ (\A r : Meaning(r)' = Meaning(r)) /\ Running /\ Running'
  BY <1>2, SameQuery, SendersRun DEF Running
<1>4. PICK sent : History(sent)
  BY DEF IInv
<1>5. /\ t \in Refs /\ t \notin Expressions /\ Meaning(t) = Range(numbers[t]) /\ s \in Seq(File)
      /\ s \in Seq(Nat) /\ Range(s) \subseteq Range(numbers[t]) /\ Meaning(t) \subseteq Nat
  <2>1. File \subseteq Nat /\ s \in Seq(File)
    BY <1>2, FilesAreNumbers DEF Types
  <2>2. s \in Seq(Nat)
    BY <2>1, SeqMonotonic
  <2> QED BY <1>2, <2>1, <2>2, FilesAreNumbers DEF Types
<1>6. /\ out \in Seq(File) /\ left \in Seq(File) /\ Range(out) \subseteq Range(s) /\ Range(left) \subseteq Range(s)
      /\ out # <<>>
  <2>1. Len(s) \in Nat /\ k \in Nat /\ s \in Seq(File)
    BY <1>5
  <2>2. out \in Seq(File) /\ Len(out) = k /\ left \in Seq(File)
    BY <2>1
  <2>3. Range(out) \subseteq Range(s)
    BY <2>1 DEF Range
  <2>4. Range(left) \subseteq Range(s)
    BY <2>1 DEF Range
  <2> QED BY <2>1, <2>2, <2>3, <2>4
<1>7. stream' \in [DOMAIN numbers -> Seq(File)]
      /\ \A u \in DOMAIN numbers : stream'[u] = IF u = t THEN left ELSE stream[u]
  BY <1>1, <1>2, <1>6 DEF Types
<1>8. chan' = [e \in Edges |-> IF e[1] = t THEN chan[e] \o out ELSE chan[e]]
      /\ senders' = IF Connected(t) THEN senders ELSE senders \ {t}
  BY <1>1, <1>6 DEF SendAll
<1> HIDE DEF s, out, left
<1>9. Sends(t, out, {})
  BY <1>2, <1>7, <1>8 DEF Sends
<1>10. PICK s2 : s2 = [sent EXCEPT ![t] = @ \cup Range(out)]
  OBVIOUS
<1>11. ASSUME broken = {}, Connected(t)' PROVE InOrder(sent, t, out) /\ OwedBy(s2, t)'
  <2>1. Connected(t) /\ senders' = senders
    BY <1>2, <1>8, <1>11, Connection
  <2>2. ASSUME NEW f \in Meaning(t) \ sent[t] PROVE Due(s, f) /\ \A g \in sent[t] : g > f
    BY <1>4, <1>5, <1>11, <2>1, <2>2 DEF History, Owed, OwedBy, s
  <2>3. ASSUME NEW f \in Meaning(t) \ sent[t]
        PROVE Due(out, f) \/ (f \notin Range(out) /\ Due(left, f) /\ \A g \in Range(out) : g > f)
    <3>2. f \in Nat /\ Due(s, f)
      BY <1>5, <2>2, <2>3
    <3>3. k \in 1 .. Len(s)
      BY DEF s
    <3>1. Due(out, f) \/ (Due(left, f) /\ \A g \in Range(out) : g > f)
      BY <1>5, <3>2, <3>3, DueSplit DEF out, left
    <3> QED BY <3>1, <3>2
  <2>4. InOrder(sent, t, out)
    BY <2>2, <2>3 DEF InOrder
  <2>5. s2[t] = sent[t] \cup Range(out)
    BY <1>4, <1>5, <1>10 DEF History
  <2>6. \A f : Due(out, f) => f \in Range(out)
    BY DEF Due, Range
  <2>7. stream'[t] = left
    BY <1>7
  <2>8. OwedBy(s2, t)'
    BY <1>2, <1>3, <1>5, <2>1, <2>2, <2>3, <2>5, <2>6, <2>7 DEF OwedBy
  <2> QED BY <2>4, <2>8
<1>12. chan' \in [Edges -> Seq(File)] /\ History(s2)'
  BY <1>2, <1>3, <1>4, <1>5, <1>6, <1>9, <1>10, <1>11, SentChannels, SentHistory
<1>13. Types'
  <2>1. \A u \in DOMAIN numbers : Range(stream'[u]) \subseteq Range(numbers[u])
    <3>1. Range(left) \subseteq Range(numbers[t])
      BY <1>5, <1>6
    <3> QED BY <1>2, <1>7, <3>1 DEF Types
  <2>2. status' # "new"
    BY <1>3 DEF Running
  <2>3. senders' \subseteq Expressions \cup DOMAIN numbers
    BY <1>2, <1>8 DEF Types
  <2>4. (\A u \in DOMAIN numbers : Descending(numbers[u]))'
    BY <1>2 DEF Types, Descending
  <2> QED BY <1>2, <1>3, <1>7, <1>12, <2>1, <2>2, <2>3, <2>4 DEF Types
<1>14. Answered'
  BY <1>2, <1>3 DEF IInv, Answered
<1> QED BY <1>12, <1>13, <1>14 DEF IInv

----------------------------------------------------------------------------
(* The tasks of expressions                                                   *)

LEMMA HeadsAre ==
  ASSUME Types, Running, NEW n \in Numbers
  PROVE  /\ \A r \in Inputs(n) : Edge(r, n) \in Edges /\ chan[Edge(r, n)] \in Seq(File)
         /\ Heads(n) \subseteq Inputs(n) /\ IsFiniteSet(Heads(n))
         /\ \A r \in Heads(n) : /\ chan[Edge(r, n)] # <<>> /\ At(n, r) = Head(chan[Edge(r, n)])
                               /\ At(n, r) \in Range(chan[Edge(r, n)]) /\ At(n, r) \in File /\ At(n, r) \in Nat
<1>1. \A r \in Inputs(n) : Edge(r, n) \in Edges /\ chan[Edge(r, n)] \in Seq(File)
  BY Links DEF Types
<1>2. Heads(n) \subseteq Inputs(n) /\ IsFiniteSet(Heads(n))
  BY Shape, FS_Subset DEF Types, Heads
<1>3. ASSUME NEW r \in Heads(n)
      PROVE  /\ chan[Edge(r, n)] # <<>> /\ At(n, r) = Head(chan[Edge(r, n)])
             /\ At(n, r) \in Range(chan[Edge(r, n)]) /\ At(n, r) \in File /\ At(n, r) \in Nat
  <2>1. chan[Edge(r, n)] # <<>> /\ At(n, r) = Head(chan[Edge(r, n)]) /\ chan[Edge(r, n)] \in Seq(File)
    BY <1>1 DEF Heads, At, Peek
  <2> QED BY <2>1, RangeIn, FilesAreNumbers
<1> QED BY <1>1, <1>2, <1>3

LEMMA Extremes ==
  ASSUME Types, Running, NEW n \in Numbers, Heads(n) # {}
  PROVE  /\ \E r \in Heads(n) : Highest(n) = At(n, r)
         /\ \A r \in Heads(n) : At(n, r) <= Highest(n)
         /\ \E r \in Heads(n) : Lowest(n) = At(n, r)
         /\ \A r \in Heads(n) : Lowest(n) <= At(n, r)
<1> DEFINE S == {At(n, r) : r \in Heads(n)}
           F == [r \in Heads(n) |-> At(n, r)]
<1>1. S \in SUBSET Nat /\ S # {}
  BY HeadsAre
<1>2. F \in Surjection(Heads(n), S)
  BY DEF Surjection
<1>3. IsFiniteSet(S)
  BY <1>2, HeadsAre, FS_Surjection
<1>4. Highest(n) = Max(S) /\ Lowest(n) = Min(S)
  BY DEF Highest, Lowest
<1>5. \A r \in Heads(n) : At(n, r) \in S
  OBVIOUS
<1>6. \A v \in S : \E r \in Heads(n) : v = At(n, r)
  OBVIOUS
<1> HIDE DEF S
<1>7. Max(S) \in S /\ (\A y \in S : y <= Max(S)) /\ Min(S) \in S /\ (\A y \in S : Min(S) <= y)
  BY <1>1, <1>3, MaxOfSet, MinOfSet
<1> QED BY <1>4, <1>5, <1>6, <1>7

\* Every input that has a file is at it, or at one above.
LEMMA Ahead ==
  ASSUME Types, Running, NEW sent, History(sent), broken = {}, NEW n \in Numbers, Expr(n) \in senders,
         \A r \in Inputs(n) : Peekable(Edge(r, n)), NEW q \in Inputs(n), NEW f, Waits(sent, q, n, f)
  PROVE  q \in Heads(n) /\ At(n, q) >= f
<1> DEFINE c == chan[Edge(q, n)]
<1>1. /\ c \in Seq(File) /\ c \in Seq(Nat) /\ f \in File /\ f \in Nat /\ Range(c) \subseteq sent[q]
      /\ q \in Refs /\ Edge(q, n)[1] = q
  <2>1. c \in Seq(File) /\ f \in File /\ File \subseteq Nat /\ Edge(q, n) \in Edges /\ Edge(q, n)[1] = q
    BY HeadsAre, FilesAreNumbers, Links DEF Waits
  <2> QED BY <2>1, SeqMonotonic, Shape DEF Types, History, Sound
<1>2. CASE Due(c, f)
  <2>1. c # <<>> /\ Head(c) >= f
    BY <1>1, <1>2, DueHead
  <2> QED BY <2>1 DEF Heads, At, Peek
<1>3. CASE f \in Meaning(q) \ sent[q]
  <2>1. OwedBy(sent, q)
    BY <1>1, Listening DEF History, Owed
  <2>2. q \in senders /\ \A g \in sent[q] : g > f
    BY <1>3, <2>1 DEF OwedBy
  <2>3. c # <<>>
    BY <1>1, <2>2 DEF Peekable
  <2>4. Head(c) \in sent[q]
    BY <1>1, <2>3, RangeIn
  <2>5. Head(c) > f
    BY <2>2, <2>4
  <2>6. Head(c) \in Nat
    BY <1>1, <2>3
  <2> QED BY <1>1, <2>3, <2>5, <2>6 DEF Heads, At, Peek
<1> QED BY <1>2, <1>3 DEF Waits

LEMMA TaskEndsInv ==
  ASSUME IInv, NEW n \in Numbers, NEW op, Task(n, op), NEW ended, End(n, ended), UNCHANGED <<numbers, stream, broken>>,
         \A sent, f : ended /\ History(sent) /\ broken = {} => ~Coming(sent, n, f)
  PROVE  IInv'
<1> DEFINE x == Expr(n)
<1>1. /\ Types /\ WellFormed /\ UNCHANGED <<net, chan, candidate, status, found, numbers, stream, broken>>
      /\ senders' = senders \ {x} /\ x \in senders
  BY DEF IInv, Types, Task, End
<1>2. /\ File' = File /\ Expressions' = Expressions /\ Edges' = Edges /\ Numbers' = Numbers
      /\ WellFormed' /\ TrigramRefs' = TrigramRefs /\ Running /\ Running' /\ \A r : Meaning(r)' = Meaning(r)
  BY <1>1, SameQuery, SendersRun DEF Running
<1>3. Types'
  BY <1>1, <1>2 DEF Types, Descending
<1>4. PICK sent : History(sent)
  BY DEF IInv
<1>5. ASSUME broken' = {}, x \in Refs, Connected(x)' PROVE Meaning(x) \subseteq sent[x]
  <2>1. Connected(x)
    BY <1>1, <1>5, Connection
  <2>2. ended /\ OwedBy(sent, x) /\ x \in Expressions /\ x.expr = n
    BY <1>1, <1>4, <1>5, <2>1, Names DEF History, Owed, End, Expressions
  <2>3. \A f : ~Coming(sent, n, f)
    BY <1>1, <1>4, <1>5, <2>2
  <2> QED BY <2>2, <2>3 DEF OwedBy
<1>6. History(sent)'
  BY <1>1, <1>4, <1>5, EndedHistory
<1>7. Answered'
  BY <1>1, <1>2 DEF IInv, Answered
<1> QED BY <1>3, <1>6, <1>7 DEF IInv

\* A task that sends a file of its meaning, or nothing, and skips what it need not keep.
LEMMA TaskSendsInv ==
  ASSUME IInv, NEW n \in Numbers, NEW op, Task(n, op), UNCHANGED <<senders, numbers, stream, broken>>,
         Connected(Expr(n)), NEW skipped, NEW out, SkipAndSend(n, skipped, out), skipped \subseteq Heads(n),
         out = <<>> \/ \E h \in Meaning(Expr(n)) : out = <<h>>,
         candidate' \in [Numbers -> Nat], \A m \in Numbers : m # n => candidate'[m] = candidate[m],
         \A sent, f : History(sent) /\ broken = {} /\ Coming(sent, n, f) /\ f \in Meaning(Expr(n)) /\ f \notin Range(out) =>
           /\ \A h \in Range(out) : h > f
           /\ \A q \in skipped : At(n, q) # f
           /\ net.es[n].op = "and" => candidate'[n] = 0 \/ candidate'[n] >= f
  PROVE  IInv'
<1> DEFINE x == Expr(n)
<1>1. Types /\ WellFormed /\ UNCHANGED <<net, senders, status, found, numbers, stream, broken>> /\ x \in senders
  BY DEF IInv, Types, Task
<1>2. /\ File' = File /\ Expressions' = Expressions /\ Edges' = Edges /\ Numbers' = Numbers
      /\ WellFormed' /\ TrigramRefs' = TrigramRefs /\ Running /\ Running' /\ \A r : Meaning(r)' = Meaning(r)
  BY <1>1, SameQuery, SendersRun DEF Running
<1>3. /\ x \in Refs /\ x \in Expressions /\ x.expr = n /\ x # Caller /\ x \notin Inputs(n)
      /\ \A m \in Numbers : Expr(m) = x => m = n
  BY <1>1, Shape, Names DEF Expressions
<1>4. /\ out \in Seq(File) /\ Range(out) \subseteq Meaning(x)
      /\ \A f \in Range(out) : Due(out, f)
  <2>1. ASSUME out = <<>> PROVE out \in Seq(File) /\ Range(out) = {}
    BY <2>1 DEF Range
  <2>2. ASSUME NEW h \in Meaning(x), out = <<h>> PROVE out \in Seq(File) /\ Range(out) \subseteq Meaning(x) /\ \A f \in Range(out) : Due(out, f)
    <3>1. h \in File
      BY <1>1, FilesAreNumbers
    <3>2. Range(out) = {h}
      BY <2>2 DEF Range
    <3>3. Due(out, h)
      BY <2>2 DEF Due
    <3> QED BY <2>2, <3>1, <3>2, <3>3
  <2> QED BY <2>1, <2>2
<1>5. ASSUME NEW q \in Inputs(n)
      PROVE  /\ Edge(q, n) \in Edges /\ Edge(q, n)[1] = q /\ Edge(q, n)[2] = x /\ q # x /\ q \in Refs
             /\ chan'[Edge(q, n)] = IF q \in skipped THEN Tail(chan[Edge(q, n)]) ELSE chan[Edge(q, n)]
  <2>1. Edge(q, n) \in Edges /\ Edge(q, n)[1] = q /\ Edge(q, n)[2] = x /\ q # x /\ q \in Refs
    BY <1>1, <1>3, Links, Shape
  <2> QED BY <1>2, <2>1 DEF SkipAndSend
<1>6. Sends(x, out, skipped)
  <2>1. skipped \subseteq Inputs(n)
    BY <1>1, <1>2, HeadsAre
  <2>2. chan' = [e \in Edges |-> IF e[1] = x THEN chan[e] \o out
                                ELSE IF e[2] = x /\ e[1] \in skipped THEN Tail(chan[e]) ELSE chan[e]]
    BY <1>3, <2>1 DEF SkipAndSend
  <2>3. ASSUME NEW e \in Edges, e[2] = x, e[1] \in skipped PROVE chan[e] # <<>>
    <3>1. e[1] \in Heads(n) /\ e = Edge(e[1], n)
      BY <1>3, <2>3, Names DEF Edges, Edge, RootEdge
    <3> QED BY <3>1 DEF Heads
  <2> QED BY <1>1, <1>3, <2>2, <2>3 DEF Sends
<1>7. PICK sent : History(sent)
  BY DEF IInv
<1>8. PICK s2 : s2 = [sent EXCEPT ![x] = @ \cup Range(out)]
  OBVIOUS
<1>9. ASSUME broken = {} PROVE InOrder(sent, x, out) /\ OwedBy(s2, x)'
  <2>1. OwedBy(sent, x)
    BY <1>3, <1>7, <1>9 DEF History, Owed
  <2>2. InOrder(sent, x, out)
    BY <1>4, <2>1 DEF InOrder, OwedBy
  <2>3. s2[x] = sent[x] \cup Range(out) /\ \A q \in Refs : q # x => s2[q] = sent[q]
    BY <1>3, <1>7, <1>8 DEF History
  <2> SUFFICES ASSUME NEW f \in Meaning(x), f \notin sent[x], f \notin Range(out)
               PROVE  x \in senders' /\ (\A g \in s2[x] : g > f) /\ Coming(s2, n, f)'
    BY <1>2, <1>3, <2>2, <2>3 DEF OwedBy
  <2>4. Coming(sent, n, f) /\ \A g \in sent[x] : g > f
    BY <1>3, <2>1 DEF OwedBy
  <2>5. /\ \A h \in Range(out) : h > f
        /\ \A q \in skipped : At(n, q) # f
        /\ net.es[n].op = "and" => candidate'[n] = 0 \/ candidate'[n] >= f
    BY <1>7, <1>9, <2>4
  <2>6. ASSUME NEW q \in Inputs(n), Waits(sent, q, n, f) PROVE Waits(s2, q, n, f)'
    <3>1. \/ chan'[Edge(q, n)] = chan[Edge(q, n)]
          \/ chan'[Edge(q, n)] = Tail(chan[Edge(q, n)]) /\ Head(chan[Edge(q, n)]) # f
      BY <1>1, <1>2, <1>5, <2>5, HeadsAre
    <3>2. f \in File /\ q # x /\ s2[q] = sent[q]
      BY <1>1, <1>5, <2>3, FilesAreNumbers
    <3>3. Types /\ Running /\ History(sent) /\ out \in Seq(File) /\ InOrder(sent, x, out) /\ Waits(sent, q, n, f)
      BY <1>1, <1>2, <1>4, <1>7, <2>2, <2>6
    <3>4. q # x
      BY <3>2
    <3>5. q = x => chan'[Edge(q, n)] = chan[Edge(q, n)] \o out
      BY <3>2
    <3>6. f \in File
      BY <3>2
    <3>7. s2[q] = IF q = x THEN sent[x] \cup Range(out) ELSE sent[q]
      BY <3>2
    <3>8. UNCHANGED <<net, numbers>>
      BY <1>1
    <3> QED BY <3>1, <3>3, <3>4, <3>5, <3>6, <3>7, <3>8, WaitsKept
  <2>7. Coming(s2, n, f)'
    BY <1>1, <2>4, <2>5, <2>6, ComingKept
  <2> QED BY <1>1, <2>3, <2>4, <2>5, <2>7
<1>10. chan' \in [Edges -> Seq(File)] /\ History(s2)'
  BY <1>1, <1>2, <1>3, <1>4, <1>6, <1>7, <1>8, <1>9, SentChannels, SentHistory
<1>11. Types'
  BY <1>1, <1>2, <1>10 DEF Types, Descending, Running
<1>12. Answered'
  BY <1>1, <1>2 DEF IInv, Answered
<1> QED BY <1>10, <1>11, <1>12 DEF IInv

\* The files at the heads of inputs are in the meaning of the inputs.
LEMMA HeadsMean ==
  ASSUME IInv, Running, NEW n \in Numbers, NEW r \in Heads(n)
  PROVE  r \in Inputs(n) /\ At(n, r) \in Meaning(r) /\ At(n, r) \in File
<1>1. Types
  BY DEF IInv
<1>2. PICK sent : History(sent)
  BY DEF IInv
<1>3. r \in Inputs(n) /\ At(n, r) \in Range(chan[Edge(r, n)]) /\ At(n, r) \in File
  BY <1>1, HeadsAre
<1>4. Edge(r, n) \in Edges /\ Edge(r, n)[1] = r /\ r \in Refs
  BY <1>1, <1>3, Links, Shape DEF Types
<1> QED BY <1>2, <1>3, <1>4 DEF History, Sound

\* The files an expression waits for, one that has something to wait for.
LEMMA ComingAhead ==
  ASSUME Types, Running, NEW sent, History(sent), broken = {}, NEW n \in Numbers, NEW op, Task(n, op),
         NEW f, Coming(sent, n, f)
  PROVE  /\ Feeds(sent, n, f) # {} /\ Feeds(sent, n, f) \subseteq Heads(n)
         /\ \A q \in Feeds(sent, n, f) : At(n, q) >= f /\ f \in Nat
         /\ net.es[n].op = op /\ op \in {"or", "and", "min"}
<1>1. WellFormed /\ Expr(n) \in senders /\ \A r \in Inputs(n) : Peekable(Edge(r, n))
  BY DEF Types, Task
<1>2. \A q \in Feeds(sent, n, f) : q \in Heads(n) /\ At(n, q) >= f
  BY <1>1, Ahead DEF Feeds
<1>3. \A q \in Feeds(sent, n, f) : f \in Nat
  BY FilesAreNumbers DEF Feeds, Waits
<1>4. net.es[n].op = op /\ op \in {"or", "and", "min"}
  BY <1>1, Shape DEF Task
<1>5. Feeds(sent, n, f) # {}
  <2>1. ASSUME Feeds(sent, n, f) = {} PROVE FALSE
    <3>1. net.es[n].op # "and"
      BY <1>1, <2>1, Shape DEF Coming
    <3>2. net.es[n].op # "min"
      BY <1>1, <2>1, Shape, Weights DEF Coming
    <3> QED BY <1>1, <2>1, <3>1, <3>2, Shape DEF Coming
  <2> QED BY <2>1
<1> QED BY <1>2, <1>3, <1>4, <1>5

LEMMA QueryOrInv ==
  ASSUME IInv, NEW n \in Numbers, QueryOr(n), UNCHANGED <<numbers, stream, broken>>
  PROVE  IInv'
<1>1. Types /\ WellFormed /\ Task(n, "or") /\ Running /\ net.es[n].op = "or"
  BY SendersRun DEF IInv, Types, QueryOr, Task
<1>2. CASE End(n, Heads(n) = {})
  BY <1>1, <1>2, ComingAhead, TaskEndsInv
<1>3. CASE /\ Heads(n) # {} /\ Connected(Expr(n))
           /\ SkipAndSend(n, {r \in Heads(n) : At(n, r) = Highest(n)}, <<Highest(n)>>)
           /\ UNCHANGED <<senders, candidate>>
  <2>1. PICK skipped, out : skipped = {r \in Heads(n) : At(n, r) = Highest(n)} /\ out = <<Highest(n)>>
    OBVIOUS
  <2>2. PICK r \in Heads(n) : Highest(n) = At(n, r)
    BY <1>1, <1>3, Extremes
  <2>3. Highest(n) \in Meaning(Expr(n)) /\ Highest(n) \in Nat
    <3>1. r \in Inside(n, Highest(n)) /\ Highest(n) \in File
      BY <1>1, <2>2, HeadsMean DEF Inside
    <3> QED BY <1>1, <3>1, MeaningIs, FilesAreNumbers
  <2>4. Range(out) = {Highest(n)}
    BY <2>1 DEF Range
  <2>5. ASSUME NEW sent, NEW f, History(sent), broken = {}, Coming(sent, n, f), f \notin Range(out)
        PROVE  (\A h \in Range(out) : h > f) /\ \A q \in skipped : At(n, q) # f
    <3>1. PICK q \in Heads(n) : At(n, q) >= f /\ f \in Nat
      BY <1>1, <2>5, ComingAhead
    <3>2. At(n, q) <= Highest(n) /\ At(n, q) \in Nat
      BY <1>1, <3>1, Extremes, HeadsAre
    <3>3. Highest(n) > f
      BY <2>3, <2>4, <2>5, <3>1, <3>2
    <3> QED BY <2>1, <2>4, <2>5, <3>3
  <2>6. candidate' \in [Numbers -> Nat] /\ candidate' = candidate
    BY <1>1, <1>3 DEF Types
  <2> QED BY <1>1, <1>3, <2>1, <2>3, <2>5, <2>6, TaskSendsInv
<1> QED BY <1>2, <1>3 DEF QueryOr

LEMMA QueryMinOfInv ==
  ASSUME IInv, NEW n \in Numbers, QueryMinOf(n), UNCHANGED <<numbers, stream, broken>>
  PROVE  IInv'
<1>1. Types /\ WellFormed /\ Task(n, "min") /\ Running /\ net.es[n].op = "min"
  BY SendersRun DEF IInv, Types, QueryMinOf, Task
<1>2. CASE End(n, Heads(n) = {})
  BY <1>1, <1>2, ComingAhead, TaskEndsInv
<1> DEFINE same == {r \in Heads(n) : At(n, r) = Highest(n)}
<1>3. CASE /\ Heads(n) # {} /\ Connected(Expr(n))
           /\ SkipAndSend(n, same, IF Weight(n, same) >= net.es[n].low THEN <<Highest(n)>> ELSE <<>>)
           /\ UNCHANGED <<senders, candidate>>
  <2>1. PICK skipped, out : skipped = same /\ out = IF Weight(n, same) >= net.es[n].low THEN <<Highest(n)>> ELSE <<>>
    OBVIOUS
  <2>2. PICK r \in Heads(n) : Highest(n) = At(n, r)
    BY <1>1, <1>3, Extremes
  <2>3. Highest(n) \in File /\ Highest(n) \in Nat /\ same \subseteq Inside(n, Highest(n)) /\ Inside(n, Highest(n)) \subseteq Inputs(n)
    BY <1>1, <2>2, HeadsMean, FilesAreNumbers DEF Inside
  <2> HIDE DEF same
  <2>4. Weight(n, same) >= net.es[n].low => Highest(n) \in Meaning(Expr(n))
    <3>1. Weight(n, same) <= Weight(n, Inside(n, Highest(n))) /\ Weight(n, same) \in Nat /\ Weight(n, Inside(n, Highest(n))) \in Nat
      BY <1>1, <2>3, Weights
    <3> QED BY <1>1, <2>3, <3>1, MeaningIs, Shape
  <2>5. Range(out) = IF Weight(n, same) >= net.es[n].low THEN {Highest(n)} ELSE {}
    BY <2>1 DEF Range
  <2>6. ASSUME NEW sent, NEW f, History(sent), broken = {}, Coming(sent, n, f), f \notin Range(out)
        PROVE  (\A h \in Range(out) : h > f) /\ \A q \in skipped : At(n, q) # f
    <3>1. /\ Feeds(sent, n, f) # {} /\ Feeds(sent, n, f) \subseteq Heads(n) /\ f \in Nat
          /\ \A q \in Feeds(sent, n, f) : At(n, q) >= f
      BY <1>1, <2>6, ComingAhead
    <3>2. \A q \in Heads(n) : At(n, q) <= Highest(n) /\ At(n, q) \in Nat
      BY <1>1, <1>3, Extremes, HeadsAre
    <3>3. Highest(n) >= f
      BY <2>3, <3>1, <3>2
    <3>4. ASSUME Highest(n) = f PROVE FALSE
      <4>1. Feeds(sent, n, f) \subseteq same
        BY <3>1, <3>2, <3>4 DEF same
      <4>2. Weight(n, Feeds(sent, n, f)) >= net.es[n].low
        BY <1>1, <2>6 DEF Coming
      <4>3. same \subseteq Inputs(n)
        BY <2>3
      <4> HIDE DEF same
      <4>4. Weight(n, same) >= net.es[n].low
        BY <1>1, <4>1, <4>2, <4>3, Weights, Shape
      <4> QED BY <2>5, <2>6, <3>4, <4>4
    <3>5. Highest(n) > f
      BY <2>3, <3>1, <3>3, <3>4
    <3>6. \A q \in skipped : At(n, q) = Highest(n)
      BY <2>1 DEF same
    <3> QED BY <2>3, <2>5, <3>1, <3>5, <3>6
  <2>7. candidate' \in [Numbers -> Nat] /\ candidate' = candidate
    BY <1>1, <1>3 DEF Types
  <2>8. skipped \subseteq Heads(n)
    BY <2>1 DEF same
  <2> QED BY <1>1, <1>3, <2>1, <2>4, <2>6, <2>7, <2>8, TaskSendsInv
<1> QED BY <1>2, <1>3 DEF QueryMinOf

LEMMA QueryAndInv ==
  ASSUME IInv, NEW n \in Numbers, QueryAnd(n), UNCHANGED <<numbers, stream, broken>>
  PROVE  IInv'
<1>1. Types /\ WellFormed /\ Task(n, "and") /\ Running /\ net.es[n].op = "and" /\ Inputs(n) # {}
  BY SendersRun, Shape DEF IInv, Types, QueryAnd, Task
<1>2. CASE End(n, Heads(n) # Inputs(n) \/ Inputs(n) = {})
  <2>1. ASSUME NEW sent, NEW f, History(sent), broken = {}, Coming(sent, n, f) PROVE Heads(n) = Inputs(n)
    <3>1. Feeds(sent, n, f) = Inputs(n) /\ Feeds(sent, n, f) \subseteq Heads(n)
      BY <1>1, <2>1, ComingAhead DEF Coming
    <3> QED BY <1>1, <3>1, HeadsAre
  <2> QED BY <1>1, <1>2, <2>1, TaskEndsInv
<1> DEFINE c == IF candidate[n] = 0 THEN Lowest(n) ELSE candidate[n]
           above == {r \in Inputs(n) : At(n, r) > c}
           same == {r \in Inputs(n) : At(n, r) = c}
           Out == IF same = Inputs(n) THEN <<c>> ELSE <<>>
           Skipped == IF above # {} THEN above ELSE IF Out # <<>> THEN same ELSE {}
<1>3. CASE /\ Heads(n) = Inputs(n) /\ Connected(Expr(n))
           /\ SkipAndSend(n, Skipped, Out)
           /\ candidate' = [candidate EXCEPT ![n] = IF above # {} THEN c ELSE 0]
           /\ UNCHANGED senders
  <2>1. PICK skipped, out : skipped = Skipped /\ out = Out
    OBVIOUS
  <2>2. /\ \A r \in Inputs(n) : At(n, r) \in Nat /\ At(n, r) \in File /\ At(n, r) \in Meaning(r)
        /\ \E r \in Inputs(n) : Lowest(n) = At(n, r)
    BY <1>1, <1>3, HeadsAre, Extremes, HeadsMean
  <2>3. c \in Nat
    BY <1>1, <2>2 DEF Types
  <2>4. ASSUME same = Inputs(n) PROVE c \in Meaning(Expr(n))
    <3>1. c \in File /\ Inside(n, c) = Inputs(n)
      BY <1>1, <2>2, <2>4 DEF Inside
    <3> QED BY <1>1, <3>1, MeaningIs
  <2>5. Range(out) = IF same = Inputs(n) THEN {c} ELSE {}
    BY <2>1 DEF Range
  <2>11. above # {} => same # Inputs(n)
    BY <2>2, <2>3
  <2>6. ASSUME NEW sent, NEW f, History(sent), broken = {}, Coming(sent, n, f), f \notin Range(out)
        PROVE  /\ \A h \in Range(out) : h > f
               /\ \A q \in skipped : At(n, q) # f
               /\ candidate'[n] = 0 \/ candidate'[n] >= f
    <3>1. (\A q \in Inputs(n) : At(n, q) >= f) /\ f \in Nat
      BY <1>1, <2>6, ComingAhead DEF Coming
    <3>2. c >= f
      BY <1>1, <2>2, <2>6, <3>1 DEF Coming
    <3>3. candidate'[n] = IF above # {} THEN c ELSE 0
      BY <1>1, <1>3 DEF Types
    <3>4. CASE above # {}
      BY <2>1, <2>2, <2>3, <2>5, <2>11, <3>1, <3>2, <3>3, <3>4
    <3>5. CASE above = {} /\ same = Inputs(n)
      <4>1. c # f
        BY <2>5, <2>6, <3>5
      <4> QED BY <2>1, <2>3, <2>5, <3>1, <3>2, <3>3, <3>5, <4>1
    <3>6. CASE above = {} /\ same # Inputs(n)
      BY <2>1, <2>5, <3>3, <3>6
    <3> QED BY <3>4, <3>5, <3>6
  <2>7. candidate' \in [Numbers -> Nat] /\ \A m \in Numbers : m # n => candidate'[m] = candidate[m]
    BY <1>1, <1>3, <2>3 DEF Types
  <2>8. skipped \subseteq Heads(n)
    BY <1>3, <2>1
  <2>9. out = <<>> \/ \E h \in Meaning(Expr(n)) : out = <<h>>
    BY <2>1, <2>4
  <2>10. SkipAndSend(n, skipped, out)
    BY <1>3, <2>1
  <2> HIDE DEF c, above, same, Skipped, Out
  <2> QED BY <1>1, <1>3, <2>6, <2>7, <2>8, <2>9, <2>10, TaskSendsInv
<1> QED BY <1>2, <1>3 DEF QueryAnd

----------------------------------------------------------------------------
(* Streams finds what the query means                                         *)

LEMMA StepInv == IInv /\ [Next]_vars => IInv'
<1> SUFFICES ASSUME IInv, [Next]_vars PROVE IInv'
  OBVIOUS
<1>1. CASE Setup(DOMAIN numbers) /\ UNCHANGED <<numbers, stream, broken>>
  BY <1>1, SetupInv
<1>2. CASE SetupFails /\ UNCHANGED <<numbers, stream, broken>>
  BY <1>2, SetupFailsInv
<1>3. CASE Receive /\ UNCHANGED <<numbers, stream, broken>>
  BY <1>3, ReceiveInv
<1>4. CASE RootEnds /\ UNCHANGED <<numbers, stream, broken>>
  BY <1>4, RootEndsInv
<1>5. ASSUME NEW n \in Numbers, RunTask(n), UNCHANGED <<numbers, stream, broken>> PROVE IInv'
  BY <1>5, QueryOrInv, QueryAndInv, QueryMinOfInv DEF RunTask
<1>6. ASSUME NEW t \in DOMAIN numbers, ReadSome(t) PROVE IInv'
  BY <1>6, ReadSomeInv
<1>7. ASSUME NEW t \in DOMAIN numbers, EndOfChain(t) \/ ReadFails(t) PROVE IInv'
  BY <1>7, ReaderEndsInv
<1>8. CASE UNCHANGED vars
  <2>1. UNCHANGED <<net, chan, senders, candidate, status, found, numbers, stream, broken>>
    BY <1>8 DEF vars, network
  <2>2. WellFormed
    BY DEF IInv, Types
  <2>3. /\ Refs' = Refs /\ File' = File /\ Expressions' = Expressions /\ Edges' = Edges /\ RootEdge' = RootEdge
        /\ Numbers' = Numbers /\ (\A n : Inputs(n)' = Inputs(n)) /\ (\A r : Meaning(r)' = Meaning(r))
        /\ WellFormed' /\ TrigramRefs' = TrigramRefs /\ (Running' <=> Running)
    BY <2>1, <2>2, SameQuery DEF Running
  <2>4. Types' /\ Answered'
    BY <2>1, <2>3 DEF IInv, Types, Descending, Answered
  <2>5. PICK sent : History(sent)
    BY DEF IInv
  <2>6. \A r : Connected(r)' <=> Connected(r)
    BY <2>1, <2>3 DEF Connected, Listens
  <2>7. ASSUME NEW f, NEW r \in Expressions, Coming(sent, r.expr, f) PROVE Coming(sent, r.expr, f)'
    <3>1. r.expr \in Numbers
      BY Names DEF Expressions
    <3>2. \A q \in Inputs(r.expr) : Waits(sent, q, r.expr, f) => Waits(sent, q, r.expr, f)'
      BY <2>1, <2>3 DEF Waits
    <3> HIDE DEF Waits
    <3> QED BY <2>1, <2>7, <3>1, <3>2, ComingKept DEF Coming, IInv
  <2>8. ASSUME NEW r \in Refs, OwedBy(sent, r) PROVE OwedBy(sent, r)'
    BY <2>1, <2>3, <2>7, <2>8 DEF OwedBy
  <2>9. History(sent)'
    BY <2>1, <2>3, <2>5, <2>6, <2>8 DEF History, Sound, Delivered, Owed
  <2> QED BY <2>4, <2>9 DEF IInv
<1> QED BY <1>1, <1>2, <1>3, <1>4, <1>5, <1>6, <1>7, <1>8 DEF Next

\* Every behaviour of Streams keeps the invariant.
THEOREM StreamsInvariant == Spec => []IInv
<1>1. Init => IInv
  BY InitInv
<1>2. IInv /\ [Next]_vars => IInv'
  BY StepInv
<1> QED BY <1>1, <1>2, PTL DEF Spec

\* Whatever the query, the chains of its trigrams and the order in which readers and tasks
\* run (query_or, query_and, query_min_of, TrigramCursor, query): what is found meets the
\* query, and is all that does when no read failed.
THEOREM FindsWhatIsMeant == Spec => []FoundIsExact
<1>1. IInv => FoundIsExact
  <2> SUFFICES ASSUME IInv PROVE FoundIsExact
    OBVIOUS
  <2>1. PICK sent : History(sent)
    BY DEF IInv
  <2>2. net.root \in Refs
    BY DEF Refs
  <2> QED BY <2>1, <2>2 DEF IInv, Answered, History, Sound, FoundIsExact
<1> QED BY <1>1, StreamsInvariant, PTL

----------------------------------------------------------------------------
(* Controls of tokens, and what can_access, the flattening of operands and    *)
(* simplify compute of them: any functions that meet the equations of          *)
(* AccessControl.                                                              *)

Operands(D) == {S \in SUBSET D : S # {} /\ IsFiniteSet(S)}

\* Tokens of the names, and the controls that join finitely many controls, of lower rank.
OfTokens(D, TokenNames, rank) ==
  /\ rank \in [D -> Nat]
  /\ \A t \in TokenNames : Token(t) \in D
  /\ \A a \in D : \/ \E t \in TokenNames : a = Token(t)
                  \/ \E S \in Operands(D) : a \in {[or |-> S], [and |-> S]} /\ \A x \in S : rank[x] < rank[a]
  /\ \A S \in Operands(D) : [or |-> S] \in D /\ [and |-> S] \in D

\* The controls a user can access.
Accessible(D, view, open) ==
  open \subseteq D /\ \A a \in D : a \in open <=> CanAccessAll(a, Members(a) \cap open, view)

Flattens(D, flat) ==
  \A k \in {"or", "and"} : \A S \in Operands(D) : flat[k][S] = UNION {IF Has(a, k) THEN flat[k][a[k]] ELSE {a} : a \in S}

Simplifies(D, flat, simple) ==
  \A a \in D :
    simple[a] = IF Has(a, "or") THEN SimplifyOr(flat["or"][{simple[x] : x \in a.or}])
                ELSE IF Has(a, "and") THEN SimplifyAnd(flat["and"][{simple[x] : x \in a.and}])
                ELSE a

LEMMA Kinds ==
  ASSUME NEW D, NEW TokenNames, NEW rank, OfTokens(D, TokenNames, rank),
         NEW view, NEW open, Accessible(D, view, open), NEW a \in D
  PROVE  /\ a # Always
         /\ \/ /\ Has(a, "or") /\ ~Has(a, "and") /\ a = [or |-> a.or] /\ a.or \in Operands(D)
               /\ \A x \in a.or : rank[x] < rank[a]
               /\ a \in open <=> a.or \cap open # {}
            \/ /\ Has(a, "and") /\ ~Has(a, "or") /\ a = [and |-> a.and] /\ a.and \in Operands(D)
               /\ \A x \in a.and : rank[x] < rank[a]
               /\ a \in open <=> a.and \subseteq open
            \/ ~Has(a, "or") /\ ~Has(a, "and")
<1>1. a \in open <=> CanAccessAll(a, Members(a) \cap open, view)
  BY DEF Accessible
<1>2. CASE \E t \in TokenNames : a = Token(t)
  <2>1. PICK t \in TokenNames : a = Token(t)
    BY <1>2
  <2>2. DOMAIN a = {"token"} /\ DOMAIN Always = {"always"}
    BY <2>1 DEF Token, Always
  <2> QED BY <2>2 DEF Has
<1>3. ASSUME NEW S \in Operands(D), a = [or |-> S], \A x \in S : rank[x] < rank[a] PROVE
        /\ a # Always /\ Has(a, "or") /\ ~Has(a, "and") /\ a = [or |-> a.or] /\ a.or \in Operands(D)
        /\ \A x \in a.or : rank[x] < rank[a]
        /\ a \in open <=> a.or \cap open # {}
  <2>1. DOMAIN a = {"or"} /\ DOMAIN Always = {"always"} /\ a.or = S
    BY <1>3 DEF Always
  <2>2. Has(a, "or") /\ ~Has(a, "and") /\ ~Has(a, "token")
    BY <2>1 DEF Has
  <2>4. Members(a) = a.or
    BY <2>2 DEF Members
  <2>3. a \in open <=> a.or \cap open # {}
    <3>1. CanAccessAll(a, a.or \cap open, view) <=> a.or \cap (a.or \cap open) # {}
      BY <2>2 DEF CanAccessAll
    <3> QED BY <1>1, <2>4, <3>1
  <2> QED BY <1>3, <2>1, <2>2, <2>3
<1>4. ASSUME NEW S \in Operands(D), a = [and |-> S], \A x \in S : rank[x] < rank[a] PROVE
        /\ a # Always /\ Has(a, "and") /\ ~Has(a, "or") /\ a = [and |-> a.and] /\ a.and \in Operands(D)
        /\ \A x \in a.and : rank[x] < rank[a]
        /\ a \in open <=> a.and \subseteq open
  <2>1. DOMAIN a = {"and"} /\ DOMAIN Always = {"always"} /\ a.and = S
    BY <1>4 DEF Always
  <2>2. Has(a, "and") /\ ~Has(a, "or") /\ ~Has(a, "token")
    BY <2>1 DEF Has
  <2>4. Members(a) = a.and
    BY <2>2 DEF Members
  <2>3. a \in open <=> a.and \subseteq open
    <3>1. CanAccessAll(a, a.and \cap open, view) <=> a.and \subseteq (a.and \cap open)
      BY <2>2 DEF CanAccessAll
    <3> QED BY <1>1, <2>4, <3>1
  <2> QED BY <1>4, <2>1, <2>2, <2>3
<1> QED BY <1>2, <1>3, <1>4 DEF OfTokens

LEMMA Joined ==
  ASSUME NEW D, NEW TokenNames, NEW rank, OfTokens(D, TokenNames, rank),
         NEW view, NEW open, Accessible(D, view, open), NEW S \in Operands(D)
  PROVE  /\ IntoOr(S) \in D /\ (IntoOr(S) \in open <=> S \cap open # {})
         /\ IntoAnd(S) \in D /\ (IntoAnd(S) \in open <=> S \subseteq open)
<1>1. CASE Cardinality(S) = 1
  <2>1. PICK x : S = {x}
    BY <1>1, FS_Singleton DEF Operands
  <2>2. Only(S) = x /\ x \in D
    BY <2>1 DEF Only, Operands
  <2> QED BY <1>1, <2>1, <2>2 DEF IntoOr, IntoAnd
<1>2. CASE Cardinality(S) # 1
  <2> DEFINE a == [or |-> S]
             b == [and |-> S]
  <2>1. a \in D /\ b \in D
    BY DEF OfTokens
  <2>2. DOMAIN a = {"or"} /\ a.or = S /\ DOMAIN b = {"and"} /\ b.and = S
    OBVIOUS
  <2>3. Has(a, "or") /\ Has(b, "and")
    BY <2>2 DEF Has
  <2> HIDE DEF a, b
  <2>4. (a \in open <=> S \cap open # {}) /\ (b \in open <=> S \subseteq open)
    BY <2>1, <2>2, <2>3, Kinds
  <2> QED BY <1>2, <2>1, <2>4 DEF IntoOr, IntoAnd, a, b
<1> QED BY <1>1, <1>2

LEMMA InParts ==
  ASSUME NEW D, NEW TokenNames, NEW rank, OfTokens(D, TokenNames, rank),
         NEW view, NEW open, Accessible(D, view, open), NEW a \in D
  PROVE  /\ Parts(a, "or") \in Operands(D) /\ (a \in open <=> Parts(a, "or") \cap open # {})
         /\ Parts(a, "and") \in Operands(D) /\ (a \in open <=> Parts(a, "and") \subseteq open)
<1>1. {a} \in Operands(D)
  BY FS_Singleton DEF Operands
<1> QED BY <1>1, Kinds DEF Parts

LEMMA MergeGrants ==
  ASSUME NEW D, NEW TokenNames, NEW rank, OfTokens(D, TokenNames, rank),
         NEW view, NEW open, Accessible(D, view, open), NEW a \in D, NEW b \in D
  PROVE  Merge(a, b) \in D /\ (Merge(a, b) \in open <=> a \in open \/ b \in open)
<1> DEFINE S == Parts(a, "or") \cup Parts(b, "or")
<1>1. S \in Operands(D) /\ (S \cap open # {} <=> a \in open \/ b \in open)
  <2>1. Parts(a, "or") \in Operands(D) /\ (a \in open <=> Parts(a, "or") \cap open # {})
    BY InParts
  <2>2. Parts(b, "or") \in Operands(D) /\ (b \in open <=> Parts(b, "or") \cap open # {})
    BY InParts
  <2>3. S \in Operands(D)
    BY <2>1, <2>2, FS_Union DEF Operands
  <2> QED BY <2>1, <2>2, <2>3
<1>2. Merge(a, b) = IntoOr(S)
  BY Kinds DEF Merge
<1> QED BY <1>1, <1>2, Joined

LEMMA BothGrants ==
  ASSUME NEW D, NEW TokenNames, NEW rank, OfTokens(D, TokenNames, rank),
         NEW view, NEW open, Accessible(D, view, open), NEW a \in D, NEW b \in D
  PROVE  Both(a, b) \in D /\ (Both(a, b) \in open <=> a \in open /\ b \in open)
<1> DEFINE S == Parts(a, "and") \cup Parts(b, "and")
<1>1. S \in Operands(D) /\ (S \subseteq open <=> a \in open /\ b \in open)
  <2>1. Parts(a, "and") \in Operands(D) /\ (a \in open <=> Parts(a, "and") \subseteq open)
    BY InParts
  <2>2. Parts(b, "and") \in Operands(D) /\ (b \in open <=> Parts(b, "and") \subseteq open)
    BY InParts
  <2>3. S \in Operands(D)
    BY <2>1, <2>2, FS_Union DEF Operands
  <2> QED BY <2>1, <2>2, <2>3
<1>2. {a, b} \ {Always} = {a, b}
  BY Kinds
<1>3. Both(a, b) = IntoAnd(S)
  <2>1. UNION {Parts(x, "and") : x \in {a, b}} = S
    OBVIOUS
  <2> QED BY <1>2, <2>1 DEF Both
<1> QED BY <1>1, <1>3, Joined

\* Sets of operands are factored into what they share and the rest.
LEMMA Factored ==
  ASSUME NEW D, NEW F, F # {}, IsFiniteSet(F), F \subseteq Operands(D)
  PROVE  /\ Common(F) \subseteq D /\ IsFiniteSet(Common(F)) /\ \A s \in F : Common(F) \subseteq s
         /\ Unfactored(F) \subseteq Operands(D) /\ IsFiniteSet(Unfactored(F))
         /\ \A s \in F : s = Common(F) \/ (s \ Common(F) \in Unfactored(F))
         /\ \A u \in Unfactored(F) : \E s \in F : u = s \ Common(F)
         /\ Common(F) \notin F => Unfactored(F) # {} /\ Cardinality(Unfactored(F)) # 1
<1>1. \A s \in F : Common(F) \subseteq s
  BY DEF Common
<1>2. PICK s \in F : TRUE
  OBVIOUS
<1>3. Common(F) \subseteq D /\ IsFiniteSet(Common(F))
  BY <1>1, <1>2, FS_Subset DEF Operands
<1>4. Unfactored(F) \subseteq Operands(D)
  BY FS_Subset DEF Unfactored, Operands
<1>5. IsFiniteSet(Unfactored(F))
  <2> DEFINE G == {x \ Common(F) : x \in F}
             f == [x \in F |-> x \ Common(F)]
  <2>1. f \in Surjection(F, G)
    BY DEF Surjection
  <2>2. IsFiniteSet(G)
    BY <2>1, FS_Surjection
  <2> QED BY <2>2, FS_Subset DEF Unfactored
<1>6. \A x \in F : x = Common(F) \/ (x \ Common(F) \in Unfactored(F))
  BY <1>1 DEF Unfactored
<1>7. \A u \in Unfactored(F) : u # {} /\ \E x \in F : u = x \ Common(F)
  BY DEF Unfactored
<1>8. ASSUME Common(F) \notin F PROVE Unfactored(F) # {} /\ Cardinality(Unfactored(F)) # 1
  <2>1. Unfactored(F) # {}
    BY <1>2, <1>6, <1>8
  <2>2. ASSUME Cardinality(Unfactored(F)) = 1 PROVE FALSE
    <3>1. PICK u : Unfactored(F) = {u}
      BY <1>5, <2>2, FS_Singleton
    <3>2. \A x \in F : x \ Common(F) = u
      BY <1>6, <1>8, <3>1
    <3>3. u \subseteq Common(F)
      BY <1>2, <3>2 DEF Common
    <3> QED BY <1>2, <1>7, <3>1, <3>2, <3>3
  <2> QED BY <2>1, <2>2
<1> QED BY <1>1, <1>3, <1>4, <1>5, <1>6, <1>7, <1>8

\* The operands of items are finite sets of controls.
LEMMA OperandsOf ==
  ASSUME NEW D, NEW TokenNames, NEW rank, OfTokens(D, TokenNames, rank),
         NEW view, NEW open, Accessible(D, view, open), NEW items \in Operands(D),
         NEW k \in {"or", "and"}
  PROVE  LET F == {Parts(x, k) : x \in items} IN F # {} /\ IsFiniteSet(F) /\ F \subseteq Operands(D)
<1> DEFINE F == {Parts(x, k) : x \in items}
           f == [x \in items |-> Parts(x, k)]
<1>1. f \in Surjection(items, F)
  BY DEF Surjection
<1>2. IsFiniteSet(F) /\ F # {}
  BY <1>1, FS_Surjection DEF Operands
<1>3. \A x \in items : Parts(x, k) \in Operands(D)
  <2> TAKE x \in items
  <2>1. x \in D
    BY DEF Operands
  <2> QED BY <2>1, InParts
<1> QED BY <1>2, <1>3

\* The remainders joined are controls, as many as needed.
LEMMA Remainders ==
  ASSUME NEW D, NEW TokenNames, NEW rank, OfTokens(D, TokenNames, rank),
         NEW view, NEW open, Accessible(D, view, open),
         NEW U \in SUBSET Operands(D), IsFiniteSet(U), U # {}
  PROVE  {IntoAnd(s) : s \in U} \in Operands(D) /\ {IntoOr(s) : s \in U} \in Operands(D)
<1>1. [s \in U |-> IntoAnd(s)] \in Surjection(U, {IntoAnd(s) : s \in U})
  BY DEF Surjection
<1>2. [s \in U |-> IntoOr(s)] \in Surjection(U, {IntoOr(s) : s \in U})
  BY DEF Surjection
<1>3. \A s \in U : IntoAnd(s) \in D /\ IntoOr(s) \in D
  BY Joined
<1> QED BY <1>1, <1>2, <1>3, FS_Surjection DEF Operands

LEMMA SimplifyOrKeeps ==
  ASSUME NEW D, NEW TokenNames, NEW rank, OfTokens(D, TokenNames, rank),
         NEW view, NEW open, Accessible(D, view, open), NEW items \in Operands(D)
  PROVE  SimplifyOr(items) \in D /\ (SimplifyOr(items) \in open <=> items \cap open # {})
<1> DEFINE F == {Parts(x, "and") : x \in items}
           C == Common(F)
           U == Unfactored(F)
           R == {IntoAnd(s) : s \in U}
<1>1. F # {} /\ IsFiniteSet(F) /\ F \subseteq Operands(D)
  BY OperandsOf
<1>2. items \cap open # {} <=> \E s \in F : s \subseteq open
  <2>1. \A x \in items : x \in open <=> Parts(x, "and") \subseteq open
    <3> TAKE x \in items
    <3>1. x \in D
      BY DEF Operands
    <3> QED BY <3>1, InParts
  <2> QED BY <2>1
<1>3. Always \notin items
  <2>1. \A x \in items : x \in D
    BY DEF Operands
  <2> QED BY <2>1, Kinds
<1>4. SimplifyOr(items) = IF C \in F THEN IntoAnd(C) ELSE IF C = {} THEN IntoOr(R)
                          ELSE IF Cardinality(U) = 1 THEN Merge(Only(R), IntoAnd(C)) ELSE Both(IntoOr(R), IntoAnd(C))
  BY <1>3 DEF SimplifyOr
<1> HIDE DEF F
<1>5. /\ C \subseteq D /\ IsFiniteSet(C) /\ \A s \in F : C \subseteq s
      /\ U \subseteq Operands(D) /\ IsFiniteSet(U)
      /\ \A s \in F : s = C \/ (s \ C \in U)
      /\ \A u \in U : \E s \in F : u = s \ C
      /\ C \notin F => U # {} /\ Cardinality(U) # 1
  BY <1>1, Factored
<1> HIDE DEF C, U
<1>6. CASE C \in F
  <2>1. C \in Operands(D)
    BY <1>1, <1>6
  <2>2. IntoAnd(C) \in D /\ (IntoAnd(C) \in open <=> C \subseteq open)
    BY <2>1, Joined
  <2>3. (\E s \in F : s \subseteq open) <=> C \subseteq open
    BY <1>5, <1>6
  <2> QED BY <1>2, <1>4, <1>6, <2>2, <2>3
<1>7. CASE C \notin F
  <2>1. R \in Operands(D) /\ U \subseteq Operands(D) /\ Cardinality(U) # 1
    BY <1>5, <1>7, Remainders
  <2>2. R \cap open # {} <=> \E u \in U : u \subseteq open
    <3>1. \A u \in U : IntoAnd(u) \in open <=> u \subseteq open
      BY <2>1, Joined
    <3> QED BY <3>1
  <2>3. (\E s \in F : s \subseteq open) <=> C \subseteq open /\ \E u \in U : u \subseteq open
    <3>1. ASSUME NEW s \in F, s \subseteq open PROVE C \subseteq open /\ \E u \in U : u \subseteq open
      <4>1. s \ C \in U /\ C \subseteq s
        BY <1>5, <1>7
      <4> QED BY <3>1, <4>1
    <3>2. ASSUME C \subseteq open, NEW u \in U, u \subseteq open PROVE \E s \in F : s \subseteq open
      <4>1. PICK s \in F : u = s \ C
        BY <1>5
      <4> QED BY <3>2, <4>1
    <3> QED BY <3>1, <3>2
  <2> HIDE DEF R
  <2>4. IntoOr(R) \in D /\ (IntoOr(R) \in open <=> R \cap open # {})
    BY <2>1, Joined
  <2>5. CASE C = {}
    BY <1>2, <1>4, <1>7, <2>2, <2>3, <2>4, <2>5
  <2>6. CASE C # {}
    <3>1. C \in Operands(D)
      BY <1>5, <2>6 DEF Operands
    <3>2. IntoAnd(C) \in D /\ (IntoAnd(C) \in open <=> C \subseteq open)
      BY <3>1, Joined
    <3>3. Both(IntoOr(R), IntoAnd(C)) \in D
          /\ (Both(IntoOr(R), IntoAnd(C)) \in open <=> IntoOr(R) \in open /\ IntoAnd(C) \in open)
      BY <2>4, <3>2, BothGrants
    <3>4. SimplifyOr(items) = Both(IntoOr(R), IntoAnd(C))
      BY <1>4, <1>7, <2>1, <2>6
    <3> QED BY <1>2, <2>2, <2>3, <2>4, <3>2, <3>3, <3>4
  <2> QED BY <2>5, <2>6
<1> QED BY <1>6, <1>7

\* What the operands of a conjunction share is asked for in the simplified one as well,
\* so that it may grant less, and grants the same if they share nothing.
LEMMA SimplifyAndKeeps ==
  ASSUME NEW D, NEW TokenNames, NEW rank, OfTokens(D, TokenNames, rank),
         NEW view, NEW open, Accessible(D, view, open), NEW items \in Operands(D)
  PROVE  /\ SimplifyAnd(items) \in D
         /\ SimplifyAnd(items) \in open => items \subseteq open
         /\ Common({Parts(x, "or") : x \in items}) = {} /\ items \subseteq open => SimplifyAnd(items) \in open
<1> DEFINE F == {Parts(x, "or") : x \in items}
           C == Common(F)
           U == Unfactored(F)
           R == {IntoOr(s) : s \in U}
<1>1. F # {} /\ IsFiniteSet(F) /\ F \subseteq Operands(D)
  BY OperandsOf
<1>2. items \subseteq open <=> \A s \in F : s \cap open # {}
  <2>1. \A x \in items : x \in open <=> Parts(x, "or") \cap open # {}
    <3> TAKE x \in items
    <3>1. x \in D
      BY DEF Operands
    <3> QED BY <3>1, InParts
  <2> QED BY <2>1
<1>3. items \ {Always} = items
  <2>1. \A x \in items : x \in D
    BY DEF Operands
  <2> QED BY <2>1, Kinds
<1>4. SimplifyAnd(items) = IF C = {} THEN IntoAnd(R) ELSE IF R = {} THEN IntoOr(C) ELSE Both(IntoAnd(R), IntoOr(C))
  BY <1>3 DEF SimplifyAnd
<1> HIDE DEF F
<1>5. /\ C \subseteq D /\ IsFiniteSet(C) /\ \A s \in F : C \subseteq s
      /\ U \subseteq Operands(D) /\ IsFiniteSet(U)
      /\ \A s \in F : s = C \/ (s \ C \in U)
      /\ \A u \in U : \E s \in F : u = s \ C
      /\ C \notin F => U # {}
  BY <1>1, Factored
<1> HIDE DEF C, U
<1>6. U # {} => R \in Operands(D)
  BY <1>5, Remainders
<1>7. R \subseteq open <=> \A u \in U : u \cap open # {}
  <2>1. \A u \in U : IntoOr(u) \in open <=> u \cap open # {}
    BY <1>5, Joined
  <2> QED BY <2>1
<1>8. U = {} <=> R = {}
  OBVIOUS
<1> HIDE DEF R
<1>9. CASE C = {}
  <2>1. C \notin F
    BY <1>1, <1>9 DEF Operands
  <2>2. IntoAnd(R) \in D /\ (IntoAnd(R) \in open <=> R \subseteq open)
    BY <1>5, <1>6, <2>1, Joined
  <2>3. (\A s \in F : s \cap open # {}) <=> \A u \in U : u \cap open # {}
    <3>1. \A s \in F : s \ C = s /\ s \in U
      BY <1>5, <1>9, <2>1
    <3>2. \A u \in U : u \in F
      BY <1>5, <1>9
    <3> QED BY <3>1, <3>2
  <2> QED BY <1>2, <1>4, <1>7, <1>9, <2>2, <2>3
<1>10. CASE C # {}
  <2>1. C \in Operands(D)
    BY <1>5, <1>10 DEF Operands
  <2>2. IntoOr(C) \in D /\ (IntoOr(C) \in open <=> C \cap open # {})
    BY <2>1, Joined
  <2>3. C \cap open # {} => \A s \in F : s \cap open # {}
    BY <1>5
  <2>4. CASE R = {}
    BY <1>2, <1>4, <1>10, <2>2, <2>3, <2>4 DEF C, F
  <2>5. CASE R # {}
    <3>1. IntoAnd(R) \in D
      BY <1>6, <1>8, <2>5, Joined
    <3>2. Both(IntoAnd(R), IntoOr(C)) \in D /\ (Both(IntoAnd(R), IntoOr(C)) \in open => IntoOr(C) \in open)
      BY <2>2, <3>1, BothGrants
    <3> QED BY <1>2, <1>4, <1>10, <2>2, <2>3, <2>5, <3>2 DEF C, F
  <2> QED BY <2>4, <2>5
<1> QED BY <1>9, <1>10 DEF C, F

LEMMA LeastRank ==
  ASSUME NEW D, NEW rank \in [D -> Nat], NEW B \in SUBSET D, B # {}
  PROVE  \E a \in B : \A x \in B : ~(rank[x] < rank[a])
<1> DEFINE T == {rank[x] : x \in B}
<1>1. PICK n \in T : \A y \in T : ~(<<y, n>> \in OpToRel(<, Nat))
  <2>1. T \subseteq Nat /\ T # {}
    OBVIOUS
  <2> HIDE DEF T
  <2> QED BY <2>1, NatLessThanWellFounded, WFMin
<1>2. \A y \in T : ~(y < n)
  BY <1>1 DEF OpToRel
<1>3. PICK a \in B : rank[a] = n
  OBVIOUS
<1> QED BY <1>2, <1>3

\* Flattening the members of a set, when it is right for what each of them holds.
LEMMA FlattenStep ==
  ASSUME NEW D, NEW TokenNames, NEW rank, OfTokens(D, TokenNames, rank),
         NEW view, NEW open, Accessible(D, view, open),
         NEW flat, Flattens(D, flat), NEW k \in {"or", "and"}, NEW S \in Operands(D),
         \A a \in S : Has(a, k) => /\ flat[k][a[k]] \in Operands(D)
                                   /\ k = "or" => (flat[k][a[k]] \cap open # {} <=> a \in open)
                                   /\ k = "and" => (flat[k][a[k]] \subseteq open <=> a \in open)
  PROVE  /\ flat[k][S] \in Operands(D)
         /\ k = "or" => (flat[k][S] \cap open # {} <=> S \cap open # {})
         /\ k = "and" => (flat[k][S] \subseteq open <=> S \subseteq open)
<1> DEFINE of == [a \in S |-> IF Has(a, k) THEN flat[k][a[k]] ELSE {a}]
           G == {of[a] : a \in S}
<1>1. flat[k][S] = UNION G
  BY DEF Flattens
<1>2. \A a \in S : of[a] \in Operands(D)
  BY FS_Singleton DEF Operands
<1>3. \A a \in S : /\ k = "or" => (of[a] \cap open # {} <=> a \in open)
                   /\ k = "and" => (of[a] \subseteq open <=> a \in open)
  OBVIOUS
<1> HIDE DEF of
<1>4. IsFiniteSet(G)
  <2>1. [a \in S |-> of[a]] \in Surjection(S, G)
    BY DEF Surjection
  <2> QED BY <2>1, FS_Surjection DEF Operands
<1>5. IsFiniteSet(UNION G)
  <2>1. \A T \in G : IsFiniteSet(T)
    BY <1>2 DEF Operands
  <2> HIDE DEF G
  <2> QED BY <1>4, <2>1, FS_UNION
<1>6. UNION G \in Operands(D)
  BY <1>2, <1>5 DEF Operands
<1>7. ASSUME k = "or" PROVE (UNION G) \cap open # {} <=> S \cap open # {}
  <2>1. ASSUME NEW x \in UNION G, x \in open PROVE S \cap open # {}
    <3>1. PICK a \in S : x \in of[a]
      OBVIOUS
    <3> QED BY <1>3, <1>7, <2>1, <3>1
  <2>2. ASSUME NEW a \in S, a \in open PROVE (UNION G) \cap open # {}
    <3>1. PICK x \in of[a] : x \in open
      BY <1>3, <1>7, <2>2
    <3> QED BY <3>1
  <2> QED BY <2>1, <2>2
<1>8. ASSUME k = "and" PROVE UNION G \subseteq open <=> S \subseteq open
  BY <1>3, <1>8
<1> HIDE DEF G
<1> QED BY <1>1, <1>6, <1>7, <1>8

\* Flattening is right for every set of operands, by induction on their rank.
LEMMA FlattenKeeps ==
  ASSUME NEW D, NEW TokenNames, NEW rank, OfTokens(D, TokenNames, rank),
         NEW view, NEW open, Accessible(D, view, open),
         NEW flat, Flattens(D, flat), NEW k \in {"or", "and"}, NEW S \in Operands(D)
  PROVE  /\ flat[k][S] \in Operands(D)
         /\ k = "or" => (flat[k][S] \cap open # {} <=> S \cap open # {})
         /\ k = "and" => (flat[k][S] \subseteq open <=> S \subseteq open)
<1> DEFINE Right(a) == Has(a, k) => /\ flat[k][a[k]] \in Operands(D)
                                    /\ k = "or" => (flat[k][a[k]] \cap open # {} <=> a \in open)
                                    /\ k = "and" => (flat[k][a[k]] \subseteq open <=> a \in open)
           B == {a \in D : ~Right(a)}
<1>1. ASSUME B # {} PROVE FALSE
  <2>0. B \in SUBSET D /\ rank \in [D -> Nat]
    BY DEF OfTokens
  <2>1. PICK a \in B : \A x \in B : ~(rank[x] < rank[a])
    <3> HIDE DEF B
    <3> QED BY <1>1, <2>0, LeastRank
  <2>2. a \in D /\ ~Right(a)
    OBVIOUS
  <2>3. /\ a[k] \in Operands(D) /\ \A x \in a[k] : rank[x] < rank[a]
        /\ k = "or" => (a \in open <=> a[k] \cap open # {})
        /\ k = "and" => (a \in open <=> a[k] \subseteq open)
    <3>1. Has(a, k)
      BY <2>2
    <3> QED BY <2>2, <3>1, Kinds
  <2>4. \A x \in a[k] : Right(x)
    <3> TAKE x \in a[k]
    <3>1. x \in D /\ rank[x] < rank[a]
      BY <2>3 DEF Operands
    <3> QED BY <2>1, <3>1
  <2>5. /\ flat[k][a[k]] \in Operands(D)
        /\ k = "or" => (flat[k][a[k]] \cap open # {} <=> a[k] \cap open # {})
        /\ k = "and" => (flat[k][a[k]] \subseteq open <=> a[k] \subseteq open)
    BY <2>3, <2>4, FlattenStep
  <2> QED BY <2>2, <2>3, <2>5
<1>2. \A a \in S : Right(a)
  BY <1>1 DEF Operands
<1> QED BY <1>2, FlattenStep

\* What is simplified never grants more.
THEOREM SimplifyNeverWidens ==
  ASSUME NEW D, NEW TokenNames, NEW rank, OfTokens(D, TokenNames, rank),
         NEW view, NEW open, Accessible(D, view, open),
         NEW flat, Flattens(D, flat), NEW simple, Simplifies(D, flat, simple), NEW a \in D
  PROVE  simple[a] \in D /\ (simple[a] \in open => a \in open)
<1> DEFINE Right(x) == simple[x] \in D /\ (simple[x] \in open => x \in open)
           B == {x \in D : ~Right(x)}
<1>1. ASSUME B # {} PROVE FALSE
  <2>0. B \in SUBSET D /\ rank \in [D -> Nat]
    BY DEF OfTokens
  <2>1. PICK b \in B : \A x \in B : ~(rank[x] < rank[b])
    <3> HIDE DEF B
    <3> QED BY <1>1, <2>0, LeastRank
  <2>2. b \in D /\ ~Right(b)
    OBVIOUS
  <2>3. \A x \in D : rank[x] < rank[b] => Right(x)
    BY <2>1
  <2> HIDE DEF B
  <2>4. ASSUME NEW S \in Operands(D), \A x \in S : rank[x] < rank[b]
        PROVE  /\ {simple[x] : x \in S} \in Operands(D)
               /\ \A x \in S : simple[x] \in open => x \in open
    <3> DEFINE T == {simple[x] : x \in S}
    <3>1. \A x \in S : Right(x)
      BY <2>3, <2>4 DEF Operands
    <3>2. [x \in S |-> simple[x]] \in Surjection(S, T)
      BY DEF Surjection
    <3>3. IsFiniteSet(T)
      BY <3>2, FS_Surjection DEF Operands
    <3>4. T # {} /\ T \subseteq D
      BY <3>1 DEF Operands
    <3> QED BY <3>1, <3>3, <3>4 DEF Operands
  <2>5. CASE Has(b, "or")
    <3> DEFINE T == {simple[x] : x \in b.or}
               items == flat["or"][T]
    <3>1. /\ b.or \in Operands(D) /\ \A x \in b.or : rank[x] < rank[b]
          /\ b \in open <=> b.or \cap open # {}
      BY <2>2, <2>5, Kinds
    <3>2. T \in Operands(D) /\ \A x \in b.or : simple[x] \in open => x \in open
      BY <2>4, <3>1
    <3>3. simple[b] = SimplifyOr(items)
      BY <2>2, <2>5 DEF Simplifies
    <3>4. T \cap open # {} => b \in open
      BY <3>1, <3>2
    <3> HIDE DEF T
    <3>5. items \in Operands(D) /\ (items \cap open # {} <=> T \cap open # {})
      BY <3>2, FlattenKeeps
    <3> HIDE DEF items
    <3>6. SimplifyOr(items) \in D /\ (SimplifyOr(items) \in open <=> items \cap open # {})
      BY <3>5, SimplifyOrKeeps
    <3> QED BY <2>2, <3>3, <3>4, <3>5, <3>6
  <2>6. CASE ~Has(b, "or") /\ Has(b, "and")
    <3> DEFINE T == {simple[x] : x \in b.and}
               items == flat["and"][T]
    <3>1. /\ b.and \in Operands(D) /\ \A x \in b.and : rank[x] < rank[b]
          /\ b \in open <=> b.and \subseteq open
      BY <2>2, <2>6, Kinds
    <3>2. T \in Operands(D) /\ \A x \in b.and : simple[x] \in open => x \in open
      BY <2>4, <3>1
    <3>3. simple[b] = SimplifyAnd(items)
      BY <2>2, <2>6 DEF Simplifies
    <3>4. T \subseteq open => b \in open
      BY <3>1, <3>2
    <3> HIDE DEF T
    <3>5. items \in Operands(D) /\ (items \subseteq open <=> T \subseteq open)
      BY <3>2, FlattenKeeps
    <3> HIDE DEF items
    <3>6. SimplifyAnd(items) \in D /\ (SimplifyAnd(items) \in open => items \subseteq open)
      BY <3>5, SimplifyAndKeeps
    <3> QED BY <2>2, <3>3, <3>4, <3>5, <3>6
  <2>7. CASE ~Has(b, "or") /\ ~Has(b, "and")
    BY <2>2, <2>7 DEF Simplifies
  <2> QED BY <2>5, <2>6, <2>7
<1> QED BY <1>1

----------------------------------------------------------------------------
(* What is stored with a file                                                 *)

Classifications(TokenNames) ==
  {c \in [level : TokenNames, required : SUBSET TokenNames, groups : SUBSET TokenNames, subgroups : SUBSET TokenNames] :
     IsFiniteSet(c.required) /\ IsFiniteSet(c.groups) /\ IsFiniteSet(c.subgroups)}

LEMMA TokensOf ==
  ASSUME NEW D, NEW TokenNames, NEW rank, OfTokens(D, TokenNames, rank),
         NEW view, NEW open, Accessible(D, view, open),
         NEW S \in SUBSET TokenNames, IsFiniteSet(S)
  PROVE  LET T == {Token(t) : t \in S} IN /\ T \subseteq D /\ IsFiniteSet(T) /\ (S # {} => T \in Operands(D))
                                          /\ T \subseteq open <=> S \subseteq view
                                          /\ T \cap open # {} <=> S \cap view # {}
<1> DEFINE T == {Token(t) : t \in S}
<1>1. \A t \in S : Token(t) \in D
  BY DEF OfTokens
<1>2. \A t \in S : Token(t) \in open <=> t \in view
  <2> TAKE t \in S
  <2> DEFINE a == Token(t)
  <2>1. DOMAIN a = {"token"} /\ a.token = t
    BY DEF Token
  <2>2. ~Has(a, "or") /\ ~Has(a, "and") /\ Has(a, "token")
    BY <2>1 DEF Has
  <2>3. a \in open <=> CanAccessAll(a, Members(a) \cap open, view)
    BY <1>1 DEF Accessible
  <2>4. CanAccessAll(a, Members(a) \cap open, view) <=> a.token \in view
    BY <2>2 DEF CanAccessAll
  <2> QED BY <2>1, <2>3, <2>4
<1>3. [t \in S |-> Token(t)] \in Surjection(S, T)
  BY DEF Surjection
<1>4. IsFiniteSet(T)
  BY <1>3, FS_Surjection
<1> QED BY <1>1, <1>2, <1>4 DEF Operands

\* The control of a classification grants what its rules grant.
THEOREM PreparedIsCleared ==
  ASSUME NEW D, NEW TokenNames, NEW rank, OfTokens(D, TokenNames, rank),
         NEW view, NEW open, Accessible(D, view, open),
         NEW c \in Classifications(TokenNames)
  PROVE  PrepareClassification(c) \in D /\ (PrepareClassification(c) \in open <=> Cleared(view, c))
<1> DEFINE one(S) == IF S = {} THEN {} ELSE {IntoOr({Token(t) : t \in S})}
           L == {Token(t) : t \in {c.level}}
           R == {Token(t) : t \in c.required}
           All == L \cup R \cup one(c.groups) \cup one(c.subgroups)
<1>0. /\ c.level \in TokenNames /\ c.required \subseteq TokenNames /\ c.groups \subseteq TokenNames /\ c.subgroups \subseteq TokenNames
      /\ IsFiniteSet(c.required) /\ IsFiniteSet(c.groups) /\ IsFiniteSet(c.subgroups)
  BY DEF Classifications
<1>1. PrepareClassification(c) = IntoAnd(All)
  <2>1. L = {Token(c.level)}
    OBVIOUS
  <2> QED BY <2>1 DEF PrepareClassification
<1>2. L \in Operands(D) /\ (L \subseteq open <=> c.level \in view)
  <2>1. ASSUME NEW S \in SUBSET TokenNames, IsFiniteSet(S), S # {}, NEW T, T = {Token(t) : t \in S}
        PROVE  T \in Operands(D) /\ (T \subseteq open <=> S \subseteq view)
    BY <2>1, TokensOf
  <2>2. {c.level} \in SUBSET TokenNames /\ IsFiniteSet({c.level}) /\ {c.level} # {}
        /\ ({c.level} \subseteq view <=> c.level \in view)
    BY <1>0, FS_Singleton
  <2> QED BY <2>1, <2>2
<1>3. R \subseteq D /\ IsFiniteSet(R) /\ (R \subseteq open <=> c.required \subseteq view)
  BY <1>0, TokensOf
<1>4. ASSUME NEW S \in SUBSET TokenNames, IsFiniteSet(S)
      PROVE  one(S) \subseteq D /\ IsFiniteSet(one(S)) /\ (one(S) \subseteq open <=> S = {} \/ S \cap view # {})
  <2>1. CASE S = {}
    BY <2>1, FS_EmptySet
  <2>2. CASE S # {}
    <3> DEFINE T == {Token(t) : t \in S}
    <3>1. T \in Operands(D) /\ (T \cap open # {} <=> S \cap view # {})
      BY <1>4, <2>2, TokensOf
    <3>2. one(S) = {IntoOr(T)}
      BY <2>2
    <3> HIDE DEF T, one
    <3>3. IntoOr(T) \in D /\ (IntoOr(T) \in open <=> T \cap open # {})
      BY <3>1, Joined
    <3> QED BY <2>2, <3>1, <3>2, <3>3, FS_Singleton
  <2> QED BY <2>1, <2>2
<1>5. one(c.groups) \subseteq D /\ IsFiniteSet(one(c.groups)) /\ (one(c.groups) \subseteq open <=> c.groups = {} \/ c.groups \cap view # {})
  BY <1>0, <1>4
<1>6. one(c.subgroups) \subseteq D /\ IsFiniteSet(one(c.subgroups))
      /\ (one(c.subgroups) \subseteq open <=> c.subgroups = {} \/ c.subgroups \cap view # {})
  BY <1>0, <1>4
<1> HIDE DEF one, L, R
<1>7. IsFiniteSet(All)
  BY <1>2, <1>3, <1>5, <1>6, FS_Union DEF Operands
<1>8. All \in Operands(D)
  BY <1>2, <1>3, <1>5, <1>6, <1>7 DEF Operands
<1>9. All \subseteq open <=> Cleared(view, c)
  BY <1>2, <1>3, <1>5, <1>6 DEF Cleared
<1> HIDE DEF All
<1> QED BY <1>1, <1>8, <1>9, Joined

\* Whoever the control stored with a file admits, after any number of its submissions, may
\* see one of them by the rules.
THEOREM StoredIsAllowed ==
  ASSUME NEW D, NEW TokenNames, NEW rank, OfTokens(D, TokenNames, rank),
         NEW view, NEW open, Accessible(D, view, open),
         NEW flat, Flattens(D, flat), NEW simple, Simplifies(D, flat, simple),
         NEW n \in Nat \ {0}, NEW c \in [1..n -> Classifications(TokenNames)], NEW stored,
         stored[1] = PrepareClassification(c[1]),
         \A i \in 1..n-1 : stored[i + 1] = simple[Merge(stored[i], PrepareClassification(c[i + 1]))]
  PROVE  stored[n] \in open => \E i \in 1..n : Cleared(view, c[i])
<1> DEFINE Right(i) == stored[i] \in D /\ (stored[i] \in open => \E j \in 1..i : Cleared(view, c[j]))
           B == {i \in 1..n : ~Right(i)}
<1>1. Right(1)
  <2>1. c[1] \in Classifications(TokenNames)
    OBVIOUS
  <2> QED BY <2>1, PreparedIsCleared
<1>2. ASSUME NEW i \in 1..n-1, Right(i) PROVE Right(i + 1)
  <2> DEFINE p == PrepareClassification(c[i + 1])
             m == Merge(stored[i], p)
  <2>0. c[i + 1] \in Classifications(TokenNames)
    OBVIOUS
  <2>1. p \in D /\ (p \in open <=> Cleared(view, c[i + 1]))
    BY <2>0, PreparedIsCleared
  <2> HIDE DEF p
  <2>2. m \in D /\ (m \in open <=> stored[i] \in open \/ p \in open)
    BY <1>2, <2>1, MergeGrants
  <2> HIDE DEF m
  <2>3. simple[m] \in D /\ (simple[m] \in open => m \in open)
    BY <2>2, SimplifyNeverWidens
  <2>4. stored[i + 1] = simple[m]
    BY DEF m, p
  <2>5. stored[i + 1] \in open => Cleared(view, c[i + 1]) \/ \E j \in 1..i : Cleared(view, c[j])
    BY <1>2, <2>1, <2>2, <2>3, <2>4
  <2>6. i + 1 \in 1..i+1 /\ 1..i \subseteq 1..i+1
    OBVIOUS
  <2> QED BY <2>3, <2>4, <2>5, <2>6
<1>3. ASSUME B # {} PROVE FALSE
  <2> DEFINE order == [i \in 1..n |-> i]
  <2>1. order \in [1..n -> Nat] /\ \A i \in 1..n : order[i] = i
    OBVIOUS
  <2> HIDE DEF order, Right
  <2>2. PICK b \in B : \A x \in B : ~(order[x] < order[b])
    BY <1>3, <2>1, LeastRank
  <2>3. b \in 1..n /\ ~Right(b) /\ b # 1
    BY <1>1
  <2>4. b - 1 \in 1..n-1 /\ b - 1 \in 1..n /\ (b - 1) + 1 = b
    BY <2>3
  <2>5. Right(b - 1)
    BY <2>1, <2>2, <2>3, <2>4
  <2> QED BY <1>2, <2>3, <2>4, <2>5
<1>4. n \in 1..n
  OBVIOUS
<1> QED BY <1>3, <1>4
=============================================================================
