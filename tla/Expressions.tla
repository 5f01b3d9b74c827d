------------------------------ MODULE Expressions ------------------------------
(***************************************************************************)
(* The network that evaluates a query (journal.rs, query/broadcast.rs): a   *)
(* task for each expression, channels between them, to the caller and from  *)
(* whoever reads the files of a trigram; and what the query means.  A        *)
(* specification that EXTENDS this says what the readers do, which change    *)
(* numbers and broken, and what the caller does with the files found.       *)
(***************************************************************************)
EXTENDS Integers, Sequences, FiniteSets, FiniteSetsExt, Functions

VARIABLES
  net,        \* the query: root and expressions
  chan,       \* the channels: from a reference to an expression or the caller
  senders,    \* references whose sender exists
  candidate,  \* of the tasks of expressions: 0, or the value they look for
  status,     \* of the caller
  found,      \* what the caller has received
  numbers,    \* what the chains of trigrams hold, in the order it is read
  broken      \* trigrams whose reader failed

network == <<net, chan, senders, candidate, status, found>>

Caller == [caller |-> TRUE]
Expr(n) == [expr |-> n]
Numbers == DOMAIN net.es
Expressions == {Expr(n) : n \in Numbers}
Inputs(n) == DOMAIN net.es[n].weight
Used == UNION {Inputs(n) : n \in Numbers}
TrigramRefs == Used \ Expressions
Edge(r, n) == <<r, Expr(n)>>
RootEdge == <<net.root, Caller>>
Edges == {Edge(r, n) : r \in Used, n \in Numbers} \cup {RootEdge}

\* What inputs of an expression count for together (MinOf).
Weight(n, refs) == Cardinality(UNION {{r} \X (1 .. net.es[n].weight[r]) : r \in refs})

----------------------------------------------------------------------------
(* Channels (broadcast.rs): unbounded, closed when their sender is dropped;    *)
(* their receiver is dropped with the task that has it.                        *)

Listens(who) == IF who = Caller THEN status = "reading" ELSE who \in senders
Connected(r) == \E e \in Edges : e[1] = r /\ Listens(e[2])
Peek(e) == IF chan[e] = <<>> THEN 0 ELSE Head(chan[e])

\* A mutant: an input that has nothing yet is taken for one that has ended.
PeekableAtOnce(e) == TRUE

Peekable(e) == chan[e] # <<>> \/ e[1] \notin senders

\* Reference r sends values, and ends when nobody listens to them.
SendAll(r, values) ==
  /\ chan' = [e \in Edges |-> IF e[1] = r THEN chan[e] \o values ELSE chan[e]]
  /\ senders' = IF values = <<>> \/ Connected(r) THEN senders ELSE senders \ {r}

\* Task n skips the heads of some inputs and sends the values of out.
SkipAndSend(n, skipped, out) ==
  chan' = [e \in Edges |->
             IF e[2] = Expr(n) /\ e[1] \in skipped THEN Tail(chan[e])
             ELSE IF e[1] = Expr(n) THEN chan[e] \o out ELSE chan[e]]

----------------------------------------------------------------------------
(* The caller: query                                                          *)

StartEmpty ==
  /\ chan = [e \in {} |-> <<>>] /\ senders = {}
  /\ candidate = [n \in Numbers |-> 0]
  /\ status = "new" /\ found = <<>>

\* A trigram the table has no address for has no thread, and its sender is dropped.
Setup(addressed) ==
  /\ status = "new" /\ net.root \in Expressions
  /\ status' = "reading"
  /\ senders' = Expressions \cup addressed
  /\ chan' = [e \in Edges |-> <<>>]
  /\ UNCHANGED <<net, candidate, found>>

\* "Corrupt query": nothing listens to the root.
SetupFails ==
  /\ status = "new" /\ net.root \notin Expressions
  /\ status' = "failed"
  /\ UNCHANGED <<net, chan, senders, candidate, found>>

Receive ==
  /\ status = "reading" /\ chan[RootEdge] # <<>>
  /\ found' = Append(found, Head(chan[RootEdge])) /\ chan' = [chan EXCEPT ![RootEdge] = Tail(@)]
  /\ UNCHANGED <<net, senders, candidate, status>>

\* The root has ended.
RootEnds ==
  /\ status = "reading" /\ chan[RootEdge] = <<>> /\ net.root \notin senders
  /\ status' = "answered"
  /\ UNCHANGED <<net, chan, senders, candidate, found>>

----------------------------------------------------------------------------
(* The tasks of expressions: query_or, query_and, query_min_of                 *)

Task(n, op) ==
  /\ Expr(n) \in senders /\ net.es[n].op = op
  /\ \A r \in Inputs(n) : Peekable(Edge(r, n))
  /\ UNCHANGED <<net, status, found>>

Heads(n) == {r \in Inputs(n) : chan[Edge(r, n)] # <<>>}
At(n, r) == Peek(Edge(r, n))
Highest(n) == Max({At(n, r) : r \in Heads(n)})
Lowest(n) == Min({At(n, r) : r \in Heads(n)})

\* No input has anything more, or nobody listens.
End(n, ended) ==
  /\ ended \/ ~Connected(Expr(n))
  /\ senders' = senders \ {Expr(n)} /\ UNCHANGED <<chan, candidate>>

QueryOr(n) ==
  /\ Task(n, "or")
  /\ \/ End(n, Heads(n) = {})
     \/ /\ Heads(n) # {} /\ Connected(Expr(n))
        /\ SkipAndSend(n, {r \in Heads(n) : At(n, r) = Highest(n)}, <<Highest(n)>>)
        /\ UNCHANGED <<senders, candidate>>

\* A candidate is kept while an input is above it, and given up when one is below.
QueryAnd(n) ==
  /\ Task(n, "and")
  /\ \/ End(n, Heads(n) # Inputs(n) \/ Inputs(n) = {})
     \/ /\ Heads(n) = Inputs(n) /\ Inputs(n) # {} /\ Connected(Expr(n))
        /\ LET c == IF candidate[n] = 0 THEN Lowest(n) ELSE candidate[n]
               above == {r \in Inputs(n) : At(n, r) > c}
               same == {r \in Inputs(n) : At(n, r) = c}
               out == IF same = Inputs(n) THEN <<c>> ELSE <<>>
           IN /\ SkipAndSend(n, IF above # {} THEN above ELSE IF out # <<>> THEN same ELSE {}, out)
              /\ candidate' = [candidate EXCEPT ![n] = IF above # {} THEN c ELSE 0]
        /\ UNCHANGED senders

\* A mutant: more than the number asked for.
QueryMoreThan(n) ==
  /\ Task(n, "min")
  /\ \/ End(n, Heads(n) = {})
     \/ /\ Heads(n) # {} /\ Connected(Expr(n))
        /\ LET same == {r \in Heads(n) : At(n, r) = Highest(n)}
           IN SkipAndSend(n, same, IF Weight(n, same) > net.es[n].low THEN <<Highest(n)>> ELSE <<>>)
        /\ UNCHANGED <<senders, candidate>>

\* The highest is the candidate, so that no input is above it.
QueryMinOf(n) ==
  /\ Task(n, "min")
  /\ \/ End(n, Heads(n) = {})
     \/ /\ Heads(n) # {} /\ Connected(Expr(n))
        /\ LET same == {r \in Heads(n) : At(n, r) = Highest(n)}
           IN SkipAndSend(n, same, IF Weight(n, same) >= net.es[n].low THEN <<Highest(n)>> ELSE <<>>)
        /\ UNCHANGED <<senders, candidate>>

RunTask(n) == QueryOr(n) \/ QueryAnd(n) \/ QueryMinOf(n)

----------------------------------------------------------------------------
(* What a query means                                                         *)

Holds(t) == IF t \in DOMAIN numbers THEN Range(numbers[t]) ELSE {}

\* Whether a file meets expression n, if the expressions it meets are among met.
Fulfils(n, f, met) ==
  LET in == {r \in Inputs(n) : IF r \in Expressions THEN r.expr \in met ELSE f \in Holds(r)} IN
  CASE net.es[n].op = "or" -> in # {}
    [] net.es[n].op = "and" -> in = Inputs(n)
    [] net.es[n].op = "min" -> Weight(n, in) >= net.es[n].low

\* The expressions a file meets: as few as there can be.
Met(f) ==
  {n \in Numbers : \A met \in SUBSET Numbers : (\A m \in Numbers : Fulfils(m, f, met) => m \in met) => n \in met}

\* The files an expression or a trigram stands for, among those of the chains.
File == UNION {Holds(t) : t \in DOMAIN numbers}
Meaning(r) == {f \in File : IF r \in Expressions THEN r.expr \in Met(f) ELSE f \in Holds(r)}

\* A file is found only if it meets the query, and if no read failed every such file
\* is: an input that is ahead waits, one that is behind is skipped no further than
\* to the candidate, tasks end no earlier than they may, and what is repeated in a chain
\* does not make them pass a file by.
FoundIsExact ==
  /\ Range(found) \subseteq Meaning(net.root)
  /\ status = "answered" /\ broken = {} => Meaning(net.root) \subseteq Range(found)
=============================================================================
