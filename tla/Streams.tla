-------------------------------- MODULE Streams --------------------------------
(***************************************************************************)
(* What the evaluation of a query by an index promises: whatever the query, *)
(* and however the readers of trigrams and the tasks of expressions         *)
(* interleave, the files found are those that meet the root.  A reader has  *)
(* the numbers of a chain before it, and sends them piece by piece; how     *)
(* they are stored and read is in QueryNetwork.                             *)
(***************************************************************************)
EXTENDS Expressions

VARIABLE stream  \* what readers have not sent

vars == <<network, numbers, stream, broken>>

\* The query has the form TrigramQuery::build gives it: inputs are made before they
\* are used, a conjunction has some, and a number asked for is not zero.
Expression(n) ==
  /\ net.es[n].op \in {"or", "and", "min"}
  /\ IsFiniteSet(Inputs(n))
  /\ \A r \in Inputs(n) : (r \in Expressions => r.expr < n) /\ net.es[n].weight[r] \in Nat
  /\ net.es[n].op = "and" => Inputs(n) # {}
  /\ net.es[n].op = "min" => net.es[n].low \in Nat \ {0}

WellFormed ==
  /\ Numbers = 1 .. Len(net.es) /\ Len(net.es) \in Nat
  /\ \A n \in Numbers : Expression(n)

\* Blocks are read from the last, each downwards: a file comes after files above it
\* when it comes first, also when a batch was written twice.
Descending(s) == \A f \in Range(s) : \E i \in DOMAIN s : s[i] = f /\ \A j \in 1 .. i - 1 : s[j] > f

Init ==
  /\ WellFormed /\ StartEmpty
  /\ DOMAIN numbers \subseteq TrigramRefs
  /\ \A t \in DOMAIN numbers : numbers[t] \in Seq(Nat \ {0}) /\ Descending(numbers[t])
  /\ numbers = [t \in DOMAIN numbers |-> numbers[t]]
  /\ stream = numbers /\ broken = {}

ReadSome(t) ==
  /\ t \in senders
  /\ \E k \in 1 .. Len(stream[t]) :
       /\ SendAll(t, SubSeq(stream[t], 1, k))
       /\ stream' = [stream EXCEPT ![t] = SubSeq(@, k + 1, Len(@))]
  /\ UNCHANGED <<net, candidate, status, found, numbers, broken>>

EndOfChain(t) ==
  /\ t \in senders /\ stream[t] = <<>>
  /\ senders' = senders \ {t}
  /\ UNCHANGED <<net, chan, candidate, status, found, numbers, stream, broken>>

ReadFails(t) ==
  /\ t \in senders
  /\ senders' = senders \ {t} /\ broken' = broken \cup {t}
  /\ UNCHANGED <<net, chan, candidate, status, found, numbers, stream>>

Next ==
  \/ /\ Setup(DOMAIN numbers) \/ SetupFails \/ Receive \/ RootEnds \/ \E n \in Numbers : RunTask(n)
     /\ UNCHANGED <<numbers, stream, broken>>
  \/ \E t \in DOMAIN numbers : ReadSome(t) \/ EndOfChain(t) \/ ReadFails(t)

Spec == Init /\ [][Next]_vars
=============================================================================
