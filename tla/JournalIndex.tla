------------------------------ MODULE JournalIndex ------------------------------
(***************************************************************************)
(* What a JournalFilter (src/worker/journal.rs) promises to the rest of    *)
(* the worker: a map from trigrams to sets of file numbers that only ever  *)
(* grows by whole batches, that no defragmentation, failed batch, crash or *)
(* restart changes, that is emptied by delete() alone, and whose queries   *)
(* are answered from one instant of it.  Journal.tla is shown to implement *)
(* this module.                                                            *)
(***************************************************************************)
CONSTANTS Trigram,      \* trigrams (0 .. 2^24-1 in the code)
          Batches,      \* batches a writer may offer: trigram -> file numbers
          Query,        \* queries in progress
          NoReply       \* reply of a query that is not running

VARIABLES index,        \* the file numbers listed under each trigram
          reply         \* what each running query is going to answer

vars == <<index, reply>>

NoFiles == [t \in Trigram |-> {}]

Init ==
  /\ index = NoFiles
  /\ reply = [q \in Query |-> NoReply]

\* A batch becomes visible for all of its trigrams at once.
AddBatch(b) ==
  /\ index' = [t \in Trigram |-> index[t] \cup b[t]]
  /\ UNCHANGED reply

\* The answer is fixed when the query starts, whatever is written afterwards.
BeginQuery(q) ==
  /\ reply[q] = NoReply
  /\ reply' = [reply EXCEPT ![q] = index]
  /\ UNCHANGED index

EndQuery(q) ==
  /\ reply[q] # NoReply
  /\ reply' = [reply EXCEPT ![q] = NoReply]
  /\ UNCHANGED index

\* The process stops: running queries are lost, the index is not.
Restart ==
  /\ reply' = [q \in Query |-> NoReply]
  /\ UNCHANGED index

Delete ==
  /\ index' = NoFiles
  /\ UNCHANGED reply

Next ==
  \/ \E b \in Batches : AddBatch(b)
  \/ \E q \in Query : BeginQuery(q) \/ EndQuery(q)
  \/ Restart
  \/ Delete

Spec == Init /\ [][Next]_vars
=============================================================================
