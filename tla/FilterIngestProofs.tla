--------------------------- MODULE FilterIngestProofs ---------------------------
(***************************************************************************)
(* What TLAPS proves about FilterIngest: its invariants, for every finite  *)
(* set of files, every batch size and every set of failures.               *)
(*                                                                         *)
(* One hypothesis is needed: the broker has one request at a time under    *)
(* way ("Only one query at a time", src/broker/mod.rs:1051).  With two, a  *)
(* request can abandon the row that the other one has just entered.        *)
(***************************************************************************)
EXTENDS FilterIngest, FiniteSetTheorems, TLAPS

OneRequest == \A r, s \in Request : r = s

----------------------------------------------------------------------------
(* The inductive invariant *)

\* TypeOK, one variable at a time.
Types ==
  /\ number \in [Hash -> Nat] /\ ingested \in SUBSET Hash /\ lastNumber \in Nat
  /\ cache \in SUBSET Hash /\ rejected \in SUBSET Hash
  /\ fetch \in [Hash -> {"none", "running", "ending"}]
  /\ journal \in Seq(SUBSET (1 .. lastNumber))
  /\ pending \in SUBSET Hash /\ size \in Nat /\ transaction \in SUBSET Hash
  /\ feeder \in {"get", "wait", "delay", "load", "finish", "release"}
  /\ elapsed \in BOOLEAN
  /\ batch = [h \in DOMAIN batch |-> batch[h]]
  /\ DOMAIN batch \in SUBSET Hash /\ \A h \in DOMAIN batch : batch[h] \in 1 .. lastNumber
  /\ unread \in SUBSET DOMAIN batch /\ loaded \in SUBSET DOMAIN batch
  /\ step \in [Request -> {"idle", "strip", "check", "examine", "ready", "fetch",
                           "insert", "commit", "answer"}]
  /\ current \in [Request -> SUBSET Hash] /\ files \in [Request -> SUBSET Hash]
  /\ outstanding \in [Request -> SUBSET Hash]
  /\ completed \in [Request -> SUBSET Hash] /\ refused \in [Request -> SUBSET Hash]
  /\ asked \in SUBSET Hash /\ done \in SUBSET Hash /\ mishaps \in [FaultKinds -> Nat]

\* The steps at which a request has looked at the rows and not entered any.
Working == {"examine", "ready", "fetch", "insert"}

\* A row has a number that was given, and is committed once.
RowsOK ==
  /\ \A h \in Hash : number[h] <= lastNumber
  /\ ingested \subseteq Rows
  /\ transaction \cap Rows = {}

\* What a request is working on has no row, and will get none but from itself.
RequestOK ==
  \A r \in Request :
    /\ step[r] \in {"idle", "strip", "check"} =>
         current[r] = {} /\ outstanding[r] = {} /\ completed[r] = {} /\ refused[r] = {}
    /\ step[r] \in Working =>
         /\ transaction = {}
         /\ (files[r] \cup current[r] \cup outstanding[r] \cup refused[r]) \cap Rows = {}
    /\ completed[r] \subseteq ingested

\* Nor is it being fetched, and what has been is not looked at again.
FetchOK ==
  /\ \A h \in Rows \cup transaction : fetch[h] # "running"
  /\ \A r \in Request :
       /\ files[r] \cap current[r] = {}
       /\ outstanding[r] \cap (files[r] \cup current[r]) = {}
       /\ step[r] \in {"check"} \cup Working =>
            \A h \in files[r] \cup current[r] : fetch[h] = "none"
       /\ step[r] \in Working => \A h \in outstanding[r] : fetch[h] # "running"

\* What is entered, or about to be, has its trigrams.
TrigramsOK ==
  Never("load") =>
    /\ (Rows \ ingested) \cup transaction \subseteq cache
    /\ \A r \in Request : step[r] \in Working => outstanding[r] \subseteq cache

\* The feeder's batch is made of rows that nobody else touches.
FeederOK ==
  /\ feeder \in {"load", "finish"} =>
       /\ DOMAIN batch \subseteq Rows \ ingested
       /\ \A h \in DOMAIN batch : batch[h] = number[h]
  /\ feeder = "release" => loaded \subseteq ingested
  /\ feeder # "load" => unread = {}
  /\ Never("load") =>
       /\ feeder = "load" => DOMAIN batch = unread \cup loaded
       /\ feeder = "finish" => \A h \in DOMAIN batch : batch[h] \in Written

\* What is marked ingested is written.
JournalOK ==
  /\ WrittenHasRow
  /\ done \subseteq ingested
  /\ Never("load") => \A h \in ingested : number[h] \in Written

IInv ==
  Types /\ RowsOK /\ RequestOK /\ FetchOK /\ TrigramsOK /\ FeederOK /\ JournalOK
    /\ PendingIsEntered

----------------------------------------------------------------------------
(* Sequences of batches *)

LEMMA SeqGrows ==
  ASSUME NEW m \in Nat, NEW n \in Nat, m <= n, NEW q \in Seq(SUBSET (1 .. m))
  PROVE  q \in Seq(SUBSET (1 .. n))
<1>1. SUBSET (1 .. m) \subseteq SUBSET (1 .. n)
  OBVIOUS
<1> QED BY <1>1

\* Appending a batch adds its numbers.
LEMMA WrittenAppend ==
  ASSUME NEW S, NEW q \in Seq(S), NEW b \in S
  PROVE  UNION {Append(q, b)[i] : i \in DOMAIN Append(q, b)}
           = (UNION {q[i] : i \in DOMAIN q}) \cup b
<1> DEFINE p == Append(q, b)
<1>1. DOMAIN p = DOMAIN q \cup {Len(q) + 1} /\ p[Len(q) + 1] = b
  OBVIOUS
<1>2. \A i \in DOMAIN q : p[i] = q[i]
  OBVIOUS
<1> HIDE DEF p
<1>3. UNION {p[i] : i \in DOMAIN p} = (UNION {q[i] : i \in DOMAIN q}) \cup b
  BY <1>1, <1>2
<1> QED BY <1>3 DEF p

LEMMA TypesAreTypeOK == Types <=> TypeOK
<1>1. Types => TypeOK
  BY DEF Types, TypeOK
<1>2. TypeOK => Types
  BY DEF Types, TypeOK
<1> QED BY <1>1, <1>2

\* What goes wrong is remembered.
LEMMA MishapCounts ==
  ASSUME Types, NEW kind \in FaultKinds, Mishap(kind)
  PROVE  /\ mishaps' \in [FaultKinds -> Nat] /\ mishaps'[kind] # 0
         /\ \A k \in FaultKinds : mishaps'[k] = 0 => mishaps[k] = 0
<1>1. mishaps \in [FaultKinds -> Nat] /\ mishaps' = [mishaps EXCEPT ![kind] = mishaps[kind] + 1]
  BY DEF Types, Mishap
<1>2. mishaps[kind] + 1 \in Nat /\ mishaps[kind] + 1 # 0
  BY <1>1
<1> QED BY <1>1, <1>2

----------------------------------------------------------------------------
(* The initial state *)

LEMMA InitInv == Init => IInv
<1> SUFFICES ASSUME Init PROVE IInv
  OBVIOUS
<1>1. Rows = {} /\ Written = {}
  BY DEF Init, Rows, Written
<1>2. DOMAIN batch = {} /\ batch = [h \in DOMAIN batch |-> batch[h]]
  BY DEF Init
<1>3. Types
  <2>1. journal \in Seq(SUBSET (1 .. lastNumber))
    BY DEF Init
  <2> QED BY <1>2, <2>1 DEF Init, Types
<1>4. RowsOK /\ RequestOK /\ FetchOK /\ TrigramsOK
  BY <1>1 DEF Init, RowsOK, RequestOK, FetchOK, TrigramsOK, Working
<1>5. FeederOK /\ JournalOK
  BY <1>1 DEF Init, FeederOK, JournalOK, WrittenHasRow
<1>6. PendingIsEntered
  <2>1. Rows \cup transaction = {}
    BY <1>1 DEF Init
  <2> QED BY <1>1, <2>1, FS_EmptySet DEF Init, PendingIsEntered
<1> QED BY <1>3, <1>4, <1>5, <1>6 DEF IInv

----------------------------------------------------------------------------
(* Steps *)

USE DEF database, trigrams, feeding, requests, answers, Never

LEMMA BeginInv ==
  ASSUME OneRequest, IInv, NEW r \in Request, NEW F \in SUBSET Hash, Begin(r, F)
  PROVE  IInv'
<1> USE DEF IInv, Begin
<1>1. Rows' = Rows /\ Written' = Written
  BY DEF Rows, Written
<1>2. Types'
  BY DEF Types
<1>3. RowsOK' /\ FeederOK' /\ JournalOK' /\ PendingIsEntered'
  BY <1>1 DEF RowsOK, Types, FeederOK, JournalOK, WrittenHasRow, RequestOK, PendingIsEntered
<1>4. RequestOK' /\ FetchOK' /\ TrigramsOK'
  BY <1>1 DEF RequestOK, Types, RowsOK, Working, OneRequest, FetchOK, TrigramsOK
<1> QED BY <1>2, <1>3, <1>4

LEMMA StripPendingInv ==
  ASSUME OneRequest, IInv, NEW r \in Request, StripPending(r)
  PROVE  IInv'
<1> USE DEF IInv, StripPending
<1>1. Rows' = Rows /\ Written' = Written
  BY DEF Rows, Written
<1>2. Types'
  BY DEF Types
<1>3. RowsOK' /\ FeederOK' /\ JournalOK' /\ PendingIsEntered'
  BY <1>1 DEF RowsOK, Types, FeederOK, JournalOK, WrittenHasRow, RequestOK, PendingIsEntered
<1>4. RequestOK' /\ FetchOK' /\ TrigramsOK'
  BY <1>1 DEF RequestOK, Types, RowsOK, Working, OneRequest, FetchOK, TrigramsOK
<1> QED BY <1>2, <1>3, <1>4

LEMMA CheckStatusInv ==
  ASSUME OneRequest, IInv, NEW r \in Request, CheckStatus(r)
  PROVE  IInv'
<1> USE DEF IInv, CheckStatus, DatabaseFree
<1>1. Rows' = Rows /\ Written' = Written
  BY DEF Rows, Written
<1>2. Types'
  BY DEF Types
<1>3. RowsOK' /\ FeederOK' /\ JournalOK' /\ PendingIsEntered'
  BY <1>1 DEF RowsOK, Types, FeederOK, JournalOK, WrittenHasRow, RequestOK, PendingIsEntered
<1>4. FetchOK' /\ TrigramsOK'
  BY <1>1 DEF FetchOK, Types, RequestOK, Working, OneRequest, TrigramsOK
<1>5. RequestOK'
  <2>1. files'[r] \cap Rows = {} /\ completed'[r] \subseteq ingested
    BY DEF Types
  <2>2. current[r] = {} /\ outstanding[r] = {} /\ refused[r] = {} /\ transaction = {}
    BY DEF RequestOK
  <2>3. step'[r] = "examine" /\ \A s \in Request : s = r
    BY DEF Types, OneRequest
  <2> QED BY <1>1, <2>1, <2>2, <2>3 DEF RequestOK
<1> QED BY <1>2, <1>3, <1>4, <1>5

LEMMA ClearRejectedInv ==
  ASSUME OneRequest, IInv, NEW r \in Request, ClearRejected(r)
  PROVE  IInv'
<1> USE DEF IInv, ClearRejected
<1>1. Rows' = Rows /\ Written' = Written
  BY DEF Rows, Written
<1>2. Types'
  <2>1. PICK h \in files[r] :
          /\ files' = [files EXCEPT ![r] = @ \ {h}]
          /\ \/ /\ rejected' = rejected \ {h}
                /\ refused' = [refused EXCEPT ![r] = @ \cup {h}]
                /\ UNCHANGED <<step, current>>
             \/ /\ current' = [current EXCEPT ![r] = {h}]
                /\ step' = [step EXCEPT ![r] = "ready"]
                /\ UNCHANGED <<rejected, refused>>
    OBVIOUS
  <2>2. h \in Hash
    BY DEF Types
  <2>3. files' \in [Request -> SUBSET Hash] /\ rejected' \in SUBSET Hash
    BY <2>1 DEF Types
  <2>4. refused' \in [Request -> SUBSET Hash]
    <3>1. refused[r] \cup {h} \in SUBSET Hash /\ refused \in [Request -> SUBSET Hash]
      BY <2>2 DEF Types
    <3>2. refused' = refused \/ refused' = [refused EXCEPT ![r] = refused[r] \cup {h}]
      BY <2>1
    <3> HIDE DEF IInv, ClearRejected
    <3> QED BY <3>1, <3>2
  <2>6. current' \in [Request -> SUBSET Hash]
    BY <2>1, <2>2 DEF Types
  <2>5. step' \in [Request -> {"idle", "strip", "check", "examine", "ready", "fetch",
                               "insert", "commit", "answer"}]
    BY <2>1 DEF Types
  <2> QED BY <2>3, <2>4, <2>5, <2>6 DEF Types
<1>3. RowsOK' /\ FeederOK' /\ JournalOK' /\ PendingIsEntered'
  BY <1>1 DEF RowsOK, Types, FeederOK, JournalOK, WrittenHasRow, RequestOK, PendingIsEntered
<1>4. RequestOK' /\ FetchOK' /\ TrigramsOK'
  BY <1>1 DEF RequestOK, Types, RowsOK, Working, OneRequest, FetchOK, TrigramsOK
<1> QED BY <1>2, <1>3, <1>4

LEMMA IsReadyInv ==
  ASSUME OneRequest, IInv, NEW r \in Request, IsReady(r)
  PROVE  IInv'
<1> USE DEF IInv, IsReady
<1>1. Rows' = Rows /\ Written' = Written
  BY DEF Rows, Written
<1>2. Types'
  <2>1. current[r] \in SUBSET Hash
    BY DEF Types
  <2>3. outstanding' \in [Request -> SUBSET Hash]
    <3>1. outstanding[r] \cup current[r] \in SUBSET Hash /\ outstanding \in [Request -> SUBSET Hash]
      BY <2>1 DEF Types
    <3>2. \/ outstanding' = outstanding
          \/ outstanding' = [outstanding EXCEPT ![r] = outstanding[r] \cup current[r]]
      OBVIOUS
    <3> HIDE DEF IInv, IsReady
    <3> QED BY <3>1, <3>2
  <2>4. current' \in [Request -> SUBSET Hash]
    BY DEF Types
  <2>2. step' \in [Request -> {"idle", "strip", "check", "examine", "ready", "fetch",
                               "insert", "commit", "answer"}]
    BY DEF Types
  <2> QED BY <2>2, <2>3, <2>4 DEF Types
<1>3. RowsOK' /\ FeederOK' /\ JournalOK' /\ PendingIsEntered'
  BY <1>1 DEF RowsOK, Types, FeederOK, JournalOK, WrittenHasRow, RequestOK, PendingIsEntered
<1>4. RequestOK' /\ FetchOK' /\ TrigramsOK'
  BY <1>1 DEF RequestOK, Types, RowsOK, Working, OneRequest, FetchOK, TrigramsOK
<1> QED BY <1>2, <1>3, <1>4

LEMMA StartFetchInv ==
  ASSUME OneRequest, IInv, NEW r \in Request, StartFetch(r)
  PROVE  IInv'
<1> USE DEF IInv, StartFetch
<1>1. Rows' = Rows /\ Written' = Written
  BY DEF Rows, Written
<1>2. Types'
  BY DEF Types
<1>3. RowsOK' /\ FeederOK' /\ JournalOK' /\ PendingIsEntered'
  BY <1>1 DEF RowsOK, Types, FeederOK, JournalOK, WrittenHasRow, RequestOK, PendingIsEntered
<1>4. RequestOK' /\ TrigramsOK'
  BY <1>1 DEF RequestOK, Types, RowsOK, Working, OneRequest, TrigramsOK
<1>5. FetchOK'
  <2>1. current'[r] = {} /\ step'[r] = "examine" /\ \A s \in Request : s = r
    BY DEF Types, OneRequest
  <2>2. \A h \in Hash : fetch'[h] # fetch[h] => h \in current[r]
    BY DEF Types
  <2>3. (Rows \cup transaction) \cap current[r] = {}
    BY DEF RequestOK, Working
  <2>4. (files[r] \cup outstanding[r]) \cap current[r] = {}
    BY DEF FetchOK, Types
  <2>5. \A h \in Rows' \cup transaction' : fetch'[h] # "running"
    BY <1>1, <2>2, <2>3 DEF FetchOK, Types, Rows
  <2>6. \A h \in files[r] : fetch'[h] = "none"
    BY <2>2, <2>4 DEF FetchOK, Types, Working
  <2>7. \A h \in outstanding[r] : fetch'[h] # "running"
    BY <2>2, <2>4 DEF FetchOK, Types, Working
  <2>8. outstanding[r] \cap files[r] = {}
    BY DEF FetchOK
  <2> QED BY <2>1, <2>5, <2>6, <2>7, <2>8 DEF FetchOK
<1> QED BY <1>2, <1>3, <1>4, <1>5

LEMMA AbandonFilesInv ==
  ASSUME OneRequest, IInv, NEW r \in Request, AbandonFiles(r)
  PROVE  IInv'
<1> USE DEF IInv, AbandonFiles, DatabaseFree
<1>1. number' = number /\ ingested' = ingested
  <2>1. refused[r] \cap Rows = {}
    BY DEF RequestOK, Working
  <2>2. \A h \in Hash : h \in refused[r] => number[h] = 0
    BY <2>1 DEF Rows
  <2> QED BY <2>1, <2>2 DEF Types, RowsOK
<1>2. Rows' = Rows /\ Written' = Written
  BY <1>1 DEF Rows, Written
<1>3. Types'
  BY <1>1 DEF Types
<1>4. RowsOK' /\ FeederOK'
  BY <1>1, <1>2 DEF RowsOK, Types, FeederOK
<1>5. JournalOK'
  <2>1. WrittenHasRow'
    BY <1>1, <1>2 DEF JournalOK, WrittenHasRow
  <2> QED BY <1>1, <1>2, <2>1 DEF JournalOK
<1>6. PendingIsEntered'
  BY <1>1, <1>2 DEF PendingIsEntered, Types
<1>7. RequestOK' /\ FetchOK' /\ TrigramsOK'
  BY <1>1, <1>2 DEF RequestOK, Types, RowsOK, Working, OneRequest, FetchOK, TrigramsOK
<1> QED BY <1>3, <1>4, <1>5, <1>6, <1>7

LEMMA InsertFilesInv ==
  ASSUME OneRequest, IInv, NEW r \in Request, InsertFiles(r)
  PROVE  IInv'
<1> USE DEF IInv, InsertFiles, DatabaseFree
<1>1. IsFiniteSet(transaction') /\ Cardinality(transaction') \in Nat
  <2>1. transaction' \subseteq Hash
    BY DEF Types
  <2> QED BY <2>1, FS_Subset, FS_CardinalityType, FiniteAssumption
<1>2. Rows' = Rows /\ Written' = Written
  BY DEF Rows, Written
<1>3. Types'
  BY <1>1 DEF Types
<1>4. RowsOK' /\ FeederOK' /\ JournalOK'
  BY <1>1, <1>2 DEF RowsOK, Types, FeederOK, JournalOK, WrittenHasRow, RequestOK
<1>5. PendingIsEntered'
  <2>1. IsFiniteSet(Rows) /\ Rows \cap transaction' = {}
    BY FS_Subset, FiniteAssumption DEF Rows
  <2>2. Cardinality(Rows \cup transaction') = Cardinality(Rows) + Cardinality(transaction')
    <3> DEFINE new == transaction'
    <3>1. IsFiniteSet(new) /\ Cardinality(new) \in Nat /\ Rows \cap new = {}
      BY <1>1, <2>1
    <3>2. Cardinality(Rows) \in Nat /\ Cardinality({}) = 0
      BY <2>1, FS_CardinalityType, FS_EmptySet
    <3> HIDE DEF new
    <3>3. Cardinality(Rows \cup new) = Cardinality(Rows) + Cardinality(new) - Cardinality(Rows \cap new)
      BY <2>1, <3>1, FS_Union
    <3>4. Cardinality(Rows \cap new) = 0
      BY <3>1, <3>2
    <3>5. \A a, b, c, d : a \in Nat /\ b \in Nat /\ d = 0 /\ c = a + b - d => c = a + b
      OBVIOUS
    <3> QED BY <3>1, <3>2, <3>3, <3>4, <3>5 DEF new
  <2>3. transaction = {} /\ Rows \cup transaction = Rows
    OBVIOUS
  <2>4. size' = size + Cardinality(transaction')
    OBVIOUS
  <2>5. pending' \ transaction' \subseteq pending
    OBVIOUS
  <2> QED BY <1>2, <2>2, <2>3, <2>4, <2>5 DEF PendingIsEntered
<1>6. RequestOK' /\ FetchOK' /\ TrigramsOK'
  BY <1>1, <1>2 DEF RequestOK, Types, RowsOK, Working, OneRequest, FetchOK, TrigramsOK
<1> QED BY <1>3, <1>4, <1>5, <1>6

LEMMA CommitInv ==
  ASSUME OneRequest, IInv, Commit
  PROVE  IInv'
<1> USE DEF IInv
<1>1. /\ Cardinality(transaction) \in Nat
      /\ lastNumber' = lastNumber + Cardinality(transaction)
      /\ transaction' = {}
      /\ step' = [r \in Request |-> IF step[r] = "commit" THEN "answer" ELSE step[r]]
      /\ UNCHANGED <<ingested, cache, fetch, rejected, journal, pending, size, feeder, elapsed,
                     batch, unread, loaded, current, files, outstanding, completed, refused,
                     asked, done, mishaps>>
  BY FS_Subset, FS_CardinalityType, FiniteAssumption DEF Commit, Types
<1>2. /\ lastNumber \in Nat /\ lastNumber' \in Nat /\ lastNumber <= lastNumber'
      /\ \A h \in transaction : number'[h] \in (lastNumber + 1) .. lastNumber'
      /\ \A h \in Hash \ transaction : number'[h] = number[h]
      /\ number' \in [Hash -> Nat]
      /\ Rows' = Rows \cup transaction
  <2> DEFINE n == Cardinality(transaction)
  <2>1. PICK rank \in Injection(transaction, 1 .. n) :
          number' = [h \in Hash |-> IF h \in transaction THEN lastNumber + rank[h] ELSE number[h]]
    BY DEF Commit
  <2>2. rank \in [transaction -> 1 .. n]
    BY DEF Injection, IsInjective
  <2>3. n \in Nat /\ lastNumber' = lastNumber + n /\ lastNumber \in Nat
    BY <1>1 DEF Types
  <2> HIDE DEF n
  <2>4. \A h \in transaction : rank[h] \in 1 .. n
    BY <2>2
  <2>5. transaction \subseteq Hash /\ number \in [Hash -> Nat]
    BY DEF Types
  <2>6. \A h \in transaction : number'[h] = lastNumber + rank[h]
    BY <2>1, <2>5
  <2>7. \A h \in transaction : number'[h] \in (lastNumber + 1) .. lastNumber'
    BY <2>3, <2>4, <2>6
  <2>8. \A h \in Hash \ transaction : number'[h] = number[h]
    BY <2>1
  <2>9. \A h \in transaction : number'[h] \in Nat /\ number'[h] # 0
    BY <2>3, <2>4, <2>6
  <2>10. number' \in [Hash -> Nat]
    <3>1. \A h \in Hash : number'[h] \in Nat
      BY <2>5, <2>8, <2>9
    <3> QED BY <2>1, <3>1
  <2>11. Rows' = Rows \cup transaction
    BY <2>5, <2>8, <2>9 DEF Rows
  <2>12. lastNumber' \in Nat /\ lastNumber <= lastNumber'
    BY <2>3
  <2> QED BY <2>3, <2>7, <2>8, <2>10, <2>11, <2>12
<1>3. Types'
  <2>1. journal' \in Seq(SUBSET (1 .. lastNumber'))
    BY <1>1, <1>2, SeqGrows DEF Types
  <2>2. \A h \in DOMAIN batch : batch[h] \in 1 .. lastNumber'
    BY <1>2 DEF Types
  <2>3. step' \in [Request -> {"idle", "strip", "check", "examine", "ready", "fetch",
                               "insert", "commit", "answer"}]
    BY <1>1 DEF Types
  <2> QED BY <1>1, <1>2, <2>1, <2>2, <2>3 DEF Types
<1>4. RowsOK'
  <2>1. \A h \in Hash : number'[h] <= lastNumber'
    <3>1. \A h \in Hash \ transaction : number'[h] <= lastNumber'
      BY <1>2 DEF RowsOK, Types
    <3>2. \A h \in transaction : number'[h] <= lastNumber'
      BY <1>2
    <3> QED BY <3>1, <3>2
  <2> QED BY <1>1, <1>2, <2>1 DEF RowsOK
<1>5. FeederOK'
  <2>1. transaction \cap Rows = {} /\ DOMAIN batch \subseteq Hash
    BY DEF RowsOK, Types
  <2>2. feeder \in {"load", "finish"} => \A h \in DOMAIN batch : batch[h] = number'[h]
    BY <1>2, <2>1 DEF FeederOK
  <2>3. Written' = Written
    BY <1>1 DEF Written
  <2> QED BY <1>1, <1>2, <2>1, <2>2, <2>3 DEF FeederOK
<1>6. JournalOK'
  <2>1. ingested \subseteq Rows /\ transaction \cap Rows = {}
    BY DEF RowsOK
  <2>2. Rows \subseteq Hash /\ \A h \in Rows : number'[h] = number[h]
    BY <1>2, <2>1 DEF Rows
  <2>3. Written' = Written
    BY <1>1 DEF Written
  <2>4. {number[h] : h \in Rows} \subseteq {number'[h] : h \in Rows'}
    BY <1>2, <2>2
  <2>5. WrittenHasRow'
    BY <2>3, <2>4 DEF JournalOK, WrittenHasRow
  <2> QED BY <1>1, <2>1, <2>2, <2>3, <2>5 DEF JournalOK
<1>7. PendingIsEntered'
  <2>1. transaction' = {} /\ Rows' \cup transaction' = Rows \cup transaction
    BY <1>1, <1>2
  <2>2. transaction \cap ingested = {}
    BY DEF RowsOK
  <2> QED BY <1>1, <1>2, <2>1, <2>2 DEF PendingIsEntered
<1>8. RequestOK' /\ FetchOK' /\ TrigramsOK'
  BY <1>1, <1>2 DEF RequestOK, Types, RowsOK, Working, OneRequest, FetchOK, TrigramsOK
<1> QED BY <1>3, <1>4, <1>5, <1>6, <1>7, <1>8

LEMMA AnswerInv ==
  ASSUME OneRequest, IInv, NEW r \in Request, Answer(r)
  PROVE  IInv'
<1> USE DEF IInv, Answer, Forget
<1>1. Rows' = Rows /\ Written' = Written
  BY DEF Rows, Written
<1>2. Types'
  BY DEF Types
<1>3. RowsOK' /\ FeederOK' /\ JournalOK' /\ PendingIsEntered'
  BY <1>1 DEF RowsOK, Types, FeederOK, JournalOK, WrittenHasRow, RequestOK, PendingIsEntered
<1>4. RequestOK' /\ FetchOK' /\ TrigramsOK'
  BY <1>1 DEF RequestOK, Types, RowsOK, Working, OneRequest, FetchOK, TrigramsOK
<1> QED BY <1>2, <1>3, <1>4

LEMMA FetchStoreInv ==
  ASSUME OneRequest, IInv, NEW h \in Hash, FetchStore(h)
  PROVE  IInv'
<1> USE DEF IInv, FetchStore
<1>1. Rows' = Rows /\ Written' = Written
  BY DEF Rows, Written
<1>2. Types'
  BY DEF Types
<1>3. RowsOK' /\ FeederOK' /\ JournalOK' /\ PendingIsEntered'
  BY <1>1 DEF RowsOK, Types, FeederOK, JournalOK, WrittenHasRow, RequestOK, PendingIsEntered
<1>4. RequestOK' /\ FetchOK' /\ TrigramsOK'
  BY <1>1 DEF RequestOK, Types, RowsOK, Working, OneRequest, FetchOK, TrigramsOK
<1> QED BY <1>2, <1>3, <1>4

LEMMA FetchRejectInv ==
  ASSUME OneRequest, IInv, NEW h \in Hash, FetchReject(h)
  PROVE  IInv'
<1> USE DEF IInv, FetchReject
<1>1. Rows' = Rows /\ Written' = Written
  BY DEF Rows, Written
<1>2. Types'
  BY DEF Types
<1>3. RowsOK' /\ FeederOK' /\ JournalOK' /\ PendingIsEntered'
  BY <1>1 DEF RowsOK, Types, FeederOK, JournalOK, WrittenHasRow, RequestOK, PendingIsEntered
<1>4. RequestOK' /\ FetchOK' /\ TrigramsOK'
  BY <1>1 DEF RequestOK, Types, RowsOK, Working, OneRequest, FetchOK, TrigramsOK
<1> QED BY <1>2, <1>3, <1>4

LEMMA FetchEndInv ==
  ASSUME OneRequest, IInv, NEW h \in Hash, FetchEnd(h)
  PROVE  IInv'
<1> USE DEF IInv, FetchEnd
<1>1. Rows' = Rows /\ Written' = Written
  BY DEF Rows, Written
<1>2. Types'
  BY DEF Types
<1>3. RowsOK' /\ FeederOK' /\ JournalOK' /\ PendingIsEntered'
  BY <1>1 DEF RowsOK, Types, FeederOK, JournalOK, WrittenHasRow, RequestOK, PendingIsEntered
<1>4. RequestOK' /\ FetchOK' /\ TrigramsOK'
  BY <1>1 DEF RequestOK, Types, RowsOK, Working, OneRequest, FetchOK, TrigramsOK
<1> QED BY <1>2, <1>3, <1>4

LEMMA GetBatchInv ==
  ASSUME OneRequest, IInv, GetBatch
  PROVE  IInv'
<1> USE DEF IInv, GetBatch, DatabaseFree
<1>1. Rows' = Rows /\ Written' = Written
  BY DEF Rows, Written
<1>2. Types'
  <2>1. CASE NextBatch = {} \/ (Cardinality(NextBatch) < BatchSize /\ ~elapsed)
    BY <2>1 DEF Types
  <2>2. CASE ~(NextBatch = {} \/ (Cardinality(NextBatch) < BatchSize /\ ~elapsed))
    <3>1. batch' = [h \in NextBatch |-> number[h]] /\ unread' = NextBatch /\ loaded' = {}
          /\ feeder' = "load" /\ elapsed' = FALSE
      BY <2>2
    <3>2. NextBatch \subseteq Rows /\ NextBatch \subseteq Hash
      BY DEF NextBatch, Rows
    <3>3. \A h \in NextBatch : number[h] \in 1 .. lastNumber
      BY <3>2 DEF Types, RowsOK, Rows
    <3> HIDE DEF GetBatch
    <3>4. batch' = [h \in DOMAIN batch' |-> batch'[h]] /\ DOMAIN batch' = NextBatch
          /\ \A h \in DOMAIN batch' : batch'[h] \in 1 .. lastNumber
      BY <3>1, <3>3
    <3> USE DEF GetBatch
    <3> QED BY <3>1, <3>2, <3>4 DEF Types
  <2> QED BY <2>1, <2>2
<1>3. RowsOK' /\ JournalOK' /\ PendingIsEntered'
  BY <1>1 DEF RowsOK, Types, JournalOK, WrittenHasRow, RequestOK, PendingIsEntered
<1>4. FeederOK'
  <2>1. CASE feeder' \in {"wait", "delay"} /\ UNCHANGED <<batch, unread, loaded>>
    BY <1>1, <2>1 DEF FeederOK
  <2>2. CASE batch' = [h \in NextBatch |-> number[h]] /\ unread' = NextBatch /\ feeder' = "load"
    <3>1. NextBatch \subseteq Rows \ ingested
      BY DEF NextBatch
    <3> QED BY <1>1, <2>2, <3>1 DEF FeederOK
  <2> QED BY <2>1, <2>2
<1>5. RequestOK' /\ FetchOK' /\ TrigramsOK'
  BY <1>1 DEF RequestOK, Types, RowsOK, Working, OneRequest, FetchOK, TrigramsOK
<1> QED BY <1>2, <1>3, <1>4, <1>5

LEMMA WaitTimeoutInv ==
  ASSUME OneRequest, IInv, WaitTimeout
  PROVE  IInv'
<1> USE DEF IInv, WaitTimeout
<1>1. Rows' = Rows /\ Written' = Written
  BY DEF Rows, Written
<1>2. Types'
  BY DEF Types
<1>3. RowsOK' /\ FeederOK' /\ JournalOK' /\ PendingIsEntered'
  BY <1>1 DEF RowsOK, Types, FeederOK, JournalOK, WrittenHasRow, RequestOK, PendingIsEntered
<1>4. RequestOK' /\ FetchOK' /\ TrigramsOK'
  BY <1>1 DEF RequestOK, Types, RowsOK, Working, OneRequest, FetchOK, TrigramsOK
<1> QED BY <1>2, <1>3, <1>4

LEMMA LoadTrigramsInv ==
  ASSUME OneRequest, IInv, LoadTrigrams
  PROVE  IInv'
<1> USE DEF IInv, LoadTrigrams
<1>1. Rows' = Rows /\ Written' = Written
  BY DEF Rows, Written
<1>2. Types'
  BY DEF Types
<1>3. RowsOK' /\ JournalOK' /\ PendingIsEntered'
  BY <1>1 DEF RowsOK, Types, JournalOK, WrittenHasRow, RequestOK, PendingIsEntered
<1>4. FeederOK'
  <2>1. unread' \cup loaded' = unread \cup loaded
    OBVIOUS
  <2> QED BY <1>1, <2>1 DEF FeederOK
<1>5. RequestOK' /\ FetchOK' /\ TrigramsOK'
  BY <1>1 DEF RequestOK, Types, RowsOK, Working, OneRequest, FetchOK, TrigramsOK
<1> QED BY <1>2, <1>3, <1>4, <1>5

LEMMA RejectUnreadableInv ==
  ASSUME OneRequest, IInv, RejectUnreadable
  PROVE  IInv'
<1> USE DEF IInv, RejectUnreadable
<1>1. /\ mishaps' \in [FaultKinds -> Nat]
      /\ Never("load")' => Never("load") /\ \E h \in unread : h \notin cache
      /\ Never("commit")' => Never("commit")
  <2>1. CASE Mishap("load")
    BY <2>1, MishapCounts DEF FaultKinds
  <2>2. CASE UNCHANGED mishaps /\ \E h \in unread : h \notin cache
    BY <2>2 DEF Types
  <2> QED BY <2>1, <2>2
<1>2. Rows' = Rows /\ Written' = Written
  BY DEF Rows, Written
<1>3. Types'
  <2>2. rejected' \in SUBSET Hash /\ unread' \in SUBSET DOMAIN batch
    BY DEF Types
  <2> QED BY <1>1, <2>2 DEF Types
<1>4. RowsOK' /\ JournalOK' /\ PendingIsEntered'
  BY <1>1, <1>2 DEF RowsOK, Types, JournalOK, WrittenHasRow, RequestOK, PendingIsEntered
<1>5. FeederOK'
  <2>1. \/ ~Never("load")'
        \/ Never("load") /\ \E h \in unread : h \notin cache
    BY <1>1
  <2>2. Never("load") => unread \subseteq cache
    BY DEF FeederOK, TrigramsOK, Types
  <2>3. ~Never("load")'
    BY <2>1, <2>2
  <2> QED BY <1>2, <2>3 DEF FeederOK
<1>6. RequestOK' /\ FetchOK'
  BY <1>1, <1>2 DEF RequestOK, Types, RowsOK, Working, OneRequest, FetchOK
<1>7. TrigramsOK'
  <2>1. \/ ~Never("load")'
        \/ Never("load") /\ \E h \in unread : h \notin cache
    BY <1>1
  <2>2. Never("load") => unread \subseteq cache
    BY DEF FeederOK, TrigramsOK, Types
  <2> QED BY <2>1, <2>2 DEF TrigramsOK
<1> QED BY <1>3, <1>4, <1>5, <1>6, <1>7

LEMMA WriteBatchInv ==
  ASSUME OneRequest, IInv, WriteBatch
  PROVE  IInv'
<1> USE DEF IInv, WriteBatch
<1>1. Rows' = Rows /\ Written' = Written \cup {batch[h] : h \in loaded}
  <2> DEFINE b == {batch[h] : h \in loaded}
  <2>1. b \in SUBSET (1 .. lastNumber) /\ journal \in Seq(SUBSET (1 .. lastNumber))
    BY DEF Types
  <2>2. Written' = Written \cup b
    BY <2>1, WrittenAppend DEF Written
  <2> QED BY <2>2 DEF Rows
<1>2. Types'
  <2>1. {batch[h] : h \in loaded} \in SUBSET (1 .. lastNumber)
    BY DEF Types
  <2>2. journal' \in Seq(SUBSET (1 .. lastNumber'))
    BY <2>1 DEF Types
  <2> QED BY <2>2 DEF Types
<1>3. RowsOK' /\ FeederOK' /\ PendingIsEntered'
  BY <1>1 DEF RowsOK, Types, FeederOK, PendingIsEntered
<1>4. JournalOK'
  <2>1. \A h \in loaded : h \in Rows /\ batch[h] = number[h]
    BY DEF FeederOK, Types
  <2>2. WrittenHasRow'
    BY <1>1, <2>1 DEF JournalOK, WrittenHasRow
  <2> QED BY <1>1, <2>2 DEF JournalOK
<1>5. RequestOK' /\ FetchOK' /\ TrigramsOK'
  BY <1>1 DEF RequestOK, Types, RowsOK, Working, OneRequest, FetchOK, TrigramsOK
<1> QED BY <1>2, <1>3, <1>4, <1>5

LEMMA FinishIngestInv ==
  ASSUME OneRequest, IInv, FinishIngest
  PROVE  IInv'
<1> USE DEF IInv, FinishIngest, DatabaseFree
<1>1. ingested' = ingested \cup DOMAIN batch /\ DOMAIN batch \subseteq Rows \ ingested
  BY DEF FeederOK, Types
<1>2. Rows' = Rows /\ Written' = Written
  BY DEF Rows, Written
<1>3. Types'
  BY <1>1 DEF Types
<1>4. RowsOK' /\ FeederOK' /\ PendingIsEntered'
  BY <1>1, <1>2 DEF RowsOK, Types, FeederOK, PendingIsEntered
<1>5. JournalOK'
  <2>1. Never("load") => \A h \in DOMAIN batch : number[h] \in Written
    BY DEF FeederOK
  <2> QED BY <1>1, <1>2, <2>1 DEF JournalOK, WrittenHasRow
<1>6. RequestOK' /\ FetchOK' /\ TrigramsOK'
  BY <1>1, <1>2 DEF RequestOK, Types, RowsOK, Working, OneRequest, FetchOK, TrigramsOK
<1> QED BY <1>3, <1>4, <1>5, <1>6

LEMMA ReleaseTrigramsInv ==
  ASSUME OneRequest, IInv, ReleaseTrigrams
  PROVE  IInv'
<1> USE DEF IInv, ReleaseTrigrams
<1>1. Rows' = Rows /\ Written' = Written
  BY DEF Rows, Written
<1>2. Types'
  <2>1. DOMAIN batch' = {} /\ batch' = [h \in DOMAIN batch' |-> batch'[h]]
    OBVIOUS
  <2>2. unread = {}
    BY DEF FeederOK
  <2> QED BY <2>1, <2>2 DEF Types
<1>3. RowsOK' /\ FeederOK' /\ JournalOK' /\ PendingIsEntered'
  BY <1>1 DEF RowsOK, Types, FeederOK, JournalOK, WrittenHasRow, RequestOK, PendingIsEntered
<1>4. RequestOK' /\ FetchOK'
  BY <1>1 DEF RequestOK, Types, RowsOK, Working, OneRequest, FetchOK
<1>5. TrigramsOK'
  <2>1. loaded \subseteq ingested /\ ingested \subseteq Rows
    BY DEF FeederOK, RowsOK
  <2>2. transaction \cap loaded = {}
    BY <2>1 DEF RowsOK
  <2>3. \A s \in Request : step[s] \in Working => outstanding[s] \cap loaded = {}
    BY <2>1 DEF RequestOK
  <2> QED BY <1>1, <2>1, <2>2, <2>3 DEF TrigramsOK
<1> QED BY <1>2, <1>3, <1>4, <1>5

LEMMA WriteFailsInv ==
  ASSUME OneRequest, IInv, WriteFails
  PROVE  IInv'
<1> USE DEF IInv, WriteFails, RestartFeeder
<1>1. /\ mishaps' \in [FaultKinds -> Nat]
      /\ Never("load")' => Never("load")
      /\ Never("commit")' => Never("commit")
  BY MishapCounts DEF FaultKinds
<1>2. Rows' = Rows /\ Written' = Written
  BY DEF Rows, Written
<1>3. Types'
  <2>1. DOMAIN batch' = {} /\ batch' = [h \in DOMAIN batch' |-> batch'[h]]
    OBVIOUS
  <2> QED BY <1>1, <2>1 DEF Types
<1>4. RowsOK' /\ FeederOK' /\ JournalOK' /\ PendingIsEntered'
  BY <1>1, <1>2 DEF RowsOK, Types, FeederOK, JournalOK, WrittenHasRow, RequestOK,
     PendingIsEntered
<1>5. RequestOK' /\ FetchOK' /\ TrigramsOK'
  BY <1>1, <1>2 DEF RequestOK, Types, RowsOK, Working, OneRequest, FetchOK, TrigramsOK
<1> QED BY <1>3, <1>4, <1>5

LEMMA FinishFailsInv ==
  ASSUME OneRequest, IInv, FinishFails
  PROVE  IInv'
<1> USE DEF IInv, FinishFails, RestartFeeder, DatabaseFree
<1>1. /\ mishaps' \in [FaultKinds -> Nat]
      /\ Never("load")' => Never("load")
      /\ Never("commit")' => Never("commit")
  BY MishapCounts DEF FaultKinds
<1>2. Rows' = Rows /\ Written' = Written
  BY DEF Rows, Written
<1>3. Types'
  <2>1. DOMAIN batch' = {} /\ batch' = [h \in DOMAIN batch' |-> batch'[h]]
    OBVIOUS
  <2> QED BY <1>1, <2>1 DEF Types
<1>4. RowsOK' /\ FeederOK' /\ JournalOK' /\ PendingIsEntered'
  BY <1>1, <1>2 DEF RowsOK, Types, FeederOK, JournalOK, WrittenHasRow, RequestOK,
     PendingIsEntered
<1>5. RequestOK' /\ FetchOK' /\ TrigramsOK'
  BY <1>1, <1>2 DEF RequestOK, Types, RowsOK, Working, OneRequest, FetchOK, TrigramsOK
<1> QED BY <1>3, <1>4, <1>5

LEMMA CommitFailsInv ==
  ASSUME OneRequest, IInv, CommitFails
  PROVE  IInv'
<1> USE DEF IInv, CommitFails, Forget
<1>1. /\ mishaps' \in [FaultKinds -> Nat]
      /\ Never("load")' => Never("load")
      /\ ~Never("commit")'
  BY MishapCounts DEF FaultKinds
<1>2. Rows' = Rows /\ Written' = Written
  BY DEF Rows, Written
<1>3. Types'
  BY <1>1 DEF Types
<1>4. RowsOK' /\ FeederOK' /\ JournalOK' /\ PendingIsEntered'
  BY <1>1, <1>2 DEF RowsOK, Types, FeederOK, JournalOK, WrittenHasRow, RequestOK,
     PendingIsEntered
<1>5. RequestOK' /\ FetchOK' /\ TrigramsOK'
  BY <1>1, <1>2 DEF RequestOK, Types, RowsOK, Working, OneRequest, FetchOK, TrigramsOK
<1> QED BY <1>3, <1>4, <1>5

LEMMA DropRequestInv ==
  ASSUME OneRequest, IInv, NEW r \in Request, DropRequest(r)
  PROVE  IInv'
<1> USE DEF IInv, DropRequest, Forget
<1>1. /\ mishaps' \in [FaultKinds -> Nat]
      /\ Never("load")' => Never("load")
      /\ Never("commit")' => Never("commit")
  BY MishapCounts DEF FaultKinds
<1>2. Rows' = Rows /\ Written' = Written
  BY DEF Rows, Written
<1>3. Types'
  BY <1>1 DEF Types
<1>4. RowsOK' /\ FeederOK' /\ JournalOK' /\ PendingIsEntered'
  BY <1>1, <1>2 DEF RowsOK, Types, FeederOK, JournalOK, WrittenHasRow, RequestOK,
     PendingIsEntered
<1>5. RequestOK' /\ FetchOK' /\ TrigramsOK'
  BY <1>1, <1>2 DEF RequestOK, Types, RowsOK, Working, OneRequest, FetchOK, TrigramsOK
<1> QED BY <1>3, <1>4, <1>5

LEMMA CrashInv ==
  ASSUME OneRequest, IInv, Crash
  PROVE  IInv'
<1> USE DEF IInv, Crash, RestartFeeder, Forget
<1>1. /\ mishaps' \in [FaultKinds -> Nat]
      /\ Never("load")' => Never("load")
      /\ Never("commit")' => Never("commit")
  BY MishapCounts DEF FaultKinds
<1>2. Rows' = Rows /\ Written' = Written
  BY DEF Rows, Written
<1>3. Types'
  <2>1. DOMAIN batch' = {} /\ batch' = [h \in DOMAIN batch' |-> batch'[h]]
    OBVIOUS
  <2>2. Cardinality(Rows) \in Nat
    BY FS_Subset, FS_CardinalityType, FiniteAssumption DEF Rows
  <2>3. pending' \in SUBSET Hash
    BY DEF Rows
  <2> QED BY <2>1, <2>2, <2>3, <1>1 DEF Types
<1>4. RowsOK' /\ FeederOK' /\ JournalOK' /\ PendingIsEntered'
  BY <1>1, <1>2 DEF RowsOK, Types, FeederOK, JournalOK, WrittenHasRow, RequestOK,
     PendingIsEntered
<1>5. RequestOK' /\ TrigramsOK'
  BY <1>1, <1>2 DEF RequestOK, Types, RowsOK, Working, OneRequest, TrigramsOK
<1>6. FetchOK'
  <2>1. Rows' \cup transaction' \subseteq Hash /\ \A h \in Hash : fetch'[h] # "running"
    BY DEF Rows
  <2>2. \A r \in Request : step'[r] = "idle" /\ files'[r] = {} /\ current'[r] = {} /\ outstanding'[r] = {}
    OBVIOUS
  <2> QED BY <2>1, <2>2 DEF FetchOK, Working
<1> QED BY <1>3, <1>4, <1>5, <1>6


----------------------------------------------------------------------------
(* The theorems *)

\* A step that changes nothing.
LEMMA StutterInv == IInv /\ UNCHANGED vars => IInv'
<1> SUFFICES ASSUME IInv, UNCHANGED vars PROVE IInv'
  OBVIOUS
<1> USE DEF IInv, vars
<1>1. Rows' = Rows /\ Written' = Written
  BY DEF Rows, Written
<1>2. Types' /\ RowsOK' /\ RequestOK' /\ FetchOK'
  BY <1>1 DEF Types, RowsOK, RequestOK, FetchOK
<1>3. TrigramsOK' /\ FeederOK' /\ JournalOK' /\ PendingIsEntered'
  BY <1>1 DEF TrigramsOK, FeederOK, JournalOK, WrittenHasRow, PendingIsEntered
<1> QED BY <1>2, <1>3

LEMMA StepInv == OneRequest /\ IInv /\ [Next]_vars => IInv'
<1> SUFFICES ASSUME OneRequest, IInv, [Next]_vars PROVE IInv'
  OBVIOUS
<1>1. CASE \E r \in Request : (\E F \in SUBSET Hash : Begin(r, F)) \/ RunRequest(r) \/ DropRequest(r)
  <2>1. PICK r \in Request : (\E F \in SUBSET Hash : Begin(r, F)) \/ RunRequest(r) \/ DropRequest(r)
    BY <1>1
  <2>2. CASE \E F \in SUBSET Hash : Begin(r, F)
    BY <2>2, BeginInv
  <2>3. CASE RunRequest(r)
    BY <2>3, StripPendingInv, CheckStatusInv, ClearRejectedInv, IsReadyInv, StartFetchInv,
       AbandonFilesInv, InsertFilesInv, AnswerInv DEF RunRequest
  <2>4. CASE DropRequest(r)
    BY <2>4, DropRequestInv
  <2> QED BY <2>1, <2>2, <2>3, <2>4
<1>2. CASE \E h \in Hash : RunFetch(h)
  BY <1>2, FetchStoreInv, FetchRejectInv, FetchEndInv DEF RunFetch
<1>3. CASE RunFeeder
  BY <1>3, GetBatchInv, WaitTimeoutInv, LoadTrigramsInv, RejectUnreadableInv, WriteBatchInv,
     FinishIngestInv, ReleaseTrigramsInv DEF RunFeeder
<1>4. CASE Commit
  BY <1>4, CommitInv
<1>5. CASE WriteFails \/ FinishFails \/ CommitFails
  BY <1>5, WriteFailsInv, FinishFailsInv, CommitFailsInv
<1>6. CASE Crash
  BY <1>6, CrashInv
<1>7. CASE UNCHANGED vars
  BY <1>7, StutterInv
<1> QED BY <1>1, <1>2, <1>3, <1>4, <1>5, <1>6, <1>7 DEF Next

LEMMA Invariance == ASSUME OneRequest PROVE Spec => []IInv
<1>1. Init => IInv
  BY InitInv
<1>2. IInv /\ [Next]_vars => IInv'
  BY StepInv
<1> QED BY <1>1, <1>2, PTL DEF Spec

\* Every variable holds a value of its kind: in particular the numbers in the
\* journal were given out, and the feeder's lists are parts of its batch.
THEOREM IngestTypeCorrect == ASSUME OneRequest PROVE Spec => []TypeOK
<1>1. IInv => TypeOK
  BY TypesAreTypeOK DEF IInv
<1> QED BY <1>1, Invariance, PTL

\* A file reported as completed is in the journal under the number of its row,
\* through crashes, failed writes, failed transactions and dropped requests.
THEOREM CompletedIsSafe == ASSUME OneRequest PROVE Spec => []CompletedIsIndexed
<1>1. IInv => CompletedIsIndexed
  BY DEF IInv, JournalOK, CompletedIsIndexed
<1> QED BY <1>1, Invariance, PTL

\* A file that is entered keeps its trigrams until it is ingested.
THEOREM TrigramsKept == ASSUME OneRequest PROVE Spec => []EnteredHasTrigrams
<1>1. IInv => EnteredHasTrigrams
  BY DEF IInv, TrigramsOK, EnteredHasTrigrams
<1> QED BY <1>1, Invariance, PTL

\* What a query finds in the journal has a row to be selected by.
THEOREM RowsKept == ASSUME OneRequest PROVE Spec => []WrittenHasRow
<1>1. IInv => WrittenHasRow
  BY DEF IInv, JournalOK
<1> QED BY <1>1, Invariance, PTL

\* Unless a commit failed, filter_pending and filter_sizes agree with the rows.
THEOREM PendingAgrees == ASSUME OneRequest PROVE Spec => []PendingIsEntered
<1>1. IInv => PendingIsEntered
  BY DEF IInv
<1> QED BY <1>1, Invariance, PTL

\* The trigrams of a file that is entered are not computed again.
THEOREM NoSecondFetch == ASSUME OneRequest PROVE Spec => []FetchedOnce
<1>1. IInv => FetchedOnce
  BY DEF IInv, FetchOK, FetchedOnce
<1> QED BY <1>1, Invariance, PTL
=============================================================================
