-------------------------- MODULE IndexLifecycleProofs --------------------------
(***************************************************************************)
(* What TLAPS proves about IndexLifecycle: an index holds what its table    *)
(* says, and one that is open has a row and a journal, for all numbers of   *)
(* identifiers, days, files, requests and queries, and whatever fails.      *)
(***************************************************************************)
EXTENDS IndexLifecycle, FiniteSetTheorems, TLAPS

\* A feeder's last step is over before the broker has the next index created.
FeedersKeepUp == "slow" \notin Faults

----------------------------------------------------------------------------
(* The inductive invariant *)

FileNumber == 1 .. MaxFile

\* What TypeOK says of disk and lock, and the same of the rest.
Types ==
  /\ expiry \in [Id -> 0 .. MaxDay + 1] /\ day \in 1 .. MaxDay
  /\ pending \in [Id -> SUBSET FileNumber] /\ ingested \in [Id -> SUBSET FileNumber]
  /\ journal \in [Id -> (SUBSET FileNumber) \cup {None}]
  /\ filters \subseteq Id
  /\ queue \in Seq(Process) /\ readers \subseteq Query /\ writer \in Process \cup {None}
  /\ writer # None => readers = {}
  /\ feeder \in [Id -> [pc : {"none", "idle", "writing", "written"}, batch : SUBSET FileNumber]]
  /\ pc \in [Process -> {"idle", "create", "wait", "locked", "stop", "files", "row"}]
  /\ on \in [Process -> Id]
  /\ up \in {"down", "starting", "up"}

Live(i) == i \in Rows /\ expiry[i] >= day

\* A process that is down has nothing under way.
DownOK == up = "down" => \A p \in Process : pc[p] = "idle"

\* A request is about an index that has no row, nor a feeder, or has not expired.
RequestOK ==
  \A r \in Request :
    /\ pc[r] \in {"idle", "create", "wait", "locked"}
    /\ pc[r] # "idle" => Live(on[r]) \/ (on[r] \notin Rows /\ feeder[on[r]].pc = "none")
    /\ pc[r] \in {"wait", "locked"} => Live(on[r])

\* The collector is at an index that has expired, and that nobody opens any more.
CollectorOK ==
  /\ pc[GC] \in {"idle", "wait", "locked", "stop", "files", "row"}
  /\ pc[GC] # "idle" => on[GC] \in Expired
  /\ pc[GC] \in {"stop", "files", "row"} => on[GC] \notin filters
  /\ pc[GC] = "stop" => journal[on[GC]] # None
  /\ pc[GC] \in {"files", "row"} => feeder[on[GC]].pc \in {"none", "written"}

\* A feeder writes to a journal that is open, or that stop() is waiting for.
FeederOK ==
  \A i \in Id :
    /\ i \notin filters =>
         feeder[i].pc \in {"none", "written"} \/ (pc[GC] = "stop" /\ on[GC] = i)
    /\ feeder[i].pc = "written" /\ Live(i) => journal[i] # None /\ feeder[i].batch \subseteq journal[i]

\* The table of files goes with the row.
TablesOK == \A i \in Id \ Rows : pending[i] = {} /\ ingested[i] = {}

\* The two parts of OpenIsWhole.
WholeOK == \A i \in Id : Live(i) /\ ingested[i] # {} => journal[i] # None /\ ingested[i] \subseteq journal[i]

OpenOK == \A i \in filters : i \in Rows /\ journal[i] # None

IInv == Types /\ DownOK /\ RequestOK /\ CollectorOK /\ FeederOK /\ TablesOK /\ WholeOK /\ OpenOK

USE BoundAssumption, ProcessAssumption, NoneAssumption

----------------------------------------------------------------------------
(* Every step preserves it *)

LEMMA CollectorIsAProcess == GC \in Process /\ Request \subseteq Process /\ GC \notin Request
BY DEF Process

LEMMA InitInv == Init => IInv
<1> SUFFICES ASSUME Init PROVE IInv
  OBVIOUS
<1>1. 1 \in Id /\ 1 \in 1 .. MaxDay /\ 0 \in 0 .. MaxDay + 1 /\ GC \in Process /\ Request \subseteq Process
  BY DEF Id, Process
<1>2. Types
  <2>1. Idle \in [pc : {"none", "idle", "writing", "written"}, batch : SUBSET FileNumber]
    BY DEF Idle
  <2>2. queue \in Seq(Process)
    BY DEF Init
  <2> QED BY <1>1, <2>1, <2>2 DEF Init, Types
<1>3. Rows = {} /\ \A i \in Id : ~Live(i)
  BY DEF Init, Rows, Live
<1>4. DownOK /\ RequestOK /\ CollectorOK
  BY <1>1 DEF Init, DownOK, RequestOK, CollectorOK
<1>5. FeederOK /\ TablesOK /\ WholeOK /\ OpenOK
  BY <1>1, <1>3 DEF Init, FeederOK, TablesOK, WholeOK, OpenOK, Idle
<1> QED BY <1>2, <1>4, <1>5 DEF IInv

LEMMA LockInv == ASSUME IInv, NEW p \in Process, Lock(p) PROVE IInv'
<1>1. pc' = [pc EXCEPT ![p] = "locked"] /\ UNCHANGED <<disk, filters, feeder, on, day, up>>
  BY DEF Lock, Goes
<1>2. pc[p] = "wait" /\ queue # <<>> /\ queue' = Tail(queue)
  BY DEF Lock
<1>3. /\ readers' \subseteq Query /\ writer' \in Process \cup {None}
      /\ writer' # None => readers' = {}
  BY DEF Lock, IInv, Types
<1>4. Types'
  BY <1>1, <1>2, <1>3 DEF IInv, Types, disk
<1>5. DownOK' /\ RequestOK' /\ CollectorOK'
  BY <1>1, <1>2 DEF IInv, Types, DownOK, RequestOK, CollectorOK, disk, Live, Rows, Expired, Process
<1>6. FeederOK' /\ TablesOK' /\ WholeOK' /\ OpenOK'
  BY <1>1, <1>2 DEF IInv, Types, FeederOK, TablesOK, WholeOK, OpenOK, disk, Live, Rows, Process
<1> QED BY <1>4, <1>5, <1>6 DEF IInv

LEMMA AskCreateInv == ASSUME FeedersKeepUp, IInv, NEW r \in Request, AskCreate(r) PROVE IInv'
<1>1. PICK i \in Id : on' = [on EXCEPT ![r] = i] /\ \A j \in Rows : j < i
  BY DEF AskCreate
<1>2. /\ pc' = [pc EXCEPT ![r] = "create"] /\ up = "up" /\ feeder[i].pc = "none" /\ i \notin Rows
      /\ UNCHANGED <<disk, filters, lock, feeder, day, up>>
  BY <1>1 DEF AskCreate, Goes, FeedersKeepUp, Id
<1>3. r \in Process /\ r # GC
  BY DEF Process
<1>4. Types'
  BY <1>1, <1>2, <1>3 DEF IInv, Types, disk, lock
<1>5. DownOK' /\ RequestOK' /\ CollectorOK'
  BY <1>1, <1>2, <1>3 DEF IInv, Types, DownOK, RequestOK, CollectorOK, disk, Live, Rows, Expired, Process
<1>6. FeederOK' /\ TablesOK' /\ WholeOK' /\ OpenOK'
  BY <1>1, <1>2, <1>3 DEF IInv, Types, FeederOK, TablesOK, WholeOK, OpenOK, disk, Live, Rows, Process
<1> QED BY <1>4, <1>5, <1>6 DEF IInv

LEMMA RepeatCreateInv == ASSUME IInv, NEW r \in Request, RepeatCreate(r) PROVE IInv'
<1>1. PICK q \in Request : pc[q] # "idle" /\ on' = [on EXCEPT ![r] = on[q]]
  BY DEF RepeatCreate
<1>2. /\ pc' = [pc EXCEPT ![r] = "create"] /\ UNCHANGED <<disk, filters, lock, feeder, day, up>>
  BY <1>1 DEF RepeatCreate, Goes
<1>3. r \in Process /\ q \in Process /\ r # GC
  BY DEF Process
<1>4. Types'
  BY <1>1, <1>2, <1>3 DEF IInv, Types, disk, lock
<1>5. DownOK' /\ RequestOK' /\ CollectorOK'
  BY <1>1, <1>2, <1>3 DEF IInv, Types, DownOK, RequestOK, CollectorOK, disk, Live, Rows, Expired, Process
<1>6. FeederOK' /\ TablesOK' /\ WholeOK' /\ OpenOK'
  BY <1>1, <1>2, <1>3 DEF IInv, Types, FeederOK, TablesOK, WholeOK, OpenOK, disk, Live, Rows, Process
<1> QED BY <1>4, <1>5, <1>6 DEF IInv

LEMMA InsertRowInv == ASSUME IInv, NEW r \in Request, InsertRow(r) PROVE IInv'
<1> DEFINE i == on[r]
<1>1. /\ pc[r] = "create" /\ pc' = [pc EXCEPT ![r] = "wait"] /\ queue' = Append(queue, r)
      /\ UNCHANGED <<pending, ingested, journal, filters, readers, writer, feeder, on, day, up>>
  BY DEF InsertRow, Goes, Ask
<1>2. /\ r \in Process /\ r # GC /\ i \in Id
      /\ Live(i) \/ (i \notin Rows /\ feeder[i].pc = "none")
  BY <1>1 DEF Process, IInv, RequestOK, Types
<1>3. /\ expiry' \in [Id -> 0 .. MaxDay + 1]
      /\ \A j \in Id : j # i \/ i \in Rows => expiry'[j] = expiry[j]
      /\ i \notin Rows => expiry'[i] = day + 1
  BY <1>2 DEF InsertRow, IInv, Types, Rows
<1>4. Types'
  BY <1>1, <1>2, <1>3 DEF IInv, Types
<1>5. i \in Rows' /\ Live(i)' /\ Rows \subseteq Rows'
      /\ \A j \in Id \ {i} : (j \in Rows' <=> j \in Rows) /\ (Live(j)' <=> Live(j))
  <2>1. \A j \in Id \ {i} : (j \in Rows' <=> j \in Rows) /\ (Live(j)' <=> Live(j))
    BY <1>1, <1>3 DEF Rows, Live
  <2>2. i \in Rows' /\ Live(i)'
    BY <1>1, <1>2, <1>3 DEF Rows, Live, IInv, Types
  <2> QED BY <2>1, <2>2 DEF Rows
<1>6. RequestOK'
  BY <1>1, <1>2, <1>5 DEF IInv, Types, RequestOK, Process
<1>7. Expired \subseteq Expired'
  BY <1>1, <1>2, <1>3, <1>5 DEF IInv, Types, Expired, Rows
<1>8. DownOK' /\ CollectorOK'
  BY <1>1, <1>2, <1>7 DEF IInv, Types, DownOK, CollectorOK, Process
<1>9. FeederOK' /\ TablesOK' /\ WholeOK' /\ OpenOK'
  <2>1. FeederOK'
    BY <1>1, <1>2, <1>5, CollectorIsAProcess DEF IInv, Types, FeederOK
  <2>2. TablesOK' /\ WholeOK'
    BY <1>1, <1>2, <1>5 DEF IInv, Types, TablesOK, WholeOK
  <2>3. OpenOK'
    BY <1>1, <1>5 DEF IInv, OpenOK
  <2> QED BY <2>1, <2>2, <2>3
<1> QED BY <1>4, <1>6, <1>8, <1>9 DEF IInv

LEMMA CreateJournalInv == ASSUME IInv, NEW r \in Request, CreateJournal(r) PROVE IInv'
<1> DEFINE i == on[r]
<1>1. /\ pc[r] = "locked" /\ pc' = [pc EXCEPT ![r] = "idle"] /\ UNCHANGED <<expiry, pending, ingested, on, day, up, queue>>
      /\ readers' = readers \ {r} /\ writer' = IF writer = r THEN None ELSE writer
  BY DEF CreateJournal, Goes, Unlock
<1>2. r \in Process /\ r # GC /\ GC \in Process /\ i \in Id /\ Live(i)
  BY <1>1 DEF Process, IInv, RequestOK, Types
<1>3. \A j \in Id : (j \in Rows' <=> j \in Rows) /\ (Live(j)' <=> Live(j)) /\ (j \in Expired' <=> j \in Expired)
  BY <1>1 DEF Rows, Live, Expired
<1>4. i \in Rows /\ i \notin Expired
  BY <1>2 DEF Live, Expired, Rows, IInv, Types
<1>5. CASE UNCHANGED <<journal, filters, feeder>>
  <2>1. Types' /\ DownOK'
    BY <1>1, <1>2, <1>5 DEF IInv, Types, DownOK
  <2>2. RequestOK' /\ CollectorOK'
    BY <1>1, <1>2, <1>3, <1>5 DEF IInv, Types, RequestOK, CollectorOK, Process
  <2>3. FeederOK' /\ TablesOK' /\ WholeOK' /\ OpenOK'
    <3>1. FeederOK'
      BY <1>1, <1>2, <1>3, <1>5 DEF IInv, Types, FeederOK
    <3>2. TablesOK'
      BY <1>1, <1>2, <1>3, <1>5 DEF IInv, Types, TablesOK
    <3>3. WholeOK'
      BY <1>1, <1>2, <1>3, <1>5 DEF IInv, Types, WholeOK
    <3>4. OpenOK'
      BY <1>1, <1>2, <1>3, <1>5 DEF IInv, Types, OpenOK
    <3> QED BY <3>1, <3>2, <3>3, <3>4
  <2> QED BY <2>1, <2>2, <2>3 DEF IInv
<1>6. CASE /\ i \notin filters /\ journal[i] = None
           /\ journal' = [journal EXCEPT ![i] = {}] /\ filters' = filters \cup {i}
           /\ feeder' = [feeder EXCEPT ![i] = [pc |-> "idle", batch |-> {}]]
  <2>1. Types' /\ DownOK'
    BY <1>1, <1>2, <1>6 DEF IInv, Types, DownOK
  <2>2. RequestOK' /\ CollectorOK'
    BY <1>1, <1>2, <1>3, <1>4, <1>6 DEF IInv, Types, RequestOK, CollectorOK, Process
  <2>3. ingested[i] = {}
    BY <1>2, <1>6 DEF IInv, WholeOK
  <2>4. FeederOK' /\ TablesOK' /\ WholeOK' /\ OpenOK'
    <3>1. FeederOK'
      BY <1>1, <1>2, <1>3, <1>6 DEF IInv, Types, FeederOK
    <3>2. TablesOK' /\ WholeOK'
      BY <1>1, <1>2, <1>3, <1>6, <2>3 DEF IInv, Types, TablesOK, WholeOK
    <3>3. {} # None
      OBVIOUS
    <3>4. OpenOK'
      BY <1>2, <1>3, <1>4, <1>6, <3>3 DEF IInv, Types, OpenOK
    <3> QED BY <3>1, <3>2, <3>4
  <2> QED BY <2>1, <2>2, <2>4 DEF IInv
<1> QED BY <1>5, <1>6 DEF CreateJournal

LEMMA CreateFailsInv == ASSUME IInv, NEW r \in Request, CreateFails(r) PROVE IInv'
<1>1. /\ pc' = [pc EXCEPT ![r] = "idle"] /\ UNCHANGED <<disk, filters, feeder, on, day, up, queue>>
      /\ readers' = readers \ {r} /\ writer' = IF writer = r THEN None ELSE writer
  BY DEF CreateFails, Goes, Unlock
<1>2. r \in Process /\ r # GC
  BY DEF Process
<1>3. Types' /\ DownOK'
  BY <1>1, <1>2 DEF IInv, Types, DownOK, disk
<1>4. RequestOK' /\ CollectorOK'
  BY <1>1, <1>2 DEF IInv, Types, RequestOK, CollectorOK, disk, Live, Rows, Expired, Process
<1>5. FeederOK' /\ TablesOK' /\ WholeOK' /\ OpenOK'
  BY <1>1, <1>2 DEF IInv, Types, FeederOK, TablesOK, WholeOK, OpenOK, disk, Live, Rows, Process
<1> QED BY <1>3, <1>4, <1>5 DEF IInv

LEMMA IngestFileInv == ASSUME IInv, NEW i \in Id, IngestFile(i) PROVE IInv'
<1> DEFINE S == pending[i] \cup ingested[i]
<1>1. S \subseteq FileNumber /\ IsFiniteSet(S) /\ Cardinality(S) \in Nat
  <2>1. S \in SUBSET FileNumber
    BY DEF IInv, Types
  <2>2. IsFiniteSet(FileNumber)
    BY FS_Interval DEF FileNumber
  <2>3. IsFiniteSet(S)
    BY <2>1, <2>2, FS_Subset
  <2> QED BY <2>1, <2>3, FS_CardinalityType
<1>2. Cardinality(S) + 1 \in FileNumber
  BY <1>1 DEF IngestFile, FileNumber
<1>3. /\ pending' = [pending EXCEPT ![i] = @ \cup {Cardinality(S) + 1}] /\ i \in Rows
      /\ UNCHANGED <<expiry, ingested, journal, filters, lock, feeder, pc, on, day, up>>
  BY DEF IngestFile, IInv, Types
<1>4. Types' /\ DownOK'
  BY <1>2, <1>3 DEF IInv, Types, DownOK, lock
<1>5. RequestOK' /\ CollectorOK'
  BY <1>3 DEF IInv, RequestOK, CollectorOK, Live, Rows, Expired
<1>6. FeederOK' /\ TablesOK' /\ WholeOK' /\ OpenOK'
  BY <1>3 DEF IInv, Types, FeederOK, TablesOK, WholeOK, OpenOK, Live, Rows
<1> QED BY <1>4, <1>5, <1>6 DEF IInv

LEMMA StartBatchInv == ASSUME IInv, NEW i \in Id, StartBatch(i) PROVE IInv'
<1>1. /\ feeder' = [feeder EXCEPT ![i] = [pc |-> "writing", batch |-> pending[i]]]
      /\ feeder[i].pc = "idle" /\ UNCHANGED <<disk, filters, lock, pc, on, day, up>>
  BY DEF StartBatch
<1>2. Types' /\ DownOK'
  BY <1>1 DEF IInv, Types, DownOK, lock, disk
<1>3. \A r \in Request : on[r] \in Id
  BY DEF IInv, Types, Process
<1>4. RequestOK' /\ CollectorOK'
  BY <1>1, <1>3 DEF IInv, Types, RequestOK, CollectorOK, Live, Rows, Expired, disk
<1>5. FeederOK' /\ TablesOK' /\ WholeOK' /\ OpenOK'
  <2>1. FeederOK'
    BY <1>1 DEF IInv, Types, FeederOK, Live, Rows, disk
  <2>2. TablesOK' /\ WholeOK' /\ OpenOK'
    BY <1>1 DEF IInv, TablesOK, WholeOK, OpenOK, Live, Rows, disk
  <2> QED BY <2>1, <2>2
<1> QED BY <1>2, <1>4, <1>5 DEF IInv

LEMMA WriteBatchInv == ASSUME IInv, NEW i \in Id, WriteBatch(i) PROVE IInv'
<1>1. /\ feeder[i].pc = "writing" /\ feeder' = [feeder EXCEPT ![i].pc = "written"]
      /\ journal' = [journal EXCEPT ![i] = @ \cup feeder[i].batch]
      /\ UNCHANGED <<expiry, pending, ingested, filters, lock, pc, on, day, up>>
  BY DEF WriteBatch
<1>2. journal[i] # None
  BY <1>1 DEF IInv, FeederOK, CollectorOK, OpenOK
<1>3. /\ journal[i] \subseteq FileNumber /\ feeder[i].batch \subseteq FileNumber
      /\ journal[i] \cup feeder[i].batch # None
  <2>1. journal[i] \in SUBSET FileNumber /\ feeder[i].batch \in SUBSET FileNumber
    BY <1>2 DEF IInv, Types
  <2>2. journal[i] \cup feeder[i].batch \in SUBSET (1 .. MaxFile)
    BY <2>1 DEF FileNumber
  <2> QED BY <2>1, <2>2
<1>4. /\ feeder'[i].pc = "written" /\ feeder'[i].batch = feeder[i].batch
      /\ \A j \in Id \ {i} : feeder'[j] = feeder[j] /\ journal'[j] = journal[j]
      /\ journal'[i] = journal[i] \cup feeder[i].batch /\ journal'[i] # None
  BY <1>1, <1>3 DEF IInv, Types
<1>5. Types' /\ DownOK'
  <2>1. Types'
    BY <1>1, <1>3 DEF IInv, Types, lock
  <2>2. DownOK'
    BY <1>1, <1>3 DEF IInv, DownOK
  <2> QED BY <2>1, <2>2
<1>6. \A p \in Process : on[p] \in Id
  BY DEF IInv, Types
<1>7. RequestOK'
  BY <1>1, <1>4, <1>6 DEF IInv, RequestOK, Live, Rows, Process
<1>8. CollectorOK'
  BY <1>1, <1>4, <1>6 DEF IInv, CollectorOK, Expired, Rows, Process
<1>9. FeederOK' /\ TablesOK' /\ WholeOK' /\ OpenOK'
  BY <1>1, <1>4 DEF IInv, Types, FeederOK, TablesOK, WholeOK, OpenOK, Live, Rows
<1> QED BY <1>5, <1>7, <1>8, <1>9 DEF IInv

LEMMA FinishBatchInv == ASSUME IInv, NEW i \in Id, FinishBatch(i) PROVE IInv'
<1>1. PICK done \in SUBSET feeder[i].batch :
        /\ i \notin Rows => done = {}
        /\ pending' = [pending EXCEPT ![i] = @ \ done] /\ ingested' = [ingested EXCEPT ![i] = @ \cup done]
  BY DEF FinishBatch
<1>2. PICK to \in {"none", "idle"} :
        /\ feeder' = [feeder EXCEPT ![i] = [pc |-> to, batch |-> {}]]
        /\ i \notin filters => to = "none"
  BY DEF FinishBatch, Idle
<1>3. /\ feeder[i].pc = "written" /\ UNCHANGED <<expiry, journal, filters, lock, pc, on, day, up>>
  BY DEF FinishBatch
<1>4. Types' /\ DownOK'
  BY <1>1, <1>2, <1>3 DEF IInv, Types, DownOK, lock
<1>5. \A p \in Process : on[p] \in Id
  BY DEF IInv, Types
<1>6. RequestOK'
  BY <1>2, <1>3, <1>5 DEF IInv, Types, RequestOK, Live, Rows, Process
<1>7. CollectorOK'
  BY <1>2, <1>3, <1>5 DEF IInv, Types, CollectorOK, Expired, Rows, Process
<1>8. FeederOK' /\ TablesOK' /\ WholeOK' /\ OpenOK'
  <2>1. FeederOK'
    BY <1>2, <1>3 DEF IInv, Types, FeederOK, Live, Rows
  <2>2. WholeOK'
    BY <1>1, <1>3 DEF IInv, Types, FeederOK, WholeOK, Live, Rows
  <2>3. TablesOK' /\ OpenOK'
    BY <1>1, <1>3 DEF IInv, Types, TablesOK, OpenOK, Rows
  <2> QED BY <2>1, <2>2, <2>3
<1> QED BY <1>4, <1>6, <1>7, <1>8 DEF IInv

LEMMA AskQueryInv == ASSUME IInv, NEW q \in Query, NEW i \in Id, AskQuery(q, i) PROVE IInv'
<1>1. /\ on' = [on EXCEPT ![q] = i] /\ pc' = [pc EXCEPT ![q] = "wait"] /\ queue' = Append(queue, q)
      /\ up = "up" /\ UNCHANGED <<disk, filters, readers, writer, feeder, day, up>>
  BY DEF AskQuery, Goes, Ask
<1>2. q \in Process /\ q # GC /\ q \notin Request
  BY DEF Process
<1>3. Types' /\ DownOK'
  BY <1>1, <1>2 DEF IInv, Types, DownOK, disk
<1>4. RequestOK' /\ CollectorOK'
  BY <1>1, <1>2 DEF IInv, Types, RequestOK, CollectorOK, Live, Rows, Expired, disk, Process
<1>5. FeederOK' /\ TablesOK' /\ WholeOK' /\ OpenOK'
  BY <1>1, <1>2 DEF IInv, Types, FeederOK, TablesOK, WholeOK, OpenOK, Live, Rows, disk, Process
<1> QED BY <1>3, <1>4, <1>5 DEF IInv

LEMMA EndQueryInv == ASSUME IInv, NEW q \in Query, EndQuery(q) PROVE IInv'
<1>1. /\ pc' = [pc EXCEPT ![q] = "idle"] /\ UNCHANGED <<disk, filters, feeder, on, day, up, queue>>
      /\ readers' = readers \ {q} /\ writer' = IF writer = q THEN None ELSE writer
  BY DEF EndQuery, Goes, Unlock
<1>2. q \in Process /\ q # GC /\ q \notin Request
  BY DEF Process
<1>3. Types' /\ DownOK'
  BY <1>1, <1>2 DEF IInv, Types, DownOK, disk
<1>4. RequestOK' /\ CollectorOK'
  BY <1>1, <1>2 DEF IInv, Types, RequestOK, CollectorOK, Live, Rows, Expired, disk, Process
<1>5. FeederOK' /\ TablesOK' /\ WholeOK' /\ OpenOK'
  BY <1>1, <1>2 DEF IInv, Types, FeederOK, TablesOK, WholeOK, OpenOK, Live, Rows, disk, Process
<1> QED BY <1>3, <1>4, <1>5 DEF IInv

----------------------------------------------------------------------------
(* The collector *)

\* The collector and a request are never at the same index.
LEMMA RequestsElsewhere ==
  ASSUME IInv, NEW r \in Request, pc[r] # "idle", pc[GC] # "idle"
  PROVE  on[r] # on[GC]
BY CollectorIsAProcess DEF IInv, Types, RequestOK, CollectorOK, Live, Expired, Rows

LEMMA StartDeleteInv == ASSUME IInv, NEW i \in Id, StartDelete(i) PROVE IInv'
<1>1. /\ on' = [on EXCEPT ![GC] = i] /\ pc' = [pc EXCEPT ![GC] = "wait"] /\ queue' = Append(queue, GC)
      /\ up # "down" /\ i \in Expired /\ pc[GC] = "idle"
      /\ UNCHANGED <<disk, filters, readers, writer, feeder, day, up>>
  BY DEF StartDelete, Goes, Ask
<1>2. Types' /\ DownOK'
  BY <1>1, CollectorIsAProcess DEF IInv, Types, DownOK, disk
<1>3. RequestOK' /\ CollectorOK'
  BY <1>1, CollectorIsAProcess DEF IInv, Types, RequestOK, CollectorOK, Live, Rows, Expired, disk
<1>4. FeederOK' /\ TablesOK' /\ WholeOK' /\ OpenOK'
  BY <1>1, CollectorIsAProcess DEF IInv, Types, FeederOK, TablesOK, WholeOK, OpenOK, Live, Rows, disk
<1> QED BY <1>2, <1>3, <1>4 DEF IInv

LEMMA RemoveFromMapInv == ASSUME IInv, RemoveFromMap PROVE IInv'
<1> DEFINE i == on[GC]
<1>1. /\ pc[GC] = "locked" /\ i \in Id /\ UNCHANGED <<disk, feeder, on, day, up, queue>>
  BY CollectorIsAProcess DEF RemoveFromMap, IInv, Types, lock, Unlock
<1>2. \/ i \in filters /\ filters' = filters \ {i} /\ pc' = [pc EXCEPT ![GC] = "stop"]
         /\ UNCHANGED <<readers, writer>>
      \/ i \notin filters /\ filters' = filters /\ pc' = [pc EXCEPT ![GC] = "row"]
         /\ readers' = readers \ {GC} /\ writer' = IF writer = GC THEN None ELSE writer
  BY DEF RemoveFromMap, Goes, lock, Unlock
<1>3. Types' /\ DownOK'
  BY <1>1, <1>2, CollectorIsAProcess DEF IInv, Types, DownOK, disk
<1>4. RequestOK'
  BY <1>1, <1>2, CollectorIsAProcess DEF IInv, Types, RequestOK, Live, Rows, disk
<1>5. CollectorOK'
  BY <1>1, <1>2, CollectorIsAProcess DEF IInv, Types, CollectorOK, OpenOK, FeederOK, Rows, Expired, disk
<1>6. FeederOK'
  BY <1>1, <1>2, CollectorIsAProcess DEF IInv, Types, FeederOK, Live, Rows, disk
<1>7. TablesOK' /\ WholeOK' /\ OpenOK'
  BY <1>1, <1>2 DEF IInv, TablesOK, WholeOK, OpenOK, Live, Rows, disk
<1> QED BY <1>3, <1>4, <1>5, <1>6, <1>7 DEF IInv

LEMMA StopInv == ASSUME IInv, Stop PROVE IInv'
<1> DEFINE i == on[GC]
<1>1. /\ pc[GC] = "stop" /\ i \in Id /\ UNCHANGED <<disk, filters, lock, on, day, up>>
      /\ pc' = [pc EXCEPT ![GC] = "files"]
  BY CollectorIsAProcess DEF Stop, IInv, Types, Goes
<1>2. /\ feeder[i].pc # "writing"
      /\ feeder' = [feeder EXCEPT ![i] = IF @.pc = "idle" THEN Idle ELSE @]
  BY DEF Stop
<1>3. /\ feeder' \in [Id -> [pc : {"none", "idle", "writing", "written"}, batch : SUBSET FileNumber]]
      /\ feeder'[i].pc \in {"none", "written"} /\ feeder'[i] \in {Idle, feeder[i]}
      /\ \A j \in Id \ {i} : feeder'[j] = feeder[j]
  BY <1>1, <1>2 DEF IInv, Types, Idle
<1>4. Types' /\ DownOK'
  BY <1>1, <1>3, CollectorIsAProcess DEF IInv, Types, DownOK, disk, lock
<1>5. RequestOK'
  <2> SUFFICES ASSUME NEW r \in Request, pc[r] # "idle" PROVE on[r] # i
    BY <1>1, <1>3, CollectorIsAProcess DEF IInv, Types, RequestOK, Live, Rows, disk
  <2> QED BY <1>1, RequestsElsewhere
<1>6. CollectorOK'
  BY <1>1, <1>3, CollectorIsAProcess DEF IInv, Types, CollectorOK, Rows, Expired, disk
<1>7. FeederOK'
  <2>1. Live(i)' => feeder'[i].pc # "written"
    BY <1>1 DEF IInv, CollectorOK, Expired, Live, Rows, Types, disk
  <2> QED BY <1>1, <1>3, <2>1, CollectorIsAProcess DEF IInv, Types, FeederOK, Live, Rows, disk
<1>8. TablesOK' /\ WholeOK' /\ OpenOK'
  BY <1>1 DEF IInv, TablesOK, WholeOK, OpenOK, Live, Rows, disk
<1> QED BY <1>4, <1>5, <1>6, <1>7, <1>8 DEF IInv

LEMMA DeleteFilesInv == ASSUME IInv, DeleteFiles PROVE IInv'
<1> DEFINE i == on[GC]
<1>1. /\ pc[GC] = "files" /\ i \in Id /\ pc' = [pc EXCEPT ![GC] = "row"]
      /\ journal' = [journal EXCEPT ![i] = None]
      /\ UNCHANGED <<expiry, pending, ingested, filters, feeder, on, day, up, queue>>
      /\ readers' = readers \ {GC} /\ writer' = IF writer = GC THEN None ELSE writer
  BY CollectorIsAProcess DEF DeleteFiles, IInv, Types, Goes, Unlock
<1>2. ~Live(i) /\ i \notin filters
  BY <1>1 DEF IInv, CollectorOK, Expired, Live, Rows, Types
<1>3. Types' /\ DownOK'
  BY <1>1, CollectorIsAProcess DEF IInv, Types, DownOK
<1>4. RequestOK'
  BY <1>1, CollectorIsAProcess DEF IInv, Types, RequestOK, Live, Rows
<1>5. CollectorOK'
  BY <1>1, CollectorIsAProcess DEF IInv, Types, CollectorOK, Rows, Expired
<1>6. FeederOK'
  BY <1>1, <1>2, CollectorIsAProcess DEF IInv, Types, FeederOK, Live, Rows
<1>7. TablesOK' /\ WholeOK' /\ OpenOK'
  BY <1>1, <1>2 DEF IInv, Types, TablesOK, WholeOK, OpenOK, Live, Rows
<1> QED BY <1>3, <1>4, <1>5, <1>6, <1>7 DEF IInv

LEMMA DeleteFailsInv == ASSUME IInv, DeleteFails PROVE IInv'
<1>1. /\ pc[GC] = "files" /\ pc' = [pc EXCEPT ![GC] = "idle"]
      /\ UNCHANGED <<disk, filters, feeder, on, day, up, queue>>
      /\ readers' = readers \ {GC} /\ writer' = IF writer = GC THEN None ELSE writer
  BY DEF DeleteFails, Goes, Unlock
<1>2. Types' /\ DownOK'
  BY <1>1, CollectorIsAProcess DEF IInv, Types, DownOK, disk
<1>3. RequestOK' /\ CollectorOK'
  BY <1>1, CollectorIsAProcess DEF IInv, Types, RequestOK, CollectorOK, Live, Rows, disk
<1>4. FeederOK' /\ TablesOK' /\ WholeOK' /\ OpenOK'
  BY <1>1, CollectorIsAProcess DEF IInv, Types, FeederOK, TablesOK, WholeOK, OpenOK, Live, Rows, disk
<1> QED BY <1>2, <1>3, <1>4 DEF IInv

LEMMA DeleteRowInv == ASSUME IInv, DeleteRow PROVE IInv'
<1> DEFINE i == on[GC]
<1>1. /\ pc[GC] = "row" /\ i \in Id /\ pc' = [pc EXCEPT ![GC] = "idle"]
      /\ expiry' = [expiry EXCEPT ![i] = 0] /\ pending' = [pending EXCEPT ![i] = {}]
      /\ ingested' = [ingested EXCEPT ![i] = {}]
      /\ UNCHANGED <<journal, filters, lock, feeder, on, day, up>>
  BY CollectorIsAProcess DEF DeleteRow, IInv, Types, Goes
<1>2. i \notin filters /\ i \notin Rows' /\ ~Live(i)' /\ Rows' = Rows \ {i}
      /\ \A j \in Id \ {i} : Live(j)' <=> Live(j)
  BY <1>1 DEF IInv, CollectorOK, Live, Rows, Types
<1>3. Types' /\ DownOK'
  BY <1>1, CollectorIsAProcess DEF IInv, Types, DownOK, lock
<1>4. RequestOK'
  <2> SUFFICES ASSUME NEW r \in Request, pc[r] # "idle" PROVE on[r] # i
    BY <1>1, <1>2, CollectorIsAProcess DEF IInv, Types, RequestOK
  <2> QED BY <1>1, RequestsElsewhere
<1>5. CollectorOK'
  BY <1>1, CollectorIsAProcess DEF IInv, Types, CollectorOK
<1>6. FeederOK'
  BY <1>1, <1>2, CollectorIsAProcess DEF IInv, Types, FeederOK
<1>7. TablesOK' /\ WholeOK' /\ OpenOK'
  BY <1>1, <1>2 DEF IInv, Types, TablesOK, WholeOK, OpenOK
<1> QED BY <1>3, <1>4, <1>5, <1>6, <1>7 DEF IInv

----------------------------------------------------------------------------
(* Days, the end of the process and its start *)

LEMMA NextDayInv == ASSUME IInv, NextDay PROVE IInv'
<1>1. /\ day' = day + 1 /\ day < MaxDay /\ \A r \in Request : pc[r] # "idle" => expiry[on[r]] > day
      /\ UNCHANGED <<disk, filters, lock, feeder, pc, on, up>>
  BY DEF NextDay
<1>2. Types' /\ DownOK'
  BY <1>1 DEF IInv, Types, DownOK, disk, lock
<1>3. Rows' = Rows /\ Expired \subseteq Expired' /\ \A i \in Id : Live(i)' => Live(i)
  BY <1>1 DEF IInv, Types, Rows, Expired, Live, disk
<1>4. \A r \in Request : pc[r] # "idle" => Live(on[r])'
  BY <1>1, <1>2, CollectorIsAProcess DEF IInv, Types, Rows, Live, disk
<1>5. RequestOK' /\ CollectorOK'
  BY <1>1, <1>3, <1>4 DEF IInv, RequestOK, CollectorOK, disk
<1>6. FeederOK' /\ TablesOK' /\ WholeOK' /\ OpenOK'
  BY <1>1, <1>3 DEF IInv, FeederOK, TablesOK, WholeOK, OpenOK, disk, Rows
<1> QED BY <1>2, <1>5, <1>6 DEF IInv

LEMMA CrashInv == ASSUME IInv, Crash PROVE IInv'
<1>1. /\ up' = "down" /\ filters' = {} /\ queue' = <<>> /\ readers' = {} /\ writer' = None
      /\ feeder' = [i \in Id |-> Idle] /\ pc' = [p \in Process |-> "idle"]
      /\ UNCHANGED <<disk, on, day>>
  BY DEF Crash
<1>2. Idle \in [pc : {"none", "idle", "writing", "written"}, batch : SUBSET FileNumber]
  BY DEF Idle
<1>3. queue' \in Seq(Process)
  BY <1>1
<1>4. Types' /\ DownOK'
  BY <1>1, <1>2, <1>3 DEF IInv, Types, DownOK, disk
<1>5. RequestOK' /\ CollectorOK'
  BY <1>1, CollectorIsAProcess DEF RequestOK, CollectorOK
<1>6. FeederOK' /\ TablesOK' /\ WholeOK' /\ OpenOK'
  BY <1>1 DEF IInv, FeederOK, TablesOK, WholeOK, OpenOK, Idle, Live, Rows, disk
<1> QED BY <1>4, <1>5, <1>6 DEF IInv

LEMMA OpenAllInv == ASSUME IInv, OpenAll PROVE IInv'
<1>1. /\ up' = "starting" /\ \A p \in Process : pc[p] = "idle"
      /\ filters' = Rows \ Expired
      /\ journal' = [i \in Id |-> IF i \in filters' /\ journal[i] = None THEN {} ELSE journal[i]]
      /\ feeder' = [i \in Id |-> IF i \in filters' THEN [pc |-> "idle", batch |-> {}] ELSE Idle]
      /\ UNCHANGED <<expiry, pending, ingested, lock, pc, on, day>>
  BY DEF OpenAll, IInv, DownOK
<1>2. \A i \in Id : Live(i) <=> i \in filters'
  BY <1>1 DEF IInv, Types, Rows, Expired, Live
<1>3. filters' \subseteq Id /\ {} \in SUBSET FileNumber
  BY <1>1 DEF Rows
<1>4. /\ journal' \in [Id -> (SUBSET FileNumber) \cup {None}]
      /\ feeder' \in [Id -> [pc : {"none", "idle", "writing", "written"}, batch : SUBSET FileNumber]]
  BY <1>1, <1>3 DEF IInv, Types, Idle
<1>5. Types' /\ DownOK'
  BY <1>1, <1>3, <1>4 DEF IInv, Types, DownOK, lock
<1>6. RequestOK' /\ CollectorOK'
  BY <1>1, CollectorIsAProcess DEF RequestOK, CollectorOK
<1>7. {} # None
  OBVIOUS
<1>8. FeederOK'
  BY <1>1 DEF FeederOK, Idle
<1>9. WholeOK'
  BY <1>1, <1>2 DEF IInv, WholeOK, Live, Rows
<1>10. TablesOK' /\ OpenOK'
  BY <1>1, <1>3, <1>7 DEF IInv, TablesOK, OpenOK, Rows
<1> QED BY <1>5, <1>6, <1>8, <1>9, <1>10 DEF IInv

LEMMA ServeInv == ASSUME IInv, Serve \/ UNCHANGED vars PROVE IInv'
<1>1. up' \in {up, "up"} /\ UNCHANGED <<disk, filters, lock, feeder, pc, on, day>>
  BY DEF Serve, vars
<1>2. Types' /\ DownOK'
  BY <1>1 DEF IInv, Types, DownOK, disk, lock
<1>3. RequestOK' /\ CollectorOK'
  BY <1>1 DEF IInv, RequestOK, CollectorOK, Live, Rows, Expired, disk
<1>4. FeederOK' /\ TablesOK' /\ WholeOK' /\ OpenOK'
  BY <1>1 DEF IInv, FeederOK, TablesOK, WholeOK, OpenOK, Live, Rows, disk
<1> QED BY <1>2, <1>3, <1>4 DEF IInv

LEMMA StepInv == FeedersKeepUp /\ IInv /\ [Next]_vars => IInv'
<1> SUFFICES ASSUME FeedersKeepUp, IInv, [Next]_vars PROVE IInv'
  OBVIOUS
<1>1. CASE \E r \in Request : AskCreate(r) \/ RepeatCreate(r) \/ RunRequest(r) \/ CreateFails(r)
  BY <1>1, AskCreateInv, RepeatCreateInv, InsertRowInv, CreateJournalInv, CreateFailsInv DEF RunRequest
<1>2. CASE \E i \in Id : IngestFile(i) \/ RunFeeder(i) \/ \E q \in Query : AskQuery(q, i)
  BY <1>2, IngestFileInv, StartBatchInv, WriteBatchInv, FinishBatchInv, AskQueryInv DEF RunFeeder
<1>3. CASE \E q \in Query : EndQuery(q)
  BY <1>3, EndQueryInv
<1>4. CASE RunGC \/ DeleteFails
  BY <1>4, StartDeleteInv, RemoveFromMapInv, StopInv, DeleteFilesInv, DeleteRowInv, DeleteFailsInv DEF RunGC
<1>5. CASE Run \/ NextDay \/ Crash \/ UNCHANGED vars
  BY <1>5, LockInv, OpenAllInv, ServeInv, NextDayInv, CrashInv DEF Run
<1> QED BY <1>1, <1>2, <1>3, <1>4, <1>5 DEF Next

----------------------------------------------------------------------------
(* The theorem *)

\* An index that has not expired holds every file its table marks as ingested, and
\* an open index has a row and a journal: through creations that fail or are
\* repeated, deletions, restarts, and identifiers that are used again.
THEOREM IndicesAreWhole == ASSUME FeedersKeepUp PROVE Spec => []OpenIsWhole
<1>1. IInv => TypeOK
  BY DEF IInv, Types, TypeOK, FileNumber
<1>2. IInv => OpenIsWhole
  <2> SUFFICES ASSUME IInv PROVE OpenIsWhole
    OBVIOUS
  <2>1. \A i \in Rows \ {j \in Id : expiry[j] < day} : i \in Id /\ Live(i)
    BY DEF Live, Rows, IInv, Types
  <2> QED BY <1>1, <2>1 DEF IInv, WholeOK, OpenOK, OpenIsWhole
<1> QED BY <1>2, InitInv, StepInv, PTL DEF Spec
=============================================================================
