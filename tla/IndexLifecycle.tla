----------------------------- MODULE IndexLifecycle -----------------------------
(***************************************************************************)
(* The indices of a worker from their creation to their deletion           *)
(* (src/worker/manager.rs, the directory in database_sqlite.rs): the table *)
(* of indices, a journal and a table of files for each, the map of open    *)
(* indices with its read-write lock, a feeder for each, the garbage        *)
(* collector, queries that hold the lock while they last, and restarts.    *)
(*                                                                         *)
(* A journal is the set of file numbers it holds (its storage is Journal,  *)
(* the ingestion of a file FilterIngest); numbers start at one in every    *)
(* table of files.                                                         *)
(***************************************************************************)
EXTENDS Integers, Sequences, FiniteSets, Functions

CONSTANTS MaxId,        \* bound on identifiers
          MaxDay,       \* bound on days
          MaxFile,      \* bound on files of an index
          Request,      \* calls of create_index
          Query,        \* calls of query_filter
          GC, None,     \* the garbage collector; no process, no journal
          Faults, MaxMishaps

\* "create": the journal cannot be created; "delete": its files cannot be deleted;
\* "repeated": the broker's client repeats a request; "crash"; "slow": a feeder may
\* take longer for its last step than the broker to create the next index.
FaultKinds == {"create", "delete", "repeated", "crash", "slow"}
Id == 1 .. MaxId
Process == Request \cup Query \cup {GC}

ASSUME BoundAssumption ==
  /\ {MaxId, MaxDay} \subseteq Nat \ {0} /\ {MaxFile, MaxMishaps} \subseteq Nat
  /\ Faults \subseteq FaultKinds
ASSUME ProcessAssumption == Request \cap Query = {} /\ GC \notin Request \cup Query
ASSUME NoneAssumption == None \notin Process /\ \A S \in SUBSET (1 .. MaxFile) : S # None

VARIABLES
  \* on disk
  expiry,      \* the table filters: the last day of each index, 0 without a row
  pending, ingested,  \* the tables files: numbers by their flag
  journal,     \* the files of each journal
  \* in memory
  filters,     \* the map of open indices
  queue, readers, writer,   \* its lock: who waits, in order, and who holds it
  feeder,      \* of each index: pc and batch
  pc, on,      \* what each process does, and the index it does it to
  day, up, mishaps

disk == <<expiry, pending, ingested, journal>>
lock == <<queue, readers, writer>>
vars == <<disk, filters, lock, feeder, pc, on, day, up, mishaps>>

Idle == [pc |-> "none", batch |-> {}]

Init ==
  /\ expiry = [i \in Id |-> 0] /\ pending = [i \in Id |-> {}] /\ ingested = [i \in Id |-> {}]
  /\ journal = [i \in Id |-> None]
  /\ filters = {} /\ queue = <<>> /\ readers = {} /\ writer = None
  /\ feeder = [i \in Id |-> Idle]
  /\ pc = [p \in Process |-> "idle"] /\ on = [p \in Process |-> 1]
  /\ day = 1 /\ up = "up"
  /\ mishaps = [k \in Faults |-> 0]

Mishap(kind) ==
  /\ kind \in Faults /\ FoldFunction(+, 0, mishaps) < MaxMishaps
  /\ mishaps' = [mishaps EXCEPT ![kind] = @ + 1]
Quiet == UNCHANGED mishaps

Rows == {i \in Id : expiry[i] # 0}
Goes(p, to) == pc' = [pc EXCEPT ![p] = to]

----------------------------------------------------------------------------
(* The lock of filters: first come, first served, readers together. *)

Ask(p) == queue' = Append(queue, p)

Lock(p) ==
  /\ pc[p] = "wait" /\ queue # <<>> /\ Head(queue) = p /\ writer = None
  /\ IF p \in Query THEN readers' = readers \cup {p} /\ UNCHANGED writer
     ELSE readers = {} /\ writer' = p /\ UNCHANGED readers
  /\ queue' = Tail(queue)
  /\ Goes(p, "locked")
  /\ UNCHANGED <<disk, filters, feeder, on, day, up, mishaps>>

Unlock(p) ==
  /\ readers' = readers \ {p}
  /\ writer' = IF writer = p THEN None ELSE writer
  /\ UNCHANGED queue

----------------------------------------------------------------------------
(* create_index *)

\* The broker takes the number after the highest it was told (mod.rs:1023).
AskCreate(r) ==
  /\ up = "up" /\ pc[r] = "idle" /\ Quiet
  /\ \A q \in Request : pc[q] = "idle"
  /\ "slow" \in Faults \/ \A i \in Id \ Rows : feeder[i].pc = "none"
  /\ \E i \in Id : /\ \A j \in Rows : j < i
                   /\ i = 1 \/ i - 1 \in Rows
                   /\ on' = [on EXCEPT ![r] = i]
  /\ Goes(r, "create")
  /\ UNCHANGED <<disk, filters, lock, feeder, day, up>>

RepeatCreate(r) ==
  /\ pc[r] = "idle" /\ Mishap("repeated")
  /\ \E q \in Request : /\ pc[q] # "idle"
                        /\ on' = [on EXCEPT ![r] = on[q]]
  /\ Goes(r, "create")
  /\ UNCHANGED <<disk, filters, lock, feeder, day, up>>

\* create_filter: the row, unless it is there, and its table of files.  Files that
\* expire on the day itself are not ingested any more, so an index lasts longer.
InsertRow(r) ==
  /\ pc[r] = "create"
  /\ expiry' = IF expiry[on[r]] # 0 THEN expiry ELSE [expiry EXCEPT ![on[r]] = day + 1]
  /\ Ask(r) /\ Goes(r, "wait")
  /\ UNCHANGED <<pending, ingested, journal, filters, readers, writer, feeder, on, day, up, mishaps>>

\* Nothing to do, or a new journal and its feeder; an old journal is an error.
CreateJournal(r) ==
  /\ r \in Request /\ pc[r] = "locked" /\ Quiet
  /\ IF on[r] \in filters \/ journal[on[r]] # None
       THEN UNCHANGED <<journal, filters, feeder>>
       ELSE /\ journal' = [journal EXCEPT ![on[r]] = {}]
            /\ filters' = filters \cup {on[r]}
            /\ feeder' = [feeder EXCEPT ![on[r]] = [pc |-> "idle", batch |-> {}]]
  /\ Unlock(r) /\ Goes(r, "idle")
  /\ UNCHANGED <<expiry, pending, ingested, on, day, up>>

CreateFails(r) ==
  /\ r \in Request /\ pc[r] = "locked" /\ on[r] \notin filters /\ Mishap("create")
  /\ Unlock(r) /\ Goes(r, "idle")
  /\ UNCHANGED <<disk, filters, feeder, on, day, up>>

----------------------------------------------------------------------------
(* Files and their feeder; queries *)

\* A file is entered for an index of the table (FilterIngest).
IngestFile(i) ==
  /\ up = "up" /\ i \in Rows /\ expiry[i] >= day
  /\ Cardinality(pending[i] \cup ingested[i]) < MaxFile
  /\ pending' = [pending EXCEPT ![i] = @ \cup {Cardinality(@ \cup ingested[i]) + 1}]
  /\ UNCHANGED <<expiry, ingested, journal, filters, lock, feeder, pc, on, day, up, mishaps>>

\* write_batch, under the journal's write_handle, for which stop() waits.
StartBatch(i) ==
  /\ feeder[i].pc = "idle" /\ pending[i] # {}
  /\ feeder' = [feeder EXCEPT ![i] = [pc |-> "writing", batch |-> pending[i]]]
  /\ UNCHANGED <<disk, filters, lock, pc, on, day, up, mishaps>>

WriteBatch(i) ==
  /\ feeder[i].pc = "writing"
  /\ journal' = [journal EXCEPT ![i] = @ \cup feeder[i].batch]
  /\ feeder' = [feeder EXCEPT ![i].pc = "written"]
  /\ UNCHANGED <<expiry, pending, ingested, filters, lock, pc, on, day, up, mishaps>>

\* finished_ingest: an error when the table is gone; a journal that does not run
\* ends the feeder.
FinishBatch(i) ==
  /\ feeder[i].pc = "written"
  /\ LET done == IF i \in Rows THEN feeder[i].batch \cap pending[i] ELSE {} IN
     /\ pending' = [pending EXCEPT ![i] = @ \ done]
     /\ ingested' = [ingested EXCEPT ![i] = @ \cup done]
  /\ feeder' = [feeder EXCEPT ![i] = IF i \in filters THEN [pc |-> "idle", batch |-> {}] ELSE Idle]
  /\ UNCHANGED <<expiry, journal, filters, lock, pc, on, day, up, mishaps>>

\* get_filters has named the index.
AskQuery(q, i) ==
  /\ up = "up" /\ pc[q] = "idle" /\ i \in Rows
  /\ on' = [on EXCEPT ![q] = i]
  /\ Ask(q) /\ Goes(q, "wait")
  /\ UNCHANGED <<disk, filters, readers, writer, feeder, day, up, mishaps>>

\* A mutant: the lock is taken a second time during the query.
QueryLocksAgain(q) ==
  /\ q \in Query /\ pc[q] = "locked"
  /\ IF \E p \in Process : p \in Range(queue) /\ p \notin Query
       THEN Ask(q) /\ Goes(q, "wait") /\ UNCHANGED <<readers, writer>>
       ELSE Unlock(q) /\ Goes(q, "idle")
  /\ UNCHANGED <<disk, filters, feeder, on, day, up, mishaps>>

\* The lock is held for the whole query, the selection of the files, and until the
\* channel has room for the answer.
EndQuery(q) ==
  /\ q \in Query /\ pc[q] = "locked"
  /\ Unlock(q) /\ Goes(q, "idle")
  /\ UNCHANGED <<disk, filters, feeder, on, day, up, mishaps>>

----------------------------------------------------------------------------
(* delete_index *)

\* A mutant: the indices of the day itself, too.
ExpiredToday == {i \in Rows : expiry[i] <= day}

\* get_filters(min, yesterday), and at start-up expiry < today.
Expired == {i \in Rows : expiry[i] < day}

StartDelete(i) ==
  /\ up # "down" /\ pc[GC] = "idle" /\ i \in Expired
  /\ on' = [on EXCEPT ![GC] = i]
  /\ Ask(GC) /\ Goes(GC, "wait")
  /\ UNCHANGED <<disk, filters, readers, writer, feeder, day, up, mishaps>>

\* An index that is not open has no journal to stop and delete.  The guard of the
\* lock lives as long as the block of the if-let.
RemoveFromMap ==
  /\ pc[GC] = "locked"
  /\ IF on[GC] \in filters
       THEN /\ filters' = filters \ {on[GC]}
            /\ Goes(GC, "stop") /\ UNCHANGED lock
       ELSE /\ Unlock(GC) /\ Goes(GC, "row") /\ UNCHANGED filters
  /\ UNCHANGED <<disk, feeder, on, day, up, mishaps>>

\* stop() has the journal's locks once no batch is being written.
Stop ==
  /\ pc[GC] = "stop" /\ feeder[on[GC]].pc # "writing"
  /\ feeder' = [feeder EXCEPT ![on[GC]] = IF @.pc = "idle" THEN Idle ELSE @]
  /\ Goes(GC, "files")
  /\ UNCHANGED <<disk, filters, lock, on, day, up, mishaps>>

DeleteFiles ==
  /\ pc[GC] = "files"
  /\ journal' = [journal EXCEPT ![on[GC]] = None]
  /\ Unlock(GC) /\ Goes(GC, "row")
  /\ UNCHANGED <<expiry, pending, ingested, filters, feeder, on, day, up, mishaps>>

\* The collector starts again, and does not find the index in the map; at start-up
\* the error ends the process.
DeleteFails ==
  /\ pc[GC] = "files" /\ Mishap("delete")
  /\ Unlock(GC) /\ Goes(GC, "idle")
  /\ UNCHANGED <<disk, filters, feeder, on, day, up>>

\* trigrams.expire; delete_filter: the table of files, and the row.
DeleteRow ==
  /\ pc[GC] = "row"
  /\ expiry' = [expiry EXCEPT ![on[GC]] = 0]
  /\ pending' = [pending EXCEPT ![on[GC]] = {}]
  /\ ingested' = [ingested EXCEPT ![on[GC]] = {}]
  /\ Goes(GC, "idle")
  /\ UNCHANGED <<journal, filters, lock, feeder, on, day, up, mishaps>>

----------------------------------------------------------------------------
(* Days, the end of the process and its start *)

\* A request ends before the index it creates expires: the broker's client gives up
\* after a day (mod.rs:182).
NextDay ==
  /\ day < MaxDay /\ day' = day + 1
  /\ \A r \in Request : pc[r] # "idle" => expiry[on[r]] > day
  /\ UNCHANGED <<disk, filters, lock, feeder, pc, on, up, mishaps>>

Crash ==
  /\ up # "down" /\ up' = "down" /\ Mishap("crash")
  /\ filters' = {} /\ queue' = <<>> /\ readers' = {} /\ writer' = None
  /\ feeder' = [i \in Id |-> Idle] /\ pc' = [p \in Process |-> "idle"]
  /\ UNCHANGED <<disk, on, day>>

\* A mutant: only a new index gets a feeder.
OpenAllWithoutFeeders ==
  /\ up = "down" /\ up' = "starting"
  /\ filters' = Rows \ Expired
  /\ journal' = [i \in Id |-> IF i \in filters' /\ journal[i] = None THEN {} ELSE journal[i]]
  /\ UNCHANGED <<expiry, pending, ingested, lock, feeder, pc, on, day, mishaps>>

\* WorkerState::new: every index that has not expired is opened, its journal made
\* when there is none or only its header.
OpenAll ==
  /\ up = "down" /\ up' = "starting"
  /\ filters' = Rows \ Expired
  /\ journal' = [i \in Id |-> IF i \in filters' /\ journal[i] = None THEN {} ELSE journal[i]]
  /\ feeder' = [i \in Id |-> IF i \in filters' THEN [pc |-> "idle", batch |-> {}] ELSE Idle]
  /\ UNCHANGED <<expiry, pending, ingested, lock, pc, on, day, mishaps>>

\* The expired ones are deleted before the first request is served.
Serve ==
  /\ up = "starting" /\ Expired = {} /\ pc[GC] = "idle" /\ up' = "up"
  /\ UNCHANGED <<disk, filters, lock, feeder, pc, on, day, mishaps>>

RunFeeder(i) == StartBatch(i) \/ WriteBatch(i) \/ FinishBatch(i)
RunRequest(r) == InsertRow(r) \/ CreateJournal(r)
RunGC == (\E i \in Id : StartDelete(i)) \/ RemoveFromMap \/ Stop \/ DeleteFiles \/ DeleteRow
Run == (\E p \in Process : Lock(p)) \/ OpenAll \/ Serve

Next ==
  \/ \E r \in Request : AskCreate(r) \/ RepeatCreate(r) \/ RunRequest(r) \/ CreateFails(r)
  \/ \E i \in Id : IngestFile(i) \/ RunFeeder(i) \/ \E q \in Query : AskQuery(q, i)
  \/ \E q \in Query : EndQuery(q)
  \/ RunGC \/ DeleteFails \/ Run \/ NextDay \/ Crash

Spec == Init /\ [][Next]_vars

\* The lock is granted in order, queries end, threads and the collector go on, and
\* the process is started again; requests, days and faults are left to chance.
Fairness ==
  /\ WF_vars(Run) /\ WF_vars(RunGC)
  /\ \A i \in Id : WF_vars(RunFeeder(i))
  /\ \A r \in Request : WF_vars(RunRequest(r))
  /\ \A q \in Query : WF_vars(EndQuery(q))

LiveSpec == Spec /\ Fairness

----------------------------------------------------------------------------
(* Properties *)

\* Tables, map and lock have their types.
TypeOK ==
  /\ expiry \in [Id -> 0 .. MaxDay + 1]
  /\ \A i \in Id : pending[i] \cup ingested[i] \subseteq 1 .. MaxFile
  /\ readers \subseteq Query /\ writer \in Process \cup {None}
  /\ writer # None => readers = {}

\* An index that has not expired holds every file marked as ingested, whatever
\* other creation, deletion or crash is half done; and an open index has a row, so
\* that a number the broker takes as free is not one that still answers queries.
OpenIsWhole ==
  /\ TypeOK
  /\ \A i \in Rows \ {j \in Id : expiry[j] < day} :
       ingested[i] # {} => journal[i] # None /\ ingested[i] \subseteq journal[i]
  /\ \A i \in filters : i \in Rows /\ journal[i] # None

\* A row without an index: its creation failed, or found an old journal.
Stranded(i) == up = "up" /\ i \in Rows /\ i \notin filters

\* What is entered for an index is written to its journal, or expires with it,
\* although creations fail, indices are deleted and the process dies; unless the
\* index is one that has a row only.
EveryFileIsWritten ==
  \A i \in Id : pending[i] # {} ~> (pending[i] = {} \/ Stranded(i))

\* Expired indices leave the table, and queries, creations and the collector, which
\* all wait for one lock, do not wait for ever.
EveryIndexExpires ==
  /\ \A i \in Id : (i \in Rows /\ expiry[i] < day) ~> (i \notin Rows)
  /\ \A p \in Process : pc[p] = "wait" ~> pc[p] = "idle"
=============================================================================
