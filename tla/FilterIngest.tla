----------------------------- MODULE FilterIngest -----------------------------
(***************************************************************************)
(* How a file gets into one index of a worker: WorkerState::ingest_files   *)
(* and ingest_feeder (src/worker/manager.rs), the filter's SQLite worker   *)
(* (src/worker/database_sqlite.rs) and TrigramCache (src/worker/trigrams.rs).*)
(*                                                                         *)
(* The broker posts the files it waits for, again and again.  A request    *)
(* starts fetching the files it has no trigrams for, and enters those it   *)
(* has into the database; a fetch task stores a file's trigrams in the     *)
(* cache; the feeder takes the entered files in batches, writes them to    *)
(* the journal, marks them ingested and drops their trigrams.  The answer  *)
(* to a request names the files that are completed and those rejected.     *)
(*                                                                         *)
(* The journal is the list of the batches written to it: by the theorem    *)
(* Refinement of JournalProofs a batch is written as a whole, survives     *)
(* crashes and is not changed by a defrag.  A step is what a task does     *)
(* between two awaits on shared state.                                     *)
(***************************************************************************)
EXTENDS Integers, Sequences, FiniteSets, Functions

CONSTANTS Hash,          \* files
          Request,       \* ingest requests in progress at a time
          BatchSize,     \* config.ingest_batch_size
          Faults,        \* what may go wrong, see FaultKinds
          MaxMishaps     \* bound on how often something does

\* "crash": the process dies; "drop": the client of a request goes away;
\* "finish", "commit": the transaction of finished_ingest, ingest_files fails;
\* "write": write_batch fails; "load": a trigram file cannot be read, because it
\* is gone or because a power loss found it unflushed (TrigramCache never syncs).
FaultKinds == {"crash", "drop", "finish", "commit", "write", "load"}

ASSUME BatchSizeAssumption == BatchSize \in Nat \ {0}
ASSUME BoundAssumption == MaxMishaps \in Nat
ASSUME FaultAssumption == Faults \subseteq FaultKinds
ASSUME FiniteAssumption == IsFiniteSet(Hash) /\ IsFiniteSet(Request)

VARIABLES
  \* on disk
  number,      \* column number of the file's row, 0 without a row
  ingested,    \* files whose row says ingested
  lastNumber,  \* AUTOINCREMENT
  cache,       \* files whose trigrams are in the cache directory
  journal,     \* batches of numbers in the journal, oldest first
  \* in memory
  pending,     \* filter_pending: files entered and not ingested
  size,        \* filter_sizes: number of rows
  transaction, \* files whose rows the SQLite worker is about to commit
  fetch,       \* the fetch task of each file
  rejected,    \* TrigramCache.rejected
  \* the feeder
  feeder,      \* its next step
  elapsed,     \* ingest_batch_delay_seconds have passed since delay_from
  batch,       \* its batch: the numbers of some files
  unread,      \* those whose trigrams it has not loaded yet
  loaded,      \* those whose trigrams it has loaded
  \* requests
  step,        \* next step of each request
  current,     \* the file it looks at
  files,       \* files it still has to look at
  outstanding, \* files it is going to enter
  completed,   \* files it will report as completed
  refused,     \* files it will report as rejected
  \* history
  asked,       \* files the broker waits for: named and not decided since
  done,        \* files ever reported as completed
  mishaps      \* how often each kind has gone wrong

database == <<number, ingested, lastNumber>>
trigrams == <<cache, fetch, rejected>>
feeding == <<feeder, elapsed, batch, unread, loaded>>
requests == <<step, current, files, outstanding, completed, refused>>
answers == <<asked, done>>
vars == <<database, trigrams, journal, pending, size, transaction, feeding,
          requests, answers, mishaps>>

Rows == {h \in Hash : number[h] # 0}

Init ==
  /\ number = [h \in Hash |-> 0] /\ ingested = {} /\ lastNumber = 0
  /\ cache = {} /\ fetch = [h \in Hash |-> "none"] /\ rejected = {}
  /\ journal = <<>>
  /\ pending = {} /\ size = 0 /\ transaction = {}
  /\ feeder = "get" /\ elapsed = FALSE /\ batch = <<>> /\ unread = {} /\ loaded = {}
  /\ step = [r \in Request |-> "idle"]
  /\ current = [r \in Request |-> {}]
  /\ files = [r \in Request |-> {}]
  /\ outstanding = [r \in Request |-> {}]
  /\ completed = [r \in Request |-> {}]
  /\ refused = [r \in Request |-> {}]
  /\ asked = {} /\ done = {} /\ mishaps = [kind \in FaultKinds |-> 0]

MoreMayFail == FoldFunction(+, 0, mishaps) < MaxMishaps

\* Something goes wrong.
Mishap(kind) ==
  /\ kind \in Faults /\ MoreMayFail
  /\ mishaps' = [mishaps EXCEPT ![kind] = @ + 1]

Never(kind) == mishaps[kind] = 0

\* The SQLite worker of the filter handles one command at a time.
DatabaseFree == transaction = {}

----------------------------------------------------------------------------
(* ingest_files *)

\* A request names every file the broker waits for.  filter_pending: those
\* already entered need nothing.
Begin(r, F) ==
  /\ step[r] = "idle"
  /\ F # {} /\ asked \subseteq F
  /\ files' = [files EXCEPT ![r] = F \ pending]
  /\ asked' = F
  /\ step' = [step EXCEPT ![r] = "strip"]
  /\ UNCHANGED <<database, trigrams, journal, pending, size, transaction, feeding,
                 current, outstanding, completed, refused, done, mishaps>>

\* strip_pending: neither do files that are being fetched.
StripPending(r) ==
  /\ step[r] = "strip"
  /\ files' = [files EXCEPT ![r] = {h \in @ : fetch[h] = "none"}]
  /\ step' = [step EXCEPT ![r] = "check"]
  /\ UNCHANGED <<database, trigrams, journal, pending, size, transaction, feeding,
                 current, outstanding, completed, refused, answers, mishaps>>

\* Mutant: files that have a row are examined too.
CheckStatusKeepsAll(r) ==
  /\ step[r] = "check" /\ DatabaseFree
  /\ completed' = [completed EXCEPT ![r] = files[r] \cap ingested]
  /\ step' = [step EXCEPT ![r] = "examine"]
  /\ UNCHANGED <<database, trigrams, journal, pending, size, transaction, feeding,
                 current, files, outstanding, refused, answers, mishaps>>

\* check_insert_status: ready, pending (dropped), or missing.
CheckStatus(r) ==
  /\ step[r] = "check" /\ DatabaseFree
  /\ completed' = [completed EXCEPT ![r] = files[r] \cap ingested]
  /\ files' = [files EXCEPT ![r] = @ \ Rows]
  /\ step' = [step EXCEPT ![r] = "examine"]
  /\ UNCHANGED <<database, trigrams, journal, pending, size, transaction, feeding,
                 current, outstanding, refused, answers, mishaps>>

\* clear_rejected, for the next missing file.
ClearRejected(r) ==
  /\ step[r] = "examine"
  /\ \E h \in files[r] :
       /\ files' = [files EXCEPT ![r] = @ \ {h}]
       /\ IF h \in rejected
            THEN /\ rejected' = rejected \ {h}
                 /\ refused' = [refused EXCEPT ![r] = @ \cup {h}]
                 /\ UNCHANGED <<step, current>>
            ELSE /\ current' = [current EXCEPT ![r] = {h}]
                 /\ step' = [step EXCEPT ![r] = "ready"]
                 /\ UNCHANGED <<rejected, refused>>
  /\ UNCHANGED <<database, cache, fetch, journal, pending, size, transaction, feeding,
                 outstanding, completed, answers, mishaps>>

\* is_ready: a file with trigrams is going to be entered.
IsReady(r) ==
  /\ step[r] = "ready"
  /\ IF current[r] \subseteq cache
       THEN /\ outstanding' = [outstanding EXCEPT ![r] = @ \cup current[r]]
            /\ current' = [current EXCEPT ![r] = {}]
            /\ step' = [step EXCEPT ![r] = "examine"]
       ELSE /\ step' = [step EXCEPT ![r] = "fetch"]
            /\ UNCHANGED <<outstanding, current>>
  /\ UNCHANGED <<database, trigrams, journal, pending, size, transaction, feeding,
                 files, completed, refused, answers, mishaps>>

\* start_fetch: one task per file, and none for a file that has trigrams by now.
StartFetch(r) ==
  /\ step[r] = "fetch"
  /\ fetch' = [h \in Hash |->
                 IF h \in current[r] \ cache /\ fetch[h] = "none" THEN "running" ELSE fetch[h]]
  /\ current' = [current EXCEPT ![r] = {}]
  /\ step' = [step EXCEPT ![r] = "examine"]
  /\ UNCHANGED <<database, cache, rejected, journal, pending, size, transaction, feeding,
                 files, outstanding, completed, refused, answers, mishaps>>

\* abandon_files deletes the rows of the rejected files.
AbandonFiles(r) ==
  /\ step[r] = "examine" /\ files[r] = {} /\ DatabaseFree
  /\ number' = [h \in Hash |-> IF h \in refused[r] THEN 0 ELSE number[h]]
  /\ ingested' = ingested \ refused[r]
  /\ pending' = pending \ refused[r]
  /\ step' = [step EXCEPT ![r] = "insert"]
  /\ UNCHANGED <<lastNumber, trigrams, journal, size, transaction, feeding,
                 current, files, outstanding, completed, refused, answers, mishaps>>

\* database.ingest_files: sizes and pending are updated row by row, and the
\* transaction committed after that.
InsertFiles(r) ==
  /\ step[r] = "insert" /\ DatabaseFree
  /\ LET new == outstanding[r] \ Rows
     IN /\ transaction' = new
        /\ size' = size + Cardinality(new)
        /\ pending' = pending \cup new
  /\ completed' = [completed EXCEPT ![r] = @ \cup (outstanding[r] \cap ingested)]
  /\ step' = [step EXCEPT ![r] = IF outstanding[r] \subseteq Rows THEN "answer" ELSE "commit"]
  /\ UNCHANGED <<database, trigrams, journal, feeding,
                 current, files, outstanding, refused, answers, mishaps>>

\* The new rows get the next numbers.  A dropped request does not stop this.
Commit ==
  /\ transaction # {}
  /\ LET n == Cardinality(transaction)
     IN /\ \E rank \in Injection(transaction, 1 .. n) :
             number' = [h \in Hash |-> IF h \in transaction THEN lastNumber + rank[h] ELSE number[h]]
        /\ lastNumber' = lastNumber + n
  /\ transaction' = {}
  /\ step' = [r \in Request |-> IF step[r] = "commit" THEN "answer" ELSE step[r]]
  /\ UNCHANGED <<ingested, trigrams, journal, pending, size, feeding,
                 current, files, outstanding, completed, refused, answers, mishaps>>

\* What a request remembers is dropped with it.
Forget(Done) ==
  LET wipe(f) == [r \in Request |-> IF r \in Done THEN {} ELSE f[r]]
  IN /\ step' = [r \in Request |-> IF r \in Done THEN "idle" ELSE step[r]]
     /\ current' = wipe(current) /\ files' = wipe(files) /\ outstanding' = wipe(outstanding)
     /\ completed' = wipe(completed) /\ refused' = wipe(refused)

\* notify_waiters wakes the feeder if it is waiting at this moment.
Answer(r) ==
  /\ step[r] = "answer"
  /\ feeder' = IF outstanding[r] # {} /\ feeder \in {"wait", "delay"} THEN "get" ELSE feeder
  /\ done' = done \cup completed[r]
  /\ asked' = asked \ (completed[r] \cup refused[r])
  /\ Forget({r})
  /\ UNCHANGED <<database, trigrams, journal, pending, size, transaction,
                 elapsed, batch, unread, loaded, mishaps>>

----------------------------------------------------------------------------
(* The fetch task of a file *)

\* The trigrams are written to a temporary file, and that renamed.
FetchStore(h) ==
  /\ fetch[h] = "running"
  /\ cache' = cache \cup {h}
  /\ fetch' = [fetch EXCEPT ![h] = "ending"]
  /\ UNCHANGED <<database, rejected, journal, pending, size, transaction, feeding,
                 requests, answers, mishaps>>

\* Not found ten times, or any other error.
FetchReject(h) ==
  /\ fetch[h] = "running"
  /\ rejected' = rejected \cup {h}
  /\ fetch' = [fetch EXCEPT ![h] = "ending"]
  /\ UNCHANGED <<database, cache, journal, pending, size, transaction, feeding,
                 requests, answers, mishaps>>

\* The outcome is there before the task leaves the table of pending tasks.
FetchEnd(h) ==
  /\ fetch[h] = "ending"
  /\ fetch' = [fetch EXCEPT ![h] = "none"]
  /\ UNCHANGED <<database, cache, rejected, journal, pending, size, transaction, feeding,
                 requests, answers, mishaps>>

----------------------------------------------------------------------------
(* The ingest feeder *)

\* The first files that are not ingested, by number.
NextBatch ==
  LET waiting == Rows \ ingested
  IN {h \in waiting : Cardinality({g \in waiting : number[g] < number[h]}) < BatchSize}

\* get_ingest_batch.  Nothing to do: wait for news.  A short batch waits for
\* more, until the delay has passed.
GetBatch ==
  /\ feeder = "get" /\ DatabaseFree
  /\ IF NextBatch = {}
       THEN feeder' = "wait" /\ UNCHANGED <<elapsed, batch, unread, loaded>>
     ELSE IF Cardinality(NextBatch) < BatchSize /\ ~elapsed
       THEN feeder' = "delay" /\ UNCHANGED <<elapsed, batch, unread, loaded>>
     ELSE /\ feeder' = "load"
          /\ elapsed' = FALSE
          /\ batch' = [h \in NextBatch |-> number[h]]
          /\ unread' = NextBatch
          /\ loaded' = {}
  /\ UNCHANGED <<database, trigrams, journal, pending, size, transaction,
                 requests, answers, mishaps>>

\* Mutant: only the wait for a full batch has a timeout.
WaitForNotification ==
  /\ feeder = "delay"
  /\ elapsed' = TRUE
  /\ feeder' = "get"
  /\ UNCHANGED <<database, trigrams, journal, pending, size, transaction,
                 batch, unread, loaded, requests, answers, mishaps>>

\* Both waits have a timeout, so that a notification that came too early to be
\* noticed is only a delay.
WaitTimeout ==
  /\ feeder \in {"wait", "delay"}
  /\ elapsed' = (elapsed \/ feeder = "delay")
  /\ feeder' = "get"
  /\ UNCHANGED <<database, trigrams, journal, pending, size, transaction,
                 batch, unread, loaded, requests, answers, mishaps>>

LoadTrigrams ==
  /\ feeder = "load"
  /\ \E h \in unread :
       /\ h \in cache
       /\ loaded' = loaded \cup {h}
       /\ unread' = unread \ {h}
  /\ UNCHANGED <<database, trigrams, journal, pending, size, transaction,
                 feeder, elapsed, batch, requests, answers, mishaps>>

\* A file whose trigrams cannot be read is rejected and left out of the batch
\* that is written.
RejectUnreadable ==
  /\ feeder = "load"
  /\ \E h \in unread :
       /\ IF h \in cache THEN Mishap("load") ELSE UNCHANGED mishaps
       /\ cache' = cache \ {h}
       /\ rejected' = rejected \cup {h}
       /\ unread' = unread \ {h}
  /\ UNCHANGED <<database, fetch, journal, pending, size, transaction,
                 feeder, elapsed, batch, loaded, requests, answers>>

\* Mutant: trigrams are released as soon as they are written.
WriteBatchReleases ==
  /\ feeder = "load" /\ unread = {}
  /\ journal' = Append(journal, {batch[h] : h \in loaded})
  /\ cache' = cache \ loaded
  /\ feeder' = "finish"
  /\ UNCHANGED <<database, fetch, rejected, pending, size, transaction,
                 elapsed, batch, unread, loaded, requests, answers, mishaps>>

WriteBatch ==
  /\ feeder = "load" /\ unread = {}
  /\ journal' = Append(journal, {batch[h] : h \in loaded})
  /\ feeder' = "finish"
  /\ UNCHANGED <<database, trigrams, pending, size, transaction,
                 elapsed, batch, unread, loaded, requests, answers, mishaps>>

\* Mutant: filter_pending is not updated.
FinishIngestKeepsPending ==
  /\ feeder = "finish" /\ DatabaseFree
  /\ ingested' = ingested \cup {h \in DOMAIN batch : number[h] = batch[h]}
  /\ feeder' = "release"
  /\ UNCHANGED <<number, lastNumber, trigrams, journal, pending, size, transaction,
                 elapsed, batch, unread, loaded, requests, answers, mishaps>>

\* finished_ingest marks the whole batch.
FinishIngest ==
  /\ feeder = "finish" /\ DatabaseFree
  /\ ingested' = ingested \cup {h \in DOMAIN batch : number[h] = batch[h]}
  /\ pending' = pending \ DOMAIN batch
  /\ feeder' = "release"
  /\ UNCHANGED <<number, lastNumber, trigrams, journal, size, transaction,
                 elapsed, batch, unread, loaded, requests, answers, mishaps>>

\* Mutant: the list of loaded files is not cleared for the next batch.
ReleaseTrigramsKeepsList ==
  /\ feeder = "release"
  /\ cache' = cache \ loaded
  /\ feeder' = "get"
  /\ batch' = <<>>
  /\ UNCHANGED <<database, fetch, rejected, journal, pending, size, transaction,
                 elapsed, unread, loaded, requests, answers, mishaps>>

ReleaseTrigrams ==
  /\ feeder = "release"
  /\ cache' = cache \ loaded
  /\ feeder' = "get"
  /\ batch' = <<>> /\ loaded' = {}
  /\ UNCHANGED <<database, fetch, rejected, journal, pending, size, transaction,
                 elapsed, unread, requests, answers, mishaps>>

----------------------------------------------------------------------------
(* Things that go wrong *)

RestartFeeder ==
  /\ feeder' = "get" /\ elapsed' = FALSE
  /\ batch' = <<>> /\ unread' = {} /\ loaded' = {}

\* Mutant: the error is logged and the batch marked ingested.
WriteFailsIgnored ==
  /\ feeder = "load" /\ unread = {}
  /\ Mishap("write")
  /\ feeder' = "finish"
  /\ UNCHANGED <<database, trigrams, journal, pending, size, transaction,
                 elapsed, batch, unread, loaded, requests, answers>>

\* The journal reports an error: the feeder starts again after a while.
WriteFails ==
  /\ feeder = "load" /\ unread = {}
  /\ Mishap("write")
  /\ RestartFeeder
  /\ UNCHANGED <<database, trigrams, journal, pending, size, transaction, requests, answers>>

\* The transaction fails, before or after filter_pending was updated.
FinishFails ==
  /\ feeder = "finish" /\ DatabaseFree
  /\ Mishap("finish")
  /\ pending' \in {pending, pending \ DOMAIN batch}
  /\ RestartFeeder
  /\ UNCHANGED <<database, trigrams, journal, size, transaction, requests, answers>>

\* The commit of new rows fails, after size and filter_pending were updated.
CommitFails ==
  /\ transaction # {}
  /\ Mishap("commit")
  /\ transaction' = {}
  /\ Forget({r \in Request : step[r] = "commit"})
  /\ UNCHANGED <<database, trigrams, journal, pending, size, feeding, answers>>

\* The client of a request goes away: its handler ends at the next await.
DropRequest(r) ==
  /\ step[r] # "idle"
  /\ Mishap("drop")
  /\ Forget({r})
  /\ UNCHANGED <<database, trigrams, journal, pending, size, transaction, feeding, answers>>

\* Mutant: a start forgets the rows of files not ingested.
CrashForgetsPartial ==
  /\ Mishap("crash")
  /\ fetch' = [h \in Hash |-> "none"] /\ rejected' = {}
  /\ number' = [h \in Hash |-> IF h \in ingested THEN number[h] ELSE 0]
  /\ pending' = {}
  /\ size' = Cardinality(ingested)
  /\ transaction' = {}
  /\ RestartFeeder
  /\ Forget(Request)
  /\ UNCHANGED <<ingested, lastNumber, cache, journal, answers>>

\* The process dies and starts again: FilterSQLWorker::start counts the rows and
\* collects those not ingested, the rest of the memory is empty.
Crash ==
  /\ Mishap("crash")
  /\ fetch' = [h \in Hash |-> "none"] /\ rejected' = {}
  /\ pending' = Rows \ ingested
  /\ size' = Cardinality(Rows)
  /\ transaction' = {}
  /\ RestartFeeder
  /\ Forget(Request)
  /\ UNCHANGED <<database, cache, journal, answers>>

----------------------------------------------------------------------------
RunRequest(r) ==
  \/ StripPending(r) \/ CheckStatus(r)
  \/ ClearRejected(r) \/ IsReady(r) \/ StartFetch(r)
  \/ AbandonFiles(r) \/ InsertFiles(r) \/ Answer(r)

RunFetch(h) == FetchStore(h) \/ FetchReject(h) \/ FetchEnd(h)

RunFeeder ==
  \/ GetBatch \/ WaitTimeout \/ LoadTrigrams \/ RejectUnreadable
  \/ WriteBatch \/ FinishIngest \/ ReleaseTrigrams

Next ==
  \/ \E r \in Request : (\E F \in SUBSET Hash : Begin(r, F)) \/ RunRequest(r) \/ DropRequest(r)
  \/ \E h \in Hash : RunFetch(h)
  \/ RunFeeder \/ Commit
  \/ WriteFails \/ FinishFails \/ CommitFails
  \/ Crash

Spec == Init /\ [][Next]_vars

\* Tasks run, and the watcher posts again as long as it waits for a file.
Fairness ==
  /\ \A r \in Request : WF_vars(asked # {} /\ \E F \in SUBSET Hash : Begin(r, F))
  /\ \A r \in Request : WF_vars(RunRequest(r))
  /\ \A h \in Hash : WF_vars(RunFetch(h))
  /\ WF_vars(RunFeeder)
  /\ WF_vars(Commit)

LiveSpec == Spec /\ Fairness

----------------------------------------------------------------------------
(* Properties *)

\* Every variable holds a value of its kind.
TypeOK ==
  /\ number \in [Hash -> Nat] /\ ingested \subseteq Hash /\ lastNumber \in Nat
  /\ cache \subseteq Hash /\ rejected \subseteq Hash
  /\ fetch \in [Hash -> {"none", "running", "ending"}]
  /\ journal \in Seq(SUBSET (1 .. lastNumber))
  /\ pending \subseteq Hash /\ size \in Nat /\ transaction \subseteq Hash
  /\ feeder \in {"get", "wait", "delay", "load", "finish", "release"}
  /\ elapsed \in BOOLEAN
  /\ batch \in UNION {[S -> 1 .. lastNumber] : S \in SUBSET Hash}
  /\ unread \subseteq DOMAIN batch /\ loaded \subseteq DOMAIN batch
  /\ step \in [Request -> {"idle", "strip", "check", "examine", "ready", "fetch",
                           "insert", "commit", "answer"}]
  /\ \A f \in {current, files, outstanding, completed, refused} :
       f \in [Request -> SUBSET Hash]
  /\ asked \subseteq Hash /\ done \subseteq Hash /\ mishaps \in [FaultKinds -> Nat]

Written == UNION {journal[i] : i \in DOMAIN journal}

\* A file reported to the broker as completed is in the journal under the number
\* of its row, then and ever after: across the feeder's failures, crashes, and
\* whatever later requests do to its row.  (Unless trigrams could not be read: see
\* RejectedIsNotCompleted.)
CompletedIsIndexed ==
  Never("load") => \A h \in done : number[h] \in Written

\* A file that is entered keeps its trigrams until it is ingested, so that the
\* feeder can load them however often it has to start again.
EnteredHasTrigrams ==
  Never("load") => Rows \ ingested \subseteq cache

\* What a query finds in the journal has a row to be selected by, which no later
\* rejection deletes (select_files drops numbers without a row).
WrittenHasRow == Written \subseteq {number[h] : h \in Rows}

\* filter_pending names nothing the feeder will not get to, apart from the
\* transaction under way: a name left in it hides the file from every later
\* request.  filter_sizes, by which the broker fills indices, counts the rows.
\* (A failed commit breaks both until the next start.)
PendingIsEntered ==
  Never("commit") =>
    /\ pending \ transaction \subseteq Rows \ ingested
    /\ size = Cardinality(Rows \cup transaction)

\* The trigrams of a file that is entered are not computed again.
FetchedOnce == \A h \in Rows \cup transaction : fetch[h] # "running"

\* A file the broker keeps asking for is completed or rejected in the end.
EveryFileIsDecided ==
  \A h \in Hash : h \in asked ~> h \notin asked \/ ~Never("commit")

\* A file whose job was "rejected and can't be completed" (trigrams.rs:34) is not
\* reported as completed: none is that the journal does not hold.
RejectedIsNotCompleted == \A h \in done : number[h] \in Written
=============================================================================
