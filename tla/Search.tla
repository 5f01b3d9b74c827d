--------------------------------- MODULE Search ---------------------------------
(***************************************************************************)
(* One search of the broker (src/broker/mod.rs): the requests that create  *)
(* and repeat it, its record in the datastore, its entry in                *)
(* running_searches, and the search_worker tasks that ask the indices of   *)
(* the workers for candidates, send them to yara in batches, and save the  *)
(* hits.  The broker may die and start again.                              *)
(*                                                                         *)
(* A query is what it selects: Candidates of an index, of which Matching   *)
(* satisfy the rule.  A task and its JoinSets, sockets and temporary set   *)
(* of candidates are one record.                                           *)
(***************************************************************************)
EXTENDS Integers, FiniteSets, FiniteSetsExt, Functions

CONSTANTS Worker, Index, WorkerOf,
          Candidates,   \* files each index finds for the query
          Matching,     \* files the yara rule matches
          Batch,        \* yara_batch_size
          Permits,      \* yara permits of all workers
          HitLimit,     \* search_hit_limit
          Caller,       \* concurrent requests
          MaxTask,      \* bound on tasks that exist at a time
          MaxRepeats,   \* bound on repetitions
          Faults, MaxMishaps

\* "fails": an error that makes _search_worker return (a worker that cannot be
\* reached, the temporary set, a count); "answer": the query of an index fails;
\* "socket": a worker's socket breaks; "yara": a request or a file of it fails;
\* "write": hits are refused; "refused", "lost": the last save of the record is
\* refused, or its answer lost; "dropped": a client goes away; "crash".
FaultKinds == {"fails", "answer", "socket", "yara", "write", "refused", "lost",
               "dropped", "crash"}
Task == 1 .. MaxTask
File == UNION Range(Candidates)

ASSUME IndexAssumption ==
  /\ WorkerOf \in [Index -> Worker] /\ DOMAIN Candidates = Index
  /\ IsFiniteSet(File)
ASSUME LimitAssumption == {Batch, Permits, HitLimit} \subseteq Nat \ {0}
ASSUME BoundAssumption == {MaxTask, MaxRepeats, MaxMishaps} \subseteq Nat /\ Faults \subseteq FaultKinds

VARIABLES
  record,    \* the models::Retrohunt saved: exists, finished, truncated, errors, version
  hits,      \* files saved as hits
  listed,    \* the task whose entry is in running_searches, 0 if none
  task,      \* see Idle
  caller,    \* initialize_search and repeat_search: pc, and the record they hold
  up, alive, \* the broker runs; the indices that are not deleted
  mishaps, repeats

stored == <<record, hits>>
vars == <<stored, listed, task, caller, up, alive, mishaps, repeats>>

Status == [finished : BOOLEAN, truncated : BOOLEAN, errors : BOOLEAN]
NewStatus == [finished |-> FALSE, truncated |-> FALSE, errors |-> FALSE]

\* What _search_worker has in hand when it starts, also when it starts again.
\* unopened, asked: workers without a connection, without a list of indices;
\* waiting: indices that have not answered; running: batches that yara works on.
Fresh == [unopened |-> Worker, asked |-> {}, waiting |-> {}, candidates |-> {},
          batch |-> {}, running |-> {}, answers |-> {}, writes |-> {}, spoiled |-> FALSE]

\* A task is between two statements of _search_worker; status is its own copy.
At(pc, status) == [pc |-> pc, status |-> status, has |-> Fresh]

Init ==
  /\ record = [exists |-> FALSE, status |-> NewStatus, version |-> 0]
  /\ hits = {} /\ listed = 0 /\ up = TRUE /\ alive = Index
  /\ task = [t \in Task |-> At("none", NewStatus)]
  /\ caller = [c \in Caller |-> [pc |-> "idle", saw |-> record]]
  /\ mishaps = [k \in Faults |-> 0] /\ repeats = 0

Happened(kind) == IF kind \in Faults THEN mishaps[kind] ELSE 0
MoreMayFail == FoldFunction(+, 0, mishaps) < MaxMishaps
Mishap(kind) ==
  /\ kind \in Faults /\ MoreMayFail
  /\ mishaps' = [mishaps EXCEPT ![kind] = @ + 1]

Save(status) == record' = [exists |-> TRUE, status |-> status, version |-> record.version + 1]

----------------------------------------------------------------------------
(* initialize_search, repeat_search *)

Held(c) == caller[c].saw

Initialize(c) ==
  /\ up /\ caller[c].pc = "idle" /\ ~record.exists
  /\ Save(NewStatus)
  /\ caller' = [caller EXCEPT ![c] = [pc |-> "saved", saw |-> record']]
  /\ UNCHANGED <<hits, listed, task, up, alive, mishaps, repeats>>

\* get: a search that is not finished is "already running".
ReadRecord(c) ==
  /\ up /\ caller[c].pc = "idle" /\ repeats < MaxRepeats
  /\ record.exists /\ record.status.finished
  /\ caller' = [caller EXCEPT ![c] = [pc |-> "read", saw |-> record]]
  /\ repeats' = repeats + 1
  /\ UNCHANGED <<stored, listed, task, up, alive, mishaps>>

\* The record loses its errors and keeps truncated.
Renewed(status) == [status EXCEPT !.finished = FALSE, !.errors = FALSE]

\* A mutant: saved without the version it was read with.
SaveRepeatAnyway(c) ==
  /\ caller[c].pc = "read"
  /\ Save(Renewed(Held(c).status))
  /\ caller' = [caller EXCEPT ![c] = [pc |-> "saved", saw |-> record']]
  /\ UNCHANGED <<hits, listed, task, up, alive, mishaps, repeats>>

\* With the version it was read with; when it has changed the loop reads again.
SaveRepeat(c) ==
  /\ caller[c].pc = "read"
  /\ IF Held(c).version = record.version
       THEN /\ Save(Renewed(Held(c).status))
            /\ caller' = [caller EXCEPT ![c] = [pc |-> "saved", saw |-> record']]
       ELSE /\ caller' = [caller EXCEPT ![c] =
                 [pc |-> IF record.status.finished THEN "read" ELSE "idle", saw |-> record]]
            /\ UNCHANGED record
  /\ UNCHANGED <<hits, listed, task, up, alive, mishaps, repeats>>

\* Under the lock of running_searches: spawn, and insert over an older entry.
StartTask(c, t) ==
  /\ caller[c].pc = "saved" /\ task[t].pc \in {"none", "ended"} /\ listed # t
  /\ task' = [task EXCEPT ![t] = At("start", Held(c).status)]
  /\ listed' = t
  /\ caller' = [caller EXCEPT ![c].pc = "idle"]
  /\ UNCHANGED <<stored, up, alive, mishaps, repeats>>

----------------------------------------------------------------------------
(* _search_worker *)

Step(t, change) ==
  /\ task' = [task EXCEPT ![t] = change]
  /\ UNCHANGED <<stored, listed, caller, up, alive, repeats>>
Quiet == UNCHANGED mishaps

Goes(t, pc) == [task[t] EXCEPT !.pc = pc]
Backoff(t) == At("backoff", task[t].status)

Start(t) ==
  /\ task[t].pc = "start" /\ Quiet
  /\ Step(t, At(IF task[t].status.finished THEN "ended" ELSE "connect", task[t].status))

\* One worker after the other; each connection carries the request.
Connect(t, w) ==
  /\ task[t].pc = "connect" /\ w \in task[t].has.unopened /\ Quiet
  /\ LET rest == task[t].has.unopened \ {w} IN
     Step(t, [task[t] EXCEPT !.has.unopened = rest, !.has.asked = @ \cup {w},
                             !.pc = IF rest = {} THEN "filter" ELSE @])

\* The worker lists its indices and asks each of them (interface.rs:78-92).
ListFilters(t, w) ==
  /\ w \in task[t].has.asked /\ Quiet
  /\ Step(t, [task[t] EXCEPT !.has.asked = @ \ {w},
                !.has.waiting = @ \cup {i \in alive : WorkerOf[i] = w}])

\* An index deleted since then says nothing at all.
QueryFilter(i) == IF i \in alive THEN Candidates[i] ELSE {}

\* The temporary set: a file two indices find is in it once, and a batch is any
\* of its files, as many as there are up to the size of a batch.
Insert(set, files) == set \cup files
PopBatch(set) == kSubset(IF Cardinality(set) < Batch THEN Cardinality(set) ELSE Batch, set)

Answer(t, i) ==
  /\ i \in task[t].has.waiting /\ Quiet
  /\ Step(t, [task[t] EXCEPT !.has.waiting = @ \ {i},
                             !.has.candidates = Insert(@, QueryFilter(i))])

AnswerFails(t, i) ==
  /\ i \in task[t].has.waiting /\ Mishap("answer")
  /\ Step(t, [task[t] EXCEPT !.has.waiting = @ \ {i}, !.status.errors = TRUE])

SocketBreaks(t, w) ==
  /\ Mishap("socket")
  /\ \/ w \in task[t].has.asked
     \/ \E i \in task[t].has.waiting : WorkerOf[i] = w
  /\ Step(t, [task[t] EXCEPT !.has.asked = @ \ {w}, !.status.errors = TRUE,
                !.has.waiting = {i \in @ : WorkerOf[i] # w}])

FilterDone(t) ==
  /\ task[t].pc = "filter" /\ task[t].has.asked = {} /\ task[t].has.waiting = {} /\ Quiet
  /\ Step(t, Goes(t, "yara"))

CountHits == Cardinality(hits)

\* The head of the yara loop: the next batch, the end, or too many hits, which
\* drops the JoinSet of requests.
Loop(t) ==
  /\ task[t].pc = "yara" /\ Quiet
  /\ LET h == task[t].has IN
     \E b \in IF h.batch # {} THEN {h.batch} ELSE PopBatch(h.candidates) :
       LET popped == [h EXCEPT !.batch = b, !.candidates = @ \ b] IN
       Step(t,
         IF b = {} /\ h.running = {} /\ h.answers = {} THEN Goes(t, "join")
         ELSE IF CountHits >= HitLimit
           THEN [task[t] EXCEPT !.pc = "join", !.status.truncated = TRUE,
                   !.has = [popped EXCEPT !.running = {}, !.answers = {}]]
         ELSE [task[t] EXCEPT !.pc = "select", !.has = popped])

Busy == FoldFunction(+, 0, [u \in Task |-> Cardinality(task[u].has.running)])

\* A permit of the pool is free; a request keeps it until it has its answer.
Dispatch(t) ==
  /\ task[t].pc = "select" /\ task[t].has.batch # {} /\ Busy < Permits /\ Quiet
  /\ Step(t, [task[t] EXCEPT !.pc = "yara", !.has.batch = {},
                !.has.running = @ \cup {task[t].has.batch}])

RunYara(t, b) ==
  /\ b \in task[t].has.running /\ Quiet
  /\ Step(t, [task[t] EXCEPT !.has.running = @ \ {b},
                !.has.answers = @ \cup {[hits |-> b \cap Matching, error |-> FALSE]}])

\* Files that cannot be opened are named in the answer; without an answer none is.
YaraFails(t, b) ==
  /\ b \in task[t].has.running /\ Mishap("yara")
  /\ \E found \in SUBSET (b \cap Matching) :
       Step(t, [task[t] EXCEPT !.has.running = @ \ {b},
                  !.has.answers = @ \cup {[hits |-> found, error |-> TRUE]}])

\* A mutant: errors are not kept.
CollectHitsOnly(t, a) ==
  /\ task[t].pc = "select" /\ a \in task[t].has.answers /\ Quiet
  /\ Step(t, [task[t] EXCEPT !.pc = "yara", !.has.answers = @ \ {a},
                !.has.writes = @ \cup ({a.hits} \ {{}})])

\* A finished request: its hits are saved by a task of their own.
Collect(t, a) ==
  /\ task[t].pc = "select" /\ a \in task[t].has.answers /\ Quiet
  /\ Step(t, [task[t] EXCEPT !.pc = "yara", !.has.answers = @ \ {a},
                !.has.writes = @ \cup ({a.hits} \ {{}}), !.status.errors = @ \/ a.error])

\* save_hits; a task that starts again aborts those under way.
WriteHits(t, found) ==
  /\ found \in task[t].has.writes
  /\ task' = [task EXCEPT ![t].has.writes = @ \ {found}]
  /\ hits' = hits \cup found
  /\ UNCHANGED <<record, listed, caller, up, alive, mishaps, repeats>>

WriteRefused(t, found) ==
  /\ found \in task[t].has.writes /\ Mishap("write")
  /\ Step(t, [task[t] EXCEPT !.has.writes = @ \ {found}, !.has.spoiled = TRUE])

Join(t) ==
  /\ task[t].pc = "join" /\ Quiet
  /\ \/ task[t].has.spoiled /\ Step(t, Backoff(t))
     \/ ~task[t].has.spoiled /\ task[t].has.writes = {} /\ Step(t, Goes(t, "finalize"))

\* finalize_search marks its own copy first, and saves without a version.
Final(t) == [task[t].status EXCEPT !.finished = TRUE]

Finalize(t) ==
  /\ task[t].pc = "finalize"
  /\ Save(Final(t))
  /\ task' = [task EXCEPT ![t] = At("remove", Final(t))]
  /\ UNCHANGED <<hits, listed, caller, up, alive, mishaps, repeats>>

\* The answer is lost and the client of the datastore asks again (elastic.rs:515).
FinalizeLost(t) ==
  /\ task[t].pc = "finalize" /\ Mishap("lost")
  /\ Save(Final(t))
  /\ UNCHANGED <<hits, listed, task, caller, up, alive, repeats>>

\* An error of the client's: the task starts again, with its copy finished.
FinalizeRefused(t) ==
  /\ task[t].pc = "finalize" /\ Mishap("refused")
  /\ Step(t, At("backoff", Final(t)))

\* running_searches.remove, whichever task the entry is of.
RemoveEntry(t) ==
  /\ task[t].pc = "remove"
  /\ listed' = 0
  /\ task' = [task EXCEPT ![t].pc = "ended"]
  /\ UNCHANGED <<stored, caller, up, alive, mishaps, repeats>>

Fails(t) ==
  /\ task[t].pc \in {"connect", "filter", "yara", "join"} /\ Mishap("fails")
  /\ Step(t, Backoff(t))

\* Sending progress is an error once no receiver is left: the one in
\* running_searches is gone, and no client has taken a copy before.  When one has,
\* the task goes on.
NobodyListens(t) ==
  /\ task[t].pc \in {"start", "filter", "yara"} /\ ~task[t].status.finished
  /\ listed # t /\ Quiet
  /\ Step(t, Backoff(t))

Retry(t) == task[t].pc = "backoff" /\ Quiet /\ Step(t, At("start", task[t].status))

----------------------------------------------------------------------------
(* Around them *)

Expire(i) ==
  /\ i \in alive /\ alive' = alive \ {i}
  /\ UNCHANGED <<stored, listed, task, caller, up, mishaps, repeats>>

DropCaller(c) ==
  /\ caller[c].pc # "idle" /\ Mishap("dropped")
  /\ caller' = [caller EXCEPT ![c].pc = "idle"]
  /\ UNCHANGED <<stored, listed, task, up, alive, repeats>>

Crash ==
  /\ up /\ up' = FALSE /\ Mishap("crash")
  /\ listed' = 0
  /\ task' = [t \in Task |-> At("none", NewStatus)]
  /\ caller' = [c \in Caller |-> [caller[c] EXCEPT !.pc = "idle"]]
  /\ UNCHANGED <<stored, alive, repeats>>

\* A mutant: only what waits for clients is started.
RestartForgets ==
  /\ ~up /\ up' = TRUE
  /\ UNCHANGED <<stored, listed, task, caller, alive, mishaps, repeats>>

\* HouseCore::new revives the searches that are not finished.
ActiveInRecord == record.exists /\ ~record.status.finished

Restart ==
  /\ ~up /\ up' = TRUE
  /\ IF ActiveInRecord
       THEN /\ Save(record.status)
            /\ \E t \in Task : listed' = t /\ task' = [task EXCEPT ![t] = At("start", record.status)]
       ELSE UNCHANGED <<record, task, listed>>
  /\ UNCHANGED <<hits, caller, alive, mishaps, repeats>>

RunCaller(c) == SaveRepeat(c) \/ \E t \in Task : StartTask(c, t)
RunTask(t) ==
  \/ Start(t) \/ (\E w \in Worker : Connect(t, w)) \/ FilterDone(t) \/ Loop(t) \/ Dispatch(t)
  \/ (\E a \in task[t].has.answers : Collect(t, a))
  \/ Join(t) \/ Finalize(t) \/ RemoveEntry(t) \/ Retry(t)
RunWorker(t) ==
  \/ \E w \in Worker : ListFilters(t, w)
  \/ \E i \in Index : Answer(t, i)
RunRequests(t) == \E b \in task[t].has.running : RunYara(t, b)
RunWrites(t) == \E found \in task[t].has.writes : WriteHits(t, found)

Next ==
  \/ \E c \in Caller : Initialize(c) \/ ReadRecord(c) \/ RunCaller(c) \/ DropCaller(c)
  \/ \E t \in Task :
       \/ RunTask(t) \/ RunWorker(t) \/ RunRequests(t) \/ RunWrites(t)
       \/ \E i \in Index : AnswerFails(t, i)
       \/ \E w \in Worker : SocketBreaks(t, w)
       \/ \E b \in task[t].has.running : YaraFails(t, b)
       \/ \E found \in task[t].has.writes : WriteRefused(t, found)
       \/ FinalizeLost(t) \/ FinalizeRefused(t) \/ Fails(t) \/ NobodyListens(t)
  \/ \E i \in Index : Expire(i)
  \/ Crash \/ Restart

Spec == Init /\ [][Next]_vars

\* Tasks, requests and saves go on; a restart comes; clients, indices that expire
\* and faults are left to chance.
Fairness ==
  /\ WF_vars(Restart)
  /\ \A c \in Caller : WF_vars(RunCaller(c))
  /\ \A t \in Task : /\ WF_vars(RunTask(t)) /\ WF_vars(RunWorker(t))
                     /\ WF_vars(RunRequests(t)) /\ WF_vars(RunWrites(t))

LiveSpec == Spec /\ Fairness

----------------------------------------------------------------------------
(* Properties *)

\* A task that has not marked the search finished, and works on it.
Active(t) == task[t].pc \notin {"none", "ended", "remove"} /\ ~task[t].status.finished

\* What is stored of the search has its type.
TypeOK ==
  /\ record.status \in Status /\ record.version \in Nat
  /\ hits \subseteq Matching /\ listed \in Task \cup {0}
  /\ \A t \in Task : task[t].status \in Status /\ task[t].has.candidates \subseteq File

\* The record tells the truth about its hits: one that is finished without errors
\* and not truncated has every matching file of every index that still exists,
\* whatever failed on the way, and a truncated one has reached the limit.
FinishedIsComplete ==
  record.status.finished =>
    /\ record.status.truncated => Cardinality(hits) >= HitLimit
    /\ ~record.status.truncated /\ ~record.status.errors =>
         \A i \in alive : Candidates[i] \cap Matching \subseteq hits

\* Unless the answer to a last save is lost, two tasks never work on the search,
\* and a client that looks for it in running_searches is never shown an older
\* task than the one at work.
OneTaskWorks ==
  /\ TypeOK
  /\ Happened("lost") = 0 =>
       \A t \in Task : Active(t) => listed \in {0, t} /\ \A u \in Task : Active(u) => u = t

\* The last save was refused: the task has ended and the record says it runs.
Forsaken == ~record.status.finished /\ \E t \in Task :
              task[t].pc \notin {"none", "remove"} /\ task[t].status.finished

\* A search with a task at work and an entry that is its own is finished in the
\* end, through failures, crashes and restarts, unless the last save is refused
\* or the entry is taken away from under the task.
ListedSearchFinishes ==
  \A t \in Task : (Active(t) /\ listed = t) ~>
    (record.status.finished \/ Forsaken \/ \E u \in Task : Active(u) /\ listed # u)

\* "Keep restarting the search until it completes" (mod.rs:1083): a search that a
\* task works on is finished in the end.
EverySearchFinishes == (\E t \in Task : Active(t)) ~> record.status.finished
=============================================================================
