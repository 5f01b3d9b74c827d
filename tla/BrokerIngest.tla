------------------------------ MODULE BrokerIngest ------------------------------
(***************************************************************************)
(* How the broker gets files to the workers (src/broker/mod.rs): a caller  *)
(* of start_ingest waits on a channel while its task goes through the      *)
(* buffer of the ingest worker, a check whether some worker knows the file *)
(* (_ingest_check), the queue of its expiry group (pending_assignments)    *)
(* and the table of the watcher of one worker (_ingest_watcher), which     *)
(* posts the table to the worker every five seconds, answers what the      *)
(* worker has completed or rejected, takes new tasks from the queues and   *)
(* has the worker create indices for what does not fit.                    *)
(*                                                                         *)
(* A worker is seen from outside: the state of each file in each of its    *)
(* indices.  FilterIngest shows how one index gets there.                  *)
(*                                                                         *)
(* A task is lost for its callers when it is dropped with their channels:  *)
(* start_ingest returns an error.                                          *)
(***************************************************************************)
EXTENDS Integers, Sequences, FiniteSets, SequencesExt

CONSTANTS Hash,              \* files
          Caller,            \* calls of start_ingest: [hash, expiry, copy]
          Worker,            \* workers
          Slot,              \* config.ingest_check_concurrent_batches of them
          CheckBatchSize,    \* config.ingest_check_batch_size
          PendingLimit,      \* config.per_filter_pending_limit
          ItemLimit,         \* config.filter_item_limit
          GroupDuplication,  \* config.per_worker_group_duplication
          Faults,            \* what may go wrong, see FaultKinds
          MaxMishaps,        \* bound on how often something does
          MaxDay,            \* bound on the days that pass
          MaxFilter          \* bound on the identifiers of indices

\* "check": a request of a check fails; "poll": a request of a watcher fails;
\* "watcher": a watcher stops with an error and is started again; "worker": a
\* worker is restarted; "pressure": a worker is short of storage.
FaultKinds == {"check", "poll", "watcher", "worker", "pressure"}

Day == 1 .. MaxDay

\* Days, and the group of what is kept for ever (ExpiryGroup::create of None).
Group == 1 .. MaxDay + 1
Filter == 1 .. MaxFilter

ASSUME HashAssumption == IsFiniteSet(Hash)
ASSUME CallerAssumption == \A k \in Caller : k.hash \in Hash /\ k.expiry \in Group
ASSUME LimitAssumption ==
  /\ CheckBatchSize \in Nat \ {0} /\ PendingLimit \in Nat \ {0}
  /\ ItemLimit \in Nat /\ GroupDuplication \in Nat
ASSUME BoundAssumption == MaxMishaps \in Nat /\ MaxDay \in Nat \ {0} /\ MaxFilter \in Nat
ASSUME FaultAssumption == Faults \subseteq FaultKinds

VARIABLES
  today,
  answer,    \* what each call has got: "none" before it is made, "waiting", ...
  \* the ingest worker
  buffer,    \* unchecked_buffer
  buffered,  \* buffer_hashes
  check,     \* the batch each slot checks
  \* shared
  queue,     \* pending_assignments: tasks of each expiry group
  lock,      \* the watcher that holds it for writing
  \* the watcher of each worker
  inbox,     \* channel from the checks
  active,    \* tasks the worker is to ingest, with the index they are for
  phase,     \* "idle", "sent", "answered", "assign" or "create"
  sent,      \* the request under way
  result,    \* the response being handled
  todo,      \* indices to be filled, then groups to get an index
  \* each worker
  index,     \* expiry of each index, 0 if there is none
  status,    \* what it knows of each file in each index
  swept,     \* the day of its last garbage collection
  \* history
  indexed,   \* files ever ingested, with the expiry of their index
  refused,   \* files ever rejected by a worker
  made,      \* how many indices of a worker have had each identifier
  mishaps    \* how often each kind has gone wrong

checking == <<buffer, buffered, check>>
watching == <<inbox, active, phase, sent, result, todo>>
working == <<index, status, swept>>
history == <<indexed, refused, made, mishaps>>
vars == <<today, answer, checking, queue, lock, watching, working, history>>

Task == [hash : Hash, expiry : Group, callers : SUBSET Caller]
Statuses == {"missing", "fetching", "fetched", "rejected", "pending", "ready"}

NoCheck == [files |-> {}, tasks |-> {}, asked |-> {}, replies |-> {}]
NoResult == [completed |-> {}, rejected |-> {}, pending |-> [f \in Filter |-> {}],
             size |-> [f \in Filter |-> 0], group |-> [f \in Filter |-> 0],
             pressure |-> FALSE]

Init ==
  /\ today = 1
  /\ answer = [k \in Caller |-> "none"]
  /\ buffer = <<>> /\ buffered = {}
  /\ check = [s \in Slot |-> NoCheck]
  /\ queue = <<>> /\ lock = {}
  /\ inbox = [w \in Worker |-> <<>>]
  /\ active = [w \in Worker |-> {}]
  /\ phase = [w \in Worker |-> "idle"]
  /\ sent = [w \in Worker |-> {}]
  /\ result = [w \in Worker |-> NoResult]
  /\ todo = [w \in Worker |-> {}]
  /\ index = [w \in Worker |-> [f \in Filter |-> 0]]
  /\ status = [w \in Worker |-> [f \in Filter |-> [h \in Hash |-> "missing"]]]
  /\ swept = [w \in Worker |-> 1]
  /\ indexed = {} /\ refused = {} /\ made = [w \in Worker |-> [f \in Filter |-> 0]]
  /\ mishaps = [kind \in FaultKinds |-> 0]

MoreMayFail == FoldFunction(+, 0, mishaps) < MaxMishaps

Mishap(kind) ==
  /\ kind \in Faults /\ MoreMayFail
  /\ mishaps' = [mishaps EXCEPT ![kind] = @ + 1]

\* A mutant: the channels of the second task are dropped.
MergeForgetsCallers(a, b) ==
  [a EXCEPT !.expiry = IF a.expiry < b.expiry THEN b.expiry ELSE a.expiry]

\* IngestTask::merge.
Merge(a, b) ==
  [hash |-> a.hash,
   expiry |-> IF a.expiry < b.expiry THEN b.expiry ELSE a.expiry,
   callers |-> a.callers \cup b.callers]

\* pending_assignments.write() returns.
QueueFree == lock = {}

CallersOf(tasks) == UNION {t.callers : t \in tasks}

Tell(yes, no, gone) ==
  answer' = [k \in Caller |-> IF k \in yes THEN "true"
                              ELSE IF k \in no THEN "false"
                              ELSE IF k \in gone THEN "lost" ELSE answer[k]]

----------------------------------------------------------------------------
(* The ingest worker *)

Idle(s) == check[s] = NoCheck

\* A call.  The worker has started every check it could before it takes a
\* message.  Its buffer may hold the hash no more although buffered names it.
Ask(k) ==
  /\ answer[k] = "none"
  /\ buffer # <<>> => \A s \in Slot : ~Idle(s)
  /\ LET new == [hash |-> k.hash, expiry |-> k.expiry, callers |-> {k}]
         same == {i \in DOMAIN buffer : buffer[i].hash = k.hash}
     IN IF k.hash \notin buffered
          THEN /\ buffer' = Append(buffer, new)
               /\ buffered' = buffered \cup {k.hash}
               /\ answer' = [answer EXCEPT ![k] = "waiting"]
          ELSE /\ buffer' = [i \in DOMAIN buffer |->
                               IF i \in same THEN Merge(buffer[i], new) ELSE buffer[i]]
               /\ answer' = [answer EXCEPT ![k] = IF same = {} THEN "lost" ELSE "waiting"]
               /\ UNCHANGED buffered
  /\ UNCHANGED <<today, check, queue, lock, watching, working, history>>

\* Take tasks until the batch is full; answer the stale ones, whose hashes stay
\* in buffered.
StartCheck(s) ==
  /\ Idle(s) /\ buffer # <<>>
  /\ \E n \in DOMAIN buffer :
       LET fresh == {i \in 1 .. n : today < buffer[i].expiry}
           tasks == {buffer[i] : i \in fresh}
           stale == {buffer[i] : i \in (1 .. n) \ fresh}
       IN /\ \/ Cardinality(fresh) = CheckBatchSize /\ n \in fresh
             \/ Cardinality(fresh) < CheckBatchSize /\ n = Len(buffer)
          /\ buffer' = SubSeq(buffer, n + 1, Len(buffer))
          /\ buffered' = buffered \ {t.hash : t \in tasks}
          /\ check' = IF tasks = {} THEN check ELSE
               [check EXCEPT ![s] =
                 [files |-> {[hash |-> t.hash, expiry |-> t.expiry] : t \in tasks},
                  tasks |-> tasks, asked |-> Worker, replies |-> {}]]
          /\ Tell({}, CallersOf(stale), {})
  /\ UNCHANGED <<today, queue, lock, watching, working, history>>

\* A mutant: the column ingested is not looked at.
KnownRow(w, file, what) ==
  {f \in Filter : /\ index[w][f] # 0 /\ index[w][f] <= file.expiry
                  /\ status[w][f][file.hash] \in {"pending", "ready"}}

\* The worker's side, update_file_access: indices that expire after the file are
\* not considered.
Known(w, file, what) ==
  {f \in Filter : /\ index[w][f] # 0 /\ index[w][f] <= file.expiry
                  /\ status[w][f][file.hash] = what}

UpdateFiles(s, w) ==
  /\ w \in check[s].asked
  /\ LET processed == {d \in check[s].files : Known(w, d, "ready") # {}}
         underway == {d \in check[s].files \ processed : Known(w, d, "pending") # {}}
     IN \E where \in [underway -> Filter] :
          /\ \A d \in underway : where[d] \in Known(w, d, "pending")
          /\ check' = [check EXCEPT
               ![s].asked = @ \ {w},
               ![s].replies = @ \cup
                 {[worker |-> w, processed |-> {d.hash : d \in processed},
                   pending |-> {<<d.hash, where[d]>> : d \in underway}]}]
  /\ UNCHANGED <<today, answer, buffer, buffered, queue, lock, watching, working, history>>

\* What a reply answers, and what it hands on, with the index it is for.
Processed(s, r) == {t \in check[s].tasks : t.hash \in r.processed}
HandedOn(s, r) ==
  {m \in [task : check[s].tasks \ Processed(s, r), filter : Filter] :
     <<m.task.hash, m.filter>> \in r.pending}

\* Answer what is processed, hand what is pending to the watcher of that worker.
CollectReply(s) ==
  \E r \in check[s].replies :
    LET done == Processed(s, r)
        mine == HandedOn(s, r)
    IN /\ check' = [check EXCEPT
            ![s].replies = @ \ {r},
            ![s].tasks = @ \ (done \cup {m.task : m \in mine}),
            ![s].files = IF check[s].asked = {} THEN {} ELSE @]
       /\ inbox' = [inbox EXCEPT ![r.worker] = @ \o SetToSeq(mine)]
       /\ Tell(CallersOf(done), {}, {})
       /\ UNCHANGED <<today, buffer, buffered, queue, lock, active, phase, sent, result, todo,
                      working, history>>

\* The queue of a group, what of it is for files of a check, and what is new in it.
QueueOf(g) == IF g \in DOMAIN queue THEN queue[g] ELSE <<>>
SameIn(s, g, i) == {t \in check[s].tasks : t.hash = QueueOf(g)[i].hash /\ t.expiry = g}
NewIn(s, g) ==
  {t \in check[s].tasks : t.expiry = g /\ \A i \in DOMAIN QueueOf(g) : QueueOf(g)[i].hash # t.hash}

\* What no worker knows goes to the queue of its group, or to the same file there.
EnqueueChecked(s) ==
  /\ check[s].tasks # {} /\ check[s].asked = {} /\ check[s].replies = {}
  /\ QueueFree
  /\ LET merged(g) == [i \in DOMAIN QueueOf(g) |->
                         IF SameIn(s, g, i) = {} THEN QueueOf(g)[i]
                         ELSE Merge(QueueOf(g)[i], CHOOSE t \in SameIn(s, g, i) : TRUE)]
     IN queue' = [g \in DOMAIN queue \cup {t.expiry : t \in check[s].tasks} |->
                    merged(g) \o SetToSeq(NewIn(s, g))]
  /\ check' = [check EXCEPT ![s] = NoCheck]
  /\ UNCHANGED <<today, answer, buffer, buffered, lock, watching, working, history>>

\* One request failed: whatever has not been answered or handed on is dropped.
CheckFails(s) ==
  /\ check[s].asked # {} \/ check[s].replies # {}
  /\ Mishap("check")
  /\ Tell({}, {}, CallersOf(check[s].tasks))
  /\ check' = [check EXCEPT ![s] = NoCheck]
  /\ UNCHANGED <<today, buffer, buffered, queue, lock, watching, working, indexed, refused, made>>

----------------------------------------------------------------------------
(* The watcher of a worker *)

\* It is at its select.
Selecting(w) == phase[w] \in {"idle", "sent", "answered"}

\* A file already active moves to the index of the task that expires later.
WatcherReceive(w) ==
  /\ Selecting(w) /\ inbox[w] # <<>>
  /\ LET m == Head(inbox[w])
         same == {a \in active[w] : a.task.hash = m.task.hash}
         moved(a) == [task |-> Merge(a.task, m.task),
                      filter |-> IF a.task.expiry < m.task.expiry THEN m.filter ELSE a.filter]
     IN active' = [active EXCEPT ![w] =
                     (@ \ same) \cup (IF same = {} THEN {m} ELSE {moved(a) : a \in same})]
  /\ inbox' = [inbox EXCEPT ![w] = Tail(@)]
  /\ UNCHANGED <<today, answer, checking, queue, lock, phase, sent, result, todo, working, history>>

\* A mutant: only the watcher's own tasks are looked at.
HasActive(rest) == rest # {}

\* Something to post, or a group that has ever had a queue.
HasWork(rest) == rest # {} \/ DOMAIN queue # {}

\* Expire what is active; unless a request is under way, post the rest.
Tick(w) ==
  /\ Selecting(w)
  /\ LET old == {a \in active[w] : a.task.expiry <= today}
         rest == active[w] \ old
         post == phase[w] = "idle" /\ HasWork(rest)
     IN /\ old # {} \/ post
        /\ Tell({}, CallersOf({a.task : a \in old}), {})
        /\ active' = [active EXCEPT ![w] = rest]
        /\ phase' = [phase EXCEPT ![w] = IF post THEN "sent" ELSE @]
        /\ sent' = [sent EXCEPT ![w] =
                      IF post THEN {<<a.filter, a.task.hash>> : a \in rest} ELSE @]
  /\ UNCHANGED <<today, checking, queue, lock, inbox, result, todo, working, history>>

\* A mutant: TrigramCache::add_pending is not called.
CountedInDatabase == {"pending"}

\* What counts as pending: rows not ingested, and downloads.
Counted == {"fetching", "pending"}

\* The worker's side, ingest_files: start fetching what is missing, enter what
\* is fetched, and report.
IngestFiles(w) ==
  /\ phase[w] = "sent"
  /\ LET asked(f, h) == <<f, h>> \in sent[w] /\ index[w][f] # 0
         what(s) == {p \in sent[w] : index[w][p[1]] # 0 /\ status[w][p[1]][p[2]] = s}
         next(s) == CASE s = "missing" -> "fetching"
                      [] s = "fetched" -> "pending"
                      [] s = "rejected" -> "missing"
                      [] OTHER -> s
         after == [f \in Filter |-> [h \in Hash |->
                    IF asked(f, h) THEN next(status[w][f][h]) ELSE status[w][f][h]]]
         in(f, S) == {h \in Hash : after[f][h] \in S}
     IN /\ status' = [status EXCEPT ![w] = after]
        /\ \E pressure \in BOOLEAN :
             /\ IF pressure THEN Mishap("pressure") ELSE UNCHANGED mishaps
             /\ result' = [result EXCEPT ![w] =
                  [completed |-> what("ready"), rejected |-> what("rejected"),
                   pending |-> [f \in Filter |-> in(f, Counted)],
                   size |-> [f \in Filter |-> Cardinality(in(f, {"pending", "ready"}))],
                   group |-> index[w], pressure |-> pressure]]
  /\ phase' = [phase EXCEPT ![w] = "answered"]
  /\ sent' = [sent EXCEPT ![w] = {}]
  /\ UNCHANGED <<today, answer, checking, queue, lock, inbox, active, todo, index,
                 swept, indexed, refused, made>>

\* Answer what is completed or rejected.  A task whose index is another one by
\* now leaves the table as well.
TakeResult(w) ==
  /\ phase[w] = "answered"
  /\ result[w].pressure \/ QueueFree
  /\ LET r == result[w]
         named == {a \in active[w] : \E p \in r.completed \cup r.rejected : p[2] = a.task.hash}
         of(S) == CallersOf({a.task : a \in {b \in named : <<b.filter, b.task.hash>> \in S}})
         yes == of(r.completed)
         no == of(r.rejected)
     IN /\ Tell(yes, no, CallersOf({a.task : a \in named}) \ (yes \cup no))
        /\ active' = [active EXCEPT ![w] = @ \ named]
        /\ IF r.pressure
             THEN /\ phase' = [phase EXCEPT ![w] = "idle"]
                  /\ result' = [result EXCEPT ![w] = NoResult]
                  /\ UNCHANGED <<lock, todo>>
             ELSE /\ phase' = [phase EXCEPT ![w] = "assign"]
                  /\ result' = [result EXCEPT ![w].completed = {}, ![w].rejected = {}]
                  /\ lock' = lock \cup {w}
                  /\ todo' = [todo EXCEPT ![w] = {f \in Filter : r.group[f] \in DOMAIN queue}]
  /\ UNCHANGED <<today, checking, queue, inbox, sent, working, history>>

\* A mutant: a task is popped before it is known whether there is room for it.
AssignToPopsFirst(w, f) ==
  /\ phase[w] = "assign" /\ f \in todo[w]
  /\ LET r == result[w]
         q == queue[r.group[f]]
         first(n) == {q[i] : i \in 1 .. n}
         full(n) == Cardinality(r.pending[f] \cup {t.hash : t \in first(n)}) >= PendingLimit
     IN \E n \in 0 .. Len(q) :
          LET taken == first(n)
              over == {a \in active[w] : a.task.hash \in {t.hash : t \in taken}}
          IN /\ IF r.size[f] >= ItemLimit THEN n = 0
                ELSE (full(n) \/ n = Len(q)) /\ \A m \in 0 .. n - 1 : ~full(m)
             /\ queue' = [queue EXCEPT ![r.group[f]] = SubSeq(q, n + 2, Len(q))]
             /\ active' = [active EXCEPT ![w] =
                             (@ \ over) \cup {[task |-> t, filter |-> f] : t \in taken}]
             /\ Tell({}, {}, CallersOf({a.task : a \in over} \cup
                                       {q[i] : i \in {n + 1} \cap DOMAIN q}))
  /\ todo' = [todo EXCEPT ![w] = @ \ {f}]
  /\ UNCHANGED <<today, checking, lock, inbox, phase, sent, result, working, history>>

\* Fill an index from the queue of its group, up to the limit on pending files.
\* A task takes the place of one active for the same file.
AssignTo(w, f) ==
  /\ phase[w] = "assign" /\ f \in todo[w]
  /\ LET r == result[w]
         q == queue[r.group[f]]
         first(n) == {q[i] : i \in 1 .. n}
         full(n) == Cardinality(r.pending[f] \cup {t.hash : t \in first(n)}) >= PendingLimit
     IN \E n \in 0 .. Len(q) :
          LET taken == first(n)
              over == {a \in active[w] : a.task.hash \in {t.hash : t \in taken}}
          IN /\ IF r.size[f] >= ItemLimit THEN n = 0
                ELSE (full(n) \/ n = Len(q)) /\ \A m \in 0 .. n - 1 : ~full(m)
             /\ queue' = [queue EXCEPT ![r.group[f]] = SubSeq(q, n + 1, Len(q))]
             /\ active' = [active EXCEPT ![w] =
                             (@ \ over) \cup {[task |-> t, filter |-> f] : t \in taken}]
             /\ Tell({}, {}, CallersOf({a.task : a \in over}))
  /\ todo' = [todo EXCEPT ![w] = @ \ {f}]
  /\ UNCHANGED <<today, checking, lock, inbox, phase, sent, result, working, history>>

IndicesOf(w, g) == {f \in Filter : result[w].group[f] = g}

\* A mutant: <= for the limit, when len() <= limit for a limit below it is meant.
BackloggedOneMore(w) ==
  {g \in DOMAIN queue : queue[g] # <<>> /\ Cardinality(IndicesOf(w, g)) <= GroupDuplication}

\* Groups with tasks left, for which the worker may have one more index.
Backlogged(w) ==
  {g \in DOMAIN queue : queue[g] # <<>> /\ Cardinality(IndicesOf(w, g)) < GroupDuplication}

\* Each of these groups gets an index.
FinishAssign(w) ==
  /\ phase[w] = "assign" /\ todo[w] = {}
  /\ lock' = lock \ {w}
  /\ LET more == Backlogged(w)
     IN /\ todo' = [todo EXCEPT ![w] = more]
        /\ phase' = [phase EXCEPT ![w] = IF more = {} THEN "idle" ELSE "create"]
        /\ result' = [result EXCEPT ![w] = IF more = {} THEN NoResult
                                           ELSE [NoResult EXCEPT !.group = result[w].group]]
  /\ UNCHANGED <<today, answer, checking, queue, inbox, active, sent, working, history>>

\* /index/create, with the identifier after the last one that was reported or
\* created; the worker keeps an index that is there already.
CreateIndex(w) ==
  /\ phase[w] = "create"
  /\ \E g \in todo[w], id \in Filter :
       LET used == {f \in Filter : result[w].group[f] # 0}
       IN /\ \A f \in used : f < id
          /\ id = 1 \/ id - 1 \in used
          /\ result' = [result EXCEPT ![w] =
                IF todo[w] = {g} THEN NoResult ELSE [@ EXCEPT !.group[id] = g]]
          /\ index' = [index EXCEPT ![w][id] = IF @ = 0 THEN g ELSE @]
          /\ made' = [made EXCEPT ![w][id] = IF index[w][id] = 0 THEN @ + 1 ELSE @]
          /\ todo' = [todo EXCEPT ![w] = @ \ {g}]
          /\ phase' = [phase EXCEPT ![w] = IF todo[w] = {g} THEN "idle" ELSE @]
  /\ UNCHANGED <<today, answer, checking, queue, lock, inbox, active, sent, status, swept,
                 indexed, refused, mishaps>>

\* The request fails: the next tick posts again.
PollFails(w) ==
  /\ phase[w] \in {"sent", "answered"}
  /\ Mishap("poll")
  /\ phase' = [phase EXCEPT ![w] = "idle"]
  /\ sent' = [sent EXCEPT ![w] = {}]
  /\ result' = [result EXCEPT ![w] = NoResult]
  /\ UNCHANGED <<today, answer, checking, queue, lock, inbox, active, todo,
                 working, indexed, refused, made>>

\* A response that cannot be decoded, an index that cannot be created: the
\* watcher starts again with what its worker has pending (/files/ingest-queues).
WatcherRestarts(w) ==
  /\ phase[w] \in {"answered", "create"}
  /\ Mishap("watcher")
  /\ Tell({}, {}, CallersOf({a.task : a \in active[w]}))
  /\ LET held(h) == {f \in Filter : index[w][f] # 0 /\ status[w][f][h] = "pending"}
         files == {h \in Hash : held(h) # {}}
     IN \E where \in [files -> Filter] :
          /\ \A h \in files : where[h] \in held(h)
          /\ active' = [active EXCEPT ![w] =
               {[filter |-> where[h],
                 task |-> [hash |-> h, expiry |-> index[w][where[h]], callers |-> {}]] : h \in files}]
  /\ phase' = [phase EXCEPT ![w] = "idle"]
  /\ todo' = [todo EXCEPT ![w] = {}]
  /\ result' = [result EXCEPT ![w] = NoResult]
  /\ UNCHANGED <<today, checking, queue, lock, inbox, sent, working, indexed, refused, made>>

----------------------------------------------------------------------------
(* Workers, and time *)

EndFetch(w, f, h) ==
  /\ status[w][f][h] = "fetching"
  /\ \E s \in {"fetched", "rejected"} :
       /\ status' = [status EXCEPT ![w][f][h] = s]
       /\ refused' = IF s = "rejected" THEN refused \cup {h} ELSE refused
  /\ UNCHANGED <<today, answer, checking, queue, lock, watching, index, swept, indexed, made, mishaps>>

EndIngest(w, f, h) ==
  /\ status[w][f][h] = "pending"
  /\ status' = [status EXCEPT ![w][f][h] = "ready"]
  /\ indexed' = indexed \cup {[hash |-> h, expiry |-> index[w][f]]}
  /\ UNCHANGED <<today, answer, checking, queue, lock, watching, index, swept, refused, made, mishaps>>

\* Fetch tasks and the list of rejected files are in memory; garbage is collected
\* at the start.
WorkerRestarts(w) ==
  /\ Mishap("worker")
  /\ status' = [status EXCEPT ![w] = [f \in Filter |-> [h \in Hash |->
                  IF @[f][h] \in {"fetching", "rejected"} THEN "missing" ELSE @[f][h]]]]
  /\ swept' = [swept EXCEPT ![w] = 0]
  /\ UNCHANGED <<today, answer, checking, queue, lock, watching, index, indexed, refused, made>>

\* _garbage_collector, once a day: what expired yesterday or before.  The list of
\* rejected files keeps theirs.
CollectGarbage(w) ==
  /\ swept[w] < today
  /\ swept' = [swept EXCEPT ![w] = today]
  /\ LET old == {f \in Filter : index[w][f] < today}
     IN /\ index' = [index EXCEPT ![w] = [f \in Filter |-> IF f \in old THEN 0 ELSE @[f]]]
        /\ status' = [status EXCEPT ![w] = [f \in Filter |->
                         [h \in Hash |-> IF f \in old /\ @[f][h] # "rejected" THEN "missing"
                                                                          ELSE @[f][h]]]]
  /\ UNCHANGED <<today, answer, checking, queue, lock, watching, history>>

NextDay ==
  /\ today < MaxDay
  /\ today' = today + 1
  /\ UNCHANGED <<answer, checking, queue, lock, watching, working, history>>

----------------------------------------------------------------------------
RunCheck(s) ==
  \/ StartCheck(s) \/ CollectReply(s) \/ EnqueueChecked(s)
  \/ \E w \in Worker : UpdateFiles(s, w)

RunWatcher(w) ==
  \/ Tick(w) \/ IngestFiles(w) \/ TakeResult(w)
  \/ \E f \in Filter : AssignTo(w, f)
  \/ FinishAssign(w) \/ CreateIndex(w)

RunWorker(w) ==
  CollectGarbage(w) \/ \E f \in Filter, h \in Hash : EndFetch(w, f, h) \/ EndIngest(w, f, h)

Next ==
  \/ \E k \in Caller : Ask(k)
  \/ \E s \in Slot : RunCheck(s) \/ CheckFails(s)
  \/ \E w \in Worker : \/ WatcherReceive(w) \/ RunWatcher(w) \/ RunWorker(w)
                       \/ PollFails(w) \/ WatcherRestarts(w) \/ WorkerRestarts(w)
  \/ NextDay

Spec == Init /\ [][Next]_vars

\* Tasks of the broker run, the lock is given in turn (tokio's RwLock), select!
\* takes any branch that stays ready, workers answer and end what they start.
Fairness ==
  /\ \A s \in Slot : WF_vars(RunCheck(s)) /\ SF_vars(EnqueueChecked(s))
  /\ \A w \in Worker : /\ WF_vars(RunWatcher(w))
                       /\ SF_vars(WatcherReceive(w)) /\ SF_vars(TakeResult(w))
                       /\ WF_vars(RunWorker(w))
  /\ WF_vars(NextDay)

LiveSpec == Spec /\ Fairness

----------------------------------------------------------------------------
(* Properties *)

Entry == [task : Task, filter : Filter]

\* Every variable holds a value of its kind.
TypeOK ==
  /\ today \in Day
  /\ answer \in [Caller -> {"none", "waiting", "true", "false", "lost"}]
  /\ buffer \in Seq(Task) /\ buffered \subseteq Hash
  /\ \A s \in Slot : check[s].tasks \subseteq Task /\ check[s].asked \subseteq Worker
  /\ DOMAIN queue \subseteq Group /\ \A g \in DOMAIN queue : queue[g] \in Seq(Task)
  /\ lock \subseteq Worker /\ Cardinality(lock) <= 1
  /\ inbox \in [Worker -> Seq(Entry)] /\ active \in [Worker -> SUBSET Entry]
  /\ phase \in [Worker -> {"idle", "sent", "answered", "assign", "create"}]
  /\ sent \in [Worker -> SUBSET (Filter \X Hash)]
  /\ index \in [Worker -> [Filter -> Group \cup {0}]]
  /\ status \in [Worker -> [Filter -> [Hash -> Statuses]]]
  /\ swept \in [Worker -> Day \cup {0}]
  /\ made \in [Worker -> [Filter -> Nat]]
  /\ indexed \subseteq [hash : Hash, expiry : Group] /\ refused \subseteq Hash
  /\ mishaps \in [FaultKinds -> Nat]

\* The tasks the broker holds, each with its place.
Held ==
  {<<"buffer", i, buffer[i]>> : i \in DOMAIN buffer}
    \cup (UNION {{<<"check", s, t>> : t \in check[s].tasks} : s \in Slot})
    \cup (UNION {{<<"queue", <<g, i>>, queue[g][i]>> : i \in DOMAIN queue[g]} : g \in DOMAIN queue})
    \cup (UNION {{<<"inbox", <<w, i>>, inbox[w][i].task>> : i \in DOMAIN inbox[w]} : w \in Worker})
    \cup (UNION {{<<"active", w, a.task>> : a \in active[w]} : w \in Worker})

\* A caller that waits has its channel in exactly one place, and one that has
\* its answer in none: no task is forgotten, forked or answered twice on its way
\* from task to task.
HeldOnce ==
  \A k \in Caller :
    Cardinality({p \in Held : k \in p[3].callers}) = IF answer[k] = "waiting" THEN 1 ELSE 0

\* "true" is only said of a file that was ingested, "false" only of one that
\* has expired or that a worker has rejected.
AnswersAreTrue ==
  \A k \in Caller :
    /\ answer[k] = "true" => \E d \in indexed : d.hash = k.hash
    /\ answer[k] = "false" => k.expiry <= today \/ k.hash \in refused

\* Unless something fails, a call gets lost only in a clash with another one for
\* the same file.
OnlyClashesAreLost ==
  \A k \in Caller :
    answer[k] = "lost" =>
      \/ \E kind \in FaultKinds : mishaps[kind] # 0
      \/ \E j \in Caller \ {k} : j.hash = k.hash /\ answer[j] # "none"

\* "Maximum number of filter files belonging to the same expiry group that may
\* be co-located on a single worker" (config.rs:255), although watchers decide
\* from a response that is old by the time they create.
GroupsBounded ==
  \A w \in Worker, g \in Group : Cardinality({f \in Filter : index[w][f] = g}) <= GroupDuplication

\* Every call returns.
EveryCallReturns == \A k \in Caller : answer[k] = "waiting" ~> answer[k] # "waiting"

\* "Maximum number of files that may be pending per filter file" (config.rs:252),
\* unless the identifier of an index that expired is given to a new one, which
\* late answers about the old one then fill.
PendingBounded ==
  \A w \in Worker, f \in Filter : made[w][f] <= 1 =>
    Cardinality({h \in Hash : status[w][f][h] \in {"fetching", "pending"}}) <= PendingLimit
=============================================================================
