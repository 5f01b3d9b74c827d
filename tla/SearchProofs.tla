------------------------------ MODULE SearchProofs ------------------------------
(***************************************************************************)
(* What TLAPS proves about Search: the record tells the truth about its     *)
(* hits, and one task works at a time, for all workers, indices, files,     *)
(* limits and callers, and every kind and number of failures.               *)
(***************************************************************************)
EXTENDS Search, FiniteSetTheorems, TLAPS

----------------------------------------------------------------------------
(* The inductive invariant *)

Found == File \cap Matching

Record == [exists : BOOLEAN, status : Status, version : Nat]

Has ==
  [unopened : SUBSET Worker, asked : SUBSET Worker, waiting : SUBSET Index,
   candidates : SUBSET File, batch : SUBSET File, running : SUBSET SUBSET File,
   answers : SUBSET [hits : SUBSET Found, error : BOOLEAN],
   writes : SUBSET SUBSET Found, spoiled : BOOLEAN]

Waiting == {"none", "start", "backoff", "remove", "ended"}
Working == {"connect", "filter", "yara", "select", "join", "finalize"}

TaskRecord == [pc : Waiting \cup Working, status : Status, has : Has]

Types ==
  /\ record \in Record /\ hits \subseteq Found /\ listed \in Task \cup {0}
  /\ task \in [Task -> TaskRecord]
  /\ caller \in [Caller -> [pc : {"idle", "read", "saved"}, saw : Record]]
  /\ alive \subseteq Index /\ up \in BOOLEAN
  /\ mishaps \in [Faults -> Nat]

Reached == Cardinality(hits) >= HitLimit

\* A file that index i finds is saved, or is on its way through the task.
OnItsWay(k, i, f) ==
  \/ f \in hits \/ k.has.spoiled
  \/ WorkerOf[i] \in k.has.unopened \cup k.has.asked \/ i \in k.has.waiting
  \/ f \in k.has.candidates \cup k.has.batch
  \/ f \in UNION k.has.running \/ f \in UNION k.has.writes
  \/ \E a \in k.has.answers : a.error \/ f \in a.hits

Clean(status) == ~status.errors /\ ~status.truncated

\* What is true of a task by itself: it works on a search that is not finished, its
\* phases come one after the other, and it owes no file that it does not have.
Good(k) ==
  /\ k.pc \in Working => ~k.status.finished
  /\ k.pc \in Working \ {"connect"} => k.has.unopened = {}
  /\ k.pc \in {"yara", "select", "join", "finalize"} => k.has.asked = {} /\ k.has.waiting = {}
  /\ k.pc \in {"join", "finalize"} /\ ~k.status.truncated =>
       k.has.candidates = {} /\ k.has.batch = {} /\ k.has.running = {} /\ k.has.answers = {}
  /\ k.pc = "finalize" => k.has.writes = {} /\ ~k.has.spoiled
  /\ k.status.truncated => Reached
  /\ Clean(k.status) => \A i \in alive : \A f \in Candidates[i] \cap Matching : OnItsWay(k, i, f)

TasksOK == \A t \in Task : Good(task[t])

\* A caller that has read a record knows whether it has changed.
CallersOK ==
  \A c \in Caller :
    /\ caller[c].saw.status.truncated => Reached
    /\ caller[c].pc = "read" =>
         /\ caller[c].saw.status.finished /\ caller[c].saw.version <= record.version
         /\ caller[c].saw.version = record.version => caller[c].saw = record
    /\ caller[c].pc = "saved" => ~caller[c].saw.status.finished

RecordOK == FinishedIsComplete /\ (record.status.truncated => Reached)

Saved(c) == caller[c].pc = "saved"

\* An unfinished record belongs to the caller that saved it, and then to a task.
OwnerOK ==
  Happened("lost") = 0 =>
    /\ \A t, u \in Task : Active(t) /\ Active(u) => t = u
    /\ \A c, d \in Caller : Saved(c) /\ Saved(d) => c = d
    /\ \A t \in Task, c \in Caller : ~(Active(t) /\ Saved(c))
    /\ record.status.finished \/ ~record.exists =>
         (\A t \in Task : ~Active(t)) /\ (\A c \in Caller : ~Saved(c))
    /\ \A t \in Task : Active(t) => listed \in {0, t}

DownOK == ~up => (\A t \in Task : task[t].pc = "none") /\ (\A c \in Caller : caller[c].pc = "idle")

IInv == Types /\ TasksOK /\ CallersOK /\ RecordOK /\ OwnerOK /\ DownOK

USE IndexAssumption, LimitAssumption, BoundAssumption

----------------------------------------------------------------------------
(* Files, hits, failures *)

LEMMA CandidatesAreFiles == \A i \in Index : Candidates[i] \subseteq File /\ WorkerOf[i] \in Worker
BY DEF File, Range

LEMMA FilesAreFinite == ASSUME NEW S, S \subseteq File PROVE IsFiniteSet(S) /\ Cardinality(S) \in Nat
<1>1. S \in SUBSET File
  OBVIOUS
<1> QED BY <1>1, FS_Subset, FS_CardinalityType

\* Hits are never taken back.
LEMMA ReachedStays ==
  ASSUME hits \subseteq hits', hits' \subseteq Found, Reached PROVE Reached'
<1>1. hits \in SUBSET hits' /\ hits \subseteq File /\ hits' \subseteq File
  BY DEF Found
<1>2. Cardinality(hits) <= Cardinality(hits') /\ Cardinality(hits) \in Nat /\ Cardinality(hits') \in Nat
  BY <1>1, FilesAreFinite, FS_Subset
<1> QED BY <1>2 DEF Reached

LEMMA MishapIs ==
  ASSUME IInv, NEW kind, Mishap(kind)
  PROVE  /\ mishaps' \in [Faults -> Nat]
         /\ Happened("lost")' = 0 => Happened("lost") = 0 /\ kind # "lost"
<1>1. mishaps \in [Faults -> Nat] /\ kind \in Faults /\ mishaps' = [mishaps EXCEPT ![kind] = @ + 1]
  BY DEF Mishap, IInv, Types
<1> QED BY <1>1 DEF Happened

\* That nothing worse than what k says has happened.
Calm == mishaps' \in [Faults -> Nat] /\ (Happened("lost")' = 0 => Happened("lost") = 0)

LEMMA QuietIsCalm == ASSUME IInv, Quiet \/ \E kind : Mishap(kind) PROVE Calm
BY MishapIs DEF Calm, Quiet, IInv, Types, Happened

----------------------------------------------------------------------------
(* Initially *)

LEMMA FreshIsGood ==
  ASSUME NEW pc \in Waiting \cup {"connect"}, NEW status \in Status, alive \subseteq Index,
         status.truncated => Reached, pc = "connect" => ~status.finished
  PROVE  At(pc, status) \in TaskRecord /\ Good(At(pc, status))
<1>1. Fresh \in Has
  BY DEF Fresh, Has
<1>2. At(pc, status) \in TaskRecord
  BY <1>1 DEF At, TaskRecord, Waiting, Working
<1>3. \A i \in alive : \A f \in Candidates[i] \cap Matching : OnItsWay(At(pc, status), i, f)
  BY CandidatesAreFiles DEF OnItsWay, At, Fresh
<1> QED BY <1>2, <1>3 DEF Good, At, Waiting, Working

LEMMA InitInv == Init => IInv
<1> SUFFICES ASSUME Init PROVE IInv
  OBVIOUS
<1>1. NewStatus \in Status /\ ~NewStatus.truncated /\ ~NewStatus.finished
  BY DEF NewStatus, Status
<1>2. At("none", NewStatus) \in TaskRecord /\ Good(At("none", NewStatus))
  BY <1>1, FreshIsGood DEF Init, Waiting
<1>3. record \in Record /\ record.status = NewStatus /\ ~record.exists
  BY <1>1 DEF Init, Record
<1>4. Types /\ TasksOK
  BY <1>2, <1>3 DEF Init, Types, TasksOK, Found
<1>5. CallersOK /\ RecordOK
  BY <1>1, <1>3 DEF Init, CallersOK, RecordOK, FinishedIsComplete
<1>6. OwnerOK /\ DownOK
  BY <1>1, <1>3 DEF Init, OwnerOK, DownOK, Active, At, Saved
<1> QED BY <1>4, <1>5, <1>6 DEF IInv

----------------------------------------------------------------------------
(* A step of a task that changes nothing but its own record *)

LEMMA TaskIs ==
  ASSUME IInv, NEW t \in Task
  PROVE  /\ task[t] \in TaskRecord /\ task[t].has \in Has /\ task[t].status \in Status /\ Good(task[t])
BY DEF IInv, Types, TasksOK, TaskRecord

LEMMA HasIs ==
  ASSUME IInv, NEW t \in Task
  PROVE  LET h == task[t].has IN
         /\ h.unopened \in SUBSET Worker /\ h.asked \in SUBSET Worker /\ h.waiting \in SUBSET Index
         /\ h.candidates \in SUBSET File /\ h.batch \in SUBSET File
         /\ h.running \in SUBSET SUBSET File /\ h.writes \in SUBSET SUBSET Found
         /\ h.answers \in SUBSET [hits : SUBSET Found, error : BOOLEAN] /\ h.spoiled \in BOOLEAN
BY TaskIs DEF Has

Works(k) == k.pc \notin {"none", "ended", "remove"} /\ ~k.status.finished

LEMMA TaskStep ==
  ASSUME IInv, NEW t \in Task, NEW k \in TaskRecord, Step(t, k), Calm,
         Good(k), Works(k) => Active(t), task[t].pc = "none" => k.pc = "none"
  PROVE  IInv'
<1>1. /\ task' = [task EXCEPT ![t] = k]
      /\ UNCHANGED <<record, hits, listed, caller, up, alive>>
  BY DEF Step, stored
<1>2. /\ task'[t] = k /\ \A u \in Task \ {t} : task'[u] = task[u]
      /\ task' \in [Task -> TaskRecord]
  BY <1>1 DEF IInv, Types
<1>3. Types'
  BY <1>1, <1>2 DEF IInv, Types, Calm
<1>4. TasksOK'
  BY <1>1, <1>2 DEF IInv, TasksOK, Good, OnItsWay, Reached
<1>5. CallersOK' /\ RecordOK'
  BY <1>1 DEF IInv, CallersOK, RecordOK, FinishedIsComplete, Reached
<1>6. \A u \in Task : Active(u)' => Active(u)
  BY <1>2 DEF Active, Works
<1>7. OwnerOK'
  BY <1>1, <1>6 DEF IInv, OwnerOK, Calm, Saved
<1>8. DownOK'
  BY <1>1, <1>2 DEF IInv, DownOK
<1> QED BY <1>3, <1>4, <1>5, <1>7, <1>8 DEF IInv

\* A task that starts over keeps its status.
LEMMA StartsOver ==
  ASSUME IInv, NEW t \in Task, NEW pc \in Waiting \cup {"connect"}, Step(t, At(pc, task[t].status)), Calm,
         task[t].pc # "none", pc = "connect" => ~task[t].status.finished,
         task[t].pc \in {"ended", "remove"} => pc \in {"ended", "remove"}
  PROVE  IInv'
<1> DEFINE k == At(pc, task[t].status)
<1>1. k \in TaskRecord /\ Good(k)
  BY TaskIs, FreshIsGood DEF Good, IInv, Types
<1>2. Works(k) => Active(t)
  BY DEF Works, Active, At
<1> QED BY <1>1, <1>2, TaskStep

LEMMA StartInv == ASSUME IInv, NEW t \in Task, Start(t) PROVE IInv'
<1>1. Calm /\ task[t].pc = "start"
  BY QuietIsCalm DEF Start
<1>2. CASE task[t].status.finished
  <2>1. Step(t, At("ended", task[t].status))
    BY <1>2 DEF Start
  <2> QED BY <1>1, <2>1, StartsOver DEF Waiting
<1>3. CASE ~task[t].status.finished
  <2>1. Step(t, At("connect", task[t].status))
    BY <1>3 DEF Start
  <2> QED BY <1>1, <1>3, <2>1, StartsOver DEF Waiting
<1> QED BY <1>2, <1>3

LEMMA RetryInv ==
  ASSUME IInv, NEW t \in Task, Retry(t) \/ Fails(t) \/ NobodyListens(t)
  PROVE  IInv'
<1>1. Calm
  BY QuietIsCalm DEF Retry, Fails, NobodyListens
<1>2. PICK pc \in {"start", "backoff"} : Step(t, At(pc, task[t].status))
  BY DEF Retry, Fails, NobodyListens, Backoff
<1>3. task[t].pc \notin {"none", "ended", "remove"}
  BY DEF Retry, Fails, NobodyListens
<1> QED BY <1>1, <1>2, <1>3, StartsOver DEF Waiting

LEMMA ConnectInv == ASSUME IInv, NEW t \in Task, NEW w \in Worker, Connect(t, w) PROVE IInv'
<1> DEFINE rest == task[t].has.unopened \ {w}
           h == [task[t].has EXCEPT !.unopened = rest, !.asked = @ \cup {w}]
           k == [task[t] EXCEPT !.has.unopened = rest, !.has.asked = @ \cup {w},
                                !.pc = IF rest = {} THEN "filter" ELSE @]
<1>1. Calm /\ task[t].pc = "connect" /\ Step(t, k)
  BY QuietIsCalm DEF Connect
<1>2. h \in Has
  <2>1. rest \in SUBSET Worker /\ task[t].has.asked \cup {w} \in SUBSET Worker /\ task[t].has \in Has
    BY HasIs, TaskIs
  <2> QED BY <2>1 DEF Has
<1>3. /\ h.unopened = rest /\ h.asked = task[t].has.asked \cup {w}
      /\ h.waiting = task[t].has.waiting /\ h.candidates = task[t].has.candidates
      /\ h.batch = task[t].has.batch /\ h.running = task[t].has.running
      /\ h.answers = task[t].has.answers /\ h.writes = task[t].has.writes
      /\ h.spoiled = task[t].has.spoiled
  BY TaskIs DEF Has
<1>4. /\ k.pc = IF rest = {} THEN "filter" ELSE "connect"
      /\ k.status = task[t].status /\ k.has = h
  BY <1>1, TaskIs DEF TaskRecord, Has
<1>5. k \in TaskRecord
  BY <1>1, <1>2, <1>4, TaskIs DEF TaskRecord, Working
<1> HIDE DEF h, k
<1>6. ASSUME NEW i, NEW f, OnItsWay(task[t], i, f) PROVE OnItsWay(k, i, f)
  BY <1>3, <1>4, <1>6 DEF OnItsWay
<1>7. Good(k)
  BY <1>1, <1>3, <1>4, <1>6, TaskIs DEF Good, Working
<1>8. Works(k) => Active(t)
  BY <1>1, <1>4 DEF Works, Active
<1> QED BY <1>1, <1>5, <1>7, <1>8, TaskStep

LEMMA ListFiltersInv == ASSUME IInv, NEW t \in Task, NEW w \in Worker, ListFilters(t, w) PROVE IInv'
<1> DEFINE new == {i \in alive : WorkerOf[i] = w}
           h == [task[t].has EXCEPT !.asked = @ \ {w}, !.waiting = @ \cup new]
           k == [task[t] EXCEPT !.has.asked = @ \ {w}, !.has.waiting = @ \cup new]
<1>1. Calm /\ w \in task[t].has.asked /\ Step(t, k)
  BY QuietIsCalm DEF ListFilters
<1>2. h \in Has
  <2>1. task[t].has.asked \ {w} \in SUBSET Worker /\ task[t].has.waiting \cup new \in SUBSET Index
    BY HasIs DEF IInv, Types
  <2>2. task[t].has \in Has
    BY TaskIs
  <2> QED BY <2>1, <2>2 DEF Has
<1>3. /\ h.unopened = task[t].has.unopened /\ h.asked = task[t].has.asked \ {w}
      /\ h.waiting = task[t].has.waiting \cup new /\ h.candidates = task[t].has.candidates
      /\ h.batch = task[t].has.batch /\ h.running = task[t].has.running
      /\ h.answers = task[t].has.answers /\ h.writes = task[t].has.writes
      /\ h.spoiled = task[t].has.spoiled
  BY TaskIs DEF Has
<1>4. k.pc = task[t].pc /\ k.status = task[t].status /\ k.has = h
  BY <1>1, TaskIs DEF TaskRecord, Has
<1>5. k \in TaskRecord
  BY <1>1, <1>2, <1>4, TaskIs DEF TaskRecord
<1> HIDE DEF h, k
<1>6. ASSUME NEW i \in alive, NEW f, OnItsWay(task[t], i, f) PROVE OnItsWay(k, i, f)
  BY <1>3, <1>4, <1>6 DEF OnItsWay
<1>7. Good(k)
  BY <1>1, <1>3, <1>4, <1>6, TaskIs DEF Good
<1>8. Works(k) => Active(t)
  BY <1>4 DEF Works, Active
<1> QED BY <1>1, <1>4, <1>5, <1>7, <1>8, TaskStep

LEMMA AnswerInv == ASSUME IInv, NEW t \in Task, NEW i \in Index, Answer(t, i) PROVE IInv'
<1> DEFINE all == Insert(task[t].has.candidates, QueryFilter(i))
           h == [task[t].has EXCEPT !.waiting = @ \ {i}, !.candidates = all]
           k == [task[t] EXCEPT !.has.waiting = @ \ {i}, !.has.candidates = Insert(@, QueryFilter(i))]
<1>1. Calm /\ i \in task[t].has.waiting /\ Step(t, k)
  BY QuietIsCalm DEF Answer
<1>2. h \in Has
  <2>1. task[t].has.waiting \ {i} \in SUBSET Index /\ all \in SUBSET File
    BY HasIs, CandidatesAreFiles DEF Insert, QueryFilter
  <2>2. task[t].has \in Has
    BY TaskIs
  <2> HIDE DEF all
  <2> QED BY <2>1, <2>2 DEF Has
<1>3. /\ h.unopened = task[t].has.unopened /\ h.asked = task[t].has.asked
      /\ h.waiting = task[t].has.waiting \ {i} /\ h.candidates = all
      /\ h.batch = task[t].has.batch /\ h.running = task[t].has.running
      /\ h.answers = task[t].has.answers /\ h.writes = task[t].has.writes
      /\ h.spoiled = task[t].has.spoiled
  BY TaskIs DEF Has
<1>4. k.pc = task[t].pc /\ k.status = task[t].status /\ k.has = h
  BY <1>1, TaskIs DEF TaskRecord, Has
<1>5. k \in TaskRecord
  BY <1>1, <1>2, <1>4, TaskIs DEF TaskRecord
<1> HIDE DEF h, k
<1>6. ASSUME NEW j \in alive, NEW f \in Candidates[j], OnItsWay(task[t], j, f)
      PROVE  OnItsWay(k, j, f)
  BY <1>3, <1>4, <1>6 DEF OnItsWay, Insert, QueryFilter
<1>7. Good(k)
  BY <1>1, <1>3, <1>4, <1>6, TaskIs DEF Good
<1>8. Works(k) => Active(t)
  BY <1>4 DEF Works, Active
<1> QED BY <1>1, <1>4, <1>5, <1>7, <1>8, TaskStep

\* A task whose answers do not come keeps the error, and owes nothing any more.
LEMMA ErrorIsGood ==
  ASSUME IInv, NEW t \in Task, NEW asked \in SUBSET Worker, NEW waiting \in SUBSET Index, Calm,
         asked \subseteq task[t].has.asked, waiting \subseteq task[t].has.waiting,
         Step(t, [task[t] EXCEPT !.has.asked = asked, !.has.waiting = waiting, !.status.errors = TRUE])
  PROVE  IInv'
<1> DEFINE h == [task[t].has EXCEPT !.asked = asked, !.waiting = waiting]
           k == [task[t] EXCEPT !.has.asked = asked, !.has.waiting = waiting, !.status.errors = TRUE]
<1>1. task[t].has \in Has /\ h \in Has
  <2>1. task[t].has \in Has
    BY TaskIs
  <2> QED BY <2>1 DEF Has
<1>2. /\ h.unopened = task[t].has.unopened /\ h.asked = asked
      /\ h.waiting = waiting /\ h.candidates = task[t].has.candidates
      /\ h.batch = task[t].has.batch /\ h.running = task[t].has.running
      /\ h.answers = task[t].has.answers /\ h.writes = task[t].has.writes
      /\ h.spoiled = task[t].has.spoiled
  BY TaskIs DEF Has
<1>3. k.pc = task[t].pc /\ k.status = [task[t].status EXCEPT !.errors = TRUE] /\ k.has = h
  BY TaskIs DEF TaskRecord, Has
<1>4. /\ k.status \in Status /\ k.status.errors /\ k.status.finished = task[t].status.finished
      /\ k.status.truncated = task[t].status.truncated
  <2>1. task[t].status \in Status
    BY TaskIs
  <2> HIDE DEF k
  <2> QED BY <1>3, <2>1 DEF Status
<1>5. k \in TaskRecord
  BY <1>1, <1>3, <1>4, TaskIs DEF TaskRecord
<1>6. Step(t, k)
  OBVIOUS
<1> HIDE DEF h, k
<1>7. Good(k)
  BY <1>2, <1>3, <1>4, TaskIs DEF Good, Clean
<1>8. Works(k) => Active(t)
  BY <1>3, <1>4 DEF Works, Active
<1> QED BY <1>3, <1>5, <1>6, <1>7, <1>8, TaskStep

LEMMA AnswerFailsInv ==
  ASSUME IInv, NEW t \in Task, NEW i \in Index, AnswerFails(t, i) PROVE IInv'
<1> DEFINE rest == task[t].has.waiting \ {i}
<1>1. Calm /\ Step(t, [task[t] EXCEPT !.has.waiting = rest, !.status.errors = TRUE])
  BY QuietIsCalm DEF AnswerFails
<1>2. [task[t] EXCEPT !.has.waiting = rest, !.status.errors = TRUE]
        = [task[t] EXCEPT !.has.asked = task[t].has.asked, !.has.waiting = rest, !.status.errors = TRUE]
  BY TaskIs DEF TaskRecord, Has
<1>3. rest \in SUBSET Index /\ rest \subseteq task[t].has.waiting /\ task[t].has.asked \in SUBSET Worker
  BY HasIs
<1> HIDE DEF rest
<1> QED BY <1>1, <1>2, <1>3, ErrorIsGood

LEMMA SocketBreaksInv ==
  ASSUME IInv, NEW t \in Task, NEW w \in Worker, SocketBreaks(t, w) PROVE IInv'
<1> DEFINE asked == task[t].has.asked \ {w}
           waiting == {i \in task[t].has.waiting : WorkerOf[i] # w}
<1>1. Calm /\ Step(t, [task[t] EXCEPT !.has.asked = asked, !.status.errors = TRUE, !.has.waiting = waiting])
  BY QuietIsCalm DEF SocketBreaks
<1>2. [task[t] EXCEPT !.has.asked = asked, !.status.errors = TRUE, !.has.waiting = waiting]
        = [task[t] EXCEPT !.has.asked = asked, !.has.waiting = waiting, !.status.errors = TRUE]
  BY TaskIs DEF TaskRecord, Has
<1>3. /\ asked \in SUBSET Worker /\ asked \subseteq task[t].has.asked
      /\ waiting \in SUBSET Index /\ waiting \subseteq task[t].has.waiting
  BY HasIs
<1> HIDE DEF asked, waiting
<1> QED BY <1>1, <1>2, <1>3, ErrorIsGood

LEMMA FilterDoneInv == ASSUME IInv, NEW t \in Task, FilterDone(t) PROVE IInv'
<1> DEFINE k == [task[t] EXCEPT !.pc = "yara"]
<1>1. /\ Calm /\ Step(t, k) /\ task[t].pc = "filter"
      /\ task[t].has.asked = {} /\ task[t].has.waiting = {}
  BY QuietIsCalm DEF FilterDone, Goes
<1>2. k.pc = "yara" /\ k.status = task[t].status /\ k.has = task[t].has
  BY <1>1, TaskIs DEF TaskRecord
<1>3. k \in TaskRecord
  BY <1>1, TaskIs DEF TaskRecord, Working
<1>4. Good(k)
  BY <1>1, <1>2, TaskIs DEF Good, Working, OnItsWay
<1>5. Works(k) => Active(t)
  BY <1>1, <1>2 DEF Works, Active
<1> QED BY <1>1, <1>2, <1>3, <1>4, <1>5, TaskStep

----------------------------------------------------------------------------
(* Yara, and the hits *)

\* A batch that is empty has been taken from nothing.
LEMMA BatchIs ==
  ASSUME NEW S \in SUBSET File, NEW b \in PopBatch(S)
  PROVE  b \subseteq S /\ (b = {} => S = {})
<1>1. b \in SUBSET S /\ Cardinality(b) = IF Cardinality(S) < Batch THEN Cardinality(S) ELSE Batch
  BY DEF PopBatch, kSubset
<1>2. Cardinality({}) = 0 /\ IsFiniteSet(S) /\ (Cardinality(S) = 0 => S = {})
  BY FilesAreFinite, FS_EmptySet
<1>3. Batch \in Nat \ {0}
  OBVIOUS
<1> QED BY <1>1, <1>2, <1>3

LEMMA LoopInv == ASSUME IInv, NEW t \in Task, Loop(t) PROVE IInv'
<1> DEFINE g == task[t].has
           from == IF g.batch # {} THEN {g.batch} ELSE PopBatch(g.candidates)
           popped(b) == [g EXCEPT !.batch = b, !.candidates = @ \ b]
           cut(b) == [task[t] EXCEPT !.pc = "join", !.status.truncated = TRUE,
                        !.has = [popped(b) EXCEPT !.running = {}, !.answers = {}]]
           go(b) == [task[t] EXCEPT !.pc = "select", !.has = popped(b)]
<1>1. Calm /\ task[t].pc = "yara"
  BY QuietIsCalm DEF Loop
<1>2. PICK b \in from : Step(t, IF b = {} /\ g.running = {} /\ g.answers = {} THEN Goes(t, "join")
                                ELSE IF CountHits >= HitLimit THEN cut(b) ELSE go(b))
  BY Zenon DEF Loop
<1>3. /\ b \in SUBSET File /\ g.batch \cup g.candidates \subseteq b \cup (g.candidates \ b)
      /\ b = {} => g.batch = {} /\ g.candidates = {}
  BY HasIs, BatchIs
<1>4. /\ task[t] \in TaskRecord /\ g \in Has /\ task[t].status \in Status /\ Good(task[t])
      /\ g.asked = {} /\ g.waiting = {} /\ g.unopened = {} /\ ~task[t].status.finished
  BY <1>1, TaskIs DEF Good, Working
<1>5. CASE b = {} /\ g.running = {} /\ g.answers = {}
  <2> DEFINE k == [task[t] EXCEPT !.pc = "join"]
  <2>1. Step(t, k)
    BY <1>2, <1>5 DEF Goes
  <2>2. k.pc = "join" /\ k.status = task[t].status /\ k.has = g /\ k \in TaskRecord
    BY <1>4 DEF TaskRecord, Working
  <2>3. Good(k)
    BY <1>1, <1>3, <1>4, <1>5, <2>2 DEF Good, OnItsWay
  <2>4. Works(k) => Active(t)
    BY <1>1, <2>2 DEF Works, Active
  <2> QED BY <1>1, <2>1, <2>2, <2>3, <2>4, TaskStep
<1>6. CASE ~(b = {} /\ g.running = {} /\ g.answers = {}) /\ CountHits >= HitLimit
  <2> DEFINE h == [popped(b) EXCEPT !.running = {}, !.answers = {}]
             k == cut(b)
  <2>1. Step(t, k)
    BY <1>2, <1>6
  <2>2. /\ h \in Has /\ h.unopened = {} /\ h.asked = {} /\ h.waiting = {}
    <3>1. g.candidates \ b \in SUBSET File
      BY HasIs
    <3> QED BY <1>3, <1>4, <3>1 DEF Has
  <2>3. k.pc = "join" /\ k.status = [task[t].status EXCEPT !.truncated = TRUE] /\ k.has = h
    BY <1>4 DEF TaskRecord
  <2> HIDE DEF k, h
  <2>4. k.status \in Status /\ k.status.truncated /\ k.status.finished = task[t].status.finished
    BY <1>4, <2>3 DEF Status
  <2>5. k \in TaskRecord
    <3> USE DEF k
    <3> QED BY <1>4, <2>2, <2>3, <2>4 DEF TaskRecord, Working
  <2>6. Good(k)
    BY <1>4, <1>6, <2>2, <2>3, <2>4 DEF Good, Clean, Reached, CountHits
  <2>7. Works(k) => Active(t)
    BY <1>1, <1>4 DEF Active
  <2> QED BY <1>1, <2>1, <2>5, <2>6, <2>7, TaskStep
<1>7. CASE ~(b = {} /\ g.running = {} /\ g.answers = {}) /\ ~(CountHits >= HitLimit)
  <2> DEFINE h == popped(b)
             k == go(b)
  <2>1. Step(t, k)
    BY <1>2, <1>7
  <2>2. g.candidates \ b \in SUBSET File
    BY HasIs
  <2>3. h \in Has
    BY <1>3, <1>4, <2>2 DEF Has
  <2>4. /\ h.unopened = {} /\ h.asked = {} /\ h.waiting = {} /\ h.batch = b
        /\ h.candidates = g.candidates \ b /\ h.running = g.running
        /\ h.answers = g.answers /\ h.writes = g.writes /\ h.spoiled = g.spoiled
    BY <1>4 DEF Has
  <2>5. k.pc = "select" /\ k.status = task[t].status /\ k.has = h
    BY <1>4 DEF TaskRecord
  <2>6. k \in TaskRecord
    BY <1>4, <2>3, <2>5 DEF TaskRecord, Working
  <2> HIDE DEF k, h
  <2>7. ASSUME NEW i, NEW f, OnItsWay(task[t], i, f) PROVE OnItsWay(k, i, f)
    BY <1>3, <1>4, <2>4, <2>5, <2>7 DEF OnItsWay
  <2>8. Good(k)
    BY <1>1, <1>4, <2>4, <2>5, <2>7 DEF Good
  <2>9. Works(k) => Active(t)
    BY <1>1, <1>4 DEF Active
  <2> QED BY <1>1, <2>1, <2>6, <2>8, <2>9, TaskStep
<1> QED BY <1>5, <1>6, <1>7

LEMMA DispatchInv == ASSUME IInv, NEW t \in Task, Dispatch(t) PROVE IInv'
<1> DEFINE g == task[t].has
           all == g.running \cup {g.batch}
           h == [g EXCEPT !.batch = {}, !.running = all]
           k == [task[t] EXCEPT !.pc = "yara", !.has.batch = {},
                                !.has.running = @ \cup {task[t].has.batch}]
<1>1. Calm /\ task[t].pc = "select" /\ Step(t, k)
  BY QuietIsCalm DEF Dispatch
<1>2. all \in SUBSET SUBSET File /\ task[t] \in TaskRecord /\ g \in Has /\ Good(task[t])
  BY HasIs, TaskIs
<1>3. h \in Has
  <2> HIDE DEF all
  <2> QED BY <1>2 DEF Has
<1>4. /\ h.unopened = g.unopened /\ h.asked = g.asked /\ h.waiting = g.waiting /\ h.batch = {}
      /\ h.candidates = g.candidates /\ h.running = g.running \cup {g.batch}
      /\ h.answers = g.answers /\ h.writes = g.writes /\ h.spoiled = g.spoiled
  BY <1>2 DEF Has
<1>5. k.pc = "yara" /\ k.status = task[t].status /\ k.has = h
  BY <1>2 DEF TaskRecord, Has
<1>6. k \in TaskRecord
  BY <1>2, <1>3, <1>5 DEF TaskRecord, Working
<1> HIDE DEF h, k
<1>7. ASSUME NEW i, NEW f, OnItsWay(task[t], i, f) PROVE OnItsWay(k, i, f)
  BY <1>4, <1>5, <1>7 DEF OnItsWay
<1>8. Good(k)
  BY <1>1, <1>2, <1>4, <1>5, <1>7 DEF Good, Working
<1>9. Works(k) => Active(t)
  BY <1>1, <1>5 DEF Works, Active
<1> QED BY <1>1, <1>6, <1>8, <1>9, TaskStep

LEMMA RunYaraInv ==
  ASSUME IInv, NEW t \in Task, NEW b \in task[t].has.running, RunYara(t, b) \/ YaraFails(t, b)
  PROVE  IInv'
<1> DEFINE g == task[t].has
           h(a) == [g EXCEPT !.running = @ \ {b}, !.answers = @ \cup {a}]
           k(a) == [task[t] EXCEPT !.has.running = @ \ {b}, !.has.answers = @ \cup {a}]
<1>1. Calm
  BY QuietIsCalm DEF RunYara, YaraFails
<1>2. task[t] \in TaskRecord /\ g \in Has /\ Good(task[t]) /\ b \in SUBSET File
  BY HasIs, TaskIs
<1>3. PICK found \in SUBSET (b \cap Matching), error \in BOOLEAN :
        /\ Step(t, k([hits |-> found, error |-> error]))
        /\ ~error => found = b \cap Matching
  <2>1. CASE RunYara(t, b)
    <3> WITNESS b \cap Matching \in SUBSET (b \cap Matching), FALSE \in BOOLEAN
    <3> QED BY <2>1 DEF RunYara
  <2>2. CASE YaraFails(t, b)
    BY <2>2 DEF YaraFails
  <2> QED BY <2>1, <2>2
<1> DEFINE a == [hits |-> found, error |-> error]
<1>4. a \in [hits : SUBSET Found, error : BOOLEAN] /\ (~a.error => a.hits = b \cap Matching)
  BY <1>2, <1>3 DEF Found
<1>5. Step(t, k(a))
  BY <1>3
<1> HIDE DEF a
<1>6. h(a) \in Has
  <2>1. g.running \ {b} \in SUBSET SUBSET File
        /\ g.answers \cup {a} \in SUBSET [hits : SUBSET Found, error : BOOLEAN]
    BY <1>4, HasIs
  <2> QED BY <1>2, <2>1 DEF Has
<1>7. /\ h(a).unopened = g.unopened /\ h(a).asked = g.asked /\ h(a).waiting = g.waiting
      /\ h(a).batch = g.batch /\ h(a).candidates = g.candidates /\ h(a).running = g.running \ {b}
      /\ h(a).answers = g.answers \cup {a} /\ h(a).writes = g.writes /\ h(a).spoiled = g.spoiled
  BY <1>2 DEF Has
<1>8. k(a).pc = task[t].pc /\ k(a).status = task[t].status /\ k(a).has = h(a)
  BY <1>2 DEF TaskRecord, Has
<1>9. k(a) \in TaskRecord
  BY <1>2, <1>6, <1>8 DEF TaskRecord
<1> HIDE DEF h, k
<1>10. ASSUME NEW i, NEW f \in Matching, OnItsWay(task[t], i, f) PROVE OnItsWay(k(a), i, f)
  BY <1>4, <1>7, <1>8, <1>10 DEF OnItsWay
<1>11. Good(k(a))
  BY <1>2, <1>7, <1>8, <1>10 DEF Good
<1>12. Works(k(a)) => Active(t)
  BY <1>8 DEF Works, Active
<1> QED BY <1>1, <1>5, <1>8, <1>9, <1>11, <1>12, TaskStep

LEMMA CollectInv ==
  ASSUME IInv, NEW t \in Task, NEW a \in task[t].has.answers, Collect(t, a) PROVE IInv'
<1> DEFINE g == task[t].has
           left == g.answers \ {a}
           all == g.writes \cup ({a.hits} \ {{}})
           h == [g EXCEPT !.answers = left, !.writes = all]
           k == [task[t] EXCEPT !.pc = "yara", !.has.answers = @ \ {a},
                  !.has.writes = @ \cup ({a.hits} \ {{}}), !.status.errors = @ \/ a.error]
<1>1. Calm /\ task[t].pc = "select" /\ Step(t, k)
  BY QuietIsCalm DEF Collect
<1>2. /\ task[t] \in TaskRecord /\ g \in Has /\ Good(task[t]) /\ task[t].status \in Status
      /\ a \in [hits : SUBSET Found, error : BOOLEAN]
  BY HasIs, TaskIs
<1>3. h \in Has
  <2>1. left \in SUBSET [hits : SUBSET Found, error : BOOLEAN] /\ all \in SUBSET SUBSET Found
    BY <1>2, HasIs
  <2> HIDE DEF left, all
  <2> QED BY <1>2, <2>1 DEF Has
<1>4. /\ h.unopened = g.unopened /\ h.asked = g.asked /\ h.waiting = g.waiting
      /\ h.batch = g.batch /\ h.candidates = g.candidates /\ h.running = g.running
      /\ h.answers = left /\ h.writes = all /\ h.spoiled = g.spoiled
  BY <1>2 DEF Has
<1>5. k.pc = "yara" /\ k.status = [task[t].status EXCEPT !.errors = @ \/ a.error] /\ k.has = h
  BY <1>2 DEF TaskRecord, Has
<1>6. /\ k.status \in Status /\ k.status.finished = task[t].status.finished
      /\ k.status.truncated = task[t].status.truncated
      /\ k.status.errors = (task[t].status.errors \/ a.error)
  <2> HIDE DEF k
  <2> QED BY <1>2, <1>5 DEF Status
<1>7. k \in TaskRecord
  BY <1>2, <1>3, <1>5, <1>6 DEF TaskRecord, Working
<1> HIDE DEF h, k
<1>8. ASSUME NEW i, NEW f, OnItsWay(task[t], i, f), ~a.error PROVE OnItsWay(k, i, f)
  <2>1. CASE f \in a.hits
    <3>1. a.hits \in all
      BY <2>1
    <3> QED BY <1>4, <1>5, <2>1, <3>1 DEF OnItsWay
  <2>2. CASE f \notin a.hits
    <3>1. UNION g.writes \subseteq UNION all
      OBVIOUS
    <3>2. \A c \in g.answers : c.error \/ f \in c.hits => c \in left
      BY <1>8, <2>2
    <3> HIDE DEF left, all
    <3> QED BY <1>4, <1>5, <1>8, <3>1, <3>2 DEF OnItsWay
  <2> QED BY <2>1, <2>2
<1>9. Good(k)
  BY <1>1, <1>2, <1>4, <1>5, <1>6, <1>8 DEF Good, Working, Clean
<1>10. Works(k) => Active(t)
  BY <1>1, <1>5, <1>6 DEF Works, Active
<1> QED BY <1>1, <1>7, <1>9, <1>10, TaskStep

LEMMA WriteRefusedInv ==
  ASSUME IInv, NEW t \in Task, NEW found \in task[t].has.writes, WriteRefused(t, found) PROVE IInv'
<1> DEFINE g == task[t].has
           left == g.writes \ {found}
           h == [g EXCEPT !.writes = left, !.spoiled = TRUE]
           k == [task[t] EXCEPT !.has.writes = @ \ {found}, !.has.spoiled = TRUE]
<1>1. Calm /\ Step(t, k)
  BY QuietIsCalm DEF WriteRefused
<1>2. task[t] \in TaskRecord /\ g \in Has /\ Good(task[t]) /\ left \in SUBSET SUBSET Found
  BY HasIs, TaskIs
<1>3. h \in Has
  <2> HIDE DEF left
  <2> QED BY <1>2 DEF Has
<1>4. /\ h.unopened = g.unopened /\ h.asked = g.asked /\ h.waiting = g.waiting
      /\ h.batch = g.batch /\ h.candidates = g.candidates /\ h.running = g.running
      /\ h.answers = g.answers /\ h.writes = left /\ h.spoiled
  BY <1>2 DEF Has
<1>5. k.pc = task[t].pc /\ k.status = task[t].status /\ k.has = h
  BY <1>2 DEF TaskRecord, Has
<1>6. k \in TaskRecord
  BY <1>2, <1>3, <1>5 DEF TaskRecord
<1> HIDE DEF h, k
<1>7. Good(k)
  BY <1>2, <1>4, <1>5 DEF Good, OnItsWay
<1>8. Works(k) => Active(t)
  BY <1>5 DEF Works, Active
<1> QED BY <1>1, <1>5, <1>6, <1>7, <1>8, TaskStep

LEMMA JoinInv == ASSUME IInv, NEW t \in Task, Join(t) PROVE IInv'
<1>1. Calm /\ task[t].pc = "join"
  BY QuietIsCalm DEF Join
<1>2. CASE task[t].has.spoiled
  BY <1>1, <1>2, StartsOver DEF Join, Backoff, Waiting
<1>3. CASE ~task[t].has.spoiled
  <2> DEFINE k == [task[t] EXCEPT !.pc = "finalize"]
  <2>1. Step(t, k) /\ task[t].has.writes = {}
    BY <1>3 DEF Join, Goes
  <2>2. k.pc = "finalize" /\ k.status = task[t].status /\ k.has = task[t].has /\ k \in TaskRecord
    BY TaskIs DEF TaskRecord, Working
  <2>3. Good(k)
    BY <1>1, <1>3, <2>1, <2>2, TaskIs DEF Good, Working, OnItsWay
  <2>4. Works(k) => Active(t)
    BY <1>1, <2>2 DEF Works, Active
  <2> QED BY <1>1, <2>1, <2>2, <2>3, <2>4, TaskStep
<1> QED BY <1>2, <1>3

LEMMA FinalIs ==
  ASSUME IInv, NEW t \in Task
  PROVE  /\ Final(t) \in Status /\ Final(t).finished /\ Final(t).truncated = task[t].status.truncated
         /\ Final(t).errors = task[t].status.errors /\ (Final(t).truncated => Reached)
<1>1. task[t].status \in Status /\ (task[t].status.truncated => Reached)
  BY TaskIs DEF Good
<1> QED BY <1>1 DEF Final, Status

LEMMA FinalizeRefusedInv == ASSUME IInv, NEW t \in Task, FinalizeRefused(t) PROVE IInv'
<1> DEFINE k == At("backoff", Final(t))
<1>1. Calm /\ task[t].pc = "finalize" /\ Step(t, k)
  BY QuietIsCalm DEF FinalizeRefused
<1>2. k \in TaskRecord /\ Good(k)
  BY FinalIs, FreshIsGood DEF Waiting, IInv, Types
<1>3. ~Works(k)
  BY FinalIs DEF Works, At
<1> QED BY <1>1, <1>2, <1>3, TaskStep

LEMMA WriteHitsInv ==
  ASSUME IInv, NEW t \in Task, NEW found \in task[t].has.writes, WriteHits(t, found) PROVE IInv'
<1> DEFINE g == task[t].has
           left == g.writes \ {found}
           h == [g EXCEPT !.writes = left]
           k == [task[t] EXCEPT !.has.writes = @ \ {found}]
<1>1. /\ task' = [task EXCEPT ![t] = k] /\ hits' = hits \cup found
      /\ UNCHANGED <<record, listed, caller, up, alive, mishaps>>
  BY DEF WriteHits
<1>2. /\ task[t] \in TaskRecord /\ g \in Has /\ Good(task[t]) /\ left \in SUBSET SUBSET Found
      /\ found \in SUBSET Found
  BY HasIs, TaskIs
<1>3. h \in Has
  <2> HIDE DEF left
  <2> QED BY <1>2 DEF Has
<1>4. /\ h.unopened = g.unopened /\ h.asked = g.asked /\ h.waiting = g.waiting
      /\ h.batch = g.batch /\ h.candidates = g.candidates /\ h.running = g.running
      /\ h.answers = g.answers /\ h.writes = left /\ h.spoiled = g.spoiled
  BY <1>2 DEF Has
<1>5. k.pc = task[t].pc /\ k.status = task[t].status /\ k.has = h
  BY <1>2 DEF TaskRecord, Has
<1>6. k \in TaskRecord
  BY <1>2, <1>3, <1>5 DEF TaskRecord
<1> HIDE DEF h, k
<1>7. task' \in [Task -> TaskRecord] /\ task'[t] = k /\ \A u \in Task \ {t} : task'[u] = task[u]
  BY <1>1, <1>6 DEF IInv, Types
<1>8. hits \subseteq hits' /\ hits' \subseteq Found /\ (Reached => Reached')
  BY <1>1, <1>2, ReachedStays DEF IInv, Types
<1>9. Types'
  BY <1>1, <1>7, <1>8 DEF IInv, Types
<1>10. TasksOK'
  <2>1. ASSUME NEW i, NEW f, OnItsWay(task[t], i, f) PROVE OnItsWay(task[t], i, f)'
    <3>1. f \in UNION g.writes => f \in UNION left \/ f \in hits'
      BY <1>1
    <3> HIDE DEF left
    <3> QED BY <1>4, <1>5, <1>7, <1>8, <2>1, <3>1 DEF OnItsWay
  <2>2. Good(task[t])'
    BY <1>1, <1>2, <1>4, <1>5, <1>7, <1>8, <2>1 DEF Good
  <2>3. ASSUME NEW u \in Task \ {t} PROVE Good(task[u])'
    <3>1. Good(task[u]) /\ task'[u] = task[u]
      BY <1>7, TaskIs
    <3>2. ASSUME NEW i, NEW f, OnItsWay(task[u], i, f) PROVE OnItsWay(task[u], i, f)'
      BY <1>8, <3>1, <3>2 DEF OnItsWay
    <3> QED BY <1>1, <1>8, <3>1, <3>2 DEF Good
  <2> QED BY <2>2, <2>3 DEF TasksOK
<1>11. CallersOK' /\ RecordOK'
  BY <1>1, <1>8 DEF IInv, CallersOK, RecordOK, FinishedIsComplete, Reached
<1>12. \A u \in Task : Active(u)' = Active(u)
  BY <1>5, <1>7 DEF Active
<1>13. OwnerOK'
  BY <1>1, <1>12 DEF IInv, OwnerOK, Saved, Happened
<1>14. DownOK'
  BY <1>1, <1>5, <1>7 DEF IInv, DownOK
<1> QED BY <1>9, <1>10, <1>11, <1>13, <1>14 DEF IInv

\* When the record is saved, what callers have read is not the newest version.
LEMMA SaveIs ==
  ASSUME IInv, NEW status \in Status, Save(status), UNCHANGED hits
  PROVE  /\ record' \in Record /\ record'.exists /\ record'.status = status
         /\ record'.version = record.version + 1
         /\ \A saw \in Record : saw.version <= record.version =>
              saw.version <= record'.version /\ saw.version # record'.version
         /\ Reached' = Reached
<1>1. record \in Record /\ record.version \in Nat
  BY DEF IInv, Types, Record
<1> QED BY <1>1 DEF Save, Record, Reached

LEMMA FinalizeInv ==
  ASSUME IInv, NEW t \in Task, Finalize(t) \/ FinalizeLost(t) PROVE IInv'
<1>1. task[t].pc = "finalize" /\ Save(Final(t)) /\ UNCHANGED <<hits, listed, caller, up, alive>>
  BY DEF Finalize, FinalizeLost
<1>2. /\ Final(t) \in Status /\ Final(t).finished /\ Final(t).truncated = task[t].status.truncated
      /\ Final(t).errors = task[t].status.errors /\ (Final(t).truncated => Reached)
  BY FinalIs
<1>3. /\ record' \in Record /\ record'.exists /\ record'.status = Final(t)
      /\ record'.version = record.version + 1
      /\ \A saw \in Record : saw.version <= record.version =>
           saw.version <= record'.version /\ saw.version # record'.version
      /\ Reached' = Reached
  BY <1>1, <1>2, SaveIs
<1>4. Active(t) /\ up
  BY <1>1, TaskIs DEF Active, Good, Working, IInv, DownOK
<1>5. Clean(task[t].status) => \A i \in alive : Candidates[i] \cap Matching \subseteq hits
  <2> SUFFICES ASSUME Clean(task[t].status), NEW i \in alive, NEW f \in Candidates[i] \cap Matching
               PROVE  f \in hits
    OBVIOUS
  <2>1. OnItsWay(task[t], i, f)
    BY TaskIs DEF Good
  <2> QED BY <1>1, <2>1, TaskIs DEF Good, OnItsWay, Clean, Working
<1>6. RecordOK'
  BY <1>1, <1>2, <1>3, <1>5 DEF RecordOK, FinishedIsComplete, Clean, Reached
<1>7. CallersOK'
  BY <1>1, <1>3 DEF IInv, Types, CallersOK
<1>8. /\ task' \in [Task -> TaskRecord] /\ TasksOK' /\ DownOK'
      /\ \A u \in Task : Active(u)' => Active(u)
      /\ mishaps' \in [Faults -> Nat]
      /\ Happened("lost")' = 0 => ~Active(t)' /\ Happened("lost") = 0
  <2>1. CASE Finalize(t)
    <3>1. At("remove", Final(t)) \in TaskRecord /\ Good(At("remove", Final(t)))
      BY <1>2, FreshIsGood DEF Waiting, IInv, Types
    <3>2. /\ task' = [task EXCEPT ![t] = At("remove", Final(t))] /\ UNCHANGED mishaps
      BY <2>1 DEF Finalize
    <3>3. /\ task' \in [Task -> TaskRecord] /\ task'[t] = At("remove", Final(t))
          /\ \A u \in Task \ {t} : task'[u] = task[u]
      BY <3>1, <3>2 DEF IInv, Types
    <3>4. \A u \in Task : Good(task'[u])
      BY <3>1, <3>3, TaskIs
    <3>5. TasksOK'
      BY <1>1, <3>4 DEF TasksOK, Good, OnItsWay, Reached
    <3>6. DownOK' /\ ~Active(t)' /\ \A u \in Task : Active(u)' => Active(u)
      BY <1>1, <1>4, <3>3 DEF DownOK, Active, At
    <3> QED BY <3>2, <3>3, <3>5, <3>6 DEF Happened, IInv, Types
  <2>2. CASE FinalizeLost(t)
    <3>1. UNCHANGED task /\ Mishap("lost")
      BY <2>2 DEF FinalizeLost
    <3>2. TasksOK' /\ DownOK'
      BY <1>1, <3>1 DEF IInv, TasksOK, Good, OnItsWay, Reached, DownOK
    <3> QED BY <3>1, <3>2, MishapIs DEF IInv, Types, Active
  <2> QED BY <2>1, <2>2
<1>9. Types'
  BY <1>1, <1>3, <1>8 DEF IInv, Types
<1>10. OwnerOK'
  BY <1>1, <1>3, <1>4, <1>8 DEF IInv, OwnerOK, Saved
<1> QED BY <1>6, <1>7, <1>8, <1>9, <1>10 DEF IInv

LEMMA RemoveEntryInv == ASSUME IInv, NEW t \in Task, RemoveEntry(t) PROVE IInv'
<1> DEFINE k == [task[t] EXCEPT !.pc = "ended"]
<1>1. /\ task[t].pc = "remove" /\ listed' = 0 /\ task' = [task EXCEPT ![t] = k]
      /\ UNCHANGED <<record, hits, caller, up, alive, mishaps>>
  BY DEF RemoveEntry, stored
<1>2. k.pc = "ended" /\ k.status = task[t].status /\ k.has = task[t].has /\ k \in TaskRecord
  BY TaskIs DEF TaskRecord, Waiting
<1>3. Good(k)
  BY <1>1, <1>2, TaskIs DEF Good, Working, OnItsWay
<1> HIDE DEF k
<1>4. /\ task' \in [Task -> TaskRecord] /\ task'[t] = k /\ \A u \in Task \ {t} : task'[u] = task[u]
  BY <1>1, <1>2 DEF IInv, Types
<1>5. \A u \in Task : Good(task'[u])
  BY <1>3, <1>4, TaskIs
<1>6. TasksOK'
  BY <1>1, <1>5 DEF TasksOK, Good, OnItsWay, Reached
<1>7. \A u \in Task : Active(u)' => Active(u)
  BY <1>2, <1>4 DEF Active
<1>8. Types' /\ CallersOK' /\ RecordOK'
  BY <1>1, <1>4 DEF IInv, Types, CallersOK, RecordOK, FinishedIsComplete, Reached
<1>9. OwnerOK'
  BY <1>1, <1>7 DEF IInv, OwnerOK, Saved, Happened
<1>10. DownOK'
  BY <1>1, <1>2, <1>4 DEF IInv, DownOK
<1> QED BY <1>6, <1>8, <1>9, <1>10 DEF IInv

----------------------------------------------------------------------------
(* Callers, and what happens around them *)

\* A caller saves a record that is not finished, when nobody has one to work on.
LEMMA CallerSaves ==
  ASSUME IInv, up, NEW c \in Caller, NEW status \in Status, Save(status), ~status.finished,
         status.truncated => Reached,
         caller' = [caller EXCEPT ![c] = [pc |-> "saved", saw |-> record']],
         UNCHANGED <<hits, listed, task, up, alive, mishaps>>,
         record.status.finished \/ ~record.exists
  PROVE  IInv'
<1>1. /\ record' \in Record /\ record'.exists /\ record'.status = status
      /\ record'.version = record.version + 1
      /\ \A saw \in Record : saw.version <= record.version =>
           saw.version <= record'.version /\ saw.version # record'.version
      /\ Reached' = Reached
  BY SaveIs
<1>2. caller'[c] = [pc |-> "saved", saw |-> record'] /\ \A d \in Caller \ {c} : caller'[d] = caller[d]
  BY DEF IInv, Types
<1>3. Types'
  BY <1>1 DEF IInv, Types
<1>4. TasksOK'
  BY DEF IInv, TasksOK, Good, OnItsWay, Reached
<1>5. CallersOK'
  BY <1>1, <1>2 DEF IInv, Types, CallersOK
<1>6. RecordOK'
  BY <1>1 DEF RecordOK, FinishedIsComplete
<1>7. OwnerOK'
  BY <1>1, <1>2 DEF IInv, OwnerOK, Active, Saved, Happened
<1>8. DownOK'
  BY DEF DownOK
<1> QED BY <1>3, <1>4, <1>5, <1>6, <1>7, <1>8 DEF IInv

LEMMA InitializeInv == ASSUME IInv, NEW c \in Caller, Initialize(c) PROVE IInv'
<1>1. NewStatus \in Status /\ ~NewStatus.finished /\ ~NewStatus.truncated
  BY DEF NewStatus, Status
<1> QED BY <1>1, CallerSaves DEF Initialize

\* A step of callers that leaves the record alone.
LEMMA CallerStep ==
  ASSUME IInv, UNCHANGED <<record, hits, listed, task, up, alive>>, Calm,
         caller' \in [Caller -> [pc : {"idle", "read", "saved"}, saw : Record]],
         \A c \in Caller :
           \/ caller'[c] = caller[c]
           \/ /\ up /\ caller'[c].saw = record
              /\ caller'[c].pc = "idle" \/ (caller'[c].pc = "read" /\ record.status.finished)
           \/ caller'[c].pc = "idle" /\ caller'[c].saw = caller[c].saw
  PROVE  IInv'
<1>1. Types' /\ TasksOK' /\ RecordOK'
  BY DEF IInv, Types, TasksOK, Good, OnItsWay, Reached, RecordOK, FinishedIsComplete, Calm
<1>2. CallersOK'
  <2> SUFFICES ASSUME NEW c \in Caller
               PROVE  /\ caller'[c].saw.status.truncated => Reached'
                      /\ caller'[c].pc = "read" =>
                           /\ caller'[c].saw.status.finished /\ caller'[c].saw.version <= record'.version
                           /\ caller'[c].saw.version = record'.version => caller'[c].saw = record'
                      /\ caller'[c].pc = "saved" => ~caller'[c].saw.status.finished
    BY DEF CallersOK
  <2>1. (record.status.truncated => Reached) /\ Reached' = Reached /\ record.version \in Nat
    BY DEF IInv, RecordOK, Reached, Types, Record
  <2> QED BY <2>1 DEF IInv, CallersOK
<1>3. \A c \in Caller : Saved(c)' => Saved(c)
  BY DEF Saved
<1>4. OwnerOK'
  BY <1>3 DEF IInv, OwnerOK, Active, Calm
<1>5. DownOK'
  BY DEF IInv, DownOK
<1> QED BY <1>1, <1>2, <1>4, <1>5 DEF IInv

LEMMA ReadRecordInv == ASSUME IInv, NEW c \in Caller, ReadRecord(c) PROVE IInv'
<1>1. /\ caller' = [caller EXCEPT ![c] = [pc |-> "read", saw |-> record]]
      /\ UNCHANGED <<record, hits, listed, task, up, alive>> /\ Calm
      /\ up /\ record.status.finished
  BY QuietIsCalm DEF ReadRecord, stored, Quiet
<1> QED BY <1>1, CallerStep DEF IInv, Types

LEMMA SaveRepeatInv == ASSUME IInv, NEW c \in Caller, SaveRepeat(c) PROVE IInv'
<1>1. /\ caller[c].pc = "read" /\ Calm /\ up
      /\ UNCHANGED <<hits, listed, task, up, alive, mishaps>>
  BY QuietIsCalm DEF SaveRepeat, Quiet, IInv, DownOK
<1>2. CASE Held(c).version = record.version
  <2>1. Held(c) = record /\ record.status.finished /\ record.status \in Status
        /\ (record.status.truncated => Reached)
    BY <1>1, <1>2 DEF IInv, CallersOK, RecordOK, Held, Types, Record
  <2>2. /\ Save(Renewed(record.status))
        /\ caller' = [caller EXCEPT ![c] = [pc |-> "saved", saw |-> record']]
    BY <1>2, <2>1 DEF SaveRepeat
  <2>3. /\ Renewed(record.status) \in Status /\ ~Renewed(record.status).finished
        /\ Renewed(record.status).truncated = record.status.truncated
    BY <2>1 DEF Renewed, Status
  <2> QED BY <1>1, <2>1, <2>2, <2>3, CallerSaves
<1>3. CASE Held(c).version # record.version
  <2> DEFINE pc == IF record.status.finished THEN "read" ELSE "idle"
  <2>1. caller' = [caller EXCEPT ![c] = [pc |-> pc, saw |-> record]] /\ UNCHANGED record
    BY <1>3 DEF SaveRepeat
  <2>2. /\ caller' \in [Caller -> [pc : {"idle", "read", "saved"}, saw : Record]]
        /\ caller'[c] = [pc |-> pc, saw |-> record] /\ \A d \in Caller \ {c} : caller'[d] = caller[d]
    BY <2>1 DEF IInv, Types
  <2> QED BY <1>1, <2>1, <2>2, CallerStep
<1> QED BY <1>2, <1>3

LEMMA DropCallerInv == ASSUME IInv, NEW c \in Caller, DropCaller(c) PROVE IInv'
<1>1. /\ caller' = [caller EXCEPT ![c].pc = "idle"] /\ Calm
      /\ UNCHANGED <<record, hits, listed, task, up, alive>>
  BY QuietIsCalm DEF DropCaller, stored
<1>2. /\ caller' \in [Caller -> [pc : {"idle", "read", "saved"}, saw : Record]]
      /\ caller'[c].pc = "idle" /\ caller'[c].saw = caller[c].saw
      /\ \A d \in Caller \ {c} : caller'[d] = caller[d]
  BY <1>1 DEF IInv, Types
<1> QED BY <1>1, <1>2, CallerStep

\* The task that a caller starts is the only one.
LEMMA StartTaskInv ==
  ASSUME IInv, NEW c \in Caller, NEW t \in Task, StartTask(c, t) PROVE IInv'
<1> DEFINE k == At("start", Held(c).status)
<1>1. /\ caller[c].pc = "saved" /\ task[t].pc \in {"none", "ended"} /\ listed' = t /\ up
      /\ task' = [task EXCEPT ![t] = k] /\ caller' = [caller EXCEPT ![c].pc = "idle"]
      /\ UNCHANGED <<record, hits, up, alive, mishaps>>
  BY DEF StartTask, stored, IInv, DownOK
<1>2. /\ Held(c).status \in Status /\ ~Held(c).status.finished
      /\ (Held(c).status.truncated => Reached)
  BY <1>1 DEF IInv, Types, CallersOK, Held, Record
<1>3. k \in TaskRecord /\ Good(k)
  BY <1>2, FreshIsGood DEF Waiting, IInv, Types
<1>4. /\ task' \in [Task -> TaskRecord] /\ task'[t] = k /\ \A u \in Task \ {t} : task'[u] = task[u]
  BY <1>1, <1>3 DEF IInv, Types
<1>5. /\ caller' \in [Caller -> [pc : {"idle", "read", "saved"}, saw : Record]]
      /\ caller'[c].pc = "idle" /\ caller'[c].saw = caller[c].saw
      /\ \A d \in Caller \ {c} : caller'[d] = caller[d]
  BY <1>1 DEF IInv, Types
<1>6. Types' /\ RecordOK'
  BY <1>1, <1>4, <1>5 DEF IInv, Types, RecordOK, FinishedIsComplete, Reached
<1>7. \A u \in Task : Good(task'[u])
  BY <1>3, <1>4, TaskIs
<1>8. TasksOK'
  BY <1>1, <1>7 DEF TasksOK, Good, OnItsWay, Reached
<1>9. CallersOK'
  BY <1>1, <1>5 DEF IInv, CallersOK, Reached
<1>10. \A u \in Task \ {t} : Active(u)' = Active(u)
  BY <1>4 DEF Active
<1>11. Saved(c) /\ ~Saved(c)' /\ \A d \in Caller \ {c} : Saved(d)' = Saved(d)
  BY <1>1, <1>5 DEF Saved
<1>12. OwnerOK'
  BY <1>1, <1>10, <1>11 DEF IInv, OwnerOK, Happened
<1>13. DownOK'
  BY <1>1 DEF DownOK
<1> QED BY <1>6, <1>8, <1>9, <1>12, <1>13 DEF IInv

LEMMA ExpireInv == ASSUME IInv, NEW i \in Index, Expire(i) PROVE IInv'
<1>1. alive' \subseteq alive /\ UNCHANGED <<record, hits, listed, task, caller, up, mishaps>>
  BY DEF Expire, stored
<1>2. Types'
  BY <1>1 DEF IInv, Types
<1>3. TasksOK'
  BY <1>1 DEF IInv, TasksOK, Good, OnItsWay, Reached
<1>4. CallersOK' /\ RecordOK' /\ DownOK'
  BY <1>1 DEF IInv, CallersOK, RecordOK, DownOK, FinishedIsComplete, Reached
<1>5. OwnerOK'
  BY <1>1 DEF IInv, OwnerOK, Active, Saved, Happened
<1> QED BY <1>2, <1>3, <1>4, <1>5 DEF IInv

LEMMA CrashInv == ASSUME IInv, Crash PROVE IInv'
<1> DEFINE none == At("none", NewStatus)
<1>1. /\ ~up' /\ listed' = 0 /\ task' = [t \in Task |-> none]
      /\ caller' = [c \in Caller |-> [caller[c] EXCEPT !.pc = "idle"]]
      /\ UNCHANGED <<record, hits, alive>> /\ Calm
  BY QuietIsCalm DEF Crash, stored
<1>2. NewStatus \in Status /\ ~NewStatus.truncated /\ ~NewStatus.finished
  BY DEF NewStatus, Status
<1>3. none \in TaskRecord /\ Good(none)
  BY <1>2, FreshIsGood DEF Waiting, IInv, Types
<1>4. caller' \in [Caller -> [pc : {"idle", "read", "saved"}, saw : Record]]
      /\ \A c \in Caller : caller'[c].pc = "idle" /\ caller'[c].saw = caller[c].saw
  BY <1>1 DEF IInv, Types
<1>5. up' = FALSE
  BY DEF Crash
<1>6. Types' /\ RecordOK'
  BY <1>1, <1>3, <1>4, <1>5 DEF IInv, Types, RecordOK, FinishedIsComplete, Reached, Calm
<1>7. \A t \in Task : task'[t].pc = "none" /\ Good(task'[t])
  BY <1>1, <1>3 DEF At
<1>8. TasksOK'
  BY <1>1, <1>7 DEF TasksOK, Good, OnItsWay, Reached
<1>9. CallersOK' /\ DownOK'
  BY <1>1, <1>4, <1>7 DEF IInv, CallersOK, DownOK, Reached
<1>10. OwnerOK'
  BY <1>4, <1>7 DEF OwnerOK, Active, Saved
<1> QED BY <1>6, <1>8, <1>9, <1>10 DEF IInv

LEMMA RestartInv == ASSUME IInv, Restart PROVE IInv'
<1>1. /\ ~up /\ up' = TRUE /\ UNCHANGED <<hits, caller, alive, mishaps>>
      /\ \A t \in Task : task[t].pc = "none"
      /\ \A c \in Caller : caller[c].pc = "idle"
  BY DEF Restart, IInv, DownOK
<1>2. CASE ~ActiveInRecord
  <2>1. UNCHANGED <<record, task, listed>>
    BY <1>2 DEF Restart
  <2>2. Types' /\ TasksOK' /\ CallersOK' /\ RecordOK'
    BY <1>1, <2>1 DEF IInv, Types, TasksOK, Good, OnItsWay, CallersOK, RecordOK, FinishedIsComplete, Reached
  <2>3. OwnerOK' /\ DownOK'
    BY <1>1, <2>1 DEF OwnerOK, Active, Saved, DownOK
  <2> QED BY <2>2, <2>3 DEF IInv
<1>3. CASE ActiveInRecord
  <2>1. PICK t \in Task : listed' = t /\ task' = [task EXCEPT ![t] = At("start", record.status)]
    BY <1>3 DEF Restart
  <2>2. /\ record.status \in Status /\ Save(record.status) /\ ~record.status.finished
        /\ (record.status.truncated => Reached)
    BY <1>3 DEF Restart, ActiveInRecord, IInv, Types, Record, RecordOK
  <2>3. /\ record' \in Record /\ record'.exists /\ record'.status = record.status
        /\ record'.version = record.version + 1
        /\ Reached' = Reached
    BY <1>1, <2>2, SaveIs
  <2>4. At("start", record.status) \in TaskRecord /\ Good(At("start", record.status))
    BY <2>2, FreshIsGood DEF Waiting, IInv, Types
  <2>5. /\ task' \in [Task -> TaskRecord] /\ task'[t] = At("start", record.status)
        /\ \A u \in Task \ {t} : task'[u] = task[u]
    BY <2>1, <2>4 DEF IInv, Types
  <2>6. Types'
    BY <1>1, <2>1, <2>3, <2>5 DEF IInv, Types
  <2>7. \A u \in Task : Good(task'[u])
    BY <2>4, <2>5, TaskIs
  <2>8. TasksOK'
    BY <1>1, <2>7 DEF TasksOK, Good, OnItsWay, Reached
  <2>9. CallersOK' /\ RecordOK' /\ DownOK'
    BY <1>1, <2>2, <2>3 DEF IInv, CallersOK, RecordOK, FinishedIsComplete, DownOK
  <2>10. \A u \in Task \ {t} : ~Active(u)'
    BY <1>1, <2>5 DEF Active
  <2>11. \A c \in Caller : ~Saved(c)'
    BY <1>1 DEF Saved
  <2>12. OwnerOK'
    BY <2>1, <2>2, <2>3, <2>10, <2>11 DEF OwnerOK
  <2> QED BY <2>6, <2>8, <2>9, <2>12 DEF IInv
<1> QED BY <1>2, <1>3

----------------------------------------------------------------------------
(* Theorems *)

LEMMA TaskInv ==
  ASSUME IInv, NEW t \in Task,
         \/ RunTask(t) \/ RunWorker(t) \/ RunRequests(t) \/ RunWrites(t)
         \/ \E i \in Index : AnswerFails(t, i)
         \/ \E w \in Worker : SocketBreaks(t, w)
         \/ \E b \in task[t].has.running : YaraFails(t, b)
         \/ \E found \in task[t].has.writes : WriteRefused(t, found)
         \/ FinalizeLost(t) \/ FinalizeRefused(t) \/ Fails(t) \/ NobodyListens(t)
  PROVE  IInv'
<1>1. CASE RunTask(t)
  BY <1>1, StartInv, ConnectInv, FilterDoneInv, LoopInv, DispatchInv, CollectInv, JoinInv,
     FinalizeInv, RemoveEntryInv, RetryInv DEF RunTask
<1>2. CASE RunWorker(t)
  BY <1>2, ListFiltersInv, AnswerInv DEF RunWorker
<1>3. CASE RunRequests(t) \/ \E b \in task[t].has.running : YaraFails(t, b)
  BY <1>3, RunYaraInv DEF RunRequests
<1>4. CASE RunWrites(t) \/ \E found \in task[t].has.writes : WriteRefused(t, found)
  BY <1>4, WriteHitsInv, WriteRefusedInv DEF RunWrites
<1>5. CASE \/ \E i \in Index : AnswerFails(t, i)
           \/ \E w \in Worker : SocketBreaks(t, w)
  BY <1>5, AnswerFailsInv, SocketBreaksInv
<1>6. CASE FinalizeLost(t) \/ FinalizeRefused(t) \/ Fails(t) \/ NobodyListens(t)
  BY <1>6, FinalizeInv, FinalizeRefusedInv, RetryInv
<1> QED BY <1>1, <1>2, <1>3, <1>4, <1>5, <1>6

LEMMA StepInv == IInv /\ [Next]_vars => IInv'
<1> SUFFICES ASSUME IInv, [Next]_vars PROVE IInv'
  OBVIOUS
<1>1. CASE \E c \in Caller : Initialize(c) \/ ReadRecord(c) \/ RunCaller(c) \/ DropCaller(c)
  BY <1>1, InitializeInv, ReadRecordInv, SaveRepeatInv, StartTaskInv, DropCallerInv DEF RunCaller
<1>2. CASE \E t \in Task :
       \/ RunTask(t) \/ RunWorker(t) \/ RunRequests(t) \/ RunWrites(t)
       \/ \E i \in Index : AnswerFails(t, i)
       \/ \E w \in Worker : SocketBreaks(t, w)
       \/ \E b \in task[t].has.running : YaraFails(t, b)
       \/ \E found \in task[t].has.writes : WriteRefused(t, found)
       \/ FinalizeLost(t) \/ FinalizeRefused(t) \/ Fails(t) \/ NobodyListens(t)
  BY <1>2, TaskInv
<1>3. CASE (\E i \in Index : Expire(i)) \/ Crash \/ Restart
  BY <1>3, ExpireInv, CrashInv, RestartInv
<1>4. CASE UNCHANGED vars
  <2>1. UNCHANGED <<record, hits, listed, task, caller, up, alive, mishaps>>
    BY <1>4 DEF vars, stored
  <2> QED BY <2>1 DEF IInv, Types, TasksOK, Good, OnItsWay, CallersOK, RecordOK, OwnerOK, DownOK,
             FinishedIsComplete, Reached, Active, Saved, Happened
<1> QED BY <1>1, <1>2, <1>3, <1>4 DEF Next

LEMMA IInvAlways == Spec => []IInv
BY InitInv, StepInv, PTL DEF Spec

\* Every request that starts the search, every task that gives up and starts
\* again, every crash and restart keep one task at work on it, and the entry in
\* running_searches is that task's or nobody's, unless the answer to a last save
\* was lost (mod.rs:248-288, 513-552, 1080-1123, 1288).
THEOREM OneAtWork == Spec => []OneTaskWorks
<1>1. IInv => OneTaskWorks
  <2> SUFFICES ASSUME IInv PROVE OneTaskWorks
    OBVIOUS
  <2>1. TypeOK
    BY HasIs, TaskIs DEF IInv, Types, TypeOK, Record, Found
  <2> QED BY <2>1 DEF IInv, OwnerOK, OneTaskWorks
<1> QED BY <1>1, IInvAlways, PTL

\* Whatever fails on the way, a record that says finished, without errors and not
\* truncated has all hits of the indices that still exist, and one that says
\* truncated has as many as the limit (mod.rs:1093-1292, finalize_search).
THEOREM RecordIsTrue == Spec => []FinishedIsComplete
<1>1. IInv => FinishedIsComplete
  BY DEF IInv, RecordOK
<1> QED BY <1>1, IInvAlways, PTL
=============================================================================
