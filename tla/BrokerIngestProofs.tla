--------------------------- MODULE BrokerIngestProofs ---------------------------
(***************************************************************************)
(* What TLAPS proves about BrokerIngest, for all files, calls, workers,     *)
(* concurrent checks, limits and failures: its types, that answers are      *)
(* true, and the limits on indices and pending files.  Then, about the      *)
(* callers of start_ingest: on its way from the buffer to a worker's table  *)
(* the channel of a caller is always in one place, until the caller has its *)
(* answer; and unless something fails it is lost only to another call for   *)
(* the same file.                                                           *)
(***************************************************************************)
EXTENDS BrokerIngest, FiniteSetTheorems, SequenceTheorems, TLAPS

----------------------------------------------------------------------------
(* The inductive invariant *)

Pairs == Filter \X Hash
File == [hash : Hash, expiry : Group]
Reply == [worker : Worker, processed : SUBSET Hash, pending : SUBSET (Hash \X Filter)]
Check == [files : SUBSET File, tasks : SUBSET Task, asked : SUBSET Worker, replies : SUBSET Reply]
Result == [completed : SUBSET Pairs, rejected : SUBSET Pairs, pending : [Filter -> SUBSET Hash],
           size : [Filter -> Nat], group : [Filter -> Group \cup {0}], pressure : BOOLEAN]
Phases == {"idle", "sent", "answered", "assign", "create"}
Answers == {"none", "waiting", "true", "false", "lost"}

Ingested(h) == \E d \in indexed : d.hash = h

\* A task is for the file of its callers, and lives as long as any of them asks for.
Sound(t) == \A k \in t.callers : k.hash = t.hash /\ k.expiry <= t.expiry

AnswersOK ==
  /\ today \in Day /\ answer \in [Caller -> Answers]
  /\ AnswersAreTrue

\* Each place has one task of a file.
BufferOK ==
  /\ buffer \in Seq(Task) /\ buffered \subseteq Hash
  /\ \A i \in DOMAIN buffer : Sound(buffer[i]) /\ buffer[i].hash \in buffered
  /\ \A i, j \in DOMAIN buffer : buffer[i].hash = buffer[j].hash => i = j

CheckOK ==
  /\ check \in [Slot -> Check]
  /\ \A s \in Slot :
       /\ \A t \in check[s].tasks : Sound(t)
       /\ \A t, u \in check[s].tasks : t.hash = u.hash => t = u
       /\ \A r \in check[s].replies : \A h \in r.processed : Ingested(h)

QueueOK ==
  /\ DOMAIN queue \subseteq Group /\ queue \in [DOMAIN queue -> Seq(Task)]
  /\ \A g \in DOMAIN queue :
       /\ \A i \in DOMAIN queue[g] : Sound(queue[g][i]) /\ queue[g][i].expiry = g
       /\ \A i, j \in DOMAIN queue[g] : queue[g][i].hash = queue[g][j].hash => i = j

InboxOK ==
  /\ inbox \in [Worker -> Seq(Entry)]
  /\ \A w \in Worker : \A i \in DOMAIN inbox[w] : Sound(inbox[w][i].task)

ActiveOK ==
  /\ active \in [Worker -> SUBSET Entry]
  /\ \A w \in Worker :
       /\ \A a \in active[w] : Sound(a.task)
       /\ \A a, b \in active[w] : a.task.hash = b.task.hash => a = b

\* The lock, and what a watcher has in hand in each phase.
WatcherOK ==
  /\ lock \subseteq Worker /\ \A v, w \in lock : v = w
  /\ phase \in [Worker -> Phases] /\ sent \in [Worker -> SUBSET Pairs]
  /\ result \in [Worker -> Result] /\ todo \in [Worker -> SUBSET Nat]
  /\ \A w \in Worker :
       /\ w \in lock <=> phase[w] = "assign"
       /\ phase[w] # "sent" => sent[w] = {}
       /\ phase[w] \in {"idle", "sent"} => result[w] = NoResult
       /\ phase[w] \in {"idle", "sent", "answered"} => todo[w] = {}
       /\ phase[w] = "assign" =>
            todo[w] \subseteq Filter /\ \A f \in todo[w] : result[w].group[f] \in DOMAIN queue
       /\ phase[w] = "create" => todo[w] \subseteq DOMAIN queue
       /\ \A p \in result[w].completed : Ingested(p[2])
       /\ \A p \in result[w].rejected : p[2] \in refused

\* What workers know is so.
WorkersOK ==
  /\ index \in [Worker -> [Filter -> Group \cup {0}]]
  /\ status \in [Worker -> [Filter -> [Hash -> Statuses]]]
  /\ swept \in [Worker -> Day \cup {0}] /\ made \in [Worker -> [Filter -> Nat]]
  /\ indexed \subseteq File /\ refused \subseteq Hash /\ mishaps \in [FaultKinds -> Nat]
  /\ \A w \in Worker : \A f \in Filter : \A h \in Hash :
       /\ status[w][f][h] = "ready" => Ingested(h)
       /\ status[w][f][h] = "rejected" => h \in refused
       /\ index[w][f] = 0 => status[w][f][h] \in {"missing", "rejected"}

IInv ==
  /\ AnswersOK /\ BufferOK /\ CheckOK /\ QueueOK /\ InboxOK /\ ActiveOK /\ WatcherOK /\ WorkersOK

----------------------------------------------------------------------------
(* Sequences and finite sets *)

\* A function on the first numbers is a sequence.
LEMMA SequenceOf ==
  ASSUME NEW S, NEW n \in Nat, NEW s \in [1 .. n -> S]
  PROVE  s \in Seq(S) /\ Len(s) = n /\ DOMAIN s = 1 .. n
<1>1. s \in Seq(S)
  BY SeqDef
<1>2. Len(s) \in Nat /\ DOMAIN s = 1 .. Len(s)
  BY <1>1, LenProperties
<1>3. 1 .. n = 1 .. Len(s)
  BY <1>2
<1>4. n = Len(s)
  <2>1. Len(s) <= n
    <3>1. CASE Len(s) = 0
      BY <3>1
    <3>2. CASE Len(s) # 0
      <4>1. Len(s) \in 1 .. n
        BY <1>2, <1>3, <3>2
      <4> QED BY <4>1
    <3> QED BY <3>1, <3>2
  <2>2. n <= Len(s)
    <3>1. CASE n = 0
      BY <3>1, <1>2
    <3>2. CASE n # 0
      <4>1. n \in 1 .. Len(s)
        BY <1>3, <3>2
      <4> QED BY <4>1, <1>2
    <3> QED BY <3>1, <3>2
  <2> QED BY <2>1, <2>2, <1>2
<1> QED BY <1>1, <1>2, <1>4

\* SetToSeq lists each element of a finite set once.
LEMMA SetToSeqIs ==
  ASSUME NEW T, NEW S \in SUBSET T, IsFiniteSet(S)
  PROVE  /\ SetToSeq(S) \in Seq(T) /\ DOMAIN SetToSeq(S) = 1 .. Len(SetToSeq(S))
         /\ \A i \in DOMAIN SetToSeq(S) : SetToSeq(S)[i] \in S
         /\ \A i, j \in DOMAIN SetToSeq(S) : SetToSeq(S)[i] = SetToSeq(S)[j] => i = j
         /\ \A x \in S : \E i \in DOMAIN SetToSeq(S) : SetToSeq(S)[i] = x
<1> DEFINE n == Cardinality(S)
           s == SetToSeq(S)
<1>1. n \in Nat /\ ExistsBijection(1 .. n, S)
  BY FS_CardinalityType
<1>2. \E f \in [1 .. n -> S] : IsInjective(f)
  BY <1>1 DEF ExistsBijection, Bijection, Injection
<1>3. s \in [1 .. n -> S] /\ IsInjective(s)
  BY <1>2 DEF SetToSeq
<1>4. s \in [1 .. n -> T]
  BY <1>3
<1>5. s \in Seq(T) /\ DOMAIN s = 1 .. Len(s) /\ Len(s) = n
  BY <1>1, <1>4, SequenceOf
<1>6. Cardinality(1 .. n) = n
  BY <1>1, FS_Interval
<1>7. s \in Surjection(1 .. n, S)
  BY <1>3, <1>6, FS_Injection DEF Injection
<1>8. \A x \in S : \E i \in 1 .. n : s[i] = x
  BY <1>7 DEF Surjection
<1> HIDE DEF s
<1> QED BY <1>3, <1>5, <1>8 DEF IsInjective, s

\* What a concatenation holds.
LEMMA ConcatOf ==
  ASSUME NEW S, NEW s \in Seq(S), NEW t \in Seq(S)
  PROVE  /\ s \o t \in Seq(S)
         /\ \A i \in DOMAIN s : i \in DOMAIN (s \o t) /\ (s \o t)[i] = s[i]
         /\ \A i \in DOMAIN t : i + Len(s) \in DOMAIN (s \o t) /\ (s \o t)[i + Len(s)] = t[i]
         /\ \A i \in DOMAIN (s \o t) :
              i \in DOMAIN s \/ (i > Len(s) /\ i - Len(s) \in DOMAIN t /\ (s \o t)[i] = t[i - Len(s)])
<1>1. /\ Len(s) \in Nat /\ DOMAIN s = 1 .. Len(s) /\ Len(t) \in Nat /\ DOMAIN t = 1 .. Len(t)
      /\ s \o t \in Seq(S) /\ Len(s \o t) = Len(s) + Len(t)
      /\ \A i \in 1 .. Len(s) + Len(t) :
           (s \o t)[i] = IF i <= Len(s) THEN s[i] ELSE t[i - Len(s)]
  BY ConcatProperties, LenProperties
<1>2. DOMAIN (s \o t) = 1 .. Len(s) + Len(t)
  BY <1>1, LenProperties
<1> QED BY <1>1, <1>2

\* What is left of a sequence without its first elements.
LEMMA CutOf ==
  ASSUME NEW S, NEW s \in Seq(S), NEW n \in 0 .. Len(s)
  PROVE  LET t == SubSeq(s, n + 1, Len(s))
         IN /\ t \in Seq(S)
            /\ \A i \in DOMAIN t : i \in Nat /\ i + n \in DOMAIN s /\ t[i] = s[i + n]
            /\ \A i \in DOMAIN s : i > n => i - n \in DOMAIN t
<1> DEFINE t == SubSeq(s, n + 1, Len(s))
<1>1. Len(s) \in Nat /\ DOMAIN s = 1 .. Len(s)
  BY LenProperties
<1>2. \A i \in n + 1 .. Len(s) : s[i] \in S
  BY <1>1
<1>3. /\ t \in Seq(S) /\ Len(t) = Len(s) - n
      /\ \A i \in 1 .. Len(s) - n : t[i] = s[n + i]
  <2>1. /\ t \in Seq(S) /\ Len(t) = IF n + 1 <= Len(s) THEN Len(s) - (n + 1) + 1 ELSE 0
        /\ \A i \in 1 .. Len(s) - (n + 1) + 1 : t[i] = s[n + 1 + i - 1]
    BY <1>1, <1>2, SubSeqProperties
  <2> HIDE DEF t
  <2>2. n \in Nat /\ n <= Len(s)
    BY <1>1
  <2>3. Len(t) = Len(s) - n
    <3>1. CASE n + 1 <= Len(s)
      BY <1>1, <2>1, <2>2, <3>1
    <3>2. CASE ~(n + 1 <= Len(s))
      <4>0. Len(s) \in Nat
        BY <1>1
      <4>1. n = Len(s)
        BY <4>0, <2>2, <3>2
      <4> QED BY <1>1, <2>1, <3>2, <4>1
    <3> QED BY <3>1, <3>2
  <2>4. ASSUME NEW i \in 1 .. Len(s) - n PROVE t[i] = s[n + i]
    <3>1. i \in 1 .. Len(s) - (n + 1) + 1 /\ n + 1 + i - 1 = n + i
      BY <1>1, <2>2
    <3> QED BY <2>1, <3>1
  <2> QED BY <2>1, <2>3, <2>4
<1>4. DOMAIN t = 1 .. Len(s) - n
  BY <1>3, LenProperties
<1>5. n \in Nat /\ n <= Len(s)
  BY <1>1
<1> HIDE DEF t
<1>6. \A i \in DOMAIN t : i \in Nat /\ i + n \in DOMAIN s /\ t[i] = s[i + n]
  BY <1>1, <1>3, <1>4, <1>5
<1>7. \A i \in DOMAIN s : i > n => i - n \in DOMAIN t
  BY <1>1, <1>4, <1>5
<1> QED BY <1>3, <1>6, <1>7 DEF t

LEMMA TailOf ==
  ASSUME NEW S, NEW s \in Seq(S), s # <<>>
  PROVE  /\ Head(s) = s[1] /\ 1 \in DOMAIN s /\ s[1] \in S /\ Tail(s) \in Seq(S)
         /\ \A i \in DOMAIN Tail(s) : i \in Nat \ {0} /\ i + 1 \in DOMAIN s /\ Tail(s)[i] = s[i + 1]
         /\ \A i \in DOMAIN s : i \in Nat /\ (i # 1 => i - 1 \in DOMAIN Tail(s))
OBVIOUS

\* Things with different hashes are finitely many.
LEMMA ByHash ==
  ASSUME NEW T, \A t \in T : t.hash \in Hash, \A t, u \in T : t.hash = u.hash => t = u
  PROVE  IsFiniteSet(T)
<1> DEFINE f == [t \in T |-> t.hash]
<1>1. f \in Injection(T, Hash)
  BY DEF Injection, IsInjective
<1> QED BY <1>1, HashAssumption, FS_Injection

LEMMA Kinds ==
  /\ \A t \in Task : /\ t.hash \in Hash /\ t.expiry \in Group /\ t.expiry \in Int
                     /\ t.callers \subseteq Caller
  /\ \A a \in Entry : a.task \in Task /\ a.filter \in Filter
  /\ Day \subseteq Int /\ Group \subseteq Int \ {0} /\ Filter \subseteq Int \ {0}
  /\ NoCheck \in Check /\ NoResult \in Result
<1>1. Day \subseteq Int /\ Group \subseteq Int \ {0} /\ Filter \subseteq Int \ {0}
  BY BoundAssumption DEF Day, Group, Filter
<1>2. NoCheck \in Check
  BY DEF NoCheck, Check
<1>3. NoResult \in Result
  BY DEF NoResult, Result
<1> QED BY <1>1, <1>2, <1>3 DEF Task, Entry

\* A merged task is for the same file and for the callers of both.
LEMMA Merged ==
  ASSUME NEW a \in Task, NEW b \in Task, a.hash = b.hash
  PROVE  /\ Merge(a, b) \in Task
         /\ Merge(a, b).hash = a.hash /\ Merge(a, b).callers = a.callers \cup b.callers
         /\ Merge(a, b).expiry \in {a.expiry, b.expiry}
         /\ a.expiry <= Merge(a, b).expiry /\ b.expiry <= Merge(a, b).expiry
         /\ Sound(a) /\ Sound(b) => Sound(Merge(a, b))
<1>1. /\ Merge(a, b) \in Task
      /\ Merge(a, b).hash = a.hash /\ Merge(a, b).callers = a.callers \cup b.callers
      /\ Merge(a, b).expiry \in {a.expiry, b.expiry}
      /\ a.expiry <= Merge(a, b).expiry /\ b.expiry <= Merge(a, b).expiry
  BY Kinds DEF Merge, Task
<1>2. \A k \in Caller : k.expiry \in Int
  BY CallerAssumption, Kinds
<1>3. a.expiry \in Int /\ b.expiry \in Int /\ Merge(a, b).expiry \in Int
  BY <1>1, Kinds
<1>4. a.callers \subseteq Caller /\ b.callers \subseteq Caller
  BY Kinds
<1> HIDE DEF Merge
<1>5. ASSUME Sound(a), Sound(b), NEW k \in Merge(a, b).callers
      PROVE  k.hash = Merge(a, b).hash /\ k.expiry <= Merge(a, b).expiry
  BY <1>1, <1>2, <1>3, <1>4, <1>5 DEF Sound
<1> QED BY <1>1, <1>5 DEF Sound

----------------------------------------------------------------------------
(* Every step preserves it *)

\* What a step leaves alone stays as it should be.
LEMMA Kept ==
  /\ BufferOK /\ UNCHANGED <<buffer, buffered>> => BufferOK'
  /\ CheckOK /\ UNCHANGED check /\ indexed \subseteq indexed' => CheckOK'
  /\ QueueOK /\ UNCHANGED queue => QueueOK'
  /\ InboxOK /\ UNCHANGED inbox => InboxOK'
  /\ ActiveOK /\ UNCHANGED active => ActiveOK'
  /\ WatcherOK /\ UNCHANGED <<lock, phase, sent, result, todo>> /\ DOMAIN queue \subseteq DOMAIN queue'
       /\ indexed \subseteq indexed' /\ refused \subseteq refused' => WatcherOK'
  /\ WorkersOK /\ UNCHANGED <<index, status, swept, made, indexed, refused>>
       /\ mishaps' \in [FaultKinds -> Nat] => WorkersOK'
<1>1. BufferOK /\ UNCHANGED <<buffer, buffered>> => BufferOK'
  BY DEF BufferOK, Sound
<1>2. CheckOK /\ UNCHANGED check /\ indexed \subseteq indexed' => CheckOK'
  BY DEF CheckOK, Sound, Ingested
<1>3. QueueOK /\ UNCHANGED queue => QueueOK'
  BY DEF QueueOK, Sound
<1>4. InboxOK /\ UNCHANGED inbox => InboxOK'
  BY DEF InboxOK, Sound
<1>5. ActiveOK /\ UNCHANGED active => ActiveOK'
  BY DEF ActiveOK, Sound
<1>6. WatcherOK /\ UNCHANGED <<lock, phase, sent, result, todo>> /\ DOMAIN queue \subseteq DOMAIN queue'
        /\ indexed \subseteq indexed' /\ refused \subseteq refused' => WatcherOK'
  BY DEF WatcherOK, Ingested
<1>7. WorkersOK /\ UNCHANGED <<index, status, swept, made, indexed, refused>>
        /\ mishaps' \in [FaultKinds -> Nat] => WorkersOK'
  BY DEF WorkersOK, Ingested
<1> QED BY <1>1, <1>2, <1>3, <1>4, <1>5, <1>6, <1>7

LEMMA MishapOK ==
  ASSUME WorkersOK, NEW kind, Mishap(kind)
  PROVE  mishaps' \in [FaultKinds -> Nat]
BY FaultAssumption DEF WorkersOK, Mishap

\* Answers stay true when what is told is.
LEMMA TellOK ==
  ASSUME AnswersOK, NEW yes, NEW no, NEW gone, Tell(yes, no, gone), UNCHANGED today,
         indexed \subseteq indexed', refused \subseteq refused',
         \A k \in Caller : k \in yes => Ingested(k.hash),
         \A k \in Caller : k \in no => k.expiry <= today \/ k.hash \in refused
  PROVE  AnswersOK'
<1>1. answer' \in [Caller -> Answers]
  BY DEF AnswersOK, Tell, Answers
<1>2. ASSUME NEW k \in Caller
      PROVE  /\ answer'[k] = "true" => \E d \in indexed' : d.hash = k.hash
             /\ answer'[k] = "false" => k.expiry <= today' \/ k.hash \in refused'
  BY DEF AnswersOK, AnswersAreTrue, Tell, Ingested
<1> QED BY <1>1, <1>2 DEF AnswersOK, AnswersAreTrue

LEMMA AnswersKept ==
  ASSUME AnswersOK, UNCHANGED <<today, answer>>, indexed \subseteq indexed', refused \subseteq refused'
  PROVE  AnswersOK'
BY DEF AnswersOK, AnswersAreTrue

LEMMA InitInv == Init => IInv
<1> SUFFICES ASSUME Init PROVE IInv
  OBVIOUS
<1>1. AnswersOK
  BY BoundAssumption DEF Init, AnswersOK, Answers, AnswersAreTrue, Day
<1>2. BufferOK
  BY DEF Init, BufferOK
<1>3. CheckOK
  BY Kinds DEF Init, CheckOK, NoCheck
<1>4. QueueOK
  BY DEF Init, QueueOK
<1>5. InboxOK
  BY DEF Init, InboxOK
<1>6. ActiveOK
  BY DEF Init, ActiveOK
<1>7. WatcherOK
  <2>1. \A w \in Worker : result[w].completed = {} /\ result[w].rejected = {}
    BY DEF Init, NoResult
  <2> QED BY <2>1, Kinds DEF Init, WatcherOK, Phases
<1>8. WorkersOK
  BY BoundAssumption DEF Init, WorkersOK, Day, Statuses
<1> QED BY <1>1, <1>2, <1>3, <1>4, <1>5, <1>6, <1>7, <1>8 DEF IInv

LEMMA AskInv == ASSUME IInv, NEW k \in Caller, Ask(k) PROVE IInv'
<1> DEFINE new == [hash |-> k.hash, expiry |-> k.expiry, callers |-> {k}]
           same == {i \in DOMAIN buffer : buffer[i].hash = k.hash}
<1>1. new \in Task /\ Sound(new)
  <2>1. k.expiry \in Int
    BY CallerAssumption, Kinds
  <2> QED BY <2>1, CallerAssumption DEF Task, Sound
<1>2. BufferOK'
  <2>1. CASE k.hash \notin buffered
    <3>1. buffer' = Append(buffer, new) /\ buffered' = buffered \cup {k.hash}
      BY <2>1 DEF Ask
    <3>2. /\ buffer' \in Seq(Task) /\ DOMAIN buffer' = DOMAIN buffer \cup {Len(buffer) + 1}
          /\ \A i \in DOMAIN buffer : i # Len(buffer) + 1 /\ buffer'[i] = buffer[i]
          /\ buffer'[Len(buffer) + 1] = new
      BY <1>1, <3>1 DEF IInv, BufferOK
    <3>3. k.hash \in Hash
      BY CallerAssumption
    <3> QED BY <2>1, <3>1, <3>2, <3>3, <1>1 DEF IInv, BufferOK, Sound
  <2>2. CASE k.hash \in buffered
    <3>1. /\ buffer' = [i \in DOMAIN buffer |->
                          IF i \in same THEN Merge(buffer[i], new) ELSE buffer[i]]
          /\ buffered' = buffered
      BY <2>2 DEF Ask
    <3>2. DOMAIN buffer = 1 .. Len(buffer) /\ Len(buffer) \in Nat
      BY LenProperties DEF IInv, BufferOK
    <3>3. ASSUME NEW i \in DOMAIN buffer
          PROVE  buffer'[i] \in Task /\ Sound(buffer'[i]) /\ buffer'[i].hash = buffer[i].hash
      <4>1. buffer[i] \in Task /\ Sound(buffer[i])
        BY DEF IInv, BufferOK
      <4>2. CASE i \in same
        <5>1. buffer[i].hash = new.hash /\ buffer'[i] = Merge(buffer[i], new)
          BY <3>1, <4>2
        <5> HIDE DEF new
        <5> QED BY <5>1, <4>1, <1>1, Merged
      <4>3. CASE i \notin same
        BY <3>1, <4>1, <4>3
      <4> QED BY <4>2, <4>3
    <3>4. DOMAIN buffer' = DOMAIN buffer
      BY <3>1
    <3>5. buffer' \in [1 .. Len(buffer) -> Task]
      BY <3>1, <3>2, <3>3
    <3>6. buffer' \in Seq(Task)
      BY <3>5, <3>2, SequenceOf
    <3>7. \A i \in DOMAIN buffer' : Sound(buffer'[i]) /\ buffer'[i].hash \in buffered'
      BY <3>1, <3>3, <3>4 DEF IInv, BufferOK
    <3>8. \A i, j \in DOMAIN buffer' : buffer'[i].hash = buffer'[j].hash => i = j
      BY <3>3, <3>4 DEF IInv, BufferOK
    <3>9. buffered' \subseteq Hash
      BY <3>1 DEF IInv, BufferOK
    <3> QED BY <3>6, <3>7, <3>8, <3>9 DEF BufferOK
  <2> QED BY <2>1, <2>2
<1>3. AnswersOK'
  <2>1. PICK a \in {"waiting", "lost"} : answer' = [answer EXCEPT ![k] = a]
    BY DEF Ask
  <2> QED BY <2>1 DEF Ask, IInv, AnswersOK, AnswersAreTrue, Answers, history
<1> QED BY <1>2, <1>3, Kept DEF IInv, Ask, watching, working, history, WorkersOK

LEMMA StartCheckInv == ASSUME IInv, NEW s \in Slot, StartCheck(s) PROVE IInv'
<1>1. PICK n \in DOMAIN buffer :
        LET fresh == {i \in 1 .. n : today < buffer[i].expiry}
            tasks == {buffer[i] : i \in fresh}
            stale == {buffer[i] : i \in (1 .. n) \ fresh}
        IN /\ buffer' = SubSeq(buffer, n + 1, Len(buffer))
           /\ buffered' = buffered \ {t.hash : t \in tasks}
           /\ check' = IF tasks = {} THEN check ELSE
                [check EXCEPT ![s] =
                  [files |-> {[hash |-> t.hash, expiry |-> t.expiry] : t \in tasks},
                   tasks |-> tasks, asked |-> Worker, replies |-> {}]]
           /\ Tell({}, CallersOf(stale), {})
  BY DEF StartCheck
<1> DEFINE fresh == {i \in 1 .. n : today < buffer[i].expiry}
           tasks == {buffer[i] : i \in fresh}
           stale == {buffer[i] : i \in (1 .. n) \ fresh}
           files == {[hash |-> t.hash, expiry |-> t.expiry] : t \in tasks}
           made_ == [files |-> files, tasks |-> tasks, asked |-> Worker, replies |-> {}]
<1>2. /\ DOMAIN buffer = 1 .. Len(buffer) /\ Len(buffer) \in Nat /\ buffer \in Seq(Task)
      /\ n \in 0 .. Len(buffer)
  BY LenProperties DEF IInv, BufferOK
<1>3. \A i \in 1 .. n : i \in DOMAIN buffer /\ buffer[i] \in Task /\ Sound(buffer[i])
  BY <1>2 DEF IInv, BufferOK
<1>4. BufferOK'
  <2>1. /\ buffer' \in Seq(Task)
        /\ \A i \in DOMAIN buffer' : i \in Nat /\ i + n \in DOMAIN buffer /\ buffer'[i] = buffer[i + n]
    BY <1>1, <1>2, CutOf
  <2>2. \A i \in DOMAIN buffer' : i + n \notin 1 .. n
    <3>1. DOMAIN buffer' = 1 .. Len(buffer')
      BY <2>1, LenProperties
    <3> QED BY <3>1, <1>2
  <2>3. \A i \in DOMAIN buffer' : \A t \in tasks : buffer'[i].hash # t.hash
    BY <2>1, <2>2, <1>3 DEF IInv, BufferOK
  <2>4. buffered' = buffered \ {t.hash : t \in tasks}
    BY <1>1
  <2> HIDE DEF tasks
  <2>5. \A i \in DOMAIN buffer' : Sound(buffer'[i]) /\ buffer'[i].hash \in buffered'
    BY <2>1, <2>3, <2>4 DEF IInv, BufferOK
  <2>6. \A i, j \in DOMAIN buffer' : buffer'[i].hash = buffer'[j].hash => i = j
    BY <2>1, <1>2, SMTT(30) DEF IInv, BufferOK
  <2> QED BY <2>1, <2>4, <2>5, <2>6 DEF IInv, BufferOK
<1>5. CheckOK'
  <2>1. \A t \in tasks : t \in Task /\ Sound(t)
    BY <1>3
  <2>2. \A t, u \in tasks : t.hash = u.hash => t = u
    BY <1>3 DEF IInv, BufferOK
  <2>3. made_ \in Check
    <3>1. files \subseteq File
      BY <2>1, Kinds DEF File
    <3>2. tasks \subseteq Task
      BY <2>1
    <3> HIDE DEF files, tasks
    <3> QED BY <3>1, <3>2 DEF Check
  <2>4. indexed' = indexed
    BY DEF StartCheck, history
  <2>5. CASE tasks = {}
    BY <1>1, <2>4, <2>5, Kept DEF IInv
  <2>6. CASE tasks # {}
    <3>1. check' = [check EXCEPT ![s] = made_]
      BY <1>1, <2>6
    <3>2. made_.tasks = tasks /\ made_.replies = {}
      OBVIOUS
    <3> HIDE DEF made_, tasks
    <3> QED BY <2>1, <2>2, <2>3, <2>4, <3>1, <3>2 DEF IInv, CheckOK, Ingested
  <2> QED BY <2>5, <2>6
<1>6. AnswersOK'
  <2>1. \A k \in Caller : k \in CallersOf(stale) => k.expiry <= today
    <3>1. ASSUME NEW i \in (1 .. n) \ fresh, NEW k \in buffer[i].callers PROVE k.expiry <= today
      <4>1. buffer[i] \in Task /\ Sound(buffer[i]) /\ ~(today < buffer[i].expiry)
        BY <1>3
      <4>2. today \in Int /\ buffer[i].expiry \in Int /\ k \in Caller
        BY <4>1, Kinds DEF IInv, AnswersOK
      <4>3. k.expiry \in Int
        BY <4>2, CallerAssumption, Kinds
      <4>4. k.expiry <= buffer[i].expiry
        BY <4>1 DEF Sound
      <4> QED BY <4>1, <4>2, <4>3, <4>4
    <3> QED BY <3>1 DEF CallersOf
  <2>2. Tell({}, CallersOf(stale), {})
    BY <1>1
  <2> HIDE DEF stale
  <2> QED BY <2>1, <2>2, TellOK DEF StartCheck, history, IInv
<1> QED BY <1>4, <1>5, <1>6, Kept DEF IInv, StartCheck, watching, working, history, WorkersOK

LEMMA UpdateFilesInv ==
  ASSUME IInv, NEW s \in Slot, NEW w \in Worker, UpdateFiles(s, w)
  PROVE  IInv'
<1> DEFINE processed == {d \in check[s].files : Known(w, d, "ready") # {}}
           underway == {d \in check[s].files \ processed : Known(w, d, "pending") # {}}
<1>1. PICK where \in [underway -> Filter] :
        check' = [check EXCEPT
               ![s].asked = @ \ {w},
               ![s].replies = @ \cup
                 {[worker |-> w, processed |-> {d.hash : d \in processed},
                   pending |-> {<<d.hash, where[d]>> : d \in underway}]}]
  BY DEF UpdateFiles
<1> DEFINE r == [worker |-> w, processed |-> {d.hash : d \in processed},
                 pending |-> {<<d.hash, where[d]>> : d \in underway}]
           c == [check[s] EXCEPT !.asked = @ \ {w}, !.replies = @ \cup {r}]
<1>2. check' = [check EXCEPT ![s] = c]
  BY <1>1 DEF IInv, CheckOK
<1>3. check[s] \in Check /\ check[s].files \subseteq File
  BY DEF IInv, CheckOK, Check
<1>4. r \in Reply
  <2>1. \A d \in check[s].files : d.hash \in Hash
    BY <1>3 DEF File
  <2> QED BY <2>1 DEF Reply
<1>5. \A h \in r.processed : Ingested(h)
  <2>1. ASSUME NEW d \in processed PROVE Ingested(d.hash)
    <3>1. PICK f \in Filter : status[w][f][d.hash] = "ready"
      BY DEF Known
    <3>2. d.hash \in Hash
      BY <1>3 DEF File
    <3> QED BY <3>1, <3>2 DEF IInv, WorkersOK
  <2> QED BY <2>1
<1> HIDE DEF r
<1>6. /\ c \in Check /\ c.tasks = check[s].tasks
      /\ c.replies = check[s].replies \cup {r}
  BY <1>3, <1>4 DEF Check
<1>7. indexed' = indexed
  BY DEF UpdateFiles, history
<1> HIDE DEF c
<1>8. CheckOK'
  BY <1>2, <1>5, <1>6, <1>7 DEF IInv, CheckOK, Ingested
<1> QED BY <1>8, Kept, AnswersKept DEF IInv, UpdateFiles, watching, working, history, WorkersOK

\* What a check hands on is finite.
LEMMA HandedIsFinite ==
  ASSUME CheckOK, NEW s \in Slot, NEW M,
         M \subseteq [task : check[s].tasks, filter : Filter]
  PROVE  IsFiniteSet(M)
<1> DEFINE T == check[s].tasks
           f == [p \in T \X Filter |-> [task |-> p[1], filter |-> p[2]]]
           R == {f[p] : p \in T \X Filter}
<1>1. IsFiniteSet(T)
  BY ByHash, Kinds DEF CheckOK, Check
<1>2. IsFiniteSet(Filter)
  BY FS_Interval, BoundAssumption DEF Filter
<1>3. IsFiniteSet(T \X Filter)
  BY <1>1, <1>2, FS_Product
<1>4. f \in Surjection(T \X Filter, R)
  BY DEF Surjection
<1>5. IsFiniteSet(R)
  BY <1>3, <1>4, FS_Surjection
<1>6. M \subseteq R
  <2>1. ASSUME NEW m \in M PROVE <<m.task, m.filter>> \in T \X Filter /\ m = f[<<m.task, m.filter>>]
    OBVIOUS
  <2> HIDE DEF f
  <2> QED BY <2>1
<1> QED BY <1>5, <1>6, FS_Subset

LEMMA CollectReplyInv == ASSUME IInv, NEW s \in Slot, CollectReply(s) PROVE IInv'
<1>1. PICK r \in check[s].replies :
        LET done == Processed(s, r)
            mine == HandedOn(s, r)
        IN /\ check' = [check EXCEPT
                ![s].replies = @ \ {r},
                ![s].tasks = @ \ (done \cup {m.task : m \in mine}),
                ![s].files = IF check[s].asked = {} THEN {} ELSE @]
           /\ inbox' = [inbox EXCEPT ![r.worker] = @ \o SetToSeq(mine)]
           /\ Tell(CallersOf(done), {}, {})
           /\ UNCHANGED <<today, buffer, buffered, queue, lock, active, phase, sent, result, todo,
                          working, history>>
  BY DEF CollectReply
<1> DEFINE done == Processed(s, r)
           mine == HandedOn(s, r)
           gone == done \cup {m.task : m \in mine}
           c == [check[s] EXCEPT !.replies = @ \ {r}, !.tasks = @ \ gone,
                   !.files = IF check[s].asked = {} THEN {} ELSE @]
<1>2. check[s] \in Check /\ check[s].tasks \subseteq Task /\ r \in Reply
  BY DEF IInv, CheckOK, Check
<1>3. r.worker \in Worker /\ r.pending \subseteq Hash \X Filter
  BY <1>2 DEF Reply
<1>4. CheckOK'
  <2> HIDE DEF gone
  <2>1. check' = [check EXCEPT ![s] = c]
    BY <1>1 DEF IInv, CheckOK, gone
  <2>2. c \in Check /\ c.tasks \subseteq check[s].tasks /\ c.replies \subseteq check[s].replies
    BY <1>2 DEF Check
  <2>3. indexed' = indexed
    BY <1>1 DEF history
  <2> HIDE DEF c
  <2> QED BY <2>1, <2>2, <2>3 DEF IInv, CheckOK, Ingested
<1>5. InboxOK'
  <2>1. mine \subseteq [task : check[s].tasks, filter : Filter]
    BY DEF HandedOn
  <2>2. IsFiniteSet(mine)
    BY <2>1, HandedIsFinite DEF IInv
  <2>3. \A m \in mine : m \in Entry /\ Sound(m.task)
    BY <2>1, <1>2 DEF Entry, IInv, CheckOK
  <2>4. inbox' = [inbox EXCEPT ![r.worker] = @ \o SetToSeq(mine)]
    BY <1>1
  <2> HIDE DEF mine
  <2>5. mine \in SUBSET Entry
    BY <2>3
  <2>6. /\ SetToSeq(mine) \in Seq(Entry)
        /\ \A i \in DOMAIN SetToSeq(mine) : Sound(SetToSeq(mine)[i].task)
    BY <2>2, <2>3, <2>5, SetToSeqIs
  <2>7. inbox[r.worker] \in Seq(Entry)
    BY <1>3 DEF IInv, InboxOK
  <2> DEFINE new == inbox[r.worker] \o SetToSeq(mine)
  <2>8. /\ new \in Seq(Entry)
        /\ \A i \in DOMAIN new : \/ i \in DOMAIN inbox[r.worker] /\ new[i] = inbox[r.worker][i]
                                 \/ \E j \in DOMAIN SetToSeq(mine) : new[i] = SetToSeq(mine)[j]
    BY <2>6, <2>7, ConcatOf
  <2>9. inbox' = [inbox EXCEPT ![r.worker] = new]
    BY <2>4
  <2> HIDE DEF new
  <2>10. \A i \in DOMAIN new : Sound(new[i].task)
    BY <2>6, <2>8, <1>3 DEF IInv, InboxOK
  <2> QED BY <2>8, <2>9, <2>10, <1>3 DEF IInv, InboxOK
<1>6. AnswersOK'
  <2>1. \A k \in Caller : k \in CallersOf(done) => Ingested(k.hash)
    BY DEF CallersOf, IInv, CheckOK, Sound, Processed
  <2>2. Tell(CallersOf(done), {}, {})
    BY <1>1
  <2>3. UNCHANGED <<today, indexed, refused>>
    BY <1>1 DEF history
  <2> HIDE DEF done
  <2> QED BY <2>1, <2>2, <2>3, TellOK DEF IInv
<1> QED BY <1>1, <1>4, <1>5, <1>6, Kept DEF IInv, working, history, WorkersOK

\* A queue keeps its tasks in their places, merged with what a check has for the same
\* file, and gets the others once each.
LEMMA EnqueueOf ==
  ASSUME IInv, NEW s \in Slot, EnqueueChecked(s), NEW g \in DOMAIN queue'
  PROVE  /\ queue'[g] \in Seq(Task) /\ g \in Group
         /\ \A i \in DOMAIN QueueOf(g) :
              /\ i \in DOMAIN queue'[g] /\ QueueOf(g)[i] \in Task /\ QueueOf(g)[i].expiry = g
              /\ Sound(QueueOf(g)[i])
              /\ SameIn(s, g, i) = {} => queue'[g][i] = QueueOf(g)[i]
              /\ \A t \in SameIn(s, g, i) : queue'[g][i] = Merge(QueueOf(g)[i], t)
         /\ \A i \in DOMAIN queue'[g] \ DOMAIN QueueOf(g) : queue'[g][i] \in NewIn(s, g)
         /\ \A t \in NewIn(s, g) : \E i \in DOMAIN queue'[g] \ DOMAIN QueueOf(g) : queue'[g][i] = t
         /\ \A i, j \in DOMAIN queue'[g] \ DOMAIN QueueOf(g) : queue'[g][i] = queue'[g][j] => i = j
<1> DEFINE merged == [i \in DOMAIN QueueOf(g) |->
                        IF SameIn(s, g, i) = {} THEN QueueOf(g)[i]
                        ELSE Merge(QueueOf(g)[i], CHOOSE t \in SameIn(s, g, i) : TRUE)]
           new == SetToSeq(NewIn(s, g))
<1>1. queue'[g] = merged \o new
  BY DEF EnqueueChecked
<1>2. check[s].tasks \subseteq Task /\ \A t, u \in check[s].tasks : t.hash = u.hash => t = u
  BY DEF IInv, CheckOK, Check
<1>3. g \in Group
  BY <1>2, Kinds DEF EnqueueChecked, IInv, QueueOK
<1>4. /\ QueueOf(g) \in Seq(Task)
      /\ \A i \in DOMAIN QueueOf(g) : /\ QueueOf(g)[i].expiry = g /\ Sound(QueueOf(g)[i])
                                      /\ QueueOf(g)[i] \in Task
  <2>1. CASE g \in DOMAIN queue
    <3>1. QueueOf(g) = queue[g] /\ queue[g] \in Seq(Task)
      BY <2>1 DEF QueueOf, IInv, QueueOK
    <3> QED BY <2>1, <3>1 DEF IInv, QueueOK
  <2>2. CASE g \notin DOMAIN queue
    BY <2>2 DEF QueueOf
  <2> QED BY <2>1, <2>2
<1>5. \A i \in DOMAIN QueueOf(g) : \A t \in SameIn(s, g, i) :
         /\ t \in Task /\ t.hash = QueueOf(g)[i].hash
         /\ (CHOOSE u \in SameIn(s, g, i) : TRUE) = t
  BY <1>2 DEF SameIn
<1>6. DOMAIN QueueOf(g) = 1 .. Len(QueueOf(g)) /\ Len(QueueOf(g)) \in Nat
  BY <1>4, LenProperties
<1>7. /\ \A i \in DOMAIN QueueOf(g) : SameIn(s, g, i) = {} => merged[i] = QueueOf(g)[i]
      /\ \A i \in DOMAIN QueueOf(g) : \A t \in SameIn(s, g, i) : merged[i] = Merge(QueueOf(g)[i], t)
      /\ DOMAIN merged = DOMAIN QueueOf(g)
  BY <1>5
<1>8. \A i \in DOMAIN QueueOf(g) : merged[i] \in Task
  <2>1. ASSUME NEW i \in DOMAIN QueueOf(g) PROVE merged[i] \in Task
    <3> HIDE DEF merged
    <3>1. CASE SameIn(s, g, i) = {}
      BY <1>4, <1>7, <3>1
    <3>2. CASE SameIn(s, g, i) # {}
      <4>1. PICK t \in SameIn(s, g, i) : TRUE
        BY <3>2
      <4> QED BY <4>1, <1>4, <1>5, <1>7, Merged
    <3> QED BY <3>1, <3>2
  <2> QED BY <2>1
<1>9. merged \in Seq(Task) /\ Len(merged) = Len(QueueOf(g))
  <2>1. merged \in [1 .. Len(QueueOf(g)) -> Task]
    BY <1>6, <1>8
  <2> QED BY <1>6, <2>1, SequenceOf
<1> HIDE DEF merged
<1>10. NewIn(s, g) \subseteq Task /\ IsFiniteSet(NewIn(s, g))
  <2>1. NewIn(s, g) \subseteq Task /\ \A t, u \in NewIn(s, g) : t.hash = u.hash => t = u
    BY <1>2 DEF NewIn
  <2> QED BY <2>1, Kinds, ByHash
<1>11. /\ new \in Seq(Task) /\ \A i \in DOMAIN new : new[i] \in NewIn(s, g)
       /\ \A i, j \in DOMAIN new : new[i] = new[j] => i = j
       /\ \A x \in NewIn(s, g) : \E i \in DOMAIN new : new[i] = x
  BY <1>10, SetToSeqIs
<1> HIDE DEF new
<1>12. /\ queue'[g] \in Seq(Task)
       /\ \A i \in DOMAIN merged : i \in DOMAIN queue'[g] /\ queue'[g][i] = merged[i]
       /\ \A i \in DOMAIN new : /\ i + Len(merged) \in DOMAIN queue'[g]
                                /\ queue'[g][i + Len(merged)] = new[i]
       /\ \A i \in DOMAIN queue'[g] :
            i \in DOMAIN merged \/ ( i > Len(merged) /\ i - Len(merged) \in DOMAIN new
                                     /\ queue'[g][i] = new[i - Len(merged)])
  BY <1>1, <1>9, <1>11, ConcatOf
<1>13. DOMAIN new = 1 .. Len(new) /\ DOMAIN queue'[g] = 1 .. Len(queue'[g])
  BY <1>11, <1>12, LenProperties
<1>14. \A i \in DOMAIN queue'[g] \ DOMAIN QueueOf(g) :
         i \in Int /\ i - Len(merged) \in DOMAIN new /\ queue'[g][i] = new[i - Len(merged)]
  BY <1>7, <1>12, <1>13
<1>15. \A i, j \in DOMAIN queue'[g] \ DOMAIN QueueOf(g) : queue'[g][i] = queue'[g][j] => i = j
  <2> SUFFICES ASSUME NEW i \in DOMAIN queue'[g] \ DOMAIN QueueOf(g),
                      NEW j \in DOMAIN queue'[g] \ DOMAIN QueueOf(g), queue'[g][i] = queue'[g][j]
               PROVE  i = j
    OBVIOUS
  <2>1. i - Len(merged) = j - Len(merged)
    BY <1>11, <1>14
  <2> QED BY <2>1, <1>14, <1>9, <1>6
<1>16. \A t \in NewIn(s, g) : \E i \in DOMAIN queue'[g] \ DOMAIN QueueOf(g) : queue'[g][i] = t
  <2> SUFFICES ASSUME NEW t \in NewIn(s, g)
               PROVE  \E i \in DOMAIN queue'[g] \ DOMAIN QueueOf(g) : queue'[g][i] = t
    OBVIOUS
  <2>1. PICK i \in DOMAIN new : new[i] = t
    BY <1>11
  <2>2. i + Len(merged) \in DOMAIN queue'[g] /\ queue'[g][i + Len(merged)] = t
    BY <1>12, <2>1
  <2>3. i + Len(merged) \notin DOMAIN QueueOf(g)
    BY <1>6, <1>9, <1>13
  <2> QED BY <2>2, <2>3
<1>17. \A i \in DOMAIN QueueOf(g) : i \in DOMAIN queue'[g] /\ queue'[g][i] = merged[i]
  BY <1>7, <1>12
<1> QED BY <1>3, <1>4, <1>7, <1>11, <1>12, <1>14, <1>15, <1>16, <1>17

LEMMA EnqueueCheckedInv == ASSUME IInv, NEW s \in Slot, EnqueueChecked(s) PROVE IInv'
<1>1. CheckOK'
  <2>1. check' = [check EXCEPT ![s] = NoCheck] /\ indexed' = indexed
    BY DEF EnqueueChecked, history
  <2>2. NoCheck.tasks = {} /\ NoCheck.replies = {}
    BY DEF NoCheck
  <2> QED BY <2>1, <2>2, Kinds DEF IInv, CheckOK, Ingested
<1>2. check[s].tasks \subseteq Task /\ \A t \in check[s].tasks : Sound(t)
  BY DEF IInv, CheckOK, Check
<1>3. QueueOK'
  <2>1. ASSUME NEW g \in DOMAIN queue'
        PROVE  /\ g \in Group /\ queue'[g] \in Seq(Task)
               /\ \A i \in DOMAIN queue'[g] : Sound(queue'[g][i]) /\ queue'[g][i].expiry = g
               /\ \A i, j \in DOMAIN queue'[g] : queue'[g][i].hash = queue'[g][j].hash => i = j
    <3>1. ASSUME NEW i \in DOMAIN QueueOf(g)
          PROVE  /\ Sound(queue'[g][i]) /\ queue'[g][i].expiry = g
                 /\ queue'[g][i].hash = QueueOf(g)[i].hash
      <4>1. CASE SameIn(s, g, i) = {}
        BY <4>1, EnqueueOf
      <4>2. CASE SameIn(s, g, i) # {}
        <5>1. PICK t \in SameIn(s, g, i) : TRUE
          BY <4>2
        <5>2. t \in Task /\ Sound(t) /\ t.hash = QueueOf(g)[i].hash /\ t.expiry = g
          BY <1>2 DEF SameIn
        <5>3. /\ queue'[g][i] = Merge(QueueOf(g)[i], t) /\ QueueOf(g)[i] \in Task
              /\ QueueOf(g)[i].expiry = g /\ Sound(QueueOf(g)[i])
          BY EnqueueOf
        <5> QED BY <5>2, <5>3, Merged
      <4> QED BY <4>1, <4>2
    <3>2. \A i \in DOMAIN queue'[g] \ DOMAIN QueueOf(g) :
             /\ Sound(queue'[g][i]) /\ queue'[g][i].expiry = g
             /\ \A j \in DOMAIN QueueOf(g) : QueueOf(g)[j].hash # queue'[g][i].hash
      BY <1>2, EnqueueOf DEF NewIn
    <3>3. \A i \in DOMAIN queue'[g] : Sound(queue'[g][i]) /\ queue'[g][i].expiry = g
      BY <3>1, <3>2
    <3>4. \A i, j \in DOMAIN QueueOf(g) : QueueOf(g)[i].hash = QueueOf(g)[j].hash => i = j
      BY DEF QueueOf, IInv, QueueOK
    <3>5. \A i, j \in DOMAIN queue'[g] \ DOMAIN QueueOf(g) : queue'[g][i].hash = queue'[g][j].hash => i = j
      <4>1. \A t, u \in NewIn(s, g) : t.hash = u.hash => t = u
        BY DEF NewIn, IInv, CheckOK
      <4> QED BY <4>1, EnqueueOf
    <3>6. \A i, j \in DOMAIN queue'[g] : queue'[g][i].hash = queue'[g][j].hash => i = j
      BY <3>1, <3>2, <3>4, <3>5
    <3> QED BY <3>3, <3>6, EnqueueOf
  <2>2. queue' \in [DOMAIN queue' -> Seq(Task)]
    BY <2>1 DEF EnqueueChecked
  <2> QED BY <2>1, <2>2 DEF QueueOK
<1>4. DOMAIN queue \subseteq DOMAIN queue'
  BY DEF EnqueueChecked
<1> QED BY <1>1, <1>3, <1>4, Kept, AnswersKept DEF IInv, EnqueueChecked, watching, working, history, WorkersOK

LEMMA CheckFailsInv == ASSUME IInv, NEW s \in Slot, CheckFails(s) PROVE IInv'
<1>1. CheckOK'
  <2>1. check' = [check EXCEPT ![s] = NoCheck] /\ indexed' = indexed
    BY DEF CheckFails
  <2>2. NoCheck.tasks = {} /\ NoCheck.replies = {}
    BY DEF NoCheck
  <2> QED BY <2>1, <2>2, Kinds DEF IInv, CheckOK, Ingested
<1>2. AnswersOK'
  BY TellOK DEF CheckFails, IInv
<1>3. mishaps' \in [FaultKinds -> Nat]
  BY MishapOK DEF CheckFails, IInv
<1> QED BY <1>1, <1>2, <1>3, Kept DEF IInv, CheckFails, watching, working

LEMMA WatcherReceiveInv == ASSUME IInv, NEW w \in Worker, WatcherReceive(w) PROVE IInv'
<1> DEFINE m == Head(inbox[w])
           same == {a \in active[w] : a.task.hash = m.task.hash}
           moved(a) == [task |-> Merge(a.task, m.task),
                        filter |-> IF a.task.expiry < m.task.expiry THEN m.filter ELSE a.filter]
           now == (active[w] \ same) \cup (IF same = {} THEN {m} ELSE {moved(a) : a \in same})
<1>1. /\ active' = [active EXCEPT ![w] = now] /\ inbox' = [inbox EXCEPT ![w] = Tail(@)]
      /\ inbox[w] # <<>> /\ inbox[w] \in Seq(Entry)
  BY DEF WatcherReceive, IInv, InboxOK
<1>2. /\ m = inbox[w][1] /\ m \in Entry /\ 1 \in DOMAIN inbox[w] /\ Tail(inbox[w]) \in Seq(Entry)
      /\ \A i \in DOMAIN Tail(inbox[w]) : i + 1 \in DOMAIN inbox[w] /\ Tail(inbox[w])[i] = inbox[w][i + 1]
  BY <1>1, TailOf
<1>3. InboxOK'
  BY <1>1, <1>2 DEF IInv, InboxOK
<1>4. Sound(m.task) /\ m.task \in Task /\ m.filter \in Filter
  BY <1>2 DEF IInv, InboxOK, Entry
<1> HIDE DEF m
<1>5. \A a \in same : /\ moved(a) \in Entry /\ Sound(moved(a).task)
                      /\ moved(a).task.hash = m.task.hash
  <2>1. ASSUME NEW a \in same
        PROVE  moved(a) \in Entry /\ Sound(moved(a).task) /\ moved(a).task.hash = m.task.hash
    <3>1. a \in Entry /\ a.task \in Task /\ a.filter \in Filter /\ Sound(a.task) /\ a.task.hash = m.task.hash
      BY DEF IInv, ActiveOK, Entry
    <3>2. /\ Merge(a.task, m.task) \in Task /\ Sound(Merge(a.task, m.task))
          /\ Merge(a.task, m.task).hash = m.task.hash
      BY <1>4, <3>1, Merged
    <3> QED BY <3>1, <3>2, <1>4 DEF Entry
  <2> QED BY <2>1
<1>6. \A a, b \in same : a = b
  BY DEF IInv, ActiveOK
<1>7. \A b \in now : \/ b \in active[w] /\ b.task.hash # m.task.hash
                     \/ b = m
                     \/ \E a \in same : b = moved(a)
  OBVIOUS
<1>8. \A b, c \in now : b.task.hash = m.task.hash /\ c.task.hash = m.task.hash => b = c
  <2>1. CASE same = {}
    BY <2>1
  <2>2. CASE same # {}
    BY <1>6, <2>2
  <2> QED BY <2>1, <2>2
<1>9. ActiveOK'
  <2>1. \A b \in now : b \in Entry /\ Sound(b.task)
    BY <1>2, <1>4, <1>5, <1>7 DEF IInv, ActiveOK
  <2>2. \A b, c \in now : b.task.hash = c.task.hash => b = c
    <3> HIDE DEF now, moved, same
    <3>1. \A b \in now : b.task.hash # m.task.hash => b \in active[w]
      BY <1>5, <1>7
    <3> QED BY <3>1, <1>8 DEF IInv, ActiveOK
  <2> HIDE DEF now
  <2> QED BY <1>1, <2>1, <2>2 DEF IInv, ActiveOK
<1> QED BY <1>3, <1>9, Kept, AnswersKept DEF IInv, WatcherReceive, checking, working, history, WorkersOK

LEMMA TickInv == ASSUME IInv, NEW w \in Worker, Tick(w) PROVE IInv'
<1> DEFINE old == {a \in active[w] : a.task.expiry <= today}
           rest == active[w] \ old
           post == phase[w] = "idle" /\ HasWork(rest)
           names == {<<a.filter, a.task.hash>> : a \in rest}
<1>1. /\ Tell({}, CallersOf({a.task : a \in old}), {})
      /\ active' = [active EXCEPT ![w] = rest]
      /\ phase' = [phase EXCEPT ![w] = IF post THEN "sent" ELSE @]
      /\ sent' = [sent EXCEPT ![w] = IF post THEN names ELSE @]
  BY DEF Tick
<1>2. \A a \in active[w] : a \in Entry /\ a.task \in Task /\ a.filter \in Filter /\ Sound(a.task)
  BY DEF IInv, ActiveOK, Entry
<1>3. ActiveOK'
  BY <1>1 DEF IInv, ActiveOK
<1>4. AnswersOK'
  <2>1. ASSUME NEW a \in old, NEW k \in a.task.callers PROVE k.expiry <= today
    <3>1. a.task.expiry \in Int /\ today \in Int /\ k.expiry \in Int /\ k.expiry <= a.task.expiry
      BY <1>2, CallerAssumption, Kinds DEF IInv, AnswersOK, Sound
    <3> QED BY <3>1
  <2>2. \A k \in Caller : k \in CallersOf({a.task : a \in old}) => k.expiry <= today
    BY <2>1 DEF CallersOf
  <2> HIDE DEF old
  <2> QED BY <1>1, <2>2, TellOK DEF Tick, history, IInv
<1>5. WatcherOK'
  <2>1. names \subseteq Pairs
    <3>1. \A a \in rest : <<a.filter, a.task.hash>> \in Pairs
      BY <1>2, Kinds DEF Pairs
    <3> QED BY <3>1
  <2> HIDE DEF names, post, rest
  <2>2. post => phase[w] = "idle"
    BY DEF post
  <2>3. UNCHANGED <<lock, result, todo, queue, indexed, refused>>
    BY DEF Tick, history
  <2>4. sent' \in [Worker -> SUBSET Pairs] /\ phase' \in [Worker -> Phases]
    BY <1>1, <2>1 DEF IInv, WatcherOK, Phases
  <2>5. ASSUME NEW v \in Worker
        PROVE  /\ v \in lock' <=> phase'[v] = "assign"
               /\ phase'[v] # "sent" => sent'[v] = {}
               /\ phase'[v] \in {"idle", "sent"} => result'[v] = NoResult
               /\ phase'[v] \in {"idle", "sent", "answered"} => todo'[v] = {}
               /\ phase'[v] \in {"assign", "create"} => phase[v] = phase'[v]
    BY <1>1, <2>2, <2>3 DEF IInv, WatcherOK
  <2> QED BY <2>3, <2>4, <2>5 DEF IInv, WatcherOK, Ingested
<1> QED BY <1>3, <1>4, <1>5, Kept DEF IInv, Tick, checking, working, history, WorkersOK

LEMMA TakeResultInv == ASSUME IInv, NEW w \in Worker, TakeResult(w) PROVE IInv'
<1> DEFINE r == result[w]
           named == {a \in active[w] : \E p \in r.completed \cup r.rejected : p[2] = a.task.hash}
           of(S) == CallersOf({a.task : a \in {b \in named : <<b.filter, b.task.hash>> \in S}})
           yes == of(r.completed)
           no == of(r.rejected)
<1>1. /\ Tell(yes, no, CallersOf({a.task : a \in named}) \ (yes \cup no))
      /\ active' = [active EXCEPT ![w] = @ \ named]
  BY DEF TakeResult
<1>2. ActiveOK'
  BY <1>1 DEF IInv, ActiveOK
<1>3. r \in Result
  BY DEF IInv, WatcherOK
<1>4. AnswersOK'
  <2>1. ASSUME NEW a \in active[w], NEW k \in a.task.callers
        PROVE  /\ <<a.filter, a.task.hash>> \in r.completed => Ingested(k.hash)
               /\ <<a.filter, a.task.hash>> \in r.rejected => k.hash \in refused
    <3>1. k.hash = a.task.hash
      BY DEF IInv, ActiveOK, Sound
    <3> QED BY <3>1 DEF IInv, WatcherOK
  <2>2. \A k \in Caller : /\ k \in yes => Ingested(k.hash)
                          /\ k \in no => k.hash \in refused
    BY <2>1 DEF CallersOf
  <2>3. UNCHANGED <<today, indexed, refused>>
    BY DEF TakeResult, history
  <2> HIDE DEF yes, no, named
  <2> QED BY <1>1, <2>2, <2>3, TellOK DEF IInv
<1>5. WatcherOK'
  <2>1. UNCHANGED <<queue, indexed, refused, sent>> /\ phase[w] = "answered"
    BY DEF TakeResult, history
  <2>2. CASE r.pressure
    <3>1. /\ phase' = [phase EXCEPT ![w] = "idle"] /\ result' = [result EXCEPT ![w] = NoResult]
          /\ UNCHANGED <<lock, todo>>
      BY <2>2 DEF TakeResult
    <3>2. NoResult.completed = {} /\ NoResult.rejected = {}
      BY DEF NoResult
    <3>3. result' \in [Worker -> Result] /\ phase' \in [Worker -> Phases]
      BY <3>1, Kinds DEF IInv, WatcherOK, Phases
    <3> QED BY <2>1, <3>1, <3>2, <3>3 DEF IInv, WatcherOK, Ingested
  <2>3. CASE ~r.pressure
    <3> DEFINE h == [r EXCEPT !.completed = {}, !.rejected = {}]
               mine == {f \in Filter : r.group[f] \in DOMAIN queue}
    <3>1. /\ phase' = [phase EXCEPT ![w] = "assign"] /\ lock' = lock \cup {w} /\ lock = {}
          /\ todo' = [todo EXCEPT ![w] = mine]
      BY <2>3 DEF TakeResult, QueueFree
    <3>2. result' = [result EXCEPT ![w] = h]
      BY <2>3 DEF TakeResult, IInv, WatcherOK
    <3>3. h \in Result /\ h.completed = {} /\ h.rejected = {} /\ h.group = r.group
      BY <1>3 DEF Result
    <3>4. mine \subseteq Filter /\ mine \subseteq Nat /\ \A f \in mine : h.group[f] \in DOMAIN queue
      BY <3>3, BoundAssumption DEF Filter
    <3> HIDE DEF h, mine
    <3>5. /\ result' \in [Worker -> Result] /\ phase' \in [Worker -> Phases]
          /\ todo' \in [Worker -> SUBSET Nat]
      BY <3>1, <3>2, <3>3, <3>4 DEF IInv, WatcherOK, Phases
    <3>6. lock' = {w}
      BY <3>1
    <3>7. ASSUME NEW v \in Worker
          PROVE  /\ v \in lock' <=> phase'[v] = "assign"
                 /\ phase'[v] # "sent" => sent'[v] = {}
                 /\ phase'[v] \in {"idle", "sent"} => result'[v] = NoResult
                 /\ phase'[v] \in {"idle", "sent", "answered"} => todo'[v] = {}
                 /\ phase'[v] = "assign" =>
                      todo'[v] \subseteq Filter /\ \A f \in todo'[v] : result'[v].group[f] \in DOMAIN queue'
                 /\ phase'[v] = "create" => todo'[v] \subseteq DOMAIN queue'
                 /\ \A p \in result'[v].completed : Ingested(p[2])
                 /\ \A p \in result'[v].rejected : p[2] \in refused'
      <4>1. CASE v = w
        BY <2>1, <3>1, <3>2, <3>3, <3>4, <3>6, <4>1 DEF IInv, WatcherOK
      <4>2. CASE v # w
        BY <2>1, <3>1, <3>2, <3>6, <4>2 DEF IInv, WatcherOK
      <4> QED BY <4>1, <4>2
    <3> QED BY <2>1, <3>5, <3>6, <3>7 DEF IInv, WatcherOK, Ingested
  <2> QED BY <2>2, <2>3
<1> QED BY <1>2, <1>4, <1>5, Kept DEF IInv, TakeResult, checking, working, history, WorkersOK

LEMMA CountOK ==
  ASSUME NEW H \in SUBSET Hash
  PROVE  IsFiniteSet(H) /\ Cardinality(H) \in Nat
<1>1. IsFiniteSet(H)
  BY HashAssumption, FS_Subset
<1> QED BY <1>1, FS_CardinalityType

\* What a worker does with a request, and what it says of it.
LEMMA IngestFilesOf ==
  ASSUME IInv, NEW w \in Worker, IngestFiles(w)
  PROVE  /\ UNCHANGED <<index, todo, active>> /\ phase[w] = "sent" /\ phase'[w] = "answered"
         /\ sent'[w] = {}
         /\ \A v \in Worker \ {w} :
              /\ phase'[v] = phase[v] /\ result'[v] = result[v] /\ todo'[v] = todo[v]
              /\ sent'[v] = sent[v] /\ status'[v] = status[v]
         /\ \A f \in Filter, h \in Hash :
              status'[w][f][h] = IF <<f, h>> \in sent[w] /\ index[w][f] # 0
                                 THEN CASE status[w][f][h] = "missing" -> "fetching"
                                        [] status[w][f][h] = "fetched" -> "pending"
                                        [] status[w][f][h] = "rejected" -> "missing"
                                        [] OTHER -> status[w][f][h]
                                 ELSE status[w][f][h]
         /\ result'[w].group = index[w]
         /\ \A f \in Filter : result'[w].pending[f] = {h \in Hash : status'[w][f][h] \in Counted}
         /\ result'[w].completed =
              {p \in sent[w] : index[w][p[1]] # 0 /\ status[w][p[1]][p[2]] = "ready"}
         /\ result'[w].rejected =
              {p \in sent[w] : index[w][p[1]] # 0 /\ status[w][p[1]][p[2]] = "rejected"}
<1> DEFINE asked(f, h) == <<f, h>> \in sent[w] /\ index[w][f] # 0
           what(s) == {p \in sent[w] : index[w][p[1]] # 0 /\ status[w][p[1]][p[2]] = s}
           next(s) == CASE s = "missing" -> "fetching"
                        [] s = "fetched" -> "pending"
                        [] s = "rejected" -> "missing"
                        [] OTHER -> s
           after == [f \in Filter |-> [h \in Hash |->
                      IF asked(f, h) THEN next(status[w][f][h]) ELSE status[w][f][h]]]
           in(f, S) == {h \in Hash : after[f][h] \in S}
<1>1. PICK pressure \in BOOLEAN :
        /\ IF pressure THEN Mishap("pressure") ELSE UNCHANGED mishaps
        /\ result' = [result EXCEPT ![w] =
             [completed |-> what("ready"), rejected |-> what("rejected"),
              pending |-> [f \in Filter |-> in(f, Counted)],
              size |-> [f \in Filter |-> Cardinality(in(f, {"pending", "ready"}))],
              group |-> index[w], pressure |-> pressure]]
  BY DEF IngestFiles
<1>2. /\ status' = [status EXCEPT ![w] = after] /\ phase[w] = "sent"
      /\ phase' = [phase EXCEPT ![w] = "answered"] /\ sent' = [sent EXCEPT ![w] = {}]
      /\ UNCHANGED <<index, todo, active>>
  BY DEF IngestFiles
<1> DEFINE h == [completed |-> what("ready"), rejected |-> what("rejected"),
                 pending |-> [f \in Filter |-> in(f, Counted)],
                 size |-> [f \in Filter |-> Cardinality(in(f, {"pending", "ready"}))],
                 group |-> index[w], pressure |-> pressure]
<1>3. /\ h.group = index[w] /\ h.completed = what("ready") /\ h.rejected = what("rejected")
      /\ \A f \in Filter : h.pending[f] = in(f, Counted)
  OBVIOUS
<1>4. result' = [result EXCEPT ![w] = h]
  BY <1>1
<1>5. \A f \in Filter, x \in Hash :
        after[f][x] = IF asked(f, x) THEN next(status[w][f][x]) ELSE status[w][f][x]
  OBVIOUS
<1> HIDE DEF h, after
<1>6. status'[w] = after /\ result'[w] = h
  BY <1>2, <1>4 DEF IInv, WatcherOK, WorkersOK
<1> QED BY <1>2, <1>3, <1>4, <1>5, <1>6 DEF IInv, WatcherOK, WorkersOK

LEMMA IngestFilesInv == ASSUME IInv, NEW w \in Worker, IngestFiles(w) PROVE IInv'
<1> DEFINE asked(f, h) == <<f, h>> \in sent[w] /\ index[w][f] # 0
           what(s) == {p \in sent[w] : index[w][p[1]] # 0 /\ status[w][p[1]][p[2]] = s}
           next(s) == CASE s = "missing" -> "fetching"
                        [] s = "fetched" -> "pending"
                        [] s = "rejected" -> "missing"
                        [] OTHER -> s
           after == [f \in Filter |-> [h \in Hash |->
                      IF asked(f, h) THEN next(status[w][f][h]) ELSE status[w][f][h]]]
           in(f, S) == {h \in Hash : after[f][h] \in S}
<1>1. PICK pressure \in BOOLEAN :
        /\ IF pressure THEN Mishap("pressure") ELSE UNCHANGED mishaps
        /\ result' = [result EXCEPT ![w] =
             [completed |-> what("ready"), rejected |-> what("rejected"),
              pending |-> [f \in Filter |-> in(f, Counted)],
              size |-> [f \in Filter |-> Cardinality(in(f, {"pending", "ready"}))],
              group |-> index[w], pressure |-> pressure]]
  BY DEF IngestFiles
<1>2. status' = [status EXCEPT ![w] = after]
  BY DEF IngestFiles
<1> DEFINE h == [completed |-> what("ready"), rejected |-> what("rejected"),
                 pending |-> [f \in Filter |-> in(f, Counted)],
                 size |-> [f \in Filter |-> Cardinality(in(f, {"pending", "ready"}))],
                 group |-> index[w], pressure |-> pressure]
<1>3. WorkersOK'
  <2>1. ASSUME NEW f \in Filter, NEW x \in Hash
        PROVE  /\ after[f][x] \in Statuses
               /\ after[f][x] \in {"ready", "rejected"} => after[f][x] = status[w][f][x]
    <3>1. status[w][f][x] \in Statuses
      BY DEF IInv, WorkersOK
    <3>2. next(status[w][f][x]) \in Statuses
      BY <3>1 DEF Statuses
    <3>3. next(status[w][f][x]) \in {"ready", "rejected"} => next(status[w][f][x]) = status[w][f][x]
      BY <3>1 DEF Statuses
    <3>4. after[f][x] = IF asked(f, x) THEN next(status[w][f][x]) ELSE status[w][f][x]
      OBVIOUS
    <3> HIDE DEF next, asked, after
    <3> QED BY <3>1, <3>2, <3>3, <3>4
  <2>2. after \in [Filter -> [Hash -> Statuses]]
    BY <2>1
  <2>3. mishaps' \in [FaultKinds -> Nat]
    BY <1>1, MishapOK DEF IInv, WorkersOK
  <2>8. ASSUME NEW f \in Filter, NEW x \in Hash, index[w][f] = 0
        PROVE  after[f][x] = status[w][f][x]
    BY <2>8
  <2> HIDE DEF after
  <2>4. status' \in [Worker -> [Filter -> [Hash -> Statuses]]]
    BY <1>2, <2>2 DEF IInv, WorkersOK
  <2>5. ASSUME NEW v \in Worker, NEW f \in Filter, NEW x \in Hash
        PROVE  /\ status'[v][f][x] = "ready" => Ingested(x)
               /\ status'[v][f][x] = "rejected" => x \in refused
    BY <1>2, <2>1 DEF IInv, WorkersOK
  <2>6. UNCHANGED <<index, swept, made, indexed, refused>>
    BY DEF IngestFiles
  <2>7. ASSUME NEW v \in Worker, NEW f \in Filter, NEW x \in Hash, index[v][f] = 0
        PROVE  status'[v][f][x] = status[v][f][x]
    BY <1>2, <2>7, <2>8 DEF IInv, WorkersOK
  <2> QED BY <2>3, <2>4, <2>5, <2>6, <2>7 DEF IInv, WorkersOK, Ingested
<1>4. h \in Result
  <2>1. what("ready") \subseteq Pairs /\ what("rejected") \subseteq Pairs
    BY DEF IInv, WatcherOK
  <2>2. index[w] \in [Filter -> Group \cup {0}]
    BY DEF IInv, WorkersOK
  <2>3. \A f \in Filter : Cardinality(in(f, {"pending", "ready"})) \in Nat
    BY CountOK
  <2>4. \A f \in Filter : in(f, Counted) \in SUBSET Hash
    OBVIOUS
  <2> HIDE DEF what, in
  <2> QED BY <2>1, <2>2, <2>3, <2>4 DEF Result
<1>5. /\ \A p \in h.completed : Ingested(p[2])
      /\ \A p \in h.rejected : p[2] \in refused
  <2>1. \A p \in sent[w] : p[1] \in Filter /\ p[2] \in Hash
    BY DEF IInv, WatcherOK, Pairs
  <2>2. h.completed = what("ready") /\ h.rejected = what("rejected")
    OBVIOUS
  <2> HIDE DEF h
  <2> QED BY <2>1, <2>2 DEF IInv, WorkersOK
<1>6. WatcherOK'
  <2>1. UNCHANGED <<lock, todo, queue, indexed, refused>> /\ phase[w] = "sent"
    BY DEF IngestFiles
  <2>2. /\ phase' = [phase EXCEPT ![w] = "answered"] /\ sent' = [sent EXCEPT ![w] = {}]
        /\ result' = [result EXCEPT ![w] = h]
    BY <1>1 DEF IngestFiles
  <2> HIDE DEF h
  <2>3. result' \in [Worker -> Result] /\ phase' \in [Worker -> Phases]
        /\ sent' \in [Worker -> SUBSET Pairs]
    BY <2>2, <1>4 DEF IInv, WatcherOK, Phases
  <2> QED BY <1>5, <2>1, <2>2, <2>3 DEF IInv, WatcherOK, Ingested
<1> QED BY <1>3, <1>6, Kept, AnswersKept DEF IInv, IngestFiles, checking

LEMMA AssignToInv ==
  ASSUME IInv, NEW w \in Worker, NEW f \in Filter, AssignTo(w, f)
  PROVE  IInv'
<1> DEFINE g == result[w].group[f]
           q == queue[g]
           first(n) == {q[i] : i \in 1 .. n}
<1>1. PICK n \in 0 .. Len(q) :
        LET taken == first(n)
            over == {a \in active[w] : a.task.hash \in {t.hash : t \in taken}}
        IN /\ queue' = [queue EXCEPT ![g] = SubSeq(q, n + 1, Len(q))]
           /\ active' = [active EXCEPT ![w] =
                           (@ \ over) \cup {[task |-> t, filter |-> f] : t \in taken}]
           /\ Tell({}, {}, CallersOf({a.task : a \in over}))
  BY DEF AssignTo
<1> DEFINE taken == first(n)
           over == {a \in active[w] : a.task.hash \in {t.hash : t \in taken}}
           now == (active[w] \ over) \cup {[task |-> t, filter |-> f] : t \in taken}
<1>2. g \in DOMAIN queue /\ phase[w] = "assign" /\ f \in todo[w]
  BY DEF AssignTo, IInv, WatcherOK
<1>3. q \in Seq(Task) /\ DOMAIN q = 1 .. Len(q) /\ Len(q) \in Nat
  BY <1>2, LenProperties DEF IInv, QueueOK
<1>4. \A i \in 1 .. n : i \in DOMAIN q /\ q[i] \in Task
  BY <1>3
<1>5. \A t \in taken : \E i \in DOMAIN q : t = q[i] /\ t \in Task
  BY <1>4
<1>6. QueueOK'
  <2> DEFINE rest == SubSeq(q, n + 1, Len(q))
  <2>1. /\ rest \in Seq(Task)
        /\ \A i \in DOMAIN rest : i \in Nat /\ i + n \in DOMAIN q /\ rest[i] = q[i + n]
    BY <1>3, CutOf
  <2>2. queue' = [queue EXCEPT ![g] = rest]
    BY <1>1
  <2> HIDE DEF rest
  <2>3. DOMAIN queue' = DOMAIN queue /\ queue' \in [DOMAIN queue' -> Seq(Task)]
    BY <1>2, <2>1, <2>2 DEF IInv, QueueOK
  <2>4. /\ \A i \in DOMAIN q : Sound(q[i]) /\ q[i].expiry = g
        /\ \A i, j \in DOMAIN q : q[i].hash = q[j].hash => i = j
    BY <1>2 DEF IInv, QueueOK
  <2>5. \A i, j \in DOMAIN rest : rest[i].hash = rest[j].hash => i = j
    <3> SUFFICES ASSUME NEW i \in DOMAIN rest, NEW j \in DOMAIN rest, rest[i].hash = rest[j].hash
                 PROVE  i = j
      OBVIOUS
    <3>1. i + n \in DOMAIN q /\ j + n \in DOMAIN q /\ q[i + n].hash = q[j + n].hash
      BY <2>1
    <3>2. i + n = j + n
      BY <2>4, <3>1
    <3>3. i \in Nat /\ j \in Nat
      BY <2>1
    <3> QED BY <3>2, <3>3, <1>3
  <2>6. \A i \in DOMAIN rest : Sound(rest[i]) /\ rest[i].expiry = g
    BY <2>1, <2>4
  <2> QED BY <1>2, <2>2, <2>3, <2>5, <2>6 DEF IInv, QueueOK
<1>7. ActiveOK'
  <2>1. \A t \in taken : t \in Task /\ Sound(t)
    BY <1>2, <1>5 DEF IInv, QueueOK
  <2>2. \A t, u \in taken : t.hash = u.hash => t = u
    BY <1>2, <1>5 DEF IInv, QueueOK
  <2>3. \A a \in now : \/ a \in active[w] /\ \A t \in taken : t.hash # a.task.hash
                       \/ a.task \in taken /\ a.filter = f /\ a = [task |-> a.task, filter |-> f]
    <3> SUFFICES ASSUME NEW a \in now
                 PROVE  \/ a \in active[w] /\ \A t \in taken : t.hash # a.task.hash
                        \/ a.task \in taken /\ a.filter = f /\ a = [task |-> a.task, filter |-> f]
      OBVIOUS
    <3> HIDE DEF taken
    <3>1. CASE \E t \in taken : a = [task |-> t, filter |-> f]
      <4>1. PICK t \in taken : a = [task |-> t, filter |-> f]
        BY <3>1
      <4>2. a.task = t /\ a.filter = f
        BY <4>1
      <4> QED BY <4>1, <4>2
    <3>2. CASE a \in active[w] /\ a.task.hash \notin {t.hash : t \in taken}
      BY <3>2
    <3> QED BY <3>1, <3>2
  <2>4. active' = [active EXCEPT ![w] = now]
    BY <1>1
  <2> HIDE DEF now, taken
  <2>5. \A a \in now : a \in Entry /\ Sound(a.task)
    BY <2>1, <2>3 DEF IInv, ActiveOK, Entry
  <2>6. \A a, b \in now : a.task.hash = b.task.hash => a = b
    BY <2>2, <2>3 DEF IInv, ActiveOK
  <2> QED BY <2>4, <2>5, <2>6 DEF IInv, ActiveOK
<1>8. AnswersOK'
  <2>1. UNCHANGED <<today, indexed, refused>> /\ Tell({}, {}, CallersOf({a.task : a \in over}))
    BY <1>1 DEF AssignTo, history
  <2> HIDE DEF over
  <2> QED BY <2>1, TellOK DEF IInv
<1>9. WatcherOK'
  <2>1. UNCHANGED <<lock, phase, sent, result, indexed, refused>> /\ DOMAIN queue' = DOMAIN queue
        /\ todo' = [todo EXCEPT ![w] = @ \ {f}]
    BY <1>1 DEF AssignTo, history
  <2>2. todo' \in [Worker -> SUBSET Nat]
    BY <2>1 DEF IInv, WatcherOK
  <2>3. \A v \in Worker : todo'[v] \subseteq todo[v]
    BY <2>1 DEF IInv, WatcherOK
  <2> QED BY <2>1, <2>2, <2>3 DEF IInv, WatcherOK, Ingested
<1> QED BY <1>6, <1>7, <1>8, <1>9, Kept DEF IInv, AssignTo, checking, working, history, WorkersOK

LEMMA FinishAssignInv == ASSUME IInv, NEW w \in Worker, FinishAssign(w) PROVE IInv'
<1> DEFINE more == Backlogged(w)
           h == IF more = {} THEN NoResult ELSE [NoResult EXCEPT !.group = result[w].group]
<1>1. /\ phase[w] = "assign" /\ lock' = lock \ {w}
      /\ todo' = [todo EXCEPT ![w] = more]
      /\ phase' = [phase EXCEPT ![w] = IF more = {} THEN "idle" ELSE "create"]
      /\ result' = [result EXCEPT ![w] = h]
      /\ UNCHANGED <<sent, queue, indexed, refused>>
  BY DEF FinishAssign, history
<1>2. more \subseteq DOMAIN queue /\ more \subseteq Nat
  BY BoundAssumption DEF Backlogged, IInv, QueueOK, Group
<1>3. /\ h \in Result /\ h.completed = {} /\ h.rejected = {}
      /\ more = {} => h = NoResult
  <2>1. result[w].group \in [Filter -> Group \cup {0}]
    BY DEF IInv, WatcherOK, Result
  <2> QED BY <2>1, Kinds DEF NoResult, Result
<1> HIDE DEF h, more
<1>4. WatcherOK'
  <2>1. /\ result' \in [Worker -> Result] /\ phase' \in [Worker -> Phases]
        /\ todo' \in [Worker -> SUBSET Nat] /\ lock' \subseteq Worker
    BY <1>1, <1>2, <1>3 DEF IInv, WatcherOK, Phases
  <2>2. ASSUME NEW v \in Worker
        PROVE  /\ v \in lock' <=> phase'[v] = "assign"
               /\ phase'[v] # "sent" => sent'[v] = {}
               /\ phase'[v] \in {"idle", "sent"} => result'[v] = NoResult
               /\ phase'[v] \in {"idle", "sent", "answered"} => todo'[v] = {}
               /\ phase'[v] = "assign" =>
                    todo'[v] \subseteq Filter /\ \A f \in todo'[v] : result'[v].group[f] \in DOMAIN queue'
               /\ phase'[v] = "create" => todo'[v] \subseteq DOMAIN queue'
               /\ \A p \in result'[v].completed : Ingested(p[2])
               /\ \A p \in result'[v].rejected : p[2] \in refused'
    <3>1. CASE v = w
      BY <1>1, <1>2, <1>3, <3>1 DEF IInv, WatcherOK
    <3>2. CASE v # w
      BY <1>1, <3>2 DEF IInv, WatcherOK
    <3> QED BY <3>1, <3>2
  <2> QED BY <1>1, <2>1, <2>2 DEF IInv, WatcherOK, Ingested
<1> QED BY <1>1, <1>4, Kept, AnswersKept DEF IInv, FinishAssign, checking, working, history, WorkersOK

LEMMA CreateIndexInv == ASSUME IInv, NEW w \in Worker, CreateIndex(w) PROVE IInv'
<1>1. PICK g \in todo[w], id \in Filter :
        /\ result' = [result EXCEPT ![w] =
              IF todo[w] = {g} THEN NoResult ELSE [@ EXCEPT !.group[id] = g]]
        /\ index' = [index EXCEPT ![w][id] = IF @ = 0 THEN g ELSE @]
        /\ made' = [made EXCEPT ![w][id] = IF index[w][id] = 0 THEN @ + 1 ELSE @]
        /\ todo' = [todo EXCEPT ![w] = @ \ {g}]
        /\ phase' = [phase EXCEPT ![w] = IF todo[w] = {g} THEN "idle" ELSE @]
  BY DEF CreateIndex
<1>2. phase[w] = "create" /\ UNCHANGED <<lock, sent, queue, indexed, refused, status, swept, mishaps>>
  BY DEF CreateIndex
<1>3. g \in DOMAIN queue /\ g \in Group
  BY <1>2 DEF IInv, WatcherOK, QueueOK
<1> DEFINE h == IF todo[w] = {g} THEN NoResult
                ELSE [result[w] EXCEPT !.group = [@ EXCEPT ![id] = g]]
<1>4. h \in Result
  <2>1. result[w] \in Result
    BY DEF IInv, WatcherOK
  <2> QED BY <1>3, <2>1, Kinds DEF Result
<1>5. /\ todo[w] = {g} => h = NoResult
      /\ h.completed \subseteq result[w].completed /\ h.rejected \subseteq result[w].rejected
  <2>1. result[w] \in Result
    BY DEF IInv, WatcherOK
  <2> QED BY <2>1 DEF NoResult, Result
<1>6. WatcherOK'
  <2>1. result' = [result EXCEPT ![w] = h]
    BY <1>1 DEF IInv, WatcherOK
  <2> HIDE DEF h
  <2>2. /\ result' \in [Worker -> Result] /\ phase' \in [Worker -> Phases]
        /\ todo' \in [Worker -> SUBSET Nat]
    BY <1>1, <1>4, <2>1 DEF IInv, WatcherOK, Phases
  <2>3. ASSUME NEW v \in Worker
        PROVE  /\ v \in lock' <=> phase'[v] = "assign"
               /\ phase'[v] # "sent" => sent'[v] = {}
               /\ phase'[v] \in {"idle", "sent"} => result'[v] = NoResult
               /\ phase'[v] \in {"idle", "sent", "answered"} => todo'[v] = {}
               /\ phase'[v] = "assign" =>
                    todo'[v] \subseteq Filter /\ \A f \in todo'[v] : result'[v].group[f] \in DOMAIN queue'
               /\ phase'[v] = "create" => todo'[v] \subseteq DOMAIN queue'
               /\ \A p \in result'[v].completed : Ingested(p[2])
               /\ \A p \in result'[v].rejected : p[2] \in refused'
    <3>1. CASE v = w
      BY <1>1, <1>2, <1>5, <2>1, <3>1 DEF IInv, WatcherOK
    <3>2. CASE v # w
      BY <1>1, <1>2, <2>1, <3>2 DEF IInv, WatcherOK
    <3> QED BY <3>1, <3>2
  <2> QED BY <1>2, <2>2, <2>3 DEF IInv, WatcherOK, Ingested
<1>7. WorkersOK'
  <2>1. index' \in [Worker -> [Filter -> Group \cup {0}]]
    BY <1>1, <1>3 DEF IInv, WorkersOK
  <2>2. made' \in [Worker -> [Filter -> Nat]]
    <3>1. (IF index[w][id] = 0 THEN made[w][id] + 1 ELSE made[w][id]) \in Nat
      BY DEF IInv, WorkersOK
    <3>2. made \in [Worker -> [Filter -> Nat]]
      BY DEF IInv, WorkersOK
    <3> QED BY <1>1, <3>1, <3>2
  <2>3. \A v \in Worker : \A f \in Filter : index'[v][f] = 0 => index[v][f] = 0
    BY <1>1 DEF IInv, WorkersOK
  <2> QED BY <1>2, <2>1, <2>2, <2>3 DEF IInv, WorkersOK, Ingested
<1> QED BY <1>2, <1>6, <1>7, Kept, AnswersKept DEF IInv, CreateIndex, checking

LEMMA PollFailsInv == ASSUME IInv, NEW w \in Worker, PollFails(w) PROVE IInv'
<1>1. /\ phase[w] \in {"sent", "answered"} /\ phase' = [phase EXCEPT ![w] = "idle"]
      /\ sent' = [sent EXCEPT ![w] = {}] /\ result' = [result EXCEPT ![w] = NoResult]
      /\ UNCHANGED <<lock, todo, queue, indexed, refused>>
  BY DEF PollFails
<1>2. NoResult \in Result /\ NoResult.completed = {} /\ NoResult.rejected = {}
  BY Kinds DEF NoResult
<1>3. WatcherOK'
  <2>1. /\ result' \in [Worker -> Result] /\ phase' \in [Worker -> Phases]
        /\ sent' \in [Worker -> SUBSET Pairs]
    BY <1>1, <1>2 DEF IInv, WatcherOK, Phases
  <2> QED BY <1>1, <1>2, <2>1 DEF IInv, WatcherOK, Ingested
<1>4. mishaps' \in [FaultKinds -> Nat]
  BY MishapOK DEF IInv, PollFails
<1> QED BY <1>3, <1>4, Kept, AnswersKept DEF IInv, PollFails, checking, working

LEMMA WatcherRestartsInv == ASSUME IInv, NEW w \in Worker, WatcherRestarts(w) PROVE IInv'
<1> DEFINE held(h) == {f \in Filter : index[w][f] # 0 /\ status[w][f][h] = "pending"}
           files == {h \in Hash : held(h) # {}}
<1>1. PICK where \in [files -> Filter] :
        /\ \A h \in files : where[h] \in held(h)
        /\ active' = [active EXCEPT ![w] =
             {[filter |-> where[h],
               task |-> [hash |-> h, expiry |-> index[w][where[h]], callers |-> {}]] : h \in files}]
  BY DEF WatcherRestarts
<1> DEFINE entry(h) == [filter |-> where[h],
                        task |-> [hash |-> h, expiry |-> index[w][where[h]], callers |-> {}]]
           now == {entry(h) : h \in files}
<1>2. ActiveOK'
  <2>1. ASSUME NEW h \in files
        PROVE  entry(h) \in Entry /\ Sound(entry(h).task) /\ entry(h).task.hash = h
    <3>1. where[h] \in Filter /\ index[w][where[h]] # 0 /\ h \in Hash
      BY <1>1
    <3>2. index[w][where[h]] \in Group
      BY <3>1 DEF IInv, WorkersOK
    <3> QED BY <3>1, <3>2 DEF Entry, Task, Sound
  <2>2. active' = [active EXCEPT ![w] = now]
    BY <1>1
  <2> HIDE DEF entry
  <2>3. \A a \in now : \E h \in files : a = entry(h)
    OBVIOUS
  <2> HIDE DEF now, files
  <2>4. \A a \in now : a \in Entry /\ Sound(a.task)
    BY <2>1, <2>3
  <2>5. \A a, b \in now : a.task.hash = b.task.hash => a = b
    BY <2>1, <2>3
  <2> QED BY <2>2, <2>4, <2>5 DEF IInv, ActiveOK
<1>3. AnswersOK'
  BY TellOK DEF WatcherRestarts, IInv
<1>4. WatcherOK'
  <2>1. /\ phase[w] \in {"answered", "create"} /\ phase' = [phase EXCEPT ![w] = "idle"]
        /\ todo' = [todo EXCEPT ![w] = {}] /\ result' = [result EXCEPT ![w] = NoResult]
        /\ UNCHANGED <<lock, sent, queue, indexed, refused>>
    BY DEF WatcherRestarts
  <2>2. NoResult \in Result /\ NoResult.completed = {} /\ NoResult.rejected = {}
    BY Kinds DEF NoResult
  <2>3. /\ result' \in [Worker -> Result] /\ phase' \in [Worker -> Phases]
        /\ todo' \in [Worker -> SUBSET Nat]
    BY <2>1, <2>2 DEF IInv, WatcherOK, Phases
  <2> QED BY <2>1, <2>2, <2>3 DEF IInv, WatcherOK, Ingested
<1>5. mishaps' \in [FaultKinds -> Nat]
  BY MishapOK DEF IInv, WatcherRestarts
<1> QED BY <1>2, <1>3, <1>4, <1>5, Kept DEF IInv, WatcherRestarts, checking, working

LEMMA EndFetchInv ==
  ASSUME IInv, NEW w \in Worker, NEW f \in Filter, NEW h \in Hash, EndFetch(w, f, h)
  PROVE  IInv'
<1>1. PICK s \in {"fetched", "rejected"} :
        /\ status' = [status EXCEPT ![w][f][h] = s]
        /\ refused' = IF s = "rejected" THEN refused \cup {h} ELSE refused
  BY DEF EndFetch
<1>2. UNCHANGED <<index, swept, made, indexed, mishaps>>
  BY DEF EndFetch
<1>3. WorkersOK'
  <2>1. status' \in [Worker -> [Filter -> [Hash -> Statuses]]]
    BY <1>1 DEF IInv, WorkersOK, Statuses
  <2>2. ASSUME NEW v \in Worker, NEW g \in Filter, NEW x \in Hash
        PROVE  status'[v][g][x] = IF v = w /\ g = f /\ x = h THEN s ELSE status[v][g][x]
    BY <1>1 DEF IInv, WorkersOK
  <2>3. index[w][f] # 0
    BY DEF EndFetch, IInv, WorkersOK
  <2> QED BY <1>1, <1>2, <2>1, <2>2, <2>3 DEF IInv, WorkersOK, Ingested
<1>4. refused \subseteq refused'
  BY <1>1
<1> QED BY <1>2, <1>3, <1>4, Kept, AnswersKept DEF IInv, EndFetch, checking, watching

LEMMA EndIngestInv ==
  ASSUME IInv, NEW w \in Worker, NEW f \in Filter, NEW h \in Hash, EndIngest(w, f, h)
  PROVE  IInv'
<1>1. /\ status' = [status EXCEPT ![w][f][h] = "ready"]
      /\ indexed' = indexed \cup {[hash |-> h, expiry |-> index[w][f]]}
      /\ UNCHANGED <<index, swept, made, refused, mishaps>>
  BY DEF EndIngest
<1>2. [hash |-> h, expiry |-> index[w][f]] \in File
  <2>1. index[w][f] # 0
    BY DEF EndIngest, IInv, WorkersOK
  <2>2. index[w][f] \in Group
    BY <2>1 DEF IInv, WorkersOK
  <2> QED BY <2>2 DEF File
<1>3. WorkersOK'
  <2>1. status' \in [Worker -> [Filter -> [Hash -> Statuses]]]
    BY <1>1 DEF IInv, WorkersOK, Statuses
  <2>2. ASSUME NEW v \in Worker, NEW g \in Filter, NEW x \in Hash
        PROVE  status'[v][g][x] = IF v = w /\ g = f /\ x = h THEN "ready" ELSE status[v][g][x]
    BY <1>1 DEF IInv, WorkersOK
  <2>3. \E d \in indexed' : d.hash = h
    <3>1. [hash |-> h, expiry |-> index[w][f]].hash = h
      OBVIOUS
    <3> QED BY <1>1, <3>1
  <2>4. index[w][f] # 0
    BY DEF EndIngest, IInv, WorkersOK
  <2>5. indexed' \subseteq File /\ indexed \subseteq indexed'
    BY <1>1, <1>2 DEF IInv, WorkersOK
  <2> QED BY <1>1, <2>1, <2>2, <2>3, <2>4, <2>5 DEF IInv, WorkersOK, Ingested
<1>4. indexed \subseteq indexed'
  BY <1>1
<1> QED BY <1>1, <1>3, <1>4, Kept, AnswersKept DEF IInv, EndIngest, checking, watching

LEMMA WorkerRestartsInv == ASSUME IInv, NEW w \in Worker, WorkerRestarts(w) PROVE IInv'
<1> DEFINE now == [f \in Filter |-> [h \in Hash |->
                    IF status[w][f][h] \in {"fetching", "rejected"} THEN "missing"
                    ELSE status[w][f][h]]]
<1>1. /\ status' = [status EXCEPT ![w] = now] /\ swept' = [swept EXCEPT ![w] = 0]
      /\ UNCHANGED <<index, made, indexed, refused>>
  BY DEF WorkerRestarts
<1>2. WorkersOK'
  <2>1. \A f \in Filter : \A h \in Hash : now[f][h] \in {status[w][f][h], "missing"}
    OBVIOUS
  <2>2. now \in [Filter -> [Hash -> Statuses]]
    BY DEF IInv, WorkersOK, Statuses
  <2>3. mishaps' \in [FaultKinds -> Nat]
    BY MishapOK DEF IInv, WorkerRestarts
  <2> HIDE DEF now
  <2>4. status' \in [Worker -> [Filter -> [Hash -> Statuses]]] /\ swept' \in [Worker -> Day \cup {0}]
    BY <1>1, <2>2 DEF IInv, WorkersOK
  <2> QED BY <1>1, <2>1, <2>3, <2>4 DEF IInv, WorkersOK, Ingested
<1> QED BY <1>1, <1>2, Kept, AnswersKept DEF IInv, WorkerRestarts, checking, watching

LEMMA CollectGarbageInv == ASSUME IInv, NEW w \in Worker, CollectGarbage(w) PROVE IInv'
<1> DEFINE old == {f \in Filter : index[w][f] < today}
           left == [f \in Filter |-> IF f \in old THEN 0 ELSE index[w][f]]
           now == [f \in Filter |->
                    [h \in Hash |-> IF f \in old /\ status[w][f][h] # "rejected" THEN "missing"
                                    ELSE status[w][f][h]]]
<1>1. /\ index' = [index EXCEPT ![w] = left] /\ status' = [status EXCEPT ![w] = now]
      /\ swept' = [swept EXCEPT ![w] = today]
      /\ UNCHANGED <<indexed, refused, made, mishaps>>
  BY DEF CollectGarbage, history
<1>2. WorkersOK'
  <2>1. \A f \in Filter : \A h \in Hash : now[f][h] \in {status[w][f][h], "missing"}
    OBVIOUS
  <2>2. now \in [Filter -> [Hash -> Statuses]] /\ left \in [Filter -> Group \cup {0}]
    BY DEF IInv, WorkersOK, Statuses
  <2> HIDE DEF now, left
  <2>3. /\ status' \in [Worker -> [Filter -> [Hash -> Statuses]]]
        /\ swept' \in [Worker -> Day \cup {0}] /\ index' \in [Worker -> [Filter -> Group \cup {0}]]
    BY <1>1, <2>2 DEF IInv, WorkersOK, AnswersOK
  <2>4. ASSUME NEW f \in Filter, left[f] = 0, NEW h \in Hash
        PROVE  now[f][h] \in {"missing", "rejected"}
    BY <2>4 DEF IInv, WorkersOK, left, now
  <2>5. ASSUME NEW v \in Worker, NEW f \in Filter, NEW h \in Hash
        PROVE  /\ status'[v][f][h] = "ready" => Ingested(h)
               /\ status'[v][f][h] = "rejected" => h \in refused
               /\ index'[v][f] = 0 => status'[v][f][h] \in {"missing", "rejected"}
    <3>1. CASE v = w
      BY <1>1, <2>1, <2>4, <3>1 DEF IInv, WorkersOK
    <3>2. CASE v # w
      BY <1>1, <3>2 DEF IInv, WorkersOK
    <3> QED BY <3>1, <3>2
  <2> QED BY <1>1, <2>3, <2>5 DEF IInv, WorkersOK, Ingested
<1> QED BY <1>1, <1>2, Kept, AnswersKept DEF IInv, CollectGarbage, checking, watching

LEMMA NextDayInv == ASSUME IInv, NextDay PROVE IInv'
<1>1. today' = today + 1 /\ today < MaxDay /\ UNCHANGED <<answer, indexed, refused>>
  BY DEF NextDay, history
<1>2. AnswersOK'
  <2>1. today \in Int /\ today' \in Day
    BY <1>1, BoundAssumption DEF IInv, AnswersOK, Day
  <2>2. ASSUME NEW k \in Caller PROVE k.expiry <= today => k.expiry <= today'
    <3>1. k.expiry \in Int
      BY CallerAssumption, Kinds
    <3> QED BY <1>1, <2>1, <3>1
  <2> QED BY <1>1, <2>1, <2>2 DEF IInv, AnswersOK, AnswersAreTrue
<1> QED BY <1>1, <1>2, Kept DEF IInv, NextDay, checking, watching, working, history, WorkersOK

\* What one step may be.
LEMMA Steps ==
  ASSUME Next
  PROVE  \/ \E k \in Caller : Ask(k)
         \/ \E s \in Slot : \/ StartCheck(s) \/ CollectReply(s) \/ EnqueueChecked(s) \/ CheckFails(s)
                            \/ \E w \in Worker : UpdateFiles(s, w)
         \/ \E w \in Worker : \/ WatcherReceive(w) \/ Tick(w) \/ IngestFiles(w) \/ TakeResult(w)
                              \/ \E f \in Filter : AssignTo(w, f)
                              \/ FinishAssign(w) \/ CreateIndex(w) \/ PollFails(w)
                              \/ WatcherRestarts(w)
         \/ \E w \in Worker : \/ CollectGarbage(w) \/ WorkerRestarts(w)
                              \/ \E f \in Filter, h \in Hash : EndFetch(w, f, h) \/ EndIngest(w, f, h)
         \/ NextDay
BY DEF Next, RunCheck, RunWatcher, RunWorker

LEMMA NextInv == IInv /\ [Next]_vars => IInv'
<1> SUFFICES ASSUME IInv, [Next]_vars PROVE IInv'
  OBVIOUS
<1>1. CASE UNCHANGED vars
  BY <1>1, Kept, AnswersKept
     DEF IInv, vars, checking, watching, working, history, WorkersOK
<1>2. CASE Next
  BY <1>2, Steps, AskInv, StartCheckInv, UpdateFilesInv, CollectReplyInv, EnqueueCheckedInv,
     CheckFailsInv, WatcherReceiveInv, TickInv, IngestFilesInv, TakeResultInv, AssignToInv,
     FinishAssignInv, CreateIndexInv, PollFailsInv, WatcherRestartsInv, EndFetchInv, EndIngestInv,
     WorkerRestartsInv, CollectGarbageInv, NextDayInv
<1> QED BY <1>1, <1>2

LEMMA Inductive == Spec => []IInv
BY InitInv, NextInv, PTL DEF Spec

LEMMA TypesOfInv == IInv => TypeOK
<1> SUFFICES ASSUME IInv PROVE TypeOK
  OBVIOUS
<1>1. Cardinality(lock) <= 1
  <2>1. CASE lock = {}
    BY <2>1, FS_EmptySet
  <2>2. CASE lock # {}
    <3>1. PICK w \in lock : lock = {w}
      BY <2>2 DEF IInv, WatcherOK
    <3> QED BY <3>1, FS_Singleton
  <2> QED BY <2>1, <2>2
<1>2. \A s \in Slot : check[s].tasks \subseteq Task /\ check[s].asked \subseteq Worker
  BY DEF IInv, CheckOK, Check
<1>3. \A g \in DOMAIN queue : queue[g] \in Seq(Task)
  BY DEF IInv, QueueOK
<1>4. /\ today \in Day /\ answer \in [Caller -> {"none", "waiting", "true", "false", "lost"}]
      /\ buffer \in Seq(Task) /\ buffered \subseteq Hash
      /\ DOMAIN queue \subseteq Group /\ lock \subseteq Worker
  BY DEF IInv, AnswersOK, Answers, BufferOK, QueueOK, WatcherOK
<1>5. /\ inbox \in [Worker -> Seq(Entry)] /\ active \in [Worker -> SUBSET Entry]
      /\ phase \in [Worker -> {"idle", "sent", "answered", "assign", "create"}]
      /\ sent \in [Worker -> SUBSET (Filter \X Hash)]
  BY DEF IInv, InboxOK, ActiveOK, WatcherOK, Phases, Pairs
<1> QED BY <1>1, <1>2, <1>3, <1>4, <1>5 DEF IInv, WorkersOK, File, TypeOK

\* Every variable of the broker, of its watchers and of the workers holds a value of
\* its kind, and at most one watcher holds the lock of the queues (mod.rs:645-1076).
THEOREM TypeCorrect == Spec => []TypeOK
BY Inductive, TypesOfInv, PTL

\* A caller is told true only of a file that was ingested, and false only of one that
\* has expired or that a worker rejected, whichever way its task took (mod.rs:357-370, 645-977).
THEOREM NoFalseAnswer == Spec => []AnswersAreTrue
<1>1. IInv => AnswersAreTrue
  BY DEF IInv, AnswersOK
<1> QED BY <1>1, Inductive, PTL

----------------------------------------------------------------------------
(* The limit on indices of a group *)

Informed == {"answered", "assign", "create"}

\* No index is forgotten by its watcher, which alone makes them, and makes one only
\* for a group that may have one more.
GroupsOK ==
  \A w \in Worker :
    /\ phase[w] \in Informed =>
         \A f \in Filter : index[w][f] # 0 => result[w].group[f] = index[w][f]
    /\ phase[w] = "create" =>
         \A g \in todo[w] : Cardinality(IndicesOf(w, g)) < GroupDuplication

LEMMA IndicesAreFinite ==
  ASSUME NEW F \in SUBSET Filter
  PROVE  IsFiniteSet(F) /\ Cardinality(F) \in Nat
<1>1. IsFiniteSet(Filter)
  BY FS_Interval, BoundAssumption DEF Filter
<1> QED BY <1>1, FS_Subset, FS_CardinalityType

LEMMA GroupsInit == Init => GroupsOK /\ GroupsBounded
<1> SUFFICES ASSUME Init PROVE GroupsOK /\ GroupsBounded
  OBVIOUS
<1>1. ASSUME NEW w \in Worker, NEW g \in Group
      PROVE  Cardinality({f \in Filter : index[w][f] = g}) <= GroupDuplication
  <2>1. {f \in Filter : index[w][f] = g} = {}
    BY Kinds DEF Init
  <2> QED BY <2>1, FS_EmptySet, LimitAssumption
<1> QED BY <1>1 DEF Init, GroupsOK, GroupsBounded, Informed

\* A watcher that learns and makes nothing, while its worker makes nothing.
LEMMA GroupsKept ==
  ASSUME GroupsOK, UNCHANGED index,
         \A w \in Worker :
           \/ phase'[w] \in {"idle", "sent"}
           \/ /\ phase[w] \in {"answered", "assign"} /\ phase'[w] \in {"answered", "assign"}
              /\ result'[w].group = result[w].group
           \/ phase'[w] = phase[w] /\ result'[w] = result[w] /\ todo'[w] = todo[w]
  PROVE  GroupsOK'
<1> SUFFICES ASSUME NEW w \in Worker
             PROVE  /\ phase'[w] \in Informed =>
                         \A f \in Filter : index'[w][f] # 0 => result'[w].group[f] = index'[w][f]
                    /\ phase'[w] = "create" =>
                         \A g \in todo'[w] : Cardinality(IndicesOf(w, g)') < GroupDuplication
  BY DEF GroupsOK
<1>1. CASE phase'[w] \in {"idle", "sent"}
  BY <1>1 DEF Informed
<1>2. CASE /\ phase[w] \in {"answered", "assign"} /\ phase'[w] \in {"answered", "assign"}
           /\ result'[w].group = result[w].group
  BY <1>2 DEF GroupsOK, Informed
<1>3. CASE phase'[w] = phase[w] /\ result'[w] = result[w] /\ todo'[w] = todo[w]
  BY <1>3 DEF GroupsOK, IndicesOf
<1> QED BY <1>1, <1>2, <1>3

LEMMA GroupsIngest ==
  ASSUME IInv, GroupsOK, NEW w \in Worker, IngestFiles(w)
  PROVE  GroupsOK'
<1>1. /\ result'[w].group = index[w] /\ phase'[w] = "answered" /\ index' = index
      /\ \A v \in Worker \ {w} : phase'[v] = phase[v] /\ result'[v] = result[v] /\ todo'[v] = todo[v]
  BY IngestFilesOf
<1> SUFFICES ASSUME NEW v \in Worker
             PROVE  /\ phase'[v] \in Informed =>
                         \A f \in Filter : index'[v][f] # 0 => result'[v].group[f] = index'[v][f]
                    /\ phase'[v] = "create" =>
                         \A g \in todo'[v] : Cardinality(IndicesOf(v, g)') < GroupDuplication
  BY DEF GroupsOK
<1>2. CASE v = w
  BY <1>1, <1>2
<1>3. CASE v # w
  BY <1>1, <1>3 DEF GroupsOK, IndicesOf
<1> QED BY <1>2, <1>3

LEMMA GroupsFinish ==
  ASSUME IInv, GroupsOK, NEW w \in Worker, FinishAssign(w)
  PROVE  GroupsOK'
<1> DEFINE more == Backlogged(w)
<1>1. /\ phase[w] = "assign" /\ index' = index
      /\ phase'[w] \in Informed => phase'[w] = "create" /\ result'[w].group = result[w].group
                                   /\ todo'[w] = more
      /\ \A v \in Worker \ {w} : phase'[v] = phase[v] /\ result'[v] = result[v] /\ todo'[v] = todo[v]
  <2>1. /\ phase[w] = "assign" /\ todo' = [todo EXCEPT ![w] = more]
        /\ phase' = [phase EXCEPT ![w] = IF more = {} THEN "idle" ELSE "create"]
        /\ result' = [result EXCEPT ![w] = IF more = {} THEN NoResult
                                           ELSE [NoResult EXCEPT !.group = result[w].group]]
        /\ index' = index
    BY DEF FinishAssign, working
  <2>2. [NoResult EXCEPT !.group = result[w].group].group = result[w].group
    BY DEF NoResult
  <2> HIDE DEF more
  <2> QED BY <2>1, <2>2 DEF IInv, WatcherOK, Informed
<1> SUFFICES ASSUME NEW v \in Worker
             PROVE  /\ phase'[v] \in Informed =>
                         \A f \in Filter : index'[v][f] # 0 => result'[v].group[f] = index'[v][f]
                    /\ phase'[v] = "create" =>
                         \A g \in todo'[v] : Cardinality(IndicesOf(v, g)') < GroupDuplication
  BY DEF GroupsOK
<1>2. CASE v = w
  <2>1. \A g \in more : Cardinality(IndicesOf(w, g)) < GroupDuplication
    BY DEF Backlogged
  <2> HIDE DEF more
  <2>2. phase'[w] = "create" => \A g : IndicesOf(w, g)' = IndicesOf(w, g)
    BY <1>1 DEF IndicesOf, Informed
  <2> QED BY <1>1, <1>2, <2>1, <2>2 DEF GroupsOK, Informed
<1>3. CASE v # w
  BY <1>1, <1>3 DEF GroupsOK, IndicesOf
<1> QED BY <1>2, <1>3

\* The identifier of a new index is free, and its group may have one more.
LEMMA CreateIndexOf ==
  ASSUME IInv, GroupsOK, NEW w \in Worker, NEW g \in todo[w], NEW id \in Filter, phase[w] = "create",
         \A f \in {x \in Filter : result[w].group[x] # 0} : f < id
  PROVE  /\ g \in Group /\ result[w].group[id] = 0 /\ index[w][id] = 0
         /\ Cardinality(IndicesOf(w, g)) < GroupDuplication
<1>1. g \in Group
  BY DEF IInv, WatcherOK, QueueOK
<1>2. result[w].group[id] = 0
  BY Kinds
<1> QED BY <1>1, <1>2 DEF GroupsOK, Informed

LEMMA GroupsCreate ==
  ASSUME IInv, GroupsOK, GroupsBounded, NEW w \in Worker, CreateIndex(w)
  PROVE  GroupsOK' /\ GroupsBounded'
<1>1. PICK g \in todo[w], id \in Filter :
        /\ \A f \in {x \in Filter : result[w].group[x] # 0} : f < id
        /\ result' = [result EXCEPT ![w] =
              IF todo[w] = {g} THEN NoResult ELSE [@ EXCEPT !.group[id] = g]]
        /\ index' = [index EXCEPT ![w][id] = IF @ = 0 THEN g ELSE @]
        /\ todo' = [todo EXCEPT ![w] = @ \ {g}]
        /\ phase' = [phase EXCEPT ![w] = IF todo[w] = {g} THEN "idle" ELSE @]
  BY DEF CreateIndex
<1>2. phase[w] = "create"
  BY DEF CreateIndex
<1>3. /\ g \in Group /\ result[w].group[id] = 0 /\ index[w][id] = 0
      /\ Cardinality(IndicesOf(w, g)) < GroupDuplication
  BY <1>1, <1>2, CreateIndexOf
<1>4. \A v \in Worker : \A f \in Filter :
         index'[v][f] = IF v = w /\ f = id THEN g ELSE index[v][f]
  BY <1>1, <1>3 DEF IInv, WorkersOK
<1>5. ASSUME todo[w] # {g}
      PROVE  \A f \in Filter : result'[w].group[f] = IF f = id THEN g ELSE result[w].group[f]
  <2>1. result[w] \in Result /\ result[w].group \in [Filter -> Group \cup {0}]
    BY DEF IInv, WatcherOK, Result
  <2> DEFINE k == [result[w].group EXCEPT ![id] = g]
             h == [result[w] EXCEPT !.group = k]
  <2>2. result' = [result EXCEPT ![w] = h]
    BY <1>1, <1>5 DEF IInv, WatcherOK
  <2>3. h.group = k
    BY <2>1 DEF Result
  <2>4. \A f \in Filter : k[f] = IF f = id THEN g ELSE result[w].group[f]
    BY <2>1
  <2> HIDE DEF h, k
  <2>5. result'[w] = h
    BY <2>2 DEF IInv, WatcherOK
  <2> QED BY <2>3, <2>4, <2>5
<1>6. GroupsOK'
  <2> SUFFICES ASSUME NEW v \in Worker
               PROVE  /\ phase'[v] \in Informed =>
                           \A f \in Filter : index'[v][f] # 0 => result'[v].group[f] = index'[v][f]
                      /\ phase'[v] = "create" =>
                           \A e \in todo'[v] : Cardinality(IndicesOf(v, e)') < GroupDuplication
    BY DEF GroupsOK
  <2>1. CASE v = w /\ todo[w] = {g}
    BY <1>1, <2>1 DEF IInv, WatcherOK, Informed
  <2>2. CASE v = w /\ todo[w] # {g}
    <3>1. \A f \in Filter : index'[w][f] # 0 => result'[w].group[f] = index'[w][f]
      BY <1>2, <1>4, <1>5, <2>2 DEF GroupsOK, Informed
    <3>2. ASSUME NEW e \in todo'[w] PROVE Cardinality(IndicesOf(w, e)') < GroupDuplication
      <4>1. e \in todo[w] /\ e # g /\ e # 0
        <5>1. e \in todo[w] /\ e # g
          BY <1>1 DEF IInv, WatcherOK
        <5> QED BY <5>1, <1>2, Kinds DEF IInv, WatcherOK, QueueOK
      <4>2. IndicesOf(w, e)' = {f \in Filter : result'[w].group[f] = e}
        BY DEF IndicesOf
      <4>3. IndicesOf(w, e)' = IndicesOf(w, e)
        BY <1>3, <1>5, <2>2, <4>1, <4>2 DEF IndicesOf
      <4> QED BY <1>2, <4>1, <4>3 DEF GroupsOK
    <3> QED BY <2>2, <3>1, <3>2
  <2>3. CASE v # w
    <3>1. /\ phase'[v] = phase[v] /\ result'[v] = result[v] /\ todo'[v] = todo[v]
          /\ \A f \in Filter : index'[v][f] = index[v][f]
      BY <1>1, <1>4, <2>3 DEF IInv, WatcherOK
    <3> QED BY <3>1 DEF GroupsOK, IndicesOf
  <2> QED BY <2>1, <2>2, <2>3
<1>7. GroupsBounded'
  <2> SUFFICES ASSUME NEW v \in Worker, NEW e \in Group
               PROVE  Cardinality({f \in Filter : index'[v][f] = e}) <= GroupDuplication
    BY DEF GroupsBounded
  <2>1. CASE v = w /\ e = g
    <3>1. {f \in Filter : index'[w][f] = g} \subseteq IndicesOf(w, g) \cup {id}
      <4>1. ASSUME NEW f \in Filter, index'[w][f] = g, f # id PROVE f \in IndicesOf(w, g)
        <5>1. index[w][f] = g /\ g # 0
          BY <1>3, <1>4, <4>1, Kinds
        <5> QED BY <1>2, <5>1 DEF GroupsOK, Informed, IndicesOf
      <4> QED BY <4>1
    <3>2. IsFiniteSet(IndicesOf(w, g)) /\ Cardinality(IndicesOf(w, g)) \in Nat
      BY IndicesAreFinite DEF IndicesOf
    <3>3. /\ IsFiniteSet(IndicesOf(w, g) \cup {id})
          /\ Cardinality(IndicesOf(w, g) \cup {id}) \in Nat
          /\ Cardinality(IndicesOf(w, g) \cup {id}) <= Cardinality(IndicesOf(w, g)) + 1
      <4>1. /\ IsFiniteSet(IndicesOf(w, g) \cup {id})
            /\ \/ Cardinality(IndicesOf(w, g) \cup {id}) = Cardinality(IndicesOf(w, g))
               \/ Cardinality(IndicesOf(w, g) \cup {id}) = Cardinality(IndicesOf(w, g)) + 1
        BY <3>2, FS_AddElement
      <4> QED BY <3>2, <4>1
    <3>4. /\ Cardinality({f \in Filter : index'[w][f] = g}) <= Cardinality(IndicesOf(w, g) \cup {id})
          /\ Cardinality({f \in Filter : index'[w][f] = g}) \in Nat
      BY <3>1, <3>3, FS_Subset, IndicesAreFinite
    <3> QED BY <1>3, <2>1, <3>2, <3>3, <3>4, LimitAssumption
  <2>2. CASE ~(v = w /\ e = g)
    <3>1. {f \in Filter : index'[v][f] = e} = {f \in Filter : index[v][f] = e}
      <4>1. ASSUME NEW f \in Filter PROVE index'[v][f] = e <=> index[v][f] = e
        <5>1. CASE v # w
          BY <1>4, <5>1
        <5>2. CASE v = w /\ e # g /\ f # id
          BY <1>4, <5>2
        <5>3. CASE v = w /\ e # g /\ f = id
          BY <1>3, <1>4, <5>3, Kinds
        <5> QED BY <2>2, <5>1, <5>2, <5>3
      <4> QED BY <4>1, Zenon
    <3> QED BY <3>1 DEF GroupsBounded
  <2> QED BY <2>1, <2>2
<1> QED BY <1>6, <1>7

LEMMA GroupsCollect ==
  ASSUME IInv, GroupsOK, GroupsBounded, NEW w \in Worker, CollectGarbage(w)
  PROVE  GroupsOK' /\ GroupsBounded'
<1>1. /\ \A v \in Worker : \A f \in Filter : index'[v][f] # 0 => index'[v][f] = index[v][f]
      /\ UNCHANGED <<phase, result, todo>>
  BY DEF CollectGarbage, IInv, WorkersOK, watching
<1>2. GroupsOK'
  BY <1>1 DEF GroupsOK, IndicesOf
<1>3. ASSUME NEW v \in Worker, NEW g \in Group
      PROVE  Cardinality({f \in Filter : index'[v][f] = g}) <= GroupDuplication
  <2>1. {f \in Filter : index'[v][f] = g} \subseteq {f \in Filter : index[v][f] = g}
    BY <1>1, Kinds
  <2>2. /\ Cardinality({f \in Filter : index'[v][f] = g}) <= Cardinality({f \in Filter : index[v][f] = g})
        /\ Cardinality({f \in Filter : index'[v][f] = g}) \in Nat
        /\ Cardinality({f \in Filter : index[v][f] = g}) \in Nat
    BY <2>1, FS_Subset, IndicesAreFinite
  <2>3. Cardinality({f \in Filter : index[v][f] = g}) <= GroupDuplication
    BY DEF GroupsBounded
  <2> QED BY <2>2, <2>3, LimitAssumption
<1> QED BY <1>2, <1>3 DEF GroupsBounded

LEMMA GroupsNext == IInv /\ GroupsOK /\ GroupsBounded /\ [Next]_vars => GroupsOK' /\ GroupsBounded'
<1> SUFFICES ASSUME IInv, GroupsOK, GroupsBounded, [Next]_vars PROVE GroupsOK' /\ GroupsBounded'
  OBVIOUS
<1>1. ASSUME UNCHANGED index PROVE GroupsBounded'
  BY <1>1 DEF GroupsBounded
<1>2. ASSUME UNCHANGED <<phase, result, todo, index>> PROVE GroupsOK'
  BY <1>2, GroupsKept
<1>3. CASE UNCHANGED vars
  BY <1>1, <1>2, <1>3 DEF vars, watching, working
<1>4. ASSUME NEW k \in Caller, Ask(k) PROVE GroupsOK' /\ GroupsBounded'
  BY <1>1, <1>2, <1>4 DEF Ask, watching, working
<1>5. ASSUME NEW s \in Slot, \/ StartCheck(s) \/ CollectReply(s) \/ EnqueueChecked(s) \/ CheckFails(s)
                             \/ \E w \in Worker : UpdateFiles(s, w)
      PROVE  GroupsOK' /\ GroupsBounded'
  <2>1. UNCHANGED <<phase, result, todo, index>>
    BY <1>5 DEF StartCheck, CollectReply, EnqueueChecked, CheckFails, UpdateFiles, watching, working
  <2> QED BY <1>1, <1>2, <2>1
<1>6. ASSUME NEW w \in Worker, WatcherReceive(w) PROVE GroupsOK' /\ GroupsBounded'
  BY <1>1, <1>2, <1>6 DEF WatcherReceive, working
<1>7. ASSUME NEW w \in Worker, Tick(w) PROVE GroupsOK' /\ GroupsBounded'
  <2>1. /\ \A v \in Worker : phase'[v] = phase[v] \/ phase'[v] = "sent"
        /\ UNCHANGED <<result, todo, index>>
    BY <1>7 DEF Tick, working, IInv, WatcherOK
  <2> QED BY <1>1, <2>1, GroupsKept
<1>8. ASSUME NEW w \in Worker, IngestFiles(w) PROVE GroupsOK' /\ GroupsBounded'
  BY <1>1, <1>8, GroupsIngest DEF IngestFiles
<1>9. ASSUME NEW w \in Worker, TakeResult(w) PROVE GroupsOK' /\ GroupsBounded'
  <2>1. /\ phase[w] = "answered" /\ index' = index
        /\ \/ phase'[w] = "idle"
           \/ phase'[w] = "assign" /\ result'[w].group = result[w].group
        /\ \A v \in Worker \ {w} : phase'[v] = phase[v] /\ result'[v] = result[v] /\ todo'[v] = todo[v]
    <3>1. CASE result[w].pressure
      BY <1>9, <3>1 DEF TakeResult, working, IInv, WatcherOK
    <3>2. CASE ~result[w].pressure
      <4> DEFINE h == [result[w] EXCEPT !.completed = {}, !.rejected = {}]
      <4>1. /\ phase' = [phase EXCEPT ![w] = "assign"] /\ result' = [result EXCEPT ![w] = h]
            /\ phase[w] = "answered" /\ index' = index
            /\ todo' = [todo EXCEPT ![w] = {f \in Filter : result[w].group[f] \in DOMAIN queue}]
        BY <1>9, <3>2 DEF TakeResult, working, IInv, WatcherOK
      <4>2. h.group = result[w].group
        BY DEF IInv, WatcherOK, Result
      <4> HIDE DEF h
      <4> QED BY <4>1, <4>2 DEF IInv, WatcherOK
    <3> QED BY <3>1, <3>2
  <2> QED BY <1>1, <2>1, GroupsKept
<1>10. ASSUME NEW w \in Worker, NEW f \in Filter, AssignTo(w, f) PROVE GroupsOK' /\ GroupsBounded'
  <2>1. /\ \A v \in Worker \ {w} : todo'[v] = todo[v]
        /\ phase[w] = "assign" /\ UNCHANGED <<phase, result, index>>
    BY <1>10 DEF AssignTo, working, IInv, WatcherOK
  <2> QED BY <1>1, <2>1, GroupsKept
<1>11. ASSUME NEW w \in Worker, FinishAssign(w) PROVE GroupsOK' /\ GroupsBounded'
  BY <1>1, <1>11, GroupsFinish DEF FinishAssign, working
<1>12. ASSUME NEW w \in Worker, CreateIndex(w) PROVE GroupsOK' /\ GroupsBounded'
  BY <1>12, GroupsCreate
<1>13. ASSUME NEW w \in Worker, PollFails(w) \/ WatcherRestarts(w) PROVE GroupsOK' /\ GroupsBounded'
  <2>1. /\ phase'[w] = "idle" /\ index' = index
        /\ \A v \in Worker \ {w} : phase'[v] = phase[v] /\ result'[v] = result[v] /\ todo'[v] = todo[v]
    BY <1>13 DEF PollFails, WatcherRestarts, working, IInv, WatcherOK
  <2> QED BY <1>1, <2>1, GroupsKept
<1>14. ASSUME NEW w \in Worker,
              WorkerRestarts(w) \/ \E f \in Filter, h \in Hash : EndFetch(w, f, h) \/ EndIngest(w, f, h)
       PROVE  GroupsOK' /\ GroupsBounded'
  <2>1. UNCHANGED <<phase, result, todo, index>>
    BY <1>14 DEF WorkerRestarts, EndFetch, EndIngest, watching
  <2> QED BY <1>1, <1>2, <2>1
<1>15. ASSUME NEW w \in Worker, CollectGarbage(w) PROVE GroupsOK' /\ GroupsBounded'
  BY <1>15, GroupsCollect
<1>16. CASE NextDay
  BY <1>1, <1>2, <1>16 DEF NextDay, watching, working
<1>17. CASE Next
  BY <1>4, <1>5, <1>6, <1>7, <1>8, <1>9, <1>10, <1>11, <1>12, <1>13, <1>14, <1>15, <1>16, <1>17, Steps
<1> QED BY <1>3, <1>17

LEMMA GroupsInductive == Spec => [](GroupsOK /\ GroupsBounded)
<1>1. Init => GroupsOK /\ GroupsBounded
  BY GroupsInit
<1>2. IInv /\ (GroupsOK /\ GroupsBounded) /\ [Next]_vars => (GroupsOK /\ GroupsBounded)'
  BY GroupsNext
<1> QED BY <1>1, <1>2, Inductive, PTL DEF Spec

\* A worker never has more indices of a group than per_worker_group_duplication
\* (config.rs:255), although its watcher decides from a response that may be old by the
\* time it creates (mod.rs:1003-1034), and starts again after errors (mod.rs:847-880).
THEOREM DuplicationIsLimited == Spec => []GroupsBounded
BY GroupsInductive, PTL

----------------------------------------------------------------------------
(* The limit on pending files of an index *)

\* An identifier that no index has had is not spoken of.
NamesOK ==
  \A w \in Worker : \A f \in Filter :
    /\ index[w][f] # 0 => made[w][f] # 0
    /\ made[w][f] = 0 =>
         /\ \A s \in Slot : \A r \in check[s].replies : \A p \in r.pending : r.worker = w => p[2] # f
         /\ \A i \in DOMAIN inbox[w] : inbox[w][i].filter # f
         /\ \A a \in active[w] : a.filter # f
         /\ \A p \in sent[w] : p[1] # f
         /\ result[w].group[f] = 0

\* Files an index is working on, or has been or will be asked to.
Named(w, f, h) == \E a \in active[w] : a.filter = f /\ a.task.hash = h
Owes(w, f, h) ==
  \/ status[w][f][h] \in {"fetching", "pending"}
  \/ (Named(w, f, h) \/ <<f, h>> \in sent[w]) /\ status[w][f][h] # "ready"
Owed(w, f) == {h \in Hash : Owes(w, f, h)}

Underway(w, f, h) == index[w][f] = 0 \/ status[w][f][h] \in {"pending", "ready"}

\* What a check learned is pending there.
ToldOK(w, f) ==
  /\ \A s \in Slot : \A r \in check[s].replies : \A p \in r.pending :
       r.worker = w /\ p[2] = f => Underway(w, f, p[1])
  /\ \A i \in DOMAIN inbox[w] : inbox[w][i].filter = f => Underway(w, f, inbox[w][i].task.hash)

\* So is what a request under way does not ask for.
PostedOK(w, f) ==
  phase[w] = "sent" =>
    \A h \in Hash : Named(w, f, h) => <<f, h>> \in sent[w] \/ Underway(w, f, h)

\* The watcher takes new tasks when it knows what the index owes.
LimitOK(w, f) ==
  index[w][f] # 0 =>
    /\ Cardinality(Owed(w, f)) <= PendingLimit
    /\ phase[w] = "answered" =>
         \A h \in Hash : Owes(w, f, h) =>
           \/ h \in result[w].pending[f]
           \/ <<f, h>> \in result[w].rejected /\ status[w][f][h] \in {"missing", "rejected"}
    /\ phase[w] = "assign" /\ f \in todo[w] =>
         \A h \in Hash : Owes(w, f, h) => h \in result[w].pending[f]

First(w, f) == made[w][f] <= 1

OwedOK ==
  \A w \in Worker : \A f \in Filter :
    First(w, f) => ToldOK(w, f) /\ PostedOK(w, f) /\ LimitOK(w, f)

\* Who changes what workers have.
LEMMA WorkerSteps ==
  ASSUME [Next]_vars
  PROVE  \/ UNCHANGED <<index, status, made>>
         \/ \E w \in Worker : \/ IngestFiles(w) \/ CreateIndex(w) \/ WorkerRestarts(w)
                              \/ CollectGarbage(w)
                              \/ \E f \in Filter, h \in Hash : EndFetch(w, f, h) \/ EndIngest(w, f, h)
<1>1. CASE UNCHANGED vars
  BY <1>1 DEF vars, working, history
<1>2. ASSUME NEW k \in Caller, Ask(k) PROVE UNCHANGED <<index, status, made>>
  BY <1>2 DEF Ask, working, history
<1>3. ASSUME NEW s \in Slot, StartCheck(s) \/ CollectReply(s) PROVE UNCHANGED <<index, status, made>>
  BY <1>3 DEF StartCheck, CollectReply, working, history
<1>4. ASSUME NEW s \in Slot, EnqueueChecked(s) \/ CheckFails(s) PROVE UNCHANGED <<index, status, made>>
  BY <1>4 DEF EnqueueChecked, CheckFails, working, history
<1>5. ASSUME NEW s \in Slot, NEW w \in Worker, UpdateFiles(s, w) PROVE UNCHANGED <<index, status, made>>
  BY <1>5 DEF UpdateFiles, working, history
<1>6. ASSUME NEW w \in Worker, WatcherReceive(w) \/ Tick(w) PROVE UNCHANGED <<index, status, made>>
  BY <1>6 DEF WatcherReceive, Tick, working, history
<1>7. ASSUME NEW w \in Worker, TakeResult(w) \/ FinishAssign(w) PROVE UNCHANGED <<index, status, made>>
  BY <1>7 DEF TakeResult, FinishAssign, working, history
<1>8. ASSUME NEW w \in Worker, NEW f \in Filter, AssignTo(w, f) PROVE UNCHANGED <<index, status, made>>
  BY <1>8 DEF AssignTo, working, history
<1>9. ASSUME NEW w \in Worker, PollFails(w) \/ WatcherRestarts(w) PROVE UNCHANGED <<index, status, made>>
  BY <1>9 DEF PollFails, WatcherRestarts, working, history
<1>10. CASE NextDay
  BY <1>10 DEF NextDay, working, history
<1>11. CASE Next
  BY <1>2, <1>3, <1>4, <1>5, <1>6, <1>7, <1>8, <1>9, <1>10, <1>11, Steps
<1> QED BY <1>1, <1>11

\* An index keeps its group until it is collected; another has its identifier then.
LEMMA IndexStep ==
  ASSUME IInv, [Next]_vars, NEW w \in Worker, NEW f \in Filter
  PROVE  /\ made[w][f] \in Nat /\ made'[w][f] \in Nat
         /\ \/ index'[w][f] = index[w][f] /\ made'[w][f] = made[w][f]
            \/ index'[w][f] = 0 /\ made'[w][f] = made[w][f]
            \/ index[w][f] = 0 /\ made'[w][f] = made[w][f] + 1
<1>1. made[w][f] \in Nat /\ made'[w][f] \in Nat
  BY NextInv DEF IInv, WorkersOK
<1>2. CASE UNCHANGED <<index, made>>
  BY <1>1, <1>2
<1>3. ASSUME NEW v \in Worker, CreateIndex(v)
      PROVE  \/ index'[w][f] = index[w][f] /\ made'[w][f] = made[w][f]
             \/ index[w][f] = 0 /\ made'[w][f] = made[w][f] + 1
  <2>1. PICK g \in todo[v], id \in Filter :
          /\ index' = [index EXCEPT ![v][id] = IF @ = 0 THEN g ELSE @]
          /\ made' = [made EXCEPT ![v][id] = IF index[v][id] = 0 THEN @ + 1 ELSE @]
    BY <1>3 DEF CreateIndex
  <2> QED BY <1>1, <2>1 DEF IInv, WorkersOK
<1>4. ASSUME NEW v \in Worker, CollectGarbage(v)
      PROVE  index'[w][f] \in {index[w][f], 0} /\ made'[w][f] = made[w][f]
  BY <1>4 DEF CollectGarbage, history, IInv, WorkersOK
<1>5. ASSUME NEW v \in Worker, \/ IngestFiles(v) \/ WorkerRestarts(v)
                               \/ \E g \in Filter, h \in Hash : EndFetch(v, g, h) \/ EndIngest(v, g, h)
      PROVE  UNCHANGED <<index, made>>
  BY <1>5 DEF IngestFiles, WorkerRestarts, EndFetch, EndIngest
<1> QED BY <1>1, <1>2, <1>3, <1>4, <1>5, WorkerSteps

\* What is pending or ready stays so until its index is collected.
LEMMA StatusStep ==
  ASSUME IInv, [Next]_vars, NEW w \in Worker, NEW f \in Filter, NEW h \in Hash,
         status[w][f][h] \in {"pending", "ready"}
  PROVE  status'[w][f][h] \in {"pending", "ready"} \/ index'[w][f] = 0
<1>1. CASE UNCHANGED status
  BY <1>1
<1>2. ASSUME NEW v \in Worker, IngestFiles(v)
      PROVE  status'[w][f][h] \in {"pending", "ready"}
  <2>1. CASE v = w
    <3>1. status'[w][f][h] = IF <<f, h>> \in sent[w] /\ index[w][f] # 0
                             THEN CASE status[w][f][h] = "missing" -> "fetching"
                                    [] status[w][f][h] = "fetched" -> "pending"
                                    [] status[w][f][h] = "rejected" -> "missing"
                                    [] OTHER -> status[w][f][h]
                             ELSE status[w][f][h]
      BY <1>2, <2>1, IngestFilesOf
    <3> QED BY <3>1
  <2>2. CASE v # w
    BY <1>2, <2>2, IngestFilesOf
  <2> QED BY <2>1, <2>2
<1>3. ASSUME NEW v \in Worker, NEW g \in Filter, NEW x \in Hash, EndFetch(v, g, x) \/ EndIngest(v, g, x)
      PROVE  status'[w][f][h] \in {"pending", "ready"}
  <2>1. status[v][g][x] = "fetching" \/ status[v][g][x] = "pending"
    BY <1>3 DEF EndFetch, EndIngest
  <2>2. PICK s \in Statuses : /\ status' = [status EXCEPT ![v][g][x] = s]
                              /\ status[v][g][x] = "pending" => s = "ready"
    BY <1>3 DEF EndFetch, EndIngest, Statuses
  <2>3. status'[w][f][h] = IF v = w /\ g = f /\ x = h THEN s ELSE status[w][f][h]
    BY <2>2 DEF IInv, WorkersOK
  <2> QED BY <2>1, <2>2, <2>3
<1>4. ASSUME NEW v \in Worker, WorkerRestarts(v)
      PROVE  status'[w][f][h] \in {"pending", "ready"}
  BY <1>4 DEF WorkerRestarts, IInv, WorkersOK
<1>5. ASSUME NEW v \in Worker, CollectGarbage(v)
      PROVE  status'[w][f][h] \in {"pending", "ready"} \/ index'[w][f] = 0
  BY <1>5 DEF CollectGarbage, IInv, WorkersOK
<1>6. ASSUME NEW v \in Worker, CreateIndex(v) PROVE status' = status
  BY <1>6 DEF CreateIndex
<1> QED BY <1>1, <1>2, <1>3, <1>4, <1>5, <1>6, WorkerSteps

LEMMA UnderwayStep ==
  ASSUME IInv, [Next]_vars, NEW w \in Worker, NEW f \in Filter, NEW h \in Hash,
         made[w][f] # 0, First(w, f)', Underway(w, f, h)
  PROVE  Underway(w, f, h)'
<1>1. CASE index[w][f] = 0
  <2>1. index'[w][f] = 0
    BY <1>1, IndexStep DEF First
  <2> QED BY <2>1 DEF Underway
<1>2. CASE index[w][f] # 0
  <2>1. status[w][f][h] \in {"pending", "ready"}
    BY <1>2 DEF Underway
  <2> QED BY <2>1, StatusStep DEF Underway
<1> QED BY <1>1, <1>2

\* Where a name goes: from a worker to the reply of a check, to the channel of a watcher,
\* to its table, to its request.
LEMMA ReplyStep ==
  ASSUME IInv, [Next]_vars, NEW s \in Slot, NEW r \in check'[s].replies
  PROVE  \/ r \in check[s].replies
         \/ \E w \in Worker :
              /\ r.worker = w
              /\ \A p \in r.pending : /\ p[1] \in Hash /\ p[2] \in Filter
                                      /\ index[w][p[2]] # 0 /\ status[w][p[2]][p[1]] = "pending"
<1>1. CASE UNCHANGED check
  BY <1>1
<1>2. ASSUME NEW z \in Slot, StartCheck(z) PROVE r \in check[s].replies
  <2>1. PICK n \in DOMAIN buffer :
          LET fresh == {i \in 1 .. n : today < buffer[i].expiry}
              tasks == {buffer[i] : i \in fresh}
          IN check' = IF tasks = {} THEN check ELSE
                [check EXCEPT ![z] =
                  [files |-> {[hash |-> t.hash, expiry |-> t.expiry] : t \in tasks},
                   tasks |-> tasks, asked |-> Worker, replies |-> {}]]
    BY <1>2 DEF StartCheck
  <2> DEFINE fresh == {i \in 1 .. n : today < buffer[i].expiry}
             tasks == {buffer[i] : i \in fresh}
             c == [files |-> {[hash |-> t.hash, expiry |-> t.expiry] : t \in tasks},
                   tasks |-> tasks, asked |-> Worker, replies |-> {}]
  <2>2. check' = check \/ check' = [check EXCEPT ![z] = c]
    BY <2>1
  <2>3. c.replies = {}
    OBVIOUS
  <2> HIDE DEF c
  <2> QED BY <2>2, <2>3 DEF IInv, CheckOK
<1>3. ASSUME NEW z \in Slot, EnqueueChecked(z) \/ CheckFails(z) PROVE r \in check[s].replies
  <2>1. check' = [check EXCEPT ![z] = NoCheck] /\ NoCheck.replies = {}
    BY <1>3 DEF EnqueueChecked, CheckFails, NoCheck
  <2> QED BY <2>1 DEF IInv, CheckOK
<1>4. ASSUME NEW z \in Slot, CollectReply(z) PROVE r \in check[s].replies
  <2>1. PICK q \in check[z].replies :
          check' = [check EXCEPT
                ![z].replies = @ \ {q},
                ![z].tasks = @ \ (Processed(z, q) \cup {m.task : m \in HandedOn(z, q)}),
                ![z].files = IF check[z].asked = {} THEN {} ELSE @]
    BY <1>4 DEF CollectReply
  <2> DEFINE gone == Processed(z, q) \cup {m.task : m \in HandedOn(z, q)}
             c == [check[z] EXCEPT !.replies = @ \ {q}, !.tasks = @ \ gone,
                     !.files = IF check[z].asked = {} THEN {} ELSE @]
  <2> HIDE DEF gone
  <2>2. check' = [check EXCEPT ![z] = c]
    BY <2>1 DEF IInv, CheckOK, gone
  <2>3. check[z] \in Check
    BY DEF IInv, CheckOK
  <2>4. c.replies \subseteq check[z].replies
    BY <2>3 DEF Check
  <2> HIDE DEF c
  <2> QED BY <2>2, <2>4 DEF IInv, CheckOK
<1>5. ASSUME NEW z \in Slot, NEW w \in Worker, UpdateFiles(z, w), r \notin check[s].replies
      PROVE  /\ r.worker = w
             /\ \A p \in r.pending : /\ p[1] \in Hash /\ p[2] \in Filter
                                     /\ index[w][p[2]] # 0 /\ status[w][p[2]][p[1]] = "pending"
  <2> DEFINE processed == {d \in check[z].files : Known(w, d, "ready") # {}}
             underway == {d \in check[z].files \ processed : Known(w, d, "pending") # {}}
  <2>1. PICK where \in [underway -> Filter] :
          /\ \A d \in underway : where[d] \in Known(w, d, "pending")
          /\ check' = [check EXCEPT
                 ![z].asked = @ \ {w},
                 ![z].replies = @ \cup
                   {[worker |-> w, processed |-> {d.hash : d \in processed},
                     pending |-> {<<d.hash, where[d]>> : d \in underway}]}]
    BY <1>5 DEF UpdateFiles
  <2> DEFINE q == [worker |-> w, processed |-> {d.hash : d \in processed},
                   pending |-> {<<d.hash, where[d]>> : d \in underway}]
             c == [check[z] EXCEPT !.asked = @ \ {w}, !.replies = @ \cup {q}]
  <2>2. check' = [check EXCEPT ![z] = c]
    BY <2>1 DEF IInv, CheckOK
  <2>3. check[z] \in Check /\ check[z].files \subseteq File
    BY DEF IInv, CheckOK, Check
  <2>4. \A d \in underway : /\ d.hash \in Hash /\ where[d] \in Filter
                            /\ index[w][where[d]] # 0 /\ status[w][where[d]][d.hash] = "pending"
    BY <2>1, <2>3 DEF Known, File
  <2>5. q.worker = w /\ \A p \in q.pending : \E d \in underway : p[1] = d.hash /\ p[2] = where[d]
    OBVIOUS
  <2> HIDE DEF q
  <2>6. c.replies = check[z].replies \cup {q}
    BY <2>3 DEF Check
  <2> HIDE DEF c, underway, processed
  <2>7. r = q
    BY <1>5, <2>2, <2>6 DEF IInv, CheckOK
  <2> QED BY <2>4, <2>5, <2>7
<1>6. ASSUME \/ \E k \in Caller : Ask(k)
             \/ NextDay
             \/ \E w \in Worker : WatcherReceive(w) \/ Tick(w) \/ TakeResult(w) \/ FinishAssign(w)
      PROVE  UNCHANGED check
  BY <1>6 DEF Ask, NextDay, WatcherReceive, Tick, TakeResult, FinishAssign, checking
<1>7. ASSUME NEW w \in Worker,
             \/ IngestFiles(w) \/ CreateIndex(w) \/ PollFails(w) \/ WatcherRestarts(w)
             \/ CollectGarbage(w) \/ WorkerRestarts(w)
             \/ \E f \in Filter : AssignTo(w, f)
             \/ \E f \in Filter, h \in Hash : EndFetch(w, f, h) \/ EndIngest(w, f, h)
      PROVE  UNCHANGED check
  BY <1>7 DEF IngestFiles, CreateIndex, PollFails, WatcherRestarts, CollectGarbage, WorkerRestarts,
              AssignTo, EndFetch, EndIngest, checking
<1>8. CASE UNCHANGED vars
  BY <1>1, <1>8 DEF vars, checking
<1>9. CASE Next
  BY <1>1, <1>2, <1>3, <1>4, <1>5, <1>6, <1>7, <1>9, Steps
<1> QED BY <1>8, <1>9

LEMMA InboxStep ==
  ASSUME IInv, [Next]_vars, NEW w \in Worker, NEW i \in DOMAIN inbox'[w]
  PROVE  \/ \E j \in DOMAIN inbox[w] : inbox'[w][i] = inbox[w][j]
         \/ \E s \in Slot : \E r \in check[s].replies :
              /\ r.worker = w /\ <<inbox'[w][i].task.hash, inbox'[w][i].filter>> \in r.pending
              /\ inbox'[w][i].task \in check[s].tasks
<1>1. CASE UNCHANGED inbox
  BY <1>1
<1>2. ASSUME NEW v \in Worker, WatcherReceive(v)
      PROVE  \E j \in DOMAIN inbox[w] : inbox'[w][i] = inbox[w][j]
  <2>1. inbox' = [inbox EXCEPT ![v] = Tail(@)] /\ inbox[v] # <<>> /\ inbox[v] \in Seq(Entry)
    BY <1>2 DEF WatcherReceive, IInv, InboxOK
  <2>2. \A j \in DOMAIN Tail(inbox[v]) : j + 1 \in DOMAIN inbox[v] /\ Tail(inbox[v])[j] = inbox[v][j + 1]
    BY <2>1, TailOf
  <2> QED BY <2>1, <2>2 DEF IInv, InboxOK
<1>3. ASSUME NEW s \in Slot, CollectReply(s)
      PROVE  \/ \E j \in DOMAIN inbox[w] : inbox'[w][i] = inbox[w][j]
             \/ \E r \in check[s].replies :
                  /\ r.worker = w /\ <<inbox'[w][i].task.hash, inbox'[w][i].filter>> \in r.pending
                  /\ inbox'[w][i].task \in check[s].tasks
  <2>1. PICK r \in check[s].replies :
          inbox' = [inbox EXCEPT ![r.worker] = @ \o SetToSeq(HandedOn(s, r))]
    BY <1>3 DEF CollectReply
  <2> DEFINE mine == HandedOn(s, r)
  <2>2. /\ mine \subseteq [task : check[s].tasks, filter : Filter]
        /\ \A m \in mine : <<m.task.hash, m.filter>> \in r.pending /\ m.task \in check[s].tasks
    BY DEF HandedOn
  <2>3. r \in Reply /\ r.worker \in Worker /\ check[s].tasks \subseteq Task
    BY DEF IInv, CheckOK, Check, Reply
  <2>4. IsFiniteSet(mine) /\ mine \in SUBSET Entry
    BY <2>2, <2>3, HandedIsFinite DEF IInv, Entry
  <2> HIDE DEF mine
  <2>5. SetToSeq(mine) \in Seq(Entry) /\ \A j \in DOMAIN SetToSeq(mine) : SetToSeq(mine)[j] \in mine
    BY <2>4, SetToSeqIs
  <2>6. inbox[r.worker] \in Seq(Entry)
    BY <2>3 DEF IInv, InboxOK
  <2> DEFINE new == inbox[r.worker] \o SetToSeq(mine)
  <2>7. \A j \in DOMAIN new : \/ j \in DOMAIN inbox[r.worker] /\ new[j] = inbox[r.worker][j]
                              \/ \E l \in DOMAIN SetToSeq(mine) : new[j] = SetToSeq(mine)[l]
    BY <2>5, <2>6, ConcatOf
  <2>8. inbox' = [inbox EXCEPT ![r.worker] = new]
    BY <2>1 DEF mine
  <2> HIDE DEF new
  <2>9. CASE r.worker = w
    <3>1. inbox'[w] = new
      BY <2>8, <2>9 DEF IInv, InboxOK
    <3> QED BY <2>2, <2>5, <2>7, <2>9, <3>1
  <2>10. CASE r.worker # w
    BY <2>8, <2>10 DEF IInv, InboxOK
  <2> QED BY <2>9, <2>10
<1>4. ASSUME \/ \E k \in Caller : Ask(k)
             \/ NextDay
             \/ \E s \in Slot : \/ StartCheck(s) \/ EnqueueChecked(s) \/ CheckFails(s)
                                \/ \E v \in Worker : UpdateFiles(s, v)
      PROVE  UNCHANGED inbox
  BY <1>4 DEF Ask, NextDay, StartCheck, EnqueueChecked, CheckFails, UpdateFiles, watching
<1>5. ASSUME NEW v \in Worker,
             \/ Tick(v) \/ TakeResult(v) \/ FinishAssign(v) \/ IngestFiles(v) \/ CreateIndex(v)
             \/ PollFails(v) \/ WatcherRestarts(v) \/ CollectGarbage(v) \/ WorkerRestarts(v)
             \/ \E f \in Filter : AssignTo(v, f)
             \/ \E f \in Filter, h \in Hash : EndFetch(v, f, h) \/ EndIngest(v, f, h)
      PROVE  UNCHANGED inbox
  BY <1>5 DEF Tick, TakeResult, FinishAssign, IngestFiles, CreateIndex, PollFails, WatcherRestarts,
              CollectGarbage, WorkerRestarts, AssignTo, EndFetch, EndIngest, watching
<1>6. CASE UNCHANGED vars
  BY <1>1, <1>6 DEF vars, watching
<1>7. CASE Next
  BY <1>1, <1>2, <1>3, <1>4, <1>5, <1>7, Steps
<1> QED BY <1>6, <1>7

LEMMA NamedStep ==
  ASSUME IInv, [Next]_vars, NEW w \in Worker, NEW f \in Filter, NEW h \in Hash, Named(w, f, h)'
  PROVE  \/ Named(w, f, h)
         \/ WatcherReceive(w) /\ \E i \in DOMAIN inbox[w] : inbox[w][i].filter = f /\ inbox[w][i].task.hash = h
         \/ AssignTo(w, f)
         \/ WatcherRestarts(w) /\ index[w][f] # 0 /\ status[w][f][h] = "pending"
<1>1. PICK a \in active'[w] : a.filter = f /\ a.task.hash = h
  BY DEF Named
<1>2. a \in active[w] => Named(w, f, h)
  BY <1>1 DEF Named
<1>3. CASE UNCHANGED active
  BY <1>2, <1>3
<1>4. ASSUME NEW v \in Worker, WatcherReceive(v)
      PROVE  \/ Named(w, f, h)
             \/ /\ v = w
                /\ \E i \in DOMAIN inbox[w] : inbox[w][i].filter = f /\ inbox[w][i].task.hash = h
  <2> DEFINE m == Head(inbox[v])
             same == {b \in active[v] : b.task.hash = m.task.hash}
             moved(b) == [task |-> Merge(b.task, m.task),
                          filter |-> IF b.task.expiry < m.task.expiry THEN m.filter ELSE b.filter]
             now == (active[v] \ same) \cup (IF same = {} THEN {m} ELSE {moved(b) : b \in same})
  <2>1. active' = [active EXCEPT ![v] = now] /\ inbox[v] # <<>> /\ inbox[v] \in Seq(Entry)
    BY <1>4 DEF WatcherReceive, IInv, InboxOK
  <2>2. CASE v # w
    BY <1>2, <2>1, <2>2 DEF IInv, ActiveOK
  <2>3. CASE v = w
    <3>1. m = inbox[w][1] /\ 1 \in DOMAIN inbox[w]
      BY <2>1, <2>3, TailOf
    <3>2. a \in now
      BY <2>1, <2>3 DEF IInv, ActiveOK
    <3>3. CASE a \in active[w]
      BY <1>2, <3>3
    <3>4. CASE a = m
      BY <1>1, <2>3, <3>1, <3>4
    <3>5. ASSUME NEW b \in same, a = moved(b) PROVE b.task.hash = h /\ a.filter \in {b.filter, m.filter}
                                                    /\ m.task.hash = h /\ b \in active[w]
      <4>0. m \in Entry
        BY <2>1, TailOf
      <4>1. b.task \in Task /\ m.task \in Task /\ b.task.hash = m.task.hash
        BY <4>0 DEF IInv, ActiveOK, Entry
      <4>2. Merge(b.task, m.task).hash = b.task.hash
        BY <4>1, Merged
      <4> QED BY <1>1, <2>3, <3>5, <4>1, <4>2
    <3>6. a \in active[w] \/ a = m \/ \E b \in same : a = moved(b)
      BY <2>3, <3>2
    <3> HIDE DEF moved, same
    <3> QED BY <1>1, <2>3, <3>1, <3>3, <3>4, <3>5, <3>6 DEF Named
  <2> QED BY <2>2, <2>3
<1>5. ASSUME NEW v \in Worker, Tick(v) \/ TakeResult(v) PROVE Named(w, f, h)
  <2>1. active' = [active EXCEPT ![v] = @ \ (active[v] \ active'[v])]
    <3>1. CASE Tick(v)
      <4>1. PICK old \in SUBSET active[v] : active' = [active EXCEPT ![v] = active[v] \ old]
        BY <3>1 DEF Tick
      <4> QED BY <4>1 DEF IInv, ActiveOK
    <3>2. CASE TakeResult(v)
      <4>1. PICK named \in SUBSET active[v] : active' = [active EXCEPT ![v] = @ \ named]
        BY <3>2 DEF TakeResult
      <4> QED BY <4>1 DEF IInv, ActiveOK
    <3> QED BY <1>5, <3>1, <3>2
  <2> QED BY <1>2, <2>1 DEF IInv, ActiveOK
<1>6. ASSUME NEW v \in Worker, NEW g \in Filter, AssignTo(v, g)
      PROVE  Named(w, f, h) \/ (v = w /\ g = f)
  <2> DEFINE q == queue[result[v].group[g]]
             first(n) == {q[i] : i \in 1 .. n}
  <2>1. PICK n \in 0 .. Len(q) :
          LET taken == first(n)
              over == {b \in active[v] : b.task.hash \in {t.hash : t \in taken}}
          IN active' = [active EXCEPT ![v] = (@ \ over) \cup {[task |-> t, filter |-> g] : t \in taken}]
    BY <1>6 DEF AssignTo
  <2> DEFINE over == {b \in active[v] : b.task.hash \in {t.hash : t \in first(n)}}
             new == {[task |-> t, filter |-> g] : t \in first(n)}
  <2>2. active' = [active EXCEPT ![v] = (active[v] \ over) \cup new]
    BY <2>1
  <2>3. \A b \in new : b.filter = g
    OBVIOUS
  <2> HIDE DEF over, new
  <2> QED BY <1>1, <1>2, <2>2, <2>3 DEF IInv, ActiveOK
<1>7. ASSUME NEW v \in Worker, WatcherRestarts(v)
      PROVE  Named(w, f, h) \/ (v = w /\ index[w][f] # 0 /\ status[w][f][h] = "pending")
  <2> DEFINE held(x) == {g \in Filter : index[v][g] # 0 /\ status[v][g][x] = "pending"}
             files == {x \in Hash : held(x) # {}}
  <2>1. PICK where \in [files -> Filter] :
          /\ \A x \in files : where[x] \in held(x)
          /\ active' = [active EXCEPT ![v] =
               {[filter |-> where[x],
                 task |-> [hash |-> x, expiry |-> index[v][where[x]], callers |-> {}]] : x \in files}]
    BY <1>7 DEF WatcherRestarts
  <2> DEFINE new == {[filter |-> where[x],
                      task |-> [hash |-> x, expiry |-> index[v][where[x]], callers |-> {}]] : x \in files}
  <2>2. \A b \in new : index[v][b.filter] # 0 /\ status[v][b.filter][b.task.hash] = "pending"
    BY <2>1
  <2>3. active' = [active EXCEPT ![v] = new]
    BY <2>1
  <2> HIDE DEF new
  <2> QED BY <1>1, <1>2, <2>2, <2>3 DEF IInv, ActiveOK
<1>8. ASSUME \/ \E k \in Caller : Ask(k)
             \/ NextDay
             \/ \E s \in Slot : \/ StartCheck(s) \/ EnqueueChecked(s) \/ CheckFails(s) \/ CollectReply(s)
                                \/ \E v \in Worker : UpdateFiles(s, v)
      PROVE  UNCHANGED active
  BY <1>8 DEF Ask, NextDay, StartCheck, EnqueueChecked, CheckFails, CollectReply, UpdateFiles, watching
<1>9. ASSUME NEW v \in Worker,
             \/ FinishAssign(v) \/ IngestFiles(v) \/ CreateIndex(v)
             \/ PollFails(v) \/ CollectGarbage(v) \/ WorkerRestarts(v)
             \/ \E g \in Filter, x \in Hash : EndFetch(v, g, x) \/ EndIngest(v, g, x)
      PROVE  UNCHANGED active
  BY <1>9 DEF FinishAssign, IngestFiles, CreateIndex, PollFails, CollectGarbage, WorkerRestarts,
              EndFetch, EndIngest, watching
<1>10. CASE UNCHANGED vars
  BY <1>3, <1>10 DEF vars, watching
<1>11. CASE Next
  BY <1>3, <1>4, <1>5, <1>6, <1>7, <1>8, <1>9, <1>11, Steps
<1> QED BY <1>10, <1>11

LEMMA SentStep ==
  ASSUME IInv, [Next]_vars, NEW w \in Worker, NEW p \in sent'[w]
  PROVE  /\ p[1] \in Filter /\ p[2] \in Hash
         /\ p \in sent[w] \/ (Tick(w) /\ phase[w] = "idle" /\ Named(w, p[1], p[2]))
<1>1. p[1] \in Filter /\ p[2] \in Hash
  BY NextInv DEF IInv, WatcherOK, Pairs
<1>2. CASE UNCHANGED sent
  BY <1>1, <1>2
<1>3. ASSUME NEW v \in Worker, Tick(v)
      PROVE  p \in sent[w] \/ (v = w /\ phase[w] = "idle" /\ Named(w, p[1], p[2]))
  <2> DEFINE rest == active[v] \ {a \in active[v] : a.task.expiry <= today}
             names == {<<a.filter, a.task.hash>> : a \in rest}
  <2>1. sent' = sent \/ (phase[v] = "idle" /\ sent' = [sent EXCEPT ![v] = names])
    <3> DEFINE post == phase[v] = "idle" /\ HasWork(rest)
    <3>1. sent' = [sent EXCEPT ![v] = IF post THEN names ELSE @]
      BY <1>3 DEF Tick
    <3> HIDE DEF names
    <3> QED BY <3>1 DEF IInv, WatcherOK
  <2>2. \A x \in names : \E a \in active[v] : a.filter = x[1] /\ a.task.hash = x[2]
    OBVIOUS
  <2> HIDE DEF names
  <2> QED BY <2>1, <2>2 DEF IInv, WatcherOK, Named
<1>4. ASSUME NEW v \in Worker, IngestFiles(v) \/ PollFails(v) PROVE p \in sent[w]
  <2>1. sent' = [sent EXCEPT ![v] = {}]
    BY <1>4 DEF IngestFiles, PollFails
  <2> QED BY <2>1 DEF IInv, WatcherOK
<1>5. ASSUME \/ \E k \in Caller : Ask(k)
             \/ NextDay
             \/ \E s \in Slot : \/ StartCheck(s) \/ EnqueueChecked(s) \/ CheckFails(s) \/ CollectReply(s)
                                \/ \E v \in Worker : UpdateFiles(s, v)
      PROVE  UNCHANGED sent
  BY <1>5 DEF Ask, NextDay, StartCheck, EnqueueChecked, CheckFails, CollectReply, UpdateFiles, watching
<1>6. ASSUME NEW v \in Worker,
             \/ WatcherReceive(v) \/ TakeResult(v) \/ FinishAssign(v) \/ CreateIndex(v)
             \/ WatcherRestarts(v) \/ CollectGarbage(v) \/ WorkerRestarts(v)
             \/ \E f \in Filter : AssignTo(v, f)
             \/ \E g \in Filter, x \in Hash : EndFetch(v, g, x) \/ EndIngest(v, g, x)
      PROVE  UNCHANGED sent
  BY <1>6 DEF WatcherReceive, TakeResult, FinishAssign, CreateIndex, WatcherRestarts, CollectGarbage,
              WorkerRestarts, AssignTo, EndFetch, EndIngest, watching
<1>7. CASE UNCHANGED vars
  BY <1>2, <1>7 DEF vars, watching
<1>8. CASE Next
  <2>1. p \in sent[w] \/ (Tick(w) /\ phase[w] = "idle" /\ Named(w, p[1], p[2]))
    BY <1>3, <1>4, <1>5, <1>6, <1>8, Steps
  <2> QED BY <1>1, <2>1
<1> QED BY <1>1, <1>7, <1>8

LEMMA GroupStep ==
  ASSUME IInv, [Next]_vars, NEW w \in Worker, NEW f \in Filter, result'[w].group[f] # 0
  PROVE  result[w].group[f] # 0 \/ index'[w][f] # 0
<1>1. CASE UNCHANGED result
  BY <1>1
<1>2. result \in [Worker -> Result] /\ NoResult.group[f] = 0
  BY DEF IInv, WatcherOK, NoResult
<1>3. ASSUME NEW v \in Worker, IngestFiles(v) PROVE result[w].group[f] # 0 \/ index'[w][f] # 0
  BY <1>3, IngestFilesOf
<1>4. ASSUME NEW v \in Worker, TakeResult(v) PROVE result[w].group[f] # 0
  <2>1. CASE result[v].pressure
    BY <1>2, <1>4, <2>1 DEF TakeResult
  <2>2. CASE ~result[v].pressure
    <3> DEFINE h == [result[v] EXCEPT !.completed = {}, !.rejected = {}]
    <3>1. result' = [result EXCEPT ![v] = h]
      BY <1>2, <1>4, <2>2 DEF TakeResult
    <3>2. h.group = result[v].group
      BY <1>2 DEF Result
    <3> HIDE DEF h
    <3> QED BY <1>2, <3>1, <3>2
  <2> QED BY <2>1, <2>2
<1>5. ASSUME NEW v \in Worker, FinishAssign(v) PROVE result[w].group[f] # 0
  <2> DEFINE h == [NoResult EXCEPT !.group = result[v].group]
  <2>1. result' = [result EXCEPT ![v] = NoResult] \/ result' = [result EXCEPT ![v] = h]
    BY <1>5 DEF FinishAssign
  <2>2. h.group = result[v].group
    BY DEF NoResult
  <2> HIDE DEF h
  <2> QED BY <1>2, <2>1, <2>2
<1>6. ASSUME NEW v \in Worker, CreateIndex(v) PROVE result[w].group[f] # 0 \/ index'[w][f] # 0
  <2>1. PICK g \in todo[v], id \in Filter :
        /\ result' = [result EXCEPT ![v] =
              IF todo[v] = {g} THEN NoResult ELSE [@ EXCEPT !.group[id] = g]]
        /\ index' = [index EXCEPT ![v][id] = IF @ = 0 THEN g ELSE @]
    BY <1>6 DEF CreateIndex
  <2>2. g # 0
    BY <1>6, Kinds DEF CreateIndex, IInv, WatcherOK, QueueOK
  <2> DEFINE k == [result[v].group EXCEPT ![id] = g]
             h == [result[v] EXCEPT !.group = k]
  <2>3. result' = [result EXCEPT ![v] = NoResult] \/ result' = [result EXCEPT ![v] = h]
    BY <1>2, <2>1
  <2>4. h.group = k
    BY <1>2 DEF Result
  <2>5. k[f] = IF f = id THEN g ELSE result[v].group[f]
    BY <1>2 DEF Result
  <2>6. index'[v][id] # 0
    BY <2>1, <2>2 DEF IInv, WorkersOK
  <2> HIDE DEF h, k
  <2> QED BY <1>2, <2>3, <2>4, <2>5, <2>6
<1>7. ASSUME NEW v \in Worker, PollFails(v) \/ WatcherRestarts(v) PROVE result[w].group[f] # 0
  BY <1>2, <1>7 DEF PollFails, WatcherRestarts
<1>8. ASSUME \/ \E k \in Caller : Ask(k)
             \/ NextDay
             \/ \E s \in Slot : \/ StartCheck(s) \/ EnqueueChecked(s) \/ CheckFails(s) \/ CollectReply(s)
                                \/ \E v \in Worker : UpdateFiles(s, v)
      PROVE  UNCHANGED result
  BY <1>8 DEF Ask, NextDay, StartCheck, EnqueueChecked, CheckFails, CollectReply, UpdateFiles, watching
<1>9. ASSUME NEW v \in Worker,
             \/ WatcherReceive(v) \/ Tick(v) \/ CollectGarbage(v) \/ WorkerRestarts(v)
             \/ \E g \in Filter : AssignTo(v, g)
             \/ \E g \in Filter, x \in Hash : EndFetch(v, g, x) \/ EndIngest(v, g, x)
      PROVE  UNCHANGED result
  BY <1>9 DEF WatcherReceive, Tick, CollectGarbage, WorkerRestarts, AssignTo, EndFetch, EndIngest, watching
<1>10. CASE UNCHANGED vars
  BY <1>1, <1>10 DEF vars, watching
<1>11. CASE Next
  BY <1>1, <1>3, <1>4, <1>5, <1>6, <1>7, <1>8, <1>9, <1>11, Steps
<1> QED BY <1>10, <1>11

LEMMA NamesInit == Init => NamesOK
BY DEF Init, NamesOK, NoCheck, NoResult

LEMMA NamesNext == IInv /\ NamesOK /\ [Next]_vars => NamesOK'
<1> SUFFICES ASSUME IInv, NamesOK, [Next]_vars, NEW w \in Worker, NEW f \in Filter
             PROVE  /\ index'[w][f] # 0 => made'[w][f] # 0
                    /\ made'[w][f] = 0 =>
                         /\ \A s \in Slot : \A r \in check'[s].replies : \A p \in r.pending :
                              r.worker = w => p[2] # f
                         /\ \A i \in DOMAIN inbox'[w] : inbox'[w][i].filter # f
                         /\ \A a \in active'[w] : a.filter # f
                         /\ \A p \in sent'[w] : p[1] # f
                         /\ result'[w].group[f] = 0
  BY DEF NamesOK
<1>1. index'[w][f] # 0 => made'[w][f] # 0
  BY IndexStep DEF NamesOK
<1> SUFFICES ASSUME made'[w][f] = 0
             PROVE  /\ \A s \in Slot : \A r \in check'[s].replies : \A p \in r.pending :
                         r.worker = w => p[2] # f
                    /\ \A i \in DOMAIN inbox'[w] : inbox'[w][i].filter # f
                    /\ \A a \in active'[w] : a.filter # f
                    /\ \A p \in sent'[w] : p[1] # f
                    /\ result'[w].group[f] = 0
  BY <1>1
<1>2. made[w][f] = 0 /\ index[w][f] = 0 /\ index'[w][f] = 0
  BY <1>1, IndexStep DEF NamesOK
<1>3. /\ \A s \in Slot : \A r \in check[s].replies : \A p \in r.pending : r.worker = w => p[2] # f
      /\ \A i \in DOMAIN inbox[w] : inbox[w][i].filter # f
      /\ \A h \in Hash : ~Named(w, f, h)
      /\ \A p \in sent[w] : p[1] # f
      /\ result[w].group[f] = 0
  BY <1>2 DEF NamesOK, Named
<1>4. ASSUME NEW s \in Slot, NEW r \in check'[s].replies, NEW p \in r.pending, r.worker = w
      PROVE  p[2] # f
  BY <1>2, <1>3, <1>4, ReplyStep
<1>5. ASSUME NEW i \in DOMAIN inbox'[w] PROVE inbox'[w][i].filter # f
  <2>1. CASE \E j \in DOMAIN inbox[w] : inbox'[w][i] = inbox[w][j]
    BY <1>3, <2>1
  <2>2. ASSUME NEW s \in Slot, NEW r \in check[s].replies, r.worker = w,
               <<inbox'[w][i].task.hash, inbox'[w][i].filter>> \in r.pending
        PROVE  inbox'[w][i].filter # f
    <3>1. \A p \in r.pending : p[2] # f
      BY <1>3, <2>2
    <3> QED BY <2>2, <3>1
  <2> QED BY <2>1, <2>2, InboxStep
<1>6. ASSUME NEW a \in active'[w] PROVE a.filter # f
  <2> SUFFICES ASSUME a.filter = f PROVE FALSE
    OBVIOUS
  <2> DEFINE h == a.task.hash
  <2>1. a \in Entry
    BY NextInv DEF IInv, ActiveOK
  <2>2. h \in Hash
    BY <2>1, Kinds
  <2>3. Named(w, f, h)'
    BY DEF Named
  <2> HIDE DEF h
  <2>4. AssignTo(w, f)
    BY <1>2, <1>3, <2>2, <2>3, NamedStep
  <2>5. result[w].group[f] \in DOMAIN queue
    BY <2>4 DEF AssignTo, IInv, WatcherOK
  <2> QED BY <1>3, <2>5, Kinds DEF IInv, QueueOK
<1>7. ASSUME NEW p \in sent'[w] PROVE p[1] # f
  BY <1>3, SentStep
<1>8. result'[w].group[f] = 0
  BY <1>2, <1>3, GroupStep
<1> QED BY <1>4, <1>5, <1>6, <1>7, <1>8

LEMMA ToldStep ==
  ASSUME IInv, NamesOK, OwedOK, [Next]_vars, NEW w \in Worker, NEW f \in Filter, First(w, f)'
  PROVE  First(w, f) /\ ToldOK(w, f)'
<1>1. First(w, f)
  BY IndexStep DEF First
<1>2. ASSUME NEW h \in Hash, made[w][f] # 0, Underway(w, f, h) PROVE Underway(w, f, h)'
  BY <1>2, UnderwayStep
<1>3. ASSUME NEW s \in Slot, NEW r \in check[s].replies, NEW p \in r.pending, r.worker = w, p[2] = f
      PROVE  p[1] \in Hash /\ made[w][f] # 0 /\ Underway(w, f, p[1])
  <2>1. p \in Hash \X Filter
    BY DEF IInv, CheckOK, Check, Reply
  <2> QED BY <1>1, <1>3, <2>1 DEF NamesOK, OwedOK, ToldOK
<1>4. ASSUME NEW s \in Slot, NEW r \in check'[s].replies, NEW p \in r.pending, r.worker = w, p[2] = f
      PROVE  Underway(w, f, p[1])'
  <2>1. CASE r \in check[s].replies
    BY <1>2, <1>3, <1>4, <2>1
  <2>2. CASE r \notin check[s].replies
    <3>1. p[1] \in Hash /\ index[w][f] # 0 /\ status[w][f][p[1]] = "pending"
      BY <1>4, <2>2, ReplyStep
    <3>2. made[w][f] # 0 /\ Underway(w, f, p[1])
      BY <3>1 DEF NamesOK, Underway
    <3> QED BY <1>2, <3>1, <3>2
  <2> QED BY <2>1, <2>2
<1>5. ASSUME NEW i \in DOMAIN inbox'[w], inbox'[w][i].filter = f
      PROVE  index'[w][f] = 0 \/ status'[w][f][inbox'[w][i].task.hash] \in {"pending", "ready"}
  <2>1. inbox'[w][i] \in Entry
    BY NextInv DEF IInv, InboxOK
  <2>2. PICK h \in Hash : h = inbox'[w][i].task.hash
    BY <2>1, Kinds
  <2>4. ASSUME NEW s \in Slot, NEW r \in check[s].replies, r.worker = w, <<h, f>> \in r.pending
        PROVE  Underway(w, f, h) /\ made[w][f] # 0
    <3>1. <<h, f>>[1] = h /\ <<h, f>>[2] = f
      OBVIOUS
    <3> QED BY <1>3, <2>4, <3>1
  <2>5. Underway(w, f, h) /\ made[w][f] # 0
    <3>1. CASE \E j \in DOMAIN inbox[w] : inbox'[w][i] = inbox[w][j]
      BY <1>1, <1>5, <2>2, <3>1 DEF OwedOK, ToldOK, NamesOK
    <3> QED BY <1>5, <2>2, <2>4, <3>1, InboxStep
  <2>6. Underway(w, f, h)'
    BY <1>2, <2>5
  <2> QED BY <2>2, <2>6 DEF Underway
<1>6. /\ \A s \in Slot : \A r \in check'[s].replies : \A p \in r.pending :
           r.worker = w /\ p[2] = f => index'[w][f] = 0 \/ status'[w][f][p[1]] \in {"pending", "ready"}
      /\ \A i \in DOMAIN inbox'[w] : inbox'[w][i].filter = f =>
           index'[w][f] = 0 \/ status'[w][f][inbox'[w][i].task.hash] \in {"pending", "ready"}
  BY <1>4, <1>5 DEF Underway
<1> QED BY <1>1, <1>6 DEF ToldOK, Underway

\* What a worker starts it was asked for, and only a request makes it start.
LEMMA StartedStep ==
  ASSUME IInv, [Next]_vars, NEW w \in Worker, NEW f \in Filter, NEW h \in Hash
  PROVE  /\ status'[w][f][h] \in {"fetching", "pending"} =>
              \/ status[w][f][h] \in {"fetching", "pending"}
              \/ <<f, h>> \in sent[w] /\ status[w][f][h] # "ready"
         /\ status[w][f][h] = "ready" => status'[w][f][h] = "ready" \/ index'[w][f] = 0
         /\ status[w][f][h] \in {"missing", "rejected"} =>
              status'[w][f][h] \in {"missing", "rejected"} \/ IngestFiles(w)
<1> DEFINE Goal == /\ status'[w][f][h] \in {"fetching", "pending"} =>
                        \/ status[w][f][h] \in {"fetching", "pending"}
                        \/ <<f, h>> \in sent[w] /\ status[w][f][h] # "ready"
                   /\ status[w][f][h] = "ready" => status'[w][f][h] = "ready" \/ index'[w][f] = 0
                   /\ status[w][f][h] \in {"missing", "rejected"} =>
                        status'[w][f][h] \in {"missing", "rejected"} \/ IngestFiles(w)
<1>1. CASE UNCHANGED status
  BY <1>1
<1>2. ASSUME NEW v \in Worker, IngestFiles(v) PROVE Goal
  <2>1. CASE v = w
    <3>1. status'[w][f][h] = IF <<f, h>> \in sent[w] /\ index[w][f] # 0
                             THEN CASE status[w][f][h] = "missing" -> "fetching"
                                    [] status[w][f][h] = "fetched" -> "pending"
                                    [] status[w][f][h] = "rejected" -> "missing"
                                    [] OTHER -> status[w][f][h]
                             ELSE status[w][f][h]
      BY <1>2, <2>1, IngestFilesOf
    <3> QED BY <1>2, <2>1, <3>1
  <2>2. CASE v # w
    BY <1>2, <2>2, IngestFilesOf
  <2> QED BY <2>1, <2>2
<1>3. ASSUME NEW v \in Worker, NEW g \in Filter, NEW x \in Hash, EndFetch(v, g, x) \/ EndIngest(v, g, x)
      PROVE  Goal
  <2>1. PICK s \in {"fetched", "rejected", "ready"} : status' = [status EXCEPT ![v][g][x] = s]
    BY <1>3 DEF EndFetch, EndIngest
  <2>2. status'[w][f][h] = IF v = w /\ g = f /\ x = h THEN s ELSE status[w][f][h]
    BY <2>1 DEF IInv, WorkersOK
  <2>3. status[v][g][x] \in {"fetching", "pending"}
    BY <1>3 DEF EndFetch, EndIngest
  <2> QED BY <2>2, <2>3
<1>4. ASSUME NEW v \in Worker, WorkerRestarts(v) PROVE Goal
  <2>1. status'[w][f][h] = status[w][f][h]
          \/ (status[w][f][h] \in {"fetching", "rejected"} /\ status'[w][f][h] = "missing")
    BY <1>4 DEF WorkerRestarts, IInv, WorkersOK
  <2> QED BY <2>1
<1>5. ASSUME NEW v \in Worker, CollectGarbage(v) PROVE Goal
  <2>1. status'[w][f][h] = status[w][f][h] \/ (status'[w][f][h] = "missing" /\ index'[w][f] = 0)
    BY <1>5 DEF CollectGarbage, IInv, WorkersOK
  <2> QED BY <2>1
<1>6. ASSUME NEW v \in Worker, CreateIndex(v) PROVE status' = status
  BY <1>6 DEF CreateIndex
<1> QED BY <1>1, <1>2, <1>3, <1>4, <1>5, <1>6, WorkerSteps

\* How a watcher gets from phase to phase.
LEMMA PhaseStep ==
  ASSUME IInv, [Next]_vars, NEW w \in Worker
  PROVE  \/ /\ phase'[w] = phase[w] /\ sent'[w] = sent[w] /\ result'[w] = result[w]
            /\ todo'[w] \subseteq todo[w]
            /\ (phase[w] # "assign" => todo'[w] = todo[w])
            /\ ~IngestFiles(w)
            /\ \A f \in Filter : AssignTo(w, f) => f \notin todo'[w]
         \/ Tick(w) \/ IngestFiles(w) \/ TakeResult(w) \/ FinishAssign(w) \/ CreateIndex(w)
         \/ PollFails(w) \/ WatcherRestarts(w)
<1> SUFFICES ASSUME ~IngestFiles(w)
             PROVE  \/ /\ phase'[w] = phase[w] /\ sent'[w] = sent[w] /\ result'[w] = result[w]
                       /\ todo'[w] \subseteq todo[w]
                       /\ (phase[w] # "assign" => todo'[w] = todo[w])
                       /\ \A f \in Filter : AssignTo(w, f) => f \notin todo'[w]
                    \/ Tick(w) \/ TakeResult(w) \/ FinishAssign(w) \/ CreateIndex(w)
                    \/ PollFails(w) \/ WatcherRestarts(w)
  OBVIOUS
<1> DEFINE Same == phase'[w] = phase[w] /\ sent'[w] = sent[w] /\ result'[w] = result[w] /\ todo'[w] = todo[w]
<1>1. \A f \in Filter : AssignTo(w, f) => /\ f \notin todo'[w] /\ todo'[w] \subseteq todo[w] /\ phase[w] = "assign"
                                          /\ phase'[w] = phase[w] /\ sent'[w] = sent[w] /\ result'[w] = result[w]
  <2> SUFFICES ASSUME NEW f \in Filter, AssignTo(w, f)
               PROVE  /\ f \notin todo'[w] /\ todo'[w] \subseteq todo[w] /\ phase[w] = "assign"
                      /\ phase'[w] = phase[w] /\ sent'[w] = sent[w] /\ result'[w] = result[w]
    OBVIOUS
  <2>1. phase[w] = "assign" /\ todo' = [todo EXCEPT ![w] = @ \ {f}] /\ UNCHANGED <<phase, sent, result>>
    BY DEF AssignTo
  <2>2. todo'[w] = todo[w] \ {f}
    BY <2>1 DEF IInv, WatcherOK
  <2> QED BY <2>1, <2>2
<1>2. CASE UNCHANGED watching
  BY <1>1, <1>2 DEF watching
<1>3. ASSUME NEW v \in Worker, v # w,
             \/ Tick(v) \/ TakeResult(v) \/ FinishAssign(v) \/ CreateIndex(v)
             \/ PollFails(v) \/ WatcherRestarts(v) \/ IngestFiles(v)
             \/ \E f \in Filter : AssignTo(v, f)
      PROVE  Same
  <2>1. CASE Tick(v) \/ TakeResult(v)
    BY <1>3, <2>1 DEF Tick, TakeResult, IInv, WatcherOK
  <2>2. CASE FinishAssign(v) \/ CreateIndex(v)
    BY <1>3, <2>2 DEF FinishAssign, CreateIndex, IInv, WatcherOK
  <2>3. CASE PollFails(v) \/ WatcherRestarts(v)
    BY <1>3, <2>3 DEF PollFails, WatcherRestarts, IInv, WatcherOK
  <2>4. CASE IngestFiles(v)
    BY <1>3, <2>4, IngestFilesOf
  <2>5. CASE \E f \in Filter : AssignTo(v, f)
    BY <1>3, <2>5 DEF AssignTo, IInv, WatcherOK
  <2> QED BY <1>3, <2>1, <2>2, <2>3, <2>4, <2>5
<1>4. ASSUME \/ \E k \in Caller : Ask(k)
             \/ NextDay
             \/ \E s \in Slot : \/ StartCheck(s) \/ EnqueueChecked(s) \/ CheckFails(s) \/ CollectReply(s)
                                \/ \E v \in Worker : UpdateFiles(s, v)
      PROVE  Same
  BY <1>4 DEF Ask, NextDay, StartCheck, EnqueueChecked, CheckFails, CollectReply, UpdateFiles, watching
<1>5. ASSUME NEW v \in Worker,
             \/ WatcherReceive(v) \/ CollectGarbage(v) \/ WorkerRestarts(v)
             \/ \E g \in Filter, x \in Hash : EndFetch(v, g, x) \/ EndIngest(v, g, x)
      PROVE  Same
  BY <1>5 DEF WatcherReceive, CollectGarbage, WorkerRestarts, EndFetch, EndIngest, watching
<1>6. CASE UNCHANGED vars
  BY <1>2, <1>6 DEF vars
<1>7. CASE Next
  BY <1>1, <1>3, <1>4, <1>5, <1>7, Steps
<1> QED BY <1>6, <1>7

LEMMA PostedStep ==
  ASSUME IInv, NamesOK, OwedOK, [Next]_vars, NEW w \in Worker, NEW f \in Filter, First(w, f)'
  PROVE  PostedOK(w, f)'
<1> SUFFICES ASSUME phase'[w] = "sent", NEW h \in Hash, Named(w, f, h)'
             PROVE  <<f, h>> \in sent'[w] \/ Underway(w, f, h)'
  BY DEF PostedOK
<1>1. First(w, f)
  BY ToldStep
<1>2. CASE phase[w] = "sent" /\ sent'[w] = sent[w]
  <2>1. CASE Named(w, f, h)
    <3>1. made[w][f] # 0
      BY <2>1 DEF NamesOK, Named
    <3>2. <<f, h>> \in sent[w] \/ Underway(w, f, h)
      BY <1>1, <1>2, <2>1 DEF OwedOK, PostedOK
    <3> QED BY <1>2, <3>1, <3>2, UnderwayStep
  <2>2. CASE \E i \in DOMAIN inbox[w] : inbox[w][i].filter = f /\ inbox[w][i].task.hash = h
    <3>1. made[w][f] # 0 /\ Underway(w, f, h)
      BY <1>1, <2>2 DEF NamesOK, OwedOK, ToldOK
    <3> QED BY <3>1, UnderwayStep
  <2>3. ~AssignTo(w, f) /\ ~WatcherRestarts(w)
    BY <1>2 DEF AssignTo, WatcherRestarts
  <2> QED BY <2>1, <2>2, <2>3, NamedStep
<1>3. CASE phase[w] # "sent" /\ Tick(w)
  <2> DEFINE rest == active[w] \ {a \in active[w] : a.task.expiry <= today}
             post == phase[w] = "idle" /\ HasWork(rest)
             names == {<<a.filter, a.task.hash>> : a \in rest}
  <2>1. /\ active' = [active EXCEPT ![w] = rest]
        /\ phase' = [phase EXCEPT ![w] = IF post THEN "sent" ELSE @]
        /\ sent' = [sent EXCEPT ![w] = IF post THEN names ELSE @]
    BY <1>3 DEF Tick
  <2>2. active'[w] = rest
    BY <2>1 DEF IInv, ActiveOK
  <2>3. post
    BY <1>3, <2>1 DEF IInv, WatcherOK
  <2>4. sent'[w] = names
    BY <2>1, <2>3 DEF IInv, WatcherOK
  <2> QED BY <2>2, <2>4 DEF Named
<1>4. \/ phase[w] = "sent" /\ sent'[w] = sent[w]
      \/ phase[w] # "sent" /\ Tick(w)
  <2>1. CASE Tick(w)
    <3>1. CASE phase[w] = "sent"
      BY <2>1, <3>1 DEF Tick, IInv, WatcherOK
    <3> QED BY <2>1, <3>1
  <2>2. ~IngestFiles(w)
    BY IngestFilesOf
  <2>3. ~(TakeResult(w) \/ FinishAssign(w) \/ CreateIndex(w) \/ PollFails(w) \/ WatcherRestarts(w))
    BY DEF TakeResult, FinishAssign, CreateIndex, PollFails, WatcherRestarts, IInv, WatcherOK
  <2> QED BY <2>1, <2>2, <2>3, PhaseStep
<1> QED BY <1>2, <1>3, <1>4

\* An index owes nothing new, except when its watcher takes tasks for it.
LEMMA OwesStep ==
  ASSUME IInv, NamesOK, OwedOK, [Next]_vars, NEW w \in Worker, NEW f \in Filter, First(w, f)',
         index[w][f] # 0, index'[w][f] # 0, NEW h \in Hash, Owes(w, f, h)', ~AssignTo(w, f)
  PROVE  Owes(w, f, h)
<1>1. First(w, f)
  BY ToldStep
<1>2. CASE status'[w][f][h] \in {"fetching", "pending"}
  BY <1>2, StartedStep DEF Owes
<1>3. CASE status'[w][f][h] # "ready" /\ <<f, h>> \in sent'[w]
  <2>1. status[w][f][h] # "ready"
    BY <1>3, StartedStep
  <2>2. <<f, h>>[1] = f /\ <<f, h>>[2] = h
    OBVIOUS
  <2>3. <<f, h>> \in sent[w] \/ Named(w, f, h)
    BY <1>3, <2>2, SentStep
  <2> QED BY <2>1, <2>3 DEF Owes
<1>4. CASE status'[w][f][h] # "ready" /\ Named(w, f, h)'
  <2>1. status[w][f][h] # "ready"
    BY <1>4, StartedStep
  <2>2. CASE Named(w, f, h)
    BY <2>1, <2>2 DEF Owes
  <2>3. CASE \E i \in DOMAIN inbox[w] : inbox[w][i].filter = f /\ inbox[w][i].task.hash = h
    <3>1. Underway(w, f, h)
      BY <1>1, <2>3 DEF OwedOK, ToldOK
    <3> QED BY <2>1, <3>1 DEF Underway, Owes
  <2>4. CASE status[w][f][h] = "pending"
    BY <2>4 DEF Owes
  <2> QED BY <1>4, <2>2, <2>3, <2>4, NamedStep
<1> QED BY <1>2, <1>3, <1>4 DEF Owes

\* A watcher that has a response knows what an index owes; what was rejected it drops.
LEMMA AnsweredStep ==
  ASSUME IInv, NamesOK, OwedOK, [Next]_vars, NEW w \in Worker, NEW f \in Filter, First(w, f)',
         index[w][f] # 0, index'[w][f] # 0, NEW h \in Hash, Owes(w, f, h)', phase'[w] = "answered"
  PROVE  \/ h \in result'[w].pending[f]
         \/ <<f, h>> \in result'[w].rejected /\ status'[w][f][h] \in {"missing", "rejected"}
<1>1. First(w, f) /\ made[w][f] # 0
  BY ToldStep DEF NamesOK
<1>2. CASE phase[w] = "answered" /\ result'[w] = result[w] /\ ~IngestFiles(w)
  <2>1. ~AssignTo(w, f)
    BY <1>2 DEF AssignTo
  <2>2. Owes(w, f, h)
    BY <2>1, OwesStep
  <2>3. \/ h \in result[w].pending[f]
        \/ <<f, h>> \in result[w].rejected /\ status[w][f][h] \in {"missing", "rejected"}
    BY <1>1, <1>2, <2>2 DEF OwedOK, LimitOK
  <2> QED BY <1>2, <2>3, StartedStep
<1>3. CASE IngestFiles(w)
  <2>1. /\ phase[w] = "sent" /\ sent'[w] = {} /\ active' = active
        /\ result'[w].pending[f] = {x \in Hash : status'[w][f][x] \in Counted}
        /\ result'[w].rejected =
             {p \in sent[w] : index[w][p[1]] # 0 /\ status[w][p[1]][p[2]] = "rejected"}
        /\ status'[w][f][h] = IF <<f, h>> \in sent[w] /\ index[w][f] # 0
                              THEN CASE status[w][f][h] = "missing" -> "fetching"
                                     [] status[w][f][h] = "fetched" -> "pending"
                                     [] status[w][f][h] = "rejected" -> "missing"
                                     [] OTHER -> status[w][f][h]
                              ELSE status[w][f][h]
    BY <1>3, IngestFilesOf
  <2>2. CASE status'[w][f][h] \in {"fetching", "pending"}
    BY <2>1, <2>2 DEF Counted
  <2>3. CASE Named(w, f, h)' /\ status'[w][f][h] # "ready" /\ status'[w][f][h] \notin {"fetching", "pending"}
    <3>1. Named(w, f, h)
      BY <2>1, <2>3 DEF Named
    <3>2. <<f, h>> \in sent[w] \/ Underway(w, f, h)
      BY <1>1, <2>1, <3>1 DEF OwedOK, PostedOK
    <3>3. CASE <<f, h>> \in sent[w]
      <4>1. status[w][f][h] \in Statuses
        BY DEF IInv, WorkersOK
      <4>2. status[w][f][h] = "rejected" /\ status'[w][f][h] = "missing"
        BY <2>1, <2>3, <3>3, <4>1 DEF Statuses
      <4>3. <<f, h>>[1] = f /\ <<f, h>>[2] = h
        OBVIOUS
      <4> QED BY <2>1, <3>3, <4>2, <4>3
    <3>4. CASE <<f, h>> \notin sent[w]
      BY <2>1, <2>3, <3>2, <3>4 DEF Underway
    <3> QED BY <3>3, <3>4
  <2> QED BY <2>1, <2>2, <2>3 DEF Owes
<1>4. \/ phase[w] = "answered" /\ result'[w] = result[w] /\ ~IngestFiles(w)
      \/ IngestFiles(w)
  <2>1. CASE Tick(w) /\ ~IngestFiles(w)
    BY <2>1 DEF Tick, IInv, WatcherOK
  <2>2. ~(TakeResult(w) \/ FinishAssign(w) \/ CreateIndex(w) \/ PollFails(w) \/ WatcherRestarts(w))
    BY DEF TakeResult, FinishAssign, CreateIndex, PollFails, WatcherRestarts, IInv, WatcherOK
  <2> QED BY <2>1, <2>2, PhaseStep
<1> QED BY <1>2, <1>3, <1>4

\* Until it takes tasks for an index, a watcher knows all the index owes.
LEMMA AssignStep ==
  ASSUME IInv, NamesOK, OwedOK, [Next]_vars, NEW w \in Worker, NEW f \in Filter, First(w, f)',
         index[w][f] # 0, index'[w][f] # 0, NEW h \in Hash, Owes(w, f, h)',
         phase'[w] = "assign", f \in todo'[w]
  PROVE  h \in result'[w].pending[f]
<1>1. First(w, f)
  BY ToldStep
<1>2. CASE phase[w] = "assign" /\ result'[w] = result[w] /\ f \in todo[w] /\ ~AssignTo(w, f)
  <2>1. Owes(w, f, h)
    BY <1>2, OwesStep
  <2> QED BY <1>1, <1>2, <2>1 DEF OwedOK, LimitOK
<1>3. CASE TakeResult(w)
  <2>1. phase[w] = "answered" /\ ~AssignTo(w, f)
    BY <1>3 DEF TakeResult, AssignTo
  <2>2. Owes(w, f, h)
    BY <2>1, OwesStep
  <2>3. \/ h \in result[w].pending[f]
        \/ <<f, h>> \in result[w].rejected /\ status[w][f][h] \in {"missing", "rejected"}
    BY <1>1, <2>1, <2>2 DEF OwedOK, LimitOK
  <2>4. ~result[w].pressure
    BY <1>3 DEF TakeResult, IInv, WatcherOK
  <2> DEFINE k == [result[w] EXCEPT !.completed = {}, !.rejected = {}]
             named == {a \in active[w] : \E p \in result[w].completed \cup result[w].rejected :
                                           p[2] = a.task.hash}
  <2>5. /\ result' = [result EXCEPT ![w] = k] /\ active' = [active EXCEPT ![w] = @ \ named]
        /\ UNCHANGED <<sent, status>>
    BY <1>3, <2>4 DEF TakeResult, working, IInv, WatcherOK
  <2>6. k.pending = result[w].pending
    BY DEF IInv, WatcherOK, Result
  <2> HIDE DEF k
  <2>7. result'[w].pending = result[w].pending
    BY <2>5, <2>6 DEF IInv, WatcherOK
  <2>8. CASE <<f, h>> \in result[w].rejected /\ status[w][f][h] \in {"missing", "rejected"}
    <3>1. Named(w, f, h)' \/ <<f, h>> \in sent'[w]
      BY <2>5, <2>8 DEF Owes
    <3>2. <<f, h>> \notin sent'[w]
      BY <2>1, <2>5 DEF IInv, WatcherOK
    <3>3. active'[w] = active[w] \ named
      BY <2>5 DEF IInv, ActiveOK
    <3>4. <<f, h>>[2] = h
      OBVIOUS
    <3>5. \A a \in active[w] : a.task.hash = h => a \in named
      BY <2>8, <3>4
    <3> HIDE DEF named
    <3> QED BY <3>1, <3>2, <3>3, <3>5 DEF Named
  <2> QED BY <2>3, <2>7, <2>8
<1>4. \/ phase[w] = "assign" /\ result'[w] = result[w] /\ f \in todo[w] /\ ~AssignTo(w, f)
      \/ TakeResult(w)
  <2>1. ~Tick(w)
    BY DEF Tick, Selecting, IInv, WatcherOK
  <2>2. ~IngestFiles(w)
    BY IngestFilesOf
  <2>3. ~(FinishAssign(w) \/ CreateIndex(w) \/ PollFails(w) \/ WatcherRestarts(w))
    BY DEF FinishAssign, CreateIndex, PollFails, WatcherRestarts, IInv, WatcherOK
  <2>4. CASE /\ phase'[w] = phase[w] /\ result'[w] = result[w] /\ todo'[w] \subseteq todo[w]
             /\ \A g \in Filter : AssignTo(w, g) => g \notin todo'[w]
    <3>1. f \in todo[w] /\ phase[w] = "assign" /\ ~AssignTo(w, f)
      BY <2>4
    <3> QED BY <2>4, <3>1
  <2> QED BY <2>1, <2>2, <2>3, <2>4, PhaseStep
<1> QED BY <1>2, <1>3, <1>4

\* What the watcher takes fits.
LEMMA CountStep ==
  ASSUME IInv, NamesOK, OwedOK, [Next]_vars, NEW w \in Worker, NEW f \in Filter, First(w, f)',
         index[w][f] # 0, index'[w][f] # 0
  PROVE  Cardinality({h \in Hash : Owes(w, f, h)'}) <= PendingLimit
<1> DEFINE Now == {h \in Hash : Owes(w, f, h)'}
<1>1. /\ IsFiniteSet(Owed(w, f)) /\ Cardinality(Owed(w, f)) \in Nat
      /\ IsFiniteSet(Now) /\ Cardinality(Now) \in Nat
  BY CountOK DEF Owed
<1>2. PendingLimit \in Nat /\ Cardinality(Owed(w, f)) <= PendingLimit
  BY ToldStep, LimitAssumption DEF OwedOK, LimitOK
<1>3. CASE Now \subseteq Owed(w, f)
  <2> HIDE DEF Now
  <2>1. Cardinality(Now) <= Cardinality(Owed(w, f))
    BY <1>1, <1>3, FS_Subset
  <2>2. Cardinality(Now) <= PendingLimit
    BY <1>1, <1>2, <2>1
  <2> QED BY <2>2 DEF Now
<1>4. CASE AssignTo(w, f)
  <2> DEFINE r == result[w]
             q == queue[r.group[f]]
             first(n) == {q[i] : i \in 1 .. n}
             full(n) == Cardinality(r.pending[f] \cup {t.hash : t \in first(n)}) >= PendingLimit
  <2>1. PICK n \in 0 .. Len(q) :
          LET over == {a \in active[w] : a.task.hash \in {t.hash : t \in first(n)}}
          IN /\ IF r.size[f] >= ItemLimit THEN n = 0
                ELSE (full(n) \/ n = Len(q)) /\ \A m \in 0 .. n - 1 : ~full(m)
             /\ active' = [active EXCEPT ![w] =
                             (@ \ over) \cup {[task |-> t, filter |-> f] : t \in first(n)}]
    BY <1>4 DEF AssignTo
  <2>2. UNCHANGED <<sent, status>> /\ phase[w] = "assign" /\ f \in todo[w]
    BY <1>4 DEF AssignTo, working
  <2>3. \A h \in Owed(w, f) : h \in r.pending[f]
    BY <1>2, <2>2, ToldStep DEF OwedOK, LimitOK, Owed
  <2>4. r.group[f] \in DOMAIN queue
    BY <2>2 DEF IInv, WatcherOK
  <2>5. q \in Seq(Task) /\ DOMAIN q = 1 .. Len(q) /\ Len(q) \in Nat
    BY <2>4, LenProperties DEF IInv, QueueOK
  <2> DEFINE over == {a \in active[w] : a.task.hash \in {t.hash : t \in first(n)}}
             new == {[task |-> t, filter |-> f] : t \in first(n)}
  <2>6. active'[w] = (active[w] \ over) \cup new
    BY <2>1 DEF IInv, ActiveOK
  <2>7. \A a \in active'[w] : a \in active[w] \/ a.task \in first(n)
    <3> SUFFICES ASSUME NEW a \in new PROVE a.task \in first(n)
      BY <2>6
    <3> QED OBVIOUS
  <2>8. \A h \in Now : h \in Owed(w, f) \/ \E t \in first(n) : t.hash = h
    <3> SUFFICES ASSUME NEW h \in Hash, Owes(w, f, h)', h \notin Owed(w, f)
                 PROVE  \E t \in first(n) : t.hash = h
      OBVIOUS
    <3>1. Named(w, f, h)' /\ ~Named(w, f, h)
      BY <2>2 DEF Owes, Owed
    <3>2. PICK a \in active'[w] : a.filter = f /\ a.task.hash = h
      BY <3>1 DEF Named
    <3>3. a \notin active[w]
      BY <3>1, <3>2 DEF Named
    <3> QED BY <2>7, <3>2, <3>3
  <2>9. CASE n = 0
    <3>1. first(n) = {}
      BY <2>9
    <3>2. Now \subseteq Owed(w, f)
      BY <2>8, <3>1
    <3> QED BY <1>3, <3>2
  <2>10. CASE n # 0
    <3> DEFINE B == r.pending[f] \cup {t.hash : t \in first(n - 1)}
               C == B \cup {q[n].hash}
    <3>1. n \in 1 .. Len(q) /\ n - 1 \in 0 .. n - 1 /\ n \in Nat
      BY <2>5, <2>10
    <3>2. ~full(n - 1)
      BY <2>1, <2>10, <3>1
    <3>3. \A i \in 1 .. n : q[i] \in Task /\ q[i].hash \in Hash
      BY <2>5, <3>1, Kinds
    <3>4. \A i \in 1 .. n - 1 : i \in 1 .. n
      BY <3>1
    <3>5. B \subseteq Hash
      BY <3>3, <3>4 DEF IInv, WatcherOK, Result
    <3>6. IsFiniteSet(B) /\ Cardinality(B) \in Nat
      BY <3>5, CountOK
    <3>7. Cardinality(B) < PendingLimit
      BY <1>2, <3>2, <3>6
    <3>8. \A i \in 1 .. n : i \in 1 .. n - 1 \/ i = n
      BY <3>1
    <3>9. \A t \in first(n) : t.hash \in C
      BY <3>8
    <3>10. Now \subseteq C
      BY <2>3, <2>8, <3>9
    <3> HIDE DEF B, Now
    <3>11. IsFiniteSet(C) /\ (Cardinality(C) = Cardinality(B) \/ Cardinality(C) = Cardinality(B) + 1)
      BY <3>6, FS_AddElement
    <3>12. Cardinality(Now) <= Cardinality(C)
      BY <3>10, <3>11, FS_Subset
    <3>13. Cardinality(Now) <= PendingLimit
      BY <1>1, <1>2, <3>6, <3>7, <3>11, <3>12
    <3> QED BY <3>13 DEF Now
  <2> QED BY <2>9, <2>10
<1>5. CASE ~AssignTo(w, f)
  <2>1. Now \subseteq Owed(w, f)
    BY <1>5, OwesStep DEF Owed
  <2> QED BY <1>3, <2>1
<1> QED BY <1>4, <1>5

\* A new index owes nothing.
LEMMA NewIndexStep ==
  ASSUME IInv, NamesOK, OwedOK, [Next]_vars, NEW w \in Worker, NEW f \in Filter, First(w, f)',
         index[w][f] = 0, index'[w][f] # 0, NEW h \in Hash
  PROVE  ~Owes(w, f, h)'
<1>1. made[w][f] = 0
  BY IndexStep DEF First
<1>2. /\ ~Named(w, f, h) /\ <<f, h>> \notin sent[w] /\ result[w].group[f] = 0
      /\ \A i \in DOMAIN inbox[w] : inbox[w][i].filter # f
  <2>1. <<f, h>>[1] = f
    OBVIOUS
  <2> QED BY <1>1, <2>1 DEF NamesOK, Named
<1>3. status[w][f][h] \in {"missing", "rejected"}
  BY DEF IInv, WorkersOK
<1>4. status'[w][f][h] \notin {"fetching", "pending"}
  BY <1>2, <1>3, StartedStep
<1>5. <<f, h>> \notin sent'[w]
  <2>1. <<f, h>>[1] = f /\ <<f, h>>[2] = h
    OBVIOUS
  <2> QED BY <1>2, <2>1, SentStep
<1>6. ~AssignTo(w, f)
  BY <1>2, Kinds DEF AssignTo, IInv, WatcherOK, QueueOK
<1>7. ~Named(w, f, h)'
  BY <1>2, <1>3, <1>6, NamedStep
<1> QED BY <1>4, <1>5, <1>7 DEF Owes

LEMMA OwedNext == IInv /\ NamesOK /\ OwedOK /\ [Next]_vars => OwedOK'
<1> SUFFICES ASSUME IInv, NamesOK, OwedOK, [Next]_vars, NEW w \in Worker, NEW f \in Filter, First(w, f)'
             PROVE  ToldOK(w, f)' /\ PostedOK(w, f)' /\ LimitOK(w, f)'
  BY DEF OwedOK
<1>1. CASE index'[w][f] # 0 /\ index[w][f] # 0
  <2>1. Cardinality(Owed(w, f)') <= PendingLimit
    BY <1>1, CountStep DEF Owed
  <2> QED BY <1>1, <2>1, ToldStep, PostedStep, AnsweredStep, AssignStep DEF LimitOK
<1>2. CASE index'[w][f] # 0 /\ index[w][f] = 0
  <2>1. \A h \in Hash : ~Owes(w, f, h)'
    BY <1>2, NewIndexStep
  <2>2. Owed(w, f)' = {}
    BY <2>1 DEF Owed
  <2>3. Cardinality(Owed(w, f)') <= PendingLimit
    BY <2>2, FS_EmptySet, LimitAssumption
  <2> QED BY <1>2, <2>1, <2>3, ToldStep, PostedStep DEF LimitOK
<1>3. CASE index'[w][f] = 0
  BY <1>3, ToldStep, PostedStep DEF LimitOK
<1> QED BY <1>1, <1>2, <1>3

LEMMA OwedInit == Init => OwedOK
BY DEF Init, OwedOK, ToldOK, PostedOK, LimitOK, NoCheck, First

LEMMA OwedInductive == Spec => [](IInv /\ NamesOK /\ OwedOK)
<1>1. IInv /\ (NamesOK /\ OwedOK) /\ [Next]_vars => (NamesOK /\ OwedOK)'
  BY NamesNext, OwedNext
<1> QED BY <1>1, Inductive, NamesInit, OwedInit, PTL DEF Spec

\* The limit on pending files (config.rs:252) is kept for every index but one that has the
\* identifier of another that expired, although its watcher takes tasks (mod.rs:977-1003) by
\* an answer in which what checks hand on meanwhile (mod.rs:779-800) is not counted.
THEOREM PendingIsLimited == Spec => []PendingBounded
<1>1. ASSUME IInv, NamesOK, OwedOK, NEW w \in Worker, NEW f \in Filter, First(w, f)
      PROVE  Cardinality({h \in Hash : status[w][f][h] \in {"fetching", "pending"}}) <= PendingLimit
  <2> DEFINE P == {h \in Hash : status[w][f][h] \in {"fetching", "pending"}}
  <2>1. CASE index[w][f] = 0
    <3>1. \A h \in Hash : status[w][f][h] \in {"missing", "rejected"}
      BY <1>1, <2>1 DEF IInv, WorkersOK
    <3>2. P = {}
      BY <3>1
    <3> QED BY <3>2, FS_EmptySet, LimitAssumption
  <2>2. CASE index[w][f] # 0
    <3>1. P \subseteq Owed(w, f)
      BY DEF Owed, Owes
    <3>2. Cardinality(Owed(w, f)) <= PendingLimit
      BY <1>1, <2>2 DEF OwedOK, LimitOK
    <3> HIDE DEF P
    <3>3. IsFiniteSet(Owed(w, f)) /\ Cardinality(Owed(w, f)) \in Nat
      BY CountOK DEF Owed
    <3>4. Cardinality(P) <= Cardinality(Owed(w, f)) /\ IsFiniteSet(P)
      BY <3>1, <3>3, FS_Subset
    <3>5. Cardinality(P) \in Nat
      BY <3>4, FS_CardinalityType
    <3>6. Cardinality(P) <= PendingLimit
      BY <3>2, <3>3, <3>4, <3>5, LimitAssumption
    <3> QED BY <3>6 DEF P
  <2> QED BY <2>1, <2>2
<1>2. IInv /\ NamesOK /\ OwedOK => PendingBounded
  BY <1>1 DEF PendingBounded, First
<1> QED BY <1>2, OwedInductive, PTL

----------------------------------------------------------------------------
(* Where the channel of a caller is: the inductive invariant *)

InBuffer(k) == \E i \in DOMAIN buffer : k \in buffer[i].callers
InCheck(k, s) == \E t \in check[s].tasks : k \in t.callers
InQueue(k, g) == g \in DOMAIN queue /\ \E i \in DOMAIN queue[g] : k \in queue[g][i].callers
InInbox(k, w) == \E i \in DOMAIN inbox[w] : k \in inbox[w][i].task.callers
InActive(k, w) == \E a \in active[w] : k \in a.task.callers

Somewhere(k) ==
  \/ InBuffer(k)
  \/ \E s \in Slot : InCheck(k, s)
  \/ \E g \in Group : InQueue(k, g)
  \/ \E w \in Worker : InInbox(k, w) \/ InActive(k, w)

\* Not in two places.
Apart(k) ==
  /\ InBuffer(k) =>
       /\ \A s \in Slot : ~InCheck(k, s)
       /\ \A g \in Group : ~InQueue(k, g)
       /\ \A w \in Worker : ~InInbox(k, w) /\ ~InActive(k, w)
  /\ \A s \in Slot : InCheck(k, s) =>
       /\ \A r \in Slot : InCheck(k, r) => r = s
       /\ \A g \in Group : ~InQueue(k, g)
       /\ \A w \in Worker : ~InInbox(k, w) /\ ~InActive(k, w)
  /\ \A g \in Group : InQueue(k, g) =>
       /\ \A h \in Group : InQueue(k, h) => h = g
       /\ \A w \in Worker : ~InInbox(k, w) /\ ~InActive(k, w)
  /\ \A w \in Worker : InInbox(k, w) =>
       \A v \in Worker : (InInbox(k, v) => v = w) /\ ~InActive(k, v)
  /\ \A v, w \in Worker : InActive(k, v) /\ InActive(k, w) => v = w

PlaceOK(k) == (answer[k] = "waiting" <=> Somewhere(k)) /\ Apart(k)

\* The other places have one task of a file, a channel may have several.
OnceInInbox(k, w) ==
  \A i, j \in DOMAIN inbox[w] :
    k \in inbox[w][i].task.callers /\ k \in inbox[w][j].task.callers => i = j

\* A reply names one index for a file.
RepliesOK ==
  \A s \in Slot :
    /\ \A d, e \in check[s].files : d.hash = e.hash => d = e
    /\ \A r \in check[s].replies : \A p, q \in r.pending : p[1] = q[1] => p = q

HeldOK == RepliesOK /\ \A k \in Caller : PlaceOK(k) /\ \A w \in Worker : OnceInInbox(k, w)

----------------------------------------------------------------------------
(* A call and its place *)

LEMMA OneTask ==
  ASSUME IInv, NEW k \in Caller
  PROVE  /\ \A i, j \in DOMAIN buffer : k \in buffer[i].callers /\ k \in buffer[j].callers => i = j
         /\ \A s \in Slot : \A t, u \in check[s].tasks : k \in t.callers /\ k \in u.callers => t = u
         /\ \A g \in DOMAIN queue : \A i, j \in DOMAIN queue[g] :
              k \in queue[g][i].callers /\ k \in queue[g][j].callers => i = j
         /\ \A w \in Worker : \A a, b \in active[w] :
              k \in a.task.callers /\ k \in b.task.callers => a = b
<1>1. \A i, j \in DOMAIN buffer : k \in buffer[i].callers /\ k \in buffer[j].callers => i = j
  BY DEF IInv, BufferOK, Sound
<1>2. \A s \in Slot : \A t, u \in check[s].tasks : k \in t.callers /\ k \in u.callers => t = u
  BY DEF IInv, CheckOK, Sound
<1>3. \A g \in DOMAIN queue : \A i, j \in DOMAIN queue[g] :
        k \in queue[g][i].callers /\ k \in queue[g][j].callers => i = j
  BY DEF IInv, QueueOK, Sound
<1>4. \A w \in Worker : \A a, b \in active[w] :
        k \in a.task.callers /\ k \in b.task.callers => a = b
  BY DEF IInv, ActiveOK, Sound
<1> QED BY <1>1, <1>2, <1>3, <1>4

\* A call that stays where it is.
LEMMA Stays ==
  ASSUME NEW k \in Caller, PlaceOK(k), answer'[k] = answer[k],
         InBuffer(k)' <=> InBuffer(k),
         \A s \in Slot : InCheck(k, s)' <=> InCheck(k, s),
         \A g \in Group : InQueue(k, g)' <=> InQueue(k, g),
         \A w \in Worker : InInbox(k, w)' <=> InInbox(k, w),
         \A w \in Worker : InActive(k, w)' <=> InActive(k, w)
  PROVE  PlaceOK(k)'
<1>1. Somewhere(k)' <=> Somewhere(k)
  BY DEF Somewhere
<1>2. Apart(k)'
  BY DEF PlaceOK, Apart
<1> QED BY <1>1, <1>2 DEF PlaceOK

\* A call that has its answer, or none to come.
LEMMA Leaves ==
  ASSUME NEW k \in Caller, answer'[k] # "waiting", ~InBuffer(k)',
         \A s \in Slot : ~InCheck(k, s)', \A g \in Group : ~InQueue(k, g)',
         \A w \in Worker : ~InInbox(k, w)', \A w \in Worker : ~InActive(k, w)'
  PROVE  PlaceOK(k)'
<1>1. ~Somewhere(k)'
  BY DEF Somewhere
<1>2. Apart(k)'
  BY DEF Apart
<1> QED BY <1>1, <1>2 DEF PlaceOK

\* Places a step does not touch.
LEMMA Untouched ==
  ASSUME NEW k \in Caller
  PROVE  /\ UNCHANGED buffer => (InBuffer(k)' <=> InBuffer(k))
         /\ UNCHANGED check => \A s \in Slot : InCheck(k, s)' <=> InCheck(k, s)
         /\ UNCHANGED queue => \A g \in Group : InQueue(k, g)' <=> InQueue(k, g)
         /\ UNCHANGED inbox => \A w \in Worker : InInbox(k, w)' <=> InInbox(k, w)
         /\ UNCHANGED active => \A w \in Worker : InActive(k, w)' <=> InActive(k, w)
         /\ UNCHANGED inbox => \A w \in Worker : OnceInInbox(k, w)' <=> OnceInInbox(k, w)
BY DEF InBuffer, InCheck, InQueue, InInbox, InActive, OnceInInbox

LEMMA AskHeld ==
  ASSUME IInv, HeldOK, NEW c \in Caller, Ask(c), NEW k \in Caller
  PROVE  PlaceOK(k)'
<1> DEFINE new == [hash |-> c.hash, expiry |-> c.expiry, callers |-> {c}]
           same == {i \in DOMAIN buffer : buffer[i].hash = c.hash}
<1>1. UNCHANGED <<check, queue, inbox, active>>
  BY DEF Ask, watching
<1>2. /\ answer[c] = "none" /\ answer'[c] \in {"waiting", "lost"}
      /\ k # c => answer'[k] = answer[k]
  BY DEF Ask, IInv, AnswersOK
<1>3. InBuffer(k)' <=> InBuffer(k) \/ (k = c /\ answer'[c] = "waiting")
  <2>1. CASE c.hash \notin buffered
    <3>1. buffer' = Append(buffer, new) /\ answer' = [answer EXCEPT ![c] = "waiting"]
      BY <2>1 DEF Ask
    <3>2. /\ DOMAIN buffer' = DOMAIN buffer \cup {Len(buffer) + 1}
          /\ \A i \in DOMAIN buffer : i # Len(buffer) + 1 /\ buffer'[i] = buffer[i]
          /\ buffer'[Len(buffer) + 1] = new
      BY <3>1 DEF IInv, BufferOK
    <3>3. new.callers = {c}
      OBVIOUS
    <3>4. answer'[c] = "waiting"
      BY <3>1 DEF IInv, AnswersOK
    <3> HIDE DEF new
    <3> QED BY <3>2, <3>3, <3>4 DEF InBuffer
  <2>2. CASE c.hash \in buffered
    <3>1. /\ buffer' = [i \in DOMAIN buffer |->
                          IF i \in same THEN Merge(buffer[i], new) ELSE buffer[i]]
          /\ answer' = [answer EXCEPT ![c] = IF same = {} THEN "lost" ELSE "waiting"]
      BY <2>2 DEF Ask
    <3>2. \A i \in DOMAIN buffer : Merge(buffer[i], new).callers = buffer[i].callers \cup {c}
      BY DEF Merge
    <3>3. /\ DOMAIN buffer' = DOMAIN buffer
          /\ \A i \in same : buffer'[i].callers = buffer[i].callers \cup {c}
          /\ \A i \in DOMAIN buffer \ same : buffer'[i] = buffer[i]
      BY <3>1, <3>2
    <3>4. answer'[c] = IF same = {} THEN "lost" ELSE "waiting"
      BY <3>1 DEF IInv, AnswersOK
    <3>5. \A i \in same : i \in DOMAIN buffer
      OBVIOUS
    <3> HIDE DEF same, new
    <3> QED BY <3>3, <3>4, <3>5 DEF InBuffer
  <2> QED BY <2>1, <2>2
<1>4. PlaceOK(c) /\ PlaceOK(k)
  BY DEF HeldOK
<1>5. CASE k # c
  BY <1>1, <1>2, <1>3, <1>4, <1>5, Untouched, Stays
<1>6. CASE k = c
  <2>1. ~Somewhere(c)
    BY <1>2, <1>4 DEF PlaceOK
  <2>2. /\ \A s \in Slot : ~InCheck(k, s)'
        /\ \A g \in Group : ~InQueue(k, g)'
        /\ \A w \in Worker : ~InInbox(k, w)' /\ ~InActive(k, w)'
    BY <1>1, <1>6, <2>1, Untouched DEF Somewhere
  <2>3. Apart(k)'
    BY <2>2 DEF Apart
  <2>4. InBuffer(k)' <=> answer'[k] = "waiting"
    BY <1>3, <1>6, <2>1 DEF Somewhere
  <2>5. Somewhere(k)' <=> InBuffer(k)'
    BY <2>2 DEF Somewhere
  <2> QED BY <2>3, <2>4, <2>5 DEF PlaceOK
<1> QED BY <1>5, <1>6

LEMMA StartCheckHeld ==
  ASSUME IInv, HeldOK, NEW s \in Slot, StartCheck(s), NEW k \in Caller
  PROVE  PlaceOK(k)'
<1>1. PICK n \in DOMAIN buffer :
        LET fresh == {i \in 1 .. n : today < buffer[i].expiry}
            tasks == {buffer[i] : i \in fresh}
            stale == {buffer[i] : i \in (1 .. n) \ fresh}
        IN /\ buffer' = SubSeq(buffer, n + 1, Len(buffer))
           /\ check' = IF tasks = {} THEN check ELSE
                [check EXCEPT ![s] =
                  [files |-> {[hash |-> t.hash, expiry |-> t.expiry] : t \in tasks},
                   tasks |-> tasks, asked |-> Worker, replies |-> {}]]
           /\ Tell({}, CallersOf(stale), {})
  BY DEF StartCheck
<1> DEFINE fresh == {i \in 1 .. n : today < buffer[i].expiry}
           tasks == {buffer[i] : i \in fresh}
           stale == {buffer[i] : i \in (1 .. n) \ fresh}
           first == [files |-> {[hash |-> t.hash, expiry |-> t.expiry] : t \in tasks},
                     tasks |-> tasks, asked |-> Worker, replies |-> {}]
<1>2. /\ DOMAIN buffer = 1 .. Len(buffer) /\ Len(buffer) \in Nat /\ buffer \in Seq(Task)
      /\ n \in 0 .. Len(buffer)
  BY LenProperties DEF IInv, BufferOK
<1>3. UNCHANGED <<queue, inbox, active>>
  BY DEF StartCheck, watching
<1>4. InBuffer(k)' <=> \E i \in DOMAIN buffer : i > n /\ k \in buffer[i].callers
  <2>1. /\ buffer' \in Seq(Task)
        /\ \A i \in DOMAIN buffer' : i \in Nat /\ i + n \in DOMAIN buffer /\ buffer'[i] = buffer[i + n]
        /\ \A i \in DOMAIN buffer : i > n => i - n \in DOMAIN buffer'
    BY <1>1, <1>2, CutOf
  <2>2. DOMAIN buffer' = 1 .. Len(buffer')
    BY <2>1, LenProperties
  <2>3. ASSUME NEW i \in DOMAIN buffer' PROVE i + n > n
    BY <1>2, <2>1, <2>2
  <2>4. ASSUME NEW i \in DOMAIN buffer, i > n PROVE buffer'[i - n] = buffer[i]
    <3>1. i - n \in DOMAIN buffer' /\ (i - n) + n = i
      BY <1>2, <2>1, <2>4
    <3> QED BY <2>1, <3>1
  <2> QED BY <2>1, <2>3, <2>4 DEF InBuffer
<1>5. InCheck(k, s)' <=> \E i \in fresh : k \in buffer[i].callers
  <2>1. CASE tasks = {}
    <3>1. check' = check
      BY <1>1, <2>1
    <3>2. check[s] = NoCheck
      BY DEF StartCheck, Idle
    <3>3. NoCheck.tasks = {}
      BY DEF NoCheck
    <3>4. check'[s].tasks = {}
      BY <3>1, <3>2, <3>3
    <3>5. fresh = {}
      BY <2>1
    <3> QED BY <3>4, <3>5 DEF InCheck
  <2>2. CASE tasks # {}
    <3>1. check' = [check EXCEPT ![s] = first] /\ first.tasks = tasks
      BY <1>1, <2>2
    <3> HIDE DEF first
    <3>2. check'[s].tasks = tasks
      BY <3>1 DEF IInv, CheckOK
    <3> QED BY <3>2 DEF InCheck
  <2> QED BY <2>1, <2>2
<1>6. \A r \in Slot \ {s} : InCheck(k, r)' <=> InCheck(k, r)
  <2>1. check' = check \/ check' = [check EXCEPT ![s] = first]
    BY <1>1
  <2> HIDE DEF first
  <2> QED BY <2>1 DEF InCheck, IInv, CheckOK
<1>7. ~InCheck(k, s)
  BY DEF StartCheck, Idle, NoCheck, InCheck
<1>8. PlaceOK(k)
  BY DEF HeldOK
<1>9. answer'[k] = IF \E i \in (1 .. n) \ fresh : k \in buffer[i].callers THEN "false" ELSE answer[k]
  BY <1>1 DEF Tell, CallersOf
<1>10. \A i \in 1 .. n : i \in DOMAIN buffer
  BY <1>2
<1> HIDE DEF tasks, first, stale
<1>11. CASE ~InBuffer(k)
  <2>1. \A i \in DOMAIN buffer : k \notin buffer[i].callers
    BY <1>11 DEF InBuffer
  <2>2. ~InBuffer(k)' /\ ~InCheck(k, s)' /\ answer'[k] = answer[k]
    BY <1>4, <1>5, <1>9, <1>10, <2>1
  <2>3. \A r \in Slot : InCheck(k, r)' <=> InCheck(k, r)
    BY <1>6, <1>7, <2>2
  <2> QED BY <1>3, <1>8, <1>11, <2>2, <2>3, Untouched, Stays
<1>12. CASE InBuffer(k)
  <2>1. /\ \A r \in Slot : ~InCheck(k, r)
        /\ \A g \in Group : ~InQueue(k, g)
        /\ \A w \in Worker : ~InInbox(k, w) /\ ~InActive(k, w)
        /\ answer[k] = "waiting"
    BY <1>8, <1>12 DEF PlaceOK, Apart, Somewhere
  <2>2. /\ \A r \in Slot \ {s} : ~InCheck(k, r)'
        /\ \A g \in Group : ~InQueue(k, g)'
        /\ \A w \in Worker : ~InInbox(k, w)' /\ ~InActive(k, w)'
    BY <1>3, <1>6, <2>1, Untouched
  <2>3. PICK i \in DOMAIN buffer : k \in buffer[i].callers
    BY <1>12 DEF InBuffer
  <2>4. \A j \in DOMAIN buffer : k \in buffer[j].callers => j = i
    BY <2>3, OneTask
  <2>5. CASE i > n
    <3>1. i \notin 1 .. n
      BY <1>2, <2>5
    <3>2. InBuffer(k)' /\ ~InCheck(k, s)' /\ answer'[k] = answer[k]
      BY <1>4, <1>5, <1>9, <1>10, <2>3, <2>4, <2>5, <3>1
    <3> QED BY <2>1, <2>2, <3>2 DEF PlaceOK, Apart, Somewhere
  <2>6. CASE i \in fresh
    <3>1. ~(i > n)
      BY <1>2, <2>6
    <3>2. ~InBuffer(k)' /\ InCheck(k, s)' /\ answer'[k] = answer[k]
      BY <1>4, <1>5, <1>9, <1>10, <2>3, <2>4, <2>6, <3>1
    <3> QED BY <2>1, <2>2, <3>2 DEF PlaceOK, Apart, Somewhere
  <2>7. CASE i \in (1 .. n) \ fresh
    <3>1. ~(i > n)
      BY <1>2, <2>7
    <3>2. ~InBuffer(k)' /\ ~InCheck(k, s)' /\ answer'[k] = "false"
      BY <1>4, <1>5, <1>9, <1>10, <2>3, <2>4, <2>7, <3>1
    <3> QED BY <2>2, <3>2, Leaves
  <2>8. i > n \/ i \in 1 .. n
    BY <1>2
  <2> QED BY <2>5, <2>6, <2>7, <2>8
<1> QED BY <1>11, <1>12

\* A reply answers a call, hands it on, or leaves it where it is.
LEMMA CollectReplyHeld ==
  ASSUME IInv, HeldOK, NEW s \in Slot, CollectReply(s), NEW k \in Caller
  PROVE  PlaceOK(k)' /\ \A w \in Worker : OnceInInbox(k, w)'
<1>1. PICK r \in check[s].replies :
        LET done == Processed(s, r)
            mine == HandedOn(s, r)
        IN /\ check' = [check EXCEPT
                ![s].replies = @ \ {r},
                ![s].tasks = @ \ (done \cup {m.task : m \in mine}),
                ![s].files = IF check[s].asked = {} THEN {} ELSE @]
           /\ inbox' = [inbox EXCEPT ![r.worker] = @ \o SetToSeq(mine)]
           /\ Tell(CallersOf(done), {}, {})
           /\ UNCHANGED <<buffer, queue, active>>
  BY DEF CollectReply
<1> DEFINE done == Processed(s, r)
           mine == HandedOn(s, r)
           gone == done \cup {m.task : m \in mine}
           c == [check[s] EXCEPT !.replies = @ \ {r}, !.tasks = @ \ gone,
                   !.files = IF check[s].asked = {} THEN {} ELSE @]
           u == r.worker
           new == inbox[u] \o SetToSeq(mine)
<1>2. check[s] \in Check /\ check[s].tasks \subseteq Task /\ r \in Reply /\ u \in Worker
  BY DEF IInv, CheckOK, Check, Reply
<1>3. /\ \A x \in Slot \ {s} : InCheck(k, x)' <=> InCheck(k, x)
      /\ InCheck(k, s)' <=> \E t \in check[s].tasks \ gone : k \in t.callers
  <2> HIDE DEF gone
  <2>1. check' = [check EXCEPT ![s] = c]
    BY <1>1 DEF IInv, CheckOK, gone
  <2>2. c.tasks = check[s].tasks \ gone
    BY <1>2 DEF Check
  <2> HIDE DEF c
  <2>3. check'[s].tasks = check[s].tasks \ gone /\ \A x \in Slot \ {s} : check'[x] = check[x]
    BY <2>1, <2>2 DEF IInv, CheckOK
  <2> QED BY <2>3 DEF InCheck
<1>4. mine \subseteq [task : check[s].tasks, filter : Filter]
  BY DEF HandedOn
<1>5. mine \in SUBSET Entry /\ IsFiniteSet(mine)
  BY <1>2, <1>4, HandedIsFinite DEF Entry, IInv
<1>6. \A m \in mine : m.task \in check[s].tasks /\ m.task \notin done
  BY DEF HandedOn
<1>7. \A t \in done : t \in check[s].tasks
  BY DEF Processed
<1>8. \A m, l \in mine : k \in m.task.callers /\ k \in l.task.callers => m = l
  <2> SUFFICES ASSUME NEW m \in mine, NEW l \in mine, k \in m.task.callers, k \in l.task.callers
               PROVE  m = l
    OBVIOUS
  <2>1. m.task = l.task
    BY <1>6, OneTask
  <2>2. <<m.task.hash, m.filter>> \in r.pending /\ <<l.task.hash, l.filter>> \in r.pending
    BY DEF HandedOn
  <2>3. \A p, q \in r.pending : p[1] = q[1] => p = q
    BY DEF HeldOK, RepliesOK
  <2>4. <<m.task.hash, m.filter>>[1] = <<l.task.hash, l.filter>>[1]
    BY <2>1
  <2>5. m.filter = l.filter
    BY <2>2, <2>3, <2>4
  <2> QED BY <1>4, <2>1, <2>5
<1> DEFINE list == SetToSeq(mine)
<1>9. /\ list \in Seq(Entry)
      /\ \A i \in DOMAIN list : list[i] \in mine
      /\ \A i, j \in DOMAIN list : list[i] = list[j] => i = j
      /\ \A m \in mine : \E i \in DOMAIN list : list[i] = m
  BY <1>5, SetToSeqIs
<1>10. inbox[u] \in Seq(Entry) /\ Len(inbox[u]) \in Nat
  BY <1>2 DEF IInv, InboxOK
<1> HIDE DEF mine, list, gone, done
<1>11. inbox' = [inbox EXCEPT ![u] = inbox[u] \o list]
  BY <1>1 DEF list, mine
<1>12. /\ \A i \in DOMAIN inbox[u] : i \in DOMAIN inbox'[u] /\ inbox'[u][i] = inbox[u][i]
       /\ \A i \in DOMAIN list : /\ i + Len(inbox[u]) \in DOMAIN inbox'[u]
                                 /\ inbox'[u][i + Len(inbox[u])] = list[i]
       /\ \A i \in DOMAIN inbox'[u] :
            \/ i \in DOMAIN inbox[u]
            \/ i - Len(inbox[u]) \in DOMAIN list /\ inbox'[u][i] = list[i - Len(inbox[u])]
       /\ \A i \in DOMAIN inbox'[u] : i \in Int
  <2>1. inbox'[u] = inbox[u] \o list
    BY <1>2, <1>11 DEF IInv, InboxOK
  <2>2. inbox'[u] \in Seq(Entry)
    BY <1>9, <1>10, <2>1, ConcatOf
  <2>3. \A i \in DOMAIN inbox'[u] : i \in Int
    BY <2>2, LenProperties
  <2>4. /\ \A i \in DOMAIN inbox[u] : i \in DOMAIN (inbox[u] \o list) /\ (inbox[u] \o list)[i] = inbox[u][i]
        /\ \A i \in DOMAIN list : /\ i + Len(inbox[u]) \in DOMAIN (inbox[u] \o list)
                                  /\ (inbox[u] \o list)[i + Len(inbox[u])] = list[i]
        /\ \A i \in DOMAIN (inbox[u] \o list) :
             \/ i \in DOMAIN inbox[u]
             \/ /\ i - Len(inbox[u]) \in DOMAIN list
                /\ (inbox[u] \o list)[i] = list[i - Len(inbox[u])]
    BY <1>9, <1>10, ConcatOf
  <2> QED BY <2>1, <2>3, <2>4
<1>13. \A w \in Worker \ {u} : inbox'[w] = inbox[w]
  BY <1>11 DEF IInv, InboxOK
<1>14. /\ \A w \in Worker \ {u} : InInbox(k, w)' <=> InInbox(k, w)
       /\ InInbox(k, u)' <=> InInbox(k, u) \/ \E m \in mine : k \in m.task.callers
  <2>1. InInbox(k, u)' => InInbox(k, u) \/ \E m \in mine : k \in m.task.callers
    BY <1>9, <1>12 DEF InInbox
  <2>2. InInbox(k, u) => InInbox(k, u)'
    BY <1>12 DEF InInbox
  <2>3. (\E m \in mine : k \in m.task.callers) => InInbox(k, u)'
    BY <1>9, <1>12 DEF InInbox
  <2> QED BY <1>13, <2>1, <2>2, <2>3 DEF InInbox
<1>15. answer'[k] = IF \E t \in done : k \in t.callers THEN "true" ELSE answer[k]
  BY <1>1 DEF Tell, CallersOf, done
<1>16. PlaceOK(k) /\ \A w \in Worker : OnceInInbox(k, w)
  BY DEF HeldOK
<1>17. CASE ~InCheck(k, s)
  <2>1. /\ \A m \in mine : k \notin m.task.callers
        /\ \A t \in done : k \notin t.callers
    BY <1>6, <1>7, <1>17 DEF InCheck
  <2>2. answer'[k] = answer[k] /\ ~InCheck(k, s)'
    BY <1>3, <1>15, <1>17, <2>1 DEF InCheck
  <2>3. PlaceOK(k)'
    BY <1>1, <1>3, <1>14, <1>16, <1>17, <2>1, <2>2, Untouched, Stays
  <2>4. ASSUME NEW i \in DOMAIN inbox'[u], k \in inbox'[u][i].task.callers
        PROVE  i \in DOMAIN inbox[u] /\ inbox'[u][i] = inbox[u][i]
    BY <1>9, <1>12, <2>1, <2>4
  <2>5. OnceInInbox(k, u)'
    BY <1>2, <1>16, <2>4 DEF OnceInInbox
  <2> QED BY <1>13, <1>16, <2>3, <2>5 DEF OnceInInbox
<1>18. CASE InCheck(k, s)
  <2>1. /\ \A x \in Slot : InCheck(k, x) => x = s
        /\ \A g \in Group : ~InQueue(k, g)
        /\ \A w \in Worker : ~InInbox(k, w) /\ ~InActive(k, w)
        /\ ~InBuffer(k) /\ answer[k] = "waiting"
    BY <1>16, <1>18 DEF PlaceOK, Apart, Somewhere
  <2>2. /\ \A x \in Slot \ {s} : ~InCheck(k, x)'
        /\ \A g \in Group : ~InQueue(k, g)'
        /\ \A w \in Worker : ~InActive(k, w)'
        /\ ~InBuffer(k)'
        /\ \A w \in Worker \ {u} : ~InInbox(k, w)'
    BY <1>1, <1>3, <1>14, <2>1, Untouched
  <2>3. PICK t \in check[s].tasks : k \in t.callers
    BY <1>18 DEF InCheck
  <2>4. \A z \in check[s].tasks : k \in z.callers => z = t
    BY <2>3, OneTask
  <2>5. CASE t \in done
    <3>1. \A m \in mine : k \notin m.task.callers
      BY <1>6, <2>4, <2>5
    <3>2. ~InCheck(k, s)' /\ ~InInbox(k, u)' /\ answer'[k] = "true"
      BY <1>3, <1>14, <1>15, <2>1, <2>3, <2>4, <2>5, <3>1, <1>2 DEF gone
    <3>3. PlaceOK(k)'
      BY <2>2, <3>2, Leaves
    <3> QED BY <1>13, <1>16, <2>1, <3>2, <3>3, <1>2 DEF OnceInInbox, InInbox
  <2>6. CASE t \notin done /\ \E m \in mine : m.task = t
    <3>1. ~InCheck(k, s)' /\ InInbox(k, u)'
      BY <1>3, <1>14, <2>3, <2>4, <2>6, <1>2 DEF gone
    <3>2. answer'[k] = "waiting"
      BY <1>7, <1>15, <2>1, <2>4, <2>6
    <3>3. PlaceOK(k)'
      <4>1. Somewhere(k)'
        BY <1>2, <3>1 DEF Somewhere
      <4>2. Apart(k)'
        BY <1>2, <2>2, <3>1 DEF Apart
      <4> QED BY <3>2, <4>1, <4>2 DEF PlaceOK
    <3>4. ASSUME NEW i \in DOMAIN inbox'[u], k \in inbox'[u][i].task.callers
          PROVE  /\ i - Len(inbox[u]) \in DOMAIN list /\ i \in Int
                 /\ inbox'[u][i] = list[i - Len(inbox[u])]
      BY <1>2, <1>12, <2>1, <3>4 DEF InInbox
    <3>5. OnceInInbox(k, u)'
      <4> SUFFICES ASSUME NEW i \in DOMAIN inbox'[u], NEW j \in DOMAIN inbox'[u],
                          k \in inbox'[u][i].task.callers, k \in inbox'[u][j].task.callers
                   PROVE  i = j
        BY DEF OnceInInbox
      <4>1. i - Len(inbox[u]) = j - Len(inbox[u])
        BY <1>8, <1>9, <3>4
      <4> QED BY <1>10, <3>4, <4>1
    <3> QED BY <1>13, <1>16, <3>3, <3>5 DEF OnceInInbox
  <2>7. CASE t \notin done /\ \A m \in mine : m.task # t
    <3>1. t \notin gone
      BY <2>7 DEF gone
    <3>2. \A m \in mine : k \notin m.task.callers
      BY <1>6, <2>4, <2>7
    <3>3. InCheck(k, s)' /\ ~InInbox(k, u)'
      BY <1>2, <1>3, <1>14, <2>1, <2>3, <3>1, <3>2
    <3>4. answer'[k] = "waiting"
      BY <1>7, <1>15, <2>1, <2>4, <2>7
    <3>5. PlaceOK(k)'
      <4>1. Somewhere(k)'
        BY <3>3 DEF Somewhere
      <4>2. Apart(k)'
        BY <2>2, <3>3 DEF Apart
      <4> QED BY <3>4, <4>1, <4>2 DEF PlaceOK
    <3> QED BY <1>13, <1>16, <3>3, <3>5 DEF OnceInInbox, InInbox
  <2> QED BY <2>5, <2>6, <2>7
<1> QED BY <1>17, <1>18


\* A call that is now in a table, or in a queue, and nowhere else.
LEMMA NowActive ==
  ASSUME NEW k \in Caller, NEW w \in Worker, answer'[k] = "waiting", InActive(k, w)', ~InBuffer(k)',
         \A s \in Slot : ~InCheck(k, s)', \A g \in Group : ~InQueue(k, g)',
         \A v \in Worker : ~InInbox(k, v)', \A v \in Worker \ {w} : ~InActive(k, v)'
  PROVE  PlaceOK(k)'
<1>1. Somewhere(k)'
  BY DEF Somewhere
<1>2. Apart(k)'
  BY DEF Apart
<1> QED BY <1>1, <1>2 DEF PlaceOK

LEMMA NowQueued ==
  ASSUME NEW k \in Caller, NEW g \in Group, answer'[k] = "waiting", InQueue(k, g)', ~InBuffer(k)',
         \A s \in Slot : ~InCheck(k, s)', \A h \in Group \ {g} : ~InQueue(k, h)',
         \A v \in Worker : ~InInbox(k, v)', \A v \in Worker : ~InActive(k, v)'
  PROVE  PlaceOK(k)'
<1>1. Somewhere(k)'
  BY DEF Somewhere
<1>2. Apart(k)'
  BY DEF Apart
<1> QED BY <1>1, <1>2 DEF PlaceOK

\* A queue has what it had, and what the check has of its group.
LEMMA QueuedBy ==
  ASSUME IInv, NEW s \in Slot, EnqueueChecked(s), NEW k \in Caller, NEW g \in Group
  PROVE  InQueue(k, g)' <=> \/ InQueue(k, g)
                            \/ \E t \in check[s].tasks : t.expiry = g /\ k \in t.callers
<1>1. InQueue(k, g) <=> \E i \in DOMAIN QueueOf(g) : k \in QueueOf(g)[i].callers
  BY DEF InQueue, QueueOf
<1>2. check[s].tasks \subseteq Task
  BY DEF IInv, CheckOK, Check
<1>3. DOMAIN queue' = DOMAIN queue \cup {t.expiry : t \in check[s].tasks}
  BY DEF EnqueueChecked
<1>4. ASSUME g \in DOMAIN queue', NEW i \in DOMAIN QueueOf(g), NEW t \in SameIn(s, g, i)
      PROVE  queue'[g][i].callers = QueueOf(g)[i].callers \cup t.callers
  <2>1. t \in Task /\ t.hash = QueueOf(g)[i].hash
    BY <1>2 DEF SameIn
  <2>2. queue'[g][i] = Merge(QueueOf(g)[i], t) /\ QueueOf(g)[i] \in Task
    BY <1>4, EnqueueOf
  <2> QED BY <2>1, <2>2, Merged
<1>5. ASSUME InQueue(k, g)'
      PROVE  InQueue(k, g) \/ \E t \in check[s].tasks : t.expiry = g /\ k \in t.callers
  <2>1. g \in DOMAIN queue'
    BY <1>5 DEF InQueue
  <2>2. PICK i \in DOMAIN queue'[g] : k \in queue'[g][i].callers
    BY <1>5 DEF InQueue
  <2>3. CASE i \in DOMAIN QueueOf(g) /\ SameIn(s, g, i) = {}
    <3>1. queue'[g][i] = QueueOf(g)[i]
      BY <2>1, <2>3, EnqueueOf
    <3> QED BY <1>1, <2>2, <2>3, <3>1
  <2>4. CASE i \in DOMAIN QueueOf(g) /\ SameIn(s, g, i) # {}
    <3>1. PICK t \in SameIn(s, g, i) : TRUE
      BY <2>4
    <3>2. t \in check[s].tasks /\ t.expiry = g
      BY DEF SameIn
    <3> QED BY <1>1, <1>4, <2>1, <2>2, <2>4, <3>2
  <2>5. CASE i \notin DOMAIN QueueOf(g)
    <3>1. queue'[g][i] \in NewIn(s, g)
      BY <2>1, <2>2, <2>5, EnqueueOf
    <3> QED BY <2>2, <3>1 DEF NewIn
  <2> QED BY <2>3, <2>4, <2>5
<1>6. ASSUME InQueue(k, g) PROVE InQueue(k, g)'
  <2>1. g \in DOMAIN queue'
    BY <1>3, <1>6 DEF InQueue
  <2>2. PICK i \in DOMAIN QueueOf(g) : k \in QueueOf(g)[i].callers
    BY <1>1, <1>6
  <2>3. i \in DOMAIN queue'[g] /\ (SameIn(s, g, i) = {} => queue'[g][i] = QueueOf(g)[i])
    BY <2>1, EnqueueOf
  <2>4. k \in queue'[g][i].callers
    BY <1>4, <2>1, <2>2, <2>3
  <2> QED BY <2>1, <2>3, <2>4 DEF InQueue
<1>7. ASSUME NEW t \in check[s].tasks, t.expiry = g, k \in t.callers PROVE InQueue(k, g)'
  <2>1. g \in DOMAIN queue'
    BY <1>3, <1>7
  <2>2. CASE t \in NewIn(s, g)
    <3>1. PICK i \in DOMAIN queue'[g] : queue'[g][i] = t
      BY <2>1, <2>2, EnqueueOf
    <3> QED BY <1>7, <2>1, <3>1 DEF InQueue
  <2>3. CASE t \notin NewIn(s, g)
    <3>1. PICK i \in DOMAIN QueueOf(g) : QueueOf(g)[i].hash = t.hash
      BY <1>7, <2>3 DEF NewIn
    <3>2. t \in SameIn(s, g, i)
      BY <1>7, <3>1 DEF SameIn
    <3>3. i \in DOMAIN queue'[g]
      BY <2>1, EnqueueOf
    <3> QED BY <1>4, <1>7, <2>1, <3>2, <3>3 DEF InQueue
  <2> QED BY <2>2, <2>3
<1> QED BY <1>5, <1>6, <1>7

LEMMA EnqueueCheckedHeld ==
  ASSUME IInv, HeldOK, NEW s \in Slot, EnqueueChecked(s), NEW k \in Caller
  PROVE  PlaceOK(k)'
<1>1. UNCHANGED <<answer, buffer, inbox, active>>
  BY DEF EnqueueChecked, watching
<1>2. ~InCheck(k, s)' /\ \A r \in Slot \ {s} : InCheck(k, r)' <=> InCheck(k, r)
  <2>1. check' = [check EXCEPT ![s] = NoCheck]
    BY DEF EnqueueChecked
  <2>2. NoCheck.tasks = {}
    BY DEF NoCheck
  <2> QED BY <2>1, <2>2 DEF InCheck, IInv, CheckOK
<1>3. PlaceOK(k)
  BY DEF HeldOK
<1>4. CASE ~InCheck(k, s)
  <2>1. \A g \in Group : InQueue(k, g)' <=> InQueue(k, g)
    BY <1>4, QueuedBy DEF InCheck
  <2> QED BY <1>1, <1>2, <1>3, <1>4, <2>1, Untouched, Stays
<1>5. CASE InCheck(k, s)
  <2>1. /\ \A r \in Slot : InCheck(k, r) => r = s
        /\ \A g \in Group : ~InQueue(k, g)
        /\ \A w \in Worker : ~InInbox(k, w) /\ ~InActive(k, w)
        /\ ~InBuffer(k) /\ answer[k] = "waiting"
    BY <1>3, <1>5 DEF PlaceOK, Apart, Somewhere
  <2>2. PICK t \in check[s].tasks : k \in t.callers
    BY <1>5 DEF InCheck
  <2>3. t.expiry \in Group
    BY Kinds DEF IInv, CheckOK, Check
  <2>4. \A u \in check[s].tasks : k \in u.callers => u = t
    BY <2>2, OneTask
  <2>5. /\ InQueue(k, t.expiry)'
        /\ \A g \in Group \ {t.expiry} : ~InQueue(k, g)'
    BY <2>1, <2>2, <2>3, <2>4, QueuedBy
  <2>6. /\ \A r \in Slot : ~InCheck(k, r)'
        /\ \A w \in Worker : ~InInbox(k, w)' /\ ~InActive(k, w)'
        /\ ~InBuffer(k)' /\ answer'[k] = "waiting"
    BY <1>1, <1>2, <2>1, Untouched
  <2> QED BY <2>3, <2>5, <2>6, NowQueued
<1> QED BY <1>4, <1>5

LEMMA CheckFailsHeld ==
  ASSUME IInv, HeldOK, NEW s \in Slot, CheckFails(s), NEW k \in Caller
  PROVE  PlaceOK(k)'
<1>1. UNCHANGED <<buffer, queue, inbox, active>>
  BY DEF CheckFails, watching
<1>2. ~InCheck(k, s)' /\ \A r \in Slot \ {s} : InCheck(k, r)' <=> InCheck(k, r)
  <2>1. check' = [check EXCEPT ![s] = NoCheck]
    BY DEF CheckFails
  <2>2. NoCheck.tasks = {}
    BY DEF NoCheck
  <2> QED BY <2>1, <2>2 DEF InCheck, IInv, CheckOK
<1>3. answer'[k] = IF InCheck(k, s) THEN "lost" ELSE answer[k]
  BY DEF CheckFails, Tell, CallersOf, InCheck
<1>4. PlaceOK(k)
  BY DEF HeldOK
<1>5. CASE ~InCheck(k, s)
  BY <1>1, <1>2, <1>3, <1>4, <1>5, Untouched, Stays
<1>6. CASE InCheck(k, s)
  <2>1. /\ \A r \in Slot : InCheck(k, r) => r = s
        /\ \A g \in Group : ~InQueue(k, g)
        /\ \A w \in Worker : ~InInbox(k, w) /\ ~InActive(k, w)
        /\ ~InBuffer(k)
    BY <1>4, <1>6 DEF PlaceOK, Apart
  <2>2. /\ \A r \in Slot : ~InCheck(k, r)'
        /\ \A g \in Group : ~InQueue(k, g)'
        /\ \A w \in Worker : ~InInbox(k, w)' /\ ~InActive(k, w)'
        /\ ~InBuffer(k)'
    BY <1>1, <1>2, <2>1, Untouched
  <2> QED BY <1>3, <1>6, <2>2, Leaves
<1> QED BY <1>5, <1>6

\* A step of a watcher that lets go of some of its table and tells their callers.
LEMMA Dropped ==
  ASSUME IInv, HeldOK, NEW k \in Caller, NEW w \in Worker, NEW gone \in SUBSET active[w],
         InBuffer(k)' <=> InBuffer(k),
         \A s \in Slot : InCheck(k, s)' <=> InCheck(k, s),
         \A g \in Group : InQueue(k, g)' <=> InQueue(k, g),
         \A v \in Worker : InInbox(k, v)' <=> InInbox(k, v),
         \A v \in Worker \ {w} : InActive(k, v)' <=> InActive(k, v),
         InActive(k, w)' <=> \E a \in active[w] \ gone : k \in a.task.callers,
         (\E a \in gone : k \in a.task.callers) => answer'[k] # "waiting",
         (\A a \in gone : k \notin a.task.callers) => answer'[k] = answer[k]
  PROVE  PlaceOK(k)'
<1>1. PlaceOK(k)
  BY DEF HeldOK
<1>2. CASE \A a \in gone : k \notin a.task.callers
  <2>1. InActive(k, w)' <=> InActive(k, w)
    BY <1>2 DEF InActive
  <2>2. \A v \in Worker : InActive(k, v)' <=> InActive(k, v)
    BY <2>1
  <2> QED BY <1>1, <1>2, <2>2, Stays
<1>3. CASE \E a \in gone : k \in a.task.callers
  <2>1. PICK a \in gone : k \in a.task.callers
    BY <1>3
  <2>2. InActive(k, w) /\ \A b \in active[w] : k \in b.task.callers => b = a
    BY <2>1, OneTask DEF InActive
  <2>3. /\ \A s \in Slot : ~InCheck(k, s)
        /\ \A g \in Group : ~InQueue(k, g)
        /\ \A v \in Worker : ~InInbox(k, v)
        /\ \A v \in Worker \ {w} : ~InActive(k, v)
        /\ ~InBuffer(k)
    BY <1>1, <2>2 DEF PlaceOK, Apart
  <2>4. \A v \in Worker : ~InActive(k, v)'
    BY <2>1, <2>2, <2>3
  <2> QED BY <1>3, <2>3, <2>4, Leaves
<1> QED BY <1>2, <1>3

LEMMA WatcherReceiveHeld ==
  ASSUME IInv, HeldOK, NEW w \in Worker, WatcherReceive(w), NEW k \in Caller
  PROVE  PlaceOK(k)' /\ \A v \in Worker : OnceInInbox(k, v)'
<1> DEFINE m == Head(inbox[w])
           same == {a \in active[w] : a.task.hash = m.task.hash}
           moved(a) == [task |-> Merge(a.task, m.task),
                        filter |-> IF a.task.expiry < m.task.expiry THEN m.filter ELSE a.filter]
           now == (active[w] \ same) \cup (IF same = {} THEN {m} ELSE {moved(a) : a \in same})
<1>1. /\ active' = [active EXCEPT ![w] = now] /\ inbox' = [inbox EXCEPT ![w] = Tail(@)]
      /\ inbox[w] # <<>> /\ inbox[w] \in Seq(Entry)
      /\ UNCHANGED <<answer, buffer, check, queue>>
  BY DEF WatcherReceive, IInv, InboxOK, checking
<1>2. /\ m = inbox[w][1] /\ 1 \in DOMAIN inbox[w]
      /\ \A i \in DOMAIN Tail(inbox[w]) :
           i \in Nat \ {0} /\ i + 1 \in DOMAIN inbox[w] /\ Tail(inbox[w])[i] = inbox[w][i + 1]
      /\ \A i \in DOMAIN inbox[w] : i \in Nat /\ (i # 1 => i - 1 \in DOMAIN Tail(inbox[w]))
  BY <1>1, TailOf
<1>3. /\ inbox'[w] = Tail(inbox[w]) /\ \A v \in Worker \ {w} : inbox'[v] = inbox[v]
      /\ active'[w] = now /\ \A v \in Worker \ {w} : active'[v] = active[v]
  BY <1>1 DEF IInv, InboxOK, ActiveOK
<1> HIDE DEF m
<1>4. PlaceOK(k) /\ \A v \in Worker : OnceInInbox(k, v)
  BY DEF HeldOK
<1>5. \A v \in Worker : OnceInInbox(k, v)'
  <2>1. OnceInInbox(k, w)'
    <3> SUFFICES ASSUME NEW i \in DOMAIN inbox'[w], NEW j \in DOMAIN inbox'[w],
                        k \in inbox'[w][i].task.callers, k \in inbox'[w][j].task.callers
                 PROVE  i = j
      BY DEF OnceInInbox
    <3>1. i \in Nat /\ j \in Nat /\ i + 1 \in DOMAIN inbox[w] /\ j + 1 \in DOMAIN inbox[w]
      BY <1>2, <1>3
    <3>2. k \in inbox[w][i + 1].task.callers /\ k \in inbox[w][j + 1].task.callers
      BY <1>2, <1>3
    <3>3. i + 1 = j + 1
      BY <1>4, <3>1, <3>2 DEF OnceInInbox
    <3> QED BY <3>1, <3>3
  <2> QED BY <1>3, <1>4, <2>1 DEF OnceInInbox
<1>6. InInbox(k, w)' <=> \E i \in DOMAIN inbox[w] : i # 1 /\ k \in inbox[w][i].task.callers
  <2>1. ASSUME InInbox(k, w)' PROVE \E i \in DOMAIN inbox[w] : i # 1 /\ k \in inbox[w][i].task.callers
    <3>1. PICK i \in DOMAIN inbox'[w] : k \in inbox'[w][i].task.callers
      BY <2>1 DEF InInbox
    <3>2. i + 1 \in DOMAIN inbox[w] /\ i + 1 # 1 /\ k \in inbox[w][i + 1].task.callers
      BY <1>2, <1>3, <3>1
    <3> QED BY <3>2
  <2>2. ASSUME NEW i \in DOMAIN inbox[w], i # 1, k \in inbox[w][i].task.callers
        PROVE  InInbox(k, w)'
    <3>1. i - 1 \in DOMAIN inbox'[w] /\ (i - 1) + 1 = i
      BY <1>2, <1>3, <2>2
    <3>2. inbox'[w][i - 1] = inbox[w][i]
      BY <1>2, <1>3, <3>1
    <3> QED BY <2>2, <3>1, <3>2 DEF InInbox
  <2> QED BY <2>1, <2>2
<1>7. m.task \in Task /\ \A a \in same : a.task \in Task /\ a.task.hash = m.task.hash
  <2>1. m \in Entry
    BY <1>1, <1>2 DEF m
  <2>2. \A a \in same : a \in Entry
    BY DEF IInv, ActiveOK
  <2> QED BY <2>1, <2>2, Kinds
<1>8. \A a \in same : moved(a).task.callers = a.task.callers \cup m.task.callers
  BY <1>7, Merged
<1>9. InActive(k, w)' <=> InActive(k, w) \/ k \in m.task.callers
  <2>1. CASE same = {}
    <3>1. now = active[w] \cup {m}
      BY <2>1
    <3> HIDE DEF now, same
    <3> QED BY <1>3, <3>1 DEF InActive
  <2>2. CASE same # {}
    <3>1. now = (active[w] \ same) \cup {moved(a) : a \in same}
      BY <2>2
    <3>2. \A b \in now : b \in active[w] \ same \/ \E a \in same : b = moved(a)
      BY <3>1
    <3>3. \A a \in same : moved(a) \in now
      BY <3>1
    <3>4. \A a \in active[w] \ same : a \in now
      BY <3>1
    <3>5. \A a \in same : a \in active[w]
      OBVIOUS
    <3> HIDE DEF now, same, moved
    <3> QED BY <1>3, <1>8, <2>2, <3>2, <3>3, <3>4, <3>5 DEF InActive
  <2> QED BY <2>1, <2>2
<1> HIDE DEF now, same, moved
<1>10. CASE k \notin m.task.callers
  <2>1. InInbox(k, w)' <=> InInbox(k, w)
    BY <1>2, <1>6, <1>10 DEF InInbox
  <2>2. /\ \A v \in Worker : InInbox(k, v)' <=> InInbox(k, v)
        /\ \A v \in Worker : InActive(k, v)' <=> InActive(k, v)
    BY <1>3, <1>9, <1>10, <2>1 DEF InInbox, InActive
  <2> QED BY <1>1, <1>4, <1>5, <2>2, Untouched, Stays
<1>11. CASE k \in m.task.callers
  <2>1. InInbox(k, w)
    BY <1>2, <1>11 DEF InInbox
  <2>2. /\ \A s \in Slot : ~InCheck(k, s)
        /\ \A g \in Group : ~InQueue(k, g)
        /\ \A v \in Worker : (InInbox(k, v) => v = w) /\ ~InActive(k, v)
        /\ ~InBuffer(k) /\ answer[k] = "waiting"
    BY <1>4, <2>1 DEF PlaceOK, Apart, Somewhere
  <2>3. \A i \in DOMAIN inbox[w] : k \in inbox[w][i].task.callers => i = 1
    BY <1>2, <1>4, <1>11 DEF OnceInInbox
  <2>4. /\ \A v \in Worker : ~InInbox(k, v)'
        /\ \A v \in Worker \ {w} : ~InActive(k, v)'
        /\ InActive(k, w)'
    BY <1>3, <1>6, <1>9, <1>11, <2>2, <2>3 DEF InInbox, InActive
  <2>5. /\ \A s \in Slot : ~InCheck(k, s)'
        /\ \A g \in Group : ~InQueue(k, g)'
        /\ ~InBuffer(k)' /\ answer'[k] = "waiting"
    BY <1>1, <2>2, Untouched
  <2> QED BY <1>5, <2>4, <2>5, NowActive
<1> QED BY <1>10, <1>11

LEMMA TickHeld ==
  ASSUME IInv, HeldOK, NEW w \in Worker, Tick(w), NEW k \in Caller
  PROVE  PlaceOK(k)'
<1> DEFINE old == {a \in active[w] : a.task.expiry <= today}
<1>1. /\ Tell({}, CallersOf({a.task : a \in old}), {})
      /\ active' = [active EXCEPT ![w] = @ \ old]
      /\ UNCHANGED <<buffer, check, queue, inbox>>
  BY DEF Tick, checking
<1>2. /\ (\E a \in old : k \in a.task.callers) => answer'[k] # "waiting"
      /\ (\A a \in old : k \notin a.task.callers) => answer'[k] = answer[k]
  BY <1>1 DEF Tell, CallersOf
<1> HIDE DEF old
<1>3. /\ InActive(k, w)' <=> \E a \in active[w] \ old : k \in a.task.callers
      /\ \A v \in Worker \ {w} : InActive(k, v)' <=> InActive(k, v)
  BY <1>1 DEF InActive, IInv, ActiveOK
<1>4. old \in SUBSET active[w]
  BY DEF old
<1> QED BY <1>1, <1>2, <1>3, <1>4, Untouched, Dropped

LEMMA TakeResultHeld ==
  ASSUME IInv, HeldOK, NEW w \in Worker, TakeResult(w), NEW k \in Caller
  PROVE  PlaceOK(k)'
<1> DEFINE r == result[w]
           named == {a \in active[w] : \E p \in r.completed \cup r.rejected : p[2] = a.task.hash}
           of(S) == CallersOf({a.task : a \in {b \in named : <<b.filter, b.task.hash>> \in S}})
           yes == of(r.completed)
           no == of(r.rejected)
<1>1. /\ Tell(yes, no, CallersOf({a.task : a \in named}) \ (yes \cup no))
      /\ active' = [active EXCEPT ![w] = @ \ named]
      /\ UNCHANGED <<buffer, check, queue, inbox>>
  BY DEF TakeResult, checking
<1>2. \A S : k \in of(S) => \E a \in named : k \in a.task.callers
  BY DEF CallersOf
<1>3. k \in CallersOf({a.task : a \in named}) <=> \E a \in named : k \in a.task.callers
  BY DEF CallersOf
<1>4. /\ k \in yes => \E a \in named : k \in a.task.callers
      /\ k \in no => \E a \in named : k \in a.task.callers
  BY <1>2
<1>5. named \in SUBSET active[w]
  OBVIOUS
<1> HIDE DEF yes, no, named
<1>6. /\ (\E a \in named : k \in a.task.callers) => answer'[k] # "waiting"
      /\ (\A a \in named : k \notin a.task.callers) => answer'[k] = answer[k]
  BY <1>1, <1>3, <1>4 DEF Tell
<1>7. /\ InActive(k, w)' <=> \E a \in active[w] \ named : k \in a.task.callers
      /\ \A v \in Worker \ {w} : InActive(k, v)' <=> InActive(k, v)
  BY <1>1 DEF InActive, IInv, ActiveOK
<1> QED BY <1>1, <1>5, <1>6, <1>7, Untouched, Dropped

LEMMA WatcherRestartsHeld ==
  ASSUME IInv, HeldOK, NEW w \in Worker, WatcherRestarts(w), NEW k \in Caller
  PROVE  PlaceOK(k)'
<1> DEFINE held(h) == {f \in Filter : index[w][f] # 0 /\ status[w][f][h] = "pending"}
           files == {h \in Hash : held(h) # {}}
<1>1. PICK where \in [files -> Filter] :
        active' = [active EXCEPT ![w] =
          {[filter |-> where[h],
            task |-> [hash |-> h, expiry |-> index[w][where[h]], callers |-> {}]] : h \in files}]
  BY DEF WatcherRestarts
<1> HIDE DEF files
<1>2. \A a \in active'[w] : a.task.callers = {}
  BY <1>1 DEF IInv, ActiveOK
<1>3. /\ Tell({}, {}, CallersOf({a.task : a \in active[w]}))
      /\ UNCHANGED <<buffer, check, queue, inbox>>
  BY DEF WatcherRestarts, checking
<1>4. /\ (\E a \in active[w] : k \in a.task.callers) => answer'[k] # "waiting"
      /\ (\A a \in active[w] : k \notin a.task.callers) => answer'[k] = answer[k]
  BY <1>3 DEF Tell, CallersOf
<1>5. ~InActive(k, w)'
  BY <1>2 DEF InActive
<1>6. \A v \in Worker \ {w} : InActive(k, v)' <=> InActive(k, v)
  BY <1>1 DEF InActive, IInv, ActiveOK
<1>7. InActive(k, w)' <=> \E a \in active[w] \ active[w] : k \in a.task.callers
  BY <1>5
<1> QED BY <1>3, <1>4, <1>6, <1>7, Untouched, Dropped

\* What a watcher takes from a queue, and what leaves its table for it.
LEMMA AssignToOf ==
  ASSUME IInv, NEW w \in Worker, NEW f \in Filter, AssignTo(w, f)
  PROVE  \E g \in Group, n \in Nat, over \in SUBSET active[w], got \in SUBSET Entry :
           /\ g \in DOMAIN queue /\ n <= Len(queue[g])
           /\ queue' = [queue EXCEPT ![g] = SubSeq(queue[g], n + 1, Len(queue[g]))]
           /\ active' = [active EXCEPT ![w] = (@ \ over) \cup got]
           /\ Tell({}, {}, CallersOf({a.task : a \in over}))
           /\ \A b \in got : \E i \in 1 .. n : b.task = queue[g][i]
           /\ \A i \in 1 .. n : \E b \in got : b.task = queue[g][i]
           /\ \A a \in over : \E i \in 1 .. n : a.task.hash = queue[g][i].hash
<1> DEFINE g == result[w].group[f]
           q == queue[g]
           first(n) == {q[i] : i \in 1 .. n}
<1>1. PICK n \in 0 .. Len(q) :
        LET taken == first(n)
            over == {a \in active[w] : a.task.hash \in {t.hash : t \in taken}}
        IN /\ queue' = [queue EXCEPT ![g] = SubSeq(q, n + 1, Len(q))]
           /\ active' = [active EXCEPT ![w] =
                           (@ \ over) \cup {[task |-> t, filter |-> f] : t \in taken}]
           /\ Tell({}, {}, CallersOf({a.task : a \in over}))
  BY DEF AssignTo
<1> DEFINE taken == first(n)
           over == {a \in active[w] : a.task.hash \in {t.hash : t \in taken}}
           got == {[task |-> t, filter |-> f] : t \in taken}
<1>2. g \in DOMAIN queue /\ g \in Group
  BY DEF AssignTo, IInv, WatcherOK, QueueOK
<1>3. /\ \A t \in taken : \E i \in 1 .. n : t = q[i]
      /\ \A i \in 1 .. n : q[i] \in taken
  OBVIOUS
<1>4. \A b \in got : b.task \in taken
  OBVIOUS
<1>5. \A t \in taken : [task |-> t, filter |-> f] \in got /\ [task |-> t, filter |-> f].task = t
  OBVIOUS
<1>6. over \in SUBSET active[w]
  OBVIOUS
<1>7. active' = [active EXCEPT ![w] = (@ \ over) \cup got]
  BY <1>1
<1>8. /\ queue' = [queue EXCEPT ![g] = SubSeq(q, n + 1, Len(q))]
      /\ Tell({}, {}, CallersOf({a.task : a \in over}))
  BY <1>1
<1>9. got \in SUBSET Entry /\ n \in Nat /\ n <= Len(q)
  <2>1. q \in Seq(Task) /\ Len(q) \in Nat
    BY <1>2, LenProperties DEF IInv, QueueOK
  <2>2. n \in Nat /\ n <= Len(q) /\ \A i \in 1 .. n : q[i] \in Task
    BY <2>1, ElementOfSeq
  <2> HIDE DEF q
  <2>3. \A t \in taken : t \in Task
    BY <1>3, <2>2
  <2> QED BY <2>2, <2>3 DEF Entry
<1> HIDE DEF taken, over, got
<1>10. \A b \in got : \E i \in 1 .. n : b.task = q[i]
  BY <1>3, <1>4
<1>11. \A i \in 1 .. n : \E b \in got : b.task = q[i]
  BY <1>3, <1>5
<1>12. \A a \in over : \E i \in 1 .. n : a.task.hash = q[i].hash
  <2>1. \A a \in over : \E t \in taken : a.task.hash = t.hash
    BY DEF over
  <2> QED BY <1>3, <2>1
<1> HIDE DEF g
<1> QED BY <1>2, <1>6, <1>7, <1>8, <1>9, <1>10, <1>11, <1>12

LEMMA AssignToHeld ==
  ASSUME IInv, HeldOK, NEW w \in Worker, NEW f \in Filter, AssignTo(w, f), NEW k \in Caller
  PROVE  PlaceOK(k)'
<1>1. PICK g \in Group, n \in Nat, over \in SUBSET active[w], got \in SUBSET Entry :
        /\ g \in DOMAIN queue /\ n <= Len(queue[g])
        /\ queue' = [queue EXCEPT ![g] = SubSeq(queue[g], n + 1, Len(queue[g]))]
        /\ active' = [active EXCEPT ![w] = (@ \ over) \cup got]
        /\ Tell({}, {}, CallersOf({a.task : a \in over}))
        /\ \A b \in got : \E i \in 1 .. n : b.task = queue[g][i]
        /\ \A i \in 1 .. n : \E b \in got : b.task = queue[g][i]
        /\ \A a \in over : \E i \in 1 .. n : a.task.hash = queue[g][i].hash
  BY AssignToOf
<1> DEFINE q == queue[g]
           rest == SubSeq(q, n + 1, Len(q))
<1>2. UNCHANGED <<buffer, check, inbox>>
  BY DEF AssignTo, checking
<1>3. g \in DOMAIN queue
  BY <1>1
<1>4. q \in Seq(Task) /\ DOMAIN q = 1 .. Len(q) /\ Len(q) \in Nat /\ n \in 0 .. Len(q)
  BY <1>1, LenProperties DEF IInv, QueueOK
<1>5. /\ rest \in Seq(Task)
      /\ \A i \in DOMAIN rest : i \in Nat /\ i + n \in DOMAIN q /\ rest[i] = q[i + n]
      /\ \A i \in DOMAIN q : i > n => i - n \in DOMAIN rest
  BY <1>4, CutOf
<1>6. DOMAIN rest = 1 .. Len(rest)
  BY <1>5, LenProperties
<1>7. /\ (\E a \in over : k \in a.task.callers) => answer'[k] # "waiting"
      /\ (\A a \in over : k \notin a.task.callers) => answer'[k] = answer[k]
  BY <1>1 DEF Tell, CallersOf
<1>8. queue' = [queue EXCEPT ![g] = rest] /\ active' = [active EXCEPT ![w] = (@ \ over) \cup got]
  BY <1>1
<1>9. /\ \A b \in got : \E i \in DOMAIN q : i <= n /\ q[i] = b.task
      /\ \A i \in DOMAIN q : i <= n => \E b \in got : q[i] = b.task
  BY <1>1, <1>4
<1> HIDE DEF rest
<1>10. queue'[g] = rest /\ DOMAIN queue' = DOMAIN queue /\ \A h \in DOMAIN queue \ {g} : queue'[h] = queue[h]
  BY <1>3, <1>8
<1>11. active'[w] = (active[w] \ over) \cup got /\ \A v \in Worker \ {w} : active'[v] = active[v]
  BY <1>8 DEF IInv, ActiveOK
<1>12. InQueue(k, g) <=> \E i \in DOMAIN q : k \in q[i].callers
  BY <1>3 DEF InQueue
<1> HIDE DEF q
<1>13. InQueue(k, g)' <=> \E i \in DOMAIN q : i > n /\ k \in q[i].callers
  <2>1. ASSUME NEW i \in DOMAIN rest PROVE i + n > n /\ i + n \in DOMAIN q /\ rest[i] = q[i + n]
    BY <1>4, <1>5, <1>6
  <2>2. ASSUME NEW i \in DOMAIN q, i > n PROVE i - n \in DOMAIN rest /\ rest[i - n] = q[i]
    <3>1. i - n \in DOMAIN rest /\ (i - n) + n = i
      BY <1>4, <1>5, <2>2
    <3> QED BY <1>5, <3>1
  <2>3. InQueue(k, g)' <=> \E i \in DOMAIN rest : k \in rest[i].callers
    BY <1>3, <1>10 DEF InQueue
  <2> QED BY <2>1, <2>2, <2>3
<1>14. \A h \in Group \ {g} : InQueue(k, h)' <=> InQueue(k, h)
  BY <1>10 DEF InQueue
<1>15. InActive(k, w)' <=> \/ \E a \in active[w] \ over : k \in a.task.callers
                           \/ \E i \in DOMAIN q : i <= n /\ k \in q[i].callers
  <2>1. InActive(k, w)' => \/ \E a \in active[w] \ over : k \in a.task.callers
                           \/ \E i \in DOMAIN q : i <= n /\ k \in q[i].callers
    BY <1>9, <1>11 DEF InActive
  <2>2. (\E a \in active[w] \ over : k \in a.task.callers) => InActive(k, w)'
    BY <1>11 DEF InActive
  <2>3. (\E i \in DOMAIN q : i <= n /\ k \in q[i].callers) => InActive(k, w)'
    BY <1>9, <1>11 DEF InActive
  <2> QED BY <2>1, <2>2, <2>3
<1>16. \A v \in Worker \ {w} : InActive(k, v)' <=> InActive(k, v)
  BY <1>11 DEF InActive
<1>17. PlaceOK(k)
  BY DEF HeldOK
<1>18. CASE ~InQueue(k, g)
  <2>1. \A h \in Group : InQueue(k, h)' <=> InQueue(k, h)
    BY <1>12, <1>13, <1>14, <1>18
  <2>2. InActive(k, w)' <=> \E a \in active[w] \ over : k \in a.task.callers
    BY <1>12, <1>15, <1>18
  <2> QED BY <1>2, <1>7, <1>16, <2>1, <2>2, Untouched, Dropped
<1>19. CASE InQueue(k, g)
  <2>1. /\ \A s \in Slot : ~InCheck(k, s)
        /\ \A h \in Group : InQueue(k, h) => h = g
        /\ \A v \in Worker : ~InInbox(k, v) /\ ~InActive(k, v)
        /\ ~InBuffer(k) /\ answer[k] = "waiting"
    BY <1>3, <1>17, <1>19 DEF PlaceOK, Apart, Somewhere
  <2>2. PICK i \in DOMAIN q : k \in q[i].callers
    BY <1>12, <1>19
  <2>3. \A j \in DOMAIN q : k \in q[j].callers => j = i
    BY <1>3, <2>2, OneTask DEF q
  <2>4. \A a \in active[w] : k \notin a.task.callers
    BY <2>1 DEF InActive
  <2>5. answer'[k] = "waiting"
    BY <1>7, <2>1, <2>4
  <2>6. /\ ~InBuffer(k)' /\ \A s \in Slot : ~InCheck(k, s)'
        /\ \A v \in Worker : ~InInbox(k, v)'
        /\ \A v \in Worker \ {w} : ~InActive(k, v)'
        /\ \A h \in Group \ {g} : ~InQueue(k, h)'
    BY <1>2, <1>14, <1>16, <2>1, Untouched
  <2>7. CASE i <= n
    <3>1. InActive(k, w)'
      BY <1>15, <2>2, <2>7
    <3>2. ~InQueue(k, g)'
      BY <1>4, <1>13, <2>3, <2>7
    <3>3. \A h \in Group : ~InQueue(k, h)'
      BY <2>6, <3>2
    <3> QED BY <2>5, <2>6, <3>1, <3>3, NowActive
  <2>8. CASE ~(i <= n)
    <3>1. i > n
      BY <1>4, <2>8
    <3>2. InQueue(k, g)'
      BY <1>13, <2>2, <3>1
    <3>3. ~InActive(k, w)'
      BY <1>15, <2>3, <2>4, <2>8
    <3>4. \A v \in Worker : ~InActive(k, v)'
      BY <2>6, <3>3
    <3> QED BY <1>3, <2>5, <2>6, <3>2, <3>4, NowQueued
  <2> QED BY <2>7, <2>8
<1> QED BY <1>18, <1>19

----------------------------------------------------------------------------
(* A reply names one index for a file *)

LEMMA StartCheckReplies == ASSUME IInv, HeldOK, NEW s \in Slot, StartCheck(s) PROVE RepliesOK'
<1>1. PICK n \in DOMAIN buffer :
        LET fresh == {i \in 1 .. n : today < buffer[i].expiry}
            tasks == {buffer[i] : i \in fresh}
        IN check' = IF tasks = {} THEN check ELSE
             [check EXCEPT ![s] =
               [files |-> {[hash |-> t.hash, expiry |-> t.expiry] : t \in tasks},
                tasks |-> tasks, asked |-> Worker, replies |-> {}]]
  BY DEF StartCheck
<1> DEFINE fresh == {i \in 1 .. n : today < buffer[i].expiry}
           tasks == {buffer[i] : i \in fresh}
           files == {[hash |-> t.hash, expiry |-> t.expiry] : t \in tasks}
           first == [files |-> files, tasks |-> tasks, asked |-> Worker, replies |-> {}]
<1>2. DOMAIN buffer = 1 .. Len(buffer) /\ Len(buffer) \in Nat
  BY LenProperties DEF IInv, BufferOK
<1>3. \A t, u \in tasks : t.hash = u.hash => t = u
  <2>1. \A i \in fresh : i \in DOMAIN buffer
    BY <1>2
  <2>2. \A i, j \in DOMAIN buffer : buffer[i].hash = buffer[j].hash => i = j
    BY DEF IInv, BufferOK
  <2> QED BY <2>1, <2>2
<1> HIDE DEF tasks
<1>4. \A d, e \in files : d.hash = e.hash => d = e
  BY <1>3
<1> HIDE DEF files
<1>5. first.files = files /\ first.replies = {}
  OBVIOUS
<1>6. check' = check \/ check' = [check EXCEPT ![s] = first]
  BY <1>1 DEF tasks, files
<1> HIDE DEF first
<1>7. \A x \in Slot : check'[x] = check[x] \/ check'[x] = first
  BY <1>6 DEF IInv, CheckOK
<1> QED BY <1>4, <1>5, <1>7 DEF HeldOK, RepliesOK

LEMMA UpdateFilesReplies ==
  ASSUME IInv, HeldOK, NEW s \in Slot, NEW w \in Worker, UpdateFiles(s, w)
  PROVE  RepliesOK'
<1> DEFINE processed == {d \in check[s].files : Known(w, d, "ready") # {}}
           underway == {d \in check[s].files \ processed : Known(w, d, "pending") # {}}
<1>1. PICK where \in [underway -> Filter] :
        check' = [check EXCEPT
          ![s].asked = @ \ {w},
          ![s].replies = @ \cup
            {[worker |-> w, processed |-> {d.hash : d \in processed},
              pending |-> {<<d.hash, where[d]>> : d \in underway}]}]
  BY DEF UpdateFiles
<1> DEFINE names == {<<d.hash, where[d]>> : d \in underway}
           reply == [worker |-> w, processed |-> {d.hash : d \in processed}, pending |-> names]
           c == [check[s] EXCEPT !.asked = @ \ {w}, !.replies = @ \cup {reply}]
<1>2. \A d, e \in underway : d.hash = e.hash => d = e
  BY DEF HeldOK, RepliesOK
<1> HIDE DEF underway
<1>3. \A p, q \in names : p[1] = q[1] => p = q
  BY <1>2
<1> HIDE DEF names
<1>4. reply.pending = names
  OBVIOUS
<1>5. check' = [check EXCEPT ![s] = c]
  BY <1>1 DEF IInv, CheckOK, underway, names
<1> HIDE DEF reply
<1>6. c.files = check[s].files /\ c.replies = check[s].replies \cup {reply}
  BY DEF IInv, CheckOK, Check
<1> HIDE DEF c
<1>7. check'[s] = c /\ \A x \in Slot \ {s} : check'[x] = check[x]
  BY <1>5 DEF IInv, CheckOK
<1> QED BY <1>3, <1>4, <1>6, <1>7 DEF HeldOK, RepliesOK

LEMMA CollectReplyReplies == ASSUME IInv, HeldOK, NEW s \in Slot, CollectReply(s) PROVE RepliesOK'
<1>1. PICK r \in check[s].replies :
        LET done == Processed(s, r)
            mine == HandedOn(s, r)
        IN check' = [check EXCEPT
             ![s].replies = @ \ {r},
             ![s].tasks = @ \ (done \cup {m.task : m \in mine}),
             ![s].files = IF check[s].asked = {} THEN {} ELSE @]
  BY DEF CollectReply
<1> DEFINE gone == Processed(s, r) \cup {m.task : m \in HandedOn(s, r)}
           left == check[s].tasks \ gone
           c == [check[s] EXCEPT !.replies = @ \ {r}, !.tasks = left,
                   !.files = IF check[s].asked = {} THEN {} ELSE @]
<1>2. check' = [check EXCEPT ![s] = c]
  BY <1>1 DEF IInv, CheckOK
<1> HIDE DEF left
<1>3. c.files \subseteq check[s].files /\ c.replies \subseteq check[s].replies
  BY DEF IInv, CheckOK, Check
<1> HIDE DEF c
<1>4. check'[s] = c /\ \A x \in Slot \ {s} : check'[x] = check[x]
  BY <1>2 DEF IInv, CheckOK
<1> QED BY <1>3, <1>4 DEF HeldOK, RepliesOK

LEMMA NoCheckReplies ==
  ASSUME IInv, HeldOK, NEW s \in Slot, check' = [check EXCEPT ![s] = NoCheck]
  PROVE  RepliesOK'
<1>1. NoCheck.files = {} /\ NoCheck.replies = {}
  BY DEF NoCheck
<1>2. \A x \in Slot : check'[x] = check[x] \/ check'[x] = NoCheck
  BY DEF IInv, CheckOK
<1> QED BY <1>1, <1>2 DEF HeldOK, RepliesOK

----------------------------------------------------------------------------
(* Every step keeps each call in its place *)

\* A check that gets an answer keeps its tasks.
LEMMA UpdateFilesHeld ==
  ASSUME IInv, HeldOK, NEW s \in Slot, NEW w \in Worker, UpdateFiles(s, w), NEW k \in Caller
  PROVE  PlaceOK(k)'
<1>1. PICK new :
        check' = [check EXCEPT ![s].asked = @ \ {w}, ![s].replies = @ \cup {new}]
  BY DEF UpdateFiles
<1> DEFINE c == [check[s] EXCEPT !.asked = @ \ {w}, !.replies = @ \cup {new}]
<1>2. check' = [check EXCEPT ![s] = c]
  BY <1>1 DEF IInv, CheckOK
<1>3. c.tasks = check[s].tasks
  BY DEF IInv, CheckOK, Check
<1> HIDE DEF c
<1>4. \A r \in Slot : check'[r].tasks = check[r].tasks
  BY <1>2, <1>3 DEF IInv, CheckOK
<1>5. \A r \in Slot : InCheck(k, r)' <=> InCheck(k, r)
  BY <1>4 DEF InCheck
<1>6. UNCHANGED <<answer, buffer, queue, inbox, active>>
  BY DEF UpdateFiles, watching
<1>7. PlaceOK(k)
  BY DEF HeldOK
<1> QED BY <1>5, <1>6, <1>7, Untouched, Stays

\* Steps that touch no place.
LEMMA ElsewhereHeld ==
  ASSUME HeldOK, NEW k \in Caller, UNCHANGED <<answer, buffer, check, queue, inbox, active>>
  PROVE  PlaceOK(k)'
<1>1. PlaceOK(k)
  BY DEF HeldOK
<1> QED BY <1>1, Untouched, Stays

LEMMA InboxHeld ==
  ASSUME HeldOK, NEW k \in Caller, UNCHANGED inbox
  PROVE  \A w \in Worker : OnceInInbox(k, w)'
BY Untouched DEF HeldOK

LEMMA HeldInit == Init => HeldOK
<1> SUFFICES ASSUME Init PROVE HeldOK
  OBVIOUS
<1>1. NoCheck.tasks = {} /\ NoCheck.files = {} /\ NoCheck.replies = {}
  BY DEF NoCheck
<1>2. RepliesOK
  BY <1>1 DEF Init, RepliesOK
<1>3. ASSUME NEW k \in Caller PROVE PlaceOK(k) /\ \A w \in Worker : OnceInInbox(k, w)
  <2>1. /\ ~InBuffer(k) /\ \A s \in Slot : ~InCheck(k, s)
        /\ \A g \in Group : ~InQueue(k, g)
        /\ \A w \in Worker : ~InInbox(k, w) /\ ~InActive(k, w)
    BY <1>1 DEF Init, InBuffer, InCheck, InQueue, InInbox, InActive
  <2>2. answer[k] = "none"
    BY DEF Init
  <2>3. \A w \in Worker : OnceInInbox(k, w)
    BY DEF Init, OnceInInbox
  <2> QED BY <2>1, <2>2, <2>3 DEF PlaceOK, Somewhere, Apart
<1> QED BY <1>2, <1>3 DEF HeldOK

LEMMA HeldNext == IInv /\ HeldOK /\ [Next]_vars => HeldOK'
<1> SUFFICES ASSUME IInv, HeldOK, [Next]_vars PROVE HeldOK'
  OBVIOUS
<1> DEFINE Good == RepliesOK /\ \A k \in Caller : PlaceOK(k) /\ \A w \in Worker : OnceInInbox(k, w)
<1>1. ASSUME UNCHANGED <<answer, buffer, check, queue, inbox, active>> PROVE Good'
  <2>1. RepliesOK'
    BY <1>1 DEF HeldOK, RepliesOK
  <2> QED BY <1>1, <2>1, ElsewhereHeld, InboxHeld
<1>2. ASSUME NEW c \in Caller, Ask(c) PROVE Good'
  <2>1. UNCHANGED <<check, inbox>>
    BY <1>2 DEF Ask, watching
  <2>2. RepliesOK'
    BY <2>1 DEF HeldOK, RepliesOK
  <2> QED BY <1>2, <2>1, <2>2, AskHeld, InboxHeld
<1>3. ASSUME NEW s \in Slot, StartCheck(s) PROVE Good'
  <2>1. UNCHANGED inbox
    BY <1>3 DEF StartCheck, watching
  <2> QED BY <1>3, <2>1, StartCheckReplies, StartCheckHeld, InboxHeld
<1>4. ASSUME NEW s \in Slot, NEW w \in Worker, UpdateFiles(s, w) PROVE Good'
  <2>1. UNCHANGED inbox
    BY <1>4 DEF UpdateFiles, watching
  <2> QED BY <1>4, <2>1, UpdateFilesReplies, UpdateFilesHeld, InboxHeld
<1>5. ASSUME NEW s \in Slot, CollectReply(s) PROVE Good'
  BY <1>5, CollectReplyReplies, CollectReplyHeld
<1>6. ASSUME NEW s \in Slot, EnqueueChecked(s) PROVE Good'
  <2>1. UNCHANGED inbox /\ check' = [check EXCEPT ![s] = NoCheck]
    BY <1>6 DEF EnqueueChecked, watching
  <2> QED BY <1>6, <2>1, NoCheckReplies, EnqueueCheckedHeld, InboxHeld
<1>7. ASSUME NEW s \in Slot, CheckFails(s) PROVE Good'
  <2>1. UNCHANGED inbox /\ check' = [check EXCEPT ![s] = NoCheck]
    BY <1>7 DEF CheckFails, watching
  <2> QED BY <1>7, <2>1, NoCheckReplies, CheckFailsHeld, InboxHeld
<1>8. ASSUME NEW w \in Worker,
             \/ WatcherReceive(w) \/ Tick(w) \/ TakeResult(w) \/ WatcherRestarts(w)
             \/ \E f \in Filter : AssignTo(w, f)
      PROVE  Good'
  <2>1. UNCHANGED check
    BY <1>8 DEF WatcherReceive, Tick, TakeResult, WatcherRestarts, AssignTo, checking
  <2>2. RepliesOK'
    BY <2>1 DEF HeldOK, RepliesOK
  <2>3. CASE WatcherReceive(w)
    BY <2>2, <2>3, WatcherReceiveHeld
  <2>4. CASE Tick(w) \/ TakeResult(w) \/ WatcherRestarts(w) \/ \E f \in Filter : AssignTo(w, f)
    <3>1. UNCHANGED inbox
      BY <2>4 DEF Tick, TakeResult, WatcherRestarts, AssignTo
    <3> QED BY <2>2, <2>4, <3>1, TickHeld, TakeResultHeld, WatcherRestartsHeld, AssignToHeld, InboxHeld
  <2> QED BY <1>8, <2>3, <2>4
<1>9. ASSUME NEW w \in Worker, IngestFiles(w) \/ FinishAssign(w) \/ CreateIndex(w) \/ PollFails(w)
      PROVE  Good'
  <2>1. UNCHANGED <<answer, buffer, check, queue, inbox, active>>
    BY <1>9 DEF IngestFiles, FinishAssign, CreateIndex, PollFails, checking
  <2> QED BY <1>1, <2>1
<1>10. ASSUME NEW w \in Worker,
              \/ CollectGarbage(w) \/ WorkerRestarts(w)
              \/ \E f \in Filter, h \in Hash : EndFetch(w, f, h) \/ EndIngest(w, f, h)
       PROVE  Good'
  <2>1. UNCHANGED <<answer, buffer, check, queue, inbox, active>>
    BY <1>10 DEF CollectGarbage, WorkerRestarts, EndFetch, EndIngest, checking, watching
  <2> QED BY <1>1, <2>1
<1>11. CASE UNCHANGED vars \/ NextDay
  <2>1. UNCHANGED <<answer, buffer, check, queue, inbox, active>>
    BY <1>11 DEF vars, NextDay, checking, watching
  <2> QED BY <1>1, <2>1 DEF HeldOK
<1> HIDE DEF Good
<1>12. CASE Next
  <2>1. Good'
    BY <1>2, <1>3, <1>4, <1>5, <1>6, <1>7, <1>8, <1>9, <1>10, <1>11, <1>12, Steps DEF HeldOK, Good
  <2> QED BY <2>1 DEF HeldOK, Good
<1> QED BY <1>11, <1>12

LEMMA HeldInductive == Spec => [](IInv /\ HeldOK)
<1>1. Init => IInv /\ HeldOK
  BY InitInv, HeldInit
<1>2. IInv /\ HeldOK /\ [Next]_vars => IInv' /\ HeldOK'
  BY NextInv, HeldNext
<1> QED BY <1>1, <1>2, PTL DEF Spec

\* What holds the channel of a call, place by place.
LEMMA HoldersOf ==
  ASSUME NEW k, NEW p \in Held, k \in p[3].callers
  PROVE  \/ \E i \in DOMAIN buffer : p = <<"buffer", i, buffer[i]>> /\ k \in buffer[i].callers
         \/ \E s \in Slot : \E t \in check[s].tasks : p = <<"check", s, t>> /\ k \in t.callers
         \/ \E g \in DOMAIN queue : \E i \in DOMAIN queue[g] :
              p = <<"queue", <<g, i>>, queue[g][i]>> /\ k \in queue[g][i].callers
         \/ \E w \in Worker : \E i \in DOMAIN inbox[w] :
              p = <<"inbox", <<w, i>>, inbox[w][i].task>> /\ k \in inbox[w][i].task.callers
         \/ \E w \in Worker : \E a \in active[w] :
              p = <<"active", w, a.task>> /\ k \in a.task.callers
<1>1. CASE p \in {<<"buffer", i, buffer[i]>> : i \in DOMAIN buffer}
  BY <1>1
<1>2. CASE p \in UNION {{<<"check", s, t>> : t \in check[s].tasks} : s \in Slot}
  BY <1>2
<1>3. CASE p \in UNION {{<<"queue", <<g, i>>, queue[g][i]>> : i \in DOMAIN queue[g]} : g \in DOMAIN queue}
  BY <1>3
<1>4. CASE p \in UNION {{<<"inbox", <<w, i>>, inbox[w][i].task>> : i \in DOMAIN inbox[w]} : w \in Worker}
  BY <1>4
<1>5. CASE p \in UNION {{<<"active", w, a.task>> : a \in active[w]} : w \in Worker}
  BY <1>5
<1> QED BY <1>1, <1>2, <1>3, <1>4, <1>5 DEF Held

LEMMA HoldersIn ==
  /\ \A i \in DOMAIN buffer : <<"buffer", i, buffer[i]>> \in Held
  /\ \A s \in Slot : \A t \in check[s].tasks : <<"check", s, t>> \in Held
  /\ \A g \in DOMAIN queue : \A i \in DOMAIN queue[g] : <<"queue", <<g, i>>, queue[g][i]>> \in Held
  /\ \A w \in Worker : \A i \in DOMAIN inbox[w] : <<"inbox", <<w, i>>, inbox[w][i].task>> \in Held
  /\ \A w \in Worker : \A a \in active[w] : <<"active", w, a.task>> \in Held
<1>1. \A i \in DOMAIN buffer : <<"buffer", i, buffer[i]>> \in Held
  BY DEF Held
<1>2. \A s \in Slot : \A t \in check[s].tasks : <<"check", s, t>> \in Held
  BY DEF Held
<1>3. \A g \in DOMAIN queue : \A i \in DOMAIN queue[g] : <<"queue", <<g, i>>, queue[g][i]>> \in Held
  BY DEF Held
<1>4. \A w \in Worker : \A i \in DOMAIN inbox[w] : <<"inbox", <<w, i>>, inbox[w][i].task>> \in Held
  BY DEF Held
<1>5. \A w \in Worker : \A a \in active[w] : <<"active", w, a.task>> \in Held
  BY DEF Held
<1> QED BY <1>1, <1>2, <1>3, <1>4, <1>5

LEMMA OneHolder ==
  ASSUME IInv, HeldOK, NEW k \in Caller
  PROVE  /\ \A p, q \in Held : k \in p[3].callers /\ k \in q[3].callers => p = q
         /\ (\E p \in Held : k \in p[3].callers) <=> answer[k] = "waiting"
<1> DEFINE AtBuffer(p) == \E i \in DOMAIN buffer : p = <<"buffer", i, buffer[i]>> /\ k \in buffer[i].callers
           AtCheck(p, s) == \E t \in check[s].tasks : p = <<"check", s, t>> /\ k \in t.callers
           AtQueue(p, g) == g \in DOMAIN queue /\ \E i \in DOMAIN queue[g] :
                              p = <<"queue", <<g, i>>, queue[g][i]>> /\ k \in queue[g][i].callers
           AtInbox(p, w) == \E i \in DOMAIN inbox[w] :
                              p = <<"inbox", <<w, i>>, inbox[w][i].task>> /\ k \in inbox[w][i].task.callers
           AtActive(p, w) == \E a \in active[w] : p = <<"active", w, a.task>> /\ k \in a.task.callers
<1>1. PlaceOK(k) /\ \A w \in Worker : OnceInInbox(k, w)
  BY DEF HeldOK
<1>2. DOMAIN queue \subseteq Group
  BY DEF IInv, QueueOK
<1>3. ASSUME NEW p \in Held, k \in p[3].callers
      PROVE  \/ AtBuffer(p) \/ \E s \in Slot : AtCheck(p, s)
             \/ \E g \in Group : AtQueue(p, g)
             \/ \E w \in Worker : AtInbox(p, w) \/ AtActive(p, w)
  BY <1>2, <1>3, HoldersOf
<1>4. /\ \A p, q : AtBuffer(p) /\ AtBuffer(q) => p = q
      /\ \A s \in Slot : \A p, q : AtCheck(p, s) /\ AtCheck(q, s) => p = q
      /\ \A g \in Group : \A p, q : AtQueue(p, g) /\ AtQueue(q, g) => p = q
      /\ \A w \in Worker : \A p, q : AtInbox(p, w) /\ AtInbox(q, w) => p = q
      /\ \A w \in Worker : \A p, q : AtActive(p, w) /\ AtActive(q, w) => p = q
  <2>1. \A p, q : AtBuffer(p) /\ AtBuffer(q) => p = q
    BY OneTask
  <2>2. \A s \in Slot : \A p, q : AtCheck(p, s) /\ AtCheck(q, s) => p = q
    BY OneTask
  <2>3. \A g \in Group : \A p, q : AtQueue(p, g) /\ AtQueue(q, g) => p = q
    BY OneTask
  <2>4. \A w \in Worker : \A p, q : AtInbox(p, w) /\ AtInbox(q, w) => p = q
    BY <1>1 DEF OnceInInbox
  <2>5. \A w \in Worker : \A p, q : AtActive(p, w) /\ AtActive(q, w) => p = q
    BY OneTask
  <2> QED BY <2>1, <2>2, <2>3, <2>4, <2>5
<1>5. /\ \A p : AtBuffer(p) => InBuffer(k)
      /\ \A p : \A s \in Slot : AtCheck(p, s) => InCheck(k, s)
      /\ \A p : \A g \in Group : AtQueue(p, g) => InQueue(k, g)
      /\ \A p : \A w \in Worker : AtInbox(p, w) => InInbox(k, w)
      /\ \A p : \A w \in Worker : AtActive(p, w) => InActive(k, w)
  BY DEF InBuffer, InCheck, InQueue, InInbox, InActive
<1> HIDE DEF AtBuffer, AtCheck, AtQueue, AtInbox, AtActive
<1>6. ASSUME NEW p \in Held, NEW q \in Held, k \in p[3].callers, k \in q[3].callers
      PROVE  p = q
  <2>1. CASE AtBuffer(p)
    <3>1. AtBuffer(q)
      BY <1>1, <1>3, <1>5, <1>6, <2>1 DEF PlaceOK, Apart
    <3> QED BY <1>4, <2>1, <3>1
  <2>2. ASSUME NEW s \in Slot, AtCheck(p, s) PROVE p = q
    <3>1. AtCheck(q, s)
      BY <1>1, <1>3, <1>5, <1>6, <2>2 DEF PlaceOK, Apart
    <3> QED BY <1>4, <2>2, <3>1
  <2>3. ASSUME NEW g \in Group, AtQueue(p, g) PROVE p = q
    <3>1. AtQueue(q, g)
      BY <1>1, <1>3, <1>5, <1>6, <2>3 DEF PlaceOK, Apart
    <3> QED BY <1>4, <2>3, <3>1
  <2>4. ASSUME NEW w \in Worker, AtInbox(p, w) PROVE p = q
    <3>1. AtInbox(q, w)
      BY <1>1, <1>3, <1>5, <1>6, <2>4 DEF PlaceOK, Apart
    <3> QED BY <1>4, <2>4, <3>1
  <2>5. ASSUME NEW w \in Worker, AtActive(p, w) PROVE p = q
    <3>1. AtActive(q, w)
      BY <1>1, <1>3, <1>5, <1>6, <2>5 DEF PlaceOK, Apart
    <3> QED BY <1>4, <2>5, <3>1
  <2> QED BY <1>3, <1>6, <2>1, <2>2, <2>3, <2>4, <2>5
<1>7. (\E p \in Held : k \in p[3].callers) => Somewhere(k)
  BY <1>3, <1>5 DEF Somewhere
<1>8. Somewhere(k) => \E p \in Held : k \in p[3].callers
  <2>1. InBuffer(k) => \E p \in Held : k \in p[3].callers
    BY HoldersIn DEF InBuffer
  <2>2. \A s \in Slot : InCheck(k, s) => \E p \in Held : k \in p[3].callers
    BY HoldersIn DEF InCheck
  <2>3. \A g \in Group : InQueue(k, g) => \E p \in Held : k \in p[3].callers
    BY HoldersIn DEF InQueue
  <2>4. \A w \in Worker : InInbox(k, w) => \E p \in Held : k \in p[3].callers
    BY HoldersIn DEF InInbox
  <2>5. \A w \in Worker : InActive(k, w) => \E p \in Held : k \in p[3].callers
    BY HoldersIn DEF InActive
  <2> QED BY <2>1, <2>2, <2>3, <2>4, <2>5 DEF Somewhere
<1> QED BY <1>1, <1>6, <1>7, <1>8 DEF PlaceOK

\* The channel of a caller that waits is held by one task in one place, from the buffer
\* to the table of a watcher, and the channel of one that has its answer by none,
\* whatever is merged, handed on, restarted or lost on the way (mod.rs:357-370, 645-977).
THEOREM EveryCallIsHeldOnce == Spec => []HeldOnce
<1>1. IInv /\ HeldOK => HeldOnce
  <2> SUFFICES ASSUME IInv, HeldOK, NEW k \in Caller
               PROVE  Cardinality({p \in Held : k \in p[3].callers}) =
                        IF answer[k] = "waiting" THEN 1 ELSE 0
    BY DEF HeldOnce
  <2> DEFINE holders == {p \in Held : k \in p[3].callers}
  <2>1. CASE answer[k] = "waiting"
    <3>1. PICK p \in Held : k \in p[3].callers
      BY <2>1, OneHolder
    <3>2. holders = {p}
      BY <3>1, OneHolder
    <3> QED BY <2>1, <3>2, FS_Singleton
  <2>2. CASE answer[k] # "waiting"
    <3>1. holders = {}
      BY <2>2, OneHolder
    <3> QED BY <2>2, <3>1, FS_EmptySet
  <2> QED BY <2>1, <2>2
<1> QED BY <1>1, HeldInductive, PTL

----------------------------------------------------------------------------
(* Clashes *)

Calm == \A kind \in FaultKinds : mishaps[kind] = 0
Made(k) == answer[k] # "none"
Clash(h) == \E j, k \in Caller : j # k /\ j.hash = h /\ k.hash = h /\ Made(j) /\ Made(k)

\* What a watcher has posted or has an answer about.
Open(w) == sent[w] \cup result[w].completed \cup result[w].rejected

\* A posted file has a caller, who has its answer or waits for this index, or for
\* another one since there is another call.
PostedFor(w, f, h) ==
  \E j \in Caller :
    /\ j.hash = h /\ Made(j)
    /\ \/ answer[j] # "waiting"
       \/ \E a \in active[w] : j \in a.task.callers /\ (a.filter = f \/ Clash(h))

Asked(w) ==
  \A p \in Open(w) :
    /\ PostedFor(w, p[1], p[2])
    /\ \A a \in active[w] : a.task.hash = p[2] /\ a.filter # p[1] => Clash(p[2])

\* Every task has a caller.
Wanted ==
  /\ \A i \in DOMAIN buffer : buffer[i].callers # {}
  /\ \A s \in Slot : \A t \in check[s].tasks : t.callers # {}
  /\ \A g \in DOMAIN queue : \A i \in DOMAIN queue[g] : queue[g][i].callers # {}
  /\ \A w \in Worker : \A i \in DOMAIN inbox[w] : inbox[w][i].task.callers # {}
  /\ \A w \in Worker : \A a \in active[w] : a.task.callers # {}

BufferedOK == \A h \in buffered : \E k \in Caller : k.hash = h /\ Made(k)
OpenOK == \A w \in Worker : phase[w] \notin {"sent", "answered"} => Open(w) = {}

ClashOK ==
  /\ BufferedOK /\ OpenOK
  /\ Calm => Wanted /\ \A w \in Worker : Asked(w)
  /\ OnlyClashesAreLost

----------------------------------------------------------------------------
(* What changes, and what does not *)

LEMMA NotCalm == ASSUME IInv, NEW kind, Mishap(kind) PROVE ~Calm'
<1>1. kind \in FaultKinds /\ mishaps \in [FaultKinds -> Nat]
  BY FaultAssumption DEF Mishap, IInv, WorkersOK
<1>2. mishaps'[kind] = mishaps[kind] + 1 /\ mishaps[kind] \in Nat
  BY <1>1 DEF Mishap
<1> QED BY <1>1, <1>2 DEF Calm

LEMMA CalmStep ==
  ASSUME IInv, [Next]_vars, Calm'
  PROVE  /\ Calm
         /\ \A s \in Slot : ~CheckFails(s)
         /\ \A w \in Worker : ~PollFails(w) /\ ~WatcherRestarts(w)
<1>1. \A s \in Slot : ~CheckFails(s)
  BY NotCalm DEF CheckFails
<1>2. \A w \in Worker : ~PollFails(w) /\ ~WatcherRestarts(w) /\ ~WorkerRestarts(w)
  BY NotCalm DEF PollFails, WatcherRestarts, WorkerRestarts
<1>3. Calm
  <2>1. CASE UNCHANGED mishaps
    BY <2>1 DEF Calm
  <2>2. CASE \E w \in Worker : IngestFiles(w)
    <3>1. UNCHANGED mishaps
      BY <2>2, NotCalm DEF IngestFiles
    <3> QED BY <2>1, <3>1
  <2>3. CASE UNCHANGED vars
    BY <2>1, <2>3 DEF vars, history
  <2>4. CASE \/ \E k \in Caller : Ask(k)
             \/ \E s \in Slot : \/ StartCheck(s) \/ CollectReply(s) \/ EnqueueChecked(s)
                                \/ \E w \in Worker : UpdateFiles(s, w)
    BY <2>1, <2>4 DEF Ask, StartCheck, CollectReply, EnqueueChecked, UpdateFiles, history
  <2>5. CASE \E w \in Worker : \/ WatcherReceive(w) \/ Tick(w) \/ TakeResult(w)
                               \/ \E f \in Filter : AssignTo(w, f)
                               \/ FinishAssign(w) \/ CreateIndex(w)
    <3>1. ASSUME NEW w \in Worker, WatcherReceive(w) \/ Tick(w) \/ TakeResult(w)
          PROVE  UNCHANGED mishaps
      BY <3>1 DEF WatcherReceive, Tick, TakeResult, history
    <3>2. ASSUME NEW w \in Worker, NEW f \in Filter, AssignTo(w, f) PROVE UNCHANGED mishaps
      BY <3>2 DEF AssignTo, history
    <3>3. ASSUME NEW w \in Worker, FinishAssign(w) \/ CreateIndex(w) PROVE UNCHANGED mishaps
      BY <3>3 DEF FinishAssign, CreateIndex, history
    <3> QED BY <2>1, <2>5, <3>1, <3>2, <3>3
  <2>6. CASE \/ \E w \in Worker : \/ CollectGarbage(w)
                                  \/ \E f \in Filter, h \in Hash : EndFetch(w, f, h) \/ EndIngest(w, f, h)
             \/ NextDay
    BY <2>1, <2>6 DEF CollectGarbage, EndFetch, EndIngest, NextDay, history
  <2> QED BY <1>1, <1>2, <2>2, <2>3, <2>4, <2>5, <2>6, Steps
<1> QED BY <1>1, <1>2, <1>3

\* A call stays made, and answered once it is.
LEMMA AnswerStep ==
  ASSUME IInv, [Next]_vars, NEW k \in Caller, Made(k)
  PROVE  Made(k)' /\ (answer[k] # "waiting" => answer'[k] = answer[k] \/ answer'[k] # "waiting")
<1> DEFINE Goal == answer'[k] = answer[k] \/ answer'[k] \in {"true", "false", "lost"}
<1>1. ASSUME NEW yes, NEW no, NEW gone, Tell(yes, no, gone) PROVE Goal
  BY <1>1 DEF Tell
<1>2. ASSUME UNCHANGED answer PROVE Goal
  BY <1>2
<1>3. ASSUME NEW c \in Caller, Ask(c) PROVE Goal
  <2>1. answer[c] = "none" /\ \E a : answer' = [answer EXCEPT ![c] = a]
    BY <1>3 DEF Ask
  <2> QED BY <2>1 DEF Made, IInv, AnswersOK
<1>4. ASSUME NEW s \in Slot, StartCheck(s) \/ CollectReply(s) \/ CheckFails(s) PROVE Goal
  <2>1. \E yes, no, gone : Tell(yes, no, gone)
    BY <1>4 DEF StartCheck, CollectReply, CheckFails
  <2> QED BY <1>1, <2>1
<1>5. ASSUME NEW w \in Worker, Tick(w) \/ TakeResult(w) \/ WatcherRestarts(w) \/ \E f \in Filter : AssignTo(w, f)
      PROVE  Goal
  <2>1. \E yes, no, gone : Tell(yes, no, gone)
    BY <1>5 DEF Tick, TakeResult, WatcherRestarts, AssignTo
  <2> QED BY <1>1, <2>1
<1>6. ASSUME NEW s \in Slot, EnqueueChecked(s) \/ \E w \in Worker : UpdateFiles(s, w) PROVE Goal
  BY <1>2, <1>6 DEF EnqueueChecked, UpdateFiles
<1>7. ASSUME NEW w \in Worker,
             \/ WatcherReceive(w) \/ IngestFiles(w) \/ FinishAssign(w) \/ CreateIndex(w) \/ PollFails(w)
             \/ CollectGarbage(w) \/ WorkerRestarts(w)
             \/ \E f \in Filter, h \in Hash : EndFetch(w, f, h) \/ EndIngest(w, f, h)
      PROVE  Goal
  BY <1>2, <1>7 DEF WatcherReceive, IngestFiles, FinishAssign, CreateIndex, PollFails,
                    CollectGarbage, WorkerRestarts, EndFetch, EndIngest
<1>8. ASSUME NextDay \/ UNCHANGED vars PROVE Goal
  BY <1>2, <1>8 DEF NextDay, vars
<1> HIDE DEF Goal
<1>9. Goal
  BY <1>3, <1>4, <1>5, <1>6, <1>7, <1>8, Steps
<1> QED BY <1>9 DEF Goal, Made

LEMMA ClashStep ==
  ASSUME IInv, [Next]_vars, NEW h, Clash(h)
  PROVE  Clash(h)'
<1>1. \A k \in Caller : Made(k) => Made(k)'
  BY AnswerStep
<1> QED BY <1>1 DEF Clash

\* Whoever is held by a task is one of its file, waits, and is not held elsewhere.
LEMMA HolderIs ==
  ASSUME IInv, HeldOK
  PROVE  /\ \A w \in Worker : \A a \in active[w] : \A j \in a.task.callers :
              j \in Caller /\ j.hash = a.task.hash /\ answer[j] = "waiting" /\ Made(j) /\ InActive(j, w)
         /\ \A w \in Worker : \A i \in DOMAIN inbox[w] : \A j \in inbox[w][i].task.callers :
              /\ j \in Caller /\ j.hash = inbox[w][i].task.hash /\ answer[j] = "waiting" /\ Made(j)
              /\ \A v \in Worker : ~InActive(j, v)
         /\ \A g \in DOMAIN queue : \A i \in DOMAIN queue[g] : \A j \in queue[g][i].callers :
              /\ j \in Caller /\ j.hash = queue[g][i].hash /\ answer[j] = "waiting" /\ Made(j)
              /\ \A v \in Worker : ~InActive(j, v)
<1>1. ASSUME NEW w \in Worker, NEW a \in active[w], NEW j \in a.task.callers
      PROVE  j \in Caller /\ j.hash = a.task.hash /\ answer[j] = "waiting" /\ Made(j) /\ InActive(j, w)
  <2>1. a \in Entry /\ a.task \in Task /\ Sound(a.task)
    BY Kinds DEF IInv, ActiveOK
  <2>2. j \in Caller /\ j.hash = a.task.hash
    BY <2>1, Kinds DEF Sound
  <2>3. InActive(j, w)
    BY DEF InActive
  <2> QED BY <2>2, <2>3 DEF HeldOK, PlaceOK, Somewhere, Made
<1>2. ASSUME NEW w \in Worker, NEW i \in DOMAIN inbox[w], NEW j \in inbox[w][i].task.callers
      PROVE  /\ j \in Caller /\ j.hash = inbox[w][i].task.hash /\ answer[j] = "waiting" /\ Made(j)
             /\ \A v \in Worker : ~InActive(j, v)
  <2>1. inbox[w] \in Seq(Entry) /\ Sound(inbox[w][i].task)
    BY DEF IInv, InboxOK
  <2>2. inbox[w][i].task \in Task
    BY <2>1, Kinds, LenProperties
  <2>3. j \in Caller /\ j.hash = inbox[w][i].task.hash
    BY <2>1, <2>2, Kinds DEF Sound
  <2>4. InInbox(j, w)
    BY DEF InInbox
  <2> QED BY <2>3, <2>4 DEF HeldOK, PlaceOK, Somewhere, Apart, Made
<1>3. ASSUME NEW g \in DOMAIN queue, NEW i \in DOMAIN queue[g], NEW j \in queue[g][i].callers
      PROVE  /\ j \in Caller /\ j.hash = queue[g][i].hash /\ answer[j] = "waiting" /\ Made(j)
             /\ \A v \in Worker : ~InActive(j, v)
  <2>1. queue[g] \in Seq(Task) /\ Sound(queue[g][i]) /\ g \in Group
    BY DEF IInv, QueueOK
  <2>2. queue[g][i] \in Task
    BY <2>1, LenProperties
  <2>3. j \in Caller /\ j.hash = queue[g][i].hash
    BY <2>1, <2>2, Kinds DEF Sound
  <2>4. InQueue(j, g)
    BY DEF InQueue
  <2> QED BY <2>1, <2>3, <2>4 DEF HeldOK, PlaceOK, Somewhere, Apart, Made
<1> QED BY <1>1, <1>2, <1>3

\* Only a tick opens anything, in a watcher that had nothing open.
LEMMA OpenStep ==
  ASSUME IInv, OpenOK, [Next]_vars
  PROVE  /\ OpenOK'
         /\ \A w \in Worker : Tick(w) \/ Open(w)' \subseteq Open(w)
<1> DEFINE Goal(w) == /\ phase'[w] \notin {"sent", "answered"} => Open(w)' = {}
                      /\ Tick(w) \/ Open(w)' \subseteq Open(w)
<1>1. NoResult.completed = {} /\ NoResult.rejected = {}
  BY DEF NoResult
<1>2. /\ phase \in [Worker -> Phases] /\ sent \in [Worker -> SUBSET Pairs]
      /\ result \in [Worker -> Result]
      /\ \A w \in Worker : phase[w] # "sent" => sent[w] = {}
  BY DEF IInv, WatcherOK
<1>3. ASSUME NEW w \in Worker, phase'[w] = phase[w], sent'[w] = sent[w], result'[w] = result[w]
      PROVE  Goal(w)
  BY <1>3 DEF OpenOK, Open
<1>4. ASSUME UNCHANGED <<phase, sent, result>> PROVE \A w \in Worker : Goal(w)
  BY <1>3, <1>4
<1>5. ASSUME NEW v \in Worker, Tick(v) PROVE \A w \in Worker : Goal(w)
  <2>1. \A w \in Worker \ {v} : phase'[w] = phase[w] /\ sent'[w] = sent[w] /\ result'[w] = result[w]
    BY <1>2, <1>5 DEF Tick
  <2>2. ASSUME phase'[v] \notin {"sent", "answered"} PROVE Open(v)' = {}
    <3>1. phase'[v] = phase[v] /\ sent'[v] = sent[v] /\ result' = result
      BY <1>2, <1>5, <2>2 DEF Tick
    <3> QED BY <2>2, <3>1 DEF OpenOK, Open
  <2> QED BY <1>3, <1>5, <2>1, <2>2
<1>6. ASSUME NEW v \in Worker, IngestFiles(v) PROVE \A w \in Worker : Goal(w)
  <2>1. \A w \in Worker \ {v} : phase'[w] = phase[w] /\ sent'[w] = sent[w] /\ result'[w] = result[w]
    BY <1>6, IngestFilesOf
  <2>2. phase'[v] = "answered" /\ Open(v)' \subseteq sent[v]
    BY <1>6, IngestFilesOf DEF Open
  <2> QED BY <1>3, <2>1, <2>2 DEF Open
<1>7. ASSUME NEW v \in Worker, TakeResult(v) PROVE \A w \in Worker : Goal(w)
  <2>1. \A w \in Worker \ {v} : phase'[w] = phase[w] /\ sent'[w] = sent[w] /\ result'[w] = result[w]
    BY <1>2, <1>7 DEF TakeResult
  <2>2. sent'[v] = {}
    BY <1>2, <1>7 DEF TakeResult
  <2>3. result'[v].completed = {} /\ result'[v].rejected = {}
    <3>1. CASE result[v].pressure
      BY <1>1, <1>2, <1>7, <3>1 DEF TakeResult
    <3>2. CASE ~result[v].pressure
      <4> DEFINE c == [result[v] EXCEPT !.completed = {}, !.rejected = {}]
      <4>1. result' = [result EXCEPT ![v] = c]
        BY <1>2, <1>7, <3>2 DEF TakeResult
      <4>2. c.completed = {} /\ c.rejected = {}
        BY <1>2 DEF Result
      <4> HIDE DEF c
      <4> QED BY <1>2, <4>1, <4>2
    <3> QED BY <3>1, <3>2
  <2>4. Open(v)' = {}
    BY <2>2, <2>3 DEF Open
  <2> QED BY <1>3, <2>1, <2>4
<1>8. ASSUME NEW v \in Worker, FinishAssign(v) PROVE \A w \in Worker : Goal(w)
  <2> DEFINE c == [NoResult EXCEPT !.group = result[v].group]
  <2>1. \A w \in Worker \ {v} : phase'[w] = phase[w] /\ sent'[w] = sent[w] /\ result'[w] = result[w]
    BY <1>2, <1>8 DEF FinishAssign
  <2>2. sent'[v] = {}
    BY <1>2, <1>8 DEF FinishAssign
  <2>3. c.completed = {} /\ c.rejected = {}
    BY DEF NoResult
  <2>4. result' = [result EXCEPT ![v] = NoResult] \/ result' = [result EXCEPT ![v] = c]
    BY <1>8 DEF FinishAssign
  <2> HIDE DEF c
  <2>5. Open(v)' = {}
    BY <1>1, <1>2, <2>2, <2>3, <2>4 DEF Open
  <2> QED BY <1>3, <2>1, <2>5
<1>9. ASSUME NEW v \in Worker, CreateIndex(v) PROVE \A w \in Worker : Goal(w)
  <2>1. \A w \in Worker \ {v} : phase'[w] = phase[w] /\ sent'[w] = sent[w] /\ result'[w] = result[w]
    BY <1>2, <1>9 DEF CreateIndex
  <2>2. sent'[v] = {} /\ Open(v) = {}
    BY <1>2, <1>9 DEF CreateIndex, OpenOK
  <2>3. result'[v].completed = {} /\ result'[v].rejected = {}
    <3>1. PICK g \in todo[v], id \in Filter :
            result' = [result EXCEPT ![v] =
                IF todo[v] = {g} THEN NoResult ELSE [@ EXCEPT !.group[id] = g]]
      BY <1>9 DEF CreateIndex
    <3> DEFINE c == [result[v] EXCEPT !.group[id] = g]
    <3>2. c.completed = {} /\ c.rejected = {}
      BY <1>2, <2>2 DEF Result, Open
    <3>3. result' = [result EXCEPT ![v] = NoResult] \/ result' = [result EXCEPT ![v] = c]
      BY <3>1
    <3> HIDE DEF c
    <3> QED BY <1>1, <1>2, <3>2, <3>3
  <2>4. Open(v)' = {}
    BY <2>2, <2>3 DEF Open
  <2> QED BY <1>3, <2>1, <2>4
<1>10. ASSUME NEW v \in Worker, PollFails(v) \/ WatcherRestarts(v) PROVE \A w \in Worker : Goal(w)
  <2>1. \A w \in Worker \ {v} : phase'[w] = phase[w] /\ sent'[w] = sent[w] /\ result'[w] = result[w]
    BY <1>2, <1>10 DEF PollFails, WatcherRestarts
  <2>2. sent'[v] = {} /\ result'[v] = NoResult
    BY <1>2, <1>10 DEF PollFails, WatcherRestarts
  <2>3. Open(v)' = {}
    BY <1>1, <2>2 DEF Open
  <2> QED BY <1>3, <2>1, <2>3
<1>11. ASSUME NEW v \in Worker,
              \/ WatcherReceive(v) \/ CollectGarbage(v) \/ WorkerRestarts(v)
              \/ \E f \in Filter : AssignTo(v, f)
              \/ \E f \in Filter, h \in Hash : EndFetch(v, f, h) \/ EndIngest(v, f, h)
       PROVE  \A w \in Worker : Goal(w)
  <2>1. UNCHANGED <<phase, sent, result>>
    BY <1>11 DEF WatcherReceive, CollectGarbage, WorkerRestarts, AssignTo, EndFetch, EndIngest, watching
  <2> QED BY <1>4, <2>1
<1>12. ASSUME NEW s \in Slot,
              \/ StartCheck(s) \/ CollectReply(s) \/ EnqueueChecked(s) \/ CheckFails(s)
              \/ \E w \in Worker : UpdateFiles(s, w)
       PROVE  \A w \in Worker : Goal(w)
  <2>1. UNCHANGED <<phase, sent, result>>
    BY <1>12 DEF StartCheck, CollectReply, EnqueueChecked, CheckFails, UpdateFiles, watching
  <2> QED BY <1>4, <2>1
<1>13. ASSUME NextDay \/ UNCHANGED vars \/ \E k \in Caller : Ask(k) PROVE \A w \in Worker : Goal(w)
  <2>1. UNCHANGED <<phase, sent, result>>
    BY <1>13 DEF NextDay, Ask, vars, watching
  <2> QED BY <1>4, <2>1
<1> HIDE DEF Goal
<1>14. \A w \in Worker : Goal(w)
  BY <1>5, <1>6, <1>7, <1>8, <1>9, <1>10, <1>11, <1>12, <1>13, Steps
<1> QED BY <1>14 DEF Goal, OpenOK

\* A watcher that leaves its table as it is, and opens nothing, has asked for the same.
LEMMA AskedKept ==
  ASSUME IInv, [Next]_vars, NEW w \in Worker, Asked(w), Open(w)' \subseteq Open(w),
         \A b \in active'[w] : b \in active[w],
         \A j \in Caller : \A a \in active[w] : j \in a.task.callers => a \in active'[w] \/ answer'[j] # "waiting"
  PROVE  Asked(w)'
<1> SUFFICES ASSUME NEW p \in Open(w)'
             PROVE  /\ PostedFor(w, p[1], p[2])'
                    /\ \A a \in active'[w] : a.task.hash = p[2] /\ a.filter # p[1] => Clash(p[2])'
  BY DEF Asked
<1>1. p \in Open(w)
  OBVIOUS
<1>2. \A a \in active'[w] : a.task.hash = p[2] /\ a.filter # p[1] => Clash(p[2])'
  BY <1>1, ClashStep DEF Asked
<1>3. PICK j \in Caller :
        /\ j.hash = p[2] /\ Made(j)
        /\ \/ answer[j] # "waiting"
           \/ \E a \in active[w] : j \in a.task.callers /\ (a.filter = p[1] \/ Clash(p[2]))
  BY <1>1 DEF Asked, PostedFor
<1>4. Made(j)' /\ (answer[j] # "waiting" => answer'[j] # "waiting")
  BY <1>3, AnswerStep
<1>5. ASSUME answer[j] # "waiting" PROVE PostedFor(w, p[1], p[2])'
  BY <1>3, <1>4, <1>5 DEF PostedFor
<1>6. ASSUME NEW a \in active[w], j \in a.task.callers, a.filter = p[1] \/ Clash(p[2])
      PROVE  PostedFor(w, p[1], p[2])'
  <2>1. a.filter = p[1] \/ Clash(p[2])'
    BY <1>6, ClashStep
  <2>2. a \in active'[w] \/ answer'[j] # "waiting"
    BY <1>6
  <2> QED BY <1>3, <1>4, <1>6, <2>1, <2>2 DEF PostedFor
<1> QED BY <1>2, <1>3, <1>5, <1>6

----------------------------------------------------------------------------
(* Every task has a caller *)

LEMMA AskWanted ==
  ASSUME IInv, Wanted, NEW c \in Caller, Ask(c)
  PROVE  \A i \in DOMAIN buffer' : buffer'[i].callers # {}
<1> DEFINE new == [hash |-> c.hash, expiry |-> c.expiry, callers |-> {c}]
           same == {i \in DOMAIN buffer : buffer[i].hash = c.hash}
<1>1. new.callers = {c}
  OBVIOUS
<1>2. \A i \in DOMAIN buffer : buffer[i].callers # {}
  BY DEF Wanted
<1>3. CASE c.hash \notin buffered
  <2>1. buffer' = Append(buffer, new)
    BY <1>3 DEF Ask
  <2>2. /\ DOMAIN buffer' = DOMAIN buffer \cup {Len(buffer) + 1}
        /\ \A i \in DOMAIN buffer : buffer'[i] = buffer[i]
        /\ buffer'[Len(buffer) + 1] = new
    BY <2>1 DEF IInv, BufferOK
  <2> HIDE DEF new
  <2> QED BY <1>1, <1>2, <2>2
<1>4. CASE c.hash \in buffered
  <2>1. buffer' = [i \in DOMAIN buffer |-> IF i \in same THEN Merge(buffer[i], new) ELSE buffer[i]]
    BY <1>4 DEF Ask
  <2>2. \A i \in DOMAIN buffer : Merge(buffer[i], new).callers = buffer[i].callers \cup {c}
    BY DEF Merge
  <2> QED BY <1>2, <2>1, <2>2
<1> QED BY <1>3, <1>4

LEMMA StartCheckWanted ==
  ASSUME IInv, Wanted, NEW s \in Slot, StartCheck(s)
  PROVE  /\ \A i \in DOMAIN buffer' : buffer'[i].callers # {}
         /\ \A x \in Slot : \A t \in check'[x].tasks : t.callers # {}
<1>1. PICK n \in DOMAIN buffer :
        LET fresh == {i \in 1 .. n : today < buffer[i].expiry}
            tasks == {buffer[i] : i \in fresh}
        IN /\ buffer' = SubSeq(buffer, n + 1, Len(buffer))
           /\ check' = IF tasks = {} THEN check ELSE
                [check EXCEPT ![s] =
                  [files |-> {[hash |-> t.hash, expiry |-> t.expiry] : t \in tasks},
                   tasks |-> tasks, asked |-> Worker, replies |-> {}]]
  BY DEF StartCheck
<1> DEFINE fresh == {i \in 1 .. n : today < buffer[i].expiry}
           tasks == {buffer[i] : i \in fresh}
           first == [files |-> {[hash |-> t.hash, expiry |-> t.expiry] : t \in tasks},
                     tasks |-> tasks, asked |-> Worker, replies |-> {}]
<1>2. buffer \in Seq(Task) /\ DOMAIN buffer = 1 .. Len(buffer) /\ Len(buffer) \in Nat /\ n \in 0 .. Len(buffer)
  BY LenProperties DEF IInv, BufferOK
<1>3. \A i \in DOMAIN buffer : buffer[i].callers # {}
  BY DEF Wanted
<1>4. \A i \in DOMAIN buffer' : buffer'[i].callers # {}
  <2>1. \A i \in DOMAIN buffer' : i + n \in DOMAIN buffer /\ buffer'[i] = buffer[i + n]
    BY <1>1, <1>2, CutOf
  <2> QED BY <1>3, <2>1
<1>5. \A t \in tasks : t.callers # {}
  <2>1. \A i \in fresh : i \in DOMAIN buffer
    BY <1>2
  <2> QED BY <1>3, <2>1
<1>6. first.tasks = tasks
  OBVIOUS
<1>7. check' = check \/ check' = [check EXCEPT ![s] = first]
  BY <1>1
<1> HIDE DEF first, tasks
<1>8. \A x \in Slot : check'[x] = check[x] \/ check'[x].tasks = tasks
  BY <1>6, <1>7 DEF IInv, CheckOK
<1> QED BY <1>4, <1>5, <1>8 DEF Wanted

\* The tasks of a check: none is added after its start.
LEMMA TasksStep ==
  ASSUME IInv, NEW s \in Slot,
         \/ CollectReply(s) \/ EnqueueChecked(s) \/ CheckFails(s)
         \/ \E w \in Worker : UpdateFiles(s, w)
  PROVE  \A x \in Slot : check'[x].tasks \subseteq check[x].tasks
<1>1. ASSUME NEW c, c.tasks \subseteq check[s].tasks, check' = [check EXCEPT ![s] = c]
      PROVE  \A x \in Slot : check'[x].tasks \subseteq check[x].tasks
  BY <1>1 DEF IInv, CheckOK
<1>2. NoCheck.tasks = {}
  BY DEF NoCheck
<1>3. CASE EnqueueChecked(s) \/ CheckFails(s)
  BY <1>1, <1>2, <1>3 DEF EnqueueChecked, CheckFails
<1>4. CASE CollectReply(s)
  <2>1. PICK r, gone, files :
          check' = [check EXCEPT ![s].replies = @ \ {r}, ![s].tasks = @ \ gone, ![s].files = files]
    <3>1. PICK r \in check[s].replies :
            check' = [check EXCEPT
              ![s].replies = @ \ {r},
              ![s].tasks = @ \ (Processed(s, r) \cup {m.task : m \in HandedOn(s, r)}),
              ![s].files = IF check[s].asked = {} THEN {} ELSE @]
      BY <1>4 DEF CollectReply
    <3> DEFINE gone == Processed(s, r) \cup {m.task : m \in HandedOn(s, r)}
               files == IF check[s].asked = {} THEN {} ELSE check[s].files
    <3>2. check' = [check EXCEPT ![s].replies = @ \ {r}, ![s].tasks = @ \ gone, ![s].files = files]
      BY <3>1 DEF IInv, CheckOK, Check
    <3> HIDE DEF gone, files
    <3> QED BY <3>2
  <2> DEFINE c == [check[s] EXCEPT !.replies = @ \ {r}, !.tasks = @ \ gone, !.files = files]
  <2>2. check' = [check EXCEPT ![s] = c]
    BY <2>1 DEF IInv, CheckOK
  <2>3. c.tasks \subseteq check[s].tasks
    BY DEF IInv, CheckOK, Check
  <2> HIDE DEF c
  <2> QED BY <1>1, <2>2, <2>3
<1>5. ASSUME NEW w \in Worker, UpdateFiles(s, w)
      PROVE  \A x \in Slot : check'[x].tasks \subseteq check[x].tasks
  <2>1. PICK new : check' = [check EXCEPT ![s].asked = @ \ {w}, ![s].replies = @ \cup {new}]
    BY <1>5 DEF UpdateFiles
  <2> DEFINE c == [check[s] EXCEPT !.asked = @ \ {w}, !.replies = @ \cup {new}]
  <2>2. check' = [check EXCEPT ![s] = c]
    BY <2>1 DEF IInv, CheckOK
  <2>3. c.tasks \subseteq check[s].tasks
    BY DEF IInv, CheckOK, Check
  <2> HIDE DEF c
  <2> QED BY <1>1, <2>2, <2>3
<1> QED BY <1>3, <1>4, <1>5

LEMMA EnqueueWanted ==
  ASSUME IInv, Wanted, NEW s \in Slot, EnqueueChecked(s)
  PROVE  \A g \in DOMAIN queue' : \A i \in DOMAIN queue'[g] : queue'[g][i].callers # {}
<1> SUFFICES ASSUME NEW g \in DOMAIN queue', NEW i \in DOMAIN queue'[g]
             PROVE  queue'[g][i].callers # {}
  OBVIOUS
<1>1. CASE i \notin DOMAIN QueueOf(g)
  <2>1. queue'[g][i] \in check[s].tasks
    BY <1>1, EnqueueOf DEF NewIn
  <2> QED BY <2>1 DEF Wanted
<1>2. CASE i \in DOMAIN QueueOf(g)
  <2>1. QueueOf(g)[i].callers # {} /\ QueueOf(g)[i] \in Task
    BY <1>2, EnqueueOf DEF QueueOf, Wanted
  <2>2. CASE SameIn(s, g, i) = {}
    BY <1>2, <2>1, <2>2, EnqueueOf
  <2>3. CASE SameIn(s, g, i) # {}
    <3>1. PICK t \in SameIn(s, g, i) : TRUE
      BY <2>3
    <3>2. t \in Task /\ t.hash = QueueOf(g)[i].hash
      BY <3>1 DEF SameIn, IInv, CheckOK, Check
    <3>3. queue'[g][i] = Merge(QueueOf(g)[i], t)
      BY <1>2, <3>1, EnqueueOf
    <3> QED BY <2>1, <3>2, <3>3, Merged
  <2> QED BY <2>2, <2>3
<1> QED BY <1>1, <1>2

\* What a watcher has after it took something from its channel.
LEMMA ReceiveOf ==
  ASSUME IInv, NEW w \in Worker, WatcherReceive(w)
  PROVE  \E m \in Entry :
           /\ \E i \in DOMAIN inbox[w] : m = inbox[w][i]
           /\ \A v \in Worker \ {w} : active'[v] = active[v]
           /\ \A b \in active'[w] :
                \/ b \in active[w] /\ b.task.hash # m.task.hash
                \/ b = m /\ \A a \in active[w] : a.task.hash # m.task.hash
                \/ \E a \in active[w] :
                     /\ a.task.hash = m.task.hash /\ b.task.hash = m.task.hash
                     /\ b.task.callers = a.task.callers \cup m.task.callers
                     /\ b.filter \in {a.filter, m.filter}
           /\ \A a \in active[w] :
                \/ a \in active'[w]
                \/ \E b \in active'[w] :
                     /\ a.task.hash = m.task.hash /\ b.task.hash = m.task.hash
                     /\ b.task.callers = a.task.callers \cup m.task.callers
                     /\ b.filter \in {a.filter, m.filter}
<1> DEFINE m == Head(inbox[w])
           same == {a \in active[w] : a.task.hash = m.task.hash}
           moved(a) == [task |-> Merge(a.task, m.task),
                        filter |-> IF a.task.expiry < m.task.expiry THEN m.filter ELSE a.filter]
           now == (active[w] \ same) \cup (IF same = {} THEN {m} ELSE {moved(a) : a \in same})
<1>1. active' = [active EXCEPT ![w] = now] /\ inbox[w] # <<>> /\ inbox[w] \in Seq(Entry)
  BY DEF WatcherReceive, IInv, InboxOK
<1>2. m = inbox[w][1] /\ 1 \in DOMAIN inbox[w] /\ m \in Entry
  BY <1>1, TailOf
<1>3. active'[w] = now /\ \A v \in Worker \ {w} : active'[v] = active[v]
  BY <1>1 DEF IInv, ActiveOK
<1> HIDE DEF m
<1>4. m.task \in Task /\ \A a \in same : a.task \in Task /\ a.task.hash = m.task.hash
  <2>1. \A a \in same : a \in Entry
    BY DEF IInv, ActiveOK
  <2> QED BY <1>2, <2>1, Kinds
<1>5. \A a \in same : /\ moved(a).task = Merge(a.task, m.task)
                      /\ moved(a).filter \in {a.filter, m.filter}
  OBVIOUS
<1>6. \A a \in same : /\ moved(a).task.hash = m.task.hash
                      /\ moved(a).task.callers = a.task.callers \cup m.task.callers
  BY <1>4, <1>5, Merged
<1>7. \A b \in now : \/ b \in active[w] /\ b.task.hash # m.task.hash
                     \/ b = m /\ same = {}
                     \/ \E a \in same : b = moved(a)
  OBVIOUS
<1>8. /\ \A a \in active[w] \ same : a \in now
      /\ \A a \in same : moved(a) \in now
  OBVIOUS
<1>9. /\ \A a \in same : a \in active[w] /\ a.task.hash = m.task.hash
      /\ same = {} => \A a \in active[w] : a.task.hash # m.task.hash
  OBVIOUS
<1> HIDE DEF now, moved, same
<1>10. \A b \in active'[w] :
         \/ b \in active[w] /\ b.task.hash # m.task.hash
         \/ b = m /\ \A a \in active[w] : a.task.hash # m.task.hash
         \/ \E a \in active[w] :
              /\ a.task.hash = m.task.hash /\ b.task.hash = m.task.hash
              /\ b.task.callers = a.task.callers \cup m.task.callers
              /\ b.filter \in {a.filter, m.filter}
  BY <1>3, <1>5, <1>6, <1>7, <1>9
<1>11. \A a \in active[w] :
         \/ a \in active'[w]
         \/ \E b \in active'[w] :
              /\ a.task.hash = m.task.hash /\ b.task.hash = m.task.hash
              /\ b.task.callers = a.task.callers \cup m.task.callers
              /\ b.filter \in {a.filter, m.filter}
  BY <1>3, <1>5, <1>6, <1>8, <1>9
<1> QED BY <1>2, <1>3, <1>10, <1>11

\* What a step of a watcher other than taking from its channel makes of tables.
LEMMA TableStep ==
  ASSUME IInv, [Next]_vars, NEW v \in Worker, NEW b \in active'[v]
  PROVE  \/ b \in active[v]
         \/ WatcherReceive(v) \/ WatcherRestarts(v)
         \/ \E f \in Filter : AssignTo(v, f) /\ \E g \in DOMAIN queue : \E i \in DOMAIN queue[g] :
              b.task = queue[g][i]
<1>1. CASE UNCHANGED active
  BY <1>1
<1>2. ASSUME NEW w \in Worker, WatcherReceive(w) \/ WatcherRestarts(w)
      PROVE  w = v \/ b \in active[v]
  <2>1. \E now : active' = [active EXCEPT ![w] = now]
    BY <1>2 DEF WatcherReceive, WatcherRestarts
  <2> QED BY <2>1 DEF IInv, ActiveOK
<1>3. ASSUME NEW w \in Worker, Tick(w) \/ TakeResult(w) PROVE b \in active[v]
  <2>1. \E gone : active' = [active EXCEPT ![w] = @ \ gone]
    BY <1>3 DEF Tick, TakeResult
  <2> QED BY <2>1 DEF IInv, ActiveOK
<1>4. ASSUME NEW w \in Worker, NEW f \in Filter, AssignTo(w, f)
      PROVE  \/ b \in active[v]
             \/ w = v /\ \E g \in DOMAIN queue : \E i \in DOMAIN queue[g] : b.task = queue[g][i]
  <2>1. PICK g \in Group, n \in Nat, over \in SUBSET active[w], got \in SUBSET Entry :
          /\ g \in DOMAIN queue /\ n <= Len(queue[g])
          /\ queue' = [queue EXCEPT ![g] = SubSeq(queue[g], n + 1, Len(queue[g]))]
          /\ active' = [active EXCEPT ![w] = (@ \ over) \cup got]
          /\ Tell({}, {}, CallersOf({a.task : a \in over}))
          /\ \A a \in got : \E i \in 1 .. n : a.task = queue[g][i]
          /\ \A i \in 1 .. n : \E a \in got : a.task = queue[g][i]
          /\ \A a \in over : \E i \in 1 .. n : a.task.hash = queue[g][i].hash
    BY <1>4, AssignToOf
  <2>2. DOMAIN queue[g] = 1 .. Len(queue[g]) /\ Len(queue[g]) \in Nat
    BY <2>1, LenProperties DEF IInv, QueueOK
  <2>3. \A i \in 1 .. n : i \in DOMAIN queue[g]
    BY <2>1, <2>2
  <2>4. CASE v # w
    BY <2>1, <2>4 DEF IInv, ActiveOK
  <2>5. CASE v = w
    <3>1. b \in active[v] \/ b \in got
      BY <2>1, <2>5 DEF IInv, ActiveOK
    <3> QED BY <2>1, <2>3, <2>5, <3>1
  <2> QED BY <2>4, <2>5
<1>5. ASSUME NEW s \in Slot,
             \/ StartCheck(s) \/ CollectReply(s) \/ EnqueueChecked(s) \/ CheckFails(s)
             \/ \E w \in Worker : UpdateFiles(s, w)
      PROVE  UNCHANGED active
  BY <1>5 DEF StartCheck, CollectReply, EnqueueChecked, CheckFails, UpdateFiles, watching
<1>6. ASSUME NEW w \in Worker,
             \/ IngestFiles(w) \/ FinishAssign(w) \/ CreateIndex(w) \/ PollFails(w)
             \/ CollectGarbage(w) \/ WorkerRestarts(w)
             \/ \E f \in Filter, h \in Hash : EndFetch(w, f, h) \/ EndIngest(w, f, h)
      PROVE  UNCHANGED active
  BY <1>6 DEF IngestFiles, FinishAssign, CreateIndex, PollFails, CollectGarbage, WorkerRestarts,
              EndFetch, EndIngest, watching
<1>7. ASSUME NextDay \/ UNCHANGED vars \/ \E k \in Caller : Ask(k) PROVE UNCHANGED active
  BY <1>7 DEF NextDay, vars, Ask, watching
<1> QED BY <1>1, <1>2, <1>3, <1>4, <1>5, <1>6, <1>7, Steps

LEMMA ActiveWanted ==
  ASSUME IInv, Wanted, [Next]_vars, NEW v \in Worker, ~WatcherRestarts(v), NEW b \in active'[v]
  PROVE  b.task.callers # {}
<1>1. CASE b \in active[v]
  BY <1>1 DEF Wanted
<1>2. CASE WatcherReceive(v)
  <2>1. PICK m \in Entry :
           /\ \E i \in DOMAIN inbox[v] : m = inbox[v][i]
           /\ \/ b \in active[v]
              \/ b = m
              \/ \E a \in active[v] : b.task.callers = a.task.callers \cup m.task.callers
    BY <1>2, ReceiveOf
  <2> QED BY <2>1 DEF Wanted
<1>3. CASE \E g \in DOMAIN queue : \E i \in DOMAIN queue[g] : b.task = queue[g][i]
  BY <1>3 DEF Wanted
<1> QED BY <1>1, <1>2, <1>3, TableStep

LEMMA InboxWanted ==
  ASSUME IInv, Wanted, [Next]_vars, NEW v \in Worker, NEW i \in DOMAIN inbox'[v]
  PROVE  inbox'[v][i].task.callers # {}
<1>1. \/ \E j \in DOMAIN inbox[v] : inbox'[v][i] = inbox[v][j]
      \/ \E s \in Slot : inbox'[v][i].task \in check[s].tasks
  BY InboxStep
<1> QED BY <1>1 DEF Wanted

LEMMA QueueWanted ==
  ASSUME IInv, Wanted, NEW w \in Worker, NEW f \in Filter, AssignTo(w, f)
  PROVE  \A g \in DOMAIN queue' : \A i \in DOMAIN queue'[g] : queue'[g][i].callers # {}
<1>1. PICK h \in Group, n \in Nat :
        /\ h \in DOMAIN queue /\ n <= Len(queue[h])
        /\ queue' = [queue EXCEPT ![h] = SubSeq(queue[h], n + 1, Len(queue[h]))]
  BY AssignToOf
<1> DEFINE rest == SubSeq(queue[h], n + 1, Len(queue[h]))
<1>2. queue[h] \in Seq(Task) /\ Len(queue[h]) \in Nat /\ n \in 0 .. Len(queue[h])
  BY <1>1, LenProperties DEF IInv, QueueOK
<1>3. \A i \in DOMAIN rest : i + n \in DOMAIN queue[h] /\ rest[i] = queue[h][i + n]
  BY <1>2, CutOf
<1>4. queue' = [queue EXCEPT ![h] = rest]
  BY <1>1
<1> HIDE DEF rest
<1>5. /\ DOMAIN queue' = DOMAIN queue /\ queue'[h] = rest
      /\ \A g \in DOMAIN queue \ {h} : queue'[g] = queue[g]
  BY <1>1, <1>4
<1>6. \A i \in DOMAIN rest : rest[i].callers # {}
  BY <1>1, <1>3 DEF Wanted
<1> QED BY <1>5, <1>6 DEF Wanted

LEMMA WantedStep ==
  ASSUME IInv, Wanted, [Next]_vars, \A w \in Worker : ~WatcherRestarts(w)
  PROVE  Wanted'
<1> DEFINE Buffer == \A i \in DOMAIN buffer : buffer[i].callers # {}
           Checks == \A s \in Slot : \A t \in check[s].tasks : t.callers # {}
           Queues == \A g \in DOMAIN queue : \A i \in DOMAIN queue[g] : queue[g][i].callers # {}
<1>1. Buffer /\ Checks /\ Queues
  BY DEF Wanted
<1>2. ASSUME UNCHANGED <<buffer, check, queue>> PROVE Buffer' /\ Checks' /\ Queues'
  BY <1>1, <1>2
<1>3. ASSUME NEW c \in Caller, Ask(c) PROVE Buffer' /\ Checks' /\ Queues'
  <2>1. UNCHANGED <<check, queue>>
    BY <1>3 DEF Ask
  <2> QED BY <1>1, <1>3, <2>1, AskWanted
<1>4. ASSUME NEW s \in Slot, StartCheck(s) PROVE Buffer' /\ Checks' /\ Queues'
  <2>1. UNCHANGED queue
    BY <1>4 DEF StartCheck
  <2> QED BY <1>1, <1>4, <2>1, StartCheckWanted
<1>5. ASSUME NEW s \in Slot, CollectReply(s) \/ CheckFails(s) \/ \E w \in Worker : UpdateFiles(s, w)
      PROVE  Buffer' /\ Checks' /\ Queues'
  <2>1. UNCHANGED <<buffer, queue>>
    BY <1>5 DEF CollectReply, CheckFails, UpdateFiles
  <2>2. \A x \in Slot : check'[x].tasks \subseteq check[x].tasks
    BY <1>5, TasksStep
  <2> QED BY <1>1, <2>1, <2>2
<1>6. ASSUME NEW s \in Slot, EnqueueChecked(s) PROVE Buffer' /\ Checks' /\ Queues'
  <2>1. UNCHANGED buffer
    BY <1>6 DEF EnqueueChecked
  <2>2. \A x \in Slot : check'[x].tasks \subseteq check[x].tasks
    BY <1>6, TasksStep
  <2>3. Queues'
    BY <1>6, EnqueueWanted
  <2> QED BY <1>1, <2>1, <2>2, <2>3
<1>7. ASSUME NEW w \in Worker, NEW f \in Filter, AssignTo(w, f) PROVE Buffer' /\ Checks' /\ Queues'
  <2>1. UNCHANGED <<buffer, check>>
    BY <1>7 DEF AssignTo, checking
  <2>2. Queues'
    BY <1>7, QueueWanted
  <2> QED BY <1>1, <2>1, <2>2
<1>8. ASSUME NEW w \in Worker,
             \/ WatcherReceive(w) \/ Tick(w) \/ TakeResult(w) \/ IngestFiles(w) \/ FinishAssign(w)
             \/ CreateIndex(w) \/ PollFails(w) \/ CollectGarbage(w) \/ WorkerRestarts(w)
             \/ \E f \in Filter, h \in Hash : EndFetch(w, f, h) \/ EndIngest(w, f, h)
      PROVE  UNCHANGED <<buffer, check, queue>>
  BY <1>8 DEF WatcherReceive, Tick, TakeResult, IngestFiles, FinishAssign, CreateIndex, PollFails,
              CollectGarbage, WorkerRestarts, EndFetch, EndIngest, checking
<1>9. ASSUME NextDay \/ UNCHANGED vars PROVE UNCHANGED <<buffer, check, queue>>
  BY <1>9 DEF NextDay, vars, checking
<1> HIDE DEF Buffer, Checks, Queues
<1>10. Buffer' /\ Checks' /\ Queues'
  BY <1>2, <1>3, <1>4, <1>5, <1>6, <1>7, <1>8, <1>9, Steps
<1> QED BY <1>10, InboxWanted, ActiveWanted DEF Buffer, Checks, Queues, Wanted

----------------------------------------------------------------------------
(* What is posted, and who is lost *)

\* A table changes in few steps of its watcher.
LEMMA TableKept ==
  ASSUME IInv, [Next]_vars, NEW v \in Worker
  PROVE  \/ active'[v] = active[v]
         \/ WatcherReceive(v) \/ Tick(v)
         \/ TakeResult(v) \/ WatcherRestarts(v) \/ \E f \in Filter : AssignTo(v, f)
<1>1. ASSUME NEW w \in Worker,
             \/ WatcherReceive(w) \/ WatcherRestarts(w) \/ Tick(w) \/ TakeResult(w)
             \/ \E f \in Filter : AssignTo(w, f)
      PROVE  w = v \/ active'[v] = active[v]
  <2>1. \E now : active' = [active EXCEPT ![w] = now]
    <3>1. CASE WatcherReceive(w) \/ WatcherRestarts(w)
      BY <3>1 DEF WatcherReceive, WatcherRestarts
    <3>2. CASE Tick(w) \/ TakeResult(w)
      BY <3>2 DEF Tick, TakeResult
    <3>3. ASSUME NEW f \in Filter, AssignTo(w, f) PROVE \E now : active' = [active EXCEPT ![w] = now]
      BY <3>3 DEF AssignTo
    <3> QED BY <1>1, <3>1, <3>2, <3>3
  <2> QED BY <2>1 DEF IInv, ActiveOK
<1>2. ASSUME NEW s \in Slot,
             \/ StartCheck(s) \/ CollectReply(s) \/ EnqueueChecked(s) \/ CheckFails(s)
             \/ \E w \in Worker : UpdateFiles(s, w)
      PROVE  UNCHANGED active
  BY <1>2 DEF StartCheck, CollectReply, EnqueueChecked, CheckFails, UpdateFiles, watching
<1>3. ASSUME NEW w \in Worker,
             \/ IngestFiles(w) \/ FinishAssign(w) \/ CreateIndex(w) \/ PollFails(w)
             \/ CollectGarbage(w) \/ WorkerRestarts(w)
             \/ \E f \in Filter, h \in Hash : EndFetch(w, f, h) \/ EndIngest(w, f, h)
      PROVE  UNCHANGED active
  BY <1>3 DEF IngestFiles, FinishAssign, CreateIndex, PollFails, CollectGarbage, WorkerRestarts,
              EndFetch, EndIngest, watching
<1>4. ASSUME NextDay \/ UNCHANGED vars \/ \E k \in Caller : Ask(k) PROVE UNCHANGED active
  BY <1>4 DEF NextDay, vars, Ask, watching
<1> QED BY <1>1, <1>2, <1>3, <1>4, Steps

LEMMA TickAsked ==
  ASSUME IInv, HeldOK, OpenOK, Wanted, NEW w \in Worker, Asked(w), Tick(w)
  PROVE  Asked(w)'
<1> DEFINE old == {a \in active[w] : a.task.expiry <= today}
           rest == active[w] \ old
           post == phase[w] = "idle" /\ HasWork(rest)
           names == {<<a.filter, a.task.hash>> : a \in rest}
<1>1. /\ Tell({}, CallersOf({a.task : a \in old}), {})
      /\ active' = [active EXCEPT ![w] = rest]
      /\ sent' = [sent EXCEPT ![w] = IF post THEN names ELSE @]
      /\ UNCHANGED result
  BY DEF Tick
<1>2. [Next]_vars
  BY DEF Next, RunWatcher
<1>3. active'[w] = rest
  BY <1>1 DEF IInv, ActiveOK
<1>4. CASE post
  <2>1. sent'[w] = names
    BY <1>1, <1>4 DEF IInv, WatcherOK
  <2>2. result'[w].completed = {} /\ result'[w].rejected = {}
    BY <1>1, <1>4 DEF OpenOK, Open
  <2>3. Open(w)' = names
    BY <2>1, <2>2 DEF Open
  <2>4. ASSUME NEW a \in rest
        PROVE  /\ PostedFor(w, a.filter, a.task.hash)'
               /\ \A b \in active'[w] : b.task.hash = a.task.hash => b = a
    <3>1. a \in active[w] /\ a \in active'[w]
      BY <1>3
    <3>2. PICK j \in a.task.callers : TRUE
      BY <3>1 DEF Wanted
    <3>3. j \in Caller /\ j.hash = a.task.hash /\ Made(j)
      BY <3>1, HolderIs
    <3>4. Made(j)'
      BY <1>2, <3>3, AnswerStep
    <3>5. PostedFor(w, a.filter, a.task.hash)'
      BY <3>1, <3>2, <3>3, <3>4 DEF PostedFor
    <3>6. \A b \in active'[w] : b.task.hash = a.task.hash => b = a
      BY <1>3, <3>1 DEF IInv, ActiveOK
    <3> QED BY <3>5, <3>6
  <2>5. \A p \in names : \E a \in rest : p[1] = a.filter /\ p[2] = a.task.hash
    OBVIOUS
  <2> HIDE DEF names, rest
  <2> QED BY <2>3, <2>4, <2>5 DEF Asked
<1>5. CASE ~post
  <2>1. Open(w)' = Open(w)
    BY <1>1, <1>5 DEF Open, IInv, WatcherOK
  <2>2. \A j \in Caller : \A a \in old : j \in a.task.callers => answer'[j] # "waiting"
    BY <1>1 DEF Tell, CallersOf
  <2>3. \A a \in active[w] : a \in rest \/ a \in old
    OBVIOUS
  <2>4. \A b \in rest : b \in active[w]
    OBVIOUS
  <2> HIDE DEF rest, old
  <2> QED BY <1>2, <1>3, <2>1, <2>2, <2>3, <2>4, AskedKept
<1> QED BY <1>4, <1>5

LEMMA ReceiveAsked ==
  ASSUME IInv, HeldOK, Wanted, NEW w \in Worker, Asked(w), WatcherReceive(w)
  PROVE  Asked(w)'
<1>1. [Next]_vars
  BY DEF Next
<1>2. PICK m \in Entry :
        /\ \E i \in DOMAIN inbox[w] : m = inbox[w][i]
        /\ \A b \in active'[w] :
             \/ b \in active[w] /\ b.task.hash # m.task.hash
             \/ b = m /\ \A a \in active[w] : a.task.hash # m.task.hash
             \/ \E a \in active[w] :
                  /\ a.task.hash = m.task.hash /\ b.task.hash = m.task.hash
                  /\ b.task.callers = a.task.callers \cup m.task.callers
                  /\ b.filter \in {a.filter, m.filter}
        /\ \A a \in active[w] :
             \/ a \in active'[w]
             \/ \E b \in active'[w] :
                  /\ a.task.hash = m.task.hash /\ b.task.hash = m.task.hash
                  /\ b.task.callers = a.task.callers \cup m.task.callers
                  /\ b.filter \in {a.filter, m.filter}
  BY ReceiveOf
<1>3. PICK l \in m.task.callers :
        l \in Caller /\ l.hash = m.task.hash /\ answer[l] = "waiting" /\ Made(l) /\ ~InActive(l, w)
  <2>1. PICK i \in DOMAIN inbox[w] : m = inbox[w][i]
    BY <1>2
  <2>2. PICK l \in m.task.callers : TRUE
    BY <2>1 DEF Wanted
  <2> QED BY <2>1, <2>2, HolderIs
<1>4. UNCHANGED <<answer, sent, result>>
  BY DEF WatcherReceive
<1>5. Open(w)' = Open(w)
  BY <1>4 DEF Open
<1>6. \A j \in Caller : Made(j) => Made(j)'
  BY <1>4 DEF Made
\* A file of the table that is also in the channel has two callers.
<1>7. ASSUME NEW a \in active[w], a.task.hash = m.task.hash PROVE Clash(m.task.hash)
  <2>1. PICK j \in a.task.callers : TRUE
    BY DEF Wanted
  <2>2. j \in Caller /\ j.hash = m.task.hash /\ Made(j) /\ InActive(j, w)
    BY <1>7, HolderIs
  <2> QED BY <1>3, <2>2 DEF Clash
<1>8. ASSUME NEW p \in Open(w) PROVE PostedFor(w, p[1], p[2])'
  <2>1. PICK j \in Caller :
          /\ j.hash = p[2] /\ Made(j)
          /\ \/ answer[j] # "waiting"
             \/ \E a \in active[w] : j \in a.task.callers /\ (a.filter = p[1] \/ Clash(p[2]))
    BY DEF Asked, PostedFor
  <2>2. ASSUME answer[j] # "waiting" PROVE PostedFor(w, p[1], p[2])'
    BY <1>4, <1>6, <2>1, <2>2 DEF PostedFor
  <2>3. ASSUME NEW a \in active[w], j \in a.task.callers, a.filter = p[1] \/ Clash(p[2])
        PROVE  PostedFor(w, p[1], p[2])'
    <3>1. CASE a \in active'[w]
      <4>1. a.filter = p[1] \/ Clash(p[2])'
        BY <1>1, <2>3, ClashStep
      <4> QED BY <1>6, <2>1, <2>3, <3>1, <4>1 DEF PostedFor
    <3>2. CASE a \notin active'[w]
      <4>1. PICK b \in active'[w] :
              a.task.hash = m.task.hash /\ b.task.callers = a.task.callers \cup m.task.callers
        BY <1>2, <3>2
      <4>2. p[2] = m.task.hash
        BY <2>1, <2>3, <4>1, HolderIs
      <4>3. Clash(p[2])'
        BY <1>1, <1>7, <4>1, <4>2, ClashStep
      <4> QED BY <1>6, <2>1, <2>3, <4>1, <4>3 DEF PostedFor
    <3> QED BY <3>1, <3>2
  <2> QED BY <2>1, <2>2, <2>3
<1>9. ASSUME NEW p \in Open(w), NEW b \in active'[w], b.task.hash = p[2], b.filter # p[1]
      PROVE  Clash(p[2])'
  <2>1. CASE b \in active[w]
    BY <1>1, <1>9, <2>1, ClashStep DEF Asked
  <2>2. CASE \E a \in active[w] : a.task.hash = m.task.hash /\ b.task.hash = m.task.hash
    BY <1>1, <1>7, <1>9, <2>2, ClashStep
  <2>3. CASE b = m /\ \A a \in active[w] : a.task.hash # m.task.hash
    <3>1. PICK j \in Caller :
            /\ j.hash = p[2] /\ Made(j)
            /\ \/ answer[j] # "waiting"
               \/ \E a \in active[w] : j \in a.task.callers
      BY DEF Asked, PostedFor
    <3>2. answer[j] # "waiting"
      BY <1>9, <2>3, <3>1, HolderIs
    <3>3. j # l /\ l.hash = p[2]
      BY <1>3, <1>9, <2>3, <3>2
    <3> QED BY <1>3, <1>6, <3>1, <3>3 DEF Clash
  <2> QED BY <1>2, <2>1, <2>2, <2>3
<1> QED BY <1>5, <1>8, <1>9 DEF Asked

LEMMA AskedStep ==
  ASSUME IInv, HeldOK, OpenOK, Wanted, [Next]_vars, NEW w \in Worker, Asked(w), ~WatcherRestarts(w)
  PROVE  Asked(w)'
<1>1. CASE phase'[w] \notin {"sent", "answered"}
  <2>1. Open(w)' = {}
    BY <1>1, OpenStep DEF OpenOK
  <2> QED BY <2>1 DEF Asked
<1>2. CASE Tick(w)
  BY <1>2, TickAsked
<1>3. CASE WatcherReceive(w)
  BY <1>3, ReceiveAsked
<1>4. CASE TakeResult(w) \/ \E f \in Filter : AssignTo(w, f)
  <2>1. phase'[w] \in {"idle", "assign"}
    BY <1>4 DEF TakeResult, AssignTo, IInv, WatcherOK
  <2> QED BY <1>1, <2>1
<1>5. CASE ~Tick(w) /\ active'[w] = active[w]
  BY <1>5, OpenStep, AskedKept
<1> QED BY <1>2, <1>3, <1>4, <1>5, TableKept

LEMMA BufferedStep ==
  ASSUME IInv, BufferedOK, [Next]_vars
  PROVE  BufferedOK'
<1>1. ASSUME buffered' \subseteq buffered PROVE BufferedOK'
  BY <1>1, AnswerStep DEF BufferedOK
<1>2. ASSUME NEW c \in Caller, Ask(c) PROVE BufferedOK'
  <2>1. Made(c)'
    BY <1>2 DEF Ask, Made, IInv, AnswersOK
  <2>2. buffered' \subseteq buffered \cup {c.hash}
    BY <1>2 DEF Ask
  <2> QED BY <2>1, <2>2, AnswerStep DEF BufferedOK
<1>3. ASSUME NEW s \in Slot,
             \/ StartCheck(s) \/ CollectReply(s) \/ EnqueueChecked(s) \/ CheckFails(s)
             \/ \E w \in Worker : UpdateFiles(s, w)
      PROVE  buffered' \subseteq buffered
  BY <1>3 DEF StartCheck, CollectReply, EnqueueChecked, CheckFails, UpdateFiles
<1>4. ASSUME NEW w \in Worker,
             \/ WatcherReceive(w) \/ Tick(w) \/ IngestFiles(w) \/ TakeResult(w)
             \/ \E f \in Filter : AssignTo(w, f)
             \/ FinishAssign(w) \/ CreateIndex(w) \/ PollFails(w) \/ WatcherRestarts(w)
             \/ CollectGarbage(w) \/ WorkerRestarts(w)
             \/ \E f \in Filter, h \in Hash : EndFetch(w, f, h) \/ EndIngest(w, f, h)
      PROVE  buffered' \subseteq buffered
  BY <1>4 DEF WatcherReceive, Tick, IngestFiles, TakeResult, AssignTo, FinishAssign, CreateIndex,
              PollFails, WatcherRestarts, CollectGarbage, WorkerRestarts, EndFetch, EndIngest, checking
<1>5. ASSUME NextDay \/ UNCHANGED vars PROVE buffered' \subseteq buffered
  BY <1>5 DEF NextDay, vars, checking
<1> QED BY <1>1, <1>2, <1>3, <1>4, <1>5, Steps

\* A call that gets lost although nothing fails has another one beside it.
LEMMA LostStep ==
  ASSUME IInv, HeldOK, BufferedOK, Wanted, \A w \in Worker : Asked(w), [Next]_vars,
         \A s \in Slot : ~CheckFails(s), \A w \in Worker : ~WatcherRestarts(w),
         NEW k \in Caller, answer[k] # "lost", answer'[k] = "lost"
  PROVE  \E j \in Caller \ {k} : j.hash = k.hash /\ Made(j)
<1> DEFINE Goal == \E j \in Caller \ {k} : j.hash = k.hash /\ Made(j)
<1>1. ASSUME NEW c \in Caller, Ask(c) PROVE Goal
  <2>1. k = c /\ answer[c] = "none"
    BY <1>1 DEF Ask, IInv, AnswersOK
  <2>2. c.hash \in buffered
    BY <1>1, <2>1 DEF Ask, IInv, AnswersOK
  <2> QED BY <2>1, <2>2 DEF BufferedOK, Made
<1>2. ASSUME NEW w \in Worker, TakeResult(w) PROVE Goal
  <2> DEFINE r == result[w]
             named == {a \in active[w] : \E p \in r.completed \cup r.rejected : p[2] = a.task.hash}
             of(S) == CallersOf({a.task : a \in {b \in named : <<b.filter, b.task.hash>> \in S}})
             yes == of(r.completed)
             no == of(r.rejected)
  <2>1. Tell(yes, no, CallersOf({a.task : a \in named}) \ (yes \cup no))
    BY <1>2 DEF TakeResult
  <2>2. \A a \in named : \A S : <<a.filter, a.task.hash>> \in S /\ k \in a.task.callers => k \in of(S)
    BY DEF CallersOf
  <2>3. k \in CallersOf({a.task : a \in named}) => \E a \in named : k \in a.task.callers
    BY DEF CallersOf
  <2>4. \A a \in named : a \in active[w] /\ \E p \in r.completed \cup r.rejected : p[2] = a.task.hash
    OBVIOUS
  <2>5. \A a \in named : /\ k \notin yes /\ k \in a.task.callers => <<a.filter, a.task.hash>> \notin r.completed
                         /\ k \notin no /\ k \in a.task.callers => <<a.filter, a.task.hash>> \notin r.rejected
    BY <2>2
  <2> HIDE DEF yes, no, named
  <2>6. k \notin yes /\ k \notin no /\ k \in CallersOf({a.task : a \in named})
    BY <2>1 DEF Tell
  <2>7. PICK a \in named : k \in a.task.callers
    BY <2>3, <2>6
  <2>8. PICK p \in r.completed \cup r.rejected : p[2] = a.task.hash
    BY <2>4
  <2>9. p \in Pairs /\ p = <<p[1], p[2]>>
    BY DEF IInv, WatcherOK, Result, Pairs
  <2>10. a.filter # p[1]
    BY <2>5, <2>6, <2>7, <2>8, <2>9
  <2>11. Clash(a.task.hash)
    BY <2>4, <2>8, <2>10 DEF Asked, Open
  <2>12. k.hash = a.task.hash
    BY <2>4, <2>7, HolderIs
  <2> QED BY <2>11, <2>12 DEF Clash
<1>3. ASSUME NEW w \in Worker, NEW f \in Filter, AssignTo(w, f) PROVE Goal
  <2>1. PICK g \in Group, n \in Nat, over \in SUBSET active[w], got \in SUBSET Entry :
          /\ g \in DOMAIN queue /\ n <= Len(queue[g])
          /\ queue' = [queue EXCEPT ![g] = SubSeq(queue[g], n + 1, Len(queue[g]))]
          /\ active' = [active EXCEPT ![w] = (@ \ over) \cup got]
          /\ Tell({}, {}, CallersOf({a.task : a \in over}))
          /\ \A b \in got : \E i \in 1 .. n : b.task = queue[g][i]
          /\ \A i \in 1 .. n : \E b \in got : b.task = queue[g][i]
          /\ \A a \in over : \E i \in 1 .. n : a.task.hash = queue[g][i].hash
    BY <1>3, AssignToOf
  <2>2. DOMAIN queue[g] = 1 .. Len(queue[g]) /\ Len(queue[g]) \in Nat
    BY <2>1, LenProperties DEF IInv, QueueOK
  <2>3. PICK a \in over : k \in a.task.callers
    BY <2>1 DEF Tell, CallersOf
  <2>4. PICK i \in 1 .. n : a.task.hash = queue[g][i].hash
    BY <2>1
  <2>5. i \in DOMAIN queue[g]
    BY <2>1, <2>2
  <2>6. PICK j \in queue[g][i].callers : TRUE
    BY <2>1, <2>5 DEF Wanted
  <2>7. j \in Caller /\ j.hash = queue[g][i].hash /\ Made(j) /\ ~InActive(j, w)
    BY <2>1, <2>5, HolderIs
  <2>8. k.hash = a.task.hash /\ InActive(k, w)
    BY <2>3, HolderIs
  <2> QED BY <2>4, <2>7, <2>8
<1>4. ASSUME UNCHANGED answer PROVE Goal
  BY <1>4
<1>5. ASSUME NEW s \in Slot, StartCheck(s) \/ CollectReply(s) PROVE Goal
  <2>1. \E yes, no : Tell(yes, no, {})
    BY <1>5 DEF StartCheck, CollectReply
  <2> QED BY <2>1 DEF Tell
<1>6. ASSUME NEW w \in Worker, Tick(w) PROVE Goal
  <2>1. \E no : Tell({}, no, {})
    BY <1>6 DEF Tick
  <2> QED BY <2>1 DEF Tell
<1>7. ASSUME NEW s \in Slot, EnqueueChecked(s) \/ \E w \in Worker : UpdateFiles(s, w) PROVE Goal
  BY <1>4, <1>7 DEF EnqueueChecked, UpdateFiles
<1>8. ASSUME NEW w \in Worker,
             \/ WatcherReceive(w) \/ IngestFiles(w) \/ FinishAssign(w) \/ CreateIndex(w) \/ PollFails(w)
             \/ CollectGarbage(w) \/ WorkerRestarts(w)
             \/ \E f \in Filter, h \in Hash : EndFetch(w, f, h) \/ EndIngest(w, f, h)
      PROVE  Goal
  BY <1>4, <1>8 DEF WatcherReceive, IngestFiles, FinishAssign, CreateIndex, PollFails,
                    CollectGarbage, WorkerRestarts, EndFetch, EndIngest
<1>9. ASSUME NextDay \/ UNCHANGED vars PROVE Goal
  BY <1>4, <1>9 DEF NextDay, vars
<1> HIDE DEF Goal
<1>10. Goal
  BY <1>1, <1>2, <1>3, <1>5, <1>6, <1>7, <1>8, <1>9, Steps
<1> QED BY <1>10 DEF Goal

LEMMA ClashInit == Init => ClashOK
<1> SUFFICES ASSUME Init PROVE ClashOK
  OBVIOUS
<1>1. NoCheck.tasks = {} /\ NoResult.completed = {} /\ NoResult.rejected = {}
  BY DEF NoCheck, NoResult
<1>2. \A w \in Worker : Open(w) = {}
  BY <1>1 DEF Init, Open
<1>3. Wanted
  BY <1>1 DEF Init, Wanted
<1>4. BufferedOK /\ OnlyClashesAreLost
  BY DEF Init, BufferedOK, OnlyClashesAreLost
<1> QED BY <1>2, <1>3, <1>4 DEF ClashOK, OpenOK, Asked

LEMMA ClashNext == IInv /\ HeldOK /\ ClashOK /\ [Next]_vars => ClashOK'
<1> SUFFICES ASSUME IInv, HeldOK, ClashOK, [Next]_vars PROVE ClashOK'
  OBVIOUS
<1>1. BufferedOK' /\ OpenOK'
  BY BufferedStep, OpenStep DEF ClashOK
<1>2. ASSUME Calm' PROVE Wanted' /\ \A w \in Worker : Asked(w)'
  BY <1>2, CalmStep, WantedStep, AskedStep DEF ClashOK
<1>3. ASSUME NEW k \in Caller, answer'[k] = "lost", Calm'
      PROVE  \E j \in Caller \ {k} : j.hash = k.hash /\ answer'[j] # "none"
  <2>1. \E j \in Caller \ {k} : j.hash = k.hash /\ Made(j)
    <3>1. CASE answer[k] = "lost"
      BY <1>3, <3>1, CalmStep DEF ClashOK, OnlyClashesAreLost, Calm, Made
    <3>2. CASE answer[k] # "lost"
      BY <1>3, <3>2, CalmStep, LostStep DEF ClashOK
    <3> QED BY <3>1, <3>2
  <2> QED BY <2>1, AnswerStep DEF Made
<1>4. OnlyClashesAreLost'
  BY <1>3 DEF OnlyClashesAreLost, Calm
<1> QED BY <1>1, <1>2, <1>4 DEF ClashOK

\* As long as nothing fails a call is lost only when there is another one for the same
\* file: one whose hash is still in buffer_hashes (mod.rs:669), whose task is overwritten
\* in a watcher's table (mod.rs:997) or is answered for another index (mod.rs:949).
THEOREM LossNeedsAClash == Spec => []OnlyClashesAreLost
<1>1. Init => IInv /\ HeldOK /\ ClashOK
  BY InitInv, HeldInit, ClashInit
<1>2. IInv /\ HeldOK /\ ClashOK /\ [Next]_vars => IInv' /\ HeldOK' /\ ClashOK'
  BY NextInv, HeldNext, ClashNext
<1>3. ClashOK => OnlyClashesAreLost
  BY DEF ClashOK
<1> QED BY <1>1, <1>2, <1>3, PTL DEF Spec

=============================================================================
