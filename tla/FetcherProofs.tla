------------------------------ MODULE FetcherProofs ------------------------------
(***************************************************************************)
(* What TLAPS proves about Fetcher: its types, and that neither the         *)
(* checkpoint nor the cursor passes a record that is not decided, for every *)
(* finite set of files, every size and limit, and every kind and number of  *)
(* failures.                                                               *)
(***************************************************************************)
EXTENDS Fetcher, FiniteSetTheorems, TLAPS

----------------------------------------------------------------------------
(* The inductive invariant *)

\* Nothing in hand is later than what has settled, so that a record that moves
\* does not move to where somebody has already looked.
Settled ==
  /\ seek <= settled /\ checkpoint <= settled /\ saved <= settled
  /\ \A i \in DOMAIN batch : batch[i][1] <= settled

\* Records go from the batch through the channel to the agent in the order of
\* their instants.
Ordered ==
  /\ \A r \in DOMAIN pending : r[1] <= seek
  /\ \A i \in DOMAIN channel : channel[i][1] <= seek
  /\ \A i \in DOMAIN batch : seek <= batch[i][1]
  /\ \A r \in DOMAIN pending, i \in DOMAIN channel : r[1] <= channel[i][1]
  /\ \A i, j \in DOMAIN channel : i < j => channel[i][1] <= channel[j][1]
  /\ \A i, j \in DOMAIN batch : i < j => batch[i][1] <= batch[j][1]

\* What the agent takes for done is decided, and what it works on is not done.
Agent ==
  /\ \A r \in DOMAIN pending : pending[r].finished => r \in Decided
  /\ recent \subseteq Decided
  /\ \A r \in running : ~pending[r].finished /\ pending[r].retries <= RetryLimit

\* The record is decided or on its way.
Held(r) ==
  \/ r \in Decided \/ r \in DOMAIN pending
  \/ r \in ToSet(channel) \/ r \in ToSet(batch)

\* A batch leaves nothing out before its last record.
Covered ==
  pc # "down" =>
    \A r \in Rows : \A i \in DOMAIN batch : r[1] < batch[i][1] => Held(r)

IInv ==
  /\ TypeOK /\ Settled /\ Ordered /\ Agent
  /\ CheckpointIsSafe /\ ReadAheadIsHeld /\ Covered

USE SizeAssumption, BoundAssumption, FileAssumption

----------------------------------------------------------------------------
(* Records and sequences *)

LEMMA RecordsAreNumbers ==
  /\ \A r \in Record : r = <<r[1], r[2]>> /\ r[1] \in 1 .. MaxTime /\ r[2] \in File
  /\ IsFiniteSet(Record)
<1>1. IsFiniteSet(Time)
  BY FS_Interval DEF Time
<1>2. IsFiniteSet(Record)
  BY <1>1, FS_Product DEF Record
<1> QED BY <1>2 DEF Record, Time

LEMMA RowsAreRecords ==
  ASSUME TypeOK
  PROVE  /\ Rows \subseteq Record
         /\ \A r \in Rows : r[1] = seen[r[2]] /\ r[1] \in Nat
BY DEF TypeOK, Rows, Record, Time

\* What the head and the tail of a sequence hold.
LEMMA TailOf ==
  ASSUME NEW S, NEW s \in Seq(S), s # <<>>
  PROVE  /\ Head(s) = s[1] /\ 1 \in DOMAIN s /\ s[1] \in S
         /\ Tail(s) \in Seq(S) /\ Len(Tail(s)) = Len(s) - 1
         /\ \A i \in DOMAIN Tail(s) : i + 1 \in DOMAIN s /\ Tail(s)[i] = s[i + 1]
         /\ ToSet(s) = {s[1]} \cup ToSet(Tail(s))
<1>1. /\ Head(s) = s[1] /\ 1 \in DOMAIN s /\ s[1] \in S
      /\ Tail(s) \in Seq(S) /\ Len(Tail(s)) = Len(s) - 1
      /\ DOMAIN s = 1 .. Len(s) /\ DOMAIN Tail(s) = 1 .. Len(s) - 1 /\ Len(s) \in Nat
      /\ \A i \in 1 .. Len(s) - 1 : Tail(s)[i] = s[i + 1]
  OBVIOUS
<1>2. ASSUME NEW i \in DOMAIN s, i # 1
      PROVE  i - 1 \in DOMAIN Tail(s) /\ Tail(s)[i - 1] = s[i]
  BY <1>1, <1>2
<1>3. ToSet(s) \subseteq {s[1]} \cup ToSet(Tail(s))
  BY <1>2 DEF ToSet
<1>4. {s[1]} \cup ToSet(Tail(s)) \subseteq ToSet(s)
  BY <1>1 DEF ToSet
<1> QED BY <1>1, <1>3, <1>4

LEMMA NothingIn == /\ <<>> \in Seq(Record) /\ Len(<<>>) = 0 /\ DOMAIN <<>> = {} /\ ToSet(<<>>) = {}
BY DEF ToSet

LEMMA AppendOf ==
  ASSUME NEW S, NEW s \in Seq(S), NEW e \in S
  PROVE  /\ Append(s, e) \in Seq(S) /\ Len(Append(s, e)) = Len(s) + 1
         /\ DOMAIN Append(s, e) = DOMAIN s \cup {Len(s) + 1}
         /\ \A i \in DOMAIN s : i < Len(s) + 1 /\ Append(s, e)[i] = s[i]
         /\ Append(s, e)[Len(s) + 1] = e
         /\ ToSet(Append(s, e)) = ToSet(s) \cup {e}
<1>1. /\ Append(s, e) \in Seq(S) /\ Len(Append(s, e)) = Len(s) + 1
      /\ DOMAIN Append(s, e) = DOMAIN s \cup {Len(s) + 1}
      /\ \A i \in DOMAIN s : i < Len(s) + 1 /\ Append(s, e)[i] = s[i]
      /\ Append(s, e)[Len(s) + 1] = e
  OBVIOUS
<1>2. ToSet(Append(s, e)) = ToSet(s) \cup {e}
  BY <1>1 DEF ToSet
<1> QED BY <1>1, <1>2

----------------------------------------------------------------------------
(* Every step preserves it *)

LEMMA InitInv == Init => IInv
<1> SUFFICES ASSUME Init PROVE IInv
  OBVIOUS
<1>1. IsFiniteSet({}) /\ Cardinality({}) = 0
  BY FS_EmptySet
<1>2. TypeOK
  <2>1. \A r \in DOMAIN pending : pending[r] \in [finished : BOOLEAN, retries : 0 .. RetryLimit + 1]
    BY NothingIn DEF Init
  <2>2. /\ batch \in Seq(Record) /\ channel \in Seq(Record) /\ Len(channel) <= ChannelSize
        /\ DOMAIN pending \subseteq Record
    BY NothingIn DEF Init
  <2>3. running \subseteq DOMAIN pending /\ Cardinality(running) <= ConcurrentTasks
    BY <1>1 DEF Init
  <2>4. saved \in Torn .. MaxTime /\ settled \in 0 .. MaxTime /\ seek \in 0 .. MaxTime
        /\ checkpoint \in 0 .. MaxTime /\ mishaps \in 0 .. MaxMishaps
    BY DEF Init, Absent, Torn
  <2> QED BY <2>1, <2>2, <2>3, <2>4 DEF Init, TypeOK
<1> QED BY <1>2 DEF Init, IInv, Settled, Ordered, Agent, Covered, CheckpointIsSafe, ReadAheadIsHeld,
              Rows, Absent, Decided

LEMMA SeeInv == ASSUME IInv, NEW f \in File, See(f) PROVE IInv'
<1>1. PICK t \in settled + 1 .. MaxTime : seen' = [seen EXCEPT ![f] = t]
  BY DEF See
<1>2. settled \in Nat
  BY DEF IInv, TypeOK
<1>3. TypeOK'
  BY <1>1, <1>2 DEF See, IInv, TypeOK, store, poller, agent, history, Time
<1>4. \A r \in Rows' : r[1] \in Nat /\ (r \in Rows \/ settled < r[1])
  BY <1>1, <1>2 DEF Rows, IInv, TypeOK, Time
<1>5. CheckpointIsSafe'
  <2>1. /\ checkpoint <= settled /\ saved <= settled /\ checkpoint \in Int /\ saved \in Int
        /\ CheckpointIsSafe
    BY DEF IInv, TypeOK, Torn, Settled
  <2> QED BY <1>4, <1>2, <2>1 DEF See, CheckpointIsSafe, Decided, agent, history
<1>6. ReadAheadIsHeld'
  <2>1. seek <= settled /\ seek \in Int /\ ReadAheadIsHeld
    BY DEF IInv, TypeOK, Settled
  <2> QED BY <1>4, <1>2, <2>1 DEF See, ReadAheadIsHeld, Decided, poller, agent, history
<1>7. ASSUME NEW r \in Rows', NEW i \in DOMAIN batch, r[1] < batch[i][1]
      PROVE  r \in Rows
  <2>1. batch[i] \in Record
    BY DEF IInv, TypeOK
  <2>2. batch[i][1] \in Nat /\ batch[i][1] <= settled
    BY <2>1, RecordsAreNumbers DEF IInv, Settled
  <2> QED BY <1>2, <1>4, <1>7, <2>2
<1>8. Covered'
  BY <1>7 DEF See, IInv, Covered, Held, Decided, poller, agent, history
<1>9. Settled' /\ Ordered' /\ Agent'
  BY DEF See, IInv, Settled, Ordered, Agent, Decided, poller, agent, history
<1> QED BY <1>3, <1>5, <1>6, <1>8, <1>9 DEF IInv

LEMMA TimePassesInv == ASSUME IInv, TimePasses PROVE IInv'
<1>1. TypeOK'
  BY DEF TimePasses, IInv, TypeOK, poller, agent, history
<1>2. \A i \in DOMAIN batch : batch[i][1] \in Nat
  BY RecordsAreNumbers, SMTT(30) DEF IInv, TypeOK
<1>3. Settled'
  BY <1>2 DEF TimePasses, IInv, TypeOK, Settled, Torn, poller, agent
<1> QED BY <1>1, <1>3 DEF TimePasses, IInv, Ordered, Agent, Decided, Rows, CheckpointIsSafe, ReadAheadIsHeld,
              Covered, Held, poller, agent, history

LEMMA PollInv == ASSUME IInv, Poll PROVE IInv'
<1> DEFINE found == {r \in Rows : seek <= r[1] /\ r[1] <= settled}
<1>1. PICK B \in SUBSET found :
        /\ \A r \in B, s \in found \ B : r[1] <= s[1]
        /\ \E q \in ByInstant(B) : batch' = q
        /\ partial' \in BOOLEAN
  BY DEF Poll
<1>2. Rows \subseteq Record /\ \A r \in Record : r[1] \in Nat
  BY RowsAreRecords, RecordsAreNumbers DEF IInv
<1>3. Cardinality(B) \in Nat
  BY <1>2, RecordsAreNumbers, FS_Subset, FS_CardinalityType
<1>4. /\ batch' \in Seq(B) /\ DOMAIN batch' = 1 .. Cardinality(B)
      /\ ToSet(batch') = B
      /\ \A i, j \in DOMAIN batch' : i < j => batch'[i][1] <= batch'[j][1]
      /\ \A i \in DOMAIN batch' : batch'[i] \in found
  BY <1>1, <1>3 DEF ByInstant
<1>5. batch' \in Seq(Record)
  BY <1>2, <1>4
<1>6. TypeOK'
  BY <1>1, <1>5 DEF Poll, IInv, TypeOK, store, agent, history
<1>7. Settled' /\ Ordered'
  BY <1>4 DEF Poll, IInv, Settled, Ordered, store, agent, history
<1>8. ReadAheadIsHeld'
  <2>1. ToSet(batch) = {} /\ ReadAheadIsHeld
    BY NothingIn DEF Poll, IInv
  <2> QED BY <2>1 DEF Poll, ReadAheadIsHeld, Rows, Decided, store, agent, history
<1>9. ASSUME NEW r \in Rows, NEW i \in DOMAIN batch', r[1] < batch'[i][1], r[1] >= seek
      PROVE  r \in B
  <2>1. batch'[i] \in B /\ batch'[i][1] <= settled /\ batch'[i][1] \in Nat /\ r[1] \in Nat /\ settled \in Nat
    BY <1>2, <1>4 DEF ToSet, IInv, TypeOK
  <2>2. r \in found
    BY <1>9, <2>1
  <2> QED BY <1>1, <1>9, <2>1, <2>2
<1>10. ASSUME NEW r \in Rows, NEW i \in DOMAIN batch', r[1] < batch'[i][1]
       PROVE  r[1] < seek \/ r \in B
  BY <1>9, <1>10, <1>2 DEF IInv, TypeOK
<1>11. Covered'
  <2> SUFFICES ASSUME NEW r \in Rows, NEW i \in DOMAIN batch', r[1] < batch'[i][1]
               PROVE  Held(r)'
    BY DEF Covered, Poll, store, Rows
  <2>1. CASE r \in B
    BY <1>4, <2>1 DEF Held
  <2>2. CASE r[1] < seek
    BY <2>2, <1>8 DEF ReadAheadIsHeld, Held, Poll, Rows, store, agent
  <2> QED BY <1>10, <2>1, <2>2
<1>12. CheckpointIsSafe' /\ Agent'
  BY DEF Poll, IInv, CheckpointIsSafe, Agent, Rows, Decided, store, agent, history
<1> QED BY <1>6, <1>7, <1>8, <1>11, <1>12 DEF IInv

LEMMA SendInv == ASSUME IInv, Send PROVE IInv'
<1> DEFINE r == Head(batch)
<1>1. /\ batch \in Seq(Record) /\ batch # <<>> /\ channel \in Seq(Record) /\ seek \in Nat
      /\ channel' = Append(channel, r) /\ batch' = Tail(batch)
      /\ UNCHANGED <<seen, settled, partial, pc, checkpoint, pending, running, recent, saved,
                     ingested, givenUp, panicked, mishaps>>
  BY DEF Send, IInv, TypeOK, store, agent, history
<1>2. /\ r = batch[1] /\ 1 \in DOMAIN batch /\ r \in Record
      /\ batch' \in Seq(Record)
      /\ \A i \in DOMAIN batch' : i + 1 \in DOMAIN batch /\ batch'[i] = batch[i + 1]
      /\ ToSet(batch) = {r} \cup ToSet(batch')
  BY <1>1, TailOf
<1>3. /\ channel' \in Seq(Record) /\ Len(channel') = Len(channel) + 1
      /\ DOMAIN channel' = DOMAIN channel \cup {Len(channel) + 1}
      /\ \A i \in DOMAIN channel : i < Len(channel) + 1 /\ channel'[i] = channel[i]
      /\ channel'[Len(channel) + 1] = r
      /\ ToSet(channel') = ToSet(channel) \cup {r}
  BY <1>1, <1>2, AppendOf
<1>4. r[1] \in 1 .. MaxTime /\ seek <= r[1]
  BY <1>2, RecordsAreNumbers DEF IInv, Ordered
<1>5. seek' = r[1]
  BY <1>1, <1>4 DEF Send
<1>6. TypeOK'
  BY <1>1, <1>2, <1>3, <1>4, <1>5, SMTT(30) DEF Send, IInv, TypeOK
<1>7. /\ \A i \in DOMAIN batch : batch[i][1] \in Nat
      /\ \A i \in DOMAIN channel : channel[i][1] \in Nat
      /\ \A x \in DOMAIN pending : x[1] \in Nat
  <2>1. /\ \A i \in DOMAIN batch : batch[i] \in Record
        /\ \A i \in DOMAIN channel : channel[i] \in Record
    BY <1>1
  <2> QED BY <2>1, RecordsAreNumbers, SMTT(30) DEF IInv, TypeOK
<1>8. Settled'
  BY <1>1, <1>2, <1>5 DEF IInv, Settled
<1>9. \A i \in DOMAIN batch' : i \in Nat /\ r[1] <= batch'[i][1]
  BY <1>1, <1>2 DEF IInv, Ordered
<1>10. \A i, j \in DOMAIN batch' : i < j => batch'[i][1] <= batch'[j][1]
  BY <1>1, <1>2, <1>9 DEF IInv, Ordered
<1>11. /\ \A x \in DOMAIN pending : x[1] <= r[1]
       /\ \A i \in DOMAIN channel : channel[i][1] <= r[1]
  BY <1>1, <1>4, <1>7 DEF IInv, Ordered
<1>12. \A i \in DOMAIN channel' : channel'[i][1] <= r[1] /\ \A x \in DOMAIN pending : x[1] <= channel'[i][1]
  BY <1>3, <1>4, <1>11 DEF IInv, Ordered
<1>13. \A i, j \in DOMAIN channel' : i < j => channel'[i][1] <= channel'[j][1]
  BY <1>1, <1>3, <1>11 DEF IInv, Ordered
<1>14. Ordered'
  BY <1>1, <1>5, <1>9, <1>10, <1>11, <1>12, <1>13 DEF Ordered
<1>15. ReadAheadIsHeld'
  BY <1>1, <1>2, <1>3, <1>5 DEF IInv, Covered, Held, ReadAheadIsHeld, Rows, Decided
<1>16. Covered'
  BY <1>1, <1>2, <1>3 DEF IInv, Covered, Held, Rows, Decided
<1>17. CheckpointIsSafe' /\ Agent'
  BY <1>1 DEF IInv, CheckpointIsSafe, Agent, Rows, Decided
<1> QED BY <1>6, <1>8, <1>14, <1>15, <1>16, <1>17 DEF IInv

LEMMA WakeInv == ASSUME IInv, Wake PROVE IInv'
BY DEF Wake, IInv, TypeOK, Settled, Ordered, Agent, CheckpointIsSafe, ReadAheadIsHeld, Covered, Held, Rows,
       Decided, store, agent, history

LEMMA StartInv == ASSUME IInv, Start PROVE IInv'
<1>1. /\ saved \in 0 .. MaxTime /\ pc' = "top" /\ checkpoint' = saved /\ seek' = saved
      /\ batch' = <<>> /\ partial' = FALSE /\ channel' = <<>>
      /\ pending' = <<>> /\ running' = {} /\ recent' = {}
      /\ UNCHANGED <<seen, settled, saved, ingested, givenUp, panicked, mishaps>>
  BY DEF Start, IInv, TypeOK, Torn, store, history
<1>2. TypeOK'
  <2>1. \A r \in DOMAIN pending' : pending'[r] \in [finished : BOOLEAN, retries : 0 .. RetryLimit + 1]
    BY <1>1, NothingIn
  <2>2. /\ batch' \in Seq(Record) /\ channel' \in Seq(Record) /\ Len(channel') <= ChannelSize
        /\ DOMAIN pending' \subseteq Record
    BY <1>1, NothingIn
  <2>3. running' \subseteq DOMAIN pending' /\ Cardinality(running') <= ConcurrentTasks
    BY <1>1, FS_EmptySet
  <2> QED BY <1>1, <2>1, <2>2, <2>3 DEF IInv, TypeOK
<1>3. ReadAheadIsHeld'
  BY <1>1 DEF IInv, CheckpointIsSafe, ReadAheadIsHeld, Rows, Decided
<1> QED BY <1>1, <1>2, <1>3 DEF IInv, Settled, Ordered, Agent, CheckpointIsSafe, Covered, Rows, Decided

LEMMA MoveCheckpointInv == ASSUME IInv, MoveCheckpoint PROVE IInv'
<1>1. /\ pc = "top" /\ pc' \in {"take", "truncate"}
      /\ DOMAIN pending' = DOMAIN pending \ Passed
      /\ \A r \in DOMAIN pending' : pending'[r] = pending[r]
      /\ recent' \subseteq recent \cup Passed
      /\ UNCHANGED <<seen, settled, seek, batch, partial, channel, running, saved,
                     ingested, givenUp, panicked, mishaps>>
  BY DEF MoveCheckpoint, store, poller, history
<1>2. Passed \subseteq DOMAIN pending /\ Passed \subseteq Decided
  BY DEF Passed, IInv, Agent
<1>3. \A x \in DOMAIN pending : x \in Record /\ x[1] \in 1 .. MaxTime
  BY RecordsAreNumbers DEF IInv, TypeOK
<1>4. checkpoint' = checkpoint \/ \E last \in Passed : checkpoint' = last[1]
  BY DEF MoveCheckpoint
<1>5. TypeOK'
  <2>1. checkpoint' \in 0 .. MaxTime
    BY <1>2, <1>3, <1>4 DEF IInv, TypeOK
  <2>2. running \cap Passed = {}
    BY DEF IInv, Agent, Passed
  <2> QED BY <1>1, <1>2, <2>1, <2>2 DEF IInv, TypeOK
<1>6. Settled'
  BY <1>1, <1>2, <1>3, <1>4 DEF IInv, TypeOK, Settled, Ordered
<1>7. Ordered'
  BY <1>1 DEF IInv, Ordered
<1>8. Agent'
  <2>1. running \cap Passed = {} /\ running \subseteq DOMAIN pending
    BY DEF IInv, Agent, Passed, TypeOK
  <2> QED BY <1>1, <1>2, <2>1 DEF IInv, Agent, Decided
<1>9. ReadAheadIsHeld' /\ Covered'
  BY <1>1, <1>2 DEF IInv, ReadAheadIsHeld, Covered, Held, Rows, Decided
<1>10. CheckpointIsSafe'
  <2> SUFFICES ASSUME NEW last \in Passed, NEW r \in Rows, r[1] < last[1] PROVE r \in Decided
    BY <1>1, <1>4 DEF IInv, CheckpointIsSafe, Rows, Decided
  <2>1. /\ last \in DOMAIN pending /\ last[1] <= seek /\ last[1] \in Nat /\ seek \in Nat /\ r[1] \in Nat
    BY <1>2, <1>3, RowsAreRecords, SMTT(30) DEF IInv, Ordered, TypeOK
  <2>2. Held(r)
    BY <1>1, <2>1 DEF IInv, ReadAheadIsHeld, Held
  <2>3. CASE r \in DOMAIN pending
    BY <2>3 DEF Passed, Before, IInv, Agent
  <2>4. r \notin ToSet(channel)
    BY <2>1 DEF ToSet, IInv, Ordered
  <2>5. ASSUME r \in ToSet(batch) PROVE FALSE
    BY <2>1, <2>5 DEF ToSet, IInv, Ordered
  <2> QED BY <2>2, <2>3, <2>4, <2>5 DEF Held
<1> QED BY <1>5, <1>6, <1>7, <1>8, <1>9, <1>10 DEF IInv

LEMMA TruncateCheckpointInv == ASSUME IInv, TruncateCheckpoint PROVE IInv'
<1>1. /\ saved' = -1 /\ pc = "truncate" /\ pc' = "write"
      /\ UNCHANGED <<seen, settled, seek, batch, partial, channel, checkpoint, pending, running, recent,
                     ingested, givenUp, panicked, mishaps>>
  BY DEF TruncateCheckpoint, Torn, store, poller, history
<1>2. TypeOK' /\ Settled'
  BY <1>1 DEF IInv, TypeOK, Settled, Torn
<1>3. CheckpointIsSafe'
  <2>1. \A r \in Rows : ~(r[1] < -1)
    BY RowsAreRecords DEF IInv
  <2> QED BY <1>1, <2>1 DEF IInv, CheckpointIsSafe, Rows, Decided
<1> QED BY <1>1, <1>2, <1>3 DEF IInv, Ordered, Agent, ReadAheadIsHeld, Covered, Held, Rows, Decided

LEMMA WriteCheckpointInv == ASSUME IInv, WriteCheckpoint PROVE IInv'
<1>1. /\ saved' = checkpoint /\ pc = "write" /\ pc' = "take"
      /\ UNCHANGED <<seen, settled, seek, batch, partial, channel, checkpoint, pending, running, recent,
                     ingested, givenUp, panicked, mishaps>>
  BY DEF WriteCheckpoint, store, poller, history
<1>2. TypeOK' /\ Settled'
  BY <1>1 DEF IInv, TypeOK, Settled, Torn
<1> QED BY <1>1, <1>2 DEF IInv, Ordered, Agent, CheckpointIsSafe, ReadAheadIsHeld, Covered, Held, Rows, Decided

LEMMA TakeFileInv == ASSUME IInv, TakeFile PROVE IInv'
<1> DEFINE r == Head(channel)
<1>1. /\ channel \in Seq(Record) /\ channel # <<>> /\ channel' = Tail(channel) /\ pc = "take"
      /\ UNCHANGED <<seen, settled, seek, batch, partial, pc, checkpoint, recent, saved,
                     ingested, givenUp, panicked, mishaps>>
  BY DEF TakeFile, IInv, TypeOK, store, history
<1>2. /\ r = channel[1] /\ 1 \in DOMAIN channel /\ r \in Record
      /\ channel' \in Seq(Record) /\ Len(channel') = Len(channel) - 1
      /\ \A i \in DOMAIN channel' : i + 1 \in DOMAIN channel /\ channel'[i] = channel[i + 1]
      /\ ToSet(channel) = {r} \cup ToSet(channel')
  BY <1>1, TailOf
<1>3. \/ /\ r \in recent \cup DOMAIN pending
         /\ pending' = pending /\ running' = running
      \/ /\ DOMAIN pending' = DOMAIN pending \cup {r}
         /\ r \notin DOMAIN pending
         /\ \A s \in DOMAIN pending : pending'[s] = pending[s]
         /\ pending'[r] = [finished |-> FALSE, retries |-> 0]
         /\ running' = running \cup {r}
  BY DEF TakeFile
<1>4. /\ IsFiniteSet(running) /\ Cardinality(running) \in Nat /\ Cardinality(running) < ConcurrentTasks
      /\ Cardinality(running \cup {r}) <= Cardinality(running) + 1
  <2>1. IsFiniteSet(running)
    BY RecordsAreNumbers, FS_Subset DEF IInv, TypeOK
  <2>2. Cardinality(running) \in Nat
    BY <2>1, FS_CardinalityType
  <2>3. Cardinality(running \cup {r}) = IF r \in running THEN Cardinality(running) ELSE Cardinality(running) + 1
    BY <2>1, FS_AddElement
  <2>4. Cardinality(running) < ConcurrentTasks
    BY DEF TakeFile, HasRoom
  <2> QED BY <2>1, <2>2, <2>3, <2>4
<1>5. TypeOK'
  <2>1. /\ DOMAIN pending' \subseteq Record /\ running' \subseteq DOMAIN pending'
        /\ \A s \in DOMAIN pending' : pending'[s] \in [finished : BOOLEAN, retries : 0 .. RetryLimit + 1]
    <3>1. [finished |-> FALSE, retries |-> 0] \in [finished : BOOLEAN, retries : 0 .. RetryLimit + 1]
      OBVIOUS
    <3> QED BY <1>2, <1>3, <3>1 DEF IInv, TypeOK
  <2>2. Cardinality(running') <= ConcurrentTasks
    <3>1. CASE running' = running
      BY <3>1 DEF IInv, TypeOK
    <3>2. CASE running' = running \cup {r}
      <4>1. Cardinality(running \cup {r}) \in Nat
        BY <1>4, FS_AddElement, FS_CardinalityType
      <4> QED BY <1>4, <3>2, <4>1
    <3> QED BY <1>3, <3>1, <3>2
  <2>3. Len(channel') <= ChannelSize
    BY <1>1, <1>2 DEF IInv, TypeOK
  <2> QED BY <1>1, <1>2, <2>1, <2>2, <2>3 DEF IInv, TypeOK
<1>6. Settled'
  BY <1>1 DEF IInv, Settled
<1>7. Ordered'
  <2>1. \A i \in DOMAIN channel' : i \in Nat /\ i + 1 \in DOMAIN channel /\ 1 < i + 1
    BY <1>2
  <2>2. \A i \in DOMAIN channel' : r[1] <= channel'[i][1]
    <3>1. \A i, j \in DOMAIN channel : i < j => channel[i][1] <= channel[j][1]
      BY DEF IInv, Ordered
    <3> QED BY <1>2, <2>1, <3>1
  <2>3. ASSUME NEW i \in DOMAIN channel', NEW j \in DOMAIN channel', i < j
        PROVE  channel'[i][1] <= channel'[j][1]
    <3>1. i + 1 < j + 1 /\ i + 1 \in DOMAIN channel /\ j + 1 \in DOMAIN channel
      BY <1>2, <2>1, <2>3
    <3> QED BY <1>2, <3>1 DEF IInv, Ordered
  <2>4. r[1] <= seek
    BY <1>2 DEF IInv, Ordered
  <2> QED BY <1>1, <1>2, <1>3, <2>2, <2>3, <2>4 DEF IInv, Ordered
<1>8. Agent'
  BY <1>1, <1>3 DEF IInv, Agent, Decided, TypeOK
<1>9. \A x : x \in ToSet(channel) => x \in ToSet(channel') \/ x \in Decided \/ x \in DOMAIN pending'
  BY <1>2, <1>3 DEF IInv, Agent
<1>10. DOMAIN pending \subseteq DOMAIN pending'
  BY <1>3
<1>11. ReadAheadIsHeld' /\ Covered'
  BY <1>1, <1>9, <1>10 DEF IInv, ReadAheadIsHeld, Covered, Held, Rows, Decided
<1>12. CheckpointIsSafe'
  BY <1>1 DEF IInv, CheckpointIsSafe, Rows, Decided
<1> QED BY <1>5, <1>6, <1>7, <1>8, <1>11, <1>12 DEF IInv

\* Steps that only move the agent on.
LEMMA MoveOnInv == ASSUME IInv, EndTake \/ Tick PROVE IInv'
<1>1. /\ pc \in {"take", "select"} /\ pc' \in {"select", "top"}
      /\ UNCHANGED <<seen, settled, seek, batch, partial, channel, checkpoint, pending, running, recent, saved,
                     ingested, givenUp, panicked, mishaps>>
  BY DEF EndTake, Tick, store, poller, history
<1> QED BY <1>1 DEF IInv, TypeOK, Settled, Ordered, Agent, CheckpointIsSafe, ReadAheadIsHeld, Covered, Held,
              Rows, Decided

LEMMA JobEndsInv == ASSUME IInv, NEW r \in running, JobEnds(r) PROVE IInv'
<1>1. PICK ok \in BOOLEAN :
        LET tries == pending[r].retries + 1
            finished == ok \/ tries > RetryLimit
        IN /\ pending' = [pending EXCEPT ![r] = [finished |-> finished, retries |-> tries]]
           /\ running' = IF finished THEN running \ {r} ELSE running
           /\ ingested' = IF ok THEN ingested \cup {r} ELSE ingested
           /\ givenUp' = IF finished /\ ~ok THEN givenUp \cup {r} ELSE givenUp
  BY DEF JobEnds
<1>2. /\ pc = "select" /\ pc' = "top"
      /\ UNCHANGED <<seen, settled, seek, batch, partial, channel, checkpoint, recent, saved, panicked>>
  BY DEF JobEnds, store, poller
<1>3. /\ r \in DOMAIN pending /\ r \in Record /\ pending[r].retries \in 0 .. RetryLimit
      /\ mishaps' \in 0 .. MaxMishaps
  BY SMTT(30) DEF IInv, TypeOK, Agent, JobEnds, Mishap
<1>4. DOMAIN pending' = DOMAIN pending /\ \A s \in DOMAIN pending : s # r => pending'[s] = pending[s]
  BY <1>1
<1>5. /\ pending'[r] \in [finished : BOOLEAN, retries : 0 .. RetryLimit + 1]
      /\ pending'[r].finished => r \in ingested' \cup givenUp'
      /\ r \in running' => ~pending'[r].finished /\ pending'[r].retries <= RetryLimit
      /\ running' \subseteq running
      /\ Decided \subseteq Decided' /\ ingested' \cup givenUp' \subseteq ingested \cup givenUp \cup {r}
  BY <1>1, <1>3 DEF Decided
<1>6. Cardinality(running') <= ConcurrentTasks
  <2>1. IsFiniteSet(running)
    BY RecordsAreNumbers, FS_Subset DEF IInv, TypeOK
  <2>2. Cardinality(running') <= Cardinality(running) /\ Cardinality(running') \in Nat /\ Cardinality(running) \in Nat
    BY <1>5, <2>1, FS_Subset, FS_CardinalityType
  <2> QED BY <2>2 DEF IInv, TypeOK
<1>7. TypeOK'
  BY <1>1, <1>2, <1>3, <1>4, <1>5, <1>6 DEF IInv, TypeOK
<1>8. Agent'
  BY <1>2, <1>4, <1>5 DEF IInv, Agent, Decided, TypeOK
<1>9. Settled' /\ Ordered'
  BY <1>2, <1>4 DEF IInv, Settled, Ordered
<1>10. CheckpointIsSafe' /\ ReadAheadIsHeld' /\ Covered'
  BY <1>2, <1>4, <1>5 DEF IInv, CheckpointIsSafe, ReadAheadIsHeld, Covered, Held, Rows
<1> QED BY <1>7, <1>8, <1>9, <1>10 DEF IInv

LEMMA JobPanicsInv == ASSUME IInv, NEW r \in running, JobPanics(r) PROVE IInv'
<1>1. /\ pc = "select" /\ pc' = "top" /\ running' = running \ {r} /\ panicked' = panicked \cup {r}
      /\ mishaps' \in 0 .. MaxMishaps
      /\ UNCHANGED <<seen, settled, seek, batch, partial, channel, checkpoint, pending, recent, saved,
                     ingested, givenUp>>
  BY DEF JobPanics, Mishap, IInv, TypeOK, store, poller
<1>2. Cardinality(running') <= ConcurrentTasks
  <2>1. IsFiniteSet(running)
    BY RecordsAreNumbers, FS_Subset DEF IInv, TypeOK
  <2>2. Cardinality(running') <= Cardinality(running) /\ Cardinality(running') \in Nat /\ Cardinality(running) \in Nat
    BY <1>1, <2>1, FS_Subset, FS_CardinalityType
  <2> QED BY <2>2 DEF IInv, TypeOK
<1>3. TypeOK'
  BY <1>1, <1>2 DEF IInv, TypeOK
<1> QED BY <1>1, <1>3 DEF IInv, Settled, Ordered, Agent, CheckpointIsSafe, ReadAheadIsHeld, Covered, Held,
              Rows, Decided

LEMMA CrashInv == ASSUME IInv, Crash PROVE IInv'
<1>1. /\ pc' = "down" /\ seek' = 0 /\ checkpoint' = 0
      /\ batch' = <<>> /\ partial' = FALSE /\ channel' = <<>>
      /\ pending' = <<>> /\ running' = {} /\ recent' = {}
      /\ mishaps' \in 0 .. MaxMishaps
      /\ UNCHANGED <<seen, settled, saved, ingested, givenUp, panicked>>
  BY DEF Crash, Mishap, IInv, TypeOK, store
<1>2. TypeOK'
  <2>1. \A r \in DOMAIN pending' : pending'[r] \in [finished : BOOLEAN, retries : 0 .. RetryLimit + 1]
    BY <1>1, NothingIn
  <2>2. /\ batch' \in Seq(Record) /\ channel' \in Seq(Record) /\ Len(channel') <= ChannelSize
        /\ DOMAIN pending' \subseteq Record
    BY <1>1, NothingIn
  <2>3. running' \subseteq DOMAIN pending' /\ Cardinality(running') <= ConcurrentTasks
    BY <1>1, FS_EmptySet
  <2>4. /\ seen' \in [File -> Time \cup {0}] /\ settled' \in 0 .. MaxTime /\ saved' \in Torn .. MaxTime
        /\ seek' \in 0 .. MaxTime /\ checkpoint' \in 0 .. MaxTime
        /\ ingested' \cup givenUp' \cup panicked' \subseteq Record /\ recent' \subseteq Record
    BY <1>1 DEF IInv, TypeOK
  <2> QED BY <1>1, <2>1, <2>2, <2>3, <2>4 DEF TypeOK
<1>3. Settled'
  BY <1>1 DEF IInv, Settled, TypeOK
<1>4. CheckpointIsSafe'
  BY <1>1, RowsAreRecords DEF IInv, CheckpointIsSafe, Rows, Decided
<1> QED BY <1>1, <1>2, <1>3, <1>4 DEF IInv, Ordered, Agent, ReadAheadIsHeld, Covered, Rows, Decided

LEMMA StutterInv == ASSUME IInv, UNCHANGED vars PROVE IInv'
BY DEF IInv, TypeOK, Settled, Ordered, Agent, CheckpointIsSafe, ReadAheadIsHeld, Covered, Held, Rows, Decided,
       vars, store, poller, agent, history

LEMMA StepInv == IInv /\ [Next]_vars => IInv'
<1> SUFFICES ASSUME IInv, [Next]_vars PROVE IInv'
  OBVIOUS
<1>1. CASE (\E f \in File : See(f)) \/ TimePasses
  BY <1>1, SeeInv, TimePassesInv
<1>2. CASE RunPoller
  BY <1>2, PollInv, SendInv, WakeInv DEF RunPoller
<1>3. CASE RunAgent
  BY <1>3, MoveCheckpointInv, TruncateCheckpointInv, WriteCheckpointInv, TakeFileInv, MoveOnInv, StartInv
     DEF RunAgent
<1>4. CASE Tick \/ Crash
  BY <1>4, MoveOnInv, CrashInv
<1>5. CASE \E r \in running : JobEnds(r) \/ JobPanics(r)
  BY <1>5, JobEndsInv, JobPanicsInv
<1>6. CASE UNCHANGED vars
  BY <1>6, StutterInv
<1> QED BY <1>1, <1>2, <1>3, <1>4, <1>5, <1>6 DEF Next

LEMMA Invariance == Spec => []IInv
<1> QED BY InitInv, StepInv, PTL DEF Spec

----------------------------------------------------------------------------
(* The theorems *)

\* Every variable holds a value of its kind: in particular the channel and the
\* tasks keep to their limits, and no record is tried more often than it may be.
THEOREM FetcherTypeCorrect == Spec => []TypeOK
<1>1. IInv => TypeOK
  BY DEF IInv
<1> QED BY <1>1, Invariance, PTL

\* Neither the checkpoint nor the one a restart reads lies behind a record that is
\* not decided, in whatever order records finish, and whatever crashes.
THEOREM CheckpointSafe == Spec => []CheckpointIsSafe
<1>1. IInv => CheckpointIsSafe
  BY DEF IInv
<1> QED BY <1>1, Invariance, PTL

\* What the poller's cursor has passed is decided or on its way.
THEOREM NothingSkipped == Spec => []ReadAheadIsHeld
<1>1. IInv => ReadAheadIsHeld
  BY DEF IInv
<1> QED BY <1>1, Invariance, PTL
=============================================================================
