-------------------------------- MODULE Fetcher --------------------------------
(***************************************************************************)
(* The fetcher of the broker (src/broker/fetcher.rs): a poller reads the   *)
(* file records of the datastore in the order they were last seen and      *)
(* sends them down a bounded channel; the agent keeps a bounded number of  *)
(* them with the ingest pipeline, tries each again when it fails, and      *)
(* moves a checkpoint over the finished ones, from which a later start     *)
(* resumes.                                                                *)
(*                                                                         *)
(* The ingest pipeline (BrokerIngest) is seen from here as start_ingest,   *)
(* which accepts a file, fails, or takes its task down with it.            *)
(***************************************************************************)
EXTENDS Integers, Sequences, FiniteSets, SequencesExt

CONSTANTS File,             \* file records, in the order of their hashes
          MaxTime,          \* bound on instants
          SharedInstant,    \* bound on the records last seen at one instant
          BatchSize,        \* config.datastore.batch_size
          ChannelSize,      \* capacity of the channel: batch_size * 10
          ConcurrentTasks,  \* config.datastore.concurrent_tasks
          RetryLimit,       \* RETRY_LIMIT
          Faults,           \* what may go wrong, see FaultKinds
          MaxMishaps        \* bound on how often something does

\* "ingest": start_ingest fails; "panic": its task ends without a result;
\* "crash": the broker dies, or the agent ends with an error; "torn": either
\* happens while the checkpoint is being written.
FaultKinds == {"ingest", "panic", "crash", "torn"}

Time == 1 .. MaxTime

\* A sighting, ordered by instant and then by file (FetchedFile's derived order).
Record == Time \X File

Absent == 0   \* no checkpoint file: MIN_UTC
Torn == -1    \* an empty one

ASSUME FileAssumption == File \subseteq Nat /\ IsFiniteSet(File)
ASSUME SizeAssumption ==
  /\ BatchSize \in Nat \ {0} /\ ChannelSize \in Nat \ {0}
  /\ ConcurrentTasks \in Nat \ {0} /\ RetryLimit \in Nat
ASSUME BoundAssumption == MaxTime \in Nat \ {0} /\ SharedInstant \in Nat /\ MaxMishaps \in Nat
ASSUME FaultAssumption == Faults \subseteq FaultKinds

VARIABLES
  \* the datastore
  seen,        \* when each file was last seen, 0 before it is
  settled,     \* now - 10m: no sighting up to here is entered any more
  \* the poller
  seek,        \* seek_point
  batch,       \* rows it has still to send
  partial,     \* its last poll returned fewer rows than it asked for
  channel,
  \* the agent
  pc,          \* "down", "top", "truncate", "write", "take" or "select"
  checkpoint,
  saved,       \* the checkpoint file
  pending,     \* records under way: finished, retries
  running,     \* those with a task in the JoinSet
  recent,      \* the last ones passed by the checkpoint
  \* history
  ingested,    \* sightings accepted by the pipeline
  givenUp,     \* sightings that failed too often
  panicked,    \* sightings whose task ended without a result
  mishaps      \* how many failures have happened

store == <<seen, settled>>
poller == <<seek, batch, partial, channel>>
agent == <<pc, checkpoint, pending, running, recent>>
history == <<ingested, givenUp, panicked, mishaps>>
vars == <<store, poller, agent, saved, history>>

Decided == ingested \cup givenUp

Before(r, s) == r[1] < s[1] \/ (r[1] = s[1] /\ r[2] < s[2])

\* What the datastore holds.
Rows == {<<seen[f], f>> : f \in {g \in File : seen[g] # 0}}

Init ==
  /\ seen = [f \in File |-> 0] /\ settled = 0
  /\ seek = 0 /\ batch = <<>> /\ partial = FALSE /\ channel = <<>>
  /\ pc = "down" /\ checkpoint = 0 /\ saved = Absent
  /\ pending = <<>> /\ running = {} /\ recent = {}
  /\ ingested = {} /\ givenUp = {} /\ panicked = {}
  /\ mishaps = 0

Mishap(kind) ==
  /\ kind \in Faults /\ mishaps < MaxMishaps
  /\ mishaps' = mishaps + 1

----------------------------------------------------------------------------
(* The datastore *)

\* A file is seen, for the first time or again: its record moves.
See(f) ==
  /\ \E t \in settled + 1 .. MaxTime :
       /\ seen[f] < t
       /\ Cardinality({g \in File : seen[g] = t}) < SharedInstant
       /\ seen' = [seen EXCEPT ![f] = t]
  /\ UNCHANGED <<settled, poller, agent, saved, history>>

TimePasses ==
  /\ settled < MaxTime
  /\ settled' = settled + 1
  /\ UNCHANGED <<seen, poller, agent, saved, history>>

----------------------------------------------------------------------------
(* The poller, _search_stream *)

\* The records of B sorted by instant, in any order within one.
ByInstant(B) ==
  {q \in [1 .. Cardinality(B) -> B] :
     ToSet(q) = B /\ \A i, j \in 1 .. Cardinality(B) : i < j => q[i][1] <= q[j][1]}

\* A mutant: what is sent down moves the cursor past its instant.
PollAfter ==
  /\ pc # "down" /\ batch = <<>> /\ ~partial
  /\ LET found == {r \in Rows : seek < r[1] /\ r[1] <= settled}
     IN \E B \in SUBSET found :
          /\ Cardinality(B) = BatchSize \/ (B = found /\ Cardinality(B) < BatchSize)
          /\ \A r \in B, s \in found \ B : r[1] <= s[1]
          /\ \E q \in ByInstant(B) : batch' = q
          /\ partial' = (B = found /\ Cardinality(B) < BatchSize)
  /\ UNCHANGED <<store, seek, channel, agent, saved, history>>

\* fetch_files: a batch of rows from the cursor on, sorted by instant alone, so
\* that among those of its last instant any may be left out.  A poll that fails
\* is made again.
Poll ==
  /\ pc # "down" /\ batch = <<>> /\ ~partial
  /\ LET found == {r \in Rows : seek <= r[1] /\ r[1] <= settled}
     IN \E B \in SUBSET found :
          /\ Cardinality(B) = BatchSize \/ (B = found /\ Cardinality(B) < BatchSize)
          /\ \A r \in B, s \in found \ B : r[1] <= s[1]
          /\ \E q \in ByInstant(B) : batch' = q
          /\ partial' = (B = found /\ Cardinality(B) < BatchSize)
  /\ UNCHANGED <<store, seek, channel, agent, saved, history>>

Send ==
  /\ batch # <<>> /\ Len(channel) < ChannelSize
  /\ LET r == Head(batch) IN seek' = IF seek < r[1] THEN r[1] ELSE seek
  /\ channel' = Append(channel, Head(batch))
  /\ batch' = Tail(batch)
  /\ UNCHANGED <<store, partial, agent, saved, history>>

\* poll_interval after a batch that was not full.  The agent's loop over the
\* channel does not wait for anything, and is over by then.
Wake ==
  /\ partial /\ batch = <<>> /\ pc # "take"
  /\ partial' = FALSE
  /\ UNCHANGED <<store, seek, batch, channel, agent, saved, history>>

----------------------------------------------------------------------------
(* The agent, _fetch_agent *)

\* get_checkpoint, and a fresh poller.  An empty file does not parse: the agent
\* ends with an error and is started again, for ever.
Start ==
  /\ pc = "down" /\ saved # Torn
  /\ pc' = "top"
  /\ checkpoint' = saved
  /\ seek' = saved /\ batch' = <<>> /\ partial' = FALSE /\ channel' = <<>>
  /\ pending' = <<>> /\ running' = {} /\ recent' = {}
  /\ UNCHANGED <<store, saved, history>>

\* A mutant: every finished record is taken, not only those before the first
\* that is not.
PassedAnyFinished == {r \in DOMAIN pending : pending[r].finished}

\* What the checkpoint passes: the finished records before the first that is not.
Passed ==
  {r \in DOMAIN pending :
     \A s \in DOMAIN pending : s = r \/ Before(s, r) => pending[s].finished}

\* recent keeps the largest.
Kept(S, T) ==
  /\ Cardinality(T) = IF Cardinality(S) < ConcurrentTasks THEN Cardinality(S)
                                                         ELSE ConcurrentTasks
  /\ \A r \in T, s \in S \ T : Before(s, r)

\* The checkpoint becomes the instant of the last record passed, which may lie
\* before where it was.
MoveCheckpoint ==
  /\ pc = "top"
  /\ \/ Passed = {} /\ UNCHANGED checkpoint
     \/ \E last \in Passed :
          /\ \A s \in Passed \ {last} : Before(s, last)
          /\ checkpoint' = last[1]
  /\ pc' = IF checkpoint' = checkpoint THEN "take" ELSE "truncate"
  /\ pending' = [r \in DOMAIN pending \ Passed |-> pending[r]]
  /\ \E T \in SUBSET (recent \cup Passed) : Kept(recent \cup Passed, T) /\ recent' = T
  /\ UNCHANGED <<store, poller, running, saved, history>>

\* tokio::fs::write: the file is emptied, then written.
TruncateCheckpoint ==
  /\ pc = "truncate"
  /\ saved' = Torn
  /\ pc' = "write"
  /\ UNCHANGED <<store, poller, checkpoint, pending, running, recent, history>>

WriteCheckpoint ==
  /\ pc = "write"
  /\ saved' = checkpoint
  /\ pc' = "take"
  /\ UNCHANGED <<store, poller, checkpoint, pending, running, recent, history>>

HasRoom == Cardinality(running) < ConcurrentTasks

\* A record that is neither recent nor under way gets a task.
TakeFile ==
  /\ pc = "take" /\ HasRoom /\ channel # <<>>
  /\ channel' = Tail(channel)
  /\ LET r == Head(channel)
     IN IF r \in recent \cup DOMAIN pending
          THEN UNCHANGED <<pending, running>>
          ELSE /\ pending' = [s \in DOMAIN pending \cup {r} |->
                                IF s = r THEN [finished |-> FALSE, retries |-> 0] ELSE pending[s]]
               /\ running' = running \cup {r}
  /\ UNCHANGED <<store, seek, batch, partial, pc, checkpoint, recent, saved, history>>

EndTake ==
  /\ pc = "take" /\ (~HasRoom \/ channel = <<>>)
  /\ pc' = "select"
  /\ UNCHANGED <<store, poller, checkpoint, pending, running, recent, saved, history>>

\* A mutant: a record that failed is not given to start_ingest again.
JobEndsOnce(r) ==
  /\ pc = "select" /\ r \in running
  /\ \E ok \in BOOLEAN :
       LET tries == pending[r].retries + 1
           finished == ok \/ tries > RetryLimit
       IN /\ IF ok THEN UNCHANGED mishaps ELSE Mishap("ingest")
          /\ pending' = [pending EXCEPT ![r] = [finished |-> finished, retries |-> tries]]
          /\ running' = running \ {r}
          /\ ingested' = IF ok THEN ingested \cup {r} ELSE ingested
          /\ givenUp' = IF finished /\ ~ok THEN givenUp \cup {r} ELSE givenUp
  /\ pc' = "top"
  /\ UNCHANGED <<store, poller, checkpoint, recent, saved, panicked>>

\* start_ingest returned: the record is finished, or tried again up to the limit.
JobEnds(r) ==
  /\ pc = "select" /\ r \in running
  /\ \E ok \in BOOLEAN :
       LET tries == pending[r].retries + 1
           finished == ok \/ tries > RetryLimit
       IN /\ IF ok THEN UNCHANGED mishaps ELSE Mishap("ingest")
          /\ pending' = [pending EXCEPT ![r] = [finished |-> finished, retries |-> tries]]
          /\ running' = IF finished THEN running \ {r} ELSE running
          /\ ingested' = IF ok THEN ingested \cup {r} ELSE ingested
          /\ givenUp' = IF finished /\ ~ok THEN givenUp \cup {r} ELSE givenUp
  /\ pc' = "top"
  /\ UNCHANGED <<store, poller, checkpoint, recent, saved, panicked>>

\* A JoinError: the record stays in pending, unfinished.
JobPanics(r) ==
  /\ pc = "select" /\ r \in running
  /\ Mishap("panic")
  /\ running' = running \ {r}
  /\ panicked' = panicked \cup {r}
  /\ pc' = "top"
  /\ UNCHANGED <<store, poller, checkpoint, pending, recent, saved, ingested, givenUp>>

\* The tick of poll_interval, or a status request.
Tick ==
  /\ pc = "select"
  /\ pc' = "top"
  /\ UNCHANGED <<store, poller, checkpoint, pending, running, recent, saved, history>>

\* The process dies, or an error ends the agent and fetch_agent starts another.
Crash ==
  /\ pc # "down"
  /\ IF pc = "write" THEN Mishap("torn") ELSE Mishap("crash")
  /\ pc' = "down" /\ seek' = 0 /\ checkpoint' = 0
  /\ batch' = <<>> /\ partial' = FALSE /\ channel' = <<>>
  /\ pending' = <<>> /\ running' = {} /\ recent' = {}
  /\ UNCHANGED <<store, saved, ingested, givenUp, panicked>>

----------------------------------------------------------------------------
RunPoller == Poll \/ Send \/ Wake
RunAgent ==
  \/ MoveCheckpoint \/ TruncateCheckpoint \/ WriteCheckpoint
  \/ TakeFile \/ EndTake
  \/ Start

Next ==
  \/ \E f \in File : See(f)
  \/ TimePasses
  \/ RunPoller \/ RunAgent \/ Tick \/ Crash
  \/ \E r \in running : JobEnds(r) \/ JobPanics(r)

Spec == Init /\ [][Next]_vars

\* Both tasks run; select! takes any branch that stays ready, and its tick comes
\* back; start_ingest returns in the end (BrokerIngest!EveryCallReturns).
Fairness ==
  /\ WF_vars(TimePasses)
  /\ WF_vars(Poll \/ Send) /\ SF_vars(Wake)
  /\ WF_vars(RunAgent) /\ WF_vars(Tick)
  /\ SF_vars(\E r \in running : JobEnds(r))

LiveSpec == Spec /\ Fairness

----------------------------------------------------------------------------
(* Properties *)

\* Every variable holds a value of its kind.
TypeOK ==
  /\ seen \in [File -> Time \cup {0}] /\ settled \in 0 .. MaxTime
  /\ seek \in 0 .. MaxTime /\ batch \in Seq(Record) /\ partial \in BOOLEAN
  /\ channel \in Seq(Record) /\ Len(channel) <= ChannelSize
  /\ pc \in {"down", "top", "truncate", "write", "take", "select"}
  /\ checkpoint \in 0 .. MaxTime /\ saved \in Torn .. MaxTime
  /\ DOMAIN pending \subseteq Record
  /\ \A r \in DOMAIN pending : pending[r] \in [finished : BOOLEAN, retries : 0 .. RetryLimit + 1]
  /\ running \subseteq DOMAIN pending /\ Cardinality(running) <= ConcurrentTasks
  /\ recent \subseteq Record
  /\ ingested \cup givenUp \cup panicked \subseteq Record
  /\ mishaps \in 0 .. MaxMishaps

\* "ALL unprocessed file entries must occur after this point" (fetcher.rs:127):
\* neither the checkpoint nor the one a restart will read lies behind a record
\* that is not decided, in whatever order records finish.
CheckpointIsSafe ==
  \A r \in Rows : r[1] < checkpoint \/ r[1] < saved => r \in Decided

\* A row the cursor has passed is decided or on its way through the channel and
\* the agent, although polls overlap, leave rows of an instant out, and repeat.
ReadAheadIsHeld ==
  pc # "down" =>
    \A r \in Rows :
      r[1] < seek =>
        \/ r \in Decided \/ r \in DOMAIN pending
        \/ r \in ToSet(channel) \/ r \in ToSet(batch)

\* A full batch shares one instant: every poll from there on returns it again.
Crowded == \E t \in Time : Cardinality({f \in File : seen[f] = t}) >= BatchSize

\* "pull files from its file record and ingest them" (fetcher.rs:2): whatever
\* crashes, every record is in the end ingested or tried until the limit, unless
\* it is stuck in a crowd.
EveryFileIsDecided == <>[](Crowded \/ Rows \subseteq Decided \cup panicked)
=============================================================================
