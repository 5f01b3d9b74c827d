-------------------------------- MODULE Journal --------------------------------
(***************************************************************************)
(* One trigram index on disk: JournalFilter in src/worker/journal.rs.      *)
(*                                                                         *)
(* Disk.  A journal file holds blocks of file numbers; each block carries  *)
(* the address of the previous block of its trigram, so a trigram is a     *)
(* chain of blocks from the newest to the oldest.  A tail file is a table  *)
(* from trigrams to the address of their newest block, plus a generation   *)
(* counter.  The index named `id` is the pair (id, id.tail); a defragment- *)
(* ation in the middle of its installation also has (.id, .id.tail).       *)
(* Opening a file gives a handle on an inode that outlives the name, so    *)
(* contents are kept per inode.                                            *)
(*                                                                         *)
(* Processes.  The ingest feeder runs one write_batch or defrag at a time  *)
(* under the write_handle mutex; any number of queries walk the chains     *)
(* from a snapshot taken under move_lock; the manager stops and deletes    *)
(* the index; and the process may die between any two steps and be         *)
(* started again (open).                                                   *)
(*                                                                         *)
(* Abstractions.  An address is the position of the block in its file (0   *)
(* is "no address", as on disk); the four byte header is not a block, so   *)
(* "length <= 4" is "no block".  Tail files are never modified once they   *)
(* have a name, so a name holds their value.  A torn block at the end of a *)
(* file is a block no table refers to.  `size` (a capacity hint) and the   *)
(* temporary names are left out.                                           *)
(***************************************************************************)
EXTENDS Integers, Sequences, FiniteSets

CONSTANTS Trigram,         \* trigrams, in the order the collector emits them
          Id,              \* file numbers
          Batches,         \* batches the feeder may write: trigram -> numbers
          Inode,           \* inodes of the file system
          Query,           \* concurrent queries
          None,            \* no file of that name, no handle
          Faults,          \* writer steps that may fail, see FaultSites
          MaxBlocks,       \* bound on the blocks of a journal file
          MaxGeneration    \* bound on the generation counter

FaultSites == {"append", "publish", "copy", "prepareData", "prepareTail", "reopen"}

Table == [addr : [Trigram -> Nat], gen : Nat]

Block == [prev : Nat, ids : SUBSET Id]

ASSUME TrigramAssumption == Trigram \subseteq Nat /\ Trigram # {} /\ IsFiniteSet(Trigram)
ASSUME BatchAssumption == Batches \subseteq [Trigram -> SUBSET Id]
ASSUME NoneAssumption ==
  None \notin Inode /\ None \notin Table /\ None \notin [Trigram -> SUBSET Id]
ASSUME BoundAssumption == MaxBlocks \in Nat /\ MaxGeneration \in Nat
ASSUME FaultAssumption == Faults \subseteq FaultSites

VARIABLES
  \* the disk
  file,       \* blocks of each inode
  durable,    \* how many of them a sync_all has covered
  data,       \* inode named id
  tail,       \* table named id.tail
  newData,    \* inode named .id
  newTail,    \* table named .id.tail
  \* the process
  mode,       \* "down", a step of open(), "up", or "deleting"
  running,    \* the AtomicBool
  handle,     \* the inode in write_handle
  wpc,        \* "idle", or the step of the holder of write_handle
  batch,      \* write_batch: what is being written
  todo,       \* trigrams the writing loop has not reached
  draft,      \* the table being built
  temp,       \* defrag: the temporary journal
  \* queries
  qfile,      \* the inode a query opened
  qaddr,      \* the next block to read, for each trigram
  qseen       \* the numbers read so far, for each trigram

disk == <<file, durable, data, tail, newData, newTail>>
writer == <<wpc, batch, todo, draft, temp>>
queries == <<qfile, qaddr, qseen>>
vars == <<disk, mode, running, handle, writer, queries>>

OpenModes == {"clear", "remove", "create", "createTail",
              "install", "installTail", "ready", "trim"}
Modes == {"down", "up", "deleting"} \cup OpenModes
WriterSteps == {"idle", "append", "publish", "copy", "prepareData",
                "prepareTail", "installData", "installTail", "reopen"}

\* Mutant: the generation of a new table is off by one.
EmptyTableOffByOne == [addr |-> [t \in Trigram |-> 0], gen |-> -1]

EmptyTable == [addr |-> [t \in Trigram |-> 0], gen |-> 0]
NoBatch == [t \in Trigram |-> {}]

----------------------------------------------------------------------------
(* Chains of blocks *)

\* S holds the block at a and, with a block, the block before it.  (Nothing is
\* read at address 0, or past the end of the file.)
Linked(blocks, a, S) ==
  \A i \in {a} \cup {blocks[j].prev : j \in S} : i \in 1 .. Len(blocks) => i \in S

\* The blocks reached from address a: the smallest linked set.  Offsets to
\* previous blocks are subtracted, so a walk only goes down.
ChainOf(blocks, a) ==
  LET below == (1 .. a) \cap (1 .. Len(blocks))
  IN {i \in below : \A S \in SUBSET below : Linked(blocks, a, S) => i \in S}

\* The file numbers a walk from address a collects.
Ids(blocks, a) == UNION {blocks[i].ids : i \in ChainOf(blocks, a)}

BlocksOf(i) == IF i = None THEN <<>> ELSE file[i]

\* Content of a (journal, tail) pair.
Content(blocks, table) == [t \in Trigram |-> Ids(blocks, table.addr[t])]

----------------------------------------------------------------------------
(* Process life cycle: open() *)

Init ==
  /\ file = [i \in Inode |-> <<>>]
  /\ durable = [i \in Inode |-> 0]
  /\ data = None /\ tail = None /\ newData = None /\ newTail = None
  /\ mode = "down" /\ running = FALSE /\ handle = None
  /\ wpc = "idle" /\ batch = NoBatch /\ todo = {} /\ draft = EmptyTable
  /\ temp = None
  /\ qfile = [q \in Query |-> None]
  /\ qaddr = [q \in Query |-> EmptyTable.addr]
  /\ qseen = [q \in Query |-> NoBatch]

\* Inodes without a name and without a handle.
Free == {i \in Inode : /\ i \notin {data, newData, handle, temp}
                       /\ \A q \in Query : qfile[q] # i}

\* A new, empty file.
Create(i) ==
  /\ i \in Free
  /\ file' = [file EXCEPT ![i] = <<>>]
  /\ durable' = [durable EXCEPT ![i] = 0]

\* Look for files that have not been fully initialised, and for no file.
OpenStart ==
  /\ mode = "down"
  /\ mode' = IF data = None THEN "create"
             ELSE IF file[data] = <<>> THEN "clear" ELSE "install"
  /\ UNCHANGED <<disk, running, handle, writer, queries>>

ClearTail ==
  /\ mode = "clear"
  /\ tail' = None
  /\ mode' = "remove"
  /\ UNCHANGED <<file, durable, data, newData, newTail, running, handle, writer, queries>>

RemoveData ==
  /\ mode = "remove"
  /\ data' = None
  /\ mode' = "create"
  /\ UNCHANGED <<file, durable, tail, newData, newTail, running, handle, writer, queries>>

\* blocking_new: the data file with its header ...
CreateData ==
  /\ mode = "create"
  /\ \E i \in Free : Create(i) /\ data' = i /\ handle' = i
  /\ mode' = "createTail"
  /\ UNCHANGED <<tail, newData, newTail, running, writer, queries>>

\* ... then the tail file, which must not exist yet.
CreateTail ==
  /\ mode = "createTail"
  /\ IF tail = None
       THEN tail' = EmptyTable /\ mode' = "up" /\ running' = TRUE /\ UNCHANGED handle
       ELSE mode' = "down" /\ handle' = None /\ UNCHANGED <<tail, running>>
  /\ UNCHANGED <<file, durable, data, newData, newTail, writer, queries>>

\* Mutant: a .id without its .id.tail is installed too.
MoveDataAlone ==
  /\ data' = IF newData # None THEN newData ELSE data
  /\ newData' = None

\* The first half of _install_defrag, shared by open() and _defrag(): rename
\* .id over id when the pair is complete, drop a lone .id.
MoveData ==
  /\ IF newTail # None /\ newData # None THEN data' = newData ELSE UNCHANGED data
  /\ newData' = None

\* The second half: rename .id.tail over id.tail.
MoveTail ==
  /\ IF newTail # None THEN tail' = newTail ELSE UNCHANGED tail
  /\ newTail' = None

InstallData ==
  /\ mode = "install"
  /\ MoveData
  /\ mode' = "installTail"
  /\ UNCHANGED <<file, durable, tail, newTail, running, handle, writer, queries>>

InstallTail ==
  /\ mode = "installTail"
  /\ MoveTail
  /\ mode' = "ready"
  /\ UNCHANGED <<file, durable, data, newData, running, handle, writer, queries>>

InitReady ==
  /\ mode = "ready"
  /\ tail' = IF tail = None THEN EmptyTable ELSE tail
  /\ mode' = "trim"
  /\ UNCHANGED <<file, durable, data, newData, newTail, running, handle, writer, queries>>

\* Truncate the journal after the last block the table refers to.
Trim ==
  /\ mode = "trim"
  /\ \E n \in 0 .. Len(file[data]) :
       /\ \A t \in Trigram : tail.addr[t] <= n
       /\ \E t \in Trigram : tail.addr[t] = n
       /\ IF n > 0
            THEN /\ file' = [file EXCEPT ![data] = SubSeq(@, 1, n)]
                 /\ durable' = [durable EXCEPT ![data] = IF @ < n THEN @ ELSE n]
            ELSE UNCHANGED <<file, durable>>
  /\ handle' = data
  /\ mode' = "up"
  /\ running' = TRUE
  /\ UNCHANGED <<data, tail, newData, newTail, writer, queries>>

----------------------------------------------------------------------------
(* write_batch: the feeder holds write_handle until wpc is "idle" again *)

Smallest(t) == t \in todo /\ \A u \in todo : t <= u

\* Copy-on-write: the new table starts as the old one.
StartBatch(b) ==
  /\ mode = "up" /\ wpc = "idle" /\ running
  /\ Len(file[handle]) + Cardinality(Trigram) <= MaxBlocks
  /\ tail.gen < MaxGeneration
  /\ batch' = b
  /\ todo' = {t \in Trigram : b[t] # {}}
  /\ draft' = tail
  /\ wpc' = "append"
  /\ UNCHANGED <<disk, mode, running, handle, temp, queries>>

\* One block per trigram of the batch, linked to the trigram's newest block.
AppendBlock ==
  /\ wpc = "append"
  /\ \E t \in Trigram :
       /\ Smallest(t)
       /\ file' = [file EXCEPT ![handle] =
                     Append(@, [prev |-> tail.addr[t], ids |-> batch[t]])]
       /\ draft' = [draft EXCEPT !.addr[t] = Len(file[handle]) + 1]
       /\ todo' = todo \ {t}
  /\ UNCHANGED <<durable, data, tail, newData, newTail, mode, running, handle,
                 wpc, batch, temp, queries>>

\* Mutant: the sync is forgotten.
SyncBatchUnsynced ==
  /\ wpc = "append" /\ todo = {}
  /\ wpc' = "publish"
  /\ UNCHANGED <<disk, mode, running, handle, batch, todo, draft, temp, queries>>

\* Flush and sync the journal before the table can refer to the new blocks.
SyncBatch ==
  /\ wpc = "append" /\ todo = {}
  /\ durable' = [durable EXCEPT ![handle] = Len(file[handle])]
  /\ wpc' = "publish"
  /\ UNCHANGED <<file, data, tail, newData, newTail, mode, running, handle,
                 batch, todo, draft, temp, queries>>

\* Mutant: the generation is not counted.
PublishTailUncounted ==
  /\ wpc = "publish"
  /\ tail' = draft
  /\ wpc' = "idle"
  /\ batch' = NoBatch /\ draft' = EmptyTable
  /\ UNCHANGED <<file, durable, data, newData, newTail, mode, running, handle,
                 todo, temp, queries>>

\* AddressBuilder::install: rename the new table over id.tail.
PublishTail ==
  /\ wpc = "publish"
  /\ tail' = [draft EXCEPT !.gen = tail.gen + 1]
  /\ wpc' = "idle"
  /\ batch' = NoBatch /\ draft' = EmptyTable
  /\ UNCHANGED <<file, durable, data, newData, newTail, mode, running, handle,
                 todo, temp, queries>>

----------------------------------------------------------------------------
(* _defrag, under write_handle as well *)

\* The feeder defragments an index whose generation is above a limit >= 0.
StartDefrag ==
  /\ mode = "up" /\ wpc = "idle" /\ running
  /\ tail.gen > 0
  /\ \E i \in Free : Create(i) /\ temp' = i
  /\ todo' = Trigram
  /\ draft' = EmptyTable
  /\ wpc' = "copy"
  /\ UNCHANGED <<data, tail, newData, newTail, mode, running, handle, batch, queries>>

\* The whole chain of a trigram becomes one block of the temporary journal.
CopyTrigram ==
  /\ wpc = "copy"
  /\ \E t \in Trigram :
       /\ Smallest(t)
       /\ LET ids == Ids(file[data], tail.addr[t])
          IN IF ids = {} THEN UNCHANGED <<file, draft>>
             ELSE /\ file' = [file EXCEPT ![temp] = Append(@, [prev |-> 0, ids |-> ids])]
                  /\ draft' = [draft EXCEPT !.addr[t] = Len(file[temp]) + 1]
       /\ todo' = todo \ {t}
  /\ UNCHANGED <<durable, data, tail, newData, newTail, mode, running, handle,
                 wpc, batch, temp, queries>>

\* Mutant: the sync is forgotten.
SyncDefragUnsynced ==
  /\ wpc = "copy" /\ todo = {}
  /\ wpc' = "prepareData"
  /\ UNCHANGED <<disk, mode, running, handle, batch, todo, draft, temp, queries>>

SyncDefrag ==
  /\ wpc = "copy" /\ todo = {}
  /\ durable' = [durable EXCEPT ![temp] = Len(file[temp])]
  /\ wpc' = "prepareData"
  /\ UNCHANGED <<file, data, tail, newData, newTail, mode, running, handle,
                 batch, todo, draft, temp, queries>>

\* _prepare_install_defrag: the temporary files become .id, then .id.tail.
PrepareData ==
  /\ wpc = "prepareData"
  /\ newData' = temp /\ temp' = None
  /\ wpc' = "prepareTail"
  /\ UNCHANGED <<file, durable, data, tail, newTail, mode, running, handle,
                 batch, todo, draft, queries>>

PrepareTail ==
  /\ wpc = "prepareTail"
  /\ newTail' = draft
  /\ draft' = EmptyTable
  /\ wpc' = "installData"
  /\ UNCHANGED <<file, durable, data, tail, newData, mode, running, handle,
                 batch, todo, temp, queries>>

\* _install_defrag takes move_lock here and holds it until the tail moved.
DefragInstallData ==
  /\ wpc = "installData"
  /\ MoveData
  /\ wpc' = "installTail"
  /\ UNCHANGED <<file, durable, tail, newTail, mode, running, handle,
                 batch, todo, draft, temp, queries>>

DefragInstallTail ==
  /\ wpc = "installTail"
  /\ MoveTail
  /\ wpc' = "reopen"
  /\ UNCHANGED <<file, durable, data, newData, mode, running, handle,
                 batch, todo, draft, temp, queries>>

\* Mutant: write_handle is not released.
ReopenLocked ==
  /\ wpc = "reopen"
  /\ handle' = data
  /\ UNCHANGED <<disk, mode, running, writer, queries>>

\* Replace the file handle in the lock by one on the new journal.
Reopen ==
  /\ wpc = "reopen"
  /\ handle' = data
  /\ wpc' = "idle"
  /\ UNCHANGED <<disk, mode, running, batch, todo, draft, temp, queries>>

\* An I/O error in a batch or a defrag: the lock is dropped.  What was appended
\* stays in the journal, temporary files are abandoned, a lone .id stays behind,
\* and after an installation the handle on the replaced journal stays in place.
FailStep ==
  /\ wpc \in Faults
  /\ wpc' = "idle"
  /\ batch' = NoBatch /\ todo' = {} /\ draft' = EmptyTable /\ temp' = None
  /\ UNCHANGED <<disk, mode, running, handle, queries>>

----------------------------------------------------------------------------
(* Queries *)

\* Mutant: the files are opened without move_lock.
QueryOpenUnlocked(q) ==
  /\ qfile[q] = None
  /\ mode = "up" /\ running
  /\ qfile' = [qfile EXCEPT ![q] = data]
  /\ qaddr' = [qaddr EXCEPT ![q] = tail.addr]
  /\ qseen' = [qseen EXCEPT ![q] = NoBatch]
  /\ UNCHANGED <<disk, mode, running, handle, writer>>

\* Open the journal and read the addresses under move_lock.
QueryOpen(q) ==
  /\ qfile[q] = None
  /\ mode = "up" /\ running
  /\ wpc # "installTail"
  /\ qfile' = [qfile EXCEPT ![q] = data]
  /\ qaddr' = [qaddr EXCEPT ![q] = tail.addr]
  /\ qseen' = [qseen EXCEPT ![q] = NoBatch]
  /\ UNCHANGED <<disk, mode, running, handle, writer>>

\* Mutant: the reader does not move on.
ReadBlockAgain(q, t) ==
  /\ qfile[q] # None
  /\ qaddr[q][t] # 0
  /\ qseen' = [qseen EXCEPT ![q][t] = @ \cup file[qfile[q]][qaddr[q][t]].ids]
  /\ UNCHANGED <<disk, mode, running, handle, writer, qfile, qaddr>>

\* The reader thread of one trigram reads its next block.
ReadBlock(q, t) ==
  /\ qfile[q] # None
  /\ qaddr[q][t] # 0
  /\ LET block == file[qfile[q]][qaddr[q][t]]
     IN /\ qseen' = [qseen EXCEPT ![q][t] = @ \cup block.ids]
        /\ qaddr' = [qaddr EXCEPT ![q][t] = block.prev]
  /\ UNCHANGED <<disk, mode, running, handle, writer, qfile>>

QueryFinish(q) ==
  /\ qfile[q] # None
  /\ \A t \in Trigram : qaddr[q][t] = 0
  /\ qfile' = [qfile EXCEPT ![q] = None]
  /\ qseen' = [qseen EXCEPT ![q] = NoBatch]
  /\ UNCHANGED <<disk, mode, running, handle, writer, qaddr>>

----------------------------------------------------------------------------
(* Stopping, deleting, crashing *)

\* stop() clears the flag; a batch or defrag already running is not disturbed.
Stop ==
  /\ mode = "up" /\ running
  /\ running' = FALSE
  /\ UNCHANGED <<disk, mode, handle, writer, queries>>

\* Mutant: delete() does not wait for an installation to end.
DeleteTailAtOnce ==
  /\ mode = "up" /\ ~running /\ wpc \in {"idle", "installTail"}
  /\ tail' = None
  /\ mode' = "deleting"
  /\ UNCHANGED <<file, durable, data, newData, newTail, running, handle, writer, queries>>

\* stop() then waits for write_handle; delete() removes the tail file ...
DeleteTail ==
  /\ mode = "up" /\ ~running /\ wpc = "idle"
  /\ tail' = None
  /\ mode' = "deleting"
  /\ UNCHANGED <<file, durable, data, newData, newTail, running, handle, writer, queries>>

\* ... and then the data file.
DeleteData ==
  /\ mode = "deleting"
  /\ data' = None
  /\ mode' = "down" /\ handle' = None
  /\ UNCHANGED <<file, durable, tail, newData, newTail, running, writer, queries>>

\* What a power loss may leave of a file that still has a name.
Surviving(i) == IF i = None THEN {0} ELSE durable[i] .. Len(file[i])

\* The process dies.  Files without a name are gone; of a file with one, any
\* part after the last sync_all may be.
Crash ==
  /\ mode # "down" \/ \E q \in Query : qfile[q] # None
  /\ \E n \in Surviving(data), m \in Surviving(newData) :
       durable' = [i \in Inode |-> IF i = data THEN n ELSE IF i = newData THEN m ELSE 0]
  /\ file' = [i \in Inode |-> SubSeq(file[i], 1, durable'[i])]
  /\ mode' = "down" /\ running' = FALSE /\ handle' = None
  /\ wpc' = "idle" /\ batch' = NoBatch /\ todo' = {} /\ draft' = EmptyTable
  /\ temp' = None
  /\ qfile' = [q \in Query |-> None]
  /\ qaddr' = [q \in Query |-> EmptyTable.addr]
  /\ qseen' = [q \in Query |-> NoBatch]
  /\ UNCHANGED <<data, tail, newData, newTail>>

----------------------------------------------------------------------------
Open ==
  \/ OpenStart \/ ClearTail \/ RemoveData \/ CreateData \/ CreateTail
  \/ InstallData \/ InstallTail \/ InitReady \/ Trim

WriteBatch ==
  \/ \E b \in Batches : StartBatch(b)
  \/ AppendBlock \/ SyncBatch \/ PublishTail

Defrag ==
  \/ StartDefrag \/ CopyTrigram \/ SyncDefrag \/ PrepareData \/ PrepareTail
  \/ DefragInstallData \/ DefragInstallTail \/ Reopen

RunQuery(q) ==
  \/ QueryOpen(q)
  \/ \E t \in Trigram : ReadBlock(q, t)
  \/ QueryFinish(q)

Next ==
  \/ Open \/ WriteBatch \/ Defrag \/ FailStep
  \/ \E q \in Query : RunQuery(q)
  \/ Stop \/ DeleteTail \/ DeleteData
  \/ Crash

Spec == Init /\ [][Next]_vars

\* Threads run; lock holders go on until they release the lock.  Nothing makes
\* a batch arrive, a defrag start, a query come in, or the process die.
Fairness ==
  /\ WF_vars(Open)
  /\ WF_vars(AppendBlock \/ SyncBatch \/ PublishTail)
  /\ WF_vars(CopyTrigram \/ SyncDefrag \/ PrepareData \/ PrepareTail
               \/ DefragInstallData \/ DefragInstallTail \/ Reopen)
  /\ \A q \in Query : WF_vars((\E t \in Trigram : ReadBlock(q, t)) \/ QueryFinish(q))
  /\ WF_vars(DeleteTail \/ DeleteData)

LiveSpec == Spec /\ Fairness

----------------------------------------------------------------------------
(* What the disk stands for: the index a restart would find *)

Recovered ==
  IF newTail # None
    THEN Content(BlocksOf(IF newData # None THEN newData ELSE data), newTail)
  ELSE IF tail # None THEN Content(BlocksOf(data), tail)
  ELSE NoBatch

\* What a running query will have collected when it ends.
Reply(q) ==
  IF qfile[q] = None THEN None
  ELSE [t \in Trigram |-> qseen[q][t] \cup Ids(file[qfile[q]], qaddr[q][t])]

Index == INSTANCE JournalIndex
           WITH index <- Recovered,
                reply <- [q \in Query |-> Reply(q)],
                NoReply <- None
=============================================================================
