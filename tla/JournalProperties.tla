--------------------------- MODULE JournalProperties ---------------------------
(* What is claimed of Journal: checked by TLC, and in part proved in         *)
(* JournalProofs.                                                            *)
EXTENDS Journal

\* Every variable holds a value of its kind.
TypeOK ==
  /\ file \in [Inode -> Seq(Block)]
  /\ durable \in [Inode -> Nat]
  /\ data \in Inode \cup {None} /\ newData \in Inode \cup {None}
  /\ tail \in Table \cup {None} /\ newTail \in Table \cup {None}
  /\ mode \in Modes /\ running \in BOOLEAN
  /\ handle \in Inode \cup {None} /\ temp \in Inode \cup {None}
  /\ wpc \in WriterSteps
  /\ batch \in [Trigram -> SUBSET Id]
  /\ todo \subseteq Trigram
  /\ draft \in Table
  /\ qfile \in [Query -> Inode \cup {None}]
  /\ qaddr \in [Query -> [Trigram -> Nat]]
  /\ qseen \in [Query -> [Trigram -> SUBSET Id]]

\* The journal implements JournalIndex: batches become visible as a whole and
\* are never lost, a defragmentation, a failed write, a crash and a restart are
\* invisible, and a query answers from the instant it opened the files, however
\* the writer and the defragmenter go on while it reads.
RefinesIndex == Index!Spec

\* The generation counter bounds the fragmentation it stands for: no trigram's
\* chain is longer than the generation plus the block a defrag leaves
\* (manager.rs decides by it whether to defragment).
FragmentsBounded ==
  mode = "up" /\ wpc # "installTail" =>
    \A t \in Trigram :
      Cardinality(ChainOf(file[data], tail.addr[t])) <= tail.gen + 1

\* A table in place refers only to blocks that a sync_all has covered, so no
\* crash can leave it pointing past the end of its journal.
TablesAreDurable ==
  /\ newTail = None /\ tail # None =>
       data # None /\ \A t \in Trigram : tail.addr[t] <= durable[data]
  /\ newTail # None /\ newData # None =>
       \A t \in Trigram : newTail.addr[t] <= durable[newData]

\* While open() finds the two files of an unfinished defrag, they say the same
\* as the pair they are about to replace (journal.rs:122, "if a defrag just
\* finished but the files are still being installed finish that now").
InstallFinishesADefrag ==
  mode = "install" /\ newTail # None /\ newData # None =>
    Content(file[newData], newTail) = Content(file[data], tail)

\* Deleting an index waits for the batch or defrag in progress, so that no
\* table is left, or put back, for an index that reuses the identifier.
DeleteLeavesNoTable ==
  [][mode = "deleting" /\ mode' = "down" /\ data' = None =>
       tail' = None /\ newTail' = None]_vars

\* stop() and delete() get the locks they wait for.
DeleteCompletes == (mode = "up" /\ ~running) ~> mode = "down"

\* Every query ends, however the chains it walks are extended or replaced.
QueriesEnd == \A q \in Query : qfile[q] # None ~> qfile[q] = None

\* A batch or a defrag lets go of write_handle.
WriterReleases == wpc # "idle" ~> wpc = "idle"
=============================================================================
