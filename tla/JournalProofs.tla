----------------------------- MODULE JournalProofs -----------------------------
(***************************************************************************)
(* What TLAPS proves about Journal, for every set of trigrams, batches,    *)
(* inodes and queries and for every bound: type correctness, that tables   *)
(* are durable and chains short, that a deletion leaves nothing behind,    *)
(* and that the journal implements JournalIndex.                           *)
(*                                                                         *)
(* Two hypotheses are needed, and each is tight: with an empty batch in    *)
(* Batches, or "reopen" in Faults, TLC finds the refinement broken.        *)
(***************************************************************************)
EXTENDS JournalProperties, FiniteSetTheorems, TLAPS

\* Every batch has a file with a trigram.
BatchesHaveTrigrams == \A b \in Batches : \E t \in Trigram : b[t] # {}

\* Opening the new journal after a defragmentation does not fail.
ReopenSucceeds == "reopen" \notin Faults

----------------------------------------------------------------------------
(* The inductive invariant *)

\* The previous block of a block is below it, no block is empty, and a
\* sync_all covers blocks that are there.
BlocksOK ==
  \A i \in Inode :
    /\ durable[i] <= Len(file[i])
    /\ \A k \in 1 .. Len(file[i]) : file[i][k].prev < k /\ file[i][k].ids # {}

\* The table refers to durable blocks of the inode.
Fits(table, i) == \A t \in Trigram : table.addr[t] <= durable[i]

\* Some trigram has a block.
Populated(table) == \E t \in Trigram : table.addr[t] # 0

\* No two names or handles share an inode unless they must.
NamesOK ==
  /\ newData # None => newData # data /\ newData # handle
  /\ temp # None => temp # data /\ temp # newData /\ temp # handle
  /\ \A q \in Query : qfile[q] # None =>
       /\ qfile[q] # newData /\ qfile[q] # temp
       /\ mode \notin {"up", "deleting"} => qfile[q] # data

\* Which files exist, and who uses them, in each mode.
ModeOK ==
  /\ data = None => tail = None /\ newTail = None
  /\ mode # "up" => wpc = "idle"
  /\ mode = "up" => data # None /\ tail # None
  /\ mode = "up" /\ wpc \notin {"installTail", "reopen"} => handle = data
  /\ mode = "clear" => data # None /\ newTail = None /\ file[data] = <<>>
  /\ mode = "remove" => tail = None /\ newTail = None
  /\ mode = "create" => data = None
  /\ mode = "createTail" => data # None /\ handle = data /\ tail = None /\ newTail = None
  /\ mode \in {"install", "installTail", "ready", "trim"} => data # None
  /\ mode = "installTail" => newData = None
  /\ mode = "ready" => newTail = None
  /\ mode = "trim" => tail # None /\ newTail = None
  /\ mode = "deleting" => tail = None /\ newTail = None

\* What the holder of write_handle relies on.
WriterOK ==
  /\ wpc \in {"copy", "prepareData"} => temp # None
  /\ wpc = "prepareTail" => newData # None
  /\ wpc \in {"copy", "prepareData", "prepareTail", "installData"} => Populated(tail)
  /\ wpc \in {"publish", "prepareData", "prepareTail"} => todo = {}
  /\ wpc = "installData" => newData # None /\ newTail # None
  /\ wpc = "installTail" => newData = None /\ newTail # None
  /\ mode = "up" /\ wpc \notin {"installData", "installTail"} => newTail = None

\* The pairs of files on the disk.
PairOK ==
  /\ newTail = None /\ tail # None =>
       Fits(tail, data) /\ (tail.gen > 0 => Populated(tail))
  /\ newTail # None => Populated(newTail)
  /\ newTail # None /\ newData = None => Fits(newTail, data)
  /\ newTail # None /\ newData # None =>
       /\ Fits(newTail, newData)
       /\ tail # None /\ Fits(tail, data) /\ Populated(tail)
       /\ Content(file[newData], newTail) = Content(file[data], tail)

\* The table a batch is building: what is already in it, and what is not.
BatchDraftOK ==
  wpc \in {"append", "publish"} =>
    /\ batch \in Batches
    /\ wpc = "publish" => Fits(draft, handle)
    /\ \A t \in Trigram :
         /\ draft.addr[t] <= Len(file[handle])
         /\ IF t \in todo
              THEN draft.addr[t] = tail.addr[t] /\ batch[t] # {}
              ELSE /\ Ids(file[handle], draft.addr[t])
                        = Ids(file[handle], tail.addr[t]) \cup batch[t]
                   /\ batch[t] # {} => draft.addr[t] # 0

\* The inode a defrag writes.
Target == IF wpc = "prepareTail" THEN newData ELSE temp

\* The pair a defrag is building says what the current pair says.
DefragDraftOK ==
  wpc \in {"copy", "prepareData", "prepareTail"} =>
    /\ wpc # "copy" => Fits(draft, Target)
    /\ \A t \in Trigram :
         /\ draft.addr[t] <= Len(file[Target])
         /\ IF t \in todo
              THEN draft.addr[t] = 0
              ELSE Ids(file[Target], draft.addr[t]) = Ids(file[data], tail.addr[t])

\* A query only follows addresses of the file it opened.
QueryOK ==
  \A q \in Query : qfile[q] # None =>
    \A t \in Trigram : qaddr[q][t] <= Len(file[qfile[q]])

IInv == /\ TypeOK /\ BlocksOK /\ NamesOK /\ ModeOK /\ WriterOK
        /\ PairOK /\ BatchDraftOK /\ DefragDraftOK /\ QueryOK

----------------------------------------------------------------------------
(* Chains *)

\* Nothing is read at address 0.
LEMMA IdsZero ==
  ASSUME NEW blocks
  PROVE  Ids(blocks, 0) = {}
  BY DEF Ids, ChainOf

\* A chain is the block it starts from and the chain of the previous block.
LEMMA ChainStep ==
  ASSUME NEW blocks \in Seq(Block), NEW a \in 1 .. Len(blocks),
         \A k \in 1 .. Len(blocks) : blocks[k].prev < k
  PROVE  ChainOf(blocks, a) = {a} \cup ChainOf(blocks, blocks[a].prev)
<1> DEFINE p == blocks[a].prev
           up == (1 .. a) \cap (1 .. Len(blocks))
           down == (1 .. p) \cap (1 .. Len(blocks))
<1>1. /\ Len(blocks) \in Nat /\ p \in Nat /\ p < a
      /\ \A k \in 1 .. Len(blocks) : blocks[k].prev \in Nat /\ blocks[k].prev < k
  <2>1. \A k \in 1 .. Len(blocks) : blocks[k] \in Block
    OBVIOUS
  <2>2. \A k \in 1 .. Len(blocks) : blocks[k].prev \in Nat
    BY <2>1 DEF Block
  <2> QED  BY <2>2
<1>2. up = 1 .. a /\ down = 1 .. p
  BY <1>1
<1> HIDE DEF p, up, down
<1>3. p = blocks[a].prev
  BY DEF p
<1>4. ChainOf(blocks, a) =
        {i \in up : \A S \in SUBSET up : Linked(blocks, a, S) => i \in S}
  BY DEF ChainOf, up
<1>5. ChainOf(blocks, p) =
        {i \in down : \A S \in SUBSET down : Linked(blocks, p, S) => i \in S}
  BY DEF ChainOf, down
<1>6. a \in ChainOf(blocks, a)
  BY <1>1, <1>2, <1>4 DEF Linked
<1>7. ASSUME NEW i \in ChainOf(blocks, p)  PROVE i \in ChainOf(blocks, a)
  <2>1. i \in up
    BY <1>1, <1>2, <1>5
  <2>2. ASSUME NEW S \in SUBSET up, Linked(blocks, a, S)  PROVE i \in S
    <3>1. Linked(blocks, p, S \cap down)
      BY <1>1, <1>2, <1>3, <2>2 DEF Linked
    <3> QED  BY <1>5, <3>1
  <2> QED  BY <1>4, <2>1, <2>2
<1>8. ASSUME NEW i \in ChainOf(blocks, a), i # a  PROVE i \in ChainOf(blocks, p)
  <2>1. ASSUME NEW S \in SUBSET down, Linked(blocks, p, S)  PROVE i \in S
    <3>1. Linked(blocks, a, S \cup {a})
      BY <1>1, <1>2, <1>3, <2>1 DEF Linked
    <3>2. S \cup {a} \in SUBSET up
      BY <1>1, <1>2
    <3> QED  BY <1>4, <1>8, <3>1, <3>2
  <2>2. Linked(blocks, p, down)
    BY <1>1, <1>2 DEF Linked
  <2> QED  BY <1>5, <2>1, <2>2
<1>9. ChainOf(blocks, a) = {a} \cup ChainOf(blocks, p)
  BY <1>6, <1>7, <1>8
<1> QED  BY <1>3, <1>9

\* A walk collects the block it starts from and what the walk from the
\* previous block collects.
LEMMA IdsStep ==
  ASSUME NEW blocks \in Seq(Block), NEW a \in 1 .. Len(blocks),
         \A k \in 1 .. Len(blocks) : blocks[k].prev < k
  PROVE  Ids(blocks, a) = blocks[a].ids \cup Ids(blocks, blocks[a].prev)
  BY ChainStep DEF Ids

\* A walk depends only on the blocks up to its start: appending to a journal
\* or truncating it above the start does not change it.
LEMMA ChainPrefix ==
  ASSUME NEW b \in Seq(Block), NEW c \in Seq(Block), NEW a \in Nat,
         a <= Len(b), a <= Len(c),
         \A k \in 1 .. a : b[k] = c[k] /\ b[k].prev < k
  PROVE  ChainOf(b, a) = ChainOf(c, a)
<1>1. /\ Len(b) \in Nat /\ Len(c) \in Nat
      /\ \A k \in 1 .. a : b[k].prev \in Nat /\ c[k] = b[k]
  <2>1. \A k \in 1 .. a : b[k] \in Block
    OBVIOUS
  <2>2. \A k \in 1 .. a : b[k].prev \in Nat
    BY <2>1 DEF Block
  <2> QED  BY <2>2
<1>2. /\ (1 .. a) \cap (1 .. Len(b)) = 1 .. a
      /\ (1 .. a) \cap (1 .. Len(c)) = 1 .. a
  BY <1>1
<1>3. ASSUME NEW S \in SUBSET (1 .. a)
      PROVE  Linked(b, a, S) <=> Linked(c, a, S)
  BY <1>1, SMTT(30) DEF Linked
<1> QED  BY <1>2, <1>3 DEF ChainOf

LEMMA IdsPrefix ==
  ASSUME NEW b \in Seq(Block), NEW c \in Seq(Block), NEW a \in Nat,
         a <= Len(b), a <= Len(c),
         \A k \in 1 .. a : b[k] = c[k] /\ b[k].prev < k
  PROVE  Ids(b, a) = Ids(c, a)
<1>1. ChainOf(b, a) = ChainOf(c, a)
  BY ChainPrefix
<1>2. ASSUME NEW i \in ChainOf(b, a)  PROVE b[i] = c[i]
  BY DEF ChainOf
<1> QED  BY <1>1, <1>2 DEF Ids

----------------------------------------------------------------------------
(* Facts about constants *)

LEMMA Constants ==
  /\ EmptyTable \in Table /\ EmptyTable # None
  /\ NoBatch \in [Trigram -> SUBSET Id]
  /\ \A t \in Trigram : EmptyTable.addr[t] = 0 /\ NoBatch[t] = {}
  /\ ~ Populated(EmptyTable)
  BY NoneAssumption DEF EmptyTable, NoBatch, Table, Populated

\* A table with a block keeps the journal it fits from looking uninitialised.
LEMMA PopulatedNonEmpty ==
  ASSUME TypeOK, BlocksOK, NEW i \in Inode, NEW table \in Table,
         Fits(table, i), Populated(table)
  PROVE  durable[i] > 0 /\ Len(file[i]) > 0 /\ file[i] # <<>>
  BY DEF TypeOK, BlocksOK, Fits, Populated, Table

----------------------------------------------------------------------------
(* open() *)

LEMMA InitInv == Init => IInv
<1> SUFFICES ASSUME Init  PROVE IInv
  OBVIOUS
<1> USE DEF Init
<1>1. TypeOK
  <2>1. <<>> \in Seq(Block) /\ EmptyTable.addr \in [Trigram -> Nat]
    BY DEF EmptyTable
  <2> QED  BY <2>1, Constants DEF TypeOK, Modes, WriterSteps
<1>2. BlocksOK
  <2>1. Len(<<>>) = 0
    OBVIOUS
  <2> QED  BY <2>1 DEF BlocksOK
<1>3. NamesOK /\ ModeOK /\ WriterOK /\ PairOK /\ BatchDraftOK /\ DefragDraftOK /\ QueryOK
  BY DEF NamesOK, ModeOK, WriterOK, PairOK, BatchDraftOK, DefragDraftOK, QueryOK
<1> QED  BY <1>1, <1>2, <1>3 DEF IInv

LEMMA OpenStartInv ==
  ASSUME IInv, OpenStart
  PROVE  IInv'
<1> USE DEF OpenStart, disk, writer, queries
<1>1. ASSUME newTail # None, data # None  PROVE file[data] # <<>>
  BY <1>1, PopulatedNonEmpty DEF IInv, PairOK, TypeOK
<1>2. ModeOK'
  BY <1>1 DEF IInv, ModeOK
<1>3. TypeOK' /\ NamesOK' /\ WriterOK'
  BY DEF IInv, TypeOK, NamesOK, ModeOK, WriterOK, Modes, OpenModes
<1>4. BlocksOK' /\ PairOK' /\ BatchDraftOK' /\ DefragDraftOK' /\ QueryOK'
  BY DEF IInv, BlocksOK, PairOK, BatchDraftOK, DefragDraftOK, QueryOK, Fits, Populated, Target, Content
<1> QED  BY <1>2, <1>3, <1>4 DEF IInv

LEMMA ClearTailInv ==
  ASSUME IInv, ClearTail
  PROVE  IInv'
<1> USE DEF ClearTail, disk, writer, queries
<1>1. TypeOK' /\ NamesOK' /\ ModeOK' /\ WriterOK'
  BY DEF IInv, TypeOK, NamesOK, ModeOK, WriterOK, Modes, OpenModes
<1>2. BlocksOK' /\ QueryOK' /\ PairOK' /\ BatchDraftOK' /\ DefragDraftOK'
  BY DEF IInv, BlocksOK, QueryOK, ModeOK, PairOK, BatchDraftOK, DefragDraftOK, Populated, Fits
<1> QED  BY <1>1, <1>2 DEF IInv

LEMMA RemoveDataInv ==
  ASSUME IInv, RemoveData
  PROVE  IInv'
<1> USE DEF RemoveData, disk, writer, queries
<1>1. TypeOK' /\ NamesOK' /\ ModeOK' /\ WriterOK'
  BY DEF IInv, TypeOK, NamesOK, ModeOK, WriterOK, Modes, OpenModes
<1>2. BlocksOK' /\ QueryOK' /\ PairOK' /\ BatchDraftOK' /\ DefragDraftOK'
  BY DEF IInv, BlocksOK, QueryOK, ModeOK, PairOK, BatchDraftOK, DefragDraftOK, Populated, Fits
<1> QED  BY <1>1, <1>2 DEF IInv

LEMMA CreateDataInv ==
  ASSUME IInv, CreateData
  PROVE  IInv'
<1> USE DEF CreateData, disk, writer, queries
<1>1. PICK i \in Free : Create(i) /\ data' = i /\ handle' = i
  BY DEF CreateData
<1>2. /\ file' = [file EXCEPT ![i] = <<>>] /\ durable' = [durable EXCEPT ![i] = 0]
      /\ i \in Inode /\ i # data /\ i # newData /\ i # handle /\ i # temp
      /\ \A q \in Query : qfile[q] # i
  BY <1>1 DEF Create, Free
<1>3. TypeOK'
  <2>1. <<>> \in Seq(Block)
    OBVIOUS
  <2>2. file' \in [Inode -> Seq(Block)] /\ durable' \in [Inode -> Nat]
    BY <1>2, <2>1 DEF IInv, TypeOK
  <2> QED  BY <1>1, <1>2, <2>2 DEF IInv, TypeOK, Modes, OpenModes
<1>4. BlocksOK'
  <2>1. file'[i] = <<>> /\ durable'[i] = 0 /\ Len(<<>>) = 0
    BY <1>2 DEF IInv, TypeOK
  <2>2. \A j \in Inode : j # i => file'[j] = file[j] /\ durable'[j] = durable[j]
    BY <1>2 DEF IInv, TypeOK
  <2> QED  BY <2>1, <2>2 DEF IInv, BlocksOK
<1>5. NamesOK' /\ ModeOK' /\ WriterOK'
  BY <1>1, <1>2, NoneAssumption DEF IInv, TypeOK, NamesOK, ModeOK, WriterOK
<1>6. PairOK' /\ BatchDraftOK' /\ DefragDraftOK'
  BY <1>1 DEF IInv, ModeOK, PairOK, BatchDraftOK, DefragDraftOK
<1>7. QueryOK'
  BY <1>2 DEF IInv, TypeOK, QueryOK
<1> QED  BY <1>3, <1>4, <1>5, <1>6, <1>7 DEF IInv

LEMMA CreateTailInv ==
  ASSUME IInv, CreateTail
  PROVE  IInv'
<1> USE DEF CreateTail, disk, writer, queries
<1>1. /\ tail' = EmptyTable /\ mode' = "up" /\ running' = TRUE /\ mode = "createTail"
      /\ tail = None /\ newTail = None /\ data # None
      /\ UNCHANGED <<file, durable, data, newData, newTail, handle>>
  BY DEF IInv, ModeOK
<1>2. TypeOK'
  BY <1>1, Constants DEF IInv, TypeOK, Modes, OpenModes
<1>3. NamesOK' /\ ModeOK' /\ WriterOK'
  BY <1>1, Constants DEF IInv, NamesOK, ModeOK, WriterOK
<1>4. PairOK'
  <2>1. Fits(EmptyTable, data)
    BY <1>1, Constants DEF IInv, TypeOK, Fits
  <2> QED  BY <1>1, <2>1, Constants DEF PairOK, Fits, EmptyTable
<1>5. BlocksOK' /\ BatchDraftOK' /\ DefragDraftOK' /\ QueryOK'
  BY <1>1 DEF IInv, ModeOK, BlocksOK, BatchDraftOK, DefragDraftOK, QueryOK
<1> QED  BY <1>2, <1>3, <1>4, <1>5 DEF IInv

LEMMA InstallDataInv ==
  ASSUME IInv, InstallData
  PROVE  IInv'
<1> USE DEF InstallData, MoveData, disk, writer, queries
<1>1. TypeOK' /\ BlocksOK' /\ QueryOK'
  BY DEF IInv, TypeOK, BlocksOK, QueryOK, Modes, OpenModes
<1>2. NamesOK' /\ ModeOK' /\ WriterOK'
  BY DEF IInv, TypeOK, NamesOK, ModeOK, WriterOK, PairOK
<1>3. PairOK'
  BY DEF IInv, ModeOK, PairOK, Fits, Populated, Content
<1>4. BatchDraftOK' /\ DefragDraftOK'
  BY DEF IInv, ModeOK, BatchDraftOK, DefragDraftOK
<1> QED  BY <1>1, <1>2, <1>3, <1>4 DEF IInv

LEMMA InstallTailInv ==
  ASSUME IInv, InstallTail
  PROVE  IInv'
<1> USE DEF InstallTail, MoveTail, disk, writer, queries
<1>1. TypeOK' /\ BlocksOK' /\ QueryOK'
  BY DEF IInv, TypeOK, BlocksOK, QueryOK, Modes, OpenModes
<1>2. NamesOK' /\ ModeOK' /\ WriterOK'
  BY DEF IInv, TypeOK, NamesOK, ModeOK, WriterOK, PairOK
<1>3. PairOK'
  BY DEF IInv, ModeOK, PairOK, Fits, Populated, Content
<1>4. BatchDraftOK' /\ DefragDraftOK'
  BY DEF IInv, ModeOK, BatchDraftOK, DefragDraftOK
<1> QED  BY <1>1, <1>2, <1>3, <1>4 DEF IInv

LEMMA InitReadyInv ==
  ASSUME IInv, InitReady
  PROVE  IInv'
<1> USE DEF InitReady, disk, writer, queries
<1>1. TypeOK' /\ BlocksOK' /\ QueryOK'
  BY Constants DEF IInv, TypeOK, BlocksOK, QueryOK, Modes, OpenModes
<1>2. NamesOK' /\ ModeOK' /\ WriterOK'
  BY Constants DEF IInv, TypeOK, NamesOK, ModeOK, WriterOK
<1>3. PairOK'
  <2>1. Fits(EmptyTable, data) /\ EmptyTable.gen = 0
    BY Constants DEF IInv, ModeOK, TypeOK, Fits, EmptyTable
  <2> QED  BY <2>1 DEF IInv, ModeOK, PairOK, Fits, Populated
<1>4. BatchDraftOK' /\ DefragDraftOK'
  BY DEF IInv, ModeOK, BatchDraftOK, DefragDraftOK
<1> QED  BY <1>1, <1>2, <1>3, <1>4 DEF IInv

LEMMA TrimInv ==
  ASSUME IInv, Trim
  PROVE  IInv'
<1> USE DEF Trim, disk, writer, queries
<1>1. PICK n \in 0 .. Len(file[data]) :
        /\ \A t \in Trigram : tail.addr[t] <= n
        /\ IF n > 0
             THEN /\ file' = [file EXCEPT ![data] = SubSeq(@, 1, n)]
                  /\ durable' = [durable EXCEPT ![data] = IF @ < n THEN @ ELSE n]
             ELSE UNCHANGED <<file, durable>>
  OBVIOUS
<1>2. /\ data \in Inode /\ file[data] \in Seq(Block) /\ durable[data] \in Nat
      /\ durable[data] <= Len(file[data]) /\ tail \in Table /\ newTail = None
      /\ wpc = "idle"
      /\ \A q \in Query : qfile[q] # None => qfile[q] # data
  BY DEF IInv, TypeOK, ModeOK, BlocksOK, NamesOK
<1>3. /\ SubSeq(file[data], 1, n) \in Seq(Block) /\ Len(SubSeq(file[data], 1, n)) = n
      /\ \A k \in 1 .. n : SubSeq(file[data], 1, n)[k] = file[data][k]
  BY <1>2
<1>4. TypeOK'
  <2>1. file' \in [Inode -> Seq(Block)] /\ durable' \in [Inode -> Nat]
    <3>1. CASE n > 0
      <4>1. /\ file' = [file EXCEPT ![data] = SubSeq(file[data], 1, n)]
            /\ durable' = [durable EXCEPT ![data] =
                             IF durable[data] < n THEN durable[data] ELSE n]
        BY <1>1, <3>1
      <4>2. (IF durable[data] < n THEN durable[data] ELSE n) \in Nat
        BY <1>2
      <4> QED  BY <1>2, <1>3, <4>1, <4>2 DEF IInv, TypeOK
    <3> QED  BY <1>1, <3>1 DEF IInv, TypeOK
  <2> QED  BY <2>1 DEF IInv, TypeOK, Modes
<1>5. ASSUME NEW i \in Inode
      PROVE  /\ durable'[i] <= Len(file'[i])
             /\ \A k \in 1 .. Len(file'[i]) : k <= Len(file[i]) /\ file'[i][k] = file[i][k]
             /\ i # data => file'[i] = file[i] /\ durable'[i] = durable[i]
  <2>1. CASE i = data /\ n > 0
    BY <1>1, <1>2, <1>3, <2>1 DEF IInv, TypeOK
  <2>2. CASE i # data \/ n = 0
    BY <1>1, <2>2 DEF IInv, TypeOK, BlocksOK
  <2> QED  BY <1>1, <2>1, <2>2
<1>6. BlocksOK'
  <2> SUFFICES ASSUME NEW i \in Inode
               PROVE  /\ durable'[i] <= Len(file'[i])
                      /\ \A k \in 1 .. Len(file'[i]) :
                            file'[i][k].prev < k /\ file'[i][k].ids # {}
    BY DEF BlocksOK
  <2>1. Len(file[i]) \in Nat /\ Len(file'[i]) \in Nat
    BY <1>4 DEF IInv, TypeOK
  <2> QED  BY <1>5, <2>1 DEF IInv, BlocksOK
<1>7. NamesOK' /\ ModeOK' /\ WriterOK'
  BY <1>2 DEF IInv, NamesOK, ModeOK, WriterOK
<1>8. PairOK'
  <2>1. \A t \in Trigram : tail.addr[t] <= durable'[data]
    BY <1>1, <1>2, NoneAssumption DEF IInv, TypeOK, ModeOK, PairOK, Fits, Table
  <2> QED  BY <1>2, <2>1 DEF IInv, PairOK, Fits, Populated
<1>9. BatchDraftOK' /\ DefragDraftOK' /\ QueryOK'
  BY <1>2, <1>5 DEF IInv, TypeOK, BatchDraftOK, DefragDraftOK, QueryOK
<1> QED  BY <1>4, <1>6, <1>7, <1>8, <1>9 DEF IInv

----------------------------------------------------------------------------
(* write_batch *)

LEMMA StartBatchInv ==
  ASSUME IInv, NEW b \in Batches, StartBatch(b), BatchesHaveTrigrams
  PROVE  IInv'
<1> USE DEF StartBatch, disk, writer, queries
<1>1. b \in [Trigram -> SUBSET Id] /\ tail \in Table /\ handle = data /\ newTail = None
      /\ data \in Inode /\ Fits(tail, data) /\ durable[data] <= Len(file[data])
  BY BatchAssumption DEF IInv, TypeOK, ModeOK, WriterOK, PairOK, BlocksOK
<1>2. TypeOK'
  BY <1>1 DEF IInv, TypeOK, WriterSteps
<1>3. BlocksOK' /\ NamesOK' /\ ModeOK' /\ WriterOK' /\ QueryOK'
  BY DEF IInv, BlocksOK, NamesOK, ModeOK, WriterOK, QueryOK
<1>4. PairOK' /\ DefragDraftOK'
  BY <1>1 DEF IInv, PairOK, DefragDraftOK, Fits, Populated
<1>5. BatchDraftOK'
  <2>1. ASSUME NEW t \in Trigram  PROVE tail.addr[t] <= Len(file[data])
    BY <1>1 DEF IInv, TypeOK, Fits, Table
  <2>2. ASSUME NEW t \in Trigram, t \notin todo'
        PROVE  b[t] = {}
    BY <2>2
  <2> QED  BY <1>1, <2>1, <2>2 DEF BatchDraftOK
<1> QED  BY <1>2, <1>3, <1>4, <1>5 DEF IInv

\* The appended block extends the chain of its trigram by the batch's numbers
\* and leaves every other chain as it was.
LEMMA AppendBlockInv ==
  ASSUME IInv, AppendBlock
  PROVE  IInv'
<1> USE DEF AppendBlock, disk, writer, queries
<1> DEFINE old == file[handle]
<1>1. /\ mode = "up" /\ handle = data /\ data \in Inode /\ old \in Seq(Block)
      /\ tail \in Table /\ newTail = None /\ Fits(tail, data) /\ draft \in Table
      /\ durable[data] \in Nat /\ durable[data] <= Len(old) /\ Len(old) \in Nat
      /\ batch \in [Trigram -> SUBSET Id]
      /\ temp # handle \/ temp = None
  BY DEF IInv, TypeOK, ModeOK, WriterOK, PairOK, BlocksOK, NamesOK
<1>2. PICK t \in Trigram :
        /\ t \in todo
        /\ file' = [file EXCEPT ![handle] =
                      Append(@, [prev |-> tail.addr[t], ids |-> batch[t]])]
        /\ draft' = [draft EXCEPT !.addr[t] = Len(file[handle]) + 1]
        /\ todo' = todo \ {t}
  BY DEF Smallest
<1> DEFINE block == [prev |-> tail.addr[t], ids |-> batch[t]]
           new == Append(old, block)
<1>3. block \in Block /\ tail.addr[t] \in Nat /\ tail.addr[t] <= Len(old)
  BY <1>1 DEF Block, Table, Fits
<1>4. /\ new \in Seq(Block) /\ Len(new) = Len(old) + 1 /\ new[Len(old) + 1] = block
      /\ \A k \in 1 .. Len(old) : new[k] = old[k]
  BY <1>1, <1>3
<1>5. /\ file' = [file EXCEPT ![data] = new] /\ file'[data] = new
      /\ \A i \in Inode : i # data => file'[i] = file[i]
  BY <1>1, <1>2 DEF IInv, TypeOK
<1>6. batch[t] # {}
  BY <1>2 DEF IInv, BatchDraftOK
<1> HIDE DEF new, block
<1>7. TypeOK'
  <2>1. file' \in [Inode -> Seq(Block)]
    BY <1>4, <1>5 DEF IInv, TypeOK
  <2>2. draft' \in Table
    <3>1. [draft.addr EXCEPT ![t] = Len(old) + 1] \in [Trigram -> Nat]
      BY <1>1 DEF Table
    <3>2. draft' = [draft EXCEPT !.addr = [draft.addr EXCEPT ![t] = Len(old) + 1]]
      BY <1>2
    <3> QED  BY <1>1, <3>1, <3>2 DEF Table
  <2> QED  BY <1>2, <2>1, <2>2 DEF IInv, TypeOK
<1>8. BlocksOK'
  <2>1. ASSUME NEW k \in 1 .. Len(new)  PROVE new[k].prev < k /\ new[k].ids # {}
    <3>1. CASE k = Len(old) + 1
      BY <1>1, <1>3, <1>4, <1>6, <3>1 DEF block
    <3>2. CASE k \in 1 .. Len(old)
      BY <1>1, <1>4, <3>2 DEF IInv, BlocksOK
    <3> QED  BY <1>1, <1>4, <3>1, <3>2
  <2>2. durable[data] <= Len(new)
    BY <1>1, <1>4
  <2> QED  BY <1>5, <2>1, <2>2 DEF IInv, BlocksOK
<1>9. NamesOK' /\ ModeOK' /\ WriterOK' /\ PairOK' /\ DefragDraftOK'
  BY <1>1 DEF IInv, NamesOK, ModeOK, WriterOK, PairOK, DefragDraftOK, Fits, Populated
<1>10. BatchDraftOK'
  <2>1. ASSUME NEW a \in Nat, a <= Len(old)  PROVE Ids(new, a) = Ids(old, a)
    <3>1. \A k \in 1 .. a : new[k] = old[k] /\ new[k].prev < k
      BY <1>1, <1>4, <2>1 DEF IInv, BlocksOK
    <3>2. a <= Len(new) /\ \A k \in 1 .. a : old[k] = new[k] /\ old[k].prev < k
      BY <1>1, <1>4, <2>1, <3>1
    <3> HIDE DEF old
    <3>3. Ids(old, a) = Ids(new, a)
      BY <1>1, <1>4, <2>1, <3>2, IdsPrefix
    <3> QED  BY <3>3
  <2>2. Ids(new, Len(old) + 1) = Ids(old, tail.addr[t]) \cup batch[t]
    <3>1. \A k \in 1 .. Len(new) : new[k].prev < k
      BY <1>5, <1>8, <1>1 DEF BlocksOK
    <3>2. Ids(new, Len(old) + 1) = new[Len(old) + 1].ids \cup Ids(new, new[Len(old) + 1].prev)
      BY <1>1, <1>4, <3>1, IdsStep
    <3> QED  BY <1>3, <1>4, <2>1, <3>2 DEF block
  <2>3. ASSUME NEW u \in Trigram
        PROVE  /\ draft'.addr[u] <= Len(new)
               /\ IF u \in todo'
                    THEN draft'.addr[u] = tail.addr[u] /\ batch[u] # {}
                    ELSE /\ Ids(new, draft'.addr[u]) = Ids(new, tail.addr[u]) \cup batch[u]
                         /\ batch[u] # {} => draft'.addr[u] # 0
    <3>1. tail.addr[u] \in Nat /\ tail.addr[u] <= Len(old)
      BY <1>1 DEF Table, Fits
    <3>2. CASE u = t
      <4>1. draft'.addr[u] = Len(old) + 1
        BY <1>1, <1>2, <3>2 DEF Table
      <4> QED  BY <1>1, <1>2, <1>3, <1>4, <2>1, <2>2, <3>2, <4>1
    <3>3. CASE u # t
      <4>1. draft'.addr[u] = draft.addr[u] /\ (u \in todo' <=> u \in todo)
        BY <1>1, <1>2, <3>3 DEF Table
      <4>2. /\ draft.addr[u] \in Nat /\ draft.addr[u] <= Len(old)
            /\ IF u \in todo
                 THEN draft.addr[u] = tail.addr[u] /\ batch[u] # {}
                 ELSE /\ Ids(old, draft.addr[u]) = Ids(old, tail.addr[u]) \cup batch[u]
                      /\ batch[u] # {} => draft.addr[u] # 0
        BY <1>1 DEF IInv, BatchDraftOK, Table
      <4> QED  BY <1>1, <1>4, <2>1, <3>1, <4>1, <4>2
    <3> QED  BY <3>2, <3>3
  <2> QED  BY <1>1, <1>5, <2>3 DEF IInv, BatchDraftOK
<1>11. QueryOK'
  BY <1>1, <1>4, <1>5 DEF IInv, TypeOK, QueryOK
<1> QED  BY <1>7, <1>8, <1>9, <1>10, <1>11 DEF IInv

LEMMA SyncBatchInv ==
  ASSUME IInv, SyncBatch
  PROVE  IInv'
<1> USE DEF SyncBatch, disk, writer, queries
<1>1. /\ mode = "up" /\ handle = data /\ data \in Inode /\ newTail = None
      /\ file[data] \in Seq(Block) /\ Len(file[data]) \in Nat /\ tail \in Table /\ draft \in Table
      /\ Fits(tail, data) /\ durable[data] \in Nat /\ durable[data] <= Len(file[data])
  BY DEF IInv, TypeOK, ModeOK, WriterOK, PairOK, BlocksOK
<1>2. /\ durable'[data] = Len(file[data])
      /\ \A i \in Inode : i # data => durable'[i] = durable[i]
  BY <1>1 DEF IInv, TypeOK
<1>3. TypeOK' /\ NamesOK' /\ ModeOK' /\ WriterOK' /\ DefragDraftOK' /\ QueryOK'
  BY <1>1 DEF IInv, TypeOK, NamesOK, ModeOK, WriterOK, DefragDraftOK, QueryOK, WriterSteps
<1>4. BlocksOK'
  BY <1>1, <1>2 DEF IInv, BlocksOK
<1>5. PairOK'
  BY <1>1, <1>2 DEF IInv, PairOK, Fits, Populated, Table
<1>6. BatchDraftOK'
  BY <1>1, <1>2 DEF IInv, BatchDraftOK, Fits
<1> QED  BY <1>3, <1>4, <1>5, <1>6 DEF IInv

LEMMA PublishTailInv ==
  ASSUME IInv, PublishTail, BatchesHaveTrigrams
  PROVE  IInv'
<1> USE DEF PublishTail, disk, writer, queries
<1>1. /\ mode = "up" /\ handle = data /\ data \in Inode /\ newTail = None
      /\ tail \in Table /\ draft \in Table /\ todo = {}
  BY DEF IInv, TypeOK, ModeOK, WriterOK
<1>2. /\ tail' \in Table /\ tail' # None
      /\ \A t \in Trigram : tail'.addr[t] = draft.addr[t]
  BY <1>1, NoneAssumption DEF Table
<1>3. TypeOK'
  BY <1>1, <1>2, Constants DEF IInv, TypeOK, WriterSteps
<1>4. BlocksOK' /\ NamesOK' /\ WriterOK' /\ BatchDraftOK' /\ DefragDraftOK' /\ QueryOK'
  BY DEF IInv, BlocksOK, NamesOK, WriterOK, BatchDraftOK, DefragDraftOK, QueryOK
<1>5. ModeOK'
  BY <1>1, <1>2 DEF IInv, ModeOK
<1>6. PairOK'
  <2>1. Fits(tail', data)
    BY <1>1, <1>2 DEF IInv, BatchDraftOK, Fits
  <2>2. Populated(tail')
    BY <1>1, <1>2 DEF IInv, BatchDraftOK, Populated, BatchesHaveTrigrams
  <2> QED  BY <1>1, <2>1, <2>2 DEF PairOK, Fits, Populated
<1> QED  BY <1>3, <1>4, <1>5, <1>6 DEF IInv

----------------------------------------------------------------------------
(* _defrag *)

LEMMA StartDefragInv ==
  ASSUME IInv, StartDefrag
  PROVE  IInv'
<1> USE DEF StartDefrag, disk, writer, queries
<1>1. PICK i \in Free : Create(i) /\ temp' = i
  OBVIOUS
<1>2. /\ file' = [file EXCEPT ![i] = <<>>] /\ durable' = [durable EXCEPT ![i] = 0]
      /\ i \in Inode /\ i # data /\ i # newData /\ i # handle /\ i # temp /\ i # None
      /\ \A q \in Query : qfile[q] # i
  BY <1>1, NoneAssumption DEF Create, Free
<1>3. /\ file'[i] = <<>> /\ durable'[i] = 0 /\ Len(<<>>) = 0
      /\ \A j \in Inode : j # i => file'[j] = file[j] /\ durable'[j] = durable[j]
  BY <1>2 DEF IInv, TypeOK
<1>4. TypeOK'
  <2>1. <<>> \in Seq(Block)
    OBVIOUS
  <2>2. file' \in [Inode -> Seq(Block)] /\ durable' \in [Inode -> Nat]
    BY <1>2, <2>1 DEF IInv, TypeOK
  <2> QED  BY <1>1, <1>2, <2>2, Constants DEF IInv, TypeOK, WriterSteps
<1>5. BlocksOK'
  BY <1>3 DEF IInv, BlocksOK
<1>6. NamesOK' /\ ModeOK' /\ BatchDraftOK'
  BY <1>1, <1>2, <1>3 DEF IInv, NamesOK, ModeOK, BatchDraftOK
<1>7. PairOK' /\ WriterOK'
  BY <1>1, <1>2, <1>3 DEF IInv, TypeOK, ModeOK, WriterOK, PairOK, Fits, Populated
<1>8. DefragDraftOK'
  BY <1>1, <1>3, Constants DEF DefragDraftOK, Target
<1>9. QueryOK'
  BY <1>2, <1>3 DEF IInv, TypeOK, QueryOK
<1> QED  BY <1>4, <1>5, <1>6, <1>7, <1>8, <1>9 DEF IInv

\* The block written for a trigram holds what its chain holds.
LEMMA CopyTrigramInv ==
  ASSUME IInv, CopyTrigram
  PROVE  IInv'
<1> USE DEF CopyTrigram, disk, writer, queries
<1> DEFINE old == file[temp]
<1>1. /\ mode = "up" /\ data \in Inode /\ temp \in Inode /\ temp # data /\ temp # handle
      /\ temp # newData /\ \A q \in Query : qfile[q] # None => qfile[q] # temp
      /\ tail \in Table /\ newTail = None /\ draft \in Table
      /\ old \in Seq(Block) /\ Len(old) \in Nat
      /\ file[data] \in Seq(Block) /\ durable[temp] <= Len(old) /\ durable[temp] \in Nat
  BY DEF IInv, TypeOK, ModeOK, WriterOK, BlocksOK, NamesOK
<1>2. PICK t \in Trigram :
        /\ t \in todo
        /\ LET ids == Ids(file[data], tail.addr[t])
           IN IF ids = {} THEN UNCHANGED <<file, draft>>
              ELSE /\ file' = [file EXCEPT ![temp] = Append(@, [prev |-> 0, ids |-> ids])]
                   /\ draft' = [draft EXCEPT !.addr[t] = Len(file[temp]) + 1]
        /\ todo' = todo \ {t}
  BY DEF Smallest
<1> DEFINE ids == Ids(file[data], tail.addr[t])
<1>3. \A u \in Trigram : tail.addr[u] \in Nat /\ draft.addr[u] \in Nat /\ draft.addr[u] <= Len(old)
  BY <1>1 DEF IInv, DefragDraftOK, Target, Table
<1>4. ids \in SUBSET Id
  <2>1. \A k \in 1 .. Len(file[data]) : file[data][k] \in Block
    BY <1>1
  <2>2. \A k \in 1 .. Len(file[data]) : file[data][k].ids \in SUBSET Id
    BY <2>1 DEF Block
  <2> QED  BY <2>2 DEF Ids, ChainOf
<1>5. NamesOK' /\ ModeOK' /\ WriterOK' /\ BatchDraftOK'
  BY <1>1 DEF IInv, NamesOK, ModeOK, WriterOK, BatchDraftOK
<1>6. CASE ids = {}
  <2>1. UNCHANGED <<file, draft, durable>>
    BY <1>2, <1>6
  <2>2. TypeOK' /\ BlocksOK' /\ PairOK' /\ QueryOK'
    BY <1>1, <1>2, <2>1 DEF IInv, TypeOK, BlocksOK, PairOK, QueryOK, Fits, Populated
  <2>3. Ids(old, draft.addr[t]) = {}
    BY <1>2, IdsZero DEF IInv, DefragDraftOK
  <2>4. DefragDraftOK'
    BY <1>2, <1>6, <2>1, <2>3 DEF IInv, DefragDraftOK, Target
  <2> QED  BY <1>5, <2>2, <2>4 DEF IInv
<1>7. CASE ids # {}
  <2> DEFINE block == [prev |-> 0, ids |-> ids]
             new == Append(old, block)
  <2>1. block \in Block
    BY <1>4 DEF Block
  <2>2. /\ new \in Seq(Block) /\ Len(new) = Len(old) + 1 /\ new[Len(old) + 1] = block
        /\ \A k \in 1 .. Len(old) : new[k] = old[k]
    BY <1>1, <2>1
  <2>3. /\ file' = [file EXCEPT ![temp] = new] /\ file'[temp] = new
        /\ \A i \in Inode : i # temp => file'[i] = file[i]
    BY <1>1, <1>2, <1>7 DEF IInv, TypeOK
  <2>4. /\ draft' = [draft EXCEPT !.addr = [draft.addr EXCEPT ![t] = Len(old) + 1]]
        /\ draft' \in Table /\ draft'.addr[t] = Len(old) + 1
        /\ \A u \in Trigram : u # t => draft'.addr[u] = draft.addr[u]
    <3>1. [draft.addr EXCEPT ![t] = Len(old) + 1] \in [Trigram -> Nat]
      BY <1>1 DEF Table
    <3>2. draft' = [draft EXCEPT !.addr = [draft.addr EXCEPT ![t] = Len(old) + 1]]
      BY <1>2, <1>7
    <3> QED  BY <1>1, <3>1, <3>2 DEF Table
  <2>5. block.prev = 0 /\ block.ids = ids
    OBVIOUS
  <2> HIDE DEF new, block, ids
  <2>6. TypeOK'
    <3>1. file' \in [Inode -> Seq(Block)]
      BY <2>2, <2>3 DEF IInv, TypeOK
    <3> QED  BY <1>2, <2>4, <3>1 DEF IInv, TypeOK
  <2>7. BlocksOK'
    <3>1. ASSUME NEW k \in 1 .. Len(new)  PROVE new[k].prev < k /\ new[k].ids # {}
      <4>1. CASE k = Len(old) + 1
        BY <1>1, <1>7, <2>2, <2>5, <4>1
      <4>2. CASE k \in 1 .. Len(old)
        BY <1>1, <2>2, <4>2 DEF IInv, BlocksOK
      <4> QED  BY <1>1, <2>2, <4>1, <4>2
    <3>2. durable[temp] <= Len(new)
      BY <1>1, <2>2
    <3> QED  BY <2>3, <3>1, <3>2 DEF IInv, BlocksOK
  <2>8. PairOK'
    BY <1>1 DEF IInv, PairOK, Fits, Populated
  <2>9. QueryOK'
    BY <1>1, <2>3 DEF IInv, TypeOK, QueryOK
  <2>10. ASSUME NEW a \in Nat, a <= Len(old)  PROVE Ids(new, a) = Ids(old, a)
    <3>1. a <= Len(new) /\ \A k \in 1 .. a : old[k] = new[k] /\ old[k].prev < k
      BY <1>1, <2>2, <2>10 DEF IInv, BlocksOK
    <3> HIDE DEF old
    <3>2. Ids(old, a) = Ids(new, a)
      BY <1>1, <2>2, <2>10, <3>1, IdsPrefix
    <3> QED  BY <3>2
  <2>11. Ids(new, Len(old) + 1) = ids
    <3>1. \A k \in 1 .. Len(new) : new[k].prev < k
      BY <2>3, <2>7, <1>1 DEF BlocksOK
    <3>2. Ids(new, Len(old) + 1) = block.ids \cup Ids(new, 0)
      BY <1>1, <2>2, <2>5, <3>1, IdsStep
    <3> QED  BY <2>5, <3>2, IdsZero
  <2>12. ASSUME NEW u \in Trigram
         PROVE  /\ draft'.addr[u] <= Len(new)
                /\ IF u \in todo' THEN draft'.addr[u] = 0
                   ELSE Ids(new, draft'.addr[u]) = Ids(file[data], tail.addr[u])
    <3>1. CASE u = t
      BY <1>1, <1>2, <2>2, <2>4, <2>11, <3>1 DEF ids
    <3>2. CASE u # t
      <4>1. draft.addr[u] <= Len(old) /\ draft.addr[u] \in Nat
            /\ IF u \in todo THEN draft.addr[u] = 0
               ELSE Ids(old, draft.addr[u]) = Ids(file[data], tail.addr[u])
        BY <1>3 DEF IInv, DefragDraftOK, Target
      <4> QED  BY <1>1, <1>2, <2>2, <2>4, <2>10, <3>2, <4>1
    <3> QED  BY <3>1, <3>2
  <2>13. DefragDraftOK'
    BY <1>1, <2>3, <2>12 DEF DefragDraftOK, Target
  <2> QED  BY <1>5, <2>6, <2>7, <2>8, <2>9, <2>13 DEF IInv
<1> QED  BY <1>6, <1>7

LEMMA SyncDefragInv ==
  ASSUME IInv, SyncDefrag
  PROVE  IInv'
<1> USE DEF SyncDefrag, disk, writer, queries
<1>1. /\ mode = "up" /\ temp \in Inode /\ newTail = None
      /\ Len(file[temp]) \in Nat /\ temp # data /\ temp # handle /\ data \in Inode
  BY DEF IInv, TypeOK, ModeOK, WriterOK, NamesOK
<1>2. /\ durable'[temp] = Len(file[temp])
      /\ \A i \in Inode : i # temp => durable'[i] = durable[i]
  BY <1>1 DEF IInv, TypeOK
<1>3. TypeOK' /\ NamesOK' /\ ModeOK' /\ WriterOK' /\ BatchDraftOK' /\ QueryOK'
  BY <1>1 DEF IInv, TypeOK, NamesOK, ModeOK, WriterOK, BatchDraftOK, QueryOK, WriterSteps
<1>4. BlocksOK'
  BY <1>1, <1>2 DEF IInv, BlocksOK
<1>5. PairOK'
  BY <1>1, <1>2 DEF IInv, ModeOK, PairOK, Fits, Populated
<1>6. DefragDraftOK'
  BY <1>1, <1>2 DEF IInv, DefragDraftOK, Target, Fits
<1> QED  BY <1>3, <1>4, <1>5, <1>6 DEF IInv

LEMMA PrepareDataInv ==
  ASSUME IInv, PrepareData
  PROVE  IInv'
<1> USE DEF PrepareData, disk, writer, queries
<1>1. TypeOK' /\ BlocksOK' /\ QueryOK' /\ BatchDraftOK'
  BY DEF IInv, TypeOK, BlocksOK, QueryOK, BatchDraftOK, WriterSteps
<1>2. NamesOK' /\ ModeOK' /\ WriterOK'
  BY DEF IInv, NamesOK, ModeOK, WriterOK
<1>3. PairOK'
  BY DEF IInv, ModeOK, WriterOK, PairOK, Fits, Populated
<1>4. DefragDraftOK'
  BY DEF IInv, WriterOK, DefragDraftOK, Target, Fits
<1> QED  BY <1>1, <1>2, <1>3, <1>4 DEF IInv

LEMMA PrepareTailInv ==
  ASSUME IInv, PrepareTail
  PROVE  IInv'
<1> USE DEF PrepareTail, disk, writer, queries
<1>1. /\ mode = "up" /\ data \in Inode /\ newData \in Inode /\ todo = {} /\ newTail = None
      /\ tail \in Table /\ draft \in Table /\ Populated(tail) /\ Fits(tail, data)
  BY DEF IInv, TypeOK, ModeOK, WriterOK, PairOK
<1>a. /\ file[data] \in Seq(Block) /\ Len(file[data]) \in Nat
      /\ durable[data] \in Nat /\ durable[data] <= Len(file[data])
      /\ \A k \in 1 .. Len(file[data]) : file[data][k].prev < k /\ file[data][k].ids # {}
  <2>1. file[data] \in Seq(Block) /\ durable[data] \in Nat
    BY <1>1 DEF IInv, TypeOK
  <2> QED  BY <1>1, <2>1 DEF IInv, BlocksOK
<1>2. \A t \in Trigram : Ids(file[newData], draft.addr[t]) = Ids(file[data], tail.addr[t])
  BY <1>1 DEF IInv, DefragDraftOK, Target
<1>3. Populated(draft)
  <2>1. PICK t \in Trigram : tail.addr[t] # 0
    BY <1>1 DEF Populated
  <2>2. tail.addr[t] \in 1 .. Len(file[data])
    BY <1>1, <1>a, <2>1 DEF Table, Fits
  <2>3. Ids(file[data], tail.addr[t]) # {}
    <3> DEFINE old == file[data]
               a == tail.addr[t]
    <3>1. /\ old \in Seq(Block) /\ a \in 1 .. Len(old)
          /\ \A k \in 1 .. Len(old) : old[k].prev < k /\ old[k].ids # {}
      BY <1>1, <1>a, <2>2
    <3> HIDE DEF old, a
    <3>2. Ids(old, a) = old[a].ids \cup Ids(old, old[a].prev)
      BY <3>1, IdsStep
    <3>3. old[a].ids # {}
      BY <3>1
    <3>4. Ids(old, a) # {}
      BY <3>2, <3>3
    <3> QED  BY <3>4 DEF old, a
  <2> QED  BY <1>2, <2>3, IdsZero DEF Populated
<1>4. TypeOK' /\ BlocksOK' /\ QueryOK' /\ BatchDraftOK' /\ DefragDraftOK'
  BY <1>1, Constants DEF IInv, TypeOK, BlocksOK, QueryOK, BatchDraftOK, DefragDraftOK, WriterSteps
<1>5. NamesOK' /\ ModeOK' /\ WriterOK'
  BY <1>1, NoneAssumption DEF IInv, NamesOK, ModeOK, WriterOK
<1>6. PairOK'
  BY <1>1, <1>2, <1>3, NoneAssumption DEF IInv, PairOK, DefragDraftOK, Target, Content, Fits, Populated
<1> QED  BY <1>4, <1>5, <1>6 DEF IInv

LEMMA DefragInstallDataInv ==
  ASSUME IInv, DefragInstallData
  PROVE  IInv'
<1> USE DEF DefragInstallData, MoveData, disk, writer, queries
<1>1. TypeOK' /\ BlocksOK' /\ QueryOK'
  BY DEF IInv, TypeOK, BlocksOK, QueryOK, WriterSteps
<1>2. NamesOK' /\ ModeOK' /\ WriterOK'
  BY DEF IInv, TypeOK, NamesOK, ModeOK, WriterOK
<1>3. PairOK'
  BY DEF IInv, WriterOK, PairOK, Fits, Populated
<1>4. BatchDraftOK' /\ DefragDraftOK'
  BY DEF IInv, BatchDraftOK, DefragDraftOK
<1> QED  BY <1>1, <1>2, <1>3, <1>4 DEF IInv

LEMMA DefragInstallTailInv ==
  ASSUME IInv, DefragInstallTail
  PROVE  IInv'
<1> USE DEF DefragInstallTail, MoveTail, disk, writer, queries
<1>1. TypeOK' /\ BlocksOK' /\ QueryOK'
  BY DEF IInv, TypeOK, BlocksOK, QueryOK, WriterSteps
<1>2. NamesOK' /\ ModeOK' /\ WriterOK'
  BY DEF IInv, TypeOK, NamesOK, ModeOK, WriterOK
<1>3. PairOK'
  BY DEF IInv, WriterOK, PairOK, Fits, Populated
<1>4. BatchDraftOK' /\ DefragDraftOK'
  BY DEF IInv, BatchDraftOK, DefragDraftOK
<1> QED  BY <1>1, <1>2, <1>3, <1>4 DEF IInv

LEMMA ReopenInv ==
  ASSUME IInv, Reopen
  PROVE  IInv'
<1> USE DEF Reopen, disk, writer, queries
<1>1. TypeOK' /\ BlocksOK' /\ QueryOK' /\ PairOK'
  BY DEF IInv, TypeOK, BlocksOK, QueryOK, PairOK, WriterSteps, Fits, Populated
<1>2. NamesOK' /\ ModeOK' /\ WriterOK'
  BY DEF IInv, TypeOK, NamesOK, ModeOK, WriterOK
<1>3. BatchDraftOK' /\ DefragDraftOK'
  BY DEF BatchDraftOK, DefragDraftOK
<1> QED  BY <1>1, <1>2, <1>3 DEF IInv

LEMMA FailStepInv ==
  ASSUME IInv, FailStep, ReopenSucceeds
  PROVE  IInv'
<1> USE DEF FailStep, disk, writer, queries
<1>1. wpc \in {"append", "publish", "copy", "prepareData", "prepareTail"}
  BY FaultAssumption DEF FaultSites, ReopenSucceeds
<1>2. TypeOK' /\ BlocksOK' /\ QueryOK' /\ PairOK'
  BY Constants DEF IInv, TypeOK, BlocksOK, QueryOK, PairOK, WriterSteps, Fits, Populated
<1>3. NamesOK' /\ ModeOK' /\ WriterOK'
  BY <1>1 DEF IInv, TypeOK, NamesOK, ModeOK, WriterOK
<1>4. BatchDraftOK' /\ DefragDraftOK'
  BY DEF BatchDraftOK, DefragDraftOK
<1> QED  BY <1>2, <1>3, <1>4 DEF IInv

----------------------------------------------------------------------------
(* Queries, stopping, deleting, crashing *)

LEMMA QueryOpenInv ==
  ASSUME IInv, NEW q \in Query, QueryOpen(q)
  PROVE  IInv'
<1> USE DEF QueryOpen, disk, writer, queries
<1>1. /\ tail \in Table /\ data \in Inode /\ data # newData /\ data # temp
      /\ newTail = None => Fits(tail, data)
      /\ newTail # None => newData # None /\ Fits(tail, data)
      /\ durable[data] \in Nat /\ Len(file[data]) \in Nat /\ durable[data] <= Len(file[data])
  BY NoneAssumption DEF IInv, TypeOK, ModeOK, WriterOK, PairOK, BlocksOK, NamesOK
<1>2. /\ tail.addr \in [Trigram -> Nat]
      /\ \A t \in Trigram : tail.addr[t] <= Len(file[data])
  BY <1>1 DEF Table, Fits
<1>3. TypeOK'
  BY <1>1, <1>2, Constants DEF IInv, TypeOK
<1>4. BlocksOK' /\ ModeOK' /\ WriterOK' /\ PairOK' /\ BatchDraftOK' /\ DefragDraftOK'
  BY DEF IInv, BlocksOK, ModeOK, WriterOK, PairOK, BatchDraftOK, DefragDraftOK,
         Fits, Populated, Target, Content
<1>5. NamesOK'
  BY <1>1 DEF IInv, TypeOK, NamesOK
<1>6. QueryOK'
  BY <1>1, <1>2 DEF IInv, TypeOK, QueryOK
<1> QED  BY <1>3, <1>4, <1>5, <1>6 DEF IInv

\* The block a query reads is in its file, and below it is the rest of the chain.
LEMMA BlockRead ==
  ASSUME IInv, NEW q \in Query, NEW t \in Trigram, qfile[q] # None, qaddr[q][t] # 0
  PROVE  /\ qfile[q] \in Inode /\ file[qfile[q]] \in Seq(Block)
         /\ qaddr[q][t] \in 1 .. Len(file[qfile[q]])
         /\ \A k \in 1 .. Len(file[qfile[q]]) : file[qfile[q]][k].prev < k
         /\ file[qfile[q]][qaddr[q][t]].prev \in Nat
         /\ file[qfile[q]][qaddr[q][t]].ids \in SUBSET Id
<1>1. qfile[q] \in Inode /\ file[qfile[q]] \in Seq(Block) /\ qaddr[q][t] \in Nat
  BY DEF IInv, TypeOK
<1>2. qaddr[q][t] \in 1 .. Len(file[qfile[q]])
  BY <1>1 DEF IInv, QueryOK
<1>3. file[qfile[q]][qaddr[q][t]] \in Block
  BY <1>1, <1>2
<1> QED  BY <1>1, <1>2, <1>3 DEF IInv, BlocksOK, Block

LEMMA ReadBlockInv ==
  ASSUME IInv, NEW q \in Query, NEW t \in Trigram, ReadBlock(q, t)
  PROVE  IInv'
<1> USE DEF ReadBlock, disk, writer, queries
<1> DEFINE block == file[qfile[q]][qaddr[q][t]]
<1>1. /\ block.prev \in Nat /\ block.ids \in SUBSET Id
      /\ block.prev < qaddr[q][t] /\ qaddr[q][t] \in Nat
      /\ qaddr[q][t] <= Len(file[qfile[q]]) /\ Len(file[qfile[q]]) \in Nat
  BY BlockRead
<1>2. /\ qseen' = [qseen EXCEPT ![q] = [qseen[q] EXCEPT ![t] = qseen[q][t] \cup block.ids]]
      /\ qaddr' = [qaddr EXCEPT ![q] = [qaddr[q] EXCEPT ![t] = block.prev]]
  BY DEF IInv, TypeOK
<1> HIDE DEF block
<1>3. TypeOK'
  <2>1. [qseen[q] EXCEPT ![t] = qseen[q][t] \cup block.ids] \in [Trigram -> SUBSET Id]
    BY <1>1 DEF IInv, TypeOK
  <2>2. [qaddr[q] EXCEPT ![t] = block.prev] \in [Trigram -> Nat]
    BY <1>1 DEF IInv, TypeOK
  <2> QED  BY <1>2, <2>1, <2>2 DEF IInv, TypeOK
<1>4. BlocksOK' /\ NamesOK' /\ ModeOK' /\ WriterOK' /\ PairOK' /\ BatchDraftOK' /\ DefragDraftOK'
  BY DEF IInv, BlocksOK, NamesOK, ModeOK, WriterOK, PairOK, BatchDraftOK, DefragDraftOK,
         Fits, Populated, Target, Content
<1>5. QueryOK'
  <2>1. ASSUME NEW u \in Trigram  PROVE qaddr'[q][u] <= Len(file[qfile[q]])
    BY <1>1, <1>2 DEF IInv, TypeOK, QueryOK
  <2>2. ASSUME NEW r \in Query, r # q  PROVE qaddr'[r] = qaddr[r]
    BY <1>2, <2>2 DEF IInv, TypeOK
  <2> QED  BY <2>1, <2>2 DEF IInv, QueryOK
<1> QED  BY <1>3, <1>4, <1>5 DEF IInv

LEMMA QueryFinishInv ==
  ASSUME IInv, NEW q \in Query, QueryFinish(q)
  PROVE  IInv'
<1> USE DEF QueryFinish, disk, writer, queries
<1>1. TypeOK' /\ NamesOK' /\ QueryOK'
  BY Constants DEF IInv, TypeOK, NamesOK, QueryOK
<1>2. BlocksOK' /\ ModeOK' /\ WriterOK' /\ PairOK' /\ BatchDraftOK' /\ DefragDraftOK'
  BY DEF IInv, BlocksOK, ModeOK, WriterOK, PairOK, BatchDraftOK, DefragDraftOK,
         Fits, Populated, Target, Content
<1> QED  BY <1>1, <1>2 DEF IInv

LEMMA StopInv ==
  ASSUME IInv, Stop
  PROVE  IInv'
<1> USE DEF Stop, disk, writer, queries
<1>1. TypeOK' /\ BlocksOK' /\ NamesOK' /\ QueryOK'
  BY DEF IInv, TypeOK, BlocksOK, NamesOK, QueryOK
<1>2. ModeOK' /\ WriterOK' /\ PairOK' /\ BatchDraftOK' /\ DefragDraftOK'
  BY DEF IInv, ModeOK, WriterOK, PairOK, BatchDraftOK, DefragDraftOK,
         Fits, Populated, Target, Content
<1> QED  BY <1>1, <1>2 DEF IInv

LEMMA DeleteTailInv ==
  ASSUME IInv, DeleteTail
  PROVE  IInv'
<1> USE DEF DeleteTail, disk, writer, queries
<1>1. TypeOK' /\ BlocksOK' /\ QueryOK'
  BY DEF IInv, TypeOK, BlocksOK, QueryOK, Modes
<1>2. NamesOK' /\ ModeOK' /\ WriterOK'
  BY DEF IInv, NamesOK, ModeOK, WriterOK
<1>3. PairOK' /\ BatchDraftOK' /\ DefragDraftOK'
  BY DEF IInv, WriterOK, PairOK, BatchDraftOK, DefragDraftOK
<1> QED  BY <1>1, <1>2, <1>3 DEF IInv

LEMMA DeleteDataInv ==
  ASSUME IInv, DeleteData
  PROVE  IInv'
<1> USE DEF DeleteData, disk, writer, queries
<1>1. TypeOK' /\ BlocksOK' /\ QueryOK'
  BY DEF IInv, TypeOK, BlocksOK, QueryOK, Modes
<1>2. tail = None /\ newTail = None
  BY DEF IInv, ModeOK
<1>3. NamesOK' /\ ModeOK' /\ WriterOK'
  BY <1>2 DEF IInv, NamesOK, ModeOK, WriterOK
<1>4. PairOK' /\ BatchDraftOK' /\ DefragDraftOK'
  BY <1>2 DEF IInv, ModeOK, PairOK, BatchDraftOK, DefragDraftOK
<1> QED  BY <1>1, <1>3, <1>4 DEF IInv

\* A file as a crash leaves it is a prefix of it, and nothing durable is lost.
LEMMA CrashPrefix ==
  ASSUME TypeOK, BlocksOK, Crash, NEW i \in Inode
  PROVE  /\ durable'[i] \in Nat /\ file'[i] \in Seq(Block) /\ Len(file'[i]) = durable'[i]
         /\ durable'[i] <= Len(file[i])
         /\ i \in {data, newData} => durable[i] <= durable'[i]
         /\ \A k \in 1 .. durable'[i] : file'[i][k] = file[i][k]
<1>1. PICK n \in Surviving(data), m \in Surviving(newData) :
        durable' = [j \in Inode |-> IF j = data THEN n ELSE IF j = newData THEN m ELSE 0]
  BY DEF Crash
<1>2. /\ file[i] \in Seq(Block) /\ durable[i] \in Nat /\ durable[i] <= Len(file[i])
      /\ Len(file[i]) \in Nat
  BY DEF TypeOK, BlocksOK
<1>3. /\ i = data => n \in durable[i] .. Len(file[i])
      /\ i = newData => m \in durable[i] .. Len(file[i])
  BY NoneAssumption DEF Surviving
<1>4. /\ durable'[i] \in 0 .. Len(file[i])
      /\ i \in {data, newData} => durable[i] <= durable'[i]
  BY <1>1, <1>2, <1>3
<1>5. file'[i] = SubSeq(file[i], 1, durable'[i])
  BY DEF Crash
<1> QED  BY <1>2, <1>4, <1>5

\* What a named file says at durable addresses survives a crash.
LEMMA CrashKeepsIds ==
  ASSUME TypeOK, BlocksOK, Crash, NEW i \in {data, newData}, i # None,
         NEW a \in Nat, a <= durable[i]
  PROVE  Ids(file'[i], a) = Ids(file[i], a)
<1> DEFINE old == file[i]
           new == file'[i]
<1>1. i \in Inode
  BY DEF TypeOK
<1>2. /\ old \in Seq(Block) /\ durable[i] \in Nat
      /\ \A k \in 1 .. Len(old) : old[k].prev < k
  BY <1>1 DEF TypeOK, BlocksOK
<1>3. /\ durable'[i] \in Nat /\ new \in Seq(Block) /\ Len(new) = durable'[i]
      /\ durable'[i] <= Len(old) /\ durable[i] <= durable'[i]
      /\ \A k \in 1 .. durable'[i] : new[k] = old[k]
  BY <1>1, CrashPrefix
<1>4. /\ Len(old) \in Nat /\ a <= Len(old) /\ a <= Len(new)
      /\ \A k \in 1 .. a : old[k] = new[k] /\ old[k].prev < k
  BY <1>2, <1>3
<1> HIDE DEF old, new
<1>5. Ids(old, a) = Ids(new, a)
  BY <1>2, <1>3, <1>4, IdsPrefix
<1> QED  BY <1>5 DEF old, new

LEMMA CrashInv ==
  ASSUME IInv, Crash
  PROVE  IInv'
<1>1. /\ mode' = "down" /\ running' = FALSE /\ handle' = None
      /\ wpc' = "idle" /\ batch' = NoBatch /\ todo' = {} /\ draft' = EmptyTable /\ temp' = None
      /\ qfile' = [q \in Query |-> None]
      /\ qaddr' = [q \in Query |-> EmptyTable.addr]
      /\ qseen' = [q \in Query |-> NoBatch]
      /\ UNCHANGED <<data, tail, newData, newTail>>
  BY DEF Crash
<1>2. /\ file' = [i \in Inode |-> SubSeq(file[i], 1, durable'[i])]
      /\ \E f : durable' = [i \in Inode |-> f[i]]
  <2>1. PICK n \in Surviving(data), m \in Surviving(newData) :
          durable' = [j \in Inode |-> IF j = data THEN n ELSE IF j = newData THEN m ELSE 0]
    BY DEF Crash
  <2>2. durable' = [i \in Inode |-> durable'[i]]
    BY <2>1
  <2> QED  BY <2>2 DEF Crash
<1>3. TypeOK'
  <2>1. file' \in [Inode -> Seq(Block)] /\ durable' \in [Inode -> Nat]
    BY <1>2, CrashPrefix DEF IInv
  <2>2. EmptyTable.addr \in [Trigram -> Nat]
    BY Constants DEF Table
  <2> QED  BY <1>1, <2>1, <2>2, Constants DEF IInv, TypeOK, Modes, WriterSteps
<1>4. BlocksOK'
  <2> SUFFICES ASSUME NEW i \in Inode
               PROVE  /\ durable'[i] <= Len(file'[i])
                      /\ \A k \in 1 .. Len(file'[i]) :
                            file'[i][k].prev < k /\ file'[i][k].ids # {}
    BY DEF BlocksOK
  <2>1. Len(file[i]) \in Nat
    BY DEF IInv, TypeOK
  <2> QED  BY <2>1, CrashPrefix DEF IInv, BlocksOK
<1>5. NamesOK' /\ ModeOK' /\ WriterOK'
  BY <1>1 DEF IInv, NamesOK, ModeOK, WriterOK
<1>6. PairOK'
  <2>1. ASSUME NEW table \in Table, NEW i \in {data, newData}, i # None, Fits(table, i)
        PROVE  /\ Fits(table, i)'
               /\ Content(file'[i], table) = Content(file[i], table)
    <3>1. i \in Inode /\ durable[i] \in Nat
      BY <2>1 DEF IInv, TypeOK
    <3>2. durable'[i] \in Nat /\ durable[i] <= durable'[i]
      BY <2>1, <3>1, CrashPrefix DEF IInv
    <3>3. ASSUME NEW t \in Trigram
          PROVE  /\ table.addr[t] \in Nat /\ table.addr[t] <= durable[i]
                 /\ table.addr[t] <= durable'[i]
      BY <2>1, <3>1, <3>2 DEF Fits, Table
    <3>4. ASSUME NEW t \in Trigram
          PROVE  Ids(file'[i], table.addr[t]) = Ids(file[i], table.addr[t])
      BY <2>1, <3>3, CrashKeepsIds DEF IInv
    <3> QED  BY <3>3, <3>4 DEF Fits, Content
  <2>2. CASE newTail = None
    BY <1>1, <2>1, <2>2 DEF IInv, TypeOK, ModeOK, PairOK, Populated
  <2>3. CASE newTail # None
    <3>1. newTail \in Table /\ (tail # None => tail \in Table) /\ data # None
      BY <2>3 DEF IInv, TypeOK, ModeOK
    <3>2. CASE newData = None
      BY <1>1, <2>1, <2>3, <3>1, <3>2 DEF IInv, PairOK, Populated
    <3>3. CASE newData # None
      BY <1>1, <2>1, <2>3, <3>1, <3>3 DEF IInv, PairOK, Populated
    <3> QED  BY <3>2, <3>3
  <2> QED  BY <2>2, <2>3
<1>7. BatchDraftOK' /\ DefragDraftOK' /\ QueryOK'
  BY <1>1 DEF BatchDraftOK, DefragDraftOK, QueryOK
<1> QED  BY <1>3, <1>4, <1>5, <1>6, <1>7 DEF IInv

----------------------------------------------------------------------------
(* The invariant *)

LEMMA StepInv ==
  ASSUME BatchesHaveTrigrams, ReopenSucceeds, IInv, [Next]_vars
  PROVE  IInv'
<1>1. CASE Open
  BY <1>1, OpenStartInv, ClearTailInv, RemoveDataInv, CreateDataInv, CreateTailInv,
     InstallDataInv, InstallTailInv, InitReadyInv, TrimInv DEF Open
<1>2. CASE WriteBatch
  BY <1>2, StartBatchInv, AppendBlockInv, SyncBatchInv, PublishTailInv DEF WriteBatch
<1>3. CASE Defrag
  BY <1>3, StartDefragInv, CopyTrigramInv, SyncDefragInv, PrepareDataInv, PrepareTailInv,
     DefragInstallDataInv, DefragInstallTailInv, ReopenInv DEF Defrag
<1>4. CASE \E q \in Query : RunQuery(q)
  BY <1>4, QueryOpenInv, ReadBlockInv, QueryFinishInv DEF RunQuery
<1>5. CASE UNCHANGED vars
  <2> USE <1>5 DEF vars, disk, writer, queries, IInv
  <2>1. TypeOK' /\ BlocksOK' /\ NamesOK' /\ ModeOK'
    <3>1. TypeOK'
      BY DEF TypeOK
    <3>2. BlocksOK'
      BY DEF BlocksOK
    <3>3. NamesOK'
      BY DEF NamesOK
    <3>4. ModeOK'
      BY DEF ModeOK
    <3> QED  BY <3>1, <3>2, <3>3, <3>4
  <2>2. WriterOK' /\ QueryOK'
    BY DEF WriterOK, Populated, QueryOK
  <2>3. PairOK'
    BY DEF PairOK, Fits, Populated, Content
  <2>4. BatchDraftOK'
    BY DEF BatchDraftOK, Fits
  <2>5. DefragDraftOK'
    BY DEF DefragDraftOK, Fits, Target
  <2> QED  BY <2>1, <2>2, <2>3, <2>4, <2>5
<1> QED
  BY <1>1, <1>2, <1>3, <1>4, <1>5, FailStepInv, StopInv, DeleteTailInv, DeleteDataInv, CrashInv
     DEF Next

LEMMA Invariance ==
  ASSUME BatchesHaveTrigrams, ReopenSucceeds
  PROVE  Spec => []IInv
  BY InitInv, StepInv, PTL DEF Spec

\* Every variable holds a value of its kind; in particular a query never follows
\* an address outside of the file it opened.
THEOREM TypeCorrect ==
  ASSUME BatchesHaveTrigrams, ReopenSucceeds
  PROVE  Spec => []TypeOK
<1>1. IInv => TypeOK
  BY DEF IInv
<1> QED  BY <1>1, Invariance, PTL

\* A table in place, or about to be, refers to durable blocks only.
THEOREM TablesDurable ==
  ASSUME BatchesHaveTrigrams, ReopenSucceeds
  PROVE  Spec => []TablesAreDurable
<1>1. IInv => TablesAreDurable
  BY DEF IInv, ModeOK, PairOK, Fits, TablesAreDurable
<1> QED  BY <1>1, Invariance, PTL

\* What open() installs says what it replaces.
THEOREM InstallSafe ==
  ASSUME BatchesHaveTrigrams, ReopenSucceeds
  PROVE  Spec => []InstallFinishesADefrag
<1>1. IInv => InstallFinishesADefrag
  BY DEF IInv, PairOK, InstallFinishesADefrag
<1> QED  BY <1>1, Invariance, PTL

----------------------------------------------------------------------------
(* Refinement of JournalIndex: what the steps do to the recovered index *)

LEMMA EmptyContent ==
  ASSUME NEW blocks
  PROVE  Content(blocks, EmptyTable) = NoBatch
  BY IdsZero, Constants DEF Content, NoBatch

LEMMA NothingInEmptyFile ==
  ASSUME NEW table
  PROVE  Content(<<>>, table) = NoBatch
<1>1. \A a : (1 .. a) \cap (1 .. Len(<<>>)) = {}
  OBVIOUS
<1>2. \A a : Ids(<<>>, a) = {}
  BY <1>1 DEF Ids, ChainOf
<1> QED  BY <1>2 DEF Content, NoBatch

LEMMA SameDisk ==
  ASSUME UNCHANGED <<file, data, tail, newData, newTail>>
  PROVE  Recovered' = Recovered
  BY DEF Recovered, BlocksOf, Content

\* A running query answers the same as long as its file is not touched.
LEMMA SameReplies ==
  ASSUME UNCHANGED queries,
         \A q \in Query : qfile[q] # None => file'[qfile[q]] = file[qfile[q]]
  PROVE  \A q \in Query : Reply(q)' = Reply(q)
  BY DEF Reply, queries

\* With a pair in place and no hidden table, the index is what the pair says.
LEMMA VisiblePair ==
  ASSUME newTail = None, tail # None, data # None
  PROVE  Recovered = Content(file[data], tail)
  BY DEF Recovered, BlocksOf

\* The steps of open() do not change the index.
LEMMA OpenRefines ==
  ASSUME IInv, IInv', Open
  PROVE  Recovered' = Recovered
<1>1. CASE OpenStart
  BY <1>1, SameDisk DEF OpenStart, disk
<1>2. CASE ClearTail
  <2>1. newTail = None /\ tail' = None /\ newTail' = None /\ data # None /\ file[data] = <<>>
    BY <1>2 DEF ClearTail, IInv, ModeOK
  <2>2. tail # None => Recovered = NoBatch
    BY <2>1, VisiblePair, NothingInEmptyFile
  <2> QED  BY <2>1, <2>2 DEF Recovered
<1>3. CASE RemoveData
  BY <1>3 DEF RemoveData, IInv, ModeOK, Recovered
<1>4. CASE CreateData
  BY <1>4 DEF CreateData, IInv, ModeOK, Recovered
<1>5. CASE CreateTail
  <2>1. /\ tail = None /\ newTail = None /\ newTail' = None /\ data' # None
        /\ tail' = EmptyTable /\ tail' # None
    BY <1>5, Constants DEF CreateTail, IInv, ModeOK
  <2>2. Recovered' = Content(file'[data'], tail')
    BY <2>1 DEF Recovered, BlocksOf, Content
  <2> QED  BY <2>1, <2>2, EmptyContent DEF Recovered
<1>6. CASE InstallData
  BY <1>6 DEF InstallData, MoveData, Recovered, BlocksOf, Content
<1>7. CASE InstallTail
  BY <1>7 DEF InstallTail, MoveTail, IInv, ModeOK, Recovered, BlocksOf, Content
<1>8. CASE InitReady
  <2>1. newTail = None /\ newTail' = None /\ data # None /\ UNCHANGED <<file, data>>
    BY <1>8 DEF InitReady, IInv, ModeOK
  <2>2. CASE tail = None
    <3>1. Recovered' = Content(file'[data'], EmptyTable)
      BY <1>8, <2>1, <2>2, Constants DEF InitReady, Recovered, BlocksOf, Content
    <3> QED  BY <2>1, <2>2, <3>1, EmptyContent DEF Recovered
  <2>3. CASE tail # None
    BY <1>8, <2>3, SameDisk DEF InitReady
  <2> QED  BY <2>2, <2>3
<1>9. CASE Trim
  <2>1. /\ newTail = None /\ tail \in Table /\ tail # None /\ data \in Inode /\ data # None
        /\ UNCHANGED <<data, tail, newTail>> /\ file[data] \in Seq(Block)
        /\ file'[data] \in Seq(Block)
    BY <1>9 DEF Trim, IInv, TypeOK, ModeOK
  <2>2. PICK n \in 0 .. Len(file[data]) :
          /\ \A t \in Trigram : tail.addr[t] <= n
          /\ IF n > 0 THEN file' = [file EXCEPT ![data] = SubSeq(@, 1, n)]
             ELSE UNCHANGED file
    BY <1>9 DEF Trim
  <2>3. CASE n = 0
    BY <1>9, <2>2, <2>3, SameDisk DEF Trim
  <2>4. CASE n > 0
    <3> DEFINE old == file[data]
               new == file'[data]
    <3>1. new = SubSeq(old, 1, n)
      BY <2>1, <2>2, <2>4 DEF IInv, TypeOK
    <3>2. Len(old) \in Nat /\ \A k \in 1 .. Len(old) : old[k].prev < k
      BY <2>1 DEF IInv, BlocksOK
    <3>3. Len(new) = n /\ \A k \in 1 .. n : old[k] = new[k]
      BY <2>1, <3>1, <3>2
    <3>4. ASSUME NEW t \in Trigram
          PROVE  Ids(old, tail.addr[t]) = Ids(new, tail.addr[t])
      <4> DEFINE a == tail.addr[t]
      <4>1. a \in Nat /\ a <= n
        BY <2>1, <2>2 DEF Table
      <4>2. a <= Len(old) /\ a <= Len(new) /\ \A k \in 1 .. a : old[k] = new[k] /\ old[k].prev < k
        BY <3>2, <3>3, <4>1
      <4> HIDE DEF a, old, new
      <4>3. old \in Seq(Block) /\ new \in Seq(Block)
        BY <2>1 DEF old, new
      <4>4. Ids(old, a) = Ids(new, a)
        BY <4>1, <4>2, <4>3, IdsPrefix
      <4> QED  BY <4>4 DEF a
    <3> QED  BY <2>1, <3>4 DEF Recovered, BlocksOf, Content
  <2> QED  BY <2>3, <2>4
<1> QED
  BY <1>1, <1>2, <1>3, <1>4, <1>5, <1>6, <1>7, <1>8, <1>9 DEF Open

\* With no pair half-installed, the pair in place is what a restart finds.
LEMMA UpContent ==
  ASSUME IInv, mode = "up", wpc \notin {"installData", "installTail"}
  PROVE  /\ newTail = None /\ tail \in Table /\ tail # None /\ data \in Inode /\ data # None
         /\ Fits(tail, data) /\ Recovered = Content(file[data], tail)
<1>1. newTail = None /\ tail # None /\ data # None
  BY DEF IInv, ModeOK, WriterOK
<1>2. tail \in Table /\ data \in Inode /\ Fits(tail, data)
  BY <1>1 DEF IInv, TypeOK, PairOK
<1> QED  BY <1>1, <1>2, VisiblePair

\* A state change that shows neither in the index nor in a reply is a stutter.
LEMMA Invisible ==
  ASSUME Recovered' = Recovered, \A q \in Query : Reply(q)' = Reply(q)
  PROVE  UNCHANGED Index!vars
  BY DEF Index!vars

LEMMA AppendKeepsIds ==
  ASSUME IInv, NEW i \in Inode, NEW block \in Block, NEW a \in Nat, a <= Len(file[i])
  PROVE  Ids(Append(file[i], block), a) = Ids(file[i], a)
<1> DEFINE old == file[i]
           new == Append(old, block)
<1>1. /\ old \in Seq(Block) /\ Len(old) \in Nat
      /\ \A k \in 1 .. Len(old) : old[k].prev < k
  BY DEF IInv, TypeOK, BlocksOK
<1>2. /\ new \in Seq(Block) /\ Len(new) = Len(old) + 1
      /\ \A k \in 1 .. Len(old) : new[k] = old[k]
  BY <1>1
<1>3. a <= Len(old) /\ a <= Len(new) /\ \A k \in 1 .. a : old[k] = new[k] /\ old[k].prev < k
  BY <1>1, <1>2
<1> HIDE DEF old, new
<1>4. Ids(old, a) = Ids(new, a)
  BY <1>1, <1>2, <1>3, IdsPrefix
<1> QED  BY <1>4 DEF old, new

LEMMA OpenInvisible ==
  ASSUME IInv, IInv', Open
  PROVE  UNCHANGED Index!vars
<1>1. UNCHANGED queries
  BY DEF Open, OpenStart, ClearTail, RemoveData, CreateData, CreateTail, InstallData,
         InstallTail, InitReady, Trim, queries
<1>2. ASSUME NEW q \in Query, qfile[q] # None  PROVE file'[qfile[q]] = file[qfile[q]]
  <2>1. CASE UNCHANGED file
    BY <2>1
  <2>2. CASE CreateData
    BY <1>2, <2>2 DEF CreateData, Create, Free, IInv, TypeOK
  <2>3. CASE Trim
    <3>1. qfile[q] # data /\ qfile[q] \in Inode
      BY <1>2, <2>3 DEF Trim, IInv, NamesOK, TypeOK
    <3> QED  BY <2>3, <3>1 DEF Trim, IInv, TypeOK
  <2>4. \/ UNCHANGED file \/ CreateData \/ Trim
    BY DEF Open, OpenStart, ClearTail, RemoveData, CreateTail, InstallData,
           InstallTail, InitReady, disk
  <2> QED  BY <2>1, <2>2, <2>3, <2>4
<1> QED  BY <1>1, <1>2, SameReplies, OpenRefines, Invisible

LEMMA WriteBatchRefines ==
  ASSUME IInv, WriteBatch
  PROVE  [Index!Next]_(Index!vars)
<1>1. ASSUME NEW b \in Batches, StartBatch(b)  PROVE UNCHANGED Index!vars
  BY <1>1, SameDisk, SameReplies, Invisible DEF StartBatch, disk
<1>2. CASE AppendBlock
  <2>1. /\ mode = "up" /\ handle = data /\ wpc = "append"
    BY <1>2 DEF AppendBlock, IInv, ModeOK
  <2>2. /\ newTail = None /\ tail \in Table /\ tail # None /\ data \in Inode /\ data # None
        /\ Fits(tail, data) /\ Recovered = Content(file[data], tail)
    BY <2>1, UpContent
  <2>3. durable[data] \in Nat /\ file[data] \in Seq(Block) /\ durable[data] <= Len(file[data])
        /\ batch \in [Trigram -> SUBSET Id]
    BY <2>2 DEF IInv, TypeOK, BlocksOK
  <2>4. PICK block \in Block : file' = [file EXCEPT ![data] = Append(file[data], block)]
    <3>1. PICK t \in Trigram :
            file' = [file EXCEPT ![data] =
                       Append(file[data], [prev |-> tail.addr[t], ids |-> batch[t]])]
      BY <1>2, <2>1 DEF AppendBlock
    <3>2. [prev |-> tail.addr[t], ids |-> batch[t]] \in Block
      BY <2>2, <2>3 DEF Block, Table
    <3> QED  BY <3>1, <3>2
  <2>5. file'[data] = Append(file[data], block)
        /\ \A i \in Inode : i # data => file'[i] = file[i]
    BY <2>2, <2>4 DEF IInv, TypeOK
  <2>6. ASSUME NEW t \in Trigram
        PROVE  Ids(file'[data], tail.addr[t]) = Ids(file[data], tail.addr[t])
    <3>1. tail.addr[t] \in Nat /\ tail.addr[t] <= Len(file[data])
      BY <2>2, <2>3 DEF Table, Fits
    <3> QED  BY <2>2, <2>5, <3>1, AppendKeepsIds
  <2>7. Recovered' = Recovered
    BY <1>2, <2>2, <2>6 DEF AppendBlock, Recovered, BlocksOf, Content
  <2>8. ASSUME NEW q \in Query  PROVE Reply(q)' = Reply(q)
    <3>1. UNCHANGED queries
      BY <1>2 DEF AppendBlock
    <3>2. CASE qfile[q] = None
      BY <3>1, <3>2 DEF Reply, queries
    <3>3. CASE qfile[q] # None
      <4>1. qfile[q] \in Inode
            /\ \A t \in Trigram : qaddr[q][t] \in Nat /\ qaddr[q][t] <= Len(file[qfile[q]])
        BY <3>3 DEF IInv, TypeOK, QueryOK
      <4>2. ASSUME NEW t \in Trigram
            PROVE  Ids(file'[qfile[q]], qaddr[q][t]) = Ids(file[qfile[q]], qaddr[q][t])
        <5>1. CASE qfile[q] = data
          BY <2>5, <4>1, <5>1, AppendKeepsIds
        <5>2. CASE qfile[q] # data
          BY <2>5, <4>1, <5>2
        <5> QED  BY <5>1, <5>2
      <4> QED  BY <3>1, <3>3, <4>2 DEF Reply, queries
    <3> QED  BY <3>2, <3>3
  <2> QED  BY <2>7, <2>8, Invisible
<1>3. CASE SyncBatch
  BY <1>3, SameDisk, SameReplies, Invisible DEF SyncBatch
<1>4. CASE PublishTail
  <2>1. /\ mode = "up" /\ handle = data /\ wpc = "publish" /\ todo = {} /\ batch \in Batches
    BY <1>4 DEF PublishTail, IInv, ModeOK, WriterOK, BatchDraftOK
  <2>2. /\ newTail = None /\ tail \in Table /\ tail # None /\ data \in Inode /\ data # None
        /\ Recovered = Content(file[data], tail)
    BY <2>1, UpContent
  <2>3. /\ tail' \in Table /\ tail' # None /\ UNCHANGED <<file, data, newTail>>
        /\ \A t \in Trigram : tail'.addr[t] = draft.addr[t]
    <3>1. draft \in Table /\ tail.gen \in Nat
      BY <2>2 DEF IInv, TypeOK, Table
    <3> QED  BY <1>4, <3>1, NoneAssumption DEF PublishTail, Table
  <2>4. Recovered' = Content(file[data], tail')
    BY <2>2, <2>3 DEF Recovered, BlocksOf, Content
  <2>5. ASSUME NEW t \in Trigram
        PROVE  Ids(file[data], tail'.addr[t]) = Ids(file[data], tail.addr[t]) \cup batch[t]
    BY <2>1, <2>3 DEF IInv, BatchDraftOK
  <2>6. Recovered' = [t \in Trigram |-> Recovered[t] \cup batch[t]]
    BY <2>2, <2>4, <2>5 DEF Content
  <2>7. \A q \in Query : Reply(q)' = Reply(q)
    BY <1>4, SameReplies DEF PublishTail
  <2>8. Index!AddBatch(batch)
    BY <2>6, <2>7 DEF Index!AddBatch
  <2> QED  BY <2>1, <2>8 DEF Index!Next
<1> QED  BY <1>1, <1>2, <1>3, <1>4 DEF WriteBatch

LEMMA DefragInvisible ==
  ASSUME IInv, Defrag
  PROVE  UNCHANGED Index!vars
<1>1. CASE StartDefrag
  <2>1. /\ mode = "up" /\ wpc = "idle" /\ UNCHANGED <<data, tail, newData, newTail, queries>>
    BY <1>1 DEF StartDefrag
  <2>2. newTail = None /\ tail # None /\ data \in Inode /\ data # None
    BY <2>1, UpContent
  <2>3. PICK i \in Free : file' = [file EXCEPT ![i] = <<>>]
    BY <1>1 DEF StartDefrag, Create
  <2>4. file'[data] = file[data]
    BY <2>2, <2>3 DEF Free, IInv, TypeOK
  <2>5. ASSUME NEW q \in Query, qfile[q] # None  PROVE file'[qfile[q]] = file[qfile[q]]
    BY <2>3, <2>5 DEF Free, IInv, TypeOK
  <2>6. Recovered' = Recovered
    BY <2>1, <2>2, <2>4 DEF Recovered, BlocksOf, Content
  <2> QED  BY <2>1, <2>5, <2>6, SameReplies, Invisible
<1>2. CASE CopyTrigram
  <2>1. /\ mode = "up" /\ wpc = "copy" /\ UNCHANGED <<data, tail, newData, newTail, queries>>
    BY <1>2 DEF CopyTrigram, IInv, ModeOK
  <2>2. newTail = None /\ tail # None /\ data \in Inode /\ data # None
    BY <2>1, UpContent
  <2>3. /\ temp \in Inode /\ temp # data /\ \A q \in Query : qfile[q] # temp
    BY <2>1 DEF IInv, TypeOK, WriterOK, NamesOK
  <2>4. \A i \in Inode : i # temp => file'[i] = file[i]
    BY <1>2, <2>3 DEF CopyTrigram, IInv, TypeOK
  <2>5. \A q \in Query : qfile[q] # None => file'[qfile[q]] = file[qfile[q]]
    BY <2>3, <2>4 DEF IInv, TypeOK
  <2>6. Recovered' = Recovered
    BY <2>1, <2>2, <2>3, <2>4 DEF Recovered, BlocksOf, Content
  <2> QED  BY <2>1, <2>5, <2>6, SameReplies, Invisible
<1>3. CASE SyncDefrag
  BY <1>3, SameDisk, SameReplies, Invisible DEF SyncDefrag
<1>4. CASE PrepareData
  <2>1. newTail = None /\ UNCHANGED <<file, data, tail, newTail, queries>>
    BY <1>4 DEF PrepareData, IInv, ModeOK, WriterOK
  <2>2. Recovered' = Recovered
    BY <2>1 DEF Recovered, BlocksOf, Content
  <2> QED  BY <2>1, <2>2, SameReplies, Invisible
<1>5. CASE PrepareTail
  <2>1. /\ mode = "up" /\ wpc = "prepareTail" /\ newData # None /\ todo = {}
        /\ UNCHANGED <<file, data, tail, newData, queries>>
        /\ newTail' = draft /\ draft # None
    BY <1>5, NoneAssumption DEF PrepareTail, IInv, TypeOK, ModeOK, WriterOK
  <2>2. newTail = None /\ Recovered = Content(file[data], tail)
    BY <2>1, UpContent
  <2>3. Recovered' = Content(file[newData], draft)
    BY <2>1 DEF Recovered, BlocksOf, Content
  <2>4. \A t \in Trigram : Ids(file[newData], draft.addr[t]) = Ids(file[data], tail.addr[t])
    BY <2>1 DEF IInv, DefragDraftOK, Target
  <2>5. Recovered' = Recovered
    BY <2>2, <2>3, <2>4 DEF Content
  <2> QED  BY <2>1, <2>5, SameReplies, Invisible
<1>6. CASE DefragInstallData
  <2>1. newTail # None /\ newData # None /\ data' = newData /\ newData' = None
        /\ UNCHANGED <<file, newTail, queries>>
    BY <1>6 DEF DefragInstallData, MoveData, IInv, WriterOK
  <2>2. Recovered' = Recovered
    BY <2>1 DEF Recovered, BlocksOf, Content
  <2> QED  BY <2>1, <2>2, SameReplies, Invisible
<1>7. CASE DefragInstallTail
  <2>1. newTail # None /\ newData = None /\ tail' = newTail /\ newTail' = None
        /\ UNCHANGED <<file, data, newData, queries>>
    BY <1>7 DEF DefragInstallTail, MoveTail, IInv, WriterOK
  <2>2. Recovered' = Recovered
    BY <2>1 DEF Recovered, BlocksOf, Content
  <2> QED  BY <2>1, <2>2, SameReplies, Invisible
<1>8. CASE Reopen
  BY <1>8, SameDisk, SameReplies, Invisible DEF Reopen, disk
<1> QED  BY <1>1, <1>2, <1>3, <1>4, <1>5, <1>6, <1>7, <1>8 DEF Defrag

\* What a query answers is a set of file numbers for each trigram.
LEMMA ReplyType ==
  ASSUME IInv, NEW q \in Query, qfile[q] # None
  PROVE  Reply(q) \in [Trigram -> SUBSET Id] /\ Reply(q) # None
<1>1. qfile[q] \in Inode /\ file[qfile[q]] \in Seq(Block) /\ qseen[q] \in [Trigram -> SUBSET Id]
  BY DEF IInv, TypeOK
<1>2. ASSUME NEW a  PROVE Ids(file[qfile[q]], a) \in SUBSET Id
  <2>1. \A i \in ChainOf(file[qfile[q]], a) : i \in 1 .. Len(file[qfile[q]])
    BY DEF ChainOf
  <2>2. \A i \in ChainOf(file[qfile[q]], a) : file[qfile[q]][i] \in Block
    BY <1>1, <2>1
  <2> QED  BY <2>2 DEF Ids, Block
<1>3. Reply(q) = [t \in Trigram |-> qseen[q][t] \cup Ids(file[qfile[q]], qaddr[q][t])]
  BY DEF Reply
<1>4. \A t \in Trigram : qseen[q][t] \cup Ids(file[qfile[q]], qaddr[q][t]) \in SUBSET Id
  BY <1>1, <1>2
<1> QED  BY <1>3, <1>4, NoneAssumption

LEMMA QueryRefines ==
  ASSUME IInv, NEW q \in Query, RunQuery(q)
  PROVE  [Index!Next]_(Index!vars)
<1>1. CASE QueryOpen(q)
  <2>1. /\ mode = "up" /\ wpc # "installTail" /\ qfile[q] = None
        /\ UNCHANGED <<file, data, tail, newData, newTail>>
        /\ qfile' = [qfile EXCEPT ![q] = data] /\ qaddr' = [qaddr EXCEPT ![q] = tail.addr]
        /\ qseen' = [qseen EXCEPT ![q] = NoBatch]
    BY <1>1 DEF QueryOpen, disk
  <2>2. data \in Inode /\ data # None /\ Recovered = Content(file[data], tail)
    <3>1. CASE wpc = "installData"
      BY <2>1, <3>1 DEF IInv, TypeOK, ModeOK, WriterOK, PairOK, Recovered, BlocksOf
    <3>2. CASE wpc # "installData"
      BY <2>1, <3>2, UpContent
    <3> QED  BY <3>1, <3>2
  <2>3. qfile'[q] = data /\ qaddr'[q] = tail.addr /\ qseen'[q] = NoBatch
    BY <2>1 DEF IInv, TypeOK
  <2>4. Reply(q)' = Recovered
    <3>1. Reply(q)' = [t \in Trigram |-> NoBatch[t] \cup Ids(file[data], tail.addr[t])]
      BY <2>1, <2>2, <2>3 DEF Reply
    <3> QED  BY <2>2, <3>1, Constants DEF Content
  <2>5. ASSUME NEW r \in Query, r # q  PROVE Reply(r)' = Reply(r)
    BY <2>1, <2>5 DEF Reply, IInv, TypeOK
  <2>6. Recovered' = Recovered /\ Reply(q) = None
    BY <2>1, SameDisk DEF Reply
  <2>7. Index!BeginQuery(q)
    BY <2>4, <2>5, <2>6 DEF Index!BeginQuery
  <2> QED  BY <2>7 DEF Index!Next
<1>2. ASSUME NEW t \in Trigram, ReadBlock(q, t)  PROVE UNCHANGED Index!vars
  <2> DEFINE blocks == file[qfile[q]]
             a == qaddr[q][t]
  <2>1. /\ blocks \in Seq(Block) /\ a \in 1 .. Len(blocks)
        /\ \A k \in 1 .. Len(blocks) : blocks[k].prev < k
    BY <1>2, BlockRead DEF ReadBlock
  <2>2. /\ UNCHANGED <<file, data, tail, newData, newTail, qfile>> /\ qfile[q] # None
        /\ qseen' = [qseen EXCEPT ![q][t] = @ \cup blocks[a].ids]
        /\ qaddr' = [qaddr EXCEPT ![q][t] = blocks[a].prev]
    BY <1>2 DEF ReadBlock, disk
  <2>3. /\ qseen'[q][t] = qseen[q][t] \cup blocks[a].ids /\ qaddr'[q][t] = blocks[a].prev
        /\ \A u \in Trigram \ {t} : qseen'[q][u] = qseen[q][u] /\ qaddr'[q][u] = qaddr[q][u]
        /\ \A r \in Query \ {q} : qseen'[r] = qseen[r] /\ qaddr'[r] = qaddr[r]
    BY <2>2 DEF IInv, TypeOK
  <2> HIDE DEF blocks, a
  <2>4. Ids(blocks, a) = blocks[a].ids \cup Ids(blocks, blocks[a].prev)
    BY <2>1, IdsStep
  <2>5. ASSUME NEW u \in Trigram
        PROVE  qseen'[q][u] \cup Ids(blocks, qaddr'[q][u])
                 = qseen[q][u] \cup Ids(blocks, qaddr[q][u])
    <3>1. CASE u = t
      <4>1. qaddr[q][u] = a
        BY <3>1 DEF a
      <4> QED  BY <2>3, <2>4, <3>1, <4>1
    <3>2. CASE u # t
      BY <2>3, <3>2
    <3> QED  BY <3>1, <3>2
  <2>6. Reply(q)' = Reply(q)
    BY <2>2, <2>5 DEF Reply, blocks
  <2>7. \A r \in Query \ {q} : Reply(r)' = Reply(r)
    BY <2>2, <2>3 DEF Reply
  <2> QED  BY <2>2, <2>6, <2>7, SameDisk, Invisible
<1>3. CASE QueryFinish(q)
  <2>1. /\ qfile[q] # None /\ UNCHANGED <<file, data, tail, newData, newTail, qaddr>>
        /\ qfile' = [qfile EXCEPT ![q] = None] /\ qseen' = [qseen EXCEPT ![q] = NoBatch]
    BY <1>3 DEF QueryFinish, disk
  <2>2. Reply(q) # None
    BY <2>1, ReplyType
  <2>3. Reply(q)' = None
    BY <2>1 DEF Reply, IInv, TypeOK
  <2>4. ASSUME NEW r \in Query, r # q  PROVE Reply(r)' = Reply(r)
    BY <2>1, <2>4 DEF Reply, IInv, TypeOK
  <2>5. Recovered' = Recovered
    BY <2>1, SameDisk
  <2>6. Index!EndQuery(q)
    BY <2>2, <2>3, <2>4, <2>5 DEF Index!EndQuery
  <2> QED  BY <2>6 DEF Index!Next
<1> QED  BY <1>1, <1>2, <1>3 DEF RunQuery

LEMMA DeleteRefines ==
  ASSUME IInv, DeleteTail
  PROVE  Index!Delete
<1>1. newTail = None /\ tail' = None /\ newTail' = None
      /\ UNCHANGED <<file, queries>>
  BY DEF DeleteTail, IInv, WriterOK
<1>2. Recovered' = NoBatch
  BY <1>1 DEF Recovered
<1>3. \A q \in Query : Reply(q)' = Reply(q)
  BY <1>1, SameReplies
<1> QED  BY <1>2, <1>3 DEF Index!Delete, Index!NoFiles, NoBatch

LEMMA CrashRefines ==
  ASSUME IInv, Crash
  PROVE  Index!Restart
<1>1. UNCHANGED <<data, tail, newData, newTail>> /\ qfile' = [q \in Query |-> None]
  BY DEF Crash
<1>2. ASSUME NEW table \in Table, NEW i \in {data, newData}, i # None, Fits(table, i)
      PROVE  Content(file'[i], table) = Content(file[i], table)
  <2>1. \A t \in Trigram : table.addr[t] \in Nat /\ table.addr[t] <= durable[i]
    BY <1>2 DEF Fits, Table
  <2>2. ASSUME NEW t \in Trigram
        PROVE  Ids(file'[i], table.addr[t]) = Ids(file[i], table.addr[t])
    BY <1>2, <2>1, CrashKeepsIds DEF IInv
  <2> QED  BY <2>2 DEF Content
<1>3. Recovered' = Recovered
  <2>1. CASE newTail = None /\ tail = None
    BY <1>1, <2>1 DEF Recovered
  <2>2. CASE newTail = None /\ tail # None
    <3>1. tail \in Table /\ data # None /\ Fits(tail, data)
      BY <2>2 DEF IInv, TypeOK, ModeOK, PairOK
    <3>2. Recovered' = Content(file'[data], tail) /\ Recovered = Content(file[data], tail)
      BY <1>1, <2>2, <3>1 DEF Recovered, BlocksOf, Content
    <3> QED  BY <1>2, <3>1, <3>2
  <2>3. CASE newTail # None /\ newData = None
    <3>1. newTail \in Table /\ data # None /\ Fits(newTail, data)
      BY <2>3 DEF IInv, TypeOK, ModeOK, PairOK
    <3>2. Recovered' = Content(file'[data], newTail) /\ Recovered = Content(file[data], newTail)
      BY <1>1, <2>3, <3>1 DEF Recovered, BlocksOf, Content
    <3> QED  BY <1>2, <3>1, <3>2
  <2>4. CASE newTail # None /\ newData # None
    <3>1. newTail \in Table /\ Fits(newTail, newData)
      BY <2>4 DEF IInv, TypeOK, PairOK
    <3>2. Recovered' = Content(file'[newData], newTail)
          /\ Recovered = Content(file[newData], newTail)
      BY <1>1, <2>4, <3>1 DEF Recovered, BlocksOf, Content
    <3> QED  BY <1>2, <2>4, <3>1, <3>2
  <2> QED  BY <2>1, <2>2, <2>3, <2>4
<1>4. \A q \in Query : Reply(q)' = None
  BY <1>1 DEF Reply
<1> QED  BY <1>3, <1>4 DEF Index!Restart

LEMMA StepRefines ==
  ASSUME IInv, IInv', [Next]_vars
  PROVE  [Index!Next]_(Index!vars)
<1>1. CASE Open
  BY <1>1, OpenInvisible
<1>2. CASE WriteBatch
  BY <1>2, WriteBatchRefines
<1>3. CASE Defrag
  BY <1>3, DefragInvisible
<1>4. CASE \E q \in Query : RunQuery(q)
  BY <1>4, QueryRefines
<1>5. CASE FailStep \/ Stop
  BY <1>5, SameDisk, SameReplies, Invisible DEF FailStep, Stop, disk
<1>6. CASE DeleteTail
  BY <1>6, DeleteRefines DEF Index!Next
<1>7. CASE DeleteData
  <2>1. tail = None /\ newTail = None /\ tail' = None /\ newTail' = None
        /\ UNCHANGED <<file, queries>>
    BY <1>7 DEF DeleteData, IInv, ModeOK
  <2>2. Recovered' = Recovered
    BY <2>1 DEF Recovered
  <2> QED  BY <2>1, <2>2, SameReplies, Invisible
<1>8. CASE Crash
  BY <1>8, CrashRefines DEF Index!Next
<1>9. CASE UNCHANGED vars
  BY <1>9, SameDisk, SameReplies, Invisible DEF vars, disk
<1> QED
  BY <1>1, <1>2, <1>3, <1>4, <1>5, <1>6, <1>7, <1>8, <1>9 DEF Next

\* The journal implements JournalIndex: batches become visible as a whole and are
\* never lost, a defragmentation, a failed step other than the reopening of the
\* journal, a crash and a restart are invisible, and every query is answered from
\* the instant it opened the files.
THEOREM Refinement ==
  ASSUME BatchesHaveTrigrams, ReopenSucceeds
  PROVE  Spec => RefinesIndex
<1>1. Init => Index!Init
  <2> SUFFICES ASSUME Init  PROVE Index!Init
    OBVIOUS
  <2>1. tail = None /\ newTail = None /\ \A q \in Query : qfile[q] = None
    BY DEF Init
  <2>2. Recovered = NoBatch /\ \A q \in Query : Reply(q) = None
    BY <2>1 DEF Recovered, Reply
  <2> QED  BY <2>2 DEF Index!Init, Index!NoFiles, NoBatch
<1>2. IInv /\ IInv' /\ [Next]_vars => [Index!Next]_(Index!vars)
  BY StepRefines
<1> QED  BY <1>1, <1>2, Invariance, PTL DEF Spec, RefinesIndex, Index!Spec

\* No table is left for an index that takes the identifier over: what DeleteData
\* leaves has neither of the two tables.
THEOREM DeleteIsComplete ==
  ASSUME BatchesHaveTrigrams, ReopenSucceeds
  PROVE  Spec => DeleteLeavesNoTable
<1>1. ASSUME IInv, [Next]_vars, mode = "deleting", mode' = "down"
      PROVE  tail' = None /\ newTail' = None
  <2>1. tail = None /\ newTail = None /\ wpc = "idle"
    BY <1>1 DEF IInv, ModeOK
  <2>2. CASE DeleteData \/ Crash
    BY <2>1, <2>2 DEF DeleteData, Crash
  <2>3. CASE Open
    BY <1>1, <2>3 DEF Open, OpenStart, ClearTail, RemoveData, CreateData, CreateTail, InstallData,
                      InstallTail, InitReady, Trim
  <2>4. CASE WriteBatch \/ Defrag \/ FailStep
    BY <1>1, <2>1, <2>4 DEF WriteBatch, Defrag, FailStep, StartBatch, AppendBlock, SyncBatch, PublishTail,
              StartDefrag, CopyTrigram, SyncDefrag, PrepareData, PrepareTail, DefragInstallData,
              DefragInstallTail, Reopen
  <2>5. CASE (\E q \in Query : RunQuery(q)) \/ Stop \/ DeleteTail \/ UNCHANGED vars
    BY <1>1, <2>1, <2>5 DEF RunQuery, QueryOpen, ReadBlock, QueryFinish, Stop, DeleteTail, disk, vars
  <2> QED  BY <1>1, <2>2, <2>3, <2>4, <2>5 DEF Next
<1>2. IInv /\ [Next]_vars =>
        [mode = "deleting" /\ mode' = "down" /\ data' = None => tail' = None /\ newTail' = None]_vars
  BY <1>1
<1> QED  BY <1>2, Invariance, PTL DEF Spec, DeleteLeavesNoTable

----------------------------------------------------------------------------
(* The length of chains *)

\* No chain of the table is longer than n.
Short(blocks, table, n) ==
  \A t \in Trigram : Cardinality(ChainOf(blocks, table.addr[t])) <= n

\* The pairs of files on the disk are as short as their generations say, and the
\* table that is being built has at most one block more, or one at all.
FragmentsOK ==
  /\ tail # None /\ (newTail = None \/ newData # None) => Short(file[data], tail, tail.gen + 1)
  /\ newTail # None /\ newData # None => Short(file[newData], newTail, newTail.gen + 1)
  /\ newTail # None /\ newData = None => Short(file[data], newTail, newTail.gen + 1)
  /\ wpc \in {"append", "publish"} => Short(file[handle], draft, tail.gen + 2)
  /\ wpc \in {"copy", "prepareData", "prepareTail"} => Short(file[Target], draft, 1)

LEMMA ChainFinite ==
  ASSUME NEW blocks, NEW a \in Nat
  PROVE  IsFiniteSet(ChainOf(blocks, a)) /\ Cardinality(ChainOf(blocks, a)) \in Nat
<1>1. IsFiniteSet(1 .. a)
  BY FS_Interval
<1>2. ChainOf(blocks, a) \in SUBSET (1 .. a)
  BY DEF ChainOf
<1> QED  BY <1>1, <1>2, FS_Subset, FS_CardinalityType

\* A table of no blocks.
LEMMA ShortEmpty ==
  ASSUME NEW blocks, NEW n \in Nat
  PROVE  Short(blocks, EmptyTable, n)
<1>1. ChainOf(blocks, 0) = {}
  BY DEF ChainOf
<1> QED  BY <1>1, FS_EmptySet, Constants DEF Short

LEMMA ShortMore ==
  ASSUME NEW blocks, NEW table \in Table, NEW n \in Nat, NEW m \in Nat, n <= m, Short(blocks, table, n)
  PROVE  Short(blocks, table, m)
<1>1. \A t \in Trigram : table.addr[t] \in Nat
  BY DEF Table
<1>2. \A t \in Trigram : Cardinality(ChainOf(blocks, table.addr[t])) \in Nat
  BY <1>1, ChainFinite
<1> QED  BY <1>2 DEF Short

\* A file that was extended, or cut above the table's addresses.
LEMMA ShortPrefix ==
  ASSUME NEW b \in Seq(Block), NEW c \in Seq(Block), NEW table \in Table, NEW n,
         \A t \in Trigram : table.addr[t] <= Len(b) /\ table.addr[t] <= Len(c),
         \A k \in 1 .. Len(b) : b[k].prev < k /\ (k <= Len(c) => c[k] = b[k]),
         Short(b, table, n)
  PROVE  Short(c, table, n)
<1> SUFFICES ASSUME NEW t \in Trigram  PROVE ChainOf(b, table.addr[t]) = ChainOf(c, table.addr[t])
  BY DEF Short
<1>1. table.addr[t] \in Nat /\ Len(b) \in Nat /\ Len(c) \in Nat
  BY DEF Table
<1>2. \A k \in 1 .. table.addr[t] : b[k] = c[k] /\ b[k].prev < k
  BY <1>1
<1> QED  BY <1>1, <1>2, ChainPrefix

\* A block on top of a chain makes it longer by one.
LEMMA ChainAppend ==
  ASSUME NEW b \in Seq(Block), NEW block \in Block, block.prev <= Len(b),
         \A k \in 1 .. Len(b) : b[k].prev < k,
         NEW n \in Nat, Cardinality(ChainOf(b, block.prev)) <= n
  PROVE  Cardinality(ChainOf(Append(b, block), Len(b) + 1)) <= n + 1
<1> DEFINE c == Append(b, block)
           a == Len(b) + 1
<1>1. /\ c \in Seq(Block) /\ Len(c) = a /\ a \in Nat /\ Len(b) \in Nat /\ c[a] = block
      /\ \A k \in 1 .. Len(b) : c[k] = b[k]
  OBVIOUS
<1>2. block.prev \in Nat /\ c[a].prev = block.prev /\ a \in 1 .. Len(c)
  BY <1>1 DEF Block
<1> HIDE DEF c, a
<1>3. \A k \in 1 .. Len(c) : c[k].prev < k
  <2>1. ASSUME NEW k \in 1 .. Len(c)  PROVE k = a \/ k \in 1 .. Len(b)
    BY <1>1 DEF a
  <2> QED  BY <1>1, <1>2, <2>1 DEF a
<1>4. ChainOf(c, a) = {a} \cup ChainOf(c, block.prev)
  BY <1>1, <1>2, <1>3, ChainStep
<1>5. ChainOf(c, block.prev) = ChainOf(b, block.prev)
  <2>1. block.prev <= Len(c) /\ \A k \in 1 .. block.prev : b[k] = c[k] /\ b[k].prev < k
    BY <1>1, <1>2 DEF a
  <2> QED  BY <1>1, <1>2, <2>1, ChainPrefix
<1>6. /\ IsFiniteSet(ChainOf(b, block.prev)) /\ Cardinality(ChainOf(b, block.prev)) \in Nat
  BY <1>2, ChainFinite
<1>7. Cardinality(ChainOf(b, block.prev) \cup {a}) <= Cardinality(ChainOf(b, block.prev)) + 1
  <2> DEFINE S == ChainOf(b, block.prev)
  <2>1. IsFiniteSet(S) /\ Cardinality(S) \in Nat
    BY <1>6
  <2> HIDE DEF S
  <2>2. Cardinality(S \cup {a}) = IF a \in S THEN Cardinality(S) ELSE Cardinality(S) + 1
    BY <2>1, FS_AddElement
  <2>3. Cardinality(S \cup {a}) <= Cardinality(S) + 1
    BY <2>1, <2>2
  <2> QED  BY <2>3 DEF S
<1>8. ChainOf(c, a) = ChainOf(b, block.prev) \cup {a}
  BY <1>4, <1>5
<1>9. Cardinality(ChainOf(c, a)) \in Nat
  BY <1>1, ChainFinite
<1>10. Cardinality(ChainOf(c, a)) <= n + 1
  BY <1>6, <1>7, <1>8, <1>9
<1> QED  BY <1>10 DEF c, a

\* A block on its own.
LEMMA ChainSingle ==
  ASSUME NEW b \in Seq(Block), NEW block \in Block, block.prev = 0,
         \A k \in 1 .. Len(b) : b[k].prev < k
  PROVE  Cardinality(ChainOf(Append(b, block), Len(b) + 1)) <= 1
<1>1. ChainOf(b, 0) = {} /\ Cardinality({}) = 0
  BY FS_EmptySet DEF ChainOf
<1>2. Cardinality(ChainOf(b, block.prev)) <= 0
  <2>1. Cardinality(ChainOf(b, block.prev)) = 0
    BY <1>1, Zenon
  <2> QED  BY <2>1
<1>3. block.prev <= Len(b)
  OBVIOUS
<1>4. Cardinality(ChainOf(Append(b, block), Len(b) + 1)) <= 0 + 1
  BY <1>2, <1>3, ChainAppend
<1> QED  BY <1>4

LEMMA OpenShort ==
  ASSUME IInv, FragmentsOK, Open
  PROVE  FragmentsOK'
<1> USE DEF disk, writer, queries
<1>1. wpc = "idle" /\ wpc' = wpc
  <2>1. mode \in OpenModes \/ mode = "down"
    BY DEF Open, OpenStart, ClearTail, RemoveData, CreateData, CreateTail, InstallData, InstallTail,
           InitReady, Trim, OpenModes
  <2> QED  BY <2>1 DEF IInv, ModeOK, OpenModes, Open, OpenStart, ClearTail, RemoveData, CreateData,
                       CreateTail, InstallData, InstallTail, InitReady, Trim
<1>2. CASE OpenStart \/ ClearTail \/ RemoveData \/ CreateData
  BY <1>1, <1>2 DEF OpenStart, ClearTail, RemoveData, CreateData, IInv, ModeOK, FragmentsOK
<1>3. CASE CreateTail \/ InitReady
  <2>1. Short(file[data], EmptyTable, EmptyTable.gen + 1)
    BY ShortEmpty DEF EmptyTable
  <2> QED  BY <1>1, <1>3, <2>1 DEF CreateTail, InitReady, IInv, ModeOK, FragmentsOK
<1>4. CASE InstallData \/ InstallTail
  BY <1>1, <1>4 DEF InstallData, InstallTail, MoveData, MoveTail, IInv, ModeOK, FragmentsOK
<1>5. CASE Trim
  <2>1. /\ data \in Inode /\ tail \in Table /\ newTail = None /\ file[data] \in Seq(Block)
        /\ UNCHANGED <<data, tail, newTail, newData>>
        /\ \A k \in 1 .. Len(file[data]) : file[data][k].prev < k
    BY <1>5 DEF Trim, IInv, TypeOK, ModeOK, BlocksOK
  <2>2. PICK n \in 0 .. Len(file[data]) :
          /\ \A t \in Trigram : tail.addr[t] <= n
          /\ IF n > 0 THEN file' = [file EXCEPT ![data] = SubSeq(@, 1, n)] ELSE UNCHANGED file
    BY <1>5 DEF Trim
  <2>3. CASE n > 0
    <3> DEFINE c == SubSeq(file[data], 1, n)
    <3>1. c \in Seq(Block) /\ Len(c) = n /\ \A k \in 1 .. n : c[k] = file[data][k]
      BY <2>1, <2>3
    <3>2. \A t \in Trigram : tail.addr[t] <= Len(file[data]) /\ tail.addr[t] <= Len(c)
      BY <2>1, <2>2, <3>1 DEF Table
    <3>3. \A k \in 1 .. Len(file[data]) : file[data][k].prev < k /\ (k <= Len(c) => c[k] = file[data][k])
      BY <2>1, <3>1
    <3>4. file'[data] = c
      BY <2>1, <2>2, <2>3 DEF IInv, TypeOK
    <3> HIDE DEF c
    <3>5. Short(file[data], tail, tail.gen + 1)
      BY <1>5, <2>1, NoneAssumption DEF FragmentsOK
    <3>6. Short(c, tail, tail.gen + 1)
      BY <2>1, <3>1, <3>2, <3>3, <3>5, ShortPrefix
    <3> QED  BY <1>1, <2>1, <3>4, <3>6 DEF FragmentsOK
  <2>4. CASE n = 0
    BY <1>1, <2>1, <2>2, <2>4 DEF FragmentsOK
  <2> QED  BY <2>3, <2>4
<1> QED  BY <1>2, <1>3, <1>4, <1>5 DEF Open

LEMMA WriteBatchShort ==
  ASSUME IInv, FragmentsOK, WriteBatch
  PROVE  FragmentsOK'
<1> USE DEF disk, writer, queries
<1>1. /\ mode = "up" /\ handle = data /\ data \in Inode /\ tail \in Table /\ newTail = None
      /\ tail.gen \in Nat /\ draft \in Table
      /\ UNCHANGED <<data, newData, newTail, handle>>
  BY DEF WriteBatch, StartBatch, AppendBlock, SyncBatch, PublishTail, IInv, TypeOK, ModeOK, WriterOK, Table
<1>2. Short(file[data], tail, tail.gen + 1)
  BY <1>1, NoneAssumption DEF FragmentsOK
<1>3. CASE \E b \in Batches : StartBatch(b)
  <2>1. Short(file[data], tail, tail.gen + 2)
    BY <1>1, <1>2, ShortMore
  <2> QED  BY <1>1, <1>3, <2>1 DEF StartBatch, FragmentsOK
<1>4. CASE AppendBlock
  <2> DEFINE old == file[data]
  <2>1. PICK t \in Trigram :
          /\ file' = [file EXCEPT ![handle] = Append(@, [prev |-> tail.addr[t], ids |-> batch[t]])]
          /\ draft' = [draft EXCEPT !.addr[t] = Len(file[handle]) + 1]
    BY <1>4 DEF AppendBlock
  <2> DEFINE block == [prev |-> tail.addr[t], ids |-> batch[t]]
             new == Append(old, block)
  <2>2. /\ old \in Seq(Block) /\ Len(old) \in Nat /\ block \in Block
        /\ \A k \in 1 .. Len(old) : old[k].prev < k
    <3>1. tail.addr[t] \in Nat /\ batch[t] \in SUBSET Id
      BY <1>1 DEF IInv, TypeOK, Table
    <3>2. block \in Block
      BY <3>1 DEF Block
    <3> QED  BY <1>1, <3>2 DEF IInv, TypeOK, BlocksOK
  <2>3. \A u \in Trigram : /\ tail.addr[u] \in Nat /\ tail.addr[u] <= Len(old)
                           /\ draft.addr[u] \in Nat /\ draft.addr[u] <= Len(old)
    BY <1>1, <1>4, <2>2, NoneAssumption
       DEF AppendBlock, IInv, TypeOK, PairOK, BlocksOK, BatchDraftOK, Fits, Table
  <2>4. /\ new \in Seq(Block) /\ Len(new) = Len(old) + 1
        /\ \A k \in 1 .. Len(old) : new[k] = old[k]
    BY <2>2
  <2>5. file'[data] = new
    BY <1>1, <2>1 DEF IInv, TypeOK
  <2>6. /\ draft'.addr[t] = Len(old) + 1
        /\ \A u \in Trigram \ {t} : draft'.addr[u] = draft.addr[u]
    BY <1>1, <2>1 DEF Table
  <2>7. block.prev = tail.addr[t]
    OBVIOUS
  <2>8. Cardinality(ChainOf(old, tail.addr[t])) <= tail.gen + 1
    BY <1>2 DEF Short
  <2> HIDE DEF old, block
  <2>9. Cardinality(ChainOf(new, Len(old) + 1)) <= tail.gen + 2
    <3>1. tail.gen + 1 \in Nat /\ (tail.gen + 1) + 1 = tail.gen + 2 /\ block.prev <= Len(old)
      BY <1>1, <2>3, <2>7
    <3>2. Cardinality(ChainOf(Append(old, block), Len(old) + 1)) <= (tail.gen + 1) + 1
      BY <2>2, <2>7, <2>8, <3>1, ChainAppend
    <3> QED  BY <3>1, <3>2
  <2> HIDE DEF new
  <2>10. \A k \in 1 .. Len(old) : old[k].prev < k /\ (k <= Len(new) => new[k] = old[k])
    BY <2>2, <2>4
  <2>11. Short(new, tail, tail.gen + 1)
    <3>1. Short(old, tail, tail.gen + 1)
      BY <1>2 DEF old
    <3> QED  BY <1>1, <2>2, <2>3, <2>4, <2>10, <3>1, ShortPrefix
  <2>12. Short(old, draft, tail.gen + 2)
    BY <1>1, <1>4 DEF AppendBlock, FragmentsOK, old
  <2>13. Short(new, draft, tail.gen + 2)
    BY <1>1, <2>2, <2>3, <2>4, <2>10, <2>12, ShortPrefix
  <2>14. Short(new, draft', tail.gen + 2)
    BY <2>6, <2>9, <2>13 DEF Short
  <2> QED  BY <1>1, <1>4, <2>5, <2>11, <2>14 DEF AppendBlock, FragmentsOK
<1>5. CASE SyncBatch
  BY <1>1, <1>5 DEF SyncBatch, FragmentsOK
<1>6. CASE PublishTail
  <2>1. tail'.gen = tail.gen + 1 /\ tail'.addr = draft.addr
    BY <1>1, <1>6 DEF PublishTail, Table
  <2>2. Short(file[data], draft, tail.gen + 2)
    BY <1>1, <1>6 DEF PublishTail, FragmentsOK
  <2>3. Short(file[data], tail', tail'.gen + 1)
    <3>1. tail'.gen + 1 = tail.gen + 2
      BY <1>1, <2>1
    <3> QED  BY <2>1, <2>2, <3>1 DEF Short
  <2> QED  BY <1>1, <1>6, <2>3 DEF PublishTail, FragmentsOK
<1> QED  BY <1>3, <1>4, <1>5, <1>6 DEF WriteBatch

LEMMA CopyShort ==
  ASSUME IInv, FragmentsOK, CopyTrigram
  PROVE  FragmentsOK'
<1> USE DEF CopyTrigram
<1> DEFINE old == file[temp]
<1>1. /\ temp \in Inode /\ temp # data /\ tail \in Table /\ newTail = None /\ draft \in Table
      /\ old \in Seq(Block) /\ Len(old) \in Nat /\ \A k \in 1 .. Len(old) : old[k].prev < k
      /\ UNCHANGED <<data, tail, newData, newTail, temp, wpc>> /\ wpc = "copy"
  BY DEF IInv, TypeOK, ModeOK, WriterOK, BlocksOK, NamesOK
<1>2. Short(old, draft, 1)
  BY <1>1 DEF FragmentsOK, Target
<1>3. PICK t \in Trigram :
        LET ids == Ids(file[data], tail.addr[t])
        IN IF ids = {} THEN UNCHANGED <<file, draft>>
           ELSE /\ file' = [file EXCEPT ![temp] = Append(@, [prev |-> 0, ids |-> ids])]
                /\ draft' = [draft EXCEPT !.addr[t] = Len(file[temp]) + 1]
  OBVIOUS
<1>4. CASE UNCHANGED <<file, draft>>
  BY <1>1, <1>4 DEF FragmentsOK, Target
<1>5. CASE ~UNCHANGED <<file, draft>>
  <2> DEFINE ids == Ids(file[data], tail.addr[t])
             block == [prev |-> 0, ids |-> ids]
             new == Append(old, block)
  <2>1. /\ file' = [file EXCEPT ![temp] = new]
        /\ draft' = [draft EXCEPT !.addr[t] = Len(old) + 1]
    BY <1>3, <1>5
  <2>2. ids \in SUBSET Id
    <3>1. \A k \in 1 .. Len(file[data]) : file[data][k] \in Block
      BY <1>1 DEF IInv, TypeOK, ModeOK
    <3>2. \A k \in 1 .. Len(file[data]) : file[data][k].ids \in SUBSET Id
      BY <3>1 DEF Block
    <3> QED  BY <3>2 DEF Ids, ChainOf
  <2>3. block \in Block /\ block.prev = 0
    BY <2>2 DEF Block
  <2> HIDE DEF ids, block
  <2>4. /\ new \in Seq(Block) /\ Len(new) = Len(old) + 1
        /\ \A k \in 1 .. Len(old) : new[k] = old[k]
    BY <1>1, <2>3
  <2>5. file'[temp] = new /\ file'[data] = file[data]
    BY <1>1, <2>1 DEF IInv, TypeOK
  <2>6. /\ draft'.addr[t] = Len(old) + 1
        /\ \A u \in Trigram \ {t} : draft'.addr[u] = draft.addr[u]
    BY <1>1, <2>1 DEF Table
  <2>7. \A u \in Trigram : draft.addr[u] \in Nat /\ draft.addr[u] <= Len(old)
    BY <1>1 DEF IInv, DefragDraftOK, Target, Table
  <2> HIDE DEF old
  <2>8. Cardinality(ChainOf(new, Len(old) + 1)) <= 1
    BY <1>1, <2>3, ChainSingle DEF new
  <2> HIDE DEF new
  <2>9. \A k \in 1 .. Len(old) : old[k].prev < k /\ (k <= Len(new) => new[k] = old[k])
    BY <1>1, <2>4
  <2>10. Short(new, draft, 1)
    BY <1>1, <1>2, <2>4, <2>7, <2>9, ShortPrefix
  <2>11. Short(new, draft', 1)
    BY <2>6, <2>8, <2>10 DEF Short
  <2> QED  BY <1>1, <2>5, <2>11 DEF FragmentsOK, Target
<1> QED  BY <1>4, <1>5

LEMMA DefragShort ==
  ASSUME IInv, FragmentsOK, Defrag
  PROVE  FragmentsOK'
<1> USE DEF disk, writer, queries
<1>1. /\ mode = "up" /\ data \in Inode /\ tail \in Table /\ draft \in Table
      /\ wpc \notin {"installData", "installTail"} => newTail = None
  BY DEF Defrag, StartDefrag, CopyTrigram, SyncDefrag, PrepareData, PrepareTail, DefragInstallData,
         DefragInstallTail, Reopen, IInv, TypeOK, ModeOK, WriterOK
<1>2. CASE StartDefrag
  <2>1. PICK i \in Inode : i # data /\ file' = [file EXCEPT ![i] = <<>>] /\ temp' = i
    BY <1>2 DEF StartDefrag, Create, Free
  <2>2. file'[data] = file[data]
    BY <1>1, <2>1 DEF IInv, TypeOK
  <2>3. Short(file'[temp'], EmptyTable, 1)
    BY ShortEmpty
  <2> QED  BY <1>1, <1>2, <2>2, <2>3 DEF StartDefrag, FragmentsOK, Target
<1>3. CASE SyncDefrag \/ PrepareData
  BY <1>1, <1>3 DEF SyncDefrag, PrepareData, FragmentsOK, Target
<1>4. CASE PrepareTail
  <2>1. Short(file[newData], draft, 1) /\ newData # None
    BY <1>4 DEF PrepareTail, FragmentsOK, Target, IInv, WriterOK
  <2>2. Short(file[newData], draft, draft.gen + 1)
    <3>1. draft.gen \in Nat
      BY <1>1 DEF Table
    <3> QED  BY <1>1, <2>1, <3>1, ShortMore
  <2> QED  BY <1>1, <1>4, <2>1, <2>2, NoneAssumption DEF PrepareTail, FragmentsOK
<1>5. CASE DefragInstallData \/ DefragInstallTail \/ Reopen
  BY <1>1, <1>5 DEF DefragInstallData, DefragInstallTail, Reopen, MoveData, MoveTail, FragmentsOK,
                    IInv, WriterOK
<1> QED  BY <1>2, <1>3, <1>4, <1>5, CopyShort DEF Defrag

LEMMA CrashShort ==
  ASSUME IInv, FragmentsOK, Crash
  PROVE  FragmentsOK'
<1>1. wpc' = "idle" /\ UNCHANGED <<data, tail, newData, newTail>>
  BY DEF Crash
<1>2. ASSUME NEW i \in {data, newData}, i # None, NEW table \in Table, Fits(table, i), NEW n,
             Short(file[i], table, n)
      PROVE  Short(file'[i], table, n)
  <2>1. i \in Inode
    BY <1>2 DEF IInv, TypeOK
  <2> DEFINE old == file[i]
             new == file'[i]
  <2>2. /\ old \in Seq(Block) /\ durable[i] \in Nat /\ durable[i] <= Len(old) /\ Len(old) \in Nat
        /\ \A k \in 1 .. Len(old) : old[k].prev < k
    BY <2>1 DEF IInv, TypeOK, BlocksOK
  <2>3. /\ durable'[i] \in Nat /\ new \in Seq(Block) /\ Len(new) = durable'[i]
        /\ durable'[i] <= Len(old) /\ durable[i] <= durable'[i]
        /\ \A k \in 1 .. durable'[i] : new[k] = old[k]
    BY <2>1, CrashPrefix DEF IInv
  <2>4. \A t \in Trigram : table.addr[t] \in Nat /\ table.addr[t] <= durable[i]
    BY <1>2 DEF Fits, Table
  <2> HIDE DEF old, new
  <2>5. \A t \in Trigram : table.addr[t] <= Len(old) /\ table.addr[t] <= Len(new)
    BY <2>2, <2>3, <2>4
  <2>6. \A k \in 1 .. Len(old) : old[k].prev < k /\ (k <= Len(new) => new[k] = old[k])
    BY <2>2, <2>3
  <2>7. Short(old, table, n)
    BY <1>2 DEF old
  <2>8. Short(new, table, n)
    BY <2>2, <2>3, <2>5, <2>6, <2>7, ShortPrefix
  <2> QED  BY <2>8 DEF new
<1>3. CASE newTail = None
  BY <1>1, <1>2, <1>3 DEF IInv, TypeOK, ModeOK, PairOK, FragmentsOK
<1>4. CASE newTail # None
  <2>1. newTail \in Table /\ (tail # None => tail \in Table) /\ data # None
    BY <1>4 DEF IInv, TypeOK, ModeOK
  <2>2. CASE newData = None
    BY <1>1, <1>2, <1>4, <2>1, <2>2 DEF IInv, PairOK, FragmentsOK
  <2>3. CASE newData # None
    BY <1>1, <1>2, <1>4, <2>1, <2>3 DEF IInv, PairOK, FragmentsOK
  <2> QED  BY <2>2, <2>3
<1> QED  BY <1>3, <1>4

LEMMA StepShort ==
  ASSUME IInv, FragmentsOK, [Next]_vars
  PROVE  FragmentsOK'
<1> USE DEF disk, writer, queries
<1>1. CASE FailStep \/ DeleteData \/ DeleteTail
  BY <1>1 DEF FailStep, DeleteData, DeleteTail, FragmentsOK, IInv, ModeOK, WriterOK
<1>2. CASE Stop \/ UNCHANGED vars
  BY <1>2 DEF Stop, vars, FragmentsOK, Target
<1>3. CASE \E q \in Query : RunQuery(q)
  BY <1>3 DEF RunQuery, QueryOpen, ReadBlock, QueryFinish, FragmentsOK, Target
<1> QED
  BY <1>1, <1>2, <1>3, OpenShort, WriteBatchShort, DefragShort, CrashShort DEF Next

\* The generation, by which the feeder decides whether to defragment (manager.rs:299),
\* bounds the blocks a query has to read for a trigram: batches, defragmentations,
\* failures and crashes never leave a longer chain.
THEOREM ChainsAreShort ==
  ASSUME BatchesHaveTrigrams, ReopenSucceeds
  PROVE  Spec => []FragmentsBounded
<1>1. Init => FragmentsOK
  BY DEF Init, FragmentsOK
<1>2. IInv /\ FragmentsOK => FragmentsBounded
  BY DEF IInv, ModeOK, WriterOK, FragmentsOK, Short, FragmentsBounded
<1>3. IInv /\ FragmentsOK /\ [Next]_vars => FragmentsOK'
  BY StepShort
<1> QED  BY <1>1, <1>2, <1>3, Invariance, PTL DEF Spec

=============================================================================
