------------------------------ MODULE QueryNetwork ------------------------------
(***************************************************************************)
(* The evaluation of a query by an index (journal.rs, query/broadcast.rs,   *)
(* pool.rs, encoding.rs): the tasks of Expressions, a thread for each       *)
(* trigram that reads the chain of its blocks through a pool of files, and  *)
(* the selection of the files the user may see.  It implements Streams.     *)
(*                                                                         *)
(* Files are numbered from one, in the order of their ingestion in batches. *)
(***************************************************************************)
EXTENDS Expressions, RuleMeaning, AccessControl

CONSTANTS Cases,      \* rule, contents, batches, submissions and view of each query
          Radix,      \* values of a fragment of a number: 128 in the code
          ChunkSize,  \* READ_SIZE
          PoolSize,   \* POOL_SIZE
          MaxThreads, \* bound: queries of more threads are made, and not evaluated
          Faults      \* {"read"}: a file may fail to be read

VARIABLES
  case,    \* the rule, and what the index holds
  index,   \* chains: the blocks of each trigram; from: the files from each block on; access: the
           \* control of each file
  reader,  \* of the threads of trigrams
  pool,    \* files nobody borrows
  answer   \* what the caller may see of what it received

vars == <<network, numbers, broken, case, index, reader, pool, answer>>

Files == DOMAIN case.contents

----------------------------------------------------------------------------
(* Numbers and blocks (encoding.rs, encode_block_data): fragments of a number *)
(* from the lowest, each with the mark that another follows; a block is the    *)
(* offset of the block before, its highest file and the distances from file to *)
(* file, less one.                                                             *)

EncodeValue[v \in Nat] ==
  IF v < Radix THEN <<<<v, FALSE>>>> ELSE <<<<v % Radix, TRUE>>>> \o EncodeValue[v \div Radix]

EncodeBlock(offset, files) ==
  FlattenSeq(<<EncodeValue[offset], EncodeValue[files[1]]>>
             \o [i \in 1 .. Len(files) - 1 |-> EncodeValue[files[i] - files[i + 1] - 1]])

\* A mutant: a number that is cut short is taken as it is.
NumberLengthCut(bytes) == IF \A i \in DOMAIN bytes : bytes[i][2] THEN Len(bytes) ELSE Min({i \in DOMAIN bytes : ~bytes[i][2]})

\* try_decode_value: what a complete number says, and its length; 0 when cut short.
NumberLength(bytes) == IF \A i \in DOMAIN bytes : bytes[i][2] THEN 0 ELSE Min({i \in DOMAIN bytes : ~bytes[i][2]})
Value(bytes) == FoldRight(LAMBDA b, v : b[1] + Radix * v, SubSeq(bytes, 1, NumberLength(bytes)), 0)
Rest(bytes) == SubSeq(bytes, NumberLength(bytes) + 1, Len(bytes))

\* The numbers that end within bytes, and the bytes of the one that does not.
DecodeDecreasing[bytes \in Seq((0 .. Radix - 1) \X BOOLEAN), last \in Nat] ==
  IF NumberLength(bytes) = 0 THEN [values |-> <<>>, last |-> last, buffer |-> bytes]
  ELSE LET v == last - (Value(bytes) + 1)
       IN [DecodeDecreasing[Rest(bytes), v] EXCEPT !.values = <<v>> \o @]

\* The files of each batch that have a trigram, the highest first; and its chain, a block
\* for each of them, the latest last, at addresses 1, 2, ...
FilesOf(t) ==
  LET in(b) == SelectSeq(Reverse(b), LAMBDA f : t \in Trigrams(case.contents[f]))
  IN SelectSeq([i \in DOMAIN case.batches |-> in(case.batches[i])], LAMBDA b : b # <<>>)
Chain(t) == LET blocks == FilesOf(t) IN [i \in DOMAIN blocks |-> EncodeBlock(IF i = 1 THEN 0 ELSE 1, blocks[i])]

----------------------------------------------------------------------------
(* The caller: query, query_filter, select_files                              *)

\* Trigrams are collected from the expressions; those that the table has an address for
\* are read.
Addressed == {t \in TrigramRefs : t.tri \in DOMAIN index.chains}

\* The files of the chain of a trigram from an address on.
From(t, a) == IF a = 0 THEN <<>> ELSE index.from[t.tri][a]

Init ==
  /\ case \in Cases /\ net = Build(PhraseQuery(case.rule))
  /\ \E T \in {UNION {Trigrams(case.contents[f]) : f \in Files}} :
       index = [chains |-> [t \in T |-> Chain(t)],
                from |-> [t \in T |-> [a \in 1 .. Len(FilesOf(t)) |-> FlattenSeq(Reverse(SubSeq(FilesOf(t), 1, a)))]],
                access |-> [f \in Files |-> Stored(case.submissions[f])]]
  /\ numbers = [t \in Addressed |-> From(t, Len(index.chains[t.tri]))]
  /\ StartEmpty
  /\ reader = [t \in {} |-> 0] /\ pool = PoolSize
  /\ answer = {} /\ broken = {}

NewReader(t) == [pc |-> "load", address |-> Len(index.chains[t.tri]), unread |-> <<>>, buffer |-> <<>>, last |-> 0]

StartQuery ==
  /\ Setup(Addressed)
  /\ Cardinality(TrigramRefs) <= MaxThreads
  /\ reader' = [t \in Addressed |-> NewReader(t)]
  /\ UNCHANGED <<numbers, case, index, pool, answer, broken>>

\* The rows of the files found are read and their control asked.
SelectFiles ==
  /\ RootEnds
  /\ answer' = {f \in Range(found) : CanAccess(index.access[f], case.view)}
  /\ UNCHANGED <<numbers, case, index, reader, pool, broken>>

----------------------------------------------------------------------------
(* The threads of trigrams: TrigramCursor, BlockReader, CobsReader, Pool       *)

Thread(t, pc) ==
  /\ t \in DOMAIN reader /\ reader[t].pc = pc
  /\ UNCHANGED <<numbers, case, index, net, candidate, status, found, answer>>

Finish(t, r) == senders' = senders \ {t} /\ reader' = [r EXCEPT ![t].pc = "ended"]

\* load_batch: the rest of a block, the next block, or the end; Pool::get.
LoadBatch(t) ==
  /\ Thread(t, "load")
  /\ IF reader[t].unread = <<>> /\ reader[t].address = 0
       THEN Finish(t, reader) /\ UNCHANGED pool
       ELSE /\ reader' = [reader EXCEPT ![t].pc = IF pool > 0 THEN "read" ELSE "wait"]
            /\ pool' = IF pool > 0 THEN pool - 1 ELSE pool
            /\ UNCHANGED senders
  /\ UNCHANGED <<chan, broken>>

\* One who was notified tries again.
Wake(t) ==
  /\ Thread(t, "notified")
  /\ reader' = [reader EXCEPT ![t].pc = IF pool > 0 THEN "read" ELSE "wait"]
  /\ pool' = IF pool > 0 THEN pool - 1 ELSE pool
  /\ UNCHANGED <<chan, senders, broken>>

\* A mutant: a file is put back and nobody is told.
PutBackSilently(r) == pool' = pool + 1 /\ reader' = r

\* Lease::drop: the file is put back, and one of those who wait is notified.
PutBack(r) ==
  LET waiting == {t \in DOMAIN r : r[t].pc = "wait"} IN
  /\ pool' = pool + 1
  /\ IF waiting = {} THEN reader' = r
     ELSE \E t \in waiting : reader' = [r EXCEPT ![t].pc = "notified"]

\* A chunk is read and its complete numbers are sent; a new block begins with the
\* offset of the one before, and its highest file.
ReadChunk(t) ==
  /\ Thread(t, "read")
  /\ \E r \in {reader[t]} :
     \E block \in {IF r.unread = <<>> THEN index.chains[t.tri][r.address] ELSE r.unread} :
     \E raw \in {r.buffer \o SubSeq(block, 1, Min({ChunkSize, Len(block)}))} :
       LET begins == r.unread = <<>>
           first == Value(Rest(raw))
           data == IF begins THEN DecodeDecreasing[Rest(Rest(raw)), first] ELSE DecodeDecreasing[raw, r.last]
           next == IF begins THEN (IF Value(raw) = 0 THEN 0 ELSE r.address - Value(raw)) ELSE r.address
           values == IF begins THEN <<first>> \o data.values ELSE data.values
       IN /\ PutBack([reader EXCEPT ![t] =
                        [pc |-> IF values = <<>> \/ Connected(t) THEN "load" ELSE "ended", address |-> next,
                         unread |-> SubSeq(block, ChunkSize + 1, Len(block)), buffer |-> data.buffer, last |-> data.last]])
          /\ SendAll(t, values)
  /\ UNCHANGED broken

\* The error is logged, and the sender dropped as at the end of the chain.
ReadFails(t) ==
  /\ Thread(t, "read") /\ "read" \in Faults /\ broken = {}
  /\ PutBack([reader EXCEPT ![t].pc = "ended"]) /\ senders' = senders \ {t}
  /\ broken' = {t} /\ UNCHANGED chan

RunThread(t) == LoadBatch(t) \/ Wake(t) \/ ReadChunk(t)
Elsewhere == UNCHANGED <<numbers, case, index, reader, pool, answer, broken>>
RunCaller == StartQuery \/ SelectFiles \/ ((SetupFails \/ Receive) /\ Elsewhere)
RunTasks == (\E n \in Numbers : RunTask(n)) /\ Elsewhere

Next ==
  \/ RunCaller \/ RunTasks
  \/ \E t \in DOMAIN reader : RunThread(t) \/ ReadFails(t)

Spec == Init /\ [][Next]_vars

\* Tasks and threads are scheduled.
Fairness == WF_vars(RunCaller) /\ WF_vars(RunTasks) /\ WF_vars(\E t \in DOMAIN reader : RunThread(t))
LiveSpec == Spec /\ Fairness

----------------------------------------------------------------------------
(* Properties *)

TypeOK ==
  /\ status \in {"new", "reading", "failed", "answered"}
  /\ pool \in 0 .. PoolSize /\ pool + Quantify(DOMAIN reader, LAMBDA t : reader[t].pc = "read") = PoolSize
  /\ senders \subseteq Used \cup {net.root}
  /\ Range(found) \subseteq Files

\* Who may see a file: whoever may see one of its submissions.
Visible(f) == \E c \in Range(case.submissions[f]) : Cleared(case.view, c)

\* The trigrams of a file that a rule matches meet the query made from the rule,
\* however its strings are cut into literals, and the file is in the answer if the user
\* may see it, however trigrams are cut into blocks and blocks into chunks, tasks and
\* threads interleave, a batch is repeated after a crash, and controls are merged and
\* simplified; unless a read failed.
AnswerIsComplete ==
  /\ status = "new" => \A f \in Files :
       Matches(case.rule, case.contents[f]) => Selects(PhraseQuery(case.rule), Trigrams(case.contents[f]))
  /\ status = "answered" /\ broken = {} => \A f \in Files \ answer :
       ~(Visible(f) /\ Matches(case.rule, case.contents[f]))

\* A file in the answer holds the trigrams the query asks for, and one of its
\* submissions may be seen by the user; also when a read failed.
AnswerIsAllowed ==
  /\ TypeOK
  /\ \A f \in answer : Visible(f) /\ Selects(PhraseQuery(case.rule), Trigrams(case.contents[f]))

\* The files a thread has not sent, of the block it is at and of the blocks below.
Unsent(t) ==
  LET r == reader[t]
  IN (IF r.unread = <<>> THEN <<>> ELSE DecodeDecreasing[r.buffer \o r.unread, r.last].values) \o From(t, r.address)

Evaluation ==
  INSTANCE Streams WITH stream <- [t \in Addressed |-> IF t \in DOMAIN reader THEN Unsent(t) ELSE numbers[t]]

\* Threads that share files, read blocks in chunks that end within a number, and decode
\* what they have of it, send what is in the chains: every step is one of Streams.
ImplementsStreams == Evaluation!Spec

\* Every query that was begun is answered: tasks do not wait for each other for ever,
\* and no thread waits for a file of the pool that has been put back.
EveryQueryEnds == status = "reading" ~> status = "answered"
=============================================================================
