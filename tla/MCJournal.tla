------------------------------- MODULE MCJournal -------------------------------
(* Small instance of Journal for TLC. *)
EXTENDS JournalProperties, TLC

MCTrigram == {1, 2}

\* Two files; the first has both trigrams, the second has one.
MCBatches == {(1 :> {1} @@ 2 :> {1}), (1 :> {2} @@ 2 :> {})}

\* For liveness and queries: batches that all say the same.
OneBatch == {(1 :> {1} @@ 2 :> {1})}

\* What an inode held before nothing referred to it any more cannot be observed.
View ==
  LET kept(f, x) == [i \in Inode |-> IF i \in Free THEN x ELSE f[i]]
  IN <<kept(file, <<>>), kept(durable, 0), data, tail, newData, newTail,
       mode, running, handle, writer, queries>>

InodeSymmetry == Permutations(Inode)
=============================================================================
