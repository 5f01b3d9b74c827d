----------------------------- MODULE BlobCacheProofs -----------------------------
(***************************************************************************)
(* What TLAPS proves about BlobCache: a file is loaded once for all its     *)
(* callers, and no space is lost, for every set of files, sizes and         *)
(* callers, every capacity and every kind of failure.                       *)
(***************************************************************************)
EXTENDS BlobCache, FiniteSetTheorems, TLAPS

----------------------------------------------------------------------------
(* The inductive invariant *)

\* TypeOK without the space.
Types ==
  /\ openFiles \in [Label -> Load \cup {0}] /\ loading \in [Label -> Load \cup {0}]
  /\ errors \subseteq Label
  /\ label \in [Load -> Label] /\ stage \in [Load -> Stages]
  /\ pc \in [Caller -> {"idle", "queued", "polling", "holding", "dropped", "error", "panicked"}]
  /\ of \in [Caller -> Load \cup {0}]

Loading == {"size", "lock", "space", "download", "ok", "failed"}

\* loading_files has every load, until a caller collects its result, and nothing else.
LoadingOK ==
  /\ \A n \in Load : stage[n] \in Loading => loading[label[n]] = n
  /\ \A l \in Label : loading[l] # 0 => stage[loading[l]] \in Loading /\ label[loading[l]] = l

\* open_files has every usable handle under its label, next to no load.
OpenOK ==
  /\ \A n \in Load : stage[n] = "shared" => openFiles[label[n]] = n
  /\ \A l \in Label : openFiles[l] # 0 =>
       stage[openFiles[l]] \in {"shared", "closing", "gone"} /\ label[openFiles[l]] = l
  /\ \A l \in Label : loading[l] # 0 => ~Alive(openFiles[l])

\* Callers wait for loads, and hold handles.
CallersOK ==
  \A c \in Caller :
    /\ Waiting(c) => of[c] \in Load
    /\ pc[c] = "holding" => of[c] \in Load /\ stage[of[c]] = "shared"

IInv == Types /\ LoadingOK /\ OpenOK /\ CallersOK

LEMMA LoadsAreNumbers == Load \subseteq Nat /\ 0 \notin Load
BY BoundAssumption DEF Load

LEMMA InitInv == ASSUME Init, Label # {} PROVE IInv
BY LoadsAreNumbers DEF Init, IInv, Types, LoadingOK, OpenOK, CallersOK, Stages, Loading, Waiting, Alive

----------------------------------------------------------------------------
(* Every step preserves it *)

\* What retain leaves is what was there, for every usable handle.
LEMMA RetainKeeps ==
  ASSUME IInv, openFiles' = [k \in Label |-> IF Alive(openFiles[k]) THEN openFiles[k] ELSE 0]
  PROVE  /\ openFiles' \in [Label -> Load \cup {0}]
         /\ \A l \in Label : openFiles'[l] # 0 => openFiles'[l] = openFiles[l] /\ stage[openFiles[l]] = "shared"
         /\ \A n \in Load : stage[n] = "shared" => openFiles'[label[n]] = n
BY LoadsAreNumbers DEF IInv, Types, OpenOK, Alive

LEMMA OpenInv == ASSUME IInv, NEW c \in Caller, NEW l \in Label, Open(c, l) PROVE IInv'
<1>1. /\ openFiles' \in [Label -> Load \cup {0}]
      /\ \A k \in Label : openFiles'[k] # 0 => openFiles'[k] = openFiles[k] /\ stage[openFiles[k]] = "shared"
      /\ \A n \in Load : stage[n] = "shared" => openFiles'[label[n]] = n
  BY RetainKeeps DEF Open
<1>2. CASE l \in errors
  <2>1. /\ pc' = [pc EXCEPT ![c] = "error"]
        /\ UNCHANGED <<loading, label, stage, of, errors>>
    BY <1>2 DEF Open
  <2> QED BY <1>1, <2>1, LoadsAreNumbers
          DEF IInv, Types, LoadingOK, OpenOK, CallersOK, Waiting, Alive
<1>3. CASE l \notin errors /\ Alive(openFiles[l])
  <2>1. /\ pc' = [pc EXCEPT ![c] = "holding"] /\ of' = [of EXCEPT ![c] = openFiles[l]]
        /\ UNCHANGED <<loading, label, stage, errors>>
    BY <1>3 DEF Open
  <2>2. openFiles[l] \in Load /\ stage[openFiles[l]] = "shared"
    BY <1>3 DEF IInv, Types, Alive
  <2> QED BY <1>1, <2>1, <2>2, LoadsAreNumbers
          DEF IInv, Types, LoadingOK, OpenOK, CallersOK, Waiting, Alive
<1>4. CASE l \notin errors /\ ~Alive(openFiles[l]) /\ loading[l] # 0
  <2>1. /\ pc' = [pc EXCEPT ![c] = "queued"] /\ of' = [of EXCEPT ![c] = loading[l]]
        /\ UNCHANGED <<loading, label, stage, errors>>
    BY <1>4 DEF Open
  <2>2. loading[l] \in Load
    BY <1>4 DEF IInv, Types
  <2> QED BY <1>1, <2>1, <2>2, LoadsAreNumbers
          DEF IInv, Types, LoadingOK, OpenOK, CallersOK, Waiting, Alive
<1>5. CASE l \notin errors /\ ~Alive(openFiles[l]) /\ loading[l] = 0
  <2>1. PICK n \in Load :
          /\ stage[n] = "unused" /\ stage' = [stage EXCEPT ![n] = "size"]
          /\ label' = [label EXCEPT ![n] = l] /\ loading' = [loading EXCEPT ![l] = n]
          /\ of' = [of EXCEPT ![c] = n] /\ pc' = [pc EXCEPT ![c] = "queued"]
          /\ UNCHANGED errors
    BY <1>5 DEF Open
  <2>2. Types'
    BY <1>1, <2>1 DEF IInv, Types, Stages
  <2>3. \A k \in Label : loading[k] # n /\ openFiles'[k] # n
    BY <1>1, <2>1, LoadsAreNumbers DEF IInv, LoadingOK, Loading
  <2>4. \A m \in Load \ {n} : stage'[m] = stage[m] /\ label'[m] = label[m]
    BY <2>1 DEF IInv, Types
  <2>5. stage'[n] = "size" /\ label'[n] = l
    BY <2>1 DEF IInv, Types
  <2>6. LoadingOK'
    BY <1>5, <2>1, <2>2, <2>3, <2>4, <2>5, LoadsAreNumbers DEF IInv, Types, LoadingOK, Loading
  <2>7. openFiles'[l] = 0
    BY <1>1, <1>5 DEF Alive
  <2>8. OpenOK'
    BY <1>1, <2>1, <2>2, <2>3, <2>4, <2>5, <2>7, LoadsAreNumbers DEF IInv, Types, OpenOK, Alive
  <2>9. CallersOK'
    BY <2>1, <2>2, <2>4, <2>5 DEF IInv, Types, CallersOK, Waiting
  <2> QED BY <2>2, <2>6, <2>8, <2>9 DEF IInv
<1> QED BY <1>2, <1>3, <1>4, <1>5

LEMMA LockLoadingInv == ASSUME IInv, NEW c \in Caller, LockLoading(c) PROVE IInv'
BY DEF LockLoading, IInv, Types, LoadingOK, OpenOK, CallersOK, Waiting, Alive, cache

LEMMA CollectInv == ASSUME IInv, NEW c \in Caller, Collect(c) PROVE IInv'
<1> DEFINE n == of[c] l == label[n]
<1>1. /\ n \in Load /\ l \in Label /\ stage[n] = "ok" /\ loading[l] = n
  BY DEF Collect, IInv, Types, CallersOK, Waiting, LoadingOK, Loading
<1>2. /\ stage' = [stage EXCEPT ![n] = "shared"] /\ loading' = [loading EXCEPT ![l] = 0]
      /\ openFiles' = [openFiles EXCEPT ![l] = n] /\ pc' = [pc EXCEPT ![c] = "holding"]
      /\ UNCHANGED <<errors, label, of>>
  BY DEF Collect
<1>3. Types'
  BY <1>1, <1>2 DEF IInv, Types, Stages
<1>4. \A k \in Label : k # l => loading[k] # n /\ openFiles[k] # n
  BY <1>1, LoadsAreNumbers DEF IInv, LoadingOK, OpenOK
<1>5. \A m \in Load : stage[m] = "shared" => label[m] # l
  BY <1>1, LoadsAreNumbers DEF IInv, OpenOK, Alive
<1>6. \A m \in Load : stage[m] \in Loading /\ label[m] = l => m = n
  BY <1>1 DEF IInv, LoadingOK
<1>7. LoadingOK'
  BY <1>1, <1>2, <1>4, <1>6, LoadsAreNumbers DEF IInv, Types, LoadingOK, Loading
<1>8. OpenOK'
  BY <1>1, <1>2, <1>4, <1>5, LoadsAreNumbers DEF IInv, Types, OpenOK, Alive
<1>9. CallersOK'
  BY <1>1, <1>2 DEF IInv, Types, CallersOK, Waiting
<1> QED BY <1>3, <1>7, <1>8, <1>9 DEF IInv

LEMMA CollectErrorInv == ASSUME IInv, NEW c \in Caller, CollectError(c) PROVE IInv'
<1> DEFINE n == of[c] l == label[n]
<1>1. /\ n \in Load /\ l \in Label /\ stage[n] = "failed" /\ loading[l] = n
  BY DEF CollectError, IInv, Types, CallersOK, Waiting, LoadingOK, Loading
<1>2. /\ stage' = [stage EXCEPT ![n] = "gone"] /\ loading' = [loading EXCEPT ![l] = 0]
      /\ errors' = errors \cup {l} /\ pc' = [pc EXCEPT ![c] = "error"]
      /\ UNCHANGED <<openFiles, label, of>>
  BY DEF CollectError
<1>3. Types'
  BY <1>1, <1>2 DEF IInv, Types, Stages
<1>4. \A k \in Label : k # l => loading[k] # n
  BY <1>1, LoadsAreNumbers DEF IInv, LoadingOK
<1>5. LoadingOK'
  BY <1>1, <1>2, <1>4, LoadsAreNumbers DEF IInv, Types, LoadingOK, Loading
<1>6. OpenOK'
  BY <1>1, <1>2, LoadsAreNumbers DEF IInv, Types, OpenOK, Alive
<1>7. CallersOK'
  BY <1>1, <1>2 DEF IInv, Types, CallersOK, Waiting
<1> QED BY <1>3, <1>5, <1>6, <1>7 DEF IInv

LEMMA PollCollectedInv == ASSUME IInv, NEW c \in Caller, PollCollected(c) \/ Cancel(c) PROVE IInv'
BY DEF PollCollected, Cancel, IInv, Types, LoadingOK, OpenOK, CallersOK, Waiting, Alive, cache

LEMMA DropInv == ASSUME IInv, NEW c \in Caller, Drop(c) PROVE IInv'
<1> DEFINE n == of[c]
<1>1. n \in Load /\ stage[n] = "shared" /\ pc[c] = "holding"
  BY DEF Drop, IInv, CallersOK
<1>2. pc' = [pc EXCEPT ![c] = "dropped"] /\ UNCHANGED <<openFiles, loading, errors, label, of>>
  BY DEF Drop, cache
<1>3. CASE stage' = stage
  BY <1>2, <1>3 DEF IInv, Types, LoadingOK, OpenOK, CallersOK, Waiting, Alive
<1>4. CASE /\ stage' = [stage EXCEPT ![n] = "closing"]
           /\ \A d \in Caller \ {c} : ~(pc[d] = "holding" /\ of[d] = n)
  <2>1. Types' /\ stage'[n] = "closing" /\ \A m \in Load \ {n} : stage'[m] = stage[m]
    BY <1>1, <1>2, <1>4 DEF IInv, Types, Stages
  <2>2. LoadingOK'
    BY <1>1, <1>2, <2>1 DEF IInv, Types, LoadingOK, Loading
  <2>3. OpenOK'
    BY <1>1, <1>2, <2>1 DEF IInv, Types, OpenOK, Alive
  <2>4. CallersOK'
    BY <1>1, <1>2, <1>4, <2>1 DEF IInv, Types, CallersOK, Waiting
  <2> QED BY <2>1, <2>2, <2>3, <2>4 DEF IInv
<1> QED BY <1>3, <1>4 DEF Drop

\* A load that goes on from one stage of loading to another, or a handle that closes.
LEMMA RunLoadInv == ASSUME IInv, NEW n \in Load, RunLoad(n) PROVE IInv'
<1>1. /\ \/ stage[n] \in Loading /\ stage'[n] \in Loading
         \/ stage[n] = "closing" /\ stage'[n] = "gone"
      /\ stage' \in [Load -> Stages] /\ \A m \in Load \ {n} : stage'[m] = stage[m]
      /\ UNCHANGED <<openFiles, loading, errors, label, pc, of>>
  BY DEF RunLoad, CheckSize, LockSpace, TakeSpace, Download, ReturnSpace, cache, Loading, IInv, Types, Stages
<1>2. Types'
  BY <1>1 DEF IInv, Types
<1>3. LoadingOK'
  BY <1>1 DEF IInv, Types, LoadingOK, Loading
<1>4. OpenOK'
  BY <1>1 DEF IInv, Types, OpenOK, Alive, Loading
<1>5. CallersOK'
  BY <1>1 DEF IInv, Types, CallersOK, Waiting, Loading
<1> QED BY <1>2, <1>3, <1>4, <1>5 DEF IInv

LEMMA StepInv == IInv /\ [Next]_vars => IInv'
<1> SUFFICES ASSUME IInv, [Next]_vars PROVE IInv'
  OBVIOUS
<1>1. CASE \E c \in Caller : (\E l \in Label : Open(c, l)) \/ RunCaller(c) \/ Cancel(c)
  BY <1>1, OpenInv, LockLoadingInv, CollectInv, CollectErrorInv, PollCollectedInv, DropInv DEF RunCaller
<1>2. CASE \E n \in Load : RunLoad(n)
  BY <1>2, RunLoadInv
<1>3. CASE UNCHANGED vars
  BY <1>3 DEF vars, cache, IInv, Types, LoadingOK, OpenOK, CallersOK, Waiting, Alive
<1> QED BY <1>1, <1>2, <1>3 DEF Next

----------------------------------------------------------------------------
(* Space *)

SpaceOK == IsFiniteSet(Taken) /\ free \in Nat /\ free + Cardinality(Taken) = Capacity

\* A load's space is as large as its file.
LEMMA SpaceSize ==
  ASSUME Types, NEW n \in Load
  PROVE  IsFiniteSet(Space(n)) /\ Cardinality(Space(n)) = Size[label[n]] /\ Size[label[n]] \in Nat
<1>1. Size[label[n]] \in Nat
  BY SizeAssumption DEF Types
<1>2. IsFiniteSet({n}) /\ Cardinality({n}) = 1
  BY FS_Singleton
<1>3. IsFiniteSet(1 .. Size[label[n]]) /\ Cardinality(1 .. Size[label[n]]) = Size[label[n]]
  <2> DEFINE size == Size[label[n]]
  <2>1. size \in Nat /\ 1 \in Int /\ size \in Int
    BY <1>1
  <2> HIDE DEF size
  <2>2. IsFiniteSet(1 .. size) /\ Cardinality(1 .. size) = IF 1 > size THEN 0 ELSE size - 1 + 1
    BY <2>1, FS_Interval
  <2>3. Cardinality(1 .. size) = size
    BY <2>1, <2>2
  <2> QED  BY <2>2, <2>3 DEF size
<1>4. IsFiniteSet(Space(n)) /\ Cardinality(Space(n)) = 1 * Size[label[n]]
  BY <1>2, <1>3, FS_Product DEF Space
<1> QED BY <1>1, <1>4

\* Two loads have no space in common.
LEMMA SpaceApart == ASSUME NEW m, NEW n, m # n PROVE Space(m) \cap Space(n) = {}
BY DEF Space

LEMMA SpaceKept ==
  ASSUME SpaceOK, UNCHANGED free, Reserved' = Reserved, \A n \in Reserved : label'[n] = label[n]
  PROVE  SpaceOK'
<1>1. \A n \in Reserved : Space(n)' = Space(n)
  BY DEF Space
<1>2. Taken' = Taken
  BY <1>1 DEF Taken
<1> QED BY <1>2 DEF SpaceOK

LEMMA SpaceTaken ==
  ASSUME Types, SpaceOK, NEW n \in Load \ Reserved, Reserved' = Reserved \cup {n}, UNCHANGED label,
         free >= Size[label[n]], free' = free - Size[label[n]]
  PROVE  SpaceOK'
<1>1. Taken' = Taken \cup Space(n)
  BY DEF Taken, Space
<1>2. Taken \cap Space(n) = {}
  BY SpaceApart DEF Taken
<1>3. IsFiniteSet(Taken') /\ Cardinality(Taken') = Cardinality(Taken) + Cardinality(Space(n)) - Cardinality({})
  BY <1>1, <1>2, SpaceSize, FS_Union DEF SpaceOK
<1>4. Cardinality({}) = 0 /\ Cardinality(Taken) \in Nat
  BY FS_EmptySet, FS_CardinalityType DEF SpaceOK
<1> QED BY <1>3, <1>4, SpaceSize, SizeAssumption DEF SpaceOK

LEMMA SpaceReturned ==
  ASSUME Types, SpaceOK, NEW n \in Reserved, Reserved' = Reserved \ {n}, UNCHANGED label,
         free' = free + Size[label[n]]
  PROVE  SpaceOK'
<1>1. n \in Load
  BY DEF Reserved
<1>2. \A m \in Reserved \ {n} : Space(m) \cap Space(n) = {}
  BY SpaceApart
<1>3. Taken' = Taken \ Space(n) /\ Space(n) \subseteq Taken
  BY <1>2 DEF Taken, Space
<1>4. Taken \cap Space(n) = Space(n)
  BY <1>3
<1>5. IsFiniteSet(Taken') /\ Cardinality(Taken') = Cardinality(Taken) - Cardinality(Space(n))
  <2>1. IsFiniteSet(Taken)
    BY DEF SpaceOK
  <2>2. /\ IsFiniteSet(Taken \ Space(n))
        /\ Cardinality(Taken \ Space(n)) = Cardinality(Taken) - Cardinality(Taken \cap Space(n))
    BY <2>1, FS_Difference
  <2> QED BY <1>3, <1>4, <2>2
<1>6. Cardinality(Taken) \in Nat
  BY FS_CardinalityType DEF SpaceOK
<1> QED BY <1>1, <1>5, <1>6, SpaceSize, SizeAssumption DEF SpaceOK

LEMMA SpaceStep == IInv /\ SpaceOK /\ [Next]_vars => SpaceOK'
<1> SUFFICES ASSUME IInv, SpaceOK, [Next]_vars PROVE SpaceOK'
  OBVIOUS
<1> USE DEF IInv
<1>1. ASSUME NEW c \in Caller, NEW l \in Label, Open(c, l) PROVE SpaceOK'
  <2>1. CASE UNCHANGED <<label, stage>>
    BY <1>1, <2>1, SpaceKept DEF Open, Reserved
  <2>2. CASE \E n \in Load : /\ stage[n] = "unused" /\ stage' = [stage EXCEPT ![n] = "size"]
                             /\ label' = [label EXCEPT ![n] = l]
    BY <1>1, <2>2, SpaceKept DEF Open, Reserved, Types
  <2> QED BY <1>1, <2>1, <2>2 DEF Open
<1>2. ASSUME NEW c \in Caller, LockLoading(c) \/ PollCollected(c) \/ Cancel(c) PROVE SpaceOK'
  BY <1>2, SpaceKept DEF LockLoading, PollCollected, Cancel, Reserved
<1>3. ASSUME NEW c \in Caller, Collect(c) \/ CollectError(c) \/ Drop(c) PROVE SpaceOK'
  <2>1. of[c] \in Load /\ (Drop(c) => stage[of[c]] = "shared")
    BY <1>3 DEF Collect, CollectError, Drop, CallersOK, Waiting
  <2>2. Reserved' = Reserved
    BY <1>3, <2>1 DEF Collect, CollectError, Drop, Reserved, Types
  <2> QED BY <1>3, <2>2, SpaceKept DEF Collect, CollectError, Drop
<1>4. ASSUME NEW n \in Load, RunLoad(n) PROVE SpaceOK'
  <2>1. CASE CheckSize(n) \/ LockSpace(n)
    <3>1. Reserved' = Reserved
      BY <2>1 DEF CheckSize, LockSpace, Reserved, Types
    <3> QED BY <2>1, <3>1, SpaceKept DEF CheckSize, LockSpace
  <2>2. CASE TakeSpace(n)
    <3>1. n \notin Reserved /\ Reserved' = Reserved \cup {n}
      BY <2>2 DEF TakeSpace, Reserved, Types
    <3> QED BY <2>2, <3>1, SpaceTaken DEF TakeSpace
  <2>3. CASE Download(n)
    <3>1. CASE stage' = [stage EXCEPT ![n] = "ok"] /\ UNCHANGED free
      <4>1. Reserved' = Reserved
        BY <2>3, <3>1 DEF Download, Reserved, Types
      <4> QED BY <2>3, <3>1, <4>1, SpaceKept DEF Download
    <3>2. CASE stage' = [stage EXCEPT ![n] = "failed"] /\ free' = free + Size[label[n]]
      <4>1. n \in Reserved /\ Reserved' = Reserved \ {n}
        BY <2>3, <3>2 DEF Download, Reserved, Types
      <4> QED BY <2>3, <3>2, <4>1, SpaceReturned DEF Download
    <3> QED BY <2>3, <3>1, <3>2 DEF Download
  <2>4. CASE ReturnSpace(n)
    <3>1. n \in Reserved /\ Reserved' = Reserved \ {n}
      BY <2>4 DEF ReturnSpace, Reserved, Types
    <3> QED BY <2>4, <3>1, SpaceReturned DEF ReturnSpace
  <2> QED BY <1>4, <2>1, <2>2, <2>3, <2>4 DEF RunLoad
<1>5. CASE UNCHANGED vars
  BY <1>5, SpaceKept DEF vars, Reserved
<1> QED BY <1>1, <1>2, <1>3, <1>4, <1>5 DEF Next, RunCaller

----------------------------------------------------------------------------
(* The theorems *)

\* Two loads, or a load and a usable handle, or two handles of one file never
\* exist at a time, whoever asks, is dropped, or lets go.
THEOREM LoadedOnce == ASSUME Label # {} PROVE Spec => []OneCopyPerLabel
<1>1. Init => IInv
  BY InitInv
<1>2. IInv => OneCopyPerLabel
  BY LoadsAreNumbers DEF IInv, Types, LoadingOK, OpenOK, Loading, Stages, Alive, OneCopyPerLabel
<1> QED BY <1>1, <1>2, StepInv, PTL DEF Spec

\* No space is lost or given back twice, whatever fails and whoever is dropped: what is
\* free and what the tokens stand for make up the capacity (blob_cache.rs:205-290).
THEOREM NoSpaceLost == ASSUME Label # {} PROVE Spec => []SpaceAccounted
<1>1. Init => IInv /\ SpaceOK
  <2>1. Init => Taken = {}
    BY DEF Init, Taken, Reserved
  <2> QED BY <2>1, InitInv, FS_EmptySet, SizeAssumption DEF Init, SpaceOK
<1>2. IInv /\ SpaceOK => SpaceAccounted
  BY FS_CardinalityType, SizeAssumption DEF IInv, Types, SpaceOK, SpaceAccounted, TypeOK
<1> QED BY <1>1, <1>2, StepInv, SpaceStep, PTL DEF Spec
=============================================================================
