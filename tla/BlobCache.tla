------------------------------- MODULE BlobCache -------------------------------
(***************************************************************************)
(* The file cache of a worker (src/blob_cache.rs): callers of open share   *)
(* one download of a file and then one handle to it; the space a file      *)
(* takes is reserved before its download and comes back when the last      *)
(* handle is dropped.  The callers are yara tasks (manager.rs:456), each   *)
(* under a request that ends early when the broker goes away.              *)
(*                                                                         *)
(* A load, the handle it produces and the space token in it are one        *)
(* object here, which moves through stages.                                *)
(***************************************************************************)
EXTENDS Integers, FiniteSets

CONSTANTS Label,       \* files
          Size,        \* size of each file
          Capacity,    \* total_space: the configured capacity less the reserve
          Caller,      \* calls of open
          Faults,      \* what may go wrong, see FaultKinds
          MaxLoad      \* bound on the loads started

\* "storage": the file is missing, cannot be downloaded, or has another size by
\* then; "cancel": a caller is dropped while it waits.
FaultKinds == {"storage", "cancel"}

Load == 1 .. MaxLoad

ASSUME SizeAssumption == Size \in [Label -> Nat] /\ Capacity \in Nat
ASSUME BoundAssumption == MaxLoad \in Nat
ASSUME FaultAssumption == Faults \subseteq FaultKinds

VARIABLES
  \* BlobCacheInner, behind one mutex
  openFiles,   \* open_files: the last handle of each label, weak; 0 if none
  loading,     \* loading_files: the load under way for each label, 0 if none
  errors,      \* labels that failed
  free,        \* free_space
  \* loads and what becomes of them
  label,       \* of each load
  stage,       \* see Stages
  \* callers
  pc,          \* "idle", "queued", "polling", "holding", "dropped", ...
  of           \* the load each caller waits for, then the handle it holds

cache == <<openFiles, loading, errors>>
vars == <<cache, free, label, stage, pc, of>>

\* A task: "size" asked, "lock" on space requests, "space" free, "download";
\* its result: "ok" or "failed", until collected; a handle: "shared", then
\* "closing" while its file and token are dropped, "gone".
Stages == {"unused", "size", "lock", "space", "download", "ok", "failed", "shared",
           "closing", "gone"}

Reserved == {n \in Load : stage[n] \in {"download", "ok", "shared", "closing"}}

Init ==
  /\ openFiles = [l \in Label |-> 0] /\ loading = [l \in Label |-> 0]
  /\ errors = {} /\ free = Capacity
  /\ label = [n \in Load |-> CHOOSE l \in Label : TRUE]
  /\ stage = [n \in Load |-> "unused"]
  /\ pc = [c \in Caller |-> "idle"] /\ of = [c \in Caller |-> 0]

----------------------------------------------------------------------------
(* BlobCache::open *)

\* retain, and upgrade: a handle some caller still holds.
Alive(n) == n # 0 /\ stage[n] = "shared"

\* A mutant: a load under way is not looked up.
OpenAlone(c, l) ==
  /\ pc[c] = "idle"
  /\ openFiles' = [k \in Label |-> IF Alive(openFiles[k]) THEN openFiles[k] ELSE 0]
  /\ IF l \in errors
       THEN /\ pc' = [pc EXCEPT ![c] = "error"]
            /\ UNCHANGED <<loading, label, stage, of>>
     ELSE IF Alive(openFiles[l])
       THEN /\ pc' = [pc EXCEPT ![c] = "holding"]
            /\ of' = [of EXCEPT ![c] = openFiles[l]]
            /\ UNCHANGED <<loading, label, stage>>
     ELSE \E n \in Load :
            /\ stage[n] = "unused" /\ \A m \in 1 .. n - 1 : stage[m] # "unused"
            /\ stage' = [stage EXCEPT ![n] = "size"]
            /\ label' = [label EXCEPT ![n] = l]
            /\ loading' = [loading EXCEPT ![l] = n]
            /\ of' = [of EXCEPT ![c] = n]
            /\ pc' = [pc EXCEPT ![c] = "queued"]
  /\ UNCHANGED <<errors, free>>

\* With the cache locked: an earlier error, an open handle, a load to join, or a
\* new one.
Open(c, l) ==
  /\ pc[c] = "idle"
  /\ openFiles' = [k \in Label |-> IF Alive(openFiles[k]) THEN openFiles[k] ELSE 0]
  /\ IF l \in errors
       THEN /\ pc' = [pc EXCEPT ![c] = "error"]
            /\ UNCHANGED <<loading, label, stage, of>>
     ELSE IF Alive(openFiles[l])
       THEN /\ pc' = [pc EXCEPT ![c] = "holding"]
            /\ of' = [of EXCEPT ![c] = openFiles[l]]
            /\ UNCHANGED <<loading, label, stage>>
     ELSE IF loading[l] # 0
       THEN /\ pc' = [pc EXCEPT ![c] = "queued"]
            /\ of' = [of EXCEPT ![c] = loading[l]]
            /\ UNCHANGED <<loading, label, stage>>
     ELSE \E n \in Load :
            /\ stage[n] = "unused" /\ \A m \in 1 .. n - 1 : stage[m] # "unused"
            /\ stage' = [stage EXCEPT ![n] = "size"]
            /\ label' = [label EXCEPT ![n] = l]
            /\ loading' = [loading EXCEPT ![l] = n]
            /\ of' = [of EXCEPT ![c] = n]
            /\ pc' = [pc EXCEPT ![c] = "queued"]
  /\ UNCHANGED <<errors, free>>

Waiting(c) == pc[c] \in {"queued", "polling"}

\* The lock of the LoadingHandle, held across the wait for the task.
LockLoading(c) ==
  /\ pc[c] = "queued"
  /\ \A d \in Caller : pc[d] = "polling" => of[d] # of[c]
  /\ pc' = [pc EXCEPT ![c] = "polling"]
  /\ UNCHANGED <<cache, free, label, stage, of>>

\* The task has produced a handle, which this caller shares from now on.
Collect(c) ==
  /\ pc[c] = "polling" /\ stage[of[c]] = "ok"
  /\ stage' = [stage EXCEPT ![of[c]] = "shared"]
  /\ loading' = [loading EXCEPT ![label[of[c]]] = 0]
  /\ openFiles' = [openFiles EXCEPT ![label[of[c]]] = of[c]]
  /\ pc' = [pc EXCEPT ![c] = "holding"]
  /\ UNCHANGED <<errors, free, label, of>>

CollectError(c) ==
  /\ pc[c] = "polling" /\ stage[of[c]] = "failed"
  /\ stage' = [stage EXCEPT ![of[c]] = "gone"]
  /\ loading' = [loading EXCEPT ![label[of[c]]] = 0]
  /\ errors' = errors \cup {label[of[c]]}
  /\ pc' = [pc EXCEPT ![c] = "error"]
  /\ UNCHANGED <<openFiles, free, label, of>>

\* The JoinHandle is still in the LoadingHandle, but its result is taken: to poll
\* it again panics.
PollCollected(c) ==
  /\ pc[c] = "polling" /\ stage[of[c]] \in {"shared", "closing", "gone"}
  /\ pc' = [pc EXCEPT ![c] = "panicked"]
  /\ UNCHANGED <<cache, free, label, stage, of>>

\* The caller's request ends while it waits.
Cancel(c) ==
  /\ "cancel" \in Faults /\ Waiting(c)
  /\ pc' = [pc EXCEPT ![c] = "dropped"]
  /\ UNCHANGED <<cache, free, label, stage, of>>

\* A handle is dropped; the last one starts to close the file.
Drop(c) ==
  /\ pc[c] = "holding"
  /\ pc' = [pc EXCEPT ![c] = "dropped"]
  /\ stage' = IF \E d \in Caller \ {c} : pc[d] = "holding" /\ of[d] = of[c]
              THEN stage ELSE [stage EXCEPT ![of[c]] = "closing"]
  /\ UNCHANGED <<cache, free, label, of>>

\* The token in the handle gives the space back.
ReturnSpace(n) ==
  /\ stage[n] = "closing"
  /\ stage' = [stage EXCEPT ![n] = "gone"]
  /\ free' = free + Size[label[n]]
  /\ UNCHANGED <<cache, label, pc, of>>

----------------------------------------------------------------------------
(* LoadingHandle::load_file *)

\* A mutant: the size is not compared with the capacity.
CheckSizeOnlyExists(n) ==
  /\ stage[n] = "size"
  /\ \/ stage' = [stage EXCEPT ![n] = "lock"]
     \/ "storage" \in Faults /\ stage' = [stage EXCEPT ![n] = "failed"]
  /\ UNCHANGED <<cache, free, label, pc, of>>

CheckSize(n) ==
  /\ stage[n] = "size"
  /\ \/ stage' = [stage EXCEPT ![n] = IF Size[label[n]] <= Capacity THEN "lock" ELSE "failed"]
     \/ "storage" \in Faults /\ stage' = [stage EXCEPT ![n] = "failed"]
  /\ UNCHANGED <<cache, free, label, pc, of>>

LockSpace(n) ==
  /\ stage[n] = "lock" /\ \A m \in Load : stage[m] # "space"
  /\ stage' = [stage EXCEPT ![n] = "space"]
  /\ UNCHANGED <<cache, free, label, pc, of>>

\* Looked at again when space came back, and every five seconds.
TakeSpace(n) ==
  /\ stage[n] = "space" /\ free >= Size[label[n]]
  /\ free' = free - Size[label[n]]
  /\ stage' = [stage EXCEPT ![n] = "download"]
  /\ UNCHANGED <<cache, label, pc, of>>

\* A mutant: the token of a failed download is forgotten.
DownloadLeaks(n) ==
  /\ stage[n] = "download"
  /\ \/ stage' = [stage EXCEPT ![n] = "ok"]
     \/ "storage" \in Faults /\ stage' = [stage EXCEPT ![n] = "failed"]
  /\ UNCHANGED <<cache, free, label, pc, of>>

\* An error drops the token with the task.
Download(n) ==
  /\ stage[n] = "download"
  /\ \/ stage' = [stage EXCEPT ![n] = "ok"] /\ UNCHANGED free
     \/ /\ "storage" \in Faults
        /\ stage' = [stage EXCEPT ![n] = "failed"]
        /\ free' = free + Size[label[n]]
  /\ UNCHANGED <<cache, label, pc, of>>

----------------------------------------------------------------------------
RunLoad(n) ==
  CheckSize(n) \/ LockSpace(n) \/ TakeSpace(n) \/ Download(n) \/ ReturnSpace(n)

RunCaller(c) ==
  LockLoading(c) \/ Collect(c) \/ CollectError(c) \/ PollCollected(c) \/ Drop(c)

Next ==
  \/ \E c \in Caller : (\E l \in Label : Open(c, l)) \/ RunCaller(c) \/ Cancel(c)
  \/ \E n \in Load : RunLoad(n)

Spec == Init /\ [][Next]_vars

\* Loads run as tasks, locks are given in turn, and who holds a handle drops it:
\* the yara thread scans whatever is in its queue.
Fairness ==
  /\ \A n \in Load : WF_vars(RunLoad(n)) /\ SF_vars(LockSpace(n))
  /\ \A c \in Caller : WF_vars(RunCaller(c))

LiveSpec == Spec /\ Fairness

----------------------------------------------------------------------------
(* Properties *)

\* Every variable holds a value of its kind.
TypeOK ==
  /\ openFiles \in [Label -> Load \cup {0}] /\ loading \in [Label -> Load \cup {0}]
  /\ errors \subseteq Label /\ free \in 0 .. Capacity
  /\ label \in [Load -> Label] /\ stage \in [Load -> Stages]
  /\ pc \in [Caller -> {"idle", "queued", "polling", "holding", "dropped", "error", "panicked"}]
  /\ of \in [Caller -> Load \cup {0}]

\* What the tokens of the loads stand for, in bytes.
Space(n) == {n} \X (1 .. Size[label[n]])
Taken == UNION {Space(n) : n \in Reserved}

\* free_space and the tokens alive make up the capacity: however a load ends, or
\* its callers, no space is lost or given back twice.
SpaceAccounted == TypeOK /\ free + Cardinality(Taken) = Capacity

\* A file is downloaded once for all who want it: two loads or usable handles of
\* one label never exist at a time, although a handle may end between its last
\* use and its removal, and a load may lose the caller that started it.
OneCopyPerLabel ==
  \A m, n \in Load :
    stage[m] \notin {"unused", "closing", "gone"} /\ stage[n] \notin {"unused", "closing", "gone"}
      /\ label[m] = label[n] => m = n

\* A load all of whose callers were dropped: it keeps its space until its label
\* is opened again.
Abandoned(n) ==
  /\ stage[n] = "ok" /\ \A c \in Caller : ~(Waiting(c) /\ of[c] = n)

\* Whoever waits gets a handle or an error, unless space is held by a load that
\* nobody waits for any more.
EveryOpenReturns ==
  \A c \in Caller : Waiting(c) ~> ~Waiting(c) \/ \E n \in Load : Abandoned(n)
=============================================================================
