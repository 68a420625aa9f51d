-------------------------- MODULE ClientHelperProofs --------------------------
(***************************************************************************)
(* Proofs about ClientHelper, for any number of UIDs, calls and restarts,  *)
(* and that it implements CredStore.                                       *)
(***************************************************************************)
EXTENDS ClientHelper, TLAPS

Bound(c) == uid[c] # "none"

(* A UID belongs to one call, which has one as soon as it makes a folder.  *)
UidInv ==
  /\ \A c \in Call : Bound(c) <=> hpc[c] \notin {"idle", "rejected"}
  /\ \A b, c \in Call : Bound(b) /\ uid[b] = uid[c] => b = c

(* The task starts after the handler recorded the UID.                     *)
TaskInv ==
  \A c \in Call :
    /\ hpc[c] \in {"idle", "rejected", "copied", "inserted", "aborted", "panicked"}
         => tpc[c] = "none"
    /\ hpc[c] \in {"spawned", "answered"} => tpc[c] # "none"

(* What an entry says about the one call that owns its UID.                *)
EntryInv ==
  \A u \in Uid :
    /\ tasks[u] \in Call => uid[tasks[u]] = u /\ tpc[tasks[u]] = "done"
    /\ tasks[u] = "preparing" =>
         \E c \in Call : uid[c] = u /\ (Live(c) \/ Panicked(c))

(* A folder nobody asked to delete is as PrepareFolder left it, or fuller. *)
FolderInv ==
  \A c \in Call :
    hpc[c] \notin {"idle", "rejected", "aborted"} /\ uid[c] \notin touched
      => {"dir"} \cup shared(schema[c]) \subseteq folder[uid[c]]

DeleteInv ==
  /\ \A d \in Deleter : dpc[d] # "idle" => duid[d] \in Known \cap touched
  /\ \A d \in Deleter : dpc[d] = "removed" => folder[duid[d]] = {}

GoneInv == gone \subseteq Known /\ \A u \in gone : folder[u] = {}

SettledInv ==
  \A u \in settled :
    /\ tasks[u] = "absent"
    /\ \E c \in Call : uid[c] = u /\ hpc[c] = "answered" /\ tpc[c] \notin TaskRunning

ShowInv ==
  \A s \in Shower : spc[s] # "idle" =>
    lock = s /\ suid[s] \in Uid /\ tasks[suid[s]] \in Call

(* TypeInv is defined with the proof of type correctness below.            *)
Inv == /\ UidInv
       /\ TaskInv
       /\ EntryInv
       /\ FolderInv
       /\ DeleteInv
       /\ GoneInv
       /\ SettledInv
       /\ ShowInv

-------------------------------------------------------------------------------
(***************************************************************************)
(* Type correctness                                                        *)
(***************************************************************************)

USE DEF prepareVars, deleteVars, showVars, history, SetTask, SetHandler, Put

LEMMA FirstStepType == ASSUME NEW c \in Call
                       PROVE  FirstStep(c) \in TaskRunning
  BY DEF FirstStep, TaskRunning

(* What keeps "none" out of Known and out of the histories.                *)
TypeInv ==
  /\ TypeOK
  /\ \A c \in Call : hpc[c] \notin {"idle", "rejected"} => uid[c] \in Uid
  /\ \A d \in Deleter : dpc[d] # "idle" => duid[d] \in Uid

LEMMA KnownUids == TypeInv => Known \subseteq Uid
  BY DEF TypeInv, Known

LEMMA TypeInit == Init => TypeInv
  BY RestartsAssumption DEF Init, TypeInv, TypeOK, Entry

LEMMA TypeNext == TypeInv /\ [Next]_vars => TypeInv'
  <1> SUFFICES ASSUME TypeInv, [Next]_vars PROVE TypeInv'
    OBVIOUS
  <1>1. ASSUME NEW c \in Call, Prepare(c) PROVE TypeInv'
    <2>1. CASE PrepareReject(c)
      BY <2>1 DEF PrepareReject, TypeInv, TypeOK
    <2>2. CASE PrepareFolder(c)
      <3>1. PICK u \in compute_cred_uid, s \in RequestedSchema \cap SCHEMA_UIDS :
               /\ uid' = [uid EXCEPT ![c] = u]
               /\ schema' = [schema EXCEPT ![c] = s]
               /\ \/ /\ folder' = [folder EXCEPT ![u] = {"dir"} \cup shared(s)]
                     /\ hpc' = [hpc EXCEPT ![c] = "copied"]
                  \/ /\ folder' = [folder EXCEPT ![u] = {"dir"}]
                     /\ hpc' = [hpc EXCEPT ![c] = "aborted"]
        BY <2>2 DEF PrepareFolder
      <3>2. u \in Uid /\ shared(s) \subseteq FolderEntry /\ "dir" \in FolderEntry
        BY DEF compute_cred_uid, shared, FolderEntry
      <3>3. folder' \in [Uid -> SUBSET FolderEntry]
        BY <3>1, <3>2 DEF TypeInv, TypeOK
      <3>4. hpc' \in [Call -> {"idle", "rejected", "copied", "inserted", "spawned",
                               "answered", "aborted", "panicked", "dropped"}]
        BY <3>1 DEF TypeInv, TypeOK
      <3>5. uid' \in [Call -> Uid \cup {"none"}] /\ uid'[c] \in Uid
        BY <3>1, <3>2 DEF TypeInv, TypeOK
      <3>6. \A b \in Call : hpc'[b] \notin {"idle", "rejected"} => uid'[b] \in Uid
        BY <3>1, <3>5 DEF TypeInv, TypeOK
      <3>7. schema' \in [Call -> SCHEMA_UIDS \cup {"none"}]
        BY <3>1 DEF TypeInv, TypeOK
      <3>8. QED
        BY <2>2, <3>3, <3>4, <3>5, <3>6, <3>7 DEF PrepareFolder, TypeInv, TypeOK
    <2>3. CASE PrepareInsert(c)
      BY <2>3 DEF PrepareInsert, TypeInv, TypeOK, Entry
    <2>4. CASE PrepareSpawn(c)
      BY <2>4, FirstStepType DEF PrepareSpawn, TypeInv, TypeOK
    <2>5. CASE PrepareClaimsPanic(c)
      BY <2>5 DEF PrepareClaimsPanic, TypeInv, TypeOK
    <2>6. CASE PrepareAnswer(c)
      BY <2>6 DEF PrepareAnswer, TypeInv, TypeOK
    <2>7. QED
      BY <1>1, <2>1, <2>2, <2>3, <2>4, <2>5, <2>6 DEF Prepare
  <1>2. ASSUME NEW c \in Call, Task(c) PROVE TypeInv'
    <2>1. CASE TaskFetch(c)
      BY <2>1 DEF TaskFetch, TaskOnly, TypeInv, TypeOK, TaskRunning, FolderEntry
    <2>2. CASE TaskPaths(c)
      BY <2>2 DEF TaskPaths, TaskOnly, TypeInv, TypeOK, TaskRunning, FolderEntry, WithCache
    <2>3. CASE TaskLoad(c)
      BY <2>3 DEF TaskLoad, TaskOnly, TypeInv, TypeOK, TaskRunning
    <2>4. CASE TaskBuild(c)
      BY <2>4 DEF TaskBuild, TaskOnly, TypeInv, TypeOK, TaskRunning
    <2>5. CASE TaskStore(c)
      BY <2>5 DEF TaskStore, TypeInv, TypeOK, Entry
    <2>6. CASE TaskError(c)
      BY <2>6 DEF TaskError, TypeInv, TypeOK, Entry
    <2>7. QED
      BY <1>2, <2>1, <2>2, <2>3, <2>4, <2>5, <2>6 DEF Task
  <1>3. ASSUME NEW d \in Deleter, Delete(d) PROVE TypeInv'
    <2>1. CASE DeleteBegin(d)
      BY <2>1, KnownUids DEF DeleteBegin, TypeInv, TypeOK
    <2>2. CASE DeleteUnlink(d)
      BY <2>2 DEF DeleteUnlink, TypeInv, TypeOK
    <2>3. CASE DeleteRmdir(d)
      BY <2>3 DEF DeleteRmdir, TypeInv, TypeOK
    <2>4. CASE DeleteEntry(d)
      BY <2>4 DEF DeleteEntry, TypeInv, TypeOK, Entry
    <2>5. QED
      BY <1>3, <2>1, <2>2, <2>3, <2>4 DEF Delete
  <1>4. ASSUME NEW s \in Shower, Show(s) PROVE TypeInv'
    <2>1. CASE ShowBegin(s)
      BY <2>1, KnownUids DEF ShowBegin, WhileProving, TypeInv, TypeOK
    <2>2. CASE ShowSign(s)
      BY <2>2 DEF ShowSign, ShowReturns, TypeInv, TypeOK
    <2>3. CASE ShowProve(s)
      BY <2>3 DEF ShowProve, ShowReturns, TypeInv, TypeOK
    <2>4. QED
      BY <1>4, <2>1, <2>2, <2>3 DEF Show
  <1>5. CASE Restart
    BY <1>5, RestartsAssumption DEF Restart, TypeInv, TypeOK, Entry
  <1>6. CASE UNCHANGED vars
    BY <1>6 DEF vars, TypeInv, TypeOK
  <1>7. QED
    BY <1>1, <1>2, <1>3, <1>4, <1>5, <1>6 DEF Next

(***************************************************************************)
(* Every variable of the helper keeps its type in every behaviour.         *)
(***************************************************************************)
THEOREM TypeCorrect == Spec => []TypeOK
  <1>1. Spec => []TypeInv
    BY TypeInit, TypeNext, PTL DEF Spec
  <1>2. TypeInv => TypeOK
    BY DEF TypeInv
  <1>3. QED
    BY <1>1, <1>2, PTL
-------------------------------------------------------------------------------
(***************************************************************************)
(* What each kind of step leaves alone                                     *)
(***************************************************************************)

LEMMA PrepareFrame ==
  ASSUME NEW c \in Call, Prepare(c)
  PROVE  UNCHANGED <<deleteVars, showVars, restarts, history>>
  BY DEF Prepare, PrepareReject, PrepareFolder, PrepareInsert, PrepareSpawn,
         PrepareClaimsPanic, PrepareAnswer

LEMMA TaskFrame ==
  ASSUME NEW c \in Call, Task(c)
  PROVE  UNCHANGED <<hpc, uid, schema, deleteVars, showVars, restarts, history>>
  BY DEF Task, TaskFetch, TaskPaths, TaskLoad, TaskBuild, TaskStore, TaskError,
         TaskOnly

LEMMA DeleteFrame ==
  ASSUME NEW d \in Deleter, Delete(d)
  PROVE  UNCHANGED <<prepareVars, showVars, restarts>>
  BY DEF Delete, DeleteBegin, DeleteUnlink, DeleteRmdir, DeleteEntry

LEMMA ShowFrame ==
  ASSUME NEW s \in Shower, Show(s)
  PROVE  UNCHANGED <<tasks, folder, prepareVars, deleteVars, restarts, history>>
  BY DEF Show, ShowBegin, ShowSign, ShowProve

(* The UID a new call draws is no other call's.                            *)
LEMMA FreshUid ==
  ASSUME TypeInv, NEW c \in Call, PrepareFolder(c)
  PROVE  \E u \in Uid :
           /\ \A b \in Call : uid[b] # u
           /\ uid' = [uid EXCEPT ![c] = u]
           /\ \/ /\ hpc' = [hpc EXCEPT ![c] = "copied"]
                 /\ folder' = [folder EXCEPT ![u] = {"dir"} \cup shared(schema'[c])]
              \/ /\ hpc' = [hpc EXCEPT ![c] = "aborted"]
                 /\ folder' = [folder EXCEPT ![u] = {"dir"}]
           /\ \A b \in Call \ {c} : schema'[b] = schema[b]
           /\ UNCHANGED <<tasks, tpc>>
  <1>1. PICK u \in compute_cred_uid, s \in RequestedSchema \cap SCHEMA_UIDS :
           /\ uid' = [uid EXCEPT ![c] = u]
           /\ schema' = [schema EXCEPT ![c] = s]
           /\ \/ /\ folder' = [folder EXCEPT ![u] = {"dir"} \cup shared(s)]
                 /\ hpc' = [hpc EXCEPT ![c] = "copied"]
              \/ /\ folder' = [folder EXCEPT ![u] = {"dir"}]
                 /\ hpc' = [hpc EXCEPT ![c] = "aborted"]
    BY DEF PrepareFolder
  <1>2. u \in Uid /\ \A b \in Call : uid[b] # u
    BY DEF compute_cred_uid
  <1>3. schema'[c] = s /\ \A b \in Call \ {c} : schema'[b] = schema[b]
    BY <1>1 DEF TypeInv, TypeOK
  <1>4. UNCHANGED <<tasks, tpc>>
    BY DEF PrepareFolder
  <1>5. QED
    BY <1>1, <1>2, <1>3, <1>4

(* A UID that a client knows stays known, and stays with its call.         *)
LEMMA AnsweredStays ==
  ASSUME TypeInv, [Next]_vars, NEW b \in Call, hpc[b] = "answered"
  PROVE  hpc'[b] = "answered" /\ uid'[b] = uid[b]
  <1>1. ASSUME NEW c \in Call, Prepare(c)
        PROVE  hpc'[b] = "answered" /\ uid'[b] = uid[b]
    <2>1. CASE PrepareFolder(c)
      <3>1. c # b
        BY <2>1 DEF PrepareFolder
      <3>2. QED
        BY <2>1, <3>1, FreshUid DEF TypeInv, TypeOK
    <2>2. CASE ~PrepareFolder(c)
      BY <1>1, <2>2 DEF Prepare, PrepareReject, PrepareInsert, PrepareSpawn,
                        PrepareClaimsPanic, PrepareAnswer, TypeInv, TypeOK
    <2>3. QED
      BY <2>1, <2>2
  <1>2. CASE Restart
    BY <1>2 DEF Restart, TypeInv, TypeOK
  <1>3. QED
    BY <1>1, <1>2, TaskFrame, DeleteFrame, ShowFrame DEF Next, vars

LEMMA KnownGrows == TypeInv /\ [Next]_vars => Known \subseteq Known'
  <1> SUFFICES ASSUME TypeInv, [Next]_vars, NEW u \in Known PROVE u \in Known'
    OBVIOUS
  <1>1. PICK c \in Call : hpc[c] = "answered" /\ uid[c] = u
    BY DEF Known
  <1>2. hpc'[c] = "answered" /\ uid'[c] = u
    BY <1>1, AnsweredStays
  <1>3. QED
    BY <1>2 DEF Known

-------------------------------------------------------------------------------
(***************************************************************************)
(* The inductive invariant, one conjunct at a time                         *)
(***************************************************************************)

LEMMA InvInit == Init => Inv
  BY CallAssumption DEF Init, Inv, UidInv, Bound, TaskInv, EntryInv, FolderInv, DeleteInv,
         GoneInv, SettledInv, ShowInv, Known

LEMMA UidNext == TypeInv /\ UidInv /\ [Next]_vars => UidInv'
  <1> SUFFICES ASSUME TypeInv, UidInv, [Next]_vars PROVE UidInv'
    OBVIOUS
  <1>1. ASSUME NEW c \in Call, Prepare(c) PROVE UidInv'
    <2>1. CASE PrepareFolder(c)
      <3>1. hpc[c] = "idle"
        BY <2>1 DEF PrepareFolder
      <3>2. QED
        BY <2>1, <3>1, FreshUid, UidAssumption DEF UidInv, Bound, TypeInv, TypeOK
    <2>2. CASE ~PrepareFolder(c)
      BY <1>1, <2>2 DEF Prepare, PrepareReject, PrepareInsert, PrepareSpawn,
                        PrepareClaimsPanic, PrepareAnswer, UidInv, Bound, TypeInv, TypeOK
    <2>3. QED
      BY <2>1, <2>2
  <1>2. CASE Restart
    BY <1>2 DEF Restart, UidInv, Bound, TypeInv, TypeOK
  <1>3. CASE UNCHANGED <<hpc, uid>>
    BY <1>3 DEF UidInv, Bound
  <1>4. QED
    BY <1>1, <1>2, <1>3, TaskFrame, DeleteFrame, ShowFrame DEF Next, vars

LEMMA TaskNext == TypeInv /\ TaskInv /\ [Next]_vars => TaskInv'
  <1> SUFFICES ASSUME TypeInv, TaskInv, [Next]_vars PROVE TaskInv'
    OBVIOUS
  <1>1. ASSUME NEW c \in Call, Prepare(c) PROVE TaskInv'
    <2>1. CASE PrepareFolder(c)
      <3>1. hpc[c] = "idle"
        BY <2>1 DEF PrepareFolder
      <3>2. QED
        BY <2>1, <3>1, FreshUid DEF TaskInv, TypeInv, TypeOK
    <2>2. CASE PrepareSpawn(c)
      BY <2>2, FirstStepType DEF PrepareSpawn, TaskInv, TaskRunning, TypeInv, TypeOK
    <2>3. CASE ~PrepareFolder(c) /\ ~PrepareSpawn(c)
      BY <1>1, <2>3 DEF Prepare, PrepareReject, PrepareInsert,
                        PrepareClaimsPanic, PrepareAnswer, TaskInv, TypeInv, TypeOK
    <2>4. QED
      BY <2>1, <2>2, <2>3
  <1>2. ASSUME NEW c \in Call, Task(c) PROVE TaskInv'
    BY <1>2, TaskFrame DEF Task, TaskFetch, TaskPaths, TaskLoad, TaskBuild,
         TaskStore, TaskError, TaskInv, TypeInv, TypeOK
  <1>3. CASE Restart
    BY <1>3 DEF Restart, TaskInv, TaskRunning, TypeInv, TypeOK
  <1>4. CASE UNCHANGED <<hpc, tpc>>
    BY <1>4 DEF TaskInv
  <1>5. QED
    BY <1>1, <1>2, <1>3, <1>4, DeleteFrame, ShowFrame DEF Next, vars

LEMMA EntryNext ==
  TypeInv /\ UidInv /\ TaskInv /\ EntryInv /\ [Next]_vars => EntryInv'
  <1> SUFFICES ASSUME TypeInv, UidInv, TaskInv, EntryInv, [Next]_vars
               PROVE  EntryInv'
    OBVIOUS
  <1> USE CallAssumption DEF Live, Panicked
  <1>1. ASSUME NEW c \in Call, Prepare(c) PROVE EntryInv'
    <2>1. CASE PrepareFolder(c)
      <3>1. hpc[c] = "idle" /\ tpc[c] = "none" /\ uid[c] = "none"
        BY <2>1 DEF PrepareFolder, TaskInv, UidInv, Bound
      <3>2. \A b \in Call \ {c} : uid'[b] = uid[b] /\ hpc'[b] = hpc[b]
        BY <2>1, FreshUid DEF TypeInv, TypeOK
      <3>3. UNCHANGED <<tasks, tpc>>
        BY <2>1, FreshUid
      <3>4. QED
        BY <3>1, <3>2, <3>3, UidAssumption DEF EntryInv, TypeInv, TypeOK, TaskRunning
    <2>2. CASE PrepareInsert(c)
      <3>1. uid[c] \in Uid
        BY <2>2 DEF PrepareInsert, TypeInv
      <3>2. \A u \in Uid : tasks'[u] = IF u = uid[c] THEN "preparing" ELSE tasks[u]
        BY <2>2, <3>1 DEF PrepareInsert, TypeInv, TypeOK
      <3>3. \A b \in Call : hpc'[b] = IF b = c THEN "inserted" ELSE hpc[b]
        BY <2>2 DEF PrepareInsert, TypeInv, TypeOK
      <3>4. UNCHANGED <<uid, tpc>>
        BY <2>2 DEF PrepareInsert
      <3>5. QED
        BY <3>2, <3>3, <3>4 DEF EntryInv
    <2>3. CASE PrepareSpawn(c)
      <3>1. \A b \in Call : tpc'[b] = IF b = c THEN FirstStep(c) ELSE tpc[b]
        BY <2>3 DEF PrepareSpawn, TypeInv, TypeOK
      <3>2. \A b \in Call : hpc'[b] = IF b = c THEN "spawned" ELSE hpc[b]
        BY <2>3 DEF PrepareSpawn, TypeInv, TypeOK
      <3>3. tpc[c] = "none" /\ UNCHANGED <<uid, tasks>>
        BY <2>3 DEF PrepareSpawn, TaskInv
      <3>4. QED
        BY <3>1, <3>2, <3>3, FirstStepType DEF EntryInv
    <2>4. CASE PrepareReject(c) \/ PrepareClaimsPanic(c) \/ PrepareAnswer(c)
      BY <2>4 DEF PrepareReject, PrepareClaimsPanic, PrepareAnswer, EntryInv,
                  TypeInv, TypeOK
    <2>5. QED
      BY <1>1, <2>1, <2>2, <2>3, <2>4 DEF Prepare
  <1>2. ASSUME NEW c \in Call, Task(c) PROVE EntryInv'
    <2>1. UNCHANGED <<hpc, uid>>
      BY <1>2, TaskFrame
    <2>2. CASE TaskStore(c) \/ TaskError(c)
      <3>1. uid[c] \in Uid
        BY <2>2 DEF TaskStore, TaskError, TaskInv, TypeInv
      <3>2. \A u \in Uid : u # uid[c] => tasks'[u] = tasks[u]
        BY <2>2, <3>1 DEF TaskStore, TaskError, TypeInv, TypeOK
      <3>3. \A b \in Call : b # c => tpc'[b] = tpc[b]
        BY <2>2 DEF TaskStore, TaskError, TypeInv, TypeOK
      <3>4. (tasks'[uid[c]] = c /\ tpc'[c] = "done") \/ tasks'[uid[c]] = "absent"
        BY <2>2, <3>1 DEF TaskStore, TaskError, TypeInv, TypeOK
      <3>5. tpc[c] # "done"
        BY <2>2 DEF TaskStore, TaskError
      <3>6. QED
        BY <2>1, <3>1, <3>2, <3>3, <3>4, <3>5 DEF EntryInv
    <2>3. CASE ~TaskStore(c) /\ ~TaskError(c)
      <3>1. tpc[c] # "done" /\ tpc'[c] \in TaskRunning \cup {"panicked"}
        BY <1>2, <2>3 DEF Task, TaskFetch, TaskPaths, TaskLoad, TaskBuild,
                          TaskRunning, TypeInv, TypeOK
      <3>2. tasks' = tasks /\ \A b \in Call : b # c => tpc'[b] = tpc[b]
        BY <1>2, <2>3 DEF Task, TaskFetch, TaskPaths, TaskLoad, TaskBuild,
                          TaskOnly, TypeInv, TypeOK
      <3>3. QED
        BY <2>1, <3>1, <3>2 DEF EntryInv
    <2>4. QED
      BY <2>2, <2>3
  <1>3. ASSUME NEW d \in Deleter, Delete(d) PROVE EntryInv'
    <2>1. CASE DeleteEntry(d)
      BY <2>1, DeleteFrame, <1>3 DEF DeleteEntry, EntryInv, TypeInv, TypeOK
    <2>2. CASE ~DeleteEntry(d)
      BY <1>3, <2>2 DEF Delete, DeleteBegin, DeleteUnlink, DeleteRmdir, EntryInv
    <2>3. QED
      BY <2>1, <2>2
  <1>4. CASE Restart
    BY <1>4 DEF Restart, EntryInv
  <1>5. CASE UNCHANGED <<tasks, prepareVars>>
    BY <1>5 DEF EntryInv
  <1>6. QED
    BY <1>1, <1>2, <1>3, <1>4, <1>5, ShowFrame DEF Next, vars

(* A task adds to its folder and never makes one.                          *)
LEMMA TaskFolder ==
  ASSUME TypeInv, NEW c \in Call, Task(c), NEW u \in Uid
  PROVE  folder[u] \subseteq folder'[u] /\ (folder[u] = {} => folder'[u] = {})
  BY DEF Task, TaskFetch, TaskPaths, TaskLoad, TaskBuild, TaskStore, TaskError,
         TaskOnly, WithCache, Folder, TypeInv, TypeOK

(* A /delete only takes away, and only from the folder it deletes.         *)
LEMMA DeleteFolder ==
  ASSUME TypeInv, NEW d \in Deleter, Delete(d), NEW u \in Uid
  PROVE  /\ folder'[u] \subseteq folder[u]
         /\ folder'[u] # folder[u] => dpc[d] # "idle" /\ u = duid[d]
  BY DEF Delete, DeleteBegin, DeleteUnlink, DeleteRmdir, DeleteEntry, TypeInv, TypeOK

LEMMA FolderNext ==
  TypeInv /\ UidInv /\ FolderInv /\ DeleteInv /\ [Next]_vars => FolderInv'
  <1> SUFFICES ASSUME TypeInv, UidInv, FolderInv, DeleteInv, [Next]_vars
               PROVE  FolderInv'
    OBVIOUS
  <1>1. ASSUME NEW c \in Call, Prepare(c) PROVE FolderInv'
    <2>1. CASE PrepareFolder(c)
      <3>1. hpc[c] = "idle" /\ touched' = touched
        BY <2>1, <1>1, PrepareFrame DEF PrepareFolder
      <3>2. QED
        BY <2>1, <3>1, FreshUid DEF FolderInv, TypeInv, TypeOK
    <2>2. CASE ~PrepareFolder(c)
      BY <1>1, <2>2 DEF Prepare, PrepareReject, PrepareInsert, PrepareSpawn,
                        PrepareClaimsPanic, PrepareAnswer, FolderInv, TypeInv, TypeOK
    <2>3. QED
      BY <2>1, <2>2
  <1>2. ASSUME NEW c \in Call, Task(c) PROVE FolderInv'
    BY <1>2, TaskFrame, TaskFolder DEF FolderInv, TypeInv
  <1>3. ASSUME NEW d \in Deleter, Delete(d) PROVE FolderInv'
    <2>1. touched \subseteq touched'
      BY <1>3 DEF Delete, DeleteBegin, DeleteUnlink, DeleteRmdir, DeleteEntry
    <2>2. QED
      BY <1>3, <2>1, DeleteFrame, DeleteFolder DEF FolderInv, DeleteInv, TypeInv
  <1>4. CASE Restart
    BY <1>4 DEF Restart, FolderInv, TypeInv, TypeOK
  <1>5. CASE UNCHANGED <<folder, prepareVars, touched>>
    BY <1>5 DEF FolderInv
  <1>6. QED
    BY <1>1, <1>2, <1>3, <1>4, <1>5, ShowFrame DEF Next, vars

(* The folder of a UID that clients know never comes back.                 *)
LEMMA EmptyStays ==
  ASSUME TypeInv, [Next]_vars, NEW u \in Known, folder[u] = {}
  PROVE  folder'[u] = {}
  <1>1. u \in Uid
    BY KnownUids
  <1>2. ASSUME NEW c \in Call, Prepare(c) PROVE folder'[u] = {}
    <2>1. CASE PrepareFolder(c)
      BY <1>1, <2>1, FreshUid DEF Known, TypeInv, TypeOK
    <2>2. CASE ~PrepareFolder(c)
      BY <1>2, <2>2 DEF Prepare, PrepareReject, PrepareInsert, PrepareSpawn,
                        PrepareClaimsPanic, PrepareAnswer
    <2>3. QED
      BY <2>1, <2>2
  <1>3. QED
    BY <1>1, <1>2, TaskFolder, DeleteFolder, ShowFrame DEF Next, vars, Restart

LEMMA DeleteNext == TypeInv /\ DeleteInv /\ [Next]_vars => DeleteInv'
  <1> SUFFICES ASSUME TypeInv, DeleteInv, [Next]_vars PROVE DeleteInv'
    OBVIOUS
  <1>1. Known \subseteq Known'
    BY KnownGrows
  <1>2. ASSUME NEW d \in Deleter, Delete(d) PROVE DeleteInv'
    <2>1. CASE DeleteBegin(d)
      <3>1. folder' = folder /\ touched \subseteq touched'
        BY <2>1 DEF DeleteBegin
      <3>2. dpc'[d] \in {"unlink", "kept"} /\ duid'[d] \in Known \cap touched'
        BY <2>1 DEF DeleteBegin, TypeInv, TypeOK
      <3>3. \A e \in Deleter \ {d} : dpc'[e] = dpc[e] /\ duid'[e] = duid[e]
        BY <2>1 DEF DeleteBegin, TypeInv, TypeOK
      <3>4. QED
        BY <1>1, <3>1, <3>2, <3>3 DEF DeleteInv
    <2>2. CASE DeleteUnlink(d) \/ DeleteRmdir(d)
      <3>1. /\ touched' = touched /\ duid' = duid /\ dpc[d] = "unlink"
            /\ \A e \in Deleter \ {d} : dpc'[e] = dpc[e]
            /\ dpc'[d] = "removed" => folder'[duid[d]] = {}
        BY <2>2 DEF DeleteUnlink, DeleteRmdir, TypeInv, TypeOK
      <3>2. QED
        BY <1>1, <3>1, EmptyStays DEF DeleteInv
    <2>3. CASE DeleteEntry(d)
      <3>1. /\ UNCHANGED <<touched, duid, folder>>
            /\ dpc'[d] = "idle"
            /\ \A e \in Deleter \ {d} : dpc'[e] = dpc[e]
        BY <2>3 DEF DeleteEntry, TypeInv, TypeOK
      <3>2. QED
        BY <1>1, <3>1 DEF DeleteInv
    <2>4. QED
      BY <1>2, <2>1, <2>2, <2>3 DEF Delete
  <1>3. CASE Restart
    BY <1>3 DEF Restart, DeleteInv
  <1>4. CASE UNCHANGED <<deleteVars, touched>>
    BY <1>1, <1>4, EmptyStays DEF DeleteInv
  <1>5. QED
    BY <1>2, <1>3, <1>4, PrepareFrame, TaskFrame, ShowFrame DEF Next, vars

LEMMA GoneNext == TypeInv /\ DeleteInv /\ GoneInv /\ [Next]_vars => GoneInv'
  <1> SUFFICES ASSUME TypeInv, DeleteInv, GoneInv, [Next]_vars PROVE GoneInv'
    OBVIOUS
  <1>1. Known \subseteq Known'
    BY KnownGrows
  <1>2. \A u \in gone' \ gone : u \in Known /\ folder[u] = {}
    <2>1. ASSUME NEW d \in Deleter, Delete(d)
          PROVE  \A u \in gone' \ gone : u \in Known /\ folder[u] = {}
      BY <2>1 DEF Delete, DeleteBegin, DeleteUnlink, DeleteRmdir, DeleteEntry, DeleteInv
    <2>2. QED
      BY <2>1, PrepareFrame, TaskFrame, ShowFrame DEF Next, vars, Restart
  <1>3. QED
    BY <1>1, <1>2, EmptyStays DEF GoneInv

(* Who may change an entry, and to what.                                   *)
LEMMA EntryChange ==
  ASSUME TypeInv, [Next]_vars, NEW u \in Uid, tasks'[u] # tasks[u]
  PROVE  \/ Restart
         \/ \E c \in Call : uid[c] = u /\ (hpc[c] = "copied" \/ tpc[c] \in {"store", "err"})
         \/ \E d \in Deleter : DeleteEntry(d) /\ duid[d] = u
  <1>1. ASSUME NEW c \in Call, Prepare(c)
        PROVE  uid[c] = u /\ hpc[c] = "copied"
    BY <1>1 DEF Prepare, PrepareReject, PrepareFolder, PrepareInsert, PrepareSpawn,
                PrepareClaimsPanic, PrepareAnswer, TypeInv, TypeOK
  <1>2. ASSUME NEW c \in Call, Task(c)
        PROVE  uid[c] = u /\ tpc[c] \in {"store", "err"}
    BY <1>2 DEF Task, TaskFetch, TaskPaths, TaskLoad, TaskBuild, TaskStore,
                TaskError, TaskOnly, TypeInv, TypeOK
  <1>3. ASSUME NEW d \in Deleter, Delete(d)
        PROVE  DeleteEntry(d) /\ duid[d] = u
    BY <1>3 DEF Delete, DeleteBegin, DeleteUnlink, DeleteRmdir, DeleteEntry,
                TypeInv, TypeOK
  <1>4. QED
    BY <1>1, <1>2, <1>3, ShowFrame DEF Next, vars

(* A task that has ended stays so, once its handler has answered.          *)
LEMMA EndedStays ==
  ASSUME TypeInv, [Next]_vars, NEW b \in Call,
         hpc[b] = "answered", tpc[b] \notin TaskRunning
  PROVE  tpc'[b] \notin TaskRunning
  <1>1. ASSUME NEW c \in Call, Prepare(c) PROVE tpc'[b] = tpc[b]
    BY <1>1 DEF Prepare, PrepareReject, PrepareFolder, PrepareInsert, PrepareSpawn,
                PrepareClaimsPanic, PrepareAnswer, TypeInv, TypeOK
  <1>2. ASSUME NEW c \in Call, Task(c) PROVE tpc'[b] = tpc[b]
    <2>1. tpc[c] \in TaskRunning
      BY <1>2 DEF Task, TaskFetch, TaskPaths, TaskLoad, TaskBuild, TaskStore,
                  TaskError, TaskRunning
    <2>2. QED
      BY <1>2, <2>1 DEF Task, TaskFetch, TaskPaths, TaskLoad, TaskBuild, TaskStore,
                        TaskError, TypeInv, TypeOK
  <1>3. CASE Restart
    BY <1>3 DEF Restart, TaskRunning
  <1>4. QED
    BY <1>1, <1>2, <1>3, DeleteFrame, ShowFrame DEF Next, vars

LEMMA SettledNext ==
  TypeInv /\ UidInv /\ TaskInv /\ DeleteInv /\ SettledInv /\ [Next]_vars
    => SettledInv'
  <1> SUFFICES ASSUME TypeInv, UidInv, TaskInv, DeleteInv, SettledInv, [Next]_vars,
                      NEW u \in settled'
               PROVE  /\ tasks'[u] = "absent"
                      /\ \E c \in Call : uid'[c] = u /\ hpc'[c] = "answered"
                                         /\ tpc'[c] \notin TaskRunning
    BY DEF SettledInv
  <1>1. CASE u \in settled
    <2>1. PICK c \in Call : uid[c] = u /\ hpc[c] = "answered" /\ tpc[c] \notin TaskRunning
      BY <1>1 DEF SettledInv
    <2>2. u \in Uid /\ tasks[u] = "absent"
      BY <1>1 DEF SettledInv, TypeInv, TypeOK
    <2>3. \A b \in Call : uid[b] = u => hpc[b] # "copied" /\ tpc[b] \notin {"store", "err"}
      BY <2>1, UidAssumption DEF UidInv, Bound, TaskRunning, TypeInv, TypeOK
    <2>4. tasks'[u] = "absent"
      BY <2>2, <2>3, EntryChange DEF Restart, DeleteEntry, TypeInv, TypeOK
    <2>5. QED
      BY <2>1, <2>4, AnsweredStays, EndedStays
  <1>2. CASE u \notin settled
    <2>1. PICK d \in Deleter : DeleteEntry(d) /\ u = duid[d]
                              /\ ~ \E c \in Call : uid[c] = u /\ Live(c)
      <3>1. ASSUME NEW d \in Deleter, Delete(d)
            PROVE  DeleteEntry(d) /\ u = duid[d]
                     /\ ~ \E c \in Call : uid[c] = u /\ Live(c)
        BY <1>2, <3>1 DEF Delete, DeleteBegin, DeleteUnlink, DeleteRmdir, DeleteEntry
      <3>2. QED
        BY <1>2, <3>1, PrepareFrame, TaskFrame, ShowFrame DEF Next, vars, Restart
    <2>2. u \in Known /\ u \in Uid
      BY <2>1, KnownUids DEF DeleteEntry, DeleteInv
    <2>3. PICK c \in Call : uid[c] = u /\ hpc[c] = "answered"
      BY <2>2 DEF Known
    <2>4. tpc[c] \notin TaskRunning
      BY <2>1, <2>3 DEF Live
    <2>5. tasks'[u] = "absent"
      BY <2>1, <2>2 DEF DeleteEntry, TypeInv, TypeOK
    <2>6. QED
      BY <2>3, <2>4, <2>5, AnsweredStays, EndedStays
  <1>3. QED
    BY <1>1, <1>2

LEMMA ShowNext == TypeInv /\ ShowInv /\ [Next]_vars => ShowInv'
  <1> SUFFICES ASSUME TypeInv, ShowInv, [Next]_vars PROVE ShowInv'
    OBVIOUS
  <1> USE ShowerAssumption
  <1>1. CASE lock = "free" /\ UNCHANGED showVars
    BY <1>1 DEF ShowInv
  <1>2. CASE UNCHANGED <<tasks, showVars>>
    BY <1>2 DEF ShowInv
  <1>3. ASSUME NEW c \in Call, Prepare(c) PROVE ShowInv'
    BY <1>1, <1>2, <1>3, PrepareFrame
       DEF Prepare, PrepareReject, PrepareFolder, PrepareInsert, PrepareSpawn,
           PrepareClaimsPanic, PrepareAnswer
  <1>4. ASSUME NEW c \in Call, Task(c) PROVE ShowInv'
    BY <1>1, <1>2, <1>4, TaskFrame
       DEF Task, TaskFetch, TaskPaths, TaskLoad, TaskBuild, TaskStore, TaskError, TaskOnly
  <1>5. ASSUME NEW d \in Deleter, Delete(d) PROVE ShowInv'
    BY <1>1, <1>2, <1>5, DeleteFrame
       DEF Delete, DeleteBegin, DeleteUnlink, DeleteRmdir, DeleteEntry
  <1>6. ASSUME NEW s \in Shower, Show(s) PROVE ShowInv'
    <2>1. CASE ShowBegin(s)
      <3>1. PICK u \in Known : tasks[u] \in Call /\ suid' = [suid EXCEPT ![s] = u]
        BY <2>1 DEF ShowBegin
      <3>2. lock = "free" /\ lock' = s /\ tasks' = tasks
        BY <2>1 DEF ShowBegin, WhileProving
      <3>3. \A t \in Shower \ {s} : spc'[t] = "idle"
        BY <2>1, <3>2 DEF ShowBegin, ShowInv, TypeInv, TypeOK
      <3>4. suid'[s] = u /\ u \in Uid
        BY <3>1, KnownUids DEF TypeInv, TypeOK
      <3>5. QED
        BY <3>1, <3>2, <3>3, <3>4 DEF ShowInv
    <2>2. CASE ShowSign(s) \/ ShowProve(s)
      BY <2>2 DEF ShowSign, ShowProve, ShowReturns, ShowInv, TypeInv, TypeOK
    <2>3. QED
      BY <1>6, <2>1, <2>2 DEF Show
  <1>7. CASE Restart
    BY <1>7 DEF Restart, ShowInv
  <1>8. QED
    BY <1>2, <1>3, <1>4, <1>5, <1>6, <1>7 DEF Next, vars

LEMMA InvNext == TypeInv /\ Inv /\ [Next]_vars => Inv'
  BY UidNext, TaskNext, EntryNext, FolderNext, DeleteNext, GoneNext, SettledNext,
     ShowNext DEF Inv

LEMMA InvCorrect == Spec => [](TypeInv /\ Inv)
  <1>1. Init => TypeInv /\ Inv
    BY TypeInit, InvInit
  <1>2. TypeInv /\ Inv /\ [Next]_vars => (TypeInv /\ Inv)'
    BY TypeNext, InvNext
  <1>3. QED
    BY <1>1, <1>2, PTL DEF Spec

-------------------------------------------------------------------------------
(***************************************************************************)
(* Every entry that says "ready" is its own call's, with a whole folder    *)
(* behind it unless a /delete was called for it.                           *)
(***************************************************************************)
THEOREM ReadyIsBackedCorrect == Spec => []ReadyIsBacked
  <1>1. TypeInv /\ Inv => ReadyIsBacked
    <2> SUFFICES ASSUME TypeInv, Inv, NEW u \in Uid, tasks[u] \in Call
                 PROVE  /\ uid[tasks[u]] = u
                        /\ u \notin touched =>
                             {"dir"} \cup shared(schema[tasks[u]]) \subseteq folder[u]
      BY DEF ReadyIsBacked
    <2>1. uid[tasks[u]] = u /\ tpc[tasks[u]] = "done"
      BY DEF Inv, EntryInv
    <2>2. hpc[tasks[u]] \notin {"idle", "rejected", "aborted"}
      BY <2>1 DEF Inv, TaskInv
    <2>3. QED
      BY <2>1, <2>2 DEF Inv, FolderInv
  <1>2. QED
    BY <1>1, InvCorrect, PTL

(***************************************************************************)
(* "preparing" is said only with somebody at work, or after a panic.       *)
(***************************************************************************)
THEOREM PreparingHasWorkerCorrect == Spec => []PreparingHasWorker
  <1>1. Inv => PreparingHasWorker
    BY DEF Inv, EntryInv, PreparingHasWorker
  <1>2. QED
    BY <1>1, InvCorrect, PTL

(***************************************************************************)
(* A credential is in the map for as long as a proof about it is made.     *)
(***************************************************************************)
THEOREM ShowHoldsEntryCorrect == Spec => []ShowHoldsEntry
  <1>1. Inv => ShowHoldsEntry
    BY DEF Inv, ShowInv, ShowHoldsEntry
  <1>2. QED
    BY <1>1, InvCorrect, PTL

(***************************************************************************)
(* The answer "Deleted" is final for the folder.                           *)
(***************************************************************************)
THEOREM DeletedStaysGoneCorrect == Spec => []DeletedStaysGone
  <1>1. Inv => DeletedStaysGone
    BY DEF Inv, GoneInv, DeletedStaysGone
  <1>2. QED
    BY <1>1, InvCorrect, PTL

(***************************************************************************)
(* A delete after the end of the preparation is final for the entry.       *)
(***************************************************************************)
THEOREM SettledStaysUnknownCorrect == Spec => []SettledStaysUnknown
  <1>1. Inv => SettledStaysUnknown
    BY DEF Inv, SettledInv, SettledStaysUnknown, StatusOf
  <1>2. QED
    BY <1>1, InvCorrect, PTL

(***************************************************************************)
(* Nothing but a delete of the same UID, or a restart, takes a ready       *)
(* credential's ShowData away or puts other ShowData in its place.         *)
(***************************************************************************)
THEOREM ReadyLostOnlyByDeleteCorrect == Spec => ReadyLostOnlyByDelete
  <1>1. TypeInv /\ Inv /\ [Next]_vars =>
          [\A u \in Uid : tasks[u] \in Call /\ tasks'[u] # tasks[u] =>
             \/ restarts' # restarts
             \/ \E d \in Deleter : duid[d] = u /\ dpc[d] # "idle" /\ dpc'[d] = "idle"
          ]_vars
    <2> SUFFICES ASSUME TypeInv, Inv, [Next]_vars, NEW u \in Uid,
                        tasks[u] \in Call, tasks'[u] # tasks[u]
                 PROVE  \/ restarts' # restarts
                        \/ \E d \in Deleter : /\ duid[d] = u
                                              /\ dpc[d] # "idle"
                                              /\ dpc'[d] = "idle"
      OBVIOUS
    <2>1. uid[tasks[u]] = u /\ tpc[tasks[u]] = "done"
      BY DEF Inv, EntryInv
    <2>2. \A c \in Call : uid[c] = u => c = tasks[u]
      BY <2>1, UidAssumption DEF Inv, UidInv, Bound
    <2>3. hpc[tasks[u]] # "copied"
      BY <2>1 DEF Inv, TaskInv
    <2>4. Restart \/ \E d \in Deleter : DeleteEntry(d) /\ duid[d] = u
      BY <2>1, <2>2, <2>3, EntryChange
    <2>5. CASE Restart
      BY <2>5, RestartsAssumption DEF Restart, TypeInv, TypeOK
    <2>6. CASE \E d \in Deleter : DeleteEntry(d) /\ duid[d] = u
      BY <2>6 DEF DeleteEntry, TypeInv, TypeOK
    <2>7. QED
      BY <2>4, <2>5, <2>6
  <1>2. QED
    BY <1>1, InvCorrect, PTL DEF Spec, ReadyLostOnlyByDelete

-------------------------------------------------------------------------------
(***************************************************************************)
(* ClientHelper implements CredStore: every step of the helper is a step   *)
(* of the abstract store, or changes nothing that /status can tell.        *)
(***************************************************************************)

USE DEF prepareVars, deleteVars, showVars, history, SetTask, SetHandler, Put

(* How far the preparation of one call has come.                           *)
Phase(c) == IF Live(c) THEN "running"
            ELSE IF hpc[c] \in {"idle", "rejected", "copied", "aborted"} THEN "none"
            ELSE "ended"

(* A UID's preparation is its one call's.                                  *)
OwnerInv ==
  \A u \in Uid : /\ \A c \in Call : uid[c] = u => preparationOf(u) = Phase(c)
                 /\ (\A c \in Call : uid[c] # u) => preparationOf(u) = "none"

LEMMA OwnerPhase == TypeInv /\ UidInv => OwnerInv
  <1> SUFFICES ASSUME TypeInv, UidInv, NEW u \in Uid
               PROVE  /\ \A c \in Call : uid[c] = u => preparationOf(u) = Phase(c)
                      /\ (\A c \in Call : uid[c] # u) => preparationOf(u) = "none"
    BY DEF OwnerInv
  <1>1. ASSUME NEW c \in Call, uid[c] = u PROVE preparationOf(u) = Phase(c)
    <2>1. \A b \in Call : uid[b] = u => b = c
      BY <1>1, UidAssumption DEF UidInv, Bound
    <2>2. hpc[c] \notin {"idle", "rejected"}
      BY <1>1, UidAssumption DEF UidInv, Bound
    <2>3. QED
      BY <1>1, <2>1, <2>2 DEF preparationOf, Phase
  <1>2. QED
    BY <1>1 DEF preparationOf

(* So a step that leaves a call alone leaves its UID's preparation alone.  *)
LEMMA SamePhase ==
  ASSUME OwnerInv, OwnerInv', NEW u \in Uid,
         \A c \in Call : uid[c] = u \/ uid'[c] = u
            => uid'[c] = uid[c] /\ Phase(c)' = Phase(c)
  PROVE  preparationOf(u)' = preparationOf(u)
  <1>1. CASE \E c \in Call : uid[c] = u
    BY <1>1 DEF OwnerInv
  <1>2. CASE \A c \in Call : uid[c] # u
    BY <1>2 DEF OwnerInv
  <1>3. QED
    BY <1>1, <1>2

-------------------------------------------------------------------------------
(* Steps of the abstract store, from what they do to one UID               *)

LEMMA Stutters ==
  ASSUME \A u \in Uid : StatusOf(u)' = StatusOf(u) /\ preparationOf(u)' = preparationOf(u)
  PROVE  UNCHANGED CS!vars
  BY DEF CS!vars

LEMMA Begins ==
  ASSUME NEW u \in Uid,
         \A v \in Uid \ {u} : /\ StatusOf(v)' = StatusOf(v)
                              /\ preparationOf(v)' = preparationOf(v),
         preparationOf(u) = "none", preparationOf(u)' = "running",
         StatusOf(u)' = "preparing"
  PROVE  CS!Begin(u)
  BY DEF CS!Begin

LEMMA Ends ==
  ASSUME NEW u \in Uid,
         \A v \in Uid \ {u} : /\ StatusOf(v)' = StatusOf(v)
                              /\ preparationOf(v)' = preparationOf(v),
         preparationOf(u) = "running", preparationOf(u)' = "ended",
         StatusOf(u)' \in {"ready", "unknown", StatusOf(u)}
  PROVE  CS!End(u)
  BY DEF CS!End

LEMMA Forgets ==
  ASSUME NEW u \in Uid,
         \A v \in Uid \ {u} : StatusOf(v)' = StatusOf(v),
         \A v \in Uid : preparationOf(v)' = preparationOf(v),
         StatusOf(u)' = "unknown"
  PROVE  CS!Forget(u)
  BY DEF CS!Forget

-------------------------------------------------------------------------------
(* The same for the steps of the helper                                    *)

(* What a step of one call does to the other calls' UIDs: nothing.         *)
LEMMA OtherUids ==
  ASSUME OwnerInv, OwnerInv', UidInv, NEW c \in Call, uid' = uid,
         \A b \in Call \ {c} : hpc'[b] = hpc[b] /\ tpc'[b] = tpc[b],
         NEW v \in Uid, v # uid[c]
  PROVE  preparationOf(v)' = preparationOf(v)
  <1>1. \A b \in Call : uid[b] = v => Phase(b)' = Phase(b)
    BY DEF Phase, Live
  <1>2. QED
    BY <1>1, SamePhase

LEMMA PrepareRefines ==
  ASSUME TypeInv, Inv, TypeInv', Inv', OwnerInv, OwnerInv', NEW c \in Call, Prepare(c)
  PROVE  CS!Next \/ UNCHANGED CS!vars
  <1> USE CallAssumption
  <1>1. CASE PrepareFolder(c)
    <2>1. tpc[c] = "none" /\ hpc[c] = "idle" /\ uid[c] = "none"
      BY <1>1 DEF PrepareFolder, Inv, TaskInv, UidInv, Bound
    <2>2. /\ UNCHANGED <<tasks, tpc>>
          /\ \A b \in Call \ {c} : uid'[b] = uid[b] /\ hpc'[b] = hpc[b]
          /\ hpc'[c] \in {"copied", "aborted"}
          /\ \A b \in Call : uid[b] # uid'[c]
      BY <1>1, FreshUid DEF TypeInv, TypeOK
    <2>3. \A b \in Call : Phase(b)' = Phase(b)
      BY <2>1, <2>2 DEF Phase, Live, TaskRunning
    <2>4. ASSUME NEW u \in Uid PROVE preparationOf(u)' = preparationOf(u)
      <3>1. CASE u = uid'[c]
        <4>1. preparationOf(u) = "none"
          BY <2>2, <3>1 DEF OwnerInv
        <4>2. preparationOf(u)' = Phase(c)'
          BY <3>1 DEF OwnerInv
        <4>3. Phase(c)' = "none"
          BY <2>1, <2>2 DEF Phase, Live, TaskRunning
        <4>4. QED
          BY <4>1, <4>2, <4>3
      <3>2. CASE u # uid'[c]
        <4>1. \A b \in Call : uid[b] = u \/ uid'[b] = u => b # c
          BY <2>1, <3>2, UidAssumption
        <4>2. QED
          BY <2>2, <2>3, <4>1, SamePhase
      <3>3. QED
        BY <3>1, <3>2
    <2>5. \A u \in Uid : StatusOf(u)' = StatusOf(u)
      BY <2>2 DEF StatusOf
    <2>6. QED
      BY <2>4, <2>5, Stutters
  <1>2. CASE PrepareInsert(c)
    <2>1. uid[c] \in Uid /\ uid' = uid /\ tpc[c] = "none" /\ tpc' = tpc
      BY <1>2 DEF PrepareInsert, TypeInv, Inv, TaskInv
    <2>2. \A b \in Call : hpc'[b] = IF b = c THEN "inserted" ELSE hpc[b]
      BY <1>2 DEF PrepareInsert, TypeInv, TypeOK
    <2>3. \A v \in Uid \ {uid[c]} : preparationOf(v)' = preparationOf(v)
      BY <2>1, <2>2, OtherUids DEF Inv
    <2>4. preparationOf(uid[c]) = "none"
      BY <1>2, <2>1 DEF OwnerInv, Phase, Live, TaskRunning, PrepareInsert
    <2>5. preparationOf(uid[c])' = "running"
      BY <2>1, <2>2 DEF OwnerInv, Phase, Live
    <2>6. \A v \in Uid : tasks'[v] = IF v = uid[c] THEN "preparing" ELSE tasks[v]
      BY <1>2, <2>1 DEF PrepareInsert, TypeInv, TypeOK
    <2>7. CS!Begin(uid[c])
      <3>1. StatusOf(uid[c])' = "preparing"
        BY <2>1, <2>6 DEF StatusOf
      <3>2. \A v \in Uid \ {uid[c]} : StatusOf(v)' = StatusOf(v)
        BY <2>6 DEF StatusOf
      <3>3. QED
        BY <2>1, <2>3, <2>4, <2>5, <3>1, <3>2, Begins
    <2>8. QED
      BY <2>1, <2>7 DEF CS!Next
  <1>3. CASE PrepareClaimsPanic(c)
    <2>1. uid[c] \in Uid /\ uid' = uid /\ tpc[c] = "none" /\ tpc' = tpc /\ tasks' = tasks
      BY <1>3 DEF PrepareClaimsPanic, TypeInv, Inv, TaskInv
    <2>2. \A b \in Call : hpc'[b] = IF b = c THEN "panicked" ELSE hpc[b]
      BY <1>3 DEF PrepareClaimsPanic, TypeInv, TypeOK
    <2>3. \A v \in Uid \ {uid[c]} : preparationOf(v)' = preparationOf(v)
      BY <2>1, <2>2, OtherUids DEF Inv
    <2>4. preparationOf(uid[c]) = "running"
      BY <1>3, <2>1 DEF OwnerInv, Phase, Live, PrepareClaimsPanic
    <2>5. preparationOf(uid[c])' = "ended"
      BY <2>1, <2>2 DEF OwnerInv, Phase, Live, TaskRunning
    <2>6. \A v \in Uid : StatusOf(v)' = StatusOf(v)
      BY <2>1 DEF StatusOf
    <2>7. CS!End(uid[c])
      BY <2>1, <2>3, <2>4, <2>5, <2>6, Ends
    <2>8. QED
      BY <2>1, <2>7 DEF CS!Next
  <1>4. CASE PrepareReject(c) \/ PrepareSpawn(c) \/ PrepareAnswer(c)
    <2>1. uid' = uid /\ tasks' = tasks
      BY <1>4 DEF PrepareReject, PrepareSpawn, PrepareAnswer
    <2>2. Phase(c)' = Phase(c)
      <3>1. CASE PrepareReject(c)
        BY <3>1 DEF PrepareReject, Phase, Live, TypeInv, TypeOK
      <3>2. CASE PrepareSpawn(c)
        <4>1. tpc'[c] = FirstStep(c) /\ hpc[c] = "inserted"
          BY <3>2 DEF PrepareSpawn, TypeInv, TypeOK
        <4>2. QED
          BY <4>1, FirstStepType DEF Phase, Live
      <3>3. CASE PrepareAnswer(c)
        BY <3>3 DEF PrepareAnswer, Phase, Live, TypeInv, TypeOK
      <3>4. QED
        BY <1>4, <3>1, <3>2, <3>3
    <2>3. \A b \in Call \ {c} : hpc'[b] = hpc[b] /\ tpc'[b] = tpc[b]
      BY <1>4 DEF PrepareReject, PrepareSpawn, PrepareAnswer, TypeInv, TypeOK
    <2>4. \A b \in Call : Phase(b)' = Phase(b)
      BY <2>2, <2>3 DEF Phase, Live
    <2>5. \A u \in Uid : preparationOf(u)' = preparationOf(u)
      BY <2>1, <2>4, SamePhase
    <2>6. \A u \in Uid : StatusOf(u)' = StatusOf(u)
      BY <2>1 DEF StatusOf
    <2>7. QED
      BY <2>5, <2>6, Stutters
  <1>5. QED
    BY <1>1, <1>2, <1>3, <1>4 DEF Prepare

LEMMA TaskRefines ==
  ASSUME TypeInv, Inv, TypeInv', Inv', OwnerInv, OwnerInv', NEW c \in Call, Task(c)
  PROVE  CS!Next \/ UNCHANGED CS!vars
  <1> USE CallAssumption
  <1>1. uid' = uid /\ hpc' = hpc
    BY TaskFrame
  <1>2. tpc[c] \in TaskRunning
    BY DEF Task, TaskFetch, TaskPaths, TaskLoad, TaskBuild, TaskStore, TaskError,
           TaskRunning
  <1>3. hpc[c] \notin {"idle", "rejected", "copied", "inserted", "aborted"}
    BY <1>2 DEF Inv, TaskInv, TaskRunning
  <1>4. PICK u \in Uid : uid[c] = u
    BY <1>3 DEF TypeInv
  <1>5. \A b \in Call \ {c} : hpc'[b] = hpc[b] /\ tpc'[b] = tpc[b]
    BY <1>1 DEF Task, TaskFetch, TaskPaths, TaskLoad, TaskBuild, TaskStore, TaskError,
                TypeInv, TypeOK
  <1>6. \A v \in Uid \ {u} : preparationOf(v)' = preparationOf(v)
    BY <1>1, <1>4, <1>5, OtherUids DEF Inv
  <1>7. \A v \in Uid \ {u} : StatusOf(v)' = StatusOf(v)
    BY <1>4 DEF Task, TaskFetch, TaskPaths, TaskLoad, TaskBuild, TaskStore, TaskError,
                TaskOnly, StatusOf, TypeInv, TypeOK
  <1>8. preparationOf(u) = "running"
    BY <1>2, <1>4 DEF OwnerInv, Phase, Live
  <1>9. StatusOf(u)' \in {"ready", "unknown", StatusOf(u)}
    BY <1>1, <1>4 DEF Task, TaskFetch, TaskPaths, TaskLoad, TaskBuild, TaskStore, TaskError,
                TaskOnly, StatusOf, TypeInv, TypeOK
  <1>10. CASE tpc'[c] \in TaskRunning
    <2>1. preparationOf(u)' = "running"
      BY <1>1, <1>4, <1>10 DEF OwnerInv, Phase, Live
    <2>2. tasks' = tasks
      BY <1>10 DEF Task, TaskFetch, TaskPaths, TaskLoad, TaskBuild, TaskStore, TaskError,
                   TaskOnly, TaskRunning, TypeInv, TypeOK
    <2>3. \A v \in Uid : StatusOf(v)' = StatusOf(v)
      BY <2>2 DEF StatusOf
    <2>4. QED
      BY <1>6, <1>8, <2>1, <2>3, Stutters
  <1>11. CASE tpc'[c] \notin TaskRunning
    <2>1. preparationOf(u)' = "ended"
      BY <1>1, <1>3, <1>4, <1>11 DEF OwnerInv, Phase, Live
    <2>2. CS!End(u)
      BY <1>4, <1>6, <1>7, <1>8, <1>9, <2>1, Ends
    <2>3. QED
      BY <1>4, <2>2 DEF CS!Next
  <1>12. QED
    BY <1>10, <1>11

LEMMA DeleteRefines ==
  ASSUME TypeInv, Inv, TypeInv', Inv', OwnerInv, OwnerInv', NEW d \in Deleter, Delete(d)
  PROVE  CS!Next \/ UNCHANGED CS!vars
  <1>1. UNCHANGED prepareVars
    BY DeleteFrame
  <1>2. \A b \in Call : Phase(b)' = Phase(b)
    BY <1>1 DEF Phase, Live
  <1>3. \A v \in Uid : preparationOf(v)' = preparationOf(v)
    BY <1>1, <1>2, SamePhase
  <1>4. CASE DeleteEntry(d)
    <2>1. PICK u \in Uid : duid[d] = u
      BY <1>4 DEF DeleteEntry, TypeInv
    <2>2. \A v \in Uid : tasks'[v] = IF v = u THEN "absent" ELSE tasks[v]
      BY <1>4, <2>1 DEF DeleteEntry, TypeInv, TypeOK
    <2>3. StatusOf(u)' = "unknown" /\ \A v \in Uid \ {u} : StatusOf(v)' = StatusOf(v)
      BY <2>2 DEF StatusOf
    <2>4. CS!Forget(u)
      BY <1>3, <2>3, Forgets
    <2>5. QED
      BY <2>4 DEF CS!Next
  <1>5. CASE ~DeleteEntry(d)
    <2>1. tasks' = tasks
      BY <1>5 DEF Delete, DeleteBegin, DeleteUnlink, DeleteRmdir
    <2>2. QED
      BY <1>3, <2>1, Stutters DEF StatusOf
  <1>6. QED
    BY <1>4, <1>5

LEMMA RestartRefines ==
  ASSUME TypeInv, Inv, TypeInv', Inv', OwnerInv, OwnerInv', Restart
  PROVE  CS!Next
  <1>1. \A u \in Uid : StatusOf(u)' = "unknown"
    BY DEF Restart, StatusOf
  <1>2. ASSUME NEW c \in Call
        PROVE  /\ Phase(c)' # "running"
               /\ Phase(c) \in {"ended", "running"} => Phase(c)' = "ended"
    <2>1. hpc'[c] = IF hpc[c] \in {"copied", "inserted", "spawned"} THEN "dropped"
                                                                ELSE hpc[c]
      BY DEF Restart
    <2>2. tpc'[c] \notin TaskRunning
      BY DEF Restart, TaskRunning
    <2>3. hpc[c] \in {"idle", "rejected", "copied", "aborted"} => ~Live(c)
      BY DEF Live, Inv, TaskInv, TaskRunning
    <2>4. QED
      BY <2>1, <2>2, <2>3 DEF Phase, Live
  <1>3. uid' = uid
    BY DEF Restart
  <1>4. \A u \in Uid :
          /\ preparationOf(u)' # "running"
          /\ preparationOf(u) \in {"ended", "running"} => preparationOf(u)' = "ended"
          /\ preparationOf(u)' \in CS!Phases
    <2> SUFFICES ASSUME NEW u \in Uid
                 PROVE  /\ preparationOf(u)' # "running"
                        /\ preparationOf(u) \in {"ended", "running"}
                             => preparationOf(u)' = "ended"
                        /\ preparationOf(u)' \in CS!Phases
      OBVIOUS
    <2>1. preparationOf(u)' \in CS!Phases
      BY DEF preparationOf, CS!Phases
    <2>2. CASE \E c \in Call : uid[c] = u
      BY <1>2, <1>3, <2>1, <2>2 DEF OwnerInv
    <2>3. CASE \A c \in Call : uid[c] # u
      BY <1>3, <2>1, <2>3 DEF OwnerInv
    <2>4. QED
      BY <2>2, <2>3
  <1>5. CS!Crash
    BY <1>1, <1>4 DEF CS!Crash
  <1>6. QED
    BY <1>5 DEF CS!Next

LEMMA NextRefines ==
  ASSUME TypeInv, Inv, TypeInv', Inv', OwnerInv, OwnerInv', [Next]_vars
  PROVE  [CS!Next]_CS!vars
  <1>1. ASSUME NEW s \in Shower, Show(s) PROVE UNCHANGED CS!vars
    <2>1. UNCHANGED <<tasks, prepareVars>>
      BY <1>1, ShowFrame
    <2>2. \A u \in Uid : StatusOf(u)' = StatusOf(u) /\ preparationOf(u)' = preparationOf(u)
      BY <2>1 DEF StatusOf, preparationOf, Live
    <2>3. QED
      BY <2>2, Stutters
  <1>2. ASSUME UNCHANGED vars PROVE UNCHANGED CS!vars
    <2>1. \A u \in Uid : StatusOf(u)' = StatusOf(u) /\ preparationOf(u)' = preparationOf(u)
      BY <1>2 DEF vars, StatusOf, preparationOf, Live
    <2>2. QED
      BY <2>1, Stutters
  <1>3. QED
    BY <1>1, <1>2, PrepareRefines, TaskRefines, DeleteRefines, RestartRefines DEF Next

(***************************************************************************)
(* The client helper, with all its handlers, tasks and folders, keeps the  *)
(* promise of CredStore for any number of clients.                         *)
(***************************************************************************)
THEOREM HelperImplementsCredStore == Spec => ImplementsCredStore
  <1>1. Init => CS!Init
    <2> SUFFICES ASSUME Init PROVE CS!Init
      OBVIOUS
    <2>1. \A u \in Uid : StatusOf(u) = "unknown"
      BY DEF Init, StatusOf
    <2>2. \A u \in Uid : preparationOf(u) = "none"
      BY UidAssumption DEF Init, preparationOf, Live, TaskRunning
    <2>3. QED
      BY <2>1, <2>2 DEF CS!Init
  <1>2. TypeInv /\ Inv => OwnerInv
    BY OwnerPhase DEF Inv
  <1>3. TypeInv /\ Inv /\ (TypeInv /\ Inv)' /\ OwnerInv /\ OwnerInv' /\ [Next]_vars
          => [CS!Next]_CS!vars
    BY NextRefines
  <1>4. QED
    BY <1>1, <1>2, <1>3, InvCorrect, PTL DEF Spec, ImplementsCredStore, CS!Spec
===============================================================================
