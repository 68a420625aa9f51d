----------------------------- MODULE ClientHelper -----------------------------
(***************************************************************************)
(* The client helper: a Rocket server that prepares credentials for        *)
(* showing (sample/client_helper/src/main.rs).                             *)
(*                                                                         *)
(* Its state is a map in memory, from credential UIDs to the data a show   *)
(* needs ("tasks", behind one tokio Mutex), and a folder on disk per       *)
(* credential.  Requests are handled concurrently, and every /prepare      *)
(* leaves a background task behind that takes long: it fetches the         *)
(* issuer's key, reads the folder and creates the client state.  A step of *)
(* this model is what a handler or a task does between two points where    *)
(* another thread may observe it: a file system call or a critical section.*)
(*                                                                         *)
(* A panic in a handler or a task ends it where it stands, releases the    *)
(* Mutex (tokio's is not poisoned) and nothing else.                       *)
(***************************************************************************)
EXTENDS CrescentCommon, FiniteSets

CONSTANTS Uid,              \* the UUIDs compute_cred_uid may draw
          Call,             \* the calls of /prepare, with their tasks
          Deleter,          \* the calls of /delete in flight at once
          Shower,           \* the calls of /show in flight at once
          RequestedSchema,  \* the schema_uid values that clients send
          MaxRestarts       \* bound on restarts of the process

ASSUME UidAssumption == "none" \notin Uid
ASSUME CallAssumption == "absent" \notin Call /\ "preparing" \notin Call
ASSUME ShowerAssumption == "free" \notin Shower
ASSUME RestartsAssumption == MaxRestarts \in Nat

VARIABLES tasks,    \* SharedState: a UID's ShowData, None or no entry
          lock,     \* the holder of its Mutex across steps, or "free"
          folder,   \* the content of each credential's folder
          hpc,      \* where the handler of each /prepare is
          tpc,      \* where the task of each /prepare is
          uid,      \* the UID each /prepare drew
          schema,   \* the schema_uid each /prepare was given
          dpc,      \* where each /delete is
          duid,     \* the UID it deletes
          dleft,    \* what it saw in the folder and has yet to unlink
          spc,      \* where each /show is
          suid,     \* the UID it shows
          restarts, \* how often the process was restarted
          touched,  \* history: UIDs that a /delete was ever called for
          gone,     \* history: UIDs that a /delete answered "Deleted" for
          settled   \* history: UIDs forgotten after their task had ended

prepareVars == <<hpc, tpc, uid, schema>>
deleteVars == <<dpc, duid, dleft>>
showVars == <<lock, spc, suid>>
history == <<touched, gone, settled>>
vars == <<tasks, folder, prepareVars, deleteVars, showVars, restarts, history>>

(***************************************************************************)
(* A map entry is "absent", "preparing" (None) or the ShowData, for which  *)
(* stands the /prepare that made it: its client state is of that call's    *)
(* credential and its device_priv_key_path points into that call's folder. *)
(***************************************************************************)
Entry == Call \cup {"absent", "preparing"}

(***************************************************************************)
(* A folder is the set of its entries, {} when there is none: "dir" is the *)
(* folder itself, "cache" the link to the shared cache of parameters,      *)
(* "files" the links to the config, circuit and io_locations,              *)
(* "device.prv" the link to the device key, "issuer.pub" the key fetched   *)
(* from the issuer and "cache_dir" an empty cache CachePaths makes when it *)
(* finds none.  A UID is drawn once, so the folder <schema>/<UID> is named *)
(* by the UID alone, and of the three paths /delete tries one may exist.   *)
(***************************************************************************)
FolderEntry ==
  {"dir", "cache", "files", "device.prv", "issuer.pub", "cache_dir"}

shared(s) ==
  {"cache", "files"} \cup (IF s = "jwt_corporate_1" THEN {} ELSE {"device.prv"})

TaskRunning == {"fetch", "paths", "load", "build", "store", "err"}

TypeOK ==
  /\ tasks \in [Uid -> Entry]
  /\ lock \in Shower \cup {"free"}
  /\ folder \in [Uid -> SUBSET FolderEntry]
  /\ hpc \in [Call -> {"idle", "rejected", "copied", "inserted", "spawned",
                       "answered", "aborted", "panicked", "dropped"}]
  /\ tpc \in [Call -> TaskRunning
                \cup {"none", "done", "failed", "panicked", "killed"}]
  /\ uid \in [Call -> Uid \cup {"none"}]
  /\ schema \in [Call -> SCHEMA_UIDS \cup {"none"}]
  /\ dpc \in [Deleter -> {"idle", "unlink", "removed", "kept"}]
  /\ duid \in [Deleter -> Uid \cup {"none"}]
  /\ dleft \in [Deleter -> SUBSET FolderEntry]
  /\ spc \in [Shower -> {"idle", "sign", "prove"}]
  /\ suid \in [Shower -> Uid \cup {"none"}]
  /\ restarts \in 0..MaxRestarts
  /\ touched \subseteq Uid
  /\ gone \subseteq Uid
  /\ settled \subseteq Uid

Init ==
  /\ tasks = [u \in Uid |-> "absent"]
  /\ lock = "free"
  /\ folder = [u \in Uid |-> {}]
  /\ hpc = [c \in Call |-> "idle"]
  /\ tpc = [c \in Call |-> "none"]
  /\ uid = [c \in Call |-> "none"]
  /\ schema = [c \in Call |-> "none"]
  /\ dpc = [d \in Deleter |-> "idle"]
  /\ duid = [d \in Deleter |-> "none"]
  /\ dleft = [d \in Deleter |-> {}]
  /\ spc = [s \in Shower |-> "idle"]
  /\ suid = [s \in Shower |-> "none"]
  /\ restarts = 0
  /\ touched = {}
  /\ gone = {}
  /\ settled = {}

(* The UIDs that clients know: a client learns one from the answer of      *)
(* /prepare, and keeps it when the helper restarts.                        *)
Known == {uid[c] : c \in {b \in Call : hpc[b] = "answered"}}

(* The handler is about to spawn, or the task still acts on the map.       *)
Live(c) == hpc[c] = "inserted" \/ tpc[c] \in TaskRunning

Panicked(c) == hpc[c] = "panicked" \/ tpc[c] = "panicked"

SetTask(c, pc) == tpc' = [tpc EXCEPT ![c] = pc]

SetHandler(c, pc) == hpc' = [hpc EXCEPT ![c] = pc]

Put(u, e) == tasks' = [tasks EXCEPT ![u] = e]

-------------------------------------------------------------------------------
(* POST /prepare                                                           *)

(* Fault: the UID is derived from the credential, as a comment there plans. *)
RepeatableUid == Uid

compute_cred_uid == Uid \ {uid[c] : c \in Call}

PrepareReject(c) ==
  /\ hpc[c] = "idle"
  /\ \E s \in RequestedSchema : s \notin SCHEMA_UIDS
  /\ SetHandler(c, "rejected")
  /\ UNCHANGED <<tasks, folder, tpc, uid, schema, deleteVars, showVars,
                 restarts, history>>

(* create_dir_all and copy_with_symlinks: no other thread knows the UID    *)
(* yet.  When the shared folder was never set up, the handler panics here. *)
PrepareFolder(c) ==
  /\ hpc[c] = "idle"
  /\ \E u \in compute_cred_uid, s \in RequestedSchema \cap SCHEMA_UIDS :
       /\ uid' = [uid EXCEPT ![c] = u]
       /\ schema' = [schema EXCEPT ![c] = s]
       /\ \/ /\ folder' = [folder EXCEPT ![u] = {"dir"} \cup shared(s)]
             /\ SetHandler(c, "copied")
          \/ /\ folder' = [folder EXCEPT ![u] = {"dir"}]
             /\ SetHandler(c, "aborted")
  /\ UNCHANGED <<tasks, tpc, deleteVars, showVars, restarts, history>>

PrepareInsert(c) ==
  /\ hpc[c] = "copied"
  /\ lock = "free"
  /\ Put(uid[c], "preparing")
  /\ SetHandler(c, "inserted")
  /\ UNCHANGED <<folder, tpc, uid, schema, deleteVars, showVars, restarts,
                 history>>

(* Only a JWT asks the issuer for its key.                                 *)
FirstStep(c) ==
  IF cred_type_from_schema(schema[c]) = "jwt" THEN "fetch" ELSE "paths"

PrepareSpawn(c) ==
  /\ hpc[c] = "inserted"
  /\ SetHandler(c, "spawned")
  /\ SetTask(c, FirstStep(c))
  /\ UNCHANGED <<tasks, folder, uid, schema, deleteVars, showVars, restarts,
                 history>>

(* The claims of a jwt_sd credential are unwrapped after the entry is      *)
(* inserted and before the task is spawned.                                *)
PrepareClaimsPanic(c) ==
  /\ hpc[c] = "inserted"
  /\ schema[c] = "jwt_sd"
  /\ SetHandler(c, "panicked")
  /\ UNCHANGED <<tasks, folder, tpc, uid, schema, deleteVars, showVars,
                 restarts, history>>

(* Fault: the entry is inserted when the task may have finished already.   *)
PrepareAnswerInserts(c) ==
  /\ hpc[c] = "spawned"
  /\ lock = "free"
  /\ Put(uid[c], "preparing")
  /\ SetHandler(c, "answered")
  /\ UNCHANGED <<folder, tpc, uid, schema, deleteVars, showVars, restarts,
                 history>>

PrepareAnswer(c) ==
  /\ hpc[c] = "spawned"
  /\ SetHandler(c, "answered")
  /\ UNCHANGED <<tasks, folder, tpc, uid, schema, deleteVars, showVars,
                 restarts, history>>

Prepare(c) == \/ PrepareReject(c)
              \/ PrepareFolder(c)
              \/ PrepareInsert(c)
              \/ PrepareSpawn(c)
              \/ PrepareClaimsPanic(c)
              \/ PrepareAnswer(c)

-------------------------------------------------------------------------------
(* The task that /prepare spawns                                           *)

(* Of a step of the task that leaves everything but the folder alone.      *)
TaskOnly == UNCHANGED <<tasks, hpc, uid, schema, deleteVars, showVars,
                        restarts, history>>

Folder(c) == folder[uid[c]]

(* The request fails, or issuer.pub is written: fs::write creates the file *)
(* in a folder that exists and fails in one that is gone.                  *)
TaskFetch(c) ==
  /\ tpc[c] = "fetch"
  /\ \/ /\ SetTask(c, "err")
        /\ UNCHANGED folder
     \/ /\ "dir" \in Folder(c)
        /\ folder' = [folder EXCEPT ![uid[c]] = @ \cup {"issuer.pub"}]
        /\ SetTask(c, "paths")
  /\ TaskOnly

(* What CachePaths leaves in a folder it is made for.                      *)
WithCache(f) == IF f \cap {"cache", "cache_dir"} = {}
                  THEN f \cup {"cache_dir"} ELSE f

(* Fault: create_dir_all, which also makes the folder.                     *)
TaskPathsAll(c) ==
  /\ tpc[c] = "paths"
  /\ folder' = [folder EXCEPT ![uid[c]] = WithCache(@ \cup {"dir"})]
  /\ SetTask(c, "load")
  /\ TaskOnly

TaskPaths(c) ==
  /\ tpc[c] = "paths"
  /\ IF "dir" \in Folder(c)
       THEN /\ folder' = [folder EXCEPT ![uid[c]] = WithCache(@)]
            /\ SetTask(c, "load")
       ELSE /\ SetTask(c, "panicked")
            /\ UNCHANGED folder
  /\ TaskOnly

(* ProverParams and the range proof key come from the cache (opening a     *)
(* file that is not there panics), io_locations from the folder.           *)
TaskLoad(c) ==
  /\ tpc[c] = "load"
  /\ SetTask(c, IF "cache" \notin Folder(c) THEN "panicked"
                ELSE IF "files" \notin Folder(c) THEN "err" ELSE "build")
  /\ UNCHANGED folder
  /\ TaskOnly

(* Reads the client state (mDL) or creates one (JWT).  What the credential *)
(* holds decides whether this succeeds, returns an error or panics on one  *)
(* of the unwraps and assertions of create_client_state.                   *)
TaskBuild(c) ==
  /\ tpc[c] = "build"
  /\ \/ SetTask(c, "err")
     \/ SetTask(c, "panicked")
     \/ /\ "cache" \in Folder(c)
        /\ cred_type_from_schema(schema[c]) = "jwt"
             => {"files", "issuer.pub"} \subseteq Folder(c)
        /\ SetTask(c, "store")
  /\ UNCHANGED folder
  /\ TaskOnly

(* Fault: the task goes on to an error after it stored the ShowData.       *)
TaskStoreThenFails(c) ==
  /\ tpc[c] = "store"
  /\ lock = "free"
  /\ Put(uid[c], c)
  /\ SetTask(c, "err")
  /\ UNCHANGED <<folder, hpc, uid, schema, deleteVars, showVars, restarts,
                 history>>

TaskStore(c) ==
  /\ tpc[c] = "store"
  /\ lock = "free"
  /\ Put(uid[c], c)
  /\ SetTask(c, "done")
  /\ UNCHANGED <<folder, hpc, uid, schema, deleteVars, showVars, restarts,
                 history>>

(* Fault: an error is only logged.                                         *)
TaskErrorLogs(c) ==
  /\ tpc[c] = "err"
  /\ SetTask(c, "failed")
  /\ UNCHANGED folder
  /\ TaskOnly

TaskError(c) ==
  /\ tpc[c] = "err"
  /\ lock = "free"
  /\ Put(uid[c], "absent")
  /\ SetTask(c, "failed")
  /\ UNCHANGED <<folder, hpc, uid, schema, deleteVars, showVars, restarts,
                 history>>

Task(c) == \/ TaskFetch(c)
           \/ TaskPaths(c)
           \/ TaskLoad(c)
           \/ TaskBuild(c)
           \/ TaskStore(c)
           \/ TaskError(c)
-------------------------------------------------------------------------------
(* GET /delete                                                             *)

(* remove_dir_all opens the folder and lists it; opening a folder that is  *)
(* not there fails under every schema.                                     *)
DeleteBegin(d) ==
  /\ dpc[d] = "idle"
  /\ \E u \in Known :
       /\ duid' = [duid EXCEPT ![d] = u]
       /\ dleft' = [dleft EXCEPT ![d] = folder[u] \ {"dir"}]
       /\ dpc' = [dpc EXCEPT ![d] = IF "dir" \in folder[u] THEN "unlink"
                                                         ELSE "kept"]
       /\ touched' = touched \cup {u}
  /\ UNCHANGED <<tasks, folder, prepareVars, showVars, restarts, gone, settled>>

(* An entry is unlinked, also one that came after the listing began, or is *)
(* found to be unlinked already.                                           *)
DeleteUnlink(d) ==
  /\ dpc[d] = "unlink"
  /\ \E e \in dleft[d] \cup (folder[duid[d]] \ {"dir"}) :
       /\ dleft' = [dleft EXCEPT ![d] = @ \ {e}]
       /\ folder' = [folder EXCEPT ![duid[d]] = @ \ {e}]
  /\ UNCHANGED <<tasks, prepareVars, dpc, duid, showVars, restarts, history>>

(* The folder itself goes only when it is empty: one that the task wrote   *)
(* to meanwhile, or that another /delete removed, is an error.             *)
DeleteRmdir(d) ==
  /\ dpc[d] = "unlink"
  /\ dleft[d] = {}
  /\ IF folder[duid[d]] = {"dir"}
       THEN /\ folder' = [folder EXCEPT ![duid[d]] = {}]
            /\ dpc' = [dpc EXCEPT ![d] = "removed"]
       ELSE /\ dpc' = [dpc EXCEPT ![d] = "kept"]
            /\ UNCHANGED folder
  /\ UNCHANGED <<tasks, prepareVars, duid, dleft, showVars, restarts, history>>

(* The entry is removed whether or not the folder was, then the answer is  *)
(* "Deleted" or "Failed to delete folder".                                 *)
(* Fault: the entry is kept when the folder could not be removed.          *)
DeleteEntryIfRemoved(d) ==
  /\ dpc[d] \in {"removed", "kept"}
  /\ lock = "free"
  /\ IF dpc[d] = "removed" THEN Put(duid[d], "absent") ELSE UNCHANGED tasks
  /\ dpc' = [dpc EXCEPT ![d] = "idle"]
  /\ gone' = IF dpc[d] = "removed" THEN gone \cup {duid[d]} ELSE gone
  /\ settled' = IF \E c \in Call : uid[c] = duid[d] /\ Live(c)
                  THEN settled ELSE settled \cup {duid[d]}
  /\ UNCHANGED <<folder, prepareVars, duid, dleft, showVars, restarts, touched>>

DeleteEntry(d) ==
  /\ dpc[d] \in {"removed", "kept"}
  /\ lock = "free"
  /\ Put(duid[d], "absent")
  /\ dpc' = [dpc EXCEPT ![d] = "idle"]
  /\ gone' = IF dpc[d] = "removed" THEN gone \cup {duid[d]} ELSE gone
  /\ settled' = IF \E c \in Call : uid[c] = duid[d] /\ Live(c)
                  THEN settled ELSE settled \cup {duid[d]}
  /\ UNCHANGED <<folder, prepareVars, duid, dleft, showVars, restarts, touched>>

Delete(d) == \/ DeleteBegin(d)
             \/ DeleteUnlink(d)
             \/ DeleteRmdir(d)
             \/ DeleteEntry(d)

-------------------------------------------------------------------------------
(* GET /show, and the reads GET /status and GET /getshowdata               *)

StatusOf(u) == CASE tasks[u] = "absent" -> "unknown"
                 [] tasks[u] = "preparing" -> "preparing"
                 [] OTHER -> "ready"

(* Fault: the Mutex is held for the lookup only.                           *)
LookupOnly(s) == "free"

WhileProving(s) == s

(* The calls that find no ShowData, and those whose credential type does   *)
(* not support the disclosure, answer at once and change nothing.  The     *)
(* others keep the Mutex until the proof is made.                          *)
ShowBegin(s) ==
  /\ spc[s] = "idle"
  /\ lock = "free"
  /\ \E u \in Known, disc \in Disclosures, device_bound \in BOOLEAN :
       /\ tasks[u] \in Call
       /\ is_disc_uid_supported(disc, cred_type_from_schema(schema[tasks[u]]))
       /\ suid' = [suid EXCEPT ![s] = u]
       /\ spc' = [spc EXCEPT ![s] = IF device_bound THEN "sign" ELSE "prove"]
       /\ lock' = WhileProving(s)
  /\ UNCHANGED <<tasks, folder, prepareVars, deleteVars, restarts, history>>

(* Fault: the Mutex is held by a handler that ended.                       *)
ShowReturnsLocked(s) == /\ spc' = [spc EXCEPT ![s] = "idle"]
                        /\ UNCHANGED lock

(* The answer, an error or a panic: all of them release the Mutex.         *)
ShowReturns(s) == /\ spc' = [spc EXCEPT ![s] = "idle"]
                  /\ lock' = "free"

(* The device key is read from the credential's folder; without it the     *)
(* handler panics.                                                         *)
ShowSign(s) ==
  /\ spc[s] = "sign"
  /\ IF "device.prv" \in Folder(tasks[suid[s]])
       THEN /\ spc' = [spc EXCEPT ![s] = "prove"]
            /\ UNCHANGED lock
       ELSE ShowReturns(s)
  /\ UNCHANGED <<tasks, folder, prepareVars, deleteVars, suid, restarts, history>>

ShowProve(s) ==
  /\ spc[s] = "prove"
  /\ ShowReturns(s)
  /\ UNCHANGED <<tasks, folder, prepareVars, deleteVars, suid, restarts, history>>

Show(s) == ShowBegin(s) \/ ShowSign(s) \/ ShowProve(s)

-------------------------------------------------------------------------------
(* The process dies and starts again: the map is in memory, the folders    *)
(* are not, and nothing at start looks at them.                            *)
Restart ==
  /\ restarts < MaxRestarts
  /\ restarts' = restarts + 1
  /\ tasks' = [u \in Uid |-> "absent"]
  /\ lock' = "free"
  /\ hpc' = [c \in Call |-> IF hpc[c] \in {"copied", "inserted", "spawned"}
                             THEN "dropped" ELSE hpc[c]]
  /\ tpc' = [c \in Call |-> IF tpc[c] \in TaskRunning THEN "killed" ELSE tpc[c]]
  /\ dpc' = [d \in Deleter |-> "idle"]
  /\ spc' = [s \in Shower |-> "idle"]
  /\ UNCHANGED <<folder, uid, schema, duid, dleft, suid, history>>

Next == \/ \E c \in Call : Prepare(c) \/ Task(c)
        \/ \E d \in Deleter : Delete(d)
        \/ \E s \in Shower : Show(s)
        \/ Restart

Spec == Init /\ [][Next]_vars

(***************************************************************************)
(* The runtime keeps polling every handler and task that can go on, and a  *)
(* fetch or a proof ends one way or the other.  tokio's Mutex is granted   *)
(* in the order of arrival, so that one who waits for it gets it: strong   *)
(* fairness.  No client has to call, and nothing has to crash.             *)
(***************************************************************************)
Fairness ==
  /\ \A c \in Call : /\ WF_vars(PrepareSpawn(c) \/ PrepareAnswer(c))
                      /\ SF_vars(PrepareInsert(c))
                      /\ WF_vars(TaskFetch(c) \/ TaskPaths(c) \/ TaskLoad(c)
                                   \/ TaskBuild(c))
                      /\ SF_vars(TaskStore(c) \/ TaskError(c))
  /\ \A d \in Deleter : /\ WF_vars(DeleteUnlink(d) \/ DeleteRmdir(d))
                         /\ SF_vars(DeleteEntry(d))
  /\ \A s \in Shower : WF_vars(ShowSign(s) \/ ShowProve(s))

FairSpec == Spec /\ Fairness

-------------------------------------------------------------------------------
(***************************************************************************)
(* The ShowData of a UID belongs to the call of /prepare that was given    *)
(* this UID, and as long as no /delete was called for it, its folder is    *)
(* still whole, with the device key that /show signs with: whatever other  *)
(* preparations, failures and restarts there were.                         *)
(***************************************************************************)
ReadyIsBacked ==
  \A u \in Uid : tasks[u] \in Call =>
    /\ uid[tasks[u]] = u
    /\ u \notin touched => {"dir"} \cup shared(schema[tasks[u]]) \subseteq folder[u]

(***************************************************************************)
(* An entry says "preparing" only while a handler or a task is still at    *)
(* work on that UID, or after one of them panicked: an error of the task   *)
(* removes the entry, a crash loses it.                                    *)
(***************************************************************************)
PreparingHasWorker ==
  \A u \in Uid : tasks[u] = "preparing" =>
    \E c \in Call : uid[c] = u /\ (Live(c) \/ Panicked(c))

(***************************************************************************)
(* While /show makes a proof, the credential stays in the map: a /delete   *)
(* or a task error that comes in meanwhile has to wait for the Mutex.      *)
(***************************************************************************)
ShowHoldsEntry ==
  \A s \in Shower : spc[s] # "idle" => tasks[suid[s]] \in Call

(***************************************************************************)
(* After the answer "Deleted" the credential's folder is gone and nothing  *)
(* of it comes back, not even by a task that was still using it.           *)
(***************************************************************************)
DeletedStaysGone == \A u \in gone : folder[u] = {}

(***************************************************************************)
(* A UID whose task had ended when /delete removed its entry is unknown    *)
(* from then on.  (One deleted while its task still runs may come back.)   *)
(***************************************************************************)
SettledStaysUnknown == \A u \in settled : StatusOf(u) = "unknown"

(***************************************************************************)
(* A ready credential keeps its ShowData, unchanged, until a /delete of    *)
(* this very UID removes it or the process restarts.                       *)
(***************************************************************************)
ReadyLostOnlyByDelete ==
  [][\A u \in Uid : tasks[u] \in Call /\ tasks'[u] # tasks[u] =>
       \/ restarts' # restarts
       \/ \E d \in Deleter : duid[d] = u /\ dpc[d] # "idle" /\ dpc'[d] = "idle"
    ]_vars

(***************************************************************************)
(* Whoever holds the Mutex lets go of it, also when the proof panics.      *)
(***************************************************************************)
LockIsReleased == lock # "free" ~> lock = "free"

(***************************************************************************)
(* A client that polls /status sees "preparing" come to an end, unless a   *)
(* handler or a task of this UID panicked.                                 *)
(***************************************************************************)
PreparingEnds ==
  \A u \in Uid : tasks[u] = "preparing" ~>
     \/ tasks[u] # "preparing"
     \/ \E c \in Call : uid[c] = u /\ Panicked(c)

-------------------------------------------------------------------------------
(* The abstract view: what /status answers, and how far a UID's one        *)
(* preparation has come.                                                   *)

preparationOf(u) ==
  IF \E c \in Call : uid[c] = u /\ Live(c) THEN "running"
  ELSE IF \E c \in Call : uid[c] = u /\ hpc[c] \notin {"copied", "aborted"}
         THEN "ended"
  ELSE "none"

CS == INSTANCE CredStore WITH status <- [u \in Uid |-> StatusOf(u)],
                              preparation <- [u \in Uid |-> preparationOf(u)]

ImplementsCredStore == CS!Spec
===============================================================================
