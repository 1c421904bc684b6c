------------------------------ MODULE Registry ------------------------------
(***************************************************************************)
(* The device and group registry (app/registry.py): its HTTP handlers, run *)
(* by the threads of the server's pool.                                    *)
(*                                                                         *)
(* A handler is its reads, each a step, then one transaction.  Between a   *)
(* read and the transaction the other threads commit theirs.  A            *)
(* transaction may also fail as a whole: a constraint of the schema stops  *)
(* it, or the write lock is not had within SQLite's busy timeout.  Both    *)
(* reach the client as a 500, kept apart here.                             *)
(***************************************************************************)
EXTENDS Store

CONSTANTS
    Worker,         \* threads of the pool
    NoJob,          \* the job of an idle thread
    MaxRestarts     \* bound on the restarts of the process

ASSUME RegistryAssumption == MaxRestarts \in Nat

VARIABLES
    groups,         \* primary keys of table groups
    job,            \* worker -> the request it serves, or NoJob
    reply,          \* worker -> its last answer
    balance,        \* history: id -> 201s of POST minus 200s of DELETE
    torn,           \* history: workers that read a device which was deleted
                    \* after their first SELECT
    restarts

vars == <<tables, groups, job, reply, balance, torn, restarts>>

Job == UNION {
    [op : {"post_device"}, dev : DeviceId, grp : GroupId, at : {"check", "write"}],
    [op : {"patch_device"}, dev : DeviceId, grp : GroupId \cup {Null}, at : {"check", "write"}],
    [op : {"delete_device"}, dev : DeviceId, at : {"write"}],
    [op : {"post_group"}, grp : GroupId, at : {"check", "write"}],
    [op : {"delete_group"}, grp : GroupId, at : {"check", "write"}],
    [op : {"get_device"}, dev : DeviceId, at : {"check", "state", "shadow"},
     found : BOOLEAN] }         \* found: the SELECT on device_state had a row

Reply == {"none", "200", "201", "400", "404", "409", "500 constraint", "500 busy"}

TypeOK ==
    /\ StoreTypeOK
    /\ groups \subseteq GroupId
    /\ job \in [Worker -> Job \cup {NoJob}]
    /\ reply \in [Worker -> Reply]
    /\ balance \in [DeviceId -> Int]
    /\ torn \subseteq Worker
    /\ restarts \in 0..MaxRestarts

(* init_db has run: the default group is there. *)
Init ==
    /\ StoreInit
    /\ groups = {DefaultGroup}
    /\ job = [w \in Worker |-> NoJob]
    /\ reply = [w \in Worker |-> "none"]
    /\ balance = [d \in DeviceId |-> 0]
    /\ torn = {}
    /\ restarts = 0

-----------------------------------------------------------------------------
Answer(w, code) ==
    /\ job' = [job EXCEPT ![w] = NoJob]
    /\ reply' = [reply EXCEPT ![w] = code]

At(w, op, step) == job[w] # NoJob /\ job[w].op = op /\ job[w].at = step

(* The read found what the handler asks for: on to the transaction, or to  *)
(* the next read.                                                          *)
GoOn(w) == /\ job' = [job EXCEPT ![w].at = IF job[w].op = "get_device" THEN "state"
                                                                       ELSE "write"]
           /\ UNCHANGED reply

(* A request reaches an idle thread.  delete_group turns the default group *)
(* down before it opens the database, delete_device reads nothing first.   *)
Call(w) ==
    /\ job[w] = NoJob
    /\ \E req \in Job :
         /\ req.at = IF req.op = "delete_device" THEN "write" ELSE "check"
         /\ IF req.op = "delete_group" /\ req.grp = DefaultGroup
            THEN Answer(w, "400")
            ELSE /\ job' = [job EXCEPT ![w] = req]
                 /\ reply' = [reply EXCEPT ![w] = "none"]
    /\ UNCHANGED <<tables, groups, balance, restarts>>

(* The SELECT of create_device, patch_device, get_device, post_group,      *)
(* delete_group.                                                           *)
CheckDevice(w) ==
    /\ \/ At(w, "post_device", "check") /\ IF job[w].dev \in Registered
                                           THEN Answer(w, "409") ELSE GoOn(w)
       \/ /\ At(w, "patch_device", "check") \/ At(w, "get_device", "check")
          /\ IF job[w].dev \in Registered THEN GoOn(w) ELSE Answer(w, "404")
    /\ UNCHANGED <<tables, groups, balance, restarts>>

CheckGroup(w) ==
    /\ \/ At(w, "post_group", "check") /\ IF job[w].grp \in groups
                                          THEN Answer(w, "409") ELSE GoOn(w)
       \/ At(w, "delete_group", "check") /\ IF job[w].grp \in groups
                                            THEN GoOn(w) ELSE Answer(w, "404")
    /\ UNCHANGED <<tables, groups, balance, restarts>>

(* get_device: the SELECT on device_state, then that on device_shadow; a   *)
(* row that is not there is shown as offline and as empty objects.         *)
ReadState(w) ==
    /\ At(w, "get_device", "state")
    /\ job' = [job EXCEPT ![w].at = "shadow",
                          ![w].found = job[w].dev \in DOMAIN device_state]
    /\ UNCHANGED <<tables, groups, reply, balance, restarts>>

ReadShadow(w) ==
    /\ At(w, "get_device", "shadow")
    /\ Answer(w, "200")
    /\ UNCHANGED <<tables, groups, balance, restarts>>

(* post_device: both INSERTs and the commit. *)
PostDevice(w) ==
    /\ At(w, "post_device", "write")
    /\ InsertDevice(job[w].dev, job[w].grp)
    /\ balance' = [balance EXCEPT ![job[w].dev] = @ + 1]
    /\ Answer(w, "201")
    /\ UNCHANGED <<groups, restarts>>

(* Faulty variant: group_id is written also when the body has none. *)
PatchDeviceAlways(w) ==
    /\ At(w, "patch_device", "write")
    /\ UpdateGroup(job[w].dev, job[w].grp)
    /\ Answer(w, "200")
    /\ UNCHANGED <<groups, balance, restarts>>

(* patch_device: an UPDATE of no row is no error; a body without group_id  *)
(* leaves the group alone.                                                 *)
PatchDevice(w) ==
    /\ At(w, "patch_device", "write")
    /\ IF job[w].grp = Null THEN UNCHANGED tables
                            ELSE UpdateGroup(job[w].dev, job[w].grp)
    /\ Answer(w, "200")
    /\ UNCHANGED <<groups, balance, restarts>>

(* delete_device answers by the row count of its DELETE. *)
RemoveDevice(w) ==
    /\ At(w, "delete_device", "write")
    /\ DeleteDevice(job[w].dev)
    /\ IF job[w].dev \in Registered
       THEN /\ balance' = [balance EXCEPT ![job[w].dev] = @ - 1]
            /\ Answer(w, "200")
       ELSE UNCHANGED balance /\ Answer(w, "404")
    /\ UNCHANGED <<groups, restarts>>

PostGroup(w) ==
    /\ At(w, "post_group", "write")
    /\ job[w].grp \notin groups                 \* groups.id PRIMARY KEY
    /\ groups' = groups \cup {job[w].grp}
    /\ Answer(w, "201")
    /\ UNCHANGED <<tables, balance, restarts>>

DeleteGroup(w) ==
    /\ At(w, "delete_group", "write")
    /\ RehomeGroup(job[w].grp)
    /\ groups' = groups \ {job[w].grp}
    /\ Answer(w, "200")
    /\ UNCHANGED <<balance, restarts>>

(* The primary key that a concurrent POST took since the check. *)
DuplicateKey(w) ==
    /\ \/ At(w, "post_device", "write") /\ job[w].dev \in Registered
       \/ At(w, "post_group", "write") /\ job[w].grp \in groups
    /\ Answer(w, "500 constraint")
    /\ UNCHANGED <<tables, groups, balance, restarts>>

(* The lock was not had in time: OperationalError, nothing written. *)
Busy(w) ==
    /\ job[w] # NoJob /\ job[w].at = "write"
    /\ Answer(w, "500 busy")
    /\ UNCHANGED <<tables, groups, balance, restarts>>

(* The process stops and starts: requests are gone, the file is not, and   *)
(* init_db puts the default group back if it is missing.                   *)
Restart ==
    /\ restarts < MaxRestarts
    /\ restarts' = restarts + 1
    /\ groups' = groups \cup {DefaultGroup}
    /\ job' = [w \in Worker |-> NoJob]
    /\ reply' = [w \in Worker |-> "none"]
    /\ UNCHANGED <<tables, balance>>

(* The bridge and the shadow handlers write their own tables meanwhile.     *)
OtherWriters ==
    /\ \E d \in DeviceId : \/ SaveReported(d, EmptyDoc)
                           \/ SaveStatus(d, TRUE, Null, Null)
    /\ UNCHANGED <<groups, job, reply, balance, restarts>>

Serve(w) == \/ CheckDevice(w) \/ CheckGroup(w) \/ ReadState(w) \/ ReadShadow(w)
            \/ PostDevice(w) \/ PatchDevice(w) \/ RemoveDevice(w)
            \/ PostGroup(w) \/ DeleteGroup(w)
            \/ DuplicateKey(w) \/ Busy(w)

Reading(w) == At(w, "get_device", "state") \/ At(w, "get_device", "shadow")

(* The history of the readers, in every step. *)
Watch == torn' = {w \in Worker : Reading(w)' /\ (w \in torn \/ job'[w].dev \notin Registered')}

Next == /\ Restart \/ OtherWriters \/ \E w \in Worker : Call(w) \/ Serve(w)
        /\ Watch

Spec == Init /\ [][Next]_vars

-----------------------------------------------------------------------------
(* The answers add up: whatever requests overlap, an id has been answered  *)
(* 201 once more than it was answered 200 to a DELETE if it is registered, *)
(* and equally often if it is not.  Two POSTs never both win an id, two    *)
(* DELETEs never both remove it (post_device, delete_device).              *)
AnswersBalance ==
    \A d \in DeviceId : balance[d] = IF d \in Registered THEN 1 ELSE 0

(* get_device shows a device without its state, as offline and never seen, *)
(* only if the device was deleted while it was reading: a device that is   *)
(* just being created is shown whole or not at all.                        *)
ShownWhole ==
    \A w \in Worker : At(w, "get_device", "shadow") /\ ~job[w].found => w \in torn

(* delete_group moves every member in the transaction that drops the       *)
(* group, also a device that joined after the handler's check; and the     *)
(* default group it moves them to is never dropped.                        *)
NoMemberLeftBehind ==
    [][/\ DefaultGroup \in groups'
       /\ \A g \in groups \ groups', d \in Registered' : devices'[d] # g]_vars
=============================================================================
