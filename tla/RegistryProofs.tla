--------------------------- MODULE RegistryProofs ---------------------------
(***************************************************************************)
(* Proofs about the registry, for any number of threads, ids and groups.   *)
(* The inductive invariant is TypeOK, Integrity, the balance of the        *)
(* answers, the presence of the default group, and what keeps it there: no *)
(* thread that serves a delete_group is after it.                          *)
(***************************************************************************)
EXTENDS Registry, StoreProofs

DefaultGroupStays == DefaultGroup \in groups
DefaultGroupSafe ==
    \A w \in Worker : job[w] # NoJob /\ job[w].op = "delete_group" => job[w].grp # DefaultGroup
JobsOK == /\ job \in [Worker -> Job \cup {NoJob}] /\ reply \in [Worker -> Reply]
          /\ DefaultGroupSafe
IInv == TypeOK /\ Integrity /\ AnswersBalance /\ DefaultGroupStays /\ DefaultGroupSafe

(* A job that is not NoJob is a request, and its fields are typed. *)
LEMMA JobType ==
    ASSUME TypeOK, NEW w \in Worker, NEW op, NEW step, At(w, op, step)
    PROVE  /\ job[w] \in Job
           /\ op \in {"post_device", "patch_device", "delete_device", "get_device"} =>
                job[w].dev \in DeviceId
           /\ op \in {"post_device", "post_group", "delete_group"} => job[w].grp \in GroupId
           /\ op = "patch_device" => job[w].grp \in GroupId \cup {Null}
BY DEF TypeOK, At, Job

(* A request that has passed its check is still the same request. *)
LEMMA GoOnType ==
    ASSUME TypeOK, DefaultGroupSafe, NEW w \in Worker, NEW op, At(w, op, "check"), GoOn(w)
    PROVE  JobsOK'
<1>1. job[w] \in Job /\ job[w] # NoJob /\ job[w].at = "check"
  BY JobType DEF At
<1> DEFINE next == [job[w] EXCEPT !.at = IF job[w].op = "get_device" THEN "state"
                                                                  ELSE "write"]
<1>2. next \in Job /\ next.op = job[w].op
      /\ (next.op = "delete_group" => next.grp = job[w].grp)
  BY <1>1 DEF Job
<1>3. job' = [job EXCEPT ![w] = next] /\ reply' = reply
  BY DEF GoOn
<1>. HIDE DEF next
<1>. QED
  BY <1>1, <1>2, <1>3 DEF TypeOK, DefaultGroupSafe, JobsOK

(* An answer frees the thread. *)
LEMMA AnswerType ==
    ASSUME TypeOK, DefaultGroupSafe, NEW w \in Worker, NEW code \in Reply, Answer(w, code)
    PROVE  JobsOK'
BY DEF TypeOK, Answer, DefaultGroupSafe, JobsOK

(* The history names threads only. *)
LEMMA WatchType == ASSUME Watch PROVE torn' \subseteq Worker
BY DEF Watch

(* Steps that leave the tables and the balance alone only owe the types of *)
(* the jobs and the replies.                                               *)
LEMMA TablesUntouched ==
    ASSUME IInv, UNCHANGED <<tables, groups, balance, restarts>>,
           JobsOK', Watch
    PROVE  IInv'
BY WatchType DEF IInv, TypeOK, StoreTypeOK, Integrity, AnswersBalance, DefaultGroupStays,
       JobsOK, Registered, tables

(* A 404 or 409 of a check, a 500 or a refused call: nothing is written. *)
LEMMA CheckStep ==
    ASSUME IInv, NEW w \in Worker,
           Call(w) \/ CheckDevice(w) \/ CheckGroup(w) \/ DuplicateKey(w) \/ Busy(w),
           Watch
    PROVE  IInv'
<1>. TypeOK /\ DefaultGroupSafe
  BY DEF IInv
<1>. USE DEF Reply
<1>1. CASE Call(w)
  <2>1. PICK req \in Job :
          IF req.op = "delete_group" /\ req.grp = DefaultGroup
          THEN Answer(w, "400")
          ELSE /\ job' = [job EXCEPT ![w] = req]
               /\ reply' = [reply EXCEPT ![w] = "none"]
    BY <1>1 DEF Call
  <2>2. JobsOK'
    BY <1>1, <2>1, AnswerType DEF TypeOK, JobsOK, DefaultGroupSafe
  <2>. QED
    BY <1>1, <2>2, TablesUntouched DEF Call
<1>2. CASE CheckDevice(w)
  <2>1. Answer(w, "409") \/ Answer(w, "404") \/ (\E op : At(w, op, "check") /\ GoOn(w))
    BY <1>2 DEF CheckDevice
  <2>2. JobsOK'
    BY <2>1, AnswerType, GoOnType
  <2>. QED
    BY <1>2, <2>2, TablesUntouched DEF CheckDevice
<1>3. CASE CheckGroup(w)
  <2>1. Answer(w, "409") \/ Answer(w, "404") \/ (\E op : At(w, op, "check") /\ GoOn(w))
    BY <1>3 DEF CheckGroup
  <2>2. JobsOK'
    BY <2>1, AnswerType, GoOnType
  <2>. QED
    BY <1>3, <2>2, TablesUntouched DEF CheckGroup
<1>4. CASE DuplicateKey(w)
  BY <1>4, AnswerType, TablesUntouched DEF DuplicateKey
<1>5. CASE Busy(w)
  BY <1>5, AnswerType, TablesUntouched DEF Busy
<1>. QED
  BY <1>1, <1>2, <1>3, <1>4, <1>5

(* What the second SELECT of get_device makes of its job. *)
LEMMA FoundType ==
    ASSUME NEW j \in Job, j.op = "get_device", NEW found \in BOOLEAN
    PROVE  /\ [j EXCEPT !.at = "shadow", !.found = found] \in Job
           /\ [j EXCEPT !.at = "shadow", !.found = found].op = "get_device"
<1> DEFINE Read == [op : {"get_device"}, dev : DeviceId, at : {"check", "state", "shadow"},
                    found : BOOLEAN]
<1>1. j \in Read
  BY SMTT(30) DEF Job
<1>2. [j EXCEPT !.at = "shadow", !.found = found] \in Read
  BY <1>1
<1>3. Read \subseteq Job
  BY DEF Job
<1>. QED
  BY <1>1, <1>2, <1>3

(* get_device reads on: nothing is written. *)
LEMMA ReadStep ==
    ASSUME IInv, NEW w \in Worker, ReadState(w) \/ ReadShadow(w), Watch
    PROVE  IInv'
<1>. TypeOK /\ DefaultGroupSafe
  BY DEF IInv
<1>1. CASE ReadState(w)
  <2> DEFINE found == job[w].dev \in DOMAIN device_state
             next == [job[w] EXCEPT !.at = "shadow", !.found = found]
  <2>1. job[w] \in Job /\ job[w].op = "get_device"
    BY <1>1, JobType DEF ReadState, At
  <2>2. next \in Job /\ next.op = "get_device"
    <3>1. found \in BOOLEAN
      OBVIOUS
    <3>. HIDE DEF found
    <3>. QED
      BY <2>1, <3>1, FoundType, Zenon
  <2>3. job' = [job EXCEPT ![w] = next] /\ reply' = reply
    BY <1>1 DEF ReadState
  <2>. HIDE DEF next
  <2>4. JobsOK'
    BY <2>2, <2>3 DEF TypeOK, DefaultGroupSafe, JobsOK
  <2>. QED
    BY <1>1, <2>4, TablesUntouched DEF ReadState
<1>2. CASE ReadShadow(w)
  BY <1>2, AnswerType, TablesUntouched DEF ReadShadow, Reply
<1>. QED
  BY <1>1, <1>2

(* post_device: the primary key makes sure that the id was not registered, *)
(* so the balance goes from 0 to 1.                                        *)
LEMMA PostDeviceStep ==
    ASSUME IInv, NEW w \in Worker, PostDevice(w), Watch
    PROVE  IInv'
<1> DEFINE d == job[w].dev
<1>1. TypeOK /\ StoreTypeOK /\ Integrity /\ DefaultGroupSafe
  BY DEF IInv, TypeOK
<1>2. d \in DeviceId /\ job[w].grp \in GroupId
  BY <1>1, JobType DEF PostDevice
<1>3. StoreTypeOK' /\ Integrity' /\ Registered' = Registered \cup {d}
  BY <1>1, <1>2, InsertDeviceOK DEF PostDevice
<1>4. d \notin Registered
  BY DEF PostDevice, InsertDevice
<1>5. AnswersBalance' /\ balance' \in [DeviceId -> Int]
  BY <1>1, <1>2, <1>3, <1>4 DEF PostDevice, AnswersBalance, IInv, TypeOK
<1>6. JobsOK'
  BY <1>1, AnswerType DEF PostDevice, Reply
<1>. QED
  BY <1>3, <1>5, <1>6, WatchType DEF IInv, TypeOK, PostDevice, DefaultGroupStays, JobsOK

(* patch_device changes no id. *)
LEMMA PatchDeviceStep ==
    ASSUME IInv, NEW w \in Worker, PatchDevice(w), Watch
    PROVE  IInv'
<1>1. TypeOK /\ StoreTypeOK /\ Integrity /\ DefaultGroupSafe
  BY DEF IInv, TypeOK
<1>2. StoreTypeOK' /\ Integrity' /\ Registered' = Registered
  <2>1. CASE job[w].grp = Null
    BY <1>1, <2>1 DEF PatchDevice, tables, StoreTypeOK, Integrity, Registered
  <2>2. CASE job[w].grp # Null
    <3>1. job[w].dev \in DeviceId /\ job[w].grp \in GroupId
      BY <1>1, <2>2, JobType DEF PatchDevice
    <3>. QED
      BY <1>1, <2>2, <3>1, UpdateGroupOK DEF PatchDevice
  <2>. QED
    BY <2>1, <2>2
<1>3. JobsOK'
  BY <1>1, AnswerType DEF PatchDevice, Reply
<1>. QED
  BY <1>2, <1>3, WatchType DEF IInv, TypeOK, PatchDevice, AnswersBalance,
     DefaultGroupStays, JobsOK

(* delete_device counts down exactly when its DELETE found the row. *)
LEMMA RemoveDeviceStep ==
    ASSUME IInv, NEW w \in Worker, RemoveDevice(w), Watch
    PROVE  IInv'
<1> DEFINE d == job[w].dev
<1>1. TypeOK /\ StoreTypeOK /\ Integrity /\ DefaultGroupSafe
  BY DEF IInv, TypeOK
<1>2. d \in DeviceId
  BY <1>1, JobType DEF RemoveDevice
<1>3. StoreTypeOK' /\ Integrity' /\ Registered' = Registered \ {d}
  BY <1>1, <1>2, DeleteDeviceOK DEF RemoveDevice
<1>4. AnswersBalance' /\ balance' \in [DeviceId -> Int]
  <2>1. CASE d \in Registered
    BY <1>1, <1>2, <1>3, <2>1 DEF RemoveDevice, AnswersBalance, IInv, TypeOK
  <2>2. CASE d \notin Registered
    BY <1>1, <1>2, <1>3, <2>2 DEF RemoveDevice, AnswersBalance, IInv, TypeOK
  <2>. QED
    BY <2>1, <2>2
<1>5. JobsOK'
  BY <1>1, AnswerType DEF RemoveDevice, Reply
<1>. QED
  BY <1>3, <1>4, <1>5, WatchType DEF IInv, TypeOK, RemoveDevice, DefaultGroupStays, JobsOK

(* A group that comes touches no device. *)
LEMMA PostGroupStep ==
    ASSUME IInv, NEW w \in Worker, PostGroup(w), Watch
    PROVE  IInv'
<1>1. TypeOK /\ DefaultGroupSafe
  BY DEF IInv
<1>2. job[w].grp \in GroupId
  BY <1>1, JobType DEF PostGroup
<1>3. JobsOK'
  BY <1>1, AnswerType DEF PostGroup, Reply
<1>. QED
  BY <1>2, <1>3, WatchType DEF PostGroup, IInv, TypeOK, StoreTypeOK, Integrity, AnswersBalance,
     DefaultGroupStays, JobsOK, Registered, tables

(* delete_group, a restart and the writes of others leave the ids alone. *)
LEMMA OtherStep ==
    ASSUME IInv, Restart \/ OtherWriters \/ \E w \in Worker : DeleteGroup(w), Watch
    PROVE  IInv'
<1>1. TypeOK /\ StoreTypeOK /\ Integrity /\ DefaultGroupSafe
  BY DEF IInv, TypeOK
<1>2. CASE Restart
  <2>1. StoreTypeOK' /\ Integrity' /\ Registered' = Registered
    BY <1>1, <1>2 DEF Restart, tables, StoreTypeOK, Integrity, Registered
  <2>2. JobsOK'
    BY <1>2 DEF Restart, JobsOK, DefaultGroupSafe, Reply
  <2>3. groups' \subseteq GroupId /\ restarts' \in 0..MaxRestarts
    BY <1>1, <1>2, StoreAssumption, RegistryAssumption DEF Restart, TypeOK
  <2>. QED
    BY <1>2, <2>1, <2>2, <2>3, WatchType DEF Restart, IInv, TypeOK, AnswersBalance, DefaultGroupStays,
       JobsOK
<1>3. CASE OtherWriters
  <2>1. PICK d \in DeviceId : SaveReported(d, EmptyDoc) \/ SaveStatus(d, TRUE, Null, Null)
    BY <1>3 DEF OtherWriters
  <2>2. StoreTypeOK' /\ Integrity' /\ Registered' = Registered
    BY <1>1, <2>1, EmptyDocType, SaveReportedOK, SaveStatusOK
  <2>. QED
    BY <1>3, <2>2, WatchType DEF OtherWriters, IInv, TypeOK, AnswersBalance, DefaultGroupStays,
       DefaultGroupSafe
<1>4. ASSUME NEW w \in Worker, DeleteGroup(w) PROVE IInv'
  <2>1. job[w].grp \in GroupId /\ job[w].grp # DefaultGroup
    BY <1>1, <1>4, JobType DEF DeleteGroup, DefaultGroupSafe, At
  <2>2. StoreTypeOK' /\ Integrity' /\ Registered' = Registered
    BY <1>1, <1>4, <2>1, RehomeGroupOK DEF DeleteGroup
  <2>3. JobsOK'
    BY <1>1, <1>4, AnswerType DEF DeleteGroup, Reply
  <2>. QED
    BY <1>4, <2>1, <2>2, <2>3, WatchType DEF DeleteGroup, IInv, TypeOK, AnswersBalance,
       DefaultGroupStays, JobsOK
<1>. QED
  BY <1>2, <1>3, <1>4

(* IInv is inductive. *)
LEMMA Inductive == IInv /\ [Next]_vars => IInv'
<1>. SUFFICES ASSUME IInv, [Next]_vars PROVE IInv'
  OBVIOUS
<1>1. CASE UNCHANGED vars
  BY <1>1 DEF vars, tables, IInv, TypeOK, StoreTypeOK, Integrity, AnswersBalance,
     DefaultGroupStays, DefaultGroupSafe, Registered
<1>2. CASE (Restart \/ OtherWriters) /\ Watch
  BY <1>2, OtherStep
<1>3. ASSUME NEW w \in Worker, Call(w) \/ Serve(w), Watch PROVE IInv'
  BY <1>3, CheckStep, ReadStep, PostDeviceStep, PatchDeviceStep, RemoveDeviceStep, PostGroupStep,
     OtherStep DEF Serve
<1>. QED
  BY <1>1, <1>2, <1>3 DEF Next

(* It holds at first: init_db leaves the default group and no device. *)
LEMMA Initially == Init => IInv
BY StoreInitOK, StoreAssumption, RegistryAssumption
   DEF Init, IInv, TypeOK, AnswersBalance, DefaultGroupStays, DefaultGroupSafe, Reply,
       StoreInit, EmptyTable, Registered

(* The state of the registry is always typed. *)
THEOREM TypeCorrect == Spec => []TypeOK
<1>1. IInv => TypeOK
  BY DEF IInv
<1>. QED
  BY <1>1, Initially, Inductive, PTL DEF Spec

(* Every device always has its state row, and no state or shadow row is    *)
(* without its device: the handlers' transactions and the cascade keep the *)
(* tables together.                                                        *)
THEOREM TablesFitTogether == Spec => []Integrity
<1>1. IInv => Integrity
  BY DEF IInv
<1>. QED
  BY <1>1, Initially, Inductive, PTL DEF Spec

(* Any number of overlapping POSTs and DELETEs of an id: the 201s and the  *)
(* 200s alternate, whatever the order of the checks and the writes.        *)
THEOREM AnswersAddUp == Spec => []AnswersBalance
<1>1. IInv => AnswersBalance
  BY DEF IInv
<1>. QED
  BY <1>1, Initially, Inductive, PTL DEF Spec

(* A group that goes takes no member along and the default group never     *)
(* goes (delete_group).                                                    *)
THEOREM MembersAreMoved == Spec => NoMemberLeftBehind
<1> DEFINE Moved == /\ DefaultGroup \in groups'
                    /\ \A g \in groups \ groups', d \in Registered' : devices'[d] # g
<1>1. IInv /\ IInv' /\ [Next]_vars => [Moved]_vars
  <2>. SUFFICES ASSUME IInv, IInv', Next PROVE Moved
    OBVIOUS
  <2>1. DefaultGroup \in groups'
    BY DEF IInv, DefaultGroupStays
  <2>2. ASSUME NEW w \in Worker, DeleteGroup(w) PROVE Moved
    <3>1. job[w].grp # DefaultGroup
      BY <2>2 DEF DeleteGroup, At, IInv, DefaultGroupSafe
    <3>. QED
      BY <2>1, <2>2, <3>1 DEF DeleteGroup, RehomeGroup, Registered
  <2>3. ASSUME groups \subseteq groups' PROVE Moved
    BY <2>1, <2>3
  <2>4. \/ groups \subseteq groups'
        \/ \E w \in Worker : DeleteGroup(w)
    BY DEF Next, Serve, Restart, OtherWriters, Call, CheckDevice, CheckGroup, ReadState,
       ReadShadow, PostDevice,
       PatchDevice, RemoveDevice, PostGroup, DuplicateKey, Busy
  <2>. QED
    BY <2>2, <2>3, <2>4
<1>. QED
  BY <1>1, Initially, Inductive, PTL DEF Spec, NoMemberLeftBehind

(* What a step does to the job of a thread: it leaves it, or the thread is *)
(* not about to read the shadow afterwards, or it has just read the state. *)
LEMMA JobSteps ==
    ASSUME IInv, Next, NEW w \in Worker
    PROVE  job'[w] = job[w] \/ ~At(w, "get_device", "shadow")' \/ ReadState(w)
<1>. SUFFICES ASSUME ~ReadState(w), At(w, "get_device", "shadow")' PROVE job'[w] = job[w]
  OBVIOUS
<1>. job \in [Worker -> Job \cup {NoJob}]
  BY DEF IInv, TypeOK
<1>1. ~Restart
  BY DEF Restart, At
<1>2. CASE OtherWriters
  BY <1>2 DEF OtherWriters
<1>3. ASSUME NEW u \in Worker, Call(u) \/ Serve(u), u # w PROVE job'[w] = job[w]
  BY <1>3 DEF Serve, Call, CheckDevice, CheckGroup, ReadState, ReadShadow, PostDevice,
     PatchDevice, RemoveDevice, PostGroup, DeleteGroup, DuplicateKey, Busy, Answer, GoOn
<1>4. ~Call(w)
  BY DEF Call, Answer, At
<1>5. ASSUME NEW code, Answer(w, code) PROVE FALSE
  BY <1>5 DEF Answer, At
<1>6. ASSUME GoOn(w), job[w] # NoJob PROVE FALSE
  <2>1. job[w] \in Job
    BY <1>6
  <2>2. job'[w].at \in {"state", "write"}
    BY <1>6, <2>1 DEF GoOn, Job
  <2>. QED
    BY <2>2 DEF At
<1>7. ~Serve(w)
  BY <1>5, <1>6 DEF Serve, CheckDevice, CheckGroup, ReadShadow, PostDevice, PatchDevice,
     RemoveDevice, PostGroup, DeleteGroup, DuplicateKey, Busy, At
<1>. QED
  BY <1>1, <1>2, <1>3, <1>4, <1>7 DEF Next

(* A device is never shown half created: get_device finds a device without *)
(* its state only if it was deleted under the reader.  A SELECT that finds *)
(* no state row finds, by Integrity, no device any more.                   *)
THEOREM DevicesShownWhole == Spec => []ShownWhole
<1>1. Init => ShownWhole
  BY DEF Init, ShownWhole, At
<1>2. IInv /\ ShownWhole /\ [Next]_vars => ShownWhole'
  <2>. SUFFICES ASSUME IInv, ShownWhole, [Next]_vars,
                       NEW w \in Worker, At(w, "get_device", "shadow")', ~job'[w].found
                PROVE  w \in torn'
    BY DEF ShownWhole
  <2>1. CASE UNCHANGED vars
    BY <2>1 DEF vars, ShownWhole, At
  <2>2. CASE Next /\ job'[w] = job[w]
    <3>1. At(w, "get_device", "shadow") /\ ~job[w].found
      BY <2>2 DEF At
    <3>2. w \in torn
      BY <3>1 DEF ShownWhole
    <3>. QED
      BY <2>2, <3>2 DEF Next, Watch, Reading
  <2>3. CASE Next /\ ReadState(w)
    <3>1. job \in [Worker -> Job \cup {NoJob}] /\ job[w] \in Job /\ job[w].op = "get_device"
      BY <2>3, JobType DEF ReadState, IInv, TypeOK, At
    <3>2. /\ job'[w].dev = job[w].dev
          /\ job'[w].found = (job[w].dev \in DOMAIN device_state)
      BY <2>3, <3>1 DEF ReadState, Job
    <3>3. job'[w].dev \notin Registered'
      BY <2>3, <3>2 DEF ReadState, tables, Registered, IInv, Integrity
    <3>. QED
      BY <2>3, <3>3 DEF Next, Watch, Reading
  <2>. QED
    BY <2>1, <2>2, <2>3, JobSteps
<1>. QED
  BY <1>1, <1>2, Initially, Inductive, PTL DEF Spec
=============================================================================
