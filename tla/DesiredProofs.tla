---------------------------- MODULE DesiredProofs ---------------------------
(***************************************************************************)
(* Proofs about the desired half of the shadow, for any number of admins,  *)
(* devices, keys and values, and any bounds.                               *)
(*                                                                         *)
(* Two inductive invariants.  The first needs nothing of the admins: all   *)
(* that travels from a commit to the broker has been committed.  The       *)
(* second assumes SoleEditor and follows a configuration along the way: a  *)
(* thread about to save has merged with what is stored now, one about to   *)
(* publish has what is stored now, the last message queued for a device is *)
(* what is stored now, and the broker has the last one it was sent.        *)
(***************************************************************************)
EXTENDS Desired, StoreProofs

(***************************************************************************)
(* Part 1.  Types.                                                         *)
(***************************************************************************)

(* The fields of a PATCH in progress are typed. *)
LEMMA JobType ==
    ASSUME TypeOK, NEW a \in Admin, job[a] # NoJob
    PROVE  /\ job[a] \in Job /\ job[a].dev \in DeviceId
           /\ job[a].delta \in Doc /\ job[a].doc \in Doc
BY DesiredAssumption DEF TypeOK, Job

(* The messages of the queue are typed. *)
LEMMA QueueType ==
    ASSUME TypeOK
    PROVE  /\ Len(outq) \in Nat /\ sent \in 0..Len(outq)
           /\ \A i \in 1..Len(outq) : /\ outq[i] \in Message
                                     /\ outq[i].dev \in DeviceId /\ outq[i].doc \in Doc
<1>1. outq \in Seq(Message) /\ Len(outq) \in Nat /\ sent \in 0..Len(outq)
  BY DEF TypeOK
<1>2. \A i \in 1..Len(outq) : outq[i] \in Message
  BY <1>1
<1>. QED
  BY <1>1, <1>2 DEF Message

(* Steps of the PATCH handler and of the other writers that leave the      *)
(* publisher alone.                                                        *)
LEMMA HandlerType ==
    ASSUME TypeOK, Integrity, UNCHANGED unpublished,
           StoreTypeOK', job' \in [Admin -> Job \cup {NoJob}],
           committed' \in [DeviceId -> SUBSET Doc]
    PROVE  TypeOK'
BY DEF TypeOK, unpublished, pub

(* The tables keep their types and their integrity when they do not change. *)
LEMMA TablesSame ==
    ASSUME StoreTypeOK, Integrity, UNCHANGED tables
    PROVE  StoreTypeOK' /\ Integrity' /\ (\A d : load_shadow(d)' = load_shadow(d))
BY DEF StoreTypeOK, Integrity, Registered, tables, load_shadow

Typed == TypeOK /\ Integrity

(* The steps of a PATCH up to its publish keep the types. *)
LEMMA PatchTyped ==
    ASSUME Typed, NEW a \in Admin,
           Call(a) \/ Check(a) \/ Load(a) \/ Save(a) \/ SaveFails(a)
    PROVE  Typed'
<1>. TypeOK /\ Integrity /\ StoreTypeOK /\ job \in [Admin -> Job \cup {NoJob}]
  BY DEF Typed, TypeOK
<1>. committed \in [DeviceId -> SUBSET Doc]
  BY DEF TypeOK
<1>1. CASE Call(a)
  <2>1. PICK d \in DeviceId, delta \in Patches :
          job' = [job EXCEPT ![a] = [dev |-> d, delta |-> delta, doc |-> EmptyDoc,
                                     at |-> "check"]]
    BY <1>1 DEF Call
  <2>2. job' \in [Admin -> Job \cup {NoJob}]
    BY <2>1, EmptyDocType DEF Job
  <2>. QED
    BY <1>1, <2>2, TablesSame, HandlerType DEF Call, Typed
<1>2. CASE Check(a)
  <2>1. job' \in [Admin -> Job \cup {NoJob}]
    <3>1. [job[a] EXCEPT !.at = "load"] \in Job
      BY <1>2, JobType DEF Check, At, Job
    <3>. QED
      BY <1>2, <3>1 DEF Check, Finish
  <2>. QED
    BY <1>2, <2>1, TablesSame, HandlerType DEF Check, Typed
<1>3. CASE Load(a)
  <2> DEFINE doc == Merge(desired(job[a].dev), job[a].delta)
  <2>1. doc \in Doc
    BY <1>3, JobType, LoadShadowType, MergeType DEF Load, At, desired, ShadowRow
  <2>2. [job[a] EXCEPT !.at = "save", !.doc = doc] \in Job
    <3>. HIDE DEF doc
    <3>. QED
      BY <1>3, <2>1, JobType DEF Load, At, Job
  <2>3. job' \in [Admin -> Job \cup {NoJob}]
    BY <1>3, <2>2 DEF Load
  <2>. QED
    BY <1>3, <2>3, TablesSame, HandlerType DEF Load, Typed
<1>4. CASE Save(a)
  <2>1. job[a] \in Job /\ job[a].dev \in DeviceId /\ job[a].doc \in Doc
    BY <1>4, JobType DEF Save, At
  <2>2. StoreTypeOK' /\ Integrity'
    BY <1>4, <2>1, SaveDesiredOK DEF Save
  <2>3. [job[a] EXCEPT !.at = "publish"] \in Job
    BY <2>1 DEF Job
  <2>4. job' \in [Admin -> Job \cup {NoJob}] /\ committed' \in [DeviceId -> SUBSET Doc]
    BY <1>4, <2>1, <2>3 DEF Save
  <2>. QED
    BY <1>4, <2>2, <2>4, HandlerType DEF Save, Typed
<1>5. CASE SaveFails(a)
  <2>1. job' \in [Admin -> Job \cup {NoJob}]
    BY <1>5 DEF SaveFails, Finish
  <2>. QED
    BY <1>5, <2>1, TablesSame, HandlerType DEF SaveFails, Typed
<1>. QED
  BY <1>1, <1>2, <1>3, <1>4, <1>5

(* So do the publish and the steps of the publisher and the broker. *)
LEMMA PublisherTyped ==
    ASSUME Typed, (\E a \in Admin : Publish(a)) \/ Transmit \/ Puback \/ ConnectionLost
    PROVE  Typed'
<1>. TypeOK /\ Integrity /\ StoreTypeOK
  BY DEF Typed, TypeOK
<1>1. ASSUME NEW a \in Admin, Publish(a) PROVE Typed'
  <2>1. job[a].dev \in DeviceId /\ job[a].doc \in Doc
    BY <1>1, JobType DEF Publish, At
  <2>2. [dev |-> job[a].dev, doc |-> job[a].doc] \in Message
    BY <2>1 DEF Message
  <2>3. outq' \in Seq(Message) /\ Len(outq') = Len(outq) + 1 /\ Len(outq') <= MaxQueue
    BY <1>1, <2>2, DesiredAssumption DEF Publish, TypeOK
  <2>4. sent' \in 0..Len(outq')
    BY <1>1, <2>3 DEF Publish, TypeOK
  <2>. QED
    BY <1>1, <2>1, <2>3, <2>4, TablesSame DEF Publish, Finish, Typed, TypeOK
<1>2. CASE Transmit
  <2>1. sent + 1 \in 1..Len(outq) /\ outq[sent + 1] \in Message
    BY <1>2 DEF Transmit, TypeOK
  <2>2. retained' \in [DeviceId -> Doc] /\ sent' \in 0..Len(outq)
    BY <1>2, <2>1 DEF Transmit, TypeOK, Message
  <2>. QED
    BY <1>2, <2>2, TablesSame DEF Transmit, Typed, TypeOK
<1>3. CASE Puback
  <2>1. outq' \in Seq(Message) /\ Len(outq') = Len(outq) - 1 /\ Len(outq) > 0
    BY <1>3 DEF Puback, TypeOK
  <2>2. Len(outq') <= MaxQueue /\ sent' \in 0..Len(outq')
    BY <1>3, <2>1, DesiredAssumption DEF Puback, TypeOK
  <2>. QED
    BY <1>3, <2>1, <2>2, TablesSame DEF Puback, Typed, TypeOK
<1>4. CASE ConnectionLost
  BY <1>4, TablesSame, DesiredAssumption DEF ConnectionLost, Typed, TypeOK
<1>. QED
  BY <1>1, <1>2, <1>3, <1>4

(* And the other writers and the restart. *)
LEMMA OthersTyped ==
    ASSUME Typed, (\E a \in Admin : Register(a) \/ Unregister(a)) \/ Report \/ Restart
    PROVE  Typed'
<1>. TypeOK /\ Integrity /\ StoreTypeOK
  BY DEF Typed, TypeOK
<1>1. ASSUME NEW a \in Admin, Register(a) PROVE Typed'
  <2>1. StoreTypeOK' /\ Integrity'
    BY <1>1, StoreAssumption, InsertDeviceOK DEF Register
  <2>. QED
    BY <1>1, <2>1 DEF Register, Typed, TypeOK, unpublished, pub
<1>2. ASSUME NEW a \in Admin, Unregister(a) PROVE Typed'
  <2>1. PICK d \in Registered :
          /\ DeleteDevice(d)
          /\ stale' = IF Published(d) THEN stale \cup {d} ELSE stale
    BY <1>2 DEF Unregister
  <2>2. d \in DeviceId
    BY DEF StoreTypeOK, Registered
  <2>3. StoreTypeOK' /\ Integrity' /\ stale' \subseteq DeviceId
    BY <2>1, <2>2, DeleteDeviceOK DEF TypeOK
  <2>. QED
    BY <1>2, <2>3 DEF Unregister, Typed, TypeOK, pub
<1>3. CASE Report
  <2>1. StoreTypeOK' /\ Integrity'
    BY <1>3, DesiredAssumption, SaveReportedOK DEF Report
  <2>. QED
    BY <1>3, <2>1 DEF Report, Typed, TypeOK, unpublished, pub
<1>4. CASE Restart
  <2>1. \A a \in Admin : At(a, "publish") => job[a].dev \in DeviceId
    BY JobType DEF At
  <2>2. \A i \in sent + 1 .. Len(outq) : outq[i].dev \in DeviceId
    BY QueueType
  <2>3. stale' \subseteq DeviceId
    BY <1>4, <2>1, <2>2 DEF Restart, TypeOK
  <2>4. /\ job' \in [Admin -> Job \cup {NoJob}] /\ restarts' \in 0..MaxRestarts
        /\ outq' \in Seq(Message) /\ Len(outq') = 0 /\ sent' \in 0..Len(outq')
    BY <1>4, DesiredAssumption DEF Restart, TypeOK
  <2>5. UNCHANGED <<tables, retained, committed, losses>>
    BY <1>4 DEF Restart
  <2>. QED
    BY <2>3, <2>4, <2>5, TablesSame, DesiredAssumption DEF Typed, TypeOK
<1>. QED
  BY <1>1, <1>2, <1>3, <1>4

(* Typed is inductive. *)
LEMMA TypedInductive == (Init => Typed) /\ (Typed /\ [Next]_vars => Typed')
<1>1. Init => Typed
  BY StoreInitOK, EmptyDocType, DesiredAssumption DEF Init, Typed, TypeOK
<1>2. ASSUME Typed, UNCHANGED vars PROVE Typed'
  BY <1>2, TablesSame DEF vars, pub, Typed, TypeOK
<1>3. ASSUME Typed, Next PROVE Typed'
  BY <1>3, PatchTyped, PublisherTyped, OthersTyped DEF Next, Handle
<1>. QED
  BY <1>1, <1>2, <1>3

(* The state of the shadow, the publisher and the broker is always typed. *)
THEOREM TypeCorrect == Spec => []TypeOK
<1>1. Typed => TypeOK
  BY DEF Typed
<1>. QED
  BY <1>1, TypedInductive, PTL DEF Spec

(***************************************************************************)
(* Part 2.  What the broker retains was committed.                         *)
(***************************************************************************)
OnItsWayCommitted ==
    /\ \A a \in Admin : At(a, "publish") => job[a].doc \in committed[job[a].dev]
    /\ \A i \in 1..Len(outq) : outq[i].doc \in committed[outq[i].dev]

CommittedInv == Typed /\ OnItsWayCommitted /\ RetainedWasCommitted

(* The steps that bring nothing to the queue or the broker: jobs may only  *)
(* leave the publish step.                                                 *)
LEMMA NothingNewOnItsWay ==
    ASSUME CommittedInv,
           \A a \in Admin : At(a, "publish")' =>
              At(a, "publish") /\ job'[a].dev = job[a].dev /\ job'[a].doc = job[a].doc,
           UNCHANGED <<outq, retained, committed>>
    PROVE  (OnItsWayCommitted /\ RetainedWasCommitted)'
BY DEF CommittedInv, OnItsWayCommitted, RetainedWasCommitted

(* Before its save a PATCH changes its own job only and is not publishing. *)
LEMMA NotPublishing ==
    ASSUME TypeOK, NEW a \in Admin, Call(a) \/ Check(a) \/ Load(a) \/ SaveFails(a)
    PROVE  /\ \A b \in Admin \ {a} : job'[b] = job[b]
           /\ ~ At(a, "publish")'
<1>. job \in [Admin -> Job \cup {NoJob}]
  BY DEF TypeOK
<1>1. CASE Call(a)
  BY <1>1 DEF Call, At
<1>2. CASE Check(a)
  <2>1. job[a] \in Job
    BY <1>2, JobType DEF Check, At
  <2>2. [job[a] EXCEPT !.at = "load"].at = "load"
    BY <2>1 DEF Job
  <2>. QED
    BY <1>2, <2>2 DEF Check, Finish, At
<1>3. CASE Load(a)
  <2> DEFINE doc == Merge(desired(job[a].dev), job[a].delta)
             next == [job[a] EXCEPT !.at = "save", !.doc = doc]
  <2>1. job[a] \in Job
    BY <1>3, JobType DEF Load, At
  <2>2. next.at = "save"
    BY <2>1 DEF Job
  <2>3. job' = [job EXCEPT ![a] = next]
    BY <1>3 DEF Load
  <2>. HIDE DEF next
  <2>. QED
    BY <2>2, <2>3 DEF At
<1>4. CASE SaveFails(a)
  BY <1>4 DEF SaveFails, Finish, At
<1>. QED
  BY <1>1, <1>2, <1>3, <1>4

(* CommittedInv is inductive. *)
LEMMA CommittedInductive == CommittedInv /\ [Next]_vars => CommittedInv'
<1>. SUFFICES ASSUME CommittedInv, [Next]_vars PROVE (OnItsWayCommitted /\ RetainedWasCommitted)'
  BY TypedInductive DEF CommittedInv
<1>. TypeOK /\ job \in [Admin -> Job \cup {NoJob}]
  BY DEF CommittedInv, Typed, TypeOK
<1> DEFINE Q == (OnItsWayCommitted /\ RetainedWasCommitted)'
<1>1. CASE UNCHANGED vars
  BY <1>1, NothingNewOnItsWay DEF vars, pub, At
<1>2. ASSUME NEW a \in Admin, Call(a) \/ Check(a) \/ Load(a) \/ SaveFails(a) PROVE Q
  <2>1. \A b \in Admin : At(b, "publish")' =>
          At(b, "publish") /\ job'[b].dev = job[b].dev /\ job'[b].doc = job[b].doc
    BY <1>2, NotPublishing DEF At
  <2>2. UNCHANGED <<outq, retained, committed>>
    BY <1>2 DEF Call, Check, Load, SaveFails, unpublished, pub
  <2>. QED
    BY <2>1, <2>2, NothingNewOnItsWay
<1>3. ASSUME NEW a \in Admin, Save(a) PROVE Q
  <2>1. job[a] \in Job /\ job[a].dev \in DeviceId
    BY <1>3, JobType DEF Save, At
  <2>2. \A d \in DeviceId : committed[d] \subseteq committed'[d]
    BY <1>3, <2>1 DEF Save, TypeOK
  <2>3. job[a].doc \in committed'[job[a].dev]
    BY <1>3, <2>1 DEF Save, TypeOK
  <2>4. ASSUME NEW b \in Admin, At(b, "publish")'
        PROVE  job'[b].doc \in committed'[job'[b].dev]
    <3>1. CASE b = a
      BY <1>3, <2>1, <2>3, <3>1 DEF Save, Job
    <3>2. CASE b # a
      <4>1. job'[b] = job[b]
        BY <1>3, <3>2 DEF Save
      <4>2. At(b, "publish") /\ job[b].dev \in DeviceId
        BY <2>4, <4>1, JobType DEF At
      <4>. QED
        BY <2>2, <4>1, <4>2 DEF CommittedInv, OnItsWayCommitted
    <3>. QED
      BY <3>1, <3>2
  <2>5. UNCHANGED <<outq, retained>>
    BY <1>3 DEF Save, unpublished, pub
  <2>6. \A i \in 1..Len(outq) : outq[i].doc \in committed'[outq[i].dev]
    BY <2>2, QueueType DEF CommittedInv, OnItsWayCommitted
  <2>7. \A d \in DeviceId : retained[d] \in committed'[d]
    BY <2>2 DEF CommittedInv, RetainedWasCommitted
  <2>. QED
    BY <2>4, <2>5, <2>6, <2>7 DEF OnItsWayCommitted, RetainedWasCommitted
<1>4. ASSUME NEW a \in Admin, Publish(a) PROVE Q
  <2> DEFINE m == [dev |-> job[a].dev, doc |-> job[a].doc]
  <2>1. m.doc \in committed[m.dev] /\ m \in Message
    BY <1>4, JobType DEF Publish, At, CommittedInv, OnItsWayCommitted, Message
  <2>2. outq' = Append(outq, m)
    BY <1>4 DEF Publish
  <2>. HIDE DEF m
  <2>3. \A i \in 1..Len(outq') : outq'[i].doc \in committed[outq'[i].dev]
    BY <2>1, <2>2 DEF CommittedInv, OnItsWayCommitted, TypeOK
  <2>4. \A b \in Admin : At(b, "publish")' => At(b, "publish") /\ job'[b] = job[b]
    BY <1>4 DEF Publish, Finish, At
  <2>5. UNCHANGED <<retained, committed>>
    BY <1>4 DEF Publish
  <2>. QED
    BY <2>3, <2>4, <2>5 DEF CommittedInv, OnItsWayCommitted, RetainedWasCommitted
<1>5. CASE Transmit
  <2>1. sent + 1 \in 1..Len(outq)
    BY <1>5, QueueType DEF Transmit
  <2>2. outq[sent + 1].doc \in committed[outq[sent + 1].dev]
    BY <2>1 DEF CommittedInv, OnItsWayCommitted
  <2>3. \A d \in DeviceId : retained'[d] \in committed[d]
    BY <1>5, <2>2 DEF Transmit, CommittedInv, RetainedWasCommitted, TypeOK
  <2>. QED
    BY <1>5, <2>3 DEF Transmit, CommittedInv, OnItsWayCommitted, RetainedWasCommitted, At
<1>6. CASE Puback
  <2>1. outq # <<>> /\ outq \in Seq(Message)
    BY <1>6 DEF Puback, TypeOK
  <2>2. \A i \in 1..Len(outq') : i + 1 \in 1..Len(outq) /\ outq'[i] = outq[i + 1]
    BY <1>6, <2>1 DEF Puback
  <2>. QED
    BY <1>6, <2>2 DEF Puback, CommittedInv, OnItsWayCommitted, RetainedWasCommitted, At
<1>7. ASSUME \/ ConnectionLost \/ Report
             \/ \E a \in Admin : Register(a) \/ Unregister(a)
      PROVE  Q
  <2>1. UNCHANGED <<job, outq, retained, committed>>
    BY <1>7 DEF ConnectionLost, Report, Register, Unregister, unpublished, pub
  <2>. QED
    BY <2>1, NothingNewOnItsWay DEF At
<1>8. CASE Restart
  <2>1. Len(outq') = 0 /\ UNCHANGED <<retained, committed>>
    BY <1>8 DEF Restart
  <2>2. \A a \in Admin : ~ At(a, "publish")'
    BY <1>8 DEF Restart, At
  <2>. QED
    BY <2>1, <2>2 DEF CommittedInv, OnItsWayCommitted, RetainedWasCommitted
<1>. QED
  BY <1>1, <1>2, <1>3, <1>4, <1>5, <1>6, <1>7, <1>8 DEF Next, Handle

(* Whatever the admins do at once, whatever is lost, sent twice or cut by  *)
(* a restart, the broker retains nothing that was not committed.           *)
THEOREM RetainedCommitted == Spec => []RetainedWasCommitted
<1>1. Init => CommittedInv
  BY TypedInductive DEF Init, CommittedInv, OnItsWayCommitted, RetainedWasCommitted, At
<1>2. CommittedInv => RetainedWasCommitted
  BY DEF CommittedInv
<1>. QED
  BY <1>1, <1>2, CommittedInductive, PTL DEF Spec

(***************************************************************************)
(* Part 3.  With one editor per device, what is desired is what arrives.   *)
(***************************************************************************)
Publishing(d) == \E a \in Admin : At(a, "publish") /\ job[a].dev = d

(* i is the last of the first n messages that is for d. *)
IsLastFor(d, i, n) == /\ i \in 1..n /\ outq[i].dev = d
                      /\ \A j \in i + 1 .. n : outq[j].dev # d
HasFor(d, n) == \E i \in 1..n : outq[i].dev = d

JobsAllowed == \A a \in Admin : job[a] # NoJob => <<a, job[a].dev>> \in MayEdit

MergedIsCurrent ==
    \A a \in Admin : At(a, "save") => job[a].doc = Merge(desired(job[a].dev), job[a].delta)

PublishIsCurrent ==
    \A a \in Admin : At(a, "publish") => job[a].doc = desired(job[a].dev)

QueueEndsCurrent ==
    \A d \in DeviceId \ stale :
      ~ Publishing(d) /\ HasFor(d, Len(outq)) =>
        \E i \in 1..Len(outq) : IsLastFor(d, i, Len(outq)) /\ outq[i].doc = desired(d)

BrokerHasLastSent ==
    \A d \in DeviceId :
      HasFor(d, sent) => \E i \in 1..sent : IsLastFor(d, i, sent) /\ outq[i].doc = retained[d]

PathInv == /\ Typed /\ JobsAllowed /\ MergedIsCurrent /\ PublishIsCurrent
           /\ QueueEndsCurrent /\ BrokerHasLastSent /\ BrokerAgrees

(* A step that touches neither the publisher nor the broker, changes no    *)
(* desired column and neither starts nor ends a publish.                   *)
LEMMA QuietStep ==
    ASSUME PathInv, UNCHANGED <<outq, sent, retained, stale>>,
           \A d \in DeviceId : desired(d)' = desired(d),
           \A a \in Admin : /\ At(a, "publish")' <=> At(a, "publish")
                            /\ At(a, "publish") => job'[a] = job[a]
    PROVE  (PublishIsCurrent /\ QueueEndsCurrent /\ BrokerHasLastSent /\ BrokerAgrees)'
<1>1. \A d : Publishing(d)' <=> Publishing(d)
  BY DEF Publishing
<1>2. PublishIsCurrent'
  BY JobType DEF PathInv, Typed, PublishIsCurrent, At
<1>3. QueueEndsCurrent'
  BY <1>1 DEF PathInv, QueueEndsCurrent, HasFor, IsLastFor
<1>4. BrokerHasLastSent'
  BY DEF PathInv, BrokerHasLastSent, HasFor, IsLastFor
<1>5. \A d : Settled(d)' <=> Settled(d)
  BY DEF Settled
<1>6. BrokerAgrees'
  BY <1>5 DEF PathInv, BrokerAgrees
<1>. QED
  BY <1>2, <1>3, <1>4, <1>6

(* The steps of a PATCH before its save, the 500 instead of it, and the    *)
(* creation of a device and a report, which write no desired column.       *)
LEMMA QuietPath ==
    ASSUME PathInv,
           \/ Report
           \/ \E a \in Admin : Call(a) \/ Check(a) \/ Load(a) \/ SaveFails(a) \/ Register(a)
    PROVE  (PublishIsCurrent /\ QueueEndsCurrent /\ BrokerHasLastSent /\ BrokerAgrees)'
<1>. TypeOK /\ StoreTypeOK /\ job \in [Admin -> Job \cup {NoJob}]
  BY DEF PathInv, Typed, TypeOK
<1>1. UNCHANGED <<outq, sent, retained, stale>>
  BY DEF Report, Call, Check, Load, SaveFails, Register, unpublished, pub
<1>2. \A d \in DeviceId : desired(d)' = desired(d)
  <2>1. CASE Report
    BY <2>1, ShadowAfterReport, DesiredAssumption DEF Report, desired
  <2>2. ASSUME NEW a \in Admin,
               Call(a) \/ Check(a) \/ Load(a) \/ SaveFails(a) \/ Register(a)
        PROVE  UNCHANGED device_shadow
    BY <2>2 DEF Call, Check, Load, SaveFails, Register, InsertDevice, tables
  <2>. QED
    BY <2>1, <2>2 DEF desired, load_shadow
<1>3. \A b \in Admin : /\ At(b, "publish")' <=> At(b, "publish")
                       /\ At(b, "publish") => job'[b] = job[b]
  <2>1. CASE Report \/ \E a \in Admin : Register(a)
    BY <2>1 DEF Report, Register, At
  <2>2. ASSUME NEW a \in Admin, Call(a) \/ Check(a) \/ Load(a) \/ SaveFails(a)
        PROVE  ~ At(a, "publish")
    BY <2>2 DEF Call, Check, Load, SaveFails, At
  <2>. QED
    BY <2>1, <2>2, NotPublishing DEF At
<1>. QED
  BY <1>1, <1>2, <1>3, QuietStep

(* The commit of a PATCH: its device is now publishing. *)
LEMMA SavePath ==
    ASSUME SoleEditor, PathInv, NEW a \in Admin, Save(a)
    PROVE  (PublishIsCurrent /\ QueueEndsCurrent /\ BrokerHasLastSent /\ BrokerAgrees)'
<1>. TypeOK /\ StoreTypeOK /\ job \in [Admin -> Job \cup {NoJob}]
  BY DEF PathInv, Typed, TypeOK
<1>1. /\ job[a] # NoJob /\ job[a] \in Job
      /\ job[a].dev \in DeviceId /\ job[a].doc \in Doc
  BY JobType DEF Save, At
<1>. PICK d0 \in DeviceId : d0 = job[a].dev
  BY <1>1
<1>. PICK doc \in Doc : doc = job[a].doc
  BY <1>1
<1>2. /\ desired(d0)' = doc
      /\ \A d : d # d0 => desired(d)' = desired(d)
  <2>1. SaveDesired(d0, doc)
    BY DEF Save
  <2>2. /\ load_shadow(d0)' = [load_shadow(d0) EXCEPT !.desired = doc]
        /\ \A d : d # d0 => load_shadow(d)' = load_shadow(d)
    BY <2>1, ShadowAfterDesired
  <2>3. [load_shadow(d0) EXCEPT !.desired = doc].desired = doc
    BY LoadShadowType DEF ShadowRow
  <2>. QED
    BY <2>2, <2>3 DEF desired
<1>3. /\ At(a, "publish")' /\ job'[a].dev = d0 /\ job'[a].doc = doc
      /\ \A b \in Admin \ {a} : job'[b] = job[b]
  <2> DEFINE next == [job[a] EXCEPT !.at = "publish"]
  <2>1. next \in Job /\ next.at = "publish" /\ next.dev = d0 /\ next.doc = doc
    BY <1>1 DEF Job
  <2>2. job' = [job EXCEPT ![a] = next]
    BY DEF Save
  <2>. HIDE DEF next
  <2>. QED
    BY <2>1, <2>2, NoJobAssumption DEF At
<1>4. UNCHANGED <<outq, sent, retained, stale>>
  BY DEF Save, unpublished, pub
<1>5. ~ At(a, "publish")
  BY DEF Save, At
<1>6. PublishIsCurrent'
  <2>. SUFFICES ASSUME NEW b \in Admin, At(b, "publish")'
                PROVE  (job[b].doc = desired(job[b].dev))'
    BY DEF PublishIsCurrent
  <2>1. CASE b = a
    BY <1>2, <1>3, <2>1
  <2>2. CASE b # a
    <3>1. At(b, "publish") /\ job'[b] = job[b]
      BY <1>3, <2>2 DEF At
    <3>2. job[b].dev # d0
      BY <1>1, <2>2, <3>1 DEF SoleEditor, PathInv, JobsAllowed, At
    <3>3. job[b].doc = desired(job[b].dev)
      BY <3>1 DEF PathInv, PublishIsCurrent
    <3>. QED
      BY <1>2, <3>1, <3>2, <3>3
  <2>. QED
    BY <2>1, <2>2
<1>7. Publishing(d0)' /\ \A d : d # d0 => (Publishing(d)' <=> Publishing(d))
  BY <1>3, <1>5 DEF Publishing, At
<1>8. QueueEndsCurrent'
  <2>. SUFFICES ASSUME NEW d \in DeviceId, d \notin stale, ~ Publishing(d)',
                       HasFor(d, Len(outq))
                PROVE  \E i \in 1..Len(outq) : /\ IsLastFor(d, i, Len(outq))
                                              /\ outq[i].doc = desired(d)'
    BY <1>4 DEF QueueEndsCurrent, HasFor, IsLastFor
  <2>1. d # d0 /\ ~ Publishing(d) /\ desired(d)' = desired(d)
    BY <1>2, <1>7
  <2>. QED
    BY <2>1 DEF PathInv, QueueEndsCurrent
<1>9. BrokerHasLastSent'
  BY <1>4 DEF PathInv, BrokerHasLastSent, HasFor, IsLastFor
<1>10. BrokerAgrees'
  <2>. SUFFICES ASSUME NEW d \in DeviceId, Settled(d)', d \notin stale
                PROVE  retained[d] = desired(d)'
    BY <1>4 DEF BrokerAgrees
  <2>1. d # d0 /\ ~ Publishing(d)
    BY <1>7 DEF Settled, Publishing
  <2>2. Settled(d)
    BY <1>4, <2>1 DEF Settled, Publishing
  <2>. QED
    BY <1>2, <2>1, <2>2 DEF PathInv, BrokerAgrees
<1>. QED
  BY <1>6, <1>8, <1>9, <1>10

(* The publish: the message queued last is what is stored now. *)
LEMMA PublishPath ==
    ASSUME SoleEditor, PathInv, NEW a \in Admin, Publish(a)
    PROVE  (PublishIsCurrent /\ QueueEndsCurrent /\ BrokerHasLastSent /\ BrokerAgrees)'
<1>. TypeOK /\ job \in [Admin -> Job \cup {NoJob}] /\ outq \in Seq(Message)
  BY DEF PathInv, Typed, TypeOK
<1>. PICK d0 \in DeviceId : d0 = job[a].dev
  BY JobType DEF Publish, At
<1>. PICK doc \in Doc : doc = job[a].doc
  BY JobType DEF Publish, At
<1>. PICK n \in Nat : n = Len(outq) /\ sent \in 0..n
  BY QueueType
<1>1. UNCHANGED <<device_shadow, sent, retained>> /\ stale' = stale \ {d0}
  BY DEF Publish, tables
<1>2. \A d : desired(d)' = desired(d)
  BY <1>1 DEF desired, load_shadow
<1>3. doc = desired(d0)
  BY DEF Publish, PathInv, PublishIsCurrent
<1>4. /\ Len(outq') = n + 1 /\ outq'[n + 1] = [dev |-> d0, doc |-> doc]
      /\ \A i \in 1..n : outq'[i] = outq[i]
  BY DEF Publish
<1>5. ~ At(a, "publish")' /\ \A b \in Admin \ {a} : job'[b] = job[b]
  BY DEF Publish, Finish, At
<1>6. \A b \in Admin \ {a} : At(b, "publish") => job[b].dev # d0
  BY DEF Publish, At, SoleEditor, PathInv, JobsAllowed
<1>7. PublishIsCurrent'
  <2>. SUFFICES ASSUME NEW b \in Admin, At(b, "publish")'
                PROVE  (job[b].doc = desired(job[b].dev))'
    BY DEF PublishIsCurrent
  <2>1. At(b, "publish") /\ job'[b] = job[b]
    BY <1>5 DEF At
  <2>2. job[b].doc = desired(job[b].dev)
    BY <2>1 DEF PathInv, PublishIsCurrent
  <2>. QED
    BY <1>2, <2>1, <2>2
<1>8. QueueEndsCurrent'
  <2>. SUFFICES ASSUME NEW d \in DeviceId, d \notin stale', ~ Publishing(d)',
                       HasFor(d, Len(outq))'
                PROVE  (\E i \in 1..Len(outq) : /\ IsLastFor(d, i, Len(outq))
                                               /\ outq[i].doc = desired(d))'
    BY DEF QueueEndsCurrent
  <2>1. CASE d = d0
    <3>1. IsLastFor(d, n + 1, n + 1)'
      BY <1>4, <2>1 DEF IsLastFor
    <3>. QED
      BY <1>2, <1>3, <1>4, <2>1, <3>1
  <2>2. CASE d # d0
    <3>1. HasFor(d, n)
      BY <1>4, <2>2 DEF HasFor
    <3>2. ~ Publishing(d)
      BY <1>5, <2>2 DEF Publishing, At
    <3>3. PICK i \in 1..n : IsLastFor(d, i, n) /\ outq[i].doc = desired(d)
      BY <1>1, <2>2, <3>1, <3>2 DEF PathInv, QueueEndsCurrent
    <3>4. IsLastFor(d, i, n + 1)' /\ outq'[i].doc = desired(d)'
      BY <1>2, <1>4, <2>2, <3>3 DEF IsLastFor
    <3>. QED
      BY <1>4, <3>4
  <2>. QED
    BY <2>1, <2>2
<1>9. BrokerHasLastSent'
  <2>. SUFFICES ASSUME NEW d \in DeviceId, HasFor(d, sent)'
                PROVE  (\E i \in 1..sent : IsLastFor(d, i, sent) /\ outq[i].doc = retained[d])'
    BY DEF BrokerHasLastSent
  <2>1. HasFor(d, sent)
    BY <1>1, <1>4 DEF HasFor
  <2>2. PICK i \in 1..sent : IsLastFor(d, i, sent) /\ outq[i].doc = retained[d]
    BY <2>1 DEF PathInv, BrokerHasLastSent
  <2>3. i \in 1..n /\ \A j \in i + 1..sent : j \in 1..n
    OBVIOUS
  <2>4. IsLastFor(d, i, sent)' /\ outq'[i].doc = retained'[d]
    BY <1>1, <1>4, <2>2, <2>3 DEF IsLastFor
  <2>. QED
    BY <1>1, <2>4
<1>10. BrokerAgrees'
  <2>. SUFFICES ASSUME NEW d \in DeviceId, Settled(d)', d \notin stale'
                PROVE  retained[d] = desired(d)'
    BY <1>1 DEF BrokerAgrees
  <2>1. d # d0
    BY <1>4 DEF Settled
  <2>2. Settled(d)
    BY <1>4, <1>5, <2>1 DEF Settled, At
  <2>. QED
    BY <1>1, <1>2, <2>1, <2>2 DEF PathInv, BrokerAgrees
<1>. QED
  BY <1>7, <1>8, <1>9, <1>10

(* The publisher's thread and the broker. *)
LEMMA NetworkPath ==
    ASSUME PathInv, Transmit \/ Puback \/ ConnectionLost
    PROVE  (PublishIsCurrent /\ QueueEndsCurrent /\ BrokerHasLastSent /\ BrokerAgrees)'
<1>. TypeOK /\ outq \in Seq(Message) /\ retained \in [DeviceId -> Doc]
  BY DEF PathInv, Typed, TypeOK
<1>. PICK n \in Nat : n = Len(outq) /\ sent \in 0..n
  BY QueueType
<1>1. UNCHANGED <<device_shadow, job, stale>>
  BY DEF Transmit, Puback, ConnectionLost, tables
<1>2. \A d : desired(d)' = desired(d)
  BY <1>1 DEF desired, load_shadow
<1>3. PublishIsCurrent'
  <2>. SUFFICES ASSUME NEW b \in Admin, At(b, "publish")'
                PROVE  (job[b].doc = desired(job[b].dev))'
    BY DEF PublishIsCurrent
  <2>. QED
    BY <1>1, <1>2 DEF At, PathInv, PublishIsCurrent
<1>4. \A d : Publishing(d)' <=> Publishing(d)
  BY <1>1 DEF Publishing, At
<1>5. CASE Transmit
  <2>1. sent < n /\ sent' = sent + 1 /\ outq' = outq
    BY <1>5 DEF Transmit
  <2>. PICK m \in Message : m = outq[sent + 1]
    BY <2>1, QueueType
  <2>. m.dev \in DeviceId
    BY DEF Message
  <2>2. retained' = [retained EXCEPT ![m.dev] = m.doc]
    BY <1>5 DEF Transmit
  <2>3. QueueEndsCurrent'
    BY <1>1, <1>2, <1>4, <2>1 DEF PathInv, QueueEndsCurrent, HasFor, IsLastFor
  <2>4. BrokerHasLastSent'
    <3>. SUFFICES ASSUME NEW d \in DeviceId, HasFor(d, sent + 1)
                  PROVE  \E i \in 1..sent + 1 : /\ IsLastFor(d, i, sent + 1)
                                               /\ outq[i].doc = retained'[d]
      BY <2>1 DEF BrokerHasLastSent, HasFor, IsLastFor
    <3>1. CASE d = m.dev
      <4>1. IsLastFor(d, sent + 1, sent + 1) /\ outq[sent + 1].doc = retained'[d]
        BY <2>2, <3>1 DEF IsLastFor
      <4>. QED
        BY <4>1
    <3>2. CASE d # m.dev
      <4>1. HasFor(d, sent)
        BY <3>2 DEF HasFor
      <4>2. PICK i \in 1..sent : IsLastFor(d, i, sent) /\ outq[i].doc = retained[d]
        BY <4>1 DEF PathInv, BrokerHasLastSent
      <4>3. IsLastFor(d, i, sent + 1) /\ outq[i].doc = retained'[d]
        BY <2>2, <3>2, <4>2 DEF IsLastFor
      <4>. QED
        BY <4>3
    <3>. QED
      BY <3>1, <3>2
  <2>5. BrokerAgrees'
    <3>. SUFFICES ASSUME NEW d \in DeviceId, Settled(d), d \notin stale
                  PROVE  retained'[d] = desired(d)
      BY <1>1, <1>2, <2>1 DEF BrokerAgrees, Settled, At
    <3>1. d # m.dev
      BY <2>1 DEF Settled
    <3>. QED
      BY <2>2, <3>1 DEF PathInv, BrokerAgrees
  <2>. QED
    BY <1>3, <2>3, <2>4, <2>5
<1>6. CASE Puback
  <2>1. /\ sent > 0 /\ sent' = sent - 1 /\ retained' = retained /\ Len(outq') = n - 1
        /\ \A i \in 1..n - 1 : outq'[i] = outq[i + 1]
    BY <1>6 DEF Puback
  <2>2. QueueEndsCurrent'
    <3>. SUFFICES ASSUME NEW d \in DeviceId, d \notin stale, ~ Publishing(d),
                         HasFor(d, Len(outq))'
                  PROVE  (\E i \in 1..Len(outq) : /\ IsLastFor(d, i, Len(outq))
                                                 /\ outq[i].doc = desired(d))'
      BY <1>1, <1>4 DEF QueueEndsCurrent
    <3>1. PICK k \in 2..n : outq[k].dev = d
      BY <2>1 DEF HasFor
    <3>2. PICK i \in 1..n : IsLastFor(d, i, n) /\ outq[i].doc = desired(d)
      BY <3>1 DEF PathInv, QueueEndsCurrent, HasFor
    <3>3. i > 1
      BY <3>1, <3>2 DEF IsLastFor
    <3>4. ASSUME NEW j \in i..n - 1 PROVE outq'[j].dev # d
      <4>1. j \in 1..n - 1 /\ j + 1 \in i + 1..n
        BY <3>3
      <4>. QED
        BY <2>1, <3>2, <4>1 DEF IsLastFor
    <3>5. i - 1 \in 1..n - 1 /\ outq'[i - 1] = outq[i]
      BY <2>1, <3>3
    <3>6. IsLastFor(d, i - 1, n - 1)' /\ outq'[i - 1].doc = desired(d)'
      BY <1>2, <3>2, <3>4, <3>5 DEF IsLastFor
    <3>. QED
      BY <2>1, <3>5, <3>6
  <2>3. BrokerHasLastSent'
    <3>. SUFFICES ASSUME NEW d \in DeviceId, HasFor(d, sent)'
                  PROVE  (\E i \in 1..sent : IsLastFor(d, i, sent) /\ outq[i].doc = retained[d])'
      BY DEF BrokerHasLastSent
    <3>1. PICK k \in 2..sent : outq[k].dev = d
      BY <2>1 DEF HasFor
    <3>2. PICK i \in 1..sent : IsLastFor(d, i, sent) /\ outq[i].doc = retained[d]
      BY <3>1 DEF PathInv, BrokerHasLastSent, HasFor
    <3>3. i > 1
      BY <3>1, <3>2 DEF IsLastFor
    <3>4. ASSUME NEW j \in i..sent - 1 PROVE outq'[j].dev # d
      <4>1. j \in 1..n - 1 /\ j + 1 \in i + 1..sent
        BY <3>3
      <4>. QED
        BY <2>1, <3>2, <4>1 DEF IsLastFor
    <3>5. i - 1 \in 1..sent - 1 /\ outq'[i - 1] = outq[i]
      BY <2>1, <3>3
    <3>6. IsLastFor(d, i - 1, sent)' /\ outq'[i - 1].doc = retained'[d]
      BY <2>1, <3>2, <3>4, <3>5 DEF IsLastFor
    <3>. QED
      BY <2>1, <3>5, <3>6
  <2>4. BrokerAgrees'
    <3>. SUFFICES ASSUME NEW d \in DeviceId, Settled(d)', d \notin stale
                  PROVE  retained[d] = desired(d)
      BY <1>1, <1>2, <2>1 DEF BrokerAgrees
    <3>1. ~ Publishing(d) /\ \A i \in 2..n : outq[i].dev # d
      <4>1. ~ Publishing(d) /\ \A i \in 1..n - 1 : outq'[i].dev # d
        BY <1>4, <2>1 DEF Settled, Publishing
      <4>2. ASSUME NEW i \in 2..n PROVE outq[i].dev # d
        <5>1. PICK k \in 1..n - 1 : k + 1 = i
          OBVIOUS
        <5>2. outq'[k] = outq[i] /\ outq'[k].dev # d
          BY <2>1, <4>1, <5>1
        <5>. QED
          BY <5>2
      <4>. QED
        BY <4>1, <4>2
    <3>2. CASE outq[1].dev = d
      <4>1. HasFor(d, n) /\ HasFor(d, sent)
        BY <2>1, <3>2 DEF HasFor
      <4>2. outq[1].doc = desired(d)
        BY <3>1, <4>1 DEF PathInv, QueueEndsCurrent, IsLastFor
      <4>3. outq[1].doc = retained[d]
        BY <3>1, <4>1 DEF PathInv, BrokerHasLastSent, IsLastFor
      <4>. QED
        BY <4>2, <4>3
    <3>3. CASE outq[1].dev # d
      BY <3>1, <3>3 DEF PathInv, BrokerAgrees, Settled, Publishing
    <3>. QED
      BY <3>2, <3>3
  <2>. QED
    BY <1>3, <2>2, <2>3, <2>4
<1>7. CASE ConnectionLost
  <2>1. UNCHANGED <<outq, retained>> /\ sent' = 0
    BY <1>7 DEF ConnectionLost
  <2>2. QueueEndsCurrent'
    BY <1>1, <1>2, <1>4, <2>1 DEF PathInv, QueueEndsCurrent, HasFor, IsLastFor
  <2>3. BrokerHasLastSent'
    BY <2>1 DEF BrokerHasLastSent, HasFor
  <2>4. BrokerAgrees'
    BY <1>1, <1>2, <2>1 DEF PathInv, BrokerAgrees, Settled, At
  <2>. QED
    BY <1>3, <2>2, <2>3, <2>4
<1>. QED
  BY <1>5, <1>6, <1>7

(* A deletion makes the device stale unless nothing of it was published,   *)
(* and then the empty shadow is what the broker has.                       *)
LEMMA UnregisterPath ==
    ASSUME SoleEditor, PathInv, NEW a \in Admin, Unregister(a)
    PROVE  (PublishIsCurrent /\ QueueEndsCurrent /\ BrokerHasLastSent /\ BrokerAgrees)'
<1>. PICK d0 \in Registered : /\ <<a, d0>> \in MayDelete /\ DeleteDevice(d0)
                             /\ stale' = IF Published(d0) THEN stale \cup {d0} ELSE stale
  BY DEF Unregister
<1>1. UNCHANGED <<job, outq, sent, retained>>
  BY DEF Unregister, pub
<1>2. /\ desired(d0)' = EmptyDoc
      /\ \A d : d # d0 => desired(d)' = desired(d)
  BY ShadowAfterDelete DEF desired, FreshShadow
<1>3. ~ Publishing(d0)
  BY DesiredAssumption DEF Unregister, Publishing, SoleEditor, PathInv, JobsAllowed, At,
     Typed, TypeOK, StoreTypeOK, Registered
<1>4. \A d : (Publishing(d)' <=> Publishing(d)) /\ (Settled(d)' <=> Settled(d))
  BY <1>1 DEF Publishing, Settled, At
<1>5. PublishIsCurrent'
  <2>. SUFFICES ASSUME NEW b \in Admin, At(b, "publish")
                PROVE  job[b].doc = desired(job[b].dev)'
    BY <1>1 DEF PublishIsCurrent, At
  <2>1. job[b].dev # d0
    BY <1>3 DEF Publishing
  <2>2. job[b].doc = desired(job[b].dev)
    BY DEF PathInv, PublishIsCurrent
  <2>. QED
    BY <1>1, <1>2, <2>1, <2>2
<1>6. QueueEndsCurrent'
  <2>. SUFFICES ASSUME NEW d \in DeviceId, d \notin stale', ~ Publishing(d),
                       HasFor(d, Len(outq))
                PROVE  \E i \in 1..Len(outq) : /\ IsLastFor(d, i, Len(outq))
                                              /\ outq[i].doc = desired(d)'
    BY <1>1, <1>4 DEF QueueEndsCurrent, HasFor, IsLastFor
  <2>1. d # d0 /\ d \notin stale
    BY DEF Published, HasFor
  <2>. QED
    BY <1>2, <2>1 DEF PathInv, QueueEndsCurrent
<1>7. BrokerHasLastSent'
  BY <1>1 DEF PathInv, BrokerHasLastSent, HasFor, IsLastFor
<1>8. BrokerAgrees'
  <2>. SUFFICES ASSUME NEW d \in DeviceId, Settled(d), d \notin stale'
                PROVE  retained[d] = desired(d)'
    BY <1>1, <1>4 DEF BrokerAgrees
  <2>. d \notin stale
    OBVIOUS
  <2>1. CASE d = d0
    BY <1>2, <2>1 DEF Published
  <2>2. CASE d # d0
    BY <1>2, <2>2 DEF PathInv, BrokerAgrees
  <2>. QED
    BY <2>1, <2>2
<1>. QED
  BY <1>5, <1>6, <1>7, <1>8

(* A restart: a device that is not stale after it had no message left to   *)
(* send, so the last one queued for it is the last one the broker got.     *)
LEMMA RestartPath ==
    ASSUME PathInv, Restart
    PROVE  (PublishIsCurrent /\ QueueEndsCurrent /\ BrokerHasLastSent /\ BrokerAgrees)'
<1>. PICK n \in Nat : n = Len(outq) /\ sent \in 0..n
  BY QueueType DEF PathInv, Typed
<1>1. UNCHANGED <<device_shadow, retained>> /\ Len(outq') = 0 /\ sent' = 0
  BY DEF Restart, tables
<1>2. \A d : desired(d)' = desired(d)
  BY <1>1 DEF desired, load_shadow
<1>3. \A a \in Admin : ~ At(a, "publish")'
  BY DEF Restart, At
<1>4. (PublishIsCurrent /\ QueueEndsCurrent /\ BrokerHasLastSent)'
  BY <1>1, <1>3 DEF PublishIsCurrent, QueueEndsCurrent, BrokerHasLastSent, HasFor
<1>5. ASSUME NEW d \in DeviceId, d \notin stale' PROVE retained[d] = desired(d)
  <2>1. /\ d \notin stale /\ ~ Publishing(d)
        /\ \A i \in sent + 1 .. n : outq[i].dev # d
    BY <1>5 DEF Restart, Publishing
  <2>2. CASE HasFor(d, n)
    <3>1. PICK i \in 1..n : IsLastFor(d, i, n) /\ outq[i].doc = desired(d)
      BY <2>1, <2>2 DEF PathInv, QueueEndsCurrent
    <3>2. i \in 1..sent /\ HasFor(d, sent)
      BY <2>1, <3>1 DEF IsLastFor, HasFor
    <3>3. PICK k \in 1..sent : IsLastFor(d, k, sent) /\ outq[k].doc = retained[d]
      BY <3>2 DEF PathInv, BrokerHasLastSent
    <3>4. i = k
      BY <3>1, <3>2, <3>3 DEF IsLastFor
    <3>. QED
      BY <3>1, <3>3, <3>4
  <2>3. CASE ~ HasFor(d, n)
    BY <2>1, <2>3 DEF PathInv, BrokerAgrees, Settled, Publishing, HasFor
  <2>. QED
    BY <2>2, <2>3
<1>6. BrokerAgrees'
  BY <1>1, <1>2, <1>5 DEF BrokerAgrees
<1>. QED
  BY <1>4, <1>6

(* Who sends a PATCH may edit its device, *)
LEMMA JobsPath ==
    ASSUME PathInv, [Next]_vars
    PROVE  JobsAllowed'
<1>. TypeOK /\ job \in [Admin -> Job \cup {NoJob}]
  BY DEF PathInv, Typed, TypeOK
<1>1. ASSUME NEW a \in Admin, Call(a) PROVE JobsAllowed'
  BY <1>1 DEF Call, PathInv, JobsAllowed
<1>2. ASSUME NEW a \in Admin, Handle(a) PROVE JobsAllowed'
  <2>1. \/ Finish(a)
        \/ /\ job[a] # NoJob
           /\ \E next \in Job : next.dev = job[a].dev /\ job' = [job EXCEPT ![a] = next]
    <3>1. CASE Check(a)
      <4>1. [job[a] EXCEPT !.at = "load"] \in Job
        BY <3>1, JobType DEF Check, At, Job
      <4>. QED
        BY <3>1, <4>1, JobType DEF Check, At, Job
    <3>2. CASE Load(a)
      <4> DEFINE doc == Merge(desired(job[a].dev), job[a].delta)
                 next == [job[a] EXCEPT !.at = "save", !.doc = doc]
      <4>1. doc \in Doc
        BY <3>2, JobType, LoadShadowType, MergeType
           DEF Load, At, desired, ShadowRow, PathInv, Typed, TypeOK
      <4>. HIDE DEF doc
      <4>2. next \in Job /\ next.dev = job[a].dev
        BY <3>2, <4>1, JobType DEF Load, At, Job
      <4>3. job' = [job EXCEPT ![a] = next]
        BY <3>2 DEF Load, doc
      <4>. HIDE DEF next
      <4>. QED
        BY <3>2, <4>2, <4>3 DEF Load, At
    <3>3. CASE Save(a)
      <4> DEFINE next == [job[a] EXCEPT !.at = "publish"]
      <4>1. next \in Job /\ next.dev = job[a].dev
        BY <3>3, JobType DEF Save, At, Job
      <4>2. job' = [job EXCEPT ![a] = next]
        BY <3>3 DEF Save
      <4>. HIDE DEF next
      <4>. QED
        BY <3>3, <4>1, <4>2 DEF Save, At
    <3>4. CASE SaveFails(a) \/ Publish(a)
      BY <3>4 DEF SaveFails, Publish
    <3>. QED
      BY <1>2, <3>1, <3>2, <3>3, <3>4 DEF Handle
  <2>. QED
    BY <2>1 DEF Finish, PathInv, JobsAllowed
<1>3. ASSUME \/ UNCHANGED vars \/ Transmit \/ Puback \/ ConnectionLost \/ Report
             \/ \E a \in Admin : Register(a) \/ Unregister(a)
      PROVE  JobsAllowed'
  <2>1. job' = job
    BY <1>3 DEF vars, Transmit, Puback, ConnectionLost, Report, Register, Unregister
  <2>. QED
    BY <2>1 DEF PathInv, JobsAllowed
<1>4. CASE Restart
  BY <1>4 DEF Restart, JobsAllowed
<1>. QED
  BY <1>1, <1>2, <1>3, <1>4 DEF Next

(* and what it is about to save is merged with what is stored: nobody else *)
(* has written the column since the load.                                  *)
LEMMA MergedPath ==
    ASSUME SoleEditor, PathInv, [Next]_vars
    PROVE  MergedIsCurrent'
<1>. TypeOK /\ StoreTypeOK /\ job \in [Admin -> Job \cup {NoJob}]
  BY DEF PathInv, Typed, TypeOK
<1>. SUFFICES ASSUME NEW b \in Admin, At(b, "save")'
              PROVE  (job[b].doc = Merge(desired(job[b].dev), job[b].delta))'
  BY DEF MergedIsCurrent
<1>1. CASE Load(b)
  <2>. PICK d \in DeviceId : d = job[b].dev
    BY <1>1, JobType DEF Load, At
  <2> DEFINE doc == Merge(desired(d), job[b].delta)
             next == [job[b] EXCEPT !.at = "save", !.doc = doc]
  <2>1. next.dev = d /\ next.delta = job[b].delta /\ next.doc = doc
    BY <1>1, JobType DEF Load, At, Job
  <2>2. job' = [job EXCEPT ![b] = next]
    BY <1>1 DEF Load
  <2>. HIDE DEF next
  <2>3. job'[b] = next
    BY <2>2
  <2>4. desired(d)' = desired(d)
    BY <1>1 DEF Load, tables, desired, load_shadow
  <2>. QED
    BY <2>1, <2>3, <2>4
<1>2. CASE ~ Load(b)
  <2>1. At(b, "save") /\ job'[b] = job[b]
    <3>1. CASE \E a \in Admin : Handle(a) \/ Call(a)
      <4>. PICK a \in Admin : Handle(a) \/ Call(a)
        BY <3>1
      <4>1. CASE a = b
        <5>1. CASE Call(b)
          BY <5>1 DEF Call, At
        <5>2. CASE Check(b)
          <6>1. [job[b] EXCEPT !.at = "load"].at = "load"
            BY <5>2, JobType DEF Check, At, Job
          <6>. QED
            BY <5>2, <6>1 DEF Check, Finish, At
        <5>3. CASE Save(b)
          <6>1. [job[b] EXCEPT !.at = "publish"].at = "publish"
            BY <5>3, JobType DEF Save, At, Job
          <6>. QED
            BY <5>3, <6>1 DEF Save, At
        <5>4. CASE SaveFails(b) \/ Publish(b)
          BY <5>4 DEF SaveFails, Publish, Finish, At
        <5>. QED
          BY <1>2, <4>1, <5>1, <5>2, <5>3, <5>4 DEF Handle
      <4>2. CASE a # b
        <5>1. job'[b] = job[b]
          BY <4>2 DEF Handle, Call, Check, Load, Save, SaveFails, Publish, Finish
        <5>. QED
          BY <5>1 DEF At
      <4>. QED
        BY <4>1, <4>2
    <3>2. CASE Restart
      BY <3>2 DEF Restart, At
    <3>3. ASSUME \/ UNCHANGED vars \/ Transmit \/ Puback \/ ConnectionLost \/ Report
                 \/ \E a \in Admin : Register(a) \/ Unregister(a)
          PROVE  job' = job
      BY <3>3 DEF vars, Transmit, Puback, ConnectionLost, Report, Register, Unregister
    <3>. QED
      BY <3>1, <3>2, <3>3 DEF Next, At
  <2>. PICK d \in DeviceId : d = job[b].dev
    BY <2>1, JobType DEF At
  <2>2. <<b, d>> \in MayEdit
    BY <2>1 DEF PathInv, JobsAllowed, At
  <2>3. desired(d)' = desired(d)
    <3>1. ASSUME NEW a \in Admin, Save(a) PROVE desired(d)' = desired(d)
      <4>1. a # b
        <5>1. ASSUME Save(b) PROVE FALSE
          <6>1. job'[b] # job[b]
            BY <5>1, JobType DEF Save, At, Job
          <6>. QED
            BY <2>1, <6>1
        <5>. QED
          BY <3>1, <5>1
      <4>2. job[a].dev # d
        BY <2>2, <3>1, <4>1, JobType DEF Save, At, SoleEditor, PathInv, JobsAllowed
      <4>. QED
        BY <3>1, <4>2, ShadowAfterDesired DEF Save, desired
    <3>2. ASSUME NEW a \in Admin, Unregister(a) PROVE desired(d)' = desired(d)
      <4>1. PICK x \in Registered : <<a, x>> \in MayDelete /\ DeleteDevice(x)
        BY <3>2 DEF Unregister
      <4>2. x # d
        BY <2>1, <2>2, <3>2, <4>1, DesiredAssumption DEF Unregister, SoleEditor, At
      <4>. QED
        BY <4>1, <4>2, ShadowAfterDelete DEF desired
    <3>3. CASE Report
      BY <3>3, ShadowAfterReport, DesiredAssumption DEF Report, desired
    <3>4. ASSUME \/ UNCHANGED vars \/ Transmit \/ Puback \/ ConnectionLost \/ Restart
                 \/ \E a \in Admin : \/ Call(a) \/ Check(a) \/ Load(a) \/ SaveFails(a)
                                    \/ Publish(a) \/ Register(a)
          PROVE  UNCHANGED device_shadow
      BY <3>4 DEF vars, tables, Transmit, Puback, ConnectionLost, Restart, Call, Check, Load,
         SaveFails, Publish, Register, InsertDevice
    <3>. QED
      BY <3>1, <3>2, <3>3, <3>4 DEF Next, Handle, desired, load_shadow
  <2>4. job[b].doc = Merge(desired(d), job[b].delta)
    BY <2>1 DEF PathInv, MergedIsCurrent
  <2>. QED
    BY <2>1, <2>3, <2>4
<1>. QED
  BY <1>1, <1>2

(* PathInv is inductive. *)
LEMMA PathInductive == SoleEditor => (Init => PathInv) /\ (PathInv /\ [Next]_vars => PathInv')
<1>. SUFFICES ASSUME SoleEditor PROVE (Init => PathInv) /\ (PathInv /\ [Next]_vars => PathInv')
  OBVIOUS
<1>1. ASSUME Init PROVE PathInv
  <2>1. Typed
    BY <1>1, TypedInductive
  <2>2. Len(outq) = 0 /\ sent = 0 /\ \A a \in Admin : job[a] = NoJob
    BY <1>1 DEF Init
  <2>3. \A d \in DeviceId : retained[d] = EmptyDoc /\ desired(d) = EmptyDoc
    BY <1>1 DEF Init, StoreInit, EmptyTable, desired, load_shadow, FreshShadow
  <2>. QED
    BY <2>1, <2>2, <2>3 DEF PathInv, JobsAllowed, MergedIsCurrent, PublishIsCurrent,
       QueueEndsCurrent, BrokerHasLastSent, BrokerAgrees, HasFor, At
<1>2. ASSUME PathInv, [Next]_vars PROVE PathInv'
  <2> DEFINE Q == (PublishIsCurrent /\ QueueEndsCurrent /\ BrokerHasLastSent /\ BrokerAgrees)'
  <2>1. ASSUME UNCHANGED vars PROVE Q
    <3>1. UNCHANGED <<device_shadow, job, outq, sent, retained, stale>>
      BY <2>1 DEF vars, tables, pub
    <3>. QED
      BY <1>2, <3>1, QuietStep DEF At, desired, load_shadow
  <2>2. ASSUME Next PROVE Q
    BY <1>2, <2>2, QuietPath, SavePath, PublishPath, NetworkPath, UnregisterPath, RestartPath
       DEF Next, Handle
  <2>3. Q
    BY <1>2, <2>1, <2>2
  <2>. QED
    BY <1>2, <2>3, TypedInductive, JobsPath, MergedPath DEF PathInv
<1>. QED
  BY <1>1, <1>2

(* With one editor per device, the retained message of a device whose      *)
(* publishes are done is its desired column, unless a restart or a         *)
(* deletion has made it stale: for every length of the queue, every        *)
(* interleaving of the resends and every number of devices.                *)
THEOREM BrokerAgreesWithDatabase == ASSUME SoleEditor PROVE Spec => []BrokerAgrees
<1>1. PathInv => BrokerAgrees
  BY DEF PathInv
<1>. QED
  BY <1>1, PathInductive, PTL DEF Spec

(* With one editor per device, a PATCH overwrites the keys of its delta in *)
(* what is stored at its commit, and changes nothing else of the row.      *)
THEOREM PatchOverwritesKeys == ASSUME SoleEditor PROVE Spec => KeyLevelOverwrite
<1> DEFINE Overwrite ==
      \A a \in Admin, d \in DeviceId :
         At(a, "save") /\ At(a, "publish")' /\ job[a].dev = d =>
           load_shadow(d)' = [load_shadow(d) EXCEPT !.desired = Merge(@, job[a].delta)]
<1>1. PathInv /\ [Next]_vars => [Overwrite]_vars
  <2>. SUFFICES ASSUME PathInv, Next, NEW a \in Admin, NEW d \in DeviceId,
                       At(a, "save"), At(a, "publish")', job[a].dev = d
                PROVE  load_shadow(d)' =
                         [load_shadow(d) EXCEPT !.desired = Merge(@, job[a].delta)]
    OBVIOUS
  <2>. TypeOK /\ job \in [Admin -> Job \cup {NoJob}]
    BY DEF PathInv, Typed, TypeOK
  <2>1. Save(a)
    <3>1. job'[a] # job[a]
      BY DEF At
    <3>2. Handle(a)
      BY <3>1 DEF Next, Handle, Call, Check, Load, Save, SaveFails, Publish, Finish, Register,
         Unregister, Transmit, Puback, ConnectionLost, Report, Restart, At
    <3>. QED
      BY <3>2, NotPublishing DEF Handle, Publish, At
  <2>2. SaveDesired(d, job[a].doc) /\ job[a].doc = Merge(desired(d), job[a].delta)
    BY <2>1 DEF Save, PathInv, MergedIsCurrent
  <2>. QED
    BY <2>2, ShadowAfterDesired DEF desired
<1>. QED
  BY <1>1, PathInductive, PTL DEF Spec, KeyLevelOverwrite

(***************************************************************************)
(* Part 4.  The delta, for all objects.                                    *)
(***************************************************************************)

(* Whatever is desired and reported, the delta does what the whole desired *)
(* object would do, except for a null that is not reported; applied, it    *)
(* leaves nothing to do.                                                   *)
LEMMA DeltaSuffices ==
    ASSUME NEW wish \in Doc, NEW report \in Doc
    PROVE  LET done == Merge(report, compute_delta(wish, report))
               whole == Merge(report, wish)
           IN  /\ {k \in Key : done[k] # whole[k]}
                    = {k \in Key : wish[k] = Null /\ report[k] = Absent}
               /\ compute_delta(wish, done) = EmptyDoc
<1> DEFINE delta == compute_delta(wish, report)
           done == Merge(report, delta)
           whole == Merge(report, wish)
<1>. Null # Absent
  BY DocAssumption
<1>1. \A k \in Key : delta[k] = IF wish[k] # Absent /\ Get(report, k) # wish[k]
                                THEN wish[k] ELSE Absent
  BY DEF compute_delta
<1>2. \A k \in Key : done[k] = IF wish[k] # Absent /\ Get(report, k) # wish[k]
                               THEN wish[k] ELSE report[k]
  BY <1>1 DEF Merge
<1>3. \A k \in Key : whole[k] = IF wish[k] = Absent THEN report[k] ELSE wish[k]
  BY DEF Merge
<1>. HIDE DEF delta, done, whole
<1>4. ASSUME NEW k \in Key
      PROVE  done[k] # whole[k] <=> wish[k] = Null /\ report[k] = Absent
  BY <1>2, <1>3 DEF Get
<1>5. ASSUME NEW k \in Key
      PROVE  ~ (wish[k] # Absent /\ Get(done, k) # wish[k])
  BY <1>2 DEF Get
<1>6. compute_delta(wish, done) = EmptyDoc
  BY <1>5 DEF compute_delta, EmptyDoc
<1>7. {k \in Key : done[k] # whole[k]} = {k \in Key : wish[k] = Null /\ report[k] = Absent}
  BY <1>4
<1>. QED
  BY <1>6, <1>7 DEF delta, done, whole

(* What GET /shadow answers as the delta stands for the whole desired      *)
(* object, in every state, for every set of keys and values, with the      *)
(* null that is not reported as the one exception.                         *)
THEOREM DeltaAlwaysStandsForDesired == Spec => []DeltaStandsForDesired
<1>1. Typed => DeltaStandsForDesired
  <2>. SUFFICES ASSUME Typed, NEW d \in Registered
                PROVE  LET s == load_shadow(d)
                           done == Merge(s.reported, compute_delta(s.desired, s.reported))
                           whole == Merge(s.reported, s.desired)
                       IN  /\ {k \in Key : done[k] # whole[k]}
                                = {k \in Key : s.desired[k] = Null /\ s.reported[k] = Absent}
                           /\ compute_delta(s.desired, done) = EmptyDoc
    BY DEF DeltaStandsForDesired
  <2>1. load_shadow(d) \in ShadowRow
    BY LoadShadowType DEF Typed, TypeOK
  <2>2. load_shadow(d).desired \in Doc /\ load_shadow(d).reported \in Doc
    BY <2>1 DEF ShadowRow
  <2>. QED
    BY <2>2, DeltaSuffices, Zenon
<1>. QED
  BY <1>1, TypedInductive, PTL DEF Spec
=============================================================================
