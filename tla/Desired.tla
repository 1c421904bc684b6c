------------------------------- MODULE Desired ------------------------------
(***************************************************************************)
(* The desired half of the device shadow: the PATCH handler                *)
(* (app/shadow.py), the publisher it hands the merged object to            *)
(* (app/mqtt_pub.py) and the retained message of embediq/{id}/state/desired*)
(* that the broker keeps for the device.                                   *)
(*                                                                         *)
(* A PATCH is four steps: the check that the device exists, the load of    *)
(* its shadow, the transaction that saves the merged object, and, after    *)
(* the commit, the publish.  The publisher is a paho client with QoS 1: it *)
(* queues while there is no connection, sends in order, drops a message    *)
(* when the broker acknowledges it, and after a reconnect sends what was   *)
(* not acknowledged once more.  The queue is memory: a restart empties it. *)
(*                                                                         *)
(* Each admin is a client that waits for one answer before the next call.  *)
(* MayEdit and MayDelete say who works on which device.                    *)
(***************************************************************************)
EXTENDS Store, Sequences

CONSTANTS
    Admin,
    MayEdit,        \* pairs <<admin, device>>: who sends PATCHes and POSTs
    MayDelete,      \* pairs <<admin, device>>: who sends DELETEs
    Patches,        \* bodies of PATCH requests
    Reports,        \* what a device may report
    NoJob,          \* the job of an admin who waits for no answer
    MaxQueue,       \* bound on the publisher's queue
    MaxLosses,      \* bound on the publisher's lost connections
    MaxRestarts     \* bound on the restarts of the process

ASSUME DesiredAssumption ==
    /\ MayEdit \subseteq Admin \X DeviceId /\ MayDelete \subseteq MayEdit
    /\ Patches \subseteq Doc /\ Reports \subseteq Doc
    /\ MaxQueue \in Nat /\ MaxLosses \in Nat /\ MaxRestarts \in Nat

VARIABLES
    job,            \* admin -> the PATCH in progress, or NoJob
    outq,           \* the publisher's messages without acknowledgement
    sent,           \* how many of them this connection has delivered
    retained,       \* device -> retained state/desired at the broker
    committed,      \* history: device -> objects its desired column has held
    stale,          \* history: devices whose publish a restart has dropped, or
                    \* that were unregistered with something published
    losses, restarts

pub == <<outq, sent>>
vars == <<tables, job, pub, retained, committed, stale, losses, restarts>>

Message == [dev : DeviceId, doc : Doc]
Job == [dev : DeviceId, delta : Patches, doc : Doc,
        at : {"check", "load", "save", "publish"}]

ASSUME NoJobAssumption == NoJob \notin Job

TypeOK ==
    /\ StoreTypeOK
    /\ job \in [Admin -> Job \cup {NoJob}]
    /\ outq \in Seq(Message) /\ Len(outq) <= MaxQueue
    /\ sent \in 0..Len(outq)
    /\ retained \in [DeviceId -> Doc]
    /\ committed \in [DeviceId -> SUBSET Doc]
    /\ stale \subseteq DeviceId
    /\ losses \in 0..MaxLosses
    /\ restarts \in 0..MaxRestarts

Init ==
    /\ StoreInit
    /\ job = [a \in Admin |-> NoJob]
    /\ outq = <<>> /\ sent = 0
    /\ retained = [d \in DeviceId |-> EmptyDoc]
    /\ committed = [d \in DeviceId |-> {EmptyDoc}]
    /\ stale = {}
    /\ losses = 0 /\ restarts = 0

desired(d) == load_shadow(d).desired

-----------------------------------------------------------------------------
(* The PATCH handler. *)
At(a, step) == job[a] # NoJob /\ job[a].at = step
Finish(a) == job' = [job EXCEPT ![a] = NoJob]
unpublished == <<pub, retained, stale, losses, restarts>>

Call(a) ==
    /\ job[a] = NoJob
    /\ \E d \in DeviceId, delta \in Patches :
         /\ <<a, d>> \in MayEdit
         /\ job' = [job EXCEPT ![a] = [dev |-> d, delta |-> delta, doc |-> EmptyDoc,
                                       at |-> "check"]]
    /\ UNCHANGED <<tables, committed, unpublished>>

(* _device_exists, or 404. *)
Check(a) ==
    /\ At(a, "check")
    /\ IF job[a].dev \in Registered THEN job' = [job EXCEPT ![a].at = "load"] ELSE Finish(a)
    /\ UNCHANGED <<tables, committed, unpublished>>

(* load_shadow and desired.update(delta). *)
Load(a) ==
    /\ At(a, "load")
    /\ job' = [job EXCEPT ![a].at = "save",
                          ![a].doc = Merge(desired(job[a].dev), job[a].delta)]
    /\ UNCHANGED <<tables, committed, unpublished>>

Save(a) ==
    /\ At(a, "save")
    /\ SaveDesired(job[a].dev, job[a].doc)
    /\ committed' = [committed EXCEPT ![job[a].dev] = @ \cup {job[a].doc}]
    /\ job' = [job EXCEPT ![a].at = "publish"]
    /\ UNCHANGED unpublished

(* Faulty variant: the error is swallowed, and the publish follows. *)
SaveFailsSilently(a) ==
    /\ At(a, "save")
    /\ job' = [job EXCEPT ![a].at = "publish"]
    /\ UNCHANGED <<tables, committed, unpublished>>

(* The foreign key of a device deleted meanwhile, or a lock not had in     *)
(* time: 500, nothing saved and nothing published.                         *)
SaveFails(a) ==
    /\ At(a, "save")
    /\ Finish(a)
    /\ UNCHANGED <<tables, committed, unpublished>>

(* Faulty variant: a client that takes no message while it has one. *)
PublishIfIdle(a) ==
    /\ At(a, "publish")
    /\ outq' = IF outq = <<>> THEN <<[dev |-> job[a].dev, doc |-> job[a].doc]>> ELSE outq
    /\ stale' = stale \ {job[a].dev}
    /\ Finish(a)
    /\ UNCHANGED <<tables, sent, retained, committed, losses, restarts>>

(* publish_retained hands the object to the client, which queues it. *)
Publish(a) ==
    /\ At(a, "publish")
    /\ Len(outq) < MaxQueue
    /\ outq' = Append(outq, [dev |-> job[a].dev, doc |-> job[a].doc])
    /\ stale' = stale \ {job[a].dev}
    /\ Finish(a)
    /\ UNCHANGED <<tables, sent, retained, committed, losses, restarts>>

-----------------------------------------------------------------------------
(* The publisher's network thread and the broker. *)
Transmit ==
    /\ sent < Len(outq)
    /\ sent' = sent + 1
    /\ retained' = [retained EXCEPT ![outq[sent + 1].dev] = outq[sent + 1].doc]
    /\ UNCHANGED <<tables, job, outq, committed, stale, losses, restarts>>

(* Faulty variant: a lost connection takes the queue along. *)
ConnectionLostForgetful ==
    /\ losses < MaxLosses
    /\ losses' = losses + 1
    /\ outq' = <<>> /\ sent' = 0
    /\ UNCHANGED <<tables, job, retained, committed, stale, restarts>>

Puback ==
    /\ sent > 0
    /\ outq' = Tail(outq)
    /\ sent' = sent - 1
    /\ UNCHANGED <<tables, job, retained, committed, stale, losses, restarts>>

ConnectionLost ==
    /\ losses < MaxLosses
    /\ losses' = losses + 1
    /\ sent' = 0
    /\ UNCHANGED <<tables, job, outq, retained, committed, stale, restarts>>

-----------------------------------------------------------------------------
(* What else writes: POST and DELETE of the device by an admin who works   *)
(* on it, and the bridge when the device reports.                          *)
Published(d) == retained[d] # EmptyDoc \/ \E i \in 1..Len(outq) : outq[i].dev = d

Register(a) ==
    /\ job[a] = NoJob
    /\ \E d \in DeviceId : <<a, d>> \in MayEdit /\ InsertDevice(d, DefaultGroup)
    /\ UNCHANGED <<job, committed, unpublished>>

Unregister(a) ==
    /\ job[a] = NoJob
    /\ \E d \in Registered : /\ <<a, d>> \in MayDelete
                             /\ DeleteDevice(d)
                             /\ stale' = IF Published(d) THEN stale \cup {d} ELSE stale
    /\ UNCHANGED <<job, committed, pub, retained, losses, restarts>>

Report ==
    /\ \E d \in DeviceId, doc \in Reports : SaveReported(d, doc)
    /\ UNCHANGED <<job, committed, unpublished>>

(* Faulty variant: the queue is emptied, the mark of what was sent is not. *)
RestartUnmarked ==
    /\ restarts < MaxRestarts
    /\ restarts' = restarts + 1
    /\ job' = [a \in Admin |-> NoJob]
    /\ outq' = <<>>
    /\ UNCHANGED <<tables, sent, retained, committed, stale, losses>>

(* The process stops and starts.  A publish not yet handed over, or not    *)
(* delivered, is gone.                                                     *)
Restart ==
    /\ restarts < MaxRestarts
    /\ restarts' = restarts + 1
    /\ job' = [a \in Admin |-> NoJob]
    /\ outq' = <<>> /\ sent' = 0
    /\ stale' = stale \cup {job[a].dev : a \in {x \in Admin : At(x, "publish")}}
                      \cup {outq[i].dev : i \in sent + 1 .. Len(outq)}
    /\ UNCHANGED <<tables, retained, committed, losses>>

Handle(a) == Check(a) \/ Load(a) \/ Save(a) \/ SaveFails(a) \/ Publish(a)

Next == \/ \E a \in Admin : Call(a) \/ Handle(a) \/ Register(a) \/ Unregister(a)
        \/ Transmit \/ Puback \/ ConnectionLost
        \/ Report \/ Restart

Spec == Init /\ [][Next]_vars

(* A thread of the pool that serves a request goes on to its end, and the  *)
(* publisher's thread keeps sending and reading.                           *)
FairSpec == /\ Spec
            /\ \A a \in Admin : WF_vars(Handle(a))
            /\ WF_vars(Transmit) /\ WF_vars(Puback)

-----------------------------------------------------------------------------
(* No device is worked on by two admins. *)
SoleEditor == \A a, b \in Admin, d \in DeviceId :
                 <<a, d>> \in MayEdit /\ <<b, d>> \in MayEdit => a = b

(* Nobody is between the commit and the publish of d, and the publisher    *)
(* holds no message for d.                                                 *)
Settled(d) == /\ \A a \in Admin : ~ (At(a, "publish") /\ job[a].dev = d)
              /\ \A i \in 1..Len(outq) : outq[i].dev # d

(* The publish comes after the commit: whatever fails or restarts, the     *)
(* broker never retains a configuration that the database has not held.    *)
RetainedWasCommitted == \A d \in DeviceId : retained[d] \in committed[d]

(* Once the publisher is done with a device, the retained message is what  *)
(* the database has as desired, through resends, lost connections and      *)
(* failed writes; except for a device known to be stale.                   *)
BrokerAgrees == \A d \in DeviceId : Settled(d) /\ d \notin stale => retained[d] = desired(d)

(* A PATCH is a key-level overwrite: the commit changes the keys of the    *)
(* delta in the object stored just before it, no other key, and nothing of *)
(* what the device reported.                                               *)
KeyLevelOverwrite ==
    [][\A a \in Admin, d \in DeviceId :
         At(a, "save") /\ At(a, "publish")' /\ job[a].dev = d =>
           load_shadow(d)' = [load_shadow(d) EXCEPT !.desired = Merge(@, job[a].delta)]]_vars

(* A device that applies the delta of GET /shadow ends where one that      *)
(* applies the whole desired object ends, and nothing is left for it to do *)
(* then; but for the keys desired as null that it has not reported, which  *)
(* the docstring of compute_delta wants listed and the code leaves out.    *)
DeltaStandsForDesired ==
    \A d \in Registered :
      LET s == load_shadow(d)
          done == Merge(s.reported, compute_delta(s.desired, s.reported))
          whole == Merge(s.reported, s.desired)
      IN  /\ {k \in Key : done[k] # whole[k]}
               = {k \in Key : s.desired[k] = Null /\ s.reported[k] = Absent}
          /\ compute_delta(s.desired, done) = EmptyDoc

(* A configuration that stays desired reaches the broker, over lost        *)
(* connections and whatever else is queued; unless a restart drops its     *)
(* publish, for nothing repeats it.                                        *)
DesiredReachesBroker ==
    \A d \in DeviceId : \A doc \in Doc \ {EmptyDoc} :
      desired(d) = doc ~> retained[d] = doc \/ desired(d) # doc \/ d \in stale
=============================================================================
