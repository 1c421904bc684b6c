----------------------------- MODULE ShadowLoop -----------------------------
(***************************************************************************)
(* The way around: an admin PATCHes the desired object, the publisher      *)
(* hands it to the broker, the device applies it and reports it, and the   *)
(* bridge writes the report beside the desired object.  It composes the    *)
(* handlers and the publisher of Desired with a device and the bridge,     *)
(* here reduced to state/reported (Bridge has the rest of it).             *)
(*                                                                         *)
(* The device is external: it subscribes to its state/desired with a clean *)
(* session, is given the retained object when it connects and each later   *)
(* one while it is connected, and by the topic contract applies what it is *)
(* given, in that order, and reports it.  Besides it may report anything.  *)
(* The contract has its reports retained; the simulated device does not    *)
(* retain them, and then one made while the bridge is away is lost.        *)
(***************************************************************************)
EXTENDS Desired, FiniteSets, SequencesExt

CONSTANTS
    Retains,        \* the devices whose reports are retained
    MaxWire,        \* bound on what is on its way to a device
    MaxInbox,       \* bound on what waits for the bridge, per device
    MaxDrops        \* bound on the lost connections of devices and bridge

ASSUME LoopAssumption ==
    /\ IsFiniteSet(DeviceId)        \* an id fits in a topic
    /\ Retains \subseteq DeviceId
    /\ MaxWire \in Nat \ {0} /\ MaxInbox \in Nat \ {0} /\ MaxDrops \in Nat

VARIABLES
    linked,         \* devices with a connection to the broker
    wire,           \* device -> objects on their way to it
    kept,           \* device -> the report the broker retains of it, if any
    session,        \* is the bridge subscribed?
    inbox,          \* device -> its reports that the broker has for the bridge
    lapsed,         \* history: devices of which a report got lost since the last
                    \* one that was written
    own,            \* history: devices whose last report is of their own accord
    drops

loop == <<linked, wire, kept, session, inbox, lapsed, own, drops>>
allVars == <<vars, loop>>

LoopTypeOK ==
    /\ TypeOK
    /\ linked \subseteq DeviceId
    /\ wire \in [DeviceId -> Seq(Doc)]
    /\ \A d \in DeviceId : Len(wire[d]) <= MaxWire /\ (d \notin linked => wire[d] = <<>>)
    /\ {kept, inbox} \subseteq [DeviceId -> Seq(Doc)]
    /\ \A d \in DeviceId : Len(inbox[d]) <= MaxInbox /\ Len(kept[d]) <= 1
    /\ session \in BOOLEAN
    /\ lapsed \subseteq DeviceId /\ own \subseteq DeviceId
    /\ drops \in 0..MaxDrops

LoopInit ==
    /\ Init
    /\ linked = {}
    /\ wire = [d \in DeviceId |-> <<>>]
    /\ kept = [d \in DeviceId |-> <<>>] /\ inbox = [d \in DeviceId |-> <<>>]
    /\ session = FALSE
    /\ lapsed = {} /\ own = {}
    /\ drops = 0

-----------------------------------------------------------------------------
(* The broker sends what it is handed on to the device, if that is there. *)
Deliver ==
    /\ Transmit
    /\ LET m == outq[sent + 1]
       IN  IF m.dev \in linked
           THEN /\ Len(wire[m.dev]) < MaxWire
                /\ wire' = [wire EXCEPT ![m.dev] = Append(@, m.doc)]
           ELSE UNCHANGED wire
    /\ UNCHANGED <<linked, kept, session, inbox, lapsed, own, drops>>

(* The end of the bridge's session.  What waited for it is lost, unless it *)
(* is sent again on the next subscription.                                 *)
EndSession ==
    /\ session' = FALSE /\ inbox' = [d \in DeviceId |-> <<>>]
    /\ lapsed' = lapsed \cup {d \in DeviceId \ Retains : inbox[d] # <<>>}

(* The process takes its bridge along. *)
ProcessRestart ==
    /\ Restart
    /\ EndSession
    /\ UNCHANGED <<linked, wire, kept, own, drops>>

-----------------------------------------------------------------------------
(* The device. *)

(* Faulty variants: nothing retained is sent to a device that connects;    *)
(* what was on its way survives the connection.                            *)
LinkForgetting(d) ==
    /\ d \notin linked
    /\ linked' = linked \cup {d}
    /\ wire' = [wire EXCEPT ![d] = <<>>]
    /\ UNCHANGED <<vars, kept, session, inbox, lapsed, own, drops>>

UnlinkKeeping(d) ==
    /\ d \in linked
    /\ drops < MaxDrops /\ drops' = drops + 1
    /\ linked' = linked \ {d}
    /\ UNCHANGED <<vars, wire, kept, session, inbox, lapsed, own>>

Link(d) ==
    /\ d \notin linked
    /\ linked' = linked \cup {d}
    /\ wire' = [wire EXCEPT ![d] = IF retained[d] = EmptyDoc THEN <<>> ELSE <<retained[d]>>]
    /\ UNCHANGED <<vars, kept, session, inbox, lapsed, own, drops>>

Unlink(d) ==
    /\ d \in linked
    /\ drops < MaxDrops /\ drops' = drops + 1
    /\ linked' = linked \ {d}
    /\ wire' = [wire EXCEPT ![d] = <<>>]
    /\ UNCHANGED <<vars, kept, session, inbox, lapsed, own>>

(* A report reaches the broker: the bridge is sent it if it is subscribed. *)
Tell(d, doc) ==
    /\ Len(inbox[d]) < MaxInbox
    /\ inbox' = IF session THEN [inbox EXCEPT ![d] = Append(@, doc)] ELSE inbox
    /\ kept' = IF d \in Retains THEN [kept EXCEPT ![d] = <<doc>>] ELSE kept
    /\ lapsed' = IF session \/ d \in Retains THEN lapsed ELSE lapsed \cup {d}

(* The device applies what it is given and reports it. *)
Apply(d) ==
    /\ wire[d] # <<>>
    /\ Tell(d, Head(wire[d]))
    /\ wire' = [wire EXCEPT ![d] = Tail(@)]
    /\ own' = own \ {d}
    /\ UNCHANGED <<vars, linked, session, drops>>

(* It reports something else. *)
ReportState(d) ==
    /\ d \in linked
    /\ \E doc \in Reports : Tell(d, doc)
    /\ own' = own \cup {d}
    /\ UNCHANGED <<vars, linked, wire, session, drops>>

-----------------------------------------------------------------------------
(* The bridge.  On connecting it is given every retained report. *)
Subscribe ==
    /\ ~ session
    /\ session' = TRUE
    /\ inbox' = kept
    /\ UNCHANGED <<vars, linked, wire, kept, lapsed, own, drops>>

Lose ==
    /\ session
    /\ drops < MaxDrops /\ drops' = drops + 1
    /\ EndSession
    /\ UNCHANGED <<vars, linked, wire, kept, own>>

(* Faulty variant: each report is written by a thread of its own. *)
HandleReportedUnordered(d) ==
    /\ \E i \in 1..Len(inbox[d]) :
         /\ SaveReported(d, inbox[d][i]) \/ UNCHANGED tables
         /\ inbox' = [inbox EXCEPT ![d] = RemoveAt(@, i)]
    /\ UNCHANGED <<job, pub, retained, committed, stale, losses, restarts,
                   linked, wire, kept, session, lapsed, own, drops>>

(* _handle_reported; an unknown device or a lock not had in time drops the *)
(* report.  The broker keeps the order of a device's reports.              *)
HandleReported(d) ==
    /\ inbox[d] # <<>>
    /\ \/ SaveReported(d, Head(inbox[d])) /\ lapsed' = lapsed \ {d}
       \/ UNCHANGED tables /\ lapsed' = lapsed \cup {d}
    /\ inbox' = [inbox EXCEPT ![d] = Tail(@)]
    /\ UNCHANGED <<job, pub, retained, committed, stale, losses, restarts,
                   linked, wire, kept, session, own, drops>>

-----------------------------------------------------------------------------
Cloud == \/ \E a \in Admin : Call(a) \/ Handle(a) \/ Register(a) \/ Unregister(a)
         \/ Puback \/ ConnectionLost

LoopNext ==
    \/ Cloud /\ UNCHANGED loop
    \/ Deliver \/ ProcessRestart
    \/ \E d \in DeviceId : \/ Link(d) \/ Unlink(d) \/ Apply(d) \/ ReportState(d)
                           \/ HandleReported(d)
    \/ Subscribe \/ Lose

LoopSpec == LoopInit /\ [][LoopNext]_allVars

(* The threads of the process run, devices and bridge come back after a    *)
(* lost connection, and a connected device applies what it is given.       *)
LoopFairSpec ==
    /\ LoopSpec
    /\ \A a \in Admin : WF_allVars(Handle(a) /\ UNCHANGED loop)
    /\ WF_allVars(Deliver) /\ WF_allVars(Puback /\ UNCHANGED loop)
    /\ \A d \in DeviceId : /\ WF_allVars(Link(d)) /\ WF_allVars(Apply(d))
                           /\ WF_allVars(HandleReported(d))
    /\ WF_allVars(Subscribe)

-----------------------------------------------------------------------------
(* The reports of a device that may still be shown: those that wait, or    *)
(* what the broker retains, which is sent again on the next subscription.  *)
Coming == [d \in DeviceId |-> IF inbox[d] # <<>> THEN inbox[d] ELSE kept[d]]

(* The whole way around keeps the promises of the shadow, with a single    *)
(* editor for each device: no restart, resend, reordering of handlers or   *)
(* reconnect shows an older report after a newer one or one that its       *)
(* device has not made, whatever devices report, and nothing but a PATCH   *)
(* or a deletion changes what is desired.                                  *)
Contract == INSTANCE ShadowContract
            WITH wanted <- [d \in DeviceId |-> load_shadow(d).desired],
                 shown <- [d \in DeviceId |-> load_shadow(d).reported],
                 coming <- Coming
KeepsContract == Contract!Spec

(* Drift ends: what stays desired is reported in the end, and stays so,    *)
(* whatever was lost before; unless a restart dropped the publish for      *)
(* good, the device reports something else of its own accord, or the last  *)
(* of its reports got lost: made while the bridge was away, waiting when   *)
(* the bridge went, or dropped by it.                                      *)
DriftEnds ==
    \A d \in DeviceId : \A doc \in Doc \ {EmptyDoc} :
      <>[](desired(d) = doc /\ d \notin stale \cup lapsed \cup own)
        => <>[](load_shadow(d).reported = doc)
=============================================================================
