------------------------------- MODULE Bridge -------------------------------
(***************************************************************************)
(* The MQTT bridge (app/bridge.py): one paho thread that reads what the    *)
(* devices publish, in the order the broker sends it, and writes it to the *)
(* tables; for a report on an update it then calls hawkBit, for telemetry  *)
(* and logs InfluxDB and Loki.  A call blocks the thread.                  *)
(*                                                                         *)
(* The bridge subscribes with a clean session.  While it is not connected, *)
(* what a device says is lost to it, except for what the broker retains:   *)
(* status is not retained; state/reported is, by the contract, which the   *)
(* simulated device does not keep.  An exception in the database drops the *)
(* message.  Devices, broker and hawkBit are external and modelled by what *)
(* the topic contract and the client code say.                             *)
(***************************************************************************)
EXTENDS Store, Sequences, FiniteSets, SequencesExt

CONSTANTS
    Reports,            \* what a device may report
    Chatter,            \* what else is published: telemetry, logs, what is dropped
    NoCall,             \* no call to another service under way
    Retains,            \* the devices that retain state/reported
    Resends,            \* may a device send a report on an update twice?
    Contention,         \* may a write miss the lock in time?
    MaxInbox,           \* bound on what waits for the bridge
    MaxOutages,         \* bound on lost connections and restarts together
    MaxDeploys          \* bound on deployments

ASSUME BridgeAssumption ==
    /\ IsFiniteSet(DeviceId)        \* an id fits in a topic
    /\ Reports \subseteq Doc
    /\ Chatter \subseteq {"telemetry", "logs", "dropped"}
    /\ Retains \subseteq DeviceId
    /\ {Resends, Contention} \subseteq BOOLEAN
    /\ MaxInbox \in Nat /\ MaxOutages \in Nat /\ MaxDeploys \in Nat

VARIABLES
    session,    \* is the bridge subscribed?
    inbox,      \* messages the broker has for it, in order
    call,       \* the thread's call to another service, or NoCall
    hawkbit,    \* device -> status of its deployment at hawkBit
    kept,       \* devices of which the broker retains a report: the last one
    said,       \* history: device -> what it has said last
    missed,     \* history: <<device, aspect>> whose last word did not get through
    outcome,    \* history: device -> what it said of its last deployment
    earlier,    \* history: device -> what it said of the deployments before
    again,      \* history: devices that sent a report on an update again, of
                \* which one may still be under way
    stray,      \* history: device -> what of earlier deployments may reach hawkBit
                \* during the last one: under way when that began, or sent again
    outages, deploys

words == <<kept, said>>
story == <<outcome, earlier, again, stray>>
vars == <<tables, session, inbox, call, hawkbit, words, missed, story, outages, deploys>>

Ota == {"none", "installed", "failed"}
Status == [ch : {"status"}, dev : DeviceId, online : BOOLEAN,
           firmware : Version \cup {Null}, ota : Ota, version : Version \cup {Null}]
Reported == [ch : {"state/reported"}, dev : DeviceId, doc : Doc]
Other == [ch : Chatter, dev : DeviceId]
Message == Status \cup Reported \cup Other
Request == [to : {"hawkbit"}, dev : DeviceId, ota : Ota \ {"none"}]
             \cup [to : {"influx", "loki"}, dev : DeviceId]

Word == [online : BOOLEAN, firmware : Version \cup {Null}, reported : Doc]

TypeOK ==
    /\ StoreTypeOK
    /\ session \in BOOLEAN
    /\ inbox \in Seq(Message) /\ (~ session => inbox = <<>>)
    /\ call \in Request \cup {NoCall}
    /\ hawkbit \in [DeviceId -> {"none", "running", "finished", "error"}]
    /\ kept \subseteq Retains
    /\ said \in [DeviceId -> Word]
    /\ outcome \in [DeviceId -> Ota]
    /\ {earlier, stray} \subseteq [DeviceId -> SUBSET (Ota \ {"none"})]
    /\ again \subseteq DeviceId
    /\ missed \subseteq DeviceId \X {"online", "firmware", "reported"}
    /\ outages \in 0..MaxOutages /\ deploys \in 0..MaxDeploys

Silence == [online |-> FALSE, firmware |-> Null, reported |-> EmptyDoc]

Init ==
    /\ StoreInit
    /\ session = FALSE /\ inbox = <<>> /\ call = NoCall
    /\ hawkbit = [d \in DeviceId |-> "none"]
    /\ said = [d \in DeviceId |-> Silence]
    /\ kept = {} /\ missed = {}
    /\ outcome = [d \in DeviceId |-> "none"]
    /\ earlier = [d \in DeviceId |-> {}] /\ stray = [d \in DeviceId |-> {}]
    /\ again = {}
    /\ outages = 0 /\ deploys = 0

-----------------------------------------------------------------------------
(* What a message tells of its device: the columns it is to change.  The   *)
(* version of an update counts once the update is installed.               *)
Installed(m) == IF m.ota = "installed" THEN m.version ELSE Null
Firmware(m) == Coalesce(Installed(m), m.firmware)
Tells(m) ==
    CASE m.ch = "status" ->
           {<<m.dev, "online">>} \cup IF Firmware(m) = Null THEN {} ELSE {<<m.dev, "firmware">>}
      [] m.ch = "state/reported" -> {<<m.dev, "reported">>}
      [] OTHER -> {}

AllOf(ms) == UNION {Tells(ms[i]) : i \in 1..Len(ms)}

After(word, m) ==
    CASE m.ch = "status" ->
           [word EXCEPT !.online = m.online, !.firmware = Coalesce(Firmware(m), word.firmware)]
      [] m.ch = "state/reported" -> [word EXCEPT !.reported = m.doc]
      [] OTHER -> word

(* What an outage of the bridge does not lose: the broker has it. *)
Kept == Retains \X {"reported"}

(* A message reaches the broker, which sends it on to a subscribed bridge  *)
(* only.                                                                   *)
Say(m) ==
    /\ Len(inbox) < MaxInbox
    /\ said' = [said EXCEPT ![m.dev] = After(@, m)]
    /\ kept' = IF m.ch = "state/reported" THEN kept \cup ({m.dev} \cap Retains) ELSE kept
    /\ IF session THEN inbox' = Append(inbox, m) /\ UNCHANGED missed
                  ELSE missed' = missed \cup (Tells(m) \ Kept) /\ UNCHANGED inbox

StatusOf(d, isOnline, fw, ota, v) ==
    [ch |-> "status", dev |-> d, online |-> isOnline, firmware |-> fw, ota |-> ota, version |-> v]

(* A device tells its status, with or without its firmware version; a      *)
(* status that does not say it is online reads as one of an offline device.*)
PublishStatus(d) ==
    /\ \E isOnline \in BOOLEAN, fw \in Version \cup {Null} :
         Say(StatusOf(d, isOnline, fw, "none", Null))
    /\ UNCHANGED <<tables, session, call, hawkbit, story, outages, deploys>>

(* An unclean disconnect: the broker publishes the last will. *)
Will(d) ==
    /\ said[d].online
    /\ Say(StatusOf(d, FALSE, Null, "none", Null))
    /\ UNCHANGED <<tables, session, call, hawkbit, story, outages, deploys>>

(* The device tells how the update it was given went. *)
ReportUpdate(d) ==
    /\ hawkbit[d] # "none" /\ outcome[d] = "none"
    /\ \E ota \in {"installed", "failed"}, v \in Version :
         /\ Say(StatusOf(d, TRUE, Null, ota, v))
         /\ outcome' = [outcome EXCEPT ![d] = ota]
    /\ UNCHANGED <<tables, session, call, hawkbit, earlier, again, stray, outages, deploys>>

(* It tells it again, of the last deployment or of an earlier one.         *)
RepeatReport(d) ==
    /\ Resends
    /\ \E ota \in ({outcome[d]} \cup earlier[d]) \ {"none"}, v \in Version :
         /\ Say(StatusOf(d, TRUE, Null, ota, v))
         /\ stray' = [stray EXCEPT ![d] = @ \cup ({ota} \ {outcome[d]})]
    /\ again' = again \cup {d}
    /\ UNCHANGED <<tables, session, call, hawkbit, outcome, earlier, outages, deploys>>

(* A device reports its state, any it may have.  The broker retains what a *)
(* device publishes as the contract wants it, not what the simulated one   *)
(* does, whose publish is not retained.                                    *)
ReportState(d) ==
    /\ \E doc \in Reports : Say([ch |-> "state/reported", dev |-> d, doc |-> doc])
    /\ UNCHANGED <<tables, session, call, hawkbit, story, outages, deploys>>

(* Telemetry and logs; and what route_message drops: an unknown channel, a *)
(* payload that is no object, and the cloud's own cmd and state/desired,   *)
(* which the subscription brings back.                                     *)
Talk(d) ==
    /\ session
    /\ \E ch \in Chatter : Say([ch |-> ch, dev |-> d])
    /\ UNCHANGED <<tables, session, call, hawkbit, story, outages, deploys>>

(* What hawkBit is still to hear of a device's updates. *)
UnderWay(d) ==
    {ota \in {"installed", "failed"} :
       \/ \E i \in 1..Len(inbox) : /\ inbox[i].ch = "status" /\ inbox[i].dev = d
                                   /\ inbox[i].ota = ota
       \/ call # NoCall /\ call.to = "hawkbit" /\ call.dev = d /\ call.ota = ota}

(* hawkBit starts a deployment for a device that has none running. *)
Deploy(d) ==
    /\ deploys < MaxDeploys /\ hawkbit[d] # "running"
    /\ deploys' = deploys + 1
    /\ hawkbit' = [hawkbit EXCEPT ![d] = "running"]
    /\ outcome' = [outcome EXCEPT ![d] = "none"]
    /\ earlier' = [earlier EXCEPT ![d] = (@ \cup {outcome[d]}) \ {"none"}]
    /\ stray' = [stray EXCEPT ![d] = IF d \in again THEN UnderWay(d) ELSE {}]
    /\ again' = IF UnderWay(d) = {} THEN again \ {d} ELSE again
    /\ UNCHANGED <<tables, session, inbox, call, words, missed, outages>>

-----------------------------------------------------------------------------
(* The bridge's connection. *)

(* Faulty variant: a subscription that asks for nothing retained. *)
ConnectWithoutRetained ==
    /\ ~ session
    /\ session' = TRUE /\ inbox' = <<>>
    /\ UNCHANGED <<tables, call, hawkbit, words, story, missed, outages, deploys>>

(* _on_connect subscribes; the broker sends what it retains under the      *)
(* topics, in any order.                                                   *)
Connect ==
    /\ ~ session
    /\ session' = TRUE
    /\ \E order \in SetToSeqs(kept) :
         inbox' = [i \in 1..Len(order) |->
                     [ch |-> "state/reported", dev |-> order[i],
                      doc |-> said[order[i]].reported]]
    /\ UNCHANGED <<tables, call, hawkbit, words, story, missed, outages, deploys>>

(* Faulty variant: what was waiting is kept although the session is gone. *)
DisconnectKeeping ==
    /\ outages < MaxOutages
    /\ outages' = outages + 1
    /\ session' = FALSE
    /\ UNCHANGED <<inbox, missed>>

(* The connection breaks, and with the clean session goes what was waiting. *)
Disconnect ==
    /\ outages < MaxOutages
    /\ outages' = outages + 1
    /\ session' = FALSE /\ inbox' = <<>>
    /\ missed' = missed \cup (AllOf(inbox) \ Kept)

Outage == /\ session /\ Disconnect
          /\ UNCHANGED <<tables, call, hawkbit, words, story, deploys>>

(* The process ends and starts the bridge anew: a feedback under way is    *)
(* gone too.  (stop_bridge waits for it; then Feedback came first.)        *)
Restart == /\ Disconnect /\ call' = NoCall
           /\ UNCHANGED <<tables, hawkbit, words, story, deploys>>

-----------------------------------------------------------------------------
(* The handlers of _on_message, one message at a time. *)
Due(ch) == call = NoCall /\ inbox # <<>> /\ Head(inbox).ch = ch

(* _handle_status: the upsert, then the feedback to hawkBit, which is      *)
(* started whether or not the upsert went through.                         *)
HandleStatus ==
    /\ Due("status")
    /\ LET m == Head(inbox)
       IN  /\ \/ /\ SaveStatus(m.dev, m.online, m.firmware, Installed(m))
                 /\ missed' = missed \ Tells(m)
              \/ /\ m.dev \notin Registered \/ Contention
                 /\ UNCHANGED tables
                 /\ missed' = missed \cup Tells(m)
           /\ call' = IF m.ota = "none" THEN NoCall
                       ELSE [to |-> "hawkbit", dev |-> m.dev, ota |-> m.ota]
    /\ inbox' = Tail(inbox)
    /\ UNCHANGED <<session, hawkbit, words, story, outages, deploys>>

HandleReported ==
    /\ Due("state/reported")
    /\ LET m == Head(inbox)
       IN  \/ /\ SaveReported(m.dev, m.doc)
              /\ missed' = missed \ Tells(m)
           \/ /\ m.dev \notin Registered \/ Contention
              /\ UNCHANGED tables
              /\ missed' = missed \cup Tells(m)
    /\ inbox' = Tail(inbox)
    /\ UNCHANGED <<session, call, hawkbit, words, story, outages, deploys>>

(* _handle_telemetry drops a message without metrics. *)
HandleTelemetry ==
    /\ Due("telemetry")
    /\ call' \in {NoCall, [to |-> "influx", dev |-> Head(inbox).dev]}
    /\ inbox' = Tail(inbox)
    /\ UNCHANGED <<tables, session, hawkbit, words, story, missed, outages, deploys>>

HandleLogs ==
    /\ Due("logs")
    /\ call' = [to |-> "loki", dev |-> Head(inbox).dev]
    /\ inbox' = Tail(inbox)
    /\ UNCHANGED <<tables, session, hawkbit, words, story, missed, outages, deploys>>

(* route_message returns early, and _on_message catches what it raises. *)
Drop ==
    /\ Due("dropped")
    /\ inbox' = Tail(inbox)
    /\ UNCHANGED <<tables, session, call, hawkbit, words, story, missed, outages, deploys>>

(* InfluxDB and Loki: an answer, a failure and a timeout are all the same. *)
Written ==
    /\ call # NoCall /\ call.to # "hawkbit"
    /\ call' = NoCall
    /\ UNCHANGED <<tables, session, inbox, hawkbit, words, story, missed, outages, deploys>>

(* Faulty variant: a call whose answer is lost is made again. *)
FeedbackRepeated ==
    /\ call # NoCall /\ call.to = "hawkbit"
    /\ \/ /\ hawkbit[call.dev] = "running"
          /\ hawkbit' = [hawkbit EXCEPT ![call.dev] =
                            IF call.ota = "installed" THEN "finished" ELSE "error"]
       \/ UNCHANGED hawkbit
    /\ call' \in {call, NoCall}
    /\ UNCHANGED <<tables, session, inbox, words, story, missed, outages, deploys>>

(* mark_finished and mark_failed: hawkBit closes the deployment the device *)
(* has running, for the feedback names no other.  The call blocks the      *)
(* thread until the answer or its timeout, and a failure is only logged.   *)
Feedback ==
    /\ call # NoCall /\ call.to = "hawkbit"
    /\ \/ /\ hawkbit[call.dev] = "running"
          /\ hawkbit' = [hawkbit EXCEPT ![call.dev] =
                            IF call.ota = "installed" THEN "finished" ELSE "error"]
       \/ UNCHANGED hawkbit
    /\ call' = NoCall
    /\ UNCHANGED <<tables, session, inbox, words, story, missed, outages, deploys>>

-----------------------------------------------------------------------------
(* The registry's part: devices come, and go with their rows. *)
Register(d) ==
    /\ InsertDevice(d, DefaultGroup)
    /\ UNCHANGED <<session, inbox, call, hawkbit, words, story, missed, outages, deploys>>

Unregister(d) ==
    /\ d \in Registered
    /\ DeleteDevice(d)
    /\ missed' = missed \cup {d} \X {"online", "firmware", "reported"}
    /\ UNCHANGED <<session, inbox, call, hawkbit, words, story, outages, deploys>>

Handle == \/ HandleStatus \/ HandleReported \/ Feedback
          \/ HandleTelemetry \/ HandleLogs \/ Drop \/ Written

Device(d) == \/ PublishStatus(d) \/ Will(d) \/ ReportState(d) \/ Talk(d)
             \/ ReportUpdate(d) \/ RepeatReport(d)
             \/ Deploy(d) \/ Register(d) \/ Unregister(d)

Next == (\E d \in DeviceId : Device(d)) \/ Connect \/ Outage \/ Restart \/ Handle

Spec == Init /\ [][Next]_vars

(* paho keeps reconnecting, its thread keeps reading, and a call to        *)
(* another service ends by its answer or its timeout.                      *)
FairSpec == Spec /\ WF_vars(Connect) /\ WF_vars(Handle)

-----------------------------------------------------------------------------
(* What is in the queue, or kept at the broker for the next subscription. *)
Waiting == AllOf(inbox) \cup IF session THEN {} ELSE kept \X {"reported"}

(* A column shows the last word its device has said on it, once nothing    *)
(* about it waits and unless that word got lost: a status without firmware *)
(* keeps the version, a will takes the device offline, an update installed *)
(* sets the version, a report leaves the status alone.                     *)
TablesShowLastWord ==
    \A d \in Registered :
      LET Shown(aspect) == <<d, aspect>> \notin missed \cup Waiting
      IN  /\ Shown("online") => device_state[d].online = said[d].online
          /\ Shown("firmware") => device_state[d].firmware_version = said[d].firmware
          /\ Shown("reported") => load_shadow(d).reported = said[d].reported

(* hawkBit's verdict on a deployment is what the device said of it; but    *)
(* the feedback names no deployment, so it may be what the device said of  *)
(* an earlier one and sent again: so that something of it was under way    *)
(* when this deployment began, or after that.  The bridge itself delays or *)
(* doubles no report into another deployment.                              *)
VerdictIsTheDevices ==
    \A d \in DeviceId :
      /\ hawkbit[d] = "finished" => "installed" \in {outcome[d]} \cup stray[d]
      /\ hawkbit[d] = "error" => "failed" \in {outcome[d]} \cup stray[d]

(* An unclean disconnect marks the device offline. *)
WillMarksOffline ==
    \A d \in Registered :
      ~ said[d].online /\ <<d, "online">> \notin Waiting => ~ device_state[d].online

(* The same as a promise over time: it is shown offline in the end, unless *)
(* it comes back, is deleted, said so while the bridge was away, or the    *)
(* write failed.                                                           *)
WillShownInTheEnd ==
    \A d \in DeviceId :
      d \in Registered /\ ~ said[d].online
        ~> \/ d \notin Registered \/ said[d].online \/ ~ device_state[d].online
           \/ <<d, "online">> \in missed

(* A report is in the table in the end, unless a newer one comes, the      *)
(* device goes, or it is missed: the write fails and drops it for good     *)
(* (sqlite3.Error), or the bridge is away.  A retained report is not       *)
(* missed by the bridge's being away.                                      *)
ReportShownInTheEnd ==
    \A d \in DeviceId : \A doc \in Reports :
      d \in Registered /\ said[d].reported = doc
        ~> \/ d \notin Registered \/ said[d].reported # doc
           \/ load_shadow(d).reported = doc
           \/ <<d, "reported">> \in missed
=============================================================================
