---------------------------- MODULE BridgeProofs ----------------------------
(***************************************************************************)
(* Proofs about the bridge, for any number of devices, versions and        *)
(* reports, any traffic and any bounds: its types; that a column shows the *)
(* last word of its device; and that hawkBit's verdict on a deployment is  *)
(* what the device said of it, or what it said of an earlier one and was   *)
(* sent again.                                                             *)
(*                                                                         *)
(* The inductive invariant of the second says of the queue what the        *)
(* property says of the tables: the last message in it about a column      *)
(* carries the last word, so that whatever is handled before it does no    *)
(* harm.  That of the third says that what hawkBit is still to hear of a   *)
(* device is what the device said of the last deployment or a stray report *)
(* on an earlier one, and, of a device that has sent nothing again, that   *)
(* it is one message or one call, on a deployment that still runs.         *)
(***************************************************************************)
EXTENDS Bridge, StoreProofs, FiniteSetTheorems

USE DEF words, story

(***************************************************************************)
(* Part 1.  Messages.                                                      *)
(***************************************************************************)

(* The columns a message may tell of. *)
Column == {"online", "firmware", "reported"}

(* What route_message reads off the channel. *)
LEMMA MessageType ==
    ASSUME NEW m \in Message
    PROVE  /\ m.dev \in DeviceId
           /\ m.ch = "status" <=> m \in Status
           /\ m.ch = "state/reported" <=> m \in Reported
BY BridgeAssumption DEF Message, Status, Reported, Other

(* The version a status brings, if any. *)
LEMMA FirmwareType ==
    ASSUME NEW m \in Status
    PROVE  /\ Installed(m) \in Version \cup {Null}
           /\ Firmware(m) \in Version \cup {Null}
BY DEF Status, Installed, Firmware, Coalesce

(* A message tells of its own device only. *)
LEMMA TellsType ==
    ASSUME NEW m \in Message
    PROVE  /\ Tells(m) \subseteq {m.dev} \X Column
           /\ Tells(m) \subseteq DeviceId \X {"online", "firmware", "reported"}
BY MessageType DEF Tells, Column

(* What is waited for is what some message in the queue tells of. *)
LEMMA WaitingIs ==
    ASSUME NEW ms
    PROVE  \A p : p \in AllOf(ms) <=> \E i \in 1..Len(ms) : p \in Tells(ms[i])
BY DEF AllOf

(***************************************************************************)
(* Part 2.  Types.                                                         *)
(***************************************************************************)
Typed == TypeOK /\ Integrity

(* The tables keep their types and their integrity when they do not change. *)
LEMMA TablesSame ==
    ASSUME StoreTypeOK, Integrity, UNCHANGED tables
    PROVE  StoreTypeOK' /\ Integrity'
BY DEF StoreTypeOK, Integrity, Registered, tables

(* What a device has said last, after it has said one thing more. *)
LEMMA SayWord ==
    ASSUME TypeOK, NEW m \in Message, Say(m)
    PROVE  /\ said' \in [DeviceId -> Word]
           /\ \A d \in DeviceId \ {m.dev} : said'[d] = said[d]
           /\ m.ch = "status" =>
                /\ said'[m.dev].online = m.online
                /\ said'[m.dev].firmware = Coalesce(Firmware(m), said[m.dev].firmware)
                /\ said'[m.dev].reported = said[m.dev].reported
           /\ m.ch = "state/reported" =>
                /\ said'[m.dev].online = said[m.dev].online
                /\ said'[m.dev].firmware = said[m.dev].firmware
                /\ said'[m.dev].reported = m.doc
           /\ m.ch \notin {"status", "state/reported"} => said'[m.dev] = said[m.dev]
<1> DEFINE old == said[m.dev]
           status == [old EXCEPT !.online = m.online,
                                 !.firmware = Coalesce(Firmware(m), old.firmware)]
           report == [old EXCEPT !.reported = m.doc]
<1>1. m.dev \in DeviceId /\ old \in Word /\ said \in [DeviceId -> Word]
  BY MessageType DEF TypeOK
<1>2. said' = [said EXCEPT ![m.dev] = After(old, m)]
  BY DEF Say
<1>3. CASE m.ch = "status"
  <2>1. m.online \in BOOLEAN /\ Coalesce(Firmware(m), old.firmware) \in Version \cup {Null}
    BY <1>1, <1>3, MessageType, FirmwareType DEF Status, Word, Coalesce
  <2>2. /\ status \in Word /\ status.online = m.online
        /\ status.firmware = Coalesce(Firmware(m), old.firmware)
        /\ status.reported = old.reported
    BY <1>1, <2>1 DEF Word
  <2>3. After(old, m) = status
    BY <1>3 DEF After
  <2>. HIDE DEF status
  <2>. QED
    BY <1>1, <1>2, <1>3, <2>2, <2>3
<1>4. CASE m.ch = "state/reported"
  <2>1. m.doc \in Doc
    BY <1>4, MessageType DEF Reported
  <2>2. /\ report \in Word /\ report.online = old.online
        /\ report.firmware = old.firmware /\ report.reported = m.doc
    BY <1>1, <2>1 DEF Word
  <2>3. After(old, m) = report
    BY <1>4 DEF After
  <2>. HIDE DEF report
  <2>. QED
    BY <1>1, <1>2, <1>4, <2>2, <2>3
<1>5. CASE m.ch \notin {"status", "state/reported"}
  <2>1. After(old, m) = old
    BY <1>5 DEF After
  <2>. QED
    BY <1>1, <1>2, <1>5, <2>1
<1>. QED
  BY <1>3, <1>4, <1>5

(* The histories of the updates. *)
StoryTyped == /\ outcome \in [DeviceId -> Ota]
              /\ {earlier, stray} \subseteq [DeviceId -> SUBSET (Ota \ {"none"})]
              /\ again \subseteq DeviceId

(* What reaches the broker waits for the bridge, if that is subscribed. *)
LEMMA SayType ==
    ASSUME Typed, NEW m \in Message, Say(m),
           UNCHANGED <<tables, session, call, hawkbit, outages, deploys>>,
           StoryTyped'
    PROVE  Typed'
<1>. TypeOK /\ StoreTypeOK /\ Integrity
  BY DEF Typed, TypeOK
<1>1. said' \in [DeviceId -> Word]
  BY SayWord
<1>2. inbox' \in Seq(Message) /\ (~ session => inbox' = <<>>)
  <2>0. inbox \in Seq(Message) /\ (~ session => inbox = <<>>)
    BY DEF TypeOK
  <2>1. CASE session
    <3>1. inbox' = Append(inbox, m)
      BY <2>1 DEF Say
    <3>. QED
      BY <2>0, <2>1, <3>1
  <2>2. CASE ~ session
    BY <2>0, <2>2 DEF Say
  <2>. QED
    BY <2>1, <2>2
<1>3. missed' \subseteq DeviceId \X {"online", "firmware", "reported"}
  <2>1. missed' = missed \/ missed' = missed \cup (Tells(m) \ Kept)
    BY DEF Say
  <2>. QED
    BY <2>1, TellsType DEF TypeOK
<1>4. StoreTypeOK' /\ Integrity'
  BY TablesSame
<1>5. kept' \subseteq Retains
  BY DEF Say, TypeOK
<1>. QED
  BY <1>1, <1>2, <1>3, <1>4, <1>5 DEF Typed, TypeOK, StoryTyped

(* The same as actions of a device. *)
Speak(d) == PublishStatus(d) \/ Will(d) \/ ReportUpdate(d) \/ RepeatReport(d)
              \/ ReportState(d) \/ Talk(d)

(* The first report on an update, and one that is sent again. *)
IsVerdict(m) == m.ch = "status" /\ m.ota # "none"
First(d, m) ==
    /\ IsVerdict(m) /\ m.ota \in {"installed", "failed"}
    /\ hawkbit[d] # "none" /\ outcome[d] = "none"
    /\ outcome' = [outcome EXCEPT ![d] = m.ota] /\ UNCHANGED <<earlier, again, stray>>
Repeated(d, m) ==
    /\ IsVerdict(m) /\ m.ota \in {"installed", "failed"}
    /\ stray' = [stray EXCEPT ![d] = @ \cup ({m.ota} \ {outcome[d]})]
    /\ again' = again \cup {d} /\ UNCHANGED <<outcome, earlier>>

(* Whatever a device or its will says is a message. *)
LEMMA SpeakSays ==
    ASSUME TypeOK, NEW d \in DeviceId, Speak(d)
    PROVE  \E m \in Message :
             /\ Say(m) /\ m.dev = d
             /\ UNCHANGED <<tables, session, call, hawkbit, outages, deploys>>
             /\ (~ IsVerdict(m) /\ UNCHANGED story) \/ First(d, m) \/ Repeated(d, m)
<1>1. CASE PublishStatus(d)
  <2>. PICK on \in BOOLEAN, fw \in Version \cup {Null} : Say(StatusOf(d, on, fw, "none", Null))
    BY <1>1 DEF PublishStatus
  <2> DEFINE m == StatusOf(d, on, fw, "none", Null)
  <2>1. m.dev = d /\ m.ota = "none"
    BY DEF StatusOf
  <2>2. m \in Message
    <3>1. on \in BOOLEAN
      OBVIOUS
    <3>2. m = [ch |-> "status", dev |-> d, online |-> on, firmware |-> fw, ota |-> "none",
               version |-> Null]
      BY DEF StatusOf
    <3>. HIDE DEF m
    <3>. QED
      BY <3>1, <3>2, Zenon DEF Message, Status, Ota
  <2>3. Say(m) /\ UNCHANGED <<tables, session, call, hawkbit, story, outages, deploys>>
    BY <1>1 DEF PublishStatus
  <2>. HIDE DEF m
  <2>. QED
    BY <2>1, <2>2, <2>3 DEF IsVerdict
<1>2. CASE Will(d)
  <2> DEFINE m == StatusOf(d, FALSE, Null, "none", Null)
  <2>1. m \in Message /\ m.dev = d /\ m.ota = "none"
    BY DEF StatusOf, Message, Status, Ota
  <2>2. Say(m) /\ UNCHANGED <<tables, session, call, hawkbit, story, outages, deploys>>
    BY <1>2 DEF Will
  <2>. HIDE DEF m
  <2>. QED
    BY <2>1, <2>2 DEF IsVerdict
<1>3. CASE ReportUpdate(d)
  <2>. PICK ota \in {"installed", "failed"}, v \in Version :
          /\ Say(StatusOf(d, TRUE, Null, ota, v))
          /\ outcome' = [outcome EXCEPT ![d] = ota]
    BY <1>3 DEF ReportUpdate
  <2> DEFINE m == StatusOf(d, TRUE, Null, ota, v)
  <2>1. m \in Message /\ m.ch = "status" /\ m.dev = d /\ m.ota = ota
    BY DEF StatusOf, Message, Status, Ota
  <2>2. Say(m)
    OBVIOUS
  <2>3. /\ hawkbit[d] # "none" /\ outcome[d] = "none" /\ UNCHANGED <<earlier, again, stray>>
        /\ UNCHANGED <<tables, session, call, hawkbit, outages, deploys>>
    BY <1>3 DEF ReportUpdate
  <2>. HIDE DEF m
  <2>. QED
    BY <2>1, <2>2, <2>3 DEF First, IsVerdict
<1>4. CASE RepeatReport(d)
  <2>. PICK ota \in ({outcome[d]} \cup earlier[d]) \ {"none"}, v \in Version :
          /\ Say(StatusOf(d, TRUE, Null, ota, v))
          /\ stray' = [stray EXCEPT ![d] = @ \cup ({ota} \ {outcome[d]})]
    BY <1>4 DEF RepeatReport
  <2> DEFINE m == StatusOf(d, TRUE, Null, ota, v)
  <2>1. ota \in {"installed", "failed"}
    BY DEF TypeOK, Ota
  <2>2. m \in Message /\ m.ch = "status" /\ m.dev = d /\ m.ota = ota
    BY <2>1 DEF StatusOf, Message, Status, Ota
  <2>3. Say(m)
    OBVIOUS
  <2>4. /\ again' = again \cup {d} /\ UNCHANGED <<outcome, earlier>>
        /\ UNCHANGED <<tables, session, call, hawkbit, outages, deploys>>
    BY <1>4 DEF RepeatReport
  <2>. HIDE DEF m
  <2>. QED
    BY <2>1, <2>2, <2>3, <2>4 DEF Repeated, IsVerdict
<1>5. CASE ReportState(d)
  <2>. PICK doc \in Reports : Say([ch |-> "state/reported", dev |-> d, doc |-> doc])
    BY <1>5 DEF ReportState
  <2> DEFINE m == [ch |-> "state/reported", dev |-> d, doc |-> doc]
  <2>1. m \in Message /\ m.dev = d /\ m.ch # "status"
    BY BridgeAssumption DEF Message, Reported
  <2>2. Say(m) /\ UNCHANGED <<tables, session, call, hawkbit, story, outages, deploys>>
    BY <1>5 DEF ReportState
  <2>. HIDE DEF m
  <2>. QED
    BY <2>1, <2>2 DEF IsVerdict
<1>6. CASE Talk(d)
  <2>. PICK ch \in Chatter : Say([ch |-> ch, dev |-> d])
    BY <1>6 DEF Talk
  <2> DEFINE m == [ch |-> ch, dev |-> d]
  <2>1. m \in Message /\ m.dev = d /\ m.ch # "status"
    BY BridgeAssumption DEF Message, Other
  <2>2. Say(m) /\ UNCHANGED <<tables, session, call, hawkbit, story, outages, deploys>>
    BY <1>6 DEF Talk
  <2>. HIDE DEF m
  <2>. QED
    BY <2>1, <2>2 DEF IsVerdict
<1>. QED
  BY <1>1, <1>2, <1>3, <1>4, <1>5, <1>6 DEF Speak

(* What the broker sends on a subscription: the report that it retains of  *)
(* each device, and nothing else.                                          *)
LEMMA ConnectSends ==
    ASSUME TypeOK, Connect
    PROVE  /\ inbox' \in Seq(Message) /\ inbox = <<>>
           /\ \A i \in 1..Len(inbox') :
                /\ inbox'[i] \in Reported /\ inbox'[i].dev \in kept
                /\ inbox'[i].doc = said[inbox'[i].dev].reported
           /\ \A d \in kept : \E i \in 1..Len(inbox') : inbox'[i].dev = d
<1> DEFINE n == Cardinality(kept)
<1>. PICK order \in SetToSeqs(kept) :
        inbox' = [i \in 1..Len(order) |-> [ch |-> "state/reported", dev |-> order[i],
                                           doc |-> said[order[i]].reported]]
  BY DEF Connect
<1>0. kept \subseteq DeviceId
  BY BridgeAssumption DEF TypeOK
<1>1. n \in Nat
  BY <1>0, BridgeAssumption, FS_Subset, FS_CardinalityType
<1>2. order \in [1..n -> kept] /\ IsFiniteSet(kept)
  BY <1>0, BridgeAssumption, FS_Subset DEF SetToSeqs
<1>3. \A i, j \in 1..n : i # j => order[i] # order[j]
  BY DEF SetToSeqs, IsInjective
<1>4. order \in Seq(DeviceId) /\ Len(order) = n
  BY <1>0, <1>1, <1>2
<1>5. \A d \in kept : \E i \in 1..n : order[i] = d
  <2>1. order \in Injection(1..n, kept)
    BY <1>2, <1>3 DEF Injection, IsInjective
  <2>2. Cardinality(1..n) = n /\ IsFiniteSet(1..n)
    BY <1>1, FS_Interval
  <2>3. order \in Surjection(1..n, kept)
    BY <1>1, <1>2, <2>1, <2>2, FS_Injection
  <2>. QED
    BY <2>3 DEF Surjection
<1>. HIDE DEF n
<1>6. \A i \in 1..n : /\ inbox'[i].doc = said[inbox'[i].dev].reported
                      /\ inbox'[i] \in Reported /\ inbox'[i].dev = order[i]
  BY <1>0, <1>2, <1>4 DEF TypeOK, Word, Reported
<1>7. inbox' \in [1..n -> Message]
  BY <1>4, <1>6 DEF Message
<1>8. inbox' \in Seq(Message) /\ Len(inbox') = n
  BY <1>1, <1>7
<1>9. inbox = <<>>
  BY DEF Connect, TypeOK
<1>10. \A i \in 1..Len(inbox') :
         /\ inbox'[i] \in Reported /\ inbox'[i].dev \in kept
         /\ inbox'[i].doc = said[inbox'[i].dev].reported
  BY <1>2, <1>6, <1>8
<1>11. \A d \in kept : \E i \in 1..Len(inbox') : inbox'[i].dev = d
  BY <1>5, <1>6, <1>8
<1>. QED
  BY <1>8, <1>9, <1>10, <1>11

(* The handlers take the first message off. *)
LEMMA HeadType ==
    ASSUME TypeOK, inbox # <<>>
    PROVE  /\ Head(inbox) \in Message /\ Tail(inbox) \in Seq(Message)
           /\ Len(Tail(inbox)) = Len(inbox) - 1 /\ Head(inbox) = inbox[1]
           /\ \A i \in 1..Len(Tail(inbox)) : /\ i + 1 \in 1..Len(inbox)
                                            /\ Tail(inbox)[i] = inbox[i + 1]
BY DEF TypeOK

(* The handlers of the bridge keep the types. *)
LEMMA HandleTyped ==
    ASSUME Typed, Handle
    PROVE  Typed'
<1>. TypeOK /\ StoreTypeOK /\ Integrity
  BY DEF Typed, TypeOK
<1>1. CASE HandleStatus
  <2>. PICK m \in Status : m = Head(inbox)
    BY <1>1, HeadType, MessageType DEF HandleStatus, Due
  <2>1. /\ m.dev \in DeviceId /\ m.online \in BOOLEAN /\ m.firmware \in Version \cup {Null}
        /\ m.ota \in Ota /\ Installed(m) \in Version \cup {Null} /\ m \in Message
    BY FirmwareType DEF Status, Message
  <2>2. StoreTypeOK' /\ Integrity'
    BY <1>1, <2>1, SaveStatusOK, TablesSame DEF HandleStatus
  <2>3. inbox' \in Seq(Message) /\ (~ session => inbox' = <<>>)
    BY <1>1, HeadType DEF HandleStatus, Due, TypeOK
  <2>4. call' \in Request \cup {NoCall}
    BY <1>1, <2>1 DEF HandleStatus, Request
  <2>5. missed' \subseteq DeviceId \X {"online", "firmware", "reported"}
    <3>1. missed' = missed \ Tells(m) \/ missed' = missed \cup Tells(m)
      BY <1>1 DEF HandleStatus
    <3>. QED
      BY <2>1, <3>1, TellsType DEF TypeOK
  <2>6. UNCHANGED <<session, hawkbit, words, story, outages, deploys>>
    BY <1>1 DEF HandleStatus
  <2>. QED
    BY <2>2, <2>3, <2>4, <2>5, <2>6 DEF Typed, TypeOK
<1>2. CASE HandleReported
  <2>. PICK m \in Reported : m = Head(inbox)
    BY <1>2, HeadType, MessageType DEF HandleReported, Due
  <2>1. m.dev \in DeviceId /\ m.doc \in Doc /\ m \in Message
    BY DEF Reported, Message
  <2>2. StoreTypeOK' /\ Integrity'
    BY <1>2, <2>1, SaveReportedOK, TablesSame DEF HandleReported
  <2>3. inbox' \in Seq(Message) /\ (~ session => inbox' = <<>>)
    BY <1>2, HeadType DEF HandleReported, Due, TypeOK
  <2>4. missed' \subseteq DeviceId \X {"online", "firmware", "reported"}
    <3>1. missed' = missed \ Tells(m) \/ missed' = missed \cup Tells(m)
      BY <1>2 DEF HandleReported
    <3>. QED
      BY <2>1, <3>1, TellsType DEF TypeOK
  <2>5. UNCHANGED <<session, call, hawkbit, words, story, outages, deploys>>
    BY <1>2 DEF HandleReported
  <2>. QED
    BY <2>2, <2>3, <2>4, <2>5 DEF Typed, TypeOK
<1>3. CASE HandleTelemetry \/ HandleLogs \/ Drop
  <2>1. inbox # <<>> /\ inbox' = Tail(inbox) /\ UNCHANGED tables
    BY <1>3 DEF HandleTelemetry, HandleLogs, Drop, Due
  <2>2. StoreTypeOK' /\ Integrity'
    BY <2>1, TablesSame
  <2>3. inbox' \in Seq(Message) /\ (~ session => inbox' = <<>>)
    BY <2>1, HeadType DEF TypeOK
  <2>4. Head(inbox).dev \in DeviceId
    BY <2>1, HeadType, MessageType
  <2>5. call' \in Request \cup {NoCall}
    BY <1>3, <2>4 DEF HandleTelemetry, HandleLogs, Drop, Request, TypeOK
  <2>6. UNCHANGED <<session, hawkbit, words, story, missed, outages, deploys>>
    BY <1>3 DEF HandleTelemetry, HandleLogs, Drop
  <2>. QED
    BY <2>2, <2>3, <2>5, <2>6 DEF Typed, TypeOK
<1>4. CASE Feedback \/ Written
  <2>1. StoreTypeOK' /\ Integrity'
    BY <1>4, TablesSame DEF Feedback, Written
  <2>2. /\ hawkbit' \in [DeviceId -> {"none", "running", "finished", "error"}]
        /\ call' \in Request \cup {NoCall}
    BY <1>4 DEF Feedback, Written, TypeOK
  <2>3. UNCHANGED <<session, inbox, words, story, missed, outages, deploys>>
    BY <1>4 DEF Feedback, Written
  <2>. QED
    BY <2>1, <2>2, <2>3 DEF Typed, TypeOK
<1>. QED
  BY <1>1, <1>2, <1>3, <1>4 DEF Handle

(* So do its connection and the process's restart. *)
LEMMA ConnectionTyped ==
    ASSUME Typed, Connect \/ Outage \/ Restart
    PROVE  Typed'
<1>. TypeOK /\ StoreTypeOK /\ Integrity
  BY DEF Typed, TypeOK
<1>1. StoreTypeOK' /\ Integrity'
  BY TablesSame DEF Connect, Outage, Restart
<1>2. session' \in BOOLEAN
  BY Zenon DEF Connect, Outage, Restart, Disconnect
<1>3. call' \in Request \cup {NoCall} /\ UNCHANGED <<hawkbit, words, story, deploys>>
  BY DEF Connect, Outage, Restart, TypeOK
<1>4. CASE Connect
  <2>1. session'
    BY <1>4, Zenon DEF Connect
  <2>2. UNCHANGED <<missed, outages>>
    BY <1>4 DEF Connect
  <2>. QED
    BY <1>1, <1>2, <1>3, <1>4, <2>1, <2>2, ConnectSends DEF Typed, TypeOK
<1>5. CASE Disconnect
  <2>1. inbox' \in Seq(Message) /\ inbox' = <<>>
    BY <1>5 DEF Disconnect
  <2>2. missed' \subseteq DeviceId \X {"online", "firmware", "reported"}
    <3>1. \A i \in 1..Len(inbox) : inbox[i] \in Message
      BY DEF TypeOK
    <3>2. AllOf(inbox) \subseteq DeviceId \X {"online", "firmware", "reported"}
      BY <3>1, WaitingIs, TellsType
    <3>. QED
      BY <1>5, <3>2 DEF Disconnect, TypeOK
  <2>3. outages' \in 0..MaxOutages
    BY <1>5, BridgeAssumption DEF Disconnect, TypeOK
  <2>. QED
    BY <1>1, <1>2, <1>3, <2>1, <2>2, <2>3 DEF Typed, TypeOK
<1>. QED
  BY <1>4, <1>5 DEF Outage, Restart

(* And hawkBit's deployments and the registry. *)
LEMMA OthersTyped ==
    ASSUME Typed, NEW d \in DeviceId, Deploy(d) \/ Register(d) \/ Unregister(d)
    PROVE  Typed'
<1>. TypeOK /\ StoreTypeOK /\ Integrity
  BY DEF Typed, TypeOK
<1>1. CASE Deploy(d)
  <2>1. StoreTypeOK' /\ Integrity'
    BY <1>1, TablesSame DEF Deploy
  <2>2. /\ hawkbit' \in [DeviceId -> {"none", "running", "finished", "error"}]
        /\ outcome' \in [DeviceId -> Ota] /\ deploys' \in 0..MaxDeploys
    BY <1>1, BridgeAssumption DEF Deploy, TypeOK, Ota
  <2>3. UNCHANGED <<session, inbox, call, words, missed, outages>>
    BY <1>1 DEF Deploy
  <2>4. again' \subseteq DeviceId
    BY <1>1 DEF Deploy, TypeOK
  <2>5. earlier' \in [DeviceId -> SUBSET (Ota \ {"none"})]
    BY <1>1 DEF Deploy, TypeOK, Ota
  <2>6. stray' \in [DeviceId -> SUBSET (Ota \ {"none"})]
    <3>1. UnderWay(d) \in SUBSET (Ota \ {"none"})
      BY DEF UnderWay, Ota
    <3>. QED
      BY <1>1, <3>1 DEF Deploy, TypeOK
  <2>. QED
    BY <2>1, <2>2, <2>3, <2>4, <2>5, <2>6 DEF Typed, TypeOK
<1>2. CASE Register(d)
  <2>1. StoreTypeOK' /\ Integrity'
    BY <1>2, InsertDeviceOK, StoreAssumption DEF Register
  <2>. QED
    BY <1>2, <2>1 DEF Register, Typed, TypeOK
<1>3. CASE Unregister(d)
  <2>1. StoreTypeOK' /\ Integrity'
    BY <1>3, DeleteDeviceOK DEF Unregister
  <2>2. missed' \subseteq DeviceId \X {"online", "firmware", "reported"}
    BY <1>3 DEF Unregister, TypeOK
  <2>3. UNCHANGED <<session, inbox, call, hawkbit, words, story, outages, deploys>>
    BY <1>3 DEF Unregister
  <2>. QED
    BY <2>1, <2>2, <2>3 DEF Typed, TypeOK
<1>. QED
  BY <1>1, <1>2, <1>3

(* Typed is inductive. *)
LEMMA TypedInductive == (Init => Typed) /\ (Typed /\ [Next]_vars => Typed')
<1>1. ASSUME Init PROVE Typed
  <2>1. StoreTypeOK /\ Integrity
    BY <1>1, StoreInitOK DEF Init
  <2>2. session \in BOOLEAN
    BY <1>1, Zenon DEF Init
  <2>3. Silence \in Word
    BY EmptyDocType DEF Silence, Word
  <2>. QED
    BY <1>1, <2>1, <2>2, <2>3, BridgeAssumption DEF Init, Typed, TypeOK, Ota
<1>2. ASSUME Typed, UNCHANGED vars PROVE Typed'
  BY <1>2, TablesSame DEF vars, Typed, TypeOK
<1>3. ASSUME Typed, NEW d \in DeviceId, Speak(d) PROVE Typed'
  <2>. TypeOK
    BY <1>3 DEF Typed
  <2>. PICK m \in Message :
         /\ Say(m)
         /\ UNCHANGED <<tables, session, call, hawkbit, outages, deploys>>
         /\ UNCHANGED story \/ First(d, m) \/ Repeated(d, m)
    BY <1>3, SpeakSays
  <2>1. StoryTyped'
    BY DEF StoryTyped, TypeOK, Ota, First, Repeated
  <2>. QED
    BY <1>3, <2>1, SayType
<1>4. ASSUME Typed, Next PROVE Typed'
  BY <1>3, <1>4, HandleTyped, ConnectionTyped, OthersTyped DEF Next, Device, Speak
<1>. QED
  BY <1>1, <1>2, <1>4

(* The tables, the queue, the call under way and the words of the devices  *)
(* are always typed, and nothing waits for a bridge that is not subscribed.*)
THEOREM TypeCorrect == Spec => []TypeOK
<1>1. Typed => TypeOK
  BY DEF Typed
<1>. QED
  BY <1>1, TypedInductive, PTL DEF Spec

(***************************************************************************)
(* Part 3.  A column shows the last word of its device.                    *)
(***************************************************************************)

(* What a message tells of a column, what its device has said of it last,  *)
(* and what the tables have in it.                                         *)
Told(m, c) == CASE c = "online" -> m.online
                [] c = "firmware" -> Firmware(m)
                [] OTHER -> m.doc
Said(d, c) == CASE c = "online" -> said[d].online
                [] c = "firmware" -> said[d].firmware
                [] OTHER -> said[d].reported
Row(d, c) == CASE c = "online" -> StateOf(d).online
               [] c = "firmware" -> StateOf(d).firmware_version
               [] OTHER -> load_shadow(d).reported

(* The last message in the queue about a column has the last word on it,   *)
(* whether or not an earlier one got lost.                                 *)
QueueEndsWithLastWord ==
    \A i \in 1..Len(inbox), c \in Column :
      LET p == <<inbox[i].dev, c>>
      IN  p \in Tells(inbox[i]) /\ (\A j \in i + 1 .. Len(inbox) : p \notin Tells(inbox[j]))
            => Told(inbox[i], c) = Said(inbox[i].dev, c)

(* TablesShowLastWord for all devices: what has no row, and what has not   *)
(* been said, are both the defaults.                                       *)
RowsShowLastWord ==
    \A d \in DeviceId, c \in Column :
      <<d, c>> \notin missed \cup Waiting => Row(d, c) = Said(d, c)

(* The broker still has what a device that retains its reports has waiting. *)
KeptIsWaiting ==
    \A i \in 1..Len(inbox) :
      inbox[i].ch = "state/reported" /\ inbox[i].dev \in Retains => inbox[i].dev \in kept

Words == QueueEndsWithLastWord /\ KeptIsWaiting /\ RowsShowLastWord
WordInv == Typed /\ Words

(* A device that says something changes its last word on what it tells of. *)
LEMMA SaidAfter ==
    ASSUME TypeOK, NEW m \in Message, Say(m), NEW d \in DeviceId, NEW c \in Column
    PROVE  Said(d, c)' = IF <<d, c>> \in Tells(m) THEN Told(m, c) ELSE Said(d, c)
<1>1. CASE d # m.dev
  <2>1. said'[d] = said[d]
    BY <1>1, SayWord
  <2>2. <<d, c>> \notin Tells(m)
    BY <1>1, TellsType
  <2>. QED
    BY <2>1, <2>2 DEF Said
<1>2. CASE d = m.dev /\ m.ch = "status"
  <2>1. /\ said'[d].online = m.online /\ said'[d].reported = said[d].reported
        /\ said'[d].firmware = IF Firmware(m) = Null THEN said[d].firmware ELSE Firmware(m)
    BY <1>2, SayWord DEF Coalesce
  <2>2. /\ <<d, "online">> \in Tells(m) /\ <<d, "reported">> \notin Tells(m)
        /\ <<d, "firmware">> \in Tells(m) <=> Firmware(m) # Null
    BY <1>2 DEF Tells
  <2>. QED
    BY <2>1, <2>2 DEF Said, Told, Column
<1>3. CASE d = m.dev /\ m.ch = "state/reported"
  <2>1. /\ said'[d].online = said[d].online /\ said'[d].reported = m.doc
        /\ said'[d].firmware = said[d].firmware
    BY <1>3, SayWord
  <2>2. Tells(m) = {<<d, "reported">>}
    BY <1>3 DEF Tells
  <2>. QED
    BY <2>1, <2>2 DEF Said, Told, Column
<1>4. CASE d = m.dev /\ m.ch \notin {"status", "state/reported"}
  <2>1. said'[d] = said[d]
    BY <1>4, SayWord
  <2>2. Tells(m) = {}
    BY <1>4 DEF Tells
  <2>. QED
    BY <2>1, <2>2 DEF Said
<1>. QED
  BY <1>1, <1>2, <1>3, <1>4

(* The upsert of a status writes what the status tells, and nothing else: *)
(* the two COALESCE are the one that its device would make.                *)
LEMMA RowAfterStatus ==
    ASSUME Typed, NEW m \in Status, SaveStatus(m.dev, m.online, m.firmware, Installed(m)),
           NEW d \in DeviceId, NEW c \in Column
    PROVE  Row(d, c)' = IF <<d, c>> \in Tells(m) THEN Told(m, c) ELSE Row(d, c)
<1> DEFINE fw == Coalesce(Installed(m), Coalesce(m.firmware, StateOf(m.dev).firmware_version))
           row == [online |-> m.online, last_seen |-> TRUE, firmware_version |-> fw]
<1>1. m.ch = "status" /\ m.dev \in DeviceId
  BY DEF Status
<1>2. device_state' = Upsert(device_state, m.dev, row) /\ device_shadow' = device_shadow
  BY DEF SaveStatus
<1>3. row.online = m.online /\ row.firmware_version = fw
  OBVIOUS
<1>4. fw = IF Firmware(m) = Null THEN StateOf(m.dev).firmware_version ELSE Firmware(m)
  BY DEF Firmware, Coalesce
<1>. HIDE DEF row, fw
<1>5. StateOf(m.dev)' = row /\ \A x : x # m.dev => StateOf(x)' = StateOf(x)
  BY <1>2 DEF StateOf, Upsert
<1>6. load_shadow(d)' = load_shadow(d)
  BY <1>2 DEF load_shadow
<1>7. CASE d # m.dev
  <2>1. <<d, c>> \notin Tells(m)
    BY <1>1, <1>7 DEF Tells
  <2>. QED
    BY <1>5, <1>6, <1>7, <2>1 DEF Row
<1>8. CASE d = m.dev
  <2>1. /\ <<d, "online">> \in Tells(m) /\ <<d, "reported">> \notin Tells(m)
        /\ <<d, "firmware">> \in Tells(m) <=> Firmware(m) # Null
    BY <1>1, <1>8 DEF Tells
  <2>. QED
    BY <1>3, <1>4, <1>5, <1>6, <1>8, <2>1 DEF Row, Told, Column
<1>. QED
  BY <1>7, <1>8

(* The write of a report changes the reported column of its device. *)
LEMMA RowAfterReported ==
    ASSUME Typed, NEW m \in Reported, SaveReported(m.dev, m.doc),
           NEW d \in DeviceId, NEW c \in Column
    PROVE  Row(d, c)' = IF <<d, c>> \in Tells(m) THEN Told(m, c) ELSE Row(d, c)
<1>. StoreTypeOK
  BY DEF Typed, TypeOK
<1> DEFINE row == [load_shadow(m.dev) EXCEPT !.reported = m.doc]
<1>1. Tells(m) = {<<m.dev, "reported">>}
  BY DEF Tells, Reported
<1>2. device_shadow' = Upsert(device_shadow, m.dev, row)
  BY DEF SaveReported
<1>3. row.reported = m.doc
  BY LoadShadowType DEF ShadowRow
<1>. HIDE DEF row
<1>4. load_shadow(m.dev)' = row /\ \A x : x # m.dev => load_shadow(x)' = load_shadow(x)
  BY <1>2, ShadowAfterUpsert
<1>5. /\ StateOf(d)'.online = StateOf(d).online
      /\ StateOf(d)'.firmware_version = StateOf(d).firmware_version
  BY DEF SaveReported, StateOf, StoreTypeOK, StateRow
<1>. QED
  BY <1>1, <1>3, <1>4, <1>5 DEF Row, Told, Column

(* Something is said: either it waits as the last message, or it is missed *)
(* or kept for the next subscription.                                      *)
LEMMA SayKeepsWord ==
    ASSUME WordInv, NEW m \in Message, Say(m), UNCHANGED <<tables, session>>
    PROVE  Words'
<1>. TypeOK /\ inbox \in Seq(Message)
  BY DEF WordInv, Typed, TypeOK
<1>0. \A d, c : Row(d, c)' = Row(d, c)
  BY DEF Row, StateOf, load_shadow, tables
<1>1. CASE session
  <2>. PICK n \in Nat : n = Len(inbox)
    OBVIOUS
  <2>1. inbox' = Append(inbox, m) /\ missed' = missed
    BY <1>1 DEF Say
  <2>2. Len(inbox') = n + 1 /\ inbox'[n + 1] = m /\ \A i \in 1..n : inbox'[i] = inbox[i]
    BY <2>1
  <2>3. ASSUME NEW i \in 1..n + 1, NEW c \in Column, NEW d \in DeviceId, d = inbox'[i].dev,
               <<d, c>> \in Tells(inbox'[i]),
               \A j \in i + 1 .. n + 1 : <<d, c>> \notin Tells(inbox'[j])
        PROVE  Told(inbox'[i], c) = Said(d, c)'
    <3>1. CASE i = n + 1
      BY <2>2, <2>3, <3>1, SaidAfter
    <3>2. CASE i \in 1..n
      <4>1. inbox'[i] = inbox[i]
        BY <2>2, <3>2
      <4>2. <<d, c>> \notin Tells(m)
        BY <2>2, <2>3, <3>2
      <4>3. \A j \in i + 1 .. n : <<d, c>> \notin Tells(inbox[j])
        BY <2>2, <2>3, <3>2
      <4>4. Told(inbox[i], c) = Said(d, c)
        BY <2>3, <3>2, <4>1, <4>3 DEF WordInv, Words, QueueEndsWithLastWord
      <4>. QED
        BY <4>1, <4>2, <4>4, SaidAfter
    <3>. QED
      BY <3>1, <3>2
  <2>4. QueueEndsWithLastWord'
    <3>1. \A i \in 1..n + 1 : inbox'[i].dev \in DeviceId
      BY <2>2, MessageType
    <3>. QED
      BY <2>2, <2>3, <3>1 DEF QueueEndsWithLastWord, Said
  <2>5. \A p : p \in Waiting' <=> p \in Waiting \/ p \in Tells(m)
    <3>1. Waiting = AllOf(inbox) /\ Waiting' = AllOf(inbox')
      BY <1>1 DEF Waiting
    <3>. QED
      BY <2>2, <3>1, WaitingIs
  <2>6. RowsShowLastWord'
    BY <1>0, <2>1, <2>5, SaidAfter DEF WordInv, Words, RowsShowLastWord
  <2>7. KeptIsWaiting'
    <3>1. kept \subseteq kept' /\ (m.ch = "state/reported" /\ m.dev \in Retains => m.dev \in kept')
      BY DEF Say
    <3>. QED
      BY <2>2, <3>1 DEF WordInv, Words, KeptIsWaiting
  <2>. QED
    BY <2>4, <2>6, <2>7 DEF Words
<1>2. CASE ~ session
  <2>1. inbox = <<>> /\ inbox' = inbox /\ missed' = missed \cup (Tells(m) \ Kept)
    BY <1>2 DEF Say, TypeOK
  <2>2. QueueEndsWithLastWord' /\ KeptIsWaiting'
    BY <2>1 DEF QueueEndsWithLastWord, KeptIsWaiting
  <2>3. /\ Waiting = kept \X {"reported"} /\ Waiting' = kept' \X {"reported"}
        /\ kept \subseteq kept'
    <3>1. AllOf(inbox) = {} /\ AllOf(inbox') = {}
      BY <2>1, WaitingIs
    <3>. QED
      BY <1>2, <3>1 DEF Waiting, Say
  <2>4. Tells(m) \cap Kept \subseteq Waiting'
    <3>1. CASE m.ch = "state/reported"
      <4>1. Tells(m) = {<<m.dev, "reported">>}
        BY <3>1 DEF Tells
      <4>. QED
        BY <2>3, <3>1, <4>1 DEF Say, Kept
    <3>2. CASE m.ch # "state/reported"
      <4>1. Tells(m) \cap Kept = {}
        BY <3>2 DEF Tells, Kept
      <4>. QED
        BY <4>1
    <3>. QED
      BY <3>1, <3>2
  <2>5. RowsShowLastWord'
    <3>. SUFFICES ASSUME NEW d \in DeviceId, NEW c \in Column, <<d, c>> \notin missed' \cup Waiting'
                  PROVE  Row(d, c)' = Said(d, c)'
      BY DEF RowsShowLastWord
    <3>1. <<d, c>> \notin Tells(m) /\ <<d, c>> \notin missed \cup Waiting
      BY <2>1, <2>3, <2>4
    <3>. QED
      BY <1>0, <3>1, SaidAfter DEF WordInv, Words, RowsShowLastWord
  <2>. QED
    BY <2>2, <2>5 DEF Words
<1>. QED
  BY <1>1, <1>2

(* The first message is handled: it is written, or it is missed.  If it    *)
(* was the last about a column, it had the last word.                      *)
LEMMA HandledKeepsWord ==
    ASSUME WordInv, inbox # <<>>, inbox' = Tail(inbox), UNCHANGED <<session, words>>,
           NEW m \in Message, m = Head(inbox),
           \/ /\ \A d \in DeviceId, c \in Column :
                   Row(d, c)' = IF <<d, c>> \in Tells(m) THEN Told(m, c) ELSE Row(d, c)
              /\ missed' = missed \ Tells(m)
           \/ /\ \A d \in DeviceId, c \in Column : Row(d, c)' = Row(d, c)
              /\ missed' = missed \cup Tells(m)
    PROVE  Words'
<1>. TypeOK /\ inbox \in Seq(Message)
  BY DEF WordInv, Typed, TypeOK
<1>. PICK n \in Nat : n = Len(inbox) /\ n > 0
  OBVIOUS
<1>1. Len(inbox') = n - 1 /\ inbox[1] = m /\ \A i \in 1..n - 1 : inbox'[i] = inbox[i + 1]
  BY HeadType
<1>2. \A d, c : Said(d, c)' = Said(d, c)
  BY DEF Said
<1>3. QueueEndsWithLastWord'
  <2>. SUFFICES ASSUME NEW i \in 1..n - 1, NEW c \in Column,
                       <<inbox[i + 1].dev, c>> \in Tells(inbox[i + 1]),
                       \A j \in i + 1 .. n - 1 : <<inbox[i + 1].dev, c>> \notin Tells(inbox[j + 1])
                PROVE  Told(inbox[i + 1], c) = Said(inbox[i + 1].dev, c)
    BY <1>1 DEF QueueEndsWithLastWord, Said
  <2>1. \A j \in (i + 1) + 1 .. n : j - 1 \in i + 1 .. n - 1 /\ j = (j - 1) + 1
    OBVIOUS
  <2>2. \A j \in (i + 1) + 1 .. n : <<inbox[i + 1].dev, c>> \notin Tells(inbox[j])
    BY <2>1
  <2>3. i + 1 \in 1..Len(inbox)
    OBVIOUS
  <2>. QED
    BY <2>2, <2>3 DEF WordInv, Words, QueueEndsWithLastWord
<1>4. \A p : p \in Waiting <=> p \in Waiting' \/ p \in Tells(m)
  <2>. TAKE p
  <2>0. Waiting = AllOf(inbox) /\ Waiting' = AllOf(inbox')
    <3>1. session /\ session' = session
      BY DEF TypeOK
    <3>. QED
      BY <3>1 DEF Waiting
  <2>1. p \in Waiting <=> \E i \in 1..n : p \in Tells(inbox[i])
    BY <2>0, WaitingIs
  <2>2. p \in Waiting' <=> \E i \in 1..n - 1 : p \in Tells(inbox[i + 1])
    BY <1>1, <2>0, WaitingIs
  <2>3. \A i \in 1..n : i = 1 \/ (i - 1 \in 1..n - 1 /\ i = (i - 1) + 1)
    OBVIOUS
  <2>4. \A i \in 1..n - 1 : i + 1 \in 1..n
    OBVIOUS
  <2>. QED
    BY <1>1, <2>1, <2>2, <2>3, <2>4
<1>5. RowsShowLastWord'
  <2>. SUFFICES ASSUME NEW d \in DeviceId, NEW c \in Column, <<d, c>> \notin missed' \cup Waiting'
                PROVE  Row(d, c)' = Said(d, c)
    BY <1>2 DEF RowsShowLastWord
  <2>1. CASE <<d, c>> \notin Tells(m)
    BY <1>4, <2>1 DEF WordInv, Words, RowsShowLastWord
  <2>2. CASE <<d, c>> \in Tells(m)
    <3>1. Row(d, c)' = Told(m, c) /\ d = m.dev
      BY <2>2, TellsType
    <3>2. \A j \in 2..n : j - 1 \in 1..n - 1 /\ inbox[j] = inbox'[j - 1]
      BY <1>1
    <3>3. \A j \in 2..n : <<d, c>> \notin Tells(inbox[j])
      <4>1. \A i \in 1..n - 1 : <<d, c>> \notin Tells(inbox'[i])
        BY <1>1, WaitingIs DEF Waiting
      <4>. QED
        BY <3>2, <4>1
    <3>4. 1 \in 1..Len(inbox) /\ 1 + 1 = 2
      OBVIOUS
    <3>5. Told(m, c) = Said(d, c)
      BY <1>1, <2>2, <3>1, <3>3, <3>4 DEF WordInv, Words, QueueEndsWithLastWord
    <3>. QED
      BY <3>1, <3>5
  <2>. QED
    BY <2>1, <2>2
<1>6. KeptIsWaiting'
  BY <1>1 DEF WordInv, Words, KeptIsWaiting
<1>. QED
  BY <1>3, <1>5, <1>6 DEF Words

(* The handlers. *)
LEMMA HandleKeepsWord ==
    ASSUME WordInv, Handle
    PROVE  Words'
<1>. Typed /\ TypeOK
  BY DEF WordInv, Typed
<1>1. CASE HandleStatus
  <2>. PICK m \in Status : m = Head(inbox) /\ m \in Message
    BY <1>1, HeadType, MessageType DEF HandleStatus, Due
  <2>1. inbox # <<>> /\ inbox' = Tail(inbox) /\ UNCHANGED <<session, words>>
    BY <1>1 DEF HandleStatus, Due
  <2>2. CASE /\ SaveStatus(m.dev, m.online, m.firmware, Installed(m))
             /\ missed' = missed \ Tells(m)
    BY <2>1, <2>2, RowAfterStatus, HandledKeepsWord
  <2>3. CASE UNCHANGED tables /\ missed' = missed \cup Tells(m)
    <3>1. \A d \in DeviceId, c \in Column : Row(d, c)' = Row(d, c)
      BY <2>3 DEF Row, StateOf, load_shadow, tables
    <3>. QED
      BY <2>1, <2>3, <3>1, HandledKeepsWord
  <2>. QED
    BY <1>1, <2>2, <2>3 DEF HandleStatus
<1>2. CASE HandleReported
  <2>. PICK m \in Reported : m = Head(inbox) /\ m \in Message
    BY <1>2, HeadType, MessageType DEF HandleReported, Due
  <2>1. inbox # <<>> /\ inbox' = Tail(inbox) /\ UNCHANGED <<session, words>>
    BY <1>2 DEF HandleReported, Due
  <2>2. CASE SaveReported(m.dev, m.doc) /\ missed' = missed \ Tells(m)
    BY <2>1, <2>2, RowAfterReported, HandledKeepsWord
  <2>3. CASE UNCHANGED tables /\ missed' = missed \cup Tells(m)
    <3>1. \A d \in DeviceId, c \in Column : Row(d, c)' = Row(d, c)
      BY <2>3 DEF Row, StateOf, load_shadow, tables
    <3>. QED
      BY <2>1, <2>3, <3>1, HandledKeepsWord
  <2>. QED
    BY <1>2, <2>2, <2>3 DEF HandleReported
<1>3. CASE HandleTelemetry \/ HandleLogs \/ Drop
  <2>1. inbox # <<>> /\ inbox' = Tail(inbox) /\ UNCHANGED <<tables, session, words, missed>>
    BY <1>3 DEF HandleTelemetry, HandleLogs, Drop, Due
  <2>. PICK m \in Message : m = Head(inbox)
    BY <2>1, HeadType
  <2>2. Tells(m) = {}
    BY <1>3 DEF HandleTelemetry, HandleLogs, Drop, Due, Tells
  <2>3. \A d \in DeviceId, c \in Column : Row(d, c)' = Row(d, c)
    BY <2>1 DEF Row, StateOf, load_shadow, tables
  <2>. QED
    BY <2>1, <2>2, <2>3, HandledKeepsWord
<1>4. CASE Feedback \/ Written
  <2>1. UNCHANGED <<tables, session, inbox, words, missed>>
    BY <1>4 DEF Feedback, Written
  <2>. QED
    BY <2>1 DEF WordInv, Words, KeptIsWaiting, QueueEndsWithLastWord, RowsShowLastWord, Waiting, Row, Said, StateOf,
       load_shadow, tables
<1>. QED
  BY <1>1, <1>2, <1>3, <1>4 DEF Handle

(* A subscription brings the reports that the broker retains; a lost       *)
(* connection loses what waited, but for these.                            *)
LEMMA ConnectionKeepsWord ==
    ASSUME WordInv, Connect \/ Outage \/ Restart
    PROVE  Words'
<1>. TypeOK
  BY DEF WordInv, Typed
<1>1. UNCHANGED <<tables, words>>
  BY DEF Connect, Outage, Restart
<1>2. \A d, c : Row(d, c)' = Row(d, c) /\ Said(d, c)' = Said(d, c)
  BY <1>1 DEF Row, Said, StateOf, load_shadow, tables
<1>3. CASE Connect
  <2>1. \A i \in 1..Len(inbox') :
          /\ Tells(inbox'[i]) = {<<inbox'[i].dev, "reported">>}
          /\ Told(inbox'[i], "reported") = said[inbox'[i].dev].reported
          /\ inbox'[i].dev \in kept
    BY <1>3, ConnectSends DEF Tells, Told, Reported
  <2>2. QueueEndsWithLastWord' /\ KeptIsWaiting'
    BY <1>1, <2>1 DEF QueueEndsWithLastWord, KeptIsWaiting, Said
  <2>3. ~ session /\ session' /\ missed' = missed
    BY <1>3, Zenon DEF Connect
  <2>4. \A p : p \in Waiting => p \in Waiting'
    <3>1. AllOf(inbox) = {}
      BY <1>3, ConnectSends, WaitingIs
    <3>2. Waiting = kept \X {"reported"} /\ Waiting' = AllOf(inbox')
      BY <2>3, <3>1 DEF Waiting
    <3>3. \A d \in kept : <<d, "reported">> \in AllOf(inbox')
      <4>. TAKE d \in kept
      <4>. PICK i \in 1..Len(inbox') : inbox'[i].dev = d
        BY <1>3, ConnectSends
      <4>1. <<d, "reported">> \in Tells(inbox'[i])
        BY <2>1
      <4>. QED
        BY <4>1, WaitingIs
    <3>. QED
      BY <3>2, <3>3
  <2>5. RowsShowLastWord'
    BY <1>2, <2>3, <2>4 DEF WordInv, Words, RowsShowLastWord
  <2>. QED
    BY <2>2, <2>5 DEF Words
<1>4. CASE Disconnect
  <2>1. inbox' = <<>> /\ ~ session' /\ missed' = missed \cup (AllOf(inbox) \ Kept)
    BY <1>4, Zenon DEF Disconnect
  <2>2. QueueEndsWithLastWord' /\ KeptIsWaiting'
    BY <2>1 DEF QueueEndsWithLastWord, KeptIsWaiting
  <2>3. Waiting' = kept \X {"reported"}
    <3>1. AllOf(inbox') = {}
      BY <2>1, WaitingIs
    <3>. QED
      BY <1>1, <2>1, <3>1 DEF Waiting
  <2>4. \A p \in AllOf(inbox) : p \in Kept => p \in Waiting'
    <3>. TAKE p \in AllOf(inbox)
    <3>. HAVE p \in Kept
    <3>. PICK i \in 1..Len(inbox) : p \in Tells(inbox[i])
      BY WaitingIs
    <3>1. inbox[i].ch = "state/reported" /\ p = <<inbox[i].dev, "reported">>
      BY DEF Tells, Kept
    <3>2. inbox[i].dev \in Retains
      BY <3>1 DEF Kept
    <3>. QED
      BY <2>3, <3>1, <3>2 DEF WordInv, Words, KeptIsWaiting
  <2>5. \A p : p \in missed \cup Waiting => p \in missed' \cup Waiting'
    BY <2>1, <2>3, <2>4 DEF Waiting
  <2>6. RowsShowLastWord'
    BY <1>2, <2>5 DEF WordInv, Words, RowsShowLastWord
  <2>. QED
    BY <2>2, <2>6 DEF Words
<1>. QED
  BY <1>3, <1>4 DEF Outage, Restart

(* A deployment tells nothing; a device that comes has said nothing that   *)
(* was not missed, and one that goes takes its columns along.              *)
LEMMA OthersKeepWord ==
    ASSUME WordInv, NEW d0 \in DeviceId, Deploy(d0) \/ Register(d0) \/ Unregister(d0)
    PROVE  Words'
<1>1. UNCHANGED <<session, inbox, words>>
  BY DEF Deploy, Register, Unregister
<1>2. QueueEndsWithLastWord' /\ KeptIsWaiting'
  BY <1>1 DEF WordInv, Words, QueueEndsWithLastWord, KeptIsWaiting, Said
<1>3. Waiting' = Waiting /\ \A d, c : Said(d, c)' = Said(d, c)
  BY <1>1 DEF Waiting, Said
<1>4. CASE Deploy(d0) \/ Register(d0)
  <2>1. missed' = missed
    BY <1>4 DEF Deploy, Register
  <2>2. UNCHANGED device_shadow /\ \A d : StateOf(d)' = StateOf(d)
    <3>1. CASE Deploy(d0)
      BY <3>1 DEF Deploy, tables, StateOf
    <3>2. CASE Register(d0)
      <4>1. d0 \notin DOMAIN device_state
        BY <3>2 DEF Register, InsertDevice, WordInv, Typed, Integrity
      <4>2. device_state' = Upsert(device_state, d0, FreshState) /\ UNCHANGED device_shadow
        BY <3>2 DEF Register, InsertDevice
      <4>. QED
        BY <4>1, <4>2 DEF StateOf, Upsert
    <3>. QED
      BY <1>4, <3>1, <3>2
  <2>3. \A d, c : Row(d, c)' = Row(d, c)
    BY <2>2 DEF Row, load_shadow
  <2>. QED
    BY <1>2, <1>3, <2>1, <2>3 DEF WordInv, Words, RowsShowLastWord
<1>5. CASE Unregister(d0)
  <2>1. missed' = missed \cup {d0} \X {"online", "firmware", "reported"} /\ DeleteDevice(d0)
    BY <1>5 DEF Unregister
  <2>2. \A d, c : d # d0 => Row(d, c)' = Row(d, c)
    BY <2>1 DEF DeleteDevice, Without, Restrict, Row, StateOf, load_shadow
  <2>3. \A c \in Column : <<d0, c>> \in missed'
    BY <2>1 DEF Column
  <2>. QED
    BY <1>2, <1>3, <2>1, <2>2, <2>3 DEF WordInv, Words, RowsShowLastWord
<1>. QED
  BY <1>4, <1>5

(* WordInv is inductive. *)
LEMMA WordInductive == (Init => WordInv) /\ (WordInv /\ [Next]_vars => WordInv')
<1>1. ASSUME Init PROVE WordInv
  <2>1. Typed
    BY <1>1, TypedInductive
  <2>2. inbox = <<>> /\ \A d \in DeviceId : said[d] = Silence
    BY <1>1 DEF Init
  <2>3. \A d : StateOf(d) = FreshState /\ load_shadow(d) = FreshShadow
    BY <1>1 DEF Init, StoreInit, EmptyTable, StateOf, load_shadow
  <2>4. QueueEndsWithLastWord /\ KeptIsWaiting
    BY <2>2 DEF QueueEndsWithLastWord, KeptIsWaiting
  <2>5. /\ FreshState.online = Silence.online /\ FreshState.firmware_version = Silence.firmware
        /\ FreshShadow.reported = Silence.reported
    BY DEF FreshState, FreshShadow, Silence
  <2>6. RowsShowLastWord
    BY <2>2, <2>3, <2>5 DEF RowsShowLastWord, Row, Said
  <2>. QED
    BY <2>1, <2>4, <2>6 DEF WordInv, Words
<1>2. ASSUME WordInv, [Next]_vars PROVE WordInv'
  <2>1. Typed' /\ TypeOK
    BY <1>2, TypedInductive DEF WordInv, Typed
  <2>2. ASSUME UNCHANGED vars PROVE Words'
    BY <1>2, <2>2 DEF vars, WordInv, Words, KeptIsWaiting, QueueEndsWithLastWord, RowsShowLastWord, Waiting, Row, Said,
       StateOf, load_shadow, tables
  <2>3. ASSUME NEW d \in DeviceId, Speak(d)
        PROVE  Words'
    <3>. PICK m \in Message : Say(m) /\ UNCHANGED <<tables, session>>
      BY <2>1, <2>3, SpeakSays
    <3>. QED
      BY <1>2, SayKeepsWord
  <2>4. Words'
    BY <1>2, <2>2, <2>3, HandleKeepsWord, ConnectionKeepsWord, OthersKeepWord
       DEF Next, Device, Speak
  <2>. QED
    BY <2>1, <2>4 DEF WordInv
<1>. QED
  BY <1>1, <1>2

(* Whatever is said, lost, handled late or not written: a column about     *)
(* which nothing waits and nothing got lost shows what its device has said *)
(* last, for any number of devices and any length of the queue.            *)
THEOREM LastWordIsShown == Spec => []TablesShowLastWord
<1>1. WordInv => TablesShowLastWord
  <2>. SUFFICES ASSUME WordInv, NEW d \in Registered
                PROVE  LET Shown(aspect) == <<d, aspect>> \notin missed \cup Waiting
                       IN  /\ Shown("online") => device_state[d].online = said[d].online
                           /\ Shown("firmware") =>
                                device_state[d].firmware_version = said[d].firmware
                           /\ Shown("reported") => load_shadow(d).reported = said[d].reported
    BY DEF TablesShowLastWord
  <2>1. d \in DeviceId /\ StateOf(d) = device_state[d]
    BY DEF WordInv, Typed, TypeOK, StoreTypeOK, Integrity, StateOf, Registered
  <2>2. \A c \in Column : <<d, c>> \notin missed \cup Waiting => Row(d, c) = Said(d, c)
    BY <2>1 DEF WordInv, Words, RowsShowLastWord
  <2>3. "online" \in Column /\ "firmware" \in Column /\ "reported" \in Column
    BY DEF Column
  <2>. QED
    BY <2>1, <2>2, <2>3 DEF Row, Said
<1>. QED
  BY <1>1, WordInductive, PTL DEF Spec

(***************************************************************************)
(* Part 4.  hawkBit's verdict is the device's.                             *)
(***************************************************************************)
Calling == call # NoCall /\ call.to = "hawkbit"

(* What hawkBit may hear of a device while its last deployment is on. *)
Heard(d) == {outcome[d]} \cup stray[d]

(* What hawkBit is still to hear is among it. *)
VerdictsAreHeard ==
    /\ \A i \in 1..Len(inbox) : IsVerdict(inbox[i]) => inbox[i].ota \in Heard(inbox[i].dev)
    /\ Calling => call.ota \in Heard(call.dev)

(* Only a device that has sent something again has strays. *)
NoStrays == \A d \in DeviceId \ again : stray[d] = {}

(* Of a device that has sent nothing again hawkBit is to hear once, and    *)
(* the deployment it is about still runs.                                  *)
OneVerdict ==
    /\ \A i \in 1..Len(inbox) :
         IsVerdict(inbox[i]) /\ inbox[i].dev \notin again => hawkbit[inbox[i].dev] = "running"
    /\ \A i, j \in 1..Len(inbox) :
         IsVerdict(inbox[i]) /\ IsVerdict(inbox[j]) /\ inbox[i].dev = inbox[j].dev
           /\ inbox[i].dev \notin again => i = j
    /\ Calling /\ call.dev \notin again =>
         /\ hawkbit[call.dev] = "running"
         /\ \A i \in 1..Len(inbox) : IsVerdict(inbox[i]) => inbox[i].dev # call.dev

Verdicts == VerdictIsTheDevices /\ VerdictsAreHeard /\ NoStrays /\ OneVerdict
VerdictInv == Typed /\ Verdicts

(* The fields of a call to hawkBit, and of a report on an update. *)
LEMMA VerdictType ==
    ASSUME TypeOK
    PROVE  /\ Calling => call.dev \in DeviceId /\ call.ota \in {"installed", "failed"}
           /\ \A i \in 1..Len(inbox) : IsVerdict(inbox[i]) =>
                inbox[i].dev \in DeviceId /\ inbox[i].ota \in {"installed", "failed"}
<1>1. Calling => call.dev \in DeviceId /\ call.ota \in {"installed", "failed"}
  BY DEF TypeOK, Calling, Request, Ota
<1>2. ASSUME NEW i \in 1..Len(inbox), IsVerdict(inbox[i])
      PROVE  inbox[i].dev \in DeviceId /\ inbox[i].ota \in {"installed", "failed"}
  <2>1. inbox[i] \in Message
    BY DEF TypeOK
  <2>2. inbox[i] \in Status
    BY <1>2, <2>1, MessageType DEF IsVerdict
  <2>. QED
    BY <1>2, <2>2 DEF Status, IsVerdict, Ota
<1>. QED
  BY <1>1, <1>2

(* A step that leaves hawkBit, what was said of updates, and the reports   *)
(* on them as they are; some of these may go.                              *)
LEMMA NoVerdictAdded ==
    ASSUME VerdictInv, UNCHANGED <<hawkbit, story>>,
           Calling' => call' = call,
           NEW k \in Nat,
           \A i \in 1..Len(inbox') :
              IsVerdict(inbox'[i]) => i + k \in 1..Len(inbox) /\ inbox'[i] = inbox[i + k]
    PROVE  Verdicts'
<1>. TypeOK /\ inbox \in Seq(Message)
  BY DEF VerdictInv, Typed, TypeOK
<1>1. Calling' => Calling /\ call' = call
  BY DEF Calling
<1>2. VerdictIsTheDevices' /\ NoStrays'
  BY DEF VerdictInv, Verdicts, VerdictIsTheDevices, NoStrays
<1>3. VerdictsAreHeard'
  BY <1>1 DEF VerdictInv, Verdicts, VerdictsAreHeard, Heard
<1>4. OneVerdict'
  <2>1. \A i \in 1..Len(inbox') :
          IsVerdict(inbox'[i]) /\ inbox'[i].dev \notin again => hawkbit[inbox'[i].dev] = "running"
    BY DEF VerdictInv, Verdicts, OneVerdict
  <2>2. ASSUME NEW i \in 1..Len(inbox'), NEW j \in 1..Len(inbox'),
               IsVerdict(inbox'[i]), IsVerdict(inbox'[j]), inbox'[i].dev = inbox'[j].dev,
               inbox'[i].dev \notin again
        PROVE  i = j
    <3>1. i + k = j + k
      BY <2>2 DEF VerdictInv, Verdicts, OneVerdict
    <3>. QED
      BY <3>1
  <2>3. Calling' /\ call.dev \notin again =>
          /\ hawkbit[call.dev] = "running" /\ call' = call
          /\ \A i \in 1..Len(inbox') : IsVerdict(inbox'[i]) => inbox'[i].dev # call.dev
    BY <1>1 DEF VerdictInv, Verdicts, OneVerdict
  <2>. QED
    BY <1>1, <2>1, <2>2, <2>3 DEF OneVerdict
<1>. QED
  BY <1>2, <1>3, <1>4 DEF Verdicts

(* What a device says goes to the end of the queue, if anywhere. *)
LEMMA SayAppends ==
    ASSUME TypeOK, NEW m \in Message, Say(m)
    PROVE  \/ inbox' = inbox
           \/ /\ Len(inbox') = Len(inbox) + 1 /\ inbox'[Len(inbox) + 1] = m
              /\ \A i \in 1..Len(inbox) : inbox'[i] = inbox[i]
<1>1. inbox' = inbox \/ inbox' = Append(inbox, m)
  BY DEF Say
<1>2. inbox \in Seq(Message)
  BY DEF TypeOK
<1>. QED
  BY <1>1, <1>2

(* The first report on an update: no other is on its way, unless strays,   *)
(* and without strays hawkBit still has the deployment running.            *)
LEMMA FirstKeepsVerdicts ==
    ASSUME VerdictInv, NEW d \in DeviceId, NEW m \in Message, Say(m), m.dev = d, First(d, m),
           UNCHANGED <<call, hawkbit>>
    PROVE  Verdicts'
<1> DEFINE Then(x) == {outcome'[x]} \cup stray'[x]
<1>. TypeOK /\ inbox \in Seq(Message)
  BY DEF VerdictInv, Typed, TypeOK
<1>. PICK n \in Nat : n = Len(inbox)
  OBVIOUS
<1>1. \/ inbox' = inbox
      \/ Len(inbox') = n + 1 /\ inbox'[n + 1] = m /\ \A i \in 1..n : inbox'[i] = inbox[i]
  BY SayAppends
<1>2. /\ IsVerdict(m) /\ m.ota \in {"installed", "failed"} /\ hawkbit[d] # "none"
      /\ outcome[d] = "none" /\ UNCHANGED <<earlier, again, stray>>
      /\ outcome'[d] = m.ota /\ \A x \in DeviceId \ {d} : outcome'[x] = outcome[x]
  BY DEF First, TypeOK
<1>3. Calling' <=> Calling
  BY DEF Calling
<1>4. \A x \in DeviceId : \A ota \in {"installed", "failed"} : ota \in Heard(x) => ota \in Then(x)
  BY <1>2 DEF Heard
<1>5. VerdictIsTheDevices' /\ NoStrays'
  <2>1. VerdictIsTheDevices'
    BY <1>4 DEF VerdictInv, Verdicts, VerdictIsTheDevices, Heard
  <2>2. NoStrays'
    BY <1>2 DEF VerdictInv, Verdicts, NoStrays
  <2>. QED
    BY <2>1, <2>2
<1>6. VerdictsAreHeard'
  <2>1. \A i \in 1..n : IsVerdict(inbox[i]) => inbox[i].ota \in Then(inbox[i].dev)
    BY <1>4, VerdictType DEF VerdictInv, Verdicts, VerdictsAreHeard
  <2>2. m.ota \in Then(m.dev)
    BY <1>2 DEF Heard
  <2>3. Calling => call.ota \in Then(call.dev)
    BY <1>4, VerdictType DEF VerdictInv, Verdicts, VerdictsAreHeard
  <2>4. \A i \in 1..Len(inbox') : IsVerdict(inbox'[i]) => inbox'[i].ota \in Then(inbox'[i].dev)
    BY <1>1, <2>1, <2>2
  <2>. QED
    BY <1>3, <2>3, <2>4 DEF VerdictsAreHeard, Heard
<1>7. OneVerdict'
  <2>1. d \notin again =>
          /\ hawkbit[d] = "running"
          /\ \A i \in 1..n : IsVerdict(inbox[i]) => inbox[i].dev # d
          /\ Calling => call.dev # d
    <3>. SUFFICES ASSUME d \notin again
                  PROVE  /\ hawkbit[d] = "running"
                         /\ \A i \in 1..n : IsVerdict(inbox[i]) => inbox[i].dev # d
                         /\ Calling => call.dev # d
      OBVIOUS
    <3>1. Heard(d) = {"none"}
      BY <1>2 DEF VerdictInv, Verdicts, NoStrays, Heard
    <3>2. hawkbit[d] = "running"
      <4>1. hawkbit[d] \in {"none", "running", "finished", "error"}
        BY DEF TypeOK
      <4>2. hawkbit[d] # "finished" /\ hawkbit[d] # "error"
        BY <3>1 DEF VerdictInv, Verdicts, VerdictIsTheDevices, Heard
      <4>. QED
        BY <1>2, <4>1, <4>2
    <3>3. \A i \in 1..n : IsVerdict(inbox[i]) => inbox[i].dev # d
      BY <3>1, VerdictType DEF VerdictInv, Verdicts, VerdictsAreHeard
    <3>4. Calling => call.dev # d
      BY <3>1, VerdictType DEF VerdictInv, Verdicts, VerdictsAreHeard
    <3>. QED
      BY <3>2, <3>3, <3>4
  <2>2. \A i \in 1..Len(inbox') :
          IsVerdict(inbox'[i]) /\ inbox'[i].dev \notin again => hawkbit[inbox'[i].dev] = "running"
    BY <1>1, <2>1 DEF VerdictInv, Verdicts, OneVerdict
  <2>3. \A i, j \in 1..Len(inbox') :
          IsVerdict(inbox'[i]) /\ IsVerdict(inbox'[j]) /\ inbox'[i].dev = inbox'[j].dev
            /\ inbox'[i].dev \notin again => i = j
    BY <1>1, <2>1 DEF VerdictInv, Verdicts, OneVerdict
  <2>4. Calling /\ call.dev \notin again =>
          /\ hawkbit[call.dev] = "running"
          /\ \A i \in 1..Len(inbox') : IsVerdict(inbox'[i]) => inbox'[i].dev # call.dev
    BY <1>1, <2>1 DEF VerdictInv, Verdicts, OneVerdict
  <2>. QED
    BY <1>2, <1>3, <2>2, <2>3, <2>4 DEF OneVerdict
<1>. QED
  BY <1>5, <1>6, <1>7 DEF Verdicts

(* A report that is sent again is a stray, if it is not what the device    *)
(* said of the last deployment.                                            *)
LEMMA RepeatedKeepsVerdicts ==
    ASSUME VerdictInv, NEW d \in DeviceId, NEW m \in Message, Say(m), m.dev = d, Repeated(d, m),
           UNCHANGED <<call, hawkbit>>
    PROVE  Verdicts'
<1> DEFINE Then(x) == {outcome'[x]} \cup stray'[x]
<1>. TypeOK /\ inbox \in Seq(Message)
  BY DEF VerdictInv, Typed, TypeOK
<1>. PICK n \in Nat : n = Len(inbox)
  OBVIOUS
<1>1. \/ inbox' = inbox
      \/ Len(inbox') = n + 1 /\ inbox'[n + 1] = m /\ \A i \in 1..n : inbox'[i] = inbox[i]
  BY SayAppends
<1>2. /\ UNCHANGED outcome /\ again' = again \cup {d}
      /\ stray'[d] = stray[d] \cup ({m.ota} \ {outcome[d]})
      /\ \A x \in DeviceId \ {d} : stray'[x] = stray[x]
  BY DEF Repeated, TypeOK
<1>3. Calling' <=> Calling
  BY DEF Calling
<1>4. \A x \in DeviceId : Heard(x) \subseteq Then(x)
  BY <1>2 DEF Heard
<1>5. VerdictIsTheDevices' /\ NoStrays'
  <2>1. VerdictIsTheDevices'
    BY <1>4 DEF VerdictInv, Verdicts, VerdictIsTheDevices, Heard
  <2>2. NoStrays'
    BY <1>2 DEF VerdictInv, Verdicts, NoStrays
  <2>. QED
    BY <2>1, <2>2
<1>6. VerdictsAreHeard'
  <2>1. \A i \in 1..n : IsVerdict(inbox[i]) => inbox[i].ota \in Then(inbox[i].dev)
    BY <1>4, VerdictType DEF VerdictInv, Verdicts, VerdictsAreHeard
  <2>2. m.ota \in Then(m.dev)
    BY <1>2 DEF Heard
  <2>3. Calling => call.ota \in Then(call.dev)
    BY <1>4, VerdictType DEF VerdictInv, Verdicts, VerdictsAreHeard
  <2>4. \A i \in 1..Len(inbox') : IsVerdict(inbox'[i]) => inbox'[i].ota \in Then(inbox'[i].dev)
    BY <1>1, <2>1, <2>2
  <2>. QED
    BY <1>3, <2>3, <2>4 DEF VerdictsAreHeard, Heard
<1>7. OneVerdict'
  <2>1. d \in again' /\ \A x : x \notin again' => x \notin again /\ x # d
    BY <1>2
  <2>2. \A i \in 1..Len(inbox') :
          IsVerdict(inbox'[i]) /\ inbox'[i].dev \notin again' => hawkbit[inbox'[i].dev] = "running"
    BY <1>1, <2>1 DEF VerdictInv, Verdicts, OneVerdict
  <2>3. \A i, j \in 1..Len(inbox') :
          IsVerdict(inbox'[i]) /\ IsVerdict(inbox'[j]) /\ inbox'[i].dev = inbox'[j].dev
            /\ inbox'[i].dev \notin again' => i = j
    BY <1>1, <2>1 DEF VerdictInv, Verdicts, OneVerdict
  <2>4. Calling /\ call.dev \notin again' =>
          /\ hawkbit[call.dev] = "running"
          /\ \A i \in 1..Len(inbox') : IsVerdict(inbox'[i]) => inbox'[i].dev # call.dev
    BY <1>1, <2>1 DEF VerdictInv, Verdicts, OneVerdict
  <2>. QED
    BY <1>3, <2>2, <2>3, <2>4 DEF OneVerdict
<1>. QED
  BY <1>5, <1>6, <1>7 DEF Verdicts

(* A device says something. *)
LEMMA SpeakKeepsVerdicts ==
    ASSUME VerdictInv, NEW d \in DeviceId, Speak(d)
    PROVE  Verdicts'
<1>. TypeOK /\ inbox \in Seq(Message)
  BY DEF VerdictInv, Typed, TypeOK
<1>0. PICK m \in Message :
        /\ Say(m) /\ m.dev = d /\ UNCHANGED <<call, hawkbit>>
        /\ (~ IsVerdict(m) /\ UNCHANGED story) \/ First(d, m) \/ Repeated(d, m)
  BY SpeakSays
<1>1. CASE ~ IsVerdict(m) /\ UNCHANGED story
  <2>1. 0 \in Nat /\ \A i \in 1..Len(inbox') :
           IsVerdict(inbox'[i]) => i + 0 \in 1..Len(inbox) /\ inbox'[i] = inbox[i + 0]
    <3>. PICK n \in Nat : n = Len(inbox)
      OBVIOUS
    <3>1. \/ inbox' = inbox
          \/ Len(inbox') = n + 1 /\ inbox'[n + 1] = m /\ \A i \in 1..n : inbox'[i] = inbox[i]
      BY <1>0, SayAppends
    <3>. QED
      BY <1>1, <3>1
  <2>. QED
    BY <1>0, <1>1, <2>1, NoVerdictAdded
<1>. QED
  BY <1>0, <1>1, FirstKeepsVerdicts, RepeatedKeepsVerdicts

(* The bridge takes a report off the queue and calls hawkBit with it. *)
LEMMA HandleKeepsVerdicts ==
    ASSUME VerdictInv, Handle
    PROVE  Verdicts'
<1>. TypeOK /\ inbox \in Seq(Message)
  BY DEF VerdictInv, Typed, TypeOK
<1>1. ASSUME inbox # <<>>, inbox' = Tail(inbox), UNCHANGED <<hawkbit, story>>, ~ Calling'
      PROVE  Verdicts'
  <2>1. 1 \in Nat /\ \A i \in 1..Len(inbox') : /\ i + 1 \in 1..Len(inbox)
                                              /\ inbox'[i] = inbox[i + 1]
    BY <1>1, HeadType
  <2>. QED
    BY <1>1, <2>1, NoVerdictAdded
<1>2. CASE HandleStatus
  <2>. PICK m \in Message : m = Head(inbox) /\ m.ch = "status"
    BY <1>2, HeadType DEF HandleStatus, Due
  <2>. PICK n \in Nat : n = Len(inbox)
    OBVIOUS
  <2>1. /\ inbox # <<>> /\ inbox' = Tail(inbox) /\ UNCHANGED <<hawkbit, story>>
        /\ call' = IF m.ota = "none" THEN NoCall
                    ELSE [to |-> "hawkbit", dev |-> m.dev, ota |-> m.ota]
    BY <1>2 DEF HandleStatus, Due
  <2>2. CASE ~ Calling'
    BY <1>1, <2>1, <2>2
  <2>3. CASE Calling'
    <3>1. IsVerdict(m) /\ call'.dev = m.dev /\ call'.ota = m.ota
      BY <2>1, <2>3 DEF Calling, IsVerdict
    <3>2. /\ n > 0 /\ m = inbox[1] /\ Len(inbox') = n - 1
          /\ \A i \in 1..n - 1 : i + 1 \in 1..n /\ inbox'[i] = inbox[i + 1]
      BY <2>1, HeadType
    <3>3. 1 \in 1..n
      BY <3>2
    <3>4. VerdictIsTheDevices' /\ NoStrays'
      BY <2>1 DEF VerdictInv, Verdicts, VerdictIsTheDevices, NoStrays
    <3>5. VerdictsAreHeard'
      BY <2>1, <3>1, <3>2, <3>3 DEF VerdictInv, Verdicts, VerdictsAreHeard, Heard
    <3>6. OneVerdict'
      <4>1. \A i \in 1..n - 1 :
              IsVerdict(inbox'[i]) /\ inbox'[i].dev \notin again => hawkbit[inbox'[i].dev] = "running"
        BY <3>2 DEF VerdictInv, Verdicts, OneVerdict
      <4>2. ASSUME NEW i \in 1..n - 1, NEW j \in 1..n - 1,
                   IsVerdict(inbox'[i]), IsVerdict(inbox'[j]), inbox'[i].dev = inbox'[j].dev,
                   inbox'[i].dev \notin again
            PROVE  i = j
        <5>1. i + 1 = j + 1
          BY <3>2, <4>2 DEF VerdictInv, Verdicts, OneVerdict
        <5>. QED
          BY <5>1
      <4>3. m.dev \notin again => hawkbit[m.dev] = "running"
        BY <3>1, <3>2, <3>3 DEF VerdictInv, Verdicts, OneVerdict
      <4>4. m.dev \notin again => \A i \in 1..n - 1 : IsVerdict(inbox'[i]) => inbox'[i].dev # m.dev
        <5>1. \A i \in 1..n - 1 : i + 1 # 1
          OBVIOUS
        <5>. QED
          BY <3>1, <3>2, <3>3, <5>1 DEF VerdictInv, Verdicts, OneVerdict
      <4>. QED
        BY <2>1, <3>1, <3>2, <4>1, <4>2, <4>3, <4>4 DEF OneVerdict
    <3>. QED
      BY <3>4, <3>5, <3>6 DEF Verdicts
  <2>. QED
    BY <2>2, <2>3
<1>3. CASE HandleReported \/ HandleTelemetry \/ HandleLogs \/ Drop
  <2>1. /\ inbox # <<>> /\ inbox' = Tail(inbox) /\ UNCHANGED <<hawkbit, story>>
        /\ call' = NoCall \/ call'.to = "influx" \/ call'.to = "loki"
    BY <1>3 DEF HandleReported, HandleTelemetry, HandleLogs, Drop, Due
  <2>. QED
    BY <1>1, <2>1 DEF Calling
<1>4. CASE Written
  <2>1. 0 \in Nat /\ \A i \in 1..Len(inbox') : i + 0 \in 1..Len(inbox) /\ inbox'[i] = inbox[i + 0]
    BY <1>4 DEF Written
  <2>. QED
    BY <1>4, <2>1, NoVerdictAdded DEF Written, Calling
<1>5. CASE Feedback
  <2>1. /\ Calling /\ ~ Calling' /\ UNCHANGED <<inbox, story>>
        /\ \/ hawkbit' = [hawkbit EXCEPT ![call.dev] =
                             IF call.ota = "installed" THEN "finished" ELSE "error"]
           \/ hawkbit' = hawkbit
    BY <1>5 DEF Feedback, Calling
  <2>2. /\ call.dev \in DeviceId /\ call.ota \in {"installed", "failed"}
        /\ call.ota \in Heard(call.dev)
    BY <2>1, VerdictType DEF VerdictInv, Verdicts, VerdictsAreHeard
  <2>3. VerdictIsTheDevices'
    BY <2>1, <2>2 DEF VerdictInv, Verdicts, VerdictIsTheDevices, Heard, TypeOK
  <2>4. NoStrays'
    BY <2>1 DEF VerdictInv, Verdicts, NoStrays
  <2>5. VerdictsAreHeard'
    BY <2>1 DEF VerdictInv, Verdicts, VerdictsAreHeard, Heard
  <2>6. OneVerdict'
    <3>1. /\ \A i \in 1..Len(inbox) : IsVerdict(inbox[i]) /\ inbox[i].dev \notin again =>
                hawkbit[inbox[i].dev] = "running" /\ inbox[i].dev # call.dev
          /\ \A i \in 1..Len(inbox), j \in 1..Len(inbox) :
                IsVerdict(inbox[i]) /\ IsVerdict(inbox[j]) /\ inbox[i].dev = inbox[j].dev
                  /\ inbox[i].dev \notin again => i = j
      BY <2>1 DEF VerdictInv, Verdicts, OneVerdict
    <3>2. \A i \in 1..Len(inbox) : IsVerdict(inbox[i]) => inbox[i].dev \in DeviceId
      BY VerdictType
    <3>3. \A d \in DeviceId : d # call.dev => hawkbit'[d] = hawkbit[d]
      BY <2>1 DEF TypeOK
    <3>. QED
      BY <2>1, <3>1, <3>2, <3>3 DEF OneVerdict
  <2>. QED
    BY <2>3, <2>4, <2>5, <2>6 DEF Verdicts
<1>. QED
  BY <1>2, <1>3, <1>4, <1>5 DEF Handle

(* A new deployment: what is under way of an older one is a stray, and     *)
(* there is none of a device that has sent nothing again, for hawkBit has  *)
(* no deployment running.                                                  *)
LEMMA DeployKeepsVerdicts ==
    ASSUME VerdictInv, NEW d \in DeviceId, Deploy(d)
    PROVE  Verdicts'
<1> DEFINE Then(x) == {outcome'[x]} \cup stray'[x]
<1>. TypeOK /\ inbox \in Seq(Message)
  BY DEF VerdictInv, Typed, TypeOK
<1>1. /\ hawkbit[d] # "running" /\ hawkbit' = [hawkbit EXCEPT ![d] = "running"]
      /\ outcome' = [outcome EXCEPT ![d] = "none"] /\ UNCHANGED <<inbox, call>>
      /\ stray' = [stray EXCEPT ![d] = IF d \in again THEN UnderWay(d) ELSE {}]
      /\ again' = IF UnderWay(d) = {} THEN again \ {d} ELSE again
  BY DEF Deploy
<1>2. \A i \in 1..Len(inbox) : IsVerdict(inbox[i]) /\ inbox[i].dev = d =>
        inbox[i].ota \in UnderWay(d)
  BY VerdictType DEF UnderWay, IsVerdict
<1>3. Calling /\ call.dev = d => call.ota \in UnderWay(d)
  BY VerdictType DEF UnderWay, Calling
<1>4. d \notin again => UnderWay(d) = {}
  <2>. SUFFICES ASSUME d \notin again, NEW ota \in UnderWay(d) PROVE FALSE
    OBVIOUS
  <2>1. CASE \E i \in 1..Len(inbox) : /\ inbox[i].ch = "status" /\ inbox[i].dev = d
                                      /\ inbox[i].ota = ota
    BY <1>1, <2>1 DEF VerdictInv, Verdicts, OneVerdict, IsVerdict, UnderWay
  <2>2. CASE call # NoCall /\ call.to = "hawkbit" /\ call.dev = d
    BY <1>1, <2>2 DEF VerdictInv, Verdicts, OneVerdict, Calling
  <2>. QED
    BY <2>1, <2>2 DEF UnderWay
<1>5. /\ stray'[d] = UnderWay(d) /\ \A x \in DeviceId \ {d} : stray'[x] = stray[x]
      /\ \A x \in DeviceId \ {d} : hawkbit'[x] = hawkbit[x] /\ outcome'[x] = outcome[x]
      /\ hawkbit'[d] = "running" /\ outcome'[d] = "none"
  BY <1>1, <1>4 DEF TypeOK
<1>6. /\ \A x \in DeviceId \ {d} : x \in again' <=> x \in again
      /\ d \notin again' => UnderWay(d) = {}
  BY <1>1, <1>4
<1>7. Calling' <=> Calling
  BY <1>1 DEF Calling
<1>8. \A x \in DeviceId \ {d} : Then(x) = Heard(x)
  BY <1>5 DEF Heard
<1>9. VerdictIsTheDevices'
  BY <1>5 DEF VerdictInv, Verdicts, VerdictIsTheDevices
<1>10. NoStrays'
  BY <1>5, <1>6 DEF VerdictInv, Verdicts, NoStrays
<1>11. VerdictsAreHeard'
  <2>1. UnderWay(d) \subseteq Then(d)
    BY <1>5 DEF Heard
  <2>2. \A i \in 1..Len(inbox) : IsVerdict(inbox[i]) => inbox[i].ota \in Then(inbox[i].dev)
    BY <1>2, <1>8, <2>1, VerdictType DEF VerdictInv, Verdicts, VerdictsAreHeard
  <2>3. Calling => call.ota \in Then(call.dev)
    BY <1>3, <1>8, <2>1, VerdictType DEF VerdictInv, Verdicts, VerdictsAreHeard
  <2>. QED
    BY <1>1, <1>7, <2>2, <2>3 DEF VerdictsAreHeard, Heard
<1>12. OneVerdict'
  <2>1. \A i \in 1..Len(inbox) : IsVerdict(inbox[i]) /\ inbox[i].dev \notin again' =>
          inbox[i].dev \in DeviceId \ {d} /\ inbox[i].dev \notin again
    BY <1>2, <1>6, VerdictType
  <2>2. Calling /\ call.dev \notin again' => call.dev \in DeviceId \ {d} /\ call.dev \notin again
    BY <1>3, <1>6, VerdictType
  <2>. QED
    BY <1>1, <1>5, <1>7, <2>1, <2>2 DEF VerdictInv, Verdicts, OneVerdict
<1>. QED
  BY <1>9, <1>10, <1>11, <1>12 DEF Verdicts

(* VerdictInv is inductive. *)
LEMMA VerdictInductive == (Init => VerdictInv) /\ (VerdictInv /\ [Next]_vars => VerdictInv')
<1>1. ASSUME Init PROVE VerdictInv
  <2>1. Typed
    BY <1>1, TypedInductive
  <2>2. Len(inbox) = 0 /\ call = NoCall
        /\ \A d \in DeviceId : hawkbit[d] = "none" /\ outcome[d] = "none" /\ stray[d] = {}
    BY <1>1 DEF Init
  <2>. QED
    BY <2>1, <2>2 DEF VerdictInv, Verdicts, VerdictIsTheDevices, VerdictsAreHeard, NoStrays,
       OneVerdict, Calling
<1>2. ASSUME VerdictInv, [Next]_vars PROVE VerdictInv'
  <2>1. Typed' /\ TypeOK
    BY <1>2, TypedInductive DEF VerdictInv, Typed
  <2>2. ASSUME \/ UNCHANGED vars
               \/ \E d \in DeviceId : Register(d) \/ Unregister(d)
        PROVE  Verdicts'
    <3>1. UNCHANGED <<inbox, call, hawkbit, story>>
      BY <2>2 DEF vars, Register, Unregister
    <3>2. 0 \in Nat /\ \A i \in 1..Len(inbox') : i + 0 \in 1..Len(inbox) /\ inbox'[i] = inbox[i + 0]
      BY <3>1
    <3>. QED
      BY <1>2, <3>1, <3>2, NoVerdictAdded
  <2>3. ASSUME Connect \/ Outage \/ Restart PROVE Verdicts'
    <3>1. 0 \in Nat /\ \A i \in 1..Len(inbox') : ~ IsVerdict(inbox'[i])
      <4>1. CASE Connect
        BY <2>1, <4>1, ConnectSends DEF IsVerdict, Reported
      <4>2. CASE Outage \/ Restart
        BY <4>2 DEF Outage, Restart, Disconnect
      <4>. QED
        BY <2>3, <4>1, <4>2
    <3>2. UNCHANGED <<hawkbit, story>> /\ (Calling' => call' = call)
      BY <2>3 DEF Connect, Outage, Restart, Disconnect, Calling
    <3>. QED
      BY <1>2, <3>1, <3>2, NoVerdictAdded
  <2>4. Verdicts'
    BY <1>2, <2>2, <2>3, SpeakKeepsVerdicts, HandleKeepsVerdicts, DeployKeepsVerdicts
       DEF Next, Device, Speak
  <2>. QED
    BY <2>1, <2>4 DEF VerdictInv
<1>. QED
  BY <1>1, <1>2

(* What hawkBit closes a deployment with is what the device said of it, or *)
(* what it said of an earlier one and sent again, whatever is lost, not    *)
(* written, timed out or cut by a restart, and however often a report      *)
(* comes: the bridge itself takes no report into another deployment.       *)
THEOREM VerdictIsDevices == Spec => []VerdictIsTheDevices
<1>1. VerdictInv => VerdictIsTheDevices
  BY DEF VerdictInv, Verdicts
<1>. QED
  BY <1>1, VerdictInductive, PTL DEF Spec
=============================================================================
