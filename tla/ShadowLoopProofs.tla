--------------------------- MODULE ShadowLoopProofs -------------------------
(***************************************************************************)
(* Proofs about the way around, for any number of editors, devices, keys   *)
(* and values and any bounds, any reports, retained or not: its types, and *)
(* with one editor per device, that the whole implements ShadowContract.   *)
(*                                                                         *)
(* Everything about the desired half is taken from DesiredProofs: a step   *)
(* of the loop is a step of Desired, leaves its variables alone, or is the *)
(* bridge's write of a report, which touches no desired column.            *)
(***************************************************************************)
EXTENDS ShadowLoop, DesiredProofs, SequenceTheorems

(***************************************************************************)
(* Part 1.  Steps of the loop as steps of Desired.                         *)
(***************************************************************************)

(* The bridge's write of a report and the step that drops it. *)
ReportSaved == \E d \in DeviceId : inbox[d] # <<>> /\ SaveReported(d, Head(inbox[d]))

(* Only the bridge's write is not a step of Desired. *)
LEMMA LoopStep ==
    ASSUME [LoopNext]_allVars
    PROVE  \/ [Next]_vars
           \/ /\ ReportSaved
              /\ UNCHANGED <<job, pub, retained, committed, stale, losses, restarts>>
<1>1. ASSUME UNCHANGED allVars PROVE UNCHANGED vars
  BY <1>1 DEF allVars
<1>2. ASSUME Cloud PROVE Next
  BY <1>2 DEF Cloud, Next
<1>3. ASSUME Deliver \/ ProcessRestart PROVE Next
  BY <1>3 DEF Deliver, ProcessRestart, Next
<1>4. ASSUME \/ Subscribe \/ Lose
             \/ \E d \in DeviceId : Link(d) \/ Unlink(d) \/ Apply(d) \/ ReportState(d)
      PROVE  UNCHANGED vars
  BY <1>4 DEF Subscribe, Lose, Link, Unlink, Apply, ReportState
<1>5. ASSUME NEW d \in DeviceId, HandleReported(d)
      PROVE  \/ UNCHANGED vars
             \/ /\ ReportSaved
                /\ UNCHANGED <<job, pub, retained, committed, stale, losses, restarts>>
  BY <1>5 DEF HandleReported, ReportSaved, vars
<1>. QED
  BY <1>1, <1>2, <1>3, <1>4, <1>5 DEF LoopNext

(* A report that is typed leaves the tables typed, and no desired column   *)
(* different.                                                              *)
LEMMA SavedReportTyped ==
    ASSUME Typed, inbox \in [DeviceId -> Seq(Doc)], ReportSaved,
           UNCHANGED <<job, pub, retained, committed, stale, losses, restarts>>
    PROVE  Typed' /\ \A d : desired(d)' = desired(d)
<1>. PICK d0 \in DeviceId, doc \in Doc : SaveReported(d0, doc)
  BY DEF ReportSaved
<1>1. SaveReported(d0, doc)
  OBVIOUS
<1>2. StoreTypeOK' /\ Integrity'
  BY <1>1, SaveReportedOK DEF Typed, TypeOK
<1>3. TypeOK'
  BY <1>2 DEF Typed, TypeOK, pub
<1>4. \A d : desired(d)' = desired(d)
  BY <1>1, ShadowAfterReport DEF Typed, TypeOK, desired
<1>. QED
  BY <1>2, <1>3, <1>4 DEF Typed

(***************************************************************************)
(* Part 2.  Types.                                                         *)
(***************************************************************************)
LoopTyped == LoopTypeOK /\ Integrity

(* The variables of the loop besides those of Desired. *)
WayTyped ==
    /\ linked \subseteq DeviceId
    /\ wire \in [DeviceId -> Seq(Doc)]
    /\ \A d \in DeviceId : Len(wire[d]) <= MaxWire /\ (d \notin linked => wire[d] = <<>>)
BackTyped ==
    /\ kept \in [DeviceId -> Seq(Doc)] /\ inbox \in [DeviceId -> Seq(Doc)]
    /\ \A d \in DeviceId : Len(kept[d]) <= 1 /\ Len(inbox[d]) <= MaxInbox
    /\ session \in BOOLEAN
    /\ lapsed \subseteq DeviceId /\ own \subseteq DeviceId

(* They are what LoopTyped says besides. *)
LEMMA LoopTypedParts ==
    LoopTyped <=> Typed /\ WayTyped /\ BackTyped /\ drops \in 0..MaxDrops
BY DEF LoopTyped, LoopTypeOK, Typed, WayTyped, BackTyped

(* The end of the bridge's session keeps the types. *)
LEMMA SessionEnds ==
    ASSUME BackTyped, EndSession, UNCHANGED <<kept, own>>
    PROVE  BackTyped'
<1>1. session' \in BOOLEAN
  BY Zenon DEF EndSession
<1>2. inbox' \in [DeviceId -> Seq(Doc)] /\ \A d \in DeviceId : Len(inbox'[d]) <= MaxInbox
  BY LoopAssumption DEF EndSession
<1>3. lapsed' \subseteq DeviceId
  BY DEF EndSession, BackTyped
<1>. QED
  BY <1>1, <1>2, <1>3 DEF BackTyped

(* And so does a report. *)
LEMMA TellType ==
    ASSUME BackTyped, NEW d \in DeviceId, NEW doc \in Doc, Tell(d, doc),
           session' = session, own' \subseteq DeviceId
    PROVE  BackTyped'
<1>1. inbox' \in [DeviceId -> Seq(Doc)] /\ \A x \in DeviceId : Len(inbox'[x]) <= MaxInbox
  <2>1. Append(inbox[d], doc) \in Seq(Doc) /\ Len(Append(inbox[d], doc)) <= MaxInbox
    BY LoopAssumption DEF BackTyped, Tell
  <2>2. inbox' = inbox \/ inbox' = [inbox EXCEPT ![d] = Append(inbox[d], doc)]
    BY DEF Tell
  <2>. QED
    BY <2>1, <2>2 DEF BackTyped
<1>2. kept' \in [DeviceId -> Seq(Doc)] /\ \A x \in DeviceId : Len(kept'[x]) <= 1
  <2> DEFINE last == <<doc>>
  <2>1. last \in Seq(Doc) /\ Len(last) <= 1
    OBVIOUS
  <2>2. kept' = kept \/ kept' = [kept EXCEPT ![d] = last]
    BY DEF Tell
  <2>. HIDE DEF last
  <2>. QED
    BY <2>1, <2>2 DEF BackTyped
<1>3. lapsed' \subseteq DeviceId
  BY DEF Tell, BackTyped
<1>4. session' \in BOOLEAN
  BY Zenon DEF BackTyped
<1>. QED
  BY <1>1, <1>2, <1>3, <1>4 DEF BackTyped

(* The steps of the handlers, the publisher and the process's restart. *)
LEMMA CloudTyped ==
    ASSUME LoopTyped, Typed', \/ Cloud /\ UNCHANGED loop
                              \/ Deliver \/ ProcessRestart
    PROVE  LoopTyped'
<1>. Typed /\ WayTyped /\ BackTyped /\ drops \in 0..MaxDrops /\ TypeOK
  BY LoopTypedParts DEF Typed
<1>1. CASE Cloud /\ UNCHANGED loop
  <2>1. WayTyped' /\ BackTyped' /\ drops' = drops
    BY <1>1 DEF loop, WayTyped, BackTyped
  <2>. QED
    BY <2>1 DEF LoopTyped, LoopTypeOK, Typed, WayTyped, BackTyped
<1>2. CASE Deliver
  <2>. PICK m \in Message : m = outq[sent + 1]
    BY <1>2, QueueType DEF Deliver, Transmit
  <2>. m.dev \in DeviceId /\ m.doc \in Doc
    BY DEF Message
  <2>1. WayTyped'
    <3>1. CASE m.dev \in linked
      <4>1. /\ Len(wire[m.dev]) < MaxWire
            /\ wire' = [wire EXCEPT ![m.dev] = Append(@, m.doc)] /\ linked' = linked
        BY <1>2, <3>1 DEF Deliver
      <4>2. Append(wire[m.dev], m.doc) \in Seq(Doc)
            /\ Len(Append(wire[m.dev], m.doc)) <= MaxWire
        BY <4>1, LoopAssumption DEF WayTyped
      <4>. QED
        BY <3>1, <4>1, <4>2 DEF WayTyped
    <3>2. CASE m.dev \notin linked
      BY <1>2, <3>2 DEF Deliver, WayTyped
    <3>. QED
      BY <3>1, <3>2
  <2>2. BackTyped' /\ drops' = drops
    BY <1>2 DEF Deliver, BackTyped
  <2>. QED
    BY <2>1, <2>2 DEF LoopTyped, LoopTypeOK, Typed, WayTyped, BackTyped
<1>3. CASE ProcessRestart
  <2>1. BackTyped'
    BY <1>3, SessionEnds DEF ProcessRestart
  <2>2. WayTyped' /\ drops' = drops
    BY <1>3 DEF ProcessRestart, WayTyped
  <2>. QED
    BY <2>1, <2>2 DEF LoopTyped, LoopTypeOK, Typed, WayTyped, BackTyped
<1>. QED
  BY <1>1, <1>2, <1>3

(* The steps of the devices. *)
LEMMA DeviceTyped ==
    ASSUME LoopTyped, Typed', NEW d \in DeviceId,
           Link(d) \/ Unlink(d) \/ Apply(d) \/ ReportState(d)
    PROVE  LoopTyped'
<1>. Typed /\ WayTyped /\ BackTyped /\ drops \in 0..MaxDrops /\ TypeOK
  BY LoopTypedParts DEF Typed
<1>1. CASE Link(d)
  <2>1. retained[d] \in Doc
    BY DEF TypeOK
  <2> DEFINE first == IF retained[d] = EmptyDoc THEN <<>> ELSE <<retained[d]>>
  <2>2. first \in Seq(Doc) /\ Len(first) <= MaxWire
    BY <2>1, LoopAssumption
  <2>3. wire' = [wire EXCEPT ![d] = first] /\ linked' = linked \cup {d}
    BY <1>1 DEF Link
  <2>. HIDE DEF first
  <2>4. WayTyped'
    BY <2>2, <2>3 DEF WayTyped
  <2>5. BackTyped' /\ drops' = drops
    BY <1>1 DEF Link, BackTyped
  <2>. QED
    BY <2>4, <2>5 DEF LoopTyped, LoopTypeOK, Typed, WayTyped, BackTyped
<1>2. CASE Unlink(d)
  <2>1. <<>> \in Seq(Doc) /\ Len(<<>>) <= MaxWire
    BY LoopAssumption
  <2>2. wire' = [wire EXCEPT ![d] = <<>>] /\ linked' = linked \ {d}
    BY <1>2 DEF Unlink
  <2>3. WayTyped'
    BY <2>1, <2>2 DEF WayTyped
  <2>4. drops' \in 0..MaxDrops
    BY <1>2, LoopAssumption DEF Unlink
  <2>5. BackTyped'
    BY <1>2 DEF Unlink, BackTyped
  <2>. QED
    BY <2>3, <2>4, <2>5 DEF LoopTyped, LoopTypeOK, Typed, WayTyped, BackTyped
<1>3. CASE Apply(d)
  <2>1. wire[d] \in Seq(Doc) /\ wire[d] # <<>> /\ d \in linked /\ Len(wire[d]) <= MaxWire
    BY <1>3 DEF Apply, WayTyped
  <2>2. Head(wire[d]) \in Doc /\ Tail(wire[d]) \in Seq(Doc) /\ Len(Tail(wire[d])) <= MaxWire
    BY <2>1, LoopAssumption
  <2>3. wire' = [wire EXCEPT ![d] = Tail(wire[d])] /\ linked' = linked /\ drops' = drops
    BY <1>3 DEF Apply
  <2>4. WayTyped'
    BY <2>1, <2>2, <2>3 DEF WayTyped
  <2>5. session' = session /\ own' \subseteq DeviceId /\ Tell(d, Head(wire[d]))
    BY <1>3 DEF Apply, BackTyped
  <2>6. BackTyped'
    BY <2>2, <2>5, TellType
  <2>. QED
    BY <2>3, <2>4, <2>6 DEF LoopTyped, LoopTypeOK, Typed, WayTyped, BackTyped
<1>4. CASE ReportState(d)
  <2>. PICK doc \in Reports : Tell(d, doc)
    BY <1>4 DEF ReportState
  <2>1. doc \in Doc
    BY DesiredAssumption
  <2>2. session' = session /\ own' \subseteq DeviceId
    BY <1>4 DEF ReportState, BackTyped
  <2>3. BackTyped'
    BY <2>1, <2>2, TellType
  <2>4. WayTyped' /\ drops' = drops
    BY <1>4 DEF ReportState, WayTyped
  <2>. QED
    BY <2>3, <2>4 DEF LoopTyped, LoopTypeOK, Typed, WayTyped, BackTyped
<1>. QED
  BY <1>1, <1>2, <1>3, <1>4

(* The steps of the bridge. *)
LEMMA BridgeTyped ==
    ASSUME LoopTyped, Typed', Subscribe \/ Lose \/ \E d \in DeviceId : HandleReported(d)
    PROVE  LoopTyped'
<1>. Typed /\ WayTyped /\ BackTyped /\ drops \in 0..MaxDrops /\ TypeOK
  BY LoopTypedParts DEF Typed
<1>1. CASE Subscribe
  <2>1. session' \in BOOLEAN
    BY <1>1, Zenon DEF Subscribe
  <2>2. /\ inbox' \in [DeviceId -> Seq(Doc)] /\ UNCHANGED <<kept, lapsed, own>>
        /\ \A d \in DeviceId : Len(inbox'[d]) <= MaxInbox
    BY <1>1, LoopAssumption DEF Subscribe, BackTyped
  <2>3. BackTyped'
    BY <2>1, <2>2 DEF BackTyped
  <2>4. WayTyped' /\ drops' = drops
    BY <1>1 DEF Subscribe, WayTyped
  <2>. QED
    BY <2>3, <2>4 DEF LoopTyped, LoopTypeOK, Typed, WayTyped, BackTyped
<1>2. CASE Lose
  <2>1. drops' \in 0..MaxDrops
    BY <1>2, LoopAssumption DEF Lose
  <2>2. BackTyped'
    BY <1>2, SessionEnds DEF Lose
  <2>3. WayTyped'
    BY <1>2 DEF Lose, WayTyped
  <2>. QED
    BY <2>1, <2>2, <2>3 DEF LoopTyped, LoopTypeOK, Typed, WayTyped, BackTyped
<1>3. ASSUME NEW d \in DeviceId, HandleReported(d) PROVE LoopTyped'
  <2>1. Tail(inbox[d]) \in Seq(Doc) /\ Len(Tail(inbox[d])) <= MaxInbox
    BY <1>3, LoopAssumption DEF HandleReported, BackTyped
  <2>2. inbox' = [inbox EXCEPT ![d] = Tail(inbox[d])]
    BY <1>3 DEF HandleReported
  <2>3. inbox' \in [DeviceId -> Seq(Doc)] /\ \A x \in DeviceId : Len(inbox'[x]) <= MaxInbox
    BY <2>1, <2>2 DEF BackTyped
  <2>4. lapsed' \subseteq DeviceId
    BY <1>3 DEF HandleReported, BackTyped
  <2>5. UNCHANGED <<kept, session, own, linked, wire, drops>>
    BY <1>3 DEF HandleReported
  <2>6. BackTyped'
    BY <2>3, <2>4, <2>5 DEF BackTyped
  <2>7. WayTyped'
    BY <2>5 DEF WayTyped
  <2>. QED
    BY <2>5, <2>6, <2>7 DEF LoopTyped, LoopTypeOK, Typed, WayTyped, BackTyped
<1>. QED
  BY <1>1, <1>2, <1>3

(* LoopTyped is inductive. *)
LEMMA LoopTypedInductive ==
    (LoopInit => LoopTyped) /\ (LoopTyped /\ [LoopNext]_allVars => LoopTyped')
<1>1. ASSUME LoopInit PROVE LoopTyped
  <2>1. Typed
    BY <1>1, TypedInductive DEF LoopInit
  <2>2. WayTyped
    BY <1>1, LoopAssumption DEF LoopInit, WayTyped
  <2>3. session \in BOOLEAN
    BY <1>1, Zenon DEF LoopInit
  <2>4. BackTyped
    BY <1>1, <2>3, LoopAssumption DEF LoopInit, BackTyped
  <2>5. drops \in 0..MaxDrops
    BY <1>1, LoopAssumption DEF LoopInit
  <2>. QED
    BY <2>1, <2>2, <2>4, <2>5, LoopTypedParts
<1>2. ASSUME LoopTyped, [LoopNext]_allVars PROVE LoopTyped'
  <2>1. Typed /\ inbox \in [DeviceId -> Seq(Doc)]
    BY <1>2, LoopTypedParts DEF BackTyped
  <2>2. Typed'
    BY <1>2, <2>1, LoopStep, SavedReportTyped, TypedInductive
  <2>3. CASE UNCHANGED allVars
    <3>1. WayTyped' /\ BackTyped' /\ drops' = drops
      BY <1>2, <2>3, LoopTypedParts DEF allVars, loop, WayTyped, BackTyped
    <3>. QED
      BY <1>2, <2>2, <3>1, LoopTypedParts DEF LoopTyped, LoopTypeOK, Typed, WayTyped, BackTyped
  <2>. QED
    BY <1>2, <2>2, <2>3, CloudTyped, DeviceTyped, BridgeTyped DEF LoopNext
<1>. QED
  BY <1>1, <1>2

(* Editors, publisher, broker, devices and bridge keep their types on the  *)
(* whole way around.                                                       *)
THEOREM LoopTypeCorrect == LoopSpec => []LoopTypeOK
<1>1. LoopTyped => LoopTypeOK
  BY DEF LoopTyped
<1>. QED
  BY <1>1, LoopTypedInductive, PTL DEF LoopSpec

(***************************************************************************)
(* Part 3.  The reports of a device on their way.                          *)
(***************************************************************************)

(* What the broker retains of a device is its last report, so that nothing *)
(* older is sent again.                                                    *)
KeptIsLast ==
    \A d \in DeviceId :
      /\ ~ session => inbox[d] = <<>>
      /\ d \notin Retains => kept[d] = <<>>
      /\ d \in Retains /\ inbox[d] # <<>> => kept[d] = <<inbox[d][Len(inbox[d])]>>

(* What is left of a sequence: all of it, nothing, all but the first, and  *)
(* the last alone.                                                         *)
LEMMA SuffixesOf ==
    ASSUME NEW s \in Seq(Doc)
    PROVE  /\ s \in Contract!Suffixes(s) /\ <<>> \in Contract!Suffixes(s)
           /\ s # <<>> => /\ Tail(s) \in Contract!Suffixes(s)
                          /\ <<s[Len(s)]>> \in Contract!Suffixes(s)
<1>. PICK n \in Nat : n = Len(s)
  OBVIOUS
<1>1. Contract!Suffixes(s) = {SubSeq(s, k, n) : k \in 1..n + 1}
  BY DEF Contract!Suffixes
<1>2. SubSeq(s, 1, n) = s /\ SubSeq(s, n + 1, n) = <<>>
  OBVIOUS
<1>3. 1 \in 1..n + 1 /\ n + 1 \in 1..n + 1
  OBVIOUS
<1>4. ASSUME s # <<>>
      PROVE  /\ Tail(s) = SubSeq(s, 2, n) /\ 2 \in 1..n + 1
             /\ <<s[n]>> = SubSeq(s, n, n) /\ n \in 1..n + 1
  BY <1>4
<1>. QED
  BY <1>1, <1>2, <1>3, <1>4

(* The reports that may still be shown are typed. *)
LEMMA ComingType ==
    ASSUME BackTyped
    PROVE  /\ Coming \in [DeviceId -> Seq(Doc)]
           /\ \A d \in DeviceId : Coming[d] = IF inbox[d] # <<>> THEN inbox[d] ELSE kept[d]
BY DEF Coming, BackTyped

(* Most steps leave them as they are. *)
LEMMA KeptSame ==
    ASSUME KeptIsLast, UNCHANGED <<session, inbox, kept>>
    PROVE  KeptIsLast'
BY DEF KeptIsLast

(* A report of the device comes last. *)
LEMMA TellComes ==
    ASSUME BackTyped, BackTyped', KeptIsLast, NEW d \in DeviceId, NEW doc \in Doc, Tell(d, doc),
           session' = session
    PROVE  /\ KeptIsLast'
           /\ \/ Coming' = Coming
              \/ \E rest \in Contract!Suffixes(Coming[d]) :
                   Coming' = [Coming EXCEPT ![d] = Append(rest, doc)]
<1>1. Coming[d] \in Seq(Doc) /\ inbox[d] \in Seq(Doc) /\ kept[d] \in Seq(Doc)
  BY ComingType DEF BackTyped
<1>2. kept' = [kept EXCEPT ![d] = IF d \in Retains THEN <<doc>> ELSE kept[d]]
  BY DEF Tell, BackTyped
<1>3. CASE session
  <2>1. inbox' = [inbox EXCEPT ![d] = Append(inbox[d], doc)]
    BY <1>3 DEF Tell
  <2>2. /\ inbox'[d] = Append(inbox[d], doc) /\ \A x \in DeviceId \ {d} : inbox'[x] = inbox[x]
        /\ kept'[d] = (IF d \in Retains THEN <<doc>> ELSE kept[d])
        /\ \A x \in DeviceId \ {d} : kept'[x] = kept[x]
    BY <1>2, <2>1 DEF BackTyped
  <2>3. inbox'[d] # <<>> /\ inbox'[d][Len(inbox'[d])] = doc
    BY <1>1, <2>2
  <2>4. KeptIsLast'
    BY <1>3, <2>2, <2>3 DEF KeptIsLast
  <2>5. \E rest \in Contract!Suffixes(Coming[d]) : inbox'[d] = Append(rest, doc)
    <3>1. CASE inbox[d] = <<>>
      BY <1>1, <2>2, <3>1, SuffixesOf
    <3>2. CASE inbox[d] # <<>>
      <4>1. Coming[d] = inbox[d]
        BY <3>2, ComingType
      <4>. QED
        BY <1>1, <2>2, <4>1, SuffixesOf
    <3>. QED
      BY <3>1, <3>2
  <2>. PICK rest \in Contract!Suffixes(Coming[d]) : inbox'[d] = Append(rest, doc)
    BY <2>5
  <2>6. Coming'[d] = Append(rest, doc) /\ \A x \in DeviceId \ {d} : Coming'[x] = Coming[x]
    BY <2>2, <2>3 DEF Coming
  <2>7. Coming' = [Coming EXCEPT ![d] = Append(rest, doc)]
    <3>1. Coming' = [x \in DeviceId |-> Coming'[x]] /\ Coming = [x \in DeviceId |-> Coming[x]]
      BY DEF Coming
    <3>. QED
      BY <2>6, <3>1
  <2>. QED
    BY <2>4, <2>7
<1>4. CASE ~ session
  <2>1. inbox' = inbox /\ inbox[d] = <<>>
    BY <1>4 DEF Tell, KeptIsLast
  <2>2. /\ kept'[d] = (IF d \in Retains THEN <<doc>> ELSE kept[d])
        /\ \A x \in DeviceId \ {d} : kept'[x] = kept[x]
    BY <1>2 DEF BackTyped
  <2>3. KeptIsLast'
    BY <1>4, <2>1, <2>2 DEF KeptIsLast
  <2>4. CASE d \in Retains
    <3>0. <<>> \in Contract!Suffixes(Coming[d])
      BY <1>1, SuffixesOf
    <3>1. Append(<<>>, doc) = <<doc>>
      OBVIOUS
    <3>2. Coming'[d] = <<doc>> /\ \A x \in DeviceId \ {d} : Coming'[x] = Coming[x]
      BY <2>1, <2>2, <2>4 DEF Coming
    <3>3. Coming' = [x \in DeviceId |-> Coming'[x]] /\ Coming = [x \in DeviceId |-> Coming[x]]
      BY DEF Coming
    <3>4. Coming' = [Coming EXCEPT ![d] = Append(<<>>, doc)]
      BY <3>1, <3>2, <3>3
    <3>. QED
      BY <2>3, <3>0, <3>4
  <2>5. CASE d \notin Retains
    BY <1>2, <2>1, <2>3, <2>5 DEF Coming, BackTyped
  <2>. QED
    BY <2>4, <2>5
<1>. QED
  BY <1>3, <1>4

(* A subscription brings nothing that was not coming. *)
LEMMA SubscribeComes ==
    ASSUME BackTyped, KeptIsLast, Subscribe
    PROVE  KeptIsLast' /\ Coming' = Coming
<1>1. ~ session /\ session' /\ inbox' = kept /\ kept' = kept
  BY Zenon DEF Subscribe
<1>2. \A d \in DeviceId : inbox[d] = <<>> /\ kept[d] \in Seq(Doc) /\ Len(kept[d]) <= 1
  BY <1>1 DEF KeptIsLast, BackTyped
<1>3. KeptIsLast'
  <2>1. \A d \in DeviceId : kept[d] # <<>> => kept[d] = <<kept[d][Len(kept[d])]>>
    BY <1>2
  <2>. QED
    BY <1>1, <2>1 DEF KeptIsLast
<1>4. Coming' = Coming
  BY <1>1, <1>2 DEF Coming
<1>. QED
  BY <1>3, <1>4

(* The end of a session loses what waited, but for the last report that    *)
(* is retained.                                                            *)
LEMMA SessionEndMisses ==
    ASSUME BackTyped, KeptIsLast, EndSession, kept' = kept
    PROVE  /\ KeptIsLast'
           /\ \A d \in DeviceId : Coming'[d] \in Contract!Suffixes(Coming[d])
<1>1. ~ session' /\ inbox' = [d \in DeviceId |-> <<>>]
  BY Zenon DEF EndSession
<1>2. KeptIsLast'
  BY <1>1 DEF KeptIsLast
<1>3. ASSUME NEW d \in DeviceId PROVE Coming'[d] \in Contract!Suffixes(Coming[d])
  <2>1. Coming'[d] = kept[d] /\ Coming[d] \in Seq(Doc) /\ inbox[d] \in Seq(Doc)
    BY <1>1, ComingType DEF Coming, BackTyped
  <2>2. CASE inbox[d] = <<>>
    BY <2>1, <2>2, SuffixesOf, ComingType
  <2>3. CASE inbox[d] # <<>>
    <3>1. Coming[d] = inbox[d]
      BY <2>3, ComingType
    <3>2. kept[d] = <<>> \/ kept[d] = <<inbox[d][Len(inbox[d])]>>
      BY <2>3 DEF KeptIsLast
    <3>. QED
      BY <2>1, <2>3, <3>1, <3>2, SuffixesOf
  <2>. QED
    BY <2>2, <2>3
<1>. QED
  BY <1>2, <1>3

(* What the bridge takes is the first that was coming; if it was the last  *)
(* one and is retained, it may come again.                                 *)
LEMMA HandleComes ==
    ASSUME BackTyped, KeptIsLast, NEW d \in DeviceId, HandleReported(d)
    PROVE  /\ KeptIsLast'
           /\ Coming[d] # <<>> /\ Head(Coming[d]) = Head(inbox[d])
           /\ \/ Coming' = [Coming EXCEPT ![d] = Tail(Coming[d])]
              \/ Len(Coming[d]) = 1 /\ Coming' = Coming
<1>1. /\ inbox[d] # <<>> /\ inbox' = [inbox EXCEPT ![d] = Tail(inbox[d])]
      /\ UNCHANGED <<session, kept>>
  BY DEF HandleReported
<1>2. inbox[d] \in Seq(Doc) /\ Coming[d] = inbox[d]
  BY <1>1, ComingType DEF BackTyped
<1>3. inbox'[d] = Tail(inbox[d]) /\ \A x \in DeviceId \ {d} : inbox'[x] = inbox[x]
  BY <1>1 DEF BackTyped
<1>4. KeptIsLast'
  <2>1. Tail(inbox[d]) # <<>> => Tail(inbox[d])[Len(Tail(inbox[d]))] = inbox[d][Len(inbox[d])]
    BY <1>1, <1>2
  <2>2. session
    BY <1>1 DEF KeptIsLast
  <2>. QED
    BY <1>1, <1>3, <2>1, <2>2 DEF KeptIsLast
<1>5. \A x \in DeviceId \ {d} : Coming'[x] = Coming[x]
  BY <1>1, <1>3 DEF Coming
<1>6. /\ Coming' = [x \in DeviceId |-> Coming'[x]] /\ Coming = [x \in DeviceId |-> Coming[x]]
      /\ Coming'[d] = IF inbox'[d] # <<>> THEN inbox'[d] ELSE kept[d]
  BY <1>1 DEF Coming
<1>7. CASE Tail(inbox[d]) # <<>>
  BY <1>1, <1>2, <1>3, <1>4, <1>5, <1>6, <1>7
<1>8. CASE Tail(inbox[d]) = <<>>
  <2>0. ASSUME NEW s \in Seq(Doc), s # <<>>, Tail(s) = <<>>
        PROVE  Len(s) = 1 /\ s = <<s[1]>>
    <3>1. Len(s) \in Nat /\ Len(s) # 0
      BY <2>0, EmptySeq, LenProperties
    <3>2. Len(Tail(s)) = Len(s) - 1
      BY <2>0, HeadTailProperties
    <3>3. Len(Tail(s)) = 0
      <4>1. \A t : t = <<>> => Len(t) = 0
        OBVIOUS
      <4>. QED
        BY <2>0, <4>1, Zenon
    <3>4. Len(s) = 1
      <4>1. \A n \in Nat : \A k : k = n - 1 /\ k = 0 => n = 1
        OBVIOUS
      <4>. QED
        BY <3>1, <3>2, <3>3, <4>1, Zenon
    <3>5. s[1] \in Doc
      <4>1. s \in [1..Len(s) -> Doc]
        BY LenProperties, Zenon
      <4>2. 1 \in 1..Len(s)
        BY <3>4
      <4>. QED
        BY <4>1, <4>2, Zenon
    <3>6. <<s[1]>> \in Seq(Doc) /\ Len(<<s[1]>>) = 1 /\ <<s[1]>>[1] = s[1]
      BY <3>5
    <3>7. \A i \in 1 .. Len(s) : s[i] = <<s[1]>>[i]
      BY <3>4, <3>6
    <3>. QED
      BY <3>4, <3>6, <3>7, SeqEqual, Zenon
  <2>1. Len(inbox[d]) = 1 /\ inbox[d] = <<inbox[d][1]>>
    BY <1>1, <1>2, <1>8, <2>0
  <2>2. kept[d] = <<>> \/ kept[d] = inbox[d]
    BY <1>1, <2>1 DEF KeptIsLast
  <2>. QED
    BY <1>1, <1>2, <1>3, <1>4, <1>5, <1>6, <1>8, <2>1, <2>2
<1>. QED
  BY <1>7, <1>8

(***************************************************************************)
(* Part 4.  With one editor per device, the loop implements ShadowContract.*)
(***************************************************************************)

(* The write of a report leaves the way of a configuration as it was. *)
LEMMA ReportPath ==
    ASSUME PathInv, inbox \in [DeviceId -> Seq(Doc)], ReportSaved,
           UNCHANGED <<job, pub, retained, committed, stale, losses, restarts>>
    PROVE  PathInv'
<1>1. Typed' /\ \A d : desired(d)' = desired(d)
  BY SavedReportTyped DEF PathInv
<1>2. (PublishIsCurrent /\ QueueEndsCurrent /\ BrokerHasLastSent /\ BrokerAgrees)'
  BY <1>1, QuietStep DEF At, pub
<1>3. JobsAllowed'
  BY DEF PathInv, JobsAllowed
<1>4. MergedIsCurrent'
  BY <1>1 DEF PathInv, MergedIsCurrent, At
<1>. QED
  BY <1>1, <1>2, <1>3, <1>4 DEF PathInv

ContractInv == LoopTyped /\ KeptIsLast /\ PathInv

(* Every step keeps what is retained the last report. *)
LEMMA KeptInductive ==
    ASSUME LoopTyped, LoopTyped', KeptIsLast, [LoopNext]_allVars
    PROVE  KeptIsLast'
<1>. BackTyped /\ BackTyped' /\ WayTyped
  BY LoopTypedParts DEF LoopTyped, LoopTypeOK, BackTyped
<1>1. CASE UNCHANGED allVars \/ (Cloud /\ UNCHANGED loop)
  BY <1>1, KeptSame DEF allVars, loop
<1>2. CASE Deliver \/ \E d \in DeviceId : Link(d) \/ Unlink(d)
  BY <1>2, KeptSame DEF Deliver, Link, Unlink
<1>3. CASE ProcessRestart \/ Lose
  BY <1>3, SessionEndMisses DEF ProcessRestart, Lose
<1>4. ASSUME NEW d \in DeviceId, Apply(d) PROVE KeptIsLast'
  <2>1. Head(wire[d]) \in Doc
    BY <1>4 DEF Apply, WayTyped
  <2>. QED
    BY <1>4, <2>1, TellComes DEF Apply
<1>5. ASSUME NEW d \in DeviceId, ReportState(d) PROVE KeptIsLast'
  BY <1>5, TellComes, DesiredAssumption DEF ReportState
<1>6. ASSUME Subscribe \/ \E d \in DeviceId : HandleReported(d) PROVE KeptIsLast'
  BY <1>6, SubscribeComes, HandleComes
<1>. QED
  BY <1>1, <1>2, <1>3, <1>4, <1>5, <1>6, Zenon DEF LoopNext

(* ContractInv is inductive. *)
LEMMA ContractInductive ==
    SoleEditor => /\ LoopInit => ContractInv
                  /\ ContractInv /\ [LoopNext]_allVars => ContractInv'
<1>. SUFFICES ASSUME SoleEditor
              PROVE  /\ LoopInit => ContractInv
                     /\ ContractInv /\ [LoopNext]_allVars => ContractInv'
  OBVIOUS
<1>1. ASSUME LoopInit PROVE ContractInv
  <2>1. KeptIsLast
    BY <1>1 DEF LoopInit, KeptIsLast
  <2>. QED
    BY <1>1, <2>1, LoopTypedInductive, PathInductive DEF LoopInit, ContractInv
<1>2. ASSUME ContractInv, [LoopNext]_allVars PROVE ContractInv'
  <2>1. inbox \in [DeviceId -> Seq(Doc)]
    BY <1>2, LoopTypedParts DEF ContractInv, BackTyped
  <2>2. PathInv'
    BY <1>2, <2>1, LoopStep, ReportPath, PathInductive DEF ContractInv
  <2>. QED
    BY <1>2, <2>2, LoopTypedInductive, KeptInductive DEF ContractInv
<1>. QED
  BY <1>1, <1>2

(* What the contract speaks of. *)
Wanted == [d \in DeviceId |-> load_shadow(d).desired]
Shown == [d \in DeviceId |-> load_shadow(d).reported]

(* A step that changes no shadow and brings no report is none of the       *)
(* contract's.                                                             *)
LEMMA Stutters ==
    ASSUME UNCHANGED device_shadow, Coming' = Coming
    PROVE  UNCHANGED Contract!cvars
BY DEF Contract!cvars, load_shadow

(* Most steps bring none. *)
LEMMA SameComing ==
    ASSUME UNCHANGED <<inbox, kept>>
    PROVE  Coming' = Coming
BY DEF Coming

(* The commit of a PATCH is the contract's Patch: what is saved is the     *)
(* delta merged with what is stored.                                       *)
LEMMA SavePatches ==
    ASSUME ContractInv, NEW a \in Admin, Save(a), UNCHANGED loop
    PROVE  Contract!Next
<1>. TypeOK /\ StoreTypeOK
  BY DEF ContractInv, PathInv, Typed, TypeOK
<1>. PICK d0 \in DeviceId, delta \in Patches, doc \in Doc :
        d0 = job[a].dev /\ delta = job[a].delta /\ doc = job[a].doc
  BY JobType DEF Save, At, Job
<1>1. doc = Merge(desired(d0), delta)
  BY DEF Save, ContractInv, PathInv, MergedIsCurrent
<1>2. SaveDesired(d0, doc)
  BY DEF Save
<1>3. /\ load_shadow(d0)' = [load_shadow(d0) EXCEPT !.desired = doc]
      /\ \A x : x # d0 => load_shadow(x)' = load_shadow(x)
  BY <1>2, ShadowAfterDesired
<1>4. load_shadow(d0)'.desired = doc /\ load_shadow(d0)'.reported = load_shadow(d0).reported
  BY <1>3, LoadShadowType DEF ShadowRow
<1>5. Wanted' = [Wanted EXCEPT ![d0] = doc] /\ Shown' = Shown
  BY <1>3, <1>4 DEF Wanted, Shown
<1>6. doc = Contract!Merge(Wanted[d0], delta)
  BY <1>1 DEF Wanted, desired, Merge, Contract!Merge
<1>7. Coming' = Coming
  BY SameComing DEF loop
<1>8. Contract!Patch(d0)
  BY <1>5, <1>6, <1>7 DEF Contract!Patch, Wanted, Shown
<1>. QED
  BY <1>8 DEF Contract!Next

(* A deletion is the contract's Delete. *)
LEMMA UnregisterDeletes ==
    ASSUME ContractInv, NEW a \in Admin, Unregister(a), UNCHANGED loop
    PROVE  Contract!Next
<1>. StoreTypeOK
  BY DEF ContractInv, PathInv, Typed, TypeOK
<1>. PICK d0 \in Registered : DeleteDevice(d0)
  BY DEF Unregister
<1>1. d0 \in DeviceId
  BY DEF StoreTypeOK, Registered
<1>2. load_shadow(d0)' = FreshShadow /\ \A x : x # d0 => load_shadow(x)' = load_shadow(x)
  BY ShadowAfterDelete
<1>3. /\ Wanted' = [Wanted EXCEPT ![d0] = EmptyDoc]
      /\ Shown' = [Shown EXCEPT ![d0] = EmptyDoc]
  <2>1. load_shadow(d0)'.desired = EmptyDoc /\ load_shadow(d0)'.reported = EmptyDoc
    <3>1. FreshShadow.desired = EmptyDoc /\ FreshShadow.reported = EmptyDoc
      BY DEF FreshShadow
    <3>. QED
      BY <1>2, <3>1
  <2>. QED
    BY <1>1, <1>2, <2>1 DEF Wanted, Shown
<1>4. Coming' = Coming
  BY SameComing DEF loop
<1>5. EmptyDoc = Contract!EmptyDoc
  BY DEF EmptyDoc, Contract!EmptyDoc
<1>6. Contract!Delete(d0)
  BY <1>3, <1>4, <1>5 DEF Contract!Delete, Wanted, Shown
<1>. QED
  BY <1>1, <1>6 DEF Contract!Next

(* A report of a device is the contract's Say, or is lost at once. *)
LEMMA TellSays ==
    ASSUME ContractInv, LoopTyped', NEW d \in DeviceId, NEW doc \in Doc, Tell(d, doc),
           session' = session, UNCHANGED device_shadow
    PROVE  [Contract!Next]_Contract!cvars
<1>. BackTyped /\ BackTyped' /\ KeptIsLast
  BY LoopTypedParts DEF ContractInv, LoopTyped, LoopTypeOK, BackTyped
<1>1. CASE Coming' = Coming
  BY <1>1, Stutters
<1>2. ASSUME NEW rest \in Contract!Suffixes(Coming[d]),
             Coming' = [Coming EXCEPT ![d] = Append(rest, doc)]
      PROVE  Contract!Next
  <2>1. doc \in Contract!Doc
    BY DEF Doc, Contract!Doc, JsonValue, Contract!JsonValue
  <2>2. Wanted' = Wanted /\ Shown' = Shown
    BY DEF Wanted, Shown, load_shadow
  <2>3. Contract!Say(d)
    BY <1>2, <2>1, <2>2 DEF Contract!Say, Wanted, Shown
  <2>. QED
    BY <2>3 DEF Contract!Next
<1>. QED
  BY <1>1, <1>2, TellComes

(* What is lost is the contract's Miss. *)
LEMMA LossMisses ==
    ASSUME UNCHANGED device_shadow,
           \A d \in DeviceId : Coming'[d] \in Contract!Suffixes(Coming[d])
    PROVE  Contract!Next
<1>1. Coming' = [d \in DeviceId |-> Coming'[d]]
  BY DEF Coming
<1>2. Wanted' = Wanted /\ Shown' = Shown
  BY DEF Wanted, Shown, load_shadow
<1>3. Contract!Miss
  BY <1>1, <1>2 DEF Contract!Miss, Wanted, Shown
<1>. QED
  BY <1>3 DEF Contract!Next

(* The bridge's write is the contract's Show, and a write that fails is    *)
(* its Miss.                                                               *)
LEMMA ReportShows ==
    ASSUME ContractInv, NEW d0 \in DeviceId, HandleReported(d0)
    PROVE  [Contract!Next]_Contract!cvars
<1>. BackTyped /\ KeptIsLast /\ StoreTypeOK
  BY LoopTypedParts DEF ContractInv, PathInv, Typed, TypeOK
<1>. PICK doc \in Doc : doc = Head(inbox[d0])
  BY DEF HandleReported, BackTyped
<1>1. /\ Coming[d0] # <<>> /\ Head(Coming[d0]) = doc
      /\ \/ Coming' = [Coming EXCEPT ![d0] = Tail(Coming[d0])]
         \/ Len(Coming[d0]) = 1 /\ Coming' = Coming
  BY HandleComes
<1>2. CASE SaveReported(d0, doc)
  <2> DEFINE row == [load_shadow(d0) EXCEPT !.reported = doc]
  <2>1. device_shadow' = Upsert(device_shadow, d0, row)
    BY <1>2 DEF SaveReported
  <2>2. row.desired = load_shadow(d0).desired /\ row.reported = doc
    BY LoadShadowType DEF ShadowRow
  <2>. HIDE DEF row
  <2>3. load_shadow(d0)' = row /\ \A x : x # d0 => load_shadow(x)' = load_shadow(x)
    BY <2>1, ShadowAfterUpsert
  <2>4. Wanted' = Wanted /\ Shown' = [Shown EXCEPT ![d0] = doc]
    BY <2>2, <2>3 DEF Wanted, Shown
  <2>5. Contract!Show(d0)
    BY <1>1, <2>4 DEF Contract!Show, Wanted, Shown
  <2>. QED
    BY <2>5 DEF Contract!Next
<1>3. CASE UNCHANGED tables
  <2>1. \A d \in DeviceId : Coming[d] \in Seq(Doc)
    BY ComingType
  <2>2. \A d \in DeviceId : Coming'[d] \in Contract!Suffixes(Coming[d])
    <3>. TAKE d \in DeviceId
    <3>1. Coming'[d] = Coming[d] \/ (d = d0 /\ Coming'[d] = Tail(Coming[d]))
      BY <1>1, ComingType
    <3>. QED
      BY <1>1, <2>1, <3>1, SuffixesOf
  <2>. QED
    BY <1>3, <2>2, LossMisses DEF tables
<1>. QED
  BY <1>2, <1>3 DEF HandleReported

(* With one editor per device, every step of editors, publisher, broker,   *)
(* devices and bridge is a step of ShadowContract or changes nothing it    *)
(* speaks of: no restart, resend or reconnect changes what is desired, and *)
(* a device, whatever it reports and whether or not the broker retains it, *)
(* is shown to report what it has reported, and never an older report      *)
(* after a newer one.                                                      *)
THEOREM LoopKeepsContract == ASSUME SoleEditor PROVE LoopSpec => KeepsContract
<1>1. LoopInit => Contract!Init
  <2>. SUFFICES ASSUME LoopInit PROVE Contract!Init
    OBVIOUS
  <2>1. \A d : load_shadow(d) = FreshShadow
    BY DEF LoopInit, Init, StoreInit, EmptyTable, load_shadow
  <2>2. Coming = [d \in DeviceId |-> <<>>]
    BY DEF LoopInit, Coming
  <2>. QED
    BY <2>1, <2>2 DEF Contract!Init, FreshShadow, EmptyDoc, Contract!EmptyDoc
<1>2. ContractInv /\ LoopTyped' /\ [LoopNext]_allVars => [Contract!Next]_Contract!cvars
  <2>. SUFFICES ASSUME ContractInv, LoopTyped', [LoopNext]_allVars
                PROVE  [Contract!Next]_Contract!cvars
    OBVIOUS
  <2>. BackTyped /\ WayTyped /\ KeptIsLast
    BY LoopTypedParts DEF ContractInv
  <2>1. ASSUME UNCHANGED <<device_shadow, inbox, kept>> PROVE UNCHANGED Contract!cvars
    BY <2>1, SameComing, Stutters
  <2>2. CASE Cloud /\ UNCHANGED loop
    <3>1. ASSUME NEW a \in Admin, Call(a) \/ Handle(a) \/ Register(a), ~ Save(a)
          PROVE  UNCHANGED device_shadow
      BY <3>1 DEF Call, Handle, Check, Load, SaveFails, Publish, Register, InsertDevice, tables
    <3>2. ASSUME Puback \/ ConnectionLost PROVE UNCHANGED device_shadow
      BY <3>2 DEF Puback, ConnectionLost, tables
    <3>3. UNCHANGED <<inbox, kept>>
      BY <2>2 DEF loop
    <3>. QED
      BY <2>1, <2>2, <3>1, <3>2, <3>3, SavePatches, UnregisterDeletes DEF Cloud
  <2>3. CASE \/ UNCHANGED allVars \/ Deliver
             \/ \E d \in DeviceId : Link(d) \/ Unlink(d)
    <3>1. UNCHANGED <<device_shadow, inbox, kept>>
      BY <2>3 DEF allVars, vars, loop, Deliver, Transmit, Link, Unlink, tables
    <3>. QED
      BY <2>1, <3>1
  <2>4. CASE ProcessRestart \/ Lose
    <3>1. UNCHANGED device_shadow /\ EndSession /\ kept' = kept
      BY <2>4 DEF ProcessRestart, Restart, Lose, vars, tables
    <3>. QED
      BY <3>1, SessionEndMisses, LossMisses
  <2>5. CASE Subscribe
    <3>1. UNCHANGED device_shadow
      BY <2>5 DEF Subscribe, vars, tables
    <3>. QED
      BY <2>5, <3>1, SubscribeComes, Stutters
  <2>6. ASSUME NEW d \in DeviceId, Apply(d) \/ ReportState(d)
        PROVE  [Contract!Next]_Contract!cvars
    <3>1. \E doc \in Doc : Tell(d, doc)
      BY <2>6, DesiredAssumption DEF Apply, ReportState, WayTyped
    <3>2. session' = session /\ UNCHANGED device_shadow
      BY <2>6 DEF Apply, ReportState, vars, tables
    <3>. QED
      BY <3>1, <3>2, TellSays
  <2>. QED
    BY <2>2, <2>3, <2>4, <2>5, <2>6, ReportShows DEF LoopNext
<1>3. LoopInit /\ [][LoopNext]_allVars => []ContractInv
  BY ContractInductive, PTL
<1>4. LoopInit /\ [][LoopNext]_allVars => []LoopTyped
  BY LoopTypedInductive, PTL
<1>. QED
  BY <1>1, <1>2, <1>3, <1>4, PTL DEF LoopSpec, KeepsContract, Contract!Spec
=============================================================================
