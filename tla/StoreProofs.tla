----------------------------- MODULE StoreProofs ----------------------------
(***************************************************************************)
(* What the transactions on the tables keep, whichever component commits   *)
(* them: the types of the rows and the integrity between the tables.       *)
(***************************************************************************)
EXTENDS Store, TLAPS

(* A document merged with a delta is a document. *)
LEMMA MergeType ==
    ASSUME NEW doc \in Doc, NEW delta \in Doc
    PROVE  Merge(doc, delta) \in Doc
BY DEF Merge, Doc

(* The empty document is a document. *)
LEMMA EmptyDocType == EmptyDoc \in Doc
BY DEF EmptyDoc, Doc

(* An upsert adds the id to the table's keys and keeps the row type. *)
LEMMA UpsertType ==
    ASSUME NEW table, NEW id, NEW Row, NEW row \in Row,
           table \in [DOMAIN table -> Row]
    PROVE  /\ DOMAIN Upsert(table, id, row) = DOMAIN table \cup {id}
           /\ Upsert(table, id, row) \in [DOMAIN table \cup {id} -> Row]
           /\ Upsert(table, id, row)[id] = row
           /\ \A x \in DOMAIN table \ {id} : Upsert(table, id, row)[x] = table[x]
BY DEF Upsert

(* A deletion takes the id from the table's keys and keeps the row type. *)
LEMMA WithoutType ==
    ASSUME NEW table, NEW id, NEW Row, table \in [DOMAIN table -> Row]
    PROVE  /\ DOMAIN Without(table, id) = DOMAIN table \ {id}
           /\ Without(table, id) \in [DOMAIN table \ {id} -> Row]
           /\ \A x \in DOMAIN table \ {id} : Without(table, id)[x] = table[x]
BY DEF Without, Restrict

(* load_shadow returns a row, also when there is none in the table. *)
LEMMA LoadShadowType ==
    ASSUME StoreTypeOK, NEW d
    PROVE  load_shadow(d) \in ShadowRow
BY EmptyDocType DEF StoreTypeOK, load_shadow, FreshShadow, ShadowRow

(* So does the lookup the COALESCE of the status upsert makes. *)
LEMMA StateOfType ==
    ASSUME StoreTypeOK, NEW d
    PROVE  StateOf(d) \in StateRow
BY DEF StoreTypeOK, StateOf, FreshState, StateRow

(* The empty tables are typed and fit together. *)
LEMMA StoreInitOK ==
    ASSUME StoreInit
    PROVE  StoreTypeOK /\ Integrity
BY DEF StoreInit, StoreTypeOK, Integrity, EmptyTable, Registered

(* create_device's two INSERTs keep types and integrity. *)
LEMMA InsertDeviceOK ==
    ASSUME StoreTypeOK, Integrity, NEW d \in DeviceId, NEW g \in GroupId,
           InsertDevice(d, g)
    PROVE  /\ StoreTypeOK' /\ Integrity'
           /\ Registered' = Registered \cup {d}
<1>1. FreshState \in StateRow
  BY DEF FreshState, StateRow
<1>2. /\ DOMAIN devices' = Registered \cup {d}
      /\ devices' \in [Registered \cup {d} -> GroupId]
  BY UpsertType DEF InsertDevice, StoreTypeOK, Registered
<1>3. /\ DOMAIN device_state' = DOMAIN device_state \cup {d}
      /\ device_state' \in [DOMAIN device_state \cup {d} -> StateRow]
  BY <1>1, UpsertType DEF InsertDevice, StoreTypeOK
<1>4. UNCHANGED device_shadow
  BY DEF InsertDevice
<1>. QED
  BY <1>2, <1>3, <1>4 DEF StoreTypeOK, Integrity, Registered

(* A change of one device's group keeps the ids and the types. *)
LEMMA UpdateGroupOK ==
    ASSUME StoreTypeOK, Integrity, NEW d \in DeviceId, NEW g \in GroupId,
           UpdateGroup(d, g)
    PROVE  StoreTypeOK' /\ Integrity' /\ Registered' = Registered
BY DEF UpdateGroup, StoreTypeOK, Integrity, Registered

(* So does moving all the members of a group to the default one. *)
LEMMA RehomeGroupOK ==
    ASSUME StoreTypeOK, Integrity, NEW g \in GroupId, RehomeGroup(g)
    PROVE  StoreTypeOK' /\ Integrity' /\ Registered' = Registered
BY StoreAssumption DEF RehomeGroup, StoreTypeOK, Integrity, Registered

(* The cascade of a DELETE keeps the three tables together. *)
LEMMA DeleteDeviceOK ==
    ASSUME StoreTypeOK, Integrity, NEW d \in DeviceId, DeleteDevice(d)
    PROVE  /\ StoreTypeOK' /\ Integrity'
           /\ Registered' = Registered \ {d}
<1>1. /\ DOMAIN devices' = Registered \ {d}
      /\ devices' \in [Registered \ {d} -> GroupId]
  BY WithoutType DEF DeleteDevice, StoreTypeOK, Registered
<1>2. /\ DOMAIN device_state' = DOMAIN device_state \ {d}
      /\ device_state' \in [DOMAIN device_state \ {d} -> StateRow]
  BY WithoutType DEF DeleteDevice, StoreTypeOK
<1>3. /\ DOMAIN device_shadow' = DOMAIN device_shadow \ {d}
      /\ device_shadow' \in [DOMAIN device_shadow \ {d} -> ShadowRow]
  BY WithoutType DEF DeleteDevice, StoreTypeOK
<1>. QED
  BY <1>1, <1>2, <1>3 DEF StoreTypeOK, Integrity, Registered

(* The foreign key makes the upsert of a PATCH safe: it never leaves a     *)
(* shadow without its device.                                              *)
LEMMA SaveDesiredOK ==
    ASSUME StoreTypeOK, Integrity, NEW d \in DeviceId, NEW doc \in Doc,
           SaveDesired(d, doc)
    PROVE  StoreTypeOK' /\ Integrity' /\ Registered' = Registered
<1>1. [load_shadow(d) EXCEPT !.desired = doc] \in ShadowRow
  BY LoadShadowType DEF ShadowRow
<1>2. /\ DOMAIN device_shadow' = DOMAIN device_shadow \cup {d}
      /\ device_shadow' \in [DOMAIN device_shadow \cup {d} -> ShadowRow]
  BY <1>1, UpsertType DEF SaveDesired, StoreTypeOK
<1>. QED
  BY <1>2 DEF SaveDesired, StoreTypeOK, Integrity, Registered

(* The same of the bridge's write of a report, *)
LEMMA SaveReportedOK ==
    ASSUME StoreTypeOK, Integrity, NEW d \in DeviceId, NEW doc \in Doc,
           SaveReported(d, doc)
    PROVE  StoreTypeOK' /\ Integrity' /\ Registered' = Registered
<1>1. [load_shadow(d) EXCEPT !.reported = doc] \in ShadowRow
  BY LoadShadowType DEF ShadowRow
<1>2. /\ DOMAIN device_shadow' = DOMAIN device_shadow \cup {d}
      /\ device_shadow' \in [DOMAIN device_shadow \cup {d} -> ShadowRow]
  BY <1>1, UpsertType DEF SaveReported, StoreTypeOK
<1>3. /\ DOMAIN device_state' = DOMAIN device_state
      /\ device_state' \in [DOMAIN device_state -> StateRow]
  BY DEF SaveReported, StoreTypeOK, StateRow
<1>. QED
  BY <1>2, <1>3 DEF SaveReported, StoreTypeOK, Integrity, Registered

(* and of its upsert of a status. *)
LEMMA SaveStatusOK ==
    ASSUME StoreTypeOK, Integrity, NEW d \in DeviceId, NEW on \in BOOLEAN,
           NEW fw \in Version \cup {Null}, NEW ins \in Version \cup {Null},
           SaveStatus(d, on, fw, ins)
    PROVE  StoreTypeOK' /\ Integrity' /\ Registered' = Registered
<1> DEFINE row == [online |-> on, last_seen |-> TRUE,
                   firmware_version |->
                     Coalesce(ins, Coalesce(fw, StateOf(d).firmware_version))]
<1>1. row \in StateRow
  BY StateOfType DEF StateRow, Coalesce
<1>2. /\ DOMAIN device_state' = DOMAIN device_state \cup {d}
      /\ device_state' \in [DOMAIN device_state \cup {d} -> StateRow]
  <2>1. device_state' = Upsert(device_state, d, row)
    BY DEF SaveStatus
  <2>. HIDE DEF row
  <2>. QED
    BY <1>1, <2>1, UpsertType DEF StoreTypeOK
<1>. QED
  BY <1>2 DEF SaveStatus, StoreTypeOK, Integrity, Registered

(* What a reader of the shadow sees after an upsert. *)
LEMMA ShadowAfterUpsert ==
    ASSUME NEW d, NEW row, device_shadow' = Upsert(device_shadow, d, row)
    PROVE  /\ load_shadow(d)' = row
           /\ \A x : x # d => load_shadow(x)' = load_shadow(x)
BY DEF Upsert, load_shadow

(* The commit of a PATCH changes the desired column of one row, *)
LEMMA ShadowAfterDesired ==
    ASSUME NEW d, NEW doc, SaveDesired(d, doc)
    PROVE  /\ load_shadow(d)' = [load_shadow(d) EXCEPT !.desired = doc]
           /\ \A x : x # d => load_shadow(x)' = load_shadow(x)
<1> DEFINE row == [load_shadow(d) EXCEPT !.desired = doc]
<1>1. device_shadow' = Upsert(device_shadow, d, row)
  BY DEF SaveDesired
<1>. HIDE DEF row
<1>2. load_shadow(d)' = row /\ \A x : x # d => load_shadow(x)' = load_shadow(x)
  BY <1>1, ShadowAfterUpsert
<1>. QED
  BY <1>2 DEF row

(* that of a report changes no desired column, *)
LEMMA ShadowAfterReport ==
    ASSUME StoreTypeOK, NEW d, NEW doc \in Doc, SaveReported(d, doc)
    PROVE  \A x : load_shadow(x)'.desired = load_shadow(x).desired
<1> DEFINE row == [load_shadow(d) EXCEPT !.reported = doc]
<1>1. device_shadow' = Upsert(device_shadow, d, row)
  BY DEF SaveReported
<1>2. row.desired = load_shadow(d).desired
  BY LoadShadowType DEF ShadowRow
<1>. HIDE DEF row
<1>3. load_shadow(d)' = row /\ \A x : x # d => load_shadow(x)' = load_shadow(x)
  BY <1>1, ShadowAfterUpsert
<1>4. ASSUME NEW x PROVE load_shadow(x)'.desired = load_shadow(x).desired
  <2>1. CASE x = d
    BY <1>2, <1>3, <2>1
  <2>2. CASE x # d
    <3>1. load_shadow(x)' = load_shadow(x)
      BY <1>3, <2>2
    <3>. QED
      BY <3>1
  <2>. QED
    BY <2>1, <2>2
<1>. QED
  BY <1>4

(* and the deletion of a device leaves an empty shadow behind. *)
LEMMA ShadowAfterDelete ==
    ASSUME NEW d, DeleteDevice(d)
    PROVE  /\ load_shadow(d)' = FreshShadow
           /\ \A x : x # d => load_shadow(x)' = load_shadow(x)
BY DEF DeleteDevice, load_shadow, Without, Restrict
=============================================================================
