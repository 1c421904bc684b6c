-------------------------------- MODULE Store -------------------------------
(***************************************************************************)
(* The SQLite tables about devices (app/db.py) and the transactions the    *)
(* components commit on them.                                              *)
(*                                                                         *)
(* Python's sqlite3 opens a transaction at the first INSERT, UPDATE or     *)
(* DELETE of a connection and holds the write lock until the commit, so    *)
(* the statements of a handler from its first write to its commit are one  *)
(* atomic step.  A SELECT before it is a step of its own: another thread   *)
(* may commit in between.                                                  *)
(*                                                                         *)
(* A table is a function from the primary keys it holds to rows.           *)
(* Timestamps are reduced to whether there is one; cert_cn, password_hash, *)
(* attributes and created_at are columns no property tells apart, and      *)
(* ip_address is written exactly as firmware_version is.                   *)
(***************************************************************************)
EXTENDS Docs, Functions

CONSTANTS
    DeviceId,       \* device ids a request may name
    GroupId,        \* group ids a request may name
    DefaultGroup,   \* the group 'default' of init_db
    Version         \* firmware versions

ASSUME StoreAssumption == /\ DefaultGroup \in GroupId
                          /\ Null \notin Version

VARIABLES
    devices,        \* id -> group_id
    device_state,   \* device_id -> [online, last_seen, firmware_version]
    device_shadow   \* device_id -> [desired, reported]

tables == <<devices, device_state, device_shadow>>

StateRow == [online : BOOLEAN, last_seen : BOOLEAN,
             firmware_version : Version \cup {Null}]
ShadowRow == [desired : Doc, reported : Doc]

StoreTypeOK ==
    /\ DOMAIN devices \subseteq DeviceId
    /\ devices \in [DOMAIN devices -> GroupId]
    /\ DOMAIN device_state \subseteq DeviceId
    /\ device_state \in [DOMAIN device_state -> StateRow]
    /\ DOMAIN device_shadow \subseteq DeviceId
    /\ device_shadow \in [DOMAIN device_shadow -> ShadowRow]

EmptyTable == [d \in {} |-> {}]

StoreInit == /\ devices = EmptyTable
             /\ device_state = EmptyTable
             /\ device_shadow = EmptyTable

(***************************************************************************)
(* Rows.                                                                   *)
(***************************************************************************)
Registered == DOMAIN devices

(* INSERT ... ON CONFLICT(id) DO UPDATE, and the two ways a row goes. *)
Upsert(table, id, row) ==
    [x \in DOMAIN table \cup {id} |-> IF x = id THEN row ELSE table[x]]
Without(table, id) == Restrict(table, DOMAIN table \ {id})

FreshState == [online |-> FALSE, last_seen |-> FALSE, firmware_version |-> Null]
FreshShadow == [desired |-> EmptyDoc, reported |-> EmptyDoc]

(* load_shadow: two empty objects when there is no row. *)
load_shadow(d) == IF d \in DOMAIN device_shadow THEN device_shadow[d] ELSE FreshShadow
StateOf(d) == IF d \in DOMAIN device_state THEN device_state[d] ELSE FreshState

(* COALESCE(new, old). *)
Coalesce(new, old) == IF new = Null THEN old ELSE new

(* Faulty variants, which the runs must tell from the code: INSERT OR      *)
(* REPLACE, a state row left to the device's first status, foreign keys    *)
(* switched off, members left in their group, a shadow row replaced as a   *)
(* whole, a status upsert without COALESCE or with MAX(online).            *)
InsertDeviceReplacing(d, g) ==
    /\ devices' = Upsert(devices, d, g)
    /\ device_state' = Upsert(device_state, d, FreshState)
    /\ UNCHANGED device_shadow

InsertDeviceStateless(d, g) ==
    /\ d \notin Registered
    /\ devices' = Upsert(devices, d, g)
    /\ UNCHANGED <<device_state, device_shadow>>

DeleteDeviceAlone(d) ==
    /\ devices' = Without(devices, d)
    /\ UNCHANGED <<device_state, device_shadow>>

RehomeNone(g) == UNCHANGED tables

SaveDesiredReplacing(d, doc) ==
    /\ d \in Registered
    /\ device_shadow' = Upsert(device_shadow, d, [FreshShadow EXCEPT !.desired = doc])
    /\ UNCHANGED <<devices, device_state>>

SaveStatusAsGiven(d, isOnline, firmware, installed) ==
    /\ d \in Registered
    /\ device_state' = Upsert(device_state, d,
         [online |-> isOnline, last_seen |-> TRUE,
          firmware_version |-> Coalesce(installed, firmware)])
    /\ UNCHANGED <<devices, device_shadow>>

SaveStatusOnlineOnce(d, isOnline, firmware, installed) ==
    /\ d \in Registered
    /\ device_state' = Upsert(device_state, d,
         [online |-> isOnline \/ StateOf(d).online, last_seen |-> TRUE,
          firmware_version |->
             Coalesce(installed, Coalesce(firmware, StateOf(d).firmware_version))])
    /\ UNCHANGED <<devices, device_shadow>>

(***************************************************************************)
(* Transactions.  A guard is a constraint of the schema; a transaction     *)
(* whose guard is false raises IntegrityError and is rolled back.          *)
(***************************************************************************)
InsertDevice(d, g) ==
    /\ d \notin Registered                      \* devices.id PRIMARY KEY
    /\ devices' = Upsert(devices, d, g)
    /\ device_state' = Upsert(device_state, d, FreshState)
    /\ UNCHANGED device_shadow

UpdateGroup(d, g) ==
    /\ devices' = [x \in Registered |-> IF x = d THEN g ELSE devices[x]]
    /\ UNCHANGED <<device_state, device_shadow>>

(* ON DELETE CASCADE takes the rows of the two other tables along. *)
DeleteDevice(d) ==
    /\ devices' = Without(devices, d)
    /\ device_state' = Without(device_state, d)
    /\ device_shadow' = Without(device_shadow, d)

RehomeGroup(g) ==
    /\ devices' = [x \in Registered |-> IF devices[x] = g THEN DefaultGroup ELSE devices[x]]
    /\ UNCHANGED <<device_state, device_shadow>>

SaveDesired(d, doc) ==
    /\ d \in Registered                         \* REFERENCES devices(id)
    /\ device_shadow' = Upsert(device_shadow, d, [load_shadow(d) EXCEPT !.desired = doc])
    /\ UNCHANGED <<devices, device_state>>

SaveReported(d, doc) ==
    /\ d \in Registered
    /\ device_shadow' = Upsert(device_shadow, d, [load_shadow(d) EXCEPT !.reported = doc])
    /\ device_state' = [x \in DOMAIN device_state |->
                          IF x = d THEN [device_state[x] EXCEPT !.last_seen = TRUE]
                                   ELSE device_state[x]]
    /\ UNCHANGED devices

(* The status upsert; installed is the version an OTA report brings, or    *)
(* Null, and overwrites the column after the COALESCE.                     *)
SaveStatus(d, isOnline, firmware, installed) ==
    /\ d \in Registered
    /\ device_state' = Upsert(device_state, d,
         [online |-> isOnline, last_seen |-> TRUE,
          firmware_version |->
             Coalesce(installed, Coalesce(firmware, StateOf(d).firmware_version))])
    /\ UNCHANGED <<devices, device_shadow>>

(***************************************************************************)
(* What the schema and the handlers keep between the tables: every device  *)
(* has its state row, and no row outlives or precedes its device.          *)
(***************************************************************************)
Integrity == /\ DOMAIN device_state = Registered
             /\ DOMAIN device_shadow \subseteq Registered
=============================================================================
