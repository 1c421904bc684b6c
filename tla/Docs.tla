-------------------------------- MODULE Docs --------------------------------
(***************************************************************************)
(* The JSON objects a device shadow is made of, and the three operations   *)
(* the code has on them: the key-level overwrite of a PATCH, the lookup    *)
(* with a default, and the delta between what is desired and what the      *)
(* device reports (app/shadow.py).                                         *)
(*                                                                         *)
(* An object is a function on the whole set of keys in which a key the     *)
(* object does not have is Absent.  JSON's null is a value like any other: *)
(* a key may be present with the value Null.                               *)
(***************************************************************************)
EXTENDS Integers

CONSTANTS
    Key,        \* the keys of the JSON objects
    Value,      \* the values other than null
    Null,       \* JSON null, Python's None
    Absent      \* the mark of a key that an object does not have

ASSUME DocAssumption == /\ Null \notin Value
                        /\ Absent \notin Value \cup {Null}

JsonValue == Value \cup {Null}
Doc == [Key -> JsonValue \cup {Absent}]
EmptyDoc == [k \in Key |-> Absent]

(* The keys of an object. *)
KeysOf(doc) == {k \in Key : doc[k] # Absent}

(* doc.update(delta): every key of delta is overwritten, the others stay. *)
Merge(doc, delta) == [k \in Key |-> IF delta[k] = Absent THEN doc[k] ELSE delta[k]]

(* doc.get(k): None when the key is absent. *)
Get(doc, k) == IF doc[k] = Absent THEN Null ELSE doc[k]

(* Faulty variant: only the keys that are not reported at all. *)
DeltaOfMissing(desired, reported) ==
    [k \in Key |-> IF reported[k] = Absent THEN desired[k] ELSE Absent]

(* The items of desired whose value is not the one reported.get returns.   *)
(* A key desired as null and not reported is therefore left out.           *)
compute_delta(desired, reported) ==
    [k \in Key |-> IF desired[k] # Absent /\ Get(reported, k) # desired[k]
                   THEN desired[k] ELSE Absent]
=============================================================================
