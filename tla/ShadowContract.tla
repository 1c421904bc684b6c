--------------------------- MODULE ShadowContract ---------------------------
(***************************************************************************)
(* What the device shadow promises to whoever reads it, and what the       *)
(* handlers of app/shadow.py, the publisher, the devices and the bridge    *)
(* are to bring about together: a PATCH overwrites the keys it names in    *)
(* the desired object of one device and touches nothing else; what is      *)
(* shown as reported is what that very device has reported, whatever that  *)
(* is, whole and never older than what was shown before; and a deletion    *)
(* takes both.  A report may get lost.                                     *)
(***************************************************************************)
EXTENDS Docs, Sequences

CONSTANTS DeviceId, Patches

VARIABLES
    wanted,         \* device -> its desired object
    shown,          \* device -> what it is shown to report
    coming          \* device -> its reports that may still be shown, in order

cvars == <<wanted, shown, coming>>

Init == /\ wanted = [d \in DeviceId |-> EmptyDoc]
        /\ shown = [d \in DeviceId |-> EmptyDoc]
        /\ coming = [d \in DeviceId |-> <<>>]

(* What is left of some reports when the first of them are lost. *)
Suffixes(s) == {SubSeq(s, n, Len(s)) : n \in 1..Len(s) + 1}

Patch(d) ==
    /\ \E delta \in Patches : wanted' = [wanted EXCEPT ![d] = Merge(@, delta)]
    /\ UNCHANGED <<shown, coming>>

(* A device reports anything; what it reported before may be lost by that. *)
Say(d) ==
    /\ \E doc \in Doc, rest \in Suffixes(coming[d]) :
         coming' = [coming EXCEPT ![d] = Append(rest, doc)]
    /\ UNCHANGED <<wanted, shown>>

(* The first report is shown; it may come again as long as it is the last. *)
Show(d) ==
    /\ coming[d] # <<>>
    /\ shown' = [shown EXCEPT ![d] = Head(coming[d])]
    /\ \/ coming' = [coming EXCEPT ![d] = Tail(@)]
       \/ Len(coming[d]) = 1 /\ UNCHANGED coming
    /\ UNCHANGED wanted

(* Of some devices, the first reports are lost. *)
Miss ==
    /\ coming' = [d \in DeviceId |-> coming'[d]]
    /\ \A d \in DeviceId : coming'[d] \in Suffixes(coming[d])
    /\ UNCHANGED <<wanted, shown>>

Delete(d) == /\ wanted' = [wanted EXCEPT ![d] = EmptyDoc]
             /\ shown' = [shown EXCEPT ![d] = EmptyDoc]
             /\ UNCHANGED coming

Next == Miss \/ \E d \in DeviceId : Patch(d) \/ Say(d) \/ Show(d) \/ Delete(d)

Spec == Init /\ [][Next]_cvars
=============================================================================
