----------------------------- MODULE Ownership -----------------------------
(***************************************************************************)
(* What the gateway promises the member about the inverter, without the    *)
(* files, processes and timers that keep the promise (core.js, "Haupt-     *)
(* schalter AUS heisst ..."; inverters/failsafe-modbus.md, section 6).     *)
(*                                                                         *)
(* The device belongs to Stromkreis, is being left, or is the member's.    *)
(* What lands while it is being left was decided before; from then on only *)
(* the member commands it.  Two exceptions are part of the promise, and    *)
(* both need a fault: a window may stay behind on the member's device when *)
(* the write that should have cleared it was lost, and a reset is sent     *)
(* again when nobody can tell whether the last one was.                    *)
(***************************************************************************)
VARIABLES
    owner,       \* "stromkreis", "leaving" or "member"
    inverter,    \* what is set on the device
    fault        \* a write has been lost, or a file cannot be trusted

ownVars == <<owner, inverter, fault>>

Init ==
    /\ owner = "stromkreis"
    /\ inverter = "factory"
    /\ fault \in BOOLEAN

\* Stromkreis writes a window or resets the device to factory behaviour.
Write ==
    /\ owner = "stromkreis"
    /\ inverter' \in {"factory", "window"}
    /\ UNCHANGED owner

HandOver ==
    /\ owner = "stromkreis"
    /\ owner' \in {"leaving", "member"}
    /\ UNCHANGED inverter

\* A reset on its way lands; a window does only behind a fault.
Land ==
    /\ owner = "leaving"
    /\ owner' \in {"leaving", "member"}
    /\ inverter' \in {"factory"} \cup IF fault THEN {"window"} ELSE {}

\* What was on its way is given up.
GiveUp ==
    /\ owner = "leaving"
    /\ owner' = "member"
    /\ UNCHANGED inverter

\* In doubt the reset is sent once more.
Doubt ==
    /\ owner = "member" /\ fault
    /\ owner' = "leaving"
    /\ UNCHANGED inverter

TakeBack ==
    /\ owner \in {"leaving", "member"}
    /\ owner' = "stromkreis"
    /\ UNCHANGED inverter

\* The member is not held back by anything but the main switch.
MemberWrite ==
    /\ inverter' = "member"
    /\ UNCHANGED owner

\* A window of Stromkreis that nobody clears any more.
Orphaned == owner = "member" /\ inverter = "window"

\* Faults come and go, but an orphaned window always has one behind it.
Next ==
    /\ \/ Write \/ HandOver \/ Land \/ GiveUp \/ Doubt \/ TakeBack
       \/ MemberWrite \/ UNCHANGED <<owner, inverter>>
    /\ fault' \in BOOLEAN
    /\ Orphaned' => fault'

Spec == Init /\ [][Next]_ownVars

=============================================================================
