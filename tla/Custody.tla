------------------------------ MODULE Custody -------------------------------
(***************************************************************************)
(* What the life cycle promises about a forwarder: who may still be using  *)
(* it when it is freed.  An operation is inside from its first look at the *)
(* forwarder to its last, and counted for a part of that, which may come   *)
(* several times or not at all.                                            *)
(*                                                                         *)
(* Plug-out is over when its last step has set the work to wait for the    *)
(* operations.  Who has come in by then is inside, counted or not, and the *)
(* forwarder is kept for them.  Who comes in later is at the door: kept    *)
(* for while counted, and on its own if it is not when the forwarder goes. *)
(* A plug-in that fails waits for nobody.                                  *)
(*                                                                         *)
(* Lifetime shows that usb_driver.c implements this specification.         *)
(***************************************************************************)
CONSTANT Users       \* programs

VARIABLES phase,     \* "plugging", "alive", "leaving", "waiting", "freed", "unwound"
          inside,    \* programs in an operation begun before the wait
          door,      \* programs in an operation begun during the wait
          counted    \* those of both that are counted

custodyVars == <<phase, inside, door, counted>>

CustodyInit == phase = "plugging" /\ inside = {} /\ door = {} /\ counted = {}

Enter(u) == /\ phase \in {"plugging", "alive", "leaving"}
            /\ u \notin inside \cup door
            /\ inside' = inside \cup {u}
            /\ UNCHANGED <<phase, door, counted>>

Knock(u) == /\ phase = "waiting"
            /\ u \notin inside \cup door
            /\ door' = door \cup {u}
            /\ UNCHANGED <<phase, inside, counted>>

Stay     == UNCHANGED <<inside, door>>
GoOut(u) == inside' = inside \ {u} /\ door' = door \ {u}

Count(u) == /\ u \in (inside \cup door) \ counted
            /\ counted' = counted \cup {u}
            /\ Stay
            /\ UNCHANGED phase

(* The last step of an operation, or not yet. *)
Uncount(u) == /\ u \in counted
              /\ counted' = counted \ {u}
              /\ Stay \/ GoOut(u)
              /\ UNCHANGED phase

(* Refused, or ended without a command. *)
Leave(u) == /\ u \in (inside \cup door) \ counted
            /\ GoOut(u)
            /\ UNCHANGED <<phase, counted>>

Turn(from, to) == phase = from /\ phase' = to /\ UNCHANGED <<inside, door, counted>>

PlugIn  == Turn("plugging", "alive")
Unwind  == Turn("plugging", "unwound")
Unplug  == Turn("alive", "leaving")
BidWait == Turn("leaving", "waiting")

Free == /\ phase = "waiting"
        /\ inside = {} /\ counted = {}
        /\ phase' = "freed"
        /\ door' = {}
        /\ UNCHANGED <<inside, counted>>

CustodyNext == \/ PlugIn \/ Unwind \/ Unplug \/ BidWait \/ Free
               \/ \E u \in Users : Enter(u) \/ Knock(u) \/ Count(u) \/ Uncount(u) \/ Leave(u)

CustodySpec == CustodyInit /\ [][CustodyNext]_custodyVars
=============================================================================
