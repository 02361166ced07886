----------------------------- MODULE ErrorState -----------------------------
(***************************************************************************)
(* can.state of the network device.  decode_error (packet_codec.c) derives *)
(* it from the adapter's error reports and hands a device that is off the  *)
(* bus to the CAN core, which restarts it through pcan_net_set_can_mode;   *)
(* the completion of that bus-on arms restart_timer, and the timer makes   *)
(* the device active again.  Opening and closing write the state too, and  *)
(* nothing serialises the four.                                            *)
(*                                                                         *)
(* The CAN core and the network stack, as the driver uses them:            *)
(* can_bus_off takes the carrier away and schedules the restart work if    *)
(* restart_ms is set, can_restart expects the carrier to be off and puts   *)
(* it on again, open_candev puts it on, close_candev cancels the work and  *)
(* waits for it.  A device is marked running before it is opened, and      *)
(* between unmarking and stopping it the stack waits for the interrupt     *)
(* handlers under way.                                                     *)
(*                                                                         *)
(* Two assumptions on time: what decode_error does behind can_bus_off      *)
(* takes less than restart_ms, and what can_restart does behind do_set_mode *)
(* less than the 10 ms of restart_timer.  Not here: the queue of the       *)
(* device and the contents of frames.                                      *)
(***************************************************************************)
EXTENDS Integers, FiniteSets

CONSTANT MaxTransfers   \* bound on the bus-on commands under way at once

ASSUME ErrorAssumption == MaxTransfers \in Nat \ {0}

VARIABLES
    state,       \* can.state
    carrier,     \* netif_carrier_ok
    running,     \* netif_running
    npc,         \* where the open or stop of the device is
    hpc,         \* where decode_error is
    number,      \* the report it decodes
    new_state,   \* what it makes of it
    auto,        \* can.restart_ms # 0
    work,        \* the restart work is scheduled
    wpc,         \* where can_restart is
    transfers,   \* bus-on commands submitted and not completed
    timer,       \* restart_timer is pending
    failed,      \* history: a submission has failed since the last bus-off
    clean,       \* history: the device was Quiet when it was opened
    last         \* history: the report before, if nobody else wrote since

deviceVars  == <<carrier, running, npc>>
handlerVars == <<hpc, number, new_state>>
restartVars == <<auto, work, wpc, transfers, timer, failed>>
vars == <<state, deviceVars, handlerVars, restartVars, clean, last>>

States == {"STOPPED", "ACTIVE", "WARNING", "PASSIVE", "BUS_OFF"}

(* What a report can say; its other bits are not looked at.  A report of    *)
(* nothing but PCAN_USB_ERROR_QOVR is ignored as long as no time record has *)
(* been counted, and none ever is (ReferenceDormant of Codec_proofs).       *)
Bits    == {"light", "heavy", "off", "over"}
Reports == SUBSET Bits
Nothing == {"nothing"}    \* not a report

(* The bits in the order in which each state tests them. *)
Tested == [ACTIVE  |-> <<"light", "heavy", "off", "over">>,
           WARNING |-> <<"heavy", "off", "over", "light">>,
           PASSIVE |-> <<"off", "light", "over", "heavy">>]

Means == [light |-> "WARNING", heavy |-> "PASSIVE", off |-> "BUS_OFF", over |-> "MAX"]

(* The first bit found decides; without any the device is active again. *)
Verdict(s, n) ==
    LET found == {i \in 1..4 : Tested[s][i] \in n}
    IN IF found = {} THEN "ACTIVE"
       ELSE Means[Tested[s][CHOOSE i \in found : \A j \in found : i <= j]]

----------------------------------------------------------------------------
(* decode_error, in the completion handler of a receive URB.                *)

Report(n) == /\ hpc = "idle"
             /\ running
             /\ number' = n
             /\ hpc' = "judge"
             /\ UNCHANGED <<state, deviceVars, new_state, restartVars, clean, last>>

(* A device off the bus waits for its restart; one without errors is active *)
(* at once.                                                                 *)
Judge == /\ hpc = "judge"
         /\ \/ /\ state \in {"BUS_OFF", "STOPPED"}
               /\ hpc' = "idle"
               /\ UNCHANGED <<state, new_state, last>>
            \/ /\ state \notin {"BUS_OFF", "STOPPED"}
               /\ new_state' = Verdict(state, number)
               /\ IF Verdict(state, number) = "ACTIVE"
                  THEN hpc' = "idle" /\ state' = "ACTIVE" /\ last' = number
                  ELSE hpc' = "compare" /\ UNCHANGED <<state, last>>
         /\ UNCHANGED <<deviceVars, number, restartVars, clean>>

(* Mutant: every report is posted. *)
CompareNever == /\ hpc = "compare"
                /\ hpc' = "report"
                /\ UNCHANGED <<state, deviceVars, number, new_state, restartVars, clean,
                               last>>

(* Nothing is posted of a state that has not changed, or without memory. *)
Compare == /\ hpc = "compare"
           /\ \/ state = new_state /\ hpc' = "idle" /\ last' = number
              \/ state # new_state /\ hpc' = "report" /\ UNCHANGED last
              \/ state # new_state /\ hpc' = "idle" /\ last' = Nothing
           /\ UNCHANGED <<state, deviceVars, number, new_state, restartVars, clean>>

(* Mutants: the mark of an overrun is stored for a state; the CAN core is   *)
(* not told of the bus-off.                                                 *)
PostMark == /\ hpc = "report"
            /\ hpc' = "store"
            /\ \/ /\ new_state = "BUS_OFF"
                  /\ carrier' = FALSE
                  /\ work' = (work \/ auto)
                  /\ failed' = FALSE
               \/ new_state # "BUS_OFF" /\ UNCHANGED <<carrier, work, failed>>
            /\ UNCHANGED <<state, running, npc, number, new_state, auto, wpc, transfers,
                           timer, clean, last>>

PostWithoutBusOff == /\ hpc = "report"
                     /\ hpc' = "store"
                     /\ new_state' = IF new_state = "MAX" THEN state ELSE new_state
                     /\ UNCHANGED <<state, deviceVars, number, restartVars, clean, last>>

(* can_bus_off comes before the state is stored; an overrun stores the      *)
(* state it reads here.                                                     *)
Post == /\ hpc = "report"
        /\ hpc' = "store"
        /\ \/ /\ new_state = "BUS_OFF"
              /\ carrier' = FALSE
              /\ work' = (work \/ auto)
              /\ failed' = FALSE
              /\ UNCHANGED new_state
           \/ /\ new_state # "BUS_OFF"
              /\ new_state' = IF new_state = "MAX" THEN state ELSE new_state
              /\ UNCHANGED <<carrier, work, failed>>
        /\ UNCHANGED <<state, running, npc, number, auto, wpc, transfers, timer, clean,
                       last>>

Store == /\ hpc = "store"
         /\ state' = new_state
         /\ last' = number
         /\ hpc' = "idle"
         /\ UNCHANGED <<deviceVars, number, new_state, restartVars, clean>>

----------------------------------------------------------------------------
(* The restart.                                                             *)

(* can_restart in the work queue, restart_ms after can_bus_off. *)
WorkRuns == /\ work
            /\ wpc = "idle"
            /\ hpc # "store"
            /\ work' = FALSE
            /\ wpc' = "set_mode"
            /\ UNCHANGED <<state, deviceVars, handlerVars, auto, transfers, timer, failed,
                           clean, last>>

(* `ip link set ... restart': can_restart_now, under the rtnl lock. *)
RestartNow == /\ ~auto /\ npc = "up" /\ state = "BUS_OFF"
              /\ wpc = "idle"
              /\ wpc' = "set_mode"
              /\ UNCHANGED <<state, deviceVars, handlerVars, auto, work, transfers, timer,
                             failed, clean, last>>

(* Mutant: the device is active as soon as the bus-on is submitted. *)
SetModeActive == /\ wpc = "set_mode"
                 /\ wpc' = "carrier"
                 /\ \/ timer /\ UNCHANGED <<state, transfers, failed>>
                    \/ /\ ~timer /\ transfers < MaxTransfers
                       /\ transfers' = transfers + 1
                       /\ state' = "ACTIVE"
                       /\ UNCHANGED failed
                    \/ /\ ~timer
                       /\ failed' = TRUE
                       /\ UNCHANGED <<state, transfers>>
                 /\ UNCHANGED <<deviceVars, handlerVars, auto, work, timer, clean, last>>

(* pcan_net_set_can_mode: busy as long as the timer is pending; the bus-on  *)
(* is submitted, or cannot be.                                              *)
SetMode == /\ wpc = "set_mode"
           /\ wpc' = "carrier"
           /\ \/ timer /\ UNCHANGED <<transfers, failed>>
              \/ /\ ~timer /\ transfers < MaxTransfers
                 /\ transfers' = transfers + 1
                 /\ UNCHANGED failed
              \/ /\ ~timer
                 /\ failed' = TRUE
                 /\ UNCHANGED transfers
           /\ UNCHANGED <<state, deviceVars, handlerVars, auto, work, timer, clean, last>>

CarrierOn == /\ wpc = "carrier"
             /\ wpc' = "idle"
             /\ carrier' = TRUE
             /\ UNCHANGED <<state, running, npc, handlerVars, auto, work, transfers, timer,
                            failed, clean, last>>

(* Mutant: a bus-on that has ended is forgotten. *)
CompletionUntimed == /\ transfers > 0
                     /\ wpc # "carrier"
                     /\ transfers' = transfers - 1
                     /\ UNCHANGED <<state, deviceVars, handlerVars, auto, work, wpc, timer,
                                    failed, clean, last>>

(* activate_timer_and_free_urb: it does not ask how the transfer ended.     *)
(* can_restart has come to its end before the timer armed here expires.     *)
Completion == /\ transfers > 0
              /\ wpc # "carrier"
              /\ transfers' = transfers - 1
              /\ timer' = TRUE
              /\ UNCHANGED <<state, deviceVars, handlerVars, auto, work, wpc, failed,
                             clean, last>>

(* network_up_callback, of a closed device too: nothing cancels the timer. *)
WakeUp == /\ timer
          /\ timer' = FALSE
          /\ state' = "ACTIVE"
          /\ last' = Nothing
          /\ UNCHANGED <<deviceVars, handlerVars, auto, work, wpc, transfers, failed, clean>>

----------------------------------------------------------------------------
(* Opening and closing, under the rtnl lock.                                *)

(* No restart is scheduled or under way, and the device looks stopped. *)
Quiet == ~work /\ wpc = "idle" /\ transfers = 0 /\ ~timer /\ state = "STOPPED"

(* By the next open a handler that met a failed one has ended. *)
Open == /\ npc = "down"
        /\ hpc = "idle"
        /\ npc' = "opening"
        /\ running' = TRUE
        /\ carrier' = TRUE
        /\ clean' = Quiet
        /\ UNCHANGED <<state, handlerVars, restartVars, last>>

(* The end of start_can_interface. *)
Opened == /\ npc = "opening"
          /\ npc' = "up"
          /\ state' = "ACTIVE"
          /\ last' = Nothing
          /\ UNCHANGED <<carrier, running, handlerVars, restartVars, clean>>

(* A start command has failed: close_candev, and no more waiting. *)
OpenFails == /\ npc = "opening"
             /\ wpc = "idle"
             /\ npc' = "down"
             /\ running' = FALSE
             /\ work' = FALSE
             /\ UNCHANGED <<state, carrier, handlerVars, auto, wpc, transfers, timer, failed,
                            clean, last>>

Stop == /\ npc = "up"
        /\ auto \/ wpc = "idle"
        /\ npc' = "stopping"
        /\ running' = FALSE
        /\ UNCHANGED <<state, carrier, handlerVars, restartVars, clean, last>>

(* Mutant: the candev is left open. *)
StopKeepsWork == /\ npc = "stopping"
                 /\ hpc = "idle"
                 /\ npc' = "stopped"
                 /\ UNCHANGED <<state, carrier, running, handlerVars, restartVars, clean,
                                last>>

(* close_candev *)
StopCancels == /\ npc = "stopping"
               /\ hpc = "idle" /\ wpc = "idle"
               /\ work' = FALSE
               /\ npc' = "stopped"
               /\ UNCHANGED <<state, carrier, running, handlerVars, auto, wpc, transfers,
                              timer, failed, clean, last>>

Stopped == /\ npc = "stopped"
           /\ state' = "STOPPED"
           /\ npc' = "down"
           /\ last' = Nothing
           /\ UNCHANGED <<carrier, running, handlerVars, restartVars, clean>>

(* `ip link set ... restart-ms', refused while the device is up. *)
SetRestartMs == /\ npc = "down"
                /\ auto' = ~auto
                /\ UNCHANGED <<state, deviceVars, handlerVars, work, wpc, transfers, timer,
                               failed, clean, last>>

----------------------------------------------------------------------------
Init == /\ state = "STOPPED"
        /\ carrier = FALSE /\ running = FALSE /\ npc = "down"
        /\ hpc = "idle" /\ number = {} /\ new_state = "ACTIVE"
        /\ auto \in BOOLEAN
        /\ work = FALSE /\ wpc = "idle" /\ transfers = 0 /\ timer = FALSE
        /\ failed = FALSE /\ clean = TRUE /\ last = Nothing

HandlerRuns == Judge \/ Compare \/ Post \/ Store
RestartRuns == SetMode \/ CarrierOn
DeviceRuns  == Opened \/ OpenFails \/ StopCancels \/ Stopped

Next == \/ \E n \in Reports : Report(n)
        \/ HandlerRuns
        \/ WorkRuns \/ RestartNow \/ RestartRuns \/ Completion \/ WakeUp
        \/ Open \/ Stop \/ DeviceRuns \/ SetRestartMs

(* The handler, the work, an open and a stop run on, a transfer ends, the   *)
(* timer expires.  Strongly: reports cannot keep the work from its turn.    *)
Fairness == /\ WF_vars(HandlerRuns) /\ WF_vars(RestartRuns) /\ WF_vars(DeviceRuns)
            /\ SF_vars(WorkRuns)
            /\ WF_vars(Completion) /\ WF_vars(WakeUp)

Spec == Init /\ [][Next]_vars /\ Fairness

----------------------------------------------------------------------------
(* Properties.                                                              *)

Kinds == /\ state \in States
         /\ npc \in {"down", "opening", "up", "stopping", "stopped"}
         /\ hpc \in {"idle", "judge", "compare", "report", "store"}
         /\ number \in Reports
         /\ new_state \in States \cup {"MAX"}
         /\ wpc \in {"idle", "set_mode", "carrier"}
         /\ transfers \in 0..MaxTransfers
         /\ last \in Reports \cup {Nothing}

Flags == /\ carrier \in BOOLEAN /\ running \in BOOLEAN /\ auto \in BOOLEAN
         /\ work \in BOOLEAN /\ timer \in BOOLEAN
         /\ failed \in BOOLEAN /\ clean \in BOOLEAN

(* Types; the mark of an overrun is never stored for a state. *)
TypeOK == Kinds /\ Flags

(* A device that is off the bus and up is on its way back: the restart is   *)
(* scheduled or running, its command under way, or the timer pending; only  *)
(* a command that could not be submitted ends that.                         *)
OnItsWayBack ==
    npc = "up" /\ state = "BUS_OFF" /\ auto /\ ~failed
        => work \/ wpc = "set_mode" \/ transfers > 0 \/ timer

(* Closing a device ends its restarting, however the close meets a report,  *)
(* if no earlier restart was left when it was opened (the timer of one may  *)
(* make the device look active while an open fails, which waits for no      *)
(* report).                                                                 *)
ClosedForGood ==
    npc \in {"stopped", "down"} /\ clean => ~work /\ wpc = "idle"

(* A report that says again what the one before it said is not posted       *)
(* again, as long as it names one condition.                                *)
PostedOnce ==
    hpc = "report" /\ Cardinality(number) = 1 /\ number # {"over"} => number # last

(* A device off the bus does come back. *)
Recovers ==
    npc = "up" /\ state = "BUS_OFF" /\ auto ~> state # "BUS_OFF" \/ failed

(* The CAN core's own condition (a BUG_ON): a scheduled restart finds the   *)
(* carrier off, unless the timer of an earlier opening interferes.          *)
RestartFindsCarrierOff ==
    [][clean /\ auto /\ wpc = "idle" /\ wpc' = "set_mode" => ~carrier]_vars

(* No report brings a device back that is off the bus, only its restart, an *)
(* open or a close: decode_error writes much later what it judged, and an   *)
(* "active" out of an older report would cut the restart short.             *)
BusOffStays ==
    [][state = "BUS_OFF" /\ state' # "BUS_OFF" => (timer /\ ~timer') \/ npc # npc']_vars
----------------------------------------------------------------------------
(* The inductive strengthening that the proofs of ErrorState_proofs use.    *)

(* A report under way has met a device on the bus, and only decode_error    *)
(* takes one off; what it stores is a state.                                *)
HandlerKnows ==
    /\ hpc \in {"compare", "report", "store"} => state # "BUS_OFF"
    /\ hpc \in {"compare", "report"} => new_state \in {"WARNING", "PASSIVE", "BUS_OFF", "MAX"}
    /\ hpc = "store" => new_state \in States

(* The device is marked running from its open to its stop. *)
RunningWhenOpen == running <=> npc \in {"opening", "up"}

(* A bus-off about to be stored has its restart scheduled. *)
Scheduled ==
    npc \in {"opening", "up"} /\ auto /\ hpc = "store" /\ new_state = "BUS_OFF" => work

(* A single condition is known by its state, as long as nobody else wrote.  *)
KnownBy(b) ==
    /\ last = {b} => state = Means[b]
    /\ hpc \in {"compare", "report", "store"} /\ number = {b} => new_state = Means[b]
    /\ hpc = "report" /\ number = {b} => number # last

LastKnown == \A b \in Bits \ {"over"} : KnownBy(b)

(* An open that found the device quiet leaves it so until it is up, a close *)
(* leaves no restart; a report that outlives a failed open finds STOPPED.   *)
Calm ==
    clean => /\ npc = "opening" => Quiet /\ hpc \in {"idle", "judge"}
             /\ npc \in {"stopped", "down"} =>
                    /\ ~work /\ wpc = "idle"
                    /\ hpc = "idle" \/ (hpc = "judge" /\ Quiet)

(* There is one restart at a time: scheduled, running, its command under    *)
(* way or its timer pending, and only of a device off the bus or about to   *)
(* be.                                                                      *)
OffBus     == state = "BUS_OFF" \/ (hpc = "store" /\ new_state = "BUS_OFF")
NoRestart  == ~work /\ wpc = "idle" /\ transfers = 0 /\ ~timer
OneRestart ==
    clean /\ auto /\ npc \in {"up", "stopping"} =>
        /\ state # "STOPPED" /\ (hpc = "store" => new_state # "STOPPED")
        /\ ~OffBus => NoRestart
        /\ hpc = "store" /\ new_state = "BUS_OFF" => work
        /\ work => ~carrier /\ wpc = "idle" /\ transfers = 0 /\ ~timer
        /\ wpc = "set_mode" => transfers = 0 /\ ~timer
        /\ wpc = "carrier" => transfers <= 1 /\ ~timer
        /\ transfers > 0 => transfers = 1 /\ ~timer

ErrInv == /\ TypeOK /\ HandlerKnows /\ RunningWhenOpen /\ Scheduled /\ OnItsWayBack
          /\ LastKnown /\ Calm /\ OneRestart
=============================================================================
