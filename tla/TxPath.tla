------------------------------- MODULE TxPath -------------------------------
(***************************************************************************)
(* The transmit path of the network device (netdev_operations.c):          *)
(* pcan_net_start_transmit claims one of the TX contexts, puts the frame   *)
(* into the CAN core's echo slot of the same number and submits the URB;   *)
(* usb_write_bulk_callback releases them and wakes the queue.              *)
(*                                                                         *)
(* Concurrency kept from the code: the network stack makes one transmit    *)
(* call at a time and the USB core one completion at a time, but the two   *)
(* run on different processors and no lock is shared: every access to the  *)
(* counter, to a context or to the queue state is a step of its own.       *)
(*                                                                         *)
(* The CAN core (echo slots, restart after a bus-off) and the network      *)
(* stack (queue state, device present) are modelled as the driver uses     *)
(* them.  The contents of a frame, statistics and time stamps are left     *)
(* out; a frame is the number of the transmit call that accepted it.       *)
(***************************************************************************)
EXTENDS Integers, FiniteSets

CONSTANTS
    MaxTxUrbs,   \* PCAN_USB_MAX_TX_URBS
    MaxFrames    \* bound: frames accepted in a behaviour

ASSUME TxAssumption == MaxTxUrbs \in Nat \ {0} /\ MaxFrames \in Nat

Contexts == 0..(MaxTxUrbs - 1)
Frames   == 1..MaxFrames
Nobody   == 0

Transfers == [ctx : Contexts, frame : Frames]

VARIABLES
    echo_index,      \* tx_contexts[i].echo_index: 0 if free, i + 1 if taken
    status,          \* tx_contexts[i].urb->status
    active_tx_urbs,  \* usb_forwarder_t
    echo_skb,        \* the CAN core's echo slots: a frame or Nobody
    submitted,       \* the transfers under way at the endpoint
    stopped,         \* the transmit queue is stopped
    up, present,     \* the device is open; it is attached
    restart,         \* of the controller: "none", "bus_off" or "timer"
    frames,          \* frames accepted so far
    xpc, ctx,        \* where pcan_net_start_transmit is, and its context
    cpc, done        \* where usb_write_bulk_callback is, and its transfer

contextVars == <<echo_index, status, active_tx_urbs, echo_skb, submitted>>
deviceVars  == <<stopped, up, present, restart>>
xmitVars    == <<frames, xpc, ctx>>
doneVars    == <<cpc, done>>
vars        == <<contextVars, deviceVars, xmitVars, doneVars>>

(* netif_device_detach *)
Detach == /\ present' = FALSE
          /\ stopped' = (stopped \/ up)

----------------------------------------------------------------------------
(* pcan_net_start_transmit.                                                 *)

(* The stack calls it for an open, attached device with a running queue.    *)
XmitBegin == /\ xpc = "idle"
             /\ up /\ present /\ ~stopped
             /\ frames < MaxFrames
             /\ xpc' = "scan"
             /\ ctx' = 0
             /\ UNCHANGED <<contextVars, deviceVars, doneVars, frames>>

(* Listen-only mode or an invalid skb, later an encoding error: dropped. *)
XmitDrop == /\ (xpc = "scan" /\ ctx = 0) \/ xpc = "mark"
            /\ xpc' = "idle"
            /\ frames' = frames + 1
            /\ UNCHANGED <<contextVars, deviceVars, doneVars, ctx>>

(* Mutant: the first context is taken for free. *)
ScanBlind == /\ xpc = "scan"
             /\ xpc' = "mark"
             /\ UNCHANGED <<contextVars, deviceVars, doneVars, frames, ctx>>

(* The contexts are looked at one after the other. *)
Scan == /\ xpc = "scan"
        /\ \/ /\ echo_index[ctx] = 0
              /\ xpc' = "mark"
              /\ UNCHANGED ctx
           \/ /\ echo_index[ctx] # 0
              /\ ctx + 1 \in Contexts
              /\ ctx' = ctx + 1
              /\ UNCHANGED xpc
           \/ /\ echo_index[ctx] # 0
              /\ ctx + 1 \notin Contexts
              /\ xpc' = "busy"
              /\ UNCHANGED ctx
        /\ UNCHANGED <<contextVars, deviceVars, doneVars, frames>>

(* NETDEV_TX_BUSY: the stack keeps the frame and calls again. *)
XmitBusy == /\ xpc = "busy"
            /\ xpc' = "idle"
            /\ UNCHANGED <<contextVars, deviceVars, doneVars, frames, ctx>>

Mark == /\ xpc = "mark"
        /\ echo_index' = [echo_index EXCEPT ![ctx] = ctx + 1]
        /\ frames' = frames + 1
        /\ xpc' = "put"
        /\ UNCHANGED <<status, active_tx_urbs, echo_skb, submitted, deviceVars,
                       doneVars, ctx>>

(* can_put_echo_skb: an occupied slot keeps what it has. *)
PutEcho == /\ xpc = "put"
           /\ echo_skb' = [echo_skb EXCEPT ![ctx] = IF @ = Nobody THEN frames ELSE @]
           /\ xpc' = "count"
           /\ UNCHANGED <<echo_index, status, active_tx_urbs, submitted, deviceVars,
                          doneVars, frames, ctx>>

CountUp == /\ xpc = "count"
           /\ active_tx_urbs' = active_tx_urbs + 1
           /\ xpc' = "submit"
           /\ UNCHANGED <<echo_index, status, echo_skb, submitted, deviceVars,
                          doneVars, frames, ctx>>

(* usb_submit_urb also resets the status of the URB. *)
SubmitOk == /\ xpc = "submit"
            /\ status' = [status EXCEPT ![ctx] = "inprogress"]
            /\ submitted' = submitted \cup {[ctx |-> ctx, frame |-> frames]}
            /\ xpc' = "check"
            /\ UNCHANGED <<echo_index, active_tx_urbs, echo_skb, deviceVars,
                           doneVars, frames, ctx>>

(* A refused submission may have reset the status too. *)
SubmitFail == /\ xpc = "submit"
              /\ \E s \in {status[ctx], "inprogress"} : status' = [status EXCEPT ![ctx] = s]
              /\ echo_skb' = [echo_skb EXCEPT ![ctx] = Nobody]
              /\ echo_index' = [echo_index EXCEPT ![ctx] = 0]
              /\ xpc' = "uncount"
              /\ UNCHANGED <<active_tx_urbs, submitted, deviceVars, doneVars,
                             frames, ctx>>

(* Mutant: the failed transfer stays counted. *)
UncountNever == /\ xpc = "uncount"
                /\ Detach \/ UNCHANGED <<present, stopped>>
                /\ xpc' = "idle"
                /\ UNCHANGED <<contextVars, up, restart, doneVars, frames, ctx>>

(* A device that is gone (-ENODEV) is detached. *)
Uncount == /\ xpc = "uncount"
           /\ active_tx_urbs' = active_tx_urbs - 1
           /\ Detach \/ UNCHANGED <<present, stopped>>
           /\ xpc' = "idle"
           /\ UNCHANGED <<echo_index, status, echo_skb, submitted, up, restart,
                          doneVars, frames, ctx>>

(* With all contexts taken the queue is stopped: a test, then a store. *)
Check == /\ xpc = "check"
         /\ xpc' = IF active_tx_urbs >= MaxTxUrbs THEN "stop" ELSE "idle"
         /\ UNCHANGED <<contextVars, deviceVars, doneVars, frames, ctx>>

StopQueue == /\ xpc = "stop"
             /\ stopped' = TRUE
             /\ xpc' = "idle"
             /\ UNCHANGED <<contextVars, up, present, restart, doneVars, frames, ctx>>

----------------------------------------------------------------------------
(* usb_write_bulk_callback.                                                 *)

(* A transfer ends, well or not: in the order of submission on the bus, in  *)
(* any order when the transfers are killed.                                 *)
Giveback(i) == /\ cpc = "idle"
               /\ \E t \in submitted :
                     /\ t.ctx = i
                     /\ done' = t
                     /\ submitted' = submitted \ {t}
               /\ \E s \in {"ok", "error"} : status' = [status EXCEPT ![i] = s]
               /\ cpc' = "uncount"
               /\ UNCHANGED <<echo_index, active_tx_urbs, echo_skb, deviceVars, xmitVars>>

(* Mutant: an ended transfer stays counted. *)
CompletionUncountNever == /\ cpc = "uncount"
                          /\ cpc' = "present"
                          /\ UNCHANGED <<contextVars, deviceVars, xmitVars, done>>

CompletionUncount == /\ cpc = "uncount"
                     /\ active_tx_urbs' = active_tx_urbs - 1
                     /\ cpc' = "present"
                     /\ UNCHANGED <<echo_index, status, echo_skb, submitted, deviceVars,
                                    xmitVars, done>>

(* Mutant: a closed device is taken for a detached one. *)
CompletionRunning == /\ cpc = "present"
                     /\ cpc' = IF up THEN "echo" ELSE "idle"
                     /\ UNCHANGED <<contextVars, deviceVars, xmitVars, done>>

(* Of a detached device nothing is released. *)
CompletionPresent == /\ cpc = "present"
                     /\ cpc' = IF present THEN "echo" ELSE "idle"
                     /\ UNCHANGED <<contextVars, deviceVars, xmitVars, done>>

(* Mutant: the echo slot keeps the frame. *)
GetEchoKept == /\ cpc = "echo"
               /\ cpc' = "release"
               /\ UNCHANGED <<contextVars, deviceVars, xmitVars, done>>

(* can_get_echo_skb loops the frame back and empties the slot. *)
GetEcho == /\ cpc = "echo"
           /\ echo_skb' = [echo_skb EXCEPT ![echo_index[done.ctx] - 1] = Nobody]
           /\ cpc' = "release"
           /\ UNCHANGED <<echo_index, status, active_tx_urbs, submitted, deviceVars,
                          xmitVars, done>>

ReleaseContext == /\ cpc = "release"
                  /\ echo_index' = [echo_index EXCEPT ![done.ctx] = 0]
                  /\ cpc' = "status"
                  /\ UNCHANGED <<status, active_tx_urbs, echo_skb, submitted, deviceVars,
                                 xmitVars, done>>

(* Mutant: the queue is woken only by the transfer that was one too many. *)
ReadStatusAtLimit ==
    /\ cpc = "status"
    /\ cpc' = IF status[done.ctx] = "ok" /\ active_tx_urbs = MaxTxUrbs - 1
              THEN "wake" ELSE "idle"
    /\ UNCHANGED <<contextVars, deviceVars, xmitVars, done>>

(* The status is read again after the release: a transmit may have          *)
(* resubmitted the URB by then.                                             *)
ReadStatus == /\ cpc = "status"
              /\ cpc' = IF status[done.ctx] = "ok" THEN "wake" ELSE "idle"
              /\ UNCHANGED <<contextVars, deviceVars, xmitVars, done>>

WakeQueue == /\ cpc = "wake"
             /\ stopped' = FALSE
             /\ cpc' = "idle"
             /\ UNCHANGED <<contextVars, up, present, restart, xmitVars, done>>

----------------------------------------------------------------------------
(* The rest of the system.                                                  *)

NetOpen == /\ ~up /\ present
           /\ up' = TRUE
           /\ stopped' = FALSE
           /\ UNCHANGED <<contextVars, present, restart, xmitVars, doneVars>>

(* The stack waits for a transmit call to end first; close_candev cancels   *)
(* the restart and empties the echo slots.  Transfers are left to end.      *)
NetStop == /\ up /\ xpc = "idle"
           /\ up' = FALSE
           /\ stopped' = TRUE
           /\ echo_skb' = [i \in Contexts |-> Nobody]
           /\ restart' = IF restart = "bus_off" THEN "none" ELSE restart
           /\ UNCHANGED <<echo_index, status, active_tx_urbs, submitted, present,
                          xmitVars, doneVars>>

(* decode_error sees the bus off. *)
BusOff == /\ up /\ restart = "none"
          /\ restart' = "bus_off"
          /\ UNCHANGED <<contextVars, stopped, up, present, xmitVars, doneVars>>

(* can_restart empties the echo slots, then has the bus switched on; the    *)
(* completion of that command sets the restart timer.                       *)
CanRestart == /\ restart = "bus_off"
              /\ echo_skb' = [i \in Contexts |-> Nobody]
              /\ restart' = "timer"
              /\ UNCHANGED <<echo_index, status, active_tx_urbs, submitted, stopped, up,
                             present, xmitVars, doneVars>>

(* network_up_callback, also of a device that has been closed meanwhile. *)
WakeUp == /\ restart = "timer"
          /\ restart' = "none"
          /\ stopped' = FALSE
          /\ UNCHANGED <<contextVars, up, present, xmitVars, doneVars>>

(* The device disappears: a receive URB cannot be resubmitted. *)
RxDetach == /\ present
            /\ Detach
            /\ UNCHANGED <<contextVars, up, restart, xmitVars, doneVars>>

----------------------------------------------------------------------------
Idle == /\ echo_index = [i \in Contexts |-> 0]
        /\ status = [i \in Contexts |-> "ok"]
        /\ active_tx_urbs = 0
        /\ echo_skb = [i \in Contexts |-> Nobody]
        /\ submitted = {}
        /\ present = TRUE
        /\ restart = "none"
        /\ frames = 0
        /\ xpc = "idle" /\ ctx = 0
        /\ cpc = "idle" /\ done = [ctx |-> 0, frame |-> Nobody]

Init == Idle /\ up = FALSE /\ stopped = TRUE

XmitRuns == \/ XmitDrop \/ Scan \/ XmitBusy \/ Mark \/ PutEcho \/ CountUp
            \/ SubmitOk \/ SubmitFail \/ Uncount \/ Check \/ StopQueue

CompletionRuns == \/ CompletionUncount \/ CompletionPresent \/ GetEcho
                  \/ ReleaseContext \/ ReadStatus \/ WakeQueue

Transmission == \/ XmitBegin \/ XmitRuns \/ CompletionRuns
                \/ \E i \in Contexts : Giveback(i)

Next == \/ Transmission
        \/ NetOpen \/ NetStop \/ BusOff \/ CanRestart \/ WakeUp \/ RxDetach

(* A transmit call and a completion run to their ends; the endpoint does    *)
(* not pass over a transfer for ever.                                       *)
Fairness == /\ WF_vars(XmitRuns) /\ WF_vars(CompletionRuns)
            /\ \A i \in Contexts : SF_vars(Giveback(i))

Spec == Init /\ [][Next]_vars /\ Fairness

(* An open device on which nothing goes wrong: no failure, no restart, no   *)
(* closing, no unplugging.                                                  *)
SmoothInit == Idle /\ up = TRUE /\ stopped = FALSE

NothingFails == xpc' # "uncount" /\ \A i \in Contexts : status'[i] # "error"

SmoothNext == Transmission /\ NothingFails

SmoothSpec == SmoothInit /\ [][SmoothNext]_vars /\ Fairness

----------------------------------------------------------------------------
(* Properties.                                                              *)

Shape == /\ echo_index \in [Contexts -> 0..MaxTxUrbs]
         /\ status \in [Contexts -> {"ok", "error", "inprogress"}]
         /\ active_tx_urbs \in Int
         /\ echo_skb \in [Contexts -> Frames \cup {Nobody}]
         /\ submitted \subseteq Transfers
         /\ stopped \in BOOLEAN /\ up \in BOOLEAN /\ present \in BOOLEAN
         /\ restart \in {"none", "bus_off", "timer"}
         /\ frames \in 0..MaxFrames
         /\ xpc \in {"idle", "scan", "busy", "mark", "put", "count", "submit",
                     "uncount", "check", "stop"}
         /\ ctx \in Contexts
         /\ cpc \in {"idle", "uncount", "present", "echo", "release", "status", "wake"}
         /\ done \in [ctx : Contexts, frame : Frames \cup {Nobody}]

(* Types; active_tx_urbs stays within 0 and the number of contexts, though  *)
(* it is counted up before the submission and down before the release.      *)
TypeOK == Shape /\ active_tx_urbs \in 0..MaxTxUrbs

InTransfer(i)   == \E t \in submitted : t.ctx = i
XmitHas(i)      == xpc \in {"put", "count", "submit"} /\ ctx = i
CompleteHas(i)  == cpc \in {"uncount", "present", "echo", "release"} /\ done.ctx = i

Counted(i) == \/ InTransfer(i)
              \/ xpc \in {"submit", "uncount"} /\ ctx = i
              \/ cpc = "uncount" /\ done.ctx = i

(* active_tx_urbs is the number of contexts whose transfer is under way,    *)
(* through every failure and however a transmit meets a completion.         *)
ActiveAccounting == active_tx_urbs = Cardinality({i \in Contexts : Counted(i)})

(* A context, its URB and its buffer serve one frame at a time: transmit    *)
(* call, endpoint and completion never hold the same one, and the endpoint  *)
(* never has it twice.                                                      *)
ContextExclusive ==
    /\ \A t, u \in submitted : t.ctx = u.ctx => t = u
    /\ \A i \in Contexts : /\ ~(InTransfer(i) /\ XmitHas(i))
                           /\ ~(InTransfer(i) /\ CompleteHas(i))
                           /\ ~(XmitHas(i) /\ CompleteHas(i))

(* A completion loops back the frame that was sent, or nothing when the     *)
(* slot was flushed meanwhile: never the frame of another transfer.         *)
EchoMatches ==
    cpc = "echo" => /\ echo_index[done.ctx] = done.ctx + 1
                    /\ echo_skb[done.ctx] \in {Nobody, done.frame}

(* The echo slot of a context just claimed is empty: can_put_echo_skb would *)
(* throw the frame's echo away otherwise.                                   *)
EchoSlotFree == xpc = "put" => echo_skb[ctx] = Nobody

Call  == CASE xpc = "put" -> "claimed"
           [] xpc \in {"count", "submit"} -> "kept"
           [] OTHER -> "none"
Sent  == {t.frame : t \in submitted}
Ended == IF cpc \in {"uncount", "present", "echo"} THEN done.frame ELSE Nobody
Kept  == {echo_skb[i] : i \in Contexts} \ {Nobody}

Echo == INSTANCE TxEcho WITH Capacity <- MaxTxUrbs, accepted <- frames, call <- Call,
                             sent <- Sent, ended <- Ended, echoes <- Kept,
                             attached <- present

(* Of each frame accepted one echo is kept, it is sent at most once, and    *)
(* the echo is looped back at most once, behind its own transfer and never  *)
(* in place of another's: the promise of TxEcho, through refusals, flushes, *)
(* restarts and a transmit that meets a completion.                         *)
ImplementsEcho == Echo!EchoSpec

(* No context is lost: on an attached device one that is taken is held by   *)
(* the transmit call, the endpoint or the completion, which will free it.   *)
ContextsHeld ==
    present => \A i \in Contexts : echo_index[i] # 0 =>
                  InTransfer(i) \/ XmitHas(i) \/ CompleteHas(i)

(* Every context comes free again, also when its transfer fails or the      *)
(* device is closed meanwhile; not when it is unplugged.                    *)
ContextsReturn ==
    \A i \in Contexts : echo_index[i] # 0 ~> echo_index[i] = 0 \/ ~present

(* A queue stopped while a transfer is still under way is woken, unless a   *)
(* completion fails or the device goes away.                                *)
PendingWakes ==
    stopped /\ up /\ submitted # {}
        ~> ~stopped \/ ~up \/ ~present \/ (cpc = "status" /\ status[done.ctx] = "error")

(* With no failure at all a stopped queue is woken: stopping it is to "slow *)
(* down tx path".  NOT true of the code: see the run tx_stall.              *)
QueueWakes == stopped ~> ~stopped
----------------------------------------------------------------------------
(* The inductive strengthening that the proofs of TxPath_proofs use.        *)

(* A context is marked as long as somebody holds it, and the one a transmit *)
(* call is about to claim, or has given back, is free.                      *)
Marked ==
    /\ \A i \in Contexts : /\ echo_index[i] \in {0, i + 1}
                           /\ InTransfer(i) \/ XmitHas(i) \/ CompleteHas(i)
                                 => echo_index[i] = i + 1
    /\ xpc \in {"mark", "uncount"} => echo_index[ctx] = 0

(* The echo slot goes with the context. *)
EchoFollows ==
    /\ \A i \in Contexts : echo_index[i] = 0 => echo_skb[i] = Nobody
    /\ xpc \in {"count", "submit"} => echo_skb[ctx] \in {Nobody, frames}
    /\ \A t \in submitted : echo_skb[t.ctx] \in {Nobody, t.frame}
    /\ cpc \in {"uncount", "present", "echo"} => echo_skb[done.ctx] \in {Nobody, done.frame}
    /\ cpc = "release" => echo_skb[done.ctx] = Nobody

(* A frame is in one place at a time.  Numbers are given once: what is held  *)
(* anywhere has been accepted, and before the frame being prepared.         *)
Preparing == xpc \in {"put", "count", "submit"}
Finishing == cpc \in {"uncount", "present", "echo"}
Seen(f)   == f <= frames /\ (Preparing => f < frames)

Numbered ==
    /\ \A t \in submitted : Seen(t.frame)
    /\ Finishing => done.frame # Nobody /\ Seen(done.frame)
    /\ \A i \in Contexts : echo_skb[i] <= frames
    /\ Preparing => \A i \in Contexts : i # ctx => echo_skb[i] < frames

(* No other slot has the echo of a transfer, or of the completion.          *)
Unshared ==
    /\ \A t \in submitted : \A i \in Contexts : i # t.ctx => echo_skb[i] # t.frame
    /\ Finishing => \A i \in Contexts : i # done.ctx => echo_skb[i] # done.frame
    /\ \A i, j \in Contexts : echo_skb[i] = echo_skb[j] => i = j \/ echo_skb[i] = Nobody

SentOnce ==
    /\ \A t, u \in submitted : t.frame = u.frame => t = u
    /\ Finishing => \A t \in submitted : t.frame # done.frame

FrameOnce == Numbered /\ Unshared /\ SentOnce

FramesLeft == /\ xpc \in {"scan", "mark"} => frames < MaxFrames
              /\ xpc \in {"put", "count", "submit"} => frames \in Frames

TxInv == /\ Shape
         /\ ActiveAccounting
         /\ ContextExclusive
         /\ Marked
         /\ EchoSlotFree
         /\ EchoFollows
         /\ FramesLeft
=============================================================================
