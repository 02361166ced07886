------------------------------ MODULE Lifetime ------------------------------
(***************************************************************************)
(* The life of a forwarder (usb_driver.c): plug-in and its unwinding,      *)
(* plug-out, and the delayed work that frees the forwarder once no         *)
(* operation is pending, against programs that open, read and close the    *)
(* character device and a network device that goes up and down.            *)
(*                                                                         *)
(* Concurrency kept from the code: the USB core runs plug-in and plug-out  *)
(* of one device in one thread; operations of files run in threads of      *)
(* their own, and nothing but `stage' and `pending_ops' tells the two      *)
(* about each other.  Every access to those is a step of its own.          *)
(*                                                                         *)
(* Time is abstracted to one assumption.  The work runs 500 ms after the   *)
(* last step of plug-out and at that interval: by then an operation that   *)
(* had begun before that step is over or asleep.  Operations begun later   *)
(* may be anywhere when the work runs.                                     *)
(*                                                                         *)
(* How the commands of an open or close interleave is in BusControl and    *)
(* what a reader takes out of the ring in RxRing: here a start or stop of  *)
(* a file is one command, and that of the network device one step.         *)
(***************************************************************************)
EXTENDS Integers, FiniteSets

CONSTANTS
    Users,       \* programs that may open the character device
    MaxRxUrbs    \* PCAN_USB_MAX_RX_URBS

ASSUME LifeAssumption == IsFiniteSet(Users) /\ MaxRxUrbs \in Nat

VARIABLES
    stage, pending_ops, open_count,   \* usb_forwarder_t
    dpc,         \* where plug-in or plug-out is
    net,         \* the network device: "none", "registered" or "up"
    item,        \* the forwarder is found by the inode of the device file
    rd_buf,      \* rd_kernel_buf is allocated
    tx_urbs,     \* the TX contexts have their URBs
    rx_urbs,     \* RX URBs at the endpoint
    work,        \* destroy_work: "none", "waiting" or "checked"
    freed,       \* the forwarder's memory has been freed
    upc,         \* upc[u]: where the operation of u is
    private,     \* file->private_data of u points to the forwarder
    began,       \* history: when the operation of u has begun
    forgotten    \* history: open_count was set to zero under an open

deviceVars == <<dpc, net, item, rd_buf, tx_urbs>>
memVars    == <<work, freed, forgotten>>
userVars   == <<upc, private, began>>
vars       == <<stage, pending_ops, open_count, deviceVars, rx_urbs, memVars, userVars>>

STAGE_DISCONNECTED == 0
STAGE_CONNECTED    == 1
STAGE_ONE_STARTED  == 2

(* Where an operation is counted in pending_ops, and where it is about to   *)
(* take a step without sleeping and without being counted.                  *)
Pending == {"send", "rsend", "wait", "asleep", "copy", "dec"}
Brief   == {"count", "uncount", "reset", "stage", "cmd", "undo", "precheck", "inc",
            "poll", "rcount", "rstage", "rcmd"}
InOperation(u) == upc[u] \in Pending \cup Brief

(* A program asleep in poll is on wait queues inside the forwarder: not in  *)
(* an operation, and not counted.                                           *)
Parked == {"polled"}

(* Where an open is in force, and where it is counted in open_count.        *)
InForce   == {"reset", "stage", "cmd", "send", "undo", "open", "precheck", "inc", "wait",
              "asleep", "copy", "dec", "poll", "polled", "rcount"}
CountedAt == InForce \cup {"uncount", "killed"}
Holds(u)   == upc[u] \in InForce
Counted(u) == upc[u] \in CountedAt

Goto(u, label) == upc' = [upc EXCEPT ![u] = label]

(* Whether an operation begins before plug-out has set the work to wait,    *)
(* while it waits, or after the free.                                       *)
Time == CASE freed                   -> "late"
          [] ~freed /\ dpc = "gone"  -> "at_door"
          [] OTHER                   -> "on_time"

(* What an operation reads in the forwarder: freed memory may hold anything. *)
StageSeen == IF freed THEN {STAGE_DISCONNECTED, STAGE_ONE_STARTED} ELSE {stage}

Attached == dpc \in {"register", "chardev", "rd_buf", "urbs", "info", "bus_off", "plugged",
                     "fail_chardev", "fail_net", "fail_free"}

----------------------------------------------------------------------------
(* pcan_usb_plugin.  A step that fails leads to the unwinding from there.   *)

Device(from, to) == dpc = from /\ dpc' = to

RegisterNet == /\ \/ Device("register", "chardev") /\ net' = "registered"
                  \/ Device("register", "fail_free") /\ UNCHANGED net
               /\ UNCHANGED <<stage, pending_ops, open_count, item, rd_buf, tx_urbs,
                              rx_urbs, memVars, userVars>>

(* pcan_chardev_initialize: the device file is there before the rest is. *)
MakeItem == /\ \/ Device("chardev", "rd_buf") /\ item' = TRUE
               \/ Device("chardev", "fail_net") /\ UNCHANGED item
            /\ UNCHANGED <<stage, pending_ops, open_count, net, rd_buf, tx_urbs, rx_urbs,
                           memVars, userVars>>

(* Mutant: the registered network device is forgotten. *)
AllocRdBufNoUnreg == /\ open_count' = 0
                     /\ forgotten' = \E u \in Users : Counted(u)
                     /\ \/ Device("rd_buf", "urbs") /\ rd_buf' = TRUE /\ UNCHANGED item
                        \/ Device("rd_buf", "fail_free") /\ item' = FALSE /\ UNCHANGED rd_buf
                     /\ UNCHANGED <<stage, pending_ops, net, tx_urbs, rx_urbs, work, freed,
                                    userVars>>

(* The count starts when the file is already there. *)
AllocRdBuf == /\ open_count' = 0
              /\ forgotten' = \E u \in Users : Counted(u)
              /\ \/ Device("rd_buf", "urbs") /\ rd_buf' = TRUE /\ UNCHANGED item
                 \/ Device("rd_buf", "fail_net") /\ item' = FALSE /\ UNCHANGED rd_buf
              /\ UNCHANGED <<stage, pending_ops, net, tx_urbs, rx_urbs, work, freed, userVars>>

(* The sysfs files, then usbdrv_alloc_urbs, which takes back what it did. *)
AllocUrbs == /\ \/ Device("urbs", "info") /\ tx_urbs' = TRUE /\ rx_urbs' = MaxRxUrbs
                \/ Device("urbs", "fail_chardev") /\ UNCHANGED <<tx_urbs, rx_urbs>>
             /\ UNCHANGED <<stage, pending_ops, open_count, net, item, rd_buf, memVars,
                            userVars>>

(* get_device_info and the bus-off: commands of the plug-in thread. *)
PluginCommand == /\ \/ Device("info", "bus_off") \/ Device("bus_off", "plugged")
                    \/ Device("info", "fail_chardev") \/ Device("bus_off", "fail_chardev")
                 /\ UNCHANGED <<stage, pending_ops, open_count, net, item, rd_buf, tx_urbs,
                                rx_urbs, memVars, userVars>>

(* Mutant: the stage is counted down. *)
UnplugDecrements == /\ Device("plugged", "out_chardev")
                    /\ stage' = stage - 1
                    /\ UNCHANGED <<pending_ops, open_count, net, item, rd_buf, tx_urbs, rx_urbs,
                                   memVars, userVars>>

(* pcan_usb_plugout: from now on the adapter answers nothing. *)
Unplug == /\ Device("plugged", "out_chardev")
          /\ stage' = STAGE_DISCONNECTED
          /\ UNCHANGED <<pending_ops, open_count, net, item, rd_buf, tx_urbs, rx_urbs,
                         memVars, userVars>>

(* The end of plug-out and the unwinding of plug-in share these two. *)
FinalizeChardev == /\ Device("out_chardev", "out_net") \/ Device("fail_chardev", "fail_net")
                   /\ rd_buf' = FALSE
                   /\ item' = FALSE
                   /\ UNCHANGED <<stage, pending_ops, open_count, net, tx_urbs, rx_urbs,
                                  memVars, userVars>>

(* unregister_candev stops a device that is up; the stop commands find no   *)
(* connection or no adapter.                                                *)
UnregisterNet == /\ Device("out_net", "out_urbs") \/ Device("fail_net", "fail_free")
                 /\ net' = "none"
                 /\ stage' = IF net = "up" THEN stage - 1 ELSE stage
                 /\ UNCHANGED <<pending_ops, open_count, item, rd_buf, tx_urbs, rx_urbs,
                                memVars, userVars>>

UnlinkUrbs == /\ Device("out_urbs", "out_work")
              /\ rx_urbs' = 0
              /\ tx_urbs' = FALSE
              /\ UNCHANGED <<stage, pending_ops, open_count, net, item, rd_buf, memVars,
                             userVars>>

ScheduleWork == /\ Device("out_work", "gone")
                /\ work' = "waiting"
                /\ UNCHANGED <<stage, pending_ops, open_count, net, item, rd_buf, tx_urbs,
                               rx_urbs, freed, forgotten, userVars>>

(* A failed plug-in frees the forwarder at once. *)
FreeUnwound == /\ Device("fail_free", "failed")
               /\ freed' = TRUE
               /\ UNCHANGED <<stage, pending_ops, open_count, net, item, rd_buf, tx_urbs,
                              rx_urbs, work, forgotten, userVars>>

----------------------------------------------------------------------------
(* destroy_usb_forwarder.                                                   *)

(* Nobody is between two steps of an operation for 500 ms; an adapter that  *)
(* is gone ends its transfers and accepts no others.                        *)
Undisturbed == \A u \in Users : began[u] = "on_time" => upc[u] \notin Brief

(* Mutant: the sleepers are left alone. *)
WorkAgainSilent == /\ work \in {"waiting", "checked"}
                   /\ Undisturbed
                   /\ pending_ops > 0
                   /\ stage' = STAGE_DISCONNECTED
                   /\ work' = "waiting"
                   /\ UNCHANGED <<pending_ops, open_count, deviceVars, rx_urbs, freed,
                                  forgotten, userVars>>

(* Operations are pending: the sleepers are woken, the work comes again. *)
WorkAgain == /\ work \in {"waiting", "checked"}
             /\ Undisturbed
             /\ pending_ops > 0
             /\ stage' = STAGE_DISCONNECTED
             /\ upc' = [u \in Users |-> IF upc[u] = "asleep" THEN "wait" ELSE upc[u]]
             /\ work' = "waiting"
             /\ UNCHANGED <<pending_ops, open_count, deviceVars, rx_urbs, freed, forgotten,
                            private, began>>

WorkCheck == /\ work = "waiting"
             /\ Undisturbed
             /\ pending_ops <= 0
             /\ work' = "checked"
             /\ UNCHANGED <<stage, pending_ops, open_count, deviceVars, rx_urbs, freed,
                            forgotten, userVars>>

(* Mutant: the pending operations are not asked about. *)
WorkFreeBlind == /\ work \in {"waiting", "checked"}
                 /\ Undisturbed
                 /\ freed' = TRUE
                 /\ work' = "none"
                 /\ UNCHANGED <<stage, pending_ops, open_count, deviceVars, rx_urbs,
                                forgotten, userVars>>

(* Checked twice: free. *)
WorkFree == /\ work = "checked"
            /\ Undisturbed
            /\ pending_ops <= 0
            /\ freed' = TRUE
            /\ work' = "none"
            /\ UNCHANGED <<stage, pending_ops, open_count, deviceVars, rx_urbs, forgotten,
                           userVars>>

----------------------------------------------------------------------------
(* pcan_chardev_open.                                                       *)

OpenFind(u) == /\ upc[u] = "closed"
               /\ item
               /\ Goto(u, "count")
               /\ began' = [began EXCEPT ![u] = Time]
               /\ UNCHANGED <<stage, pending_ops, open_count, deviceVars, rx_urbs, memVars,
                              private>>

OpenCount(u) == /\ upc[u] = "count"
                /\ open_count' = open_count + 1
                /\ Goto(u, IF open_count + 1 > 1 THEN "uncount" ELSE "reset")
                /\ UNCHANGED <<stage, pending_ops, deviceVars, rx_urbs, memVars, private, began>>

OpenTooMany(u) == /\ upc[u] = "uncount"
                  /\ open_count' = open_count - 1
                  /\ Goto(u, "closed")
                  /\ UNCHANGED <<stage, pending_ops, deviceVars, rx_urbs, memVars, private,
                                 began>>

(* The completion handlers of the TX URBs are set: without URBs the thread  *)
(* follows a null pointer and is killed.                                    *)
OpenReset(u) == /\ upc[u] = "reset"
                /\ \/ /\ tx_urbs
                      /\ private' = [private EXCEPT ![u] = TRUE]
                      /\ Goto(u, "stage")
                   \/ /\ ~tx_urbs
                      /\ Goto(u, "killed")
                      /\ UNCHANGED private
                /\ UNCHANGED <<stage, pending_ops, open_count, deviceVars, rx_urbs, memVars,
                               began>>

OpenStage(u) == /\ upc[u] = "stage"
                /\ stage' = stage + 1
                /\ Goto(u, IF stage + 1 > STAGE_ONE_STARTED THEN "open" ELSE "cmd")
                /\ UNCHANGED <<pending_ops, open_count, deviceVars, rx_urbs, memVars, private,
                               began>>

(* pcan_oneway_command. *)
Command(u, from, sends, refused) ==
    /\ upc[u] = from
    /\ \/ /\ stage >= STAGE_CONNECTED
          /\ pending_ops' = pending_ops + 1
          /\ Goto(u, sends)
       \/ /\ stage < STAGE_CONNECTED
          /\ Goto(u, refused)
          /\ UNCHANGED pending_ops
    /\ UNCHANGED <<stage, open_count, deviceVars, rx_urbs, memVars, private, began>>

OpenCommand(u) == Command(u, "cmd", "send", "undo")

OpenSent(u) == /\ upc[u] = "send"
               /\ pending_ops' = pending_ops - 1
               /\ \/ Attached /\ Goto(u, "open")
                  \/ Goto(u, "undo")
               /\ UNCHANGED <<stage, open_count, deviceVars, rx_urbs, memVars, private, began>>

(* Mutant: the undoing runs on into the refusal and counts down again. *)
OpenUndoTwice(u) == /\ upc[u] = "undo"
                    /\ stage' = stage - 1
                    /\ open_count' = open_count - 1
                    /\ private' = [private EXCEPT ![u] = FALSE]
                    /\ Goto(u, "uncount")
                    /\ UNCHANGED <<pending_ops, deviceVars, rx_urbs, memVars, began>>

OpenUndo(u) == /\ upc[u] = "undo"
               /\ stage' = stage - 1
               /\ open_count' = open_count - 1
               /\ private' = [private EXCEPT ![u] = FALSE]
               /\ Goto(u, "closed")
               /\ UNCHANGED <<pending_ops, deviceVars, rx_urbs, memVars, began>>

----------------------------------------------------------------------------
(* An operation on the open file: read and the receiving ioctls, or poll.   *)

(* The forwarder is taken from the file, or found again. *)
Call(u) == /\ upc[u] = "open"
           /\ private[u] \/ item
           /\ Goto(u, "precheck")
           /\ began' = [began EXCEPT ![u] = Time]
           /\ UNCHANGED <<stage, pending_ops, open_count, deviceVars, rx_urbs, memVars, private>>

Precheck(u) == /\ upc[u] = "precheck"
               /\ \E s \in StageSeen :
                     \/ /\ s >= STAGE_ONE_STARTED
                        /\ Goto(u, "inc") \/ Goto(u, "poll")
                        /\ UNCHANGED private
                     \/ /\ s < STAGE_ONE_STARTED
                        /\ Goto(u, "open")
                        /\ private' = [private EXCEPT ![u] = FALSE]
               /\ UNCHANGED <<stage, pending_ops, open_count, deviceVars, rx_urbs, memVars,
                              began>>

(* Mutant: the operation is not counted. *)
IncrementNever(u) == /\ upc[u] = "inc"
                     /\ Goto(u, "wait")
                     /\ UNCHANGED <<stage, pending_ops, open_count, deviceVars, rx_urbs, memVars,
                                    private, began>>

Increment(u) == /\ upc[u] = "inc"
                /\ pending_ops' = pending_ops + 1
                /\ Goto(u, "wait")
                /\ UNCHANGED <<stage, open_count, deviceVars, rx_urbs, memVars, private, began>>

(* wait_event_interruptible and the tests behind it: disconnected, a frame  *)
(* to copy, or none.                                                        *)
Wait(u) == /\ upc[u] = "wait"
           /\ \E s \in StageSeen :
                 \/ s < STAGE_ONE_STARTED /\ Goto(u, "dec")
                 \/ s >= STAGE_ONE_STARTED /\ (Goto(u, "copy") \/ Goto(u, "asleep"))
           /\ UNCHANGED <<stage, pending_ops, open_count, deviceVars, rx_urbs, memVars, private,
                          began>>

(* The completion handler publishes a frame, or a signal comes. *)
Wakened(u) == /\ upc[u] = "asleep"
              /\ \/ rx_urbs > 0 /\ stage >= STAGE_ONE_STARTED /\ Goto(u, "wait")
                 \/ Goto(u, "dec")
              /\ UNCHANGED <<stage, pending_ops, open_count, deviceVars, rx_urbs, memVars,
                             private, began>>

Copy(u) == /\ upc[u] = "copy"
           /\ Goto(u, "dec")
           /\ UNCHANGED <<stage, pending_ops, open_count, deviceVars, rx_urbs, memVars, private,
                          began>>

(* Mutant: an operation that has been refused stays pending. *)
DecrementUnlessOut(u) == /\ upc[u] = "dec"
                         /\ pending_ops' = IF stage < STAGE_ONE_STARTED THEN pending_ops
                                           ELSE pending_ops - 1
                         /\ Goto(u, "open")
                         /\ UNCHANGED <<stage, open_count, deviceVars, rx_urbs, memVars,
                                        private, began>>

Decrement(u) == /\ upc[u] = "dec"
                /\ pending_ops' = pending_ops - 1
                /\ Goto(u, "open")
                /\ UNCHANGED <<stage, open_count, deviceVars, rx_urbs, memVars, private, began>>

(* pcan_chardev_poll: on the wait queues; back at once if there is a frame  *)
(* or room, or if the program does not want to wait.                        *)
PollRegister(u) == /\ upc[u] = "poll"
                   /\ Goto(u, "polled") \/ Goto(u, "open")
                   /\ UNCHANGED <<stage, pending_ops, open_count, deviceVars, rx_urbs, memVars,
                                  private, began>>

(* Wakened, at a timeout or by a signal the program asks once more and      *)
(* leaves the wait queues.                                                  *)
PollEnds(u) == /\ upc[u] = "polled"
               /\ \E s \in StageSeen :
                     private' = [private EXCEPT ![u] = @ /\ s >= STAGE_ONE_STARTED]
               /\ Goto(u, "open")
               /\ UNCHANGED <<stage, pending_ops, open_count, deviceVars, rx_urbs, memVars, began>>

----------------------------------------------------------------------------
(* pcan_chardev_release: a forwarder that is not found any more is left.    *)

ReleaseFind(u) == /\ upc[u] = "open"
                  /\ \/ item /\ Goto(u, "rcount") /\ UNCHANGED private
                     \/ /\ ~item
                        /\ Goto(u, "closed")
                        /\ private' = [private EXCEPT ![u] = FALSE]
                  /\ began' = [began EXCEPT ![u] = Time]
                  /\ UNCHANGED <<stage, pending_ops, open_count, deviceVars, rx_urbs, memVars>>

ReleaseCount(u) == /\ upc[u] = "rcount"
                   /\ open_count' = open_count - 1
                   /\ private' = [private EXCEPT ![u] = FALSE]
                   /\ Goto(u, "rstage")
                   /\ UNCHANGED <<stage, pending_ops, deviceVars, rx_urbs, memVars, began>>

ReleaseStage(u) == /\ upc[u] = "rstage"
                   /\ stage' = stage - 1
                   /\ Goto(u, IF stage - 1 < STAGE_ONE_STARTED THEN "rcmd" ELSE "closed")
                   /\ UNCHANGED <<pending_ops, open_count, deviceVars, rx_urbs, memVars,
                                  private, began>>

ReleaseCommand(u) == Command(u, "rcmd", "rsend", "closed")

ReleaseSent(u) == /\ upc[u] = "rsend"
                  /\ pending_ops' = pending_ops - 1
                  /\ Goto(u, "closed")
                  /\ UNCHANGED <<stage, open_count, deviceVars, rx_urbs, memVars, private, began>>

----------------------------------------------------------------------------
(* The network device: started and stopped, if its commands succeed.        *)
NetOpen == /\ net = "registered" /\ tx_urbs /\ Attached
           /\ net' = "up"
           /\ stage' = stage + 1
           /\ UNCHANGED <<pending_ops, open_count, dpc, item, rd_buf, tx_urbs, rx_urbs, memVars,
                          userVars>>

NetStop == /\ net = "up"
           /\ net' = "registered"
           /\ stage' = stage - 1
           /\ UNCHANGED <<pending_ops, open_count, dpc, item, rd_buf, tx_urbs, rx_urbs, memVars,
                          userVars>>

(* usb_read_bulk_callback gives the URB back to the endpoint, unless nobody *)
(* is started, the URB was unlinked or the endpoint refuses it.             *)
RxLost == /\ rx_urbs > 0 /\ ~freed
          /\ rx_urbs' = rx_urbs - 1
          /\ UNCHANGED <<stage, pending_ops, open_count, deviceVars, memVars, userVars>>

----------------------------------------------------------------------------
(* Plug-in begins: the forwarder is allocated and connected. *)
Init == /\ stage = STAGE_CONNECTED /\ pending_ops = 0 /\ open_count = 0
        /\ dpc = "register"
        /\ net = "none" /\ item = FALSE /\ rd_buf = FALSE
        /\ tx_urbs = FALSE /\ rx_urbs = 0
        /\ work = "none" /\ freed = FALSE /\ forgotten = FALSE
        /\ upc = [u \in Users |-> "closed"]
        /\ private = [u \in Users |-> FALSE]
        /\ began = [u \in Users |-> "on_time"]

PlugRuns == \/ RegisterNet \/ MakeItem \/ AllocRdBuf \/ AllocUrbs \/ PluginCommand
            \/ FinalizeChardev \/ UnregisterNet \/ UnlinkUrbs \/ ScheduleWork \/ FreeUnwound

WorkRuns == WorkAgain \/ WorkCheck \/ WorkFree

UserRuns(u) == \/ OpenCount(u) \/ OpenTooMany(u) \/ OpenReset(u) \/ OpenStage(u)
               \/ OpenCommand(u) \/ OpenSent(u) \/ OpenUndo(u)
               \/ Precheck(u) \/ Increment(u) \/ Wait(u) \/ Copy(u) \/ Decrement(u)
               \/ PollRegister(u)
               \/ ReleaseCount(u) \/ ReleaseStage(u) \/ ReleaseCommand(u) \/ ReleaseSent(u)

UserStarts(u) == OpenFind(u) \/ Call(u) \/ ReleaseFind(u) \/ Wakened(u) \/ PollEnds(u)

Next == \/ PlugRuns \/ Unplug \/ WorkRuns
        \/ \E u \in Users : UserRuns(u) \/ UserStarts(u)
        \/ NetOpen \/ NetStop \/ RxLost

(* Plug-in, plug-out and the threads inside an operation run on, commands   *)
(* time out.  Strongly: programs cannot keep the work from its turn.  No    *)
(* frame, signal, call or close is promised.                                *)
Fairness == /\ WF_vars(PlugRuns)
            /\ SF_vars(WorkRuns)
            /\ \A u \in Users : WF_vars(UserRuns(u))

Spec == Init /\ [][Next]_vars /\ Fairness

----------------------------------------------------------------------------
(* Properties.                                                              *)

DeviceShape ==
    /\ stage \in Int /\ open_count \in Int
    /\ dpc \in {"register", "chardev", "rd_buf", "urbs", "info", "bus_off", "plugged",
                "fail_chardev", "fail_net", "fail_free", "failed",
                "out_chardev", "out_net", "out_urbs", "out_work", "gone"}
    /\ net \in {"none", "registered", "up"}
    /\ item \in BOOLEAN /\ rd_buf \in BOOLEAN /\ tx_urbs \in BOOLEAN
    /\ rx_urbs \in 0..MaxRxUrbs
    /\ work \in {"none", "waiting", "checked"}
    /\ freed \in BOOLEAN /\ forgotten \in BOOLEAN

UserShape ==
    /\ pending_ops \in Int
    /\ upc \in [Users -> Pending \cup Brief \cup Parked \cup {"closed", "open", "killed"}]
    /\ private \in [Users -> BOOLEAN]
    /\ began \in [Users -> {"on_time", "at_door", "late"}]

Shape == DeviceShape /\ UserShape

(* Types; pending_ops, counted up and down from several threads, never runs *)
(* below zero.                                                              *)
TypeOK == Shape /\ pending_ops >= 0

(* pending_ops counts the operations under way, so the work that waits for  *)
(* zero waits for all of them and for nothing else.                         *)
PendingAccounting == pending_ops = Cardinality({u \in Users : upc[u] \in Pending})

(* After a plug-out the forwarder is not freed under a read, an ioctl, an   *)
(* open or a close that had begun when plug-out set the work to wait.  Not  *)
(* said of operations begun later, nor of a program asleep in poll: the     *)
(* code has nothing for those, see OperationsSynchronized.                  *)
DestroyWaits ==
    freed /\ dpc = "gone" => \A u \in Users : InOperation(u) => began[u] # "on_time"

(* An operation begun while the work waits gets no further than the test of *)
(* the stage, so that it is neither counted nor asleep when the forwarder   *)
(* goes.  Excepted is what an open that plug-in forgot may lead to.         *)
NewcomersRefused ==
    ~freed /\ ~forgotten =>
        \A u \in Users : began[u] = "at_door" /\ InOperation(u) => upc[u] = "precheck"

Phase == CASE freed /\ dpc = "failed" -> "unwound"
           [] freed /\ dpc # "failed" -> "freed"
           [] ~freed /\ dpc = "plugged" -> "alive"
           [] ~freed /\ dpc \in {"out_chardev", "out_net", "out_urbs", "out_work"} -> "leaving"
           [] ~freed /\ dpc = "gone" -> "waiting"
           [] OTHER -> "plugging"

OnTime(u) == InOperation(u) /\ began[u] = "on_time"
AtDoor(u) == InOperation(u) /\ began[u] = "at_door" /\ ~freed

Keeping == INSTANCE Custody
    WITH phase <- Phase, inside <- {u \in Users : OnTime(u)},
         door <- {u \in Users : AtDoor(u)},
         counted <- {u \in Users : (OnTime(u) \/ AtDoor(u)) /\ upc[u] \in Pending}

(* Whom the forwarder is kept for, and on whom it is freed: the promise of  *)
(* Custody.  A program asleep in poll has gone out as far as the promise    *)
(* goes.                                                                    *)
ImplementsCustody == Keeping!CustodySpec

(* A plug-in that fails takes both devices back, whatever step failed. *)
UnwoundDevices == dpc \in {"fail_free", "failed"} => net = "none" /\ ~item /\ ~rd_buf

(* From plug-in to destruction one program holds the character device at    *)
(* most: an open that is undone, refused or left over by a plug-out never   *)
(* lets a second one in.  Excepted is an open that came so early that       *)
(* plug-in forgot it.                                                       *)
OneHolder ==
    ~freed /\ ~forgotten => \A u, v \in Users : Holds(u) /\ Holds(v) => u = v

(* Behind a plug-out the work is always there to free the forwarder, and a  *)
(* program still asleep in a read counts, so that the work will wake it.    *)
WorkSeesSleepers ==
    dpc = "gone" =>
        /\ freed \/ work # "none"
        /\ \A u \in Users : upc[u] = "asleep" /\ began[u] = "on_time"
                             => work # "none" /\ pending_ops > 0

(* A program asleep in a read when the adapter is unplugged returns.  Not   *)
(* so one asleep in poll: it is not counted, and nothing need wake it.      *)
SleepersReturn ==
    \A u \in Users : dpc = "gone" /\ upc[u] = "asleep" /\ began[u] = "on_time"
                     ~> upc[u] = "open"


(* Once the count has started, it is what OneHolder rests on: never below   *)
(* the number of opens that are counted.                                    *)
CountCovers == ~forgotten => open_count >= Cardinality({u \in Users : Counted(u)})

(* Nobody uses a freed forwarder: pending_ops is there "for synchronized    *)
(* commands and chardev operations", and counting a poll is "not needed".   *)
(* NOT true of the code: see the run life_stale.                            *)
OperationsSynchronized ==
    freed /\ dpc = "gone" => \A u \in Users : ~InOperation(u) /\ upc[u] \notin Parked
=============================================================================
