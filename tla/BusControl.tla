----------------------------- MODULE BusControl -----------------------------
(***************************************************************************)
(* Starting and stopping the CAN bus for two interfaces that share one     *)
(* adapter: the network device (pcan_net_open/pcan_net_stop) and the       *)
(* character device (open/release).  Each counts itself into `stage'; the  *)
(* first one in sends the start commands, the last one out the stop        *)
(* commands, through the one command buffer cmd_buf (can_commands.c).      *)
(*                                                                         *)
(* The network device is serialised by the kernel's rtnl lock, one open of *)
(* the character device by open_count; nothing serialises the two, and a   *)
(* release drops open_count before it stops the bus.  A command is two     *)
(* steps: filling cmd_buf and the bulk transfer that reads it.  A transfer *)
(* that fails may or may not have reached the adapter.                     *)
(*                                                                         *)
(* Plug-in sends commands too, after it has registered both devices:       *)
(* get_device_info asks the adapter who it is, and the reply comes back    *)
(* into the same cmd_buf (pcan_responsive_command); then the bus is taken  *)
(* off and the bit rate set.  Somebody may have opened a device by then.   *)
(*                                                                         *)
(* Not here: plug-in before its first command and the unwinding of one     *)
(* that fails (Lifetime); the adapter stays plugged in.                    *)
(***************************************************************************)
EXTENDS Integers, FiniteSets, Sequences

CONSTANTS
    Net,          \* the network device
    Files,        \* opens of the character device
    Plug,         \* the thread of plug-in
    Early,        \* the interfaces that somebody uses before plug-in has ended
    HasSilent     \* dev_revision > 3: the adapter knows the silent command

Procs   == Files \cup {Net}
Threads == Procs \cup {Plug}

ASSUME BusAssumption == /\ Net \notin Files /\ Plug \notin Procs
                        /\ IsFiniteSet(Files) /\ Early \subseteq Procs
                        /\ HasSilent \in BOOLEAN

VARIABLES
    stage, pending_ops, open_count, cmd_buf,   \* usb_forwarder_t
    listen_only,  \* can.ctrlmode & CAN_CTRLMODE_LISTENONLY
    pc,           \* pc[p]: where the open or close of p, or plug-in, is
    cmd,          \* cmd[p]: the command p is about to fill in or has sent
    bus, silent,  \* the adapter: bus on or off, silent mode
    replies,      \* what it has answered and nobody has received yet
    restarting,   \* an asynchronous bus-on command is queued at the adapter
    led,          \* history: the last open of Net was the first interface to start
    exclusive     \* history: no operation has begun during another

hostVars    == <<stage, pending_ops, open_count, cmd_buf, listen_only>>
adapterVars == <<bus, silent, replies, restarting>>
historyVars == <<led, exclusive>>
vars        == <<hostVars, adapterVars, pc, cmd, historyVars>>

STAGE_CONNECTED   == 1
STAGE_ONE_STARTED == 2

Commands == {"none", "silent", "ext_vcc", "bus_on", "bus_off", "sja1000", "btr0btr1",
             "serial_number", "device_id"}

(* The commands that are answered, and their answers. *)
Answer  == [serial_number |-> "number", device_id |-> "id"]
Asks(c) == c \in {"serial_number", "device_id"}
Answers == {"number", "id"}

(* The commands of a start, of a stop and of plug-in, in order. *)
FirstStartLoud == "ext_vcc"
FirstStart  == IF HasSilent THEN "silent" ELSE "ext_vcc"
FirstStop   == "bus_off"
FirstPlugIn == "serial_number"
After == [c \in Commands |->
            CASE c = "silent"        -> "ext_vcc"
              [] c = "ext_vcc"       -> "bus_on"
              [] c = "serial_number" -> "device_id"
              [] c = "device_id"     -> "bus_off"
              [] c = "bus_off"       -> "sja1000"
              [] OTHER               -> "none"]
Following(p) == IF p = Plug /\ cmd[p] = "sja1000" THEN "btr0btr1" ELSE After[cmd[p]]
Starting(p) == cmd[p] \in {"silent", "ext_vcc", "bus_on"}

Busy(p) == pc[p] \notin {"closed", "open", "plugged", "failed"}
Quiet   == \A p \in Threads : ~Busy(p)

Goto(p, label) == pc' = [pc EXCEPT ![p] = label]

(* An open or close begins; a plug-in that has failed takes the devices back. *)
Begin(p) == /\ p \in Early \/ pc[Plug] = "plugged"
            /\ pc[Plug] # "failed"
            /\ exclusive' = (exclusive /\ Quiet)
            /\ UNCHANGED led

End == exclusive' = (exclusive /\ Quiet) /\ UNCHANGED led

----------------------------------------------------------------------------
(* Commands.                                                                *)

(* pcan_oneway_command, or in it for pcan_responsive_command, which counts   *)
(* itself too.                                                              *)
Fill(p) == /\ pc[p] = "fill"
           /\ stage >= STAGE_CONNECTED
           /\ pending_ops' = pending_ops + (IF Asks(cmd[p]) THEN 2 ELSE 1)
           /\ cmd_buf' = [c |-> cmd[p], arg |-> cmd[p] = "silent" /\ listen_only]
           /\ Goto(p, "send")
           /\ UNCHANGED <<stage, open_count, listen_only, adapterVars, cmd,
                          historyVars>>

(* What the adapter does with the bytes the transfer finds in cmd_buf. *)
Execute == /\ bus' = CASE cmd_buf.c = "bus_on"  -> "on"
                       [] cmd_buf.c = "bus_off" -> "off"
                       [] OTHER                 -> bus
           /\ silent' = IF cmd_buf.c = "silent" THEN cmd_buf.arg ELSE silent
           /\ replies' = IF Asks(cmd_buf.c) THEN Append(replies, Answer[cmd_buf.c])
                         ELSE replies

Ignore == UNCHANGED <<bus, silent, replies>>

(* The endpoint is a queue: an asynchronous command sent earlier is         *)
(* executed first.                                                          *)
Transfer(p) == /\ pc[p] = "send"
               /\ ~restarting
               /\ UNCHANGED <<stage, open_count, cmd_buf, listen_only, restarting,
                              historyVars>>

(* On to the next command, or done. *)
Proceed(p) == /\ cmd' = [cmd EXCEPT ![p] = Following(p)]
              /\ Goto(p, IF Following(p) # "none" THEN "fill"
                         ELSE IF p = Plug THEN "plugged"
                         ELSE IF Starting(p) THEN "open" ELSE "closed")

(* usb_bulk_msg returns 0. *)
SendOk(p) == /\ Transfer(p)
             /\ Execute
             /\ pending_ops' = pending_ops - 1
             /\ \/ Asks(cmd[p]) /\ Goto(p, "receive") /\ UNCHANGED cmd
                \/ ~Asks(cmd[p]) /\ Proceed(p)

(* Where an error leads: a start is undone, a stop gives up; plug-in is     *)
(* unwound, but for the bit rate, whose error nobody looks at.              *)
Stranded(p) == IF Starting(p) THEN "undo"
               ELSE IF p # Plug THEN "closed"
               ELSE IF cmd[p] = "btr0btr1" THEN "plugged" ELSE "failed"

(* Mutants: a failed stop is undone like a start; a failed command stays    *)
(* pending; a failed command is tried again for ever.                       *)
SendFailUndoes(p) == /\ Transfer(p)
                     /\ Execute \/ Ignore
                     /\ pending_ops' = pending_ops - (IF Asks(cmd[p]) THEN 2 ELSE 1)
                     /\ cmd' = [cmd EXCEPT ![p] = "none"]
                     /\ Goto(p, IF p = Plug THEN Stranded(p) ELSE "undo")

SendFailPending(p) == /\ Transfer(p)
                      /\ Execute \/ Ignore
                      /\ pending_ops' = pending_ops - 1
                      /\ cmd' = [cmd EXCEPT ![p] = "none"]
                      /\ Goto(p, Stranded(p))

SendFailRetries(p) == /\ Transfer(p)
                      /\ Execute \/ Ignore
                      /\ pending_ops' = pending_ops - (IF Asks(cmd[p]) THEN 2 ELSE 1)
                      /\ Goto(p, "fill")
                      /\ UNCHANGED cmd

(* It returns an error. *)
SendFail(p) == /\ Transfer(p)
               /\ Execute \/ Ignore
               /\ pending_ops' = pending_ops - (IF Asks(cmd[p]) THEN 2 ELSE 1)
               /\ cmd' = [cmd EXCEPT ![p] = "none"]
               /\ Goto(p, Stranded(p))

(* The reply is received into cmd_buf, whoever may be filling it in. *)
Receive(p) == /\ pc[p] = "receive"
              /\ replies # <<>>
              /\ cmd_buf' = [cmd_buf EXCEPT !.c = Head(replies)]
              /\ replies' = Tail(replies)
              /\ Goto(p, "result")
              /\ UNCHANGED <<stage, pending_ops, open_count, listen_only, bus, silent,
                             restarting, cmd, historyVars>>

(* Mutant: an error is taken for an empty reply. *)
ReceiveFailResult(p) == /\ pc[p] = "receive"
                        /\ Goto(p, "result")
                        /\ UNCHANGED <<hostVars, adapterVars, cmd, historyVars>>

(* No reply in time. *)
ReceiveFail(p) == /\ pc[p] = "receive"
                  /\ pending_ops' = pending_ops - 1
                  /\ cmd' = [cmd EXCEPT ![p] = "none"]
                  /\ Goto(p, "failed")
                  /\ UNCHANGED <<stage, open_count, cmd_buf, listen_only, adapterVars,
                                 historyVars>>

(* What cmd_buf holds by now is copied out as the result; after the last    *)
(* question nobody listens to what the adapter may have answered besides.   *)
Result(p) == /\ pc[p] = "result"
             /\ pending_ops' = pending_ops - 1
             /\ replies' = IF Asks(Following(p)) THEN replies ELSE <<>>
             /\ Proceed(p)
             /\ UNCHANGED <<stage, open_count, cmd_buf, listen_only, bus, silent,
                            restarting, historyVars>>

----------------------------------------------------------------------------
(* Opening.                                                                 *)

NetOpen == /\ pc[Net] = "closed"
           /\ Begin(Net)
           /\ Goto(Net, "stage")
           /\ UNCHANGED <<hostVars, adapterVars, cmd>>

(* Mutant: the count is tested before it is incremented. *)
ChrOpenLate(f) == /\ pc[f] = "closed"
                  /\ Begin(f)
                  /\ open_count' = open_count + 1
                  /\ Goto(f, IF open_count > 1 THEN "uncount" ELSE "stage")
                  /\ UNCHANGED <<stage, pending_ops, cmd_buf, listen_only, adapterVars, cmd>>

(* chardev: the increment decides, a second opener backs out. *)
ChrOpen(f) == /\ pc[f] = "closed"
              /\ Begin(f)
              /\ open_count' = open_count + 1
              /\ Goto(f, IF open_count + 1 > 1 THEN "uncount" ELSE "stage")
              /\ UNCHANGED <<stage, pending_ops, cmd_buf, listen_only, adapterVars, cmd>>

(* Only the first interface starts the bus. *)
CountIn(p) == /\ pc[p] = "stage"
              /\ stage' = stage + 1
              /\ \/ /\ stage + 1 > STAGE_ONE_STARTED
                    /\ Goto(p, "open")
                    /\ UNCHANGED cmd
                 \/ /\ stage + 1 <= STAGE_ONE_STARTED
                    /\ Goto(p, "fill")
                    /\ cmd' = [cmd EXCEPT ![p] = FirstStart]
              /\ led' = IF p = Net THEN stage + 1 <= STAGE_ONE_STARTED ELSE led
              /\ UNCHANGED <<pending_ops, open_count, cmd_buf, listen_only,
                             adapterVars, exclusive>>

(* Mutant: a failed start stays counted in. *)
UndoNothing(p) == /\ pc[p] = "undo"
                  /\ Goto(p, IF p = Net THEN "closed" ELSE "uncount")
                  /\ UNCHANGED <<hostVars, adapterVars, cmd, historyVars>>

Undo(p) == /\ pc[p] = "undo"
           /\ stage' = stage - 1
           /\ Goto(p, IF p = Net THEN "closed" ELSE "uncount")
           /\ UNCHANGED <<pending_ops, open_count, cmd_buf, listen_only,
                          adapterVars, cmd, historyVars>>

Uncount(f) == /\ pc[f] = "uncount"
              /\ open_count' = open_count - 1
              /\ Goto(f, "closed")
              /\ UNCHANGED <<stage, pending_ops, cmd_buf, listen_only,
                             adapterVars, cmd, historyVars>>

----------------------------------------------------------------------------
(* Closing.                                                                 *)

NetStop == /\ pc[Net] = "open"
           /\ End
           /\ Goto(Net, "unstage")
           /\ UNCHANGED <<hostVars, adapterVars, cmd>>

(* release lets the next opener in before it has stopped anything. *)
ChrRelease(f) == /\ pc[f] = "open"
                 /\ End
                 /\ open_count' = open_count - 1
                 /\ Goto(f, "unstage")
                 /\ UNCHANGED <<stage, pending_ops, cmd_buf, listen_only, adapterVars, cmd>>

(* Mutant: the last interface but one stops the bus. *)
CountOutEarly(p) == /\ pc[p] = "unstage"
                    /\ stage' = stage - 1
                    /\ \/ /\ stage - 1 > STAGE_ONE_STARTED
                          /\ Goto(p, "closed")
                          /\ UNCHANGED cmd
                       \/ /\ stage - 1 <= STAGE_ONE_STARTED
                          /\ Goto(p, "fill")
                          /\ cmd' = [cmd EXCEPT ![p] = FirstStop]
                    /\ UNCHANGED <<pending_ops, open_count, cmd_buf, listen_only,
                                   adapterVars, historyVars>>

(* Only the last interface stops the bus. *)
CountOut(p) == /\ pc[p] = "unstage"
               /\ stage' = stage - 1
               /\ \/ /\ stage - 1 >= STAGE_ONE_STARTED
                     /\ Goto(p, "closed")
                     /\ UNCHANGED cmd
                  \/ /\ stage - 1 < STAGE_ONE_STARTED
                     /\ Goto(p, "fill")
                     /\ cmd' = [cmd EXCEPT ![p] = FirstStop]
               /\ UNCHANGED <<pending_ops, open_count, cmd_buf, listen_only,
                              adapterVars, historyVars>>

----------------------------------------------------------------------------
(* The rest of the system.                                                  *)

(* `ip link set ... listen-only': netlink refuses it while the device is up *)
SetCtrlmode == /\ pc[Net] = "closed"
               /\ listen_only' = ~listen_only
               /\ UNCHANGED <<stage, pending_ops, open_count, cmd_buf, adapterVars,
                              pc, cmd, historyVars>>

(* `ip link set ... type can bitrate': netlink has the driver send it at     *)
(* once, while the device is down.                                          *)
SetBittiming == /\ pc[Net] = "closed"
                /\ Begin(Net)
                /\ cmd' = [cmd EXCEPT ![Net] = "btr0btr1"]
                /\ Goto(Net, "fill")
                /\ UNCHANGED <<hostVars, adapterVars>>

(* The kernel restarts the controller of an open network device after a     *)
(* bus-off: pcan_net_set_can_mode queues a bus-on in a buffer of its own.   *)
RestartSubmit == /\ pc[Net] = "open"
                 /\ ~restarting
                 /\ restarting' = TRUE
                 /\ UNCHANGED <<hostVars, bus, silent, replies, pc, cmd, historyVars>>

RestartDone == /\ restarting
               /\ restarting' = FALSE
               /\ bus' = "on"
               /\ UNCHANGED <<hostVars, silent, replies, pc, cmd, historyVars>>

----------------------------------------------------------------------------
Init == /\ stage = STAGE_CONNECTED
        /\ pending_ops = 0
        /\ open_count = 0
        /\ cmd_buf = [c |-> "none", arg |-> FALSE]
        /\ listen_only \in BOOLEAN
        /\ pc = [t \in Threads |-> IF t = Plug THEN "fill" ELSE "closed"]
        /\ cmd = [t \in Threads |-> IF t = Plug THEN FirstPlugIn ELSE "none"]
        /\ bus = "off"
        /\ silent = FALSE
        /\ replies = <<>>
        /\ restarting = FALSE
        /\ led = FALSE
        /\ exclusive = TRUE

CommandNext(t) == \/ Fill(t) \/ SendOk(t) \/ SendFail(t)
                  \/ Receive(t) \/ ReceiveFail(t) \/ Result(t)

StageNext(p) == CountIn(p) \/ Undo(p) \/ CountOut(p)

(* What a thread does inside an operation. *)
Proceeds(t) == \/ CommandNext(t)
               \/ t \in Procs /\ StageNext(t)
               \/ t \in Files /\ Uncount(t)

FileNext(f) == ChrOpen(f) \/ ChrRelease(f)

NetNext == NetOpen \/ NetStop \/ SetBittiming

Next == \/ \E t \in Threads : Proceeds(t)
        \/ \E f \in Files : FileNext(f)
        \/ NetNext
        \/ SetCtrlmode \/ RestartSubmit \/ RestartDone

(* A thread inside an operation runs on, and every transfer ends (it has a  *)
(* timeout).  Strongly: restarts cannot keep overtaking a transfer for      *)
(* ever, because the endpoint is a queue.                                   *)
Fairness == /\ \A t \in Threads : SF_vars(Proceeds(t))
            /\ WF_vars(RestartDone)

Spec == Init /\ [][Next]_vars /\ Fairness

----------------------------------------------------------------------------
(* Properties.                                                              *)

Contents == Commands \cup Answers

Shape == /\ stage \in Int /\ pending_ops \in Int /\ open_count \in Int
         /\ cmd_buf \in [c : Contents, arg : BOOLEAN]
         /\ listen_only \in BOOLEAN
         /\ pc \in [Threads -> {"closed", "stage", "fill", "send", "receive", "result",
                                "undo", "uncount", "open", "unstage", "plugged", "failed"}]
         /\ cmd \in [Threads -> Commands]
         /\ bus \in {"on", "off"}
         /\ silent \in BOOLEAN /\ restarting \in BOOLEAN
         /\ replies \in Seq(Answers)
         /\ led \in BOOLEAN /\ exclusive \in BOOLEAN

(* Types; no counter runs below the value it starts from, although each is  *)
(* decremented on error paths.                                              *)
TypeOK == Shape /\ stage >= STAGE_CONNECTED /\ pending_ops >= 0 /\ open_count >= 0

CountedIn(p) == \/ pc[p] \in {"undo", "open", "unstage"}
                \/ pc[p] \in {"fill", "send"} /\ Starting(p)

(* stage is 1 plus the interfaces that are started or starting, however     *)
(* opens, closes, failures and retries interleave: so the first and the     *)
(* last interface can always be told.                                       *)
StageAccounting ==
    stage = STAGE_CONNECTED + Cardinality({p \in Procs : CountedIn(p)})

Waiting == pc[Plug] \in {"send", "receive", "result"} /\ Asks(cmd[Plug])

(* pending_ops counts the commands under way, a responsive one twice while  *)
(* it is sent: destruction may wait for 0, whatever failed.                 *)
PendingAccounting ==
    pending_ops = Cardinality({t \in Threads : pc[t] = "send"}) + (IF Waiting THEN 1 ELSE 0)

Holds(f) == \/ pc[f] \in {"stage", "undo", "open"}
            \/ pc[f] \in {"fill", "send"} /\ Starting(f)

(* At most one open of the character device is in force. *)
OneSession == \A f, g \in Files : Holds(f) /\ Holds(g) => f = g

BusFollowsStage == Quiet /\ stage >= STAGE_ONE_STARTED => bus = "on"

(* As long as no operation runs into another, the bus is on whenever an     *)
(* interface is started, whatever command failed before.                    *)
ExclusiveBusOn == exclusive => BusFollowsStage

(* The same without the condition: what the README's "make both interfaces  *)
(* available simultaneously" needs.  NOT true of the code: see the run      *)
(* bus_overlap.                                                             *)
StartedMeansOn == BusFollowsStage

(* What a plug-in that nobody has overlapped takes for the serial number or *)
(* the device id is the adapter's answer to that question, although the     *)
(* answer is received into the buffer that the question was sent from.      *)
ExclusiveIdentity ==
    exclusive /\ pc[Plug] = "result" => cmd_buf.c = Answer[cmd[Plug]]

(* A network device that has started the bus has its listen-only mode in    *)
(* force as long as it is up, whoever opens and closes the character        *)
(* device meanwhile.  (The second interface does not send the command: see  *)
(* `led'.)                                                                  *)
LeaderListens ==
    exclusive /\ HasSilent /\ led /\ pc[Net] = "open" => silent = listen_only

(* Every open, close and plug-in comes to an end, also when its transfers   *)
(* fail.                                                                    *)
OperationsEnd == \A t \in Threads : []<>~Busy(t)
----------------------------------------------------------------------------
(* The inductive strengthening that the proofs of BusControl_proofs use.    *)

Sessions == {f \in Files : Holds(f) \/ pc[f] = "uncount"}

(* open_count counts the files between its increment and its decrement. *)
CountAccounting == open_count = Cardinality(Sessions)

InCommand(t) == pc[t] \in {"fill", "send", "receive", "result"}

(* A command is current exactly while it is under way; only plug-in asks    *)
(* and only files wait to be uncounted.                                     *)
CommandInProgress ==
    /\ \A t \in Threads : InCommand(t) <=> cmd[t] # "none"
    /\ \A p \in Procs : ~Asks(cmd[p]) /\ pc[p] \notin {"receive", "result", "plugged", "failed"}
    /\ ~Starting(Plug) /\ (pc[Plug] \in {"receive", "result"} => Asks(cmd[Plug]))
    /\ InCommand(Plug) \/ pc[Plug] \in {"plugged", "failed"}
    /\ pc[Net] # "uncount"

(* The answer plug-in waits for, and no other, is on its way. *)
Conversation ==
    \/ pc[Plug] = "failed"
    \/ pc[Plug] = "receive" /\ replies = <<Answer[cmd[Plug]]>>
    \/ pc[Plug] = "result"  /\ replies = <<>> /\ cmd_buf.c = Answer[cmd[Plug]]
    \/ pc[Plug] \in {"fill", "send", "plugged"} /\ replies = <<>>

(* The silent command of a starting network device is on its way or done. *)
LeaderStarts ==
    HasSilent /\ led =>
        /\ pc[Net] = "send" /\ cmd[Net] = "silent" => cmd_buf.arg = listen_only
        /\ \/ pc[Net] = "open"
           \/ pc[Net] \in {"fill", "send"} /\ cmd[Net] \in {"ext_vcc", "bus_on"}
           => silent = listen_only

(* Without overlap there is one operation at a time; what it sends is what  *)
(* it filled in; only the bit rate is sent while an interface is open; and  *)
(* the bus is on while one is.                                              *)
NoOverlap ==
    exclusive =>
        /\ \A t, u \in Threads : Busy(t) /\ Busy(u) => t = u
        /\ \A t \in Threads : pc[t] = "send" => cmd_buf.c = cmd[t]
        /\ \A t \in Threads, p \in Procs :
              InCommand(t) /\ cmd[t] # "btr0btr1" => pc[p] # "open"
        /\ (\E p \in Procs : pc[p] = "open") => bus = "on"
        /\ Conversation
        /\ LeaderStarts

BusInv == /\ Shape
          /\ StageAccounting
          /\ PendingAccounting
          /\ CountAccounting
          /\ OneSession
          /\ CommandInProgress
          /\ NoOverlap
=============================================================================
