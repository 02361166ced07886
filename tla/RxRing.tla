------------------------------- MODULE RxRing -------------------------------
(***************************************************************************)
(* The receive path of the character device: the ring rx_msgs[] that the   *)
(* RX URB completion fills (decode_data, packet_codec.c), the three        *)
(* operations that empty it (read, PCAN_READ_MSG and PCANFD_RECV_MSGS) and *)
(* open/release, which reset it.                                           *)
(*                                                                         *)
(* Concurrency kept from the code:                                         *)
(*  - the completion handler fills a slot WITHOUT the spinlock and         *)
(*    publishes it with two stores under it (index, then count);           *)
(*  - readers test the count without the lock, sleep, test it again, and   *)
(*    dequeue under the lock; they copy to the user after the unlock, out  *)
(*    of buffers that read and PCANFD_RECV_MSGS share between threads;     *)
(*  - open stores the index and the count without the lock.                *)
(* A dequeue is one step: it holds the lock, so the decoder's two stores   *)
(* cannot fall inside, and no open can reset the ring meanwhile because a  *)
(* reader holds a reference to the one open file.                          *)
(*                                                                         *)
(* Not here: plug-out, and the bus commands that open and release send.    *)
(* map_umem is FALSE, its default.                                         *)
(***************************************************************************)
EXTENDS Integers, Sequences, FiniteSets

CONSTANTS
    RxBufCount,     \* PCAN_CHRDEV_MAX_RX_BUF_COUNT
    BytesPerRead,   \* PCAN_CHRDEV_MAX_BYTES_PER_READ
    Readers,        \* threads of the process that has the device open
    Op,             \* Op[r]: the operation thread r performs
    Counts,         \* Counts[r]: the counts thread r may ask for
    Files,          \* open(2) calls that compete for the device
    MaxRecords      \* bound: data records decoded in a behaviour

Ops == {"read", "read_msg", "fd_recv_msgs"}

ASSUME RingAssumption ==
    /\ RxBufCount \in Nat \ {0}
    /\ BytesPerRead \in Nat \ {0}
    /\ Op \in [Readers -> Ops]
    /\ Counts \in [Readers -> SUBSET Nat]
    /\ IsFiniteSet(Files)
    /\ MaxRecords \in Nat

VARIABLES
    rx_msgs, rx_write_idx, rx_unread_cnt, rx_packets,  \* pcan_chardev_t
    bufs,           \* rd_kernel_buf, ioctl_rxmsgs->list, read_msg's stack copy
    rxmsgs_count,   \* ioctl_rxmsgs->count, shared like its list
    open_count, stage, net_up,
    dpc,            \* where the RX URB completion handler is
    records,        \* data records begun so far; the number of the current one
    unread_seen,    \* decode_data: unread_count
    slot,           \* decode_data: rx_write_idx (the local)
    skb,            \* decode_data: net_up (the local)
    rpc,            \* rpc[r]: where reader r is
    want,           \* want[r]: the count reader r passed in
    nread,          \* nread[r]: messages reader r will copy to its user
    taken,          \* taken[r]: what r dequeued (history, never read)
    fpc             \* fpc[f]: where open/release of file f is

ringVars    == <<rx_msgs, rx_write_idx, rx_unread_cnt, rx_packets>>
decoderVars == <<dpc, records, unread_seen, slot, skb>>
readerVars  == <<bufs, rxmsgs_count, rpc, want, nread, taken>>
sessionVars == <<open_count, stage, net_up, fpc>>
vars        == <<ringVars, decoderVars, readerVars, sessionVars>>

(***************************************************************************)
(* A slot holds the number of the record decoded into it, or one of two    *)
(* contents that are no record: Blank (never filled, or left dirty by a    *)
(* record that failed to decode; in a buffer, damaged) and Freed (see      *)
(* Decoded).                                                               *)
(***************************************************************************)
Blank == 0
Freed == -1
Items == {Blank, Freed} \cup 1..MaxRecords
SlotIds == 0..(RxBufCount - 1)

STAGE_ONE_STARTED == 2

(* The buffer an operation formats into: one per kind, or the caller's own. *)
BufOf(r) == IF Op[r] = "read_msg" THEN <<"read_msg", r>> ELSE <<Op[r]>>
Buffers == {BufOf(r) : r \in Readers}

pcan_chardev_calc_rx_read_index(w, unread) ==
    (w + RxBufCount - unread) % RxBufCount

(* The k-th (from 0) of the unread slots that end just before index w. *)
Nth(w, unread, k) ==
    (pcan_chardev_calc_rx_read_index(w, unread) + k) % RxBufCount

----------------------------------------------------------------------------
(* The RX URB completion handler: one URB at a time, record after record.   *)

(* usb_read_bulk_callback goes on only while an interface is started. *)
UrbArrives == /\ dpc = "idle"
              /\ stage >= STAGE_ONE_STARTED
              /\ dpc' = "record"
              /\ UNCHANGED <<ringVars, readerVars, sessionVars,
                             records, unread_seen, slot, skb>>

(* No record left in this URB. *)
UrbDone == /\ dpc = "record"
           /\ dpc' = "idle"
           /\ UNCHANGED <<ringVars, readerVars, sessionVars,
                          records, unread_seen, slot, skb>>

(* decode_data samples open_count and the count.  Both loads are one step:  *)
(* open_count only matters as "was it zero", and the count changes between  *)
(* a release and the next open only by the handler itself.                  *)
DecodeBegin == /\ dpc = "record"
               /\ records < MaxRecords
               /\ records' = records + 1
               /\ unread_seen' = IF open_count < 1 THEN -1 ELSE rx_unread_cnt
               /\ dpc' = "index"
               /\ UNCHANGED <<ringVars, readerVars, sessionVars, slot, skb>>

(* Mutant: a full ring is taken to have room. *)
HasRoomWhenFull == unread_seen \in 0..RxBufCount

HasRoom == unread_seen \in 0..(RxBufCount - 1)

(* It samples the index, then netif_running.  Without room in the ring the  *)
(* record goes to the network stack only; with the network down too, the    *)
(* error ends the URB, and so does a failed skb allocation.                 *)
DecodeIndex == /\ dpc = "index"
               /\ slot' = rx_write_idx
               /\ skb' = net_up
               /\ \/ /\ HasRoom
                     /\ dpc' = "fill"
                  \/ /\ ~HasRoom
                     /\ dpc' = IF net_up THEN "record" ELSE "idle"
                  \/ /\ net_up
                     /\ dpc' = "idle"
               /\ unread_seen' = 0  \* not used any more
               /\ UNCHANGED <<ringVars, readerVars, sessionVars, records>>

(* With the network up the record is decoded into the skb, handed to        *)
(* netif_rx, and copied from the skb afterwards: if the stack has already   *)
(* freed it, the slot gets whatever the memory holds.                       *)
Decoded == IF skb THEN {records, Freed} ELSE {records}

(* The slot is filled without the lock. *)
DecodeFill == /\ dpc = "fill"
              /\ \E item \in Decoded : rx_msgs' = [rx_msgs EXCEPT ![slot] = item]
              /\ dpc' = "publish"
              /\ UNCHANGED <<rx_write_idx, rx_unread_cnt, rx_packets, readerVars,
                             sessionVars, records, unread_seen, slot, skb>>

(* Mutant: the slot of a record that failed to decode is published. *)
DecodeFailPublishes ==
    /\ dpc = "fill"
    /\ rx_msgs' = IF skb THEN rx_msgs ELSE [rx_msgs EXCEPT ![slot] = Blank]
    /\ dpc' = "publish"
    /\ UNCHANGED <<rx_write_idx, rx_unread_cnt, rx_packets, readerVars,
                   sessionVars, records, unread_seen, slot, skb>>

(* decode_failed: with the network down the slot is left half written, and  *)
(* the rest of the URB is abandoned.                                        *)
DecodeFail == /\ dpc = "fill"
              /\ rx_msgs' = IF skb THEN rx_msgs
                            ELSE [rx_msgs EXCEPT ![slot] = Blank]
              /\ dpc' = "idle"
              /\ UNCHANGED <<rx_write_idx, rx_unread_cnt, rx_packets, readerVars,
                             sessionVars, records, unread_seen, slot, skb>>

(* Mutant: the index is not advanced. *)
PublishIndexStuck == /\ dpc = "publish"
                     /\ rx_write_idx' = slot
                     /\ dpc' = "count"
                     /\ UNCHANGED <<rx_msgs, rx_unread_cnt, rx_packets, readerVars,
                                    sessionVars, records, unread_seen, slot, skb>>

(* The lock is held from this step to the next one: dpc = "count". *)
PublishIndex == /\ dpc = "publish"
                /\ rx_write_idx' = (slot + 1) % RxBufCount
                /\ dpc' = "count"
                /\ UNCHANGED <<rx_msgs, rx_unread_cnt, rx_packets, readerVars,
                               sessionVars, records, unread_seen, slot, skb>>

PublishCount == /\ dpc = "count"
                /\ rx_unread_cnt' = rx_unread_cnt + 1
                /\ rx_packets' = rx_packets + 1
                /\ dpc' = "wake"
                /\ UNCHANGED <<rx_msgs, rx_write_idx, readerVars,
                               sessionVars, records, unread_seen, slot, skb>>

(* Mutant: one sleeper is woken, not all. *)
WakeUpOne == /\ dpc = "wake"
             /\ LET asleep == {r \in Readers : rpc[r] = "asleep"} IN
                \/ asleep = {} /\ UNCHANGED rpc
                \/ \E r \in asleep : rpc' = [rpc EXCEPT ![r] = "wait"]
             /\ dpc' = "record"
             /\ UNCHANGED <<ringVars, bufs, rxmsgs_count, want, nread, taken,
                            sessionVars, records, unread_seen, slot, skb>>

(* wake_up_interruptible: every sleeper tests its condition again. *)
WakeUp == /\ dpc = "wake"
          /\ rpc' = [r \in Readers |-> IF rpc[r] = "asleep" THEN "wait" ELSE rpc[r]]
          /\ dpc' = "record"
          /\ UNCHANGED <<ringVars, bufs, rxmsgs_count, want, nread, taken,
                         sessionVars, records, unread_seen, slot, skb>>

(* Mutant: the lock does not cover the two stores. *)
LockedNever == FALSE

Locked == dpc = "count"
----------------------------------------------------------------------------
(* The readers.                                                             *)

SessionOpen == \E f \in Files : fpc[f] = "open"

Goto(r, label) == rpc' = [rpc EXCEPT ![r] = label]

(* The call returns: its arguments and locals are gone. *)
Return(r) == /\ Goto(r, "idle")
             /\ want' = [want EXCEPT ![r] = 0]
             /\ nread' = [nread EXCEPT ![r] = 0]
             /\ taken' = [taken EXCEPT ![r] = << >>]

(* Where a reader goes once it believes a message is there. *)
Ready(r) == IF Op[r] = "fd_recv_msgs" THEN "get_count" ELSE "dequeue"

(* A call that passes the argument checks.  Non-blocking: one look at the   *)
(* count; blocking: wait_event_interruptible.                               *)
Call(r, n) ==
    /\ rpc[r] = "idle"
    /\ SessionOpen
    /\ Op[r] = "read" => n > BytesPerRead
    /\ want' = [want EXCEPT ![r] = n]
    /\ \/ Goto(r, "wait")
       \/ /\ rx_unread_cnt > 0
          /\ Goto(r, Ready(r))
    /\ UNCHANGED <<ringVars, decoderVars, sessionVars, bufs, rxmsgs_count,
                   nread, taken>>

readerLocals == <<want, nread, taken>>
sharedRest   == <<ringVars, decoderVars, sessionVars, bufs, rxmsgs_count>>

(* Mutant: the caller falls asleep without a look at the count. *)
WaitUntested(r) == /\ rpc[r] = "wait"
                   /\ Goto(r, "asleep")
                   /\ UNCHANGED <<sharedRest, readerLocals>>

(* wait_event_interruptible queues the caller before it tests, so that the  *)
(* test and falling asleep are one step with respect to a wake-up.          *)
Wait(r) == /\ rpc[r] = "wait"
           /\ Goto(r, IF rx_unread_cnt > 0 THEN "recheck" ELSE "asleep")
           /\ UNCHANGED <<sharedRest, readerLocals>>

(* A signal ends the wait: -ERESTARTSYS. *)
Signal(r) == /\ rpc[r] = "asleep"
             /\ Return(r)
             /\ UNCHANGED sharedRest

(* Another reader may have emptied the ring: -EAGAIN. *)
Recheck(r) == /\ rpc[r] = "recheck"
              /\ \/ /\ rx_unread_cnt > 0
                    /\ Goto(r, Ready(r))
                    /\ UNCHANGED readerLocals
                 \/ /\ rx_unread_cnt <= 0
                    /\ Return(r)
              /\ UNCHANGED sharedRest

(* fd_recv_msgs fetches the count into the shared structure, unlocked, and  *)
(* tests it there: -EINVAL for zero, which stays behind; -EFAULT otherwise. *)
GetCount(r) == /\ rpc[r] = "get_count"
               /\ \/ /\ want[r] # 0
                     /\ rxmsgs_count' = want[r]
                     /\ Goto(r, "dequeue")
                     /\ UNCHANGED readerLocals
                  \/ /\ want[r] = 0
                     /\ rxmsgs_count' = 0
                     /\ Return(r)
                  \/ /\ Return(r)
                     /\ UNCHANGED rxmsgs_count
               /\ UNCHANGED <<ringVars, decoderVars, sessionVars, bufs>>

(* How many messages the caller has room for.  read keeps one byte for a    *)
(* terminator: an exact multiple of the line size holds one line less.      *)
Room(r) ==
    CASE Op[r] = "read" ->
            want[r] \div BytesPerRead + (IF want[r] % BytesPerRead # 0 THEN 0 ELSE -1)
      [] Op[r] = "read_msg" -> 1
      [] Op[r] = "fd_recv_msgs" -> rxmsgs_count

(* Mutant: the batch is not limited by the count. *)
BatchUnlimited(r) == IF Room(r) > RxBufCount THEN RxBufCount ELSE Room(r)

Batch(r) == IF Room(r) > rx_unread_cnt THEN rx_unread_cnt ELSE Room(r)

(* What is in the buffer behind the batch: what was there before, but read  *)
(* stores its terminator at twice the length of its text, behind twice as   *)
(* many lines, and damages the line there.  (From half a buffer of full     *)
(* lines on it lands outside of the buffer, in memory that is not modelled.)*)
Behind(r, i) == IF Op[r] = "read" /\ i = 2 * Batch(r) + 1 THEN Blank ELSE bufs[BufOf(r)][i]

(* Under the lock: look again, format Batch(r) messages into the buffer,    *)
(* oldest first, and take them out of the count.                            *)
Dequeue(r) ==
    /\ rpc[r] = "dequeue"
    /\ ~Locked
    /\ rx_unread_cnt > 0
    /\ LET item(i) == rx_msgs[Nth(rx_write_idx, rx_unread_cnt, i - 1)] IN
       /\ bufs' = [bufs EXCEPT ![BufOf(r)] =
                     [i \in 1..RxBufCount |-> IF i <= Batch(r) THEN item(i) ELSE Behind(r, i)]]
       /\ taken' = [taken EXCEPT ![r] = [i \in 1..Batch(r) |-> item(i)]]
    /\ rx_unread_cnt' = rx_unread_cnt - Batch(r)
    /\ nread' = [nread EXCEPT ![r] = Batch(r)]
    /\ rxmsgs_count' = IF Op[r] = "fd_recv_msgs" THEN Batch(r) ELSE rxmsgs_count
    /\ Goto(r, "copy")
    /\ UNCHANGED <<rx_msgs, rx_write_idx, rx_packets, decoderVars, sessionVars, want>>

(* Emptied by another reader between the last look and the lock: -EAGAIN. *)
DequeueNone(r) == /\ rpc[r] = "dequeue"
                  /\ ~Locked
                  /\ rx_unread_cnt <= 0
                  /\ Return(r)
                  /\ UNCHANGED sharedRest

(* What copy_to_user hands over, after the unlock: fd_recv_msgs reads the   *)
(* length back from the shared structure, the others kept it.               *)
CopiedOut(r) ==
    [i \in 1..(IF Op[r] = "fd_recv_msgs" THEN rxmsgs_count ELSE nread[r])
        |-> bufs[BufOf(r)][i]]

CopyToUser(r) == /\ rpc[r] = "copy"
                 /\ Return(r)
                 /\ UNCHANGED sharedRest
----------------------------------------------------------------------------
(* open and release.                                                        *)

GotoF(f, label) == fpc' = [fpc EXCEPT ![f] = label]

(* Mutant: the count is tested before it is incremented. *)
OpenCountLate(f) == /\ fpc[f] = "closed"
                    /\ open_count' = open_count + 1
                    /\ GotoF(f, IF open_count > 1 THEN "uncount" ELSE "reset_idx")
                    /\ UNCHANGED <<ringVars, decoderVars, readerVars, stage, net_up>>

(* The increment decides: a second opener backs out with -EMFILE. *)
OpenCount(f) == /\ fpc[f] = "closed"
                /\ open_count' = open_count + 1
                /\ GotoF(f, IF open_count + 1 > 1 THEN "uncount" ELSE "reset_idx")
                /\ UNCHANGED <<ringVars, decoderVars, readerVars, stage, net_up>>

OpenTooMany(f) == /\ fpc[f] = "uncount"
                  /\ open_count' = open_count - 1
                  /\ GotoF(f, "closed")
                  /\ UNCHANGED <<ringVars, decoderVars, readerVars, stage, net_up>>

ResetIdx(f) == /\ fpc[f] = "reset_idx"
               /\ rx_write_idx' = 0
               /\ GotoF(f, "reset_cnt")
               /\ UNCHANGED <<rx_msgs, rx_unread_cnt, rx_packets, decoderVars,
                              readerVars, open_count, stage, net_up>>

ResetCnt(f) == /\ fpc[f] = "reset_cnt"
               /\ rx_unread_cnt' = 0
               /\ GotoF(f, "reset_packets")
               /\ UNCHANGED <<rx_msgs, rx_write_idx, rx_packets, decoderVars,
                              readerVars, open_count, stage, net_up>>

ResetPackets(f) == /\ fpc[f] = "reset_packets"
                   /\ rx_packets' = 0
                   /\ GotoF(f, "stage")
                   /\ UNCHANGED <<rx_msgs, rx_write_idx, rx_unread_cnt, decoderVars,
                                  readerVars, open_count, stage, net_up>>

(* The first interface to start also starts the bus, the second is done. *)
OpenStage(f) == /\ fpc[f] = "stage"
                /\ stage' = stage + 1
                /\ GotoF(f, IF stage + 1 > STAGE_ONE_STARTED THEN "open" ELSE "start")
                /\ UNCHANGED <<ringVars, decoderVars, readerVars, open_count, net_up>>

(* The start commands succeed, or the stage is taken back. *)
OpenStart(f) == /\ fpc[f] = "start"
                /\ \/ /\ GotoF(f, "open")
                      /\ UNCHANGED stage
                   \/ /\ GotoF(f, "uncount")
                      /\ stage' = stage - 1
                /\ UNCHANGED <<ringVars, decoderVars, readerVars, open_count, net_up>>

(* The kernel calls release when the last reference to the file is gone:    *)
(* no thread is inside an operation on it.                                  *)
Release(f) == /\ fpc[f] = "open"
              /\ \A r \in Readers : rpc[r] = "idle"
              /\ open_count' = open_count - 1
              /\ GotoF(f, "release")
              /\ UNCHANGED <<ringVars, decoderVars, readerVars, stage, net_up>>

ReleaseStage(f) == /\ fpc[f] = "release"
                   /\ stage' = stage - 1
                   /\ GotoF(f, "closed")
                   /\ UNCHANGED <<ringVars, decoderVars, readerVars, open_count, net_up>>

(* The network interface comes up or goes down.  (netif_running and the     *)
(* stage change one after the other; the handler samples the stage once per *)
(* URB and netif_running once per record, so it cannot tell.)               *)
NetToggle == /\ net_up' = ~net_up
             /\ stage' = IF net_up THEN stage - 1 ELSE stage + 1
             /\ UNCHANGED <<ringVars, decoderVars, readerVars, open_count, fpc>>
----------------------------------------------------------------------------
RingInit == /\ rx_msgs = [i \in SlotIds |-> Blank]
            /\ rx_write_idx = 0
            /\ rx_unread_cnt = 0
            /\ rx_packets = 0
            /\ bufs = [b \in Buffers |-> [i \in 1..RxBufCount |-> Blank]]
            /\ rxmsgs_count = 0
            /\ dpc = "idle"
            /\ records = 0
            /\ unread_seen = 0
            /\ slot = 0
            /\ skb = FALSE
            /\ rpc = [r \in Readers |-> "idle"]
            /\ want = [r \in Readers |-> 0]
            /\ nread = [r \in Readers |-> 0]
            /\ taken = [r \in Readers |-> << >>]
            /\ net_up \in BOOLEAN

Init == /\ RingInit
        /\ open_count = 0
        /\ stage = IF net_up THEN 2 ELSE 1
        /\ fpc = [f \in Files |-> "closed"]

DecoderNext == \/ UrbArrives \/ UrbDone
               \/ DecodeBegin \/ DecodeIndex \/ DecodeFill \/ DecodeFail
               \/ PublishIndex \/ PublishCount \/ WakeUp

ReaderNext(r) == \/ \E n \in Counts[r] : Call(r, n)
                 \/ Wait(r) \/ Signal(r) \/ Recheck(r) \/ GetCount(r)
                 \/ Dequeue(r) \/ DequeueNone(r) \/ CopyToUser(r)

FileNext(f) == \/ OpenCount(f) \/ OpenTooMany(f)
               \/ ResetIdx(f) \/ ResetCnt(f) \/ ResetPackets(f)
               \/ OpenStage(f) \/ OpenStart(f)
               \/ Release(f) \/ ReleaseStage(f)

Next == \/ DecoderNext
        \/ \E r \in Readers : ReaderNext(r)
        \/ \E f \in Files : FileNext(f)
        \/ NetToggle

(* The completion handler runs to its end once it has been entered.  *)
DecoderFairness == WF_vars(UrbDone) /\ WF_vars(DecodeIndex)
                   /\ WF_vars(DecodeFill \/ DecodeFail) /\ WF_vars(PublishIndex)
                   /\ WF_vars(PublishCount) /\ WF_vars(WakeUp)

(* A thread inside a call is scheduled. *)
ReaderFairness == \A r \in Readers :
    WF_vars(Wait(r) \/ Recheck(r) \/ GetCount(r) \/ Dequeue(r)
            \/ DequeueNone(r) \/ CopyToUser(r))

Spec == Init /\ [][Next]_vars
FairSpec == Spec /\ DecoderFairness /\ ReaderFairness
----------------------------------------------------------------------------
(* Properties.                                                              *)

(* Types.  In particular the count never leaves 0..RxBufCount, whatever the *)
(* readers, the handler and a resetting open do to it without agreeing.     *)
TypeOK ==
    /\ rx_msgs \in [SlotIds -> Items]
    /\ rx_write_idx \in SlotIds
    /\ rx_unread_cnt \in 0..RxBufCount
    /\ rx_packets \in Nat
    /\ bufs \in [Buffers -> [1..RxBufCount -> Items]]
    /\ rxmsgs_count \in Nat
    /\ open_count \in Int
    /\ stage \in Int
    /\ net_up \in BOOLEAN
    /\ dpc \in {"idle", "record", "index", "fill", "publish", "count", "wake"}
    /\ records \in 0..MaxRecords
    /\ unread_seen \in -1..RxBufCount
    /\ slot \in SlotIds
    /\ skb \in BOOLEAN
    /\ rpc \in [Readers -> {"idle", "wait", "asleep", "recheck", "get_count",
                            "dequeue", "copy"}]
    /\ want \in [Readers -> Nat]
    /\ nread \in [Readers -> 0..RxBufCount]
    /\ taken \in [Readers -> Seq(Items)]
    /\ fpc \in [Files -> {"closed", "uncount", "reset_idx", "reset_cnt",
                          "reset_packets", "stage", "start", "open", "release"}]

(* The slots the count declares unread. *)
UnreadSlots == {Nth(rx_write_idx, rx_unread_cnt, k) : k \in 0..(rx_unread_cnt - 1)}

Resetting == \E f \in Files : fpc[f] = "reset_cnt"

(* decode_data fills a slot without the lock: no reader can be looking at   *)
(* it, because it is never among the unread ones, even when an open resets  *)
(* the ring between sampling the index and publishing.  (Between the two    *)
(* stores of the reset the window is meaningless, but ResetAlone says that  *)
(* there is no reader then.)                                                *)
WriterSlotFree ==
    dpc \in {"fill", "publish"} /\ ~Resetting => slot \notin UnreadSlots

Held == {"reset_idx", "reset_cnt", "reset_packets", "stage", "start", "open"}

(* open_count admits one session: while a file is being opened or is open   *)
(* no other is, so an open resets the ring under no reader's feet.          *)
ResetAlone ==
    \A f \in Files : fpc[f] \in Held =>
        /\ \A g \in Files \ {f} : fpc[g] \notin Held
        /\ fpc[f] # "open" => \A r \in Readers : rpc[r] = "idle"

(* Every slot a reader could dequeue was filled by a record: the header     *)
(* calls rx_unread_cnt the "count of unread items".  NOT true of the code:  *)
(* see the run rx_reset_race.                                               *)
UnreadAreDecoded ==
    SessionOpen /\ ~Locked => \A i \in UnreadSlots : rx_msgs[i] # Blank

(* Where the published part of the ring ends: between the two stores of     *)
(* decode_data the index already covers a slot that is not yet counted.     *)
(* Between the two stores of a reset the ring counts as empty: whatever the *)
(* count says then is about to be forgotten.                                *)
End == IF dpc = "count" THEN slot ELSE rx_write_idx

Unread == IF Resetting THEN 0 ELSE rx_unread_cnt

Queue == [k \in 1..Unread |-> rx_msgs[Nth(End, rx_unread_cnt, k - 1)]]

Hands == [r \in Readers |-> IF rpc[r] = "copy" THEN CopiedOut(r) ELSE << >>]

Opening == {"reset_cnt", "reset_packets", "stage", "start"}

Session == IF SessionOpen THEN "open"
           ELSE IF \E f \in Files : fpc[f] \in Opening THEN "opening" ELSE "closed"

Fifo == INSTANCE RxFifo WITH Capacity <- RxBufCount,
                             queue <- Queue, hand <- Hands, session <- Session

(* Through all sessions the ring is the FIFO of RxFifo. *)
ImplementsFifo == Fifo!FifoSpec

(* The same of what is taken out, whatever happens in the buffers that      *)
(* threads share.                                                           *)
Taking == INSTANCE RxFifo WITH Capacity <- RxBufCount,
                               queue <- Queue, hand <- taken, session <- Session
TakesAsFifo == Taking!FifoSpec

(* Frames leave in the order in which they were decoded, also those of a    *)
(* record that was begun before the session: whatever a reader carries is   *)
(* older than whatever is still in the ring.                                *)
InOrder ==
    LET older(a, b) == a > 0 /\ b > 0 => a < b IN
    /\ \A i, j \in 1..Unread : i < j => older(Queue[i], Queue[j])
    /\ \A r \in Readers : \A i \in 1..Len(taken[r]) :
          \A j \in 1..Unread : older(taken[r][i], Queue[j])

(* The damage that a reset between the handler's two stores can do (see     *)
(* UnreadAreDecoded) is one frame: only the oldest entry of the queue can   *)
(* be a slot that no record was decoded into.                               *)
OneUndecodedAtMost == \A k \in 2..Unread : Queue[k] # Blank

(* A thread is never left asleep next to a frame: the count can only have   *)
(* become positive a moment ago, and the wake-up is the handler's next step. *)
NoLostWakeUp ==
    \A r \in Readers : rpc[r] = "asleep" /\ rx_unread_cnt > 0 => dpc = "wake"

(* No lost wake-up: a thread sleeping while a frame is unread is woken. *)
SleeperWakes ==
    \A r \in Readers :
        (rpc[r] = "asleep" /\ rx_unread_cnt > 0) ~> (rpc[r] # "asleep")
----------------------------------------------------------------------------
(* The inductive strengthening that the proofs of RxRing_proofs use.        *)

Counted == Held \cup {"uncount"}

(* open_count is the number of files between its increment and decrement. *)
CountAccounting ==
    open_count = Cardinality({f \in Files : fpc[f] \in Counted})

(* The handler has kept its reservation: the ring is not full, and the slot *)
(* it fills is the next one, unless an open has emptied the ring since.     *)
Reservation ==
    /\ dpc = "index" /\ HasRoom => rx_unread_cnt < RxBufCount
    /\ dpc \in {"fill", "publish", "count"} => rx_unread_cnt < RxBufCount
    /\ dpc \in {"fill", "publish"} =>
          Resetting \/ slot = rx_write_idx \/ rx_unread_cnt = 0

(* A thread is inside an operation only while a file is open, and read has  *)
(* refused buffers without room for a line.                                 *)
ReadersInSession ==
    \A r \in Readers : rpc[r] # "idle" =>
        /\ SessionOpen
        /\ Op[r] = "read" => want[r] > BytesPerRead

RingInv == /\ TypeOK
           /\ CountAccounting
           /\ ResetAlone
           /\ Reservation
           /\ ReadersInSession

ExclusiveBuffers == \A r, s \in Readers : r # s => BufOf(r) # BufOf(s)

(* If no two threads run the same shared-buffer operation, what is copied   *)
(* after the unlock is what was dequeued.                                   *)
BatchIntact ==
    ExclusiveBuffers => \A r \in Readers : rpc[r] = "copy" => CopiedOut(r) = taken[r]

(* The buffers of the readers that copy hold their batch. *)
HandsOK ==
    /\ \A r \in Readers : rpc[r] = "get_count" => Op[r] = "fd_recv_msgs"
    /\ ExclusiveBuffers =>
          \A r \in Readers :
             rpc[r] = "dequeue" /\ Op[r] = "fd_recv_msgs" => rxmsgs_count > 0
    /\ BatchIntact
    /\ ExclusiveBuffers =>
          \A r \in Readers : rpc[r] = "copy" => Len(CopiedOut(r)) \in 1..RxBufCount

(* Between the handler's two stores the index is one beyond the slot, unless *)
(* an open has set it to zero meanwhile: then the ring is empty, and nobody  *)
(* carries anything, until the second store.                                 *)
TornEmpty ==
    dpc = "count" =>
        \/ Resetting
        \/ rx_write_idx = (slot + 1) % RxBufCount
        \/ rx_unread_cnt = 0 /\ \A r \in Readers : taken[r] = << >>

(* What has been dequeued is on its way to the user. *)
TakenInCopy == \A r \in Readers : rpc[r] # "copy" => taken[r] = << >>

SessionInv == RingInv /\ HandsOK /\ TornEmpty /\ TakenInCopy
=============================================================================
