------------------------------- MODULE Codec -------------------------------
(***************************************************************************)
(* The record decoder (packet_codec.c): the cursor over a packet, the      *)
(* reconstruction of the adapter's 16-bit time stamps, and the time        *)
(* reference from which the stamps of frames are computed.                 *)
(*                                                                         *)
(* Records are decoded by one completion handler.  The time reference is   *)
(* cleared by the first interface to start, between any two records.       *)
(*                                                                         *)
(* Time counts ticks of the adapter; the host's clock runs at that rate.   *)
(* The adapter stamps records as the decoder reads them: in full in the    *)
(* first status record at index 0 and in the first data record, else the   *)
(* low part, and less than Low ticks after the record before it.           *)
(***************************************************************************)
EXTENDS Integers

CONSTANTS
    Low, High,      \* values of the low and high byte of a time stamp
    RebaseAfter,    \* the 4200 seconds after which the time base moves
    Boot, MaxTime,  \* bound: the clock runs from Boot to MaxTime
    Sizes,          \* bound: bytes of a packet
    MaxRecords,     \* bound: records a packet declares
    Lens            \* values of the length nibble

ASSUME CodecAssumption ==
    /\ Low \in Nat \ {0} /\ High \in Nat \ {0} /\ RebaseAfter \in Nat
    /\ Boot \in Nat \ {0} /\ MaxTime \in Nat /\ MaxRecords \in Nat
    /\ Sizes \subseteq Nat /\ (\A size \in Sizes : size > 2) /\ Lens \subseteq Nat

VARIABLES
    now, arrived,       \* the clock; when the packet under decoding arrived
    dpc,                \* the handler: "idle" or in the loop, "record"
    left,               \* end - ptr, -1 behind the end
    rec_cnt, rec_idx,   \* msg_context_t
    data_seen,          \* rec_data_idx > 0
    ts16, prev_ts8,
    stamp,              \* time of the latest stamped record
    synced,             \* history: ts16 has been read in full in this packet
    time_ref,           \* pcan_time_ref_t
    passes,             \* history: calls of set_time_reference, up to 2
    hwtstamp,           \* the stamp of the latest frame handed on
    up                  \* the interfaces that are started

ctxVars   == <<left, rec_cnt, rec_idx, data_seen, ts16, prev_ts8, synced>>
stampVars == <<arrived, stamp>>
refVars   == <<time_ref, passes>>
vars      == <<now, dpc, ctxVars, stampVars, refVars, hwtstamp, up>>

Wide == Low * High    \* 1 << PCAN_USB_TS_USED_BITS

NoReference == [tv_host_0 |-> 0, tv_host |-> 0, ts_dev_1 |-> 0, ts_dev_2 |-> 0,
                ts_total |-> 0, tick_count |-> 0]

Interfaces == {"netdev", "chardev"}

----------------------------------------------------------------------------
(* The time reference.                                                      *)

(* A difference of two stamps, masked only if it is negative. *)
Elapsed(from, to) == IF to < from THEN (to - from) % Wide ELSE to - from

update_time_reference(ref, ts) ==
    [ref EXCEPT !.ts_dev_2 = ts,
                !.ts_total = IF ref.tv_host > 0 THEN @ + Elapsed(ref.ts_dev_1, ts) ELSE @]

set_time_reference(ref, ts) ==
    LET far   == ref.tv_host - ref.tv_host_0 > RebaseAfter
        timed == IF ref.tv_host_0 = 0
                 THEN [ref EXCEPT !.tv_host_0 = now, !.tv_host = 0]
                 ELSE IF ref.tv_host = 0 THEN ref
                 ELSE [ref EXCEPT !.tv_host_0 = IF far THEN ref.tv_host ELSE @,
                                  !.ts_total = IF far THEN 0 ELSE @,
                                  !.tv_host = now,
                                  !.tick_count = @ + 1]
    IN update_time_reference([timed EXCEPT !.ts_dev_1 = timed.ts_dev_2], ts)

compute_kernel_time(ref, ts) ==
    IF ref.tv_host > 0 THEN ref.tv_host_0 + Elapsed(ref.ts_dev_2, ts) + ref.ts_total
    ELSE now

----------------------------------------------------------------------------
(* The time stamps of a packet.                                             *)

StampBytes(first) == IF first THEN 2 ELSE 1

(* The times at which the adapter may have stamped the next record. *)
NextStamps(full) == {s \in stamp..arrived : synced /\ ~full => s < stamp + Low}

(* Mutant: an equal low byte counts as an overflow of it. *)
CarryAtEqual(s) == s % Low <= prev_ts8

Carry(s) == s % Low < prev_ts8

decode_timestamp(first, s) ==
    IF first THEN s % Wide
    ELSE LET high == (IF Carry(s) THEN ts16 + Low ELSE ts16) \div Low
         IN (high * Low + (s % Low)) % Wide

(* ts16, prev_ts8 and what is known of them after a stamp. *)
ReadStamp(first, s) == /\ ts16' = decode_timestamp(first, s)
                       /\ prev_ts8' = s % Low
                       /\ synced' = (synced \/ first)
                       /\ stamp' = s

----------------------------------------------------------------------------
(* The loop over the records (decode_incoming_buf).                         *)

(* The context lives as long as its packet. *)
FreshContext == /\ rec_idx' = 0 /\ data_seen' = FALSE
                /\ ts16' = 0 /\ prev_ts8' = 0 /\ synced' = FALSE

UrbArrives == /\ dpc = "idle" /\ up # {}
              /\ \E size \in Sizes, cnt \in 0..MaxRecords :
                    left' = size - 2 /\ rec_cnt' = cnt
              /\ dpc' = "record"
              /\ FreshContext
              /\ arrived' = now
              /\ UNCHANGED <<now, stamp, refVars, hwtstamp, up>>

PacketEnds == /\ dpc = "record" /\ rec_idx = rec_cnt
              /\ dpc' = "idle"
              /\ left' = 0 /\ rec_cnt' = 0
              /\ FreshContext
              /\ arrived' = Boot
              /\ UNCHANGED <<now, stamp, refVars, hwtstamp, up>>

AtRecord == dpc = "record" /\ rec_idx < rec_cnt

(* An error ends the loop, with the cursor `bytes` before the end. *)
FailAt(bytes) == /\ left' = bytes
                 /\ rec_cnt' = rec_idx
                 /\ UNCHANGED rec_idx

(* A record that fails before its stamp is read: behind its status byte     *)
(* (interface closed, no room, no memory, too few bytes), its function and  *)
(* number, or its identifier.  Whether the status byte itself is inside     *)
(* the packet nobody tests: with fewer records than rec_cnt the byte behind *)
(* the end is taken for one.                                                *)
Refuse == /\ AtRecord
          /\ \/ FailAt(left - 1)
             \/ \E head \in {2, 4} : left - 1 >= head /\ FailAt(left - 1 - head)
          /\ UNCHANGED <<now, dpc, data_seen, ts16, prev_ts8, synced, stampVars, refVars, hwtstamp,
                         up>>

(* Mutant: the length of the rest is not compared with the end. *)
RestUnchecked(bytes, len) == /\ left' = bytes - len
                             /\ rec_idx' = rec_idx + 1
                             /\ UNCHANGED rec_cnt

(* The test of the length, at the end of a record. *)
Rest(bytes, len) == \/ /\ len <= bytes
                       /\ left' = bytes - len
                       /\ rec_idx' = rec_idx + 1
                       /\ UNCHANGED rec_cnt
                    \/ len > bytes /\ FailAt(bytes)

(* decode_data: status, identifier, stamp, and data unless it is a remote   *)
(* request.                                                                 *)
DataRecord == /\ AtRecord /\ up # {}
              /\ \E s \in NextStamps(~data_seen), bytes \in 0..left, len \in Lens \cup {0} :
                    /\ \E id \in {2, 4} : bytes = left - 1 - id - StampBytes(~data_seen)
                    /\ ReadStamp(~data_seen, s)
                    /\ Rest(bytes, len)
                    /\ hwtstamp' = IF len <= bytes THEN compute_kernel_time(time_ref, ts16')
                                                  ELSE hwtstamp
              /\ data_seen' = TRUE
              /\ UNCHANGED <<now, dpc, arrived, refVars, up>>

(* decode_status_and_error: status, function and number, perhaps a stamp.   *)
(* The first two are tested against the end together (383).                 *)
StatusHead(s, bytes, stamped) ==
    IF stamped THEN bytes = left - 3 - StampBytes(rec_idx = 0) /\ ReadStamp(rec_idx = 0, s)
               ELSE bytes = left - 3 /\ s = stamp /\ UNCHANGED <<ts16, prev_ts8, synced, stamp>>

(* An error frame is handed on before the length of the rest is tested. *)
ErrorFrame(stamped) == /\ stamped /\ "netdev" \in up
                       /\ hwtstamp' = compute_kernel_time(time_ref, ts16')

(* Analog values, bus load, bus events, errors and unknown functions.  It   *)
(* fails here on an error without memory for a frame and on a time record   *)
(* without its time.  What an error does to can.state is left out.          *)
StatusRecord == /\ AtRecord
                /\ \E stamped \in BOOLEAN, s \in NextStamps(rec_idx = 0),
                      bytes \in 0..left, len \in Lens \cup {1, 2} :
                      /\ StatusHead(s, bytes, stamped)
                      /\ \/ Rest(bytes, len) /\ (UNCHANGED hwtstamp \/ ErrorFrame(stamped))
                         \/ FailAt(bytes) /\ UNCHANGED hwtstamp
                /\ UNCHANGED <<now, dpc, data_seen, arrived, refVars, up>>

(* update_timestamp: the 16-bit time is read in place; prev_ts8 stays, so   *)
(* the next low byte is compared with a stamp from before.                  *)
TimeRecord == /\ AtRecord
              /\ \E s \in NextStamps(TRUE), bytes \in 2..left, len \in Lens :
                    /\ \/ bytes = left - 3 /\ UNCHANGED prev_ts8
                       \/ bytes = left - 3 - StampBytes(rec_idx = 0) /\ prev_ts8' = s % Low
                    /\ ts16' = s % Wide /\ stamp' = s
                    /\ IF rec_idx > 0
                       THEN /\ time_ref' = update_time_reference(time_ref, s % Wide)
                            /\ UNCHANGED passes
                       ELSE /\ time_ref' = set_time_reference(time_ref, s % Wide)
                            /\ passes' = IF passes < 2 THEN passes + 1 ELSE passes
                    /\ Rest(bytes, len)
              /\ synced' = FALSE
              /\ UNCHANGED <<now, dpc, data_seen, arrived, hwtstamp, up>>

----------------------------------------------------------------------------
(* The interfaces.                                                          *)

(* The first one to start clears the time reference. *)
Start(i) == /\ i \notin up
            /\ up' = up \cup {i}
            /\ IF up = {} THEN time_ref' = NoReference /\ passes' = 0
                          ELSE UNCHANGED refVars
            /\ UNCHANGED <<now, dpc, ctxVars, stampVars, hwtstamp>>

StopInterface(i) == /\ i \in up
                    /\ up' = up \ {i}
                    /\ UNCHANGED <<now, dpc, ctxVars, stampVars, refVars, hwtstamp>>

Tick == /\ now < MaxTime
        /\ now' = now + 1
        /\ UNCHANGED <<dpc, ctxVars, stampVars, refVars, hwtstamp, up>>

----------------------------------------------------------------------------
Init == /\ now = Boot /\ arrived = Boot
        /\ dpc = "idle"
        /\ left = 0 /\ rec_cnt = 0 /\ rec_idx = 0 /\ data_seen = FALSE
        /\ ts16 = 0 /\ prev_ts8 = 0 /\ synced = FALSE /\ stamp = Boot
        /\ time_ref = NoReference /\ passes = 0 /\ hwtstamp = 0
        /\ up = {}

HandlerRuns == PacketEnds \/ Refuse \/ DataRecord \/ StatusRecord \/ TimeRecord

Next == \/ UrbArrives \/ HandlerRuns
        \/ \E i \in Interfaces : Start(i) \/ StopInterface(i)
        \/ Tick

Spec == Init /\ [][Next]_vars

----------------------------------------------------------------------------
(* Properties.                                                              *)

Shape == /\ now \in Nat /\ arrived \in Boot..now /\ stamp \in Boot..now
         /\ dpc \in {"idle", "record"}
         /\ left \in Int
         /\ rec_cnt \in 0..MaxRecords /\ rec_idx \in 0..rec_cnt
         /\ ts16 \in 0..(Wide - 1) /\ prev_ts8 \in 0..(Low - 1)
         /\ data_seen \in BOOLEAN /\ synced \in BOOLEAN
         /\ passes \in 0..2 /\ hwtstamp \in Nat
         /\ up \subseteq Interfaces

(* Whatever lengths and however many records a packet declares, the decoder *)
(* reads at most one byte behind its end, and nothing more after that one.  *)
InPacket == left >= -1 /\ (left = -1 => rec_idx = rec_cnt)

(* Types, and the place of the cursor. *)
TypeOK == Shape /\ InPacket

(* The 16-bit stamp put together from low bytes is the adapter's time, also *)
(* when the low byte or all 16 bits wrap around, as long as no time record  *)
(* comes in between.                                                        *)
StampExact == synced => ts16 = stamp % Wide /\ prev_ts8 = stamp % Low

(* The frames handed on bear stamps that never go backwards. *)
StampsOrdered == [][hwtstamp' >= hwtstamp]_vars

(* After two time records at the head of a packet the time reference is     *)
(* valid ("should wait at least two passes before computing").  NOT true    *)
(* of the code: see the run codec_reference.                                *)
TwoPasses == passes = 2 => time_ref.tv_host > 0
=============================================================================
