---------------------------- MODULE Codec_proofs ----------------------------
(***************************************************************************)
(* What is proved of Codec, for any widths of the stamp's two parts, any   *)
(* clock and packets of any size.                                          *)
(***************************************************************************)
EXTENDS Codec, TLAPS

(***************************************************************************)
(* Quotients and remainders.                                               *)
(***************************************************************************)
LEMMA MulMono == ASSUME NEW W \in Nat, NEW d \in Int, d >= 1 PROVE d * W >= W
  <1>1. (d - 1) * W >= 0
    <2>1. d - 1 \in Nat
      OBVIOUS
    <2> QED
      BY <2>1
  <1>2. (d - 1) * W = d * W - W /\ d * W \in Int
    OBVIOUS
  <1> QED
    BY <1>1, <1>2

LEMMA DivMod ==
  ASSUME NEW x \in Int, NEW W \in Nat \ {0}
  PROVE  x = (x \div W) * W + (x % W) /\ x \div W \in Int /\ x % W \in 0..(W - 1)
  OBVIOUS

LEMMA Unique ==
  ASSUME NEW W \in Nat \ {0}, NEW a \in Int, NEW b \in Int,
         NEW r \in 0..(W - 1), NEW t \in 0..(W - 1), a * W + r = b * W + t
  PROVE  a = b /\ r = t
  <1>1. (a - b) * W = t - r
    <2>1. (a - b) * W = a * W - b * W /\ a * W \in Int /\ b * W \in Int
      OBVIOUS
    <2> QED
      BY <2>1
  <1>2. (b - a) * W = r - t
    <2>1. (b - a) * W = b * W - a * W /\ a * W \in Int /\ b * W \in Int
      OBVIOUS
    <2> QED
      BY <2>1
  <1>3. ASSUME a - b >= 1 PROVE FALSE
    <2>1. (a - b) * W >= W
      BY <1>3, MulMono
    <2> QED
      BY <2>1, <1>1
  <1>4. ASSUME b - a >= 1 PROVE FALSE
    <2>1. (b - a) * W >= W
      BY <1>4, MulMono
    <2> QED
      BY <2>1, <1>2
  <1>5. a = b
    BY <1>3, <1>4
  <1> QED
    BY <1>5, <1>1

LEMMA ModOf ==
  ASSUME NEW W \in Nat \ {0}, NEW q \in Int, NEW r \in 0..(W - 1)
  PROVE  (q * W + r) % W = r /\ (q * W + r) \div W = q
  <1> DEFINE x == q * W + r
  <1>1. x \in Int
    OBVIOUS
  <1>2. x = (x \div W) * W + (x % W) /\ x \div W \in Int /\ x % W \in 0..(W - 1)
    BY <1>1, DivMod
  <1> HIDE DEF x
  <1>3. x = q * W + r
    BY DEF x
  <1>4. x \div W = q /\ x % W = r
    BY <1>2, <1>3, Unique
  <1> QED
    BY <1>4 DEF x

LEMMA ModShift ==
  ASSUME NEW W \in Nat \ {0}, NEW k \in Int, NEW v \in Int
  PROVE  (k * W + v) % W = v % W
  <1> DEFINE a == v \div W
             r == v % W
  <1>1. v = a * W + r /\ a \in Int /\ r \in 0..(W - 1)
    BY DivMod
  <1> HIDE DEF a, r
  <1>2. k * W + v = (k + a) * W + r
    <2>1. (k + a) * W = k * W + a * W /\ k * W \in Int /\ a * W \in Int
      BY <1>1
    <2> QED
      BY <1>1, <2>1
  <1>3. ((k + a) * W + r) % W = r
    BY <1>1, ModOf
  <1> QED
    BY <1>2, <1>3 DEF r

(* The carry into the high part: between two times less than L apart the    *)
(* quotient grows by one exactly when the remainder falls.                  *)
LEMMA CarryExact ==
  ASSUME NEW L \in Nat \ {0}, NEW p \in Nat, NEW s \in Nat, p <= s, s < p + L
  PROVE  s \div L = (p \div L) + (IF s % L < p % L THEN 1 ELSE 0)
  <1> DEFINE q == p \div L
             r == p % L
             y == s \div L
             t == s % L
             d == y - q
  <1>1. p = q * L + r /\ q \in Int /\ r \in 0..(L - 1)
    BY DivMod
  <1>2. s = y * L + t /\ y \in Int /\ t \in 0..(L - 1)
    BY DivMod
  <1> HIDE DEF q, r, y, t
  <1>3. d \in Int /\ d * L = (s - p) + (r - t)
    <2>1. d * L = y * L - q * L /\ y * L \in Int /\ q * L \in Int
      BY <1>1, <1>2
    <2> QED
      BY <1>1, <1>2, <2>1
  <1> HIDE DEF d
  <1>4. ASSUME d >= 2 PROVE FALSE
    <2>1. (d - 1) * L >= L
      BY <1>3, <1>4, MulMono
    <2>2. (d - 1) * L = d * L - L /\ d * L \in Int
      BY <1>3
    <2> QED
      BY <1>1, <1>2, <1>3, <2>1, <2>2
  <1>5. ASSUME d <= -1 PROVE FALSE
    <2>1. (-d) * L >= L
      BY <1>3, <1>5, MulMono
    <2>2. (-d) * L = -(d * L) /\ d * L \in Int
      BY <1>3
    <2> QED
      BY <1>1, <1>2, <1>3, <2>1, <2>2
  <1>6. d = 0 \/ d = 1
    BY <1>3, <1>4, <1>5
  <1>7. d = IF t < r THEN 1 ELSE 0
    <2>1. CASE d = 0
      BY <1>1, <1>2, <1>3, <2>1
    <2>2. CASE d = 1
      BY <1>1, <1>2, <1>3, <2>2
    <2> QED
      BY <1>6, <2>1, <2>2
  <1> QED
    BY <1>1, <1>2, <1>7 DEF d, q, r, y, t

LEMMA Widths == Low \in Nat \ {0} /\ High \in Nat \ {0} /\ Wide \in Nat \ {0}
  <1>1. Low \in Nat \ {0} /\ High \in Nat \ {0}
    BY CodecAssumption
  <1>2. Low * High >= Low /\ Low * High \in Int
    BY <1>1, MulMono
  <1> QED
    BY <1>1, <1>2 DEF Wide

(* The wide stamp after w, whose low part was l, from its low part t. *)
Joined(w, l, t) == (((IF t < l THEN w + Low ELSE w) \div Low) * Low + t) % Wide

(* A low byte suffices to follow the wide stamp. *)
LEMMA Reconstruction ==
  ASSUME NEW p \in Nat, NEW s \in Nat, p <= s, s < p + Low
  PROVE  Joined(p % Wide, p % Low, s % Low) = s % Wide
  <1> USE Widths DEF Wide
  <1> DEFINE q == p \div Low
             r == p % Low
             k == q \div High
             h == q % High
             c == IF s % Low < p % Low THEN 1 ELSE 0
             t == s % Low
             w == p % Wide
  <1>1. p = q * Low + r /\ q \in Int /\ r \in 0..(Low - 1)
    BY DivMod
  <1>2. s = (q + c) * Low + t /\ t \in 0..(Low - 1)
    <2>1. s = (s \div Low) * Low + t /\ t \in 0..(Low - 1)
      BY DivMod
    <2> QED
      BY <2>1, CarryExact
  <1>3. q = k * High + h /\ k \in Int /\ h \in 0..(High - 1)
    BY <1>1, DivMod
  <1>4. c \in {0, 1}
    OBVIOUS
  <1> HIDE DEF q, r, k, h, c, t
  <1>5. w = h * Low + r
    <2>1. h * Low + r \in 0..(Wide - 1)
      <3>1. (High - h) * Low >= Low
        BY <1>3, MulMono
      <3>2. (High - h) * Low = Wide - h * Low /\ h * Low \in Nat /\ Wide \in Nat
        BY <1>3
      <3> QED
        BY <1>1, <3>1, <3>2
    <2>2. p = k * Wide + (h * Low + r)
      <3>1. (k * High + h) * Low = k * Wide + h * Low /\ k * Wide \in Int /\ h * Low \in Int
        BY <1>3
      <3> QED
        BY <1>1, <1>3, <3>1
    <2>3. Wide \in Nat \ {0}
      OBVIOUS
    <2> QED
      BY <2>1, <2>2, <2>3, <1>3, ModOf
  <1>6. (IF s % Low < p % Low THEN w + Low ELSE w) \div Low = h + c
    <2>1. (IF s % Low < p % Low THEN w + Low ELSE w) = (h + c) * Low + r
      <3>1. /\ (h + c) * Low = h * Low + c * Low /\ h * Low \in Int
            /\ c * Low = IF c = 1 THEN Low ELSE 0
        BY <1>3, <1>4
      <3> QED
        BY <1>1, <1>5, <3>1 DEF c
    <2>2. ((h + c) * Low + r) \div Low = h + c
      BY <1>1, <1>3, <1>4, ModOf
    <2> QED
      BY <2>1, <2>2
  <1>7. s % Wide = ((h + c) * Low + t) % Wide
    <2>1. s = k * Wide + ((h + c) * Low + t)
      <3>1. (q + c) * Low = (k * High + (h + c)) * Low
        BY <1>3, <1>4
      <3>2. (k * High + (h + c)) * Low = k * Wide + (h + c) * Low
            /\ k * Wide \in Int /\ (h + c) * Low \in Int
        BY <1>3, <1>4
      <3> QED
        BY <1>2, <3>1, <3>2
    <2>2. (h + c) * Low + t \in Int
      BY <1>2, <1>3, <1>4
    <2> QED
      BY <2>1, <2>2, <1>3, ModShift
  <1> QED
    BY <1>6, <1>7 DEF t, Joined

(***************************************************************************)
(* The invariant.                                                          *)
(***************************************************************************)

References == [tv_host_0 : Nat, tv_host : {0}, ts_dev_1 : Nat, ts_dev_2 : Nat,
               ts_total : Nat, tick_count : Nat]

(* The time reference never gets beyond its first pass. *)
Dormant == time_ref \in References

(* Frames are stamped with the host's clock. *)
ClockAhead == hwtstamp <= now

CodecInv == Shape /\ InPacket /\ StampExact /\ Dormant /\ ClockAhead

LEMMA StampTypes ==
  ASSUME NEW first \in BOOLEAN, NEW s \in Nat, Shape
  PROVE  decode_timestamp(first, s) \in 0..(Wide - 1) /\ s % Low \in 0..(Low - 1)
  <1>1. s % Wide \in 0..(Wide - 1) /\ s % Low \in 0..(Low - 1)
    BY Widths, DivMod
  <1>2. ASSUME NEW w \in Int PROVE ((w \div Low) * Low + (s % Low)) % Wide \in 0..(Wide - 1)
    <2>1. (w \div Low) * Low + (s % Low) \in Int
      BY <1>1, Widths, DivMod
    <2> QED
      BY <2>1, Widths, DivMod
  <1>3. ts16 \in Int /\ ts16 + Low \in Int
    BY Widths DEF Shape
  <1>4. (IF Carry(s) THEN ts16 + Low ELSE ts16) \in Int
    BY <1>3
  <1> QED
    BY <1>1, <1>2, <1>4 DEF decode_timestamp

(* The stamp of the next record is read exactly, whatever came before. *)
LEMMA ReadExact ==
  ASSUME CodecInv, NEW first \in BOOLEAN, NEW s \in NextStamps(first), ReadStamp(first, s)
  PROVE  /\ StampExact'
         /\ ts16' \in 0..(Wide - 1) /\ prev_ts8' \in 0..(Low - 1)
         /\ synced' \in BOOLEAN /\ stamp' \in Boot..now
  <1>1. s \in Nat /\ s \in Boot..now /\ stamp \in Nat /\ stamp <= s
    BY CodecAssumption DEF CodecInv, Shape, NextStamps
  <1>2. ts16' \in 0..(Wide - 1) /\ prev_ts8' \in 0..(Low - 1)
    BY <1>1, StampTypes DEF CodecInv, ReadStamp
  <1>3. StampExact'
    <2>1. CASE first
      BY <2>1 DEF ReadStamp, StampExact, decode_timestamp
    <2>2. CASE ~first /\ synced
      <3>1. ts16 = stamp % Wide /\ prev_ts8 = stamp % Low /\ s < stamp + Low
        BY <2>2 DEF CodecInv, StampExact, NextStamps
      <3>2. Joined(stamp % Wide, stamp % Low, s % Low) = s % Wide
        BY <1>1, <3>1, Reconstruction
      <3> QED
        BY <2>2, <3>1, <3>2 DEF ReadStamp, StampExact, decode_timestamp, Carry, Joined
    <2>3. CASE ~first /\ ~synced
      BY <2>3 DEF ReadStamp, StampExact
    <2> QED
      BY <2>1, <2>2, <2>3
  <1>4. synced' \in BOOLEAN
    BY DEF ReadStamp, CodecInv, Shape
  <1> QED
    BY <1>1, <1>2, <1>3, <1>4 DEF ReadStamp

(* A time record moves the device's stamps only. *)
LEMMA ReferenceStep ==
  ASSUME Shape, Dormant, NEW ts \in Nat
  PROVE  /\ update_time_reference(time_ref, ts) \in References
         /\ set_time_reference(time_ref, ts) \in References
  <1>1. ASSUME NEW ref \in References PROVE update_time_reference(ref, ts) \in References
    <2>1. ref.tv_host = 0 /\ ref.ts_total \in Nat
      BY DEF References
    <2>2. update_time_reference(ref, ts)
            = [ref EXCEPT !.ts_dev_2 = ts, !.ts_total = ref.ts_total]
      BY <2>1 DEF update_time_reference
    <2> QED
      BY <2>1, <2>2 DEF References
  <1>2. ASSUME NEW ref \in References
        PROVE  [ref EXCEPT !.ts_dev_1 = ref.ts_dev_2] \in References
    BY <1>2 DEF References
  <1>3. [time_ref EXCEPT !.tv_host_0 = now, !.tv_host = 0] \in References
    BY DEF Shape, Dormant, References
  <1>4. time_ref.tv_host = 0
    BY DEF Dormant, References
  <1> DEFINE timed == IF time_ref.tv_host_0 = 0
                      THEN [time_ref EXCEPT !.tv_host_0 = now, !.tv_host = 0] ELSE time_ref
  <1>5. timed \in References
    BY <1>3 DEF Dormant
  <1>6. set_time_reference(time_ref, ts)
          = update_time_reference([timed EXCEPT !.ts_dev_1 = timed.ts_dev_2], ts)
    BY <1>4 DEF set_time_reference
  <1> QED
    BY <1>1, <1>2, <1>5, <1>6 DEF Dormant

(***************************************************************************)
(* The steps.                                                              *)
(***************************************************************************)
(* What the test of the length leaves of the packet, and a failure. *)
LEMMA RestStep ==
  ASSUME CodecInv, AtRecord, NEW bytes \in Nat, NEW len \in Nat,
         Rest(bytes, len) \/ FailAt(bytes)
  PROVE  /\ left' \in Int /\ InPacket'
         /\ rec_cnt' \in 0..MaxRecords /\ rec_idx' \in 0..rec_cnt'
  BY CodecAssumption DEF CodecInv, Shape, InPacket, AtRecord, Rest, FailAt

(* The clock gives the stamp of a frame. *)
LEMMA Stamped == ASSUME CodecInv PROVE compute_kernel_time(time_ref, ts16') = now
  BY DEF CodecInv, Dormant, References, compute_kernel_time

LEMMA DataStep == ASSUME CodecInv, DataRecord PROVE CodecInv' /\ hwtstamp' >= hwtstamp
  <1>1. PICK s \in NextStamps(~data_seen), bytes \in 0..left, len \in Lens \cup {0} :
           /\ ReadStamp(~data_seen, s)
           /\ Rest(bytes, len)
           /\ hwtstamp' = IF len <= bytes THEN compute_kernel_time(time_ref, ts16')
                                         ELSE hwtstamp
    BY DEF DataRecord
  <1>2. /\ StampExact'
        /\ ts16' \in 0..(Wide - 1) /\ prev_ts8' \in 0..(Low - 1)
        /\ synced' \in BOOLEAN /\ stamp' \in Boot..now
    BY <1>1, ReadExact DEF CodecInv, Shape
  <1>3. hwtstamp' \in {now, hwtstamp}
    BY <1>1, Stamped
  <1>4. /\ left' \in Int /\ InPacket'
        /\ rec_cnt' \in 0..MaxRecords /\ rec_idx' \in 0..rec_cnt'
    BY <1>1, RestStep, CodecAssumption DEF DataRecord, CodecInv, Shape
  <1>5. data_seen' = TRUE
    BY DEF DataRecord
  <1> QED
    BY <1>2, <1>3, <1>4, <1>5
       DEF DataRecord, CodecInv, Shape, Dormant, ClockAhead, refVars

LEMMA StatusStep == ASSUME CodecInv, StatusRecord PROVE CodecInv' /\ hwtstamp' >= hwtstamp
  <1>1. PICK stamped \in BOOLEAN, s \in NextStamps(rec_idx = 0),
             bytes \in 0..left, len \in Lens \cup {1, 2} :
           /\ StatusHead(s, bytes, stamped)
           /\ Rest(bytes, len) \/ FailAt(bytes)
           /\ UNCHANGED hwtstamp \/ ErrorFrame(stamped)
    BY DEF StatusRecord
  <1>2. /\ left' \in Int /\ InPacket'
        /\ rec_cnt' \in 0..MaxRecords /\ rec_idx' \in 0..rec_cnt'
    BY <1>1, RestStep, CodecAssumption DEF StatusRecord, CodecInv, Shape
  <1>3. /\ StampExact'
        /\ ts16' \in 0..(Wide - 1) /\ prev_ts8' \in 0..(Low - 1)
        /\ synced' \in BOOLEAN /\ stamp' \in Boot..now
    <2>1. CASE ReadStamp(rec_idx = 0, s)
      BY <1>1, <2>1, ReadExact
    <2>2. CASE UNCHANGED <<ts16, prev_ts8, synced, stamp>>
      BY <2>2 DEF CodecInv, Shape, StampExact
    <2> QED
      BY <1>1, <2>1, <2>2 DEF StatusHead
  <1>4. hwtstamp' \in {now, hwtstamp}
    BY <1>1, Stamped DEF ErrorFrame
  <1> QED
    BY <1>2, <1>3, <1>4 DEF StatusRecord, CodecInv, Shape, Dormant, ClockAhead, refVars

LEMMA TimeStep == ASSUME CodecInv, TimeRecord PROVE CodecInv' /\ hwtstamp' >= hwtstamp
  <1>1. PICK s \in NextStamps(TRUE), bytes \in 2..left, len \in Lens :
           /\ UNCHANGED prev_ts8 \/ prev_ts8' = s % Low
           /\ ts16' = s % Wide /\ stamp' = s
           /\ IF rec_idx > 0
              THEN /\ time_ref' = update_time_reference(time_ref, s % Wide)
                   /\ UNCHANGED passes
              ELSE /\ time_ref' = set_time_reference(time_ref, s % Wide)
                   /\ passes' = IF passes < 2 THEN passes + 1 ELSE passes
           /\ Rest(bytes, len)
    BY DEF TimeRecord
  <1>2. /\ left' \in Int /\ InPacket'
        /\ rec_cnt' \in 0..MaxRecords /\ rec_idx' \in 0..rec_cnt'
    BY <1>1, RestStep, CodecAssumption DEF TimeRecord, CodecInv, Shape
  <1>3. s \in Nat /\ s \in Boot..now
    BY CodecAssumption DEF CodecInv, Shape, NextStamps
  <1>4. s % Wide \in 0..(Wide - 1) /\ s % Low \in 0..(Low - 1) /\ s % Wide \in Nat
    <2>1. s \in Int
      BY <1>3
    <2>2. s % Wide \in 0..(Wide - 1) /\ s % Low \in 0..(Low - 1)
      BY <2>1, Widths, DivMod
    <2> QED
      BY <2>2, Widths
  <1>5. time_ref' \in References /\ passes' \in 0..2
    BY <1>1, <1>4, ReferenceStep DEF CodecInv, Shape
  <1>6. prev_ts8' \in 0..(Low - 1)
    BY <1>1, <1>4 DEF CodecInv, Shape
  <1>7. StampExact' /\ synced' \in BOOLEAN /\ data_seen' \in BOOLEAN
    BY DEF TimeRecord, CodecInv, Shape, StampExact
  <1> QED
    BY <1>1, <1>2, <1>3, <1>4, <1>5, <1>6, <1>7
       DEF TimeRecord, CodecInv, Shape, Dormant, ClockAhead

LEMMA PacketStep ==
  ASSUME CodecInv, UrbArrives \/ PacketEnds \/ Refuse
  PROVE  CodecInv' /\ hwtstamp' >= hwtstamp
  <1>0. 0 \in 0..(Wide - 1) /\ 0 \in 0..(Low - 1) /\ Boot \in Boot..now
    BY Widths, CodecAssumption DEF CodecInv, Shape
  <1>1. CASE UrbArrives
    <2>1. PICK size \in Sizes, cnt \in 0..MaxRecords : left' = size - 2 /\ rec_cnt' = cnt
      BY <1>1 DEF UrbArrives
    <2>2. left' \in Int /\ InPacket' /\ rec_cnt' \in 0..MaxRecords /\ 0 \in 0..rec_cnt'
      BY <2>1, CodecAssumption DEF InPacket
    <2>3. StampExact' /\ synced' \in BOOLEAN /\ data_seen' \in BOOLEAN
      BY <1>1 DEF UrbArrives, FreshContext, StampExact
    <2>4. now \in Nat /\ now \in Boot..now
      BY <1>0 DEF CodecInv, Shape
    <2> QED
      BY <1>0, <1>1, <2>2, <2>3, <2>4
         DEF UrbArrives, FreshContext, CodecInv, Shape, Dormant, ClockAhead, refVars
  <1>2. CASE PacketEnds
    <2>1. StampExact' /\ synced' \in BOOLEAN /\ data_seen' \in BOOLEAN
      BY <1>2 DEF PacketEnds, FreshContext, StampExact
    <2>2. 0 \in 0..MaxRecords /\ 0 \in 0..0 /\ InPacket'
      BY <1>2, CodecAssumption DEF PacketEnds, InPacket
    <2> QED
      BY <1>0, <1>2, <2>1, <2>2
         DEF PacketEnds, FreshContext, CodecInv, Shape, Dormant, ClockAhead, refVars
  <1>3. CASE Refuse
    <2>1. StampExact'
      BY <1>3 DEF Refuse, CodecInv, StampExact, stampVars
    <2>2. rec_cnt' \in 0..MaxRecords /\ rec_idx' \in 0..rec_cnt'
      BY <1>3, CodecAssumption DEF Refuse, FailAt, AtRecord, CodecInv, Shape
    <2>3. left' \in Int /\ InPacket'
      BY <1>3 DEF Refuse, FailAt, AtRecord, CodecInv, Shape, InPacket
    <2> QED
      BY <1>3, <2>1, <2>2, <2>3
         DEF Refuse, CodecInv, Shape, Dormant, ClockAhead, stampVars, refVars
  <1> QED
    BY <1>1, <1>2, <1>3

LEMMA OtherStep ==
  ASSUME CodecInv, (\E i \in Interfaces : Start(i) \/ StopInterface(i)) \/ Tick
  PROVE  CodecInv' /\ hwtstamp' >= hwtstamp
  <1>1. ASSUME NEW i \in Interfaces, Start(i) PROVE CodecInv' /\ hwtstamp' >= hwtstamp
    <2>1. NoReference \in References
      BY DEF NoReference, References
    <2>2. time_ref' \in References /\ passes' \in 0..2
      BY <1>1, <2>1 DEF Start, CodecInv, Shape, Dormant, refVars
    <2>3. up' \subseteq Interfaces
      BY <1>1 DEF Start, CodecInv, Shape
    <2> QED
      BY <1>1, <2>2, <2>3
         DEF Start, CodecInv, Shape, InPacket, StampExact, Dormant, ClockAhead, ctxVars, stampVars
  <1>2. ASSUME NEW i \in Interfaces, StopInterface(i)
        PROVE  CodecInv' /\ hwtstamp' >= hwtstamp
    BY <1>2 DEF StopInterface, CodecInv, Shape, InPacket, StampExact, Dormant, ClockAhead, ctxVars,
                stampVars, refVars
  <1>3. CASE Tick
    BY <1>3, CodecAssumption
       DEF Tick, CodecInv, Shape, InPacket, StampExact, Dormant, ClockAhead, ctxVars, stampVars,
           refVars
  <1> QED
    BY <1>1, <1>2, <1>3

LEMMA CodecInit == ASSUME Init PROVE CodecInv
  <1>1. 0 \in 0..(Wide - 1) /\ 0 \in 0..(Low - 1) /\ Boot \in Nat /\ Boot \in Boot..Boot
    BY Widths, CodecAssumption
  <1>2. NoReference \in References
    BY DEF NoReference, References
  <1>3. rec_cnt \in 0..MaxRecords /\ rec_idx \in 0..rec_cnt /\ {} \subseteq Interfaces
    BY CodecAssumption DEF Init
  <1>4. StampExact /\ synced \in BOOLEAN /\ data_seen \in BOOLEAN
    BY DEF Init, StampExact
  <1> QED
    BY <1>1, <1>2, <1>3, <1>4 DEF Init, CodecInv, Shape, InPacket, Dormant, ClockAhead

LEMMA CodecStep == ASSUME CodecInv, [Next]_vars PROVE CodecInv' /\ hwtstamp' >= hwtstamp
  <1>1. CASE UNCHANGED vars
    BY <1>1 DEF vars, ctxVars, stampVars, refVars, CodecInv, Shape, InPacket, StampExact, Dormant,
                ClockAhead
  <1> QED
    BY <1>1, DataStep, StatusStep, TimeStep, PacketStep, OtherStep DEF Next, HandlerRuns

(***************************************************************************)
(* The theorems.                                                           *)
(***************************************************************************)

(* The inductive invariant of the decoder. *)
THEOREM CodecInvariant == Spec => []CodecInv
  <1> QED
    BY CodecInit, CodecStep, PTL DEF Spec

(* Types; the cursor gets at most one byte behind the end of the packet,    *)
(* where a status byte is read that nobody tests for (line 566), and every  *)
(* record that starts there fails and ends the loop.                        *)
THEOREM TypesCorrect == Spec => []TypeOK
  <1>1. CodecInv => TypeOK
    BY DEF CodecInv, TypeOK
  <1> QED
    BY <1>1, CodecInvariant, PTL

(* decode_timestamp_in_context follows the adapter's clock from low bytes,  *)
(* over the wrap-around of either part.                                     *)
THEOREM StampsExact == Spec => []StampExact
  <1>1. CodecInv => StampExact
    BY DEF CodecInv
  <1> QED
    BY <1>1, CodecInvariant, PTL

(* Frames are stamped in the order in which they are handed on. *)
THEOREM FramesInTime == Spec => StampsOrdered
  <1>1. CodecInv /\ [Next]_vars => [hwtstamp' >= hwtstamp]_vars
    BY CodecStep
  <1> QED
    BY <1>1, CodecInvariant, PTL DEF Spec, StampsOrdered

(* set_time_reference never takes the host's time of a second pass: what    *)
(* compute_kernel_time hands out is the time of decoding.                   *)
THEOREM ReferenceDormant == Spec => [](time_ref.tv_host = 0)
  <1>1. CodecInv => time_ref.tv_host = 0
    BY DEF CodecInv, Dormant, References
  <1> QED
    BY <1>1, CodecInvariant, PTL
=============================================================================
