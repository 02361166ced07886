--------------------------- MODULE RxRing_proofs ----------------------------
(***************************************************************************)
(* What is proved of RxRing, for every size of the ring, every set of      *)
(* reader threads and files, and any number of records.                    *)
(***************************************************************************)
EXTENDS RxRing, FiniteSetTheorems, TLAPS

(***************************************************************************)
(* Arithmetic of the ring.  w is a write index, u a count of unread items. *)
(***************************************************************************)
LEMMA NthValue ==
  ASSUME NEW w \in SlotIds, NEW u \in 0..RxBufCount, NEW k \in 0..(RxBufCount - 1), k < u
  PROVE  Nth(w, u, k) = IF w + k >= u THEN w + k - u ELSE w + k - u + RxBufCount
  <1>1. RxBufCount \in Nat /\ RxBufCount > 0
    BY RingAssumption
  <1>2. CASE w >= u
    <2>1. (w + RxBufCount - u) % RxBufCount = w - u
      BY <1>1, <1>2, SMT DEF SlotIds
    <2> QED
      BY <1>1, <1>2, <2>1, SMT DEF Nth, pcan_chardev_calc_rx_read_index, SlotIds
  <1>3. CASE w < u
    <2>1. (w + RxBufCount - u) % RxBufCount = w + RxBufCount - u
      BY <1>1, <1>3, SMT DEF SlotIds
    <2> QED
      BY <1>1, <1>3, <2>1, SMT DEF Nth, pcan_chardev_calc_rx_read_index, SlotIds
  <1> QED
    BY <1>2, <1>3 DEF SlotIds

LEMMA NextIndex ==
  ASSUME NEW s \in SlotIds
  PROVE  /\ (s + 1) % RxBufCount \in SlotIds
         /\ (s + 1) % RxBufCount = IF s + 1 = RxBufCount THEN 0 ELSE s + 1
  BY RingAssumption, SMT DEF SlotIds

(* An unread slot is a slot of the ring. *)
LEMMA NthInRing ==
  ASSUME NEW w \in SlotIds, NEW u \in 0..RxBufCount, NEW k \in 0..(RxBufCount - 1), k < u
  PROVE  Nth(w, u, k) \in SlotIds
  BY NthValue, RingAssumption DEF SlotIds

(* While there is room, the slot at the write index is not unread. *)
LEMMA WriteIndexFree ==
  ASSUME NEW w \in SlotIds, NEW u \in 0..(RxBufCount - 1), NEW k \in 0..(u - 1)
  PROVE  Nth(w, u, k) # w
  BY NthValue, RingAssumption DEF SlotIds

(* Publishing slot s leaves the unread slots where they are and adds s. *)
LEMMA NthPublish ==
  ASSUME NEW s \in SlotIds, NEW u \in 0..(RxBufCount - 1)
  PROVE  /\ \A k \in 0..(u - 1) :
              Nth((s + 1) % RxBufCount, u + 1, k) = Nth(s, u, k)
         /\ Nth((s + 1) % RxBufCount, u + 1, u) = s
  <1> DEFINE t == (s + 1) % RxBufCount
  <1>1. t \in SlotIds /\ t = IF s + 1 = RxBufCount THEN 0 ELSE s + 1
    BY NextIndex
  <1>2. RxBufCount \in Nat /\ RxBufCount > 0 /\ u + 1 \in 0..RxBufCount
    BY RingAssumption
  <1> HIDE DEF t
  <1>3. ASSUME NEW k \in 0..u
        PROVE  Nth(t, u + 1, k) =
                 IF t + k >= u + 1 THEN t + k - (u + 1) ELSE t + k - (u + 1) + RxBufCount
    <2>1. k \in 0..(RxBufCount - 1) /\ k < u + 1
      BY <1>2
    <2> QED
      BY ONLY <1>1, <1>2, <2>1, NthValue
  <1>4. ASSUME NEW k \in 0..(u - 1) PROVE Nth(t, u + 1, k) = Nth(s, u, k)
    <2>1. Nth(s, u, k) = IF s + k >= u THEN s + k - u ELSE s + k - u + RxBufCount
      BY <1>2, NthValue
    <2> QED
      BY <1>1, <1>2, <1>3, <2>1, SMT DEF SlotIds
  <1>5. Nth(t, u + 1, u) = s
    BY <1>1, <1>2, <1>3, SMT DEF SlotIds
  <1> QED
    BY <1>4, <1>5 DEF t

(* Taking the b oldest leaves the others in their place. *)
LEMMA NthTake ==
  ASSUME NEW w \in SlotIds, NEW u \in 0..RxBufCount, NEW b \in 0..u,
         NEW k \in 0..(u - b - 1)
  PROVE  Nth(w, u - b, k) = Nth(w, u, k + b)
  BY NthValue, RingAssumption, SMT DEF SlotIds

(* Room for more than one line, less the one a multiple gives up, is room *)
(* for one line at least.                                                 *)
LEMMA LineBudget ==
  ASSUME NEW n \in Nat, n > BytesPerRead
  PROVE  n \div BytesPerRead + (IF n % BytesPerRead # 0 THEN 0 ELSE -1) \in Nat \ {0}
  <1> DEFINE q == n \div BytesPerRead
             m == n % BytesPerRead
  <1>1. BytesPerRead \in Nat /\ BytesPerRead > 0
    BY RingAssumption
  <1>2. q \in Int /\ m \in 0..(BytesPerRead - 1) /\ n = BytesPerRead * q + m
    BY <1>1, SMT
  <1> HIDE DEF q, m
  <1>3. q >= 1
    BY <1>1, <1>2, SMT
  <1>4. m = 0 => q >= 2
    <2> SUFFICES ASSUME m = 0, q = 1 PROVE FALSE
      BY <1>2, <1>3
    <2> QED
      BY <1>1, <1>2
  <1>5. q + (IF m # 0 THEN 0 ELSE -1) \in Nat \ {0}
    BY <1>2, <1>3, <1>4
  <1> QED
    BY <1>5 DEF q, m

(***************************************************************************)
(* The inductive invariant.                                                *)
(***************************************************************************)
LEMMA InitTyped ==
  ASSUME RingInit, open_count \in Int, stage \in Int,
         fpc \in [Files -> {"closed"}]
  PROVE  TypeOK
  <1>1. 0 \in SlotIds /\ 0 \in 0..RxBufCount /\ 0 \in 0..MaxRecords
    BY RingAssumption DEF SlotIds
  <1>2. rx_msgs \in [SlotIds -> Items] /\ bufs \in [Buffers -> [1..RxBufCount -> Items]]
    BY DEF RingInit, Items, Blank
  <1>3. taken \in [Readers -> Seq(Items)]
    BY DEF RingInit
  <1>4. rpc \in [Readers -> {"idle", "wait", "asleep", "recheck", "get_count",
                            "dequeue", "copy"}]
    BY DEF RingInit
  <1>5. want \in [Readers -> Nat] /\ nread \in [Readers -> 0..RxBufCount]
    BY <1>1 DEF RingInit
  <1>6. net_up \in BOOLEAN /\ skb \in BOOLEAN
    BY DEF RingInit
  <1>7. /\ rx_write_idx \in SlotIds /\ slot \in SlotIds
        /\ rx_unread_cnt \in 0..RxBufCount /\ unread_seen \in -1..RxBufCount
        /\ records \in 0..MaxRecords /\ rx_packets \in Nat /\ rxmsgs_count \in Nat
    BY <1>1, RingAssumption DEF RingInit
  <1>8. dpc \in {"idle", "record", "index", "fill", "publish", "count", "wake"}
    BY DEF RingInit
  <1>9. fpc \in [Files -> {"closed", "uncount", "reset_idx", "reset_cnt",
                          "reset_packets", "stage", "start", "open", "release"}]
    OBVIOUS
  <1> QED
    BY <1>2, <1>3, <1>4, <1>5, <1>6, <1>7, <1>8, <1>9 DEF TypeOK

LEMMA RingInvInit == Init => RingInv
  <1> SUFFICES ASSUME Init PROVE RingInv
    OBVIOUS
  <1>1. TypeOK
    <2>1. fpc \in [Files -> {"closed"}] /\ open_count \in Int /\ stage \in Int
      BY DEF Init
    <2> QED
      BY <2>1, InitTyped DEF Init
  <1>2. CountAccounting
    <2>1. {f \in Files : fpc[f] \in Counted} = {}
      BY DEF Init, Counted, Held
    <2> QED
      BY <2>1, FS_EmptySet DEF CountAccounting, Init
  <1> QED
    BY <1>1, <1>2 DEF Init, RingInit, RingInv, ResetAlone, Reservation, Held,
                      ReadersInSession

(* What a dequeue takes is non-empty, available, and fits. *)
LEMMA BatchBound ==
  ASSUME RingInv, NEW r \in Readers, rpc[r] = "dequeue", rx_unread_cnt > 0,
         Op[r] = "fd_recv_msgs" => rxmsgs_count > 0
  PROVE  Batch(r) \in 1..rx_unread_cnt
  <1>1. rx_unread_cnt \in Nat /\ want[r] \in Nat /\ rxmsgs_count \in Nat /\ Op[r] \in Ops
    BY RingAssumption DEF RingInv, TypeOK
  <1>2. Room(r) \in Nat \ {0}
    <2>1. CASE Op[r] = "read"
      <3>1. want[r] > BytesPerRead
        BY <2>1 DEF RingInv, ReadersInSession
      <3> QED
        BY <1>1, <2>1, <3>1, LineBudget DEF Room
    <2>2. CASE Op[r] = "read_msg"
      BY <2>2 DEF Room
    <2>3. CASE Op[r] = "fd_recv_msgs"
      BY <1>1, <2>3 DEF Room
    <2> QED
      BY <1>1, <2>1, <2>2, <2>3 DEF Ops
  <1> QED
    BY <1>1, <1>2 DEF Batch

LEMMA BatchRange ==
  ASSUME RingInv, NEW r \in Readers, rpc[r] = "dequeue", rx_unread_cnt > 0
  PROVE  Batch(r) \in 0..rx_unread_cnt
  <1>1. CASE Op[r] = "fd_recv_msgs"
    BY <1>1 DEF RingInv, TypeOK, Batch, Room
  <1>2. CASE Op[r] # "fd_recv_msgs"
    BY <1>2, BatchBound DEF RingInv, TypeOK
  <1> QED
    BY <1>1, <1>2

(* Every item a dequeue copies is the content of a slot. *)
LEMMA ItemTyped ==
  ASSUME TypeOK, NEW i \in 1..rx_unread_cnt
  PROVE  rx_msgs[Nth(rx_write_idx, rx_unread_cnt, i - 1)] \in Items
  <1>1. i - 1 \in 0..(RxBufCount - 1) /\ i - 1 < rx_unread_cnt
    BY RingAssumption DEF TypeOK
  <1>2. Nth(rx_write_idx, rx_unread_cnt, i - 1) \in SlotIds
    BY <1>1, NthInRing DEF TypeOK
  <1> QED
    BY <1>2 DEF TypeOK
(* Every step keeps the types. *)
LEMMA DecoderTyped ==
  ASSUME RingInv, DecoderNext
  PROVE  TypeOK'
  <1>0. TypeOK /\ Reservation
    BY DEF RingInv
  <1>1. CASE UrbArrives
    BY <1>1, <1>0 DEF UrbArrives, TypeOK, ringVars, readerVars, sessionVars
  <1>2. CASE UrbDone
    BY <1>2, <1>0 DEF UrbDone, TypeOK, ringVars, readerVars, sessionVars
  <1>3. CASE DecodeBegin
    BY <1>3, <1>0, RingAssumption DEF DecodeBegin, TypeOK, ringVars, readerVars, sessionVars
  <1>4. CASE DecodeIndex
    <2>1. skb' \in BOOLEAN
      BY <1>0, <1>4 DEF DecodeIndex, TypeOK
    <2>2. dpc' \in {"fill", "record", "idle"}
      BY <1>4 DEF DecodeIndex
    <2>3. unread_seen' \in -1..RxBufCount /\ slot' \in SlotIds
      BY <1>0, <1>4, RingAssumption DEF DecodeIndex, TypeOK
    <2> QED
      BY <1>0, <1>4, <2>1, <2>2, <2>3
      DEF DecodeIndex, TypeOK, ringVars, readerVars, sessionVars
  <1>5. CASE DecodeFill
    <2>1. PICK item \in Decoded : rx_msgs' = [rx_msgs EXCEPT ![slot] = item]
      BY <1>5 DEF DecodeFill
    <2>2. item \in Items
      <3>1. records \in 1..MaxRecords \/ records = Blank
        BY <1>0, RingAssumption DEF TypeOK, Blank
      <3> QED
        BY <2>1, <3>1 DEF Decoded, Items
    <2>3. rx_msgs' \in [SlotIds -> Items]
      BY <1>0, <2>1, <2>2 DEF TypeOK
    <2> QED
      BY <1>0, <1>5, <2>3 DEF DecodeFill, TypeOK, readerVars, sessionVars
  <1>6. CASE DecodeFail
    <2>1. rx_msgs' \in [SlotIds -> Items]
      BY <1>0, <1>6 DEF DecodeFail, TypeOK, Items
    <2> QED
      BY <1>0, <1>6, <2>1 DEF DecodeFail, TypeOK, readerVars, sessionVars
  <1>7. CASE PublishIndex
    <2>1. rx_write_idx' \in SlotIds
      BY <1>0, <1>7, NextIndex DEF PublishIndex, TypeOK
    <2> QED
      BY <1>0, <1>7, <2>1 DEF PublishIndex, TypeOK, readerVars, sessionVars
  <1>8. CASE PublishCount
    <2>1. rx_unread_cnt' \in 0..RxBufCount /\ rx_packets' \in Nat
      BY <1>0, <1>8, RingAssumption DEF PublishCount, TypeOK, Reservation
    <2> QED
      BY <1>0, <1>8, <2>1 DEF PublishCount, TypeOK, readerVars, sessionVars
  <1>9. CASE WakeUp
    BY <1>0, <1>9 DEF WakeUp, TypeOK, ringVars, sessionVars
  <1> QED
    BY <1>1, <1>2, <1>3, <1>4, <1>5, <1>6, <1>7, <1>8, <1>9 DEF DecoderNext

LEMMA ReaderTyped ==
  ASSUME RingInv, NEW r \in Readers, ReaderNext(r)
  PROVE  TypeOK'
  <1>0. TypeOK
    BY DEF RingInv
  <1>a. Ready(r) \in {"get_count", "dequeue"}
    BY DEF Ready
  <1>b. ASSUME Return(r), UNCHANGED sharedRest PROVE TypeOK'
    BY <1>0, <1>b, RingAssumption
    DEF Return, Goto, TypeOK, sharedRest, ringVars, decoderVars, sessionVars
  <1>1. ASSUME NEW n \in Counts[r], Call(r, n) PROVE TypeOK'
    <2>1. n \in Nat
      BY RingAssumption
    <2> QED
      BY <1>0, <1>1, <1>a, <2>1
      DEF Call, Goto, TypeOK, ringVars, decoderVars, sessionVars
  <1>2. CASE Wait(r)
    BY <1>0, <1>2 DEF Wait, Goto, TypeOK, sharedRest, readerLocals, ringVars,
                      decoderVars, sessionVars
  <1>3. CASE Signal(r)
    BY <1>3, <1>b DEF Signal
  <1>4. CASE Recheck(r)
    <2>1. CASE Goto(r, Ready(r)) /\ UNCHANGED <<sharedRest, readerLocals>>
      BY <1>0, <1>a, <2>1 DEF Goto, TypeOK, sharedRest, readerLocals, ringVars,
                      decoderVars, sessionVars
    <2> QED
      BY <1>4, <1>b, <2>1 DEF Recheck
  <1>5. CASE GetCount(r)
    <2>1. rpc' \in [Readers -> {"idle", "wait", "asleep", "recheck", "get_count",
                               "dequeue", "copy"}]
      BY <1>0, <1>5 DEF GetCount, Goto, Return, TypeOK
    <2>2. rxmsgs_count' \in Nat
      BY <1>0, <1>5 DEF GetCount, TypeOK
    <2>3. /\ want' \in [Readers -> Nat]
          /\ nread' \in [Readers -> 0..RxBufCount]
          /\ taken' \in [Readers -> Seq(Items)]
      <3>1. CASE Return(r)
        <4>1. 0 \in 0..RxBufCount /\ << >> \in Seq(Items)
          BY RingAssumption
        <4> QED
          BY <1>0, <3>1, <4>1 DEF Return, TypeOK
      <3>2. CASE UNCHANGED readerLocals
        BY <1>0, <3>2 DEF TypeOK, readerLocals
      <3> QED
        BY <1>5, <3>1, <3>2 DEF GetCount
    <2> QED
      BY <1>0, <1>5, <2>1, <2>2, <2>3
      DEF GetCount, TypeOK, ringVars, decoderVars, sessionVars
  <1>6. CASE Dequeue(r)
    <2> DEFINE item(i) == rx_msgs[Nth(rx_write_idx, rx_unread_cnt, i - 1)]
    <2>1. Batch(r) \in 0..rx_unread_cnt /\ rx_unread_cnt \in 0..RxBufCount
      BY <1>0, <1>6, BatchRange DEF Dequeue, TypeOK
    <2>2. \A i \in 1..rx_unread_cnt : item(i) \in Items
      BY <1>0, ItemTyped
    <2> HIDE DEF item
    <2>3. BufOf(r) \in Buffers
      BY DEF Buffers
    <2>4. bufs' \in [Buffers -> [1..RxBufCount -> Items]]
      <3>1. [i \in 1..RxBufCount |-> IF i <= Batch(r) THEN item(i) ELSE Behind(r, i)]
              \in [1..RxBufCount -> Items]
        <4>1. \A i \in 1..RxBufCount : Behind(r, i) \in Items
          BY <1>0, <2>3 DEF TypeOK, Behind, Items
        <4>2. \A i \in 1..RxBufCount : i <= Batch(r) => i \in 1..rx_unread_cnt
          BY <2>1
        <4> QED
          BY <2>2, <4>1, <4>2
      <3>2. bufs' = [bufs EXCEPT ![BufOf(r)] =
              [i \in 1..RxBufCount |->
                 IF i <= Batch(r) THEN item(i) ELSE Behind(r, i)]]
        BY <1>0, <1>6, <2>3 DEF Dequeue, TypeOK, item
      <3> QED
        BY <1>0, <3>1, <3>2 DEF TypeOK
    <2>5. taken' \in [Readers -> Seq(Items)]
      <3>1. [i \in 1..Batch(r) |-> item(i)] \in Seq(Items)
        BY <2>1, <2>2
      <3>2. taken' = [taken EXCEPT ![r] = [i \in 1..Batch(r) |-> item(i)]]
        BY <1>6 DEF Dequeue, item
      <3> QED
        BY <1>0, <3>1, <3>2 DEF TypeOK
    <2>6. /\ rx_unread_cnt' \in 0..RxBufCount
          /\ nread' \in [Readers -> 0..RxBufCount]
          /\ rxmsgs_count' \in Nat
      <3>1. Batch(r) \in 0..RxBufCount /\ rx_unread_cnt - Batch(r) \in 0..RxBufCount
        BY <2>1, RingAssumption
      <3>2. nread' = [nread EXCEPT ![r] = Batch(r)] /\ rx_unread_cnt' = rx_unread_cnt - Batch(r)
        BY <1>6 DEF Dequeue
      <3>3. nread' \in [Readers -> 0..RxBufCount]
        BY <1>0, <3>1, <3>2 DEF TypeOK
      <3>4. rxmsgs_count' = Batch(r) \/ rxmsgs_count' = rxmsgs_count
        BY <1>6 DEF Dequeue
      <3> QED
        BY <1>0, <3>1, <3>2, <3>3, <3>4 DEF TypeOK
    <2>7. rpc' \in [Readers -> {"idle", "wait", "asleep", "recheck", "get_count",
                               "dequeue", "copy"}]
      BY <1>0, <1>6 DEF Dequeue, Goto, TypeOK
    <2>8. UNCHANGED <<rx_msgs, rx_write_idx, rx_packets, decoderVars, sessionVars, want>>
      BY <1>6 DEF Dequeue
    <2> QED
      BY <1>0, <2>4, <2>5, <2>6, <2>7, <2>8 DEF TypeOK, decoderVars, sessionVars
  <1>7. CASE DequeueNone(r)
    BY <1>7, <1>b DEF DequeueNone
  <1>8. CASE CopyToUser(r)
    BY <1>8, <1>b DEF CopyToUser
  <1> QED
    BY <1>1, <1>2, <1>3, <1>4, <1>5, <1>6, <1>7, <1>8 DEF ReaderNext

LEMMA FileTyped ==
  ASSUME RingInv, (\E f \in Files : FileNext(f)) \/ NetToggle
  PROVE  TypeOK'
  <1>0. TypeOK /\ 0 \in SlotIds /\ 0 \in 0..RxBufCount
    BY RingAssumption DEF RingInv, SlotIds
  <1>1. CASE NetToggle
    <2>1. net_up' \in BOOLEAN
      BY <1>1 DEF NetToggle
    <2>2. stage' \in Int
      BY <1>0, <1>1 DEF NetToggle, TypeOK
    <2> QED
      BY <1>0, <1>1, <2>1, <2>2 DEF NetToggle, TypeOK, ringVars, decoderVars, readerVars
  <1>2. CASE \E f \in Files : FileNext(f)
    <2>1. PICK f \in Files : FileNext(f)
      BY <1>2
    <2>2. /\ open_count' \in Int /\ stage' \in Int /\ UNCHANGED <<net_up, rx_msgs>>
          /\ UNCHANGED decoderVars /\ UNCHANGED readerVars
      BY <1>0, <2>1 DEF FileNext, OpenCount, OpenTooMany, ResetIdx, ResetCnt,
           ResetPackets, OpenStage, OpenStart, Release, ReleaseStage, TypeOK, ringVars
    <2>3. fpc' \in [Files -> {"closed", "uncount", "reset_idx", "reset_cnt",
                          "reset_packets", "stage", "start", "open", "release"}]
      BY <1>0, <2>1 DEF FileNext, OpenCount, OpenTooMany, ResetIdx, ResetCnt,
           ResetPackets, OpenStage, OpenStart, Release, ReleaseStage, TypeOK, GotoF
    <2>4. rx_write_idx' \in SlotIds /\ rx_unread_cnt' \in 0..RxBufCount
          /\ rx_packets' \in Nat
      BY <1>0, <2>1 DEF FileNext, OpenCount, OpenTooMany, ResetIdx, ResetCnt,
           ResetPackets, OpenStage, OpenStart, Release, ReleaseStage, TypeOK, ringVars
    <2> QED
      BY <1>0, <2>2, <2>3, <2>4 DEF TypeOK, decoderVars, readerVars
  <1> QED
    BY <1>1, <1>2
(***************************************************************************)
(* open_count, and what follows from it: one session at a time.            *)
(***************************************************************************)
LEMMA CountedFinite == IsFiniteSet({f \in Files : fpc[f] \in Counted})
  BY RingAssumption, FS_Subset

(* Steps that move no file keep the accounting and the exclusion. *)
LEMMA SessionStutter ==
  ASSUME RingInv, UNCHANGED <<open_count, fpc>>
  PROVE  CountAccounting'
  <1>1. {f \in Files : fpc'[f] \in Counted} = {f \in Files : fpc[f] \in Counted}
    OBVIOUS
  <1> QED
    BY <1>1 DEF CountAccounting, RingInv

(* A file that moves within Counted, or outside it. *)
LEMMA CountKept ==
  ASSUME RingInv, NEW f \in Files, NEW l, GotoF(f, l), UNCHANGED open_count,
         fpc[f] \in Counted <=> l \in Counted
  PROVE  CountAccounting'
  <1>1. {g \in Files : fpc'[g] \in Counted} = {g \in Files : fpc[g] \in Counted}
    BY DEF GotoF, RingInv, TypeOK
  <1> QED
    BY <1>1 DEF CountAccounting, RingInv

LEMMA CountEnters ==
  ASSUME RingInv, NEW f \in Files, NEW l, GotoF(f, l), open_count' = open_count + 1,
         fpc[f] \notin Counted, l \in Counted
  PROVE  CountAccounting'
  <1> DEFINE S == {g \in Files : fpc[g] \in Counted}
  <1>1. {g \in Files : fpc'[g] \in Counted} = S \cup {f}
    BY DEF GotoF, RingInv, TypeOK
  <1>2. f \notin S /\ IsFiniteSet(S)
    BY CountedFinite
  <1>3. Cardinality(S \cup {f}) = Cardinality(S) + 1
    BY <1>2, FS_AddElement
  <1> QED
    BY <1>1, <1>3 DEF CountAccounting, RingInv

LEMMA CountLeaves ==
  ASSUME RingInv, NEW f \in Files, NEW l, GotoF(f, l), open_count' = open_count - 1,
         fpc[f] \in Counted, l \notin Counted
  PROVE  CountAccounting'
  <1> DEFINE S == {g \in Files : fpc[g] \in Counted}
  <1>1. {g \in Files : fpc'[g] \in Counted} = S \ {f}
    BY DEF GotoF, RingInv, TypeOK
  <1>2. f \in S /\ IsFiniteSet(S)
    BY CountedFinite
  <1>3. Cardinality(S \ {f}) = Cardinality(S) - 1
    BY <1>2, FS_RemoveElement
  <1> QED
    BY <1>1, <1>3 DEF CountAccounting, RingInv

(* The opener that counts first finds no other file in a session. *)
LEMMA FirstOpener ==
  ASSUME RingInv, open_count + 1 <= 1
  PROVE  \A g \in Files : fpc[g] \notin Counted
  <1> DEFINE S == {g \in Files : fpc[g] \in Counted}
  <1>1. IsFiniteSet(S) /\ Cardinality(S) = open_count
    BY CountedFinite DEF RingInv, CountAccounting
  <1>2. Cardinality(S) \in Nat
    BY <1>1, FS_CardinalityType
  <1>3. S = {}
    BY <1>1, <1>2, FS_EmptySet
  <1> QED
    BY <1>3

LEMMA CountStep ==
  ASSUME RingInv, [Next]_vars
  PROVE  CountAccounting'
  <1>1. CASE \E f \in Files : FileNext(f)
    <2>1. PICK f \in Files : FileNext(f)
      BY <1>1
    <2>2. CASE OpenCount(f)
      BY <2>2, CountEnters DEF OpenCount, Counted, Held
    <2>3. CASE OpenTooMany(f)
      BY <2>3, CountLeaves DEF OpenTooMany, Counted, Held
    <2>4. CASE ResetIdx(f)
      BY <2>4, CountKept DEF ResetIdx, Counted, Held
    <2>5. CASE ResetCnt(f)
      BY <2>5, CountKept DEF ResetCnt, Counted, Held
    <2>6. CASE ResetPackets(f)
      BY <2>6, CountKept DEF ResetPackets, Counted, Held
    <2>7. CASE OpenStage(f)
      BY <2>7, CountKept DEF OpenStage, Counted, Held
    <2>8. CASE OpenStart(f)
      BY <2>8, CountKept DEF OpenStart, Counted, Held
    <2>9. CASE Release(f)
      BY <2>9, CountLeaves DEF Release, Counted, Held
    <2>10. CASE ReleaseStage(f)
      BY <2>10, CountKept DEF ReleaseStage, Counted, Held
    <2> QED
      BY <2>1, <2>2, <2>3, <2>4, <2>5, <2>6, <2>7, <2>8, <2>9, <2>10 DEF FileNext
  <1>2. CASE UNCHANGED <<open_count, fpc>>
    BY <1>2, SessionStutter
  <1>3. ASSUME DecoderNext PROVE UNCHANGED <<open_count, fpc>>
    BY <1>3 DEF DecoderNext, UrbArrives, UrbDone, DecodeBegin, DecodeIndex, DecodeFill,
         DecodeFail, PublishIndex, PublishCount, WakeUp, sessionVars
  <1>4. ASSUME NEW r \in Readers, ReaderNext(r) PROVE UNCHANGED <<open_count, fpc>>
    BY <1>4 DEF ReaderNext, Call, Wait, Signal, Recheck, GetCount, Dequeue, DequeueNone,
         CopyToUser, sharedRest, sessionVars
  <1>5. ASSUME NetToggle \/ UNCHANGED vars PROVE UNCHANGED <<open_count, fpc>>
    BY <1>5 DEF NetToggle, vars, sessionVars
  <1> QED
    BY <1>1, <1>2, <1>3, <1>4, <1>5 DEF Next

LEMMA AloneStep ==
  ASSUME RingInv, [Next]_vars
  PROVE  ResetAlone' /\ ReadersInSession'
  <1>0. TypeOK /\ ResetAlone /\ ReadersInSession
    BY DEF RingInv
  <1>1. CASE \E f \in Files : FileNext(f)
    <2>1. PICK f \in Files : FileNext(f)
      BY <1>1
    <2>2. UNCHANGED <<rpc, want>>
      BY <2>1 DEF FileNext, OpenCount, OpenTooMany, ResetIdx, ResetCnt, ResetPackets,
           OpenStage, OpenStart, Release, ReleaseStage, readerVars
    <2>3. CASE OpenCount(f)
      <3>1. CASE open_count + 1 > 1
        BY <1>0, <2>2, <2>3, <3>1
        DEF OpenCount, GotoF, ResetAlone, ReadersInSession, SessionOpen, Held, TypeOK
      <3>2. CASE ~(open_count + 1 > 1)
        <4>1. \A g \in Files : fpc[g] \notin Counted
          BY <3>2, FirstOpener DEF RingInv, TypeOK
        <4>2. \A r \in Readers : rpc[r] = "idle"
          BY <1>0, <4>1 DEF ReadersInSession, SessionOpen, Counted, Held
        <4> QED
          BY <1>0, <2>2, <2>3, <3>2, <4>1, <4>2
          DEF OpenCount, GotoF, ResetAlone, ReadersInSession, Held, Counted, TypeOK
      <3> QED
        BY <3>1, <3>2
    <2>4. CASE OpenTooMany(f)
      BY <1>0, <2>2, <2>4
      DEF OpenTooMany, GotoF, ResetAlone, ReadersInSession, SessionOpen, Held, TypeOK
    <2>5. CASE ResetIdx(f) \/ ResetCnt(f) \/ ResetPackets(f) \/ OpenStage(f) \/ OpenStart(f)
      <3>1. \A r \in Readers : rpc[r] = "idle"
        BY <1>0, <2>5 DEF ResetIdx, ResetCnt, ResetPackets, OpenStage, OpenStart,
             ResetAlone, Held
      <3> QED
        BY <1>0, <2>2, <2>5, <3>1
        DEF ResetIdx, ResetCnt, ResetPackets, OpenStage, OpenStart, GotoF, ResetAlone,
            ReadersInSession, Held, TypeOK
    <2>6. CASE Release(f) \/ ReleaseStage(f)
      BY <1>0, <2>2, <2>6
      DEF Release, ReleaseStage, GotoF, ResetAlone, ReadersInSession, SessionOpen, Held, TypeOK
    <2> QED
      BY <2>1, <2>3, <2>4, <2>5, <2>6 DEF FileNext
  <1>2. CASE DecoderNext
    <2>1. UNCHANGED <<fpc, want>> /\ (UNCHANGED rpc \/ WakeUp)
      BY <1>2 DEF DecoderNext, UrbArrives, UrbDone, DecodeBegin, DecodeIndex, DecodeFill,
           DecodeFail, PublishIndex, PublishCount, WakeUp, readerVars, sessionVars
    <2>2. \A r \in Readers : rpc'[r] = "idle" <=> rpc[r] = "idle"
      BY <2>1 DEF WakeUp
    <2> QED
      BY <1>0, <2>1, <2>2 DEF ResetAlone, ReadersInSession, SessionOpen
  <1>3. ASSUME NEW r \in Readers, ReaderNext(r) PROVE ResetAlone' /\ ReadersInSession'
    <2>1. UNCHANGED fpc
      BY <1>3 DEF ReaderNext, Call, Wait, Signal, Recheck, GetCount, Dequeue, DequeueNone,
           CopyToUser, sharedRest, sessionVars
    <2>2. \A s \in Readers \ {r} : rpc'[s] = rpc[s] /\ want'[s] = want[s]
      BY <1>0, <1>3 DEF ReaderNext, Call, Wait, Signal, Recheck, GetCount, Dequeue,
           DequeueNone, CopyToUser, Return, Goto, sharedRest, readerLocals, TypeOK
    <2>3. SessionOpen
      BY <1>0, <1>3 DEF ReaderNext, Call, Wait, Signal, Recheck, GetCount, Dequeue,
           DequeueNone, CopyToUser, ReadersInSession
    <2>4. rpc'[r] # "idle" => (Op[r] = "read" => want'[r] > BytesPerRead)
      BY <1>0, <1>3 DEF ReaderNext, Call, Wait, Signal, Recheck, GetCount, Dequeue,
           DequeueNone, CopyToUser, Return, Goto, sharedRest, readerLocals, TypeOK,
           ReadersInSession
    <2> QED
      BY <1>0, <2>1, <2>2, <2>3, <2>4 DEF ResetAlone, ReadersInSession, SessionOpen, Held
  <1>4. CASE NetToggle \/ UNCHANGED vars
    BY <1>0, <1>4 DEF NetToggle, vars, readerVars, sessionVars, ResetAlone, ReadersInSession,
                      SessionOpen
  <1> QED
    BY <1>1, <1>2, <1>3, <1>4 DEF Next
LEMMA ReservationStep ==
  ASSUME RingInv, [Next]_vars
  PROVE  Reservation'
  <1>0. TypeOK /\ Reservation /\ RxBufCount \in Nat /\ RxBufCount > 0
    BY RingAssumption DEF RingInv
  <1>1. CASE \E f \in Files : FileNext(f)
    <2>1. PICK f \in Files : FileNext(f)
      BY <1>1
    <2>2. UNCHANGED decoderVars
      BY <2>1 DEF FileNext, OpenCount, OpenTooMany, ResetIdx, ResetCnt, ResetPackets,
           OpenStage, OpenStart, Release, ReleaseStage
    <2>3. rx_unread_cnt' = rx_unread_cnt \/ rx_unread_cnt' = 0
      BY <2>1 DEF FileNext, OpenCount, OpenTooMany, ResetIdx, ResetCnt, ResetPackets,
           OpenStage, OpenStart, Release, ReleaseStage, ringVars
    <2>4. CASE ResetIdx(f)
      <3>1. Resetting'
        BY <1>0, <2>4 DEF ResetIdx, GotoF, Resetting, TypeOK
      <3> QED
        BY <1>0, <2>2, <2>3, <3>1 DEF Reservation, HasRoom, decoderVars, TypeOK
    <2>5. CASE ResetCnt(f)
      BY <1>0, <2>2, <2>5 DEF ResetCnt, Reservation, decoderVars
    <2>6. CASE ~ResetIdx(f) /\ ~ResetCnt(f)
      <3>1. UNCHANGED <<rx_write_idx, rx_unread_cnt>>
        BY <2>1, <2>6 DEF FileNext, OpenCount, OpenTooMany, ResetPackets, OpenStage,
             OpenStart, Release, ReleaseStage, ringVars
      <3>2. fpc[f] # "reset_cnt" /\ \A g \in Files \ {f} : fpc'[g] = fpc[g]
        BY <1>0, <2>1, <2>6 DEF FileNext, OpenCount, OpenTooMany, ResetPackets, OpenStage,
             OpenStart, Release, ReleaseStage, GotoF, TypeOK
      <3>3. Resetting => Resetting'
        BY <3>2 DEF Resetting
      <3> QED
        BY <1>0, <2>2, <3>1, <3>3 DEF Reservation, HasRoom, decoderVars
    <2> QED
      BY <2>4, <2>5, <2>6
  <1>2. CASE DecoderNext
    <2>1. Resetting' <=> Resetting
      BY <1>2 DEF DecoderNext, UrbArrives, UrbDone, DecodeBegin, DecodeIndex, DecodeFill,
           DecodeFail, PublishIndex, PublishCount, WakeUp, sessionVars, Resetting
    <2> QED
      BY <1>0, <1>2, <2>1
      DEF DecoderNext, UrbArrives, UrbDone, DecodeBegin, DecodeIndex, DecodeFill,
          DecodeFail, PublishIndex, PublishCount, WakeUp, ringVars, Reservation, HasRoom,
          TypeOK
  <1>3. ASSUME NEW r \in Readers, ReaderNext(r) PROVE Reservation'
    <2>1. UNCHANGED <<rx_write_idx, fpc>> /\ UNCHANGED decoderVars
      BY <1>3 DEF ReaderNext, Call, Wait, Signal, Recheck, GetCount, Dequeue, DequeueNone,
           CopyToUser, sharedRest, ringVars, sessionVars
    <2>2. rx_unread_cnt' \in 0..rx_unread_cnt
      <3>1. CASE Dequeue(r)
        BY <1>0, <3>1, BatchRange DEF Dequeue, TypeOK
      <3> QED
        BY <1>0, <1>3, <3>1 DEF ReaderNext, Call, Wait, Signal, Recheck, GetCount,
             DequeueNone, CopyToUser, sharedRest, ringVars, TypeOK
    <2>3. Resetting' <=> Resetting
      BY <2>1 DEF Resetting
    <2> QED
      BY <1>0, <2>1, <2>2, <2>3 DEF Reservation, HasRoom, decoderVars, TypeOK
  <1>4. CASE NetToggle \/ UNCHANGED vars
    <2>1. UNCHANGED ringVars /\ UNCHANGED decoderVars /\ UNCHANGED fpc
      BY <1>4 DEF NetToggle, vars, sessionVars
    <2> QED
      BY <1>0, <2>1 DEF Reservation, HasRoom, Resetting, ringVars, decoderVars
  <1> QED
    BY <1>1, <1>2, <1>3, <1>4 DEF Next

LEMMA TypedStep ==
  ASSUME RingInv, [Next]_vars
  PROVE  TypeOK'
  <1>1. CASE UNCHANGED vars
    BY <1>1 DEF RingInv, TypeOK, vars, ringVars, decoderVars, readerVars, sessionVars
  <1> QED
    BY <1>1, DecoderTyped, ReaderTyped, FileTyped DEF Next

THEOREM RingInductive == RingInv /\ [Next]_vars => RingInv'
  BY TypedStep, CountStep, AloneStep, ReservationStep DEF RingInv

THEOREM RingInvariant == Spec => []RingInv
  BY RingInvInit, RingInductive, PTL DEF Spec

(* The types hold in every reachable state: in particular the count stays   *)
(* within the ring under any number of readers and competing opens.         *)
THEOREM TypesCorrect == Spec => []TypeOK
  <1>1. RingInv => TypeOK
    BY DEF RingInv
  <1> QED
    BY <1>1, RingInvariant, PTL

(* The slot decode_data fills without the lock is never an unread one. *)
THEOREM WriterSlotIsFree == Spec => []WriterSlotFree
  <1>1. RingInv => WriterSlotFree
    <2> SUFFICES ASSUME RingInv, dpc \in {"fill", "publish"}, ~Resetting,
                        NEW k \in 0..(rx_unread_cnt - 1),
                        slot = Nth(rx_write_idx, rx_unread_cnt, k)
                 PROVE  FALSE
      BY DEF WriterSlotFree, UnreadSlots
    <2>1. slot = rx_write_idx /\ rx_unread_cnt < RxBufCount
      BY DEF RingInv, Reservation, TypeOK
    <2>2. rx_unread_cnt \in 0..(RxBufCount - 1) /\ rx_write_idx \in SlotIds
      BY <2>1, RingAssumption DEF RingInv, TypeOK
    <2> QED
      BY <2>1, <2>2, WriteIndexFree
  <1> QED
    BY <1>1, RingInvariant, PTL

(* One session at a time, and no reader is inside an operation while an     *)
(* open resets the ring.                                                    *)
THEOREM ResetsAlone == Spec => []ResetAlone
  <1>1. RingInv => ResetAlone
    BY DEF RingInv
  <1> QED
    BY <1>1, RingInvariant, PTL
(***************************************************************************)
(* The batches of the readers, and the torn publication.                   *)
(***************************************************************************)
LEMMA SessionInvInit == Init => SessionInv
  <1> SUFFICES ASSUME Init PROVE SessionInv
    OBVIOUS
  <1>1. /\ \A r \in Readers : rpc[r] = "idle" /\ taken[r] = << >>
        /\ dpc = "idle"
    BY DEF Init, RingInit
  <1> QED
    BY <1>1, RingInvInit DEF SessionInv, HandsOK, TornEmpty, TakenInCopy, BatchIntact

(* A thread inside an operation sees no reset. *)
LEMMA NoResetInCall ==
  ASSUME RingInv, NEW r \in Readers, rpc[r] # "idle"
  PROVE  ~Resetting
  BY DEF RingInv, ResetAlone, Resetting, Held

LEMMA TornStep ==
  ASSUME SessionInv, [Next]_vars
  PROVE  TornEmpty' /\ TakenInCopy'
  <1>0. TypeOK /\ ResetAlone /\ TornEmpty /\ TakenInCopy
    BY DEF SessionInv, RingInv
  <1>1. CASE DecoderNext
    <2>1. UNCHANGED taken /\ (UNCHANGED rpc \/ WakeUp)
      BY <1>1 DEF DecoderNext, UrbArrives, UrbDone, DecodeBegin, DecodeIndex, DecodeFill,
           DecodeFail, PublishIndex, PublishCount, WakeUp, readerVars
    <2>2. TakenInCopy'
      BY <1>0, <2>1 DEF TakenInCopy, WakeUp
    <2>3. TornEmpty'
      BY <1>1 DEF DecoderNext, UrbArrives, UrbDone, DecodeBegin, DecodeIndex, DecodeFill,
           DecodeFail, PublishIndex, PublishCount, WakeUp, TornEmpty
    <2> QED
      BY <2>2, <2>3
  <1>2. ASSUME NEW r \in Readers, ReaderNext(r) PROVE TornEmpty' /\ TakenInCopy'
    <2>1. UNCHANGED <<fpc, dpc, slot, rx_write_idx>>
      BY <1>2 DEF ReaderNext, Call, Wait, Signal, Recheck, GetCount, Dequeue, DequeueNone,
           CopyToUser, sharedRest, ringVars, decoderVars, sessionVars
    <2>2. CASE Dequeue(r)
      <3>1. dpc # "count" /\ rpc'[r] = "copy"
        BY <1>0, <2>2 DEF Dequeue, Locked, Goto, TypeOK
      <3>2. \A s \in Readers \ {r} : rpc'[s] = rpc[s] /\ taken'[s] = taken[s]
        BY <1>0, <2>2 DEF Dequeue, Goto, TypeOK
      <3> QED
        BY <1>0, <2>1, <3>1, <3>2 DEF TornEmpty, TakenInCopy
    <2>3. CASE ~Dequeue(r)
      <3>1. /\ rx_unread_cnt' = rx_unread_cnt
            /\ \A s \in Readers : taken'[s] = taken[s] \/ taken'[s] = << >>
            /\ \A s \in Readers \ {r} : rpc'[s] = rpc[s]
            /\ rpc'[r] = "copy" => rpc[r] = "copy" /\ UNCHANGED taken
            /\ rpc[r] = "copy" => taken'[r] = << >>
        BY <1>0, <1>2, <2>3 DEF ReaderNext, Call, Wait, Signal, Recheck, GetCount,
             DequeueNone, CopyToUser, Return, Goto, Ready, sharedRest, readerLocals,
             ringVars, TypeOK
      <3>2. Resetting' <=> Resetting
        BY <2>1 DEF Resetting
      <3> QED
        BY <1>0, <2>1, <3>1, <3>2 DEF TornEmpty, TakenInCopy
    <2> QED
      BY <2>2, <2>3
  <1>3. ASSUME NEW f \in Files, FileNext(f) PROVE TornEmpty' /\ TakenInCopy'
    <2>1. UNCHANGED decoderVars /\ UNCHANGED readerVars
      BY <1>3 DEF FileNext, OpenCount, OpenTooMany, ResetIdx, ResetCnt, ResetPackets,
           OpenStage, OpenStart, Release, ReleaseStage
    <2>2. TakenInCopy'
      BY <1>0, <2>1 DEF TakenInCopy, readerVars
    <2>3. CASE ResetIdx(f)
      BY <1>0, <2>2, <2>3 DEF ResetIdx, GotoF, Resetting, TornEmpty, TypeOK
    <2>4. CASE ResetCnt(f)
      <3>1. \A r \in Readers : taken[r] = << >>
        BY <1>0, <2>4 DEF ResetCnt, ResetAlone, Held, TakenInCopy
      <3> QED
        BY <2>1, <2>2, <2>4, <3>1 DEF ResetCnt, TornEmpty, readerVars
    <2>5. CASE ~ResetIdx(f) /\ ~ResetCnt(f)
      <3>1. UNCHANGED <<rx_write_idx, rx_unread_cnt>>
        BY <1>3, <2>5 DEF FileNext, OpenCount, OpenTooMany, ResetPackets, OpenStage,
             OpenStart, Release, ReleaseStage, ringVars
      <3>2. Resetting => Resetting'
        BY <1>0, <1>3, <2>5 DEF FileNext, OpenCount, OpenTooMany, ResetPackets, OpenStage,
             OpenStart, Release, ReleaseStage, GotoF, TypeOK, Resetting
      <3> QED
        BY <1>0, <2>1, <2>2, <3>1, <3>2 DEF TornEmpty, decoderVars, readerVars
    <2> QED
      BY <2>3, <2>4, <2>5
  <1>4. CASE NetToggle \/ UNCHANGED vars
    <2>1. UNCHANGED <<ringVars, decoderVars, readerVars, fpc>>
      BY <1>4 DEF NetToggle, vars, sessionVars
    <2> QED
      BY <1>0, <2>1 DEF TornEmpty, TakenInCopy, Resetting, ringVars, decoderVars, readerVars
  <1> QED
    BY <1>1, <1>2, <1>3, <1>4 DEF Next

(* The shared buffers of two threads are distinct, so that what one copies  *)
(* does not change under a step of another.                                 *)
LEMMA OtherHandKept ==
  ASSUME SessionInv, ExclusiveBuffers, NEW r \in Readers, ReaderNext(r),
         NEW s \in Readers \ {r}
  PROVE  /\ rpc'[s] = rpc[s] /\ want'[s] = want[s] /\ taken'[s] = taken[s]
         /\ nread'[s] = nread[s] /\ bufs'[BufOf(s)] = bufs[BufOf(s)]
         /\ Op[s] = "fd_recv_msgs" => rxmsgs_count' = rxmsgs_count
         /\ CopiedOut(s)' = CopiedOut(s)
  <1>0. TypeOK /\ BufOf(r) # BufOf(s) /\ BufOf(s) \in Buffers
    BY DEF SessionInv, RingInv, ExclusiveBuffers, Buffers
  <1>1. /\ rpc'[s] = rpc[s] /\ want'[s] = want[s] /\ taken'[s] = taken[s]
        /\ nread'[s] = nread[s]
    BY <1>0 DEF ReaderNext, Call, Wait, Signal, Recheck, GetCount, Dequeue,
         DequeueNone, CopyToUser, Return, Goto, sharedRest, readerLocals, TypeOK
  <1>2. bufs'[BufOf(s)] = bufs[BufOf(s)]
    <2>1. CASE Dequeue(r)
      BY <1>0, <2>1 DEF Dequeue, TypeOK
    <2> QED
      BY <2>1 DEF ReaderNext, Call, Wait, Signal, Recheck, GetCount, DequeueNone,
           CopyToUser, sharedRest
  <1>3. ASSUME Op[s] = "fd_recv_msgs" PROVE rxmsgs_count' = rxmsgs_count
    <2>1. Op[r] # "fd_recv_msgs"
      BY <1>0, <1>3 DEF BufOf
    <2>2. ~GetCount(r)
      BY <2>1 DEF GetCount, SessionInv, HandsOK
    <2> QED
      BY <2>1, <2>2 DEF ReaderNext, Call, Wait, Signal, Recheck, Dequeue, DequeueNone,
           CopyToUser, sharedRest
  <1>4. CopiedOut(s)' = CopiedOut(s)
    BY <1>1, <1>2, <1>3 DEF CopiedOut
  <1> QED
    BY <1>1, <1>2, <1>3, <1>4

(* A dequeue leaves its batch in the buffer. *)
LEMMA DequeuedBatch ==
  ASSUME SessionInv, ExclusiveBuffers, NEW r \in Readers, Dequeue(r)
  PROVE  /\ Batch(r) \in 1..rx_unread_cnt
         /\ taken'[r] = [i \in 1..Batch(r) |->
                           rx_msgs[Nth(rx_write_idx, rx_unread_cnt, i - 1)]]
         /\ CopiedOut(r)' = taken'[r]
  <1>0. TypeOK /\ BufOf(r) \in Buffers /\ rx_unread_cnt \in 0..RxBufCount
        /\ RxBufCount \in Nat
    BY RingAssumption DEF SessionInv, RingInv, Buffers, TypeOK
  <1>1. Batch(r) \in 1..rx_unread_cnt
    BY BatchBound DEF SessionInv, HandsOK, Dequeue
  <1> DEFINE item(i) == rx_msgs[Nth(rx_write_idx, rx_unread_cnt, i - 1)]
  <1>2. taken'[r] = [i \in 1..Batch(r) |-> item(i)]
    BY <1>0 DEF Dequeue, TypeOK
  <1>3. bufs'[BufOf(r)] = [i \in 1..RxBufCount |->
                             IF i <= Batch(r) THEN item(i) ELSE Behind(r, i)]
    BY <1>0 DEF Dequeue, TypeOK
  <1> HIDE DEF item
  <1>4. nread'[r] = Batch(r) /\ (Op[r] = "fd_recv_msgs" => rxmsgs_count' = Batch(r))
    BY <1>0 DEF Dequeue, TypeOK
  <1>5. \A i \in 1..Batch(r) : bufs'[BufOf(r)][i] = item(i)
    BY <1>0, <1>1, <1>3
  <1>6. CopiedOut(r)' = [i \in 1..Batch(r) |-> bufs'[BufOf(r)][i]]
    BY <1>4 DEF CopiedOut
  <1>7. CopiedOut(r)' = [i \in 1..Batch(r) |-> item(i)]
    BY <1>5, <1>6
  <1> QED
    BY <1>1, <1>2, <1>7 DEF item
(* The obligation of one thread r in HandsOK. *)
HandOK(r) ==
    /\ rpc[r] = "get_count" => Op[r] = "fd_recv_msgs"
    /\ rpc[r] = "dequeue" /\ Op[r] = "fd_recv_msgs" => rxmsgs_count > 0
    /\ rpc[r] = "copy" =>
          /\ CopiedOut(r) = taken[r]
          /\ Len(CopiedOut(r)) \in 1..RxBufCount

LEMMA HandStep ==
  ASSUME SessionInv, ExclusiveBuffers, NEW r \in Readers, ReaderNext(r)
  PROVE  HandOK(r)'
  <1>0. TypeOK /\ RxBufCount \in Nat
    BY RingAssumption DEF SessionInv, RingInv
  <1>1. CASE Dequeue(r)
    <2>1. rpc'[r] = "copy" /\ want'[r] = want[r]
      BY <1>0, <1>1 DEF Dequeue, Goto, TypeOK
    <2>2. Batch(r) \in 1..rx_unread_cnt /\ rx_unread_cnt \in 0..RxBufCount
      BY <1>0, <1>1, DequeuedBatch DEF TypeOK
    <2> DEFINE item(i) == rx_msgs[Nth(rx_write_idx, rx_unread_cnt, i - 1)]
    <2>a. /\ CopiedOut(r)' = taken'[r]
          /\ CopiedOut(r)' = [i \in 1..Batch(r) |-> item(i)]
      BY <1>1, DequeuedBatch
    <2> HIDE DEF item
    <2>b. Batch(r) \in Nat
      BY <2>2
    <2>3. Len(CopiedOut(r)') = Batch(r)
      BY <2>a, <2>b
    <2>4. Len(CopiedOut(r)') \in 1..RxBufCount
      BY <1>0, <2>2, <2>3
    <2> QED
      BY <2>1, <2>a, <2>4 DEF HandOK
  <1>2. CASE GetCount(r)
    BY <1>0, <1>2 DEF GetCount, Goto, Return, HandOK, TypeOK
  <1>3. CASE ~Dequeue(r) /\ ~GetCount(r)
    <2>1. /\ rpc'[r] # "copy"
          /\ rpc'[r] = "get_count" => Op[r] = "fd_recv_msgs"
          /\ rpc'[r] = "dequeue" => Op[r] # "fd_recv_msgs"
      BY <1>0, <1>3 DEF ReaderNext, Call, Wait, Signal, Recheck, DequeueNone,
           CopyToUser, Return, Goto, Ready, TypeOK
    <2> QED
      BY <2>1 DEF HandOK
  <1> QED
    BY <1>1, <1>2, <1>3

(* The steps of the handler, the files and the network leave the readers'   *)
(* variables alone, but for the wake-up.                                    *)
OtherStep == \/ DecoderNext \/ NetToggle \/ UNCHANGED vars
             \/ \E f \in Files : FileNext(f)

LEMMA OtherStepReaders ==
  ASSUME OtherStep
  PROVE  /\ UNCHANGED <<bufs, rxmsgs_count, want, nread, taken>>
         /\ UNCHANGED rpc \/ WakeUp
  <1>1. CASE DecoderNext
    BY <1>1 DEF DecoderNext, UrbArrives, UrbDone, DecodeBegin, DecodeIndex, DecodeFill,
         DecodeFail, PublishIndex, PublishCount, WakeUp, readerVars
  <1>2. CASE NetToggle \/ UNCHANGED vars
    BY <1>2 DEF NetToggle, vars, readerVars
  <1>3. CASE \E f \in Files : FileNext(f)
    BY <1>3 DEF FileNext, OpenCount, OpenTooMany, ResetIdx, ResetCnt, ResetPackets,
         OpenStage, OpenStart, Release, ReleaseStage, readerVars
  <1> QED
    BY <1>1, <1>2, <1>3 DEF OtherStep

LEMMA HandsKept ==
  ASSUME SessionInv, ExclusiveBuffers, [Next]_vars
  PROVE  \A s \in Readers : HandOK(s)'
  <1>0. \A s \in Readers : HandOK(s)
    BY DEF SessionInv, HandsOK, BatchIntact, HandOK
  <1>1. ASSUME NEW r \in Readers, ReaderNext(r), NEW s \in Readers PROVE HandOK(s)'
    <2>1. CASE s = r
      BY <1>1, <2>1, HandStep
    <2>2. CASE s # r
      BY <1>0, <1>1, <2>2, OtherHandKept DEF HandOK
    <2> QED
      BY <2>1, <2>2
  <1>2. ASSUME OtherStep, NEW s \in Readers PROVE HandOK(s)'
    <2>1. UNCHANGED <<bufs, rxmsgs_count, want, nread, taken>>
          /\ (UNCHANGED rpc \/ WakeUp)
      BY <1>2, OtherStepReaders
    <2>2. rpc'[s] = rpc[s] \/ rpc'[s] = "wait"
      BY <2>1 DEF WakeUp
    <2>3. CopiedOut(s)' = CopiedOut(s)
      BY <2>1 DEF CopiedOut
    <2> QED
      BY <1>0, <2>1, <2>2, <2>3 DEF HandOK
  <1> QED
    BY <1>1, <1>2 DEF Next, OtherStep

LEMMA GetCountStep ==
  ASSUME SessionInv, [Next]_vars
  PROVE  \A s \in Readers : rpc'[s] = "get_count" => Op[s] = "fd_recv_msgs"
  <1>0. TypeOK /\ \A s \in Readers : rpc[s] = "get_count" => Op[s] = "fd_recv_msgs"
    BY DEF SessionInv, HandsOK, RingInv
  <1>1. ASSUME NEW r \in Readers, ReaderNext(r), NEW s \in Readers,
               rpc'[s] = "get_count"
        PROVE  Op[s] = "fd_recv_msgs"
    BY <1>0, <1>1 DEF ReaderNext, Call, Wait, Signal, Recheck, GetCount, Dequeue,
         DequeueNone, CopyToUser, Return, Goto, Ready, sharedRest, readerLocals, TypeOK
  <1>2. ASSUME OtherStep, NEW s \in Readers, rpc'[s] = "get_count"
        PROVE  Op[s] = "fd_recv_msgs"
    BY <1>0, <1>2, OtherStepReaders DEF WakeUp
  <1> QED
    BY <1>1, <1>2 DEF Next, OtherStep

THEOREM SessionInductive == SessionInv /\ [Next]_vars => SessionInv'
  <1> SUFFICES ASSUME SessionInv, [Next]_vars PROVE SessionInv'
    OBVIOUS
  <1>1. RingInv' /\ TornEmpty' /\ TakenInCopy'
    BY RingInductive, TornStep DEF SessionInv
  <1>2. ExclusiveBuffers' <=> ExclusiveBuffers
    BY DEF ExclusiveBuffers, BufOf
  <1>3. CASE ExclusiveBuffers
    BY <1>1, <1>2, <1>3, HandsKept DEF SessionInv, HandsOK, BatchIntact, HandOK
  <1>4. CASE ~ExclusiveBuffers
    BY <1>1, <1>2, <1>4, GetCountStep DEF SessionInv, HandsOK, BatchIntact
  <1> QED
    BY <1>3, <1>4

THEOREM SessionInvariant == Spec => []SessionInv
  BY SessionInvInit, SessionInductive, PTL DEF Spec

(***************************************************************************)
(* Refinement of RxFifo.                                                   *)
(***************************************************************************)
LEMMA EndTyped ==
  ASSUME RingInv
  PROVE  /\ End \in SlotIds
         /\ rx_unread_cnt \in 0..RxBufCount /\ RxBufCount \in Nat \ {0}
         /\ Unread \in 0..rx_unread_cnt
         /\ Len(Queue) = Unread /\ Queue \in Seq(Items)
  <1>1. /\ End \in SlotIds /\ rx_unread_cnt \in 0..RxBufCount /\ RxBufCount \in Nat \ {0}
        /\ Unread \in 0..rx_unread_cnt
    BY RingAssumption DEF RingInv, TypeOK, End, Unread
  <1>2. ASSUME NEW k \in 1..Unread
        PROVE  rx_msgs[Nth(End, rx_unread_cnt, k - 1)] \in Items
    <2>1. k - 1 \in 0..(RxBufCount - 1) /\ k - 1 < rx_unread_cnt
      BY <1>1
    <2>2. Nth(End, rx_unread_cnt, k - 1) \in SlotIds
      BY <1>1, <2>1, NthInRing
    <2> QED
      BY <2>2 DEF RingInv, TypeOK
  <1>3. Queue \in Seq(Items) /\ Len(Queue) = Unread
    <2> DEFINE item(k) == rx_msgs[Nth(End, rx_unread_cnt, k - 1)]
    <2>1. \A k \in 1..Unread : item(k) \in Items
      BY <1>2
    <2>2. Queue = [k \in 1..Unread |-> item(k)]
      BY DEF Queue
    <2>3. Unread \in Nat
      BY <1>1
    <2> HIDE DEF item
    <2> QED
      BY <2>1, <2>2, <2>3
  <1> QED
    BY <1>1, <1>3

LEMMA FifoInitially == Init => Fifo!FifoInit
  <1> SUFFICES ASSUME Init PROVE Fifo!FifoInit
    OBVIOUS
  <1>1. /\ rx_unread_cnt = 0 /\ \A r \in Readers : rpc[r] = "idle"
        /\ \A f \in Files : fpc[f] = "closed"
    BY DEF Init, RingInit
  <1>2. Queue = << >>
    BY <1>1 DEF Queue, Unread
  <1>3. Hands = [r \in Readers |-> << >>]
    BY <1>1 DEF Hands
  <1>4. Session = "closed"
    BY <1>1 DEF Session, SessionOpen, Opening
  <1> QED
    BY <1>2, <1>3, <1>4 DEF Fifo!FifoInit

(* A queue of no unread entries is empty, whatever the index says. *)
LEMMA EmptyQueue == Unread = 0 => Queue = << >>
  BY DEF Queue

(* What the handler publishes: the slot it has filled, or, when an open has *)
(* set the index to zero between its two stores, the last slot of the ring. *)
Published == rx_msgs[Nth(rx_write_idx, 1, 0)]

LEMMA QueueAppends ==
  ASSUME SessionInv, PublishCount, ~Resetting
  PROVE  /\ Queue' = Append(Queue, Published)
         /\ Published \in Items /\ Len(Queue) < RxBufCount
         /\ \/ Published = rx_msgs[slot]
            \/ Queue = << >> /\ \A r \in Readers : taken[r] = << >>
  <1>0. /\ TypeOK /\ Reservation /\ rx_unread_cnt \in 0..RxBufCount
        /\ RxBufCount \in Nat \ {0} /\ rx_write_idx \in SlotIds /\ slot \in SlotIds
    BY EndTyped DEF SessionInv, RingInv, TypeOK
  <1>1. /\ dpc = "count" /\ dpc' = "wake" /\ rx_unread_cnt' = rx_unread_cnt + 1
        /\ rx_msgs' = rx_msgs /\ rx_write_idx' = rx_write_idx /\ ~Resetting'
    BY DEF PublishCount, sessionVars, Resetting
  <1>2. End = slot /\ End' = rx_write_idx
    BY <1>1 DEF End
  <1>3. rx_unread_cnt \in 0..(RxBufCount - 1)
    BY <1>0, <1>1 DEF Reservation
  <1>4. Unread = rx_unread_cnt /\ Unread' = rx_unread_cnt + 1
    BY <1>1 DEF Unread
  <1> DEFINE old(k) == rx_msgs[Nth(End, rx_unread_cnt, k - 1)]
             new(k) == rx_msgs[Nth(End', rx_unread_cnt', k - 1)]
  <1>5. Queue = [k \in 1..rx_unread_cnt |-> old(k)]
    BY <1>4 DEF Queue
  <1>6. Queue' = [k \in 1..(rx_unread_cnt + 1) |-> new(k)]
    BY <1>1, <1>4 DEF Queue
  <1>7. Published \in Items
    <2>1. Nth(rx_write_idx, 1, 0) \in SlotIds
      <3>1. 1 \in 0..RxBufCount /\ 0 \in 0..(RxBufCount - 1) /\ 0 < 1
        BY <1>0
      <3> QED
        BY <1>0, <3>1, NthInRing
    <2> QED
      BY <1>0, <2>1 DEF Published, TypeOK
  <1>8. Len(Queue) < RxBufCount
    BY <1>3, <1>4, EndTyped DEF SessionInv
  <1>9. CASE rx_write_idx = (slot + 1) % RxBufCount
    <2>1. Nth(rx_write_idx, 1, 0) = slot
      <3>1. 0 \in 0..(RxBufCount - 1) /\ 0 + 1 = 1
        BY <1>0
      <3>2. Nth((slot + 1) % RxBufCount, 0 + 1, 0) = slot
        BY <1>0, <3>1, NthPublish
      <3> QED
        BY <1>9, <3>1, <3>2
    <2>2. \A k \in 1..rx_unread_cnt :
            Nth(End', rx_unread_cnt', k - 1) = Nth(End, rx_unread_cnt, k - 1)
      <3>1. \A k \in 1..rx_unread_cnt : k - 1 \in 0..(rx_unread_cnt - 1)
        BY <1>0
      <3> QED
        BY <1>0, <1>1, <1>2, <1>3, <1>9, <3>1, NthPublish
    <2>3. Nth(End', rx_unread_cnt', rx_unread_cnt) = slot
      BY <1>0, <1>1, <1>2, <1>3, <1>9, NthPublish
    <2>4. \A k \in 1..rx_unread_cnt : new(k) = old(k)
      BY <2>2
    <2>5. new(rx_unread_cnt + 1) = Published
      BY <1>0, <2>1, <2>3 DEF Published
    <2>6. rx_unread_cnt \in Nat
      BY <1>0
    <2> HIDE DEF old, new
    <2>7. Queue' = Append(Queue, Published)
      BY <1>5, <1>6, <2>4, <2>5, <2>6
    <2> QED
      BY <1>7, <1>8, <2>1, <2>7 DEF Published
  <1>10. CASE rx_write_idx # (slot + 1) % RxBufCount
    <2>1. rx_unread_cnt = 0 /\ \A r \in Readers : taken[r] = << >>
      BY <1>1, <1>10 DEF SessionInv, TornEmpty
    <2>2. Queue = << >>
      BY <1>4, <2>1, EmptyQueue
    <2>3. new(1) = Published
      BY <1>1, <1>2, <2>1 DEF Published
    <2> HIDE DEF old, new
    <2>4. Queue' = [k \in 1..1 |-> new(k)]
      BY <1>6, <2>1
    <2>5. Queue' = Append(Queue, Published)
      BY <2>2, <2>3, <2>4
    <2> QED
      BY <1>7, <1>8, <2>1, <2>2, <2>5
  <1> QED
    BY <1>9, <1>10

(* The other steps of the handler leave the queue as it is; so does a       *)
(* publication that an open is about to forget.                             *)
LEMMA QueueKept ==
  ASSUME SessionInv, DecoderNext, ~PublishCount \/ Resetting
  PROVE  Queue' = Queue
  <1>0. /\ TypeOK /\ Reservation /\ rx_unread_cnt \in 0..RxBufCount
        /\ RxBufCount \in Nat \ {0}
    BY EndTyped DEF SessionInv, RingInv
  <1>1. Resetting' <=> Resetting
    BY DEF DecoderNext, UrbArrives, UrbDone, DecodeBegin, DecodeIndex, DecodeFill,
         DecodeFail, PublishIndex, PublishCount, WakeUp, sessionVars, Resetting
  <1>2. CASE Resetting
    <2>1. Unread = 0 /\ Unread' = 0
      BY <1>1, <1>2 DEF Unread
    <2>2. Queue = << >> /\ Queue' = << >>
      BY <2>1 DEF Queue
    <2> QED
      BY <2>2
  <1>3. CASE ~Resetting
    <2>1. /\ rx_unread_cnt' = rx_unread_cnt
          /\ Unread = rx_unread_cnt /\ Unread' = rx_unread_cnt
      BY <1>1, <1>3 DEF DecoderNext, UrbArrives, UrbDone, DecodeBegin, DecodeIndex,
           DecodeFill, DecodeFail, PublishIndex, WakeUp, ringVars, Unread
    <2>2. CASE rx_unread_cnt = 0
      <3>1. Queue = << >> /\ Queue' = << >>
        BY <2>1, <2>2 DEF Queue
      <3> QED
        BY <3>1
    <2>3. CASE rx_unread_cnt # 0
      <3>1. dpc \in {"fill", "publish"} => slot = rx_write_idx
        BY <1>3, <2>3 DEF SessionInv, RingInv, Reservation
      <3>2. End' = End
        BY <1>3, <3>1 DEF DecoderNext, UrbArrives, UrbDone, DecodeBegin, DecodeIndex,
             DecodeFill, DecodeFail, PublishIndex, WakeUp, ringVars, End
      <3>3. \A k \in 1..rx_unread_cnt :
              rx_msgs'[Nth(End, rx_unread_cnt, k - 1)] = rx_msgs[Nth(End, rx_unread_cnt, k - 1)]
        <4>1. CASE DecodeFill \/ DecodeFail
          <5>1. End = slot /\ slot \in SlotIds /\ rx_unread_cnt \in 0..(RxBufCount - 1)
            BY <1>0, <3>1, <4>1 DEF DecodeFill, DecodeFail, End, Reservation, TypeOK
          <5>2. \A k \in 1..rx_unread_cnt : k - 1 \in 0..(rx_unread_cnt - 1)
            BY <1>0
          <5>3. \A k \in 1..rx_unread_cnt : Nth(End, rx_unread_cnt, k - 1) # slot
            BY <5>1, <5>2, WriteIndexFree
          <5>4. \A k \in 1..rx_unread_cnt : Nth(End, rx_unread_cnt, k - 1) \in SlotIds
            <6>1. \A k \in 1..rx_unread_cnt :
                    k - 1 \in 0..(RxBufCount - 1) /\ k - 1 < rx_unread_cnt
              BY <1>0
            <6> QED
              BY <1>0, <5>1, <6>1, NthInRing
          <5> QED
            BY <1>0, <4>1, <5>1, <5>3, <5>4 DEF DecodeFill, DecodeFail, TypeOK
        <4>2. CASE rx_msgs' = rx_msgs
          BY <4>2
        <4> QED
          BY <1>3, <4>1, <4>2 DEF DecoderNext, UrbArrives, UrbDone, DecodeBegin,
             DecodeIndex, PublishIndex, WakeUp, ringVars
      <3> QED
        BY <2>1, <3>2, <3>3 DEF Queue
    <2> QED
      BY <2>2, <2>3
  <1> QED
    BY <1>2, <1>3

LEMMA OtherStepHands == ASSUME OtherStep PROVE Hands' = Hands
  <1>1. /\ UNCHANGED <<bufs, rxmsgs_count, nread>>
        /\ UNCHANGED rpc \/ WakeUp
    BY OtherStepReaders
  <1>2. \A r \in Readers : CopiedOut(r)' = CopiedOut(r)
    BY <1>1 DEF CopiedOut
  <1>3. \A r \in Readers : rpc'[r] = "copy" <=> rpc[r] = "copy"
    BY <1>1 DEF WakeUp
  <1> QED
    BY <1>2, <1>3 DEF Hands

LEMMA SessionKept == UNCHANGED fpc => Session' = Session
  BY DEF Session, SessionOpen

(* What the steps of the handler and the files do to queue and session, in  *)
(* the terms of RxFifo but for the readers' hands.                          *)
Moves ==
    \/ Queue' = Queue /\ Session' = Session
    \/ /\ Len(Queue) < RxBufCount /\ Session' = Session
       /\ \E m \in Items : Queue' = Append(Queue, m)
    \/ Session = "closed" /\ Session' = "opening" /\ Queue' = << >>
    \/ Session = "opening" /\ Session' \in {"open", "closed"} /\ Queue' = Queue
    \/ /\ Session = "open" /\ Session' = "closed" /\ Queue' = Queue
       /\ \A r \in Readers : rpc[r] = "idle"

LEMMA DecoderMoves == ASSUME SessionInv, DecoderNext PROVE Moves
  <1>1. Session' = Session
    <2>1. UNCHANGED fpc
      BY DEF DecoderNext, UrbArrives, UrbDone, DecodeBegin, DecodeIndex, DecodeFill,
           DecodeFail, PublishIndex, PublishCount, WakeUp, sessionVars
    <2> QED
      BY <2>1, SessionKept
  <1>2. CASE PublishCount /\ ~Resetting
    BY <1>1, <1>2, QueueAppends DEF Moves
  <1>3. CASE ~PublishCount \/ Resetting
    BY <1>1, <1>3, QueueKept DEF Moves
  <1> QED
    BY <1>2, <1>3

(* A dequeue splits the queue, whoever shares the buffer it goes into. *)
LEMMA DequeueSplits ==
  ASSUME SessionInv, NEW r \in Readers, Dequeue(r)
  PROVE  /\ Batch(r) \in 0..Len(Queue)
         /\ taken' = [taken EXCEPT ![r] = SubSeq(Queue, 1, Batch(r))]
         /\ Queue' = SubSeq(Queue, Batch(r) + 1, Len(Queue))
  <1>0. TypeOK /\ rx_unread_cnt \in 0..RxBufCount /\ RxBufCount \in Nat \ {0}
    BY EndTyped DEF SessionInv, RingInv
  <1>a. ~Resetting /\ ~Resetting'
    BY NoResetInCall DEF Dequeue, SessionInv, sessionVars, Resetting
  <1>1. /\ dpc # "count" /\ dpc' = dpc
        /\ rx_msgs' = rx_msgs /\ rx_write_idx' = rx_write_idx
        /\ rx_unread_cnt' = rx_unread_cnt - Batch(r)
    BY DEF Dequeue, Locked, decoderVars
  <1>2. End = rx_write_idx /\ End' = rx_write_idx
    BY <1>1 DEF End
  <1> DEFINE b == Batch(r)
             old(k) == rx_msgs[Nth(rx_write_idx, rx_unread_cnt, k - 1)]
             new(k) == rx_msgs[Nth(rx_write_idx, rx_unread_cnt - b, k - 1)]
  <1>3. b \in 0..rx_unread_cnt
    BY BatchRange DEF Dequeue, SessionInv
  <1>4. taken' = [taken EXCEPT ![r] = [k \in 1..b |-> old(k)]]
    BY DEF Dequeue
  <1>5. Queue = [k \in 1..rx_unread_cnt |-> old(k)]
    BY <1>a, <1>2 DEF Queue, Unread
  <1>6. Queue' = [k \in 1..(rx_unread_cnt - b) |-> new(k)]
    BY <1>a, <1>1, <1>2 DEF Queue, Unread
  <1>7. \A k \in 1..(rx_unread_cnt - b) : new(k) = old(k + b)
    <2> SUFFICES ASSUME NEW k \in 1..(rx_unread_cnt - b)
                 PROVE  Nth(rx_write_idx, rx_unread_cnt - b, k - 1)
                          = Nth(rx_write_idx, rx_unread_cnt, (k + b) - 1)
      OBVIOUS
    <2> HIDE DEF b
    <2>1. k - 1 \in 0..(rx_unread_cnt - b - 1) /\ b \in 0..rx_unread_cnt
          /\ (k - 1) + b = (k + b) - 1
      BY <1>0, <1>3
    <2>2. rx_write_idx \in SlotIds
      BY <1>0 DEF TypeOK
    <2>3. Nth(rx_write_idx, rx_unread_cnt - b, k - 1)
            = Nth(rx_write_idx, rx_unread_cnt, (k - 1) + b)
      BY ONLY <1>0, <2>1, <2>2, NthTake
    <2> QED
      BY <2>1, <2>3
  <1>8. rx_unread_cnt \in Nat /\ Len(Queue) = rx_unread_cnt
    BY <1>0, <1>a, EndTyped DEF SessionInv, Unread
  <1> HIDE DEF b, old, new
  <1>9. [k \in 1..b |-> old(k)] = SubSeq(Queue, 1, b)
    BY <1>3, <1>5, <1>8
  <1>10. Queue' = SubSeq(Queue, b + 1, Len(Queue))
    BY <1>3, <1>5, <1>6, <1>7, <1>8
  <1>11. b \in 0..Len(Queue)
    BY <1>3, <1>8
  <1> QED
    BY <1>4, <1>9, <1>10, <1>11 DEF b

(* A reader's steps: a dequeue takes a batch, a copy hands it over. *)
LEMMA ReaderRefines ==
  ASSUME SessionInv, ExclusiveBuffers, NEW r \in Readers, ReaderNext(r)
  PROVE  [Fifo!FifoNext]_(Fifo!fifoVars)
  <1>0. TypeOK /\ rx_unread_cnt \in 0..RxBufCount /\ RxBufCount \in Nat \ {0}
    BY EndTyped DEF SessionInv, RingInv
  <1>1. \A s \in Readers \ {r} : rpc'[s] = rpc[s] /\ CopiedOut(s)' = CopiedOut(s)
    BY OtherHandKept
  <1>a. UNCHANGED fpc
    BY DEF ReaderNext, Call, Wait, Signal, Recheck, GetCount, Dequeue, DequeueNone,
         CopyToUser, sharedRest, sessionVars
  <1>b. Session' = Session
    BY <1>a, SessionKept
  <1>2. ASSUME NEW h, h = IF rpc'[r] = "copy" THEN CopiedOut(r)' ELSE << >>
        PROVE  Hands' = [Hands EXCEPT ![r] = h]
    BY <1>1, <1>2 DEF Hands
  <1>3. CASE Dequeue(r)
    <2>1. rpc[r] = "dequeue" /\ rpc'[r] = "copy"
      BY <1>0, <1>3 DEF Dequeue, Goto, TypeOK
    <2> DEFINE b == Batch(r)
    <2>2. b \in 1..rx_unread_cnt /\ CopiedOut(r)' = taken'[r]
      BY <1>3, DequeuedBatch
    <2>3. taken'[r] = SubSeq(Queue, 1, b) /\ Queue' = SubSeq(Queue, b + 1, Len(Queue))
      BY <1>0, <1>3, DequeueSplits DEF TypeOK
    <2> HIDE DEF b
    <2>4. Hands' = [Hands EXCEPT ![r] = SubSeq(Queue, 1, b)]
      BY <1>2, <2>1, <2>2, <2>3
    <2>5. Hands[r] = << >>
      BY <2>1 DEF Hands
    <2>6. b \in 1..Len(Queue) /\ b \in 1..RxBufCount
      <3>1. Batch(r) \in 0..Len(Queue)
        BY <1>3, DequeueSplits
      <3>2. Len(Queue) \in 0..RxBufCount
        BY EndTyped DEF SessionInv
      <3> QED
        BY <1>0, <2>2, <3>1, <3>2 DEF b
    <2>a. Session = "open"
      BY <2>1 DEF SessionInv, RingInv, ReadersInSession, Session
    <2>7. Fifo!Take(r, b)
      BY <1>b, <2>3, <2>4, <2>5, <2>6, <2>a DEF Fifo!Take
    <2> QED
      BY <2>6, <2>7 DEF Fifo!FifoNext
  <1>4. CASE ~Dequeue(r)
    <2>1. /\ UNCHANGED ringVars /\ UNCHANGED decoderVars
          /\ rpc'[r] # "copy"
          /\ rpc[r] = "copy" => CopyToUser(r)
      BY <1>0, <1>4 DEF ReaderNext, Call, Wait, Signal, Recheck, GetCount, DequeueNone,
           CopyToUser, Return, Goto, Ready, sharedRest, TypeOK
    <2>2. Queue' = Queue
      BY <1>a, <2>1 DEF Queue, End, Unread, Resetting, ringVars, decoderVars
    <2>3. Hands' = [Hands EXCEPT ![r] = << >>]
      BY <1>2, <2>1
    <2>4. CASE rpc[r] = "copy"
      <3>1. Hands[r] # << >>
        <4>1. Hands[r] = CopiedOut(r)
          BY <2>4 DEF Hands
        <4>2. Len(CopiedOut(r)) \in 1..RxBufCount
          BY <2>4 DEF SessionInv, HandsOK
        <4>3. Len(<< >>) = 0
          OBVIOUS
        <4> QED
          BY <4>1, <4>2, <4>3
      <3> QED
        BY <1>b, <2>2, <2>3, <3>1 DEF Fifo!FifoNext, Fifo!HandOver
    <2>5. CASE rpc[r] # "copy"
      <3>1. Hands[r] = << >>
        BY <2>5 DEF Hands
      <3>2. Hands' = Hands
        BY <2>3, <3>1 DEF Hands
      <3> QED
        BY <1>b, <2>2, <3>2 DEF Fifo!fifoVars
    <2> QED
      BY <2>4, <2>5
  <1> QED
    BY <1>3, <1>4

(* An open empties the queue with its first store, and no other step of a   *)
(* file or of the network touches it.                                       *)
LEMMA FileQueue ==
  ASSUME SessionInv, NetToggle \/ UNCHANGED vars \/ \E f \in Files : FileNext(f)
  PROVE  Queue' = Queue \/ Queue' = << >>
  <1>0. TypeOK
    BY DEF SessionInv, RingInv
  <1>1. CASE NetToggle \/ UNCHANGED vars
    <2>1. UNCHANGED <<ringVars, decoderVars, fpc>>
      BY <1>1 DEF NetToggle, vars, sessionVars
    <2> QED
      BY <2>1 DEF ringVars, decoderVars, Queue, End, Unread, Resetting
  <1>2. ASSUME NEW f \in Files, FileNext(f) PROVE Queue' = Queue \/ Queue' = << >>
    <2>1. CASE ResetIdx(f) \/ ResetCnt(f)
      <3>1. Resetting' \/ rx_unread_cnt' = 0
        BY <1>0, <2>1 DEF ResetIdx, ResetCnt, GotoF, Resetting, TypeOK
      <3>2. Unread' = 0
        BY <3>1 DEF Unread
      <3> QED
        BY <3>2 DEF Queue
    <2>2. CASE ~ResetIdx(f) /\ ~ResetCnt(f)
      <3>1. UNCHANGED <<rx_msgs, rx_write_idx, rx_unread_cnt, dpc, slot>>
        BY <1>2, <2>2 DEF FileNext, OpenCount, OpenTooMany, ResetPackets, OpenStage,
             OpenStart, Release, ReleaseStage, ringVars, decoderVars
      <3>2. Resetting' <=> Resetting
        BY <1>0, <1>2, <2>2 DEF FileNext, OpenCount, OpenTooMany, ResetPackets, OpenStage,
             OpenStart, Release, ReleaseStage, GotoF, TypeOK, Resetting
      <3> QED
        BY <3>1, <3>2 DEF Queue, Unread, End
    <2> QED
      BY <2>1, <2>2
  <1> QED
    BY <1>1, <1>2

(* The opens and releases: a reset begins a session, and empties the queue  *)
(* from its first store on.                                                 *)
LEMMA FileMoves ==
  ASSUME SessionInv, NEW f \in Files, FileNext(f)
  PROVE  Moves
  <1>0. TypeOK /\ ResetAlone
    BY DEF SessionInv, RingInv
  <1>2. fpc[f] \in Held => \A g \in Files \ {f} : fpc[g] \notin Held /\ fpc'[g] \notin Held
    BY <1>0 DEF ResetAlone, FileNext, OpenCount, OpenTooMany, ResetIdx, ResetCnt,
         ResetPackets, OpenStage, OpenStart, Release, ReleaseStage, GotoF, TypeOK
  <1>3. CASE ResetIdx(f)
    <2>1. fpc[f] = "reset_idx" /\ fpc'[f] = "reset_cnt"
      BY <1>0, <1>3 DEF ResetIdx, GotoF, TypeOK
    <2>2. Session = "closed" /\ Session' = "opening"
      BY <1>2, <2>1 DEF Session, SessionOpen, Opening, Held
    <2>3. Unread' = 0
      BY <2>1 DEF Unread, Resetting
    <2>4. Queue' = << >>
      BY <2>3 DEF Queue
    <2> QED
      BY <2>2, <2>4 DEF Moves
  <1>4. CASE ResetCnt(f)
    <2>1. fpc[f] = "reset_cnt" /\ fpc'[f] = "reset_packets" /\ rx_unread_cnt' = 0
      BY <1>0, <1>4 DEF ResetCnt, GotoF, TypeOK
    <2>2. Session = "opening" /\ Session' = "opening"
      BY <1>2, <2>1 DEF Session, SessionOpen, Opening, Held
    <2>3. Unread = 0 /\ Unread' = 0
      BY <2>1 DEF Unread, Resetting
    <2>4. Queue = << >> /\ Queue' = << >>
      BY <2>3 DEF Queue
    <2> QED
      BY <2>2, <2>4 DEF Moves
  <1>5. CASE ~ResetIdx(f) /\ ~ResetCnt(f)
    <2>1. UNCHANGED <<rx_msgs, rx_write_idx, rx_unread_cnt, dpc, slot>>
      BY <1>5 DEF FileNext, OpenCount, OpenTooMany, ResetPackets, OpenStage, OpenStart,
           Release, ReleaseStage, ringVars, decoderVars
    <2>2. /\ fpc[f] # "reset_cnt" /\ fpc'[f] # "reset_cnt"
          /\ \A g \in Files \ {f} : fpc'[g] = fpc[g]
      BY <1>0, <1>5 DEF FileNext, OpenCount, OpenTooMany, ResetPackets, OpenStage,
           OpenStart, Release, ReleaseStage, GotoF, TypeOK
    <2>3. Resetting' <=> Resetting
      BY <2>2 DEF Resetting
    <2>4. Queue' = Queue
      BY <2>1, <2>3 DEF Queue, Unread, End
    <2>5. CASE OpenCount(f) \/ OpenTooMany(f) \/ ResetPackets(f) \/ ReleaseStage(f)
      <3>1. /\ fpc[f] # "open" /\ fpc'[f] # "open"
            /\ fpc[f] \in Opening <=> fpc'[f] \in Opening
        BY <1>0, <2>5 DEF OpenCount, OpenTooMany, ResetPackets, ReleaseStage, GotoF,
             Opening, TypeOK
      <3>2. Session' = Session
        BY <2>2, <3>1 DEF Session, SessionOpen
      <3> QED
        BY <2>4, <3>2 DEF Moves
    <2>6. CASE OpenStage(f) \/ OpenStart(f)
      <3>1. fpc[f] \in {"stage", "start"} /\ fpc'[f] \in {"start", "open", "uncount"}
        BY <1>0, <2>6 DEF OpenStage, OpenStart, GotoF, TypeOK
      <3>2. Session = "opening"
        BY <1>2, <3>1 DEF Session, SessionOpen, Opening, Held
      <3>3. Session' = IF fpc'[f] = "open" THEN "open"
                       ELSE IF fpc'[f] = "start" THEN "opening" ELSE "closed"
        BY <1>2, <3>1 DEF Session, SessionOpen, Opening, Held
      <3> QED
        BY <2>4, <3>1, <3>2, <3>3 DEF Moves
    <2>7. CASE Release(f)
      <3>1. /\ fpc[f] = "open" /\ fpc'[f] = "release"
            /\ \A r \in Readers : rpc[r] = "idle"
        BY <1>0, <2>7 DEF Release, GotoF, TypeOK
      <3>2. Session = "open" /\ Session' = "closed"
        BY <1>2, <3>1 DEF Session, SessionOpen, Opening, Held
      <3> QED
        BY <2>4, <3>1, <3>2 DEF Moves
    <2> QED
      BY <1>5, <2>5, <2>6, <2>7 DEF FileNext
  <1> QED
    BY <1>3, <1>4, <1>5

LEMMA OtherStepMoves == ASSUME SessionInv, OtherStep PROVE Moves
  <1>1. CASE NetToggle \/ UNCHANGED vars
    <2>1. UNCHANGED <<ringVars, decoderVars, fpc>>
      BY <1>1 DEF NetToggle, vars, sessionVars
    <2>2. Queue' = Queue /\ Session' = Session
      BY <2>1, SessionKept DEF ringVars, decoderVars, Queue, End, Unread, Resetting
    <2> QED
      BY <2>2 DEF Moves
  <1> QED
    BY <1>1, DecoderMoves, FileMoves DEF OtherStep

(* The ring hands out what was published, in order, once, begins every      *)
(* session empty and is not emptied during one, for any ring size, any      *)
(* competing opens and any threads of which no two share a buffer.          *)
THEOREM RingIsFifo ==
  ASSUME ExclusiveBuffers
  PROVE  Spec => ImplementsFifo
  <1>1. SessionInv /\ [Next]_vars => [Fifo!FifoNext]_(Fifo!fifoVars)
    <2> SUFFICES ASSUME SessionInv, [Next]_vars
                 PROVE  [Fifo!FifoNext]_(Fifo!fifoVars)
      OBVIOUS
    <2>1. CASE OtherStep
      <3>1. Moves /\ Hands' = Hands
        BY <2>1, OtherStepMoves, OtherStepHands
      <3>2. (\A r \in Readers : rpc[r] = "idle") => \A r \in Readers : Hands[r] = << >>
        BY DEF Hands
      <3> QED
        BY <3>1, <3>2 DEF Moves, Fifo!FifoNext, Fifo!fifoVars, Fifo!Put, Fifo!Begin, Fifo!Open,
                          Fifo!Close
    <2> QED
      BY <2>1, ReaderRefines DEF Next, OtherStep
  <1> QED
    BY <1>1, FifoInitially, SessionInvariant, PTL DEF Spec, ImplementsFifo, Fifo!FifoSpec
(* The ring alone keeps the promise for any threads: if two of them share a *)
(* buffer, what mixes is what they copy, not what they take.                *)
THEOREM RingTakesAsFifo == Spec => TakesAsFifo
  <1>1. Init => Taking!FifoInit
    <2> SUFFICES ASSUME Init PROVE Taking!FifoInit
      OBVIOUS
    <2>1. Queue = << >> /\ Session = "closed"
      BY FifoInitially DEF Fifo!FifoInit
    <2> QED
      BY <2>1 DEF Init, RingInit, Taking!FifoInit
  <1>2. SessionInv /\ [Next]_vars => [Taking!FifoNext]_(Taking!fifoVars)
    <2> SUFFICES ASSUME SessionInv, [Next]_vars
                 PROVE  [Taking!FifoNext]_(Taking!fifoVars)
      OBVIOUS
    <2>0. TypeOK /\ TakenInCopy
      BY DEF SessionInv, RingInv
    <2>1. CASE OtherStep
      <3>1. Moves /\ taken' = taken
        BY <2>1, OtherStepMoves, OtherStepReaders
      <3>2. (\A r \in Readers : rpc[r] = "idle") => \A r \in Readers : taken[r] = << >>
        BY <2>0 DEF TakenInCopy
      <3> QED
        BY <3>1, <3>2 DEF Moves, Taking!FifoNext, Taking!fifoVars, Taking!Put, Taking!Begin,
                          Taking!Open, Taking!Close
    <2>2. ASSUME NEW r \in Readers, ReaderNext(r)
          PROVE  [Taking!FifoNext]_(Taking!fifoVars)
      <3>1. UNCHANGED fpc
        BY <2>2 DEF ReaderNext, Call, Wait, Signal, Recheck, GetCount, Dequeue, DequeueNone,
             CopyToUser, sharedRest, sessionVars
      <3>2. Session' = Session
        BY <3>1, SessionKept
      <3>3. CASE Dequeue(r)
        <4> DEFINE b == Batch(r)
        <4>1. /\ b \in 0..Len(Queue)
              /\ taken' = [taken EXCEPT ![r] = SubSeq(Queue, 1, b)]
              /\ Queue' = SubSeq(Queue, b + 1, Len(Queue))
          BY <3>3, DequeueSplits
        <4>2. Queue \in Seq(Items) /\ Len(Queue) \in 0..RxBufCount /\ RxBufCount \in Nat
          BY EndTyped DEF SessionInv
        <4>3. taken[r] = << >> /\ Session = "open"
          BY <2>0, <3>3 DEF Dequeue, TakenInCopy, SessionInv, RingInv, ReadersInSession, Session
        <4> HIDE DEF b
        <4>4. CASE b = 0
          <5>1. SubSeq(Queue, 1, 0) = << >> /\ SubSeq(Queue, 1, Len(Queue)) = Queue
            BY <4>2
          <5>2. taken' = taken /\ Queue' = Queue
            BY <2>0, <4>1, <4>3, <4>4, <5>1 DEF TypeOK
          <5> QED
            BY <3>2, <5>2 DEF Taking!fifoVars
        <4>5. CASE b # 0
          <5>1. b \in 1..Len(Queue) /\ b \in 1..RxBufCount
            BY <4>1, <4>2, <4>5
          <5>2. Taking!Take(r, b)
            BY <3>2, <4>1, <4>3, <5>1 DEF Taking!Take
          <5> QED
            BY <5>1, <5>2 DEF Taking!FifoNext
        <4> QED
          BY <4>4, <4>5
      <3>4. CASE ~Dequeue(r)
        <4>1. /\ UNCHANGED ringVars /\ UNCHANGED decoderVars
              /\ taken' = taken \/ taken' = [taken EXCEPT ![r] = << >>]
          BY <2>2, <3>4 DEF ReaderNext, Call, Wait, Signal, Recheck, GetCount, DequeueNone,
               CopyToUser, Return, sharedRest, readerLocals
        <4>2. Queue' = Queue
          BY <3>1, <4>1 DEF Queue, End, Unread, Resetting, ringVars, decoderVars
        <4>3. CASE taken' = taken
          BY <3>2, <4>2, <4>3 DEF Taking!fifoVars
        <4>4. CASE taken' = [taken EXCEPT ![r] = << >>] /\ taken' # taken
          <5>1. taken[r] # << >>
            BY <2>0, <4>4 DEF TypeOK
          <5> QED
            BY <3>2, <4>2, <4>4, <5>1 DEF Taking!FifoNext, Taking!HandOver
        <4> QED
          BY <4>1, <4>3, <4>4
      <3> QED
        BY <3>3, <3>4
    <2> QED
      BY <2>1, <2>2 DEF Next, OtherStep
  <1> QED
    BY <1>1, <1>2, SessionInvariant, PTL DEF Spec, TakesAsFifo, Taking!FifoSpec
(***************************************************************************)
(* The order of delivery.                                                  *)
(***************************************************************************)

(* The records whose decoding is over. *)
Finished == IF dpc \in {"index", "fill", "publish", "count"} THEN records - 1 ELSE records

Ascending(q) ==
    \A i, j \in 1..Len(q) : i < j /\ q[i] > 0 /\ q[j] > 0 => q[i] < q[j]
Before(p, q) ==
    \A i \in 1..Len(p), j \in 1..Len(q) : p[i] > 0 /\ q[j] > 0 => p[i] < q[j]
UpTo(q, n) == \A i \in 1..Len(q) : q[i] > 0 => q[i] <= n

NoLaterBlank(q) == \A k \in 2..Len(q) : q[k] # Blank

(* What is published or taken comes from records that are over, and the     *)
(* slot about to be published from the one that is not: so what is          *)
(* published next is new, unless it is the first of a torn publication.     *)
OrderInv ==
    /\ Ascending(Queue) /\ UpTo(Queue, Finished) /\ NoLaterBlank(Queue)
    /\ \A r \in Readers : Before(taken[r], Queue) /\ UpTo(taken[r], Finished)
    /\ dpc \in {"publish", "count"} => rx_msgs[slot] \in {Freed, records}
    /\ dpc \in {"index", "fill", "publish", "count"} => records >= 1
    /\ \A i \in SlotIds : rx_msgs[i] <= records

LEMMA ItemsAreNumbers == Items \subseteq Int /\ Blank = 0 /\ Freed = -1
  BY RingAssumption DEF Items, Blank, Freed

LEMMA EmptyOrdered ==
  ASSUME NEW n
  PROVE  /\ Ascending(<< >>) /\ UpTo(<< >>, n) /\ NoLaterBlank(<< >>)
         /\ \A q : Before(<< >>, q) /\ Before(q, << >>)
  BY DEF Ascending, UpTo, NoLaterBlank, Before

LEMMA OrderInit == Init => OrderInv
  <1> SUFFICES ASSUME Init PROVE OrderInv
    OBVIOUS
  <1>1. /\ dpc = "idle" /\ rx_unread_cnt = 0 /\ records = 0
        /\ \A r \in Readers : taken[r] = << >>
        /\ \A i \in SlotIds : rx_msgs[i] = 0
    BY DEF Init, RingInit, Blank
  <1>2. Queue = << >>
    BY <1>1 DEF Queue, Unread
  <1> QED
    BY <1>1, <1>2, EmptyOrdered DEF OrderInv

LEMMA ItemsOfSeq == ASSUME NEW q \in Seq(Items) PROVE \A i \in 1..Len(q) : q[i] \in Int
  <1>1. \A i \in 1..Len(q) : q[i] \in Items
    OBVIOUS
  <1> QED
    BY <1>1, ItemsAreNumbers

LEMMA AppendOrdered ==
  ASSUME NEW q \in Seq(Items), NEW p \in Seq(Items), NEW n \in Int, NEW m \in Items,
         m <= 0 \/ m = n + 1, Ascending(q), UpTo(q, n), Before(p, q), UpTo(p, n)
  PROVE  /\ Ascending(Append(q, m)) /\ UpTo(Append(q, m), n + 1)
         /\ Before(p, Append(q, m)) /\ UpTo(p, n + 1)
  <1>1. /\ Len(Append(q, m)) = Len(q) + 1 /\ Len(q) \in Nat
        /\ \A i \in 1..Len(q) : Append(q, m)[i] = q[i]
        /\ Append(q, m)[Len(q) + 1] = m
    OBVIOUS
  <1>2. /\ \A i \in 1..Len(q) : q[i] \in Int
        /\ \A i \in 1..Len(p) : p[i] \in Int
        /\ m \in Int
    BY ItemsOfSeq, ItemsAreNumbers
  <1>3. Ascending(Append(q, m))
    <2> DEFINE s == Append(q, m)
    <2> SUFFICES ASSUME NEW i \in 1..(Len(q) + 1), NEW j \in 1..(Len(q) + 1),
                        i < j, s[i] > 0, s[j] > 0
                 PROVE  s[i] < s[j]
      BY <1>1 DEF Ascending
    <2>1. i \in 1..Len(q) /\ s[i] = q[i]
      BY <1>1
    <2>2. CASE j \in 1..Len(q)
      BY <1>1, <2>1, <2>2 DEF Ascending
    <2>3. CASE j = Len(q) + 1
      BY <1>1, <1>2, <2>1, <2>3 DEF UpTo
    <2> QED
      BY <1>1, <2>2, <2>3
  <1>4. UpTo(Append(q, m), n + 1) /\ UpTo(p, n + 1)
    BY <1>1, <1>2 DEF UpTo
  <1>5. Before(p, Append(q, m))
    BY <1>1, <1>2 DEF Before, UpTo
  <1> QED
    BY <1>3, <1>4, <1>5

LEMMA SplitOrdered ==
  ASSUME NEW q \in Seq(Items), NEW p \in Seq(Items), NEW n \in Int, NEW b \in 0..Len(q),
         Ascending(q), UpTo(q, n), Before(p, q)
  PROVE  LET front == SubSeq(q, 1, b)
             rest  == SubSeq(q, b + 1, Len(q))
         IN  /\ Ascending(rest) /\ UpTo(rest, n)
             /\ Before(p, rest)
             /\ Before(front, rest) /\ UpTo(front, n)
  <1> DEFINE front == SubSeq(q, 1, b)
             rest  == SubSeq(q, b + 1, Len(q))
  <1>1. Len(front) = b /\ \A i \in 1..b : front[i] = q[i]
    OBVIOUS
  <1>2. Len(rest) = Len(q) - b /\ \A i \in 1..(Len(q) - b) : rest[i] = q[b + i]
    OBVIOUS
  <1>3. Len(q) \in Nat
    OBVIOUS
  <1> HIDE DEF front, rest
  <1>a. \A i \in 1..Len(q) : q[i] \in Int
    BY ItemsOfSeq
  <1>b. \A i \in 1..(Len(q) - b) : b + i \in (b + 1)..Len(q) /\ b + i \in 1..Len(q)
    BY <1>3
  <1>c. \A i \in 1..b : i \in 1..Len(q)
    BY <1>3
  <1>4. Ascending(rest)
    <2> SUFFICES ASSUME NEW i \in 1..(Len(q) - b), NEW j \in 1..(Len(q) - b),
                        i < j, q[b + i] > 0, q[b + j] > 0
                 PROVE  q[b + i] < q[b + j]
      BY <1>2 DEF Ascending
    <2>1. b + i < b + j
      BY <1>3
    <2> QED
      BY <1>b, <2>1 DEF Ascending
  <1>5. UpTo(rest, n) /\ UpTo(front, n)
    BY <1>1, <1>2, <1>b, <1>c DEF UpTo
  <1>6. Before(p, rest)
    BY <1>2, <1>b DEF Before
  <1>7. Before(front, rest)
    <2> SUFFICES ASSUME NEW i \in 1..b, NEW j \in 1..(Len(q) - b), q[i] > 0, q[b + j] > 0
                 PROVE  q[i] < q[b + j]
      BY <1>1, <1>2 DEF Before
    <2>1. i < b + j
      BY <1>3
    <2> QED
      BY <1>b, <1>c, <2>1 DEF Ascending
  <1> QED
    BY <1>4, <1>5, <1>6, <1>7 DEF front, rest

(* A step that neither publishes nor dequeues keeps the queue or empties it. *)
LEMMA OrderKept ==
  ASSUME SessionInv, OrderInv, Queue' = Queue \/ Queue' = << >>,
         \A r \in Readers : taken'[r] = taken[r] \/ taken'[r] = << >>,
         Finished' \in Int, Finished <= Finished'
  PROVE  /\ Ascending(Queue') /\ UpTo(Queue', Finished') /\ NoLaterBlank(Queue')
         /\ \A r \in Readers : Before(taken'[r], Queue') /\ UpTo(taken'[r], Finished')
  <1>0. /\ Queue \in Seq(Items) /\ taken \in [Readers -> Seq(Items)] /\ Finished \in Int
    BY EndTyped, RingAssumption DEF SessionInv, RingInv, TypeOK, Finished
  <1>1. ASSUME NEW q \in Seq(Items), UpTo(q, Finished) PROVE UpTo(q, Finished')
    <2>1. \A i \in 1..Len(q) : q[i] \in Int
      BY ItemsOfSeq
    <2> QED
      BY <1>0, <1>1, <2>1 DEF UpTo
  <1>2. Ascending(Queue') /\ UpTo(Queue', Finished') /\ NoLaterBlank(Queue')
    BY <1>0, <1>1, EmptyOrdered DEF OrderInv
  <1>3. ASSUME NEW r \in Readers PROVE Before(taken'[r], Queue') /\ UpTo(taken'[r], Finished')
    <2>1. Before(taken[r], Queue) /\ UpTo(taken[r], Finished')
      BY <1>0, <1>1 DEF OrderInv
    <2> QED
      BY <2>1, EmptyOrdered
  <1> QED
    BY <1>2, <1>3

LEMMA OrderStep == SessionInv /\ OrderInv /\ [Next]_vars => OrderInv'
  <1> SUFFICES ASSUME SessionInv, OrderInv, [Next]_vars PROVE OrderInv'
    OBVIOUS
  <1>0. /\ TypeOK /\ Queue \in Seq(Items) /\ taken \in [Readers -> Seq(Items)]
        /\ Finished \in Int /\ records \in Int
    BY EndTyped, RingAssumption DEF SessionInv, RingInv, TypeOK, Finished
  <1>1. CASE PublishCount /\ ~Resetting
    <2>1. /\ Queue' = Append(Queue, Published) /\ Published \in Items
          /\ \/ Published = rx_msgs[slot]
             \/ Queue = << >> /\ \A r \in Readers : taken[r] = << >>
      BY <1>1, QueueAppends
    <2>2. /\ taken' = taken /\ dpc' = "wake" /\ Finished' = Finished + 1
          /\ Finished + 1 = records /\ records >= 1
          /\ rx_msgs' = rx_msgs /\ records' = records
      BY <1>0, <1>1 DEF PublishCount, Finished, readerVars, OrderInv
    <2>3. CASE Published = rx_msgs[slot]
      <3>1. (Published <= 0 \/ Published = Finished + 1) /\ Published # Blank
        BY <1>1, <2>2, <2>3, ItemsAreNumbers DEF PublishCount, OrderInv
      <3>2. Ascending(Queue') /\ UpTo(Queue', Finished')
        <4>1. Before(<< >>, Queue) /\ UpTo(<< >>, Finished) /\ << >> \in Seq(Items)
          BY EmptyOrdered
        <4> QED
          BY <1>0, <2>1, <2>2, <3>1, <4>1, AppendOrdered DEF OrderInv
      <3>3. \A r \in Readers : Before(taken'[r], Queue') /\ UpTo(taken'[r], Finished')
        BY <1>0, <2>1, <2>2, <3>1, AppendOrdered DEF OrderInv
      <3>4. NoLaterBlank(Queue')
        <4>1. /\ Len(Queue') = Len(Queue) + 1 /\ Len(Queue) \in Nat
              /\ \A i \in 1..Len(Queue) : Queue'[i] = Queue[i]
              /\ Queue'[Len(Queue) + 1] = Published
          BY <1>0, <2>1
        <4> QED
          BY <3>1, <4>1 DEF OrderInv, NoLaterBlank
      <3> QED
        BY <2>2, <3>2, <3>3, <3>4 DEF OrderInv
    <2>4. CASE Queue = << >> /\ \A r \in Readers : taken[r] = << >>
      <3>1. Published <= records /\ Published \in Int
        <4>1. Nth(rx_write_idx, 1, 0) \in SlotIds
          <5>1. /\ 1 \in 0..RxBufCount /\ 0 \in 0..(RxBufCount - 1) /\ 0 < 1
                /\ rx_write_idx \in SlotIds
            BY <1>0, RingAssumption DEF TypeOK
          <5> QED
            BY <5>1, NthInRing
        <4> QED
          BY <2>1, <4>1, ItemsAreNumbers DEF Published, OrderInv
      <3>2. Len(Queue') = 1 /\ Queue'[1] = Published
        BY <2>1, <2>4
      <3>3. Ascending(Queue') /\ UpTo(Queue', Finished') /\ NoLaterBlank(Queue')
        BY <2>2, <3>1, <3>2 DEF Ascending, UpTo, NoLaterBlank
      <3> QED
        BY <2>2, <2>4, <3>3, EmptyOrdered DEF OrderInv
    <2> QED
      BY <2>1, <2>3, <2>4
  <1>2. ASSUME DecoderNext, ~PublishCount \/ Resetting PROVE OrderInv'
    <2>1. Queue' = Queue /\ taken' = taken
      BY <1>2, QueueKept, OtherStepReaders DEF OtherStep
    <2>2. Finished' \in Int /\ Finished <= Finished'
      BY <1>0, <1>2 DEF DecoderNext, UrbArrives, UrbDone, DecodeBegin, DecodeIndex,
           DecodeFill, DecodeFail, PublishIndex, PublishCount, WakeUp, Finished
    <2>3. dpc' \in {"publish", "count"} => rx_msgs'[slot'] \in {Freed, records'}
      <3>1. CASE DecodeFill
        <4>1. slot \in SlotIds /\ rx_msgs \in [SlotIds -> Items]
          BY <1>0 DEF TypeOK
        <4> QED
          BY <3>1, <4>1 DEF DecodeFill, Decoded
      <3>2. CASE PublishIndex
        BY <3>2 DEF PublishIndex, OrderInv
      <3>3. CASE ~DecodeFill /\ ~PublishIndex
        BY <1>2, <3>3 DEF DecoderNext, UrbArrives, UrbDone, DecodeBegin, DecodeIndex,
             DecodeFail, PublishCount, WakeUp
      <3> QED
        BY <3>1, <3>2, <3>3
    <2>4. dpc' \in {"index", "fill", "publish", "count"} => records' >= 1
      BY <1>0, <1>2 DEF DecoderNext, UrbArrives, UrbDone, DecodeBegin, DecodeIndex,
           DecodeFill, DecodeFail, PublishIndex, PublishCount, WakeUp, OrderInv, TypeOK
    <2>5. \A i \in SlotIds : rx_msgs'[i] <= records'
      <3>1. CASE DecodeFill
        <4>1. PICK item \in {records, Freed} : rx_msgs' = [rx_msgs EXCEPT ![slot] = item]
          BY <3>1 DEF DecodeFill, Decoded
        <4>2. item <= records /\ records' = records
          BY <1>0, <3>1, ItemsAreNumbers, RingAssumption DEF DecodeFill, TypeOK
        <4> QED
          BY <1>0, <4>1, <4>2 DEF OrderInv, TypeOK
      <3>2. CASE DecodeFail
        BY <1>0, <3>2, ItemsAreNumbers, RingAssumption DEF DecodeFail, OrderInv, TypeOK
      <3>3. CASE ~DecodeFill /\ ~DecodeFail
        <4>1. rx_msgs' = rx_msgs /\ records <= records' /\ records' \in Int
          BY <1>0, <1>2, <3>3 DEF DecoderNext, UrbArrives, UrbDone, DecodeBegin, DecodeIndex,
               PublishIndex, PublishCount, WakeUp, ringVars
        <4>2. \A i \in SlotIds : rx_msgs[i] \in Int
          BY <1>0, ItemsAreNumbers DEF TypeOK
        <4> QED
          BY <1>0, <4>1, <4>2 DEF OrderInv
      <3> QED
        BY <3>1, <3>2, <3>3
    <2> QED
      BY <2>1, <2>2, <2>3, <2>4, <2>5, OrderKept DEF OrderInv
  <1>3. ASSUME NEW r \in Readers, Dequeue(r) PROVE OrderInv'
    <2>1. /\ Batch(r) \in 0..Len(Queue)
          /\ taken' = [taken EXCEPT ![r] = SubSeq(Queue, 1, Batch(r))]
          /\ Queue' = SubSeq(Queue, Batch(r) + 1, Len(Queue))
      BY <1>3, DequeueSplits
    <2>2. Finished' = Finished /\ UNCHANGED <<dpc, slot, records, rx_msgs>>
      BY <1>3 DEF Dequeue, Finished, decoderVars
    <2>3. ASSUME NEW s \in Readers
          PROVE  /\ Ascending(Queue') /\ UpTo(Queue', Finished) /\ Before(taken[s], Queue')
                 /\ Before(SubSeq(Queue, 1, Batch(r)), Queue')
                 /\ UpTo(SubSeq(Queue, 1, Batch(r)), Finished)
      BY <1>0, <2>1, SplitOrdered DEF OrderInv
    <2>4. \A s \in Readers : Before(taken'[s], Queue') /\ UpTo(taken'[s], Finished)
      BY <1>0, <2>1, <2>3 DEF OrderInv
    <2>5. NoLaterBlank(Queue')
      <3> DEFINE b == Batch(r)
      <3>1. Len(Queue') = Len(Queue) - b /\ \A k \in 1..(Len(Queue) - b) : Queue'[k] = Queue[b + k]
        BY <1>0, <2>1
      <3>2. b \in Nat /\ Len(Queue) \in Nat
        BY <1>0, <2>1
      <3> HIDE DEF b
      <3>3. \A k \in 2..(Len(Queue) - b) : b + k \in 2..Len(Queue) /\ k \in 1..(Len(Queue) - b)
        BY <3>2
      <3> QED
        BY <3>1, <3>3 DEF OrderInv, NoLaterBlank
    <2> QED
      BY <2>2, <2>3, <2>4, <2>5 DEF OrderInv
  <1>4. ASSUME NEW r \in Readers, ReaderNext(r), ~Dequeue(r) PROVE OrderInv'
    <2>1. UNCHANGED <<ringVars, decoderVars, fpc>>
      BY <1>4 DEF ReaderNext, Call, Wait, Signal, Recheck, GetCount, DequeueNone, CopyToUser,
           sharedRest, sessionVars
    <2>2. Queue' = Queue /\ Finished' = Finished /\ UNCHANGED <<dpc, slot, records, rx_msgs>>
      BY <2>1 DEF Queue, End, Unread, Resetting, Finished, ringVars, decoderVars
    <2>3. taken' = taken \/ taken' = [taken EXCEPT ![r] = << >>]
      BY <1>4 DEF ReaderNext, Call, Wait, Signal, Recheck, GetCount, DequeueNone, CopyToUser,
           Return, readerLocals
    <2>4. \A s \in Readers : taken'[s] = taken[s] \/ taken'[s] = << >>
      BY <1>0, <2>3
    <2> QED
      BY <1>0, <2>2, <2>4, OrderKept DEF OrderInv
  <1>5. ASSUME OtherStep, ~DecoderNext PROVE OrderInv'
    <2>1. UNCHANGED <<decoderVars, rx_msgs, taken>>
      BY <1>5, OtherStepReaders DEF OtherStep, FileNext, OpenCount, OpenTooMany, ResetIdx,
           ResetCnt, ResetPackets, OpenStage, OpenStart, Release, ReleaseStage, NetToggle,
           vars, ringVars
    <2>2. Finished' = Finished /\ UNCHANGED <<dpc, slot, records, rx_msgs>>
      BY <2>1 DEF Finished, decoderVars
    <2>3. Queue' = Queue \/ Queue' = << >>
      BY <1>5, FileQueue DEF OtherStep
    <2> QED
      BY <1>0, <2>1, <2>2, <2>3, OrderKept DEF OrderInv
  <1> QED
    BY <1>1, <1>2, <1>3, <1>4, <1>5 DEF Next, OtherStep, DecoderNext

(* Frames leave the ring in the order in which they were decoded, through   *)
(* all sessions, for any ring size and any threads, also threads that share *)
(* a buffer.                                                                *)
THEOREM FramesInOrder == Spec => []InOrder
  <1>1. SessionInv /\ OrderInv => InOrder
    <2> SUFFICES ASSUME SessionInv, OrderInv PROVE InOrder
      OBVIOUS
    <2>1. Len(Queue) = Unread
      BY EndTyped DEF SessionInv
    <2> QED
      BY <2>1 DEF OrderInv, Ascending, Before, InOrder
  <1> QED
    BY <1>1, OrderInit, OrderStep, SessionInvInit, SessionInductive, PTL DEF Spec

(* The race of a reset with the handler never puts more than one undecoded  *)
(* slot into the queue, and only at its head.                               *)
THEOREM DamageIsOneFrame == Spec => []OneUndecodedAtMost
  <1>1. SessionInv /\ OrderInv => OneUndecodedAtMost
    <2> SUFFICES ASSUME SessionInv, OrderInv PROVE OneUndecodedAtMost
      OBVIOUS
    <2>1. Len(Queue) = Unread
      BY EndTyped DEF SessionInv
    <2> QED
      BY <2>1 DEF OrderInv, NoLaterBlank, OneUndecodedAtMost
  <1> QED
    BY <1>1, OrderInit, OrderStep, SessionInvInit, SessionInductive, PTL DEF Spec
(***************************************************************************)
(* Wake-ups.                                                               *)
(***************************************************************************)

(* Only a publication makes the count positive, and a thread falls asleep   *)
(* only at a count of zero.                                                 *)
LEMMA WakeUpStep == RingInv /\ NoLostWakeUp /\ [Next]_vars => NoLostWakeUp'
  <1> SUFFICES ASSUME RingInv, NoLostWakeUp, [Next]_vars, NEW s \in Readers,
                      rpc'[s] = "asleep", rx_unread_cnt' > 0
               PROVE  dpc' = "wake"
    BY DEF NoLostWakeUp
  <1>0. TypeOK
    BY DEF RingInv
  <1>1. CASE DecoderNext
    BY <1>0, <1>1 DEF DecoderNext, UrbArrives, UrbDone, DecodeBegin, DecodeIndex, DecodeFill,
         DecodeFail, PublishIndex, PublishCount, WakeUp, readerVars, ringVars, NoLostWakeUp
  <1>2. ASSUME NEW r \in Readers, ReaderNext(r) PROVE dpc' = "wake"
    <2>1. UNCHANGED dpc
      BY <1>2 DEF ReaderNext, Call, Wait, Signal, Recheck, GetCount, Dequeue, DequeueNone,
           CopyToUser, sharedRest, decoderVars
    <2>2. rx_unread_cnt > 0 /\ rpc[s] = "asleep"
      <3>1. CASE Dequeue(r)
        <4>1. Batch(r) \in 0..rx_unread_cnt /\ rx_unread_cnt' = rx_unread_cnt - Batch(r)
          BY <3>1, BatchRange DEF Dequeue
        <4>2. rpc[s] = "asleep"
          BY <1>0, <3>1 DEF Dequeue, Goto, TypeOK
        <4> QED
          BY <1>0, <4>1, <4>2 DEF TypeOK
      <3>2. CASE ~Dequeue(r)
        BY <1>0, <1>2, <3>2 DEF ReaderNext, Call, Wait, Signal, Recheck, GetCount,
             DequeueNone, CopyToUser, Return, Goto, Ready, sharedRest, ringVars, TypeOK
      <3> QED
        BY <3>1, <3>2
    <2> QED
      BY <2>1, <2>2 DEF NoLostWakeUp
  <1>3. ASSUME OtherStep, ~DecoderNext PROVE dpc' = "wake"
    <2>1. UNCHANGED <<dpc, rpc>> /\ (rx_unread_cnt' = rx_unread_cnt \/ rx_unread_cnt' = 0)
      BY <1>3 DEF OtherStep, FileNext, OpenCount, OpenTooMany, ResetIdx, ResetCnt,
           ResetPackets, OpenStage, OpenStart, Release, ReleaseStage, NetToggle, vars,
           ringVars, decoderVars, readerVars
    <2> QED
      BY <2>1 DEF NoLostWakeUp
  <1> QED
    BY <1>1, <1>2, <1>3 DEF Next, OtherStep

(* No thread sleeps next to a frame unless its wake-up is the handler's     *)
(* next step: what SleeperWakes needs besides fairness.                     *)
THEOREM WakeUpsNotLost == Spec => []NoLostWakeUp
  <1>1. Init => NoLostWakeUp
    BY DEF Init, RingInit, NoLostWakeUp
  <1> QED
    BY <1>1, WakeUpStep, RingInvInit, RingInductive, PTL DEF Spec
=============================================================================
