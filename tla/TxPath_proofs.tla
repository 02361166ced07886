--------------------------- MODULE TxPath_proofs ----------------------------
(***************************************************************************)
(* What is proved of TxPath, for any number of contexts.                   *)
(***************************************************************************)
EXTENDS TxPath, FiniteSetTheorems, TLAPS

CountedSet == {i \in Contexts : Counted(i)}

LEMMA ContextsFinite ==
  /\ IsFiniteSet(Contexts) /\ Cardinality(Contexts) = MaxTxUrbs
  /\ IsFiniteSet(CountedSet)
  /\ 0 \in Contexts
  /\ \A i \in Contexts : i \in Nat /\ i + 1 \in 0..MaxTxUrbs /\ i + 1 # 0
  <1>1. MaxTxUrbs \in Nat /\ MaxTxUrbs > 0
    BY TxAssumption
  <1>2. IsFiniteSet(Contexts) /\ Cardinality(Contexts) = MaxTxUrbs
    BY <1>1, FS_Interval DEF Contexts
  <1>3. CountedSet \in SUBSET Contexts
    BY DEF CountedSet
  <1>4. IsFiniteSet(CountedSet)
    BY <1>2, <1>3, FS_Subset
  <1> QED
    BY <1>1, <1>2, <1>4 DEF Contexts

(* The counter can never exceed the number of contexts. *)
LEMMA CountBounded ==
  ASSUME ActiveAccounting
  PROVE  active_tx_urbs \in 0..MaxTxUrbs
  <1>1. CountedSet \in SUBSET Contexts /\ active_tx_urbs = Cardinality(CountedSet)
    BY DEF CountedSet, ActiveAccounting
  <1>2. Cardinality(CountedSet) <= MaxTxUrbs /\ Cardinality(CountedSet) \in Nat
    BY <1>1, ContextsFinite, FS_Subset, FS_CardinalityType
  <1> QED
    BY <1>1, <1>2, TxAssumption

LEMMA TxInvInit == ASSUME Idle, up \in BOOLEAN, stopped \in BOOLEAN PROVE TxInv
  <1>1. Shape
    BY ContextsFinite, TxAssumption DEF Idle, Shape, Nobody, Frames, Transfers
  <1>2. CountedSet = {}
    BY DEF Idle, CountedSet, Counted, InTransfer
  <1>3. ActiveAccounting
    <2>1. {i \in Contexts : Counted(i)} = {} /\ active_tx_urbs = 0
      BY <1>2 DEF CountedSet, Idle
    <2> QED
      BY <2>1, FS_EmptySet DEF ActiveAccounting
  <1>4. ContextExclusive /\ Marked
    BY DEF Idle, ContextExclusive, Marked, InTransfer, XmitHas, CompleteHas
  <1>5. EchoSlotFree /\ EchoFollows /\ FramesLeft
    BY DEF Idle, EchoSlotFree, EchoFollows, FramesLeft
  <1> QED
    BY <1>1, <1>3, <1>4, <1>5 DEF TxInv

(***************************************************************************)
(* Types.                                                                  *)
(***************************************************************************)
LEMMA TypeStep ==
  ASSUME TxInv, [Next]_vars
  PROVE  Shape'
  <1>0. Shape /\ FramesLeft
    BY DEF TxInv
  <1>a. /\ MaxTxUrbs \in Nat /\ MaxFrames \in Nat
        /\ \A i \in Contexts : i + 1 \in 0..MaxTxUrbs
        /\ 0 \in Contexts
    BY TxAssumption, ContextsFinite
  <1>1. CASE XmitBegin \/ XmitDrop \/ Scan \/ XmitBusy
    BY <1>0, <1>a, <1>1 DEF XmitBegin, XmitDrop, Scan, XmitBusy, Shape, FramesLeft,
         contextVars, deviceVars, doneVars, xmitVars
  <1>2. CASE Mark
    <2>1. echo_index' \in [Contexts -> 0..MaxTxUrbs] /\ frames' \in 0..MaxFrames
      BY <1>0, <1>a, <1>2 DEF Mark, Shape, FramesLeft
    <2> QED
      BY <1>0, <1>2, <2>1 DEF Mark, Shape, deviceVars, doneVars
  <1>3. CASE PutEcho
    <2>1. echo_skb' \in [Contexts -> Frames \cup {Nobody}]
      BY <1>0, <1>3 DEF PutEcho, Shape, FramesLeft
    <2> QED
      BY <1>0, <1>3, <2>1 DEF PutEcho, Shape, deviceVars, doneVars
  <1>4. CASE CountUp \/ Check \/ StopQueue
    <2>1. /\ active_tx_urbs' \in Int /\ stopped' \in BOOLEAN
          /\ xpc' \in {"idle", "submit", "stop"}
          /\ UNCHANGED <<echo_index, status, echo_skb, submitted, up, present, restart,
                         frames, ctx, cpc, done>>
      <3>1. CASE CountUp
        BY <1>0, <3>1 DEF CountUp, Shape, deviceVars, doneVars
      <3>2. CASE Check
        BY <1>0, <3>2 DEF Check, Shape, contextVars, deviceVars, doneVars
      <3>3. CASE StopQueue
        BY <1>0, <3>3 DEF StopQueue, Shape, contextVars, doneVars
      <3> QED
        BY <1>4, <3>1, <3>2, <3>3
    <2> QED
      BY <1>0, <2>1 DEF Shape
  <1>5. CASE SubmitOk
    <2>1. [ctx |-> ctx, frame |-> frames] \in Transfers
      BY <1>0, <1>5 DEF SubmitOk, Shape, FramesLeft, Transfers
    <2> QED
      BY <1>0, <1>5, <2>1 DEF SubmitOk, Shape, deviceVars, doneVars
  <1>6. CASE SubmitFail
    <2>1. /\ echo_skb' \in [Contexts -> Frames \cup {Nobody}]
          /\ echo_index' \in [Contexts -> 0..MaxTxUrbs]
      BY <1>0, <1>a, <1>6 DEF SubmitFail, Shape
    <2>2. status' \in [Contexts -> {"ok", "error", "inprogress"}]
      BY <1>0, <1>6 DEF SubmitFail, Shape
    <2> QED
      BY <1>0, <1>6, <2>1, <2>2 DEF SubmitFail, Shape, deviceVars, doneVars
  <1>7. CASE Uncount
    <2>1. /\ active_tx_urbs' \in Int /\ stopped' \in BOOLEAN /\ present' \in BOOLEAN
          /\ xpc' = "idle"
          /\ UNCHANGED <<echo_index, status, echo_skb, submitted, up, restart,
                         frames, ctx, cpc, done>>
      <3>1. present' \in BOOLEAN /\ stopped' \in BOOLEAN
        <4>1. stopped \in BOOLEAN /\ up \in BOOLEAN /\ present \in BOOLEAN
          BY <1>0 DEF Shape
        <4>2. Detach \/ UNCHANGED <<present, stopped>>
          BY <1>7 DEF Uncount
        <4> QED
          BY <4>1, <4>2 DEF Detach
      <3> QED
        BY <1>0, <1>7, <3>1 DEF Uncount, Shape, doneVars
    <2> QED
      BY <1>0, <2>1 DEF Shape
  <1>8. ASSUME NEW i \in Contexts, Giveback(i) PROVE Shape'
    <2>1. done' \in [ctx : Contexts, frame : Frames \cup {Nobody}]
      BY <1>0, <1>8 DEF Giveback, Shape, Transfers
    <2>2. status' \in [Contexts -> {"ok", "error", "inprogress"}]
      BY <1>0, <1>8 DEF Giveback, Shape
    <2>3. submitted' \subseteq Transfers
      BY <1>0, <1>8 DEF Giveback, Shape
    <2> QED
      BY <1>0, <1>8, <2>1, <2>2, <2>3 DEF Giveback, Shape, deviceVars, xmitVars
  <1>9. CASE CompletionUncount \/ CompletionPresent \/ ReadStatus \/ WakeQueue
    <2>1. /\ active_tx_urbs' \in Int /\ stopped' \in BOOLEAN
          /\ cpc' \in {"idle", "present", "echo", "wake"}
          /\ UNCHANGED <<echo_index, status, echo_skb, submitted, up, present, restart,
                         frames, xpc, ctx, done>>
      <3>1. CASE CompletionUncount
        BY <1>0, <3>1 DEF CompletionUncount, Shape, deviceVars, xmitVars
      <3>2. CASE CompletionPresent
        BY <1>0, <3>2 DEF CompletionPresent, Shape, contextVars, deviceVars, xmitVars
      <3>3. CASE ReadStatus
        BY <1>0, <3>3 DEF ReadStatus, Shape, contextVars, deviceVars, xmitVars
      <3>4. CASE WakeQueue
        BY <1>0, <3>4 DEF WakeQueue, Shape, contextVars, xmitVars
      <3> QED
        BY <1>9, <3>1, <3>2, <3>3, <3>4
    <2> QED
      BY <1>0, <2>1 DEF Shape
  <1>10. CASE GetEcho
    <2>1. echo_skb' \in [Contexts -> Frames \cup {Nobody}]
      BY <1>0, <1>10 DEF GetEcho, Shape
    <2> QED
      BY <1>0, <1>10, <2>1 DEF GetEcho, Shape, deviceVars, xmitVars
  <1>11. CASE ReleaseContext
    <2>1. echo_index' \in [Contexts -> 0..MaxTxUrbs]
      BY <1>0, <1>a, <1>11 DEF ReleaseContext, Shape
    <2> QED
      BY <1>0, <1>11, <2>1 DEF ReleaseContext, Shape, deviceVars, xmitVars
  <1>12. CASE NetOpen \/ BusOff \/ WakeUp \/ RxDetach
    BY <1>0, <1>12 DEF NetOpen, BusOff, WakeUp, RxDetach, Detach, Shape, contextVars,
         doneVars, xmitVars
  <1>13. CASE NetStop \/ CanRestart
    <2>1. /\ echo_skb' \in [Contexts -> Frames \cup {Nobody}]
          /\ restart' \in {"none", "bus_off", "timer"}
          /\ stopped' \in BOOLEAN /\ up' \in BOOLEAN
          /\ UNCHANGED <<echo_index, status, active_tx_urbs, submitted, present,
                         xmitVars, doneVars>>
      BY <1>0, <1>13 DEF NetStop, CanRestart, Shape
    <2> QED
      BY <1>0, <2>1 DEF Shape, doneVars, xmitVars
  <1>14. CASE UNCHANGED vars
    BY <1>0, <1>14 DEF vars, Shape, contextVars, deviceVars, doneVars, xmitVars
  <1> QED
    BY <1>1, <1>2, <1>3, <1>4, <1>5, <1>6, <1>7, <1>8, <1>9, <1>10, <1>11, <1>12, <1>13,
       <1>14
    DEF Next, Transmission, XmitRuns, CompletionRuns

LEMMA FramesStep ==
  ASSUME TxInv, [Next]_vars
  PROVE  FramesLeft'
  <1>0. Shape /\ FramesLeft /\ MaxFrames \in Nat
    BY TxAssumption DEF TxInv
  <1>1. CASE XmitBegin \/ XmitDrop \/ Scan \/ XmitBusy
    BY <1>0, <1>1 DEF XmitBegin, XmitDrop, Scan, XmitBusy, Shape, FramesLeft
  <1>2. CASE Mark
    BY <1>0, <1>2 DEF Mark, Shape, FramesLeft, Frames
  <1>3. CASE PutEcho \/ CountUp \/ Check \/ StopQueue \/ SubmitOk \/ SubmitFail \/ Uncount
    BY <1>0, <1>3 DEF PutEcho, CountUp, Check, StopQueue, SubmitOk, SubmitFail, Uncount,
         FramesLeft
  <1>4. CASE CompletionRuns \/ (\E i \in Contexts : Giveback(i))
    BY <1>0, <1>4 DEF CompletionRuns, CompletionUncount, CompletionPresent, GetEcho,
         ReleaseContext, ReadStatus, WakeQueue, Giveback, FramesLeft, xmitVars
  <1>5. CASE NetOpen \/ NetStop \/ BusOff \/ CanRestart \/ WakeUp \/ RxDetach
    BY <1>0, <1>5 DEF NetOpen, NetStop, BusOff, CanRestart, WakeUp, RxDetach, FramesLeft,
         xmitVars
  <1>6. CASE UNCHANGED vars
    BY <1>0, <1>6 DEF vars, FramesLeft, xmitVars
  <1> QED
    BY <1>1, <1>2, <1>3, <1>4, <1>5, <1>6 DEF Next, Transmission, XmitRuns

(***************************************************************************)
(* Who holds which context.                                                *)
(***************************************************************************)
Owned == ContextExclusive /\ Marked

(* Steps that neither claim nor pass on nor release a context. *)
LEMMA OwnedFrame ==
  ASSUME TxInv, UNCHANGED <<echo_index, submitted, ctx, done>>,
         \A i \in Contexts : XmitHas(i)' => XmitHas(i),
         \A i \in Contexts : CompleteHas(i)' => CompleteHas(i),
         xpc' \in {"mark", "uncount"} => xpc \in {"mark", "uncount"}
  PROVE  Owned'
  <1>1. Owned
    BY DEF TxInv, Owned
  <1>2. \A i \in Contexts : InTransfer(i)' = InTransfer(i)
    BY DEF InTransfer
  <1> QED
    BY <1>1, <1>2 DEF Owned, ContextExclusive, Marked

LEMMA OwnedStep ==
  ASSUME TxInv, [Next]_vars
  PROVE  Owned'
  <1>0. Owned /\ Shape /\ Nobody = 0
    BY DEF TxInv, Owned, Nobody
  <1>a. \A i \in Contexts : i + 1 # 0
    BY ContextsFinite
  <1>1. CASE XmitBegin \/ XmitDrop \/ Scan \/ XmitBusy
    <2>1. UNCHANGED <<echo_index, submitted, cpc, done>>
      BY <1>1 DEF XmitBegin, XmitDrop, Scan, XmitBusy, contextVars, doneVars
    <2>2. \A i \in Contexts : /\ InTransfer(i)' = InTransfer(i) /\ ~XmitHas(i)'
                             /\ CompleteHas(i)' = CompleteHas(i)
      BY <1>1, <2>1 DEF XmitBegin, XmitDrop, Scan, XmitBusy, InTransfer, XmitHas, CompleteHas
    <2>3. xpc' \in {"mark", "uncount"} => echo_index[ctx'] = 0
      BY <1>0, <1>1 DEF XmitBegin, XmitDrop, Scan, XmitBusy, Owned, Marked
    <2> QED
      BY <1>0, <2>1, <2>2, <2>3 DEF Owned, ContextExclusive, Marked
  <1>2. CASE Mark
    <2>1. echo_index' = [echo_index EXCEPT ![ctx] = ctx + 1] /\ xpc' = "put"
          /\ UNCHANGED <<submitted, cpc, done, ctx>>
      BY <1>2 DEF Mark, doneVars
    <2>2. echo_index[ctx] = 0 /\ ctx \in Contexts
      BY <1>0, <1>2 DEF Mark, Owned, Marked, Shape
    <2>3. ~InTransfer(ctx) /\ ~CompleteHas(ctx)
      BY <1>0, <1>a, <2>2 DEF Owned, Marked
    <2>4. \A i \in Contexts : /\ InTransfer(i)' = InTransfer(i)
                             /\ CompleteHas(i)' = CompleteHas(i)
                             /\ XmitHas(i)' = (i = ctx)
      BY <2>1 DEF InTransfer, XmitHas, CompleteHas
    <2>5. \A i \in Contexts : echo_index'[i] = IF i = ctx THEN i + 1 ELSE echo_index[i]
      BY <1>0, <2>1 DEF Shape
    <2>6. Marked'
      BY <1>0, <2>1, <2>4, <2>5 DEF Owned, Marked
    <2> QED
      BY <1>0, <2>1, <2>3, <2>4, <2>6 DEF Owned, ContextExclusive
  <1>3. CASE PutEcho \/ CountUp \/ Check \/ StopQueue
    <2>1. UNCHANGED <<echo_index, submitted, ctx, done, cpc>>
      BY <1>3 DEF PutEcho, CountUp, Check, StopQueue, contextVars, doneVars
    <2> QED
      BY <1>3, <2>1, OwnedFrame
      DEF PutEcho, CountUp, Check, StopQueue, XmitHas, CompleteHas
  <1>4. CASE SubmitOk
    <2> DEFINE new == [ctx |-> ctx, frame |-> frames]
    <2>1. submitted' = submitted \cup {new} /\ xpc' = "check"
          /\ UNCHANGED <<echo_index, cpc, done, ctx>> /\ XmitHas(ctx) /\ ctx \in Contexts
      BY <1>0, <1>4 DEF SubmitOk, doneVars, XmitHas, Shape
    <2>2. \A i \in Contexts : /\ InTransfer(i)' = (InTransfer(i) \/ i = ctx)
                             /\ CompleteHas(i)' = CompleteHas(i) /\ ~XmitHas(i)'
      <3>1. new.ctx = ctx
        OBVIOUS
      <3>2. \A i \in Contexts : InTransfer(i)' = (InTransfer(i) \/ i = ctx)
        BY <2>1, <3>1, Zenon DEF InTransfer
      <3>3. \A i \in Contexts : CompleteHas(i)' = CompleteHas(i) /\ ~XmitHas(i)'
        BY <2>1 DEF XmitHas, CompleteHas
      <3> QED
        BY <3>2, <3>3
    <2>3. \A t \in submitted : t.ctx # ctx
      BY <1>0, <2>1 DEF Owned, ContextExclusive, InTransfer
    <2>4. \A t, u \in submitted' : t.ctx = u.ctx => t = u
      BY <1>0, <2>1, <2>3 DEF Owned, ContextExclusive
    <2>5. ContextExclusive'
      BY <1>0, <2>1, <2>2, <2>4 DEF Owned, ContextExclusive
    <2>6. Marked'
      BY <1>0, <2>1, <2>2 DEF Owned, Marked
    <2> QED
      BY <2>5, <2>6 DEF Owned
  <1>5. CASE SubmitFail
    <2>1. echo_index' = [echo_index EXCEPT ![ctx] = 0] /\ xpc' = "uncount"
          /\ UNCHANGED <<submitted, cpc, done, ctx>> /\ XmitHas(ctx) /\ ctx \in Contexts
      BY <1>0, <1>5 DEF SubmitFail, doneVars, XmitHas, Shape
    <2>2. \A i \in Contexts : /\ InTransfer(i)' = InTransfer(i)
                             /\ CompleteHas(i)' = CompleteHas(i) /\ ~XmitHas(i)'
      BY <2>1 DEF InTransfer, XmitHas, CompleteHas
    <2>3. ~InTransfer(ctx) /\ ~CompleteHas(ctx)
      BY <1>0, <2>1 DEF Owned, ContextExclusive
    <2>4. \A i \in Contexts : echo_index'[i] = IF i = ctx THEN 0 ELSE echo_index[i]
      BY <1>0, <2>1 DEF Shape
    <2>5. Marked'
      BY <1>0, <2>1, <2>2, <2>3, <2>4 DEF Owned, Marked
    <2> QED
      BY <1>0, <2>1, <2>2, <2>5 DEF Owned, ContextExclusive
  <1>6. CASE Uncount
    <2>1. UNCHANGED <<echo_index, submitted, ctx, done, cpc>> /\ xpc' = "idle"
      BY <1>6 DEF Uncount, doneVars
    <2> QED
      BY <2>1, OwnedFrame DEF XmitHas, CompleteHas
  <1>7. ASSUME NEW i \in Contexts, Giveback(i) PROVE Owned'
    <2>1. PICK t \in submitted : t.ctx = i /\ done' = t /\ submitted' = submitted \ {t}
      BY <1>7 DEF Giveback
    <2>2. cpc = "idle" /\ cpc' = "uncount" /\ UNCHANGED <<echo_index, xpc, ctx>>
      BY <1>7 DEF Giveback, xmitVars
    <2>3. \A u \in submitted' : u.ctx # i
      BY <1>0, <2>1 DEF Owned, ContextExclusive
    <2>4. \A k \in Contexts : /\ InTransfer(k)' = (InTransfer(k) /\ k # i)
                             /\ CompleteHas(k)' = (k = i)
                             /\ XmitHas(k)' = XmitHas(k)
      BY <2>1, <2>2, <2>3 DEF InTransfer, XmitHas, CompleteHas
    <2>5. InTransfer(i) /\ ~XmitHas(i)
      BY <1>0, <2>1 DEF InTransfer, Owned, ContextExclusive
    <2>6. Marked'
      BY <1>0, <2>2, <2>4, <2>5 DEF Owned, Marked
    <2>7. ContextExclusive'
      BY <1>0, <2>1, <2>4, <2>5 DEF Owned, ContextExclusive
    <2> QED
      BY <2>6, <2>7 DEF Owned
  <1>8. CASE CompletionUncount \/ CompletionPresent \/ GetEcho \/ ReadStatus \/ WakeQueue
    <2>1. UNCHANGED <<echo_index, submitted, xpc, ctx, done>>
      BY <1>8 DEF CompletionUncount, CompletionPresent, GetEcho, ReadStatus, WakeQueue,
           contextVars, xmitVars
    <2> QED
      BY <1>8, <2>1, OwnedFrame
      DEF CompletionUncount, CompletionPresent, GetEcho, ReadStatus, WakeQueue, XmitHas,
          CompleteHas
  <1>9. CASE ReleaseContext
    <2> DEFINE d == done.ctx
    <2>1. echo_index' = [echo_index EXCEPT ![d] = 0] /\ cpc' = "status"
          /\ UNCHANGED <<submitted, xpc, ctx, done>> /\ CompleteHas(d) /\ d \in Contexts
      BY <1>0, <1>9 DEF ReleaseContext, xmitVars, CompleteHas, Shape
    <2>2. \A i \in Contexts : /\ InTransfer(i)' = InTransfer(i)
                             /\ XmitHas(i)' = XmitHas(i) /\ ~CompleteHas(i)'
      BY <2>1 DEF InTransfer, XmitHas, CompleteHas
    <2>3. ~InTransfer(d) /\ ~XmitHas(d)
      BY <1>0, <2>1 DEF Owned, ContextExclusive
    <2>4. \A i \in Contexts : echo_index'[i] = IF i = d THEN 0 ELSE echo_index[i]
      BY <1>0, <2>1 DEF Shape
    <2>5. Marked'
      BY <1>0, <2>1, <2>2, <2>3, <2>4 DEF Owned, Marked, Shape
    <2> QED
      BY <1>0, <2>1, <2>2, <2>5 DEF Owned, ContextExclusive
  <1>10. CASE NetOpen \/ NetStop \/ BusOff \/ CanRestart \/ WakeUp \/ RxDetach
    <2>1. UNCHANGED <<echo_index, submitted, xpc, ctx, cpc, done>>
      BY <1>10 DEF NetOpen, NetStop, BusOff, CanRestart, WakeUp, RxDetach, contextVars,
           doneVars, xmitVars
    <2> QED
      BY <2>1, OwnedFrame DEF XmitHas, CompleteHas
  <1>11. CASE UNCHANGED vars
    <2>1. UNCHANGED <<echo_index, submitted, xpc, ctx, cpc, done>>
      BY <1>11 DEF vars, contextVars, doneVars, xmitVars
    <2> QED
      BY <2>1, OwnedFrame DEF XmitHas, CompleteHas
  <1> QED
    BY <1>1, <1>2, <1>3, <1>4, <1>5, <1>6, <1>7, <1>8, <1>9, <1>10, <1>11
    DEF Next, Transmission, XmitRuns, CompletionRuns

(***************************************************************************)
(* The echo slots.                                                         *)
(***************************************************************************)
Echoes == EchoSlotFree /\ EchoFollows

LEMMA EchoFrame ==
  ASSUME TxInv, UNCHANGED <<echo_index, echo_skb, submitted, done>>,
         xpc' = "put" => xpc = "put" /\ ctx' = ctx,
         xpc' \in {"count", "submit"} =>
             xpc \in {"count", "submit"} /\ ctx' = ctx /\ frames' = frames,
         cpc' \in {"uncount", "present", "echo"} => cpc \in {"uncount", "present", "echo"},
         cpc' = "release" => cpc = "release"
  PROVE  Echoes'
  BY DEF TxInv, Echoes, EchoSlotFree, EchoFollows

LEMMA EchoStep ==
  ASSUME TxInv, [Next]_vars
  PROVE  Echoes'
  <1>0. Owned /\ Shape /\ Echoes
    BY DEF TxInv, Owned, Echoes
  <1>a. \A i \in Contexts : i + 1 # 0 /\ i \in Nat /\ i + 1 - 1 = i
    BY ContextsFinite
  <1>b. \A i \in Contexts : InTransfer(i) \/ XmitHas(i) \/ CompleteHas(i)
                             => echo_index[i] = i + 1 /\ echo_index[i] # 0
    BY <1>0, <1>a DEF Owned, Marked
  <1>c. \A t \in submitted : t.ctx \in Contexts /\ InTransfer(t.ctx)
    BY <1>0 DEF Shape, Transfers, InTransfer
  <1>1. CASE XmitBegin \/ XmitDrop \/ Scan \/ XmitBusy
    BY <1>1, EchoFrame DEF XmitBegin, XmitDrop, Scan, XmitBusy, contextVars, doneVars
  <1>2. CASE Mark
    <2>1. echo_index' = [echo_index EXCEPT ![ctx] = ctx + 1] /\ xpc' = "put"
          /\ UNCHANGED <<echo_skb, submitted, cpc, done, ctx>> /\ ctx \in Contexts
      BY <1>0, <1>2 DEF Mark, doneVars, Shape
    <2>2. echo_skb[ctx] = Nobody
      BY <1>0, <1>2, <2>1 DEF Mark, Owned, Marked, Echoes, EchoFollows
    <2>3. \A i \in Contexts : echo_index'[i] = IF i = ctx THEN i + 1 ELSE echo_index[i]
      BY <1>0, <2>1 DEF Shape
    <2> QED
      BY <1>0, <1>a, <2>1, <2>2, <2>3 DEF Echoes, EchoSlotFree, EchoFollows
  <1>3. CASE PutEcho
    <2>1. echo_skb' = [echo_skb EXCEPT ![ctx] = frames] /\ xpc' = "count" /\ XmitHas(ctx)
          /\ UNCHANGED <<echo_index, submitted, cpc, done, ctx, frames>> /\ ctx \in Contexts
      BY <1>0, <1>3 DEF PutEcho, doneVars, Shape, XmitHas, Echoes, EchoSlotFree
    <2>2. \A i \in Contexts : echo_skb'[i] = IF i = ctx THEN frames ELSE echo_skb[i]
      BY <1>0, <2>1 DEF Shape
    <2>3. echo_index[ctx] # 0 /\ ~InTransfer(ctx) /\ ~CompleteHas(ctx)
      BY <1>0, <1>b, <2>1 DEF Owned, ContextExclusive
    <2>4. \A t \in submitted : t.ctx # ctx /\ t.ctx \in Contexts
      BY <1>c, <2>3
    <2>5. done.ctx \in Contexts /\ (cpc \in {"uncount", "present", "echo", "release"}
                                    => done.ctx # ctx)
      BY <1>0, <2>3 DEF CompleteHas, Shape
    <2> QED
      BY <1>0, <2>1, <2>2, <2>3, <2>4, <2>5 DEF Echoes, EchoSlotFree, EchoFollows
  <1>4. CASE CountUp \/ Check \/ StopQueue \/ Uncount
    BY <1>4, EchoFrame DEF CountUp, Check, StopQueue, Uncount, contextVars, doneVars
  <1>5. CASE SubmitOk
    <2>1. submitted' = submitted \cup {[ctx |-> ctx, frame |-> frames]}
          /\ xpc = "submit" /\ xpc' = "check"
          /\ UNCHANGED <<echo_index, echo_skb, cpc, done, ctx>>
      BY <1>5 DEF SubmitOk, doneVars
    <2> QED
      BY <1>0, <2>1 DEF Echoes, EchoSlotFree, EchoFollows
  <1>6. CASE SubmitFail
    <2>1. echo_skb' = [echo_skb EXCEPT ![ctx] = Nobody]
          /\ echo_index' = [echo_index EXCEPT ![ctx] = 0]
          /\ xpc' = "uncount" /\ ctx \in Contexts
          /\ UNCHANGED <<submitted, cpc, done, ctx>>
      BY <1>0, <1>6 DEF SubmitFail, doneVars, Shape
    <2>2. \A i \in Contexts : /\ echo_skb'[i] = IF i = ctx THEN Nobody ELSE echo_skb[i]
                             /\ echo_index'[i] = IF i = ctx THEN 0 ELSE echo_index[i]
      BY <1>0, <2>1 DEF Shape
    <2>3. done.ctx \in Contexts
      BY <1>0 DEF Shape
    <2> QED
      BY <1>0, <1>c, <2>1, <2>2, <2>3 DEF Echoes, EchoSlotFree, EchoFollows
  <1>7. ASSUME NEW i \in Contexts, Giveback(i) PROVE Echoes'
    <2>1. PICK t \in submitted : done' = t /\ submitted' = submitted \ {t}
      BY <1>7 DEF Giveback
    <2>2. cpc' = "uncount" /\ UNCHANGED <<echo_index, echo_skb, xpc, ctx, frames>>
      BY <1>7 DEF Giveback, xmitVars
    <2> QED
      BY <1>0, <2>1, <2>2 DEF Echoes, EchoSlotFree, EchoFollows
  <1>8. CASE CompletionUncount \/ CompletionPresent \/ ReadStatus \/ WakeQueue
    BY <1>8, EchoFrame
    DEF CompletionUncount, CompletionPresent, ReadStatus, WakeQueue, contextVars, xmitVars
  <1>9. CASE GetEcho
    <2> DEFINE d == done.ctx
    <2>1. d \in Contexts /\ CompleteHas(d)
      BY <1>0, <1>9 DEF GetEcho, CompleteHas, Shape
    <2>2. echo_index[d] - 1 = d
      BY <1>a, <1>b, <2>1
    <2>3. echo_skb' = [echo_skb EXCEPT ![d] = Nobody] /\ cpc' = "release"
          /\ UNCHANGED <<echo_index, submitted, xpc, ctx, frames, done>>
      BY <1>9, <2>2 DEF GetEcho, xmitVars
    <2>4. \A i \in Contexts : echo_skb'[i] = IF i = d THEN Nobody ELSE echo_skb[i]
      BY <1>0, <2>3 DEF Shape
    <2>5. ctx \in Contexts
      BY <1>0 DEF Shape
    <2> QED
      BY <1>0, <1>c, <2>1, <2>3, <2>4, <2>5 DEF Echoes, EchoSlotFree, EchoFollows
  <1>10. CASE ReleaseContext
    <2> DEFINE d == done.ctx
    <2>1. echo_index' = [echo_index EXCEPT ![d] = 0] /\ cpc = "release" /\ cpc' = "status"
          /\ UNCHANGED <<echo_skb, submitted, xpc, ctx, frames, done>>
      BY <1>10 DEF ReleaseContext, xmitVars
    <2>2. echo_skb[d] = Nobody
      BY <1>0, <2>1 DEF Echoes, EchoFollows
    <2>3. \A i \in Contexts : echo_index'[i] = IF i = d THEN 0 ELSE echo_index[i]
      BY <1>0, <2>1 DEF Shape
    <2> QED
      BY <1>0, <2>1, <2>2, <2>3 DEF Echoes, EchoSlotFree, EchoFollows
  <1>11. CASE NetStop \/ CanRestart
    <2>1. echo_skb' = [i \in Contexts |-> Nobody]
          /\ UNCHANGED <<echo_index, submitted, xpc, ctx, frames, cpc, done>>
      BY <1>11 DEF NetStop, CanRestart, xmitVars, doneVars
    <2>2. ctx \in Contexts /\ done.ctx \in Contexts
      BY <1>0 DEF Shape
    <2> QED
      BY <1>c, <2>1, <2>2 DEF Echoes, EchoSlotFree, EchoFollows
  <1>12. CASE NetOpen \/ BusOff \/ WakeUp \/ RxDetach
    BY <1>12, EchoFrame DEF NetOpen, BusOff, WakeUp, RxDetach, contextVars, doneVars, xmitVars
  <1>13. CASE UNCHANGED vars
    BY <1>13, EchoFrame DEF vars, contextVars, doneVars, xmitVars
  <1> QED
    BY <1>1, <1>2, <1>3, <1>4, <1>5, <1>6, <1>7, <1>8, <1>9, <1>10, <1>11, <1>12, <1>13
    DEF Next, Transmission, XmitRuns, CompletionRuns

(***************************************************************************)
(* The counter.                                                            *)
(***************************************************************************)
(* A step that leaves the counter leaves the set it counts. *)
LEMMA CountFrame ==
  ASSUME TxInv, active_tx_urbs' = active_tx_urbs,
         \A i \in Contexts : Counted(i)' = Counted(i)
  PROVE  ActiveAccounting'
  <1>1. {i \in Contexts : Counted(i)'} = {i \in Contexts : Counted(i)}
    OBVIOUS
  <1> QED
    BY <1>1 DEF TxInv, ActiveAccounting, Contexts

(* A step that counts i up or down takes it into or out of the set. *)
LEMMA CountOne ==
  ASSUME TxInv, NEW i \in Contexts,
         \A k \in Contexts \ {i} : Counted(k)' = Counted(k),
         \/ active_tx_urbs' = active_tx_urbs + 1 /\ ~Counted(i) /\ Counted(i)'
         \/ active_tx_urbs' = active_tx_urbs - 1 /\ Counted(i) /\ ~Counted(i)'
  PROVE  ActiveAccounting'
  <1>1. active_tx_urbs = Cardinality(CountedSet)
    BY DEF TxInv, ActiveAccounting, CountedSet
  <1>2. CASE active_tx_urbs' = active_tx_urbs + 1 /\ ~Counted(i) /\ Counted(i)'
    <2>1. {k \in Contexts : Counted(k)'} = CountedSet \cup {i} /\ i \notin CountedSet
      BY <1>2 DEF CountedSet
    <2>2. Cardinality(CountedSet \cup {i}) = Cardinality(CountedSet) + 1
      BY <2>1, ContextsFinite, FS_AddElement
    <2> QED
      BY <1>1, <1>2, <2>1, <2>2 DEF ActiveAccounting, Contexts
  <1>3. CASE active_tx_urbs' = active_tx_urbs - 1 /\ Counted(i) /\ ~Counted(i)'
    <2>1. {k \in Contexts : Counted(k)'} = CountedSet \ {i} /\ i \in CountedSet
      BY <1>3 DEF CountedSet
    <2>2. Cardinality(CountedSet \ {i}) = Cardinality(CountedSet) - 1
      BY <2>1, ContextsFinite, FS_RemoveElement
    <2> QED
      BY <1>1, <1>3, <2>1, <2>2 DEF ActiveAccounting, Contexts
  <1> QED
    BY <1>2, <1>3

LEMMA CountStep ==
  ASSUME TxInv, [Next]_vars
  PROVE  ActiveAccounting'
  <1>0. Owned /\ Shape
    BY DEF TxInv, Owned
  <1>a. \A i \in Contexts : i + 1 # 0
    BY ContextsFinite
  <1>1. CASE XmitBegin \/ XmitDrop \/ Scan \/ XmitBusy \/ Mark \/ PutEcho \/ Check
             \/ StopQueue
    <2>1. UNCHANGED <<active_tx_urbs, submitted, cpc, done>>
          /\ xpc \notin {"submit", "uncount"} /\ xpc' \notin {"submit", "uncount"}
      BY <1>1 DEF XmitBegin, XmitDrop, Scan, XmitBusy, Mark, PutEcho, Check, StopQueue,
           contextVars, doneVars
    <2>2. \A i \in Contexts : Counted(i)' = Counted(i)
      BY <2>1 DEF Counted, InTransfer
    <2> QED
      BY <2>1, <2>2, CountFrame
  <1>2. CASE CountUp
    <2>1. active_tx_urbs' = active_tx_urbs + 1 /\ xpc = "count" /\ xpc' = "submit"
          /\ UNCHANGED <<submitted, cpc, done, ctx>> /\ ctx \in Contexts /\ XmitHas(ctx)
      BY <1>0, <1>2 DEF CountUp, doneVars, Shape, XmitHas
    <2>2. ~InTransfer(ctx) /\ ~CompleteHas(ctx)
      BY <1>0, <2>1 DEF Owned, ContextExclusive
    <2>3. ~Counted(ctx)
      BY <2>1, <2>2 DEF Counted, CompleteHas
    <2>4. Counted(ctx)' /\ \A k \in Contexts \ {ctx} : Counted(k)' = Counted(k)
      BY <2>1 DEF Counted, InTransfer
    <2> QED
      BY <2>1, <2>3, <2>4, CountOne
  <1>3. CASE SubmitOk
    <2> DEFINE new == [ctx |-> ctx, frame |-> frames]
    <2>1. UNCHANGED <<active_tx_urbs, cpc, done, ctx>> /\ submitted' = submitted \cup {new}
          /\ xpc = "submit" /\ xpc' = "check"
      BY <1>3 DEF SubmitOk, doneVars
    <2>2. new.ctx = ctx
      OBVIOUS
    <2>3. \A i \in Contexts : InTransfer(i)' = (InTransfer(i) \/ i = ctx)
      BY <2>1, <2>2, Zenon DEF InTransfer
    <2>4. \A i \in Contexts : Counted(i)' = Counted(i)
      BY <2>1, <2>3 DEF Counted
    <2> QED
      BY <2>1, <2>4, CountFrame
  <1>4. CASE SubmitFail
    <2>1. UNCHANGED <<active_tx_urbs, submitted, cpc, done, ctx>>
          /\ xpc = "submit" /\ xpc' = "uncount"
      BY <1>4 DEF SubmitFail, doneVars
    <2>2. \A i \in Contexts : Counted(i)' = Counted(i)
      BY <2>1 DEF Counted, InTransfer
    <2> QED
      BY <2>1, <2>2, CountFrame
  <1>5. CASE Uncount
    <2>1. active_tx_urbs' = active_tx_urbs - 1 /\ xpc = "uncount" /\ xpc' = "idle"
          /\ UNCHANGED <<submitted, cpc, done, ctx>> /\ ctx \in Contexts
      BY <1>0, <1>5 DEF Uncount, doneVars, Shape
    <2>2. ~InTransfer(ctx) /\ ~CompleteHas(ctx)
      BY <1>0, <1>a, <2>1 DEF Owned, Marked
    <2>3. Counted(ctx) /\ ~Counted(ctx)'
      BY <2>1, <2>2 DEF Counted, CompleteHas, InTransfer
    <2>4. \A k \in Contexts \ {ctx} : Counted(k)' = Counted(k)
      BY <2>1 DEF Counted, InTransfer
    <2> QED
      BY <2>1, <2>3, <2>4, CountOne
  <1>6. ASSUME NEW i \in Contexts, Giveback(i) PROVE ActiveAccounting'
    <2>1. PICK t \in submitted : t.ctx = i /\ done' = t /\ submitted' = submitted \ {t}
      BY <1>6 DEF Giveback
    <2>2. cpc = "idle" /\ cpc' = "uncount" /\ UNCHANGED <<active_tx_urbs, xpc, ctx>>
      BY <1>6 DEF Giveback, xmitVars
    <2>3. \A k \in Contexts : InTransfer(k) = (InTransfer(k)' \/ k = i)
      BY <2>1, Zenon DEF InTransfer
    <2>4. \A k \in Contexts : Counted(k)' = Counted(k)
      BY <2>1, <2>2, <2>3 DEF Counted
    <2> QED
      BY <2>2, <2>4, CountFrame
  <1>7. CASE CompletionUncount
    <2> DEFINE d == done.ctx
    <2>1. active_tx_urbs' = active_tx_urbs - 1 /\ cpc = "uncount" /\ cpc' = "present"
          /\ UNCHANGED <<echo_index, submitted, xpc, ctx, done>> /\ d \in Contexts
      BY <1>0, <1>7 DEF CompletionUncount, xmitVars, Shape
    <2>2. CompleteHas(d)
      BY <2>1 DEF CompleteHas
    <2>3. ~InTransfer(d) /\ ~XmitHas(d) /\ echo_index[d] # 0
      BY <1>0, <1>a, <2>1, <2>2 DEF Owned, ContextExclusive, Marked
    <2>4. ~(xpc \in {"submit", "uncount"} /\ ctx = d)
      BY <1>0, <2>3 DEF XmitHas, Owned, Marked
    <2>5. Counted(d) /\ ~Counted(d)'
      BY <2>1, <2>3, <2>4 DEF Counted, InTransfer
    <2>6. \A k \in Contexts \ {d} : Counted(k)' = Counted(k)
      BY <2>1 DEF Counted, InTransfer
    <2> QED
      BY <2>1, <2>5, <2>6, CountOne
  <1>8. CASE CompletionPresent \/ GetEcho \/ ReleaseContext \/ ReadStatus \/ WakeQueue
    <2>1. UNCHANGED <<active_tx_urbs, submitted, xpc, ctx>>
          /\ cpc # "uncount" /\ cpc' # "uncount"
      BY <1>8 DEF CompletionPresent, GetEcho, ReleaseContext, ReadStatus, WakeQueue,
           contextVars, xmitVars
    <2>2. \A i \in Contexts : Counted(i)' = Counted(i)
      BY <2>1 DEF Counted, InTransfer
    <2> QED
      BY <2>1, <2>2, CountFrame
  <1>9. CASE NetOpen \/ NetStop \/ BusOff \/ CanRestart \/ WakeUp \/ RxDetach
             \/ UNCHANGED vars
    <2>1. UNCHANGED <<active_tx_urbs, submitted, xpc, ctx, cpc, done>>
      BY <1>9 DEF NetOpen, NetStop, BusOff, CanRestart, WakeUp, RxDetach, vars, contextVars,
           doneVars, xmitVars
    <2>2. \A i \in Contexts : Counted(i)' = Counted(i)
      BY <2>1 DEF Counted, InTransfer
    <2> QED
      BY <2>1, <2>2, CountFrame
  <1> QED
    BY <1>1, <1>2, <1>3, <1>4, <1>5, <1>6, <1>7, <1>8, <1>9
    DEF Next, Transmission, XmitRuns, CompletionRuns

(***************************************************************************)
(* Frames and their echoes.                                                *)
(***************************************************************************)
(* What is held anywhere are numbers of frames. *)
LEMMA FrameTypes ==
  ASSUME Shape
  PROVE  /\ frames \in Nat /\ ctx \in Contexts /\ done.ctx \in Contexts
         /\ done.frame \in Nat
         /\ \A t \in submitted : t.ctx \in Contexts /\ t.frame \in Nat /\ t.frame # Nobody
         /\ \A i \in Contexts : echo_skb[i] \in Nat
  <1>1. Frames \cup {Nobody} \subseteq Nat /\ Nobody \notin Frames /\ MaxFrames \in Nat
    BY TxAssumption DEF Frames, Nobody
  <1>2. frames \in Nat
    BY <1>1 DEF Shape
  <1>3. ctx \in Contexts /\ done.ctx \in Contexts /\ done.frame \in Nat
    BY <1>1 DEF Shape
  <1>4. \A t \in submitted : t.ctx \in Contexts /\ t.frame \in Nat /\ t.frame # Nobody
    BY <1>1 DEF Shape, Transfers
  <1>5. \A i \in Contexts : echo_skb[i] \in Nat
    BY <1>1 DEF Shape
  <1> QED
    BY <1>2, <1>3, <1>4, <1>5

(* A step that touches neither frames nor slots, and begins nothing. *)
LEMMA FrameKept ==
  ASSUME FrameOnce, UNCHANGED <<frames, submitted, echo_skb, done>>,
         Preparing' => Preparing /\ ctx' = ctx, Finishing' => Finishing
  PROVE  FrameOnce'
  <1>1. Numbered'
    BY DEF FrameOnce, Numbered, Seen
  <1>2. Unshared'
    BY DEF FrameOnce, Unshared
  <1>3. SentOnce'
    BY DEF FrameOnce, SentOnce
  <1> QED
    BY <1>1, <1>2, <1>3 DEF FrameOnce

LEMMA FrameStep ==
  ASSUME TxInv, FrameOnce, [Next]_vars
  PROVE  FrameOnce'
  <1>0. /\ Shape /\ FramesLeft /\ EchoFollows /\ Marked /\ EchoSlotFree
        /\ Numbered /\ Unshared /\ SentOnce
    BY DEF TxInv, FrameOnce
  <1>a. /\ frames \in Nat /\ ctx \in Contexts /\ done.ctx \in Contexts
        /\ done.frame \in Nat
        /\ \A t \in submitted : t.ctx \in Contexts /\ t.frame \in Nat /\ t.frame # Nobody
        /\ \A i \in Contexts : echo_skb[i] \in Nat
        /\ echo_skb \in [Contexts -> Frames \cup {Nobody}]
    BY <1>0, FrameTypes DEF Shape
  <1>1. CASE XmitBegin \/ Scan \/ XmitBusy \/ CountUp \/ Uncount \/ Check \/ StopQueue
    <2>1. /\ UNCHANGED <<frames, submitted, echo_skb, done, cpc>>
          /\ Preparing' => Preparing /\ ctx' = ctx
      BY <1>1 DEF XmitBegin, Scan, XmitBusy, CountUp, Uncount, Check, StopQueue, Preparing,
           contextVars, doneVars
    <2> QED
      BY <2>1, FrameKept DEF Finishing
  <1>2. CASE CompletionUncount \/ CompletionPresent \/ ReleaseContext \/ ReadStatus
             \/ WakeQueue
    <2>1. /\ UNCHANGED <<frames, submitted, echo_skb, done, xpc, ctx>>
          /\ Finishing' => Finishing
      BY <1>2 DEF CompletionUncount, CompletionPresent, ReleaseContext, ReadStatus, WakeQueue,
           Finishing, contextVars, xmitVars
    <2> QED
      BY <2>1, FrameKept DEF Preparing
  <1>3. CASE NetOpen \/ BusOff \/ WakeUp \/ RxDetach \/ UNCHANGED vars
    <2>1. UNCHANGED <<frames, submitted, echo_skb, done, xpc, ctx, cpc>>
      BY <1>3 DEF NetOpen, BusOff, WakeUp, RxDetach, vars, contextVars, xmitVars, doneVars
    <2> QED
      BY <2>1, FrameKept DEF Preparing, Finishing
  <1>4. CASE XmitDrop \/ Mark
    <2>1. /\ frames' = frames + 1 /\ UNCHANGED <<submitted, echo_skb, done, cpc>>
          /\ ~Preparing
      BY <1>4 DEF XmitDrop, Mark, Preparing, contextVars, doneVars
    <2>2. Numbered'
      BY <1>0, <1>a, <2>1 DEF Numbered, Seen, Preparing, Finishing
    <2>3. Unshared' /\ SentOnce'
      BY <1>0, <2>1 DEF Unshared, SentOnce, Finishing
    <2> QED
      BY <2>2, <2>3 DEF FrameOnce
  <1>5. CASE PutEcho
    <2>1. /\ echo_skb' = [echo_skb EXCEPT ![ctx] = frames] /\ xpc' = "count"
          /\ UNCHANGED <<submitted, frames, done, cpc, ctx>> /\ Preparing /\ Preparing'
      BY <1>0, <1>5 DEF PutEcho, EchoSlotFree, Preparing, doneVars
    <2>2. /\ echo_skb'[ctx] = frames
          /\ \A i \in Contexts \ {ctx} : echo_skb'[i] = echo_skb[i]
      BY <1>a, <2>1
    <2>3. Numbered'
      BY <1>0, <1>a, <2>1, <2>2 DEF Numbered, Seen, Finishing
    <2>4. Unshared'
      BY <1>0, <1>a, <2>1, <2>2 DEF Unshared, Numbered, Seen, Finishing
    <2>5. SentOnce'
      BY <1>0, <2>1 DEF SentOnce, Finishing
    <2> QED
      BY <2>3, <2>4, <2>5 DEF FrameOnce
  <1>6. CASE SubmitOk
    <2>1. /\ submitted' = submitted \cup {[ctx |-> ctx, frame |-> frames]}
          /\ UNCHANGED <<echo_skb, frames, done, cpc, ctx>> /\ Preparing /\ ~Preparing'
          /\ frames # Nobody
      BY <1>0, <1>6 DEF SubmitOk, Preparing, doneVars, FramesLeft, Frames, Nobody
    <2>2. Numbered'
      BY <1>0, <1>a, <2>1 DEF Numbered, Seen, Finishing
    <2>3. Unshared'
      BY <1>0, <1>a, <2>1 DEF Unshared, Numbered, Seen, Finishing
    <2>4. SentOnce'
      BY <1>0, <1>a, <2>1 DEF SentOnce, Numbered, Seen, Finishing
    <2> QED
      BY <2>2, <2>3, <2>4 DEF FrameOnce
  <1>7. ASSUME NEW c \in Contexts, echo_skb' = [echo_skb EXCEPT ![c] = Nobody],
               UNCHANGED <<submitted, frames, done, ctx>>,
               Preparing' => Preparing, Finishing' => Finishing
        PROVE  FrameOnce'
    <2>1. /\ echo_skb'[c] = 0
          /\ \A i \in Contexts \ {c} : echo_skb'[i] = echo_skb[i]
      BY <1>a, <1>7 DEF Nobody
    <2>2. Numbered'
      <3>1. \A i \in Contexts : echo_skb'[i] <= frames
        BY <1>0, <1>a, <2>1 DEF Numbered
      <3>2. Preparing => \A i \in Contexts : i # ctx => echo_skb'[i] < frames
        <4>1. ASSUME Preparing PROVE frames > 0
          BY <1>0, <1>a, <4>1 DEF FramesLeft, Preparing, Frames
        <4> QED
          BY <1>0, <1>a, <2>1, <4>1 DEF Numbered
      <3> QED
        BY <1>0, <1>7, <3>1, <3>2 DEF Numbered, Seen
    <2>3. Unshared'
      BY <1>0, <1>a, <1>7, <2>1 DEF Unshared, Numbered, Nobody
    <2>4. SentOnce'
      BY <1>0, <1>7 DEF SentOnce
    <2> QED
      BY <2>2, <2>3, <2>4 DEF FrameOnce
  <1>8. CASE SubmitFail
    <2>1. /\ echo_skb' = [echo_skb EXCEPT ![ctx] = Nobody]
          /\ UNCHANGED <<submitted, frames, done, ctx, cpc>> /\ ~Preparing'
      BY <1>8 DEF SubmitFail, Preparing, doneVars
    <2> QED
      BY <1>a, <1>7, <2>1 DEF Finishing
  <1>9. CASE GetEcho
    <2>1. echo_index[done.ctx] = done.ctx + 1
      <3>1. CompleteHas(done.ctx)
        BY <1>9 DEF GetEcho, CompleteHas
      <3> QED
        BY <1>0, <1>a, <3>1 DEF Marked
    <2>2. echo_index[done.ctx] - 1 = done.ctx
      BY <1>a, <2>1 DEF Contexts
    <2>3. /\ echo_skb' = [echo_skb EXCEPT ![done.ctx] = Nobody]
          /\ UNCHANGED <<submitted, frames, done, ctx, xpc>> /\ ~Finishing'
      BY <1>9, <2>2 DEF GetEcho, Finishing, xmitVars
    <2> QED
      BY <1>a, <1>7, <2>3 DEF Preparing
  <1>10. ASSUME NEW i \in Contexts, Giveback(i) PROVE FrameOnce'
    <2>1. PICK t \in submitted : done' = t /\ submitted' = submitted \ {t}
      BY <1>10 DEF Giveback
    <2>2. UNCHANGED <<echo_skb, frames, xpc, ctx>> /\ Finishing'
      BY <1>10 DEF Giveback, Finishing, xmitVars
    <2>3. Numbered'
      BY <1>0, <1>a, <2>1, <2>2 DEF Numbered, Seen, Preparing
    <2>4. Unshared'
      BY <1>0, <2>1, <2>2 DEF Unshared
    <2>5. SentOnce'
      BY <1>0, <2>1, <2>2 DEF SentOnce
    <2> QED
      BY <2>3, <2>4, <2>5 DEF FrameOnce
  <1>11. CASE NetStop \/ CanRestart
    <2>1. /\ \A i \in Contexts : echo_skb'[i] = 0
          /\ UNCHANGED <<submitted, frames, done, xpc, ctx, cpc>>
      BY <1>11 DEF NetStop, CanRestart, Nobody, xmitVars, doneVars
    <2>2. Preparing => frames > 0
      BY <1>0, <1>a DEF FramesLeft, Preparing, Frames
    <2>3. Numbered'
      BY <1>0, <1>a, <2>1, <2>2 DEF Numbered, Seen, Preparing, Finishing
    <2>4. Unshared'
      BY <1>0, <1>a, <2>1 DEF Unshared, Numbered, Finishing, Nobody
    <2>5. SentOnce'
      BY <1>0, <2>1 DEF SentOnce, Finishing
    <2> QED
      BY <2>3, <2>4, <2>5 DEF FrameOnce
  <1> QED
    BY <1>1, <1>2, <1>3, <1>4, <1>5, <1>6, <1>8, <1>9, <1>10, <1>11
    DEF Next, Transmission, XmitRuns, CompletionRuns

(***************************************************************************)
(* The refinement of TxEcho.                                               *)
(***************************************************************************)
(* Fewer contexts than there are name fewer frames than there are contexts. *)
LEMMA RoomLeft ==
  ASSUME NEW c \in Contexts, NEW D \in SUBSET (Contexts \ {c}), NEW S,
         NEW f \in [D -> S], \A s \in S : \E i \in D : f[i] = s
  PROVE  Cardinality(S) < MaxTxUrbs
  <1>1. /\ IsFiniteSet(Contexts \ {c})
        /\ Cardinality(Contexts \ {c}) = MaxTxUrbs - 1
    BY ContextsFinite, FS_RemoveElement
  <1>2. IsFiniteSet(D) /\ Cardinality(D) <= MaxTxUrbs - 1
    BY <1>1, FS_Subset
  <1>3. f \in Surjection(D, S)
    BY DEF Surjection
  <1>4. IsFiniteSet(S) /\ Cardinality(S) <= Cardinality(D)
    BY <1>2, <1>3, FS_Surjection
  <1> QED
    BY <1>2, <1>4, FS_CardinalityType, TxAssumption

LEMMA SentRoom ==
  ASSUME TxInv, xpc = "submit"
  PROVE  Cardinality(Sent) < MaxTxUrbs
  <1>1. ctx \in Contexts /\ \A t \in submitted : t.ctx \in Contexts
    BY FrameTypes DEF TxInv
  <1>2. ~InTransfer(ctx)
    BY <1>1 DEF TxInv, ContextExclusive, XmitHas
  <1> DEFINE D == {t.ctx : t \in submitted}
             f == [i \in D |-> (CHOOSE t \in submitted : t.ctx = i).frame]
  <1>3. D \in SUBSET (Contexts \ {ctx})
    BY <1>1, <1>2 DEF InTransfer
  <1>4. ASSUME NEW t \in submitted PROVE f[t.ctx] = t.frame
    <2>1. (CHOOSE u \in submitted : u.ctx = t.ctx) = t
      BY DEF TxInv, ContextExclusive
    <2> QED
      BY <2>1
  <1>5. f \in [D -> Sent]
    BY <1>4 DEF Sent
  <1>6. ASSUME NEW s \in Sent PROVE \E i \in D : f[i] = s
    <2>1. PICK t \in submitted : s = t.frame
      BY DEF Sent
    <2>2. t.ctx \in D /\ f[t.ctx] = s
      BY <1>4, <2>1
    <2> HIDE DEF D, f
    <2> QED
      BY <2>2
  <1> HIDE DEF D, f
  <1> QED
    BY <1>1, <1>3, <1>5, <1>6, RoomLeft

LEMMA KeptRoom ==
  ASSUME TxInv, xpc = "put"
  PROVE  Cardinality(Kept) < MaxTxUrbs
  <1>1. ctx \in Contexts /\ echo_skb[ctx] = Nobody
    BY DEF TxInv, Shape, EchoSlotFree
  <1> DEFINE D == {i \in Contexts : echo_skb[i] # Nobody}
             f == [i \in D |-> echo_skb[i]]
  <1>2. D \in SUBSET (Contexts \ {ctx})
    BY <1>1
  <1>3. f \in [D -> Kept]
    BY DEF Kept
  <1>4. \A s \in Kept : \E i \in D : f[i] = s
    BY DEF Kept
  <1> HIDE DEF D, f
  <1> QED
    BY <1>1, <1>2, <1>3, <1>4, RoomLeft

(* Emptying the one slot that has the echo of f takes f out and nothing else. *)
LEMMA KeptWithout ==
  ASSUME Shape, NEW c \in Contexts, NEW f, f # Nobody,
         echo_skb' = [echo_skb EXCEPT ![c] = Nobody],
         echo_skb[c] \in {Nobody, f},
         \A i \in Contexts : i # c => echo_skb[i] # f
  PROVE  Kept' = Kept \ {f}
  <1>1. /\ echo_skb'[c] = Nobody
        /\ \A i \in Contexts : i # c => echo_skb'[i] = echo_skb[i]
    BY DEF Shape
  <1>2. Kept' = {echo_skb'[i] : i \in Contexts} \ {Nobody}
    BY DEF Kept
  <1> QED
    BY <1>1, <1>2 DEF Kept

(* TxEcho counts with the operator of FiniteSets. *)
LEMMA SameCount == \A S : Echo!Cardinality(S) = Cardinality(S)
  BY DEF Cardinality, Echo!Cardinality

LEMMA EchoRefined ==
  ASSUME TxInv, FrameOnce, [Next]_vars
  PROVE  [Echo!EchoNext]_<<frames, Call, Sent, Ended, Kept, present>>
  <1>0. /\ Shape /\ FramesLeft /\ EchoFollows /\ Marked /\ EchoSlotFree
        /\ Numbered /\ Unshared /\ SentOnce
    BY DEF TxInv, FrameOnce
  <1>a. /\ frames \in Nat /\ ctx \in Contexts /\ done.ctx \in Contexts
        /\ done.frame \in Nat
        /\ \A t \in submitted : t.ctx \in Contexts /\ t.frame \in Nat /\ t.frame # Nobody
        /\ echo_skb \in [Contexts -> Frames \cup {Nobody}]
    BY <1>0, FrameTypes DEF Shape
  <1>b. Preparing => frames # Nobody
    BY <1>0 DEF FramesLeft, Preparing, Frames, Nobody
  <1>1. CASE XmitBegin \/ Scan \/ XmitBusy \/ CountUp \/ Check \/ StopQueue
    <2>1. UNCHANGED <<frames, submitted, done, cpc, echo_skb, present, Call>>
      BY <1>1 DEF XmitBegin, Scan, XmitBusy, CountUp, Check, StopQueue, Call,
           contextVars, deviceVars, doneVars
    <2> QED
      BY <2>1 DEF Sent, Ended, Kept
  <1>2. CASE CompletionUncount \/ ReleaseContext \/ ReadStatus \/ WakeQueue
    <2>1. UNCHANGED <<frames, submitted, echo_skb, present, xpc, Ended>>
      BY <1>2 DEF CompletionUncount, ReleaseContext, ReadStatus, WakeQueue, Ended,
           contextVars, deviceVars, xmitVars
    <2> QED
      BY <2>1 DEF Sent, Call, Kept
  <1>3. CASE NetOpen \/ BusOff \/ WakeUp \/ UNCHANGED vars
    <2>1. UNCHANGED <<frames, submitted, echo_skb, present, xpc, cpc, done>>
      BY <1>3 DEF NetOpen, BusOff, WakeUp, vars, contextVars, deviceVars, xmitVars, doneVars
    <2> QED
      BY <2>1 DEF Sent, Call, Ended, Kept
  <1>4. CASE XmitDrop \/ Mark
    <2>1. /\ frames' = frames + 1 /\ UNCHANGED <<submitted, echo_skb, done, cpc, present>>
          /\ Call = "none" /\ Call' \in {"claimed", "none"}
      BY <1>4 DEF XmitDrop, Mark, Call, contextVars, deviceVars, doneVars
    <2> QED
      BY <2>1 DEF Echo!EchoNext, Echo!Accept, Sent, Ended, Kept
  <1>5. CASE PutEcho
    <2>1. /\ echo_skb' = [echo_skb EXCEPT ![ctx] = frames]
          /\ UNCHANGED <<submitted, frames, done, cpc, present>> /\ xpc = "put"
          /\ Call = "claimed" /\ Call' = "kept"
      BY <1>0, <1>5 DEF PutEcho, EchoSlotFree, Call, deviceVars, doneVars
    <2>2. Kept' = Kept \cup {frames}
      <3>1. /\ echo_skb'[ctx] = frames /\ frames # Nobody /\ echo_skb[ctx] = Nobody
            /\ \A i \in Contexts : i # ctx => echo_skb'[i] = echo_skb[i]
        BY <1>0, <1>a, <1>b, <2>1 DEF Preparing, EchoSlotFree
      <3>2. Kept' = {echo_skb'[i] : i \in Contexts} \ {Nobody}
        BY DEF Kept
      <3> QED
        BY <1>a, <3>1, <3>2 DEF Kept
    <2>3. Cardinality(Kept) < MaxTxUrbs
      BY <2>1, KeptRoom
    <2> QED
      BY <2>1, <2>2, <2>3, SameCount DEF Echo!EchoNext, Echo!Keep, Sent, Ended
  <1>6. CASE SubmitOk
    <2>1. /\ submitted' = submitted \cup {[ctx |-> ctx, frame |-> frames]}
          /\ UNCHANGED <<echo_skb, frames, done, cpc, present>> /\ xpc = "submit"
          /\ Call = "kept" /\ Call' = "none"
      BY <1>6 DEF SubmitOk, Call, deviceVars, doneVars
    <2>2. Sent' = Sent \cup {frames}
      <3> DEFINE new == [ctx |-> ctx, frame |-> frames]
      <3>1. Sent' = {t.frame : t \in submitted'} /\ new.frame = frames
        BY DEF Sent
      <3>2. submitted' = submitted \cup {new}
        BY <2>1
      <3> HIDE DEF new
      <3> QED
        BY <3>1, <3>2 DEF Sent
    <2>3. Cardinality(Sent) < MaxTxUrbs
      BY <2>1, SentRoom
    <2> QED
      BY <2>1, <2>2, <2>3, SameCount DEF Echo!EchoNext, Echo!Send, Ended, Kept
  <1>7. CASE SubmitFail
    <2>1. /\ echo_skb' = [echo_skb EXCEPT ![ctx] = Nobody]
          /\ UNCHANGED <<submitted, frames, done, cpc, present>> /\ xpc = "submit"
          /\ Call = "kept" /\ Call' = "none"
      BY <1>7 DEF SubmitFail, Call, deviceVars, doneVars
    <2>2. /\ echo_skb[ctx] \in {Nobody, frames} /\ frames # Nobody
          /\ \A i \in Contexts : i # ctx => echo_skb[i] # frames
      BY <1>0, <1>a, <1>b, <2>1, FrameTypes DEF EchoFollows, Numbered, Preparing
    <2>3. Kept' = Kept \ {frames}
      BY <1>0, <1>a, <2>1, <2>2, KeptWithout
    <2> QED
      BY <2>1, <2>3 DEF Echo!EchoNext, Echo!Withdraw, Sent, Ended
  <1>8. CASE Uncount \/ RxDetach
    <2>1. /\ UNCHANGED <<submitted, frames, done, cpc, echo_skb, Call>>
          /\ present' = FALSE \/ UNCHANGED present
      BY <1>8 DEF Uncount, RxDetach, Detach, Call, contextVars, xmitVars, doneVars
    <2> QED
      BY <2>1 DEF Echo!EchoNext, Echo!Detach, Sent, Ended, Kept
  <1>9. ASSUME NEW i \in Contexts, Giveback(i)
        PROVE  [Echo!EchoNext]_<<frames, Call, Sent, Ended, Kept, present>>
    <2>1. PICK t \in submitted : done' = t /\ submitted' = submitted \ {t}
      BY <1>9 DEF Giveback
    <2>2. /\ UNCHANGED <<echo_skb, frames, xpc, present>>
          /\ cpc = "idle" /\ cpc' = "uncount"
      BY <1>9 DEF Giveback, xmitVars, deviceVars
    <2>3. Ended = Nobody /\ Ended' = t.frame /\ t.frame \in Sent
      BY <2>1, <2>2 DEF Ended, Sent
    <2>4. Sent' = Sent \ {t.frame}
      BY <1>0, <2>1 DEF Sent, SentOnce
    <2> QED
      BY <2>2, <2>3, <2>4 DEF Echo!EchoNext, Echo!End, Echo!None, Nobody, Call, Kept
  <1>10. CASE CompletionPresent
    <2>1. /\ UNCHANGED <<frames, submitted, echo_skb, present, xpc, done>>
          /\ cpc = "present" /\ cpc' = IF present THEN "echo" ELSE "idle"
      BY <1>10 DEF CompletionPresent, contextVars, deviceVars, xmitVars
    <2>2. UNCHANGED <<frames, Sent, Kept, present, Call>>
      BY <2>1 DEF Sent, Kept, Call
    <2>3. CASE present
      BY <2>1, <2>2, <2>3 DEF Ended
    <2>4. CASE ~present
      <3>1. Ended # Nobody /\ Ended' = Nobody
        BY <1>0, <2>1, <2>4 DEF Ended, Numbered, Finishing
      <3> QED
        BY <2>2, <2>4, <3>1 DEF Echo!EchoNext, Echo!Forget, Echo!None, Nobody
    <2> QED
      BY <1>0, <2>3, <2>4 DEF Shape
  <1>11. CASE GetEcho
    <2>1. echo_index[done.ctx] = done.ctx + 1
      <3>1. CompleteHas(done.ctx)
        BY <1>11 DEF GetEcho, CompleteHas
      <3> QED
        BY <1>0, <1>a, <3>1 DEF Marked
    <2>2. echo_index[done.ctx] - 1 = done.ctx
      BY <1>a, <2>1 DEF Contexts
    <2>3. /\ echo_skb' = [echo_skb EXCEPT ![done.ctx] = Nobody]
          /\ UNCHANGED <<submitted, frames, done, xpc, present>>
          /\ cpc = "echo" /\ cpc' = "release"
      BY <1>11, <2>2 DEF GetEcho, xmitVars, deviceVars
    <2>4. /\ echo_skb[done.ctx] \in {Nobody, done.frame} /\ done.frame # Nobody
          /\ \A i \in Contexts : i # done.ctx => echo_skb[i] # done.frame
      BY <1>0, <2>3 DEF EchoFollows, Unshared, Numbered, Finishing
    <2>5. Kept' = Kept \ {done.frame}
      BY <1>0, <1>a, <2>3, <2>4, KeptWithout
    <2>6. Ended = done.frame /\ Ended' = Nobody
      BY <2>3 DEF Ended
    <2> QED
      BY <2>3, <2>4, <2>5, <2>6 DEF Echo!EchoNext, Echo!LoopBack, Echo!None, Nobody, Sent, Call
  <1>12. CASE NetStop \/ CanRestart
    <2>1. /\ \A i \in Contexts : echo_skb'[i] = Nobody
          /\ UNCHANGED <<submitted, frames, done, xpc, cpc, present>>
      BY <1>12 DEF NetStop, CanRestart, xmitVars, doneVars
    <2>2. Kept' = {}
      BY <2>1 DEF Kept
    <2> QED
      BY <2>1, <2>2 DEF Echo!EchoNext, Echo!Flush, Sent, Ended, Call
  <1> QED
    BY <1>1, <1>2, <1>3, <1>4, <1>5, <1>6, <1>7, <1>8, <1>9, <1>10, <1>11, <1>12
    DEF Next, Transmission, XmitRuns, CompletionRuns

(***************************************************************************)
(* The theorems.                                                           *)
(***************************************************************************)
(* The inductive invariant of the transmit path. *)
THEOREM TxInvariant == Spec => []TxInv
  <1>1. Init => TxInv
    BY TxInvInit DEF Init
  <1>2. TxInv /\ [Next]_vars => TxInv'
    BY TypeStep, FramesStep, OwnedStep, EchoStep, CountStep DEF TxInv, Owned, Echoes
  <1> QED
    BY <1>1, <1>2, PTL DEF Spec

(* Types, and the counter of the transfers under way (active_tx_urbs) stays *)
(* between 0 and the number of contexts, however many there are.            *)
THEOREM TypesCorrect == Spec => []TypeOK
  <1>1. TxInv => TypeOK
    BY CountBounded DEF TxInv, TypeOK
  <1> QED
    BY <1>1, TxInvariant, PTL

(* active_tx_urbs is exact: the number of contexts whose transfer is under  *)
(* way.                                                                     *)
THEOREM ActiveCounts == Spec => []ActiveAccounting
  <1>1. TxInv => ActiveAccounting
    BY DEF TxInv
  <1> QED
    BY <1>1, TxInvariant, PTL

(* pcan_net_start_transmit, the endpoint and usb_write_bulk_callback never  *)
(* hold the same context.                                                   *)
THEOREM ContextsExclusive == Spec => []ContextExclusive
  <1>1. TxInv => ContextExclusive
    BY DEF TxInv
  <1> QED
    BY <1>1, TxInvariant, PTL

(* usb_write_bulk_callback loops back the frame that was sent or none.      *)
THEOREM EchoesMatch == Spec => []EchoMatches
  <1>1. ASSUME TxInv, cpc = "echo" PROVE echo_index[done.ctx] = done.ctx + 1
    <2>1. done.ctx \in Contexts /\ CompleteHas(done.ctx)
      BY <1>1 DEF TxInv, Shape, CompleteHas
    <2> QED
      BY <1>1, <2>1 DEF TxInv, Marked
  <1>2. TxInv => EchoMatches
    BY <1>1 DEF TxInv, EchoMatches, EchoFollows
  <1> QED
    BY <1>2, TxInvariant, PTL

(* A frame that can_put_echo_skb is given finds the slot of its context     *)
(* empty, whatever submission was refused or echo flushed before.           *)
THEOREM EchoSlotsFree == Spec => []EchoSlotFree
  <1>1. TxInv => EchoSlotFree
    BY DEF TxInv
  <1> QED
    BY <1>1, TxInvariant, PTL
(* The second inductive invariant: every accepted frame is in one place.    *)
THEOREM FramesOnce == Spec => []FrameOnce
  <1>1. Init => FrameOnce
    BY DEF Init, Idle, FrameOnce, Numbered, Unshared, SentOnce, Preparing, Finishing, Nobody
  <1>2. TxInv /\ FrameOnce /\ [Next]_vars => FrameOnce'
    BY FrameStep
  <1> QED
    BY <1>1, <1>2, TxInvariant, PTL DEF Spec

(* pcan_net_start_transmit and usb_write_bulk_callback implement TxEcho:    *)
(* each frame is sent at most once, and its echo is looped back at most     *)
(* once, behind its own transfer.                                           *)
THEOREM TransmitEchoes == Spec => ImplementsEcho
  <1>1. Init => Echo!EchoInit
    <2>1. ASSUME Init PROVE Kept = {} /\ Sent = {} /\ Ended = 0 /\ Call = "none"
      BY <2>1 DEF Init, Idle, Kept, Sent, Ended, Call, Nobody
    <2> QED
      BY <2>1 DEF Init, Idle, Echo!EchoInit, Echo!None
  <1>2. TxInv /\ FrameOnce /\ [Next]_vars
           => [Echo!EchoNext]_<<frames, Call, Sent, Ended, Kept, present>>
    BY EchoRefined
  <1> QED
    BY <1>1, <1>2, TxInvariant, FramesOnce, PTL
    DEF Spec, ImplementsEcho, Echo!EchoSpec, Echo!echoVars

(***************************************************************************)
(* No context is lost.                                                     *)
(***************************************************************************)
LEMMA HeldStep ==
  ASSUME TxInv, ContextsHeld, [Next]_vars
  PROVE  ContextsHeld'
  <1>0. /\ Shape /\ ctx \in Contexts /\ done.ctx \in Contexts
        /\ echo_index \in [Contexts -> 0..MaxTxUrbs]
    BY FrameTypes DEF TxInv, Shape
  <1> SUFFICES ASSUME present', NEW k \in Contexts, echo_index'[k] # 0
               PROVE  InTransfer(k)' \/ XmitHas(k)' \/ CompleteHas(k)'
    BY DEF ContextsHeld
  <1> DEFINE Held     == InTransfer(k) \/ XmitHas(k) \/ CompleteHas(k)
             HeldNext == InTransfer(k)' \/ XmitHas(k)' \/ CompleteHas(k)'
  <1>1. CASE XmitBegin \/ XmitDrop \/ Scan \/ XmitBusy \/ PutEcho \/ CountUp \/ Uncount
             \/ Check \/ StopQueue
    <2>1. /\ UNCHANGED <<echo_index, submitted, cpc, done>>
          /\ XmitHas(k) => XmitHas(k)'
          /\ present
      BY <1>0, <1>1 DEF XmitBegin, XmitDrop, Scan, XmitBusy, PutEcho, CountUp, Uncount, Check,
           StopQueue, Detach, XmitHas, contextVars, doneVars, deviceVars, Shape
    <2>2. Held
      BY <2>1 DEF ContextsHeld
    <2> QED
      BY <2>1, <2>2 DEF InTransfer, CompleteHas
  <1>2. CASE Mark
    <2>1. /\ echo_index' = [echo_index EXCEPT ![ctx] = ctx + 1]
          /\ UNCHANGED <<submitted, cpc, done, present, ctx>>
          /\ xpc = "mark" /\ xpc' = "put"
      BY <1>2 DEF Mark, doneVars, deviceVars
    <2>2. CASE k = ctx
      BY <2>1, <2>2 DEF XmitHas
    <2>3. CASE k # ctx
      <3>1. echo_index[k] # 0
        BY <1>0, <2>1, <2>3
      <3>2. Held /\ ~XmitHas(k)
        BY <2>1, <3>1 DEF ContextsHeld, XmitHas
      <3> QED
        BY <2>1, <3>2 DEF InTransfer, CompleteHas
    <2> QED
      BY <2>2, <2>3
  <1>3. CASE SubmitOk
    <2>1. /\ submitted' = submitted \cup {[ctx |-> ctx, frame |-> frames]}
          /\ UNCHANGED <<echo_index, cpc, done, present>> /\ xpc = "submit"
      BY <1>3 DEF SubmitOk, doneVars, deviceVars
    <2>2. CASE k = ctx
      <3>1. [ctx |-> ctx, frame |-> frames] \in submitted'
        BY <2>1
      <3> QED
        BY <2>2, <3>1 DEF InTransfer
    <2>3. CASE k # ctx
      <3>1. Held /\ ~XmitHas(k)
        BY <2>1, <2>3 DEF ContextsHeld, XmitHas
      <3> QED
        BY <2>1, <3>1 DEF InTransfer, CompleteHas
    <2> QED
      BY <2>2, <2>3
  <1>4. CASE SubmitFail
    <2>1. /\ echo_index' = [echo_index EXCEPT ![ctx] = 0]
          /\ UNCHANGED <<submitted, cpc, done, present, ctx>> /\ xpc = "submit"
      BY <1>4 DEF SubmitFail, doneVars, deviceVars
    <2>2. k # ctx /\ echo_index[k] # 0
      BY <1>0, <2>1
    <2>3. Held /\ ~XmitHas(k)
      BY <2>1, <2>2 DEF ContextsHeld, XmitHas
    <2> QED
      BY <2>1, <2>3 DEF InTransfer, CompleteHas
  <1>5. ASSUME NEW i \in Contexts, Giveback(i) PROVE HeldNext
    <2>1. PICK t \in submitted : t.ctx = i /\ done' = t /\ submitted' = submitted \ {t}
      BY <1>5 DEF Giveback
    <2>2. /\ UNCHANGED <<echo_index, present, xpc, ctx>>
          /\ cpc = "idle" /\ cpc' = "uncount"
      BY <1>5 DEF Giveback, xmitVars, deviceVars
    <2>3. Held /\ ~CompleteHas(k)
      BY <2>2 DEF ContextsHeld, CompleteHas
    <2>4. CASE k = i
      BY <2>1, <2>2, <2>4 DEF CompleteHas
    <2>5. CASE k # i
      BY <2>1, <2>2, <2>3, <2>5 DEF InTransfer, XmitHas
    <2> QED
      BY <2>4, <2>5
  <1>6. CASE CompletionUncount \/ CompletionPresent \/ GetEcho \/ ReadStatus \/ WakeQueue
    <2>1. /\ UNCHANGED <<echo_index, submitted, xpc, ctx, done, present>>
          /\ CompleteHas(k) => CompleteHas(k)'
      BY <1>6 DEF CompletionUncount, CompletionPresent, GetEcho, ReadStatus, WakeQueue,
           CompleteHas, contextVars, xmitVars, deviceVars
    <2>2. Held
      BY <2>1 DEF ContextsHeld
    <2> QED
      BY <2>1, <2>2 DEF InTransfer, XmitHas
  <1>7. CASE ReleaseContext
    <2>1. /\ echo_index' = [echo_index EXCEPT ![done.ctx] = 0]
          /\ UNCHANGED <<submitted, xpc, ctx, done, present>>
      BY <1>7 DEF ReleaseContext, xmitVars, deviceVars
    <2>2. k # done.ctx /\ echo_index[k] # 0
      BY <1>0, <2>1
    <2>3. Held /\ ~CompleteHas(k)
      BY <2>1, <2>2 DEF ContextsHeld, CompleteHas
    <2> QED
      BY <2>1, <2>3 DEF InTransfer, XmitHas
  <1>8. CASE NetOpen \/ NetStop \/ BusOff \/ CanRestart \/ WakeUp \/ RxDetach
             \/ UNCHANGED vars
    <2>1. UNCHANGED <<echo_index, submitted, xpc, ctx, cpc, done>> /\ present
      BY <1>8 DEF NetOpen, NetStop, BusOff, CanRestart, WakeUp, RxDetach, Detach, vars,
           contextVars, xmitVars, doneVars, deviceVars
    <2>2. Held
      BY <2>1 DEF ContextsHeld
    <2> QED
      BY <2>1, <2>2 DEF InTransfer, XmitHas, CompleteHas
  <1> QED
    BY <1>1, <1>2, <1>3, <1>4, <1>5, <1>6, <1>7, <1>8
    DEF Next, Transmission, XmitRuns, CompletionRuns

(* The safety half of ContextsReturn: a context that pcan_net_start_transmit *)
(* has taken is always in the hands of somebody who frees it, as long as    *)
(* the device is attached.                                                  *)
THEOREM ContextsNotLost == Spec => []ContextsHeld
  <1>1. Init => ContextsHeld
    BY DEF Init, Idle, ContextsHeld
  <1>2. TxInv /\ ContextsHeld /\ [Next]_vars => ContextsHeld'
    BY HeldStep
  <1> QED
    BY <1>1, <1>2, TxInvariant, PTL DEF Spec
=============================================================================
