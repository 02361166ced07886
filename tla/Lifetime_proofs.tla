-------------------------- MODULE Lifetime_proofs ---------------------------
(***************************************************************************)
(* What is proved of Lifetime, for any finite set of programs.             *)
(***************************************************************************)
EXTENDS Lifetime, FiniteSetTheorems, TLAPS

Labels     == Pending \cup Brief \cup Parked \cup {"closed", "open", "killed"}
Times      == {"on_time", "at_door", "late"}
PendingSet == {u \in Users : upc[u] \in Pending}

(* Who frees, and when: the unwinding of plug-in or, after plug-out, the    *)
(* work.                                                                    *)
FreePhases == /\ freed => dpc \in {"failed", "gone"}
              /\ work # "none" => dpc = "gone"

(* What exists at which point of plug-in and its unwinding. *)
DevicePhases ==
    /\ dpc \in {"register", "fail_free", "failed"} => net = "none"
    /\ dpc \in {"register", "chardev", "fail_net", "fail_free", "failed",
               "out_net", "out_urbs", "out_work", "gone"} => ~item
    /\ dpc \in {"register", "chardev", "rd_buf", "fail_net", "fail_free", "failed"} => ~rd_buf

(* One program at most holds the device, unless plug-in forgot an open. *)
SingleHolder == ~forgotten => \A u, v \in Users : Holds(u) /\ Holds(v) => u = v

(* From plug-out on only an open that was past its test of the count may    *)
(* raise the stage, and takes that back: no operation passes the test of    *)
(* the stage.                                                               *)
Leaving  == {"out_chardev", "out_net", "out_urbs", "out_work", "gone"}
Starting == {"cmd", "send", "undo"}
StageDown ==
    dpc \in Leaving /\ ~forgotten =>
        /\ stage <= STAGE_CONNECTED
        /\ stage <= STAGE_DISCONNECTED \/ \E u \in Users : upc[u] \in Starting

(* The door is where plug-out is over. *)
DoorPhase == \A u \in Users : began[u] = "at_door" => dpc = "gone"

LifeInv == /\ Shape /\ PendingAccounting /\ FreePhases /\ DevicePhases /\ DestroyWaits
           /\ CountCovers /\ SingleHolder /\ StageDown /\ DoorPhase /\ NewcomersRefused

(* A step of the operation of u, seen from outside: where it goes, how it   *)
(* counts itself, and whether it has begun just now, not yet counted.       *)
Moves(u, l) ==
    /\ upc' = [upc EXCEPT ![u] = l]
    /\ \/ pending_ops' = pending_ops /\ (upc[u] \in Pending <=> l \in Pending)
       \/ pending_ops' = pending_ops + 1 /\ upc[u] \notin Pending /\ l \in Pending
       \/ pending_ops' = pending_ops - 1 /\ upc[u] \in Pending /\ l \notin Pending
    /\ \/ /\ began' = [began EXCEPT ![u] = Time]
          /\ ~InOperation(u) /\ l \notin Pending
       \/ began' = began /\ (l \in Pending \cup Brief => upc[u] \in Pending \cup Brief)
    /\ stage' \in Int /\ open_count' \in Int /\ private' \in [Users -> BOOLEAN]
    /\ UNCHANGED <<deviceVars, rx_urbs, memVars>>

LEMMA UserMoves ==
  ASSUME Shape, NEW u \in Users, UserRuns(u) \/ UserStarts(u)
  PROVE  \E l \in Labels : Moves(u, l)
  <1>1. CASE OpenFind(u)
    <2>1. Moves(u, "count")
      BY <1>1 DEF OpenFind, Goto, Moves, Shape, DeviceShape, UserShape,
                     Pending, Brief, InOperation
    <2> QED
      BY <2>1 DEF Labels, Pending, Brief, Parked
  <1>2. CASE OpenCount(u)
    <2>1. CASE open_count + 1 > 1
      <3>1. Moves(u, "uncount")
        BY <1>2, <2>1
           DEF OpenCount, Goto, Moves, Shape, DeviceShape, UserShape, Pending, Brief
      <3> QED
        BY <3>1 DEF Labels, Pending, Brief, Parked
    <2>2. CASE ~(open_count + 1 > 1)
      <3>1. Moves(u, "reset")
        BY <1>2, <2>2
           DEF OpenCount, Goto, Moves, Shape, DeviceShape, UserShape, Pending, Brief
      <3> QED
        BY <3>1 DEF Labels, Pending, Brief, Parked
    <2> QED
      BY <2>1, <2>2
  <1>3. CASE OpenTooMany(u)
    <2>1. Moves(u, "closed")
      BY <1>3 DEF OpenTooMany, Goto, Moves, Shape, DeviceShape, UserShape, Pending, Brief
    <2> QED
      BY <2>1 DEF Labels, Pending, Brief, Parked
  <1>4. CASE OpenReset(u)
    <2>1. Moves(u, "stage") \/ Moves(u, "killed")
      BY <1>4 DEF OpenReset, Goto, Moves, Shape, DeviceShape, UserShape, Pending, Brief
    <2> QED
      BY <2>1 DEF Labels, Pending, Brief, Parked
  <1>5. CASE OpenStage(u)
    <2>1. CASE stage + 1 > STAGE_ONE_STARTED
      <3>1. Moves(u, "open")
        BY <1>5, <2>1
           DEF OpenStage, Goto, Moves, Shape, DeviceShape, UserShape, Pending, Brief
      <3> QED
        BY <3>1 DEF Labels, Pending, Brief, Parked
    <2>2. CASE ~(stage + 1 > STAGE_ONE_STARTED)
      <3>1. Moves(u, "cmd")
        BY <1>5, <2>2
           DEF OpenStage, Goto, Moves, Shape, DeviceShape, UserShape, Pending, Brief
      <3> QED
        BY <3>1 DEF Labels, Pending, Brief, Parked
    <2> QED
      BY <2>1, <2>2
  <1>6. CASE OpenCommand(u)
    <2>1. Moves(u, "send") \/ Moves(u, "undo")
      BY <1>6
         DEF OpenCommand, Command, Goto, Moves, Shape, DeviceShape, UserShape, Pending,
             Brief
    <2> QED
      BY <2>1 DEF Labels, Pending, Brief, Parked
  <1>7. CASE OpenSent(u)
    <2>1. Moves(u, "open") \/ Moves(u, "undo")
      BY <1>7 DEF OpenSent, Goto, Moves, Shape, DeviceShape, UserShape, Pending, Brief
    <2> QED
      BY <2>1 DEF Labels, Pending, Brief, Parked
  <1>8. CASE OpenUndo(u)
    <2>1. Moves(u, "closed")
      BY <1>8 DEF OpenUndo, Goto, Moves, Shape, DeviceShape, UserShape, Pending, Brief
    <2> QED
      BY <2>1 DEF Labels, Pending, Brief, Parked
  <1>9. CASE Call(u)
    <2>1. Moves(u, "precheck")
      BY <1>9 DEF Call, Goto, Moves, Shape, DeviceShape, UserShape,
                     Pending, Brief, InOperation
    <2> QED
      BY <2>1 DEF Labels, Pending, Brief, Parked
  <1>10. CASE Precheck(u)
    <2>1. Moves(u, "inc") \/ Moves(u, "poll") \/ Moves(u, "open")
      BY <1>10 DEF Precheck, Goto, Moves, Shape, DeviceShape, UserShape, Pending, Brief
    <2> QED
      BY <2>1 DEF Labels, Pending, Brief, Parked
  <1>11. CASE Increment(u)
    <2>1. Moves(u, "wait")
      BY <1>11 DEF Increment, Goto, Moves, Shape, DeviceShape, UserShape, Pending, Brief
    <2> QED
      BY <2>1 DEF Labels, Pending, Brief, Parked
  <1>12. CASE Wait(u)
    <2>1. Moves(u, "dec") \/ Moves(u, "copy") \/ Moves(u, "asleep")
      BY <1>12 DEF Wait, Goto, Moves, Shape, DeviceShape, UserShape, Pending, Brief
    <2> QED
      BY <2>1 DEF Labels, Pending, Brief, Parked
  <1>13. CASE Wakened(u)
    <2>1. Moves(u, "wait") \/ Moves(u, "dec")
      BY <1>13 DEF Wakened, Goto, Moves, Shape, DeviceShape, UserShape, Pending, Brief
    <2> QED
      BY <2>1 DEF Labels, Pending, Brief, Parked
  <1>14. CASE Copy(u)
    <2>1. Moves(u, "dec")
      BY <1>14 DEF Copy, Goto, Moves, Shape, DeviceShape, UserShape, Pending, Brief
    <2> QED
      BY <2>1 DEF Labels, Pending, Brief, Parked
  <1>15. CASE Decrement(u)
    <2>1. Moves(u, "open")
      BY <1>15 DEF Decrement, Goto, Moves, Shape, DeviceShape, UserShape, Pending, Brief
    <2> QED
      BY <2>1 DEF Labels, Pending, Brief, Parked
  <1>16. CASE ReleaseFind(u)
    <2>1. Moves(u, "rcount") \/ Moves(u, "closed")
      BY <1>16 DEF ReleaseFind, Goto, Moves, Shape, DeviceShape, UserShape,
                     Pending, Brief, InOperation
    <2> QED
      BY <2>1 DEF Labels, Pending, Brief, Parked
  <1>17. CASE ReleaseCount(u)
    <2>1. Moves(u, "rstage")
      BY <1>17 DEF ReleaseCount, Goto, Moves, Shape, DeviceShape, UserShape, Pending, Brief
    <2> QED
      BY <2>1 DEF Labels, Pending, Brief, Parked
  <1>18. CASE ReleaseStage(u)
    <2>1. CASE stage - 1 < STAGE_ONE_STARTED
      <3>1. Moves(u, "rcmd")
        BY <1>18, <2>1
           DEF ReleaseStage, Goto, Moves, Shape, DeviceShape, UserShape, Pending, Brief
      <3> QED
        BY <3>1 DEF Labels, Pending, Brief, Parked
    <2>2. CASE ~(stage - 1 < STAGE_ONE_STARTED)
      <3>1. Moves(u, "closed")
        BY <1>18, <2>2
           DEF ReleaseStage, Goto, Moves, Shape, DeviceShape, UserShape, Pending, Brief
      <3> QED
        BY <3>1 DEF Labels, Pending, Brief, Parked
    <2> QED
      BY <2>1, <2>2
  <1>19. CASE ReleaseCommand(u)
    <2>1. Moves(u, "rsend") \/ Moves(u, "closed")
      BY <1>19
         DEF ReleaseCommand, Command, Goto, Moves, Shape, DeviceShape, UserShape, Pending,
             Brief
    <2> QED
      BY <2>1 DEF Labels, Pending, Brief, Parked
  <1>20. CASE ReleaseSent(u)
    <2>1. Moves(u, "closed")
      BY <1>20 DEF ReleaseSent, Goto, Moves, Shape, DeviceShape, UserShape, Pending, Brief
    <2> QED
      BY <2>1 DEF Labels, Pending, Brief, Parked
  <1>21. CASE PollRegister(u)
    <2>1. Moves(u, "polled") \/ Moves(u, "open")
      BY <1>21 DEF PollRegister, Goto, Moves, Shape, DeviceShape, UserShape, Pending, Brief
    <2> QED
      BY <2>1 DEF Labels, Pending, Brief, Parked
  <1>22. CASE PollEnds(u)
    <2>1. private' \in [Users -> BOOLEAN]
      BY <1>22 DEF PollEnds, Shape, UserShape
    <2>2. Moves(u, "open")
      BY <1>22, <2>1 DEF PollEnds, Goto, Moves, Shape, DeviceShape, UserShape, Pending, Brief
    <2> QED
      BY <2>2 DEF Labels, Pending, Brief, Parked
  <1> QED
    BY <1>1, <1>2, <1>3, <1>4, <1>5, <1>6, <1>7, <1>8, <1>9, <1>10, <1>11, <1>12, <1>13,
       <1>14, <1>15, <1>16, <1>17, <1>18, <1>19, <1>20, <1>21, <1>22
       DEF UserRuns, UserStarts

(* Every other step leaves the operations where they are, but for the work  *)
(* that wakes the sleepers.                                                 *)
Elsewhere == /\ UNCHANGED <<pending_ops, private, began>>
             /\ \/ upc' = upc
                \/ upc' = [u \in Users |-> IF upc[u] = "asleep" THEN "wait" ELSE upc[u]]

DeviceNext == PlugRuns \/ Unplug \/ WorkRuns \/ NetOpen \/ NetStop \/ RxLost

LEMMA DeviceElsewhere == ASSUME DeviceNext PROVE Elsewhere
  <1>1. CASE PlugRuns
    BY <1>1 DEF PlugRuns, RegisterNet, MakeItem, AllocRdBuf, AllocUrbs, PluginCommand,
                FinalizeChardev, UnregisterNet, UnlinkUrbs, ScheduleWork, FreeUnwound,
                userVars, Elsewhere
  <1>2. CASE Unplug \/ NetOpen \/ NetStop \/ RxLost
    BY <1>2 DEF Unplug, NetOpen, NetStop, RxLost, userVars, Elsewhere
  <1>3. CASE WorkRuns
    BY <1>3 DEF WorkRuns, WorkAgain, WorkCheck, WorkFree, userVars, Elsewhere
  <1> QED
    BY <1>1, <1>2, <1>3 DEF DeviceNext

LEMMA Steps ==
  ASSUME Shape, [Next]_vars
  PROVE  \/ DeviceNext
         \/ \E u \in Users : \E l \in Labels : Moves(u, l)
         \/ UNCHANGED vars
  BY UserMoves DEF Next, DeviceNext

(***************************************************************************)
(* Types and phases.                                                       *)
(***************************************************************************)
LEMMA TypeStep == ASSUME Shape, [Next]_vars PROVE Shape'
  <1>1. ASSUME NEW u \in Users, NEW l \in Labels, Moves(u, l) PROVE Shape'
    <2>0. Time \in Times
      BY DEF Time, Times
    <2>1. upc' \in [Users -> Labels] /\ began' \in [Users -> Times]
      BY <1>1, <2>0 DEF Moves, Shape, DeviceShape, UserShape, Labels, Times
    <2>2. pending_ops' \in Int
      BY <1>1 DEF Moves, Shape, DeviceShape, UserShape
    <2> QED
      BY <1>1, <2>1, <2>2
         DEF Moves, Shape, DeviceShape, UserShape, Labels, Times, deviceVars, memVars
  <1>2. CASE DeviceNext
    <2>1. UserShape'
      <3>1. "wait" \in Labels
        BY DEF Labels, Pending
      <3> QED
        BY <1>2, <3>1, DeviceElsewhere DEF Elsewhere, Shape, UserShape, Labels
    <2>a. CASE AllocRdBuf
      <3>1. stage' \in Int /\ open_count' \in Int /\ rx_urbs' \in 0..MaxRxUrbs
        BY <2>a DEF AllocRdBuf, Shape, DeviceShape
      <3>2. net' = net /\ tx_urbs' = tx_urbs /\ work' = work /\ freed' = freed
        BY <2>a DEF AllocRdBuf
      <3>3. dpc' \in {"urbs", "fail_net"} /\ forgotten' \in BOOLEAN
        BY <2>a DEF AllocRdBuf, Device
      <3>4. item' \in BOOLEAN /\ rd_buf' \in BOOLEAN
        BY <2>a DEF AllocRdBuf, Shape, DeviceShape
      <3> QED
        BY <2>1, <3>1, <3>2, <3>3, <3>4 DEF Shape, DeviceShape
    <2>2. CASE (PlugRuns \/ Unplug) /\ ~AllocRdBuf
      <3>1. (stage \in Int /\ open_count \in Int /\ rx_urbs \in 0..MaxRxUrbs)'
        BY <2>2, LifeAssumption
           DEF Shape, DeviceShape, STAGE_DISCONNECTED, PlugRuns, Device, RegisterNet,
               MakeItem, AllocUrbs, PluginCommand, FinalizeChardev, UnregisterNet,
               UnlinkUrbs, ScheduleWork, FreeUnwound, Unplug, memVars
      <3>2. (item \in BOOLEAN /\ rd_buf \in BOOLEAN /\ tx_urbs \in BOOLEAN /\ freed \in BOOLEAN
            /\ forgotten \in BOOLEAN)'
        BY <2>2 DEF Shape, DeviceShape, PlugRuns, Device, RegisterNet, MakeItem,
               AllocUrbs, PluginCommand, FinalizeChardev, UnregisterNet, UnlinkUrbs,
               ScheduleWork, FreeUnwound, Unplug, memVars
      <3>3. (net \in {"none", "registered", "up"} /\ work \in {"none", "waiting", "checked"})'
        BY <2>2 DEF Shape, DeviceShape, PlugRuns, Device, RegisterNet, MakeItem,
               AllocUrbs, PluginCommand, FinalizeChardev, UnregisterNet, UnlinkUrbs,
               ScheduleWork, FreeUnwound, Unplug, memVars
      <3>4. dpc' \in {"register", "chardev", "rd_buf", "urbs", "info", "bus_off", "plugged",
                      "fail_chardev", "fail_net", "fail_free", "failed",
                      "out_chardev", "out_net", "out_urbs", "out_work", "gone"}
        BY <2>2 DEF PlugRuns, Device, RegisterNet, MakeItem,
               AllocUrbs, PluginCommand, FinalizeChardev, UnregisterNet, UnlinkUrbs,
               ScheduleWork, FreeUnwound, Unplug, memVars
      <3> QED
        BY <2>1, <3>1, <3>2, <3>3, <3>4 DEF Shape, DeviceShape
    <2>3. CASE WorkRuns
      <3>1. stage' \in Int /\ work' \in {"none", "waiting", "checked"}
        BY <2>3 DEF Shape, DeviceShape, WorkRuns, WorkAgain, WorkCheck, WorkFree,
                    STAGE_DISCONNECTED
      <3>2. freed' \in BOOLEAN /\ forgotten' \in BOOLEAN
        BY <2>3 DEF Shape, DeviceShape, WorkRuns, WorkAgain, WorkCheck, WorkFree
      <3>3. UNCHANGED <<open_count, dpc, net, item, rd_buf, tx_urbs, rx_urbs>>
        BY <2>3 DEF WorkRuns, WorkAgain, WorkCheck, WorkFree, deviceVars
      <3> QED
        BY <2>1, <3>1, <3>2, <3>3 DEF Shape, DeviceShape
    <2>4. CASE NetOpen \/ NetStop \/ RxLost
      <3>1. DeviceShape'
        BY <2>4, LifeAssumption
           DEF Shape, DeviceShape, NetOpen, NetStop, RxLost, deviceVars, memVars
      <3> QED
        BY <2>1, <3>1 DEF Shape
    <2> QED
      BY <1>2, <2>a, <2>2, <2>3, <2>4 DEF DeviceNext
  <1>3. CASE UNCHANGED vars
    BY <1>3 DEF Shape, DeviceShape, UserShape, vars, deviceVars, memVars, userVars
  <1> QED
    BY <1>1, <1>2, <1>3, Steps

LEMMA PhaseStep ==
  ASSUME LifeInv, [Next]_vars
  PROVE  FreePhases' /\ DevicePhases'
  <1>0. Shape /\ FreePhases /\ DevicePhases
    BY DEF LifeInv
  <1>1. ASSUME NEW u \in Users, NEW l \in Labels, Moves(u, l)
        PROVE  FreePhases' /\ DevicePhases'
    BY <1>0, <1>1 DEF Moves, deviceVars, memVars, FreePhases, DevicePhases
  <1>a. CASE AllocRdBuf
    <2>1. net' = net /\ work' = work /\ freed' = freed
      BY <1>a DEF AllocRdBuf
    <2>2. dpc = "rd_buf" /\ \/ dpc' = "urbs"
                            \/ dpc' = "fail_net" /\ ~item' /\ rd_buf' = rd_buf
      BY <1>a DEF AllocRdBuf, Device
    <2> QED
      BY <1>0, <2>1, <2>2 DEF FreePhases, DevicePhases
  <1>2. CASE (PlugRuns \/ Unplug) /\ ~AllocRdBuf
    BY <1>0, <1>2
       DEF FreePhases, DevicePhases, Shape, DeviceShape, PlugRuns, Device, RegisterNet,
           MakeItem, AllocUrbs, PluginCommand, FinalizeChardev, UnregisterNet,
           UnlinkUrbs, ScheduleWork, FreeUnwound, Unplug, memVars
  <1>3. CASE WorkRuns
    BY <1>0, <1>3 DEF FreePhases, DevicePhases, WorkRuns, WorkAgain, WorkCheck, WorkFree,
                      deviceVars
  <1>4. CASE NetOpen \/ NetStop \/ RxLost
    BY <1>0, <1>4
       DEF FreePhases, DevicePhases, NetOpen, NetStop, RxLost, deviceVars, memVars
  <1>5. CASE UNCHANGED vars
    BY <1>0, <1>5 DEF FreePhases, DevicePhases, vars, deviceVars, memVars
  <1> QED
    BY <1>0, <1>1, <1>a, <1>2, <1>3, <1>4, <1>5, Steps DEF DeviceNext

(***************************************************************************)
(* The counter.                                                            *)
(***************************************************************************)
LEMMA PendingFinite == IsFiniteSet(PendingSet) /\ Cardinality(PendingSet) \in Nat
  <1>1. PendingSet \in SUBSET Users
    BY DEF PendingSet
  <1> QED
    BY <1>1, LifeAssumption, FS_Subset, FS_CardinalityType

LEMMA CountStep ==
  ASSUME LifeInv, [Next]_vars
  PROVE  PendingAccounting'
  <1>0. Shape /\ pending_ops = Cardinality(PendingSet)
    BY DEF LifeInv, PendingAccounting, PendingSet
  <1>a. ASSUME PendingSet' = PendingSet, pending_ops' = pending_ops PROVE PendingAccounting'
    BY <1>0, <1>a DEF PendingAccounting, PendingSet
  <1>1. ASSUME NEW u \in Users, NEW l \in Labels, Moves(u, l) PROVE PendingAccounting'
    <2>0. upc' = [upc EXCEPT ![u] = l] /\ upc \in [Users -> Labels]
      BY <1>0, <1>1 DEF Moves, Shape, DeviceShape, UserShape, Labels
    <2>1. CASE pending_ops' = pending_ops /\ (upc[u] \in Pending <=> l \in Pending)
      <3>1. PendingSet' = PendingSet
        BY <2>0, <2>1 DEF PendingSet
      <3> QED
        BY <2>1, <3>1, <1>a
    <2>2. CASE pending_ops' = pending_ops + 1 /\ upc[u] \notin Pending /\ l \in Pending
      <3>1. PendingSet' = PendingSet \cup {u} /\ u \notin PendingSet
        BY <2>0, <2>2 DEF PendingSet
      <3>2. Cardinality(PendingSet \cup {u}) = Cardinality(PendingSet) + 1
        BY <3>1, PendingFinite, FS_AddElement
      <3> QED
        BY <1>0, <2>2, <3>1, <3>2 DEF PendingAccounting, PendingSet
    <2>3. CASE pending_ops' = pending_ops - 1 /\ upc[u] \in Pending /\ l \notin Pending
      <3>1. PendingSet' = PendingSet \ {u} /\ u \in PendingSet
        BY <2>0, <2>3 DEF PendingSet
      <3>2. Cardinality(PendingSet \ {u}) = Cardinality(PendingSet) - 1
        BY <3>1, PendingFinite, FS_RemoveElement
      <3> QED
        BY <1>0, <2>3, <3>1, <3>2 DEF PendingAccounting, PendingSet
    <2> QED
      BY <1>1, <2>1, <2>2, <2>3 DEF Moves
  <1>2. CASE DeviceNext
    <2>1. Elsewhere
      BY <1>2, DeviceElsewhere
    <2>2. PendingSet' = PendingSet
      BY <2>1 DEF Elsewhere, PendingSet, Pending
    <2> QED
      BY <2>1, <2>2, <1>a DEF Elsewhere
  <1>3. CASE UNCHANGED vars
    BY <1>3, <1>a DEF vars, userVars, PendingSet
  <1> QED
    BY <1>0, <1>1, <1>2, <1>3, Steps

(***************************************************************************)
(* The free.                                                               *)
(***************************************************************************)

(* With the counter at zero nobody is counted, and after 500 ms nobody who  *)
(* began on time is about to count itself.                                  *)
LEMMA NobodyInOperation ==
  ASSUME LifeInv, pending_ops <= 0, Undisturbed
  PROVE  \A u \in Users : upc[u] \notin Pending /\ (InOperation(u) => began[u] # "on_time")
  <1>1. Cardinality(PendingSet) = 0
    BY PendingFinite DEF LifeInv, PendingAccounting, PendingSet
  <1>2. PendingSet = {}
    BY <1>1, PendingFinite, FS_EmptySet
  <1> QED
    BY <1>2 DEF PendingSet, Undisturbed, InOperation

LEMMA FreeStep ==
  ASSUME LifeInv, [Next]_vars
  PROVE  DestroyWaits'
  <1>0. Shape /\ FreePhases /\ DestroyWaits
    BY DEF LifeInv
  <1>1. ASSUME NEW u \in Users, NEW l \in Labels, Moves(u, l) PROVE DestroyWaits'
    <2>1. SUFFICES ASSUME freed, dpc = "gone", NEW k \in Users, InOperation(k)'
                   PROVE  began'[k] # "on_time"
      BY <1>1 DEF DestroyWaits, Moves, deviceVars, memVars
    <2>2. upc' = [upc EXCEPT ![u] = l] /\ upc \in [Users -> Labels]
          /\ began \in [Users -> Times]
      BY <1>0, <1>1 DEF Moves, Shape, DeviceShape, UserShape, Labels, Times
    <2>3. InOperation(k) => began[k] # "on_time"
      BY <1>0, <2>1 DEF DestroyWaits
    <2>4. CASE began' = [began EXCEPT ![u] = Time]
      BY <2>1, <2>2, <2>3, <2>4 DEF InOperation, Time
    <2>5. CASE began' = began /\ (l \in Pending \cup Brief => upc[u] \in Pending \cup Brief)
      BY <2>1, <2>2, <2>3, <2>5 DEF InOperation
    <2> QED
      BY <1>1, <2>4, <2>5 DEF Moves
  <1>2. CASE WorkFree
    <2>1. \A u \in Users : InOperation(u) => began[u] # "on_time"
      BY <1>2, NobodyInOperation DEF WorkFree
    <2> QED
      BY <1>2, <2>1 DEF WorkFree, userVars, DestroyWaits, InOperation
  <1>3. CASE DeviceNext /\ ~WorkFree
    <2>1. Elsewhere
      BY <1>3, DeviceElsewhere
    <2>2. freed' /\ dpc' = "gone" => freed /\ dpc = "gone"
      BY <1>0, <1>3
         DEF DeviceNext, FreePhases, PlugRuns, Device, RegisterNet, MakeItem, AllocRdBuf,
             AllocUrbs, PluginCommand, FinalizeChardev, UnregisterNet, UnlinkUrbs,
             ScheduleWork, FreeUnwound, Unplug, WorkRuns, WorkAgain, WorkCheck, NetOpen,
             NetStop, RxLost, deviceVars, memVars
    <2>3. \A u \in Users : InOperation(u)' => InOperation(u)
      BY <2>1 DEF Elsewhere, InOperation, Pending, Brief
    <2> QED
      BY <1>0, <2>1, <2>2, <2>3 DEF DestroyWaits, Elsewhere
  <1>4. CASE UNCHANGED vars
    BY <1>0, <1>4 DEF DestroyWaits, InOperation, vars, deviceVars, memVars, userVars
  <1> QED
    BY <1>0, <1>1, <1>2, <1>3, <1>4, Steps

(***************************************************************************)
(* The one holder.                                                         *)
(***************************************************************************)
CountedSet == {u \in Users : Counted(u)}

(* A step of the operation of u, seen by open_count: it comes in by the     *)
(* increment, and past the test only if it found zero; it goes out by the   *)
(* decrement, or left over by the plug-out without one.                     *)
Occupies(u) ==
    /\ \A v \in Users \ {u} : upc'[v] = upc[v]
    /\ \/ /\ open_count' = open_count + 1 /\ ~Counted(u)
          /\ upc'[u] \in InForce => open_count <= 0
       \/ open_count' = open_count - 1 /\ Counted(u) /\ upc'[u] \notin CountedAt
       \/ /\ open_count' = open_count
          /\ upc'[u] \in CountedAt => Counted(u)
          /\ upc'[u] \in InForce => Holds(u)
    /\ forgotten' = forgotten

LEMMA UserOccupies ==
  ASSUME Shape, NEW u \in Users, UserRuns(u) \/ UserStarts(u)
  PROVE  Occupies(u)
  <1>0. upc \in [Users -> Labels] /\ open_count \in Int
    BY DEF Shape, DeviceShape, UserShape, Labels
  <1>1. CASE OpenFind(u)
    BY <1>0, <1>1 DEF OpenFind, Goto, Occupies, Holds, Counted, InForce, CountedAt, memVars
  <1>2. CASE OpenCount(u)
    BY <1>0, <1>2 DEF OpenCount, Goto, Occupies, Holds, Counted, InForce, CountedAt, memVars
  <1>3. CASE OpenTooMany(u)
    BY <1>0, <1>3 DEF OpenTooMany, Goto, Occupies, Holds, Counted, InForce, CountedAt, memVars
  <1>4. CASE OpenReset(u)
    BY <1>0, <1>4 DEF OpenReset, Goto, Occupies, Holds, Counted, InForce, CountedAt, memVars
  <1>5. CASE OpenStage(u)
    BY <1>0, <1>5 DEF OpenStage, Goto, Occupies, Holds, Counted, InForce, CountedAt, memVars
  <1>6. CASE OpenCommand(u)
    BY <1>0, <1>6 DEF OpenCommand, Command, Goto, Occupies, Holds, Counted, InForce, CountedAt, memVars
  <1>7. CASE OpenSent(u)
    BY <1>0, <1>7 DEF OpenSent, Goto, Occupies, Holds, Counted, InForce, CountedAt, memVars
  <1>8. CASE OpenUndo(u)
    BY <1>0, <1>8 DEF OpenUndo, Goto, Occupies, Holds, Counted, InForce, CountedAt, memVars
  <1>9. CASE Call(u)
    BY <1>0, <1>9 DEF Call, Goto, Occupies, Holds, Counted, InForce, CountedAt, memVars
  <1>10. CASE Precheck(u)
    BY <1>0, <1>10 DEF Precheck, Goto, Occupies, Holds, Counted, InForce, CountedAt, memVars
  <1>11. CASE Increment(u)
    BY <1>0, <1>11 DEF Increment, Goto, Occupies, Holds, Counted, InForce, CountedAt, memVars
  <1>12. CASE Wait(u)
    BY <1>0, <1>12 DEF Wait, Goto, Occupies, Holds, Counted, InForce, CountedAt, memVars
  <1>13. CASE Wakened(u)
    BY <1>0, <1>13 DEF Wakened, Goto, Occupies, Holds, Counted, InForce, CountedAt, memVars
  <1>14. CASE Copy(u)
    BY <1>0, <1>14 DEF Copy, Goto, Occupies, Holds, Counted, InForce, CountedAt, memVars
  <1>15. CASE Decrement(u)
    BY <1>0, <1>15 DEF Decrement, Goto, Occupies, Holds, Counted, InForce, CountedAt, memVars
  <1>16. CASE ReleaseFind(u)
    BY <1>0, <1>16 DEF ReleaseFind, Goto, Occupies, Holds, Counted, InForce, CountedAt, memVars
  <1>17. CASE ReleaseCount(u)
    BY <1>0, <1>17 DEF ReleaseCount, Goto, Occupies, Holds, Counted, InForce, CountedAt, memVars
  <1>18. CASE ReleaseStage(u)
    BY <1>0, <1>18 DEF ReleaseStage, Goto, Occupies, Holds, Counted, InForce, CountedAt, memVars
  <1>19. CASE ReleaseCommand(u)
    BY <1>0, <1>19 DEF ReleaseCommand, Command, Goto, Occupies, Holds, Counted, InForce, CountedAt, memVars
  <1>20. CASE ReleaseSent(u)
    BY <1>0, <1>20 DEF ReleaseSent, Goto, Occupies, Holds, Counted, InForce, CountedAt, memVars
  <1>21. CASE PollRegister(u)
    BY <1>0, <1>21 DEF PollRegister, Goto, Occupies, Holds, Counted, InForce, CountedAt, memVars
  <1>22. CASE PollEnds(u)
    BY <1>0, <1>22 DEF PollEnds, Goto, Occupies, Holds, Counted, InForce, CountedAt, memVars
  <1> QED
    BY <1>1, <1>2, <1>3, <1>4, <1>5, <1>6, <1>7, <1>8, <1>9, <1>10,
       <1>11, <1>12, <1>13, <1>14, <1>15, <1>16, <1>17, <1>18, <1>19, <1>20,
       <1>21, <1>22 DEF UserRuns, UserStarts

LEMMA CountedFinite ==
  /\ IsFiniteSet(CountedSet)
  /\ Cardinality(CountedSet) \in Nat
  /\ Cardinality(CountedSet) = 0 => \A u \in Users : ~Holds(u)
  <1>1. CountedSet \in SUBSET Users
    BY DEF CountedSet
  <1>2. IsFiniteSet(CountedSet) /\ Cardinality(CountedSet) \in Nat
    BY <1>1, LifeAssumption, FS_Subset, FS_CardinalityType
  <1>3. CountedSet = {} => \A u \in Users : ~Holds(u)
    BY DEF CountedSet, Counted, Holds, CountedAt
  <1> QED
    BY <1>2, <1>3, FS_EmptySet

LEMMA HolderStep ==
  ASSUME LifeInv, [Next]_vars
  PROVE  CountCovers' /\ SingleHolder'
  <1>0. /\ open_count \in Int
        /\ ~forgotten => open_count >= Cardinality(CountedSet)
        /\ ~forgotten => \A u, v \in Users : Holds(u) /\ Holds(v) => u = v
    BY DEF LifeInv, Shape, DeviceShape, CountCovers, SingleHolder, CountedSet
  <1>1. ASSUME NEW u \in Users, Occupies(u) PROVE CountCovers' /\ SingleHolder'
    <2>1. CASE /\ open_count' = open_count + 1 /\ ~Counted(u)
               /\ upc'[u] \in InForce => open_count <= 0
      <3>1. CountedSet' \subseteq CountedSet \cup {u} /\ u \notin CountedSet
        BY <1>1, <2>1 DEF Occupies, CountedSet, Counted
      <3>2. /\ IsFiniteSet(CountedSet \cup {u})
            /\ Cardinality(CountedSet \cup {u}) = Cardinality(CountedSet) + 1
        BY <3>1, CountedFinite, FS_AddElement
      <3>3. Cardinality(CountedSet') <= Cardinality(CountedSet \cup {u})
            /\ Cardinality(CountedSet') \in Nat
        BY <3>1, <3>2, FS_Subset, FS_CardinalityType
      <3>4. CountCovers'
        BY <1>0, <1>1, <2>1, <3>2, <3>3, CountedFinite DEF Occupies, CountCovers, CountedSet
      <3>5. ~forgotten /\ upc'[u] \in InForce => \A v \in Users : ~Holds(v)
        BY <1>0, <2>1, CountedFinite
      <3>6. \A v \in Users : Holds(v)' => Holds(v) \/ (v = u /\ upc'[u] \in InForce)
        BY <1>1 DEF Occupies, Holds
      <3> QED
        BY <1>0, <1>1, <3>4, <3>5, <3>6 DEF Occupies, SingleHolder
    <2>2. CASE open_count' = open_count - 1 /\ Counted(u) /\ upc'[u] \notin CountedAt
      <3>1. CountedSet' = CountedSet \ {u} /\ u \in CountedSet
        BY <1>1, <2>2 DEF Occupies, CountedSet, Counted
      <3>2. Cardinality(CountedSet') = Cardinality(CountedSet) - 1
        BY <3>1, CountedFinite, FS_RemoveElement
      <3>a. forgotten' = forgotten
        BY <1>1 DEF Occupies
      <3>b. ~forgotten' => open_count' >= Cardinality(CountedSet')
        BY <1>0, <2>2, <3>2, <3>a, CountedFinite
      <3>3. CountCovers'
        BY <3>b DEF CountCovers, CountedSet
      <3>4. \A v \in Users : Holds(v)' => Holds(v)
        BY <1>1, <2>2 DEF Occupies, Holds, CountedAt
      <3> QED
        BY <1>0, <1>1, <3>3, <3>4 DEF Occupies, SingleHolder
    <2>3. CASE /\ open_count' = open_count
               /\ upc'[u] \in CountedAt => Counted(u)
               /\ upc'[u] \in InForce => Holds(u)
      <3>1. CountedSet' \subseteq CountedSet
        BY <1>1, <2>3 DEF Occupies, CountedSet, Counted
      <3>2. Cardinality(CountedSet') <= Cardinality(CountedSet)
            /\ Cardinality(CountedSet') \in Nat
        BY <3>1, CountedFinite, FS_Subset, FS_CardinalityType
      <3>3. CountCovers'
        BY <1>0, <1>1, <2>3, <3>2, CountedFinite DEF Occupies, CountCovers, CountedSet
      <3>4. \A v \in Users : Holds(v)' => Holds(v)
        BY <1>1, <2>3 DEF Occupies, Holds
      <3> QED
        BY <1>0, <1>1, <3>3, <3>4 DEF Occupies, SingleHolder
    <2> QED
      BY <1>1, <2>1, <2>2, <2>3 DEF Occupies
  <1>2. ASSUME open_count' = open_count, forgotten' = forgotten,
               \A u \in Users : (Counted(u)' <=> Counted(u)) /\ (Holds(u)' <=> Holds(u))
        PROVE  CountCovers' /\ SingleHolder'
    <2>1. CountedSet' = CountedSet
      BY <1>2 DEF CountedSet
    <2> QED
      BY <1>0, <1>2, <2>1 DEF CountCovers, SingleHolder, CountedSet
  <1>3. CASE AllocRdBuf
    <2>1. upc' = upc /\ open_count' = 0 /\ forgotten' = (\E u \in Users : Counted(u))
      BY <1>3 DEF AllocRdBuf, userVars
    <2>2. ~forgotten' => CountedSet' = {} /\ \A u \in Users : ~Holds(u)'
      BY <2>1 DEF CountedSet, Counted, Holds, CountedAt
    <2>3. CountCovers'
      BY <2>1, <2>2, FS_EmptySet DEF CountCovers, CountedSet
    <2> QED
      BY <2>2, <2>3 DEF SingleHolder
  <1>4. CASE DeviceNext /\ ~AllocRdBuf
    <2>1. open_count' = open_count /\ forgotten' = forgotten
      BY <1>4 DEF DeviceNext, PlugRuns, RegisterNet, MakeItem, AllocUrbs, PluginCommand,
                  FinalizeChardev, UnregisterNet, UnlinkUrbs, ScheduleWork, FreeUnwound,
                  Unplug, WorkRuns, WorkAgain, WorkCheck, WorkFree, NetOpen, NetStop, RxLost,
                  memVars
    <2>2. \A u \in Users : (Counted(u)' <=> Counted(u)) /\ (Holds(u)' <=> Holds(u))
      BY <1>4, DeviceElsewhere DEF Elsewhere, Counted, Holds, CountedAt, InForce
    <2> QED
      BY <1>2, <2>1, <2>2
  <1>5. CASE UNCHANGED vars
    BY <1>2, <1>5 DEF vars, memVars, userVars, Counted, Holds
  <1> QED
    BY <1>1, <1>3, <1>4, <1>5, UserOccupies DEF Next, DeviceNext, LifeInv

(***************************************************************************)
(* The newcomers.                                                          *)
(***************************************************************************)

(* A step of the operation of u, seen by the stage: raised by an open that  *)
(* goes on to its commands, lowered, or kept, by an open past its test only *)
(* with the adapter there or further on.                                    *)
StageMoves(u) ==
    \/ upc[u] = "stage" /\ stage' = stage + 1 /\ (stage <= STAGE_CONNECTED => upc'[u] = "cmd")
    \/ stage' = stage - 1
    \/ stage' = stage /\ (upc[u] \in Starting => Attached \/ upc'[u] \in Starting)

(* And seen from the door: it comes in, is refused or passes the test of    *)
(* the stage, or is past that already.                                      *)
Passes(u) ==
    \/ began'[u] = Time /\ (item \/ upc'[u] \in {"precheck", "closed"})
    \/ began'[u] = began[u] /\ upc[u] = "precheck"
       /\ (upc'[u] = "open" \/ freed \/ stage >= STAGE_ONE_STARTED)
    \/ began'[u] = began[u] /\ upc[u] # "precheck"
       /\ (upc'[u] \in Pending \cup Brief => upc[u] \in Pending \cup Brief)

Proceeds(u) == /\ \A v \in Users \ {u} : upc'[v] = upc[v] /\ began'[v] = began[v]
               /\ StageMoves(u) /\ Passes(u)
               /\ UNCHANGED <<dpc, freed, forgotten>>

LEMMA UserProceeds ==
  ASSUME Shape, NEW u \in Users, UserRuns(u) \/ UserStarts(u)
  PROVE  Proceeds(u)
  <1>0. upc \in [Users -> Labels] /\ began \in [Users -> Times] /\ stage \in Int
    BY DEF Shape, DeviceShape, UserShape, Labels, Times
  <1> USE DEF Proceeds, StageMoves, Passes, Goto, memVars, deviceVars, Starting, Pending, Brief
  <1>1. CASE OpenFind(u)
    BY <1>0, <1>1 DEF OpenFind
  <1>2. CASE OpenCount(u)
    BY <1>0, <1>2 DEF OpenCount
  <1>3. CASE OpenTooMany(u)
    BY <1>0, <1>3 DEF OpenTooMany
  <1>4. CASE OpenReset(u)
    BY <1>0, <1>4 DEF OpenReset
  <1>5. CASE OpenStage(u)
    BY <1>0, <1>5 DEF OpenStage, STAGE_ONE_STARTED, STAGE_CONNECTED
  <1>6. CASE OpenCommand(u)
    BY <1>0, <1>6 DEF OpenCommand, Command
  <1>7. CASE OpenSent(u)
    BY <1>0, <1>7 DEF OpenSent
  <1>8. CASE OpenUndo(u)
    BY <1>0, <1>8 DEF OpenUndo
  <1>9. CASE Call(u)
    BY <1>0, <1>9 DEF Call
  <1>10. CASE Precheck(u)
    BY <1>0, <1>10 DEF Precheck, StageSeen, STAGE_ONE_STARTED
  <1>11. CASE Increment(u)
    BY <1>0, <1>11 DEF Increment
  <1>12. CASE Wait(u)
    BY <1>0, <1>12 DEF Wait
  <1>13. CASE Wakened(u)
    BY <1>0, <1>13 DEF Wakened
  <1>14. CASE Copy(u)
    BY <1>0, <1>14 DEF Copy
  <1>15. CASE Decrement(u)
    BY <1>0, <1>15 DEF Decrement
  <1>16. CASE ReleaseFind(u)
    BY <1>0, <1>16 DEF ReleaseFind
  <1>17. CASE ReleaseCount(u)
    BY <1>0, <1>17 DEF ReleaseCount
  <1>18. CASE ReleaseStage(u)
    BY <1>0, <1>18 DEF ReleaseStage
  <1>19. CASE ReleaseCommand(u)
    BY <1>0, <1>19 DEF ReleaseCommand, Command
  <1>20. CASE ReleaseSent(u)
    BY <1>0, <1>20 DEF ReleaseSent
  <1>21. CASE PollRegister(u)
    BY <1>0, <1>21 DEF PollRegister
  <1>22. CASE PollEnds(u)
    BY <1>0, <1>22 DEF PollEnds
  <1> QED
    BY <1>1, <1>2, <1>3, <1>4, <1>5, <1>6, <1>7, <1>8, <1>9, <1>10, <1>11,
       <1>12, <1>13, <1>14, <1>15, <1>16, <1>17, <1>18, <1>19, <1>20, <1>21, <1>22
       DEF UserRuns, UserStarts

LEMMA DoorStep ==
  ASSUME LifeInv, [Next]_vars
  PROVE  StageDown' /\ DoorPhase' /\ NewcomersRefused'
  <1>0. /\ Shape /\ DevicePhases /\ SingleHolder /\ StageDown /\ DoorPhase /\ NewcomersRefused
        /\ stage \in Int
    BY DEF LifeInv, Shape, DeviceShape
  <1>1. ASSUME NEW u \in Users, Proceeds(u)
        PROVE  StageDown' /\ DoorPhase' /\ NewcomersRefused'
    <2>0. dpc' = dpc /\ freed' = freed /\ forgotten' = forgotten
      BY <1>1 DEF Proceeds
    <2>1. StageDown'
      <3>0. SUFFICES ASSUME dpc \in Leaving, ~forgotten
                     PROVE  /\ stage' <= STAGE_CONNECTED
                            /\ \/ stage' <= STAGE_DISCONNECTED
                               \/ \E v \in Users : upc'[v] \in Starting
        BY <2>0 DEF StageDown
      <3>1. /\ stage <= STAGE_CONNECTED
            /\ stage <= STAGE_DISCONNECTED \/ \E v \in Users : upc[v] \in Starting
        BY <1>0, <3>0 DEF StageDown
      <3>2. ~Attached
        BY <3>0 DEF Leaving, Attached
      <3>3. CASE upc[u] = "stage" /\ stage' = stage + 1
                 /\ (stage <= STAGE_CONNECTED => upc'[u] = "cmd")
        <4>1. \A v \in Users : upc[v] \notin Starting
          BY <1>0, <3>0, <3>3 DEF SingleHolder, Holds, InForce, Starting
        <4>2. upc'[u] \in Starting
          BY <3>1, <3>3 DEF Starting
        <4> QED
          BY <1>0, <3>1, <3>3, <4>1, <4>2 DEF STAGE_DISCONNECTED, STAGE_CONNECTED
      <3>4. CASE stage' = stage - 1
        BY <1>0, <3>1, <3>4 DEF STAGE_DISCONNECTED, STAGE_CONNECTED
      <3>5. CASE stage' = stage /\ (upc[u] \in Starting => Attached \/ upc'[u] \in Starting)
        BY <1>1, <3>1, <3>2, <3>5 DEF Proceeds
      <3> QED
        BY <1>1, <3>3, <3>4, <3>5 DEF Proceeds, StageMoves
    <2>2. DoorPhase'
      BY <1>0, <1>1, <2>0 DEF Proceeds, Passes, DoorPhase, Time
    <2>3. NewcomersRefused'
      <3>0. SUFFICES ASSUME ~freed, ~forgotten, NEW v \in Users,
                            began'[v] = "at_door", upc'[v] \in Pending \cup Brief
                     PROVE  upc'[v] = "precheck"
        BY <2>0 DEF NewcomersRefused, InOperation
      <3>1. began[v] = "at_door" /\ upc[v] \in Pending \cup Brief => upc[v] = "precheck"
        BY <1>0, <3>0 DEF NewcomersRefused, InOperation
      <3>2. dpc = "gone"
        BY <2>0, <2>2, <3>0 DEF DoorPhase
      <3>3. stage <= STAGE_CONNECTED /\ ~item
        BY <1>0, <3>0, <3>2 DEF StageDown, Leaving, DevicePhases
      <3>4. CASE v # u
        BY <1>1, <3>0, <3>1, <3>4 DEF Proceeds
      <3>5. CASE v = u
        <4>1. ~(stage >= STAGE_ONE_STARTED)
          BY <1>0, <3>3 DEF STAGE_CONNECTED, STAGE_ONE_STARTED
        <4>2. "open" \notin Pending \cup Brief /\ "closed" \notin Pending \cup Brief
          BY DEF Pending, Brief
        <4> QED
          BY <1>1, <3>0, <3>1, <3>3, <3>5, <4>1, <4>2 DEF Proceeds, Passes
      <3> QED
        BY <3>4, <3>5
    <2> QED
      BY <2>1, <2>2, <2>3
  <1>2. ASSUME Elsewhere, dpc' = dpc \/ dpc # "gone",
               ~freed' => ~freed, ~forgotten' => ~forgotten \/ dpc = "rd_buf"
        PROVE  DoorPhase' /\ NewcomersRefused'
    <2>1. DoorPhase'
      BY <1>0, <1>2 DEF Elsewhere, DoorPhase
    <2>2. NewcomersRefused'
      BY <1>0, <1>2 DEF Elsewhere, DoorPhase, NewcomersRefused, InOperation, Pending, Brief
    <2> QED
      BY <2>1, <2>2
  <1>3. CASE AllocRdBuf
    <2>1. dpc = "rd_buf" /\ dpc' \in {"urbs", "fail_net"} /\ freed' = freed
      BY <1>3 DEF AllocRdBuf, Device
    <2>2. DoorPhase' /\ NewcomersRefused'
      BY <1>2, <1>3, <2>1, DeviceElsewhere DEF DeviceNext, PlugRuns
    <2> QED
      BY <2>1, <2>2 DEF StageDown, Leaving
  <1>4. CASE DeviceNext /\ ~AllocRdBuf
    <2>1. Elsewhere
      BY <1>4, DeviceElsewhere
    <2>2. dpc' = dpc \/ dpc # "gone"
      BY <1>4 DEF DeviceNext, PlugRuns, Device, RegisterNet, MakeItem, AllocUrbs, PluginCommand,
           FinalizeChardev, UnregisterNet, UnlinkUrbs, ScheduleWork, FreeUnwound, Unplug,
           WorkRuns, WorkAgain, WorkCheck, WorkFree, NetOpen, NetStop, RxLost, deviceVars
    <2>3. (~freed' => ~freed) /\ forgotten' = forgotten
      BY <1>4 DEF DeviceNext, PlugRuns, RegisterNet, MakeItem, AllocUrbs, PluginCommand,
           FinalizeChardev, UnregisterNet, UnlinkUrbs, ScheduleWork, FreeUnwound, Unplug,
           WorkRuns, WorkAgain, WorkCheck, WorkFree, NetOpen, NetStop, RxLost, memVars
    <2>4. \/ dpc' \notin Leaving
          \/ stage' = STAGE_DISCONNECTED
          \/ dpc \in Leaving /\ stage' \in {stage, stage - 1}
      BY <1>0, <1>4 DEF DeviceNext, PlugRuns, Device, RegisterNet, MakeItem, AllocUrbs,
           PluginCommand, FinalizeChardev, UnregisterNet, UnlinkUrbs, ScheduleWork, FreeUnwound,
           Unplug, WorkRuns, WorkAgain, WorkCheck, WorkFree, NetOpen, NetStop, RxLost,
           deviceVars, Leaving, Attached
    <2>5. \A u \in Users : upc[u] \in Starting => upc'[u] \in Starting
      BY <2>1 DEF Elsewhere, Starting
    <2>6. StageDown'
      BY <1>0, <2>3, <2>4, <2>5 DEF StageDown, STAGE_DISCONNECTED, STAGE_CONNECTED
    <2> QED
      BY <1>2, <2>1, <2>2, <2>3, <2>6
  <1>5. CASE UNCHANGED vars
    BY <1>0, <1>5 DEF StageDown, DoorPhase, NewcomersRefused, InOperation, vars, deviceVars,
         memVars, userVars
  <1> QED
    BY <1>0, <1>1, <1>3, <1>4, <1>5, UserProceeds DEF Next, DeviceNext

LEMMA LifeInit == ASSUME Init PROVE LifeInv
  <1>1. Shape
    <2>1. DeviceShape
      <3>1. stage \in Int /\ open_count \in Int /\ rx_urbs \in 0..MaxRxUrbs
        BY LifeAssumption DEF Init, STAGE_CONNECTED
      <3>2. /\ item \in BOOLEAN /\ rd_buf \in BOOLEAN /\ tx_urbs \in BOOLEAN
            /\ freed \in BOOLEAN /\ forgotten \in BOOLEAN
        BY DEF Init
      <3> QED
        BY <3>1, <3>2 DEF Init, DeviceShape
    <2>2. UserShape
      BY DEF Init, UserShape
    <2> QED
      BY <2>1, <2>2 DEF Shape
  <1>2. PendingAccounting
    <2>1. {u \in Users : upc[u] \in Pending} = {} /\ pending_ops = 0
      BY DEF Init, Pending
    <2> QED
      BY <2>1, FS_EmptySet DEF PendingAccounting
  <1>3. FreePhases /\ DevicePhases /\ DestroyWaits
    BY DEF Init, FreePhases, DevicePhases, DestroyWaits
  <1>5. StageDown /\ DoorPhase /\ NewcomersRefused
    BY DEF Init, StageDown, Leaving, DoorPhase, NewcomersRefused
  <1>4. CountCovers /\ SingleHolder
    <2>1. CountedSet = {} /\ open_count = 0 /\ \A u \in Users : ~Holds(u)
      BY DEF Init, CountedSet, Counted, Holds, CountedAt, InForce
    <2> QED
      BY <2>1, FS_EmptySet DEF CountCovers, SingleHolder, CountedSet
  <1> QED
    BY <1>1, <1>2, <1>3, <1>4, <1>5 DEF LifeInv

(***************************************************************************)
(* The refinement of Custody.                                              *)
(***************************************************************************)
Inside   == {u \in Users : OnTime(u)}
Door     == {u \in Users : AtDoor(u)}
Counting == {u \in Users : (OnTime(u) \/ AtDoor(u)) /\ upc[u] \in Pending}

CustodyStep == [Keeping!CustodyNext]_<<Phase, Inside, Door, Counting>>

(* Only u comes or goes. *)
LEMMA OneMoves ==
  ASSUME Shape, NEW u \in Users, NEW l \in Labels, Moves(u, l)
  PROVE  /\ Phase' = Phase
         /\ Inside' \ {u} = Inside \ {u}
         /\ Door' \ {u} = Door \ {u}
         /\ Counting' \ {u} = Counting \ {u}
         /\ upc'[u] = l
  <1>1. /\ upc \in [Users -> Labels] /\ began \in [Users -> Times]
        /\ upc' = [upc EXCEPT ![u] = l] /\ freed' = freed
    BY DEF Shape, DeviceShape, UserShape, Labels, Times, Moves, memVars
  <1>2. \A v \in Users \ {u} : upc'[v] = upc[v] /\ began'[v] = began[v]
    BY <1>1 DEF Moves
  <1>3. Phase' = Phase
    BY DEF Moves, Phase, deviceVars, memVars
  <1> QED
    BY <1>1, <1>2, <1>3 DEF Inside, Door, Counting, OnTime, AtDoor, InOperation

(* The operation of one program: in, counted, uncounted, out. *)
LEMMA MovesRefine ==
  ASSUME Shape, FreePhases, NEW u \in Users, NEW l \in Labels, Moves(u, l)
  PROVE  CustodyStep
  <1>1. /\ began \in [Users -> Times] /\ freed \in BOOLEAN /\ freed' = freed
        /\ Phase' = Phase /\ upc'[u] = l
    BY OneMoves DEF Shape, DeviceShape, UserShape, Times, Moves, memVars
  <1>2. /\ Inside' \ {u} = Inside \ {u}
        /\ Door' \ {u} = Door \ {u}
        /\ Counting' \ {u} = Counting \ {u}
    BY OneMoves
  <1>3. /\ Counting \subseteq Inside \cup Door /\ Counting' \subseteq Inside' \cup Door'
        /\ Inside \cap Door = {}
    BY DEF Inside, Door, Counting, OnTime, AtDoor
  <1>5. CASE began' = [began EXCEPT ![u] = Time] /\ ~InOperation(u) /\ l \notin Pending
    <2>1. u \notin Inside \cup Door /\ u \notin Counting'
      BY <1>1, <1>5 DEF Inside, Door, Counting, OnTime, AtDoor
    <2>2. Counting' = Counting
      BY <1>2, <1>3, <2>1
    <2>3. began'[u] = Time
      BY <1>1, <1>5
    <2>4. CASE u \in Inside'
      <3>1. Phase \in {"plugging", "alive", "leaving"} /\ u \notin Door'
        BY <2>3, <2>4 DEF Inside, Door, OnTime, AtDoor, Time, Phase
      <3>2. Inside' = Inside \cup {u} /\ Door' = Door
        BY <1>2, <2>1, <2>4, <3>1
      <3>3. Keeping!Enter(u)
        BY <1>1, <2>1, <2>2, <3>1, <3>2 DEF Keeping!Enter, Inside, Door, Counting
      <3> QED
        BY <3>3 DEF CustodyStep, Keeping!CustodyNext
    <2>5. CASE u \in Door'
      <3>1. Phase = "waiting" /\ u \notin Inside'
        BY <2>3, <2>5, <1>1 DEF Inside, Door, OnTime, AtDoor, Time, Phase
      <3>2. Door' = Door \cup {u} /\ Inside' = Inside
        BY <1>2, <2>1, <2>5, <3>1
      <3>3. Keeping!Knock(u)
        BY <1>1, <2>1, <2>2, <3>1, <3>2 DEF Keeping!Knock, Inside, Door, Counting
      <3> QED
        BY <3>3 DEF CustodyStep, Keeping!CustodyNext
    <2>6. CASE u \notin Inside' \cup Door'
      <3>1. Inside' = Inside /\ Door' = Door
        BY <1>2, <2>1, <2>6
      <3> QED
        BY <1>1, <2>2, <3>1 DEF CustodyStep
    <2> QED
      BY <2>4, <2>5, <2>6
  <1>6. CASE began' = began /\ (l \in Pending \cup Brief => upc[u] \in Pending \cup Brief)
    <2>1. (u \in Inside' => u \in Inside) /\ (u \in Door' => u \in Door)
      BY <1>1, <1>6 DEF Inside, Door, OnTime, AtDoor, InOperation
    <2>a. u \in Inside => u \in Inside' \/ u \notin Inside' \cup Door'
      BY <1>1, <1>6 DEF Inside, Door, OnTime, AtDoor
    <2>2. CASE u \notin Inside \cup Door
      <3>1. Inside' = Inside /\ Door' = Door /\ Counting' = Counting
        BY <1>2, <1>3, <2>1, <2>2
      <3> QED
        BY <1>1, <3>1 DEF CustodyStep
    <2>3. CASE u \in Inside \cup Door
      <3>1. \/ u \in Inside' \cup Door' /\ Inside' = Inside /\ Door' = Door
            \/ u \notin Inside' \cup Door' /\ Inside' = Inside \ {u} /\ Door' = Door \ {u}
        BY <1>2, <1>3, <2>1, <2>a, <2>3
      <3>2. CASE u \in Counting /\ u \notin Counting'
        <4>1. Counting' = Counting \ {u}
          BY <1>2, <3>2
        <4>2. Keeping!Uncount(u)
          BY <1>1, <3>1, <3>2, <4>1
             DEF Keeping!Uncount, Keeping!Stay, Keeping!GoOut, Inside, Door, Counting
        <4> QED
          BY <4>2 DEF CustodyStep, Keeping!CustodyNext
      <3>3. CASE u \notin Counting /\ u \in Counting'
        <4>1. Counting' = Counting \cup {u} /\ Inside' = Inside /\ Door' = Door
          BY <1>2, <1>3, <3>1, <3>3
        <4>2. Keeping!Count(u)
          BY <1>1, <2>3, <3>3, <4>1 DEF Keeping!Count, Keeping!Stay, Inside, Door, Counting
        <4> QED
          BY <4>2 DEF CustodyStep, Keeping!CustodyNext
      <3>4. CASE u \in Counting /\ u \in Counting'
        <4>1. Counting' = Counting /\ Inside' = Inside /\ Door' = Door
          BY <1>2, <1>3, <3>1, <3>4
        <4> QED
          BY <1>1, <4>1 DEF CustodyStep
      <3>5. CASE u \notin Counting /\ u \notin Counting'
        <4>1. Counting' = Counting
          BY <1>2, <3>5
        <4>2. CASE Inside' = Inside /\ Door' = Door
          BY <1>1, <4>1, <4>2 DEF CustodyStep
        <4>3. CASE Inside' = Inside \ {u} /\ Door' = Door \ {u}
          <5>1. Keeping!Leave(u)
            BY <1>1, <2>3, <3>5, <4>1, <4>3
               DEF Keeping!Leave, Keeping!GoOut, Inside, Door, Counting
          <5> QED
            BY <5>1 DEF CustodyStep, Keeping!CustodyNext
        <4> QED
          BY <3>1, <4>2, <4>3
      <3> QED
        BY <3>2, <3>3, <3>4, <3>5
    <2> QED
      BY <2>2, <2>3
  <1> QED
    BY <1>5, <1>6 DEF Moves

(* The phases, and the free that finds nobody inside. *)
LEMMA DeviceRefines ==
  ASSUME LifeInv, DeviceNext
  PROVE  CustodyStep
  <1>0. Shape /\ FreePhases /\ DoorPhase
    BY DEF LifeInv
  <1>1. /\ Inside' = Inside
        /\ freed' = freed => Door' = Door /\ Counting' = Counting
    BY DeviceElsewhere DEF Elsewhere, Inside, Door, Counting, OnTime, AtDoor, InOperation,
       Pending, Brief
  <1>2. CASE WorkFree
    <2>1. Inside = {} /\ Counting = {}
      BY <1>2, NobodyInOperation DEF WorkFree, Inside, OnTime, Counting
    <2>a. Counting' = {} /\ Door' = {}
      BY <1>1, <1>2, <2>1 DEF WorkFree, Inside, Counting, Door, AtDoor
    <2>2. dpc = "gone" /\ dpc' = dpc /\ freed'
      BY <1>0, <1>2 DEF WorkFree, FreePhases, deviceVars
    <2>3. CASE freed
      BY <1>1, <2>2, <2>3 DEF CustodyStep, Phase
    <2>4. CASE ~freed
      <3>1. Keeping!Free
        BY <1>1, <2>1, <2>a, <2>2, <2>4 DEF Keeping!Free, Phase, Inside, Door, Counting
      <3> QED
        BY <3>1 DEF CustodyStep, Keeping!CustodyNext
    <2> QED
      BY <2>3, <2>4
  <1>3. CASE FreeUnwound
    <2>1. dpc = "fail_free" /\ dpc' = "failed" /\ freed' /\ ~freed
      BY <1>0, <1>3 DEF FreeUnwound, Device, FreePhases, Shape, DeviceShape
    <2>a. Door = {} /\ Door' = {} /\ Counting' = Counting
      BY <1>0, <1>1, <2>1, DeviceElsewhere
         DEF DeviceNext, Elsewhere, DoorPhase, Door, Counting, AtDoor, OnTime, InOperation,
             Pending, Brief
    <2>2. Keeping!Unwind
      BY <1>1, <2>1, <2>a DEF Keeping!Unwind, Keeping!Turn, Phase, Inside, Door, Counting
    <2> QED
      BY <2>2 DEF CustodyStep, Keeping!CustodyNext
  <1>4. CASE Unplug
    <2>1. dpc = "plugged" /\ dpc' = "out_chardev" /\ freed' = freed /\ ~freed
      BY <1>0, <1>4 DEF Unplug, Device, FreePhases, memVars, Shape, DeviceShape
    <2>2. Keeping!Unplug
      BY <1>1, <2>1 DEF Keeping!Unplug, Keeping!Turn, Phase, Inside, Door, Counting
    <2> QED
      BY <2>2 DEF CustodyStep, Keeping!CustodyNext
  <1>5. CASE PluginCommand
    <2>1. /\ freed' = freed /\ ~freed
          /\ dpc \in {"info", "bus_off"}
          /\ dpc' \in {"bus_off", "plugged", "fail_chardev"}
      BY <1>0, <1>5 DEF PluginCommand, Device, FreePhases, memVars, Shape, DeviceShape
    <2>2. CASE dpc' = "plugged"
      <3>1. Keeping!PlugIn
        BY <1>1, <2>1, <2>2 DEF Keeping!PlugIn, Keeping!Turn, Phase, Inside, Door, Counting
      <3> QED
        BY <3>1 DEF CustodyStep, Keeping!CustodyNext
    <2>3. CASE dpc' # "plugged"
      BY <1>1, <2>1, <2>3 DEF CustodyStep, Phase
    <2> QED
      BY <2>2, <2>3
  <1>6. CASE RegisterNet \/ MakeItem \/ AllocRdBuf \/ AllocUrbs
    <2>1. /\ freed' = freed /\ ~freed
          /\ dpc \in {"register", "chardev", "rd_buf", "urbs"}
          /\ dpc' \in {"chardev", "rd_buf", "urbs", "info", "fail_chardev", "fail_net",
                       "fail_free"}
      BY <1>0, <1>6 DEF RegisterNet, MakeItem, AllocRdBuf, AllocUrbs, Device, FreePhases,
           memVars, Shape, DeviceShape
    <2> QED
      BY <1>1, <2>1 DEF CustodyStep, Phase
  <1>a. CASE ScheduleWork
    <2>1. dpc = "out_work" /\ dpc' = "gone" /\ freed' = freed /\ ~freed
      BY <1>0, <1>a DEF ScheduleWork, Device, FreePhases, Shape, DeviceShape
    <2>2. Keeping!BidWait
      BY <1>1, <2>1 DEF Keeping!BidWait, Keeping!Turn, Phase, Inside, Door, Counting
    <2> QED
      BY <2>2 DEF CustodyStep, Keeping!CustodyNext
  <1>7. CASE FinalizeChardev \/ UnregisterNet \/ UnlinkUrbs
    <2>1. /\ freed' = freed /\ ~freed
          /\ \/ /\ dpc \in {"out_chardev", "out_net", "out_urbs", "out_work"}
                /\ dpc' \in {"out_net", "out_urbs", "out_work"}
             \/ /\ dpc \in {"fail_chardev", "fail_net"}
                /\ dpc' \in {"fail_net", "fail_free"}
      BY <1>0, <1>7 DEF FinalizeChardev, UnregisterNet, UnlinkUrbs, Device, FreePhases, memVars,
           Shape, DeviceShape
    <2> QED
      BY <1>1, <2>1 DEF CustodyStep, Phase
  <1>8. CASE WorkAgain \/ WorkCheck \/ NetOpen \/ NetStop \/ RxLost
    <2>1. dpc' = dpc /\ freed' = freed
      BY <1>8 DEF WorkAgain, WorkCheck, NetOpen, NetStop, RxLost, deviceVars, memVars
    <2> QED
      BY <1>1, <2>1 DEF CustodyStep, Phase
  <1> QED
    BY <1>2, <1>3, <1>4, <1>5, <1>6, <1>7, <1>8, <1>a DEF DeviceNext, PlugRuns, WorkRuns

(* The work is there until it has freed. *)
LEMMA WorkStep ==
  ASSUME LifeInv, dpc = "gone" => freed \/ work # "none", [Next]_vars
  PROVE  dpc' = "gone" => freed' \/ work' # "none"
  <1>0. Shape /\ FreePhases
    BY DEF LifeInv
  <1>1. ASSUME NEW u \in Users, NEW l \in Labels, Moves(u, l)
        PROVE  dpc' = "gone" => freed' \/ work' # "none"
    BY <1>1 DEF Moves, deviceVars, memVars
  <1>2. CASE PlugRuns \/ Unplug
    BY <1>2 DEF PlugRuns, Device, RegisterNet, MakeItem, AllocRdBuf, AllocUrbs, PluginCommand,
         FinalizeChardev, UnregisterNet, UnlinkUrbs, ScheduleWork, FreeUnwound, Unplug
  <1>3. CASE WorkRuns
    BY <1>3 DEF WorkRuns, WorkAgain, WorkCheck, WorkFree
  <1>4. CASE NetOpen \/ NetStop \/ RxLost
    BY <1>4 DEF NetOpen, NetStop, RxLost, deviceVars, memVars
  <1>5. CASE UNCHANGED vars
    BY <1>5 DEF vars, deviceVars, memVars
  <1> QED
    BY <1>0, <1>1, <1>2, <1>3, <1>4, <1>5, Steps DEF DeviceNext

(***************************************************************************)
(* The theorems.                                                           *)
(***************************************************************************)

(* The inductive invariant of the life cycle: phases, counter, and who is   *)
(* left when the forwarder goes.                                            *)
THEOREM LifeInvariant == Spec => []LifeInv
  <1>1. Init => LifeInv
    BY LifeInit
  <1>2. LifeInv /\ [Next]_vars => LifeInv'
    BY TypeStep, PhaseStep, CountStep, FreeStep, HolderStep, DoorStep DEF LifeInv
  <1> QED
    BY <1>1, <1>2, PTL DEF Spec

(* Types, and pending_ops never runs below zero.                            *)
THEOREM TypesCorrect == Spec => []TypeOK
  <1>1. LifeInv => TypeOK
    BY PendingFinite DEF LifeInv, TypeOK, PendingAccounting, PendingSet
  <1> QED
    BY <1>1, LifeInvariant, PTL

(* pending_ops is exact: the operations under way between their increment   *)
(* and their decrement.                                                     *)
THEOREM PendingExact == Spec => []PendingAccounting
  <1>1. LifeInv => PendingAccounting
    BY DEF LifeInv
  <1> QED
    BY <1>1, LifeInvariant, PTL

(* destroy_usb_forwarder frees nothing under a read, an ioctl, an open or a *)
(* close that began before plug-out was over, if no thread is held up for   *)
(* 500 ms between two steps.  Nothing is claimed of later ones, which the   *)
(* code does not wait for, nor of a program asleep in poll.                 *)
THEOREM DestroyIsSafe == Spec => []DestroyWaits
  <1>1. LifeInv => DestroyWaits
    BY DEF LifeInv
  <1> QED
    BY <1>1, LifeInvariant, PTL

(* A plug-in that fails at any step leaves neither device behind.           *)
THEOREM UnwindingComplete == Spec => []UnwoundDevices
  <1>1. LifeInv => UnwoundDevices
    BY DEF LifeInv, DevicePhases, UnwoundDevices
  <1> QED
    BY <1>1, LifeInvariant, PTL

(* From plug-in to destruction one program holds the character device, but  *)
(* for an open that came before plug-in set the count to zero.              *)
THEOREM OneHolderOnly == Spec => []OneHolder
  <1>1. LifeInv => OneHolder
    BY DEF LifeInv, SingleHolder, OneHolder
  <1> QED
    BY <1>1, LifeInvariant, PTL

(* An operation that begins between the end of plug-out and the free is     *)
(* refused by the test of the stage, whatever opens and closes plug-out has *)
(* overtaken.                                                               *)
THEOREM DoorKept == Spec => []NewcomersRefused
  <1>1. LifeInv => NewcomersRefused
    BY DEF LifeInv
  <1> QED
    BY <1>1, LifeInvariant, PTL

(* usb_driver.c implements Custody: the free waits for the operations begun *)
(* before plug-out was over and for the counted ones, and for nobody else.  *)
THEOREM ForwarderKept == Spec => ImplementsCustody
  <1>1. Init => Keeping!CustodyInit
    BY DEF Init, Keeping!CustodyInit, Phase, OnTime, AtDoor, InOperation, Pending, Brief
  <1>2. LifeInv /\ [Next]_vars => CustodyStep
    <2> SUFFICES ASSUME LifeInv, [Next]_vars PROVE CustodyStep
      OBVIOUS
    <2>1. Shape /\ FreePhases
      BY DEF LifeInv
    <2>2. CASE UNCHANGED vars
      BY <2>2 DEF vars, deviceVars, memVars, userVars, CustodyStep, Phase, Inside, Door,
           Counting, OnTime, AtDoor, InOperation
    <2> QED
      BY <2>1, <2>2, MovesRefine, DeviceRefines, Steps
  <1> QED
    BY <1>1, <1>2, LifeInvariant, PTL
    DEF Spec, ImplementsCustody, Keeping!CustodySpec, Keeping!custodyVars, CustodyStep, Inside,
        Door, Counting

(* The safety half of Destroyed and SleepersReturn: destroy_work is there   *)
(* until it has freed, and counts everybody it still has to wake.           *)
THEOREM SleepersSeen == Spec => []WorkSeesSleepers
  <1> DEFINE Works == dpc = "gone" => freed \/ work # "none"
  <1>1. Init => Works
    BY DEF Init
  <1>2. LifeInv /\ Works /\ [Next]_vars => Works'
    BY WorkStep
  <1>3. LifeInv /\ Works => WorkSeesSleepers
    <2> SUFFICES ASSUME LifeInv, Works, dpc = "gone", NEW u \in Users, upc[u] = "asleep",
                        began[u] = "on_time"
                 PROVE  work # "none" /\ pending_ops > 0
      BY DEF WorkSeesSleepers
    <2>1. InOperation(u) /\ u \in PendingSet
      BY DEF InOperation, PendingSet, Pending
    <2>2. ~freed
      BY <2>1 DEF LifeInv, DestroyWaits
    <2>3. Cardinality(PendingSet) # 0
      BY <2>1, PendingFinite, FS_EmptySet
    <2> QED
      BY <2>2, <2>3, PendingFinite DEF LifeInv, PendingAccounting, PendingSet
  <1> QED
    BY <1>1, <1>2, <1>3, LifeInvariant, PTL DEF Spec
=============================================================================
