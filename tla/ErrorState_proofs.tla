-------------------------- MODULE ErrorState_proofs --------------------------
(***************************************************************************)
(* Proofs about ErrorState: a device that is off the bus is on its way     *)
(* back, a close ends the restarting, the same report is not posted twice, *)
(* and a scheduled restart finds the carrier off.                          *)
(***************************************************************************)
EXTENDS ErrorState, FiniteSetTheorems, TLAPS

(* What the first tested bit decides is one of five.                        *)
LEMMA VerdictType ==
    ASSUME NEW s \in {"ACTIVE", "WARNING", "PASSIVE"}, NEW n \in Reports
    PROVE  Verdict(s, n) \in {"ACTIVE", "WARNING", "PASSIVE", "BUS_OFF", "MAX"}
<1> DEFINE found == {i \in 1..4 : Tested[s][i] \in n}
           first == CHOOSE i \in found : \A j \in found : i <= j
<1>1. CASE found = {}
  BY <1>1 DEF Verdict
<1>2. CASE found # {}
  <2>1. \E i \in found : \A j \in found : i <= j
    <3>1. found \in SUBSET (1..4)
      OBVIOUS
    <3>2. 1 \in found \/ 2 \in found \/ 3 \in found \/ 4 \in found
      BY <1>2, <3>1
    <3> HIDE DEF found
    <3> QED
      BY <3>1, <3>2, SMT
  <2>2. first \in 1..4
    BY <2>1
  <2>3. Tested[s][first] \in Bits
    <3> HIDE DEF first
    <3>1. first = 1 \/ first = 2 \/ first = 3 \/ first = 4
      BY <2>2, SMT
    <3> QED
      BY <3>1 DEF Tested, Bits
  <2>4. Means[Tested[s][first]] \in {"WARNING", "PASSIVE", "BUS_OFF", "MAX"}
    BY <2>3 DEF Means, Bits
  <2> QED
    BY <1>2, <2>4 DEF Verdict
<1> QED
  BY <1>1, <1>2

(* A report of one condition is what that condition means, in every state.  *)
LEMMA VerdictSingle ==
    ASSUME NEW s \in {"ACTIVE", "WARNING", "PASSIVE"}, NEW b \in Bits
    PROVE  Verdict(s, {b}) = Means[b]
<1> DEFINE found == {i \in 1..4 : Tested[s][i] \in {b}}
<1>1. \E k \in 1..4 : Tested[s][k] = b /\ \A i \in 1..4 : Tested[s][i] = b => i = k
  BY DEF Tested, Bits
<1>2. PICK k \in 1..4 : Tested[s][k] = b /\ \A i \in 1..4 : Tested[s][i] = b => i = k
  BY <1>1
<1>3. found = {k}
  BY <1>2
<1>4. (CHOOSE i \in found : \A j \in found : i <= j) = k
  BY <1>3
<1> QED
  BY <1>2, <1>3, <1>4 DEF Verdict

(* Every flag stays a Boolean. *)
LEMMA FlagsKept ==
    Flags /\ [Next]_vars
        => Flags'
<1> SUFFICES ASSUME Flags, [Next]_vars
             PROVE  Flags'
  OBVIOUS
<1> USE DEF Flags, deviceVars, handlerVars, restartVars
<1>1. ASSUME NEW n \in Reports, Report(n) PROVE Flags'
  BY <1>1, Zenon DEF Report
<1>2. CASE Post
  BY <1>2, Zenon DEF Post
<1>3. CASE WorkRuns
  BY <1>3, Zenon DEF WorkRuns
<1>4. CASE RestartNow
  BY <1>4, Zenon DEF RestartNow
<1>5. CASE CarrierOn
  BY <1>5, Zenon DEF CarrierOn
<1>6. CASE Completion
  BY <1>6, Zenon DEF Completion
<1>7. CASE Open
  BY <1>7, Zenon DEF Open, Quiet
<1>8. CASE OpenFails
  BY <1>8, Zenon DEF OpenFails
<1>9. CASE Stop
  BY <1>9, Zenon DEF Stop
<1>10. CASE StopCancels
  BY <1>10, Zenon DEF StopCancels
<1>11. CASE Judge \/ Compare \/ Store
  BY <1>11, Zenon DEF Judge, Compare, Store
<1>12. CASE SetMode \/ WakeUp \/ Opened \/ Stopped \/ SetRestartMs
  BY <1>12, Zenon DEF SetMode, WakeUp, Opened, Stopped, SetRestartMs
<1>u. CASE UNCHANGED vars
  BY <1>u, Zenon DEF vars
<1> QED
  BY <1>1, <1>2, <1>3, <1>4, <1>5, <1>6, <1>7, <1>8, <1>9, <1>10, <1>11, <1>12
     , <1>u
     DEF Next, HandlerRuns, RestartRuns, DeviceRuns

(* Only an open and a stop mark the device. *)
LEMMA RunningKept ==
    RunningWhenOpen /\ [Next]_vars
        => RunningWhenOpen'
<1> SUFFICES ASSUME RunningWhenOpen, [Next]_vars
             PROVE  RunningWhenOpen'
  OBVIOUS
<1> USE DEF RunningWhenOpen, deviceVars, handlerVars, restartVars
<1>1. ASSUME NEW n \in Reports, Report(n) PROVE RunningWhenOpen'
  BY <1>1 DEF Report
<1>2. CASE Open
  BY <1>2 DEF Open
<1>3. CASE Opened
  BY <1>3 DEF Opened
<1>4. CASE OpenFails
  BY <1>4 DEF OpenFails
<1>5. CASE Stop
  BY <1>5 DEF Stop
<1>6. CASE StopCancels
  BY <1>6 DEF StopCancels
<1>7. CASE Stopped
  BY <1>7 DEF Stopped
<1>8. CASE Judge \/ Compare \/ Post \/ Store
  BY <1>8 DEF Judge, Compare, Post, Store
<1>9. CASE WorkRuns \/ RestartNow \/ SetMode \/ CarrierOn \/ Completion
            \/ WakeUp \/ SetRestartMs
  BY <1>9 DEF WorkRuns, RestartNow, SetMode, CarrierOn, Completion, WakeUp
              , SetRestartMs
<1>u. CASE UNCHANGED vars
  BY <1>u DEF vars
<1> QED
  BY <1>1, <1>2, <1>3, <1>4, <1>5, <1>6, <1>7, <1>8, <1>9, <1>u
     DEF Next, HandlerRuns, RestartRuns, DeviceRuns

(* Whatever decode_error stores is a state, also of an overrun. *)
LEMMA KindsKept ==
    Kinds /\ HandlerKnows /\ [Next]_vars
        => Kinds'
<1> SUFFICES ASSUME Kinds, HandlerKnows, [Next]_vars
             PROVE  Kinds'
  OBVIOUS
<1> USE DEF Kinds, HandlerKnows, deviceVars, handlerVars, restartVars
<1>1. ASSUME NEW n \in Reports, Report(n) PROVE Kinds'
  BY <1>1 DEF Report
<1>2. CASE Judge
  <2>1. CASE state \in {"BUS_OFF", "STOPPED"}
    BY <1>2, <2>1 DEF Judge
  <2>2. CASE state \notin {"BUS_OFF", "STOPPED"}
    <3>1. Verdict(state, number) \in {"ACTIVE", "WARNING", "PASSIVE", "BUS_OFF", "MAX"}
      BY <2>2, VerdictType DEF States
    <3> QED
      BY <1>2, <2>2, <3>1 DEF Judge, States
  <2> QED
    BY <2>1, <2>2
<1>3. CASE Compare
  BY <1>3 DEF Compare
<1>4. CASE Post
  BY <1>4 DEF Post
<1>5. CASE Store
  BY <1>5 DEF Store
<1>6. CASE SetMode
  BY <1>6, ErrorAssumption DEF SetMode
<1>7. CASE Completion
  BY <1>7, ErrorAssumption DEF Completion
<1>8. CASE WakeUp
  BY <1>8 DEF WakeUp, States
<1>9. CASE Opened
  BY <1>9 DEF Opened, States
<1>10. CASE Stopped
  BY <1>10 DEF Stopped, States
<1>11. CASE WorkRuns \/ RestartNow \/ CarrierOn \/ Open \/ OpenFails \/ Stop
             \/ StopCancels \/ SetRestartMs
  BY <1>11 DEF WorkRuns, RestartNow, CarrierOn, Open, OpenFails, Stop
               , StopCancels, SetRestartMs
<1>u. CASE UNCHANGED vars
  BY <1>u DEF vars
<1> QED
  BY <1>1, <1>2, <1>3, <1>4, <1>5, <1>6, <1>7, <1>8, <1>9, <1>10, <1>11, <1>u
     DEF Next, HandlerRuns, RestartRuns, DeviceRuns

(* Only decode_error takes a device off the bus. *)
LEMMA HandlerKept ==
    Kinds /\ HandlerKnows /\ [Next]_vars
        => HandlerKnows'
<1> SUFFICES ASSUME Kinds, HandlerKnows, [Next]_vars
             PROVE  HandlerKnows'
  OBVIOUS
<1> USE DEF Kinds, HandlerKnows, deviceVars, handlerVars, restartVars
<1>1. ASSUME NEW n \in Reports, Report(n) PROVE HandlerKnows'
  BY <1>1 DEF Report
<1>2. CASE Judge
  <2>1. CASE state \in {"BUS_OFF", "STOPPED"}
    BY <1>2, <2>1 DEF Judge
  <2>2. CASE state \notin {"BUS_OFF", "STOPPED"}
    <3>1. Verdict(state, number) \in {"ACTIVE", "WARNING", "PASSIVE", "BUS_OFF", "MAX"}
      BY <2>2, VerdictType DEF States
    <3> QED
      BY <1>2, <2>2, <3>1 DEF Judge, States
  <2> QED
    BY <2>1, <2>2
<1>3. CASE Compare
  BY <1>3 DEF Compare
<1>4. CASE Post
  BY <1>4 DEF Post
<1>5. CASE Store
  BY <1>5 DEF Store
<1>6. CASE WakeUp
  BY <1>6 DEF WakeUp
<1>7. CASE Opened
  BY <1>7 DEF Opened
<1>8. CASE Stopped
  BY <1>8 DEF Stopped
<1>9. CASE WorkRuns \/ RestartNow \/ SetMode \/ CarrierOn \/ Completion
  BY <1>9 DEF WorkRuns, RestartNow, SetMode, CarrierOn, Completion
<1>10. CASE Open \/ OpenFails \/ Stop \/ StopCancels \/ SetRestartMs
  BY <1>10 DEF Open, OpenFails, Stop, StopCancels, SetRestartMs
<1>u. CASE UNCHANGED vars
  BY <1>u DEF vars
<1> QED
  BY <1>1, <1>2, <1>3, <1>4, <1>5, <1>6, <1>7, <1>8, <1>9, <1>10, <1>u
     DEF Next, HandlerRuns, RestartRuns, DeviceRuns

(* The restart is handed from the work to the command to the timer. *)
LEMMA WayKept ==
    Kinds /\ Flags /\ HandlerKnows /\ Scheduled /\ OnItsWayBack /\ [Next]_vars
        => Scheduled' /\ OnItsWayBack'
<1> SUFFICES ASSUME Kinds, Flags, HandlerKnows, Scheduled, OnItsWayBack, [Next]_vars
             PROVE  Scheduled' /\ OnItsWayBack'
  OBVIOUS
<1> USE DEF Kinds, Flags, HandlerKnows, Scheduled, OnItsWayBack, deviceVars
            , handlerVars, restartVars
<1>1. ASSUME NEW n \in Reports, Report(n) PROVE Scheduled' /\ OnItsWayBack'
  BY <1>1 DEF Report
<1>2. CASE Post
  BY <1>2 DEF Post
<1>3. CASE Store
  BY <1>3 DEF Store
<1>4. CASE WorkRuns
  BY <1>4 DEF WorkRuns
<1>5. CASE RestartNow
  BY <1>5 DEF RestartNow
<1>6. CASE SetMode
  BY <1>6 DEF SetMode
<1>7. CASE Completion
  BY <1>7 DEF Completion
<1>8. CASE WakeUp
  BY <1>8 DEF WakeUp
<1>9. CASE Opened
  BY <1>9 DEF Opened
<1>10. CASE OpenFails
  BY <1>10 DEF OpenFails
<1>11. CASE Judge \/ Compare
  BY <1>11 DEF Judge, Compare
<1>12. CASE CarrierOn \/ Open \/ Stop \/ StopCancels \/ Stopped \/ SetRestartMs
  BY <1>12 DEF CarrierOn, Open, Stop, StopCancels, Stopped, SetRestartMs
<1>u. CASE UNCHANGED vars
  BY <1>u DEF vars
<1> QED
  BY <1>1, <1>2, <1>3, <1>4, <1>5, <1>6, <1>7, <1>8, <1>9, <1>10, <1>11, <1>12
     , <1>u
     DEF Next, HandlerRuns, RestartRuns, DeviceRuns

(* What the last report said is the state, and what this one says its new state. *)
LEMMA LastKept == Kinds /\ HandlerKnows /\ LastKnown /\ [Next]_vars => LastKnown'
<1> SUFFICES ASSUME Kinds, HandlerKnows, LastKnown, [Next]_vars,
                    NEW b \in Bits \ {"over"}
             PROVE  KnownBy(b)'
  BY DEF LastKnown
<1>0. KnownBy(b)
  BY DEF LastKnown
<1>a. {b} # Nothing /\ {b} # {} /\ Means[b] \in {"WARNING", "PASSIVE", "BUS_OFF"}
  BY DEF Nothing, Bits, Means
<1> USE <1>0, <1>a DEF KnownBy, Kinds, HandlerKnows, deviceVars, handlerVars, restartVars
<1>1. ASSUME NEW n \in Reports, Report(n) PROVE KnownBy(b)'
  BY <1>1 DEF Report
<1>2. CASE Judge
  <2>1. CASE state \in {"BUS_OFF", "STOPPED"}
    BY <1>2, <2>1 DEF Judge
  <2>2. CASE state \notin {"BUS_OFF", "STOPPED"}
    <3>1. number = {b} => Verdict(state, number) = Means[b]
      BY <2>2, VerdictSingle DEF States
    <3> QED
      BY <1>2, <2>2, <3>1 DEF Judge
  <2> QED
    BY <2>1, <2>2
<1>3. CASE Compare
  BY <1>3 DEF Compare
<1>4. CASE Post
  BY <1>4 DEF Post
<1>5. CASE Store
  BY <1>5 DEF Store
<1>6. CASE WakeUp
  BY <1>6 DEF WakeUp
<1>7. CASE Opened
  BY <1>7 DEF Opened
<1>8. CASE Stopped
  BY <1>8 DEF Stopped
<1>9. CASE WorkRuns \/ RestartNow \/ SetMode \/ CarrierOn \/ Completion
  BY <1>9 DEF WorkRuns, RestartNow, SetMode, CarrierOn, Completion
<1>10. CASE Open \/ OpenFails \/ Stop \/ StopCancels \/ SetRestartMs
  BY <1>10 DEF Open, OpenFails, Stop, StopCancels, SetRestartMs
<1>u. CASE UNCHANGED vars
  BY <1>u DEF vars
<1> QED
  BY <1>1, <1>2, <1>3, <1>4, <1>5, <1>6, <1>7, <1>8, <1>9, <1>10, <1>u
     DEF Next, HandlerRuns, RestartRuns, DeviceRuns

(* A quiet device stays quiet while it opens, and a close ends the restart. *)
LEMMA CalmKept ==
    Kinds /\ Flags /\ HandlerKnows /\ RunningWhenOpen /\ Calm /\ [Next]_vars
        => Calm'
<1> SUFFICES ASSUME Kinds, Flags, HandlerKnows, RunningWhenOpen, Calm, [Next]_vars
             PROVE  Calm'
  OBVIOUS
<1> USE DEF Kinds, Flags, HandlerKnows, RunningWhenOpen, Calm, Quiet, deviceVars
            , handlerVars, restartVars
<1>1. ASSUME NEW n \in Reports, Report(n) PROVE Calm'
  BY <1>1 DEF Report
<1>2. CASE Judge
  BY <1>2 DEF Judge
<1>3. CASE Compare
  BY <1>3 DEF Compare
<1>4. CASE Post
  BY <1>4 DEF Post
<1>5. CASE Store
  BY <1>5 DEF Store
<1>6. CASE WorkRuns
  BY <1>6 DEF WorkRuns
<1>7. CASE Completion
  BY <1>7 DEF Completion
<1>8. CASE WakeUp
  BY <1>8 DEF WakeUp
<1>9. CASE Open
  BY <1>9 DEF Open
<1>10. CASE Opened
  BY <1>10 DEF Opened
<1>11. CASE OpenFails
  BY <1>11 DEF OpenFails
<1>12. CASE StopCancels
  BY <1>12 DEF StopCancels
<1>13. CASE RestartNow \/ SetMode \/ CarrierOn \/ Stop \/ Stopped
             \/ SetRestartMs
  BY <1>13 DEF RestartNow, SetMode, CarrierOn, Stop, Stopped, SetRestartMs
<1>u. CASE UNCHANGED vars
  BY <1>u DEF vars
<1> QED
  BY <1>1, <1>2, <1>3, <1>4, <1>5, <1>6, <1>7, <1>8, <1>9, <1>10, <1>11, <1>12
     , <1>13, <1>u
     DEF Next, HandlerRuns, RestartRuns, DeviceRuns

(* There is one restart at a time, of a device off the bus. *)
LEMMA OneKept ==
    Kinds /\ Flags /\ HandlerKnows /\ RunningWhenOpen /\ Calm /\ OneRestart /\ [Next]_vars
        => OneRestart'
<1> SUFFICES ASSUME Kinds, Flags, HandlerKnows, RunningWhenOpen, Calm, OneRestart, [Next]_vars
             PROVE  OneRestart'
  OBVIOUS
<1> USE DEF Kinds, Flags, HandlerKnows, RunningWhenOpen, Calm, OneRestart, Quiet
            , OffBus, NoRestart, deviceVars, handlerVars, restartVars
<1>1. ASSUME NEW n \in Reports, Report(n) PROVE OneRestart'
  BY <1>1 DEF Report
<1>2. CASE Judge
  BY <1>2 DEF Judge
<1>3. CASE Compare
  BY <1>3 DEF Compare
<1>4. CASE Post
  BY <1>4 DEF Post
<1>5. CASE Store
  BY <1>5 DEF Store
<1>6. CASE WorkRuns
  BY <1>6 DEF WorkRuns
<1>7. CASE SetMode
  BY <1>7 DEF SetMode
<1>8. CASE CarrierOn
  BY <1>8 DEF CarrierOn
<1>9. CASE Completion
  BY <1>9 DEF Completion
<1>10. CASE WakeUp
  BY <1>10 DEF WakeUp
<1>11. CASE Opened
  BY <1>11 DEF Opened
<1>12. CASE Stop
  BY <1>12 DEF Stop
<1>13. CASE RestartNow \/ Open \/ OpenFails \/ StopCancels \/ Stopped
             \/ SetRestartMs
  BY <1>13 DEF RestartNow, Open, OpenFails, StopCancels, Stopped, SetRestartMs
<1>u. CASE UNCHANGED vars
  BY <1>u DEF vars
<1> QED
  BY <1>1, <1>2, <1>3, <1>4, <1>5, <1>6, <1>7, <1>8, <1>9, <1>10, <1>11, <1>12
     , <1>13, <1>u
     DEF Next, HandlerRuns, RestartRuns, DeviceRuns

----------------------------------------------------------------------------
(* The error state, the handler and the restart agree: HandlerKnows and     *)
(* OneRestart are what makes the properties inductive.                      *)
THEOREM ErrorInvariant == Spec => []ErrInv
<1>1. Init => ErrInv
  <2> SUFFICES ASSUME Init PROVE ErrInv
    OBVIOUS
  <2>1. Kinds
    BY ErrorAssumption DEF Init, Kinds, States, Reports
  <2>2. Flags
    BY Zenon DEF Init, Flags
  <2>3. HandlerKnows /\ RunningWhenOpen /\ Scheduled /\ OnItsWayBack
    BY DEF Init, HandlerKnows, RunningWhenOpen, Scheduled, OnItsWayBack
  <2>4. LastKnown
    BY DEF Init, LastKnown, KnownBy, Nothing, Bits
  <2>5. Calm /\ OneRestart
    BY DEF Init, Calm, OneRestart
  <2> QED
    BY <2>1, <2>2, <2>3, <2>4, <2>5 DEF ErrInv, TypeOK
<1>2. ErrInv /\ [Next]_vars => ErrInv'
  BY FlagsKept, RunningKept, KindsKept, HandlerKept, WayKept, LastKept, CalmKept, OneKept
     DEF ErrInv, TypeOK
<1> QED
  BY <1>1, <1>2, PTL DEF Spec

(* The mark of an overrun, which is no state, is never stored in can.state. *)
THEOREM TypesCorrect == Spec => []TypeOK
<1>1. ErrInv => TypeOK
  BY DEF ErrInv
<1> QED
  BY <1>1, ErrorInvariant, PTL

(* decode_error, can_restart, its command and the timer hand a device that  *)
(* is off the bus on to each other without a gap.                           *)
THEOREM WayBack == Spec => []OnItsWayBack
<1>1. ErrInv => OnItsWayBack
  BY DEF ErrInv
<1> QED
  BY <1>1, ErrorInvariant, PTL

(* pcan_net_stop leaves no restart scheduled or running behind.             *)
THEOREM StopEndsRestart == Spec => []ClosedForGood
<1>1. ErrInv => ClosedForGood
  BY DEF ErrInv, Calm, ClosedForGood
<1> QED
  BY <1>1, ErrorInvariant, PTL

(* The comparison in decode_error keeps a report of one condition from      *)
(* being posted twice in a row.                                             *)
THEOREM NoRepeatedPost == Spec => []PostedOnce
<1>1. ErrInv => PostedOnce
  <2> SUFFICES ASSUME ErrInv, hpc = "report", Cardinality(number) = 1, number # {"over"}
               PROVE  number # last
    BY DEF PostedOnce
  <2>1. number \in SUBSET Bits
    BY DEF ErrInv, TypeOK, Kinds, Reports
  <2>2. IsFiniteSet(Bits)
    <3>1. IsFiniteSet({"light"}) /\ IsFiniteSet({"heavy"}) /\ IsFiniteSet({"off"})
            /\ IsFiniteSet({"over"})
      BY FS_Singleton
    <3>2. Bits = (({"light"} \cup {"heavy"}) \cup {"off"}) \cup {"over"}
      BY DEF Bits
    <3> QED
      BY <3>1, <3>2, FS_Union
  <2>3. PICK b : number = {b}
    BY <2>1, <2>2, FS_Subset, FS_Singleton
  <2>4. b \in Bits \ {"over"}
    BY <2>1, <2>3
  <2> QED
    BY <2>3, <2>4 DEF ErrInv, LastKnown, KnownBy
<1> QED
  BY <1>1, ErrorInvariant, PTL

(* The condition of can_restart's BUG_ON: what is scheduled by the driver   *)
(* finds the carrier off, if nothing was left over when the device opened.  *)
THEOREM RestartMeetsNoCarrier == Spec => RestartFindsCarrierOff
<1> DEFINE Claim == clean /\ auto /\ wpc = "idle" /\ wpc' = "set_mode" => ~carrier
<1>1. ErrInv /\ [Next]_vars => [Claim]_vars
  <2> SUFFICES ASSUME ErrInv, Next, clean, auto, wpc = "idle", wpc' = "set_mode"
               PROVE  ~carrier
    OBVIOUS
  <2>1. WorkRuns
    BY DEF Next, HandlerRuns, RestartRuns, DeviceRuns, Report, Judge, Compare, Post,
           Store, RestartNow, SetMode, CarrierOn, Completion, WakeUp, Open, Opened,
           OpenFails, Stop, StopCancels, Stopped, SetRestartMs, handlerVars, restartVars
  <2>2. work
    BY <2>1 DEF WorkRuns
  <2>3. npc \in {"opening", "up", "stopping"}
    BY <2>2 DEF ErrInv, TypeOK, Kinds, Calm
  <2>4. npc # "opening"
    BY <2>2 DEF ErrInv, Calm, Quiet
  <2> QED
    BY <2>2, <2>3, <2>4 DEF ErrInv, OneRestart
<1> QED
  BY <1>1, ErrorInvariant, PTL DEF Spec, RestartFindsCarrierOff

(* A report that decode_error is still decoding has met a device on the bus, *)
(* and it alone takes one off: it stores nothing over a bus-off.            *)
THEOREM BusOffEndsByRestart == Spec => BusOffStays
<1> DEFINE Claim == state = "BUS_OFF" /\ state' # "BUS_OFF" => (timer /\ ~timer') \/ npc # npc'
<1>1. ErrInv /\ [Next]_vars => [Claim]_vars
  <2> SUFFICES ASSUME ErrInv, Next, state = "BUS_OFF", state' # "BUS_OFF"
               PROVE  (timer /\ ~timer') \/ npc # npc'
    OBVIOUS
  <2>1. HandlerKnows
    BY DEF ErrInv
  <2>2. WakeUp \/ Opened \/ Stopped
    BY <2>1 DEF HandlerKnows, Next, HandlerRuns, RestartRuns, DeviceRuns, Report, Judge,
                Compare, Post, Store, WorkRuns, RestartNow, SetMode, CarrierOn,
                Completion, Open, OpenFails, Stop, StopCancels, SetRestartMs
  <2>3. CASE WakeUp
    BY <2>3 DEF WakeUp
  <2>4. CASE Opened
    BY <2>4 DEF Opened
  <2>5. CASE Stopped
    BY <2>5 DEF Stopped
  <2> QED
    BY <2>2, <2>3, <2>4, <2>5
<1> QED
  BY <1>1, ErrorInvariant, PTL DEF Spec, BusOffStays
=============================================================================
