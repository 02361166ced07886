------------------------- MODULE BusControl_proofs --------------------------
(***************************************************************************)
(* What is proved of BusControl, for any number of competing opens of the  *)
(* character device and any set of early users.                            *)
(***************************************************************************)
EXTENDS BusControl, FiniteSetTheorems, TLAPS

CountedSet == {p \in Procs : CountedIn(p)}
SendingSet == {t \in Threads : pc[t] = "send"}
Extra      == IF Waiting THEN 1 ELSE 0

LEMMA ThreadsFinite ==
  /\ IsFiniteSet(Procs) /\ IsFiniteSet(Threads)
  /\ Net \in Procs /\ Net \notin Files /\ Files \subseteq Procs /\ Procs \subseteq Threads
  /\ Plug \in Threads /\ Plug \notin Procs /\ Threads = Procs \cup {Plug}
  /\ Procs = Files \cup {Net}
  /\ IsFiniteSet(CountedSet) /\ IsFiniteSet(SendingSet) /\ IsFiniteSet(Sessions)
  <1>1. IsFiniteSet(Procs) /\ IsFiniteSet(Threads)
    BY BusAssumption, FS_Singleton, FS_Union DEF Procs, Threads
  <1>2. CountedSet \subseteq Procs /\ SendingSet \subseteq Threads /\ Sessions \subseteq Procs
    BY DEF CountedSet, SendingSet, Sessions, Procs
  <1> QED
    BY <1>1, <1>2, BusAssumption, FS_Subset DEF Procs, Threads

(* How a cardinality follows its set. *)
LEMMA CardStep ==
  ASSUME NEW S, IsFiniteSet(S), NEW p
  PROVE  /\ p \notin S => Cardinality(S \cup {p}) = Cardinality(S) + 1
         /\ p \in S => Cardinality(S \ {p}) = Cardinality(S) - 1
         /\ Cardinality(S) \in Nat
  BY FS_AddElement, FS_RemoveElement, FS_CardinalityType

(* If the interfaces counted in are few, no other one is. *)
LEMMA FewCounted ==
  ASSUME BusInv, NEW p \in Procs
  PROVE  /\ stage + 1 <= STAGE_ONE_STARTED => CountedSet = {}
         /\ stage - 1 < STAGE_ONE_STARTED /\ CountedIn(p) => CountedSet = {p}
  <1>1. stage = 1 + Cardinality(CountedSet) /\ Cardinality(CountedSet) \in Nat
        /\ IsFiniteSet(CountedSet)
    BY ThreadsFinite, FS_CardinalityType
    DEF BusInv, StageAccounting, CountedSet, STAGE_CONNECTED
  <1>2. ASSUME stage + 1 <= STAGE_ONE_STARTED PROVE CountedSet = {}
    <2>1. Cardinality(CountedSet) = 0
      BY <1>1, <1>2 DEF STAGE_ONE_STARTED
    <2> QED
      BY <1>1, <2>1, FS_EmptySet
  <1>3. ASSUME stage - 1 < STAGE_ONE_STARTED, CountedIn(p) PROVE CountedSet = {p}
    <2>1. p \in CountedSet
      BY <1>3 DEF CountedSet
    <2>2. Cardinality(CountedSet \ {p}) = Cardinality(CountedSet) - 1
          /\ IsFiniteSet(CountedSet \ {p})
      BY <1>1, <2>1, CardStep, FS_Subset
    <2>3. Cardinality(CountedSet \ {p}) \in Nat
      BY <2>2, FS_CardinalityType
    <2>4. Cardinality(CountedSet \ {p}) = 0
      BY <1>1, <1>3, <2>2, <2>3 DEF STAGE_ONE_STARTED
    <2>5. CountedSet \ {p} = {}
      BY <2>2, <2>4, FS_EmptySet
    <2> QED
      BY <2>1, <2>5
  <1> QED
    BY <1>2, <1>3

LEMMA Codes ==
  /\ STAGE_ONE_STARTED = 2 /\ STAGE_CONNECTED = 1
  /\ FirstStart \in {"silent", "ext_vcc"} /\ (HasSilent => FirstStart = "silent")
  /\ FirstStop = "bus_off" /\ FirstPlugIn = "serial_number"
  /\ {"none", "silent", "ext_vcc", "bus_on", "bus_off", "sja1000", "btr0btr1",
      "serial_number", "device_id"} = Commands
  /\ Answer["serial_number"] = "number" /\ Answer["device_id"] = "id"
  BY DEF STAGE_ONE_STARTED, STAGE_CONNECTED, FirstStart, FirstStop, FirstPlugIn, Commands, Answer

LEMMA BusInvInit == Init => BusInv
  <1> SUFFICES ASSUME Init PROVE BusInv
    OBVIOUS
  <1>1. Shape
    <2>1. /\ stage = 1 /\ pending_ops = 0 /\ open_count = 0
          /\ cmd_buf \in [c : Contents, arg : BOOLEAN]
      BY Codes DEF Init, Contents
    <2>2. /\ listen_only \in BOOLEAN /\ silent \in BOOLEAN
          /\ restarting \in BOOLEAN /\ exclusive \in BOOLEAN /\ led \in BOOLEAN
      BY DEF Init
    <2>3. /\ pc = [t \in Threads |-> IF t = Plug THEN "fill" ELSE "closed"]
          /\ cmd = [t \in Threads |-> IF t = Plug THEN FirstPlugIn ELSE "none"]
          /\ "none" \in Commands /\ FirstPlugIn \in Commands
          /\ bus = "off" /\ replies \in Seq(Answers)
      BY Codes DEF Init
    <2> QED
      BY <2>1, <2>2, <2>3 DEF Shape
  <1>a. /\ \A p \in Procs : pc[p] = "closed" /\ cmd[p] = "none"
        /\ pc[Plug] = "fill" /\ cmd[Plug] = "serial_number"
    BY ThreadsFinite, Codes DEF Init
  <1>2. CountedSet = {} /\ SendingSet = {} /\ Sessions = {} /\ Extra = 0
    BY <1>a, ThreadsFinite DEF CountedSet, SendingSet, Sessions, CountedIn, Holds, Extra, Waiting
  <1>3. Cardinality({}) = 0
    BY FS_EmptySet
  <1>4. StageAccounting /\ PendingAccounting /\ CountAccounting
    <2>1. stage = 1 /\ pending_ops = 0 /\ open_count = 0
      BY Codes DEF Init
    <2>2. StageAccounting
      BY <1>2, <1>3, <2>1, Codes DEF StageAccounting, CountedSet
    <2>3. PendingAccounting
      BY <1>2, <1>3, <2>1 DEF PendingAccounting, SendingSet, Extra
    <2>4. CountAccounting
      BY <1>2, <1>3, <2>1 DEF CountAccounting
    <2> QED
      BY <2>2, <2>3, <2>4
  <1>5. OneSession /\ CommandInProgress
    BY <1>a, ThreadsFinite
    DEF OneSession, CommandInProgress, Holds, InCommand, Asks, Starting
  <1>6. NoOverlap
    <2>1. Conversation /\ LeaderStarts
      BY <1>a DEF Init, Conversation, LeaderStarts
    <2> QED
      BY <1>a, <2>1, ThreadsFinite DEF NoOverlap, Busy
  <1> QED
    BY <1>1, <1>4, <1>5, <1>6 DEF BusInv

(***************************************************************************)
(* The steps of a thread t.                                                *)
(***************************************************************************)
Moves(t) == \/ Proceeds(t)
            \/ t \in Files /\ FileNext(t)
            \/ t = Net /\ NetNext

(* t moves and nothing else does. *)
LEMMA OthersStay ==
  ASSUME BusInv, NEW t \in Threads, Moves(t)
  PROVE  \A u \in Threads \ {t} :
           /\ pc'[u] = pc[u] /\ cmd'[u] = cmd[u]
           /\ CountedIn(u)' = CountedIn(u) /\ Holds(u)' = Holds(u) /\ Busy(u)' = Busy(u)
           /\ InCommand(u)' = InCommand(u)
  <1>1. \A u \in Threads \ {t} : pc'[u] = pc[u] /\ cmd'[u] = cmd[u]
    BY DEF BusInv, Shape, Moves, Proceeds, CommandNext, StageNext, FileNext, NetNext, Fill, SendOk,
           SendFail, Transfer, Proceed, Receive, ReceiveFail, Result, CountIn, Undo, CountOut,
           ChrOpen, Uncount, ChrRelease, NetOpen, NetStop, SetBittiming, Goto
  <1> QED
    BY <1>1 DEF CountedIn, Holds, Starting, Busy, InCommand

(* How a command leads to the next one. *)
LEMMA Sequel ==
  ASSUME BusInv, NEW t \in Threads, InCommand(t)
  PROVE  /\ Following(t) \in Commands /\ (Asks(Following(t)) => t = Plug)
         /\ ~Starting(t) => Following(t) \notin {"silent", "ext_vcc", "bus_on"}
         /\ Starting(t) => /\ Following(t) \in {"ext_vcc", "bus_on", "none"}
                           /\ (Following(t) = "none" => cmd[t] = "bus_on")
                           /\ t # Plug
         /\ t # Plug => cmd[t] = "btr0btr1" \/ Following(t) # "btr0btr1"
         /\ cmd[t] = "btr0btr1" => Following(t) = "none"
  BY ThreadsFinite, Zenon
  DEF BusInv, Shape, CommandInProgress, Starting, Commands, After, Following, InCommand, Asks

LEMMA TypeStep ==
  ASSUME BusInv, [Next]_vars
  PROVE  Shape'
  <1>0. Shape /\ stage \in Int
    BY DEF BusInv, Shape
  <1>a. "none" \in Commands /\ FirstStart \in Commands /\ FirstStop \in Commands
        /\ "btr0btr1" \in Commands /\ STAGE_ONE_STARTED \in Int
    BY Codes
  <1>b. \A t \in Threads : InCommand(t) => Following(t) \in Commands
    BY Sequel
  <1> DEFINE Labels == {"closed", "stage", "fill", "send", "receive", "result",
                        "undo", "uncount", "open", "unstage", "plugged", "failed"}
  <1>1. ASSUME NEW t \in Threads, Fill(t) PROVE Shape'
    <2>1. cmd_buf' \in [c : Contents, arg : BOOLEAN]
      <3>1. cmd[t] \in Contents
        BY <1>0 DEF Shape, Contents
      <3>2. (cmd[t] = "silent" /\ listen_only) \in BOOLEAN
        OBVIOUS
      <3> QED
        BY <1>1, <3>1, <3>2 DEF Fill
    <2>2. pending_ops' \in Int /\ pc' \in [Threads -> Labels]
      BY <1>0, <1>1 DEF Fill, Goto, Shape
    <2> QED
      BY <1>0, <1>1, <2>1, <2>2 DEF Fill, Shape, adapterVars, historyVars
  <1>2. ASSUME NEW t \in Threads, SendOk(t) \/ SendFail(t) PROVE Shape'
    <2>0. InCommand(t)
      BY <1>2 DEF SendOk, SendFail, Transfer, InCommand
    <2>1. bus' \in {"on", "off"}
      BY <1>0, <1>2 DEF SendOk, SendFail, Execute, Ignore, Shape
    <2>2. silent' \in BOOLEAN
      BY <1>0, <1>2 DEF SendOk, SendFail, Execute, Ignore, Shape
    <2>3. replies' \in Seq(Answers)
      <3>1. Asks(cmd_buf.c) => Answer[cmd_buf.c] \in Answers
        BY Codes DEF Asks, Answers
      <3>2. replies' = replies \/ (Asks(cmd_buf.c) /\ replies' = Append(replies, Answer[cmd_buf.c]))
        BY <1>2 DEF SendOk, SendFail, Execute, Ignore
      <3> QED
        BY <1>0, <3>1, <3>2 DEF Shape
    <2>4. cmd' \in [Threads -> Commands]
      BY <1>0, <1>2, <1>a, <1>b, <2>0 DEF SendOk, SendFail, Proceed, Shape
    <2>5. pc' \in [Threads -> Labels]
      BY <1>0, <1>2 DEF SendOk, SendFail, Proceed, Stranded, Goto, Shape
    <2>6. /\ UNCHANGED <<stage, open_count, cmd_buf, listen_only, restarting, led, exclusive>>
          /\ pending_ops' \in Int
      BY <1>0, <1>2 DEF SendOk, SendFail, Transfer, historyVars, Shape
    <2> QED
      BY <1>0, <2>1, <2>2, <2>3, <2>4, <2>5, <2>6 DEF Shape
  <1>3. ASSUME NEW t \in Threads, Receive(t) PROVE Shape'
    <2>1. Head(replies) \in Answers /\ Tail(replies) \in Seq(Answers)
      BY <1>0, <1>3 DEF Receive, Shape
    <2>2. cmd_buf' \in [c : Contents, arg : BOOLEAN]
      BY <1>0, <1>3, <2>1 DEF Receive, Shape, Contents
    <2>3. pc' \in [Threads -> Labels]
      BY <1>0, <1>3 DEF Receive, Goto, Shape
    <2> QED
      BY <1>0, <1>3, <2>1, <2>2, <2>3 DEF Receive, Shape, historyVars
  <1>4. ASSUME NEW t \in Threads, ReceiveFail(t) PROVE Shape'
    BY <1>0, <1>4, <1>a DEF ReceiveFail, Goto, Shape, adapterVars, historyVars
  <1>5. ASSUME NEW t \in Threads, Result(t) PROVE Shape'
    <2>0. InCommand(t)
      BY <1>5 DEF Result, InCommand
    <2>1. cmd' \in [Threads -> Commands] /\ pc' \in [Threads -> Labels]
      BY <1>0, <1>5, <1>b, <2>0 DEF Result, Proceed, Goto, Shape
    <2>2. replies' \in Seq(Answers)
      BY <1>0, <1>5 DEF Result, Shape
    <2> QED
      BY <1>0, <1>5, <2>1, <2>2 DEF Result, Shape, historyVars
  <1>6. ASSUME NEW p \in Procs, CountIn(p) \/ CountOut(p) \/ Undo(p) PROVE Shape'
    <2>1. led' \in BOOLEAN
      <3>1. (stage + 1 <= STAGE_ONE_STARTED) \in BOOLEAN
        OBVIOUS
      <3> QED
        BY <1>0, <1>6, <3>1 DEF CountIn, CountOut, Undo, Shape, historyVars
    <2>2. p \in Threads
      BY ThreadsFinite
    <2> QED
      BY <1>0, <1>6, <1>a, <2>1, <2>2
      DEF CountIn, CountOut, Undo, Goto, Shape, adapterVars, historyVars
  <1>7. ASSUME NEW f \in Files, FileNext(f) \/ Uncount(f) PROVE Shape'
    <2>1. exclusive' \in BOOLEAN /\ led' = led
      BY <1>0, <1>7 DEF FileNext, ChrOpen, Uncount, ChrRelease, Begin, End, historyVars, Shape
    <2>2. f \in Threads
      BY ThreadsFinite
    <2> QED
      BY <1>0, <1>7, <2>1, <2>2 DEF FileNext, ChrOpen, Uncount, ChrRelease, Goto, Shape,
           adapterVars
  <1>8. ASSUME NetNext PROVE Shape'
    <2>1. exclusive' \in BOOLEAN /\ led' = led
      BY <1>0, <1>8 DEF NetNext, NetOpen, NetStop, SetBittiming, Begin, End, Shape
    <2> QED
      BY <1>0, <1>8, <1>a, <2>1, ThreadsFinite
      DEF NetNext, NetOpen, NetStop, SetBittiming, Goto, Shape, hostVars, adapterVars
  <1>9. ASSUME SetCtrlmode \/ RestartSubmit \/ RestartDone PROVE Shape'
    <2>1. listen_only' \in BOOLEAN /\ restarting' \in BOOLEAN
      BY <1>0, <1>9 DEF SetCtrlmode, RestartSubmit, RestartDone, Shape, hostVars, adapterVars
    <2> QED
      BY <1>0, <1>9, <2>1 DEF SetCtrlmode, RestartSubmit, RestartDone, Shape, hostVars,
           adapterVars, historyVars
  <1>10. ASSUME UNCHANGED vars PROVE Shape'
    BY <1>0, <1>10 DEF Shape, vars, hostVars, adapterVars, historyVars
  <1> QED
    BY <1>1, <1>2, <1>3, <1>4, <1>5, <1>6, <1>7, <1>8, <1>9, <1>10
    DEF Next, Proceeds, CommandNext, StageNext

(* What each step does to the label and the command of its thread. *)
LEMMA CommandMoves ==
  ASSUME BusInv, NEW t \in Threads, Moves(t)
  PROVE  /\ InCommand(t)' <=> cmd'[t] # "none"
         /\ t # Plug => /\ ~Asks(cmd'[t])
                        /\ pc'[t] \notin {"receive", "result", "plugged", "failed"}
                        /\ t = Net => pc'[t] # "uncount"
         /\ t = Plug => /\ ~Starting(t)'
                        /\ pc'[t] \in {"receive", "result"} => Asks(cmd'[t])
                        /\ InCommand(t)' \/ pc'[t] \in {"plugged", "failed"}
  <1>0. Shape /\ CommandInProgress
    BY DEF BusInv
  <1>1. CASE Fill(t)
    BY <1>0, <1>1, ThreadsFinite
    DEF Fill, Goto, Shape, CommandInProgress, InCommand, Starting
  <1>2. CASE SendOk(t) \/ Result(t)
    <2>0. InCommand(t) /\ (t = Plug => ~Starting(t))
      BY <1>0, <1>2 DEF SendOk, Result, Transfer, InCommand, CommandInProgress
    <2>1. CASE Proceed(t)
      <3>1. /\ cmd'[t] = Following(t)
            /\ pc'[t] = (IF Following(t) # "none" THEN "fill"
                         ELSE IF t = Plug THEN "plugged"
                         ELSE IF Starting(t) THEN "open" ELSE "closed")
        BY <1>0, <2>1 DEF Proceed, Goto, Shape
      <3>2. t = Plug => ~Starting(t)'
        BY <2>0, <3>1, Sequel DEF Starting
      <3> QED
        BY <2>0, <3>1, <3>2, Sequel DEF InCommand
    <2>2. CASE SendOk(t) /\ ~Proceed(t)
      <3>1. Asks(cmd[t]) /\ pc'[t] = "receive" /\ cmd'[t] = cmd[t]
        BY <1>0, <2>2 DEF SendOk, Goto, Shape
      <3>2. t = Plug
        BY <1>0, <3>1, ThreadsFinite DEF CommandInProgress
      <3> QED
        BY <1>0, <2>0, <3>1, <3>2 DEF CommandInProgress, InCommand, Starting, Asks
    <2> QED
      BY <1>2, <2>1, <2>2 DEF Result
  <1>3. CASE SendFail(t)
    BY <1>0, <1>3 DEF SendFail, Stranded, Goto, Shape, InCommand, Asks, Starting, CommandInProgress
  <1>4. CASE Receive(t)
    BY <1>0, <1>4, ThreadsFinite
    DEF Receive, Goto, Shape, InCommand, CommandInProgress, Starting
  <1>5. CASE ReceiveFail(t)
    BY <1>0, <1>5, ThreadsFinite
    DEF ReceiveFail, Goto, Shape, InCommand, Asks, Starting, CommandInProgress
  <1>6. CASE t \in Procs /\ StageNext(t)
    BY <1>0, <1>6, Codes, ThreadsFinite
    DEF StageNext, CountIn, Undo, CountOut, Goto, Shape, InCommand, Asks, CommandInProgress
  <1>7. CASE t \in Files /\ (FileNext(t) \/ Uncount(t))
    BY <1>0, <1>7, ThreadsFinite
    DEF FileNext, Uncount, ChrOpen, ChrRelease, Goto, Shape, InCommand, Asks, CommandInProgress
  <1>8. CASE t = Net /\ NetNext
    BY <1>0, <1>8, ThreadsFinite
    DEF NetNext, NetOpen, NetStop, SetBittiming, Goto, Shape, InCommand, Asks, CommandInProgress
  <1> QED
    BY <1>1, <1>2, <1>3, <1>4, <1>5, <1>6, <1>7, <1>8 DEF Moves, Proceeds, CommandNext

LEMMA CommandStep ==
  ASSUME BusInv, [Next]_vars
  PROVE  CommandInProgress'
  <1>0. CommandInProgress
    BY DEF BusInv
  <1>1. ASSUME NEW t \in Threads, Moves(t) PROVE CommandInProgress'
    <2>1. \A u \in Threads \ {t} : pc'[u] = pc[u] /\ cmd'[u] = cmd[u]
      BY <1>1, OthersStay
    <2>2. \A u \in Threads : InCommand(u)' <=> cmd'[u] # "none"
      BY <1>0, <1>1, <2>1, CommandMoves DEF CommandInProgress, InCommand
    <2>3. \A p \in Procs : /\ ~Asks(cmd'[p])
                           /\ pc'[p] \notin {"receive", "result", "plugged", "failed"}
      BY <1>0, <1>1, <2>1, CommandMoves, ThreadsFinite DEF CommandInProgress
    <2>4. /\ ~Starting(Plug)' /\ (pc'[Plug] \in {"receive", "result"} => Asks(cmd'[Plug]))
          /\ InCommand(Plug)' \/ pc'[Plug] \in {"plugged", "failed"}
      BY <1>0, <1>1, <2>1, CommandMoves, ThreadsFinite DEF CommandInProgress, Starting, InCommand
    <2>5. pc'[Net] # "uncount"
      BY <1>0, <1>1, <2>1, CommandMoves, ThreadsFinite DEF CommandInProgress
    <2> QED
      BY <2>2, <2>3, <2>4, <2>5 DEF CommandInProgress
  <1>2. ASSUME UNCHANGED <<pc, cmd>> PROVE CommandInProgress'
    BY <1>0, <1>2 DEF CommandInProgress, InCommand, Starting
  <1> QED
    BY <1>1, <1>2, ThreadsFinite
    DEF Next, Moves, SetCtrlmode, RestartSubmit, RestartDone, vars

(* Which steps count an interface in or out. *)
LEMMA CountedMoves ==
  ASSUME BusInv, NEW p \in Procs, Moves(p)
  PROVE  \/ CountIn(p) /\ ~CountedIn(p) /\ CountedIn(p)' /\ stage' = stage + 1
         \/ (CountOut(p) \/ Undo(p)) /\ CountedIn(p) /\ ~CountedIn(p)' /\ stage' = stage - 1
         \/ (CountedIn(p)' <=> CountedIn(p)) /\ stage' = stage
  <1>0. Shape /\ CommandInProgress /\ p \in Threads /\ p # Plug
    BY ThreadsFinite DEF BusInv
  <1>1. CASE CountIn(p)
    BY <1>0, <1>1, Codes DEF CountIn, CountedIn, Starting, Goto, Shape
  <1>2. CASE CountOut(p) \/ Undo(p)
    BY <1>0, <1>2, Codes DEF CountOut, Undo, CountedIn, Starting, Goto, Shape
  <1>3. CASE Fill(p)
    BY <1>0, <1>3 DEF Fill, CountedIn, Starting, Goto, Shape
  <1>4. CASE SendOk(p)
    <2>1. Proceed(p) /\ pc[p] = "send" /\ InCommand(p) /\ stage' = stage
      BY <1>0, <1>4 DEF SendOk, Transfer, InCommand, CommandInProgress
    <2>2. /\ cmd'[p] = Following(p)
          /\ pc'[p] = (IF Following(p) # "none" THEN "fill"
                       ELSE IF Starting(p) THEN "open" ELSE "closed")
      BY <1>0, <2>1 DEF Proceed, Goto, Shape
    <2> QED
      BY <1>0, <2>1, <2>2, Sequel DEF CountedIn, Starting
  <1>5. CASE SendFail(p)
    BY <1>0, <1>5 DEF SendFail, Transfer, Stranded, CountedIn, Starting, Goto, Shape
  <1>6. CASE p \in Files /\ (FileNext(p) \/ Uncount(p))
    BY <1>0, <1>6 DEF FileNext, ChrOpen, Uncount, ChrRelease, CountedIn, Goto, Shape
  <1>7. CASE p = Net /\ NetNext
    BY <1>0, <1>7
    DEF NetNext, NetOpen, NetStop, SetBittiming, hostVars, CountedIn, Starting, Goto, Shape
  <1>8. ~Receive(p) /\ ~ReceiveFail(p) /\ ~Result(p)
    BY <1>0 DEF CommandInProgress, Receive, ReceiveFail, Result
  <1> QED
    BY <1>0, <1>1, <1>2, <1>3, <1>4, <1>5, <1>6, <1>7, <1>8
    DEF Moves, Proceeds, CommandNext, StageNext

(* Plug-in does not touch the counters of the interfaces. *)
LEMMA PlugMoves ==
  ASSUME BusInv, Moves(Plug)
  PROVE  CommandNext(Plug) /\ UNCHANGED <<stage, open_count, listen_only, historyVars>>
  BY ThreadsFinite
  DEF Moves, Proceeds, CommandNext, Fill, SendOk, SendFail, Transfer, Receive, ReceiveFail,
      Result, historyVars

(* pending_ops follows the sending threads and the question under way. *)
LEMMA SendingMoves ==
  ASSUME BusInv, NEW t \in Threads, Moves(t)
  PROVE  \/ /\ pc[t] # "send" /\ pc'[t] = "send"
            /\ pending_ops' - Extra' = pending_ops - Extra + 1
         \/ /\ pc[t] = "send" /\ pc'[t] # "send"
            /\ pending_ops' - Extra' = pending_ops - Extra - 1
         \/ /\ pc[t] # "send" /\ pc'[t] # "send"
            /\ pending_ops' - Extra' = pending_ops - Extra
  <1>0. Shape /\ CommandInProgress /\ pending_ops \in Int
    BY DEF BusInv, Shape
  <1>1. CASE t # Plug
    <2>1. Extra' = Extra /\ Extra \in Int
      BY <1>1, OthersStay, ThreadsFinite DEF Extra, Waiting, Asks
    <2>2. ~Asks(cmd[t]) /\ pc[t] \notin {"receive", "result"}
      BY <1>0, <1>1, ThreadsFinite DEF CommandInProgress
    <2>3. \/ pc[t] # "send" /\ pc'[t] = "send" /\ pending_ops' = pending_ops + 1
          \/ pc[t] = "send" /\ pc'[t] # "send" /\ pending_ops' = pending_ops - 1
          \/ pc[t] # "send" /\ pc'[t] # "send" /\ pending_ops' = pending_ops
      BY <1>0, <2>2
      DEF Shape, hostVars, Stranded, Moves, Proceeds, CommandNext, StageNext, FileNext, NetNext, Fill, SendOk,
           SendFail, Transfer, Proceed, Receive, ReceiveFail, Result, CountIn, Undo, CountOut,
           ChrOpen, Uncount, ChrRelease, NetOpen, NetStop, SetBittiming, Goto
    <2> QED
      BY <1>0, <2>1, <2>3
  <1>2. CASE t = Plug
    <2>a. CommandNext(Plug) /\ Plug \in Threads
      BY <1>2, PlugMoves, ThreadsFinite
    <2>1. CASE Fill(Plug)
      <3>1. pc[Plug] = "fill" /\ pc'[Plug] = "send" /\ cmd' = cmd
            /\ pending_ops' = pending_ops + (IF Asks(cmd[Plug]) THEN 2 ELSE 1)
        BY <1>0, <2>a, <2>1 DEF Fill, Goto, Shape
      <3>2. Extra = 0 /\ Extra' = (IF Asks(cmd[Plug]) THEN 1 ELSE 0)
        BY <3>1 DEF Extra, Waiting, Asks
      <3> QED
        BY <1>0, <1>2, <3>1, <3>2
    <2>2. CASE SendOk(Plug)
      <3>1. pc[Plug] = "send" /\ pending_ops' = pending_ops - 1
        BY <2>2 DEF SendOk, Transfer
      <3>2. Extra = (IF Asks(cmd[Plug]) THEN 1 ELSE 0)
        BY <3>1 DEF Extra, Waiting
      <3>3. \/ Asks(cmd[Plug]) /\ pc'[Plug] = "receive" /\ cmd' = cmd
            \/ ~Asks(cmd[Plug]) /\ pc'[Plug] \in {"fill", "plugged"}
        BY <1>0, <2>a, <2>2 DEF SendOk, Proceed, Goto, Shape
      <3>4. Extra' = Extra
        BY <3>2, <3>3 DEF Extra, Waiting, Asks
      <3> QED
        BY <1>0, <1>2, <3>1, <3>2, <3>3, <3>4
    <2>3. CASE SendFail(Plug)
      <3>1. /\ pc[Plug] = "send" /\ pc'[Plug] \notin {"send", "receive", "result"}
            /\ pending_ops' = pending_ops - (IF Asks(cmd[Plug]) THEN 2 ELSE 1)
        BY <1>0, <2>a, <2>3 DEF SendFail, Transfer, Stranded, Goto, Shape
      <3>2. Extra = (IF Asks(cmd[Plug]) THEN 1 ELSE 0) /\ Extra' = 0
        BY <3>1 DEF Extra, Waiting
      <3> QED
        BY <1>0, <1>2, <3>1, <3>2
    <2>4. CASE Receive(Plug)
      <3>1. pc[Plug] = "receive" /\ pc'[Plug] = "result" /\ cmd' = cmd /\ Asks(cmd[Plug])
            /\ pending_ops' = pending_ops
        BY <1>0, <2>a, <2>4 DEF Receive, Goto, Shape, CommandInProgress
      <3>2. Extra = 1 /\ Extra' = 1
        BY <3>1 DEF Extra, Waiting, Asks
      <3> QED
        BY <1>0, <1>2, <3>1, <3>2
    <2>5. CASE ReceiveFail(Plug) \/ Result(Plug)
      <3>1. /\ pc[Plug] \in {"receive", "result"} /\ Asks(cmd[Plug])
            /\ pc'[Plug] \notin {"send", "receive", "result"}
            /\ pending_ops' = pending_ops - 1
        BY <1>0, <2>a, <2>5 DEF ReceiveFail, Result, Proceed, Goto, Shape, CommandInProgress
      <3>2. Extra = 1 /\ Extra' = 0
        BY <3>1 DEF Extra, Waiting
      <3> QED
        BY <1>0, <1>2, <3>1, <3>2
    <2> QED
      BY <2>a, <2>1, <2>2, <2>3, <2>4, <2>5 DEF CommandNext
  <1> QED
    BY <1>1, <1>2

InSession(f) == Holds(f) \/ pc[f] = "uncount"

LEMMA SessionMoves ==
  ASSUME BusInv, NEW f \in Files, Moves(f)
  PROVE  \/ ChrOpen(f) /\ ~InSession(f) /\ InSession(f)' /\ open_count' = open_count + 1
         \/ InSession(f) /\ ~InSession(f)' /\ open_count' = open_count - 1 /\ ~Holds(f)'
         \/ /\ (InSession(f)' <=> InSession(f)) /\ open_count' = open_count
            /\ Holds(f)' => Holds(f)
  <1>0. Shape /\ CommandInProgress /\ f \in Procs /\ f \in Threads /\ f # Net /\ f # Plug
    BY ThreadsFinite DEF BusInv
  <1>1. CASE CountIn(f)
    BY <1>0, <1>1, Codes DEF CountIn, Holds, InSession, Starting, Goto, Shape
  <1>2. CASE CountOut(f) \/ Undo(f)
    BY <1>0, <1>2, Codes DEF CountOut, Undo, Holds, InSession, Starting, Goto, Shape
  <1>3. CASE Fill(f)
    BY <1>0, <1>3 DEF Fill, Holds, InSession, Starting, Goto, Shape
  <1>4. CASE SendOk(f)
    <2>1. Proceed(f) /\ pc[f] = "send" /\ InCommand(f) /\ open_count' = open_count
      BY <1>0, <1>4 DEF SendOk, Transfer, InCommand, CommandInProgress
    <2>2. /\ cmd'[f] = Following(f)
          /\ pc'[f] = (IF Following(f) # "none" THEN "fill"
                       ELSE IF Starting(f) THEN "open" ELSE "closed")
      BY <1>0, <2>1 DEF Proceed, Goto, Shape
    <2> QED
      BY <1>0, <2>1, <2>2, Sequel DEF Holds, InSession, Starting
  <1>5. CASE SendFail(f)
    BY <1>0, <1>5 DEF SendFail, Transfer, Stranded, Holds, InSession, Starting, Goto, Shape
  <1>6. CASE FileNext(f) \/ Uncount(f)
    BY <1>0, <1>6 DEF FileNext, ChrOpen, Uncount, ChrRelease, Holds, InSession, Goto, Shape
  <1>7. ~Receive(f) /\ ~ReceiveFail(f) /\ ~Result(f)
    BY <1>0 DEF CommandInProgress, Receive, ReceiveFail, Result
  <1> QED
    BY <1>0, <1>1, <1>2, <1>3, <1>4, <1>5, <1>6, <1>7
    DEF Moves, Proceeds, CommandNext, StageNext

(* A counter that moves with one member of its set remains its cardinality. *)
LEMMA Counter ==
  ASSUME NEW S, NEW T, IsFiniteSet(S), NEW p, NEW n \in Int, NEW m \in Int,
         NEW base \in Int, n = base + Cardinality(S),
         \/ p \notin S /\ T = S \cup {p} /\ m = n + 1
         \/ p \in S /\ T = S \ {p} /\ m = n - 1
         \/ T = S /\ m = n
  PROVE  m = base + Cardinality(T) /\ Cardinality(T) \in Nat
  <1>1. IsFiniteSet(T)
    BY FS_AddElement, FS_RemoveElement
  <1>2. Cardinality(S) \in Nat /\ Cardinality(T) \in Nat
    BY <1>1, FS_CardinalityType
  <1>3. \/ Cardinality(T) = Cardinality(S) + 1 /\ m = n + 1
        \/ Cardinality(T) = Cardinality(S) - 1 /\ m = n - 1
        \/ Cardinality(T) = Cardinality(S) /\ m = n
    BY CardStep, Zenon
  <1>4. \A c, d \in Nat : n = base + c /\ \/ d = c + 1 /\ m = n + 1
                                          \/ d = c - 1 /\ m = n - 1
                                          \/ d = c /\ m = n
                         => m = base + d
    OBVIOUS
  <1> QED
    BY <1>2, <1>3, <1>4, Zenon

LEMMA AccountingStep ==
  ASSUME BusInv, NEW t \in Threads, Moves(t)
  PROVE  StageAccounting' /\ PendingAccounting' /\ CountAccounting'
  <1>0. Shape /\ Shape' /\ StageAccounting /\ PendingAccounting /\ CountAccounting
    BY TypeStep, ThreadsFinite DEF BusInv, Moves, Next
  <1>a. \A u \in Threads \ {t} :
          /\ pc'[u] = pc[u]
          /\ CountedIn(u)' = CountedIn(u) /\ InSession(u)' = InSession(u)
    BY OthersStay DEF InSession
  <1>1. StageAccounting'
    <2>1. \/ t \notin CountedSet /\ CountedSet' = CountedSet \cup {t} /\ stage' = stage + 1
          \/ t \in CountedSet /\ CountedSet' = CountedSet \ {t} /\ stage' = stage - 1
          \/ CountedSet' = CountedSet /\ stage' = stage
      <3>1. CASE t = Plug
        BY <1>a, <3>1, PlugMoves, ThreadsFinite DEF CountedSet
      <3>2. CASE t # Plug
        BY <1>a, <3>2, CountedMoves, ThreadsFinite DEF CountedSet
      <3> QED
        BY <3>1, <3>2
    <2>2. stage \in Int /\ stage' \in Int /\ stage = 1 + Cardinality(CountedSet)
      BY <1>0 DEF Shape, StageAccounting, STAGE_CONNECTED, CountedSet
    <2>3. stage' = 1 + Cardinality(CountedSet')
      BY <2>1, <2>2, ThreadsFinite, Counter
    <2> QED
      BY <2>3 DEF StageAccounting, STAGE_CONNECTED, CountedSet
  <1>2. PendingAccounting'
    <2> DEFINE n == pending_ops - Extra
               m == pending_ops' - Extra'
    <2>1. \/ t \notin SendingSet /\ SendingSet' = SendingSet \cup {t} /\ m = n + 1
          \/ t \in SendingSet /\ SendingSet' = SendingSet \ {t} /\ m = n - 1
          \/ SendingSet' = SendingSet /\ m = n
      BY <1>a, SendingMoves DEF SendingSet
    <2>2. Extra \in Int /\ Extra' \in Int /\ pending_ops \in Int /\ pending_ops' \in Int
      BY <1>0 DEF Shape, Extra
    <2>3. n = 0 + Cardinality(SendingSet) /\ n \in Int /\ m \in Int
      <3>1. pending_ops = Cardinality(SendingSet) + Extra
        BY <1>0 DEF PendingAccounting, SendingSet, Extra
      <3>2. Cardinality(SendingSet) \in Nat
        BY ThreadsFinite, FS_CardinalityType
      <3> QED
        BY <2>2, <3>1, <3>2
    <2> HIDE DEF n, m
    <2>4. m = 0 + Cardinality(SendingSet') /\ Cardinality(SendingSet') \in Nat
      BY <2>1, <2>3, ThreadsFinite, Counter
    <2>5. pending_ops' = Cardinality(SendingSet') + Extra'
      BY <2>2, <2>4 DEF m
    <2> QED
      BY <2>5 DEF PendingAccounting, SendingSet, Extra
  <1>3. CountAccounting'
    <2>1. \/ t \notin Sessions /\ Sessions' = Sessions \cup {t}
             /\ open_count' = open_count + 1
          \/ t \in Sessions /\ Sessions' = Sessions \ {t}
             /\ open_count' = open_count - 1
          \/ Sessions' = Sessions /\ open_count' = open_count
      <3>1. CASE t \in Files
        BY <1>a, <3>1, SessionMoves, ThreadsFinite DEF Sessions, InSession
      <3>2. CASE t \notin Files
        <4>1. Sessions' = Sessions
          BY <1>a, <3>2, ThreadsFinite DEF Sessions, InSession
        <4>2. open_count' = open_count
          BY <3>2, ThreadsFinite DEF hostVars, Moves, Proceeds, CommandNext, StageNext, FileNext, NetNext, Fill, SendOk,
           SendFail, Transfer, Proceed, Receive, ReceiveFail, Result, CountIn, Undo, CountOut,
           ChrOpen, Uncount, ChrRelease, NetOpen, NetStop, SetBittiming, Goto
        <4> QED
          BY <4>1, <4>2
      <3> QED
        BY <3>1, <3>2
    <2>2. open_count = Cardinality(Sessions) /\ open_count \in Int /\ open_count' \in Int
      BY <1>0 DEF CountAccounting, Shape
    <2>3. open_count = 0 + Cardinality(Sessions)
      BY <2>2
    <2>4. open_count' = 0 + Cardinality(Sessions') /\ Cardinality(Sessions') \in Nat
      BY <2>1, <2>2, <2>3, ThreadsFinite, Counter
    <2>5. open_count' = Cardinality(Sessions')
      BY <2>2, <2>4
    <2> QED
      BY <2>5 DEF CountAccounting
  <1> QED
    BY <1>1, <1>2, <1>3

(* Only the open that finds the count at 0 holds the device. *)
LEMMA OneSessionStep ==
  ASSUME BusInv, NEW p \in Threads, Moves(p)
  PROVE  OneSession'
  <1>0. OneSession /\ CountAccounting /\ Shape
    BY DEF BusInv
  <1>1. \A q \in Files \ {p} : Holds(q)' = Holds(q)
    BY OthersStay, ThreadsFinite
  <1>2. CASE p \in Files /\ (Holds(p)' => Holds(p))
    BY <1>0, <1>1, <1>2 DEF OneSession
  <1>3. CASE p \in Files /\ Holds(p)' /\ ~Holds(p)
    <2>1. ChrOpen(p)
      BY <1>3, SessionMoves DEF InSession
    <2>2. open_count = 0
      <3>1. pc'[p] # "uncount"
        BY <1>3 DEF Holds
      <3>2. Cardinality(Sessions) \in Nat
        BY ThreadsFinite, FS_CardinalityType
      <3> QED
        BY <1>0, <2>1, <3>1, <3>2 DEF ChrOpen, Goto, Shape, CountAccounting
    <2>3. Sessions = {}
      BY <1>0, <2>2, ThreadsFinite, FS_EmptySet DEF CountAccounting
    <2>4. \A q \in Files : ~Holds(q)
      BY <2>3 DEF Sessions
    <2> QED
      BY <1>1, <2>4 DEF OneSession
  <1>4. CASE p \notin Files
    BY <1>0, <1>1, <1>4 DEF OneSession
  <1> QED
    BY <1>2, <1>3, <1>4

(* Without overlap, the thread that moves is the only busy one. *)
LEMMA AloneBusy ==
  ASSUME BusInv, NEW t \in Threads, Moves(t), exclusive'
  PROVE  /\ exclusive
         /\ \A u \in Threads \ {t} : ~Busy(u) /\ ~Busy(u)'
  <1>0. Shape /\ NoOverlap
    BY DEF BusInv
  <1>1. exclusive /\ (Quiet \/ Busy(t))
    BY <1>0 DEF Begin, End, Busy, historyVars, Moves, Proceeds, CommandNext, StageNext, FileNext, NetNext, Fill, SendOk,
           SendFail, Transfer, Proceed, Receive, ReceiveFail, Result, CountIn, Undo, CountOut,
           ChrOpen, Uncount, ChrRelease, NetOpen, NetStop, SetBittiming, Goto
  <1>2. \A u \in Threads \ {t} : ~Busy(u)
    BY <1>0, <1>1 DEF NoOverlap, Quiet
  <1> QED
    BY <1>1, <1>2, OthersStay

(* What the adapter does with a command that is not one of the four kinds. *)
LEMMA Effects ==
  ASSUME BusInv, NEW t \in Threads, SendOk(t) \/ SendFail(t)
  PROVE  /\ cmd_buf.c \notin {"bus_on", "bus_off"} => bus' = bus
         /\ cmd_buf.c # "silent" => silent' = silent
         /\ ~Asks(cmd_buf.c) => replies' = replies
         /\ SendOk(t) /\ cmd_buf.c = "bus_on" => bus' = "on"
         /\ SendOk(t) /\ cmd_buf.c = "silent" => silent' = cmd_buf.arg
         /\ SendOk(t) /\ Asks(cmd_buf.c) => replies' = Append(replies, Answer[cmd_buf.c])
  BY DEF SendOk, SendFail, Execute, Ignore

LEMMA BufferStep ==
  ASSUME BusInv, NEW t \in Threads, Moves(t), exclusive'
  PROVE  \A u \in Threads : pc'[u] = "send" => cmd_buf'.c = cmd'[u]
  <1>0. Shape
    BY DEF BusInv
  <1>1. \A u \in Threads \ {t} : pc'[u] # "send"
    BY AloneBusy DEF Busy
  <1>2. pc'[t] = "send" => cmd_buf'.c = cmd'[t]
    <2>1. CASE Fill(t)
      BY <2>1 DEF Fill
    <2>2. CASE ~Fill(t)
      <3>1. pc'[t] # "send"
        BY <1>0, <2>2 DEF Stranded, Shape, Moves, Proceeds, CommandNext, StageNext, FileNext, NetNext, Fill, SendOk,
           SendFail, Transfer, Proceed, Receive, ReceiveFail, Result, CountIn, Undo, CountOut,
           ChrOpen, Uncount, ChrRelease, NetOpen, NetStop, SetBittiming, Goto
      <3> QED
        BY <3>1
    <2> QED
      BY <2>1, <2>2
  <1> QED
    BY <1>1, <1>2

(* A thread takes up a command other than the bit rate only when it is the  *)
(* first interface in or the last one out.                                  *)
LEMMA TakesUp ==
  ASSUME BusInv, NEW t \in Threads, Moves(t), ~InCommand(t), InCommand(t)',
         cmd'[t] # "btr0btr1"
  PROVE  \A p \in Procs \ {t} : pc[p] # "open"
  <1>0. Shape /\ CommandInProgress
    BY DEF BusInv
  <1>1. t \in Procs /\ (CountIn(t) \/ CountOut(t)) /\ pc'[t] = "fill"
    <2>1. ~CommandNext(t)
      BY <1>0 DEF CommandNext, Fill, SendOk, SendFail, Transfer, Receive, ReceiveFail, Result,
                  InCommand
    <2>2. ~(t \in Files /\ (FileNext(t) \/ Uncount(t)))
      BY <1>0, ThreadsFinite
      DEF FileNext, Uncount, ChrOpen, ChrRelease, Goto, InCommand, Shape
    <2>3. ~(t = Net /\ NetNext)
      BY <1>0, ThreadsFinite
      DEF NetNext, NetOpen, NetStop, SetBittiming, Goto, InCommand, Shape
    <2>4. t \in Procs /\ StageNext(t)
      BY <2>1, <2>2, <2>3 DEF Moves, Proceeds
    <2> QED
      BY <1>0, <2>4 DEF StageNext, CountIn, CountOut, Undo, Goto, InCommand, Shape
  <1>2. CASE CountIn(t)
    <2>1. CountedSet = {}
      BY <1>0, <1>1, <1>2, FewCounted DEF CountIn, Goto, Shape
    <2> QED
      BY <2>1 DEF CountedSet, CountedIn
  <1>3. CASE CountOut(t)
    <2>1. stage - 1 < STAGE_ONE_STARTED /\ CountedIn(t)
      BY <1>0, <1>1, <1>3, Codes DEF CountOut, Goto, Shape, CountedIn
    <2>2. CountedSet = {t}
      BY <1>1, <2>1, FewCounted
    <2> QED
      BY <2>2 DEF CountedSet, CountedIn
  <1> QED
    BY <1>1, <1>2, <1>3

LEMMA AloneStep ==
  ASSUME BusInv, NEW t \in Threads, Moves(t), exclusive'
  PROVE  \A u \in Threads, p \in Procs :
           InCommand(u)' /\ cmd'[u] # "btr0btr1" => pc'[p] # "open"
  <1>0. Shape /\ CommandInProgress /\ NoOverlap /\ exclusive
    BY AloneBusy DEF BusInv
  <1> SUFFICES ASSUME NEW u \in Threads, NEW p \in Procs, InCommand(u)', cmd'[u] # "btr0btr1"
               PROVE  pc'[p] # "open"
    OBVIOUS
  <1>1. u = t
    BY AloneBusy DEF InCommand, Busy
  <1>2. p = t => pc'[p] # "open"
    BY <1>1 DEF InCommand
  <1>3. ASSUME p # t PROVE pc'[p] # "open"
    <2>0. pc'[p] = pc[p]
      BY <1>3, OthersStay, ThreadsFinite
    <2>1. CASE ~InCommand(t)
      BY <1>1, <1>3, <2>0, <2>1, TakesUp
    <2>2. CASE InCommand(t) /\ cmd[t] # "btr0btr1"
      BY <1>0, <2>0, <2>2 DEF NoOverlap
    <2>3. CASE InCommand(t) /\ cmd[t] = "btr0btr1"
      <3>1. Following(t) = "none" /\ ~Asks(cmd[t])
        BY <2>3, Sequel DEF Asks
      <3>2. cmd'[t] \in {"btr0btr1", "none"}
        BY <1>0, <2>3, <3>1
        DEF Stranded, Shape, InCommand, hostVars, Moves, Proceeds, CommandNext, StageNext, FileNext, NetNext, Fill, SendOk,
           SendFail, Transfer, Proceed, Receive, ReceiveFail, Result, CountIn, Undo, CountOut,
           ChrOpen, Uncount, ChrRelease, NetOpen, NetStop, SetBittiming, Goto
      <3>3. cmd'[t] # "none"
        BY <1>1, CommandMoves
      <3> QED
        BY <1>1, <3>2, <3>3
    <2> QED
      BY <2>1, <2>2, <2>3
  <1> QED
    BY <1>2, <1>3

LEMMA BusOnStep ==
  ASSUME BusInv, NEW t \in Threads, Moves(t), exclusive'
  PROVE  (\E p \in Procs : pc'[p] = "open") => bus' = "on"
  <1>0. Shape /\ CommandInProgress /\ NoOverlap /\ exclusive
    BY AloneBusy DEF BusInv
  <1>a. /\ \A u \in Threads : pc[u] = "send" => cmd_buf.c = cmd[u]
        /\ \A u \in Threads, p \in Procs : InCommand(u) /\ cmd[u] # "btr0btr1" => pc[p] # "open"
        /\ (\E p \in Procs : pc[p] = "open") => bus = "on"
    BY <1>0 DEF NoOverlap
  <1>b. \A p \in Procs \ {t} : pc'[p] = pc[p] /\ pc[p] \in {"closed", "open"}
    <2>1. \A p \in Procs \ {t} : pc'[p] = pc[p] /\ ~Busy(p) /\ pc[p] \notin {"plugged", "failed"}
      BY <1>0, AloneBusy, OthersStay, ThreadsFinite DEF CommandInProgress
    <2> QED
      BY <2>1 DEF Busy
  <1> SUFFICES ASSUME NEW q \in Procs, pc'[q] = "open" PROVE bus' = "on"
    OBVIOUS
  <1>1. CASE SendOk(t) \/ SendFail(t)
    <2>0. pc[t] = "send" /\ InCommand(t) /\ cmd_buf.c = cmd[t]
      BY <1>a, <1>1 DEF SendOk, SendFail, Transfer, InCommand
    <2>1. CASE q # t
      <3>1. pc[q] = "open" /\ cmd[t] = "btr0btr1"
        BY <1>a, <1>b, <2>0, <2>1
      <3>2. bus' = bus
        BY <1>1, <2>0, <3>1, Effects
      <3> QED
        BY <1>a, <3>1, <3>2
    <2>2. CASE q = t
      <3>1. SendOk(t) /\ Following(t) = "none" /\ Starting(t)
        BY <1>0, <1>1, <2>2, ThreadsFinite
        DEF SendOk, SendFail, Proceed, Stranded, Goto, Shape
      <3>2. cmd_buf.c = "bus_on"
        BY <2>0, <3>1, Sequel
      <3> QED
        BY <3>1, <3>2, Effects
    <2> QED
      BY <2>1, <2>2
  <1>2. CASE CountIn(t) /\ q = t
    <2>1. stage + 1 > STAGE_ONE_STARTED /\ pc[t] = "stage" /\ bus' = bus
      BY <1>0, <1>2 DEF CountIn, Goto, Shape, adapterVars
    <2>2. stage = 1 + Cardinality(CountedSet)
      BY DEF BusInv, StageAccounting, CountedSet, STAGE_CONNECTED
    <2>3. CountedSet # {}
      BY <2>1, <2>2, FS_EmptySet DEF STAGE_ONE_STARTED
    <2>4. PICK r \in Procs : CountedIn(r)
      BY <2>3 DEF CountedSet
    <2>5. r # t
      BY <2>1, <2>4 DEF CountedIn
    <2>6. pc[r] = "open"
      BY <1>b, <2>4, <2>5 DEF CountedIn
    <2> QED
      BY <1>a, <2>1, <2>6
  <1>3. CASE ~SendOk(t) /\ ~SendFail(t) /\ ~(CountIn(t) /\ q = t)
    <2>1. bus' = bus
      BY <1>3 DEF adapterVars, Moves, Proceeds, CommandNext, StageNext, FileNext, NetNext, Fill, SendOk,
           SendFail, Transfer, Proceed, Receive, ReceiveFail, Result, CountIn, Undo, CountOut,
           ChrOpen, Uncount, ChrRelease, NetOpen, NetStop, SetBittiming, Goto
    <2>2. q # t
      <3>1. ~(Result(t) /\ q = t)
        BY <1>0, ThreadsFinite DEF Result, CommandInProgress
      <3> QED
        BY <1>0, <1>3, <3>1 DEF Shape, Moves, Proceeds, CommandNext, StageNext, FileNext, NetNext, Fill, SendOk,
           SendFail, Transfer, Proceed, Receive, ReceiveFail, Result, CountIn, Undo, CountOut,
           ChrOpen, Uncount, ChrRelease, NetOpen, NetStop, SetBittiming, Goto
    <2> QED
      BY <1>a, <1>b, <2>1, <2>2
  <1> QED
    BY <1>1, <1>2, <1>3

LEMMA ConversationStep ==
  ASSUME BusInv, NEW t \in Threads, Moves(t), exclusive'
  PROVE  Conversation'
  <1>0. /\ Shape /\ CommandInProgress /\ Conversation
        /\ \A u \in Threads : pc[u] = "send" => cmd_buf.c = cmd[u]
    BY AloneBusy DEF BusInv, NoOverlap
  <1>a. replies \in Seq(Answers) /\ Plug \in Threads
    BY <1>0, ThreadsFinite DEF Shape
  <1>1. CASE t # Plug
    <2>1. pc[Plug] \in {"plugged", "failed"} /\ pc'[Plug] = pc[Plug]
      BY <1>0, <1>1, AloneBusy, OthersStay, ThreadsFinite DEF CommandInProgress, Busy, InCommand
    <2>2. ~Asks(cmd[t]) /\ ~Receive(t) /\ ~ReceiveFail(t) /\ ~Result(t)
      BY <1>0, <1>1, ThreadsFinite DEF CommandInProgress, Receive, ReceiveFail, Result
    <2>3. replies' = replies
      <3>1. CASE SendOk(t) \/ SendFail(t)
        <4>1. ~Asks(cmd_buf.c)
          BY <1>0, <2>2, <3>1 DEF SendOk, SendFail, Transfer
        <4> QED
          BY <3>1, <4>1, Effects
      <3>2. CASE ~SendOk(t) /\ ~SendFail(t)
        BY <2>2, <3>2 DEF adapterVars, Moves, Proceeds, CommandNext, StageNext, FileNext, NetNext, Fill, SendOk,
           SendFail, Transfer, Proceed, Receive, ReceiveFail, Result, CountIn, Undo, CountOut,
           ChrOpen, Uncount, ChrRelease, NetOpen, NetStop, SetBittiming, Goto
      <3> QED
        BY <3>1, <3>2
    <2> QED
      BY <1>0, <2>1, <2>3 DEF Conversation
  <1>2. CASE t = Plug
    <2>0. CommandNext(Plug)
      BY <1>2, PlugMoves
    <2>1. CASE Fill(Plug)
      <3>1. pc[Plug] = "fill" /\ pc'[Plug] = "send" /\ replies' = replies
        BY <1>0, <1>a, <2>1 DEF Fill, Goto, Shape, adapterVars
      <3> QED
        BY <1>0, <3>1 DEF Conversation
    <2>2. CASE SendOk(Plug)
      <3>1. pc[Plug] = "send" /\ cmd_buf.c = cmd[Plug] /\ replies = <<>>
        BY <1>0, <1>a, <2>2 DEF SendOk, Transfer, Conversation
      <3>2. CASE Asks(cmd[Plug])
        <4>1. pc'[Plug] = "receive" /\ cmd' = cmd
          BY <1>0, <1>a, <2>2, <3>2 DEF SendOk, Goto, Shape
        <4>2. replies' = Append(replies, Answer[cmd[Plug]])
          BY <1>a, <2>2, <3>1, <3>2, Effects
        <4>3. replies' = <<Answer[cmd'[Plug]]>>
          BY <3>1, <4>1, <4>2
        <4> QED
          BY <4>1, <4>3 DEF Conversation
      <3>3. CASE ~Asks(cmd[Plug])
        <4>1. pc'[Plug] \in {"fill", "plugged"}
          BY <1>0, <1>a, <2>2, <3>3 DEF SendOk, Proceed, Goto, Shape
        <4>2. replies' = replies
          BY <1>a, <2>2, <3>1, <3>3, Effects
        <4> QED
          BY <3>1, <4>1, <4>2 DEF Conversation
      <3> QED
        BY <3>2, <3>3
    <2>3. CASE SendFail(Plug)
      <3>1. pc[Plug] = "send" /\ cmd_buf.c = cmd[Plug] /\ replies = <<>> /\ ~Starting(Plug)
        BY <1>0, <1>a, <2>3 DEF SendFail, Transfer, Conversation, CommandInProgress
      <3>2. pc'[Plug] = (IF cmd[Plug] = "btr0btr1" THEN "plugged" ELSE "failed")
        BY <1>0, <1>a, <2>3, <3>1 DEF SendFail, Stranded, Goto, Shape
      <3>3. CASE cmd[Plug] = "btr0btr1"
        <4>1. replies' = replies
          BY <1>a, <2>3, <3>1, <3>3, Effects DEF Asks
        <4> QED
          BY <3>1, <3>2, <3>3, <4>1 DEF Conversation
      <3> QED
        BY <3>2, <3>3 DEF Conversation
    <2>4. CASE Receive(Plug)
      <3>1. pc[Plug] = "receive" /\ pc'[Plug] = "result" /\ cmd' = cmd
        BY <1>0, <1>a, <2>4 DEF Receive, Goto, Shape
      <3>2. replies = <<Answer[cmd[Plug]]>>
        BY <1>0, <3>1 DEF Conversation
      <3>3. Head(replies) = Answer[cmd[Plug]] /\ Tail(replies) = <<>>
        BY <3>2
      <3>4. replies' = <<>> /\ cmd_buf'.c = Answer[cmd'[Plug]]
        BY <1>0, <2>4, <3>1, <3>3 DEF Receive, Shape
      <3> QED
        BY <3>1, <3>4 DEF Conversation
    <2>5. CASE ReceiveFail(Plug)
      <3>1. pc'[Plug] = "failed"
        BY <1>0, <1>a, <2>5 DEF ReceiveFail, Goto, Shape
      <3> QED
        BY <3>1 DEF Conversation
    <2>6. CASE Result(Plug)
      <3>1. pc[Plug] = "result" /\ pc'[Plug] \in {"fill", "plugged"}
        BY <1>0, <1>a, <2>6 DEF Result, Proceed, Goto, Shape
      <3>2. replies = <<>>
        BY <1>0, <3>1 DEF Conversation
      <3>3. replies' = <<>>
        BY <2>6, <3>2 DEF Result
      <3> QED
        BY <3>1, <3>3 DEF Conversation
    <2> QED
      BY <2>0, <2>1, <2>2, <2>3, <2>4, <2>5, <2>6 DEF CommandNext
  <1> QED
    BY <1>1, <1>2

LEMMA LeaderStep ==
  ASSUME BusInv, NEW t \in Threads, Moves(t), exclusive'
  PROVE  LeaderStarts'
  <1>0. /\ Shape /\ CommandInProgress /\ LeaderStarts
        /\ \A u \in Threads : pc[u] = "send" => cmd_buf.c = cmd[u]
        /\ \A u \in Threads, p \in Procs : InCommand(u) /\ cmd[u] # "btr0btr1" => pc[p] # "open"
    BY AloneBusy DEF BusInv, NoOverlap
  <1>a. Net \in Threads /\ Net \in Procs /\ Net # Plug /\ Net \notin Files
    BY ThreadsFinite
  <1>b. listen_only' = listen_only
    BY DEF hostVars, Moves, Proceeds, CommandNext, StageNext, FileNext, NetNext, Fill, SendOk,
           SendFail, Transfer, Proceed, Receive, ReceiveFail, Result, CountIn, Undo, CountOut,
           ChrOpen, Uncount, ChrRelease, NetOpen, NetStop, SetBittiming, Goto
  <1> SUFFICES ASSUME HasSilent, led'
               PROVE  /\ pc'[Net] = "send" /\ cmd'[Net] = "silent" => cmd_buf'.arg = listen_only
                      /\ \/ pc'[Net] = "open"
                         \/ pc'[Net] \in {"fill", "send"} /\ cmd'[Net] \in {"ext_vcc", "bus_on"}
                         => silent' = listen_only
    BY <1>b DEF LeaderStarts
  <1>1. CASE t # Net
    <2>1. pc'[Net] = pc[Net] /\ pc[Net] \in {"closed", "open"} /\ led
      <3>1. pc'[Net] = pc[Net] /\ ~Busy(Net) /\ pc[Net] \notin {"plugged", "failed"}
        BY <1>0, <1>1, <1>a, AloneBusy, OthersStay DEF CommandInProgress
      <3>2. led' = led
        BY <1>1 DEF Begin, End, historyVars, Moves, Proceeds, CommandNext, StageNext, FileNext, NetNext, Fill, SendOk,
           SendFail, Transfer, Proceed, Receive, ReceiveFail, Result, CountIn, Undo, CountOut,
           ChrOpen, Uncount, ChrRelease, NetOpen, NetStop, SetBittiming, Goto
      <3> QED
        BY <3>1, <3>2 DEF Busy
    <2>2. ASSUME pc[Net] = "open" PROVE silent' = silent
      <3>1. CASE SendOk(t) \/ SendFail(t)
        <4>1. cmd_buf.c = "btr0btr1"
          BY <1>0, <1>a, <2>2, <3>1 DEF SendOk, SendFail, Transfer, InCommand
        <4> QED
          BY <3>1, <4>1, Effects
      <3>2. CASE ~SendOk(t) /\ ~SendFail(t)
        BY <3>2 DEF adapterVars, Moves, Proceeds, CommandNext, StageNext, FileNext, NetNext, Fill, SendOk,
           SendFail, Transfer, Proceed, Receive, ReceiveFail, Result, CountIn, Undo, CountOut,
           ChrOpen, Uncount, ChrRelease, NetOpen, NetStop, SetBittiming, Goto
      <3> QED
        BY <3>1, <3>2
    <2> QED
      BY <1>0, <2>1, <2>2 DEF LeaderStarts
  <1>2. CASE t = Net
    <2>1. CASE Fill(Net)
      <3>1. /\ pc[Net] = "fill" /\ pc'[Net] = "send" /\ cmd' = cmd /\ silent' = silent /\ led
            /\ cmd_buf'.arg = (cmd[Net] = "silent" /\ listen_only)
        BY <1>0, <1>a, <2>1 DEF Fill, Goto, Shape, adapterVars, historyVars
      <3>2. cmd[Net] = "silent" => cmd_buf'.arg = listen_only
        <4>1. listen_only \in BOOLEAN
          BY <1>0 DEF Shape
        <4> QED
          BY <3>1, <4>1, Zenon
      <3>3. cmd[Net] \in {"ext_vcc", "bus_on"} => silent = listen_only
        BY <1>0, <3>1 DEF LeaderStarts
      <3> QED
        BY <3>1, <3>2, <3>3
    <2>2. CASE SendOk(Net)
      <3>1. /\ pc[Net] = "send" /\ InCommand(Net) /\ cmd_buf.c = cmd[Net] /\ led
            /\ Proceed(Net)
        BY <1>0, <1>a, <2>2
        DEF SendOk, Transfer, historyVars, InCommand, CommandInProgress
      <3>2. /\ cmd'[Net] = Following(Net)
            /\ pc'[Net] = (IF Following(Net) # "none" THEN "fill"
                           ELSE IF Starting(Net) THEN "open" ELSE "closed")
        BY <1>0, <1>a, <3>1 DEF Proceed, Goto, Shape
      <3>3. CASE ~Starting(Net)
        BY <1>a, <3>1, <3>2, <3>3, Sequel
      <3>4. CASE cmd[Net] = "silent"
        <4>1. silent' = listen_only
          BY <1>0, <1>a, <2>2, <3>1, <3>4, Effects DEF LeaderStarts
        <4>2. Following(Net) # "silent" /\ pc'[Net] # "send"
          BY <1>a, <3>1, <3>2, <3>4, Sequel DEF Starting
        <4> QED
          BY <4>1, <4>2
      <3>5. CASE cmd[Net] \in {"ext_vcc", "bus_on"}
        <4>1. silent' = silent /\ silent = listen_only
          BY <1>0, <1>a, <2>2, <3>1, <3>5, Effects DEF LeaderStarts
        <4> QED
          BY <3>2, <4>1
      <3> QED
        BY <3>3, <3>4, <3>5 DEF Starting
    <2>3. CASE SendFail(Net)
      BY <1>0, <1>a, <2>3 DEF SendFail, Stranded, Goto, Shape
    <2>4. CASE CountIn(Net)
      <3>1. stage + 1 <= STAGE_ONE_STARTED
        BY <2>4 DEF CountIn
      <3>2. pc'[Net] = "fill" /\ cmd'[Net] = "silent"
        <4>1. CountedSet = {} /\ stage \in Int
          BY <1>0, <3>1, FewCounted, <1>a DEF Shape
        <4>2. pc'[Net] = "fill" /\ cmd'[Net] = FirstStart
          BY <1>0, <1>a, <2>4, <3>1, <4>1, Codes DEF CountIn, Goto, Shape
        <4> QED
          BY <4>2, Codes
      <3> QED
        BY <3>2
    <2>5. CASE Undo(Net) \/ CountOut(Net)
      BY <1>0, <1>a, <2>5, Codes DEF Undo, CountOut, Goto, Shape
    <2>6. CASE NetNext
      BY <1>0, <1>a, <2>6 DEF NetNext, NetOpen, NetStop, SetBittiming, Goto, Shape
    <2>7. ~Receive(Net) /\ ~ReceiveFail(Net) /\ ~Result(Net)
      BY <1>0, <1>a DEF CommandInProgress, Receive, ReceiveFail, Result
    <2> QED
      BY <1>2, <1>a, <2>1, <2>2, <2>3, <2>4, <2>5, <2>6, <2>7
      DEF Moves, Proceeds, CommandNext, StageNext
  <1> QED
    BY <1>1, <1>2

LEMMA NoOverlapStep ==
  ASSUME BusInv, NEW t \in Threads, Moves(t)
  PROVE  NoOverlap'
  <1> SUFFICES ASSUME exclusive' PROVE NoOverlap'
    BY DEF NoOverlap
  <1>1. \A u, v \in Threads : Busy(u)' /\ Busy(v)' => u = v
    BY AloneBusy
  <1> QED
    BY <1>1, BufferStep, AloneStep, BusOnStep, ConversationStep, LeaderStep
    DEF NoOverlap, InCommand

LEMMA BusInvStep == BusInv /\ [Next]_vars => BusInv'
  <1> SUFFICES ASSUME BusInv, [Next]_vars PROVE BusInv'
    OBVIOUS
  <1>0. Shape' /\ CommandInProgress'
    BY TypeStep, CommandStep
  <1>1. ASSUME NEW t \in Threads, Moves(t) PROVE BusInv'
    BY <1>0, <1>1, AccountingStep, OneSessionStep, NoOverlapStep DEF BusInv
  <1>2. ASSUME UNCHANGED <<stage, pending_ops, open_count, cmd_buf, silent, replies, pc, cmd,
                           led, exclusive>>,
               bus' \in {bus, "on"}, listen_only' = listen_only \/ pc[Net] = "closed"
        PROVE  BusInv'
    <2>1. StageAccounting' /\ PendingAccounting' /\ CountAccounting' /\ OneSession'
      BY <1>2 DEF BusInv, StageAccounting, PendingAccounting, CountAccounting, OneSession,
             CountedIn, Sessions, Holds, Starting, Waiting
    <2>2. Conversation' <=> Conversation
      BY <1>2 DEF Conversation
    <2>3. LeaderStarts => LeaderStarts'
      BY <1>2 DEF LeaderStarts
    <2>4. NoOverlap'
      BY <1>2, <2>2, <2>3 DEF BusInv, NoOverlap, Busy, InCommand
    <2> QED
      BY <1>0, <2>1, <2>4 DEF BusInv
  <1>3. \/ \E t \in Threads : Moves(t)
        \/ SetCtrlmode \/ RestartSubmit \/ RestartDone \/ UNCHANGED vars
    BY ThreadsFinite DEF Next, Moves
  <1> QED
    BY <1>1, <1>2, <1>3
    DEF SetCtrlmode, RestartSubmit, RestartDone, vars, hostVars, adapterVars, historyVars

(* Every reachable state of plug-in and the two interfaces satisfies BusInv. *)
THEOREM BusInvariant == Spec => []BusInv
  <1> QED
    BY BusInvInit, BusInvStep, PTL DEF Spec

(* Every variable keeps its type, and no counter runs below its start. *)
THEOREM TypesCorrect == Spec => []TypeOK
  <1>1. ASSUME BusInv PROVE TypeOK
    <2>1. /\ Cardinality(CountedSet) \in Nat /\ Cardinality(SendingSet) \in Nat
          /\ Cardinality(Sessions) \in Nat
      BY ThreadsFinite, FS_CardinalityType
    <2>2. /\ stage = 1 + Cardinality(CountedSet)
          /\ pending_ops = Cardinality(SendingSet) + Extra /\ Extra \in {0, 1}
          /\ open_count = Cardinality(Sessions)
      BY <1>1 DEF BusInv, StageAccounting, PendingAccounting, CountAccounting,
                  CountedSet, SendingSet, STAGE_CONNECTED, Extra
    <2>3. Shape
      BY <1>1 DEF BusInv
    <2> QED
      BY <2>1, <2>2, <2>3 DEF TypeOK, STAGE_CONNECTED
  <1> QED
    BY <1>1, BusInvariant, PTL

(* stage always tells how many interfaces are started or starting. *)
THEOREM StageCounts == Spec => []StageAccounting
  <1>1. BusInv => StageAccounting
    BY DEF BusInv
  <1> QED
    BY <1>1, BusInvariant, PTL

(* pending_ops always tells how many commands are under way. *)
THEOREM PendingCounts == Spec => []PendingAccounting
  <1>1. BusInv => PendingAccounting
    BY DEF BusInv
  <1> QED
    BY <1>1, BusInvariant, PTL

(* However many opens of the character device compete, one is in force. *)
THEOREM OneSessionOnly == Spec => []OneSession
  <1>1. BusInv => OneSession
    BY DEF BusInv
  <1> QED
    BY <1>1, BusInvariant, PTL

(* Operations that do not overlap leave the bus on exactly when it must be: *)
(* a started interface has it.                                              *)
THEOREM BusOnWithoutOverlap == Spec => []ExclusiveBusOn
  <1>1. ASSUME BusInv PROVE ExclusiveBusOn
    <2> SUFFICES ASSUME exclusive, Quiet, stage >= STAGE_ONE_STARTED PROVE bus = "on"
      BY DEF ExclusiveBusOn, BusFollowsStage
    <2>1. stage = 1 + Cardinality(CountedSet)
      BY <1>1 DEF BusInv, StageAccounting, CountedSet, STAGE_CONNECTED
    <2>2. CountedSet # {}
      BY <2>1, FS_EmptySet DEF STAGE_ONE_STARTED
    <2>3. PICK p \in Procs : CountedIn(p)
      BY <2>2 DEF CountedSet
    <2>4. pc[p] = "open"
      BY <2>3, ThreadsFinite DEF Quiet, Busy, CountedIn
    <2> QED
      BY <1>1, <2>4 DEF BusInv, NoOverlap
  <1> QED
    BY <1>1, BusInvariant, PTL

(* Each answer that a plug-in without overlap copies out of the shared      *)
(* buffer is the one to its question.                                       *)
THEOREM IdentityWithoutOverlap == Spec => []ExclusiveIdentity
  <1>1. BusInv => ExclusiveIdentity
    BY DEF BusInv, NoOverlap, Conversation, ExclusiveIdentity
  <1> QED
    BY <1>1, BusInvariant, PTL

(* The mode of a network device that started the bus stays in force while   *)
(* it is up.                                                                *)
THEOREM LeaderKeepsMode == Spec => []LeaderListens
  <1>1. BusInv => LeaderListens
    BY DEF BusInv, NoOverlap, LeaderStarts, LeaderListens
  <1> QED
    BY <1>1, BusInvariant, PTL
=============================================================================
