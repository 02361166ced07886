------------------------------- MODULE TxEcho -------------------------------
(***************************************************************************)
(* What the network device promises about the frames it accepts and their  *)
(* echoes, the copies that are looped back to the local sockets.  Frames    *)
(* are taken one at a time.  A frame goes to the endpoint at most once, and *)
(* only when its echo has been kept; at most as many are under way as       *)
(* there are contexts.  Its echo leaves when its own transfer has ended,    *)
(* when its own submission is refused, or when all echoes are flushed: it   *)
(* is never looped back before, twice, or in place of another frame's.     *)
(* Only of a device that has been detached may an echo stay behind.         *)
(*                                                                         *)
(* TxPath shows that netdev_operations.c implements this specification.    *)
(***************************************************************************)
EXTENDS Integers, FiniteSets

CONSTANT Capacity    \* transfers that can be under way

VARIABLES
    accepted,  \* frames accepted so far; the number of the last one
    call,      \* what the transmit call does with it: "none", "claimed" or "kept"
    sent,      \* frames at the endpoint
    ended,     \* the frame whose transfer has ended, until its echo is seen to
    echoes,    \* frames whose echo is kept
    attached   \* the device has not been detached

None == 0

echoVars == <<accepted, call, sent, ended, echoes, attached>>

EchoInit == /\ accepted = 0 /\ call = "none"
            /\ sent = {} /\ ended = None /\ echoes = {}
            /\ attached = TRUE

Accept == /\ call = "none"
          /\ accepted' = accepted + 1
          /\ call' \in {"claimed", "none"}    \* or dropped at once
          /\ UNCHANGED <<sent, ended, echoes, attached>>

Keep == /\ call = "claimed"
        /\ Cardinality(echoes) < Capacity
        /\ echoes' = echoes \cup {accepted}
        /\ call' = "kept"
        /\ UNCHANGED <<accepted, sent, ended, attached>>

Send == /\ call = "kept"
        /\ Cardinality(sent) < Capacity
        /\ sent' = sent \cup {accepted}
        /\ call' = "none"
        /\ UNCHANGED <<accepted, ended, echoes, attached>>

Withdraw == /\ call = "kept"
            /\ echoes' = echoes \ {accepted}
            /\ call' = "none"
            /\ UNCHANGED <<accepted, sent, ended, attached>>

End == /\ ended = None
       /\ ended' \in sent
       /\ sent' = sent \ {ended'}
       /\ UNCHANGED <<accepted, call, echoes, attached>>

LoopBack == /\ ended # None
            /\ echoes' = echoes \ {ended}
            /\ ended' = None
            /\ UNCHANGED <<accepted, call, sent, attached>>

Forget == /\ ended # None
          /\ ~attached
          /\ ended' = None
          /\ UNCHANGED <<accepted, call, sent, echoes, attached>>

Flush == /\ echoes' = {}
         /\ UNCHANGED <<accepted, call, sent, ended, attached>>

Detach == /\ attached' = FALSE
          /\ UNCHANGED <<accepted, call, sent, ended, echoes>>

EchoNext == \/ Accept \/ Keep \/ Send \/ Withdraw
            \/ End \/ LoopBack \/ Forget
            \/ Flush \/ Detach

EchoSpec == EchoInit /\ [][EchoNext]_echoVars
=============================================================================
