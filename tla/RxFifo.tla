------------------------------- MODULE RxFifo -------------------------------
(***************************************************************************)
(* What the character device promises about the frames it receives: one    *)
(* session at a time, each of which begins with an empty bounded first-in  *)
(* first-out queue.  While a session is open nothing empties the queue, and *)
(* a frame that has entered it leaves it exactly once, in order, as part   *)
(* of the batch handed to one reader.  Frames may be refused at the        *)
(* entrance (queue full) and a batch may be dropped on its way to the user  *)
(* (a copy fault), but nothing is reordered, duplicated or invented.       *)
(*                                                                         *)
(* RxRing shows that the ring of chardev_operations.[ch], chardev_ioctl.c  *)
(* and packet_codec.c implements this specification.                       *)
(***************************************************************************)
EXTENDS Integers, Sequences

CONSTANTS Readers,  \* threads that read from the open file
          Items,    \* contents a queue entry can have
          Capacity  \* entries the queue can hold

VARIABLES queue,    \* frames published and not yet taken
          hand,     \* hand[r]: the batch reader r is carrying to its user
          session   \* "closed", "opening" or "open"

fifoVars == <<queue, hand, session>>

FifoInit == /\ queue = << >>
            /\ hand = [r \in Readers |-> << >>]
            /\ session = "closed"

(* An open that is alone begins with an empty queue. *)
Begin == /\ session = "closed"
         /\ session' = "opening"
         /\ queue' = << >>
         /\ UNCHANGED hand

(* It succeeds, or fails to start the bus. *)
Open == /\ session = "opening"
        /\ session' \in {"open", "closed"}
        /\ UNCHANGED <<queue, hand>>

(* Nobody carries a batch out of a session that is over. *)
Close == /\ session = "open"
         /\ \A r \in Readers : hand[r] = << >>
         /\ session' = "closed"
         /\ UNCHANGED <<queue, hand>>

(* A frame may come at any time: nobody takes it outside of a session. *)
Put(m) == /\ Len(queue) < Capacity
          /\ queue' = Append(queue, m)
          /\ UNCHANGED <<hand, session>>

Take(r, k) == /\ session = "open"
              /\ hand[r] = << >>
              /\ k \in 1..Len(queue)
              /\ hand' = [hand EXCEPT ![r] = SubSeq(queue, 1, k)]
              /\ queue' = SubSeq(queue, k + 1, Len(queue))
              /\ UNCHANGED session

HandOver(r) == /\ hand[r] # << >>
               /\ hand' = [hand EXCEPT ![r] = << >>]
               /\ UNCHANGED <<queue, session>>

FifoNext == \/ Begin \/ Open \/ Close
            \/ \E m \in Items : Put(m)
            \/ \E r \in Readers : \/ \E k \in 1..Capacity : Take(r, k)
                                  \/ HandOver(r)

FifoSpec == FifoInit /\ [][FifoNext]_fifoVars
=============================================================================
