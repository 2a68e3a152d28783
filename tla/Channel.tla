------------------------------ MODULE Channel -------------------------------
(***************************************************************************)
(* What the fifo of fts/fifo.c promises its two users: a bounded channel    *)
(* that loses nothing, repeats nothing and keeps the order.  An element is  *)
(* identified by its place in the stream of everything ever sent, counted   *)
(* in bytes, so that the n-th element sent is n-1 times Unit.  FifoChannel  *)
(* implements this specification.                                           *)
(***************************************************************************)
EXTENDS Integers

CONSTANTS Unit,      \* size of an element
          Capacity   \* the most that may be sent and not yet received

VARIABLES sent,      \* bytes sent so far
          received,  \* bytes received so far
          last       \* place of the element received last (-Unit: none yet)

channelVars == <<sent, received, last>>

ChannelInit == sent = 0 /\ received = 0 /\ last = -Unit

Send == /\ sent + Unit - received <= Capacity
        /\ sent' = sent + Unit
        /\ UNCHANGED <<received, last>>

\* The element received is the oldest one not received before.
Receive == /\ received < sent
           /\ last' = received
           /\ received' = received + Unit
           /\ UNCHANGED sent

ChannelSpec == ChannelInit /\ [][Send \/ Receive]_channelVars
=============================================================================
