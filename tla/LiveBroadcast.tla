--------------------------- MODULE LiveBroadcast ---------------------------
(***************************************************************************)
(* What the fan-out of src/relay.js promises its clients, and no more: one *)
(* live stream, and members who join it where it stands, get every message *)
(* from then on, each once and in order, and may be dropped at any moment. *)
(* The stream does not run ahead: a new message is published only when     *)
(* every member has the one before it.                                     *)
(*                                                                         *)
(* Messages are numbered modulo K, at least 3 to tell the next message from *)
(* a repeated or a skipped one; None is no number.                         *)
(***************************************************************************)
EXTENDS Naturals

CONSTANTS Client, K, None

VARIABLES
  pos,   \* the message last published
  last   \* for each member the message last delivered to it, None for others

broadcastVars == <<pos, last>>

Succ(i) == IF i = K - 1 THEN 0 ELSE i + 1

Member(c) == last[c] # None

BroadcastInit == pos = 0 /\ last = [c \in Client |-> None]

Join(c) ==
  /\ ~Member(c)
  /\ last' = [last EXCEPT ![c] = pos]
  /\ UNCHANGED pos

Leave(c) ==
  /\ Member(c)
  /\ last' = [last EXCEPT ![c] = None]
  /\ UNCHANGED pos

Publish ==
  /\ \A c \in Client : Member(c) => last[c] = pos
  /\ pos' = Succ(pos)
  /\ UNCHANGED last

Deliver(c) ==
  /\ Member(c) /\ Succ(last[c]) = pos
  /\ last' = [last EXCEPT ![c] = pos]
  /\ UNCHANGED pos

BroadcastNext == Publish \/ \E c \in Client : Join(c) \/ Leave(c) \/ Deliver(c)

BroadcastSpec == BroadcastInit /\ [][BroadcastNext]_broadcastVars
=============================================================================
