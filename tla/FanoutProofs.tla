---------------------------- MODULE FanoutProofs ----------------------------
(***************************************************************************)
(* The fan-out loop implements the live broadcast, for any number of       *)
(* clients, any caps and buffers.                                          *)
(*                                                                         *)
(* What makes it so is InStep: outside an iteration every client of egress *)
(* has the last message read; inside one, those the iterator has passed    *)
(* have it, and those it has yet to reach have the one before.  That no    *)
(* dead client outlives a drain that read something rests on DeadAhead:    *)
(* inside an iteration the dead ones still in egress are ones that the     *)
(* iterator has yet to reach, and nothing connects them again.             *)
(***************************************************************************)
EXTENDS Fanout, TLAPS

InStep ==
  \A c \in egress : IF c \in left THEN Succ(got[c]) = pos ELSE got[c] = pos

DeadAhead ==
  /\ phase \in {"wait", "dispatch"} => dead = {} /\ drained = 0
  /\ phase = "write" => dead \cap egress \subseteq left
  /\ \A c \in dead \cap egress : link[c] # "up"

Inv ==
  /\ FanoutTypeOK
  /\ DeadAhead /\ DrainDropsDead
  /\ phase # "write" => left = {}
  /\ \A c \in egress : link[c] \in {"up", "broken", "gone"}
  /\ InStep

LEMMA SuccType == \A i \in Number : Succ(i) \in Number
BY FanoutAssumption DEF Number, Succ

LEMMA InvInit == Init => Inv
BY FanoutAssumption DEF Init, Inv, FanoutTypeOK, InStep, DeadAhead, DrainDropsDead, Link, Number

LEMMA InvNext == Inv /\ [Next]_vars => Inv'
<1> SUFFICES ASSUME Inv, [Next]_vars PROVE Inv'
  OBVIOUS
<1> USE FanoutAssumption, SuccType DEF Inv, FanoutTypeOK, InStep, DeadAhead, DrainDropsDead, Link
<1>1. CASE EpollWait
  <2>1. evs' \subseteq Client \cup {Listener, Source}
    BY <1>1 DEF EpollWait, Ready
  <2> QED BY <1>1, <2>1 DEF EpollWait, history, netVars
<1>2. CASE AcceptFails
  BY <1>2 DEF AcceptFails, history, Take, Waiting
<1>3. ASSUME NEW c \in Client, AcceptRefuses(c) PROVE Inv'
  BY <1>3 DEF AcceptRefuses, history, Take, Waiting
<1>4. ASSUME NEW c \in Client, AcceptAdmits(c) PROVE Inv'
  BY <1>4 DEF AcceptAdmits, Take, Waiting
<1>5. ASSUME NEW c \in Client, HandleErr(c) PROVE Inv'
  <2>1. CASE c \in egress /\ link[c] # "up"
    BY <1>5, <2>1 DEF HandleErr, Take, Drop, Number
  <2>2. CASE ~(c \in egress /\ link[c] # "up")
    BY <1>5, <2>2 DEF HandleErr, Take
  <2> QED BY <2>1, <2>2
<1>6. CASE StartDrain
  BY <1>6 DEF StartDrain, history, Take, netVars
<1>7. CASE Read
  BY <1>7 DEF Read, history
<1>8. ASSUME NEW c \in Client, WriteOk(c) PROVE Inv'
  BY <1>8 DEF WriteOk, CanWrite
<1>9. ASSUME NEW c \in Client, WriteFails(c) PROVE Inv'
  BY <1>9 DEF WriteFails, Drop, Number
<1>10. CASE EndWrites
  BY <1>10 DEF EndWrites, history, netVars
<1>11. CASE EndDrain
  BY <1>11 DEF EndDrain
<1>12. CASE EndPoll
  BY <1>12 DEF EndPoll, history, netVars
<1>13. CASE Network
  <2> USE <1>13 DEF Network, loopVars, history
  <2>1. ASSUME NEW c \in Client, Connects(c) \/ WalksOff(c) \/ Breaks(c) \/ Collected(c),
               UNCHANGED <<unsent, source, unread>>
        PROVE  Inv'
    BY <2>1 DEF Connects, WalksOff, Breaks, Collected
  <2>2. ASSUME NEW c \in Client, Sends(c), UNCHANGED <<link, source, unread>>
        PROVE  Inv'
    BY <2>2 DEF Sends
  <2>3. CASE Arrives /\ UNCHANGED <<link, unsent, source>>
    BY <2>3 DEF Arrives
  <2>4. CASE (SourceBreaks \/ SourceReturns) /\ UNCHANGED <<link, unsent, unread>>
    BY <2>4 DEF SourceBreaks, SourceReturns
  <2> QED BY <2>1, <2>2, <2>3, <2>4
<1>14. CASE UNCHANGED vars
  BY <1>14 DEF vars, loopVars, netVars, history
<1> QED
  BY <1>1, <1>2, <1>3, <1>4, <1>5, <1>6, <1>7, <1>8, <1>9, <1>10, <1>11, <1>12, <1>13, <1>14
  DEF Next, RelayStep, Accept

LEMMA Invariance == Spec => []Inv
BY InvInit, InvNext, PTL DEF Spec

(***************************************************************************)
(* The variables of the fan-out loop keep their types; in particular the   *)
(* iterator never reaches a client that is not in egress, and a drain      *)
(* reads at most DRAIN_MAX messages (relay.js:424-450).                    *)
(***************************************************************************)
THEOREM FanoutTyped == Spec => []FanoutTypeOK
<1>1. Inv => FanoutTypeOK
  BY DEF Inv
<1> QED BY <1>1, Invariance, PTL

(***************************************************************************)
(* A drain that has read a message has dropped every client whose          *)
(* connection was over when it began (relay.js:439-448, 466-468).          *)
(***************************************************************************)
THEOREM DeadDropped == Spec => []DrainDropsDead
<1>1. Inv => DrainDropsDead
  BY DEF Inv
<1> QED BY <1>1, Invariance, PTL

(***************************************************************************)
(* One client's trouble is its own (relay.js:441-448, 466-472): a step     *)
(* drops one client at most, and only one that is not connected or whose   *)
(* send buffer is full.                                                    *)
(***************************************************************************)
THEOREM LaggardsOnly == Spec => OnlyTheLaggardDropped
<1>1. Inv /\ [Next]_vars
        => [\A c \in egress \ egress' : ~CanWrite(c) /\ egress \ egress' = {c}]_vars
  <2> SUFFICES ASSUME Inv, Next, NEW c \in egress, c \notin egress'
               PROVE  ~CanWrite(c) /\ egress \ egress' = {c}
    BY DEF vars
  <2> USE DEF Inv, FanoutTypeOK
  <2>1. ASSUME NEW d \in Client, HandleErr(d) PROVE ~CanWrite(c) /\ egress \ egress' = {c}
    BY <2>1 DEF HandleErr, Drop, CanWrite
  <2>2. ASSUME NEW d \in Client, WriteFails(d) PROVE ~CanWrite(c) /\ egress \ egress' = {c}
    BY <2>2 DEF WriteFails, Drop, CanWrite
  <2>3. ASSUME NEW d \in Client, AcceptRefuses(d) \/ AcceptAdmits(d) \/ WriteOk(d)
        PROVE  FALSE
    BY <2>3 DEF AcceptRefuses, AcceptAdmits, WriteOk
  <2>4. CASE EpollWait \/ AcceptFails \/ StartDrain \/ Read \/ EndWrites \/ EndDrain \/ EndPoll
    BY <2>4 DEF EpollWait, AcceptFails, StartDrain, Read, EndWrites, EndDrain, EndPoll
  <2>5. CASE Network
    BY <2>5 DEF Network
  <2> QED BY <2>1, <2>2, <2>3, <2>4, <2>5 DEF Next, RelayStep, Accept
<1> QED BY <1>1, Invariance, PTL DEF Spec, OnlyTheLaggardDropped

-----------------------------------------------------------------------------
(* What the members of the abstract stream have. *)
Last == [c \in Client |-> IF c \in egress THEN got[c] ELSE None]

(* A step that changes neither the stream nor what its members have. *)
LEMMA Stutter ==
  ASSUME UNCHANGED <<pos, egress, got>>
  PROVE  UNCHANGED B!broadcastVars
BY DEF B!broadcastVars

LEMMA JoinStep ==
  ASSUME Inv, NEW c \in Client, AcceptAdmits(c)
  PROVE  B!Join(c)
<1>1. c \notin egress
  BY DEF Inv, AcceptAdmits, Waiting
<1>2. Last' = [Last EXCEPT ![c] = pos]
  BY <1>1 DEF AcceptAdmits, Last, Inv, FanoutTypeOK
<1> QED BY <1>1, <1>2 DEF B!Join, B!Member, Last, AcceptAdmits

LEMMA LeaveStep ==
  ASSUME Inv, NEW c \in egress, Drop(c), UNCHANGED pos
  PROVE  B!Leave(c)
<1>1. c \in Client /\ got[c] # None
  BY FanoutAssumption DEF Inv, FanoutTypeOK, Number
<1>2. Last' = [Last EXCEPT ![c] = None]
  BY <1>1 DEF Drop, Last, Inv, FanoutTypeOK
<1> QED BY <1>1, <1>2 DEF B!Leave, B!Member, Last

LEMMA PublishStep == ASSUME Inv, Read PROVE B!Publish
<1>1. \A c \in egress : got[c] = pos
  BY DEF Inv, InStep, Read
<1>2. \A c \in Client : Last[c] # None => Last[c] = pos
  BY <1>1 DEF Last
<1>3. pos' = B!Succ(pos) /\ Last' = Last
  BY DEF Read, history, Last, B!Succ, Succ
<1> QED BY <1>2, <1>3 DEF B!Publish, B!Member, Last

LEMMA DeliverStep ==
  ASSUME Inv, NEW c \in Client, WriteOk(c)
  PROVE  B!Deliver(c)
<1>1. c \in egress /\ Succ(got[c]) = pos /\ got[c] # None
  BY FanoutAssumption DEF Inv, InStep, FanoutTypeOK, WriteOk, Number
<1>2. Last' = [Last EXCEPT ![c] = pos]
  BY <1>1 DEF WriteOk, Last, Inv, FanoutTypeOK
<1> QED BY <1>1, <1>2 DEF B!Deliver, B!Member, B!Succ, Succ, Last, WriteOk

(***************************************************************************)
(* The fan-out loop implements the live broadcast: each client gets, while *)
(* it is in egress, every message read from the source, once and in order, *)
(* whichever clients are dropped or admitted meanwhile (relay.js:437-448). *)
(***************************************************************************)
THEOREM FanoutBroadcasts == Spec => Broadcasts
<1>1. Init => B!BroadcastInit
  BY DEF Init, B!BroadcastInit
<1>2. Inv /\ [Next]_vars => [B!BroadcastNext]_(B!broadcastVars)
  <2> SUFFICES ASSUME Inv, [Next]_vars
               PROVE  B!BroadcastNext \/ UNCHANGED B!broadcastVars
    BY DEF B!broadcastVars
  <2> USE DEF B!BroadcastNext
  <2>1. ASSUME NEW c \in Client, AcceptAdmits(c) PROVE B!BroadcastNext
    BY <2>1, JoinStep
  <2>2. ASSUME NEW c \in Client, HandleErr(c)
        PROVE  B!BroadcastNext \/ UNCHANGED B!broadcastVars
    <3>1. UNCHANGED pos
      BY <2>2 DEF HandleErr
    <3>2. CASE c \in egress /\ link[c] # "up"
      BY <2>2, <3>1, <3>2, LeaveStep DEF HandleErr
    <3>3. CASE ~(c \in egress /\ link[c] # "up")
      BY <2>2, <3>1, <3>3, Stutter DEF HandleErr
    <3> QED BY <3>2, <3>3
  <2>3. ASSUME NEW c \in Client, WriteFails(c) PROVE B!BroadcastNext
    BY <2>3, LeaveStep DEF WriteFails, Inv, FanoutTypeOK
  <2>4. ASSUME NEW c \in Client, WriteOk(c) PROVE B!BroadcastNext
    BY <2>4, DeliverStep
  <2>5. CASE Read
    BY <2>5, PublishStep
  <2>6. ASSUME NEW c \in Client, AcceptRefuses(c) PROVE UNCHANGED B!broadcastVars
    BY <2>6, Stutter DEF AcceptRefuses, history
  <2>7. CASE EpollWait \/ AcceptFails \/ StartDrain \/ EndWrites \/ EndDrain \/ EndPoll \/ Network
    BY <2>7, Stutter
    DEF EpollWait, AcceptFails, StartDrain, EndWrites, EndDrain, EndPoll, Network, history
  <2>8. CASE UNCHANGED vars
    BY <2>8, Stutter DEF vars, history
  <2> QED
    BY <2>1, <2>2, <2>3, <2>4, <2>5, <2>6, <2>7, <2>8 DEF Next, RelayStep, Accept
<1> QED BY <1>1, <1>2, Invariance, PTL DEF Spec, Broadcasts, B!BroadcastSpec
=============================================================================
