----------------------------- MODULE SrtSockets -----------------------------
(***************************************************************************)
(* The native side of the splitter: the sockets of libsrt, the one epoll   *)
(* container, and the calls of the @eyevinn/srt binding, as far as         *)
(* src/relay.js depends on them.  The binding's source is not in the       *)
(* repository; what is assumed here is what relay.js uses and what its     *)
(* comments record (src/relay.js:22-37, 329-333, 420-423, 533-540).        *)
(*                                                                         *)
(* libsrt runs threads of its own, so a socket may change at any moment    *)
(* between two calls of the relay: those changes are the actions below.    *)
(*                                                                         *)
(* libsrt hands out socket ids that it does not use again.  An id that no  *)
(* variable of the model mentions any more is as good as a new one, so a   *)
(* finite set Fd stands for the unbounded supply.                          *)
(***************************************************************************)
EXTENDS Naturals

CONSTANTS
  Fd,                  \* the socket ids
  NoFd,                \* -1, "no socket"
  MaxUnread,           \* bound: messages waiting in one receive buffer
  AcceptKeepsListener, \* TRUE: binding patched by scripts/patches.js (PR #81)
  ReapUnseen           \* TRUE: libsrt may collect a broken socket before
                       \*       epoll has reported it

ASSUME SocketsAssumption ==
  /\ NoFd \notin Fd
  /\ MaxUnread \in Nat \ {0}
  /\ AcceptKeepsListener \in BOOLEAN
  /\ ReapUnseen \in BOOLEAN

VARIABLE sock

SockState == {"nonexist", "init", "listening", "connecting", "connected", "broken"}

(***************************************************************************)
(* One socket: its state as getSockState reads it; q, the peers waiting in *)
(* a listener's backlog or the messages waiting in a receive buffer, with  *)
(* room for cap of them; and mask, the events epoll watches it for.        *)
(***************************************************************************)
Socket == [st : SockState, q : Nat, cap : Nat, mask : SUBSET {"IN", "ERR"}]

NoSocket == [st |-> "nonexist", q |-> 0, cap |-> 0, mask |-> {}]

NewSocket(st, cap, mask) == [st |-> st, q |-> 0, cap |-> cap, mask |-> mask]

SocketsTypeOK == sock \in [Fd -> Socket]

SocketsInit == sock = [f \in Fd |-> NoSocket]

(* srt_close of every socket in S, which also takes it out of the container *)
Close(net, S) == [f \in Fd |-> IF f \in S THEN NoSocket ELSE net[f]]

Watch(net, f, mask) == [net EXCEPT ![f].mask = mask]

(***************************************************************************)
(* Every outcome of accept() on listener l.  A failed accept retires l.  A *)
(* successful one takes a waiting peer and leaves l listening in the       *)
(* patched binding, but l may break before the relay looks at it again;    *)
(* in the unpatched binding it retires l.                                  *)
(***************************************************************************)
AfterAccept(net, l) ==
  IF AcceptKeepsListener
  THEN {[net EXCEPT ![l].q = @ - 1], [net EXCEPT ![l].st = "broken"]}
  ELSE {Close(net, {l})}

Accept(net, l, free, cap) ==
  {[fd |-> NoFd, net |-> Close(net, {l})]}
    \cup
  {[fd |-> c, net |-> [n EXCEPT ![c] = NewSocket("connected", cap, {})]] :
     c \in {f \in free : net[l].st = "listening" /\ net[l].q > 0},
     n \in AfterAccept(net, l)}

(* What epoll reports: level-triggered, and both flags on a broken socket. *)
ReadyIn  == {f \in Fd : "IN" \in sock[f].mask /\ (sock[f].q > 0 \/ sock[f].st = "broken")}
ReadyErr == {f \in Fd : "ERR" \in sock[f].mask /\ sock[f].st = "broken"}

-----------------------------------------------------------------------------
(* What peers and libsrt's threads do on their own. *)

(* A peer completes its handshake and waits to be accepted. *)
PeerArrives(f) ==
  /\ sock[f].st = "listening" /\ sock[f].q < sock[f].cap
  /\ sock' = [sock EXCEPT ![f].q = @ + 1]

(* ... and may be gone before it is. *)
PeerLeaves(f) ==
  /\ sock[f].st = "listening" /\ sock[f].q > 0
  /\ sock' = [sock EXCEPT ![f].q = @ - 1]

MessageArrives(f) ==
  /\ sock[f].st = "connected" /\ sock[f].q < sock[f].cap
  /\ sock' = [sock EXCEPT ![f].q = @ + 1]

HandshakeDone(f) ==
  /\ sock[f].st = "connecting"
  /\ sock' = [sock EXCEPT ![f].st = "connected"]

(* The peer closes or goes silent, or the socket fails. *)
Breaks(f) ==
  /\ sock[f].st \in {"listening", "connecting", "connected"}
  /\ sock' = [sock EXCEPT ![f].st = "broken"]

(* libsrt collects a broken socket by itself. *)
Reaped(f) ==
  /\ sock[f].st = "broken" /\ (ReapUnseen \/ sock[f].mask = {})
  /\ sock' = Close(sock, {f})

Network ==
  \E f \in Fd : \/ PeerArrives(f)    \/ PeerLeaves(f) \/ MessageArrives(f)
                \/ HandshakeDone(f)  \/ Breaks(f)     \/ Reaped(f)
=============================================================================
