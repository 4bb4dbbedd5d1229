---------------------------- MODULE RelayProofs ----------------------------
(***************************************************************************)
(* Proofs, for every value of the constants, of properties that TLC checks *)
(* on the instances of MCRelay.                                            *)
(***************************************************************************)
EXTENDS RelayProps, TLAPS

-----------------------------------------------------------------------------
(* What the calls to the binding return. *)

LEMMA NewSocketType ==
  ASSUME NEW st \in SockState, NEW cap \in Nat, NEW mask \in SUBSET {"IN", "ERR"}
  PROVE  NewSocket(st, cap, mask) \in Socket
  BY DEF NewSocket, Socket

LEMMA CloseType ==
  ASSUME NEW net \in [Fd -> Socket], NEW S
  PROVE  /\ Close(net, S) \in [Fd -> Socket]
         /\ \A f \in Fd : Close(net, S)[f] = IF f \in S THEN NoSocket ELSE net[f]
  BY DEF Close, NoSocket, Socket, SockState

LEMMA WatchType ==
  ASSUME NEW net \in [Fd -> Socket], NEW f \in Fd, NEW mask \in SUBSET {"IN", "ERR"}
  PROVE  /\ Watch(net, f, mask) \in [Fd -> Socket]
         /\ \A g \in Fd \ {f} : Watch(net, f, mask)[g] = net[g]
         /\ Watch(net, f, mask)[f].st = net[f].st
         /\ Watch(net, f, mask)[f].mask = mask
  BY DEF Watch, Socket

(* f is a new socket, watched for mask; nothing else has changed. *)
NewIn(net, net2, f, mask) ==
  /\ net2[f].st # "nonexist" /\ net2[f].mask = mask
  /\ \A g \in Fd \ {f} : net2[g] = net[g]

(* A socket made on a free id and closed again leaves no trace. *)
LEMMA ClosedAgain ==
  ASSUME NEW net, net = [g \in Fd |-> net[g]], NEW f, net[f] = NoSocket, NEW st
  PROVE  Close(Made(net, f, st), {f}) = net
<1>1. Close(Made(net, f, st), {f}) = [g \in Fd |-> IF g = f THEN NoSocket ELSE net[g]]
  BY DEF Close, Made
<1>2. \A g \in Fd : (IF g = f THEN NoSocket ELSE net[g]) = net[g]
  OBVIOUS
<1>3. [g \in Fd |-> IF g = f THEN NoSocket ELSE net[g]] = [g \in Fd |-> net[g]]
  BY <1>2
<1> QED BY <1>1, <1>3, Zenon

LEMMA GivenUpIs ==
  ASSUME NEW net, NEW free, NEW states,
         \A f \in free : \A st \in states : Close(Made(net, f, st), {f}) = net
  PROVE  \A n \in GivenUp(net, free, states) : n = net
<1> DEFINE closed(f, st) == Close(Made(net, f, st), {f})
<1>1. \A f \in free : \A st \in states : closed(f, st) = net
  OBVIOUS
<1>2. GivenUp(net, free, states) = {net} \cup {closed(f, st) : f \in free, st \in states}
  BY DEF GivenUp
<1> HIDE DEF closed
<1> QED BY <1>1, <1>2

LEMMA GivenUpResult ==
  ASSUME NEW net, net = [g \in Fd |-> net[g]], NEW free, \A f \in free : net[f] = NoSocket,
         NEW states
  PROVE  \A n \in GivenUp(net, free, states) : n = net
<1>1. \A f \in free : \A st \in states : Close(Made(net, f, st), {f}) = net
  BY ClosedAgain, Zenon
<1> QED BY <1>1, GivenUpIs, Zenon

LEMMA MakeListenerResult ==
  ASSUME NEW net \in [Fd -> Socket], NEW free \in SUBSET Fd, \A f \in free : net[f] = NoSocket,
         NEW backlog \in Nat, NEW l \in MakeListener(net, free, backlog)
  PROVE  /\ l.net \in [Fd -> Socket]
         /\ \/ l.fd = NoFd /\ l.net = net
            \/ l.fd \in free /\ NewIn(net, l.net, l.fd, {"IN", "ERR"})
<1>1. ASSUME NEW n \in GivenUp(net, free, {"init", "listening"}), l = [fd |-> NoFd, net |-> n]
      PROVE  l.fd = NoFd /\ l.net = net
  <2>1. net = [g \in Fd |-> net[g]]
    OBVIOUS
  <2>2. n = net
    BY <2>1, GivenUpResult, Zenon
  <2> QED BY <1>1, <2>2
<1>2. ASSUME NEW g \in free,
             l = [fd |-> g, net |-> [net EXCEPT ![g] = NewSocket("listening", backlog, {"IN", "ERR"})]]
      PROVE  /\ l.net \in [Fd -> Socket]
             /\ l.fd \in free /\ NewIn(net, l.net, l.fd, {"IN", "ERR"})
  <2>1. NewSocket("listening", backlog, {"IN", "ERR"}) \in Socket
    BY NewSocketType DEF SockState
  <2>2. /\ l.net \in [Fd -> Socket] /\ l.fd \in free
        /\ l.net[l.fd] = NewSocket("listening", backlog, {"IN", "ERR"})
        /\ \A f \in Fd \ {l.fd} : l.net[f] = net[f]
    BY <1>2, <2>1
  <2>3. /\ NewSocket("listening", backlog, {"IN", "ERR"}).st # "nonexist"
        /\ NewSocket("listening", backlog, {"IN", "ERR"}).mask = {"IN", "ERR"}
    BY DEF NewSocket
  <2> QED BY <2>2, <2>3 DEF NewIn
<1> QED BY <1>1, <1>2 DEF MakeListener

LEMMA AfterAcceptResult ==
  ASSUME NEW net \in [Fd -> Socket], NEW l \in Fd, net[l].q > 0,
         NEW n \in AfterAccept(net, l)
  PROVE  /\ n \in [Fd -> Socket]
         /\ \A f \in Fd \ {l} : n[f] = net[f]
         /\ n[l].st = "listening" => n[l].mask = net[l].mask
<1>1. CASE n = [net EXCEPT ![l].q = @ - 1]
  BY <1>1 DEF Socket
<1>2. CASE n = [net EXCEPT ![l].st = "broken"]
  BY <1>2 DEF Socket, SockState
<1>3. CASE n = Close(net, {l})
  BY <1>3, CloseType DEF NoSocket
<1> QED BY <1>1, <1>2, <1>3 DEF AfterAccept

(* An accept on l either failed and closed it, or gave a socket of free. *)
Accepted(net, l, free, cap, a) ==
  /\ a.net \in [Fd -> Socket]
  /\ a.net[l].st = "listening" => net[l].st = "listening" /\ a.net[l].mask = net[l].mask
  /\ \/ a.fd = NoFd /\ a.net = Close(net, {l})
     \/ /\ a.fd \in free
        /\ a.net[a.fd] = NewSocket("connected", cap, {})
        /\ \A f \in Fd \ {a.fd, l} : a.net[f] = net[f]

LEMMA AcceptResult ==
  ASSUME NEW net \in [Fd -> Socket], NEW l \in Fd, NEW free \in SUBSET Fd, l \notin free,
         NEW cap \in Nat, NEW a \in Accept(net, l, free, cap)
  PROVE  Accepted(net, l, free, cap, a)
<1>1. CASE a = [fd |-> NoFd, net |-> Close(net, {l})]
  BY <1>1, CloseType DEF NoSocket, Accepted
<1>2. ASSUME NEW c \in free, net[l].st = "listening", net[l].q > 0, NEW n \in AfterAccept(net, l),
             a = [fd |-> c, net |-> [n EXCEPT ![c] = NewSocket("connected", cap, {})]]
      PROVE  Accepted(net, l, free, cap, a)
  <2>1. NewSocket("connected", cap, {}) \in Socket
    BY NewSocketType DEF SockState
  <2>2. /\ n \in [Fd -> Socket]
        /\ \A f \in Fd \ {l} : n[f] = net[f]
        /\ n[l].st = "listening" => n[l].mask = net[l].mask
    BY <1>2, AfterAcceptResult
  <2> QED BY <1>2, <2>1, <2>2 DEF Accepted
<1> QED BY <1>1, <1>2 DEF Accept

LEMMA AcceptUnused ==
  ASSUME TypeOK, NEW l \in Fd \cap Held, NEW cap \in Nat,
         NEW a \in Accept(sock, l, Unused, cap)
  PROVE  Accepted(sock, l, Unused, cap, a)
<1>1. sock \in [Fd -> Socket] /\ Unused \in SUBSET Fd /\ l \notin Unused /\ l \in Fd
  BY DEF TypeOK, SocketsTypeOK, Unused
<1> QED BY <1>1, AcceptResult, Zenon

-----------------------------------------------------------------------------
(* Type correctness *)

LEMMA UnusedType == Unused \subseteq Fd /\ \A f \in Unused : sock[f] = NoSocket
  BY DEF Unused

LEMMA MakeListenerHere ==
  ASSUME TypeOK, NEW backlog \in Nat, NEW l \in MakeListener(sock, Unused, backlog)
  PROVE  /\ l.net \in [Fd -> Socket]
         /\ \/ l.fd = NoFd /\ l.net = sock
            \/ l.fd \in Unused /\ NewIn(sock, l.net, l.fd, {"IN", "ERR"})
  BY UnusedType, MakeListenerResult DEF TypeOK, SocketsTypeOK

(* The ids acceptDownstream makes its new listener of. *)
LEMMA UnusedStays ==
  ASSUME TypeOK, downListen \in Fd \cap Held, NEW a \in Accept(sock, downListen, Unused, 0)
  PROVE  \A f \in Unused \ {a.fd} : Close(a.net, {downListen})[f] = NoSocket
<1>1. Accepted(sock, downListen, Unused, 0, a) /\ downListen \notin Unused
  BY AcceptUnused DEF Unused
<1>2. \A f \in Unused \ {a.fd} : a.net[f] = sock[f]
  BY <1>1, UnusedType DEF Accepted, Close
<1> QED BY <1>1, <1>2, UnusedType DEF Close

LEMMA CallGivenUp ==
  ASSUME TypeOK, NEW states, sock' \in GivenUp(sock, Unused, states)
  PROVE  UNCHANGED sock
<1>1. PICK n \in GivenUp(sock, Unused, states) : sock' = n
  OBVIOUS
<1> QED BY <1>1, UnusedType, GivenUpResult DEF TypeOK, SocketsTypeOK

LEMMA HeldType == TypeOK => Held \subseteq Fd
  BY DEF TypeOK, Held

LEMMA TypeInit == Init => TypeOK
<1> SUFFICES ASSUME Init PROVE TypeOK
  OBVIOUS
<1>1. SocketsTypeOK
  BY DEF Init, SocketsInit, SocketsTypeOK, NoSocket, Socket, SockState
<1>2. ReconnectDelay \in Nat /\ ConnTimeout \in Nat
  BY RelayAssumption
<1> QED BY <1>1, <1>2 DEF Init, TypeOK, Phase

LEMMA AdmitType ==
  ASSUME TypeOK, NEW net \in [Fd -> Socket], NEW c \in Fd \cup {NoFd}, Admit(c, net)
  PROVE  sock' \in [Fd -> Socket] /\ egress' \subseteq Fd
<1>1. CASE c = NoFd /\ sock' = net /\ UNCHANGED egress
  BY <1>1 DEF TypeOK
<1>2. CASE c # NoFd /\ sock' = Close(net, {c}) /\ UNCHANGED egress
  BY <1>2, CloseType DEF TypeOK
<1>3. CASE c # NoFd /\ sock' = Watch(net, c, {"ERR"}) /\ egress' = egress \cup {c}
  BY <1>3, WatchType DEF TypeOK
<1> QED BY <1>1, <1>2, <1>3 DEF Admit

LEMMA DrainedType ==
  ASSUME TypeOK, NEW fd \in Fd, NEW n \in Drained(fd)
  PROVE  n \in Nat /\ n <= sock[fd].q
<1>1. sock[fd].q \in Nat /\ DrainMax \in Nat
  BY RelayAssumption DEF TypeOK, SocketsTypeOK, Socket
<1> QED BY <1>1 DEF Drained

LEMMA NetworkType ==
  ASSUME SocketsTypeOK, Network
  PROVE  SocketsTypeOK'
<1>1. PICK f \in Fd : \/ PeerArrives(f)   \/ PeerLeaves(f) \/ MessageArrives(f)
                      \/ HandshakeDone(f) \/ Breaks(f)     \/ Reaped(f)
  BY DEF Network
<1>2. sock[f] \in Socket
  BY DEF SocketsTypeOK
<1>3. CASE PeerArrives(f)
  BY <1>2, <1>3 DEF PeerArrives, SocketsTypeOK, Socket
<1>4. CASE PeerLeaves(f)
  BY <1>2, <1>4 DEF PeerLeaves, SocketsTypeOK, Socket
<1>5. CASE MessageArrives(f)
  BY <1>2, <1>5 DEF MessageArrives, SocketsTypeOK, Socket
<1>6. CASE HandshakeDone(f)
  BY <1>2, <1>6 DEF HandshakeDone, SocketsTypeOK, Socket, SockState
<1>7. CASE Breaks(f)
  BY <1>2, <1>7 DEF Breaks, SocketsTypeOK, Socket, SockState
<1>8. CASE Reaped(f)
  BY <1>8, CloseType DEF Reaped, SocketsTypeOK
<1> QED BY <1>1, <1>3, <1>4, <1>5, <1>6, <1>7, <1>8

LEMMA TypeNext == TypeOK /\ [Next]_vars => TypeOK'
<1> SUFFICES ASSUME TypeOK, [Next]_vars PROVE TypeOK'
  OBVIOUS
<1> USE RelayAssumption
<1>1. CASE Open
  <2>1. PICK l \in MakeListener(sock, Unused, Backlog) : sock' = l.net /\ downListen' = l.fd
    BY <1>1 DEF Open
  <2>2. l.net \in [Fd -> Socket] /\ l.fd \in Fd \cup {NoFd}
    BY UnusedType, MakeListenerHere
  <2> QED BY <1>1, <2>1, <2>2 DEF Open, TypeOK, SocketsTypeOK, Phase, clock, batch, fails
<1>2. CASE EnsureDownListener
  <2>1. sock' \in [Fd -> Socket] /\ downListen' \in Fd \cup {NoFd}
    <3>1. \/ UNCHANGED <<sock, downListen>>
          \/ \E l \in MakeListener(sock, Unused, Backlog) : sock' = l.net /\ downListen' = l.fd
      BY <1>2 DEF EnsureDownListener
    <3>2. \A l \in MakeListener(sock, Unused, Backlog) :
            l.net \in [Fd -> Socket] /\ l.fd \in Fd \cup {NoFd}
      BY UnusedType, MakeListenerHere
    <3> QED BY <3>1, <3>2 DEF TypeOK, SocketsTypeOK
  <2> QED BY <1>2, <2>1 DEF EnsureDownListener, TypeOK, SocketsTypeOK, Phase, batch
<1>3. CASE EnsureUpListener
  <2>1. sock' \in [Fd -> Socket] /\ upListen' \in Fd \cup {NoFd}
    <3>1. \/ UNCHANGED <<sock, upListen>>
          \/ \E l \in MakeListener(sock, Unused, 1) : sock' = l.net /\ upListen' = l.fd
      BY <1>3 DEF EnsureUpListener
    <3>2. \A l \in MakeListener(sock, Unused, 1) :
            l.net \in [Fd -> Socket] /\ l.fd \in Fd \cup {NoFd}
      BY UnusedType, MakeListenerHere
    <3> QED BY <3>1, <3>2 DEF TypeOK, SocketsTypeOK
  <2> QED BY <1>3, <2>1 DEF EnsureUpListener, TypeOK, SocketsTypeOK, Phase, batch
<1>4. CASE EnsureUpstreamCaller
  <2>1. NewSocket("connecting", MaxUnread, {}) \in Socket
    BY SocketsAssumption, NewSocketType DEF SockState
  <2>2. sock' \in [Fd -> Socket] /\ pendingUp' \in Fd \cup {NoFd}
    BY <1>4, <2>1, UnusedType, CallGivenUp DEF EnsureUpstreamCaller, TypeOK, SocketsTypeOK
  <2> QED BY <1>4, <2>2 DEF EnsureUpstreamCaller, TypeOK, SocketsTypeOK, Phase, batch
<1>5. CASE CheckPendingUpstream
  <2>1. sock' \in [Fd -> Socket]
    BY <1>5, CloseType, WatchType DEF CheckPendingUpstream, TypeOK, SocketsTypeOK
  <2> QED BY <1>5, <2>1 DEF CheckPendingUpstream, TypeOK, SocketsTypeOK, Phase, batch
<1>6. CASE EpollWait
  <2>1. evIn' \subseteq Fd /\ evErr' \subseteq Fd
    BY <1>6 DEF EpollWait, ReadyIn, ReadyErr, Stale, Spurious
  <2> QED BY <1>6, <2>1 DEF EpollWait, TypeOK, SocketsTypeOK, Phase, roles, clock, fails
<1>7. CASE EpollThrows
  BY <1>7 DEF EpollThrows, TypeOK, SocketsTypeOK, Phase, roles, clock, batch, fails
<1>8. ASSUME NEW fd \in Fd, AcceptDownstream(fd) PROVE TypeOK'
  <2>1. PICK a \in Accept(sock, downListen, Unused, 0) :
          \/ /\ UNCHANGED <<downListen, sinceDown, downFail>>
             /\ Admit(a.fd, a.net)
          \/ /\ sinceDown' = 0
             /\ \E l \in MakeListener(Close(a.net, {downListen}), Unused \ {a.fd}, Backlog) :
                  /\ downListen' = l.fd
                  /\ downFail' = IF l.fd = NoFd THEN 0 ELSE downFail
                  /\ Admit(a.fd, l.net)
    BY <1>8 DEF AcceptDownstream
  <2>2. downListen \in Fd \cap Held
    BY <1>8, SocketsAssumption DEF AcceptDownstream, ToDownListener, Held
  <2>3. a.net \in [Fd -> Socket] /\ a.fd \in Fd \cup {NoFd}
    BY <2>2, AcceptUnused, UnusedType DEF Accepted
  <2>4. /\ sock' \in [Fd -> Socket] /\ egress' \subseteq Fd
        /\ downListen' \in Fd \cup {NoFd}
        /\ sinceDown' \in 0..ReconnectDelay /\ downFail' \in 0..ReconnectDelay
    <3>1. CASE UNCHANGED <<downListen, sinceDown, downFail>> /\ Admit(a.fd, a.net)
      BY <2>3, <3>1, AdmitType DEF TypeOK
    <3>2. ASSUME NEW l \in MakeListener(Close(a.net, {downListen}), Unused \ {a.fd}, Backlog),
                 sinceDown' = 0, downListen' = l.fd,
                 downFail' = IF l.fd = NoFd THEN 0 ELSE downFail,
                 Admit(a.fd, l.net)
          PROVE  /\ sock' \in [Fd -> Socket] /\ egress' \subseteq Fd
                 /\ downListen' \in Fd \cup {NoFd}
                 /\ sinceDown' \in 0..ReconnectDelay /\ downFail' \in 0..ReconnectDelay
      <4> DEFINE net == Close(a.net, {downListen})
                 free == Unused \ {a.fd}
      <4>1. net \in [Fd -> Socket] /\ free \in SUBSET Fd /\ Backlog \in Nat
        BY <2>3, CloseType, UnusedType, RelayAssumption
      <4>5. \A f \in free : net[f] = NoSocket
        BY <2>2, UnusedStays
      <4>2. l \in MakeListener(net, free, Backlog)
        OBVIOUS
      <4> HIDE DEF net, free
      <4>3. \/ l.net \in [Fd -> Socket] /\ l.fd = NoFd
            \/ l.net \in [Fd -> Socket] /\ l.fd \in free
        BY <4>1, <4>2, <4>5, MakeListenerResult
      <4>4. l.net \in [Fd -> Socket] /\ l.fd \in Fd \cup {NoFd}
        BY <4>1, <4>3
      <4> QED BY <2>3, <3>2, <4>4, AdmitType DEF TypeOK
    <3> QED BY <2>1, <3>1, <3>2
  <2>5. /\ UNCHANGED <<upListen, upConn, pendingUp, sinceUp, upFail>>
        /\ UNCHANGED <<running, phase, sincePending, evErr>>
        /\ evIn' \subseteq evIn /\ cur' \in {fd, NoFd}
    BY <1>8 DEF AcceptDownstream, TakeIn, clock
  <2> QED BY <2>4, <2>5 DEF TypeOK, SocketsTypeOK
<1>9. ASSUME NEW fd \in Fd, AcceptUpstream(fd) PROVE TypeOK'
  <2>1. PICK a \in Accept(sock, fd, Unused, MaxUnread) :
          LET net == Close(a.net, {fd}) IN
          \/ /\ a.fd = NoFd
             /\ sinceUp' = ReconnectDelay
             /\ sock' = net /\ UNCHANGED upConn
          \/ /\ a.fd # NoFd
             /\ sock' = Close(net, {a.fd}) /\ UNCHANGED <<upConn, sinceUp>>
          \/ /\ a.fd # NoFd
             /\ sock' = Watch(net, a.fd, {"IN", "ERR"})
             /\ upConn' = a.fd /\ UNCHANGED sinceUp
    BY <1>9 DEF AcceptUpstream
  <2>2. fd \in Fd \cap Held /\ MaxUnread \in Nat
    BY <1>9, SocketsAssumption DEF AcceptUpstream, Held
  <2>3. a.net \in [Fd -> Socket] /\ a.fd \in Fd \cup {NoFd}
    BY <2>2, AcceptUnused, UnusedType DEF Accepted
  <2>4. Close(a.net, {fd}) \in [Fd -> Socket]
    BY <2>3, CloseType
  <2>5. /\ sock' \in [Fd -> Socket]
        /\ upConn' \in Fd \cup {NoFd} /\ sinceUp' \in 0..ReconnectDelay
    BY <2>1, <2>3, <2>4, CloseType, WatchType DEF TypeOK
  <2> QED BY <1>9, <2>5 DEF AcceptUpstream, TakeIn, TypeOK, SocketsTypeOK, fails
<1>10. ASSUME NEW fd \in Fd, DrainUpstream(fd) PROVE TypeOK'
  <2>1. PICK n \in Drained(fd), lost \in SUBSET egress :
          /\ egress' = egress \ lost
          /\ LET net == Close([sock EXCEPT ![fd].q = @ - n], lost) IN
             \/ Sound(fd) /\ sock' = net /\ UNCHANGED upConn
             \/ ~Sound(fd) /\ sock' = Close(net, {fd}) /\ upConn' = NoFd
    BY <1>10 DEF DrainUpstream
  <2> DEFINE net == Close([sock EXCEPT ![fd].q = @ - n], lost)
  <2>2. net \in [Fd -> Socket] /\ Close(net, {fd}) \in [Fd -> Socket]
    <3>1. sock \in [Fd -> Socket] /\ sock[fd].q - n \in Nat
      BY DrainedType DEF TypeOK, SocketsTypeOK, Socket
    <3>2. [sock EXCEPT ![fd].q = @ - n] \in [Fd -> Socket]
      BY <3>1 DEF Socket
    <3>3. net \in [Fd -> Socket]
      BY <3>2, CloseType
    <3> QED BY <3>3, CloseType
  <2>3. sock' \in [Fd -> Socket] /\ upConn' \in Fd \cup {NoFd}
    <3>1. \/ sock' = net /\ upConn' = upConn
          \/ sock' = Close(net, {fd}) /\ upConn' = NoFd
      BY <2>1
    <3> HIDE DEF net
    <3> QED BY <2>2, <3>1 DEF TypeOK
  <2> QED BY <1>10, <2>1, <2>3 DEF DrainUpstream, TakeIn, TypeOK, SocketsTypeOK, fails
<1>11. ASSUME NEW fd \in Fd, IgnoreIn(fd) PROVE TypeOK'
  BY <1>11 DEF IgnoreIn, TakeIn, TypeOK, SocketsTypeOK, roles, fails
<1>12. ASSUME NEW fd \in Fd, HandleErr(fd) PROVE TypeOK'
  <2>1. sock' \in [Fd -> Socket]
    BY <1>12, CloseType DEF HandleErr, TypeOK, SocketsTypeOK
  <2> QED BY <1>12, <2>1 DEF HandleErr, Without, TypeOK, SocketsTypeOK, clock, fails
<1>13. CASE EndPoll
  BY <1>13 DEF EndPoll, TypeOK, SocketsTypeOK, Phase, roles, clock, batch, fails
<1>14. CASE Shutdown
  BY <1>14 DEF Shutdown, TypeOK, SocketsTypeOK, roles, clock, batch, fails
<1>15. CASE PollAgain
  BY <1>15 DEF PollAgain, TypeOK, SocketsTypeOK, Phase, roles, clock, batch, fails
<1>16. CASE CloseRelay
  <2>1. sock' \in [Fd -> Socket]
    BY <1>16, CloseType DEF CloseRelay, TypeOK, SocketsTypeOK
  <2> QED BY <1>16, <2>1 DEF CloseRelay, TypeOK, SocketsTypeOK, Phase, clock, batch, fails
<1>17. CASE Tick
  BY <1>17 DEF Tick, Older, TypeOK, SocketsTypeOK, loop, roles, batch
<1>18. CASE Environment
  BY <1>18, NetworkType DEF Environment, TypeOK, loop, roles, clock, batch, fails
<1>19. CASE UNCHANGED vars
  BY <1>19 DEF vars, TypeOK, SocketsTypeOK, loop, roles, clock, batch, fails
<1> QED
  BY <1>1, <1>2, <1>3, <1>4, <1>5, <1>6, <1>7, <1>8, <1>9, <1>10, <1>11, <1>12, <1>13,
     <1>14, <1>15, <1>16, <1>17, <1>18, <1>19
  DEF Next, RelayStep, Dispatch, Terminated

(***************************************************************************)
(* Every field and every socket stays of its kind; in particular no        *)
(* receive buffer or backlog is ever read below empty.                     *)
(***************************************************************************)
THEOREM TypeCorrect == Spec => []TypeOK
  BY TypeInit, TypeNext, PTL DEF Spec

-----------------------------------------------------------------------------
(***************************************************************************)
(* Ownership: what the relay holds and what libsrt has open agree.  None   *)
(* of NoSocketLeak, RolesExclusive and Polled is inductive alone.  Closing *)
(* the socket of one field must not close that of another, so the first    *)
(* needs the second; and a field may be overwritten only while it is       *)
(* empty, which for downListen in open() is the last conjunct here.        *)
(***************************************************************************)
Ownership ==
  /\ NoSocketLeak
  /\ RolesExclusive
  /\ Polled
  /\ phase = "open" => Held = {}

LEMMA OwnershipInit == Init => Ownership
<1> SUFFICES ASSUME Init PROVE Ownership
  OBVIOUS
<1>1. Held = {} /\ \A f \in Fd : ~Exists(f)
  BY DEF Init, Held, Exists, SocketsInit, NoSocket
<1> QED BY <1>1 DEF Init, Ownership, NoSocketLeak, Exited, RolesExclusive, OneUpstream,
               RolesDistinct, Polled

(***************************************************************************)
(* The same, of any sockets and any values of the fields, so that the      *)
(* steps of a method can be taken one by one.                              *)
(***************************************************************************)
Placed(net, f, dl, ul, uc, pu, eg) ==
  net[f].st # "nonexist" =>
    /\ f \in {dl, ul, uc, pu} \cup eg
    /\ net[f].mask = IF f = pu THEN {} ELSE IF f \in eg THEN {"ERR"} ELSE {"IN", "ERR"}

Apart(dl, ul, uc, pu, eg) ==
  /\ Mode = "caller" => ul = NoFd
  /\ Mode = "listener" => pu = NoFd
  /\ uc # NoFd => ul = NoFd /\ pu = NoFd
  /\ dl # NoFd => dl \notin {ul, uc, pu}
  /\ eg \cap {dl, ul, uc, pu} = {}

Owns(net, dl, ul, uc, pu, eg) ==
  /\ \A f \in Fd : Placed(net, f, dl, ul, uc, pu, eg)
  /\ Apart(dl, ul, uc, pu, eg)

OwnsNow == Owns(sock, downListen, upListen, upConn, pendingUp, egress)

LEMMA OwnershipOwns == Ownership => OwnsNow
<1> SUFFICES ASSUME Ownership PROVE OwnsNow
  OBVIOUS
<1>1. \A f \in Fd : sock[f].st # "nonexist" => f \in Held /\ sock[f].mask = MaskOf(f)
  BY DEF Ownership, NoSocketLeak, Polled, Exists
<1> QED BY <1>1 DEF Ownership, RolesExclusive, OneUpstream, RolesDistinct, OwnsNow, Owns, Placed, Apart, Held, MaskOf

LEMMA OwnsOwnership == TypeOK /\ OwnsNow /\ ~Exited /\ phase # "open" => Ownership
<1> SUFFICES ASSUME TypeOK, OwnsNow, ~Exited, phase # "open" PROVE Ownership
  OBVIOUS
<1>1. NoSocketLeak
  BY SocketsAssumption DEF NoSocketLeak, Exists, OwnsNow, Owns, Placed, Apart, Held
<1>2. RolesExclusive
  BY DEF RolesExclusive, OneUpstream, RolesDistinct, OwnsNow, Owns, Placed, Apart
<1>3. Polled
  BY HeldType DEF Polled, MaskOf, Exists, OwnsNow, Owns, Placed, Apart
<1> QED BY <1>1, <1>2, <1>3 DEF Ownership

(* A socket that is closed is taken from the field that had it. *)
Dropped(role, S) == IF role \in S THEN NoFd ELSE role

LEMMA OwnsDrop ==
  ASSUME NEW net \in [Fd -> Socket], NEW dl, NEW ul, NEW uc, NEW pu, NEW eg, NEW S,
         NEW net2 \in [Fd -> Socket],
         \A f \in Fd : net2[f].st # "nonexist" => f \notin S /\ net2[f] = net[f],
         Owns(net, dl, ul, uc, pu, eg), eg \subseteq Fd
  PROVE  Owns(net2, Dropped(dl, S), Dropped(ul, S), Dropped(uc, S), Dropped(pu, S), eg \ S)
  BY SocketsAssumption DEF Owns, Placed, Apart, Dropped

(* libsrt may change a socket in any way but what it is watched for. *)
LEMMA OwnsChange ==
  ASSUME NEW net \in [Fd -> Socket], NEW dl, NEW ul, NEW uc, NEW pu, NEW eg,
         NEW net2 \in [Fd -> Socket],
         \A f \in Fd : net2[f].st # "nonexist" =>
            net[f].st # "nonexist" /\ net2[f].mask = net[f].mask,
         Owns(net, dl, ul, uc, pu, eg)
  PROVE  Owns(net2, dl, ul, uc, pu, eg)
  BY DEF Owns, Placed, Apart

(* A new socket goes to an empty field, or to the clients. *)
LEMMA OwnsAdd ==
  ASSUME NEW net, NEW net2, NEW dl, NEW ul, NEW uc, NEW pu, NEW eg,
         NEW f \in Fd, f \notin {dl, ul, uc, pu} \cup eg,
         Owns(net, dl, ul, uc, pu, eg)
  PROVE  /\ dl = NoFd /\ NewIn(net, net2, f, {"IN", "ERR"}) => Owns(net2, f, ul, uc, pu, eg)
         /\ ul = NoFd /\ uc = NoFd /\ Mode = "listener" /\ NewIn(net, net2, f, {"IN", "ERR"})
            => Owns(net2, dl, f, uc, pu, eg)
         /\ ul = NoFd /\ uc = NoFd /\ pu = NoFd /\ NewIn(net, net2, f, {"IN", "ERR"})
            => Owns(net2, dl, ul, f, pu, eg)
         /\ uc = NoFd /\ pu = NoFd /\ Mode = "caller" /\ NewIn(net, net2, f, {})
            => Owns(net2, dl, ul, uc, f, eg)
         /\ NewIn(net, net2, f, {"ERR"}) => Owns(net2, dl, ul, uc, pu, eg \cup {f})
<1>0. NoFd \notin Fd
  BY SocketsAssumption
<1>1. ASSUME dl = NoFd, NewIn(net, net2, f, {"IN", "ERR"})
      PROVE  Owns(net2, f, ul, uc, pu, eg)
  <2>1. Placed(net2, f, f, ul, uc, pu, eg)
    BY <1>0, <1>1 DEF Owns, Placed, Apart, NewIn
  <2>2. ASSUME NEW g \in Fd \ {f} PROVE Placed(net2, g, f, ul, uc, pu, eg)
    BY <1>0, <1>1, <2>2 DEF Owns, Placed, Apart, NewIn
  <2>3. Apart(f, ul, uc, pu, eg)
    BY <1>0, <1>1 DEF Owns, Apart
  <2> QED BY <2>1, <2>2, <2>3 DEF Owns
<1>2. ASSUME ul = NoFd, uc = NoFd, Mode = "listener", NewIn(net, net2, f, {"IN", "ERR"})
      PROVE  Owns(net2, dl, f, uc, pu, eg)
  <2>1. Placed(net2, f, dl, f, uc, pu, eg)
    BY <1>0, <1>2 DEF Owns, Placed, Apart, NewIn
  <2>2. ASSUME NEW g \in Fd \ {f} PROVE Placed(net2, g, dl, f, uc, pu, eg)
    BY <1>0, <1>2, <2>2 DEF Owns, Placed, Apart, NewIn
  <2>3. Apart(dl, f, uc, pu, eg)
    BY <1>0, <1>2 DEF Owns, Apart
  <2> QED BY <2>1, <2>2, <2>3 DEF Owns
<1>3. ASSUME ul = NoFd, uc = NoFd, pu = NoFd, NewIn(net, net2, f, {"IN", "ERR"})
      PROVE  Owns(net2, dl, ul, f, pu, eg)
  <2>1. Placed(net2, f, dl, ul, f, pu, eg)
    BY <1>0, <1>3 DEF Owns, Placed, Apart, NewIn
  <2>2. ASSUME NEW g \in Fd \ {f} PROVE Placed(net2, g, dl, ul, f, pu, eg)
    BY <1>0, <1>3, <2>2 DEF Owns, Placed, Apart, NewIn
  <2>3. Apart(dl, ul, f, pu, eg)
    BY <1>0, <1>3 DEF Owns, Apart
  <2> QED BY <2>1, <2>2, <2>3 DEF Owns
<1>4. ASSUME uc = NoFd, pu = NoFd, Mode = "caller", NewIn(net, net2, f, {})
      PROVE  Owns(net2, dl, ul, uc, f, eg)
  <2>1. Placed(net2, f, dl, ul, uc, f, eg)
    BY <1>0, <1>4 DEF Owns, Placed, Apart, NewIn
  <2>2. ASSUME NEW g \in Fd \ {f} PROVE Placed(net2, g, dl, ul, uc, f, eg)
    BY <1>0, <1>4, <2>2 DEF Owns, Placed, Apart, NewIn
  <2>3. Apart(dl, ul, uc, f, eg)
    BY <1>0, <1>4 DEF Owns, Apart
  <2> QED BY <2>1, <2>2, <2>3 DEF Owns
<1>5. ASSUME NewIn(net, net2, f, {"ERR"})
      PROVE  Owns(net2, dl, ul, uc, pu, eg \cup {f})
  <2>1. Placed(net2, f, dl, ul, uc, pu, eg \cup {f})
    BY <1>0, <1>5 DEF Owns, Placed, Apart, NewIn
  <2>2. ASSUME NEW g \in Fd \ {f} PROVE Placed(net2, g, dl, ul, uc, pu, eg \cup {f})
    BY <1>0, <1>5, <2>2 DEF Owns, Placed, Apart, NewIn
  <2>3. Apart(dl, ul, uc, pu, eg \cup {f})
    BY <1>0, <1>5 DEF Owns, Apart
  <2> QED BY <2>1, <2>2, <2>3 DEF Owns
<1> QED BY <1>1, <1>2, <1>3, <1>4, <1>5

(* checkPendingUpstream moves the socket from pendingUp to upConn. *)
LEMMA OwnsPromote ==
  ASSUME NEW net, NEW net2, NEW dl, NEW pu \in Fd, NEW eg,
         Owns(net, dl, NoFd, NoFd, pu, eg), NewIn(net, net2, pu, {"IN", "ERR"})
  PROVE  Owns(net2, dl, NoFd, pu, NoFd, eg)
  BY SocketsAssumption DEF Owns, Placed, Apart, NewIn

LEMMA UnusedFacts ==
  ASSUME TypeOK, NEW f \in Unused
  PROVE  /\ f \in Fd /\ f # NoFd /\ sock[f].st = "nonexist"
         /\ f \notin {downListen, upListen, upConn, pendingUp} \cup egress
  BY SocketsAssumption DEF Unused, Held, TypeOK, NoSocket

LEMMA OpenOwns ==
  ASSUME TypeOK, Ownership, Open
  PROVE  OwnsNow'
<1>1. PICK l \in MakeListener(sock, Unused, Backlog) : sock' = l.net /\ downListen' = l.fd
  BY DEF Open
<1>2. \/ l.fd = NoFd /\ l.net = sock
      \/ l.fd \in Unused /\ NewIn(sock, l.net, l.fd, {"IN", "ERR"})
  BY RelayAssumption, MakeListenerHere
<1>3. downListen = NoFd
  BY DEF Open, Ownership, Held
<1>4. CASE l.fd = NoFd /\ l.net = sock
  BY <1>1, <1>3, <1>4, OwnershipOwns DEF OwnsNow, Open
<1>5. CASE l.fd \in Unused /\ NewIn(sock, l.net, l.fd, {"IN", "ERR"})
  BY <1>1, <1>3, <1>5, OwnershipOwns, UnusedFacts, OwnsAdd DEF OwnsNow, Open
<1> QED BY <1>2, <1>4, <1>5

LEMMA EnsureDownListenerOwns ==
  ASSUME TypeOK, OwnsNow, EnsureDownListener
  PROVE  OwnsNow'
<1>1. CASE UNCHANGED <<sock, downListen>>
  BY <1>1 DEF EnsureDownListener, OwnsNow
<1>2. ASSUME downListen = NoFd, NEW l \in MakeListener(sock, Unused, Backlog),
             sock' = l.net, downListen' = l.fd
      PROVE  OwnsNow'
  <2>1. \/ l.fd = NoFd /\ l.net = sock
        \/ l.fd \in Unused /\ NewIn(sock, l.net, l.fd, {"IN", "ERR"})
    BY RelayAssumption, MakeListenerHere
  <2>2. CASE l.fd = NoFd /\ l.net = sock
    BY <1>2, <2>2 DEF EnsureDownListener, OwnsNow
  <2>3. CASE l.fd \in Unused /\ NewIn(sock, l.net, l.fd, {"IN", "ERR"})
    BY <1>2, <2>3, UnusedFacts, OwnsAdd DEF EnsureDownListener, OwnsNow
  <2> QED BY <2>1, <2>2, <2>3
<1> QED BY <1>1, <1>2 DEF EnsureDownListener, DownDue

LEMMA EnsureUpListenerOwns ==
  ASSUME TypeOK, OwnsNow, EnsureUpListener
  PROVE  OwnsNow'
<1>1. CASE UNCHANGED <<sock, upListen>>
  BY <1>1 DEF EnsureUpListener, OwnsNow
<1>2. ASSUME UpListenDue, NEW l \in MakeListener(sock, Unused, 1),
             sock' = l.net, upListen' = l.fd
      PROVE  OwnsNow'
  <2>1. \/ l.fd = NoFd /\ l.net = sock
        \/ l.fd \in Unused /\ NewIn(sock, l.net, l.fd, {"IN", "ERR"})
    BY MakeListenerHere
  <2>2. upListen = NoFd /\ upConn = NoFd /\ Mode = "listener"
    BY <1>2 DEF UpListenDue
  <2>3. CASE l.fd = NoFd /\ l.net = sock
    BY <1>2, <2>2, <2>3 DEF EnsureUpListener, OwnsNow
  <2>4. CASE l.fd \in Unused /\ NewIn(sock, l.net, l.fd, {"IN", "ERR"})
    BY <1>2, <2>2, <2>4, UnusedFacts, OwnsAdd DEF EnsureUpListener, OwnsNow
  <2> QED BY <2>1, <2>3, <2>4
<1> QED BY <1>1, <1>2 DEF EnsureUpListener

LEMMA EnsureUpstreamCallerOwns ==
  ASSUME TypeOK, OwnsNow, EnsureUpstreamCaller
  PROVE  OwnsNow'
<1>1. CASE UNCHANGED <<sock, pendingUp>>
  BY <1>1 DEF EnsureUpstreamCaller, OwnsNow
<1>2. ASSUME CallDue, NEW f \in Unused, pendingUp' = f,
             sock' = [sock EXCEPT ![f] = NewSocket("connecting", MaxUnread, {})]
      PROVE  OwnsNow'
  <2>1. NewIn(sock, sock', f, {})
    BY <1>2, UnusedFacts DEF NewIn, NewSocket, TypeOK, SocketsTypeOK
  <2>2. upConn = NoFd /\ pendingUp = NoFd /\ Mode = "caller"
    BY <1>2 DEF CallDue
  <2> QED BY <1>2, <2>1, <2>2, UnusedFacts, OwnsAdd DEF EnsureUpstreamCaller, OwnsNow
<1>3. CASE sock' \in GivenUp(sock, Unused, {"init", "connecting"}) /\ UNCHANGED pendingUp
  BY <1>1, <1>3, CallGivenUp
<1> QED BY <1>1, <1>2, <1>3 DEF EnsureUpstreamCaller

LEMMA CheckPendingUpstreamOwns ==
  ASSUME TypeOK, OwnsNow, CheckPendingUpstream
  PROVE  OwnsNow'
<1>1. CASE UNCHANGED <<sock, upConn, pendingUp>>
  BY <1>1 DEF CheckPendingUpstream, OwnsNow
<1>2. ASSUME pendingUp # NoFd, sock[pendingUp].st = "connected", pendingUp' = NoFd,
             sock' = Watch(sock, pendingUp, {"IN", "ERR"}), upConn' = pendingUp
      PROVE  OwnsNow'
  <2>1. pendingUp \in Fd
    BY <1>2 DEF TypeOK
  <2>2. NewIn(sock, sock', pendingUp, {"IN", "ERR"})
    BY <1>2, <2>1, WatchType DEF NewIn, TypeOK, SocketsTypeOK
  <2>3. upListen = NoFd /\ upConn = NoFd
    BY <1>2, RelayAssumption DEF OwnsNow, Owns, Placed, Apart
  <2> QED BY <1>2, <2>1, <2>2, <2>3, OwnsPromote DEF CheckPendingUpstream, OwnsNow
<1>3. ASSUME pendingUp # NoFd, pendingUp' = NoFd, sock' = Close(sock, {pendingUp}),
             UNCHANGED upConn
      PROVE  OwnsNow'
  <2>1. /\ sock' \in [Fd -> Socket]
        /\ \A f \in Fd : sock'[f].st # "nonexist" => f \notin {pendingUp} /\ sock'[f] = sock[f]
    BY <1>3, CloseType DEF TypeOK, SocketsTypeOK, NoSocket
  <2>2. Owns(sock', Dropped(downListen, {pendingUp}), Dropped(upListen, {pendingUp}),
             Dropped(upConn, {pendingUp}), Dropped(pendingUp, {pendingUp}),
             egress \ {pendingUp})
    BY <2>1, OwnsDrop DEF OwnsNow, TypeOK, SocketsTypeOK
  <2>3. pendingUp \notin {downListen, upListen, upConn} \cup egress
    BY <1>3, RelayAssumption DEF OwnsNow, Owns, Placed, Apart
  <2> QED BY <1>3, <2>2, <2>3 DEF CheckPendingUpstream, Dropped, OwnsNow
<1> QED BY <1>1, <1>2, <1>3 DEF CheckPendingUpstream, GiveUp

LEMMA AdmitOwns ==
  ASSUME NEW net \in [Fd -> Socket], NEW c \in Fd \cup {NoFd}, NEW dl, NEW ul, NEW uc, NEW pu,
         Admit(c, net), egress \subseteq Fd,
         c \notin {dl, ul, uc, pu} \cup egress \/ c = NoFd,
         NEW old \in [Fd -> Socket], Owns(old, dl, ul, uc, pu, egress),
         \A f \in Fd \ {c} : net[f].st # "nonexist" =>
            old[f].st # "nonexist" /\ net[f].mask = old[f].mask,
         c # NoFd => net[c].st # "nonexist"
  PROVE  Owns(sock', dl, ul, uc, pu, egress')
<1>1. CASE c = NoFd /\ sock' = net /\ UNCHANGED egress
  BY <1>1, OwnsChange, SocketsAssumption
<1>2. CASE c # NoFd /\ sock' = Close(net, {c}) /\ UNCHANGED egress
  <2>1. /\ sock' \in [Fd -> Socket]
        /\ \A f \in Fd : sock'[f].st # "nonexist" =>
             old[f].st # "nonexist" /\ sock'[f].mask = old[f].mask
    BY <1>2, CloseType DEF NoSocket
  <2> QED BY <1>2, <2>1, OwnsChange
<1>3. CASE c # NoFd /\ sock' = Watch(net, c, {"ERR"}) /\ egress' = egress \cup {c}
  <2> DEFINE base == Close(net, {c})
  <2>1. base \in [Fd -> Socket] /\ base[c] = NoSocket /\ \A f \in Fd \ {c} : base[f] = net[f]
    BY <1>3, CloseType
  <2> HIDE DEF base
  <2>2. \A f \in Fd : base[f].st # "nonexist" =>
          old[f].st # "nonexist" /\ base[f].mask = old[f].mask
    BY <2>1 DEF NoSocket
  <2>3. Owns(base, dl, ul, uc, pu, egress)
    BY <2>1, <2>2, OwnsChange
  <2>4. NewIn(base, sock', c, {"ERR"})
    BY <1>3, <2>1, WatchType DEF NewIn
  <2> QED BY <1>3, <2>3, <2>4, OwnsAdd
<1> QED BY <1>1, <1>2, <1>3 DEF Admit

LEMMA AcceptDownstreamOwns ==
  ASSUME TypeOK, OwnsNow, NEW fd \in Fd, AcceptDownstream(fd)
  PROVE  OwnsNow'
<1>1. PICK a \in Accept(sock, downListen, Unused, 0) :
        \/ /\ a.net[downListen].st = "listening"
           /\ UNCHANGED downListen
           /\ Admit(a.fd, a.net)
        \/ \E l \in MakeListener(Close(a.net, {downListen}), Unused \ {a.fd}, Backlog) :
             downListen' = l.fd /\ Admit(a.fd, l.net)
  BY DEF AcceptDownstream
<1>2. downListen \in Fd \cap Held /\ downListen # NoFd
  BY SocketsAssumption DEF AcceptDownstream, ToDownListener, Held
<1>3. sock \in [Fd -> Socket] /\ egress \subseteq Fd
  BY DEF TypeOK, SocketsTypeOK
<1>4. /\ a.net \in [Fd -> Socket]
      /\ a.net[downListen].st = "listening" =>
            sock[downListen].st = "listening" /\ a.net[downListen].mask = sock[downListen].mask
      /\ \/ a.fd = NoFd /\ a.net = Close(sock, {downListen})
         \/ /\ a.fd \in Unused
            /\ a.net[a.fd] = NewSocket("connected", 0, {})
            /\ \A f \in Fd \ {a.fd, downListen} : a.net[f] = sock[f]
  BY <1>2, AcceptUnused DEF Accepted
<1>5. /\ a.fd \in Fd \cup {NoFd}
      /\ a.fd = NoFd \/ a.fd \notin {downListen, upListen, upConn, pendingUp} \cup egress
      /\ a.fd # NoFd => a.net[a.fd].st # "nonexist"
      /\ \A f \in Fd \ {a.fd, downListen} : a.net[f] = sock[f]
  BY <1>4, UnusedFacts, CloseType, <1>2, <1>3 DEF NewSocket
<1>6. UNCHANGED <<upListen, upConn, pendingUp>>
  BY DEF AcceptDownstream
<1>7. CASE a.net[downListen].st = "listening" /\ UNCHANGED downListen /\ Admit(a.fd, a.net)
  <2>1. \A f \in Fd \ {a.fd} : a.net[f].st # "nonexist" =>
           sock[f].st # "nonexist" /\ a.net[f].mask = sock[f].mask
    BY <1>2, <1>4, <1>5, <1>7
  <2>2. Owns(sock, downListen, upListen, upConn, pendingUp, egress)
    BY DEF OwnsNow
  <2>3. Owns(sock', downListen, upListen, upConn, pendingUp, egress')
    BY <1>3, <1>4, <1>5, <1>7, <2>1, <2>2, AdmitOwns
  <2> QED BY <1>6, <1>7, <2>3 DEF OwnsNow
<1>8. ASSUME NEW l \in MakeListener(Close(a.net, {downListen}), Unused \ {a.fd}, Backlog),
             downListen' = l.fd, Admit(a.fd, l.net)
      PROVE  OwnsNow'
  <2> DEFINE closed == Close(a.net, {downListen})
             rest   == Close(sock, {downListen})
  <2>1. /\ closed \in [Fd -> Socket] /\ rest \in [Fd -> Socket]
        /\ closed[downListen] = NoSocket /\ rest[downListen] = NoSocket
        /\ \A f \in Fd \ {downListen} : closed[f] = a.net[f] /\ rest[f] = sock[f]
    BY <1>2, <1>3, <1>4, CloseType
  <2>2. /\ l.net \in [Fd -> Socket]
        /\ \/ l.fd = NoFd /\ l.net = closed
           \/ l.fd \in Unused \ {a.fd} /\ NewIn(closed, l.net, l.fd, {"IN", "ERR"})
    <3> DEFINE free == Unused \ {a.fd}
    <3>1. l \in MakeListener(closed, free, Backlog)
      OBVIOUS
    <3>2. free \in SUBSET Fd /\ Backlog \in Nat
      BY UnusedType, RelayAssumption
    <3>4. \A f \in free : closed[f] = NoSocket
      BY <1>2, UnusedStays
    <3> HIDE DEF closed, free
    <3>3. /\ l.net \in [Fd -> Socket]
          /\ \/ l.fd = NoFd /\ l.net = closed
             \/ l.fd \in free /\ NewIn(closed, l.net, l.fd, {"IN", "ERR"})
      BY <2>1, <3>1, <3>2, <3>4, MakeListenerResult
    <3> QED BY <3>3 DEF free
  <2> HIDE DEF closed, rest
  <2>3. Owns(rest, NoFd, upListen, upConn, pendingUp, egress)
    <3>1. Owns(rest, Dropped(downListen, {downListen}), Dropped(upListen, {downListen}),
               Dropped(upConn, {downListen}), Dropped(pendingUp, {downListen}),
               egress \ {downListen})
      BY <1>3, <2>1, OwnsDrop DEF OwnsNow, NoSocket
    <3>2. downListen \notin {upListen, upConn, pendingUp} \cup egress
      BY <1>2 DEF OwnsNow, Owns, Placed, Apart
    <3> QED BY <3>1, <3>2 DEF Dropped
  <2>4. CASE l.fd = NoFd /\ l.net = closed
    <3>1. \A f \in Fd \ {a.fd} : l.net[f].st # "nonexist" =>
             rest[f].st # "nonexist" /\ l.net[f].mask = rest[f].mask
      BY <1>5, <2>1, <2>4 DEF NoSocket
    <3>2. a.fd # NoFd => a.fd \notin {downListen} /\ l.net[a.fd].st # "nonexist"
      BY <1>5, <2>1, <2>4
    <3>3. Owns(sock', NoFd, upListen, upConn, pendingUp, egress')
      BY <1>3, <1>5, <1>8, <2>1, <2>2, <2>3, <3>1, <3>2, AdmitOwns
    <3> QED BY <1>6, <1>8, <2>4, <3>3 DEF OwnsNow
  <2>5. CASE l.fd \in Unused \ {a.fd} /\ NewIn(closed, l.net, l.fd, {"IN", "ERR"})
    <3> DEFINE made == [rest EXCEPT ![l.fd] = l.net[l.fd]]
    <3>1. /\ l.fd \in Fd /\ l.fd # a.fd /\ l.fd # downListen
          /\ l.fd \notin {NoFd, upListen, upConn, pendingUp} \cup egress
      BY <2>5, UnusedFacts
    <3>2. made \in [Fd -> Socket] /\ NewIn(rest, made, l.fd, {"IN", "ERR"})
      BY <2>1, <2>2, <2>5, <3>1 DEF NewIn
    <3>3. \A f \in Fd \ {a.fd} : l.net[f].st # "nonexist" =>
             made[f].st # "nonexist" /\ l.net[f].mask = made[f].mask
      BY <1>5, <2>1, <2>5, <3>1 DEF NoSocket, NewIn
    <3> HIDE DEF made
    <3>4. Owns(made, l.fd, upListen, upConn, pendingUp, egress)
      BY <2>3, <3>1, <3>2, OwnsAdd
    <3>5. a.fd # NoFd => /\ a.fd \notin {l.fd, upListen, upConn, pendingUp} \cup egress
                        /\ l.net[a.fd].st # "nonexist"
      BY <1>5, <2>1, <2>5, <3>1 DEF NewIn
    <3>6. Owns(sock', l.fd, upListen, upConn, pendingUp, egress')
      BY <1>3, <1>5, <1>8, <2>2, <3>2, <3>3, <3>4, <3>5, AdmitOwns
    <3> QED BY <1>6, <1>8, <3>6 DEF OwnsNow
  <2> QED BY <2>2, <2>4, <2>5
<1> QED BY <1>1, <1>7, <1>8

LEMMA AcceptUpstreamOwns ==
  ASSUME TypeOK, OwnsNow, NEW fd \in Fd, AcceptUpstream(fd)
  PROVE  OwnsNow'
<1>1. PICK a \in Accept(sock, fd, Unused, MaxUnread) :
        LET net == Close(a.net, {fd}) IN
        \/ a.fd = NoFd /\ sock' = net /\ UNCHANGED upConn
        \/ a.fd # NoFd /\ sock' = Close(net, {a.fd}) /\ UNCHANGED upConn
        \/ a.fd # NoFd /\ sock' = Watch(net, a.fd, {"IN", "ERR"}) /\ upConn' = a.fd
  BY DEF AcceptUpstream
<1>2. /\ fd = upListen /\ fd # NoFd /\ fd \in Fd \cap Held /\ MaxUnread \in Nat
      /\ upListen' = NoFd /\ UNCHANGED <<downListen, pendingUp, egress>>
  BY SocketsAssumption DEF AcceptUpstream, TakeIn, Held
<1>3. sock \in [Fd -> Socket] /\ egress \subseteq Fd
  BY DEF TypeOK, SocketsTypeOK
<1>4. /\ a.net \in [Fd -> Socket]
      /\ \/ a.fd = NoFd /\ a.net = Close(sock, {fd})
         \/ /\ a.fd \in Unused
            /\ a.net[a.fd] = NewSocket("connected", MaxUnread, {})
            /\ \A f \in Fd \ {a.fd, fd} : a.net[f] = sock[f]
  BY <1>2, AcceptUnused DEF Accepted
<1>5. /\ a.fd \in Fd \cup {NoFd}
      /\ a.fd = NoFd \/ a.fd \notin {downListen, upListen, upConn, pendingUp} \cup egress
      /\ a.fd # NoFd => a.net[a.fd].st # "nonexist"
      /\ \A f \in Fd \ {a.fd, fd} : a.net[f] = sock[f]
  BY <1>3, <1>4, UnusedFacts, CloseType DEF NewSocket
<1> DEFINE rest == Close(sock, {fd})
           net  == Close(a.net, {fd})
<1>6. /\ rest \in [Fd -> Socket] /\ net \in [Fd -> Socket]
      /\ rest[fd] = NoSocket /\ net[fd] = NoSocket
      /\ \A f \in Fd \ {fd} : rest[f] = sock[f] /\ net[f] = a.net[f]
  BY <1>3, <1>4, CloseType
<1>7. upConn = NoFd /\ Mode = "listener" /\ pendingUp = NoFd
  BY <1>2, RelayAssumption DEF OwnsNow, Owns, Placed, Apart
<1>8. \/ a.fd = NoFd /\ sock' = net /\ UNCHANGED upConn
      \/ a.fd # NoFd /\ sock' = Close(net, {a.fd}) /\ UNCHANGED upConn
      \/ a.fd # NoFd /\ sock' = Watch(net, a.fd, {"IN", "ERR"}) /\ upConn' = a.fd
  BY <1>1
<1> HIDE DEF rest, net
<1>9. Owns(rest, downListen, NoFd, upConn, pendingUp, egress)
  <2>1. Owns(rest, Dropped(downListen, {fd}), Dropped(upListen, {fd}), Dropped(upConn, {fd}),
             Dropped(pendingUp, {fd}), egress \ {fd})
    BY <1>3, <1>6, OwnsDrop DEF OwnsNow, NoSocket
  <2>2. fd \notin {downListen, upConn, pendingUp} \cup egress
    BY <1>2, <1>7 DEF OwnsNow, Owns, Placed, Apart
  <2> QED BY <1>2, <2>1, <2>2 DEF Dropped
<1>10. \A f \in Fd \ {a.fd} : net[f].st # "nonexist" =>
          rest[f].st # "nonexist" /\ net[f].mask = rest[f].mask
  BY <1>5, <1>6 DEF NoSocket
<1>11. CASE a.fd = NoFd /\ sock' = net /\ UNCHANGED upConn
  <2>1. Owns(net, downListen, NoFd, upConn, pendingUp, egress)
    BY <1>6, <1>9, <1>10, <1>11, OwnsChange, SocketsAssumption
  <2> QED BY <1>2, <1>11, <2>1 DEF OwnsNow
<1>12. CASE a.fd # NoFd /\ sock' = Close(net, {a.fd}) /\ UNCHANGED upConn
  <2>1. /\ sock' \in [Fd -> Socket]
        /\ \A f \in Fd : sock'[f].st # "nonexist" =>
             rest[f].st # "nonexist" /\ sock'[f].mask = rest[f].mask
    BY <1>6, <1>10, <1>12, CloseType DEF NoSocket
  <2>2. Owns(sock', downListen, NoFd, upConn, pendingUp, egress)
    BY <1>6, <1>9, <2>1, OwnsChange
  <2> QED BY <1>2, <1>12, <2>2 DEF OwnsNow
<1>13. CASE a.fd # NoFd /\ sock' = Watch(net, a.fd, {"IN", "ERR"}) /\ upConn' = a.fd
  <2> DEFINE base == Close(net, {a.fd})
  <2>1. /\ base \in [Fd -> Socket] /\ a.fd \in Fd
        /\ base[a.fd] = NoSocket /\ \A f \in Fd \ {a.fd} : base[f] = net[f]
    BY <1>5, <1>6, <1>13, CloseType
  <2>2. NewIn(base, sock', a.fd, {"IN", "ERR"})
    <3>1. a.fd # fd /\ net[a.fd].st # "nonexist"
      BY <1>2, <1>5, <1>6, <1>13
    <3>2. /\ \A g \in Fd \ {a.fd} : sock'[g] = net[g]
          /\ sock'[a.fd].st = net[a.fd].st /\ sock'[a.fd].mask = {"IN", "ERR"}
      BY <1>6, <1>13, <2>1, WatchType
    <3> QED BY <2>1, <3>1, <3>2 DEF NewIn
  <2> HIDE DEF base
  <2>3. Owns(base, downListen, NoFd, upConn, pendingUp, egress)
    <3>1. \A f \in Fd : base[f].st # "nonexist" =>
             rest[f].st # "nonexist" /\ base[f].mask = rest[f].mask
      BY <1>10, <2>1 DEF NoSocket
    <3> QED BY <1>6, <1>9, <2>1, <3>1, OwnsChange
  <2>4. Owns(sock', downListen, NoFd, a.fd, pendingUp, egress)
    BY <1>2, <1>5, <1>7, <1>13, <2>1, <2>2, <2>3, OwnsAdd
  <2> QED BY <1>2, <1>13, <2>4 DEF OwnsNow
<1> QED BY <1>8, <1>11, <1>12, <1>13

LEMMA DrainUpstreamOwns ==
  ASSUME TypeOK, OwnsNow, NEW fd \in Fd, DrainUpstream(fd)
  PROVE  OwnsNow'
<1>1. PICK n \in Drained(fd), lost \in SUBSET egress :
        /\ egress' = egress \ lost
        /\ LET net == Close([sock EXCEPT ![fd].q = @ - n], lost) IN
           \/ Sound(fd) /\ sock' = net /\ UNCHANGED upConn
           \/ ~Sound(fd) /\ sock' = Close(net, {fd}) /\ upConn' = NoFd
  BY DEF DrainUpstream
<1>2. fd = upConn /\ fd # NoFd /\ UNCHANGED <<downListen, upListen, pendingUp>>
  BY SocketsAssumption DEF DrainUpstream, TakeIn
<1>3. sock \in [Fd -> Socket] /\ egress \subseteq Fd /\ sock[fd].q - n \in Nat
  BY DrainedType DEF TypeOK, SocketsTypeOK, Socket
<1> DEFINE rest == [sock EXCEPT ![fd].q = @ - n]
           net  == Close(rest, lost)
<1>4. /\ rest \in [Fd -> Socket]
      /\ \A f \in Fd : rest[f].st = sock[f].st /\ rest[f].mask = sock[f].mask
  BY <1>3 DEF Socket
<1> HIDE DEF rest
<1>5. /\ net \in [Fd -> Socket]
      /\ \A f \in Fd : net[f] = IF f \in lost THEN NoSocket ELSE rest[f]
  BY <1>4, CloseType
<1>6. \/ sock' = net /\ UNCHANGED upConn
      \/ sock' = Close(net, {fd}) /\ upConn' = NoFd
  BY <1>1 DEF rest
<1>7. Owns(rest, downListen, upListen, upConn, pendingUp, egress)
  BY <1>3, <1>4, OwnsChange DEF OwnsNow
<1> HIDE DEF net
<1>8. lost \cap {downListen, upListen, upConn, pendingUp} = {}
  BY DEF OwnsNow, Owns, Placed, Apart
<1>9. Owns(net, downListen, upListen, upConn, pendingUp, egress \ lost)
  <2>1. Owns(net, Dropped(downListen, lost), Dropped(upListen, lost), Dropped(upConn, lost),
             Dropped(pendingUp, lost), egress \ lost)
    BY <1>3, <1>4, <1>5, <1>7, OwnsDrop DEF NoSocket
  <2> QED BY <1>8, <2>1 DEF Dropped
<1>10. CASE sock' = net /\ UNCHANGED upConn
  BY <1>1, <1>2, <1>9, <1>10 DEF OwnsNow
<1>11. CASE sock' = Close(net, {fd}) /\ upConn' = NoFd
  <2>1. /\ sock' \in [Fd -> Socket]
        /\ \A f \in Fd : sock'[f].st # "nonexist" => f \notin {fd} /\ sock'[f] = net[f]
    BY <1>5, <1>11, CloseType DEF NoSocket
  <2>2. Owns(sock', Dropped(downListen, {fd}), Dropped(upListen, {fd}), Dropped(upConn, {fd}),
             Dropped(pendingUp, {fd}), (egress \ lost) \ {fd})
    BY <1>3, <1>5, <1>9, <2>1, OwnsDrop
  <2>3. fd \notin {downListen, upListen, pendingUp} \cup egress
    BY <1>2, SocketsAssumption DEF OwnsNow, Owns, Placed, Apart
  <2> QED BY <1>1, <1>2, <1>11, <2>2, <2>3 DEF OwnsNow, Dropped
<1> QED BY <1>6, <1>10, <1>11

LEMMA HandleErrOwns ==
  ASSUME TypeOK, OwnsNow, NEW fd \in Fd, HandleErr(fd)
  PROVE  OwnsNow'
<1>1. CASE UNCHANGED <<sock, downListen, upListen, upConn, egress>>
  BY <1>1 DEF HandleErr, OwnsNow
<1>2. ASSUME fd \in Held \ {pendingUp}, sock' = Close(sock, {fd}),
             downListen' = Without(downListen, fd), upListen' = Without(upListen, fd),
             upConn' = Without(upConn, fd), egress' = egress \ {fd}
      PROVE  OwnsNow'
  <2>1. sock \in [Fd -> Socket] /\ egress \subseteq Fd
    BY DEF TypeOK, SocketsTypeOK
  <2>2. /\ sock' \in [Fd -> Socket]
        /\ \A f \in Fd : sock'[f].st # "nonexist" => f \notin {fd} /\ sock'[f] = sock[f]
    BY <1>2, <2>1, CloseType DEF NoSocket
  <2>3. Owns(sock', Dropped(downListen, {fd}), Dropped(upListen, {fd}), Dropped(upConn, {fd}),
             Dropped(pendingUp, {fd}), egress \ {fd})
    BY <2>1, <2>2, OwnsDrop DEF OwnsNow
  <2> QED BY <1>2, <2>3 DEF HandleErr, OwnsNow, Dropped, Without
<1> QED BY <1>1, <1>2 DEF HandleErr

LEMMA EnvironmentOwns ==
  ASSUME TypeOK, OwnsNow, Environment
  PROVE  OwnsNow'
<1>1. sock \in [Fd -> Socket] /\ sock' \in [Fd -> Socket]
  BY NetworkType DEF Environment, TypeOK, SocketsTypeOK
<1>2. PICK f \in Fd : \/ PeerArrives(f)   \/ PeerLeaves(f) \/ MessageArrives(f)
                      \/ HandshakeDone(f) \/ Breaks(f)     \/ Reaped(f)
  BY DEF Environment, Network
<1>3. CASE Reaped(f)
  <2>1. \A g \in Fd : sock'[g].st # "nonexist" =>
          sock[g].st # "nonexist" /\ sock'[g].mask = sock[g].mask
    BY <1>1, <1>3, CloseType DEF Reaped, NoSocket
  <2> QED BY <1>1, <2>1, OwnsChange DEF OwnsNow, Environment, roles
<1>4. CASE ~Reaped(f)
  <2>1. \A g \in Fd : sock'[g].st # "nonexist" =>
          sock[g].st # "nonexist" /\ sock'[g].mask = sock[g].mask
    BY <1>1, <1>2, <1>4
    DEF PeerArrives, PeerLeaves, MessageArrives, HandshakeDone, Breaks, Socket
  <2> QED BY <1>1, <2>1, OwnsChange DEF OwnsNow, Environment, roles
<1> QED BY <1>3, <1>4

(* What open() leaves when it cannot listen, and close(): nothing. *)
LEMMA OpenOwnership ==
  ASSUME TypeOK, Ownership, Open, phase' = "failed"
  PROVE  Ownership'
<1>1. PICK l \in MakeListener(sock, Unused, Backlog) : sock' = l.net /\ downListen' = l.fd
  BY DEF Open
<1>2. l.fd = NoFd
  BY <1>1 DEF Open
<1>3. Held = {} /\ Held' = {} /\ \A f \in Fd : ~Exists(f)
  BY <1>1, <1>2 DEF Open, Ownership, NoSocketLeak, Held
<1>4. sock' = sock
  <2>1. \/ l.fd = NoFd /\ l.net = sock
        \/ l.fd \in Unused /\ NewIn(sock, l.net, l.fd, {"IN", "ERR"})
    BY RelayAssumption, MakeListenerHere
  <2> QED BY <1>1, <1>2, <2>1, UnusedFacts
<1>5. RolesExclusive'
  BY <1>1, <1>2 DEF Open, Ownership, RolesExclusive, OneUpstream, RolesDistinct
<1> QED BY <1>3, <1>4, <1>5 DEF Ownership, NoSocketLeak, Exists, Polled

LEMMA CloseRelayOwnership ==
  ASSUME TypeOK, Ownership, CloseRelay
  PROVE  Ownership'
<1>1. \A f \in Fd : sock'[f].st = "nonexist"
  <2>1. /\ sock \in [Fd -> Socket]
        /\ \A f \in Fd : sock[f].st # "nonexist" => f \in Held
    BY DEF TypeOK, SocketsTypeOK, Ownership, NoSocketLeak, Exists
  <2>2. \A f \in Fd : sock'[f] = IF f \in Held THEN NoSocket ELSE sock[f]
    BY <2>1, CloseType DEF CloseRelay
  <2> QED BY <2>1, <2>2 DEF NoSocket
<1>2. Held' \subseteq Fd
  BY DEF CloseRelay, TypeOK, Held
<1>3. NoSocketLeak' /\ Polled'
  BY <1>1, <1>2 DEF NoSocketLeak, Polled, Exists
<1>4. RolesExclusive'
  BY DEF CloseRelay, Ownership, RolesExclusive, OneUpstream, RolesDistinct
<1> QED BY <1>3, <1>4 DEF Ownership, CloseRelay

LEMMA OwnsOwnershipNext == (TypeOK /\ OwnsNow /\ ~Exited /\ phase # "open" => Ownership)'
  BY OwnsOwnership, PTL

LEMMA OwnershipNext ==
  TypeOK /\ TypeOK' /\ Ownership /\ [Next]_vars => Ownership'
<1> SUFFICES ASSUME TypeOK, TypeOK', Ownership, [Next]_vars PROVE Ownership'
  OBVIOUS
<1>1. OwnsNow
  BY OwnershipOwns
<1>2. OwnsNow' /\ ~Exited' /\ phase' # "open" => Ownership'
  BY OwnsOwnershipNext
<1>3. CASE Open
  BY <1>2, <1>3, OpenOwns, OpenOwnership DEF Open, Exited
<1>4. CASE EnsureDownListener
  BY <1>1, <1>2, <1>4, EnsureDownListenerOwns DEF EnsureDownListener, Exited
<1>5. CASE EnsureUpListener
  BY <1>1, <1>2, <1>5, EnsureUpListenerOwns DEF EnsureUpListener, Exited
<1>6. CASE EnsureUpstreamCaller
  BY <1>1, <1>2, <1>6, EnsureUpstreamCallerOwns DEF EnsureUpstreamCaller, Exited
<1>7. CASE CheckPendingUpstream
  BY <1>1, <1>2, <1>7, CheckPendingUpstreamOwns DEF CheckPendingUpstream, Exited
<1>8. CASE EpollWait \/ EpollThrows \/ EndPoll \/ Shutdown \/ PollAgain
  BY <1>1, <1>2, <1>8
  DEF EpollWait, EpollThrows, EndPoll, Shutdown, PollAgain, Exited, roles, loop, OwnsNow
<1>9. ASSUME NEW fd \in Fd,
             AcceptDownstream(fd) \/ AcceptUpstream(fd) \/ DrainUpstream(fd)
      PROVE  Ownership'
  <2>1. OwnsNow'
    BY <1>1, <1>9, AcceptDownstreamOwns, AcceptUpstreamOwns, DrainUpstreamOwns
  <2> QED BY <1>2, <1>9, <2>1
          DEF AcceptDownstream, AcceptUpstream, DrainUpstream, TakeIn, Exited
<1>10. ASSUME NEW fd \in Fd, IgnoreIn(fd) PROVE Ownership'
  BY <1>1, <1>2, <1>10 DEF IgnoreIn, TakeIn, Exited, roles, OwnsNow
<1>11. ASSUME NEW fd \in Fd, HandleErr(fd) PROVE Ownership'
  BY <1>1, <1>2, <1>11, HandleErrOwns DEF HandleErr, Exited
<1>12. CASE CloseRelay
  BY <1>12, CloseRelayOwnership
<1>13. CASE Tick
  BY <1>1, <1>2, <1>13 DEF Tick, Exited, roles, loop, OwnsNow
<1>14. CASE Environment /\ phase # "open"
  BY <1>1, <1>2, <1>14, EnvironmentOwns DEF Environment, loop, Exited
<1>15. CASE Environment /\ phase = "open"
  \* nothing exists yet, so nothing can happen to it
  <2>1. \A f \in Fd : sock[f].st = "nonexist"
    BY <1>15 DEF Ownership, NoSocketLeak, Exists
  <2> QED BY <1>15, <2>1 DEF Environment, Network, PeerArrives, PeerLeaves, MessageArrives,
             HandshakeDone, Breaks, Reaped
<1>16. CASE UNCHANGED vars
  BY <1>16 DEF vars, loop, roles, Ownership, NoSocketLeak, Exists, Exited, RolesExclusive,
     OneUpstream, RolesDistinct, Polled, MaskOf, Held
<1> QED
  BY <1>3, <1>4, <1>5, <1>6, <1>7, <1>8, <1>9, <1>10, <1>11, <1>12, <1>13, <1>14, <1>15, <1>16
  DEF Next, RelayStep, Dispatch, Terminated

(***************************************************************************)
(* No early return of any method leaks a socket, in either mode and for    *)
(* every interleaving with libsrt: what exists is held, what is held is    *)
(* polled for what its part needs, and the parts exclude each other.       *)
(***************************************************************************)
THEOREM OwnershipCorrect == Spec => [](NoSocketLeak /\ RolesExclusive /\ Polled)
<1>1. Init => TypeOK /\ Ownership
  BY TypeInit, OwnershipInit
<1>2. TypeOK /\ Ownership /\ [Next]_vars => (TypeOK /\ Ownership)'
  BY TypeNext, OwnershipNext
<1>3. TypeOK /\ Ownership => NoSocketLeak /\ RolesExclusive /\ Polled
  BY DEF Ownership
<1> QED BY <1>1, <1>2, <1>3, PTL DEF Spec

(* There is one source at most, and no socket plays two parts.             *)
THEOREM RolesExclusiveCorrect == Spec => []RolesExclusive
BY OwnershipCorrect, PTL

(* No socket in use goes unwatched, so none outlives its peer unnoticed.   *)
THEOREM PolledCorrect == Spec => []Polled
BY OwnershipCorrect, PTL
=============================================================================
