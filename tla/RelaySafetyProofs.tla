------------------------- MODULE RelaySafetyProofs -------------------------
(***************************************************************************)
(* More proofs about Relay, on top of the ownership of sockets proved in   *)
(* RelayProofs: the bound on clients, the retry throttle, and what a step  *)
(* may never do to a client, to the source or on an event out of date.     *)
(***************************************************************************)
EXTENDS RelayProofs, FiniteSetTheorems

(* What RelayProofs establishes, as one invariant to rest on. *)
LEMMA Grounds == Spec => [](TypeOK /\ Ownership)
<1>1. Init => TypeOK /\ Ownership
  BY TypeInit, OwnershipInit
<1>2. TypeOK /\ Ownership /\ [Next]_vars => (TypeOK /\ Ownership)'
  BY TypeNext, OwnershipNext
<1> QED BY <1>1, <1>2, PTL DEF Spec

(* An event is handled by the method of the field that holds its socket. *)
LEMMA NextCases ==
  ASSUME [Next]_vars
  PROVE  \/ Open \/ EnsureDownListener \/ EnsureUpListener \/ EnsureUpstreamCaller
         \/ CheckPendingUpstream \/ EpollWait \/ EpollThrows \/ EndPoll \/ PollAgain
         \/ CloseRelay \/ Shutdown \/ Tick \/ Environment \/ UNCHANGED vars
         \/ \E fd \in Fd : \/ AcceptDownstream(fd) \/ AcceptUpstream(fd) \/ DrainUpstream(fd)
                           \/ IgnoreIn(fd)         \/ HandleErr(fd)
  BY DEF Next, RelayStep, Dispatch, Terminated

-----------------------------------------------------------------------------
(* The client limit *)

ClientBound == IsFiniteSet(egress) /\ ClientCap

(* One client more, if there is room, or any number of clients fewer. *)
LEMMA ClientBoundStep ==
  ASSUME ClientBound,
         \/ egress' \subseteq egress
         \/ HasRoom /\ \E c : egress' = egress \cup {c}
  PROVE  ClientBound'
<1>1. /\ IsFiniteSet(egress) /\ Cardinality(egress) \in Nat
      /\ Cardinality(egress) <= MaxClients /\ MaxClients \in Nat
  BY FS_CardinalityType, RelayAssumption DEF ClientBound, ClientCap
<1>2. CASE egress' \subseteq egress
  <2>1. IsFiniteSet(egress') /\ Cardinality(egress') <= Cardinality(egress)
    BY <1>1, <1>2, FS_Subset
  <2>2. Cardinality(egress') \in Nat
    BY <2>1, FS_CardinalityType
  <2> QED BY <1>1, <2>1, <2>2 DEF ClientBound, ClientCap
<1>3. ASSUME HasRoom, NEW c, egress' = egress \cup {c} PROVE ClientBound'
  <2>1. /\ IsFiniteSet(egress \cup {c})
        /\ Cardinality(egress \cup {c}) \in {Cardinality(egress), Cardinality(egress) + 1}
    BY <1>1, FS_AddElement
  <2>2. Cardinality(egress) < MaxClients
    BY <1>3 DEF HasRoom
  <2> QED BY <1>1, <1>3, <2>1, <2>2 DEF ClientBound, ClientCap
<1> QED BY <1>2, <1>3

LEMMA AdmitGrows ==
  ASSUME NEW c, NEW net, Admit(c, net)
  PROVE  egress' = egress \/ (HasRoom /\ egress' = egress \cup {c})
  BY DEF Admit

LEMMA EgressStep ==
  ASSUME [Next]_vars
  PROVE  \/ egress' \subseteq egress
         \/ HasRoom /\ \E c : egress' = egress \cup {c}
<1>1. ASSUME NEW fd \in Fd, AcceptDownstream(fd)
      PROVE  egress' = egress \/ (HasRoom /\ \E c : egress' = egress \cup {c})
  <2>1. \E c, net : Admit(c, net)
    BY <1>1 DEF AcceptDownstream
  <2> QED BY <2>1, AdmitGrows
<1>2. ASSUME NEW fd \in Fd,
             AcceptUpstream(fd) \/ DrainUpstream(fd) \/ IgnoreIn(fd) \/ HandleErr(fd)
      PROVE  egress' \subseteq egress
  BY <1>2 DEF AcceptUpstream, DrainUpstream, IgnoreIn, HandleErr, roles
<1>3. CASE \/ Open \/ EnsureDownListener \/ EnsureUpListener \/ EnsureUpstreamCaller
           \/ CheckPendingUpstream \/ EpollWait \/ EpollThrows \/ EndPoll \/ PollAgain
           \/ CloseRelay \/ Shutdown \/ Tick \/ Environment \/ UNCHANGED vars
  BY <1>3 DEF Open, EnsureDownListener, EnsureUpListener, EnsureUpstreamCaller,
     CheckPendingUpstream, EpollWait, EpollThrows, EndPoll, PollAgain, CloseRelay, Shutdown,
     Tick, Environment, vars, roles
<1> QED BY <1>1, <1>2, <1>3, NextCases

(***************************************************************************)
(* maxClients is never exceeded (relay.js:347), for any limit and however  *)
(* many sockets there are: the set of clients only grows by an accept, and *)
(* an accept looks at its size with nothing between the look and the add.  *)
(***************************************************************************)
THEOREM ClientCapCorrect == Spec => []ClientCap
<1>1. Init => ClientBound
  <2> SUFFICES ASSUME Init PROVE ClientBound
    OBVIOUS
  <2>1. egress = {} /\ MaxClients \in Nat
    BY RelayAssumption DEF Init
  <2> QED BY <2>1, FS_EmptySet DEF ClientBound, ClientCap
<1>2. ClientBound /\ [Next]_vars => ClientBound'
  BY EgressStep, ClientBoundStep
<1>3. ClientBound => ClientCap
  BY DEF ClientBound
<1> QED BY <1>1, <1>2, <1>3, PTL DEF Spec

-----------------------------------------------------------------------------
(* Signals and the loop *)

(***************************************************************************)
(* A signal is noticed only between polls: every phase within one was      *)
(* reached through the test of the loop (index.js:58), so the tests of     *)
(* running inside poll() always succeed.                                   *)
(***************************************************************************)
THEOREM RunningWhilePollingCorrect == Spec => []RunningWhilePolling
<1>1. Init => RunningWhilePolling
  BY DEF Init, RunningWhilePolling
<1>2. ASSUME RunningWhilePolling, [Next]_vars PROVE RunningWhilePolling'
  <2>1. ASSUME NEW fd \in Fd,
               \/ AcceptDownstream(fd) \/ AcceptUpstream(fd) \/ DrainUpstream(fd)
               \/ IgnoreIn(fd)         \/ HandleErr(fd)
        PROVE  UNCHANGED loop
    BY <2>1 DEF AcceptDownstream, AcceptUpstream, DrainUpstream, IgnoreIn, HandleErr, TakeIn, loop
  <2>2. CASE UNCHANGED loop
    BY <1>2, <2>2 DEF loop, RunningWhilePolling
  <2>3. CASE Tick \/ Environment \/ UNCHANGED vars
    BY <2>2, <2>3 DEF Tick, Environment, vars
  <2>4. CASE \/ Open \/ EnsureDownListener \/ EnsureUpListener \/ EnsureUpstreamCaller
             \/ CheckPendingUpstream \/ EpollWait \/ EpollThrows \/ EndPoll \/ PollAgain
             \/ CloseRelay \/ Shutdown
    BY <1>2, <2>4
    DEF Open, EnsureDownListener, EnsureUpListener, EnsureUpstreamCaller, CheckPendingUpstream,
        EpollWait, EpollThrows, EndPoll, PollAgain, CloseRelay, Shutdown, RunningWhilePolling
  <2> QED BY <1>2, <2>1, <2>2, <2>3, <2>4, NextCases
<1> QED BY <1>1, <1>2, PTL DEF Spec

-----------------------------------------------------------------------------
(* The retry throttle *)

LEMMA OlderFacts ==
  ASSUME NEW limit \in Nat, NEW a \in 0..limit, NEW b \in 0..limit
  PROVE  /\ a <= b => Older(a, limit) <= Older(b, limit)
         /\ Older(limit, limit) = limit
  BY DEF Older

(* open() does not look at the throttle; nothing has failed before it. *)
NoFailureYet == phase = "open" => downFail = ReconnectDelay

(* Only these can disturb ThrottleCovers. *)
throttle == <<downListen, upListen, sinceDown, sinceUp, downFail, upFail>>

LEMMA ThrottleStep ==
  ASSUME TypeOK, RolesExclusive, ThrottleCovers, NoFailureYet, [Next]_vars
  PROVE  ThrottleCovers'
<1> USE RelayAssumption, SocketsAssumption
<1>1. /\ sinceDown \in 0..ReconnectDelay /\ sinceUp \in 0..ReconnectDelay
      /\ downFail \in 0..ReconnectDelay /\ upFail \in 0..ReconnectDelay
      /\ ReconnectDelay \in Nat
  BY DEF TypeOK
<1>2. CASE UNCHANGED throttle
  BY <1>2 DEF throttle, ThrottleCovers
<1>3. CASE \/ EpollWait \/ EpollThrows \/ EndPoll \/ PollAgain \/ CloseRelay \/ Shutdown
           \/ Environment \/ UNCHANGED vars
  <2>1. UNCHANGED throttle
    BY <1>3 DEF EpollWait, EpollThrows, EndPoll, PollAgain, CloseRelay, Shutdown, Environment,
       vars, roles, clock, fails, throttle
  <2> QED BY <1>2, <2>1
<1>4. CASE Open
  \* nothing has failed yet
  <2>1. UNCHANGED <<upListen, sinceDown, sinceUp, downFail, upFail>>
    BY <1>4 DEF Open, clock, fails
  <2> QED BY <1>4, <2>1 DEF Open, NoFailureYet, ThrottleCovers
<1>5. CASE EnsureDownListener
  <2>1. UNCHANGED <<upListen, sinceUp, upFail>>
    BY <1>5 DEF EnsureDownListener
  <2>2. CASE DownDue
    <3>1. /\ sinceDown' = 0 /\ downFail' \in {0, downFail}
          /\ downListen' # NoFd => downFail' = downFail
      BY <1>5, <2>2 DEF EnsureDownListener
    <3>2. downFail = ReconnectDelay
      BY <1>1, <2>2 DEF DownDue, ThrottleCovers
    <3> QED BY <1>1, <2>1, <3>1, <3>2 DEF ThrottleCovers
  <2>3. CASE ~DownDue
    BY <1>2, <1>5, <2>1, <2>3 DEF EnsureDownListener, throttle
  <2> QED BY <2>2, <2>3
<1>6. CASE EnsureUpListener
  <2>1. UNCHANGED <<downListen, sinceDown, downFail>>
    BY <1>6 DEF EnsureUpListener
  <2>2. CASE UpListenDue
    <3>1. /\ sinceUp' = 0 /\ upFail' \in {0, upFail}
          /\ upListen' # NoFd => upFail' = upFail
      BY <1>6, <2>2 DEF EnsureUpListener
    <3>2. upFail = ReconnectDelay
      BY <1>1, <2>2 DEF UpListenDue, ThrottleCovers
    <3> QED BY <1>1, <2>1, <3>1, <3>2 DEF ThrottleCovers
  <2>3. CASE ~UpListenDue
    BY <1>2, <1>6, <2>1, <2>3 DEF EnsureUpListener, throttle
  <2> QED BY <2>2, <2>3
<1>7. CASE EnsureUpstreamCaller \/ CheckPendingUpstream
  \* in caller mode there is no listener for the source
  <2>1. UNCHANGED <<downListen, upListen, sinceDown, downFail>>
    BY <1>7 DEF EnsureUpstreamCaller, CheckPendingUpstream
  <2>2. CASE UNCHANGED <<sinceUp, upFail>>
    BY <1>2, <2>1, <2>2 DEF throttle
  <2>3. CASE sinceUp' = 0 /\ upFail' \in {0, upFail} /\ upListen = NoFd
    BY <1>1, <2>1, <2>3 DEF ThrottleCovers
  <2>4. CASE EnsureUpstreamCaller
    BY <2>2, <2>3, <2>4 DEF EnsureUpstreamCaller, RolesExclusive, OneUpstream
  <2>5. CASE CheckPendingUpstream
    <3>1. pendingUp # NoFd => upListen = NoFd
      BY DEF RolesExclusive, OneUpstream
    <3> QED BY <2>2, <2>3, <2>5, <3>1 DEF CheckPendingUpstream, GiveUp
  <2> QED BY <1>7, <2>4, <2>5
<1>8. ASSUME NEW fd \in Fd, AcceptDownstream(fd) PROVE ThrottleCovers'
  <2>1. UNCHANGED <<upListen, sinceUp, upFail>>
    BY <1>8 DEF AcceptDownstream
  <2>2. downFail = ReconnectDelay
    BY <1>8 DEF AcceptDownstream, ToDownListener, ThrottleCovers
  <2>3. \/ UNCHANGED <<downListen, sinceDown, downFail>>
        \/ /\ sinceDown' = 0 /\ downFail' \in {0, downFail}
           /\ downListen' # NoFd => downFail' = downFail
    BY <1>8 DEF AcceptDownstream
  <2> QED BY <1>1, <2>1, <2>2, <2>3 DEF ThrottleCovers
<1>9. ASSUME NEW fd \in Fd, AcceptUpstream(fd) PROVE ThrottleCovers'
  <2>1. UNCHANGED <<downListen, sinceDown, downFail, upFail>> /\ upListen' = NoFd
    BY <1>9 DEF AcceptUpstream, fails
  <2>2. upFail = ReconnectDelay
    BY <1>9 DEF AcceptUpstream, ThrottleCovers
  <2>3. sinceUp' \in {sinceUp, ReconnectDelay}
    BY <1>9 DEF AcceptUpstream
  <2> QED BY <1>1, <2>1, <2>2, <2>3 DEF ThrottleCovers
<1>10. ASSUME NEW fd \in Fd, DrainUpstream(fd) \/ IgnoreIn(fd) PROVE ThrottleCovers'
  <2>1. UNCHANGED throttle
    BY <1>10 DEF DrainUpstream, IgnoreIn, roles, fails, throttle
  <2> QED BY <1>2, <2>1
<1>11. ASSUME NEW fd \in Fd, HandleErr(fd) PROVE ThrottleCovers'
  <2>1. /\ UNCHANGED <<sinceDown, sinceUp, downFail, upFail>>
        /\ downListen' \in {downListen, NoFd} /\ upListen' \in {upListen, NoFd}
    BY <1>11 DEF HandleErr, Without, clock, fails
  <2> QED BY <2>1 DEF ThrottleCovers
<1>12. CASE Tick
  <2>1. /\ sinceDown' = Older(sinceDown, ReconnectDelay) /\ sinceUp' = Older(sinceUp, ReconnectDelay)
        /\ downFail' = Older(downFail, ReconnectDelay) /\ upFail' = Older(upFail, ReconnectDelay)
        /\ UNCHANGED <<downListen, upListen>>
    BY <1>12 DEF Tick, roles
  <2> QED BY <1>1, <2>1, OlderFacts DEF ThrottleCovers
<1> QED BY <1>3, <1>4, <1>5, <1>6, <1>7, <1>8, <1>9, <1>10, <1>11, <1>12, NextCases

LEMMA NoFailureYetStep ==
  ASSUME NoFailureYet, [Next]_vars
  PROVE  NoFailureYet'
<1>1. ASSUME NEW fd \in Fd,
             \/ AcceptDownstream(fd) \/ AcceptUpstream(fd) \/ DrainUpstream(fd)
             \/ IgnoreIn(fd)         \/ HandleErr(fd)
      PROVE  phase' # "open"
  BY <1>1 DEF AcceptDownstream, AcceptUpstream, DrainUpstream, IgnoreIn, HandleErr, TakeIn
<1>2. CASE \/ Open \/ EnsureDownListener \/ EnsureUpListener \/ EnsureUpstreamCaller
           \/ CheckPendingUpstream \/ EpollWait \/ EpollThrows \/ EndPoll \/ PollAgain
           \/ CloseRelay \/ Shutdown \/ Tick
  BY <1>2
  DEF Open, EnsureDownListener, EnsureUpListener, EnsureUpstreamCaller, CheckPendingUpstream,
      EpollWait, EpollThrows, EndPoll, PollAgain, CloseRelay, Shutdown, Tick, loop, NoFailureYet
<1>3. CASE Environment \/ UNCHANGED vars
  BY <1>3 DEF Environment, vars, loop, fails, NoFailureYet
<1> QED BY <1>1, <1>2, <1>3, NextCases DEF NoFailureYet

(***************************************************************************)
(* The throttle remembers every failed bind and connect, although          *)
(* acceptDownstream and acceptUpstream set the time of the last attempt    *)
(* back to 0 (relay.js:341, 379): they do so for a listener that was up,   *)
(* and while one is up no failure is recent.                               *)
(***************************************************************************)
THEOREM ThrottleCoversCorrect == Spec => []ThrottleCovers
<1>1. Init => ThrottleCovers /\ NoFailureYet
  BY RelayAssumption DEF Init, ThrottleCovers, NoFailureYet
<1>2. /\ TypeOK /\ Ownership /\ ThrottleCovers /\ NoFailureYet /\ [Next]_vars
      => ThrottleCovers' /\ NoFailureYet'
  BY ThrottleStep, NoFailureYetStep DEF Ownership
<1> QED BY <1>1, <1>2, Grounds, PTL DEF Spec

(***************************************************************************)
(* After a bind or connect that failed, poll() tries again only when       *)
(* RECONNECT_DELAY_MS have passed (relay.js:6-7).                          *)
(***************************************************************************)
THEOREM RetryThrottledCorrect == Spec => RetryThrottled
<1>1. ASSUME TypeOK, ThrottleCovers, [Next]_vars PROVE [Throttles]_vars
  <2>1. /\ sinceDown \in 0..ReconnectDelay /\ sinceUp \in 0..ReconnectDelay
        /\ downFail \in 0..ReconnectDelay /\ upFail \in 0..ReconnectDelay
        /\ ReconnectDelay \in Nat
    BY <1>1, RelayAssumption DEF TypeOK
  <2>2. CASE EnsureDownListener
    <3>1. DownDue => downFail = ReconnectDelay
      BY <1>1, <2>1 DEF DownDue, ThrottleCovers
    <3> QED BY <2>2, <3>1 DEF EnsureDownListener, Throttles
  <2>3. CASE EnsureUpListener
    <3>1. UpListenDue => upFail = ReconnectDelay
      BY <1>1, <2>1 DEF UpListenDue, ThrottleCovers
    <3> QED BY <2>3, <3>1 DEF EnsureUpListener, Throttles
  <2>4. CASE EnsureUpstreamCaller
    <3>1. CallDue => upFail = ReconnectDelay
      BY <1>1, <2>1 DEF CallDue, ThrottleCovers
    <3> QED BY <2>4, <3>1 DEF EnsureUpstreamCaller, Throttles
  <2>5. CASE phase \notin {"ensureDown", "openUp", "ensureUp"}
    BY <2>5 DEF Throttles
  <2>6. CASE Environment \/ UNCHANGED vars
    BY <2>6 DEF Environment, vars, roles, clock, Throttles
  <2>7. ASSUME NEW fd \in Fd,
               \/ AcceptDownstream(fd) \/ AcceptUpstream(fd) \/ DrainUpstream(fd)
               \/ IgnoreIn(fd)         \/ HandleErr(fd)
        PROVE  phase = "dispatch"
    BY <2>7 DEF AcceptDownstream, AcceptUpstream, DrainUpstream, IgnoreIn, HandleErr, TakeIn
  <2>8. CASE \/ Open \/ CheckPendingUpstream \/ EpollWait \/ EpollThrows \/ EndPoll \/ PollAgain
             \/ CloseRelay \/ Shutdown \/ Tick
    BY <2>5, <2>8 DEF Open, CheckPendingUpstream, EpollWait, EpollThrows, EndPoll, PollAgain,
       CloseRelay, Shutdown, Tick
  <2> QED BY <1>1, <2>2, <2>3, <2>4, <2>5, <2>6, <2>7, <2>8, NextCases
<1> QED BY <1>1, TypeCorrect, ThrottleCoversCorrect, PTL DEF Spec, RetryThrottled

-----------------------------------------------------------------------------
(* What a step may never do *)

(***************************************************************************)
(* An event whose socket the relay has given up touches no socket and no   *)
(* field, so it cannot reach a listener made since under another id nor a  *)
(* client: routing looks at the fields as they are now (relay.js:527-530). *)
(***************************************************************************)
THEOREM StaleEventHarmlessCorrect == Spec => StaleEventHarmless
<1>1. ASSUME [Next]_vars PROVE [IgnoresStale]_vars
  <2>1. ASSUME NEW fd \in Fd,
               AcceptDownstream(fd) \/ AcceptUpstream(fd) \/ DrainUpstream(fd)
        PROVE  fd \in Held /\ evIn \ evIn' \subseteq {fd} /\ evErr' = evErr
    BY <2>1, SocketsAssumption
    DEF AcceptDownstream, ToDownListener, AcceptUpstream, DrainUpstream, TakeIn, Held
  <2>2. ASSUME NEW fd \in Fd, HandleErr(fd), ~UNCHANGED <<sock, roles>>
        PROVE  fd \in Held /\ evErr \ evErr' \subseteq {fd} /\ evIn' = evIn
    BY <2>2 DEF HandleErr, roles
  <2>3. ASSUME NEW fd \in Fd, IgnoreIn(fd) PROVE UNCHANGED <<sock, roles>>
    BY <2>3 DEF IgnoreIn
  <2>4. CASE UNCHANGED <<sock, roles>>
    BY <2>4 DEF IgnoresStale
  <2>5. CASE UNCHANGED <<evIn, evErr>>
    BY <2>5 DEF IgnoresStale
  <2>6. CASE EpollWait
    BY <2>4, <2>6 DEF EpollWait
  <2>7. CASE \/ Open \/ EnsureDownListener \/ EnsureUpListener \/ EnsureUpstreamCaller
             \/ CheckPendingUpstream \/ EpollThrows \/ EndPoll \/ PollAgain
             \/ CloseRelay \/ Shutdown \/ Tick \/ Environment \/ UNCHANGED vars
    BY <2>5, <2>7 DEF Open, EnsureDownListener, EnsureUpListener, EnsureUpstreamCaller,
       CheckPendingUpstream, EpollThrows, EndPoll, PollAgain, CloseRelay, Shutdown, Tick,
       Environment, vars, batch
  <2>8. ASSUME NEW fd \in Fd, AcceptDownstream(fd) \/ AcceptUpstream(fd) \/ DrainUpstream(fd)
        PROVE  IgnoresStale
    BY <2>1, <2>8 DEF IgnoresStale
  <2>9. ASSUME NEW fd \in Fd, HandleErr(fd) PROVE IgnoresStale
    BY <2>2, <2>4, <2>9 DEF IgnoresStale
  <2> QED BY <1>1, <2>3, <2>4, <2>6, <2>7, <2>8, <2>9, NextCases
<1> QED BY <1>1, PTL DEF Spec, StaleEventHarmless

(***************************************************************************)
(* A connected client keeps its place until close() or a drain that had    *)
(* something to write: an ERR reported for it is looked into first         *)
(* (relay.js:465-473), and the roles exclude each other, so that the state *)
(* asked of it is the one a client must have.                              *)
(***************************************************************************)
THEOREM ConnectedClientKeptCorrect == Spec => ConnectedClientKept
<1>1. ASSUME TypeOK, Ownership, [Next]_vars PROVE [KeepsClients]_vars
  <2>1. CASE egress \subseteq egress'
    BY <2>1 DEF KeepsClients
  <2>2. ASSUME NEW fd \in Fd, AcceptDownstream(fd) PROVE egress \subseteq egress'
    <3>1. \E c, net : Admit(c, net)
      BY <2>2 DEF AcceptDownstream
    <3> QED BY <3>1, AdmitGrows
  <2>3. ASSUME NEW fd \in Fd, DrainUpstream(fd) PROVE KeepsClients
    <3>1. PICK n \in Drained(fd), lost \in SUBSET egress :
            (n = 0 => lost = {}) /\ egress' = egress \ lost
      BY <2>3 DEF DrainUpstream
    <3>2. upConn = fd /\ upConn \in evIn \ evIn'
      BY <2>3 DEF DrainUpstream, TakeIn
    <3>3. n \in Nat /\ n <= sock[upConn].q /\ sock[upConn].q \in Nat
      BY <1>1, <3>2, DrainedType DEF TypeOK, SocketsTypeOK, Socket
    <3>4. egress' # egress => sock[upConn].q > 0
      BY <3>1, <3>3
    <3> QED BY <3>2, <3>4 DEF KeepsClients
  <2>4. ASSUME NEW fd \in Fd, HandleErr(fd) PROVE KeepsClients
    <3>1. egress' # egress => ~Sound(fd) /\ egress' = egress \ {fd}
      BY <2>4 DEF HandleErr
    <3>2. fd \in egress => fd \notin {downListen, upListen}
      BY <1>1 DEF Ownership, RolesExclusive, RolesDistinct
    <3> QED BY <3>1, <3>2 DEF KeepsClients, Sound
  <2>5. ASSUME NEW fd \in Fd, AcceptUpstream(fd) \/ IgnoreIn(fd) PROVE egress \subseteq egress'
    BY <2>5 DEF AcceptUpstream, IgnoreIn, roles
  <2>6. CASE CloseRelay
    BY <2>6 DEF CloseRelay, KeepsClients
  <2>7. CASE \/ Open \/ EnsureDownListener \/ EnsureUpListener \/ EnsureUpstreamCaller
             \/ CheckPendingUpstream \/ EpollWait \/ EpollThrows \/ EndPoll \/ PollAgain
             \/ Shutdown \/ Tick \/ Environment \/ UNCHANGED vars
    BY <2>1, <2>7 DEF Open, EnsureDownListener, EnsureUpListener, EnsureUpstreamCaller,
       CheckPendingUpstream, EpollWait, EpollThrows, EndPoll, PollAgain, Shutdown, Tick,
       Environment, vars, roles
  <2> QED BY <1>1, <2>1, <2>2, <2>3, <2>4, <2>5, <2>6, <2>7, NextCases
<1> QED BY <1>1, Grounds, PTL DEF Spec, ConnectedClientKept

(***************************************************************************)
(* A failed socket does not outlive the batch (relay.js:458-482): that its *)
(* failure is reported rests on Polled, and that the relay lets go of it   *)
(* when the report is handled on the state asked of each role being one    *)
(* that no failed socket is in.                                            *)
(***************************************************************************)
THEOREM ReportedDroppedCorrect == Spec => ReportedDropped
<1>1. ASSUME TypeOK, Ownership, [Next]_vars PROVE [ReportsFailed /\ DropsReported]_vars
  <2>1. CASE EpollWait
    <3>1. \A f \in Held \ {pendingUp} : sock[f].st = "broken" => f \in ReadyErr
      BY <1>1, HeldType DEF Ownership, Polled, MaskOf, Exists, ReadyErr
    <3>2. ReadyErr \subseteq evErr'
      BY <2>1 DEF EpollWait
    <3> QED BY <2>1, <3>1, <3>2 DEF EpollWait, ReportsFailed, DropsReported
  <2>2. ASSUME NEW fd \in Fd, HandleErr(fd) PROVE ReportsFailed /\ DropsReported
    <3>1. phase = "dispatch" /\ evErr \ evErr' \subseteq {fd} /\ UNCHANGED pendingUp
      BY <2>2 DEF HandleErr
    <3>2. fd # NoFd
      BY SocketsAssumption
    <3>3. ASSUME fd # pendingUp, sock[fd].st \in {"broken", "nonexist"}
          PROVE  fd \notin Held'
      <4>1. ~Sound(fd)
        BY <3>3 DEF Sound
      <4>2. CASE fd \in Held
        BY <2>2, <3>1, <3>2, <3>3, <4>1, <4>2 DEF HandleErr, Without, Held
      <4>3. CASE fd \notin Held
        BY <2>2, <3>1, <3>3, <4>1, <4>3 DEF HandleErr, Without, Held
      <4> QED BY <4>2, <4>3
    <3> QED BY <3>1, <3>3 DEF ReportsFailed, DropsReported
  <2>3. ASSUME NEW fd \in Fd,
               AcceptDownstream(fd) \/ AcceptUpstream(fd) \/ DrainUpstream(fd) \/ IgnoreIn(fd)
        PROVE  phase = "dispatch" /\ UNCHANGED evErr
    BY <2>3 DEF AcceptDownstream, AcceptUpstream, DrainUpstream, IgnoreIn, TakeIn
  <2>4. CASE phase = "dispatch" /\ UNCHANGED evErr
    BY <2>4 DEF ReportsFailed, DropsReported
  <2>5. CASE \/ Open \/ EnsureDownListener \/ EnsureUpListener \/ EnsureUpstreamCaller
             \/ CheckPendingUpstream \/ EpollThrows \/ EndPoll \/ PollAgain
             \/ CloseRelay \/ Shutdown
    BY <2>5 DEF Open, EnsureDownListener, EnsureUpListener, EnsureUpstreamCaller,
       CheckPendingUpstream, EpollThrows, EndPoll, PollAgain, CloseRelay, Shutdown, batch,
       ReportsFailed, DropsReported
  <2>6. CASE Tick \/ Environment \/ UNCHANGED vars
    BY <2>6 DEF Tick, Environment, vars, loop, batch, ReportsFailed, DropsReported
  <2> QED BY <1>1, <2>1, <2>2, <2>3, <2>4, <2>5, <2>6, NextCases
<1> QED BY <1>1, Grounds, PTL DEF Spec, ReportedDropped

-----------------------------------------------------------------------------
(* The source *)

(* The step leaves the socket of f, or at least that it exists. *)
Survives(f) == sock'[f].st # "nonexist"

(* A listener is made with a socket that nobody has. *)
LEMMA MakeListenerSpares ==
  ASSUME TypeOK, NEW f \in Held, NEW backlog \in Nat,
         NEW l \in MakeListener(sock, Unused, backlog)
  PROVE  l.net[f] = sock[f]
<1>1. f \in Fd /\ f \notin Unused
  BY HeldType DEF Unused
<1>2. \/ l.fd = NoFd /\ l.net = sock
      \/ l.fd \in Unused /\ NewIn(sock, l.net, l.fd, {"IN", "ERR"})
  BY MakeListenerHere
<1> QED BY <1>1, <1>2 DEF NewIn

LEMMA AdmitSpares ==
  ASSUME NEW net \in [Fd -> Socket], NEW c \in Fd \cup {NoFd}, NEW f \in Fd \ {c}, Admit(c, net)
  PROVE  sock'[f] = net[f]
<1>1. CASE sock' = net
  BY <1>1
<1>2. CASE sock' = Close(net, {c})
  BY <1>2, CloseType
<1>3. CASE c # NoFd /\ sock' = Watch(net, c, {"ERR"})
  BY <1>3, WatchType
<1> QED BY <1>1, <1>2, <1>3 DEF Admit

(* acceptDownstream touches no socket but the listener's and new ones. *)
LEMMA AcceptDownstreamSpares ==
  ASSUME TypeOK, NEW fd \in Fd, AcceptDownstream(fd), NEW f \in Held \ {downListen}
  PROVE  sock'[f] = sock[f]
<1>1. PICK a \in Accept(sock, downListen, Unused, 0) :
        \/ Admit(a.fd, a.net)
        \/ \E l \in MakeListener(Close(a.net, {downListen}), Unused \ {a.fd}, Backlog) :
             Admit(a.fd, l.net)
  BY DEF AcceptDownstream
<1>2. downListen \in Fd \cap Held
  BY SocketsAssumption DEF AcceptDownstream, ToDownListener, Held
<1>3. f \in Fd /\ f \notin Unused /\ f # NoFd
  BY HeldType, SocketsAssumption DEF Unused
<1>4. sock \in [Fd -> Socket]
  BY DEF TypeOK, SocketsTypeOK
<1>5. /\ a.net \in [Fd -> Socket] /\ a.fd \in Fd \cup {NoFd} /\ a.fd # f
      /\ a.net[f] = sock[f]
  <2>1. Accepted(sock, downListen, Unused, 0, a)
    BY <1>2, AcceptUnused
  <2>2. Close(sock, {downListen})[f] = sock[f]
    BY <1>3, <1>4, CloseType
  <2> QED BY <1>3, <2>1, <2>2, UnusedType DEF Accepted
<1>6. CASE Admit(a.fd, a.net)
  BY <1>3, <1>5, <1>6, AdmitSpares
<1>7. ASSUME NEW l \in MakeListener(Close(a.net, {downListen}), Unused \ {a.fd}, Backlog),
             Admit(a.fd, l.net)
      PROVE  sock'[f] = sock[f]
  <2> DEFINE closed == Close(a.net, {downListen})
             free   == Unused \ {a.fd}
  <2>1. closed \in [Fd -> Socket] /\ closed[f] = a.net[f]
    BY <1>3, <1>5, CloseType
  <2>2. l \in MakeListener(closed, free, Backlog) /\ free \in SUBSET Fd /\ Backlog \in Nat /\ f \notin free
    BY <1>3, UnusedType, RelayAssumption
  <2>5. \A g \in free : closed[g] = NoSocket
    BY <1>2, UnusedStays
  <2> HIDE DEF closed, free
  <2>3. /\ l.net \in [Fd -> Socket]
        /\ \/ l.fd = NoFd /\ l.net = closed
           \/ l.fd \in free /\ NewIn(closed, l.net, l.fd, {"IN", "ERR"})
    BY <2>1, <2>2, <2>5, MakeListenerResult
  <2>4. l.net[f] = closed[f]
    BY <1>3, <2>2, <2>3 DEF NewIn
  <2> QED BY <1>3, <1>5, <1>7, <2>1, <2>3, <2>4, AdmitSpares
<1> QED BY <1>1, <1>6, <1>7

LEMMA ConnectionKeptInPoll ==
  ASSUME TypeOK, Ownership, upConn # NoFd, sock[upConn].st = "connected",
         NEW fd \in Fd, \/ AcceptDownstream(fd) \/ AcceptUpstream(fd) \/ DrainUpstream(fd)
                       \/ IgnoreIn(fd)         \/ HandleErr(fd)
  PROVE  upConn' = upConn /\ Survives(upConn)
<1>1. /\ upConn \in Fd /\ upConn \in Held /\ sock \in [Fd -> Socket]
      /\ upConn \notin {downListen, upListen, pendingUp} \cup egress /\ upListen = NoFd
  BY DEF TypeOK, SocketsTypeOK, Held, Ownership, RolesExclusive, OneUpstream, RolesDistinct
<1>2. Sound(upConn)
  BY <1>1 DEF Sound
<1>3. CASE AcceptDownstream(fd)
  <2>1. sock'[upConn] = sock[upConn]
    BY <1>1, <1>3, AcceptDownstreamSpares
  <2> QED BY <1>3, <2>1 DEF AcceptDownstream, Survives
<1>4. CASE AcceptUpstream(fd)
  BY <1>1, <1>4, SocketsAssumption DEF AcceptUpstream
<1>5. CASE DrainUpstream(fd)
  <2>1. PICK n \in Drained(fd), lost \in SUBSET egress :
          \/ sock' = Close([sock EXCEPT ![fd].q = @ - n], lost) /\ UNCHANGED upConn
          \/ ~Sound(fd)
    BY <1>5 DEF DrainUpstream
  <2>2. fd = upConn
    BY <1>5 DEF DrainUpstream
  <2> DEFINE rest == [sock EXCEPT ![fd].q = @ - n]
  <2>3. sock[fd].q - n \in Nat
    BY <1>1, <2>2, DrainedType DEF Socket
  <2>4. rest \in [Fd -> Socket] /\ rest[fd].st = "connected"
    BY <1>1, <2>2, <2>3 DEF Socket
  <2>5. sock' = Close(rest, lost) /\ UNCHANGED upConn
    BY <1>2, <2>1, <2>2
  <2> HIDE DEF rest
  <2>6. sock'[upConn] = rest[upConn]
    BY <1>1, <2>4, <2>5, CloseType
  <2> QED BY <2>2, <2>4, <2>5, <2>6 DEF Survives
<1>6. CASE IgnoreIn(fd)
  BY <1>6 DEF IgnoreIn, roles, Survives
<1>7. CASE HandleErr(fd)
  <2>1. CASE UNCHANGED <<sock, upConn>>
    BY <2>1 DEF Survives
  <2>2. CASE ~Sound(fd) /\ sock' = Close(sock, {fd}) /\ upConn' = Without(upConn, fd)
    <3>1. fd # upConn
      BY <1>2, <2>2
    <3>2. sock'[upConn] = sock[upConn]
      BY <1>1, <2>2, <3>1, CloseType
    <3> QED BY <2>2, <3>1, <3>2 DEF Without, Survives
  <2> QED BY <1>7, <2>1, <2>2 DEF HandleErr
<1> QED BY <1>3, <1>4, <1>5, <1>6, <1>7

LEMMA ConnectionKeptStep ==
  ASSUME TypeOK, Ownership, [Next]_vars
  PROVE  KeepsConnection
<1> SUFFICES ASSUME upConn # NoFd, sock[upConn].st = "connected"
             PROVE  upConn' = upConn /\ (Survives(upConn) \/ phase' = "closed")
  BY DEF KeepsConnection, Survives
<1>1. /\ upConn \in Fd /\ upConn \in Held /\ sock \in [Fd -> Socket]
      /\ upListen = NoFd /\ pendingUp = NoFd
  BY DEF TypeOK, SocketsTypeOK, Held, Ownership, RolesExclusive, OneUpstream
<1>2. CASE \E fd \in Fd : \/ AcceptDownstream(fd) \/ AcceptUpstream(fd) \/ DrainUpstream(fd)
                          \/ IgnoreIn(fd)         \/ HandleErr(fd)
  BY <1>2, ConnectionKeptInPoll
<1>3. CASE Open \/ EnsureDownListener \/ EnsureUpListener
  <2>1. UNCHANGED upConn
    BY <1>3 DEF Open, EnsureDownListener, EnsureUpListener
  <2>2. \/ UNCHANGED sock
        \/ \E b \in Nat : \E l \in MakeListener(sock, Unused, b) : sock' = l.net
    BY <1>3, RelayAssumption DEF Open, EnsureDownListener, EnsureUpListener
  <2> QED BY <1>1, <2>1, <2>2, MakeListenerSpares DEF Survives
<1>4. CASE EnsureUpstreamCaller
  BY <1>1, <1>4 DEF EnsureUpstreamCaller, Unused, CallDue, Survives
<1>5. CASE CheckPendingUpstream
  BY <1>1, <1>5 DEF CheckPendingUpstream, GiveUp, Survives
<1>6. CASE CloseRelay
  BY <1>6 DEF CloseRelay
<1>7. CASE Environment
  <2>1. UNCHANGED upConn
    BY <1>7 DEF Environment, roles
  <2>2. PICK f \in Fd : \/ PeerArrives(f)   \/ PeerLeaves(f) \/ MessageArrives(f)
                        \/ HandshakeDone(f) \/ Breaks(f)     \/ Reaped(f)
    BY <1>7 DEF Environment, Network
  <2>3. CASE Reaped(f)
    BY <1>1, <2>1, <2>3, CloseType DEF Reaped, Survives
  <2>4. CASE ~Reaped(f)
    BY <1>1, <2>1, <2>2, <2>4
    DEF PeerArrives, PeerLeaves, MessageArrives, HandshakeDone, Breaks, Socket, Survives
  <2> QED BY <2>3, <2>4
<1>8. CASE \/ EpollWait \/ EpollThrows \/ EndPoll \/ PollAgain \/ Shutdown \/ Tick
           \/ UNCHANGED vars
  BY <1>8 DEF EpollWait, EpollThrows, EndPoll, PollAgain, Shutdown, Tick, vars, roles, Survives
<1> QED BY <1>2, <1>3, <1>4, <1>5, <1>6, <1>7, <1>8, NextCases

LEMMA AttemptKeptStep ==
  ASSUME TypeOK, Ownership, [Next]_vars
  PROVE  KeepsAttempt
<1> SUFFICES ASSUME pendingUp # NoFd, sock[pendingUp].st = "connecting", sincePending <= ConnTimeout
             PROVE  pendingUp' = pendingUp \/ phase' = "closed"
  BY DEF KeepsAttempt
<1>1. sincePending \in Nat /\ ConnTimeout \in Nat
  BY RelayAssumption DEF TypeOK
<1>2. ASSUME NEW fd \in Fd,
             \/ AcceptDownstream(fd) \/ AcceptUpstream(fd) \/ DrainUpstream(fd)
             \/ IgnoreIn(fd)         \/ HandleErr(fd)
      PROVE  UNCHANGED pendingUp
  BY <1>2 DEF AcceptDownstream, AcceptUpstream, DrainUpstream, IgnoreIn, HandleErr, roles
<1>3. CASE EnsureUpstreamCaller
  BY <1>3 DEF EnsureUpstreamCaller, CallDue
<1>4. CASE CheckPendingUpstream
  <2>1. ~GiveUp
    BY <1>1 DEF GiveUp
  <2> QED BY <1>4, <2>1 DEF CheckPendingUpstream
<1>5. CASE \/ Open \/ EnsureDownListener \/ EnsureUpListener \/ EpollWait \/ EpollThrows
           \/ EndPoll \/ PollAgain \/ CloseRelay \/ Shutdown \/ Tick \/ Environment
           \/ UNCHANGED vars
  BY <1>5 DEF Open, EnsureDownListener, EnsureUpListener, EpollWait, EpollThrows, EndPoll,
     PollAgain, CloseRelay, Shutdown, Tick, Environment, vars, roles
<1> QED BY <1>2, <1>3, <1>4, <1>5, NextCases

(***************************************************************************)
(* A connected source, and an attempt within its time, outlive every step  *)
(* but close(): no accept, drop, recreated listener or late event closes   *)
(* or overwrites them (relay.js:293-318, 451-463).                         *)
(***************************************************************************)
THEOREM SourceKeptCorrect == Spec => SourceKept
<1>1. TypeOK /\ Ownership /\ [Next]_vars => KeepsConnection /\ KeepsAttempt
  BY ConnectionKeptStep, AttemptKeptStep
<1> QED BY <1>1, Grounds, PTL DEF Spec, SourceKept
=============================================================================
