-------------------------------- MODULE Relay --------------------------------
(***************************************************************************)
(* The relay of src/relay.js: one upstream connection, many egress         *)
(* clients, one thread.  relay.js makes blocking native calls and nothing  *)
(* else runs meanwhile, so each of its methods is one action, and libsrt's *)
(* own steps (SrtSockets!Network) fall between them.  What a native call   *)
(* returns inside a method is chosen among all the outcomes it has.        *)
(*                                                                         *)
(* phase is the place in index.js's loop: poll() runs ensureDownListener,  *)
(* the ensureUp method of the mode, checkPendingUpstream (caller), then    *)
(* blocks in epollUWait and dispatches the batch of events it got; the     *)
(* loop then yields, which is where signal handlers run.                   *)
(*                                                                         *)
(* Not here: byte and message counters and maybeStats (they decide         *)
(* nothing), which message goes to which client, log lines, and the values *)
(* that applyLiveProfile sets; that a setOpt may fail is part of the       *)
(* outcomes of the methods that call it.                                   *)
(***************************************************************************)
EXTENDS SrtSockets, FiniteSets

CONSTANTS
  Mode,            \* cfg.mode
  MaxClients,      \* cfg.maxClients
  Backlog,         \* cfg.backlog, of the downstream listener
  ReconnectDelay,  \* RECONNECT_DELAY_MS, in ticks
  ConnTimeout,     \* cfg.upstreamConnTimeout, in ticks
  DrainMax,        \* DRAIN_MAX
  OddEvents        \* TRUE: epoll may report what is not, or no longer, so

ASSUME RelayAssumption ==
  /\ Mode \in {"caller", "listener"}
  /\ MaxClients \in Nat \ {0}
  /\ Backlog \in Nat \ {0}
  /\ ReconnectDelay \in Nat \ {0}
  /\ ConnTimeout \in Nat
  /\ DrainMax \in Nat \ {0}
  /\ OddEvents \in BOOLEAN

VARIABLES
  phase, running,
  downListen, upListen, upConn, pendingUp, egress,
  sinceDown,      \* now - lastDownRetry, up to ReconnectDelay
  sinceUp,        \* now - lastUpRetry, up to ReconnectDelay
  sincePending,   \* now - pendingUpSince, up to ConnTimeout + 1
  evIn, evErr,    \* the events of this batch still to be handled
  cur,            \* the event whose IN part is done and whose ERR part is due
  downFail,       \* history: ticks since a client-side bind failed
  upFail          \* history: ticks since an upstream bind or connect failed

loop  == <<phase, running>>
roles == <<downListen, upListen, upConn, pendingUp, egress>>
clock == <<sinceDown, sinceUp, sincePending>>
batch == <<evIn, evErr, cur>>
fails == <<downFail, upFail>>
vars  == <<sock, loop, roles, clock, batch, fails>>

Phase == {"open", "openUp", "ensureDown", "ensureUp", "checkPending",
          "wait", "dispatch", "yield", "closed", "failed"}
Exited == phase \in {"closed", "failed"}

TypeOK ==
  /\ SocketsTypeOK
  /\ phase \in Phase
  /\ running \in BOOLEAN
  /\ {downListen, upListen, upConn, pendingUp} \subseteq Fd \cup {NoFd}
  /\ egress \subseteq Fd
  /\ sinceDown \in 0..ReconnectDelay
  /\ sinceUp \in 0..ReconnectDelay
  /\ sincePending \in 0..(ConnTimeout + 1)
  /\ evIn \subseteq Fd /\ evErr \subseteq Fd
  /\ cur \in Fd \cup {NoFd}
  /\ downFail \in 0..ReconnectDelay
  /\ upFail \in 0..ReconnectDelay

(* lastDownRetry and lastUpRetry start at 0, long ago. *)
Init ==
  /\ SocketsInit
  /\ phase = "open" /\ running = TRUE
  /\ downListen = NoFd /\ upListen = NoFd /\ upConn = NoFd /\ pendingUp = NoFd
  /\ egress = {}
  /\ sinceDown = ReconnectDelay /\ sinceUp = ReconnectDelay /\ sincePending = 0
  /\ evIn = {} /\ evErr = {} /\ cur = NoFd
  /\ downFail = ReconnectDelay /\ upFail = ReconnectDelay

(* The sockets the relay holds in one of its fields. *)
Held == ({downListen, upListen, upConn, pendingUp} \cup egress) \ {NoFd}

(* Ids createSocket or accept may return: of no socket, and mentioned nowhere. *)
Unused == {f \in Fd : sock[f] = NoSocket} \ (Held \cup evIn \cup evErr \cup {cur})

(* createSocket returned f, and the calls after it have brought it to st. *)
Made(net, f, st) == [net EXCEPT ![f] = NewSocket(st, 0, {})]

(* Mutant: a failure on the way forgets the socket that was made. *)
GivenUpLeaky(net, free, states) ==
  {net} \cup {Made(net, f, st) : f \in free, st \in states}

(* What a method leaves that fails before it has its socket: createSocket   *)
(* made none, or safeClose closed it in one of the states it had reached.  *)
GivenUp(net, free, states) ==
  {net} \cup {Close(Made(net, f, st), {f}) : f \in free, st \in states}

(* Mutant: the listener is polled for connects only. *)
MakeListenerNoErr(net, free, backlog) ==
  {[fd |-> NoFd, net |-> n] : n \in GivenUp(net, free, {"init", "listening"})}
    \cup
  {[fd |-> f, net |-> [net EXCEPT ![f] = NewSocket("listening", backlog, {"IN"})]] :
     f \in free}

(***************************************************************************)
(* makeListener: a socket that listens and is polled, or -1.  An option or *)
(* bind fails on a socket in "init", epollAddUsock on one that listens.    *)
(***************************************************************************)
MakeListener(net, free, backlog) ==
  {[fd |-> NoFd, net |-> n] : n \in GivenUp(net, free, {"init", "listening"})}
    \cup
  {[fd |-> f, net |-> [net EXCEPT ![f] = NewSocket("listening", backlog, {"IN", "ERR"})]] :
     f \in free}

-----------------------------------------------------------------------------
(* open(): without a client listener the process exits. *)
Open ==
  /\ phase = "open"
  /\ \E l \in MakeListener(sock, Unused, Backlog) :
       /\ sock' = l.net
       /\ downListen' = l.fd
       /\ phase' = IF l.fd = NoFd THEN "failed"
                   ELSE IF Mode = "listener" THEN "openUp" ELSE "ensureDown"
  /\ UNCHANGED <<running, upListen, upConn, pendingUp, egress, clock, batch, fails>>

(* Mutants: a throttle that ends a tick early; its test inverted. *)
DownDueEarly == downListen = NoFd /\ running /\ sinceDown >= ReconnectDelay - 1
DownDueInverted == downListen = NoFd /\ running /\ sinceDown < ReconnectDelay

DownDue == downListen = NoFd /\ running /\ sinceDown >= ReconnectDelay

EnsureDownListener ==
  /\ phase = "ensureDown"
  /\ phase' = "ensureUp"
  /\ \/ /\ ~DownDue
        /\ UNCHANGED <<sock, downListen, sinceDown, downFail>>
     \/ /\ DownDue
        /\ sinceDown' = 0
        /\ \E l \in MakeListener(sock, Unused, Backlog) :
             /\ sock' = l.net
             /\ downListen' = l.fd
             /\ downFail' = IF l.fd = NoFd THEN 0 ELSE downFail
  /\ UNCHANGED <<running, upListen, upConn, pendingUp, egress, sinceUp, sincePending,
                 batch, upFail>>

(* Mutants: no throttle; its test inverted; a listener beside a source. *)
UpListenDueAtOnce == Mode = "listener" /\ upListen = NoFd /\ upConn = NoFd /\ running
UpListenDueInverted ==
  Mode = "listener" /\ upListen = NoFd /\ upConn = NoFd /\ running /\ sinceUp < ReconnectDelay
UpListenDueWithSource ==
  Mode = "listener" /\ upListen = NoFd /\ running /\ sinceUp >= ReconnectDelay

UpListenDue ==
  Mode = "listener" /\ upListen = NoFd /\ upConn = NoFd /\ running /\ sinceUp >= ReconnectDelay

(* Called by open() as well as by poll(). *)
EnsureUpListener ==
  /\ Mode = "listener" /\ phase \in {"openUp", "ensureUp"}
  /\ phase' = IF phase = "openUp" THEN "ensureDown" ELSE "wait"
  /\ \/ /\ ~UpListenDue
        /\ UNCHANGED <<sock, upListen, sinceUp, upFail>>
     \/ /\ UpListenDue
        /\ sinceUp' = 0
        /\ \E l \in MakeListener(sock, Unused, 1) :
             /\ sock' = l.net
             /\ upListen' = l.fd
             /\ upFail' = IF l.fd = NoFd THEN 0 ELSE upFail
  /\ UNCHANGED <<running, downListen, upConn, pendingUp, egress, sinceDown, sincePending,
                 batch, downFail>>

(* Mutants: no throttle; an attempt although the source is connected. *)
CallDueAtOnce == Mode = "caller" /\ upConn = NoFd /\ pendingUp = NoFd /\ running
CallDueWithSource ==
  Mode = "caller" /\ pendingUp = NoFd /\ running /\ sinceUp >= ReconnectDelay

CallDue ==
  Mode = "caller" /\ upConn = NoFd /\ pendingUp = NoFd /\ running /\ sinceUp >= ReconnectDelay

(***************************************************************************)
(* The attempt either fails on the way (createSocket, an option, the local *)
(* bind, connect), which closes the socket, or leaves a handshake in       *)
(* flight.  The method then calls checkPendingUpstream, and poll() calls   *)
(* it once more: the phase makes one call follow, and libsrt's steps       *)
(* before it give the results the two calls together can have.             *)
(***************************************************************************)
EnsureUpstreamCaller ==
  /\ Mode = "caller" /\ phase = "ensureUp"
  /\ phase' = "checkPending"
  /\ \/ /\ ~CallDue
        /\ UNCHANGED <<sock, pendingUp, sinceUp, sincePending, upFail>>
     \/ /\ CallDue
        /\ sinceUp' = 0
        /\ \/ /\ upFail' = 0
              /\ sock' \in GivenUp(sock, Unused, {"init", "connecting"})
              /\ UNCHANGED <<pendingUp, sincePending>>
           \/ \E f \in Unused :
                /\ sock' = [sock EXCEPT ![f] = NewSocket("connecting", MaxUnread, {})]
                /\ pendingUp' = f
                /\ sincePending' = 0
                /\ UNCHANGED upFail
  /\ UNCHANGED <<running, downListen, upListen, upConn, egress, sinceDown, batch, downFail>>

(* Mutants: given up a tick early; no time-out. *)
GiveUpEarly ==
  /\ pendingUp # NoFd /\ sock[pendingUp].st # "connected"
  /\ sock[pendingUp].st # "connecting" \/ sincePending >= ConnTimeout
GiveUpNotOverdue ==
  pendingUp # NoFd /\ sock[pendingUp].st \notin {"connected", "connecting"}

(* A handshake is given up once its socket has left the states of an       *)
(* attempt, or when it has taken longer than the connect time-out.         *)
GiveUp ==
  /\ pendingUp # NoFd /\ sock[pendingUp].st # "connected"
  /\ sock[pendingUp].st # "connecting" \/ sincePending > ConnTimeout

(* Promote a finished handshake, unless epoll refuses it; give up a failed *)
(* or overdue one; wait for the rest.                                      *)
CheckPendingUpstream ==
  /\ phase = "checkPending"
  /\ phase' = "wait"
  /\ \/ /\ pendingUp # NoFd => sock[pendingUp].st = "connecting" /\ ~GiveUp
        /\ UNCHANGED <<sock, upConn, pendingUp, sinceUp, upFail>>
     \/ /\ pendingUp # NoFd /\ sock[pendingUp].st = "connected"
        /\ pendingUp' = NoFd
        /\ \/ sock' = Watch(sock, pendingUp, {"IN", "ERR"}) /\ upConn' = pendingUp
           \/ sock' = Close(sock, {pendingUp}) /\ UNCHANGED upConn
        /\ UNCHANGED <<sinceUp, upFail>>
     \/ /\ GiveUp
        /\ sock' = Close(sock, {pendingUp})
        /\ pendingUp' = NoFd
        /\ sinceUp' = 0 /\ upFail' = 0
        /\ UNCHANGED upConn
  /\ UNCHANGED <<running, downListen, upListen, egress, sinceDown, sincePending, batch,
                 downFail>>

-----------------------------------------------------------------------------
(***************************************************************************)
(* epollUWait.  It returns what is ready, at a time-out perhaps nothing;   *)
(* and, since relay.js expects both, at most one odd event more: an ERR on *)
(* a socket that has not failed, or an event of a socket already closed    *)
(* ("level-triggered state survives close").                               *)
(***************************************************************************)
Stale == {f \in Fd : OddEvents /\ sock[f].st = "nonexist"}
Spurious == {f \in Fd : OddEvents /\ "ERR" \in sock[f].mask}

EpollWait ==
  /\ phase = "wait"
  /\ phase' = "dispatch"
  /\ \/ evIn' = ReadyIn /\ evErr' = ReadyErr
     \/ \E f \in Stale    : evIn' = ReadyIn \cup {f} /\ evErr' \in {ReadyErr, ReadyErr \cup {f}}
     \/ \E f \in Spurious : evIn' = ReadyIn /\ evErr' = ReadyErr \cup {f}
  /\ UNCHANGED <<sock, running, roles, clock, cur, fails>>

(* epollUWait throws: poll() returns at once. *)
EpollThrows ==
  /\ phase = "wait"
  /\ phase' = "yield"
  /\ UNCHANGED <<sock, running, roles, clock, batch, fails>>

(* The IN part of the event of fd; its ERR part, if it has one, comes next. *)
TakeIn(fd) ==
  /\ phase = "dispatch" /\ cur = NoFd /\ fd \in evIn
  /\ evIn' = evIn \ {fd}
  /\ cur' = IF fd \in evErr THEN fd ELSE NoFd
  /\ UNCHANGED <<evErr, phase, running, sincePending>>

(* Mutant: the cap is off by one. *)
HasRoomForOneMore == Cardinality(egress) <= MaxClients

HasRoom == Cardinality(egress) < MaxClients

(* Mutant: a client turned away is not closed. *)
AdmitLeaky(c, net) ==
  \/ sock' = net /\ UNCHANGED egress
  \/ c # NoFd /\ HasRoom /\ sock' = Watch(net, c, {"ERR"}) /\ egress' = egress \cup {c}

(* Mutant: a client is admitted without being watched. *)
AdmitUnwatched(c, net) ==
  \/ c = NoFd /\ sock' = net /\ UNCHANGED egress
  \/ c # NoFd /\ sock' = Close(net, {c}) /\ UNCHANGED egress
  \/ c # NoFd /\ HasRoom /\ sock' = net /\ egress' = egress \cup {c}

(* The tail of acceptDownstream, for the socket c that accept() returned. *)
Admit(c, net) ==
  \/ c = NoFd /\ sock' = net /\ UNCHANGED egress
  \/ c # NoFd /\ sock' = Close(net, {c}) /\ UNCHANGED egress
  \/ c # NoFd /\ HasRoom /\ sock' = Watch(net, c, {"ERR"}) /\ egress' = egress \cup {c}

(* Mutant: routed by what the batch said, for a listener replaced since. *)
ToDownListenerStale(fd) == downListen # NoFd /\ fd \notin {upListen, upConn}

(***************************************************************************)
(* acceptDownstream: keep the listener if it survived the accept, else     *)
(* make a new one at once (lastDownRetry = 0 lets ensureDownListener       *)
(* through; running holds throughout poll()), then admit or turn away the  *)
(* client.  Events are routed by the fields as they are now, not as they   *)
(* were when the batch was taken.                                          *)
(***************************************************************************)
ToDownListener(fd) == fd = downListen

AcceptDownstream(fd) ==
  /\ TakeIn(fd) /\ ToDownListener(fd)
  /\ \E a \in Accept(sock, downListen, Unused, 0) :
       \/ /\ a.net[downListen].st = "listening"
          /\ UNCHANGED <<downListen, sinceDown, downFail>>
          /\ Admit(a.fd, a.net)
       \/ /\ a.net[downListen].st # "listening"
          /\ sinceDown' = 0
          /\ \E l \in MakeListener(Close(a.net, {downListen}), Unused \ {a.fd}, Backlog) :
               /\ downListen' = l.fd
               /\ downFail' = IF l.fd = NoFd THEN 0 ELSE downFail
               /\ Admit(a.fd, l.net)
  /\ UNCHANGED <<upListen, upConn, pendingUp, sinceUp, upFail>>

(* acceptUpstream: one source is enough, so the listener goes either way. *)
AcceptUpstream(fd) ==
  /\ TakeIn(fd) /\ fd = upListen
  /\ upListen' = NoFd
  /\ \E a \in Accept(sock, fd, Unused, MaxUnread) :
       LET net == Close(a.net, {fd}) IN
       \/ /\ a.fd = NoFd
          /\ sinceUp' = ReconnectDelay
          /\ sock' = net /\ UNCHANGED upConn
       \/ /\ a.fd # NoFd
          /\ sock' = Close(net, {a.fd}) /\ UNCHANGED <<upConn, sinceUp>>
       \/ /\ a.fd # NoFd
          /\ sock' = Watch(net, a.fd, {"IN", "ERR"})
          /\ upConn' = a.fd /\ UNCHANGED sinceUp
  /\ UNCHANGED <<downListen, pendingUp, egress, sinceDown, fails>>

(* Mutants: an error is fatal to a client, or never noticed on one; a source *)
(* with nothing to read counts as lost.                                      *)
SoundNoClient(fd) ==
  fd \notin egress /\ sock[fd].st = IF fd \in {downListen, upListen} THEN "listening" ELSE "connected"
SoundAnyClient(fd) ==
  fd \in egress \/ sock[fd].st = IF fd \in {downListen, upListen} THEN "listening" ELSE "connected"
SoundIfData(fd) ==
  /\ sock[fd].st = IF fd \in {downListen, upListen} THEN "listening" ELSE "connected"
  /\ fd = upConn => sock[fd].q > 0

(* The socket is in the state that its role needs. *)
Sound(fd) == sock[fd].st = IF fd \in {downListen, upListen} THEN "listening" ELSE "connected"

(* Mutant: the drain does not stop at an empty buffer. *)
DrainedBlindly(fd) == {sock[fd].q + 1}

(* How many messages one drain reads: all there are, up to the cap; from a *)
(* socket that broke, any part of them.                                     *)
Drained(fd) ==
  LET most == IF sock[fd].q < DrainMax THEN sock[fd].q ELSE DrainMax
  IN  IF sock[fd].st = "connected" THEN {most} ELSE 0..most

(***************************************************************************)
(* drainUpstream: each message read is written to each client, and a       *)
(* client whose write fails is dropped.  A write to a client that is not   *)
(* connected fails; one to a connected client fails when its send buffer   *)
(* is full.  One look at the socket's state ends the drain.                *)
(***************************************************************************)
DrainUpstream(fd) ==
  /\ TakeIn(fd) /\ fd = upConn
  /\ \E n \in Drained(fd), lost \in SUBSET egress :
       /\ n = 0 => lost = {}
       /\ n > 0 => {c \in egress : sock[c].st # "connected"} \subseteq lost
       /\ egress' = egress \ lost
       /\ LET net == Close([sock EXCEPT ![fd].q = @ - n], lost) IN
          \/ Sound(fd) /\ sock' = net /\ UNCHANGED upConn
          \/ ~Sound(fd) /\ sock' = Close(net, {fd}) /\ upConn' = NoFd
  /\ UNCHANGED <<downListen, upListen, pendingUp, sinceDown, sinceUp, fails>>

(* An IN event of a socket the relay no longer routes. *)
IgnoreIn(fd) ==
  /\ TakeIn(fd) /\ fd \notin {downListen, upListen, upConn}
  /\ UNCHANGED <<sock, roles, sinceDown, sinceUp, fails>>

Without(role, fd) == IF role = fd THEN NoFd ELSE role

(* handleErr: drop a socket whose state is not the one its role needs. *)
HandleErr(fd) ==
  /\ phase = "dispatch" /\ fd \in evErr
  /\ cur = fd \/ (cur = NoFd /\ fd \notin evIn)
  /\ evErr' = evErr \ {fd} /\ cur' = NoFd
  /\ \/ /\ fd \in Held \ {pendingUp} /\ ~Sound(fd)
        /\ sock' = Close(sock, {fd})
        /\ downListen' = Without(downListen, fd) /\ upListen' = Without(upListen, fd)
        /\ upConn' = Without(upConn, fd) /\ egress' = egress \ {fd}
     \/ /\ fd \notin Held \ {pendingUp} \/ Sound(fd)
        /\ UNCHANGED <<sock, downListen, upListen, upConn, egress>>
  /\ UNCHANGED <<phase, running, pendingUp, clock, evIn, fails>>

(* The batch is done; poll() returns to the loop, which yields. *)
EndPoll ==
  /\ phase = "dispatch" /\ evIn = {} /\ evErr = {} /\ cur = NoFd
  /\ phase' = "yield"
  /\ UNCHANGED <<sock, running, roles, clock, batch, fails>>

-----------------------------------------------------------------------------
(* Mutant: a signal handler may run while poll() waits. *)
ShutdownAnytime ==
  /\ phase \in {"wait", "yield"} /\ running
  /\ running' = FALSE
  /\ UNCHANGED <<sock, phase, roles, clock, batch, fails>>

(* shutdown(), from a signal handler: these run only while the loop yields. *)
Shutdown ==
  /\ phase = "yield" /\ running
  /\ running' = FALSE
  /\ UNCHANGED <<sock, phase, roles, clock, batch, fails>>

(* Mutant: the loop does not test running. *)
PollAgainForever ==
  /\ phase = "yield"
  /\ phase' = "ensureDown"
  /\ UNCHANGED <<sock, running, roles, clock, batch, fails>>

PollAgain ==
  /\ phase = "yield" /\ running
  /\ phase' = "ensureDown"
  /\ UNCHANGED <<sock, running, roles, clock, batch, fails>>

(* close(): the fields other than egress and pendingUp keep their ids. *)
CloseRelay ==
  /\ phase = "yield" /\ ~running
  /\ sock' = Close(sock, Held)
  /\ egress' = {} /\ pendingUp' = NoFd
  /\ phase' = "closed"
  /\ UNCHANGED <<running, downListen, upListen, upConn, clock, batch, fails>>

(***************************************************************************)
(* Time.  Ages count up to the value they are compared with.  The clock is *)
(* read once, at the start of poll(): what poll() does before it blocks    *)
(* takes no time on the scale of a tick.                                   *)
(***************************************************************************)
Older(age, limit) == IF age < limit THEN age + 1 ELSE age

Tick ==
  /\ phase \in {"wait", "dispatch", "yield"}
  /\ sinceDown' = Older(sinceDown, ReconnectDelay)
  /\ sinceUp' = Older(sinceUp, ReconnectDelay)
  /\ sincePending' = IF pendingUp = NoFd THEN 0 ELSE Older(sincePending, ConnTimeout + 1)
  /\ downFail' = Older(downFail, ReconnectDelay)
  /\ upFail' = Older(upFail, ReconnectDelay)
  /\ UNCHANGED <<sock, loop, roles, batch>>

Environment ==
  /\ ~Exited
  /\ Network
  /\ UNCHANGED <<loop, roles, clock, batch, fails>>

(* The process is gone: nothing more happens. *)
Terminated == Exited /\ UNCHANGED vars

Dispatch ==
  \E fd \in Fd : \/ AcceptDownstream(fd) \/ AcceptUpstream(fd) \/ DrainUpstream(fd)
                 \/ IgnoreIn(fd)         \/ HandleErr(fd)

RelayStep ==
  \/ Open \/ EnsureDownListener \/ EnsureUpListener \/ EnsureUpstreamCaller
  \/ CheckPendingUpstream \/ EpollWait \/ EpollThrows \/ Dispatch \/ EndPoll
  \/ PollAgain \/ CloseRelay

Next == RelayStep \/ Shutdown \/ Tick \/ Environment \/ Terminated

Spec == Init /\ [][Next]_vars

(***************************************************************************)
(* Fairness.  The thread is scheduled and its calls return; an epoll that  *)
(* can be waited on is not always failing; time passes, whatever the phase *)
(* is when it does.  Of the network nothing is assumed.                    *)
(***************************************************************************)
FairSpec == Spec /\ WF_vars(RelayStep) /\ SF_vars(EpollWait) /\ SF_vars(Tick)
=============================================================================
