------------------------------- MODULE Fanout -------------------------------
(***************************************************************************)
(* The fan-out loop of src/relay.js at the grain of single native calls.   *)
(* The module Relay takes drainUpstream as one step; here every read of    *)
(* the source and every write to a client is a step of its own, and        *)
(* between any two of them libsrt's threads may deliver messages, empty    *)
(* send buffers, and break or collect sockets.  What each client has been  *)
(* sent is recorded, and the whole implements LiveBroadcast.               *)
(*                                                                         *)
(* Left to Relay: the sockets behind the names, who listens and who        *)
(* connects to the source, and the throttles.  A source that was lost is   *)
(* here again some time later (SourceReturns).                             *)
(***************************************************************************)
EXTENDS Naturals, FiniteSets

CONSTANTS
  Client,        \* peers that may connect
  K, None,       \* of LiveBroadcast
  Listener,      \* the name of downListen in a batch of events
  Source,        \* the name of upConn in a batch of events
  MaxClients,    \* cfg.maxClients
  DrainMax,      \* DRAIN_MAX
  MaxUnread,     \* bound: messages in the source's receive buffer
  SndBuf         \* cfg.sndBuf: messages a client's send buffer has room for

ASSUME FanoutAssumption ==
  /\ K \in Nat /\ K >= 3
  /\ None \notin 0..(K - 1)
  /\ Listener # Source /\ {Listener, Source} \cap Client = {}
  /\ MaxClients \in Nat \ {0}
  /\ DrainMax \in Nat \ {0}
  /\ MaxUnread \in Nat \ {0}
  /\ SndBuf \in Nat \ {0}

VARIABLES
  phase,     \* where poll() is
  evs,       \* the events of this batch still to be handled
  drained,   \* drainUpstream's i
  left,      \* the clients that the iterator over egress has yet to reach
  egress,
  link,      \* the connection of each peer, as the network has it
  unsent,    \* the messages in each client's send buffer
  source,    \* the connection upConn: "up", "broken" (not noticed yet) or "none"
  unread,
  pos,       \* the message last read from the source
  got,       \* history: the message last written to each client of egress
  dead       \* history: the clients not connected when this drain began

loopVars == <<phase, evs, drained, left>>
netVars  == <<link, unsent, source, unread>>
history  == <<got, dead>>
vars     == <<loopVars, egress, netVars, pos, history>>

Number == 0..(K - 1)

Succ(i) == IF i = K - 1 THEN 0 ELSE i + 1

(* "gone": libsrt has collected the socket; its id means nothing any more. *)
Link == {"away", "waiting", "up", "broken", "gone"}

FanoutTypeOK ==
  /\ phase \in {"wait", "dispatch", "read", "write"}
  /\ evs \subseteq Client \cup {Listener, Source}
  /\ drained \in 0..DrainMax
  /\ left \subseteq egress
  /\ egress \subseteq Client
  /\ link \in [Client -> Link]
  /\ unsent \in [Client -> 0..SndBuf]
  /\ source \in {"up", "broken", "none"}
  /\ unread \in 0..MaxUnread
  /\ pos \in Number
  /\ got \in [Client -> Number]
  /\ dead \subseteq Client

Init ==
  /\ phase = "wait" /\ evs = {} /\ drained = 0 /\ left = {}
  /\ egress = {}
  /\ link = [c \in Client |-> "away"]
  /\ unsent = [c \in Client |-> 0]
  /\ source = "up" /\ unread = 0
  /\ pos = 0
  /\ got = [c \in Client |-> 0]
  /\ dead = {}

Waiting == {c \in Client : link[c] = "waiting"}

(***************************************************************************)
(* epollUWait: the level-triggered state, and perhaps an ERR on some       *)
(* client that has not failed.  A socket libsrt has collected is in no     *)
(* container and is reported no more.                                      *)
(***************************************************************************)
Ready ==
  {c \in egress : link[c] = "broken"}
    \cup {e \in {Listener} : Waiting # {}}
    \cup {e \in {Source} : unread > 0 \/ source = "broken"}

EpollWait ==
  /\ phase = "wait"
  /\ phase' = "dispatch"
  /\ \/ evs' = Ready
     \/ \E c \in egress : link[c] = "up" /\ evs' = Ready \cup {c}
  /\ UNCHANGED <<drained, left, egress, netVars, pos, history>>

Take(e) ==
  /\ phase = "dispatch" /\ e \in evs
  /\ evs' = evs \ {e}

EndPoll ==
  /\ phase = "dispatch" /\ evs = {}
  /\ phase' = "wait"
  /\ UNCHANGED <<evs, drained, left, egress, netVars, pos, history>>

(***************************************************************************)
(* acceptDownstream.  A failed accept retires the listener, and those who  *)
(* waited on it are turned away with it.  A client accepted is closed      *)
(* again at the cap, or when it cannot be set up; else it joins the        *)
(* stream where it stands.                                                 *)
(***************************************************************************)
AcceptFails ==
  /\ Take(Listener)
  /\ link' = [c \in Client |-> IF c \in Waiting THEN "away" ELSE link[c]]
  /\ UNCHANGED <<phase, drained, left, egress, unsent, source, unread, pos, history>>

AcceptRefuses(c) ==
  /\ Take(Listener) /\ c \in Waiting
  /\ link' = [link EXCEPT ![c] = "away"]
  /\ UNCHANGED <<phase, drained, left, egress, unsent, source, unread, pos, history>>

AcceptAdmits(c) ==
  /\ Take(Listener) /\ c \in Waiting
  /\ Cardinality(egress) < MaxClients
  /\ egress' = egress \cup {c}
  /\ link' = [link EXCEPT ![c] = "up"]
  /\ got' = [got EXCEPT ![c] = pos]
  /\ UNCHANGED <<phase, drained, left, unsent, source, unread, pos, dead>>

Accept == AcceptFails \/ \E c \in Client : AcceptRefuses(c) \/ AcceptAdmits(c)

(***************************************************************************)
(* dropEgress: out of egress and closed.  Deleting an entry of a Set does  *)
(* not disturb an iterator over it, except that it is not reached any more.*)
(***************************************************************************)
Drop(c) ==
  /\ egress' = egress \ {c}
  /\ link' = [link EXCEPT ![c] = "away"]
  /\ unsent' = [unsent EXCEPT ![c] = 0]
  /\ got' = [got EXCEPT ![c] = 0]

(* Mutant: an ERR is fatal whatever the state. *)
HandleErrFatal(c) ==
  /\ Take(c)
  /\ IF c \in egress THEN Drop(c) ELSE UNCHANGED <<egress, link, unsent, got>>
  /\ UNCHANGED <<phase, drained, left, source, unread, pos, dead>>

(* handleErr, for a client: an ERR on a connected one is not fatal. *)
HandleErr(c) ==
  /\ Take(c)
  /\ IF c \in egress /\ link[c] # "up" THEN Drop(c)
     ELSE UNCHANGED <<egress, link, unsent, got>>
  /\ UNCHANGED <<phase, drained, left, source, unread, pos, dead>>

-----------------------------------------------------------------------------
(* drainUpstream *)

StartDrain ==
  /\ Take(Source)
  /\ phase' = "read"
  /\ dead' = {c \in egress : link[c] # "up"}
  /\ UNCHANGED <<drained, left, egress, netVars, pos, got>>

(* Mutant: the cap off by one. *)
ReadOnceMore ==
  /\ phase = "read" /\ drained <= DrainMax /\ unread > 0
  /\ unread' = unread - 1
  /\ pos' = Succ(pos)
  /\ drained' = drained + 1
  /\ left' = egress
  /\ phase' = "write"
  /\ UNCHANGED <<evs, egress, link, unsent, source, history>>

(* Mutant: the drain goes on as long as there is something to read. *)
ReadUncapped ==
  /\ phase = "read" /\ unread > 0
  /\ unread' = unread - 1
  /\ pos' = Succ(pos)
  /\ left' = egress
  /\ phase' = "write"
  /\ UNCHANGED <<evs, drained, egress, link, unsent, source, history>>

(* A message is read: start to iterate over the clients there are. *)
Read ==
  /\ phase = "read" /\ drained < DrainMax /\ unread > 0
  /\ unread' = unread - 1
  /\ pos' = Succ(pos)
  /\ drained' = drained + 1
  /\ left' = egress
  /\ phase' = "write"
  /\ UNCHANGED <<evs, egress, link, unsent, source, history>>

(***************************************************************************)
(* One write.  To a connected client it fails exactly when the send buffer *)
(* has no room, to any other always (-1, or the binding throws); a client  *)
(* whose write fails is dropped and its entry of the Set deleted.          *)
(***************************************************************************)
CanWrite(c) == link[c] = "up" /\ unsent[c] < SndBuf

WriteOk(c) ==
  /\ phase = "write" /\ c \in left /\ CanWrite(c)
  /\ left' = left \ {c}
  /\ unsent' = [unsent EXCEPT ![c] = @ + 1]
  /\ got' = [got EXCEPT ![c] = pos]
  /\ UNCHANGED <<phase, evs, drained, egress, link, source, unread, pos, dead>>

(* Mutant: egress is an array, and deleting from it skips the next entry. *)
WriteFailsSkipping(c) ==
  /\ phase = "write" /\ c \in left /\ ~CanWrite(c)
  /\ \/ left = {c} /\ left' = {}
     \/ \E d \in left \ {c} : left' = left \ {c, d}
  /\ Drop(c)
  /\ UNCHANGED <<phase, evs, drained, source, unread, pos, dead>>

(* Mutant: the exception is caught and the client kept. *)
WriteFailsKept(c) ==
  /\ phase = "write" /\ c \in left /\ ~CanWrite(c)
  /\ left' = left \ {c}
  /\ IF link[c] = "gone" THEN UNCHANGED <<egress, link, unsent, got>> ELSE Drop(c)
  /\ UNCHANGED <<phase, evs, drained, source, unread, pos, dead>>

WriteFails(c) ==
  /\ phase = "write" /\ c \in left /\ ~CanWrite(c)
  /\ left' = left \ {c}
  /\ Drop(c)
  /\ UNCHANGED <<phase, evs, drained, source, unread, pos, dead>>

EndWrites ==
  /\ phase = "write" /\ left = {}
  /\ phase' = "read"
  /\ UNCHANGED <<evs, drained, left, egress, netVars, pos, history>>

(* Nothing more to read, an error, or the cap; then one look at the state. *)
EndDrain ==
  /\ phase = "read" /\ (drained = DrainMax \/ unread = 0 \/ source = "broken")
  /\ phase' = "dispatch" /\ drained' = 0 /\ dead' = {}
  /\ IF source = "up" THEN UNCHANGED <<source, unread>> ELSE source' = "none" /\ unread' = 0
  /\ UNCHANGED <<evs, left, egress, link, unsent, pos, got>>

-----------------------------------------------------------------------------
(* The network and libsrt's threads, between any two calls. *)

Connects(c)  == link[c] = "away"    /\ link' = [link EXCEPT ![c] = "waiting"]
WalksOff(c)  == link[c] = "waiting" /\ link' = [link EXCEPT ![c] = "away"]
Breaks(c)    == link[c] = "up"      /\ link' = [link EXCEPT ![c] = "broken"]
Collected(c) == link[c] = "broken"  /\ link' = [link EXCEPT ![c] = "gone"]

Sends(c) ==
  /\ link[c] = "up" /\ unsent[c] > 0
  /\ unsent' = [unsent EXCEPT ![c] = @ - 1]

Arrives       == source = "up" /\ unread < MaxUnread /\ unread' = unread + 1
SourceBreaks  == source = "up" /\ source' = "broken"
SourceReturns == source = "none" /\ phase = "wait" /\ source' = "up"

Network ==
  /\ \/ \E c \in Client : \/ /\ Connects(c) \/ WalksOff(c) \/ Breaks(c) \/ Collected(c)
                             /\ UNCHANGED <<unsent, source, unread>>
                          \/ Sends(c) /\ UNCHANGED <<link, source, unread>>
     \/ Arrives /\ UNCHANGED <<link, unsent, source>>
     \/ (SourceBreaks \/ SourceReturns) /\ UNCHANGED <<link, unsent, unread>>
  /\ UNCHANGED <<loopVars, egress, pos, history>>

RelayStep ==
  \/ EpollWait \/ Accept \/ StartDrain \/ Read \/ EndWrites \/ EndDrain \/ EndPoll
  \/ \E c \in Client : HandleErr(c) \/ WriteOk(c) \/ WriteFails(c)

Next == RelayStep \/ Network

Spec == Init /\ [][Next]_vars

(* The thread goes on; of the network nothing is assumed. *)
FairSpec == Spec /\ WF_vars(RelayStep)
-----------------------------------------------------------------------------
(***************************************************************************)
(* The stream as the clients see it: a client is a member from when it is  *)
(* put into egress until it is taken out.                                  *)
(***************************************************************************)
B == INSTANCE LiveBroadcast WITH
       last <- [c \in Client |-> IF c \in egress THEN got[c] ELSE None]

(***************************************************************************)
(* The fan-out implements the live broadcast: each client gets every       *)
(* message read while it is in egress, once and in order, although clients *)
(* are dropped in the middle of the iteration over egress and join between *)
(* drains (relay.js:437-448).                                              *)
(***************************************************************************)
Broadcasts == B!BroadcastSpec

(***************************************************************************)
(* A drain that has read a message has dropped every client whose          *)
(* connection was over when it began, whether libsrt still knows the       *)
(* socket or not: each message goes to each client, and what write() does  *)
(* with a dead one is a failure (relay.js:439-448, 466-468: "let the next  *)
(* failed write drop it").  Relay, to which a drain is one step, has this  *)
(* as the condition on the clients lost.                                   *)
(***************************************************************************)
DrainDropsDead == phase = "read" /\ drained > 0 => egress \cap dead = {}

(***************************************************************************)
(* "a burst can't starve accepts" (relay.js:420-423): as long as peers     *)
(* wait to be accepted, accept is called again and again, however fast     *)
(* messages arrive.                                                        *)
(***************************************************************************)
AcceptNotStarved == <>[](Waiting # {}) => []<><<Accept>>_vars

(***************************************************************************)
(* A client whose connection is over leaves egress, even one whose socket  *)
(* libsrt collected before epoll reported it, so that no ERR ever comes    *)
(* (relay.js:466-472): the source need only send on, for a write drops it. *)
(* It is back in egress only by a new accept.                              *)
(***************************************************************************)
DeadClientDropped ==
  \A c \in Client :
    []<><<Read>>_vars => (c \in egress /\ link[c] # "up" ~> c \notin egress)

(***************************************************************************)
(* One client's trouble is its own: a step takes at most one client out of *)
(* egress, and only one that is not connected or whose send buffer is full *)
(* (relay.js:441-448, 466-472).                                            *)
(***************************************************************************)
OnlyTheLaggardDropped ==
  [][\A c \in egress \ egress' : ~CanWrite(c) /\ egress \ egress' = {c}]_vars
=============================================================================
