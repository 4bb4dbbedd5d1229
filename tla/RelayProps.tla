----------------------------- MODULE RelayProps -----------------------------
(***************************************************************************)
(* What the relay of src/relay.js is meant to keep true.  Relay.tla says   *)
(* what it does; nothing here adds behaviour.                              *)
(***************************************************************************)
EXTENDS Relay

Exists(f) == sock[f].st # "nonexist"

-----------------------------------------------------------------------------
(* Invariants *)

(***************************************************************************)
(* Every socket that exists is in one of the relay's fields, and none is   *)
(* left when the process goes away through open() failing or close().      *)
(* Each method has several early returns after createSocket or accept      *)
(* (relay.js:176-196, 254-280, 303-307, 347-361, 386-396): one that        *)
(* forgets safeClose leaks a socket for good, as nothing would name it.    *)
(***************************************************************************)
NoSocketLeak ==
  /\ \A f \in Fd : Exists(f) => f \in Held
  /\ Exited => \A f \in Fd : ~Exists(f)

(***************************************************************************)
(* There is one source at most: a listener for it, an attempt to reach it  *)
(* and a connection to it exclude each other (relay.js:221, 240), and no   *)
(* socket plays two parts, so handleErr's chain of tests (459-475) may ask *)
(* in any order.                                                           *)
(***************************************************************************)
OneUpstream ==
  /\ Mode = "caller" => upListen = NoFd
  /\ Mode = "listener" => pendingUp = NoFd
  /\ upConn # NoFd => upListen = NoFd /\ pendingUp = NoFd

RolesDistinct ==
  /\ downListen # NoFd => downListen \notin {upListen, upConn, pendingUp}
  /\ egress \cap {downListen, upListen, upConn, pendingUp} = {}

RolesExclusive == OneUpstream /\ RolesDistinct

(***************************************************************************)
(* Every socket in use is in the epoll container, watched for what its     *)
(* part needs: a client for errors only, since its data would wake the     *)
(* loop for nothing; an attempt not at all, since poll() looks at it each  *)
(* time (290-292).  A socket that is held and not watched would be held    *)
(* for ever once its peer is gone.                                         *)
(***************************************************************************)
MaskOf(f) == IF f = pendingUp THEN {} ELSE IF f \in egress THEN {"ERR"} ELSE {"IN", "ERR"}

Polled == \A f \in Held : Exists(f) => sock[f].mask = MaskOf(f)

(* maxClients is never exceeded, however accepts and drops interleave (347). *)
ClientCap == Cardinality(egress) <= MaxClients

(***************************************************************************)
(* A signal takes effect between polls and never within one, so the test   *)
(* of running in the loop over the events (522-524) never breaks off a     *)
(* batch, and the retry in acceptDownstream is never refused for it (202). *)
(***************************************************************************)
RunningWhilePolling == phase \notin {"yield", "closed", "failed"} => running

(***************************************************************************)
(* The retry throttle remembers every failure: the time since the last     *)
(* attempt never exceeds the time since the last failed one, and while a   *)
(* listener is up no failure is recent, so that forgetting the time of the *)
(* last attempt (lastDownRetry = 0, lastUpRetry = 0: 341, 379) forgets no  *)
(* failure.                                                                *)
(***************************************************************************)
ThrottleCovers ==
  /\ sinceDown <= downFail /\ sinceUp <= upFail
  /\ downListen # NoFd => downFail = ReconnectDelay
  /\ upListen # NoFd => upFail = ReconnectDelay

-----------------------------------------------------------------------------
(* Action properties *)

(***************************************************************************)
(* A client that is connected stays a client until a message could not be  *)
(* written to it, or close(): errors reported for it, accepts, and the     *)
(* other clients' failures do not cost it its place ("Transient ERR on a   *)
(* connected client is not fatal", 466-468; "any write failure drops that  *)
(* client", 39-40).                                                        *)
(***************************************************************************)
KeepsClients ==
  \A c \in egress \ egress' : sock[c].st = "connected" =>
    \/ phase' = "closed"
    \/ upConn \in evIn \ evIn' /\ sock[upConn].q > 0

ConnectedClientKept == [][KeepsClients]_vars

(***************************************************************************)
(* A source that is connected, and a handshake in flight within its time,  *)
(* are not given up before close() (293-317, 451-463).                     *)
(***************************************************************************)
KeepsConnection ==
  upConn # NoFd /\ sock[upConn].st = "connected" =>
    upConn' = upConn /\ (sock'[upConn].st # "nonexist" \/ phase' = "closed")

KeepsAttempt ==
  pendingUp # NoFd /\ sock[pendingUp].st = "connecting" /\ sincePending <= ConnTimeout =>
    pendingUp' = pendingUp \/ phase' = "closed"

SourceKept == [][KeepsConnection /\ KeepsAttempt]_vars

(***************************************************************************)
(* An event for a socket that the relay has given up, in the same batch or *)
(* before it, does nothing: not to a listener made since, nor to the       *)
(* clients (527-530, 535-537).                                             *)
(***************************************************************************)
IgnoresStale ==
  \A f \in (evIn \ evIn') \cup (evErr \ evErr') :
    f \notin Held => UNCHANGED <<sock, roles>>

StaleEventHarmless == [][IgnoresStale]_vars

(***************************************************************************)
(* A socket that has failed does not outlive the batch: epollUWait reports *)
(* every failed one that is held, a client's too, which is watched for     *)
(* errors only (357); and when the report is handled, after whatever       *)
(* accepts and drops came before it in the batch, the socket is let go of, *)
(* also one that libsrt has collected meanwhile (458-482).  An attempt is  *)
(* in no container: poll() asks for its state (293).                       *)
(***************************************************************************)
ReportsFailed ==
  phase = "wait" /\ phase' = "dispatch" =>
    \A f \in Held \ {pendingUp} : sock[f].st = "broken" => f \in evErr'

DropsReported ==
  phase = "dispatch" =>
    \A f \in evErr \ evErr' :
      f # pendingUp /\ sock[f].st \in {"broken", "nonexist"} => f \notin Held'

ReportedDropped == [][ReportsFailed /\ DropsReported]_vars

(***************************************************************************)
(* After a bind or connect that failed, the next one of poll() comes no    *)
(* sooner than RECONNECT_DELAY_MS later ("throttles bind/connect retries", *)
(* 6-7).                                                                   *)
(***************************************************************************)
Throttles ==
  /\ phase = "ensureDown" /\ <<downListen, sinceDown>>' # <<downListen, sinceDown>> =>
       downFail = ReconnectDelay
  /\ /\ phase \in {"openUp", "ensureUp"}
     /\ <<upListen, pendingUp, sinceUp>>' # <<upListen, pendingUp, sinceUp>>
     => upFail = ReconnectDelay

RetryThrottled == [][Throttles]_vars

-----------------------------------------------------------------------------
(* Liveness, under FairSpec and with ReapUnseen = FALSE *)

(***************************************************************************)
(* Whatever breaks is let go of: a client to which nothing is sent, a      *)
(* silent source, a listener, an attempt (465-482, 453-455, 312-316).      *)
(***************************************************************************)
BrokenSocketDropped ==
  \A f \in Fd : (f \in Held /\ sock[f].st = "broken") ~> ~Exists(f)

(* An attempt ends, in a connection or not: a handshake that never          *)
(* completes cannot hold pendingUp and keep the relay from trying again.    *)
AttemptEnds == \A f \in Fd : pendingUp = f ~> pendingUp # f \/ Exited

(***************************************************************************)
(* Something failed in the step: a socket or peer went away, or a native   *)
(* call refused the relay what it asked for.                               *)
(***************************************************************************)
Setback ==
  \/ \E f \in Fd : sock[f].st # "broken" /\ sock'[f].st = "broken"
  \/ upListen # NoFd /\ sock'[upListen].q < sock[upListen].q /\ upListen' = upListen
  \/ phase = "ensureDown" /\ DownDue /\ downListen' = NoFd
  \/ phase = "ensureUp" /\ (UpListenDue \/ CallDue) /\ {upListen', pendingUp'} = {NoFd}
  \/ pendingUp # NoFd /\ pendingUp' = NoFd /\ upConn' = NoFd
  \/ upListen # NoFd /\ upListen' = NoFd /\ upConn' = NoFd
  \/ downListen # NoFd /\ downListen' # downListen

(***************************************************************************)
(* However it was interrupted, once setbacks stop and a source comes (it   *)
(* completes the handshake, or calls the listener that waits for it), the  *)
(* relay ends up serving, with a listener for clients and a source, or has *)
(* been shut down.                                                         *)
(***************************************************************************)
SourceComes ==
  /\ Environment
  /\ \E f \in Fd : HandshakeDone(f) \/ (f = upListen /\ PeerArrives(f))

Serving == /\ downListen # NoFd /\ sock[downListen].st = "listening"
           /\ upConn # NoFd /\ sock[upConn].st = "connected"

ServiceRestored ==
  <>[][~Setback]_vars /\ WF_vars(SourceComes) => <>[](Serving \/ ~running \/ Exited)

-----------------------------------------------------------------------------
(***************************************************************************)
(* What the comment at relay.js:420-423 says of the cap on one drain:      *)
(* "level-triggered epoll re-fires for the rest".  A drain that the cap    *)
(* ended leaves the rest to be read.                                       *)
(***************************************************************************)
CappedDrainResumes ==
  [][\A f \in Fd : (f = upConn /\ f \in evIn \ evIn' /\ sock[f].q > DrainMax) =>
       upConn' = f]_vars
=============================================================================
