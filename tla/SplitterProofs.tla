--------------------------- MODULE SplitterProofs ---------------------------
(***************************************************************************)
(* Proofs about the process: that it uses the relay as Relay specifies it, *)
(* so that what is proved of the relay holds in it, and that it ends with  *)
(* every socket closed.                                                    *)
(***************************************************************************)
EXTENDS Splitter, RelaySafetyProofs

LEMMA SplitterCases ==
  ASSUME [SplitterNext]_svars
  PROVE  \/ Configure \/ OpenRelay \/ Poll \/ Stop \/ ForceExit \/ Finish
         \/ Signal \/ Outside \/ UNCHANGED svars
  BY DEF SplitterNext, Program, Gone

(* A step of poll() is one of Relay's, and leaves running and the end alone. *)
LEMMA PollFacts ==
  ASSUME Poll
  PROVE  Next /\ UNCHANGED <<running, main>> /\ stage = "run"
<1>1. CASE \E fd \in Fd : \/ AcceptDownstream(fd) \/ AcceptUpstream(fd) \/ DrainUpstream(fd)
                          \/ IgnoreIn(fd)         \/ HandleErr(fd)
  <2>1. UNCHANGED running
    BY <1>1 DEF AcceptDownstream, AcceptUpstream, DrainUpstream, IgnoreIn, HandleErr, TakeIn
  <2>2. Next
    BY <1>1 DEF Next, RelayStep, Dispatch
  <2> QED BY <2>1, <2>2 DEF Poll
<1>2. CASE \/ EnsureDownListener \/ EnsureUpListener \/ EnsureUpstreamCaller
           \/ CheckPendingUpstream \/ EpollWait \/ EpollThrows \/ EndPoll \/ PollAgain
  <2>1. UNCHANGED running
    BY <1>2 DEF EnsureDownListener, EnsureUpListener, EnsureUpstreamCaller,
       CheckPendingUpstream, EpollWait, EpollThrows, EndPoll, PollAgain
  <2>2. Next
    BY <1>2 DEF Next, RelayStep
  <2> QED BY <2>1, <2>2 DEF Poll
<1> QED BY <1>1, <1>2 DEF Poll, Dispatch

-----------------------------------------------------------------------------
(* Refinement *)

(* Only stop() clears running. *)
StopsOnce == stopping \/ running

LEMMA StopsOnceStep ==
  ASSUME StopsOnce, [SplitterNext]_svars
  PROVE  StopsOnce'
<1>1. CASE Configure \/ ForceExit \/ Signal \/ UNCHANGED svars
  BY <1>1 DEF Configure, ForceExit, Signal, svars, vars, loop, main, StopsOnce
<1>2. CASE OpenRelay \/ Finish
  BY <1>2 DEF OpenRelay, Open, Finish, LeaveLoop, CloseRelay, StopsOnce
<1>3. CASE Poll
  BY <1>3, PollFacts DEF main, StopsOnce
<1>4. CASE Stop
  BY <1>4 DEF Stop, StopsOnce
<1>5. CASE Outside
  BY <1>5 DEF Outside, Tick, Environment, loop, main, StopsOnce
<1> QED BY <1>1, <1>2, <1>3, <1>4, <1>5, SplitterCases

LEMMA RelayStepOrStutter ==
  ASSUME StopsOnce, [SplitterNext]_svars
  PROVE  [Next]_vars
<1>1. CASE Configure \/ ForceExit \/ Signal \/ UNCHANGED svars
  BY <1>1 DEF Configure, ForceExit, Signal, svars
<1>2. CASE OpenRelay \/ Finish
  BY <1>2 DEF OpenRelay, Finish, LeaveLoop, Next, RelayStep
<1>3. CASE Poll
  BY <1>3, PollFacts
<1>4. CASE Stop
  <2>1. Shutdown
    BY <1>4 DEF Stop, MayHandle, StopsOnce, Shutdown
  <2> QED BY <2>1 DEF Next
<1>5. CASE Outside
  BY <1>5 DEF Outside, Next
<1> QED BY <1>1, <1>2, <1>3, <1>4, <1>5, SplitterCases

(***************************************************************************)
(* main() drives the relay through steps that Relay allows: the handler    *)
(* maps to Shutdown, which it calls once (index.js:41-45) and only in the  *)
(* yield, and what concerns the process alone changes nothing of the       *)
(* relay.  Every theorem about Spec thus holds of the process.             *)
(***************************************************************************)
THEOREM DrivesRelayCorrect == SplitterSpec => DrivesRelay
<1>1. SplitterInit => Init /\ StopsOnce
  BY DEF SplitterInit, Init, StopsOnce
<1>2. StopsOnce /\ [SplitterNext]_svars => StopsOnce' /\ [Next]_vars
  BY StopsOnceStep, RelayStepOrStutter
<1> QED BY <1>1, <1>2, PTL DEF SplitterSpec, Spec, DrivesRelay

(***************************************************************************)
(* What is proved of the relay holds in the process, signals at any moment *)
(* included (index.js:39-67): nothing leaks, the parts exclude each other, *)
(* what is held is watched, the client limit and the throttles hold, and   *)
(* no client, source or attempt is given up for nothing, nor a failed      *)
(* socket kept.                                                            *)
(***************************************************************************)
THEOREM RelayInMain ==
  SplitterSpec =>
    /\ [](NoSocketLeak /\ RolesExclusive /\ Polled /\ ClientCap)
    /\ [](RunningWhilePolling /\ ThrottleCovers)
    /\ ConnectedClientKept /\ SourceKept
    /\ ReportedDropped /\ StaleEventHarmless /\ RetryThrottled
<1>1. SplitterSpec => Spec
  BY DrivesRelayCorrect DEF DrivesRelay
<1> QED
  BY <1>1, OwnershipCorrect, ClientCapCorrect, RunningWhilePollingCorrect,
     ThrottleCoversCorrect, ConnectedClientKeptCorrect, SourceKeptCorrect,
     ReportedDroppedCorrect, StaleEventHarmlessCorrect, RetryThrottledCorrect, PTL

-----------------------------------------------------------------------------
(* How the process ends *)

(* In which phase the relay is left by each way to end. *)
EndPhase ==
  /\ stage = "config" => phase = "open"
  /\ stage # "exited" => exit = "none"
  /\ stage = "exited" => exit \in {"help", "config", "init", "signal", "listen", "forced", "ok"}
  /\ exit \in {"help", "config", "init", "signal"} => phase = "open"
  /\ exit = "listen" => phase = "failed"
  /\ exit = "ok" => phase = "closed" /\ stopping

LEMMA EndPhaseStep ==
  ASSUME StopsOnce, EndPhase, [SplitterNext]_svars
  PROVE  EndPhase'
<1>1. CASE Configure
  BY <1>1 DEF Configure, End, vars, loop, EndPhase
<1>2. CASE Signal
  BY <1>2 DEF Signal, End, vars, loop, EndPhase
<1>3. CASE OpenRelay
  BY <1>3 DEF OpenRelay, Open, End, EndPhase
<1>4. CASE Poll
  BY <1>4, PollFacts DEF main, EndPhase
<1>5. CASE Stop
  BY <1>5 DEF Stop, MayHandle, EndPhase
<1>6. CASE ForceExit
  BY <1>6 DEF ForceExit, MayHandle, End, vars, loop, EndPhase
<1>7. CASE Finish
  BY <1>7 DEF Finish, LeaveLoop, CloseRelay, End, StopsOnce, EndPhase
<1>8. CASE Outside
  BY <1>8 DEF Outside, Tick, Environment, main, loop, EndPhase
<1>9. CASE UNCHANGED svars
  BY <1>9 DEF svars, vars, loop, main, EndPhase
<1> QED BY <1>1, <1>2, <1>3, <1>4, <1>5, <1>6, <1>7, <1>8, <1>9, SplitterCases

LEMMA EndPhaseClean == Ownership /\ EndPhase => CleanEnd
<1> SUFFICES ASSUME Ownership, EndPhase PROVE CleanEnd
  OBVIOUS
<1>1. phase = "open" => \A f \in Fd : sock[f].st = "nonexist"
  BY DEF Ownership, NoSocketLeak, Exists
<1>2. phase \in {"closed", "failed"} => \A f \in Fd : sock[f].st = "nonexist"
  BY DEF Ownership, NoSocketLeak, Exists, Exited
<1> QED BY <1>1, <1>2 DEF EndPhase, CleanEnd

(***************************************************************************)
(* However the process ends, on a bad configuration, without a listener,   *)
(* on one signal, every socket is closed; only a second signal, handled    *)
(* before the loop ends, leaves them to the system (index.js:41-43).       *)
(***************************************************************************)
THEOREM CleanEndCorrect == SplitterSpec => []CleanEnd
<1>1. SplitterInit => Init /\ StopsOnce /\ EndPhase
  BY DEF SplitterInit, Init, StopsOnce, EndPhase
<1>2. Init => TypeOK /\ Ownership
  BY TypeInit, OwnershipInit
<1>3. StopsOnce /\ [SplitterNext]_svars => StopsOnce' /\ [Next]_vars
  BY StopsOnceStep, RelayStepOrStutter
<1>4. StopsOnce /\ EndPhase /\ [SplitterNext]_svars => EndPhase'
  BY EndPhaseStep
<1>5. TypeOK /\ Ownership /\ [Next]_vars => (TypeOK /\ Ownership)'
  BY TypeNext, OwnershipNext
<1>6. Ownership /\ EndPhase => CleanEnd
  BY EndPhaseClean
<1> QED BY <1>1, <1>2, <1>3, <1>4, <1>5, <1>6, PTL DEF SplitterSpec

-----------------------------------------------------------------------------
(* The process's variables *)

LEMMA SplitterTypeStep ==
  ASSUME SplitterTypeOK, [SplitterNext]_svars
  PROVE  SplitterTypeOK'
<1> USE SplitterAssumption DEF SplitterTypeOK, Ends
<1>1. CASE Configure
  BY <1>1 DEF Configure, End
<1>2. CASE Signal
  BY <1>2 DEF Signal, End
<1>3. CASE OpenRelay
  BY <1>3 DEF OpenRelay, End
<1>4. CASE Poll \/ Outside \/ UNCHANGED svars
  BY <1>4 DEF Poll, Outside, svars, main
<1>5. CASE Stop
  BY <1>5 DEF Stop, MayHandle
<1>6. CASE ForceExit
  BY <1>6 DEF ForceExit, MayHandle, End
<1>7. CASE Finish
  BY <1>7 DEF Finish, End
<1> QED BY <1>1, <1>2, <1>3, <1>4, <1>5, <1>6, <1>7, SplitterCases

(***************************************************************************)
(* The process's own variables stay in their types, whatever signals come  *)
(* and however the relay goes (index.js:13-67); the process has ended just *)
(* when there is a reason for it.                                          *)
(***************************************************************************)
THEOREM SplitterTypeCorrect == SplitterSpec => []SplitterTypeOK
<1>1. SplitterInit => SplitterTypeOK
  <2> SUFFICES ASSUME SplitterInit PROVE SplitterTypeOK
    OBVIOUS
  <2>1. stage = "config" /\ signals = 0 /\ stopping = FALSE /\ exit = "none"
    BY DEF SplitterInit
  <2>2. signals \in 0..MaxSignals
    BY <2>1, SplitterAssumption
  <2> QED BY <2>1, <2>2 DEF SplitterTypeOK, Ends
<1>2. SplitterTypeOK /\ [SplitterNext]_svars => SplitterTypeOK'
  BY SplitterTypeStep
<1> QED BY <1>1, <1>2, PTL DEF SplitterSpec
=============================================================================
