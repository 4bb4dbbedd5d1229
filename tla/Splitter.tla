------------------------------ MODULE Splitter ------------------------------
(***************************************************************************)
(* The process: main() of index.js around the relay.  It reads the         *)
(* configuration, sets up the relay, installs one handler for SIGINT,      *)
(* SIGTERM and SIGHUP, and runs the loop that alternates poll() with a     *)
(* yield to libuv.  poll() blocks the only JavaScript thread, so a signal  *)
(* that arrives meanwhile waits: handlers run in the yield (60-62), and    *)
(* between two of them nothing else of the program does.                   *)
(*                                                                         *)
(* The relay's variables and steps are those of Relay.                     *)
(***************************************************************************)
EXTENDS Relay

CONSTANT MaxSignals  \* bound: signals sent to the process

ASSUME SplitterAssumption == MaxSignals \in Nat

VARIABLES
  stage,     \* "config" until the handlers are installed, then "run"
  signals,   \* delivered, handler not run yet
  stopping,
  exit       \* why the process ended

main  == <<stage, signals, stopping, exit>>
svars == <<vars, main>>

Ends == {"none", "help", "config", "init", "signal", "listen", "forced", "ok"}

SplitterTypeOK ==
  /\ stage \in {"config", "run", "exited"}
  /\ signals \in 0..MaxSignals
  /\ stopping \in BOOLEAN
  /\ exit \in Ends
  /\ stage = "exited" <=> exit # "none"

SplitterInit ==
  /\ Init
  /\ stage = "config" /\ signals = 0 /\ stopping = FALSE /\ exit = "none"

(* Mutant: the exit code is set, but the process goes on. *)
EndLater(why) == exit' = why /\ UNCHANGED stage

End(why) == stage' = "exited" /\ exit' = why

(* loadConfig, resolveSourceHost, createSrt: each may end the process. *)
Configure ==
  /\ stage = "config"
  /\ \/ stage' = "run" /\ UNCHANGED exit
     \/ \E why \in {"help", "config", "init"} : End(why)
  /\ UNCHANGED <<vars, signals, stopping>>

(* Without the handlers a signal is fatal at once. *)
Signal ==
  /\ \/ /\ stage = "config" /\ End("signal") /\ UNCHANGED signals
     \/ /\ stage = "run" /\ signals < MaxSignals
        /\ signals' = signals + 1 /\ UNCHANGED <<stage, exit>>
  /\ UNCHANGED <<vars, stopping>>

OpenRelay ==
  /\ stage = "run" /\ Open
  /\ IF phase' = "failed" THEN End("listen") ELSE UNCHANGED <<stage, exit>>
  /\ UNCHANGED <<signals, stopping>>

Poll ==
  /\ stage = "run"
  /\ \/ EnsureDownListener \/ EnsureUpListener \/ EnsureUpstreamCaller
     \/ CheckPendingUpstream \/ EpollWait \/ EpollThrows \/ Dispatch \/ EndPoll \/ PollAgain
  /\ UNCHANGED main

(* Mutant: the handler runs while poll() blocks. *)
MayHandleAnytime == stage = "run" /\ signals > 0 /\ phase \in {"wait", "yield"}

MayHandle == stage = "run" /\ signals > 0 /\ phase = "yield"

(* stop(), the first time. *)
Stop ==
  /\ MayHandle /\ ~stopping
  /\ stopping' = TRUE /\ running' = FALSE
  /\ signals' = signals - 1
  /\ UNCHANGED <<sock, phase, roles, clock, batch, fails, stage, exit>>

(* stop(), the second time: process.exit, and no close(). *)
ForceExit ==
  /\ MayHandle /\ stopping
  /\ End("forced")
  /\ signals' = signals - 1
  /\ UNCHANGED <<vars, stopping>>

(* Mutant: main() ends without its finally block. *)
LeaveLoopAsIs ==
  /\ phase = "yield" /\ ~running
  /\ phase' = "closed"
  /\ UNCHANGED <<sock, running, roles, clock, batch, fails>>

LeaveLoop == CloseRelay

Finish ==
  /\ stage = "run" /\ LeaveLoop
  /\ End("ok") /\ UNCHANGED <<signals, stopping>>

Outside == stage = "run" /\ (Tick \/ Environment) /\ UNCHANGED main

Gone == stage = "exited" /\ UNCHANGED svars

Program == Configure \/ OpenRelay \/ Poll \/ Stop \/ ForceExit \/ Finish

SplitterNext == Program \/ Signal \/ Outside \/ Gone

SplitterSpec == SplitterInit /\ [][SplitterNext]_svars

(* The program runs and libuv runs handlers that are due: a yield is too   *)
(* short to be stopped in, but there is always another.                    *)
SplitterFairSpec ==
  SplitterSpec /\ WF_svars(Program) /\ SF_svars(Stop)

-----------------------------------------------------------------------------
(***************************************************************************)
(* Whatever ended the process, it left no socket open, except where a      *)
(* second signal cut the shutdown short (41-43, 64-66); and it ended       *)
(* normally only after close().                                            *)
(***************************************************************************)
CleanEnd ==
  /\ stage = "exited" /\ exit # "forced" => \A f \in Fd : sock[f].st = "nonexist"
  /\ exit = "ok" => phase = "closed" /\ stopping

(***************************************************************************)
(* Seen from the relay the process is just a relay: main() drives it       *)
(* through steps of Relay, in the order its own specification allows, and  *)
(* the signal handler touches it only between polls (59-63).               *)
(***************************************************************************)
DrivesRelay == Spec

(* A signal ends the process, whatever the relay is doing (39-46, 58).     *)
SignalEnds == signals > 0 ~> stage = "exited"

(***************************************************************************)
(* What the comment at index.js:42 says: "second signal: exit now instead  *)
(* of waiting out the epoll block".  A process that has been sent a second *)
(* signal does not wait out the block.                                     *)
(***************************************************************************)
SecondSignalCutsBlock ==
  [][phase = "wait" /\ phase' # "wait" => signals < 2]_svars
=============================================================================
