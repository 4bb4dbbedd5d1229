# srt-splitter: a TLA+ model, its checks and its proofs

srt-splitter relays one SRT stream to many clients. It is a single JavaScript
thread around a native library (libsrt, through the `@eyevinn/srt` binding)
that runs threads of its own. What is hard about it is not the code of any one
method but what lies between them: sockets change under the program at any
moment, epoll reports what was true a moment ago, native calls fail half-way,
and everything must recover by itself.

Paths below are relative to the repository; `relay.js` is `src/relay.js`.

## 1. The system

| Part | State | Operations |
| --- | --- | --- |
| Process (`index.js`) | `stopping`, pending signals, exit code | load configuration, set up the relay, install the signal handler, loop over `poll()` and a yield, `close()` |
| Relay (`relay.js`) | `running`, `downListen`, `upListen`, `upConn`, `pendingUp` and its start time, `egress`, times of the last retries, counters | `open`, `ensureDownListener`, `ensureUpListener`, `ensureUpstreamCaller`, `checkPendingUpstream`, `acceptDownstream`, `acceptUpstream`, `drainUpstream`, `handleErr`, `shutdown`, `close`, `maybeStats` |
| libsrt and its binding (external) | sockets, backlogs, buffers, one epoll container | create, bind, listen, connect, accept, read, write, close, epoll add and wait; and what its threads do unasked |
| Configuration (`src/config.js`, `config.js`, `src/help.js`) | none that lasts | parse arguments, merge them with the environment and the defaults, validate, resolve the source's name |
| Native loader (`src/srt.js`) | none | find the addon, collect its constants |
| Native setup (`scripts/setup.js`, `scripts/patches.js`) | files | fetch, pin, patch, build, copy; run again after a failure |
| Prebuild (`scripts/prebuild.js`, `.github/workflows/prebuild.yml`) | files, a git branch | replace the platform's directory, commit and push |

How they interact:

- `main()` calls the relay; the relay calls libsrt; all these calls block.
- libsrt never calls back. The relay learns of events only through
  `epollUWait` and by reading a socket's state.
- Signal handlers run only while `main()` yields between two polls. They share
  `running` with the relay.
- The relay and libsrt share socket ids. The relay's fields are the only record
  of which socket exists for what.

What makes each part correct:

- *Relay, safety.* Nothing leaks whichever native call fails; a socket plays one
  part; there is one source at most; what is held is watched; the client limit
  holds; an event that is out of date does nothing; connected clients and
  sources are not dropped for nothing; a failed socket does not outlive the batch that
  reports it; failed binds and connects are throttled.
- *Relay, liveness.* What breaks is let go of; an attempt ends; service returns.
- *Process.* It uses the relay as the relay expects; a signal ends it; it ends
  with everything closed.
- *Fan-out.* Every client gets every message from when it joins to when it is
  dropped, once and in order; one client's trouble is its own; a burst starves
  nobody.
- *Configuration.* Precedence, and validation of every value the relay uses.
- *Native setup.* A run after an interrupted run gives what one run gives; what it
  calls done is right.
- *Prebuilds.* What is on main works; jobs and pushes that overlap take nothing
  back; green means current.

The hazards, each at its line and with the properties that answer it, are
listed in `PROJECT.json`.

## 2. Modules

| Module | Models |
| --- | --- |
| `SrtSockets` | libsrt and the binding, as far as relay.js depends on them (external) |
| `Relay` | relay.js, extending `SrtSockets`: the specification `Spec`, and `FairSpec` with fairness |
| `RelayProps` | the relay's properties |
| `RelayProofs`, `RelaySafetyProofs` | theorems about `Relay`, checked by TLAPS |
| `Splitter` | index.js around `Relay`, and its properties |
| `SplitterProofs` | theorems about `Splitter` |
| `LiveBroadcast` | what the fan-out promises its clients (abstract) |
| `Fanout` | `drainUpstream` with its two loops, call by call; implements `LiveBroadcast` |
| `FanoutProofs` | theorems about `Fanout`, the refinement among them |
| `Config` | src/config.js and config.js, from the command line to the configuration |
| `ConfigProofs` | theorems about `Config` |
| `Patches` | patches.js, as functions on texts |
| `NativeSetup` | setup.js over the files it works on, extending `Patches` |
| `SetupProofs`, `ScriptProofs` | theorems about `Patches` and `NativeSetup` |
| `Prebuilds` | prebuild.js, the workflow that runs it, and the loader that tries its result |
| `PrebuildsProofs` | theorems about `Prebuilds` |
| `MCRelay`, `MCSplitter`, `MCFanout`, `MCConfig`, `MCSetup`, `MCPrebuilds` | the instances that TLC checks |

Operators with a comment that starts with *Mutant* are deliberate mistakes, kept
next to the definition they would replace. No specification uses them: each
shows that a property can tell the mistake from the code.

### SrtSockets

`sock` maps every socket id to its state (as `getSockState` reads it), the
length of its queue (`q`: the backlog of a listener or the receive buffer of a
source, at most `cap`) and the events it is watched for (`mask`).

- `Close`, `Watch`, `Accept` are the calls. `Accept` returns every outcome: a
  failure retires the listener; a success leaves it listening in the patched
  binding (`AcceptKeepsListener = TRUE`, what `scripts/patches.js` sets up) and
  retires it in the unpatched one.
- `Network` is what happens unasked: peers queue up or leave a backlog, messages
  arrive, a handshake completes, a socket breaks, a broken one is collected.
- `ReadyIn` and `ReadyErr` are what level-triggered epoll would report.
- libsrt does not reuse ids. `Fd` is finite: an id that no variable mentions is
  as good as new, and `Unused` allows only such ids.

### Relay

Each method of relay.js is one action. This is sound because JavaScript runs one
thing at a time and the native calls block: nothing of the program runs between
two statements. libsrt's threads do; their steps fall between the actions. A
step of libsrt in the middle of a method gives the result that it gives just
before or just after it, as a method looks at each socket once after its last
call on it. The exception is `acceptDownstream`, which accepts on a
listener and then reads its state: `AfterAccept` lets it break in between.

`phase` is the place in the loop. Names are those of the code, capitalised:

| Action | Code |
| --- | --- |
| `Open` | `open()`, relay.js:485-503 (in listener mode followed by `EnsureUpListener`) |
| `EnsureDownListener`, `EnsureUpListener`, `EnsureUpstreamCaller`, `CheckPendingUpstream` | the first half of `poll()`, 506-513, and the methods at 201-318 |
| `EpollWait`, `EpollThrows` | 514-520 |
| `AcceptDownstream`, `AcceptUpstream`, `DrainUpstream`, `IgnoreIn`, then `HandleErr` | the dispatch of one event, 521-551, and the methods at 320-483 |
| `EndPoll`, `PollAgain` | the end of `poll()`, and the next turn of the loop |
| `Shutdown`, `CloseRelay` | 74-76, 601-613 |
| `Tick`, `Environment` | time passes; libsrt moves |

Points where the model is not a line-by-line image, and why:

- *Failures.* A method that calls createSocket, setOpt, bind, listen and
  epollAddUsock either succeeds or fails in one step. A failure has made no socket,
  or made one and closed it (`GivenUp`), in `init` or in the state that listen or
  connect had put it in. Branches that fail in the
  same state are one outcome. The two ways to turn away an accepted client, over the limit
  or for an option that fails, likewise end in one `safeClose`.
- *Batches.* `evIn` and `evErr` hold what is still to be handled, in any order
  over sockets; the IN part of one event comes right before its ERR part (`cur`).
  With `OddEvents` a batch may hold one event that is out of date: an event of a
  socket already closed, or ERR on one that has not failed. The code expects
  both (relay.js:466-468, 527-530, 535-537).
- *Time.* Ages replace clock readings, each counted up to the value it is
  compared with. A tick is about the length of one wait in epoll (500 ms), so the
  code's RECONNECT_DELAY_MS is two ticks. `now` is read once per poll, so time
  passes only in the phases `wait`, `dispatch` and `yield`.
- *`ensureUpstreamCaller`* ends with a call of `checkPendingUpstream`, and `poll()`
  calls that again at once. The model makes one call; libsrt's steps before it
  give every result the two calls can have together.
- *Draining.* `drainUpstream` takes a number of messages off the buffer and loses
  a set of clients. Clients that are no longer connected are lost by the first
  message; connected ones may be, when their send buffer is full. Which message
  goes where is not recorded. That the dead ones are all lost is what `Fanout` shows
  of the drain message by message (`DrainDropsDead`).
- *`running` within a batch.* relay.js:522 tests it before each event. The test
  never fails, since signal handlers do not run there; the model has no such test,
  and `RunningWhilePolling` is the reason that it needs none.
- `downFail` and `upFail` are history variables, for the properties only.

### Splitter

`main()`: `Configure` (may end the process), `OpenRelay`, `Poll` and the yield,
`Stop` and `ForceExit` (the handler, first and second time), `Finish` (the
`finally` block). `Signal` may happen at any time; before the handlers are
installed it kills the process. The relay's steps are `Relay`'s own, and
`DrivesRelay` (the formula `Spec` of `Relay`, as a property) says that the whole
process is a refinement of the relay's specification: `Stop` maps to `Shutdown`,
everything that concerns only the process maps to a stutter.

### LiveBroadcast and Fanout

`Relay` takes a drain as one step that loses some clients. `Fanout` looks inside:
each read, each write and each drop is a step, and between any two of them
messages arrive, send buffers empty, connections break and broken sockets are
collected. It keeps of the rest of the relay what bears on the clients (the
batch of events, `acceptDownstream`, `handleErr`); listeners, throttles and the
connection to the source are `Relay`'s. A source that was lost is back some time
later, between polls.

| Action | Code |
| --- | --- |
| `EpollWait`, `Take`, `EndPoll` | one `epollUWait` and the loop over its events, relay.js:514-551 |
| `AcceptFails`, `AcceptRefuses`, `AcceptAdmits` | the outcomes of `acceptDownstream`, 320-365 |
| `StartDrain`, `Read`, `WriteOk`, `WriteFails`, `EndWrites`, `EndDrain` | `drainUpstream`, 424-456; `left` is the iterator over `egress` |
| `HandleErr` | 458-473, for clients |

`got` records the message last written to each client, and `dead` the clients that
were not connected when the drain under way began; both are history variables. `LiveBroadcast` knows
only the message last published and the message last delivered to each member;
the refinement maps a client in `egress` to a member. Messages are numbered
modulo `K`; three numbers tell the next message from a repeated and a skipped one.

### Config

`parseArgs` is a machine over tokens (`ParseOption`, `ParseShort`, `ParseOther`,
`EndParse`); `Load`, `Validate` and `Resolve` are the three functions that
follow, and `Decided` is `main()` of index.js going on to the relay, to the help
or to exit code 2.

A text is the class of what the program can tell about it: a number with its
integer part, a half or none, and a unit; another literal that `Number()` reads
(`1e3`, `0x10`); a URL with its parts; an IPv4 or IPv6
literal; a text of 10 to 79 bytes; a blank; any other word. `AsNumber` and `AsSize`
are `num` and `bytes` on such texts, so `1.5k` is 1536 bytes, a blank is the
number 0, `16k` is no number, and neither `-1` nor `1e3` is a size. URLs come in three forms, as
the two modes parse them differently: one with a port and no host is taken in
listener mode only, one with a path or a fragment in caller mode only. A name is
looked up with every result it may have.

### Patches and NativeSetup

A source text is a sequence of tokens, one for each snippet that a patch looks
for or puts in. The constants keep the tokens apart where patches.js's own needles are:
the generator is a name of Visual Studio (upstream's included, when it is the one found),
an OpenSSL tree is no other snippet. `CollapseSlim` keeps of the runs of slim flags that
earlier versions of the script left (up to `MaxRepeats`) the first. `NativeSetup` is main() of setup.js, one action per step, on the
files that outlast a run: the dependency, its binding source and build script,
the OpenSSL tree, libsrt's clone and build, the addon and the DLLs beside it.
`writeFileSync` is two steps, as it empties the file first; a build script left empty
runs to its end without building (`RunEmptyScript`), and the step after it fails.
setup.js tries several places for OpenSSL in order; the model starts from the first
that has an ssl.h (`FindOpenSSL`). A run may be killed
between any two steps (`Stopped`) and inside the long ones (`InstallCut`,
`ExtractCut`, `CloneCut`, `BuildCut`, `CompileCut`), and the next one may ask for
another libsrt or another OpenSSL. npm, git, cmake and node-gyp are external; a
git checkout is taken to be atomic.

### Prebuilds

`main` is the branch: its revision, its sources and the directory
`prebuilds/<artifact>` of each artifact. A run of the workflow starts with a push
of sources or by hand, has one job at a time, and a job is the steps of the
workflow: `Checkout` (of main as it then is), `Setup`, the three steps of
prebuild.js, `Try` (the smoke test, which goes through `loadBinding`), `Push`. Any
step may fail. `Push` is taken only if main has not moved. An addon may be
made that does not work; the smoke test is there to find it, and does where the
job's runner is of the platform it builds for, which it is not for linux-arm64
(prebuild.yml:33-36): there `Loads` looks at the x64 prebuild.

## 3. What TLC checks

| Run | Instance | Properties |
| --- | --- | --- |
| `caller` | 5 sockets, 2 clients, odd events, 2 messages, delay and time-out of 1 tick | `TypeOK`, `NoSocketLeak`, `RolesExclusive`, `Polled`, `ClientCap`, `RunningWhilePolling`; `ConnectedClientKept`, `SourceKept`, `StaleEventHarmless`, `ReportedDropped`, `RetryThrottled` |
| `listener` | listener mode over the unpatched binding, 5 sockets, 2 clients, odd events, delay of 2 ticks | `NoSocketLeak`, `RolesExclusive`, `ThrottleCovers`; `SourceKept`, `RetryThrottled` |
| `live_caller` | 3 sockets, 1 client, `FairSpec` | `BrokenSocketDropped`, `AttemptEnds`, `ServiceRestored` |
| `live_listener` | as above, listener mode | `BrokenSocketDropped`, `ServiceRestored` |
| `capped_drain` | 4 sockets, buffer twice the drain cap | `CappedDrainResumes` (violated) |
| `splitter` | 3 sockets, 2 signals, listener mode, `SplitterFairSpec` | `SplitterTypeOK`, `CleanEnd`; `DrivesRelay`, `SignalEnds` |
| `second_signal` | 3 sockets, 2 signals | `SecondSignalCutsBlock` (violated) |
| `fanout` | 2 clients, drain cap, buffers of 2, `FairSpec` | `FanoutTypeOK`, `DrainDropsDead`; `Broadcasts`, `AcceptNotStarved`, `DeadClientDropped`, `OnlyTheLaggardDropped` |
| `config` | command lines of up to 4 tokens with 2 environments; every option set to every kind of text | `Precedence`, `ReadyIsUsable` |
| `setup` | 2 libsrt versions, 2 OpenSSL trees, any number of runs, `FairSpec` | `DoneIsRight`, `ScriptPatchedOnce`, `FailsOnlyPastMending`; `RerunRecovers` |
| `stale_openssl` | as `setup`, without fairness | `OpenSSLAsAsked` (violated) |
| `prebuilds` | 3 artifacts, a push and a run by hand | `PublishedWorks`, `GreenIsCurrent`; `NeverBack` |

What the properties say is written above each of them, in `RelayProps.tla` for the
relay and at the end of the component's module for the others. `live_listener` is the
run of listener mode over the patched binding; the theorems cover both. What `caller`
checks and `listener` does not (the watch masks, stale events, the batch) is proved
for either mode.

**Bounds.** Five sockets are a listener, a source (or its listener), two clients
and one more: enough for a client over the limit, for a listener that is replaced
while a client is turned away, and for an id that is out of date while all fields
are in use. Two messages with a drain cap of one reach the cap. A backlog of one
reaches both the empty and the full backlog. A delay of one tick is enough to
be throttled at all; `listener` uses two, so that a throttle that ends one tick
early is told from one that does not exist. Two signals are the two that the
handler tells apart. In `fanout` a burst is as long as the cap and more can arrive
while it is drained, a slow client's buffer fills within one drain, and of two
clients one may be dropped before, at or after the other's turn. In `config` four
tokens give an option twice with its values, and `Int32Max` is 2^30 rather
than 2^31 - 1, as TLC's own integers end there; the theorem is about any. In `setup`
two versions and two trees are what it takes for runs to disagree; their number is
not bounded. `MaxRepeats` is 4: a script that earlier setups patched up to four times
over, where two make the first repetition. In `prebuilds` one push and one run by hand make two runs that
overlap, and of the three artifacts one needs libraries and one is built on
another's runner. Symmetry over socket ids is used in the runs without
liveness; in these ids are only compared for equality.

**Deadlock** is checked in every run: a process that has ended stutters in an
action of its own (`Terminated`, `Gone`, `Decided`, `Rest`).

**Fairness.** `FairSpec` assumes that the relay's thread goes on (its calls
return), that an epoll which is waited on again and again is not failing each
time, and that time passes. Of the network nothing is assumed.
`ServiceRestored` has its own premise instead: from some moment on nothing
fails (`Setback` lists what a failure is, refused native calls included), and a
source that could connect does. `SplitterFairSpec` assumes that the program goes
on and that a handler that is due at infinitely many yields runs in one of them,
which is libuv's poll phase: every yield goes through it.

In `Fanout` the relay's thread goes on. In `NativeSetup` a run goes on until it is
done or ends, and someone runs the setup again after one that was not done; that
runs are not cut off for ever is the premise of `RerunRecovers`, not an assumption.

**The liveness runs of the relay are smaller** than the others in two ways beside their bounds.
They have no odd events; a batch that may always hold one more event multiplies
the states without adding a way to lose service. And `ReapUnseen = FALSE`: libsrt keeps
a broken socket for about a second before it collects it, and the relay waits in
epoll for at most half a second, so epoll reports it first. Were it not so, a
client's id could stay in `egress` for good, which the safety runs (with
`ReapUnseen = TRUE`) do allow and survive.

### Three comments the code does not bear out

- relay.js:420-423 says of the cap on one drain that "level-triggered epoll
  re-fires for the rest". `capped_drain` shows a source that breaks with more
  than DRAIN_MAX messages unread: the drain stops at the cap, the look at the
  state at relay.js:453 finds the source broken and closes it, and the rest is
  discarded.
- index.js:42 says "second signal: exit now instead of waiting out the epoll
  block". `second_signal` shows that both signals wait it out, since handlers run
  only in the yield. After a first signal has been handled there is no further
  block; a second one matters only if both are handled in the same yield, and
  then what it skips is `close()`.
- setup.js:13 says of OPENSSL_ROOT_DIR "skip download, use this tree".
  `stale_openssl` shows a second run that asks for another tree: the build script,
  kept from the first run, already has a `-DOPENSSL_ROOT_DIR=` and keeps it
  (patches.js:50), so libsrt is built against the first tree while the DLLs of the
  second are put beside the addon. The Visual Studio generator is kept likewise.

## 4. What is proved

All theorems hold for any set of sockets, any number of clients, either mode,
either binding, any delays, any inputs, and any bound, under the modules' named
assumptions only (types of the constants; `NoFd` is not a socket, two OpenSSL trees
differ; the tokens of a text are apart, as said above; the marks for "nothing there" and
"half there" are no values of what could be there). Every safety property that a passing
run checks, invariant or action property, is proved, and both refinements are.

| Module | Theorem | Result |
| --- | --- | --- |
| `RelayProofs` | `TypeCorrect` | `Spec => []TypeOK` |
| | `OwnershipCorrect` | `Spec => [](NoSocketLeak /\ RolesExclusive /\ Polled)` |
| | `RolesExclusiveCorrect` | `Spec => []RolesExclusive` |
| | `PolledCorrect` | `Spec => []Polled` |
| `RelaySafetyProofs` | `ClientCapCorrect` | `Spec => []ClientCap` |
| | `RunningWhilePollingCorrect` | `Spec => []RunningWhilePolling` |
| | `ThrottleCoversCorrect` | `Spec => []ThrottleCovers` |
| | `RetryThrottledCorrect` | `Spec => RetryThrottled` |
| | `StaleEventHarmlessCorrect` | `Spec => StaleEventHarmless` |
| | `ConnectedClientKeptCorrect` | `Spec => ConnectedClientKept` |
| | `ReportedDroppedCorrect` | `Spec => ReportedDropped` |
| | `SourceKeptCorrect` | `Spec => SourceKept` |
| `SplitterProofs` | `DrivesRelayCorrect` | `SplitterSpec => DrivesRelay` (refinement) |
| | `RelayInMain` | the relay's invariants and action properties hold of `SplitterSpec` |
| | `CleanEndCorrect` | `SplitterSpec => []CleanEnd` |
| | `SplitterTypeCorrect` | `SplitterSpec => []SplitterTypeOK` |
| `FanoutProofs` | `FanoutTyped` | `Spec => []FanoutTypeOK` |
| | `DeadDropped` | `Spec => []DrainDropsDead` |
| | `LaggardsOnly` | `Spec => OnlyTheLaggardDropped` |
| | `FanoutBroadcasts` | `Spec => Broadcasts` (refinement) |
| `ConfigProofs` | `Usable` | `Spec => []ReadyIsUsable` |
| | `PrecedenceHolds` | `Spec => []Precedence` |
| `SetupProofs` | `PatchIdempotent` | a patch applied twice is a patch applied once, for all texts |
| | `DoneRight` | `Spec => []DoneIsRight` |
| `ScriptProofs` | `ScriptOnce` | `Spec => []ScriptPatchedOnce` |
| | `FailsOnly` | `Spec => []FailsOnlyPastMending` |
| `PrebuildsProofs` | `Published` | `Spec => []PublishedWorks` |
| | `GreenCurrent` | `Spec => []GreenIsCurrent` |
| | `Forward` | `Spec => NeverBack` |

`TypeOK` is inductive. It is not entirely obvious for the drain, whose count of
messages read must not exceed those there are.

The three parts of `OwnershipCorrect` are not inductive one by one. That no
socket leaks rests on no field being overwritten while it holds one, which is
what the exclusion of the parts says; that the parts exclude each other rests on
new ids being held by no field, which for a closed one rests on ... nothing
leaking; and before `open()` and after `close()` the fields name sockets
that do not exist. The invariant is therefore their conjunction with the phases
(`Ownership`). Its proof goes through an operator, `Owns`, that states it of any
table of sockets and any five fields, primed or not (each socket is `Placed`, and
the fields are `Apart`), so that four lemmas cover
all methods:

- `OwnsDrop`: some held sockets are closed and leave their fields;
- `OwnsChange`: states change, what exists and what is watched do not;
- `OwnsAdd`: a new socket is put in an empty field, or joins the clients;
- `OwnsPromote`: an attempt becomes the source.

Each method is a short sequence of these: an accept on a listener that dies is a
drop, an add (the new listener), and an add or nothing (the client). The lemmas
before them say what each call of the binding returns (`AcceptResult`,
`MakeListenerResult`, ...).

The others rest on that invariant (`Grounds`):

- `ClientCap` needs that the set of clients is finite; it grows only in `Admit`.
- `ThrottleCovers` is inductive once it is known that nothing has failed before
  `open()` (`NoFailureYet`), and that a listener for the source and an attempt
  to reach it exclude each other. `RetryThrottled` follows from it.
- `ConnectedClientKept` and `SourceKept` are about single steps from a state
  where the parts exclude each other: the state asked of a socket is then the one
  its part needs, and the sockets that a method closes or makes are not the
  source's (`MakeListenerSpares`, `AcceptDownstreamSpares`).
- `ReportedDropped` is the safety half of `BrokenSocketDropped`, which needs fairness.
  That a failed socket is in the next batch follows from `Polled`; that its report ends
  in a close, from the parts: no state that `handleErr` accepts is that of a failed
  socket, and `upConn`, `egress` and the listeners are all the fields but the attempt's.
- `DrivesRelay` needs one fact of the process, that `running` is only cleared by
  the first signal (`StopsOnce`), so that the handler's step is `Shutdown`.
- `CleanEnd` needs the phase in which each way to end leaves the relay
  (`EndPhase`), and takes from `Ownership` that in those phases nothing exists.

The other components:

- `FanoutBroadcasts`: between two messages every client of `egress` has the last
  one, and in the middle of the writes those still to be reached have the one
  before it and the others have it (`InStep`). A drop is a `Leave`, a write a
  `Deliver`, a read a `Publish`, an accept outside a drain a `Join`.
- `DeadDropped` needs to know where the dead clients are in the middle of the writes:
  those still in `egress` are among those to be reached (`DeadAhead`), and nothing
  connects them again, so the next write to each drops it.
- `Usable` follows the phases: what `Load` leaves has a number wherever
  `validateConfig` compares one, what `Validate` lets pass is in range, and
  `Resolve` leaves every address IPv4.
- `PrecedenceHolds` compares a loop with a statement about the whole command line.
  Its invariant (`ParseInv`): no token passed is `--`, and what is collected for an
  option is the value of its last occurrence among them (`Collected`). The word that
  a long option takes with it is passed too, but is no option. At the end the tokens
  passed are those heard, and since an option without a value fails the run, the last
  occurrence is the last with a value.
- `PatchIdempotent` needs that the first place of a snippet exists, which is an
  induction over places, and that what is put in there is found there again.
- `DoneRight` follows a run: from `EnsureDep` to `WriteBinding` the binding becomes the
  patched one (the text it starts from is upstream's, the patched one, or nothing),
  after `PinSrt` the source is at the tag asked for and there is no build, so what
  `BuildSrt` makes is of that tag, and the addon is linked with it.
- `ScriptOnce` and `FailsOnly` share an invariant, `SInv`. It lists every text that the
  build script can ever hold (`AnyText`): upstream's, upstream's patched for a tree, one
  with the slim flags repeated by an earlier setup, or, after a write that was cut off,
  nothing. Four lemmas say what `PatchBuildScript` makes of each (`PatchUpstream`,
  `PatchRepeated`, `PatchPatched`, `PatchNothing`), token by token: patched once is the
  result, or unchanged. Each goes through the same few facts about `Replace` and
  `Includes` on a text given by its tokens. `CollapseSlim` is defined by counting rather
  than by recursion, and `CollapseIs` proves what it leaves for any number of
  repetitions. The rest of `SInv` follows a run: which trees exist when a step needs
  them (`Trees`), what was asked for (`Wanted`), and that the package is there once it
  has been looked for (`Given`). It is inductive together with the invariant of
  `DoneRight`; a step that fails is then one that found a package or tree torn, or an
  emptied file (`FailsPastMending`).
- The three theorems about `Prebuilds` share an invariant: what a job has made by
  the step it is at (`Made`); that a job's base is main, or main has moved on
  (`Behind`), so that a push that is taken has main itself as its base; and that the
  last run covers every artifact (`CoverInv`): its job is to come, or builds main's
  sources, or is red, or the prebuild is current.

Only model-checked: liveness (`BrokenSocketDropped`, `AttemptEnds`,
`ServiceRestored`, `SignalEnds`, `AcceptNotStarved`, `DeadClientDropped`,
`RerunRecovers`), since fairness and ENABLED are out of the prover's reach. Three of
them have a safety half that is proved: `ReportedDropped` of `BrokenSocketDropped`,
`DrainDropsDead` of `DeadClientDropped`, and `FailsOnlyPastMending` of `RerunRecovers`.

## 5. Not modelled

- `maybeStats` and the counters: they are only printed.
- The help text and the log.
- The values of socket options and what they do on the network: latency, buffer
  sizes, encryption. That setting one may fail is modelled.
- A clock that is set back.
- What libsrt does inside: loss, retransmission, congestion.
- Of texts on the command line and in URLs, the characters: which class a text is
  in is given, not computed.
- `setup.js --check`, which prints; the search for Visual Studio and cmake, whose
  result is the constant `Generator`; the retargeting of Visual Studio projects,
  part of `CompileAddon`; a second OPENSSL_VERSION with a sidecar of its own.
- A download that is cut off after its headers leaves the promise of setup.js:142
  unsettled, and the process ends with exit code 0. The model has the end
  (`Stopped`), not the exit code.
- `prebuild.js` run by hand in a tree that has been used before, pushes that do not
  start the workflow (for a job they are what another run's push is), and the
  installation of tools in its jobs.

## 6. Plan

All parts that change state have a module, and every safety property has its
theorem. What is left is a clock that is set back, in
`Relay`: ages that may shrink, and the property that a throttle or a time-out is late
by what the clock lost and no more.
