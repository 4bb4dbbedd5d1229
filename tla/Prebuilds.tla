----------------------------- MODULE Prebuilds -----------------------------
(***************************************************************************)
(* The prebuilt addons in the repository: scripts/prebuild.js, the         *)
(* workflow prebuild.yml that runs it for every platform and commits what  *)
(* it made, and the loader of src/srt.js, with which the workflow tries    *)
(* it.  Runs of the workflow go on side by side, and with the maintainer's *)
(* pushes to main; any step of a job may fail.                             *)
(***************************************************************************)
EXTENDS Naturals, FiniteSets

CONSTANTS
  Artifact,     \* linux-x64, ...
  Runner,       \* the platform each artifact's job runs on
  WithLibs,     \* those whose addon needs runtime libraries beside it
  MaxPushes,    \* bounds: the maintainer's pushes and the runs by hand
  MaxByHand

ASSUME PrebuildsAssumption ==
  /\ Runner \in [Artifact -> Artifact]
  /\ WithLibs \subseteq Artifact
  /\ MaxPushes \in Nat /\ MaxByHand \in Nat

(* A directory prebuilds/<artifact> or build/Release: the sources that the *)
(* addon in it is from (0: none), whether it works, and those its runtime  *)
(* libraries are from.                                                     *)
Dir == [src : 0..(MaxPushes + 1), works : BOOLEAN, libs : SUBSET (1..(MaxPushes + 1))]
NoDir == [src |-> 0, works |-> FALSE, libs |-> {}]

Idle == [at |-> "idle"]

VARIABLES
  main,     \* the branch: [rev, src, built], built being the prebuilds
  runs,     \* how many runs of the workflow there have been
  byHand,   \* of them those dispatched by hand
  todo,     \* of every run the artifacts whose job has not begun
  job,      \* of every run the job it is at
  red       \* of every run the artifacts whose job failed

vars == <<main, runs, byHand, todo, job, red>>

Run == 1..(MaxPushes + MaxByHand)

Init ==
  /\ main \in {[rev |-> 0, src |-> 1, built |-> [a \in Artifact |-> NoDir]],
               [rev |-> 0, src |-> 1, built |-> [a \in Artifact |->
                  [src |-> 1, works |-> TRUE, libs |-> IF a \in WithLibs THEN {1} ELSE {}]]]}
  /\ runs = 0 /\ byHand = 0
  /\ todo = [r \in Run |-> {}] /\ job = [r \in Run |-> Idle] /\ red = [r \in Run |-> {}]

Trigger == runs' = runs + 1 /\ todo' = [todo EXCEPT ![runs + 1] = Artifact]

(* The maintainer pushes new sources. *)
PushSources ==
  /\ main.src <= MaxPushes
  /\ main' = [main EXCEPT !.rev = @ + 1, !.src = @ + 1]
  /\ Trigger
  /\ UNCHANGED <<byHand, job, red>>

(* workflow_dispatch *)
Dispatch ==
  /\ byHand < MaxByHand
  /\ byHand' = byHand + 1
  /\ Trigger
  /\ UNCHANGED <<main, job, red>>

-----------------------------------------------------------------------------
(* A job.  A run has one at a time (max-parallel: 1) and goes on after one *)
(* that failed (fail-fast: false).                                         *)

(* checkout of main, not of the commit that triggered the run *)
Checkout(r) ==
  /\ job[r] = Idle
  /\ \E a \in todo[r] :
       /\ todo' = [todo EXCEPT ![r] = @ \ {a}]
       /\ job' = [job EXCEPT ![r] = [at |-> "setup", artifact |-> a, base |-> main,
                                     release |-> NoDir, dir |-> main.built[a]]]
  /\ UNCHANGED <<main, runs, byHand, red>>

(* npm run setup: an addon and its libraries, which may not do. *)
Setup(r) ==
  /\ job[r].at = "setup"
  /\ \E works \in BOOLEAN, libs \in {{}, {job[r].base.src}} :
       /\ libs # {} => job[r].artifact \in WithLibs
       /\ job' = [job EXCEPT ![r].at = "remove",
                             ![r].release = [src |-> job[r].base.src, works |-> works, libs |-> libs]]
  /\ UNCHANGED <<main, runs, byHand, todo, red>>

(* prebuild.js, step by step.  Mutant: what was there stays. *)
RemoveNothing(r) ==
  /\ job[r].at = "remove"
  /\ job' = [job EXCEPT ![r].at = "copy"]
  /\ UNCHANGED <<main, runs, byHand, todo, red>>

RemoveOld(r) ==
  /\ job[r].at = "remove"
  /\ job' = [job EXCEPT ![r].at = "copy", ![r].dir = NoDir]
  /\ UNCHANGED <<main, runs, byHand, todo, red>>

CopyAddon(r) ==
  /\ job[r].at = "copy"
  /\ job' = [job EXCEPT ![r].at = "libs",
                        ![r].dir.src = job[r].release.src, ![r].dir.works = job[r].release.works]
  /\ UNCHANGED <<main, runs, byHand, todo, red>>

(* Libraries of different sources differ in name: libssl-3, libssl-4. *)
CopyLibs(r) ==
  /\ job[r].at = "libs"
  /\ job' = [job EXCEPT ![r].at = "try", ![r].dir.libs = @ \cup job[r].release.libs]
  /\ UNCHANGED <<main, runs, byHand, todo, red>>

Works(dir, a) == dir.src # 0 /\ dir.works /\ (a \in WithLibs => dir.src \in dir.libs)

(* createSrt on the job's runner: the prebuild of the runner's platform,   *)
(* without falling back when there is one; else the addon just compiled,   *)
(* which loads when it is for this platform.                               *)
Loads(j) ==
  LET here == Runner[j.artifact]
      prebuild == IF here = j.artifact THEN j.dir ELSE j.base.built[here] IN
  IF prebuild # NoDir THEN Works(prebuild, here)
  ELSE here = j.artifact /\ Works(j.release, here)

Try(r) ==
  /\ job[r].at = "try" /\ Loads(job[r])
  /\ job' = [job EXCEPT ![r].at = "push"]
  /\ UNCHANGED <<main, runs, byHand, todo, red>>

(* Mutants: git push --force; a push turned down is not an error. *)
PushForce(r) ==
  /\ job[r].at = "push"
  /\ main' = [job[r].base EXCEPT !.rev = main.rev + 1, !.built[job[r].artifact] = job[r].dir]
  /\ job' = [job EXCEPT ![r] = Idle]
  /\ UNCHANGED <<runs, byHand, todo, red>>
FailsUnlessRejected(r) ==
  /\ job[r] # Idle
  /\ job' = [job EXCEPT ![r] = Idle]
  /\ red' = IF job[r].at = "push" /\ main.rev # job[r].base.rev THEN red
            ELSE [red EXCEPT ![r] = @ \cup {job[r].artifact}]
  /\ UNCHANGED <<main, runs, byHand, todo>>

(* The commit, unless the files are those on main (a compiler may make     *)
(* others of the same sources), and git push, which takes only what        *)
(* follows on main.                                                        *)
Push(r) ==
  /\ job[r].at = "push" /\ main.rev = job[r].base.rev
  /\ \/ main' = [main EXCEPT !.rev = @ + 1, !.built[job[r].artifact] = job[r].dir]
     \/ job[r].dir = main.built[job[r].artifact] /\ UNCHANGED main
  /\ job' = [job EXCEPT ![r] = Idle]
  /\ UNCHANGED <<runs, byHand, todo, red>>

(* A step fails: the addon tried does not load, the push is turned down,   *)
(* or, at any step, the network, a tool or the runner; its files are lost. *)
Fails(r) ==
  /\ job[r] # Idle
  /\ job' = [job EXCEPT ![r] = Idle]
  /\ red' = [red EXCEPT ![r] = @ \cup {job[r].artifact}]
  /\ UNCHANGED <<main, runs, byHand, todo>>

JobStep(r) ==
  \/ Checkout(r) \/ Setup(r) \/ RemoveOld(r) \/ CopyAddon(r) \/ CopyLibs(r)
  \/ Try(r) \/ Push(r) \/ Fails(r)

(* Nothing is left to do. *)
Quiet == todo = [r \in Run |-> {}] /\ job = [r \in Run |-> Idle]

Rest == Quiet /\ UNCHANGED vars

Next == PushSources \/ Dispatch \/ (\E r \in Run : JobStep(r)) \/ Rest

Spec == Init /\ [][Next]_vars

-----------------------------------------------------------------------------
(***************************************************************************)
(* A prebuild on main works, and nothing of an older one is beside it,     *)
(* where the job runs on the platform it builds for.  The loader does not  *)
(* fall back from a prebuild that fails to load (srt.js:29), so a broken   *)
(* one stops every user of that platform.                                  *)
(***************************************************************************)
PublishedWorks ==
  \A a \in Artifact :
    LET dir == main.built[a] IN
    Runner[a] = a /\ dir # NoDir => Works(dir, a) /\ dir.libs \subseteq {dir.src}

(***************************************************************************)
(* When every run is over and none of its jobs is red, every prebuild is   *)
(* from the sources on main: a push that overtook a job is not forgotten.  *)
(***************************************************************************)
GreenIsCurrent ==
  Quiet /\ runs > 0 /\ (\A r \in Run : red[r] = {}) =>
    \A a \in Artifact : main.built[a].src = main.src

(***************************************************************************)
(* Whatever runs of the workflow overlap, none takes back the sources that *)
(* were pushed while it built, nor a prebuild made since from newer ones.  *)
(***************************************************************************)
NeverBack ==
  [][/\ main'.src >= main.src
     /\ \A a \in Artifact : main'.built[a].src >= main.built[a].src]_vars
=============================================================================
