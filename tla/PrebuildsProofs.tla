-------------------------- MODULE PrebuildsProofs --------------------------
(***************************************************************************)
(* The three properties of the prebuild workflow, for every number of      *)
(* artifacts, runs and pushes.                                             *)
(***************************************************************************)
EXTENDS Prebuilds, TLAPS

Version == 1..(MaxPushes + 1)

Branch == [rev : Nat, src : Version, built : [Artifact -> Dir]]

Job == [at : {"setup", "remove", "copy", "libs", "try", "push"},
        artifact : Artifact, base : Branch, release : Dir, dir : Dir]

TypeInv ==
  /\ main \in Branch
  /\ runs \in Nat /\ byHand \in 0..MaxByHand /\ runs = main.src - 1 + byHand
  /\ todo \in [Run -> SUBSET Artifact]
  /\ job \in [Run -> Job \cup {Idle}]
  /\ red \in [Run -> SUBSET Artifact]

(* What a job has made, by how far it is. *)
Made(j) ==
  /\ j.at # "setup" => j.release.src = j.base.src /\ j.release.libs \subseteq {j.base.src}
  /\ j.at = "copy" => j.dir = NoDir
  /\ j.at = "libs" => j.dir.src = j.base.src /\ j.dir.libs = {}
  /\ j.at \in {"try", "push"} => j.dir.src = j.base.src /\ j.dir.libs \subseteq {j.base.src}
  /\ j.at = "push" /\ Runner[j.artifact] = j.artifact => Works(j.dir, j.artifact)

(* A job's base is main, or main has moved on from it. *)
Behind(j) ==
  /\ j.base.rev <= main.rev
  /\ j.base.rev = main.rev => j.base = main

JobsInv == \A r \in Run : job[r] # Idle => Made(job[r]) /\ Behind(job[r])

MainInv == (\A a \in Artifact : main.built[a].src <= main.src) /\ PublishedWorks

(* Of a run and an artifact: its job is to come, or builds what is on      *)
(* main, or has failed, or the prebuild is current.                        *)
Covered(r, a) ==
  \/ a \in todo[r] \/ a \in red[r]
  \/ job[r] # Idle /\ job[r].artifact = a /\ job[r].base.src = main.src
  \/ main.built[a].src = main.src

(* The last push started a run that covers every artifact. *)
CoverInv == runs > 0 => \E r \in 1..runs : \A a \in Artifact : Covered(r, a)

Inv == TypeInv /\ JobsInv /\ MainInv /\ CoverInv

-----------------------------------------------------------------------------
(* What the types amount to, field by field. *)
LEMMA DirType ==
  ASSUME NEW d \in Dir
  PROVE  /\ d.src \in 0..(MaxPushes + 1) /\ d.works \in BOOLEAN /\ d.libs \subseteq Version
         /\ d = [src |-> d.src, works |-> d.works, libs |-> d.libs]
  BY DEF Dir, Version

LEMMA NoDirType == NoDir \in Dir
<1>1. 0 \in 0..(MaxPushes + 1)
  BY PrebuildsAssumption
<1>2. {} \in SUBSET (1..(MaxPushes + 1))
  OBVIOUS
<1> QED BY <1>1, <1>2 DEF NoDir, Dir

LEMMA InitBranch ==
  ASSUME NEW built \in [Artifact -> Dir]
  PROVE  [rev |-> 0, src |-> 1, built |-> built] \in Branch
<1>1. 1 \in Version
  BY PrebuildsAssumption DEF Version
<1> QED BY <1>1 DEF Branch

(* Init gives a branch without prebuilds, or with those of its sources. *)
LEMMA InvInit == Init => Inv
<1> DEFINE Current(a) == [src |-> 1, works |-> TRUE, libs |-> IF a \in WithLibs THEN {1} ELSE {}]
<1> SUFFICES ASSUME Init PROVE Inv
  OBVIOUS
<1>1. ASSUME NEW a \in Artifact PROVE Current(a) \in Dir
  <2>1. 1 \in 0..(MaxPushes + 1) /\ 1 \in 1..(MaxPushes + 1)
    BY PrebuildsAssumption
  <2>2. (IF a \in WithLibs THEN {1} ELSE {}) \in SUBSET (1..(MaxPushes + 1))
    BY <2>1
  <2> QED BY <2>1, <2>2 DEF Dir
<1>2. main \in Branch /\ main.src = 1 /\ MainInv
  <2>1. CASE main = [rev |-> 0, src |-> 1, built |-> [a \in Artifact |-> NoDir]]
    <3>1. [a \in Artifact |-> NoDir] \in [Artifact -> Dir]
      BY NoDirType
    <3>2. main \in Branch
      BY <2>1, <3>1, InitBranch
    <3>3. \A a \in Artifact : main.built[a] = NoDir
      BY <2>1
    <3>4. \A a \in Artifact : main.built[a].src <= main.src
      BY <2>1, <3>3 DEF NoDir
    <3> QED BY <2>1, <3>2, <3>3, <3>4 DEF MainInv, PublishedWorks
  <2>2. CASE main = [rev |-> 0, src |-> 1, built |-> [a \in Artifact |-> Current(a)]]
    <3>1. [a \in Artifact |-> Current(a)] \in [Artifact -> Dir]
      BY <1>1
    <3>2. main \in Branch
      BY <2>2, <3>1, InitBranch
    <3>3. \A a \in Artifact : main.built[a] = Current(a)
      BY <2>2
    <3>4. ASSUME NEW a \in Artifact
          PROVE  /\ main.built[a].src = 1 /\ main.built[a].works
                 /\ main.built[a].libs = IF a \in WithLibs THEN {1} ELSE {}
      <4>1. main.built[a] = Current(a)
        BY <3>3
      <4>2. Current(a).src = 1 /\ Current(a).libs = IF a \in WithLibs THEN {1} ELSE {}
        OBVIOUS
      <4>3. Current(a).works
        OBVIOUS
      <4> HIDE DEF Current
      <4> QED BY <4>1, <4>2, <4>3
    <3>7. PublishedWorks
      BY <3>4 DEF PublishedWorks, Works
    <3> QED BY <2>2, <3>2, <3>4, <3>7 DEF MainInv
  <2> QED BY <2>1, <2>2 DEF Init
<1>3. runs = main.src - 1 + byHand /\ byHand \in 0..MaxByHand /\ runs \in Nat
  BY <1>2, PrebuildsAssumption DEF Init
<1>4. job \in [Run -> Job \cup {Idle}] /\ todo \in [Run -> SUBSET Artifact] /\ red \in [Run -> SUBSET Artifact]
  BY DEF Init
<1>5. JobsInv
  BY DEF Init, JobsInv
<1>6. CoverInv
  BY DEF Init, CoverInv
<1> QED BY <1>2, <1>3, <1>4, <1>5, <1>6 DEF Inv, TypeInv

LEMMA JobIsNotIdle ==
  ASSUME NEW j \in Job PROVE j # Idle
<1>1. Idle.at = "idle"
  BY DEF Idle
<1> QED BY <1>1 DEF Job

-----------------------------------------------------------------------------
(* A step of a job that leaves the branch alone keeps the invariant when   *)
(* the job has then made what it should.                                   *)
LEMMA JobMoves ==
  ASSUME Inv, NEW r \in Run, NEW j \in Job,
         job[r] \in Job, job' = [job EXCEPT ![r] = j],
         j.base = job[r].base, j.artifact = job[r].artifact, Made(j),
         UNCHANGED <<main, runs, byHand, todo, red>>
  PROVE  Inv'
<1>1. job \in [Run -> Job \cup {Idle}] /\ job[r] # Idle /\ j # Idle
  BY JobIsNotIdle DEF Inv, TypeInv
<1>2. job'[r] = j /\ \A q \in Run \ {r} : job'[q] = job[q]
  BY <1>1
<1>3. TypeInv'
  <2>1. job' \in [Run -> Job \cup {Idle}]
    BY <1>1
  <2> QED BY <2>1 DEF Inv, TypeInv
<1>4. JobsInv'
  <2> SUFFICES ASSUME NEW q \in Run, job'[q] # Idle PROVE Made(job'[q]) /\ Behind(job[q])'
    BY DEF JobsInv
  <2>1. Behind(job[r]) /\ (job[q] # Idle => Made(job[q]) /\ Behind(job[q]))
    BY <1>1 DEF Inv, JobsInv
  <2>2. CASE q = r
    BY <2>1, <2>2, <1>2 DEF Behind, Made, Works
  <2>3. CASE q # r
    BY <2>1, <2>3, <1>2 DEF Behind
  <2> QED BY <2>2, <2>3
<1>5. MainInv'
  BY DEF Inv, MainInv, PublishedWorks
<1>6. CoverInv'
  <2>1. ASSUME NEW q \in Run, NEW a \in Artifact, Covered(q, a) PROVE Covered(q, a)'
    BY <1>1, <1>2, <2>1 DEF Covered
  <2>2. 1..runs \subseteq Run
    BY PrebuildsAssumption DEF Inv, TypeInv, Run, Branch, Version
  <2> QED BY <2>1, <2>2 DEF Inv, CoverInv
<1> QED BY <1>3, <1>4, <1>5, <1>6 DEF Inv

(* The job of a run that is at some step, field by field. *)
LEMMA AtStep ==
  ASSUME Inv, NEW r \in Run, job[r].at # "idle" \/ job[r] # Idle
  PROVE  /\ job[r] \in Job /\ job[r] # Idle /\ Made(job[r]) /\ Behind(job[r])
         /\ job[r].base \in Branch /\ job[r].base.src \in Version
         /\ job[r].artifact \in Artifact /\ job[r].release \in Dir /\ job[r].dir \in Dir
<1>1. job[r] \in Job \cup {Idle}
  BY DEF Inv, TypeInv
<1>2. Idle.at = "idle"
  BY DEF Idle
<1>3. job[r] \in Job /\ job[r] # Idle
  BY <1>1, <1>2
<1> QED BY <1>3 DEF Inv, JobsInv, Job, Branch

LEMMA SetupKeeps == ASSUME Inv, NEW r \in Run, Setup(r) PROVE Inv'
<1> DEFINE j == job[r]
<1>1. PICK works \in BOOLEAN, libs \in {{}, {j.base.src}} :
        job' = [job EXCEPT ![r] = [j EXCEPT !.at = "remove",
                  !.release = [src |-> j.base.src, works |-> works, libs |-> libs]]]
  BY DEF Setup
<1> DEFINE release == [src |-> j.base.src, works |-> works, libs |-> libs]
           next == [j EXCEPT !.at = "remove", !.release = release]
<1>2. j \in Job /\ j.base.src \in Version
  BY AtStep DEF Setup
<1>3. release \in Dir
  BY <1>2, PrebuildsAssumption DEF Dir, Version
<1>4. release.src = j.base.src /\ release.libs \subseteq {j.base.src}
  OBVIOUS
<1>5. job' = [job EXCEPT ![r] = next]
  BY <1>1
<1> HIDE DEF release
<1>6. next \in Job /\ next.base = j.base /\ next.artifact = j.artifact /\ next.at = "remove" /\ next.release = release
  BY <1>2, <1>3 DEF Job
<1> HIDE DEF next
<1>7. Made(next)
  BY <1>4, <1>6 DEF Made
<1> QED BY <1>2, <1>5, <1>6, <1>7, JobMoves DEF Setup

LEMMA RemoveOldKeeps == ASSUME Inv, NEW r \in Run, RemoveOld(r) PROVE Inv'
<1> DEFINE j == job[r]
           next == [j EXCEPT !.at = "copy", !.dir = NoDir]
<1>1. j \in Job /\ Made(j) /\ j.at = "remove"
  BY AtStep DEF RemoveOld
<1>2. job' = [job EXCEPT ![r] = next]
  BY DEF RemoveOld
<1>3. /\ next \in Job /\ next.base = j.base /\ next.artifact = j.artifact
      /\ next.at = "copy" /\ next.release = j.release /\ next.dir = NoDir
  BY <1>1, NoDirType DEF Job
<1> HIDE DEF next
<1>4. Made(next)
  BY <1>1, <1>3 DEF Made
<1> QED BY <1>1, <1>2, <1>3, <1>4, JobMoves DEF RemoveOld

LEMMA CopyAddonKeeps == ASSUME Inv, NEW r \in Run, CopyAddon(r) PROVE Inv'
<1> DEFINE j == job[r]
           dir == [j.dir EXCEPT !.src = j.release.src, !.works = j.release.works]
           next == [j EXCEPT !.at = "libs", !.dir = dir]
<1>1. j \in Job /\ Made(j) /\ j.at = "copy" /\ j.dir \in Dir /\ j.release \in Dir
  BY AtStep DEF CopyAddon
<1>2. job' = [job EXCEPT ![r] = next]
  BY <1>1 DEF CopyAddon, Job, Dir
<1>3. dir \in Dir /\ dir.src = j.release.src /\ dir.libs = j.dir.libs
  BY <1>1 DEF Dir
<1> HIDE DEF dir
<1>4. /\ next \in Job /\ next.base = j.base /\ next.artifact = j.artifact
      /\ next.at = "libs" /\ next.release = j.release /\ next.dir = dir
  BY <1>1, <1>3 DEF Job
<1> HIDE DEF next
<1>5. Made(next)
  BY <1>1, <1>3, <1>4 DEF Made, NoDir
<1> QED BY <1>1, <1>2, <1>4, <1>5, JobMoves DEF CopyAddon

LEMMA CopyLibsKeeps == ASSUME Inv, NEW r \in Run, CopyLibs(r) PROVE Inv'
<1> DEFINE j == job[r]
           dir == [j.dir EXCEPT !.libs = j.dir.libs \cup j.release.libs]
           next == [j EXCEPT !.at = "try", !.dir = dir]
<1>1. j \in Job /\ Made(j) /\ j.at = "libs" /\ j.dir \in Dir /\ j.release \in Dir
  BY AtStep DEF CopyLibs
<1>2. job' = [job EXCEPT ![r] = next]
  BY <1>1 DEF CopyLibs, Job, Dir
<1>3. dir \in Dir /\ dir.src = j.dir.src /\ dir.libs = j.dir.libs \cup j.release.libs
  BY <1>1 DEF Dir
<1> HIDE DEF dir
<1>4. /\ next \in Job /\ next.base = j.base /\ next.artifact = j.artifact
      /\ next.at = "try" /\ next.release = j.release /\ next.dir = dir
  BY <1>1, <1>3 DEF Job
<1> HIDE DEF next
<1>5. Made(next)
  BY <1>1, <1>3, <1>4 DEF Made
<1> QED BY <1>1, <1>2, <1>4, <1>5, JobMoves DEF CopyLibs

(* On a runner of its own platform the job tries what it is to publish. *)
LEMMA TryKeeps == ASSUME Inv, NEW r \in Run, Try(r) PROVE Inv'
<1> DEFINE j == job[r]
           next == [j EXCEPT !.at = "push"]
<1>1. j \in Job /\ Made(j) /\ j.at = "try" /\ j.base.src \in Version
  BY AtStep DEF Try
<1>2. job' = [job EXCEPT ![r] = next]
  BY DEF Try
<1>3. /\ next \in Job /\ next.base = j.base /\ next.artifact = j.artifact
      /\ next.at = "push" /\ next.release = j.release /\ next.dir = j.dir
  BY <1>1 DEF Job
<1>4. ASSUME Runner[j.artifact] = j.artifact PROVE Works(j.dir, j.artifact)
  <2>1. j.dir.src # 0
    BY <1>1 DEF Made, Version
  <2>2. j.dir # NoDir
    BY <2>1 DEF NoDir
  <2> QED BY <1>4, <2>2 DEF Try, Loads
<1> HIDE DEF next
<1>5. Made(next)
  BY <1>1, <1>3, <1>4 DEF Made
<1> QED BY <1>1, <1>2, <1>3, <1>5, JobMoves DEF Try

(* A new run's jobs are all to come. *)
LEMMA TriggerCovers ==
  ASSUME Inv, Trigger, NEW q \in Run, q = runs + 1
  PROVE  /\ todo' \in [Run -> SUBSET Artifact] /\ q \in 1..runs'
         /\ \A a \in Artifact : Covered(q, a)'
<1>1. todo \in [Run -> SUBSET Artifact] /\ runs \in Nat
  BY DEF Inv, TypeInv
<1>2. todo'[q] = Artifact /\ todo' \in [Run -> SUBSET Artifact]
  BY <1>1 DEF Trigger
<1>3. q \in 1..runs'
  BY <1>1 DEF Trigger
<1> QED BY <1>1, <1>2, <1>3 DEF Trigger, Covered

LEMMA PushSourcesKeeps == ASSUME Inv, PushSources PROVE Inv'
<1>1. /\ main \in Branch /\ main.src \in Version /\ main.rev \in Nat
      /\ main.built \in [Artifact -> Dir]
      /\ runs = main.src - 1 + byHand /\ byHand \in 0..MaxByHand
  BY DEF Inv, TypeInv, Branch
<1>2. /\ main'.src = main.src + 1 /\ main'.rev = main.rev + 1 /\ main'.built = main.built
      /\ main.src + 1 \in Version /\ main' \in Branch
  <2>1. main.src + 1 \in Version /\ main.rev + 1 \in Nat
    BY <1>1, PrebuildsAssumption DEF PushSources, Version
  <2> QED BY <1>1, <2>1 DEF PushSources, Branch
<1>3. runs + 1 \in Run
  BY <1>1, PrebuildsAssumption DEF PushSources, Run, Version
<1>4. TypeInv'
  <2>1. runs' = main'.src - 1 + byHand' /\ runs' \in Nat /\ byHand' \in 0..MaxByHand
    BY <1>1, <1>2 DEF PushSources, Trigger, Version
  <2> QED BY <1>2, <1>3, <2>1, TriggerCovers DEF PushSources, Inv, TypeInv
<1>5. JobsInv'
  <2> SUFFICES ASSUME NEW q \in Run, job[q] # Idle PROVE Made(job[q]) /\ Behind(job[q])'
    BY DEF JobsInv, PushSources, Made, Works
  <2>1. Made(job[q]) /\ Behind(job[q]) /\ job[q].base.rev \in Nat
    BY AtStep DEF Branch
  <2>2. ~ (job[q].base.rev = main'.rev)
    BY <1>1, <1>2, <2>1 DEF Behind
  <2>3. job[q].base.rev <= main'.rev
    BY <1>1, <1>2, <2>1 DEF Behind
  <2> QED BY <2>1, <2>2, <2>3 DEF Behind, PushSources
<1>6. MainInv'
  <2>1. \A a \in Artifact : main'.built[a].src <= main'.src
    <3> SUFFICES ASSUME NEW a \in Artifact PROVE main'.built[a].src <= main'.src
      OBVIOUS
    <3>1. main.built[a].src \in Nat
      BY <1>1, DirType, PrebuildsAssumption
    <3> QED BY <1>1, <1>2, <3>1 DEF Inv, MainInv, Version
  <2> QED BY <1>2, <2>1 DEF Inv, MainInv, PublishedWorks
<1>7. CoverInv'
  <2>1. PICK q \in Run : q = runs + 1
    BY <1>3
  <2>2. q \in 1..runs' /\ \A a \in Artifact : Covered(q, a)'
    BY <2>1, TriggerCovers DEF PushSources
  <2> QED BY <2>2 DEF CoverInv
<1> QED BY <1>4, <1>5, <1>6, <1>7 DEF Inv

LEMMA DispatchKeeps == ASSUME Inv, Dispatch PROVE Inv'
<1>1. main.src \in Version /\ runs = main.src - 1 + byHand /\ byHand \in 0..MaxByHand
  BY DEF Inv, TypeInv, Branch
<1>2. runs + 1 \in Run
  BY <1>1, PrebuildsAssumption DEF Dispatch, Run, Version
<1>3. TypeInv'
  <2>1. runs' = main'.src - 1 + byHand' /\ runs' \in Nat /\ byHand' \in 0..MaxByHand
    BY <1>1, PrebuildsAssumption DEF Dispatch, Trigger, Version
  <2> QED BY <1>2, <2>1, TriggerCovers DEF Dispatch, Inv, TypeInv
<1>4. JobsInv'
  BY DEF Dispatch, Inv, JobsInv, Made, Works, Behind
<1>5. MainInv'
  BY DEF Dispatch, Inv, MainInv, PublishedWorks
<1>6. CoverInv'
  <2>1. PICK q \in Run : q = runs + 1
    BY <1>2
  <2>2. q \in 1..runs' /\ \A a \in Artifact : Covered(q, a)'
    BY <2>1, TriggerCovers DEF Dispatch
  <2> QED BY <2>2 DEF CoverInv
<1> QED BY <1>3, <1>4, <1>5, <1>6 DEF Inv

LEMMA CheckoutKeeps == ASSUME Inv, NEW r \in Run, Checkout(r) PROVE Inv'
<1>1. PICK a \in todo[r] :
        /\ todo' = [todo EXCEPT ![r] = @ \ {a}]
        /\ job' = [job EXCEPT ![r] = [at |-> "setup", artifact |-> a, base |-> main,
                                      release |-> NoDir, dir |-> main.built[a]]]
  BY DEF Checkout
<1> DEFINE next == [at |-> "setup", artifact |-> a, base |-> main,
                    release |-> NoDir, dir |-> main.built[a]]
<1>2. /\ main \in Branch /\ main.built \in [Artifact -> Dir] /\ main.rev \in Nat
      /\ todo \in [Run -> SUBSET Artifact] /\ job \in [Run -> Job \cup {Idle}]
      /\ runs \in Nat /\ 1..runs \subseteq Run
  BY PrebuildsAssumption DEF Inv, TypeInv, Branch, Run, Version
<1>3. a \in Artifact /\ main.built[a] \in Dir
  BY <1>2
<1>4. next \in Job /\ next.at = "setup" /\ next.artifact = a /\ next.base = main
  BY <1>2, <1>3, NoDirType DEF Job
<1>5. job' = [job EXCEPT ![r] = next]
  BY <1>1
<1> HIDE DEF next
<1>6. next # Idle /\ Made(next) /\ Behind(next)
  BY <1>2, <1>4, JobIsNotIdle DEF Made, Behind
<1>7. job'[r] = next /\ \A q \in Run \ {r} : job'[q] = job[q] /\ todo'[q] = todo[q]
  BY <1>1, <1>2, <1>5
<1>8. TypeInv'
  <2>1. job' \in [Run -> Job \cup {Idle}] /\ todo' \in [Run -> SUBSET Artifact]
    BY <1>1, <1>2, <1>4, <1>5
  <2> QED BY <2>1 DEF Checkout, Inv, TypeInv
<1>9. JobsInv'
  BY <1>6, <1>7 DEF Checkout, Inv, JobsInv, Made, Works, Behind
<1>10. MainInv'
  BY DEF Checkout, Inv, MainInv, PublishedWorks
<1>11. CoverInv'
  <2>1. ASSUME NEW q \in Run, NEW b \in Artifact, Covered(q, b) PROVE Covered(q, b)'
    <3>1. CASE q # r
      BY <2>1, <3>1, <1>7 DEF Covered, Checkout
    <3>2. CASE q = r /\ b = a
      BY <3>2, <1>4, <1>6, <1>7 DEF Covered, Checkout
    <3>3. CASE q = r /\ b # a
      <4>1. todo'[r] = todo[r] \ {a}
        BY <1>1, <1>2
      <4> QED BY <2>1, <3>3, <4>1 DEF Covered, Checkout
    <3> QED BY <3>1, <3>2, <3>3
  <2> QED BY <1>2, <2>1 DEF Inv, CoverInv, Checkout
<1> QED BY <1>8, <1>9, <1>10, <1>11 DEF Inv

LEMMA FailsKeeps == ASSUME Inv, NEW r \in Run, Fails(r) PROVE Inv'
<1>1. job[r].artifact \in Artifact
  BY AtStep DEF Fails
<1>2. /\ job \in [Run -> Job \cup {Idle}] /\ red \in [Run -> SUBSET Artifact]
      /\ runs \in Nat /\ 1..runs \subseteq Run
  BY PrebuildsAssumption DEF Inv, TypeInv, Branch, Run, Version
<1>3. job'[r] = Idle /\ \A q \in Run \ {r} : job'[q] = job[q] /\ red'[q] = red[q]
  BY <1>2 DEF Fails
<1>4. red'[r] = red[r] \cup {job[r].artifact}
  BY <1>2 DEF Fails
<1>5. TypeInv'
  <2>1. job' \in [Run -> Job \cup {Idle}] /\ red' \in [Run -> SUBSET Artifact]
    BY <1>1, <1>2 DEF Fails
  <2> QED BY <2>1 DEF Fails, Inv, TypeInv
<1>6. JobsInv'
  BY <1>3 DEF Fails, Inv, JobsInv, Made, Works, Behind
<1>7. MainInv'
  BY DEF Fails, Inv, MainInv, PublishedWorks
<1>8. CoverInv'
  <2>1. ASSUME NEW q \in Run, NEW b \in Artifact, Covered(q, b) PROVE Covered(q, b)'
    BY <1>3, <1>4, <2>1 DEF Covered, Fails
  <2> QED BY <1>2, <2>1 DEF Inv, CoverInv, Fails
<1> QED BY <1>5, <1>6, <1>7, <1>8 DEF Inv

(* A push that is taken comes of main as it is, so what it publishes is    *)
(* of main's sources and has been tried, and no other job's base is newer. *)
LEMMA PushEffect ==
  ASSUME Inv, NEW r \in Run, Push(r)
  PROVE  /\ main' \in Branch /\ main'.src = main.src
         /\ main'.built[job[r].artifact] = job[r].dir /\ job[r].dir.src = main.src
         /\ \A a \in Artifact \ {job[r].artifact} : main'.built[a] = main.built[a]
         /\ main' = main \/ main'.rev = main.rev + 1
<1> DEFINE j == job[r]
<1>1. /\ j \in Job /\ j.artifact \in Artifact /\ j.dir \in Dir /\ Made(j) /\ Behind(j)
      /\ j.at = "push" /\ j.base.rev = main.rev
  BY AtStep DEF Push
<1>2. main \in Branch /\ main.rev \in Nat /\ main.src \in Version /\ main.built \in [Artifact -> Dir]
  BY DEF Inv, TypeInv, Branch
<1>3. j.base = main /\ j.dir.src = main.src
  BY <1>1 DEF Behind, Made
<1>4. CASE main' = [main EXCEPT !.rev = @ + 1, !.built[j.artifact] = j.dir]
  <2>1. main' = [main EXCEPT !.rev = main.rev + 1,
                             !.built = [main.built EXCEPT ![j.artifact] = j.dir]]
    BY <1>2, <1>4 DEF Branch
  <2>2. [main.built EXCEPT ![j.artifact] = j.dir] \in [Artifact -> Dir] /\ main.rev + 1 \in Nat
    BY <1>1, <1>2
  <2>3. main'.src = main.src /\ main'.rev = main.rev + 1
        /\ main'.built = [main.built EXCEPT ![j.artifact] = j.dir]
    BY <1>2, <2>1 DEF Branch
  <2>4. main' \in Branch
    BY <1>2, <2>1, <2>2 DEF Branch
  <2> QED BY <1>1, <1>2, <1>3, <2>3, <2>4
<1>5. CASE j.dir = main.built[j.artifact] /\ UNCHANGED main
  BY <1>2, <1>3, <1>5
<1> QED BY <1>4, <1>5 DEF Push

LEMMA PushKeeps == ASSUME Inv, NEW r \in Run, Push(r) PROVE Inv'
<1> DEFINE a == job[r].artifact
           dir == job[r].dir
<1>1. /\ main' \in Branch /\ main'.src = main.src /\ main'.built[a] = dir /\ dir.src = main.src
      /\ \A b \in Artifact \ {a} : main'.built[b] = main.built[b]
      /\ main' = main \/ main'.rev = main.rev + 1
  BY PushEffect
<1>2. /\ job[r].at = "push" /\ Made(job[r]) /\ a \in Artifact /\ job[r].base = main
  BY AtStep DEF Push, Behind
<1>3. /\ main.rev \in Nat /\ main.src \in Version /\ job \in [Run -> Job \cup {Idle}]
      /\ runs \in Nat /\ 1..runs \subseteq Run
  BY PrebuildsAssumption DEF Inv, TypeInv, Branch, Run, Version
<1>4. job'[r] = Idle /\ \A q \in Run \ {r} : job'[q] = job[q]
  BY <1>3 DEF Push
<1>5. TypeInv'
  <2>1. job' \in [Run -> Job \cup {Idle}]
    BY <1>3 DEF Push
  <2> QED BY <1>1, <2>1 DEF Push, Inv, TypeInv
<1>6. JobsInv'
  <2> SUFFICES ASSUME NEW q \in Run \ {r}, job[q] # Idle PROVE Made(job[q]) /\ Behind(job[q])'
    BY <1>4 DEF JobsInv, Made, Works
  <2>1. Made(job[q]) /\ Behind(job[q]) /\ job[q].base.rev \in Nat
    BY AtStep DEF Branch
  <2>2. CASE main' = main
    BY <1>4, <2>1, <2>2 DEF Behind
  <2>3. CASE main'.rev = main.rev + 1
    <3>1. job[q].base.rev <= main'.rev /\ job[q].base.rev # main'.rev
      BY <1>3, <2>1, <2>3 DEF Behind
    <3> QED BY <1>4, <2>1, <3>1 DEF Behind
  <2> QED BY <1>1, <2>2, <2>3
<1>7. MainInv'
  <2>1. dir.libs \subseteq {main.src} /\ (Runner[a] = a => Works(dir, a))
    BY <1>1, <1>2 DEF Made
  <2>2. ASSUME NEW b \in Artifact
        PROVE  /\ main'.built[b].src <= main'.src
               /\ Runner[b] = b /\ main'.built[b] # NoDir =>
                    Works(main'.built[b], b) /\ main'.built[b].libs \subseteq {main'.built[b].src}
    <3>1. CASE b = a
      BY <1>1, <1>3, <2>1, <3>1 DEF Version
    <3>2. CASE b # a
      BY <1>1, <3>2 DEF Inv, MainInv, PublishedWorks
    <3> QED BY <3>1, <3>2
  <2> QED BY <2>2 DEF MainInv, PublishedWorks, Works
<1>8. CoverInv'
  <2>1. ASSUME NEW q \in Run, NEW b \in Artifact, Covered(q, b) PROVE Covered(q, b)'
    <3>1. CASE b = a
      BY <1>1, <3>1 DEF Covered
    <3>2. CASE b # a
      BY <1>1, <1>4, <2>1, <3>2 DEF Covered, Push
    <3> QED BY <3>1, <3>2
  <2> QED BY <1>3, <2>1 DEF Inv, CoverInv, Push
<1> QED BY <1>5, <1>6, <1>7, <1>8 DEF Inv

LEMMA InvStep == Inv /\ [Next]_vars => Inv'
<1> SUFFICES ASSUME Inv, [Next]_vars PROVE Inv'
  OBVIOUS
<1>1. CASE PushSources
  BY <1>1, PushSourcesKeeps
<1>2. CASE Dispatch
  BY <1>2, DispatchKeeps
<1>3. ASSUME NEW r \in Run, JobStep(r) PROVE Inv'
  BY <1>3, CheckoutKeeps, SetupKeeps, RemoveOldKeeps, CopyAddonKeeps, CopyLibsKeeps,
     TryKeeps, PushKeeps, FailsKeeps DEF JobStep
<1>4. CASE UNCHANGED vars
  BY <1>4 DEF vars, Inv, TypeInv, JobsInv, MainInv, CoverInv, PublishedWorks, Covered, Made, Behind, Works
<1> QED BY <1>1, <1>2, <1>3, <1>4 DEF Next, Rest

LEMMA Invariant == Spec => []Inv
  BY InvInit, InvStep, PTL DEF Spec

-----------------------------------------------------------------------------
(* What the workflow publishes for a platform its runner can try works,    *)
(* whatever fails, and however runs and pushes overlap.                    *)
THEOREM Published == Spec => []PublishedWorks
<1>1. Inv => PublishedWorks
  BY DEF Inv, MainInv
<1> QED BY <1>1, Invariant, PTL

(* All runs over and no job red: every prebuild is of main's sources.      *)
THEOREM GreenCurrent == Spec => []GreenIsCurrent
<1>1. ASSUME Inv PROVE GreenIsCurrent
  <2> SUFFICES ASSUME Quiet, runs > 0, \A r \in Run : red[r] = {}, NEW a \in Artifact
               PROVE  main.built[a].src = main.src
    BY DEF GreenIsCurrent
  <2>1. PICK r \in 1..runs : Covered(r, a)
    BY <1>1 DEF Inv, CoverInv
  <2>2. r \in Run
    BY <1>1, <2>1, PrebuildsAssumption DEF Inv, TypeInv, Branch, Run, Version
  <2> QED BY <2>1, <2>2 DEF Covered, Quiet
<1> QED BY <1>1, Invariant, PTL

(* main's sources, and those of every prebuild on it, only move forward.   *)
THEOREM Forward == Spec => NeverBack
<1> DEFINE Ahead == /\ main'.src >= main.src
                    /\ \A a \in Artifact : main'.built[a].src >= main.built[a].src
<1>1. ASSUME Inv, [Next]_vars PROVE [Ahead]_vars
  <2> SUFFICES Ahead \/ UNCHANGED vars
    OBVIOUS
  <2>1. main.src \in Nat /\ \A a \in Artifact : main.built[a].src \in Nat
    <3>1. main.src \in Nat /\ main.built \in [Artifact -> Dir]
      BY <1>1 DEF Inv, TypeInv, Branch, Version
    <3> QED BY <3>1, DirType, PrebuildsAssumption
  <2>2. CASE UNCHANGED main
    BY <2>1, <2>2
  <2>3. CASE PushSources
    <3>1. main'.src = main.src + 1 /\ main'.built = main.built
      BY <1>1, <2>3 DEF PushSources, Inv, TypeInv, Branch
    <3> QED BY <2>1, <3>1
  <2>4. ASSUME NEW r \in Run, Push(r) PROVE Ahead
    <3>1. \A a \in Artifact : main.built[a].src <= main.src
      BY <1>1 DEF Inv, MainInv
    <3>2. job[r].artifact \in Artifact
      BY <1>1, <2>4, AtStep DEF Push
    <3>3. /\ main'.src = main.src /\ main'.built[job[r].artifact].src = main.src
          /\ \A a \in Artifact \ {job[r].artifact} : main'.built[a] = main.built[a]
      BY <1>1, <2>4, PushEffect
    <3> QED BY <2>1, <3>1, <3>2, <3>3
  <2> QED BY <1>1, <2>2, <2>3, <2>4
          DEF Next, JobStep, Dispatch, Checkout, Setup, RemoveOld, CopyAddon, CopyLibs, Try, Fails, Rest, vars
<1> QED BY <1>1, Invariant, PTL DEF Spec, NeverBack
=============================================================================
