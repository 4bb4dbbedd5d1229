---------------------------- MODULE NativeSetup ----------------------------
(***************************************************************************)
(* scripts/setup.js: from nothing to a compiled addon, in steps that leave *)
(* their traces on the disk.  Any step may fail and the process may be     *)
(* killed between two of them or in the middle of one; then someone runs   *)
(* the setup again, perhaps asking for another libsrt or OpenSSL.          *)
(*                                                                         *)
(* npm, git, cmake and node-gyp are external: each does its work, or fails *)
(* and leaves the part of it that the actions named ...Cut say.  A git     *)
(* checkout is taken to be atomic.                                         *)
(***************************************************************************)
EXTENDS Patches

CONSTANTS
  Tag,        \* libsrt versions that SRT_VERSION may ask for
  Sidecar,    \* the OpenSSL tree under .deps, downloaded by the setup
  EnvRoot,    \* a tree OPENSSL_ROOT_DIR may point at
  System,     \* POSIX: the system's OpenSSL
  Nothing,
  MaxRepeats  \* bound: how often an earlier setup left the slim flags

ASSUME SetupAssumption ==
  /\ Roots = {Sidecar, EnvRoot} /\ Sidecar # EnvRoot
  /\ System \notin Roots /\ Nothing \notin Roots \cup {System}
  /\ MaxRepeats \in Nat
  /\ Tag \cap {"none", "partial"} = {}
  /\ Nothing \notin [tag : Tag, ssl : Roots \cup {System},
                   binding : {<<>>, BindingUpstream, BindingPatched}]
  /\ Nothing \notin [tag : Tag, ssl : Roots \cup {System}, whole : BOOLEAN]

VARIABLES
  win,        \* isWin
  pc,         \* the step of main() that is next
  want,       \* what this run was asked for: [tag, root]
  dep,        \* node_modules/@eyevinn/srt: "none", "torn" or "whole"
  binding,    \* its src/node-srt.cc; <<>> when missing or cut to nothing
  script,     \* its scripts/build-srt-sdk.js, likewise
  draft,      \* the text writeFileSync is about to put in a file
  sidecar,    \* .deps/openssl: "none", "torn" (with ssl.h) or "whole"
  source,     \* deps/srt: "none", "partial" (a clone cut off) or a tag
  build,      \* deps/build: Nothing, or [tag, ssl, whole]
  addon,      \* build/Release/node_srt.node: Nothing, or [tag, ssl, binding]
  dlls        \* the OpenSSL DLLs beside it: Nothing, or whose they are

files == <<dep, binding, script, sidecar, source, build, addon, dlls>>
vars  == <<win, pc, want, draft, files>>

Init ==
  /\ win \in BOOLEAN
  /\ pc = "idle" /\ want = Nothing /\ draft = <<>>
  /\ \/ dep = "none" /\ binding = <<>> /\ script = <<>>
     \/ dep = "whole" /\ binding = BindingUpstream
        /\ script \in {ScriptUpstream} \cup {s \in {ScriptRepeated(n) : n \in 2..MaxRepeats} : win}
  /\ sidecar = "none" /\ source = "none" /\ build = Nothing
  /\ addon = Nothing /\ dlls = Nothing

Start ==
  /\ pc \in {"idle", "failed", "done"}
  /\ want' \in [tag : Tag, root : IF win THEN Roots ELSE {System}]
  /\ pc' = "dep"
  /\ UNCHANGED <<win, draft, files>>

(* ensureDep: only package.json is looked for. *)
EnsureDep ==
  /\ pc = "dep" /\ pc' = "patchBinding"
  /\ IF dep = "none"
     THEN dep' = "whole" /\ binding' = BindingUpstream /\ script' = ScriptUpstream
     ELSE UNCHANGED <<dep, binding, script>>
  /\ UNCHANGED <<win, want, draft, sidecar, source, build, addon, dlls>>

(* writeFileSync empties the file and then writes it.  patchBindingCc       *)
(* writes even what it has not changed, unless the file is missing.        *)
PatchBinding ==
  /\ pc = "patchBinding"
  /\ IF dep = "torn"
     THEN pc' = "openssl" /\ UNCHANGED <<binding, draft>>
     ELSE pc' = "writeBinding" /\ draft' = PatchBindingCc(binding) /\ binding' = <<>>
  /\ UNCHANGED <<win, want, dep, script, sidecar, source, build, addon, dlls>>

WriteBinding ==
  /\ pc = "writeBinding" /\ pc' = "openssl"
  /\ binding' = draft /\ draft' = <<>>
  /\ UNCHANGED <<win, want, dep, script, sidecar, source, build, addon, dlls>>

(***************************************************************************)
(* detectOpenSSL and fetchOpenSSL.  A tree with an ssl.h is taken as it is *)
(* (opensslOk); want.root is the first candidate that has one.  So a root  *)
(* without it counts as not asked for, and a tree in one of the standard   *)
(* directories is to the setup what EnvRoot is.                            *)
(***************************************************************************)
FindOpenSSL ==
  /\ pc = "openssl" /\ (win /\ want.root = Sidecar => sidecar # "none")
  /\ pc' = "pin"
  /\ UNCHANGED <<win, want, draft, files>>

(* The download's hash is right and the zip is extracted. *)
FetchOpenSSL ==
  /\ pc = "openssl" /\ win /\ want.root = Sidecar /\ sidecar = "none"
  /\ pc' = "pin"
  /\ sidecar' = "whole"
  /\ UNCHANGED <<win, want, draft, dep, binding, script, source, build, addon, dlls>>

(* Mutants: the build directory is kept; a clone cut off is not mended. *)
PinSrtKeepsBuild ==
  /\ pc = "pin" /\ pc' = IF win THEN "patchScript" ELSE "build"
  /\ source' = IF source = "none" THEN source ELSE want.tag
  /\ UNCHANGED <<win, want, draft, dep, binding, script, sidecar, build, addon, dlls>>
PinSrtTagged ==
  /\ pc = "pin" /\ pc' = IF win THEN "patchScript" ELSE "build"
  /\ source' = IF source \in {"none", "partial"} THEN source ELSE want.tag
  /\ build' = Nothing
  /\ UNCHANGED <<win, want, draft, dep, binding, script, sidecar, addon, dlls>>

(* pinSrt: a repository at another tag, or at none, is fetched and checked *)
(* out; without a repository the build script clones one.                  *)
PinSrt ==
  /\ pc = "pin" /\ pc' = IF win THEN "patchScript" ELSE "build"
  /\ source' = IF source = "none" THEN source ELSE want.tag
  /\ build' = Nothing
  /\ UNCHANGED <<win, want, draft, dep, binding, script, sidecar, addon, dlls>>

(* patchBuildScript writes only what it has changed. *)
PatchScript ==
  /\ pc = "patchScript" /\ dep = "whole"
  /\ LET new == PatchBuildScript(script, want.root) IN
     IF new = script THEN pc' = "build" /\ UNCHANGED <<script, draft>>
     ELSE pc' = "writeScript" /\ draft' = new /\ script' = <<>>
  /\ UNCHANGED <<win, want, dep, binding, sidecar, source, build, addon, dlls>>

WriteScript ==
  /\ pc = "writeScript" /\ pc' = "build"
  /\ script' = draft /\ draft' = <<>>
  /\ UNCHANGED <<win, want, dep, binding, sidecar, source, build, addon, dlls>>

(* The OpenSSL that the build script names to cmake, Nothing without one. *)
ScriptRoot ==
  IF ~win THEN System
  ELSE IF \E r \in Roots : Includes(script, <<r>>)
       THEN CHOOSE r \in Roots : Includes(script, <<r>>) ELSE Nothing

CanBuild ==
  /\ script # <<>> /\ source # "partial"
  /\ ScriptRoot # Nothing /\ (ScriptRoot = Sidecar => sidecar = "whole")

(* node finds nothing to do in an emptied build script, and is content.    *)
RunEmptyScript ==
  /\ pc = "build" /\ dep = "whole" /\ script = <<>>
  /\ pc' = "gyp"
  /\ UNCHANGED <<win, want, draft, files>>

(* The build script: clone if there is no source, configure and make.  A   *)
(* build directory that is there keeps the configuration it has.           *)
BuildSrt ==
  /\ pc = "build" /\ CanBuild
  /\ pc' = "gyp"
  /\ source' = IF source = "none" THEN want.tag ELSE source
  /\ build' = IF build = Nothing THEN [tag |-> source', ssl |-> ScriptRoot, whole |-> TRUE]
              ELSE [build EXCEPT !.whole = TRUE]
  /\ UNCHANGED <<win, want, draft, dep, binding, script, sidecar, addon, dlls>>

(* An emptied binding compiles; only Windows' linker minds. *)
CanCompile == build # Nothing /\ build.whole /\ (win => binding # <<>>)

(* normalizePosixLibDir and node-gyp: compile the binding against the lib. *)
CompileAddon ==
  /\ pc = "gyp" /\ CanCompile
  /\ pc' = IF win THEN "dlls" ELSE "done"
  /\ addon' = [tag |-> build.tag, ssl |-> build.ssl, binding |-> binding]
  /\ UNCHANGED <<win, want, draft, dep, binding, script, sidecar, source, build, dlls>>

CanCopy == want.root = Sidecar => sidecar = "whole"

(* copyRuntimeDlls, from the tree this run was asked to use. *)
CopyRuntimeDlls ==
  /\ pc = "dlls" /\ CanCopy
  /\ pc' = "done"
  /\ dlls' = want.root
  /\ UNCHANGED <<win, want, draft, dep, binding, script, sidecar, source, build, addon>>

(* A command or a readdirSync fails on what it is given: exit code 1. *)
Fail ==
  /\ \/ pc = "patchScript" /\ dep # "whole"
     \/ pc = "build" /\ ~CanBuild /\ (dep = "whole" => script # <<>>)
     \/ pc = "gyp" /\ ~CanCompile
     \/ pc = "dlls" /\ ~CanCopy
  /\ pc' = "failed"
  /\ UNCHANGED <<win, want, draft, files>>

-----------------------------------------------------------------------------
(* Setbacks.  The run ends, and what it had done stays. *)

Running == pc \notin {"idle", "failed", "done"}

(* Killed, or a step failed that left nothing behind. *)
Stopped ==
  /\ Running /\ pc' = "idle"
  /\ draft' = <<>>
  /\ UNCHANGED <<win, want, files>>

InstallCut ==
  /\ pc = "dep" /\ dep = "none" /\ pc' = "idle"
  /\ dep' = "torn"
  /\ UNCHANGED <<win, want, draft, binding, script, sidecar, source, build, addon, dlls>>

ExtractCut ==
  /\ pc = "openssl" /\ win /\ want.root = Sidecar /\ sidecar = "none" /\ pc' = "idle"
  /\ sidecar' = "torn"
  /\ UNCHANGED <<win, want, draft, dep, binding, script, source, build, addon, dlls>>

CloneCut ==
  /\ pc = "build" /\ script # <<>> /\ source = "none" /\ pc' = "idle"
  /\ source' = "partial"
  /\ UNCHANGED <<win, want, draft, dep, binding, script, sidecar, build, addon, dlls>>

BuildCut ==
  /\ pc = "build" /\ CanBuild /\ source # "none" /\ build = Nothing /\ pc' = "idle"
  /\ build' = [tag |-> source, ssl |-> ScriptRoot, whole |-> FALSE]
  /\ UNCHANGED <<win, want, draft, dep, binding, script, sidecar, source, addon, dlls>>

(* node-gyp rebuild starts by removing what was there. *)
CompileCut ==
  /\ pc = "gyp" /\ addon # Nothing /\ pc' = "idle"
  /\ addon' = Nothing
  /\ UNCHANGED <<win, want, draft, dep, binding, script, sidecar, source, build, dlls>>

Setback == Stopped \/ InstallCut \/ ExtractCut \/ CloneCut \/ BuildCut \/ CompileCut

Step ==
  \/ EnsureDep \/ PatchBinding \/ WriteBinding \/ FindOpenSSL \/ FetchOpenSSL \/ PinSrt
  \/ PatchScript \/ WriteScript \/ RunEmptyScript \/ BuildSrt \/ CompileAddon \/ CopyRuntimeDlls \/ Fail

Next == Start \/ Step \/ Setback

Spec == Init /\ [][Next]_vars

PC == {"idle", "dep", "patchBinding", "writeBinding", "openssl", "pin", "patchScript",
       "writeScript", "build", "gyp", "dlls", "failed", "done"}

(* A run moves on until it is done or over, and then there is another. *)
FairSpec == Spec /\ WF_pc(Running /\ pc' \in PC) /\ WF_vars(pc # "done" /\ Start)

-----------------------------------------------------------------------------
(***************************************************************************)
(* "done: libsrt + addon ready" is true (setup.js:295, 360), whatever runs *)
(* for whatever versions were cut off before: the addon is linked with the *)
(* libsrt this run asked for and a whole one, compiled from the patched    *)
(* binding, and the DLLs beside it are this run's.  The one exception: off *)
(* Windows a binding that a setup killed while writing it left empty.      *)
(***************************************************************************)
DoneIsRight ==
  pc = "done" =>
    /\ addon # Nothing /\ addon.tag = want.tag
    /\ addon.binding = BindingPatched \/ (~win /\ addon.binding = <<>>)
    /\ build = [tag |-> want.tag, ssl |-> addon.ssl, whole |-> TRUE]
    /\ win => dlls = want.root

(***************************************************************************)
(* The patches are "idempotent, re-applied every setup run"                *)
(* (patches.js:4): however often the setup has run, and whatever earlier   *)
(* versions left, the build script that is run has each patch once; and    *)
(* off Windows it is upstream's.                                           *)
(***************************************************************************)
ScriptPatchedOnce ==
  pc \in {"build", "gyp", "dlls"} /\ script # <<>> =>
    IF win THEN \E r \in Roots : script = ScriptPatched(r) ELSE script = ScriptUpstream

(***************************************************************************)
(* What running the setup again does not mend, for it looks at one file of *)
(* many, or finds an emptied one and calls it changed upstream.            *)
(***************************************************************************)
PastMending ==
  \/ dep = "torn" \/ sidecar = "torn"
  \/ Running = FALSE /\ dep = "whole" /\ <<>> \in {binding, script}

(***************************************************************************)
(* A run fails by itself only on what is past mending: whatever else the   *)
(* runs before it left, for whatever versions and wherever they were cut   *)
(* off, the steps of main() find what they need (setup.js:161-194,         *)
(* 214-255, 271-361): a package, a tree, a source at the tag asked for.    *)
(***************************************************************************)
FailsOnlyPastMending == pc = "failed" => PastMending

(***************************************************************************)
(* Run again after a run that was cut off, the setup succeeds in the end,  *)
(* if it is not cut off again for ever: what it finds of earlier runs (a   *)
(* clone cut off, a half-made build, a patched file, another version's     *)
(* cmake cache) does not stop it; but for PastMending.                     *)
(***************************************************************************)
RerunRecovers == []<><<Setback>>_vars \/ []<>(pc = "done" \/ PastMending)

(***************************************************************************)
(* "OPENSSL_ROOT_DIR (skip download, use this tree)" (setup.js:13).        *)
(***************************************************************************)
OpenSSLAsAsked == pc = "done" => addon.ssl = want.root
=============================================================================
