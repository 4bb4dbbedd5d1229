---------------------------- MODULE MCPrebuilds ----------------------------
EXTENDS Prebuilds

(* linux-arm64 is built on an x64 machine. *)
MCArtifact == {"linux-x64", "linux-arm64", "win32-x64"}
MCRunner == [a \in MCArtifact |-> IF a = "linux-arm64" THEN "linux-x64" ELSE a]
=============================================================================
