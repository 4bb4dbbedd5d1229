------------------------------ MODULE Patches ------------------------------
(***************************************************************************)
(* The source patches of scripts/patches.js as functions on texts.  A text *)
(* is a sequence of tokens, one for each snippet a patch looks for or      *)
(* puts in; what lies between them is left out.                            *)
(***************************************************************************)
EXTENDS Naturals, Sequences, FiniteSets

CONSTANTS
  Generator,   \* vs.generator, the cmake generator of the Visual Studio found
  Roots        \* OpenSSL trees; as tokens, -DOPENSSL_ROOT_DIR= and the tree

(* The snippets of the build script.  That of the generator replaced may be *)
(* the one found.                                                          *)
Word == {"mkdir", "mkdirRecursive", "buildOpenSSL", "vcpkg", "skipVcpkg", "runCmake",
         "vs2019", "-A", "slim", "toolchain"}

ASSUME TextAssumption ==
  /\ Generator \notin Word \ {"vs2019"}
  /\ Roots \cap (Word \cup {Generator}) = {}

(* Where t occurs in s, and s with the n tokens at i replaced by new. *)
Places(s, t) == {i \in 1..Len(s) : i + Len(t) - 1 <= Len(s) /\ SubSeq(s, i, i + Len(t) - 1) = t}

Includes(s, t) == Places(s, t) # {}

FirstPlace(s, t) == CHOOSE i \in Places(s, t) : \A j \in Places(s, t) : i <= j

Splice(s, i, n, new) == SubSeq(s, 1, i - 1) \o new \o SubSeq(s, i + n, Len(s))

(* String.replace of a snippet: the first occurrence. *)
Replace(s, old, new) ==
  IF Includes(s, old) THEN Splice(s, FirstPlace(s, old), Len(old), new) ELSE s

(* Mutant: not tested whether the patch is there already. *)
PatchAgain(s, old, new) == Replace(s, old, new)

(* A patch that is there, or whose place is gone, changes nothing. *)
PatchOnce(s, old, new) == IF Includes(s, new) THEN s ELSE Replace(s, old, new)

-----------------------------------------------------------------------------
(* src/node-srt.cc of the binding: Read leaks its buffer on an error, and  *)
(* Accept closes the listener.                                             *)
BindingUpstream == <<"recvmsg", "throw", "acceptError", "close", "return">>
BindingPatched  == <<"recvmsg", "free", "throw", "acceptError", "return">>

PatchBindingCc(s) ==
  PatchOnce(PatchOnce(s, <<"recvmsg", "throw">>, <<"recvmsg", "free", "throw">>),
            <<"acceptError", "close", "return">>, <<"acceptError", "return">>)

(***************************************************************************)
(* scripts/build-srt-sdk.js of the binding.  Earlier versions of the setup *)
(* left the slim flags several times over.                                 *)
(***************************************************************************)
ScriptUpstream ==
  <<"mkdir", "buildOpenSSL", "vcpkg", "runCmake", "vs2019", "-A", "toolchain">>

ScriptRepeated(n) ==
  <<"mkdirRecursive", "skipVcpkg", "runCmake", Generator, "-A">>
    \o [i \in 1..n |-> "slim"] \o <<"toolchain">>

ScriptPatched(root) ==
  <<"mkdirRecursive", "skipVcpkg", "runCmake", Generator, "-A", "slim", root>>

(* Repeats of the slim flags, side by side, become one: the tokens that do  *)
(* not repeat the one before them, in their order.                         *)
Kept(s) == {i \in 1..Len(s) : ~(s[i] = "slim" /\ i > 1 /\ s[i - 1] = "slim")}

Rank(S, i) == Cardinality({j \in S : j <= i})

CollapseSlim(s) ==
  [k \in 1..Cardinality(Kept(s)) |-> s[CHOOSE i \in Kept(s) : Rank(Kept(s), i) = k]]

UseGenerator(s) == [i \in DOMAIN s |-> IF s[i] = "vs2019" THEN Generator ELSE s[i]]

CutVcpkg(s) ==
  IF Includes(s, <<"buildOpenSSL">>) /\ Includes(s, <<"runCmake">>)
     /\ FirstPlace(s, <<"buildOpenSSL">>) < FirstPlace(s, <<"runCmake">>)
  THEN LET start == FirstPlace(s, <<"buildOpenSSL">>)
       IN  Splice(s, start, FirstPlace(s, <<"runCmake">>) - start, <<"skipVcpkg">>)
  ELSE s

(* Only the first tree is ever put in: the flag's presence ends the matter. *)
PointAtOpenSSL(s, root) ==
  IF \E r \in Roots : Includes(s, <<r>>) THEN s ELSE Replace(s, <<"toolchain">>, <<root>>)

(* patchBuildScript on Windows; elsewhere the setup does not call it. *)
PatchBuildScript(s, root) ==
  LET dir  == Replace(UseGenerator(s), <<"mkdir">>, <<"mkdirRecursive">>)
      slim == PatchOnce(CollapseSlim(dir), <<"-A">>, <<"-A", "slim">>)
  IN  PointAtOpenSSL(CutVcpkg(slim), root)
=============================================================================
