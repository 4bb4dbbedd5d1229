---------------------------- MODULE ScriptProofs ----------------------------
(***************************************************************************)
(* Two more results on the native setup: the build script that is run has  *)
(* each patch once, whatever earlier setups left in it; and a run fails    *)
(* only on what no run could mend.                                         *)
(***************************************************************************)
EXTENDS SetupProofs, FiniteSetTheorems

Token == Word \cup {Generator} \cup Roots

-----------------------------------------------------------------------------
(* The helpers of the patches on a text, as what they return token by token *)

LEMMA PlacesOfOne ==
  ASSUME NEW s \in Seq(Token), NEW x \in Token
  PROVE  \A i : i \in Places(s, <<x>>) <=> i \in 1..Len(s) /\ s[i] = x
<1> DEFINE t == <<x>>
<1>1. t \in Seq(Token) /\ Len(t) = 1 /\ t[1] = x /\ Len(s) \in Nat
  OBVIOUS
<1> HIDE DEF t
<1>2. ASSUME NEW i \in 1..Len(s)
      PROVE  SubSeq(s, i, i + Len(t) - 1) = t <=> s[i] = x
  <2>1. SubSeq(s, i, i + Len(t) - 1) = t <=> \A k \in 1..Len(t) : s[i + k - 1] = t[k]
    BY <1>1, Agreement
  <2>2. i + 1 - 1 = i /\ ((\A k \in 1..1 : s[i + k - 1] = t[k]) <=> s[i + 1 - 1] = t[1])
    OBVIOUS
  <2> QED BY <1>1, <2>1, <2>2
<1>3. Places(s, t) = {i \in 1..Len(s) : i + 1 - 1 <= Len(s) /\ SubSeq(s, i, i + Len(t) - 1) = t}
  BY <1>1 DEF Places
<1>4. Places(s, t) = {i \in 1..Len(s) : s[i] = x}
  BY <1>1, <1>2, <1>3
<1> QED BY <1>4 DEF t

(* A token that is there once is replaced; one that is not, not. *)
LEMMA ReplaceToken ==
  ASSUME NEW s \in Seq(Token), NEW x \in Token, NEW new \in Seq(Token), NEW i \in 1..Len(s),
         NEW q \in Seq(Token),
         s[i] = x, \A j \in 1..Len(s) : s[j] = x => j = i, IsSplice(s, i, 1, new, q)
  PROVE  Replace(s, <<x>>, new) = q
<1>1. Places(s, <<x>>) = {i}
  BY PlacesOfOne
<1>2. FirstPlace(s, <<x>>) = i /\ Includes(s, <<x>>)
  <2> DEFINE P == Places(s, <<x>>)
  <2>1. P = {i} /\ i \in Nat
    BY <1>1
  <2> HIDE DEF P
  <2>2. P # {} /\ (CHOOSE j \in P : \A k \in P : j <= k) = i
    BY <2>1
  <2> QED BY <2>2 DEF P, FirstPlace, Includes
<1>3. Splice(s, i, 1, new) = q
  BY SpliceIs
<1>4. Len(<<x>>) = 1
  OBVIOUS
<1> QED BY <1>2, <1>3, <1>4 DEF Replace

LEMMA ReplaceNothing ==
  ASSUME NEW s \in Seq(Token), NEW x \in Token, NEW new, \A j \in 1..Len(s) : s[j] # x
  PROVE  Replace(s, <<x>>, new) = s
  BY PlacesOfOne DEF Replace, Includes

LEMMA UseGeneratorIs ==
  ASSUME NEW s \in Seq(Token), NEW q \in Seq(Token), Len(q) = Len(s),
         \A k \in 1..Len(s) : q[k] = IF s[k] = "vs2019" THEN Generator ELSE s[k]
  PROVE  UseGenerator(s) = q
<1>1. q = [k \in 1..Len(q) |-> q[k]] /\ DOMAIN s = 1..Len(s)
  OBVIOUS
<1>2. UseGenerator(s) = [k \in 1..Len(s) |-> IF s[k] = "vs2019" THEN Generator ELSE s[k]]
  BY <1>1 DEF UseGenerator
<1> QED BY <1>1, <1>2

LEMMA CardOfFirst ==
  ASSUME NEW n \in Nat
  PROVE  IsFiniteSet(1..n) /\ Cardinality(1..n) = n
<1>1. 1 \in Int /\ n \in Int
  OBVIOUS
<1>2. IsFiniteSet(1..n) /\ Cardinality(1..n) = IF 1 > n THEN 0 ELSE n - 1 + 1
  BY <1>1, FS_Interval
<1>3. (IF 1 > n THEN 0 ELSE n - 1 + 1) = n
  OBVIOUS
<1> QED BY <1>2, <1>3

(* Kept are the first m tokens and, further on, the one at l. *)
LEMMA CollapseIs ==
  ASSUME NEW s \in Seq(Token), NEW m \in Nat, NEW l \in 1..Len(s), m < l,
         Kept(s) = 1..m \cup {l},
         NEW q \in Seq(Token), Len(q) = m + 1, q[m + 1] = s[l], \A k \in 1..m : q[k] = s[k]
  PROVE  CollapseSlim(s) = q
<1> DEFINE K == Kept(s)
<1>1. IsFiniteSet(1..m) /\ Cardinality(1..m) = m
  BY CardOfFirst
<1>2. l \notin 1..m
  OBVIOUS
<1>3. Cardinality(K) = m + 1
  <2>1. Cardinality(1..m \cup {l}) = m + 1
    BY <1>1, <1>2, FS_AddElement
  <2> QED BY <2>1
<1>4. ASSUME NEW i \in 1..m PROVE Rank(K, i) = i
  <2>1. {j \in K : j <= i} = 1..i
    OBVIOUS
  <2>2. i \in Nat
    OBVIOUS
  <2> QED BY <2>1, <2>2, CardOfFirst DEF Rank
<1>5. Rank(K, l) = m + 1
  <2>1. {j \in K : j <= l} = K
    OBVIOUS
  <2> QED BY <1>3, <2>1 DEF Rank
<1> HIDE DEF K
<1>6. \A i \in K : i \in 1..m \/ i = l
  BY DEF K
<1>7. ASSUME NEW k \in 1..m PROVE s[CHOOSE i \in K : Rank(K, i) = k] = q[k]
  <2>1. k \in K /\ Rank(K, k) = k
    BY <1>4 DEF K
  <2>2. \A i \in K : Rank(K, i) = k => i = k
    BY <1>4, <1>5, <1>6
  <2> QED BY <2>1, <2>2
<1>8. s[CHOOSE i \in K : Rank(K, i) = m + 1] = q[m + 1]
  <2>1. l \in K /\ Rank(K, l) = m + 1
    BY <1>5 DEF K
  <2>2. \A i \in K : Rank(K, i) = m + 1 => i = l
    BY <1>4, <1>5, <1>6
  <2> QED BY <2>1, <2>2
<1>9. \A k \in 1..(m + 1) : s[CHOOSE i \in K : Rank(K, i) = k] = q[k]
  <2> TAKE k \in 1..(m + 1)
  <2>1. k \in 1..m \/ k = m + 1
    OBVIOUS
  <2> QED BY <1>7, <1>8, <2>1
<1>10. q = [k \in 1..(m + 1) |-> q[k]]
  OBVIOUS
<1> QED BY <1>3, <1>9, <1>10 DEF CollapseSlim, K

(* A text that repeats no slim flags stays. *)
LEMMA NothingToCollapse ==
  ASSUME NEW s \in Seq(Token), s # <<>>,
         \A i \in 1..Len(s) : i > 1 => ~(s[i] = "slim" /\ s[i - 1] = "slim")
  PROVE  CollapseSlim(s) = s
<1>1. Len(s) \in Nat /\ Len(s) # 0
  BY EmptySeq, LenProperties
<1>2. Kept(s) = 1..(Len(s) - 1) \cup {Len(s)}
  BY <1>1 DEF Kept
<1>3. Len(s) - 1 \in Nat /\ Len(s) \in 1..Len(s) /\ Len(s) - 1 < Len(s) /\ Len(s) - 1 + 1 = Len(s)
  BY <1>1
<1> QED BY <1>2, <1>3, CollapseIs

-----------------------------------------------------------------------------
(* The build script's texts, patch by patch *)

(* The texts between the patches. *)
Generated == <<"mkdir", "buildOpenSSL", "vcpkg", "runCmake", Generator, "-A", "toolchain">>
Recursive ==
  <<"mkdirRecursive", "buildOpenSSL", "vcpkg", "runCmake", Generator, "-A", "toolchain">>
Slimmed ==
  <<"mkdirRecursive", "buildOpenSSL", "vcpkg", "runCmake", Generator, "-A", "slim", "toolchain">>
Cut == <<"mkdirRecursive", "skipVcpkg", "runCmake", Generator, "-A", "slim", "toolchain">>

IsText(s, n) == s \in Seq(Token) /\ Len(s) = n

LEMMA Texts ==
  /\ IsText(ScriptUpstream, 7) /\ IsText(Generated, 7) /\ IsText(Recursive, 7)
  /\ IsText(Slimmed, 8) /\ IsText(Cut, 7)
<1>1. Word \subseteq Token /\ Generator \in Token
  BY DEF Token
<1>2. /\ "mkdir" \in Token /\ "mkdirRecursive" \in Token /\ "buildOpenSSL" \in Token
      /\ "vcpkg" \in Token /\ "skipVcpkg" \in Token /\ "runCmake" \in Token
      /\ "vs2019" \in Token /\ "-A" \in Token /\ "slim" \in Token /\ "toolchain" \in Token
  BY <1>1 DEF Word
<1> QED BY <1>1, <1>2 DEF IsText, ScriptUpstream, Generated, Recursive, Slimmed, Cut

(* The generator is none of the other words, except the one it replaces. *)
LEMMA GeneratorApart ==
  Generator \notin {"mkdir", "mkdirRecursive", "buildOpenSSL", "vcpkg", "skipVcpkg",
                    "runCmake", "-A", "slim", "toolchain"}
  BY TextAssumption DEF Word

LEMMA RootsApart ==
  ASSUME NEW r \in Roots
  PROVE  r \in Token /\ r \notin Word /\ r # Generator
  BY TextAssumption DEF Token

LEMMA AlreadyThere ==
  ASSUME NEW s \in Seq(Token), NEW i \in 1..Len(s), i + 1 <= Len(s),
         s[i] = "-A", s[i + 1] = "slim"
  PROVE  PatchOnce(s, <<"-A">>, <<"-A", "slim">>) = s
<1>1. "-A" \in Token /\ "slim" \in Token
  BY DEF Token, Word
<1>2. i \in Places(s, <<"-A", "slim">>)
  BY <1>1, PlacesOfTwo
<1> QED BY <1>2 DEF PatchOnce, Includes

LEMMA NoVcpkg ==
  ASSUME NEW s \in Seq(Token), \A j \in 1..Len(s) : s[j] # "buildOpenSSL"
  PROVE  CutVcpkg(s) = s
<1>1. "buildOpenSSL" \in Token
  BY DEF Token, Word
<1> QED BY <1>1, PlacesOfOne DEF CutVcpkg, Includes

LEMMA Pointed ==
  ASSUME NEW root \in Roots PROVE PointAtOpenSSL(Cut, root) = ScriptPatched(root)
<1> DEFINE q == ScriptPatched(root)
<1>1. /\ Cut \in Seq(Token) /\ Len(Cut) = 7
      /\ Cut[1] = "mkdirRecursive" /\ Cut[2] = "skipVcpkg" /\ Cut[3] = "runCmake"
      /\ Cut[4] = Generator /\ Cut[5] = "-A" /\ Cut[6] = "slim" /\ Cut[7] = "toolchain"
  BY Texts DEF IsText, Cut
<1>2. /\ q \in Seq(Token) /\ Len(q) = 7
      /\ q[1] = "mkdirRecursive" /\ q[2] = "skipVcpkg" /\ q[3] = "runCmake"
      /\ q[4] = Generator /\ q[5] = "-A" /\ q[6] = "slim" /\ q[7] = root
  <2>1. /\ root \in Token /\ Generator \in Token /\ "mkdirRecursive" \in Token
        /\ "skipVcpkg" \in Token /\ "runCmake" \in Token /\ "-A" \in Token /\ "slim" \in Token
    BY RootsApart DEF Token, Word
  <2> QED BY <2>1 DEF ScriptPatched
<1>3. <<root>> \in Seq(Token) /\ Len(<<root>>) = 1 /\ <<root>>[1] = root
  BY RootsApart
<1>4. "toolchain" \in Token
  BY DEF Token, Word
<1> HIDE DEF q
<1>5. ASSUME NEW r \in Roots PROVE ~Includes(Cut, <<r>>)
  <2>1. \A j \in 1..7 : Cut[j] # r
    BY <1>1, RootsApart DEF Word
  <2> QED BY <1>1, <2>1, RootsApart, PlacesOfOne DEF Includes
<1>6. Replace(Cut, <<"toolchain">>, <<root>>) = q
  <2>1. \A j \in 1..Len(Cut) : Cut[j] = "toolchain" => j = 7
    BY <1>1, GeneratorApart
  <2>2. IsSplice(Cut, 7, 1, <<root>>, q)
    BY <1>1, <1>2, <1>3 DEF IsSplice
  <2>3. Cut \in Seq(Token) /\ q \in Seq(Token) /\ <<root>> \in Seq(Token)
        /\ "toolchain" \in Token /\ 7 \in 1..Len(Cut) /\ Cut[7] = "toolchain"
    BY <1>1, <1>2, <1>3, <1>4
  <2> QED BY ONLY <2>1, <2>2, <2>3, ReplaceToken
<1> QED BY <1>5, <1>6 DEF PointAtOpenSSL, q

LEMMA PatchUpstream ==
  ASSUME NEW root \in Roots PROVE PatchBuildScript(ScriptUpstream, root) = ScriptPatched(root)
<1>1. /\ ScriptUpstream \in Seq(Token) /\ Len(ScriptUpstream) = 7
      /\ ScriptUpstream[1] = "mkdir" /\ ScriptUpstream[2] = "buildOpenSSL"
      /\ ScriptUpstream[3] = "vcpkg" /\ ScriptUpstream[4] = "runCmake"
      /\ ScriptUpstream[5] = "vs2019" /\ ScriptUpstream[6] = "-A"
      /\ ScriptUpstream[7] = "toolchain"
  BY Texts DEF IsText, ScriptUpstream
<1>2. /\ Generated \in Seq(Token) /\ Len(Generated) = 7
      /\ Generated[1] = "mkdir" /\ Generated[2] = "buildOpenSSL"
      /\ Generated[3] = "vcpkg" /\ Generated[4] = "runCmake"
      /\ Generated[5] = Generator /\ Generated[6] = "-A" /\ Generated[7] = "toolchain"
  BY Texts DEF IsText, Generated
<1>3. /\ Recursive \in Seq(Token) /\ Len(Recursive) = 7
      /\ Recursive[1] = "mkdirRecursive" /\ Recursive[2] = "buildOpenSSL"
      /\ Recursive[3] = "vcpkg" /\ Recursive[4] = "runCmake"
      /\ Recursive[5] = Generator /\ Recursive[6] = "-A" /\ Recursive[7] = "toolchain"
  BY Texts DEF IsText, Recursive
<1>4. /\ Slimmed \in Seq(Token) /\ Len(Slimmed) = 8
      /\ Slimmed[1] = "mkdirRecursive" /\ Slimmed[2] = "buildOpenSSL"
      /\ Slimmed[3] = "vcpkg" /\ Slimmed[4] = "runCmake" /\ Slimmed[5] = Generator
      /\ Slimmed[6] = "-A" /\ Slimmed[7] = "slim" /\ Slimmed[8] = "toolchain"
  BY Texts DEF IsText, Slimmed
<1>5. /\ Cut \in Seq(Token) /\ Len(Cut) = 7
      /\ Cut[1] = "mkdirRecursive" /\ Cut[2] = "skipVcpkg" /\ Cut[3] = "runCmake"
      /\ Cut[4] = Generator /\ Cut[5] = "-A" /\ Cut[6] = "slim" /\ Cut[7] = "toolchain"
  BY Texts DEF IsText, Cut
<1>6. /\ "mkdir" \in Token /\ "-A" \in Token /\ "slim" \in Token
      /\ "buildOpenSSL" \in Token /\ "runCmake" \in Token
      /\ "mkdirRecursive" \in Token /\ "skipVcpkg" \in Token
  BY DEF Token, Word
<1>7. UseGenerator(ScriptUpstream) = Generated
  <2>1. \A k \in 1..7 : Generated[k] = IF ScriptUpstream[k] = "vs2019" THEN Generator
                                       ELSE ScriptUpstream[k]
    BY <1>1, <1>2
  <2> QED BY <1>1, <1>2, <2>1, UseGeneratorIs
<1>8. Replace(Generated, <<"mkdir">>, <<"mkdirRecursive">>) = Recursive
  <2> DEFINE new == <<"mkdirRecursive">>
  <2>1. \A j \in 1..Len(Generated) : Generated[j] = "mkdir" => j = 1
    BY <1>2, GeneratorApart
  <2>2. new \in Seq(Token) /\ Len(new) = 1 /\ new[1] = "mkdirRecursive"
    BY <1>6
  <2> HIDE DEF new
  <2>3. IsSplice(Generated, 1, 1, new, Recursive)
    BY <1>2, <1>3, <2>2 DEF IsSplice
  <2>4. Generated \in Seq(Token) /\ Recursive \in Seq(Token) /\ "mkdir" \in Token
        /\ 1 \in 1..Len(Generated) /\ Generated[1] = "mkdir"
    BY <1>2, <1>3, <1>6
  <2>5. Replace(Generated, <<"mkdir">>, new) = Recursive
    BY <2>1, <2>2, <2>3, <2>4, ReplaceToken
  <2> QED BY <2>5 DEF new
<1>9. CollapseSlim(Recursive) = Recursive
  <2>1. \A j \in 1..Len(Recursive) : Recursive[j] # "slim"
    BY <1>3, GeneratorApart
  <2>2. Recursive # <<>>
    BY <1>3
  <2> QED BY <1>3, <2>1, <2>2, NothingToCollapse
<1>10. PatchOnce(Recursive, <<"-A">>, <<"-A", "slim">>) = Slimmed
  <2>1. \A j \in 1..Len(Recursive) : Recursive[j] # "slim"
    BY <1>3, GeneratorApart
  <2>2. ~Includes(Recursive, <<"-A", "slim">>)
    BY <1>3, <1>6, <2>1, PlacesOfTwo DEF Includes
  <2>3. \A j \in 1..Len(Recursive) : Recursive[j] = "-A" => j = 6
    BY <1>3, GeneratorApart
  <2>4. /\ <<"-A", "slim">> \in Seq(Token) /\ Len(<<"-A", "slim">>) = 2
        /\ <<"-A", "slim">>[1] = "-A" /\ <<"-A", "slim">>[2] = "slim"
    BY <1>6
  <2>5. IsSplice(Recursive, 6, 1, <<"-A", "slim">>, Slimmed)
    BY <1>3, <1>4, <2>4 DEF IsSplice
  <2>6. Replace(Recursive, <<"-A">>, <<"-A", "slim">>) = Slimmed
    <3>1. Recursive \in Seq(Token) /\ Slimmed \in Seq(Token) /\ <<"-A", "slim">> \in Seq(Token)
          /\ "-A" \in Token /\ 6 \in 1..Len(Recursive) /\ Recursive[6] = "-A"
      BY <1>3, <1>4, <1>6, <2>4
    <3> QED BY ONLY <2>3, <2>5, <3>1, ReplaceToken
  <2> QED BY <2>2, <2>6 DEF PatchOnce
<1>11. CutVcpkg(Slimmed) = Cut
  <2>1. /\ \A i : i \in Places(Slimmed, <<"buildOpenSSL">>) <=> i = 2
        /\ \A i : i \in Places(Slimmed, <<"runCmake">>) <=> i = 4
    <3>1. /\ \A j \in 1..8 : Slimmed[j] = "buildOpenSSL" <=> j = 2
          /\ \A j \in 1..8 : Slimmed[j] = "runCmake" <=> j = 4
      BY <1>4, GeneratorApart
    <3>2. /\ \A i : i \in Places(Slimmed, <<"buildOpenSSL">>)
                      <=> i \in 1..Len(Slimmed) /\ Slimmed[i] = "buildOpenSSL"
          /\ \A i : i \in Places(Slimmed, <<"runCmake">>)
                      <=> i \in 1..Len(Slimmed) /\ Slimmed[i] = "runCmake"
      <4>1. Slimmed \in Seq(Token) /\ "buildOpenSSL" \in Token /\ "runCmake" \in Token
        BY <1>4, <1>6
      <4> QED BY ONLY <4>1, PlacesOfOne
    <3>3. Len(Slimmed) = 8
      BY <1>4
    <3> QED BY ONLY <3>1, <3>2, <3>3
  <2>2. /\ FirstPlace(Slimmed, <<"buildOpenSSL">>) = 2 /\ Includes(Slimmed, <<"buildOpenSSL">>)
        /\ FirstPlace(Slimmed, <<"runCmake">>) = 4 /\ Includes(Slimmed, <<"runCmake">>)
    BY <2>1 DEF FirstPlace, Includes
  <2>3. <<"skipVcpkg">> \in Seq(Token) /\ Len(<<"skipVcpkg">>) = 1
        /\ <<"skipVcpkg">>[1] = "skipVcpkg"
    BY <1>6
  <2>4. IsSplice(Slimmed, 2, 2, <<"skipVcpkg">>, Cut)
    BY <1>4, <1>5, <2>3 DEF IsSplice
  <2>5. Splice(Slimmed, 2, 2, <<"skipVcpkg">>) = Cut
    <3>1. Slimmed \in Seq(Token) /\ Cut \in Seq(Token) /\ <<"skipVcpkg">> \in Seq(Token)
          /\ 2 \in 1..Len(Slimmed) /\ 2 \in Nat
      BY <1>4, <1>5, <2>3
    <3> QED BY ONLY <2>4, <3>1, SpliceIs
  <2> QED BY <2>2, <2>5 DEF CutVcpkg
<1> QED BY <1>7, <1>8, <1>9, <1>10, <1>11, Pointed DEF PatchBuildScript

(* The build script as earlier setups left it, with the slim flags n times. *)
LEMMA RepeatedIs ==
  ASSUME NEW n \in Nat, n >= 2, NEW s, s = ScriptRepeated(n)
  PROVE  /\ s \in Seq(Token) /\ Len(s) = n + 6
         /\ s[1] = "mkdirRecursive" /\ s[2] = "skipVcpkg" /\ s[3] = "runCmake"
         /\ s[4] = Generator /\ s[5] = "-A"
         /\ \A k \in 6..(n + 5) : s[k] = "slim"
         /\ s[n + 6] = "toolchain"
<1> DEFINE a == <<"mkdirRecursive", "skipVcpkg", "runCmake", Generator, "-A">>
           b == [i \in 1..n |-> "slim"]
           c == <<"toolchain">>
<1>1. /\ "mkdirRecursive" \in Token /\ "skipVcpkg" \in Token /\ "runCmake" \in Token
      /\ Generator \in Token /\ "-A" \in Token /\ "slim" \in Token /\ "toolchain" \in Token
  BY DEF Token, Word
<1>2. /\ a \in Seq(Token) /\ Len(a) = 5
      /\ a[1] = "mkdirRecursive" /\ a[2] = "skipVcpkg" /\ a[3] = "runCmake"
      /\ a[4] = Generator /\ a[5] = "-A"
  BY <1>1
<1>3. b \in Seq(Token) /\ Len(b) = n /\ \A k \in 1..n : b[k] = "slim"
  <2>1. b \in [1..n -> Token] /\ \A k \in 1..n : b[k] = "slim"
    BY <1>1
  <2> HIDE DEF b
  <2> QED BY <2>1
<1>4. c \in Seq(Token) /\ Len(c) = 1 /\ c[1] = "toolchain"
  BY <1>1
<1>5. s = a \o b \o c
  BY DEF ScriptRepeated
<1> HIDE DEF a, b, c
<1> DEFINE d == a \o b
<1>6. /\ d \in Seq(Token) /\ Len(d) = n + 5
      /\ \A k \in 1..(n + 5) : d[k] = IF k <= 5 THEN a[k] ELSE b[k - 5]
  <2>1. /\ d \in Seq(Token) /\ Len(d) = Len(a) + Len(b)
        /\ \A k \in 1..(Len(a) + Len(b)) : d[k] = IF k <= Len(a) THEN a[k] ELSE b[k - Len(a)]
    <3>1. a \in Seq(Token) /\ b \in Seq(Token)
      BY <1>2, <1>3
    <3> QED BY ONLY <3>1, ConcatProperties
  <2> HIDE DEF d
  <2>2. Len(a) + Len(b) = n + 5 /\ Len(a) = 5
    BY <1>2, <1>3
  <2> QED BY <2>1, <2>2
<1>7. s = d \o c
  BY <1>5
<1> HIDE DEF d
<1>8. /\ s \in Seq(Token) /\ Len(s) = n + 6
      /\ \A k \in 1..(n + 6) : s[k] = IF k <= n + 5 THEN d[k] ELSE c[k - (n + 5)]
  <2>1. /\ d \o c \in Seq(Token) /\ Len(d \o c) = Len(d) + Len(c)
        /\ \A k \in 1..(Len(d) + Len(c)) :
             (d \o c)[k] = IF k <= Len(d) THEN d[k] ELSE c[k - Len(d)]
    BY <1>4, <1>6, ConcatProperties
  <2>2. Len(d) + Len(c) = n + 6 /\ Len(d) = n + 5
    BY <1>4, <1>6
  <2> QED BY <1>7, <2>1, <2>2
<1>9. \A k \in 6..(n + 5) : s[k] = "slim"
  BY <1>3, <1>6, <1>8
<1> QED BY <1>2, <1>4, <1>6, <1>8, <1>9

LEMMA PatchRepeated ==
  ASSUME NEW n \in Nat, n >= 2, NEW root \in Roots
  PROVE  PatchBuildScript(ScriptRepeated(n), root) = ScriptPatched(root)
<1> DEFINE s == ScriptRepeated(n)
<1>1. /\ s \in Seq(Token) /\ Len(s) = n + 6
      /\ s[1] = "mkdirRecursive" /\ s[2] = "skipVcpkg" /\ s[3] = "runCmake"
      /\ s[4] = Generator /\ s[5] = "-A"
      /\ \A k \in 6..(n + 5) : s[k] = "slim"
      /\ s[n + 6] = "toolchain"
  BY RepeatedIs
<1>2. /\ Cut \in Seq(Token) /\ Len(Cut) = 7
      /\ Cut[1] = "mkdirRecursive" /\ Cut[2] = "skipVcpkg" /\ Cut[3] = "runCmake"
      /\ Cut[4] = Generator /\ Cut[5] = "-A" /\ Cut[6] = "slim" /\ Cut[7] = "toolchain"
  BY Texts DEF IsText, Cut
<1> HIDE DEF s
<1>3. \A k \in 1..Len(s) : (s[k] # "vs2019" /\ s[k] # "mkdir") \/ s[k] = Generator
  <2> TAKE k \in 1..Len(s)
  <2>1. k = 1 \/ k = 2 \/ k = 3 \/ k = 4 \/ k = 5 \/ k \in 6..(n + 5) \/ k = n + 6
    BY <1>1
  <2> QED BY <1>1, <2>1
<1>4. UseGenerator(s) = s
  BY <1>1, <1>3, UseGeneratorIs
<1>5. Replace(s, <<"mkdir">>, <<"mkdirRecursive">>) = s
  <2>1. "mkdir" \in Token
    BY DEF Token, Word
  <2> QED BY <1>1, <1>3, <2>1, GeneratorApart, ReplaceNothing
<1>6. CollapseSlim(s) = Cut
  <2>1. Kept(s) = 1..6 \cup {n + 6}
    <3>1. ASSUME NEW k \in 1..Len(s)
          PROVE  (s[k] = "slim" /\ k > 1 /\ s[k - 1] = "slim") <=> k \in 7..(n + 5)
      <4>1. k = 1 \/ k = 2 \/ k = 3 \/ k = 4 \/ k = 5 \/ k = 6 \/ k \in 7..(n + 5) \/ k = n + 6
        BY <1>1
      <4> QED BY <1>1, <4>1, GeneratorApart
    <3> QED BY <1>1, <3>1 DEF Kept
  <2>2. \A k \in 1..6 : Cut[k] = s[k]
    BY <1>1, <1>2
  <2>3. 6 \in Nat /\ n + 6 \in 1..Len(s) /\ 6 < n + 6 /\ Len(Cut) = 6 + 1 /\ Cut[6 + 1] = s[n + 6]
    BY <1>1, <1>2
  <2> QED BY <1>1, <1>2, <2>1, <2>2, <2>3, CollapseIs
<1>7. PatchOnce(Cut, <<"-A">>, <<"-A", "slim">>) = Cut
  <2>1. 5 \in 1..Len(Cut) /\ 5 + 1 <= Len(Cut) /\ Cut[5] = "-A" /\ Cut[5 + 1] = "slim"
    BY <1>2
  <2> QED BY <1>2, <2>1, AlreadyThere
<1>8. CutVcpkg(Cut) = Cut
  <2>1. \A k \in 1..Len(Cut) : Cut[k] # "buildOpenSSL"
    BY <1>2, GeneratorApart
  <2> QED BY <1>2, <2>1, NoVcpkg
<1> QED BY <1>4, <1>5, <1>6, <1>7, <1>8, Pointed DEF PatchBuildScript, s

(* What is patched stays, whichever tree this run was asked to use. *)
LEMMA PatchPatched ==
  ASSUME NEW r \in Roots, NEW root
  PROVE  PatchBuildScript(ScriptPatched(r), root) = ScriptPatched(r)
<1> DEFINE s == ScriptPatched(r)
<1>1. /\ s \in Seq(Token) /\ Len(s) = 7
      /\ s[1] = "mkdirRecursive" /\ s[2] = "skipVcpkg" /\ s[3] = "runCmake"
      /\ s[4] = Generator /\ s[5] = "-A" /\ s[6] = "slim" /\ s[7] = r
  <2>1. /\ r \in Token /\ Generator \in Token /\ "mkdirRecursive" \in Token
        /\ "skipVcpkg" \in Token /\ "runCmake" \in Token /\ "-A" \in Token /\ "slim" \in Token
    BY RootsApart DEF Token, Word
  <2> QED BY <2>1 DEF ScriptPatched
<1>2. r # "slim" /\ r # "vs2019" /\ r # "mkdir" /\ r # "buildOpenSSL" /\ r \in Token
  BY RootsApart DEF Word
<1> HIDE DEF s
<1>3. UseGenerator(s) = s
  <2>1. \A k \in 1..Len(s) : s[k] = IF s[k] = "vs2019" THEN Generator ELSE s[k]
    BY <1>1, <1>2
  <2> QED BY <1>1, <2>1, UseGeneratorIs
<1>4. Replace(s, <<"mkdir">>, <<"mkdirRecursive">>) = s
  <2>1. "mkdir" \in Token /\ \A k \in 1..Len(s) : s[k] # "mkdir"
    BY <1>1, <1>2, GeneratorApart DEF Token, Word
  <2> QED BY <1>1, <2>1, ReplaceNothing
<1>5. CollapseSlim(s) = s
  <2>1. \A k \in 1..Len(s) : k > 1 => ~(s[k] = "slim" /\ s[k - 1] = "slim")
    BY <1>1, <1>2, GeneratorApart
  <2>2. s # <<>>
    BY <1>1
  <2> QED BY <1>1, <2>1, <2>2, NothingToCollapse
<1>6. PatchOnce(s, <<"-A">>, <<"-A", "slim">>) = s
  BY <1>1, AlreadyThere
<1>7. CutVcpkg(s) = s
  <2>1. \A k \in 1..Len(s) : s[k] # "buildOpenSSL"
    BY <1>1, <1>2, GeneratorApart
  <2> QED BY <1>1, <2>1, NoVcpkg
<1>8. Includes(s, <<r>>)
  BY <1>1, <1>2, PlacesOfOne DEF Includes
<1> QED BY <1>3, <1>4, <1>5, <1>6, <1>7, <1>8 DEF PatchBuildScript, PointAtOpenSSL, s

(* A script that was emptied stays so. *)
LEMMA PatchNothing ==
  ASSUME NEW root PROVE PatchBuildScript(<<>>, root) = <<>>
<1>1. \A t : ~Includes(<<>>, t)
  BY DEF Includes, Places
<1>2. UseGenerator(<<>>) = <<>>
  BY DEF UseGenerator
<1>3. CollapseSlim(<<>>) = <<>>
  <2>1. Kept(<<>>) = {}
    BY DEF Kept
  <2>2. Cardinality({}) = 0
    BY FS_EmptySet
  <2>3. [k \in 1..Cardinality({}) |->
           <<>>[CHOOSE i \in {} : Rank({}, i) = k]] = <<>>
    BY <2>2
  <2> QED BY <2>1, <2>3 DEF CollapseSlim
<1>4. \A t, u : Replace(<<>>, t, u) = <<>> /\ PatchOnce(<<>>, t, u) = <<>>
  BY <1>1 DEF Replace, PatchOnce
<1> QED BY <1>1, <1>2, <1>3, <1>4 DEF PatchBuildScript, CutVcpkg, PointAtOpenSSL

-----------------------------------------------------------------------------
(***************************************************************************)
(* The inductive invariant, beside SetupProofs' Inv.  The texts the build  *)
(* script can be: on Windows any earlier version's until it is patched,    *)
(* from then on a patched one or, after a kill, an empty one.  And what    *)
(* each step finds: a step fails on a missing tree or package only, and    *)
(* the steps before it have put both there.                                *)
(***************************************************************************)
RepeatedTexts == {ScriptRepeated(n) : n \in 2..MaxRepeats}
PatchedTexts == {ScriptPatched(r) : r \in Roots}

AnyText == IF win THEN {<<>>, ScriptUpstream} \cup RepeatedTexts \cup PatchedTexts
           ELSE {<<>>, ScriptUpstream}

(* After patchBuildScript. *)
Ready == IF win THEN {<<>>} \cup PatchedTexts ELSE {<<>>, ScriptUpstream}

Scripts ==
  /\ script \in AnyText
  /\ dep # "whole" => script = <<>>
  /\ pc = "writeScript" => dep = "whole" /\ draft \in PatchedTexts
  /\ pc \in {"build", "gyp", "dlls"} => script \in Ready

(* A script that names the downloaded tree is there only with the tree. *)
Trees ==
  /\ script = ScriptPatched(Sidecar) => sidecar # "none"
  /\ pc = "writeScript" /\ draft = ScriptPatched(Sidecar) => sidecar # "none"
  /\ pc \in {"pin", "patchScript", "writeScript", "build", "gyp", "dlls"} /\ want.root = Sidecar
       => sidecar # "none"

Wanted ==
  /\ Running => want.root \in IF win THEN Roots ELSE {System}
  /\ pc \in {"patchScript", "writeScript", "dlls"} => win

Given ==
  /\ dep \in {"none", "torn", "whole"} /\ sidecar \in {"none", "torn", "whole"}
  /\ Running /\ pc # "dep" => dep # "none"

SInv == Scripts /\ Trees /\ Wanted /\ Given /\ FailsOnlyPastMending

LEMMA PatchedTokens ==
  ASSUME NEW r \in Roots
  PROVE  /\ ScriptPatched(r) \in Seq(Token) /\ Len(ScriptPatched(r)) = 7
         /\ ScriptPatched(r)[1] = "mkdirRecursive"
         /\ \A j \in 1..7 : ScriptPatched(r)[j] \in Roots <=> j = 7
         /\ ScriptPatched(r)[7] = r
<1> DEFINE s == ScriptPatched(r)
<1>1. /\ r \in Token /\ Generator \in Token /\ "mkdirRecursive" \in Token
      /\ "skipVcpkg" \in Token /\ "runCmake" \in Token /\ "-A" \in Token /\ "slim" \in Token
  BY RootsApart DEF Token, Word
<1>2. /\ s \in Seq(Token) /\ Len(s) = 7
      /\ s[1] = "mkdirRecursive" /\ s[2] = "skipVcpkg" /\ s[3] = "runCmake"
      /\ s[4] = Generator /\ s[5] = "-A" /\ s[6] = "slim" /\ s[7] = r
  BY <1>1 DEF ScriptPatched
<1>3. /\ Generator \notin Roots /\ "mkdirRecursive" \notin Roots /\ "skipVcpkg" \notin Roots
      /\ "runCmake" \notin Roots /\ "-A" \notin Roots /\ "slim" \notin Roots
  BY RootsApart DEF Word
<1> HIDE DEF s
<1>4. \A j \in 1..7 : s[j] \in Roots <=> j = 7
  BY <1>2, <1>3
<1> QED BY <1>2, <1>4 DEF s

(* The tree a text names. *)
LEMMA RootNamed ==
  ASSUME NEW r \in Roots, NEW t \in Roots
  PROVE  Includes(ScriptPatched(r), <<t>>) <=> t = r
<1>1. /\ ScriptPatched(r) \in Seq(Token) /\ Len(ScriptPatched(r)) = 7
      /\ \A j \in 1..7 : ScriptPatched(r)[j] \in Roots <=> j = 7
      /\ ScriptPatched(r)[7] = r
  BY PatchedTokens
<1>2. t \in Token
  BY RootsApart
<1>3. \A i : i \in Places(ScriptPatched(r), <<t>>) <=> i \in 1..7 /\ ScriptPatched(r)[i] = t
  BY <1>1, <1>2, PlacesOfOne
<1> QED BY <1>1, <1>3 DEF Includes

LEMMA NotYetPatched ==
  ASSUME NEW r \in Roots
  PROVE  /\ ScriptUpstream # ScriptPatched(r) /\ <<>> # ScriptPatched(r)
         /\ \A n \in Nat : n >= 2 => ScriptRepeated(n) # ScriptPatched(r)
<1>1. Len(ScriptPatched(r)) = 7 /\ ScriptPatched(r)[1] = "mkdirRecursive"
  BY PatchedTokens
<1>2. ScriptUpstream[1] = "mkdir"
  BY DEF ScriptUpstream
<1>3. \A n \in Nat : n >= 2 => Len(ScriptRepeated(n)) = n + 6
  BY RepeatedIs
<1>4. Len(<<>>) = 0
  OBVIOUS
<1>5. \A n \in Nat : n >= 2 => n + 6 # 7
  OBVIOUS
<1>6. ScriptUpstream # ScriptPatched(r)
  BY <1>1, <1>2
<1>7. <<>> # ScriptPatched(r)
  BY <1>1, <1>4
<1>8. ASSUME NEW n \in Nat, n >= 2 PROVE ScriptRepeated(n) # ScriptPatched(r)
  <2>1. Len(ScriptRepeated(n)) = n + 6 /\ n + 6 # 7
    BY <1>3, <1>5, <1>8
  <2> QED BY <1>1, <2>1
<1> QED BY <1>6, <1>7, <1>8

(* Whatever text an earlier setup left, patchBuildScript ends it. *)
LEMMA PatchAny ==
  ASSUME NEW s \in {<<>>, ScriptUpstream} \cup RepeatedTexts \cup PatchedTexts, NEW root \in Roots
  PROVE  \/ PatchBuildScript(s, root) = s /\ s \in {<<>>} \cup PatchedTexts
         \/ PatchBuildScript(s, root) = ScriptPatched(root)
<1>1. CASE s = <<>>
  BY <1>1, PatchNothing
<1>2. CASE s = ScriptUpstream
  BY <1>2, PatchUpstream
<1>3. CASE s \in RepeatedTexts
  <2>1. PICK n \in 2..MaxRepeats : s = ScriptRepeated(n)
    BY <1>3 DEF RepeatedTexts
  <2>2. n \in Nat /\ n >= 2
    BY <2>1, SetupAssumption
  <2> QED BY <2>1, <2>2, PatchRepeated
<1>4. CASE s \in PatchedTexts
  <2>1. PICK r \in Roots : s = ScriptPatched(r)
    BY <1>4 DEF PatchedTexts
  <2> QED BY <1>4, <2>1, PatchPatched
<1> QED BY <1>1, <1>2, <1>3, <1>4

LEMMA SInvInit == Init => SInv
<1> SUFFICES ASSUME Init PROVE SInv
  OBVIOUS
<1>1. Sidecar \in Roots
  BY SetupAssumption
<1>2. script \in {<<>>, ScriptUpstream} \cup {s \in RepeatedTexts : win}
  BY DEF Init, RepeatedTexts
<1>3. script # ScriptPatched(Sidecar)
  <2>1. CASE script \in {<<>>, ScriptUpstream}
    BY <1>1, <2>1, NotYetPatched
  <2>2. CASE script \in RepeatedTexts
    <3>1. PICK n \in 2..MaxRepeats : script = ScriptRepeated(n)
      BY <2>2 DEF RepeatedTexts
    <3>2. n \in Nat /\ n >= 2
      BY <3>1, SetupAssumption
    <3> QED BY <1>1, <3>1, <3>2, NotYetPatched
  <2> QED BY <1>2, <2>1, <2>2
<1>4. Scripts
  BY <1>2 DEF Init, Scripts, AnyText
<1> QED BY <1>3, <1>4 DEF Init, SInv, Trees, Wanted, Given, FailsOnlyPastMending, Running

(* A step fails on what it was given: SInv and Inv say what that can be. *)
LEMMA FailsPastMending == Inv /\ SInv /\ Fail => PastMending'
<1> SUFFICES ASSUME Inv, SInv, Fail PROVE PastMending'
  OBVIOUS
<1> USE DEF files
<1>1. dep' = dep /\ sidecar' = sidecar /\ script' = script /\ binding' = binding /\ Running' = FALSE
  BY DEF Fail, Running
<1>2. dep = "torn" \/ dep = "whole"
  <2>1. Running /\ pc # "dep"
    BY DEF Fail, Running
  <2> QED BY <2>1 DEF SInv, Given
<1>3. CASE pc = "patchScript" /\ dep # "whole"
  BY <1>1, <1>2, <1>3 DEF PastMending
<1>4. CASE pc = "build" /\ ~CanBuild /\ (dep = "whole" => script # <<>>)
  <2>1. source # "partial"
    <3>1. source \in {"none", want.tag} /\ want.tag \in Tag
      BY <1>4 DEF Inv, Pinned
    <3> QED BY <3>1, SetupAssumption
  <2>2. CASE script = <<>>
    BY <1>1, <1>2, <2>2 DEF PastMending
  <2>3. CASE script # <<>> /\ ~win
    <3>1. ScriptRoot = System
      BY <2>3 DEF ScriptRoot
    <3> QED BY <1>4, <2>1, <2>3, <3>1, SetupAssumption DEF CanBuild
  <2>4. CASE script # <<>> /\ win
    <3>1. PICK r \in Roots : script = ScriptPatched(r)
      BY <1>4, <2>4 DEF SInv, Scripts, Ready, PatchedTexts
    <3>2. \A t \in Roots : Includes(script, <<t>>) <=> t = r
      BY <3>1, RootNamed
    <3>3. ScriptRoot = r
      BY <2>4, <3>2 DEF ScriptRoot
    <3>4. r = Sidecar /\ sidecar # "whole"
      BY <1>4, <2>1, <2>4, <3>3, SetupAssumption DEF CanBuild
    <3>5. sidecar # "none"
      BY <3>1, <3>4 DEF SInv, Trees
    <3> QED BY <1>1, <3>4, <3>5 DEF SInv, Given, PastMending
  <2> QED BY <2>2, <2>3, <2>4
<1>5. CASE pc = "gyp" /\ ~CanCompile
  <2>1. CASE script = <<>>
    BY <1>1, <1>2, <2>1 DEF PastMending
  <2> SUFFICES ASSUME script # <<>> PROVE PastMending'
    BY <2>1
  <2>2. build # Nothing /\ build.whole
    <3>1. build = [tag |-> want.tag, ssl |-> build.ssl, whole |-> TRUE] /\ build.ssl \in SSL
          /\ want.tag \in Tag
      BY <1>5 DEF Inv, Built
    <3>2. build \in [tag : Tag, ssl : Roots \cup {System}, whole : BOOLEAN] /\ build.whole
      <4>1. PICK x : x = build.ssl
        OBVIOUS
      <4>2. build = [tag |-> want.tag, ssl |-> x, whole |-> TRUE] /\ x \in Roots \cup {System}
        BY <3>1, <4>1 DEF SSL
      <4> QED BY <3>1, <4>2
    <3> QED BY <3>2, SetupAssumption
  <2>3. binding = <<>>
    BY <1>5, <2>2 DEF CanCompile
  <2> QED BY <1>1, <1>2, <2>3 DEF PastMending
<1>6. CASE pc = "dlls" /\ ~CanCopy
  <2>1. want.root = Sidecar /\ sidecar # "whole"
    BY <1>6 DEF CanCopy
  <2>2. sidecar # "none"
    BY <1>6, <2>1 DEF SInv, Trees
  <2> QED BY <1>1, <2>1, <2>2 DEF SInv, Given, PastMending
<1> QED BY <1>3, <1>4, <1>5, <1>6 DEF Fail

LEMMA SInvStep == Inv /\ SInv /\ [Next]_vars => SInv'
<1> SUFFICES ASSUME Inv, SInv, [Next]_vars PROVE SInv'
  OBVIOUS
<1> USE DEF files
<1>0. Sidecar \in Roots /\ System \notin Roots
  BY SetupAssumption
<1>1. CASE Start
  <2>1. want'.root \in (IF win THEN Roots ELSE {System}) /\ pc' = "dep"
    BY <1>1 DEF Start
  <2> QED BY <1>1, <2>1 DEF Start, SInv, Scripts, AnyText, Trees, Wanted, Given, FailsOnlyPastMending, Running
<1>2. CASE EnsureDep
  <2>1. ScriptUpstream # ScriptPatched(Sidecar)
    BY <1>0, NotYetPatched
  <2>2. CASE dep = "none"
    BY <1>2, <2>1, <2>2
    DEF EnsureDep, SInv, Scripts, AnyText, Trees, Wanted, Given, FailsOnlyPastMending, Running
  <2>3. CASE dep # "none"
    BY <1>2, <2>3
    DEF EnsureDep, SInv, Scripts, AnyText, Trees, Wanted, Given, FailsOnlyPastMending, Running
  <2> QED BY <2>2, <2>3
<1>3. CASE PatchBinding
  <2>1. pc' \in {"openssl", "writeBinding"}
    BY <1>3 DEF PatchBinding
  <2> QED BY <1>3, <2>1
      DEF PatchBinding, SInv, Scripts, AnyText, Trees, Wanted, Given, FailsOnlyPastMending, Running
<1>4. CASE WriteBinding
  BY <1>4
  DEF WriteBinding, SInv, Scripts, AnyText, Trees, Wanted, Given, FailsOnlyPastMending, Running
<1>5. CASE FindOpenSSL
  <2>1. want.root = Sidecar => sidecar # "none"
    BY <1>0, <1>5 DEF FindOpenSSL, SInv, Wanted, Running
  <2> QED BY <1>5, <2>1
      DEF FindOpenSSL, SInv, Scripts, AnyText, Trees, Wanted, Given, FailsOnlyPastMending, Running
<1>6. CASE FetchOpenSSL
  BY <1>6
  DEF FetchOpenSSL, SInv, Scripts, AnyText, Trees, Wanted, Given, FailsOnlyPastMending, Running
<1>7. CASE PinSrt
  <2>1. script \in {<<>>, ScriptUpstream} \/ win
    BY DEF SInv, Scripts, AnyText
  <2> QED BY <1>7, <2>1
      DEF PinSrt, SInv, Scripts, AnyText, Ready, Trees, Wanted, Given, FailsOnlyPastMending, Running
<1>8. CASE PatchScript
  <2> DEFINE new == PatchBuildScript(script, want.root)
  <2>1. win /\ want.root \in Roots
    BY <1>8 DEF PatchScript, SInv, Wanted, Running
  <2>2. script \in {<<>>, ScriptUpstream} \cup RepeatedTexts \cup PatchedTexts
    BY <2>1 DEF SInv, Scripts, AnyText
  <2>3. (new = script /\ script \in {<<>>} \cup PatchedTexts) \/ new = ScriptPatched(want.root)
    BY <2>1, <2>2, PatchAny
  <2>4. ScriptPatched(want.root) \in PatchedTexts
    BY <2>1 DEF PatchedTexts
  <2> HIDE DEF new
  <2>5. CASE new = script
    <3>1. pc' = "build" /\ UNCHANGED <<script, draft, win, want, dep, sidecar>>
      BY <1>8, <2>5 DEF PatchScript, new
    <3>2. script \in {<<>>} \cup PatchedTexts
      BY <2>3, <2>4, <2>5
    <3> QED BY <1>8, <2>1, <3>1, <3>2
        DEF PatchScript, SInv, Scripts, AnyText, Ready, Trees, Wanted, Given, FailsOnlyPastMending, Running
  <2>6. CASE new # script
    <3>1. /\ pc' = "writeScript" /\ draft' = ScriptPatched(want.root) /\ script' = <<>>
          /\ UNCHANGED <<win, want, dep, sidecar>> /\ dep = "whole" /\ pc = "patchScript"
      BY <1>8, <2>3, <2>6 DEF PatchScript, new
    <3>2. ScriptPatched(want.root) = ScriptPatched(Sidecar) => want.root = Sidecar
      <4>1. ScriptPatched(want.root)[7] = want.root /\ ScriptPatched(Sidecar)[7] = Sidecar
        BY <1>0, <2>1, PatchedTokens
      <4> QED BY <4>1
    <3>3. <<>> # ScriptPatched(Sidecar)
      BY <1>0, NotYetPatched
    <3>4. Scripts'
      BY <2>4, <3>1 DEF Scripts, AnyText, PatchedTexts
    <3>5. Trees'
      BY <3>1, <3>2, <3>3 DEF SInv, Trees
    <3> QED BY <2>1, <3>1, <3>4, <3>5
        DEF SInv, Wanted, Given, FailsOnlyPastMending, Running
  <2> QED BY <2>5, <2>6
<1>9. CASE WriteScript
  BY <1>9
  DEF WriteScript, SInv, Scripts, AnyText, Ready, Trees, Wanted, Given, FailsOnlyPastMending, Running
<1>10. CASE BuildSrt
  BY <1>10
  DEF BuildSrt, SInv, Scripts, AnyText, Ready, Trees, Wanted, Given, FailsOnlyPastMending, Running
<1>11. CASE CompileAddon
  <2>1. pc = "gyp" /\ pc' = (IF win THEN "dlls" ELSE "done")
    BY <1>11 DEF CompileAddon
  <2> QED BY <1>11, <2>1
      DEF CompileAddon, SInv, Scripts, AnyText, Ready, Trees, Wanted, Given, FailsOnlyPastMending, Running
<1>12. CASE CopyRuntimeDlls
  BY <1>12
  DEF CopyRuntimeDlls, SInv, Scripts, AnyText, Trees, Wanted, Given, FailsOnlyPastMending, Running
<1>13. CASE Fail
  <2>1. PastMending'
    BY <1>13, FailsPastMending
  <2> QED BY <1>13, <2>1
      DEF Fail, SInv, Scripts, AnyText, Trees, Wanted, Given, FailsOnlyPastMending, Running
<1>14. CASE Setback
  <2>1. pc' = "idle" /\ Running
    BY <1>14
    DEF Setback, Stopped, InstallCut, ExtractCut, CloneCut, BuildCut, CompileCut, Running
  <2>2. UNCHANGED <<win, want, script>>
    BY <1>14 DEF Setback, Stopped, InstallCut, ExtractCut, CloneCut, BuildCut, CompileCut
  <2>3. /\ dep' = dep \/ (dep' = "torn" /\ dep = "none")
        /\ sidecar' = sidecar \/ sidecar' = "torn"
    BY <1>14 DEF Setback, Stopped, InstallCut, ExtractCut, CloneCut, BuildCut, CompileCut
  <2> QED BY <2>1, <2>2, <2>3
      DEF SInv, Scripts, AnyText, Trees, Wanted, Given, FailsOnlyPastMending, Running
<1>15. CASE RunEmptyScript
  BY <1>15
  DEF RunEmptyScript, SInv, Scripts, AnyText, Ready, Trees, Wanted, Given, FailsOnlyPastMending, Running
<1>16. CASE UNCHANGED vars
  BY <1>16
  DEF vars, SInv, Scripts, AnyText, Ready, Trees, Wanted, Given, FailsOnlyPastMending, PastMending, Running
<1> QED BY <1>1, <1>2, <1>3, <1>4, <1>5, <1>6, <1>7, <1>8, <1>9, <1>10, <1>11, <1>12, <1>13,
           <1>14, <1>15, <1>16 DEF Next, Step

LEMMA SInvTheorem == Spec => [](Inv /\ SInv)
<1>1. Init => Inv /\ SInv
  BY InvInit, SInvInit
<1>2. Inv /\ SInv /\ [Next]_vars => (Inv /\ SInv)'
  BY InvStep, SInvStep
<1> QED BY <1>1, <1>2, PTL DEF Spec

(***************************************************************************)
(* The build script that is run has each patch once, whatever text earlier *)
(* setups left and however often they were cut off: upstream's, one with   *)
(* the slim flags any number of times over, or a patched one.              *)
(***************************************************************************)
THEOREM ScriptOnce == Spec => []ScriptPatchedOnce
<1>1. SInv => ScriptPatchedOnce
  BY DEF SInv, Scripts, Ready, PatchedTexts, ScriptPatchedOnce
<1> QED BY <1>1, SInvTheorem, PTL

(***************************************************************************)
(* A run that fails by itself has met what no run mends: a half-installed  *)
(* package, a half-extracted OpenSSL or a source file that was emptied.    *)
(***************************************************************************)
THEOREM FailsOnly == Spec => []FailsOnlyPastMending
<1>1. SInv => FailsOnlyPastMending
  BY DEF SInv
<1> QED BY <1>1, SInvTheorem, PTL
=============================================================================
