---------------------------- MODULE SetupProofs ----------------------------
(***************************************************************************)
(* Two results on the native setup, for every text, every version of       *)
(* libsrt and every OpenSSL: a patch applied again changes nothing, and    *)
(* what the setup calls done is right however often it was cut off.        *)
(***************************************************************************)
EXTENDS NativeSetup, SequenceTheorems, WellFoundedInduction, TLAPS

(* t is at i in s when s agrees with it token by token. *)
LEMMA Agreement ==
  ASSUME NEW S, NEW s \in Seq(S), NEW t \in Seq(S), NEW i \in 1..Len(s),
         i + Len(t) - 1 <= Len(s)
  PROVE  SubSeq(s, i, i + Len(t) - 1) = t <=> \A k \in 1..Len(t) : s[i + k - 1] = t[k]
<1> DEFINE u == SubSeq(s, i, i + Len(t) - 1)
<1>1. /\ u \in Seq(S)
      /\ Len(u) = Len(t)
      /\ \A k \in 1..Len(t) : u[k] = s[i + k - 1]
  <2>1. i \in Int /\ i + Len(t) - 1 \in Int /\ \A j \in i..(i + Len(t) - 1) : s[j] \in S
    OBVIOUS
  <2>2. /\ u \in Seq(S)
        /\ Len(u) = IF i <= i + Len(t) - 1 THEN i + Len(t) - 1 - i + 1 ELSE 0
        /\ \A k \in 1..(i + Len(t) - 1 - i + 1) : u[k] = s[i + k - 1]
    BY <2>1, SubSeqProperties
  <2> QED BY <2>2
<1>2. ASSUME \A k \in 1..Len(t) : s[i + k - 1] = t[k] PROVE u = t
  BY <1>1, <1>2, SeqEqual
<1> QED BY <1>1, <1>2

(* A snippet that is there has a first place. *)
LEMMA FirstIsAPlace ==
  ASSUME NEW S, NEW s \in Seq(S), NEW t, Includes(s, t)
  PROVE  FirstPlace(s, t) \in Places(s, t)
<1> DEFINE Less == {ss \in Nat \X Nat : ss[1] < ss[2]}
<1>1. Places(s, t) \subseteq Nat
  BY DEF Places
<1>2. IsWellFoundedOn(Less, Nat)
  BY NatLessThanWellFounded DEF OpToRel
<1>3. \E i \in Places(s, t) : \A j \in Places(s, t) : ~(<<j, i>> \in Less)
  <2> HIDE DEF Less
  <2> QED BY <1>1, <1>2, WFMin DEF Includes
<1>4. \E i \in Places(s, t) : \A j \in Places(s, t) : i <= j
  <2>1. PICK i \in Places(s, t) : \A j \in Places(s, t) : ~(<<j, i>> \in Less)
    BY <1>3
  <2>2. ASSUME NEW j \in Places(s, t) PROVE i <= j
    <3>1. i \in Nat /\ j \in Nat /\ ~(<<j, i>> \in Less)
      BY <1>1, <2>1
    <3> QED BY <3>1
  <2> QED BY <2>2
<1> QED BY <1>4 DEF FirstPlace

(* What is where after a splice. *)
LEMMA Spliced ==
  ASSUME NEW S, NEW s \in Seq(S), NEW new \in Seq(S), NEW n \in Nat, NEW i \in 1..Len(s),
         i + n - 1 <= Len(s)
  PROVE  LET r == Splice(s, i, n, new) IN
         /\ r \in Seq(S)
         /\ Len(r) = Len(s) - n + Len(new)
         /\ \A k \in 1..Len(r) :
              r[k] = IF k < i THEN s[k]
                     ELSE IF k < i + Len(new) THEN new[k - i + 1]
                     ELSE s[k - Len(new) + n]
<1> DEFINE a == SubSeq(s, 1, i - 1)
           b == SubSeq(s, i + n, Len(s))
<1>1. a \in Seq(S) /\ Len(a) = i - 1 /\ \A k \in 1..(i - 1) : a[k] = s[k]
  <2>1. 1 \in Int /\ i - 1 \in Int /\ \A k \in 1..(i - 1) : s[k] \in S
    OBVIOUS
  <2>2. /\ a \in Seq(S)
        /\ Len(a) = IF 1 <= i - 1 THEN i - 1 - 1 + 1 ELSE 0
        /\ \A k \in 1..(i - 1 - 1 + 1) : a[k] = s[1 + k - 1]
    BY <2>1, SubSeqProperties
  <2> QED BY <2>2
<1>2. /\ b \in Seq(S) /\ Len(b) = Len(s) - i - n + 1
      /\ \A k \in 1..(Len(s) - i - n + 1) : b[k] = s[i + n + k - 1]
  <2>1. i + n \in Int /\ Len(s) \in Int /\ \A k \in (i + n)..Len(s) : s[k] \in S
    OBVIOUS
  <2>2. /\ b \in Seq(S)
        /\ Len(b) = IF i + n <= Len(s) THEN Len(s) - (i + n) + 1 ELSE 0
        /\ \A k \in 1..(Len(s) - (i + n) + 1) : b[k] = s[i + n + k - 1]
    BY <2>1, SubSeqProperties
  <2> QED BY <2>2
<1>3. Splice(s, i, n, new) = a \o new \o b
  BY DEF Splice
<1>4. Len(new) \in Nat /\ Len(s) \in Nat
  BY LenProperties
<1> HIDE DEF a, b
<1> DEFINE r == a \o new \o b
<1>5. /\ r \in Seq(S)
      /\ Len(r) = Len(a) + Len(new) + Len(b)
      /\ \A k \in 1..(Len(a) + Len(new) + Len(b)) :
           /\ k <= Len(a) => r[k] = a[k]
           /\ ~(k <= Len(a)) /\ k <= Len(a) + Len(new) => r[k] = new[k - Len(a)]
           /\ ~(k <= Len(a) + Len(new)) => r[k] = b[k - Len(a) - Len(new)]
  <2>1. a \in Seq(S) /\ new \in Seq(S) /\ b \in Seq(S)
    BY <1>1, <1>2
  <2> QED BY ONLY <2>1 DEF r
<1> HIDE DEF r
<1>6. r \in Seq(S) /\ Len(r) = Len(s) - n + Len(new)
  BY <1>1, <1>2, <1>4, <1>5 DEF r
<1>7. ASSUME NEW k \in 1..Len(r)
      PROVE  r[k] = IF k < i THEN s[k] ELSE IF k < i + Len(new) THEN new[k - i + 1]
                    ELSE s[k - Len(new) + n]
  <2>1. /\ k <= Len(a) => r[k] = a[k]
        /\ ~(k <= Len(a)) /\ k <= Len(a) + Len(new) => r[k] = new[k - Len(a)]
        /\ ~(k <= Len(a) + Len(new)) => r[k] = b[k - Len(a) - Len(new)]
    BY <1>1, <1>2, <1>4, <1>5, <1>6
  <2>2. CASE k < i
    BY <1>1, <2>1, <2>2
  <2>3. CASE i <= k /\ k < i + Len(new)
    <3>1. k - Len(a) = k - i + 1 /\ ~(k <= Len(a)) /\ k <= Len(a) + Len(new)
      BY <1>1, <1>4, <2>3
    <3> QED BY <2>1, <2>3, <3>1
  <2>4. CASE i + Len(new) <= k
    <3> DEFINE j == k - Len(a) - Len(new)
    <3>1. j \in 1..(Len(s) - i - n + 1) /\ ~(k <= Len(a)) /\ ~(k <= Len(a) + Len(new))
      BY <1>1, <1>4, <1>6, <2>4
    <3>2. i + n + j - 1 = k - Len(new) + n /\ ~(k < i) /\ ~(k < i + Len(new))
      BY <1>1, <1>4, <2>4
    <3>3. r[k] = b[j]
      BY <2>1, <3>1
    <3> HIDE DEF j
    <3>4. b[j] = s[i + n + j - 1]
      BY <1>2, <3>1
    <3> QED BY <3>2, <3>3, <3>4
  <2> QED BY <1>4, <2>2, <2>3, <2>4
<1> QED BY <1>3, <1>6, <1>7 DEF r

(***************************************************************************)
(* "idempotent" (patches.js:4): a patch applied again changes nothing,     *)
(* whatever the text and the snippets are.                                 *)
(***************************************************************************)
THEOREM PatchIdempotent ==
  ASSUME NEW S, NEW s \in Seq(S), NEW old \in Seq(S), NEW new \in Seq(S), new # <<>>
  PROVE  PatchOnce(PatchOnce(s, old, new), old, new) = PatchOnce(s, old, new)
<1> DEFINE i == FirstPlace(s, old)
           r == Splice(s, i, Len(old), new)
<1>1. CASE Includes(s, new) \/ ~Includes(s, old)
  BY <1>1 DEF PatchOnce, Replace
<1>2. CASE ~Includes(s, new) /\ Includes(s, old)
  <2>1. i \in 1..Len(s) /\ i + Len(old) - 1 <= Len(s)
    BY <1>2, FirstIsAPlace DEF Places
  <2>2. /\ r \in Seq(S)
        /\ Len(r) = Len(s) - Len(old) + Len(new)
        /\ \A k \in 1..Len(r) :
             r[k] = IF k < i THEN s[k] ELSE IF k < i + Len(new) THEN new[k - i + 1]
                    ELSE s[k - Len(new) + Len(old)]
    <3>1. Len(old) \in Nat
      BY LenProperties
    <3> HIDE DEF i
    <3> QED BY <2>1, <3>1, Spliced
  <2>3. Len(new) \in Nat \ {0} /\ Len(old) \in Nat /\ Len(s) \in Nat
    <3>1. Len(new) \in Nat /\ Len(old) \in Nat /\ Len(s) \in Nat
      BY LenProperties
    <3>2. Len(new) # 0
      BY EmptySeq
    <3> QED BY <3>1, <3>2
  <2>4. i \in 1..Len(r) /\ i + Len(new) - 1 <= Len(r)
    BY <2>1, <2>2, <2>3
  <2>5. ASSUME NEW k \in 1..Len(new) PROVE r[i + k - 1] = new[k]
    <3> HIDE DEF r, i
    <3>1. PICK j \in 1..Len(r) : j = i + k - 1 /\ ~(j < i) /\ j < i + Len(new) /\ j - i + 1 = k
      <4>1. i + k - 1 \in 1..Len(r) /\ ~(i + k - 1 < i) /\ i + k - 1 < i + Len(new)
        BY <2>1, <2>3, <2>4
      <4>2. i + k - 1 - i + 1 = k
        BY <2>1, <2>3
      <4> QED BY <2>1, <2>3, <4>1, <4>2
    <3>2. r[j] = new[j - i + 1]
      BY <2>2, <3>1
    <3> QED BY <3>1, <3>2
  <2>6. SubSeq(r, i, i + Len(new) - 1) = new
    BY <2>2, <2>4, <2>5, Agreement
  <2>7. Includes(r, new)
    BY <2>4, <2>6 DEF Includes, Places
  <2>8. PatchOnce(s, old, new) = r
    BY <1>2 DEF PatchOnce, Replace
  <2> QED BY <2>7, <2>8 DEF PatchOnce
<1> QED BY <1>1, <1>2

-----------------------------------------------------------------------------
(* On the binding, patches and file by file: an emptied file stays empty.  *)

(* Whether a snippet is in the three texts the binding can be. *)
LEMMA InEmpty == ASSUME NEW t, NEW u PROVE PatchOnce(<<>>, t, u) = <<>>
  BY DEF PatchOnce, Replace, Includes, Places

(* q is s with the n tokens at i replaced by new, token by token. *)
IsSplice(s, i, n, new, q) ==
  /\ i + n - 1 <= Len(s) /\ Len(q) = Len(s) - n + Len(new)
  /\ \A k \in 1..Len(q) : q[k] = IF k < i THEN s[k]
                                 ELSE IF k < i + Len(new) THEN new[k - i + 1]
                                 ELSE s[k - Len(new) + n]

LEMMA SpliceIs ==
  ASSUME NEW S, NEW s \in Seq(S), NEW new \in Seq(S), NEW n \in Nat, NEW i \in 1..Len(s),
         NEW q \in Seq(S), IsSplice(s, i, n, new, q)
  PROVE  Splice(s, i, n, new) = q
<1> USE DEF IsSplice
<1> DEFINE r == Splice(s, i, n, new)
<1>1. /\ r \in Seq(S)
      /\ Len(r) = Len(s) - n + Len(new)
      /\ \A k \in 1..Len(r) :
           r[k] = IF k < i THEN s[k] ELSE IF k < i + Len(new) THEN new[k - i + 1]
                  ELSE s[k - Len(new) + n]
  BY Spliced
<1> HIDE DEF r
<1>2. Len(r) = Len(q) /\ \A k \in 1..Len(r) : r[k] = q[k]
  BY <1>1
<1>3. r = q
  BY <1>1, <1>2, SeqEqual
<1> QED BY <1>3 DEF r

(* Where a snippet of two or of three tokens is. *)
LEMMA PlacesOfTwo ==
  ASSUME NEW S, NEW s \in Seq(S), NEW x \in S, NEW y \in S
  PROVE  \A i : i \in Places(s, <<x, y>>) <=>
                i \in 1..Len(s) /\ i + 1 <= Len(s) /\ s[i] = x /\ s[i + 1] = y
<1> DEFINE t == <<x, y>>
<1>1. t \in Seq(S) /\ Len(t) = 2 /\ t[1] = x /\ t[2] = y /\ Len(s) \in Nat
  OBVIOUS
<1> HIDE DEF t
<1>2. ASSUME NEW i \in 1..Len(s), i + 1 <= Len(s)
      PROVE  SubSeq(s, i, i + Len(t) - 1) = t <=> s[i] = x /\ s[i + 1] = y
  <2>1. SubSeq(s, i, i + Len(t) - 1) = t <=> \A k \in 1..Len(t) : s[i + k - 1] = t[k]
    <3>1. t \in Seq(S) /\ s \in Seq(S) /\ i \in 1..Len(s) /\ i + Len(t) - 1 <= Len(s)
      BY <1>1, <1>2
    <3> QED BY ONLY <3>1, Agreement
  <2>2. (\A k \in 1..2 : s[i + k - 1] = t[k]) <=> s[i] = t[1] /\ s[i + 1] = t[2]
    OBVIOUS
  <2> QED BY <1>1, <2>1, <2>2
<1>3. Places(s, t) = {i \in 1..Len(s) : i + 1 <= Len(s) /\ SubSeq(s, i, i + Len(t) - 1) = t}
  BY <1>1 DEF Places
<1>4. Places(s, t) = {i \in 1..Len(s) : i + 1 <= Len(s) /\ s[i] = x /\ s[i + 1] = y}
  BY <1>2, <1>3
<1> QED BY <1>4 DEF t

LEMMA PlacesOfThree ==
  ASSUME NEW S, NEW s \in Seq(S), NEW x \in S, NEW y \in S, NEW z \in S
  PROVE  \A i : i \in Places(s, <<x, y, z>>) <=>
                i \in 1..Len(s) /\ i + 2 <= Len(s) /\ s[i] = x /\ s[i + 1] = y /\ s[i + 2] = z
<1> DEFINE t == <<x, y, z>>
<1>1. t \in Seq(S) /\ Len(t) = 3 /\ t[1] = x /\ t[2] = y /\ t[3] = z /\ Len(s) \in Nat
  OBVIOUS
<1> HIDE DEF t
<1>2. ASSUME NEW i \in 1..Len(s), i + 2 <= Len(s)
      PROVE  SubSeq(s, i, i + Len(t) - 1) = t <=> s[i] = x /\ s[i + 1] = y /\ s[i + 2] = z
  <2>1. SubSeq(s, i, i + Len(t) - 1) = t <=> \A k \in 1..Len(t) : s[i + k - 1] = t[k]
    <3>1. t \in Seq(S) /\ s \in Seq(S) /\ i \in 1..Len(s) /\ i + Len(t) - 1 <= Len(s)
      BY <1>1, <1>2
    <3> QED BY ONLY <3>1, Agreement
  <2>2. (\A k \in 1..3 : s[i + k - 1] = t[k])
          <=> s[i] = t[1] /\ s[i + 1] = t[2] /\ s[i + 2] = t[3]
    OBVIOUS
  <2> QED BY <1>1, <2>1, <2>2
<1>3. Places(s, t) = {i \in 1..Len(s) : i + 2 <= Len(s) /\ SubSeq(s, i, i + Len(t) - 1) = t}
  BY <1>1 DEF Places
<1>4. Places(s, t) =
        {i \in 1..Len(s) : i + 2 <= Len(s) /\ s[i] = x /\ s[i + 1] = y /\ s[i + 2] = z}
  BY <1>2, <1>3
<1> QED BY <1>4 DEF t

(* A replacement that is not there yet, of a snippet that is there once. *)
LEMMA Patched ==
  ASSUME NEW s, NEW old, NEW new, NEW i, Places(s, old) = {i}, Places(s, new) = {}
  PROVE  PatchOnce(s, old, new) = Splice(s, i, Len(old), new)
<1>1. FirstPlace(s, old) = i
  BY DEF FirstPlace
<1> QED BY <1>1 DEF PatchOnce, Replace, Includes

(* A text before, between and after two patches like the binding's. *)
TwoPatches(r, f, t, e, c, x) ==
  LET up == <<r, t, e, c, x>>
      mid == <<r, f, t, e, c, x>>
      done == <<r, f, t, e, x>> IN
  /\ PatchOnce(up, <<r, t>>, <<r, f, t>>) = mid
  /\ PatchOnce(mid, <<e, c, x>>, <<e, x>>) = done
  /\ PatchOnce(done, <<r, t>>, <<r, f, t>>) = done
  /\ PatchOnce(done, <<e, c, x>>, <<e, x>>) = done

LEMMA BindingTexts ==
  ASSUME NEW S, NEW r \in S, NEW f \in S, NEW t \in S, NEW e \in S, NEW c \in S, NEW x \in S,
         f # t, e # r, r # t, t # e, x # c, x # r, x # t, e # f, c # e
  PROVE  TwoPatches(r, f, t, e, c, x)
<1> DEFINE up == <<r, t, e, c, x>>
           mid == <<r, f, t, e, c, x>>
           done == <<r, f, t, e, x>>
           free == <<r, f, t>>
           kept == <<e, x>>
<1>1. /\ up \in Seq(S) /\ Len(up) = 5
      /\ up[1] = r /\ up[2] = t /\ up[3] = e /\ up[4] = c /\ up[5] = x
  OBVIOUS
<1>2. /\ mid \in Seq(S) /\ Len(mid) = 6
      /\ mid[1] = r /\ mid[2] = f /\ mid[3] = t /\ mid[4] = e /\ mid[5] = c /\ mid[6] = x
  OBVIOUS
<1>3. /\ done \in Seq(S) /\ Len(done) = 5
      /\ done[1] = r /\ done[2] = f /\ done[3] = t /\ done[4] = e /\ done[5] = x
  OBVIOUS
<1>4. /\ free \in Seq(S) /\ Len(free) = 3 /\ free[1] = r /\ free[2] = f /\ free[3] = t
      /\ kept \in Seq(S) /\ Len(kept) = 2 /\ kept[1] = e /\ kept[2] = x
      /\ Len(<<r, t>>) = 2 /\ Len(<<e, c, x>>) = 3
  OBVIOUS
<1> HIDE DEF up, mid, done
<1>5. Places(up, <<r, t>>) = {1} /\ Places(up, <<r, f, t>>) = {}
  <2>1. \A i : i \in Places(up, <<r, t>>) <=>
               i \in 1..Len(up) /\ i + 1 <= Len(up) /\ up[i] = r /\ up[i + 1] = t
    BY <1>1, PlacesOfTwo
  <2>2. \A i : i \in Places(up, <<r, f, t>>) <=>
               i \in 1..Len(up) /\ i + 2 <= Len(up) /\ up[i] = r /\ up[i + 1] = f /\ up[i + 2] = t
    BY <1>1, PlacesOfThree
  <2> QED BY <1>1, <2>1, <2>2
<1>6. Places(mid, <<e, c, x>>) = {4} /\ Places(mid, <<e, x>>) = {}
  <2>1. \A i : i \in Places(mid, <<e, x>>) <=>
               i \in 1..Len(mid) /\ i + 1 <= Len(mid) /\ mid[i] = e /\ mid[i + 1] = x
    BY <1>2, PlacesOfTwo
  <2>2. \A i : i \in Places(mid, <<e, c, x>>) <=>
               i \in 1..Len(mid) /\ i + 2 <= Len(mid) /\ mid[i] = e /\ mid[i + 1] = c /\ mid[i + 2] = x
    BY <1>2, PlacesOfThree
  <2> QED BY <1>2, <2>1, <2>2
<1>7. PatchOnce(up, <<r, t>>, <<r, f, t>>) = mid
  <2>1. \A k \in 1..Len(mid) : mid[k] = IF k < 1 THEN up[k]
                                      ELSE IF k < 1 + Len(free) THEN free[k - 1 + 1]
                                      ELSE up[k - Len(free) + 2]
    <3> HIDE DEF free
    <3> QED BY <1>1, <1>2, <1>4
  <2>2. 2 \in Nat /\ 1 \in 1..Len(up) /\ 1 + 2 - 1 <= Len(up) /\ Len(mid) = Len(up) - 2 + Len(free)
    BY <1>1, <1>2, <1>4
  <2> HIDE DEF free
  <2>3. Splice(up, 1, 2, free) = mid
    <3>1. up \in Seq(S) /\ mid \in Seq(S) /\ free \in Seq(S)
      BY <1>1, <1>2, <1>4
    <3>2. IsSplice(up, 1, 2, free, mid)
      BY <2>1, <2>2 DEF IsSplice
    <3>3. 1 \in 1..Len(up) /\ 2 \in Nat
      BY <2>2
    <3> QED BY ONLY <3>1, <3>2, <3>3, SpliceIs
  <2> QED BY <1>4, <1>5, <2>3, Patched DEF free
<1>8. PatchOnce(mid, <<e, c, x>>, <<e, x>>) = done
  <2>1. \A k \in 1..Len(done) : done[k] = IF k < 4 THEN mid[k]
                                       ELSE IF k < 4 + Len(kept) THEN kept[k - 4 + 1]
                                       ELSE mid[k - Len(kept) + 3]
    <3> HIDE DEF kept
    <3> QED BY <1>2, <1>3, <1>4
  <2>2. 3 \in Nat /\ 4 \in 1..Len(mid) /\ 4 + 3 - 1 <= Len(mid) /\ Len(done) = Len(mid) - 3 + Len(kept)
    BY <1>2, <1>3, <1>4
  <2> HIDE DEF kept
  <2>3. Splice(mid, 4, 3, kept) = done
    <3>1. mid \in Seq(S) /\ done \in Seq(S) /\ kept \in Seq(S)
      BY <1>2, <1>3, <1>4
    <3>2. IsSplice(mid, 4, 3, kept, done)
      BY <2>1, <2>2 DEF IsSplice
    <3>3. 4 \in 1..Len(mid) /\ 3 \in Nat
      BY <2>2
    <3> QED BY ONLY <3>1, <3>2, <3>3, SpliceIs
  <2> QED BY <1>4, <1>6, <2>3, Patched DEF kept
<1>9. 1 \in Places(done, <<r, f, t>>) /\ 4 \in Places(done, <<e, x>>)
  BY <1>3, PlacesOfTwo, PlacesOfThree
<1> QED BY <1>7, <1>8, <1>9 DEF TwoPatches, up, mid, done, PatchOnce, Includes

(* The patches of the binding, on each text it can be. *)
LEMMA PatchEmpty == PatchBindingCc(<<>>) = <<>>
  BY InEmpty DEF PatchBindingCc

LEMMA PatchNonempty ==
  /\ PatchBindingCc(BindingUpstream) = BindingPatched
  /\ PatchBindingCc(BindingPatched) = BindingPatched
<1> DEFINE T == {"recvmsg", "free", "throw", "acceptError", "close", "return"}
<1>1. /\ "recvmsg" \in T /\ "free" \in T /\ "throw" \in T
      /\ "acceptError" \in T /\ "close" \in T /\ "return" \in T
  OBVIOUS
<1>2. /\ "free" # "throw" /\ "acceptError" # "recvmsg" /\ "recvmsg" # "throw"
      /\ "throw" # "acceptError" /\ "return" # "close" /\ "return" # "recvmsg"
      /\ "return" # "throw" /\ "acceptError" # "free" /\ "close" # "acceptError"
  OBVIOUS
<1> HIDE DEF T
<1>3. TwoPatches("recvmsg", "free", "throw", "acceptError", "close", "return")
  BY <1>1, <1>2, BindingTexts
<1> QED BY <1>3 DEF TwoPatches, PatchBindingCc, BindingUpstream, BindingPatched

-----------------------------------------------------------------------------
(***************************************************************************)
(* The inductive invariant follows a run: from its patching on, the        *)
(* binding is patched or empty; from pinSrt to the build script there is   *)
(* no build directory and the source, if there is one, is at this run's    *)
(* tag; from then on the build is this run's, and then the addon.          *)
(***************************************************************************)
Patching == pc \in {"openssl", "pin", "patchScript", "writeScript", "build", "gyp"}

SSL == Roots \cup {System}

Pinned == build = Nothing /\ source \in {"none", want.tag}

Built ==
  /\ build = [tag |-> want.tag, ssl |-> build.ssl, whole |-> TRUE]
  /\ build.ssl \in SSL

Compiled ==
  /\ addon \in [tag : Tag, ssl : SSL, binding : {<<>>, BindingUpstream, BindingPatched}]
  /\ addon.tag = want.tag /\ addon.ssl = build.ssl
  /\ addon.binding = BindingPatched \/ (~win /\ addon.binding = <<>>)

Inv ==
  /\ win \in BOOLEAN
  /\ binding \in {<<>>, BindingUpstream, BindingPatched}
  /\ dep \in {"none", "torn"} => binding = <<>>
  /\ pc = "patchBinding" => dep # "none"
  /\ pc = "writeBinding" => draft \in {<<>>, BindingPatched} /\ dep \notin {"none", "torn"}
  /\ Patching => binding \in {<<>>, BindingPatched}
  /\ pc \notin {"idle", "failed"} => want.tag \in Tag
  /\ pc \in {"patchScript", "writeScript", "build"} => Pinned
  /\ pc = "gyp" => Built \/ (build = Nothing /\ script = <<>>)
  /\ pc \in {"dlls", "done"} => Built
  /\ pc \in {"dlls", "done"} => Compiled
  /\ pc = "done" /\ win => dlls = want.root

LEMMA InvInit == Init => Inv
  BY DEF Init, Inv, Patching

LEMMA InvStep == Inv /\ [Next]_vars => Inv'
<1> SUFFICES ASSUME Inv, [Next]_vars PROVE Inv'
  OBVIOUS
<1> USE DEF files
<1>1. CASE Start
  BY <1>1 DEF Inv, Start, Patching
<1>2. CASE EnsureDep
  BY <1>2 DEF Inv, EnsureDep, Patching
<1>3. CASE PatchBinding
  <2>1. PatchBindingCc(binding) \in {<<>>, BindingPatched}
    BY PatchEmpty, PatchNonempty DEF Inv
  <2>2. CASE dep = "torn"
    BY <1>3, <2>2 DEF Inv, PatchBinding, Patching
  <2>3. CASE dep # "torn"
    BY <1>3, <2>1, <2>3 DEF Inv, PatchBinding, Patching
  <2> QED BY <2>2, <2>3
<1>4. CASE WriteBinding
  BY <1>4 DEF Inv, WriteBinding, Patching
<1>5. CASE FindOpenSSL
  BY <1>5 DEF Inv, FindOpenSSL, Patching
<1>6. CASE FetchOpenSSL
  BY <1>6 DEF Inv, FetchOpenSSL, Patching
<1>7. CASE PinSrt
  BY <1>7 DEF Inv, PinSrt, Patching, Pinned
<1>8. CASE PatchScript
  BY <1>8 DEF Inv, PatchScript, Patching, Pinned
<1>9. CASE WriteScript
  BY <1>9 DEF Inv, WriteScript, Patching, Pinned
<1>10. CASE BuildSrt
  <2>1. ScriptRoot \in SSL
    BY <1>10, SetupAssumption DEF BuildSrt, CanBuild, ScriptRoot, SSL
  <2>2. build' = [tag |-> want.tag, ssl |-> ScriptRoot, whole |-> TRUE] /\ want' = want
    BY <1>10 DEF Inv, BuildSrt, Pinned
  <2>3. Built'
    BY <2>1, <2>2 DEF Built, SSL
  <2> QED BY <1>10, <2>3 DEF Inv, BuildSrt, Patching
<1>11. CASE CompileAddon
  <2>1. Built
    BY <1>11 DEF Inv, CompileAddon, CanCompile
  <2>2. Compiled'
    BY <1>11, <2>1 DEF Inv, CompileAddon, CanCompile, Compiled, Built, Patching, SSL
  <2>3. Built'
    BY <1>11, <2>1 DEF Inv, CompileAddon, Built, SSL
  <2>4. pc' = IF win THEN "dlls" ELSE "done"
    BY <1>11 DEF CompileAddon
  <2> QED BY <1>11, <2>2, <2>3, <2>4 DEF Inv, CompileAddon, Patching
<1>12. CASE CopyRuntimeDlls
  <2>1. Compiled' /\ Built'
    BY <1>12 DEF Inv, CopyRuntimeDlls, Compiled, Built, SSL
  <2> QED BY <1>12, <2>1 DEF Inv, CopyRuntimeDlls, Patching
<1>13. CASE Fail
  BY <1>13 DEF Inv, Fail, Patching
<1>14. CASE Setback
  BY <1>14 DEF Inv, Setback, Stopped, InstallCut, ExtractCut, CloneCut, BuildCut, CompileCut, Patching
<1>15. CASE RunEmptyScript
  BY <1>15 DEF Inv, RunEmptyScript, Patching, Pinned
<1>16. CASE UNCHANGED vars
  BY <1>16 DEF Inv, vars, Patching, Pinned, Built, Compiled, SSL
<1> QED BY <1>1, <1>2, <1>3, <1>4, <1>5, <1>6, <1>7, <1>8, <1>9, <1>10, <1>11, <1>12, <1>13,
           <1>14, <1>15, <1>16 DEF Next, Step

LEMMA InvDone == Inv => DoneIsRight
  BY SetupAssumption DEF Inv, DoneIsRight, Built, Compiled, SSL

(***************************************************************************)
(* What the setup calls done is right: for every set of versions and       *)
(* OpenSSL trees, and however often it was cut off and run again.          *)
(***************************************************************************)
THEOREM DoneRight == Spec => []DoneIsRight
<1>1. Spec => []Inv
  BY InvInit, InvStep, PTL DEF Spec
<1> QED BY <1>1, InvDone, PTL
=============================================================================
