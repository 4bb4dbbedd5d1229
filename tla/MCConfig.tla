------------------------------ MODULE MCConfig ------------------------------
(***************************************************************************)
(* Two families of inputs.  One is of command lines, every sequence of up  *)
(* to MaxTokens tokens over four options and the odd forms, against an     *)
(* environment that is bare and one that sets the same options.  The other *)
(* is of values: a bare command line against environments that set a mode, *)
(* a source and up to one more option to every kind of text.               *)
(***************************************************************************)
EXTENDS Config

CONSTANT MaxTokens

Plain == Url("full", Is("v4"), 9000, FALSE, Unset)

Urls == {Url(f, h, p, s, id) :
           f \in UrlForm,
           h \in {Empty, Is("v4"), Is("v6"), Is("word")},
           p \in {0, 9000, 65536},
           s \in BOOLEAN,
           id \in {Unset, Empty, Is("phrase"), Is("overlong")}}

Texts ==
  {Is(c) : c \in Class}
    \cup {Num(n, h, u) : n \in {-1, 0, 1, 16, 65536}, h \in BOOLEAN, u \in {1, 1024}}
    \cup {Num(40, FALSE, MiB), Literal(16)} \cup {Num(n, FALSE, 1) : n \in {Int32Max, Int32Max + 1}}

Tokens ==
  {[t |-> t] : t \in {"--", "h", "x", "odd"}}
    \cup {[t |-> "long", key |-> k] : k \in {"mode", "maxClients", "help", "typo"}}
    \cup {[t |-> "eq", key |-> "maxClients", text |-> v] : v \in {Empty, Num(2, FALSE, 1)}}
    \cup {[t |-> "eq", key |-> "mode", text |-> Is("caller")]}
    \cup {[t |-> "word", text |-> v] : v \in {Is("listener"), Num(3, FALSE, 1)}}

CommandLines == UNION {[1..n -> Tokens] : n \in 0..MaxTokens}

NothingSet == [o \in Option |-> Unset]

WithSource(u) == [NothingSet EXCEPT !["source"] = u]

Both == [WithSource(Plain) EXCEPT !["mode"] = Is("listener"), !["maxClients"] = Num(4, FALSE, 1)]

Environments ==
  {[WithSource(u) EXCEPT !["mode"] = m] : u \in Urls, m \in {Unset, Is("listener"), Is("word")}}
    \cup {[Both EXCEPT ![o] = v] : o \in Option \ {"source"}, v \in Texts}
    \cup {[Both EXCEPT !["upstreamPassphrase"] = Is("phrase"), !["upstreamPbKeyLen"] = v] : v \in Texts}
    \cup {NothingSet}

MCInputs ==
  (CommandLines \X {WithSource(Plain), Both}) \cup ({<<>>} \X Environments)
=============================================================================
