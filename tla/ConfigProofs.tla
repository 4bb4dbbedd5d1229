---------------------------- MODULE ConfigProofs ----------------------------
(***************************************************************************)
(* A configuration that is ready is one the relay can use, and the command *)
(* line goes before the environment and that before the defaults, for      *)
(* every command line and every environment.                               *)
(*                                                                         *)
(* The argument follows the phases: what loadConfig builds is well typed   *)
(* whatever the texts are (Built); what validateConfig lets through has    *)
(* its numbers in range and no IPv6 address (Valid); and the host is       *)
(* either an IPv4 literal by then or becomes one.                          *)
(***************************************************************************)
EXTENDS Config, TLAPS

Number == [n : Int, half : BOOLEAN]

Given == Text \cup {Unset, Bare}

Built ==
  /\ cfg \in [Setting -> UNION {Given, Number, {Bad}}]
  /\ cfg.mode \in {Is("caller"), Is("listener")}
  /\ \A s \in Numbers \cup Sizes \cup {"sourcePort"} : cfg[s] \in Number
  /\ cfg.sourceBindHost = IF cfg.mode = Is("listener") THEN cfg.sourceHost ELSE Is("v4")

Inv ==
  /\ argv \in Seq(Token)
  /\ env \in [Option -> Given]
  /\ args \in [Known -> Given]
  /\ i \in Nat \ {0}
  /\ phase \in {"validate", "resolve"} => Built
  /\ phase = "resolve" => Valid
  /\ ReadyIsUsable

LEMMA InvInit == Init => Inv
<1> SUFFICES ASSUME Init PROVE Inv
  OBVIOUS
<1>1. PICK in \in Inputs : argv = in[1] /\ env = in[2]
  BY DEF Init
<1>2. in \in Seq(Token) \X [Option -> Text \cup {Unset}]
  BY ConfigAssumption
<1>3. argv \in Seq(Token) /\ env \in [Option -> Given]
  BY <1>1, <1>2 DEF Given
<1>4. args \in [Known -> Given]
  BY DEF Init, Given
<1> QED BY <1>3, <1>4 DEF Init, Inv, ReadyIsUsable

LEMMA TokenText ==
  ASSUME argv \in Seq(Token)
  PROVE  \A j \in 1..Len(argv) : argv[j].t \in {"eq", "word"} => argv[j].text \in Text
<1>1. \A j \in 1..Len(argv) : argv[j] \in Token
  OBVIOUS
<1> SUFFICES ASSUME NEW t \in Token, t.t \in {"eq", "word"} PROVE t.text \in Text
  BY <1>1
<1>2. t \notin [t : {"--", "h", "x", "odd"}] /\ t \notin [t : {"long"}, key : STRING]
  OBVIOUS
<1> QED BY <1>2 DEF Token

(* The parser takes texts from the tokens, and gives an option one of them. *)
LEMMA ValueType ==
  ASSUME argv \in Seq(Token), i \in 1..Len(argv), argv[i].t \in {"long", "eq"}
  PROVE  Value(i) \in Given
<1>2. \A j \in 1..Len(argv) : argv[j].t \in {"eq", "word"} => argv[j].text \in Text
  BY TokenText
<1>3. CASE argv[i].t = "eq"
  BY <1>2, <1>3 DEF Value, Given
<1>4. CASE argv[i].t = "long"
  <2>1. CASE i = Len(argv) \/ IsFlag(argv[i + 1])
    BY <1>4, <2>1 DEF Value, Given
  <2>2. CASE i # Len(argv) /\ argv[i + 1].t = "word"
    <3>1. i + 1 \in 1..Len(argv)
      BY <2>2
    <3> QED BY <1>2, <1>4, <2>2, <3>1 DEF Value, Given, IsFlag
  <2> QED BY <2>1, <2>2 DEF IsFlag
<1> QED BY <1>3, <1>4

LEMMA DefaultNumber == \A o \in Numbers \cup Sizes : Default[o] \in Number
BY DEF Default, Option, Numbers, Sizes, Strings, Millis, Counts, KeyLens, RcvBufs, Int0,
       MiB, Number

LEMMA NumericText ==
  ASSUME NEW v \in Given
  PROVE  /\ v.is = "number" =>
              v \in [is : {"number"}, n : Int, half : BOOLEAN, unit : Nat \ {0}]
         /\ v.is = "literal" => v \in [is : {"literal"}, n : Int, half : BOOLEAN]
<1> SUFFICES ASSUME v.is \in {"number", "literal"}
             PROVE  \/ v \in [is : {"number"}, n : Int, half : BOOLEAN, unit : Nat \ {0}]
                    \/ v \in [is : {"literal"}, n : Int, half : BOOLEAN]
  OBVIOUS
<1>1. v # Unset /\ v # Bare /\ v \notin {Is(c) : c \in Class}
  BY DEF Unset, Bare, Is, Class
<1> QED BY <1>1 DEF Given, Text

(* num() and bytes() give a number or throw. *)
LEMMA ConversionType ==
  ASSUME NEW v \in Given
  PROVE  AsNumber(v) \in Number \cup {Bad} /\ AsSize(v) \in Number \cup {Bad}
<1>1. AsNumber(v) \in Number \cup {Bad}
  BY NumericText DEF AsNumber, Int0, Number
<1>2. AsSize(v) \in Number \cup {Bad}
  <2>1. CASE v.is = "number" /\ v.n >= 0
    <3>1. /\ v.n \in Int /\ v.unit \in Int /\ (v.unit + 1) \div 2 \in Int
      BY <2>1, NumericText
    <3> DEFINE extra == IF v.half THEN (v.unit + 1) \div 2 ELSE 0
    <3>2. extra \in Int /\ v.n * v.unit \in Int
      BY <3>1
    <3> QED BY <2>1, <3>2 DEF AsSize, Int0, Number
  <2>2. CASE ~(v.is = "number" /\ v.n >= 0)
    BY <2>2 DEF AsSize
  <2> QED BY <2>1, <2>2
<1> QED BY <1>1, <1>2

LEMMA ConvertType ==
  ASSUME Inv, NEW o \in Numbers \cup Sizes
  PROVE  Convert(o) \in Number \cup {Bad}
<1>1. CASE Pick(o) = Default[o]
  BY <1>1, DefaultNumber DEF Convert
<1>2. CASE Pick(o) # Default[o]
  <2>1. o \in Option /\ o \in Known
    BY DEF Option, Known
  <2>2. Pick(o) \in Given
    BY <1>2, <2>1 DEF Pick, Inv
  <2> QED BY <1>2, <2>2, ConversionType DEF Convert
<1> QED BY <1>1, <1>2

LEMMA DefaultString ==
  /\ \A o \in Strings : Default[o] \in {Is("caller"), Is("v4"), Unset}
  /\ Default["source"] = Unset
<1>1. \A o \in Strings : o \in Option
  BY DEF Option
<1>2. Default["source"] = Unset
  BY DEF Default, Option, Strings, KeyLens
<1>3. \A o \in Strings : o # "mode" /\ o # "listenHost" => Default[o] = Unset
  BY <1>1 DEF Default, Strings, KeyLens
<1>4. Default["mode"] = Is("caller") /\ Default["listenHost"] = Is("v4")
  BY DEF Default, Option, Strings, KeyLens
<1> QED BY <1>2, <1>3, <1>4

LEMMA NotReady == ASSUME phase' # "ready" PROVE ReadyIsUsable'
BY DEF ReadyIsUsable

LEMMA LoadStep == ASSUME Inv, Load PROVE Inv'
<1> DEFINE u == Pick("source")
           mode == Pick("mode")
           new == [o \in Option \ {"source"} |-> Convert(o)]
           Taken == /\ mode \in {Is("caller"), Is("listener")} /\ UrlTaken(u, mode)
                    /\ \A o \in Option \ {"source"} : new[o] # Bad
<1>1. CASE ~Taken
  <2>1. phase' = "failed" /\ UNCHANGED <<argv, env, i, args>>
    BY <1>1 DEF Load
  <2> QED BY <2>1, NotReady DEF Inv
<1>2. CASE Taken
  <2>1. /\ phase' = "validate"
        /\ cfg' = [s \in Setting |->
             CASE s = "sourceHost" -> u.host
               [] s = "sourcePort" -> Int0(u.port)
               [] s = "sourceBindHost" -> IF mode = Is("listener") THEN u.host ELSE Is("v4")
               [] s = "streamId" -> IF u.streamId = Empty THEN Unset ELSE u.streamId
               [] OTHER -> new[s]]
    BY <1>2 DEF Load
  <2>2. /\ {"mode", "source"} \subseteq Option /\ Option \subseteq Known
        /\ {"sourceHost", "sourcePort", "sourceBindHost", "streamId"} \cap Option = {}
        /\ "source" \notin Numbers \cup Sizes /\ Numbers \cup Sizes \subseteq Option
        /\ "mode" \notin Numbers \cup Sizes
    BY DEF Option, Known, Numbers, Sizes, Strings, Millis, Counts, KeyLens, RcvBufs
  <2>3. u \in Given
    BY <2>2, DefaultString DEF Pick, Inv, Given
  <2>4. u.host \in Given /\ u.port \in Nat /\ u.streamId \in Given
    <3>1. u.is = "url"
      BY <1>2 DEF UrlTaken
    <3>2. u # Unset /\ u # Bare /\ u \notin {Is(c) : c \in Class}
      BY <3>1 DEF Unset, Bare, Is, Class
    <3>3. u \in [is : {"url"}, form : UrlForm, host : {Is(c) : c \in Class},
                 port : Nat, stale : BOOLEAN, streamId : {Unset} \cup {Is(c) : c \in Class}]
      BY <2>3, <3>1, <3>2 DEF Given, Text
    <3> QED BY <3>3 DEF Given, Text
  <2>5. \A o \in Numbers \cup Sizes : new[o] \in Number
    BY <1>2, <2>2, ConvertType
  <2>6. \A o \in Option \ {"source"} : new[o] \in UNION {Given, Number, {Bad}}
    <3> SUFFICES ASSUME NEW o \in Option \ {"source"}, o \notin Numbers \cup Sizes
                 PROVE  Convert(o) \in Given
      BY <2>5
    <3>1. o \in Strings
      BY DEF Option
    <3>2. Default[o] \in Given
      <4>1. {Is("caller"), Is("v4"), Unset} \subseteq Given
        BY DEF Given, Text, Class
      <4> QED BY <3>1, <4>1, DefaultString
    <3>3. Pick(o) \in Given
      BY <2>2, <3>2 DEF Pick, Inv
    <3> QED BY <3>3 DEF Convert
  <2>7. new["mode"] = mode
    BY <2>2 DEF Convert
  <2>8. cfg' \in [Setting -> UNION {Given, Number, {Bad}}]
    <3>1. Int0(u.port) \in Number /\ Is("v4") \in Given /\ Unset \in Given
      BY <2>4 DEF Int0, Number, Given, Text, Class
    <3> QED BY <2>1, <2>4, <2>6, <3>1 DEF Setting
  <2>9. cfg'.mode = mode /\ cfg'["sourcePort"] = Int0(u.port)
        /\ cfg'.sourceHost = u.host
        /\ cfg'.sourceBindHost = IF mode = Is("listener") THEN u.host ELSE Is("v4")
    BY <2>1, <2>2, <2>7 DEF Setting
  <2>10. \A s \in Numbers \cup Sizes \cup {"sourcePort"} : cfg'[s] \in Number
    <3>1. Int0(u.port) \in Number
      BY <2>4 DEF Int0, Number
    <3>2. \A s \in Numbers \cup Sizes : cfg'[s] = new[s]
      BY <2>1, <2>2 DEF Setting
    <3> QED BY <2>5, <2>9, <3>1, <3>2
  <2>11. Built'
    BY <1>2, <2>8, <2>9, <2>10 DEF Built
  <2> QED BY <2>1, <2>11, NotReady DEF Load, Inv
<1> QED BY <1>1, <1>2

(* What Valid says of the numbers, as ReadyIsUsable does. *)
LEMMA RangesHold == ASSUME Built, Valid PROVE NumbersUsable
<1>1. \A v \in Number : \A a, b \in Int : Whole(v, a, b) => v \in IntIn(a, b)
  <2> SUFFICES ASSUME NEW v \in Number, NEW a \in Int, NEW b \in Int, Whole(v, a, b)
               PROVE  v \in IntIn(a, b)
    OBVIOUS
  <2>1. v.half = FALSE
    BY Zenon DEF Number, Whole
  <2>2. v.n \in a..b
    BY DEF Number, Whole
  <2>3. v = [n |-> v.n, half |-> v.half]
    BY DEF Number
  <2> QED BY <2>1, <2>2, <2>3 DEF IntIn
<1>2. \A s \in Millis \cup Counts \cup Sizes \cup {"sourcePort", "listenPort"} : cfg[s] \in Number
  BY DEF Built, Numbers
<1>3. /\ \A s \in {"sourcePort", "listenPort"} : Whole(cfg[s], 1, 65535)
      /\ \A s \in Millis : Whole(cfg[s], 0, Int32Max)
      /\ \A s \in Counts \cup Sizes : Whole(cfg[s], 1, Int32Max)
      /\ \A s \in RcvBufs : cfg[s].n <= FcWindow
  BY DEF Valid, NumbersAllowed
<1>4. 0 \in Int /\ 1 \in Int /\ 65535 \in Int /\ Int32Max \in Int
  BY ConfigAssumption
<1> QED BY <1>1, <1>2, <1>3, <1>4 DEF NumbersUsable

LEMMA ResolveStep == ASSUME Inv, Resolve PROVE Inv'
<1>1. Built /\ Valid
  BY DEF Inv, Resolve
<1>2. /\ {"mode", "sourceHost", "sourceBindHost", "listenHost", "callerBindHost"} \subseteq Setting
      /\ {"sourceHost", "sourceBindHost"} \cap (Numbers \cup Sizes \cup {"sourcePort"}) = {}
  BY DEF Setting, Option, Numbers, Sizes, Strings, Millis, Counts, KeyLens, RcvBufs
<1>3. CASE phase' = "failed"
  BY <1>3 DEF Resolve, Inv, ReadyIsUsable
<1>4. CASE phase' = "ready"
  <2>1. cfg.sourceHost # Is("v6")
    BY <1>1 DEF Valid, SourceHostAllowed
  <2>2. cfg' = [cfg EXCEPT !.sourceHost = Is("v4"), !.sourceBindHost = Is("v4")]
    <3>1. CASE cfg.sourceHost = Empty
      BY <1>4, <3>1 DEF Resolve, Empty, Is
    <3>2. CASE cfg.sourceHost # Empty
      <4>1. ResolveTo(Is("v4"))
        BY <1>4, <2>1, <3>2 DEF Resolve
      <4>2. cfg.mode # Is("listener") => cfg.sourceBindHost = Is("v4")
        BY <1>1 DEF Built
      <4> QED BY <1>1, <1>2, <4>1, <4>2 DEF ResolveTo, Built
    <3> QED BY <3>1, <3>2
  <2>3. cfg'.sourceHost = Is("v4") /\ cfg'.sourceBindHost = Is("v4")
    BY <1>1, <1>2, <2>2 DEF Built
  <2>4. \A s \in Setting \ {"sourceHost", "sourceBindHost"} : cfg'[s] = cfg[s]
    BY <1>1, <2>2 DEF Built
  <2>5. /\ cfg'.mode = cfg.mode /\ cfg'.listenHost = cfg.listenHost
        /\ cfg'.callerBindHost = cfg.callerBindHost
        /\ cfg'.upstreamPassphrase = cfg.upstreamPassphrase
        /\ cfg'.downstreamPassphrase = cfg.downstreamPassphrase
        /\ cfg'.upstreamPbKeyLen = cfg.upstreamPbKeyLen
        /\ cfg'.downstreamPbKeyLen = cfg.downstreamPbKeyLen
    BY <2>4 DEF Setting, Option, Strings, Numbers, KeyLens
  <2>6. \A s \in Numbers \cup Sizes \cup {"sourcePort"} : cfg'[s] = cfg[s]
    <3>1. Numbers \cup Sizes \cup {"sourcePort"} \subseteq Setting
      BY DEF Setting, Option, Numbers, Sizes, Strings, Millis, Counts, KeyLens, RcvBufs
    <3> QED BY <2>4, <1>2, <3>1
  <2>7. NumbersUsable'
    <3>1. \A s \in Millis \cup Counts \cup Sizes \cup {"sourcePort", "listenPort"} \cup RcvBufs :
            cfg'[s] = cfg[s]
      BY <2>6 DEF Numbers, Sizes
    <3> QED BY <1>1, <3>1, RangesHold DEF NumbersUsable
  <2>8. HostsUsable'
    BY <1>1, <2>3, <2>5 DEF Built, Valid, BindHostsAllowed, HostsUsable
  <2>9. KeysUsable'
    BY <1>1, <2>5 DEF Valid, PassphraseAllowed, KeysUsable
  <2>10. ReadyIsUsable'
    BY <2>7, <2>8, <2>9 DEF ReadyIsUsable
  <2> QED BY <1>4, <2>10 DEF Resolve, Inv
<1> QED BY <1>3, <1>4 DEF Resolve

LEMMA ParseStep ==
  ASSUME Inv, ParseOption \/ ParseShort \/ ParseOther \/ EndParse
  PROVE  Inv'
<1>1. CASE ParseOption
  <2>1. Value(i) \in Given
    BY <1>1, ValueType DEF ParseOption, Inv
  <2>2. args' \in [Known -> Given] /\ phase' \in {"parse", "failed"}
    BY <1>1, <2>1 DEF ParseOption, Set, Inv
  <2>3. i' \in Nat \ {0} /\ UNCHANGED <<argv, env>>
    BY <1>1 DEF ParseOption, Inv
  <2> QED BY <2>2, <2>3, NotReady DEF Inv
<1>2. CASE ParseShort
  <2>1. args' \in [Known -> Given] /\ phase' \in {"parse", "failed"}
    BY <1>2 DEF ParseShort, Inv, Given
  <2>2. i' \in Nat \ {0} /\ UNCHANGED <<argv, env>>
    BY <1>2 DEF ParseShort, Inv
  <2> QED BY <2>1, <2>2, NotReady DEF Inv
<1>3. CASE ParseOther
  BY <1>3 DEF ParseOther, Inv, ReadyIsUsable
<1>4. CASE EndParse
  BY <1>4 DEF EndParse, Inv, ReadyIsUsable
<1> QED BY <1>1, <1>2, <1>3, <1>4

LEMMA InvNext == Inv /\ [Next]_vars => Inv'
<1> SUFFICES ASSUME Inv, [Next]_vars PROVE Inv'
  OBVIOUS
<1>1. CASE Validate
  <2>1. Built' /\ (Valid' <=> Valid)
    BY <1>1 DEF Validate, Inv, Built, Valid, SourceHostAllowed, BindHostsAllowed, NumbersAllowed
  <2> QED BY <1>1, <2>1 DEF Validate, Inv, ReadyIsUsable
<1>2. CASE Decided \/ UNCHANGED vars
  <2>1. UNCHANGED vars
    BY <1>2 DEF Decided
  <2> QED
    <3>1. (Built' <=> Built) /\ (Valid' <=> Valid)
      BY <2>1 DEF vars, Built, Valid, SourceHostAllowed, BindHostsAllowed, NumbersAllowed
    <3>2. ReadyIsUsable' <=> ReadyIsUsable
      BY <2>1 DEF vars, ReadyIsUsable, HostsUsable, NumbersUsable, KeysUsable
    <3> QED BY <2>1, <3>1, <3>2 DEF vars, Inv
<1> QED BY <1>1, <1>2, ParseStep, LoadStep, ResolveStep DEF Next

(***************************************************************************)
(* Whatever the command line, the environment and the resolver say, the    *)
(* relay starts only with a configuration it and the native binding can    *)
(* use (src/config.js:211-240, 314-319).                                   *)
(***************************************************************************)
THEOREM Usable == Spec => []ReadyIsUsable
<1>1. Inv => ReadyIsUsable
  BY DEF Inv
<1> QED BY <1>1, InvInit, InvNext, PTL DEF Spec

-----------------------------------------------------------------------------
(* The token at j is option o, with or without a value. *)
Names(j, o) == argv[j].t \in {"long", "eq"} /\ argv[j].key = o

Passed == 1..(i - 1)

(* What the parser has collected for o is the value of its last occurrence *)
(* among the tokens passed.                                                *)
Collected(o) ==
  \/ args[o] = Unset /\ \A j \in Passed : ~Names(j, o)
  \/ \E j \in Passed : /\ Names(j, o) /\ args[o] = Value(j)
                       /\ \A k \in Passed : Names(k, o) => k <= j

ParseInv ==
  /\ i \in 1..(Len(argv) + 1)
  /\ \A j \in Passed : argv[j].t # "--"
  /\ \A o \in Option : Collected(o)

PInv ==
  /\ Inv
  /\ phase = "parse" => ParseInv
  /\ Precedence

LEMMA Options == Option \subseteq Known /\ "h" \notin Option
  BY DEF Option, Known, Numbers, Sizes, Strings, Millis, Counts, KeyLens, RcvBufs

LEMMA PInvInit == Init => PInv
<1> SUFFICES ASSUME Init PROVE PInv
  OBVIOUS
<1>1. Inv
  BY InvInit
<1>2. Passed = {} /\ i \in 1..(Len(argv) + 1)
  BY <1>1 DEF Init, Passed, Inv
<1>3. \A o \in Option : args[o] = Unset
  BY Options DEF Init
<1> QED BY <1>1, <1>2, <1>3 DEF Init, PInv, ParseInv, Collected, Precedence

(* A text is neither no text nor the lack of a value. *)
LEMMA TextIsSet == ASSUME NEW v \in Text PROVE v # Unset
<1>1. Unset.is = "unset" /\ Bare.is = "bare"
  BY DEF Unset, Bare, Is
<1>2. ASSUME NEW c \in Class PROVE Is(c).is # "unset" /\ Is(c).is # "bare"
  BY DEF Is, Class
<1>3. v.is # "unset"
  BY <1>2 DEF Text
<1> QED BY <1>1, <1>3

LEMMA ParseOptionKeeps == ASSUME PInv, ParseOption, phase' = "parse" PROVE ParseInv'
<1> DEFINE key == argv[i].key
<1>1. /\ phase = "parse" /\ i \in 1..Len(argv) /\ argv[i].t \in {"long", "eq"}
      /\ i' = (IF argv[i].t = "long" /\ Value(i) # Bare THEN i + 2 ELSE i + 1)
      /\ argv' = argv /\ Len(argv) \in Nat /\ i \in Nat
  BY DEF ParseOption, PInv, Inv
<1>2. args \in [Known -> Given] /\ args' = [args EXCEPT ![key] = Value(i)] /\ key \in Known
  BY <1>1 DEF ParseOption, Set, PInv, Inv
<1>3. ParseInv
  BY <1>1 DEF PInv
<1>4. \/ i' = i + 1
      \/ i' = i + 2 /\ i + 1 <= Len(argv) /\ argv[i + 1].t = "word"
  BY <1>1 DEF Value, IsFlag
<1>5. i' \in 1..(Len(argv) + 1)
  BY <1>1, <1>4
<1>6. \A j \in Passed' : j \in Passed \/ j = i \/ (j = i + 1 /\ argv[j].t = "word")
  BY <1>1, <1>4 DEF Passed
<1>7. Passed \subseteq Passed' /\ i \in Passed' /\ \A j \in Passed : j \in Int /\ j < i
  BY <1>1, <1>4 DEF Passed
<1>8. \A j \in Passed' : argv[j].t # "--"
  BY <1>1, <1>3, <1>6 DEF ParseInv
<1>9. ASSUME NEW o \in Option PROVE Collected(o)'
  <2>1. \A j : (Names(j, o)' <=> Names(j, o)) /\ Value(j)' = Value(j)
    BY <1>1 DEF Names, Value, IsFlag
  <2>2. CASE o = key
    <3>1. PICK n : n = i
      OBVIOUS
    <3>2. Names(n, o)' /\ args'[o] = Value(n)'
      BY <1>1, <1>2, <2>1, <2>2, <3>1 DEF Names
    <3>3. ASSUME NEW k \in Passed', Names(k, o)' PROVE k <= n
      <4>1. ~(k = i + 1 /\ argv[k].t = "word")
        BY <2>1, <3>3 DEF Names
      <4>2. k \in Passed \/ k = i
        BY <1>6, <3>3, <4>1
      <4> QED BY <1>1, <1>7, <3>1, <4>2
    <3> QED BY <1>7, <3>1, <3>2, <3>3 DEF Collected
  <2>3. CASE o # key
    <3>1. args'[o] = args[o]
      BY <1>2, <2>3, Options
    <3>2. ASSUME NEW k \in Passed', Names(k, o)' PROVE k \in Passed /\ Names(k, o)
      <4>1. Names(k, o)
        BY <2>1, <3>2
      <4>2. k # i /\ ~(k = i + 1 /\ argv[k].t = "word")
        BY <2>3, <4>1 DEF Names
      <4> QED BY <1>6, <3>2, <4>1, <4>2
    <3>3. Collected(o)
      BY <1>3 DEF ParseInv
    <3>4. CASE args[o] = Unset /\ \A j \in Passed : ~Names(j, o)
      BY <3>1, <3>2, <3>4 DEF Collected
    <3>5. CASE \E j \in Passed : /\ Names(j, o) /\ args[o] = Value(j)
                                 /\ \A k \in Passed : Names(k, o) => k <= j
      <4>1. PICK j \in Passed : /\ Names(j, o) /\ args[o] = Value(j)
                                /\ \A k \in Passed : Names(k, o) => k <= j
        BY <3>5
      <4>2. j \in Passed' /\ Names(j, o)' /\ args'[o] = Value(j)'
        BY <1>7, <2>1, <3>1, <4>1
      <4> QED BY <3>2, <4>1, <4>2 DEF Collected
    <3> QED BY <3>3, <3>4, <3>5 DEF Collected
  <2> QED BY <2>2, <2>3
<1> QED BY <1>1, <1>5, <1>8, <1>9 DEF ParseInv

(* A token that is no option is passed. *)
LEMMA PassKeeps ==
  ASSUME PInv, phase = "parse", i \in 1..Len(argv), argv[i].t \in {"h", "odd", "word"},
         i' = i + 1, argv' = argv, \A o \in Option : args'[o] = args[o]
  PROVE  ParseInv'
<1>1. ParseInv /\ Len(argv) \in Nat
  BY DEF PInv, Inv
<1>2. Passed' = Passed \cup {i}
  BY DEF Passed
<1>3. ASSUME NEW o \in Option PROVE Collected(o)'
  <2>1. \A j : (Names(j, o)' <=> Names(j, o)) /\ Value(j)' = Value(j)
    BY DEF Names, Value, IsFlag
  <2>2. ~Names(i, o) /\ Collected(o) /\ args'[o] = args[o]
    BY <1>1 DEF Names, ParseInv
  <2> QED BY <1>2, <2>1, <2>2 DEF Collected
<1>4. i' \in 1..(Len(argv') + 1) /\ \A j \in Passed' : argv'[j].t # "--"
  BY <1>1, <1>2 DEF ParseInv
<1> QED BY <1>3, <1>4 DEF ParseInv

LEMMA ParseKeeps ==
  ASSUME PInv, ParseOption \/ ParseShort \/ ParseOther, phase' = "parse" PROVE ParseInv'
<1>1. CASE ParseOption
  BY <1>1, ParseOptionKeeps
<1>2. CASE ParseShort
  <2>1. argv[i].t = "h" /\ args' = [args EXCEPT !["h"] = Bare]
    BY <1>2 DEF ParseShort
  <2>2. \A o \in Option : args'[o] = args[o]
    BY <1>2, <2>1, Options DEF ParseShort, PInv, Inv
  <2> QED BY <1>2, <2>1, <2>2, PassKeeps DEF ParseShort, PInv, Inv
<1>3. CASE ParseOther
  BY <1>3, PassKeeps DEF ParseOther, PInv, Inv
<1> QED BY <1>1, <1>2, <1>3

(* The last occurrence, where o is given at all, is the one collected: the  *)
(* parser would have failed on an occurrence without a value.              *)
LEMMA EndParseKeeps == ASSUME PInv, EndParse, phase' = "load" PROVE Precedence'
<1>1. /\ ParseInv /\ Len(argv) \in Nat /\ argv' = argv /\ args' = args /\ env' = env
      /\ i <= Len(argv) => argv[i].t = "--"
      /\ \A o \in Option : args[o] \notin {Bare, Empty}
  BY DEF EndParse, PInv, Inv
<1>2. Heard = Passed
  BY <1>1 DEF Heard, Passed, ParseInv
<1>3. ASSUME NEW o \in Option
      PROVE  Pick(o) = IF GivenAt(o) # {}
                       THEN LET j == GivenLast(o) IN
                            IF argv[j].t = "eq" THEN argv[j].text ELSE argv[j + 1].text
                       ELSE IF env[o] \notin {Unset, Empty} THEN env[o] ELSE Default[o]
  <2>1. CASE args[o] = Unset /\ \A j \in Passed : ~Names(j, o)
    <3>1. GivenAt(o) = {}
      BY <1>2, <2>1 DEF GivenAt, Names
    <3> QED BY <2>1, <3>1 DEF Pick
  <2>2. CASE \E j \in Passed : /\ Names(j, o) /\ args[o] = Value(j)
                               /\ \A k \in Passed : Names(k, o) => k <= j
    <3>1. PICK j \in Passed : /\ Names(j, o) /\ args[o] = Value(j)
                              /\ \A k \in Passed : Names(k, o) => k <= j
      BY <2>2
    <3>2. Value(j) # Bare
      BY <1>1, <3>1
    <3>3. j \in 1..Len(argv) /\ j \in Int
      BY <1>1, <3>1 DEF Passed, ParseInv
    <3>4. \/ argv[j].t = "eq" /\ Value(j) = argv[j].text
          \/ /\ argv[j].t = "long" /\ Value(j) = argv[j + 1].text
             /\ j + 1 \in 1..Len(argv) /\ argv[j + 1].t = "word"
      BY <1>1, <3>1, <3>2, <3>3 DEF Value, IsFlag, Names
    <3>5. j \in GivenAt(o)
      <4>1. CASE argv[j].t = "long"
        <5>1. j + 1 \in Heard
          BY <1>1, <1>2, <3>1, <3>3, <3>4, <4>1 DEF Heard, Passed, ParseInv
        <5> QED BY <1>2, <3>1, <3>4, <4>1, <5>1 DEF GivenAt, Names
      <4> QED BY <1>2, <3>1, <3>4, <4>1 DEF GivenAt, Names
    <3>6. \A k \in GivenAt(o) : k <= j /\ k \in Int
      BY <1>2, <3>1 DEF GivenAt, Names, Passed
    <3>7. GivenLast(o) = j
      <4>1. /\ GivenLast(o) \in GivenAt(o)
            /\ \A k \in GivenAt(o) : k <= GivenLast(o)
        BY <3>5, <3>6 DEF GivenLast
      <4>2. PICK m : m = GivenLast(o)
        OBVIOUS
      <4>3. m \in Int /\ m <= j /\ j <= m
        BY <3>5, <3>6, <4>1, <4>2
      <4> QED BY <3>3, <4>2, <4>3
    <3>8. Value(j) # Unset
      BY <1>1, <3>3, <3>4, TextIsSet, TokenText DEF PInv, Inv
    <3> QED BY <3>1, <3>4, <3>5, <3>7, <3>8 DEF Pick
  <2> QED BY <1>1, <2>1, <2>2 DEF ParseInv, Collected
<1>4. \A o : /\ Pick(o)' = Pick(o) /\ GivenAt(o)' = GivenAt(o) /\ GivenLast(o)' = GivenLast(o)
  BY <1>1 DEF Pick, GivenAt, GivenLast, Heard
<1> QED BY <1>1, <1>3, <1>4 DEF Precedence

LEMMA PInvStep == PInv /\ [Next]_vars => PInv'
<1> SUFFICES ASSUME PInv, [Next]_vars PROVE (phase' = "parse" => ParseInv') /\ Precedence'
  BY InvNext DEF PInv
<1>1. CASE ParseOption \/ ParseShort \/ ParseOther
  <2>1. phase' \in {"parse", "failed"}
    BY <1>1 DEF ParseOption, ParseShort, ParseOther, Set
  <2> QED BY <1>1, <2>1, ParseKeeps DEF Precedence
<1>2. CASE EndParse
  <2>1. phase' \in {"failed", "load", "help"}
    BY <1>2 DEF EndParse
  <2> QED BY <1>2, <2>1, EndParseKeeps DEF Precedence
<1>3. CASE Load \/ Validate \/ Resolve
  <2>1. /\ phase \in {"load", "validate", "resolve"} /\ phase' # "parse"
        /\ argv' = argv /\ env' = env /\ args' = args
    BY <1>3 DEF Load, Validate, Resolve
  <2>2. \A o : /\ Pick(o)' = Pick(o) /\ GivenAt(o)' = GivenAt(o)
               /\ GivenLast(o)' = GivenLast(o)
    BY <2>1 DEF Pick, GivenAt, GivenLast, Heard
  <2> QED BY <2>1, <2>2 DEF PInv, Precedence
<1>4. CASE Decided \/ UNCHANGED vars
  <2>1. UNCHANGED vars
    BY <1>4 DEF Decided
  <2>2. (ParseInv' <=> ParseInv) /\ (Precedence' <=> Precedence)
    BY <2>1 DEF vars, ParseInv, Collected, Names, Passed, Value, IsFlag,
                Precedence, Pick, GivenAt, GivenLast, Heard
  <2> QED BY <2>1, <2>2 DEF vars, PInv
<1> QED BY <1>1, <1>2, <1>3, <1>4 DEF Next

(***************************************************************************)
(* For every command line and every environment: the last occurrence of an *)
(* option on the command line counts, then the environment, then the       *)
(* default, as README.md:99 says and parseArgs and loadConfig do.          *)
(***************************************************************************)
THEOREM PrecedenceHolds == Spec => []Precedence
<1>1. PInv => Precedence
  BY DEF PInv
<1> QED BY <1>1, PInvInit, PInvStep, PTL DEF Spec
=============================================================================
