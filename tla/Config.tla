------------------------------- MODULE Config -------------------------------
(***************************************************************************)
(* From the command line and the environment to the configuration the      *)
(* relay runs with: parseArgs, loadConfig, validateConfig and              *)
(* resolveSourceHost of src/config.js, and what main() of index.js makes   *)
(* of their result.                                                        *)
(*                                                                         *)
(* A text is abstracted to what the program can tell about it.  "number"   *)
(* is one that reads as n, or n and a half, times unit (the k, m or g of a *)
(* byte size); "literal" one of the other forms Number() knows, such as    *)
(* 1e3 and 0x10; "url" a source URL; "phrase" any text of 10 to 79 bytes,  *)
(* the other classes being shorter; "word" any other.  Numbers are         *)
(* [n |-> integer part, half |-> whether a half comes on top].             *)
(***************************************************************************)
EXTENDS Integers, Sequences, FiniteSets

Is(c) == [is |-> c]
Empty == Is("empty")
Num(n, half, unit) == [is |-> "number", n |-> n, half |-> half, unit |-> unit]
Literal(n) == [is |-> "literal", n |-> n, half |-> FALSE]
Int0(n) == [n |-> n, half |-> FALSE]

(* A URL: its parts, and its form, which tells the parsers that take it:   *)
(* "hostless" has a port and no host, "pathed" a path or a fragment,       *)
(* "full" neither.                                                         *)
Url(form, host, port, stale, streamId) ==
  [is |-> "url", form |-> form, host |-> host, port |-> port, stale |-> stale,
   streamId |-> streamId]

Unset == Is("unset")   \* undefined
Bare  == Is("bare")    \* true: an option without a value
Bad   == Is("bad")     \* the conversion throws

(* The value options, by what becomes of their text. *)
Millis   == {"upstreamLatency", "downstreamLatency", "upstreamConnTimeout", "peerIdleTimeout"}
Counts   == {"backlog", "maxClients"}
KeyLens  == {"upstreamPbKeyLen", "downstreamPbKeyLen"}
Numbers  == Millis \cup Counts \cup KeyLens \cup {"listenPort", "statsInterval"}
RcvBufs  == {"rcvBuf", "egressRcvBuf"}
Sizes    == RcvBufs \cup {"sndBuf", "upstreamSndBuf", "udpRcvBuf", "udpSndBuf",
                          "upstreamUdpSndBuf", "egressUdpRcvBuf"}
Strings  == {"source", "mode", "upstreamPassphrase", "downstreamPassphrase",
             "callerBindHost", "listenHost"}
Option   == Numbers \cup Sizes \cup Strings
Known    == Option \cup {"help", "h"}

UrlForm == {"full", "hostless", "pathed"}

(* What is not a URL, a number or one of these is a "word". *)
Class == {"empty", "blank", "word", "phrase", "overlong", "caller", "listener", "v4", "v6"}

Text ==
  {Is(c) : c \in Class}
    \cup [is : {"number"}, n : Int, half : BOOLEAN, unit : Nat \ {0}]
    \cup [is : {"literal"}, n : Int, half : BOOLEAN]
    \cup [is : {"url"}, form : UrlForm, host : {Is(c) : c \in Class}, port : Nat,
          stale : BOOLEAN, streamId : {Unset} \cup {Is(c) : c \in Class}]

Token ==
  [t : {"--", "h", "x", "odd"}]
    \cup [t : {"long"}, key : STRING] \cup [t : {"eq"}, key : STRING, text : Text]
    \cup [t : {"word"}, text : Text]

CONSTANTS
  Inputs,      \* the pairs <<command line, environment>> to start from
  Int32Max     \* INT32_MAX

ASSUME ConfigAssumption ==
  /\ Inputs \subseteq Seq(Token) \X [Option -> Text \cup {Unset}]
  /\ Int32Max \in Nat

MiB == 1048576

(* config.js: what an option is when neither the command line nor the      *)
(* environment says anything.                                              *)
Default ==
  [o \in Option |->
     CASE o = "mode" -> Is("caller")
       [] o = "listenHost" -> Is("v4")
       [] o \in Strings \ {"mode", "listenHost"} -> Unset
       [] o \in {"upstreamLatency", "downstreamLatency"} -> Int0(120)
       [] o = "upstreamConnTimeout" -> Int0(3000)
       [] o = "peerIdleTimeout" -> Int0(5000)
       [] o = "backlog" -> Int0(128)
       [] o = "maxClients" -> Int0(30)
       [] o \in KeyLens -> Int0(16)
       [] o = "listenPort" -> Int0(9001)
       [] o = "statsInterval" -> Int0(60)
       [] o \in {"rcvBuf", "udpRcvBuf"} -> Int0(8 * MiB)
       [] o = "sndBuf" -> Int0(4 * MiB)
       [] OTHER -> Int0(MiB)]

(* FC_BUFS * RCVBUF_CELL_SIZE *)
FcWindow == 25600 * 1472

VARIABLES
  argv, env,   \* the input
  phase,
  i,           \* the token parseArgs looks at
  args,        \* what parseArgs has collected
  cfg          \* the configuration

vars == <<argv, env, phase, i, args, cfg>>

Setting == (Option \ {"source"}) \cup {"sourceHost", "sourcePort", "sourceBindHost", "streamId"}

Init ==
  /\ \E in \in Inputs : argv = in[1] /\ env = in[2]
  /\ phase = "parse" /\ i = 1
  /\ args = [k \in Known |-> Unset]
  /\ cfg = [s \in Setting |-> Unset]

-----------------------------------------------------------------------------
(***************************************************************************)
(* parseArgs.  A token is "--", "--key", "--key=text", "-h", "-x" for      *)
(* another letter, an "odd" one (a lone dash, or a dash and a word, which  *)
(* counts as a flag but matches no branch), or a "word".                   *)
(***************************************************************************)
IsFlag(t) == t.t # "word"

Value(j) ==
  IF argv[j].t = "eq" THEN argv[j].text
  ELSE IF j = Len(argv) \/ IsFlag(argv[j + 1]) THEN Bare
  ELSE argv[j + 1].text

(* Mutant: the first occurrence of an option wins. *)
SetFirst(key, value) ==
  IF key \notin Known THEN phase' = "failed" /\ UNCHANGED args
  ELSE /\ args' = IF args[key] = Unset THEN [args EXCEPT ![key] = value] ELSE args
       /\ UNCHANGED phase

(* An option not known is an error at once. *)
Set(key, value) ==
  IF key \notin Known THEN phase' = "failed" /\ UNCHANGED args
  ELSE args' = [args EXCEPT ![key] = value] /\ UNCHANGED phase

ParseOption ==
  /\ phase = "parse" /\ i <= Len(argv) /\ argv[i].t \in {"long", "eq"}
  /\ Set(argv[i].key, Value(i))
  /\ i' = IF argv[i].t = "long" /\ Value(i) # Bare THEN i + 2 ELSE i + 1
  /\ UNCHANGED <<argv, env, cfg>>

ParseShort ==
  /\ phase = "parse" /\ i <= Len(argv) /\ argv[i].t \in {"h", "x"}
  /\ IF argv[i].t = "x" THEN phase' = "failed" /\ UNCHANGED args
     ELSE args' = [args EXCEPT !["h"] = Bare] /\ UNCHANGED phase
  /\ i' = i + 1
  /\ UNCHANGED <<argv, env, cfg>>

(* No branch matches: the token is passed over. *)
ParseOther ==
  /\ phase = "parse" /\ i <= Len(argv) /\ argv[i].t \in {"odd", "word"}
  /\ i' = i + 1
  /\ UNCHANGED <<argv, env, phase, args, cfg>>

(***************************************************************************)
(* The end of the tokens or "--".  An option without a value, or with an   *)
(* empty one, fails, even beside --help; then help is told from a run      *)
(* (--help= is not a request for it).                                      *)
(***************************************************************************)
EndParse ==
  /\ phase = "parse" /\ (i <= Len(argv) => argv[i].t = "--")
  /\ phase' = IF \E o \in Option : args[o] \in {Bare, Empty} THEN "failed"
              ELSE IF {args["help"], args["h"]} \subseteq {Unset, Empty} THEN "load" ELSE "help"
  /\ UNCHANGED <<argv, env, i, args, cfg>>

-----------------------------------------------------------------------------
(* loadConfig *)

(* The command line, else the environment, else config.js. *)
Pick(o) ==
  IF args[o] # Unset THEN args[o]
  ELSE IF env[o] \notin {Unset, Empty} THEN env[o]
  ELSE Default[o]

(* num(): Number(text); blanks read as 0, a unit is no part of a number,   *)
(* and other literals are as good as digits.                               *)
AsNumber(v) ==
  IF v = Is("blank") THEN Int0(0)
  ELSE IF v.is = "literal" \/ (v.is = "number" /\ v.unit = 1) THEN [n |-> v.n, half |-> v.half]
  ELSE Bad

(* bytes(): digits and a unit only, rounded to a whole number of bytes. *)
AsSize(v) ==
  IF v.is = "number" /\ v.n >= 0
  THEN Int0(v.n * v.unit + (IF v.half THEN (v.unit + 1) \div 2 ELSE 0))
  ELSE Bad

(* A default is a number already, and "" in the environment is no value. *)
Convert(o) ==
  LET v == Pick(o) IN
  IF v = Default[o] THEN v
  ELSE IF o \in Numbers THEN AsNumber(v)
  ELSE IF o \in Sizes THEN AsSize(v)
  ELSE v

(***************************************************************************)
(* The source URL: new URL() in caller mode, which does not take a port    *)
(* without a host; a regular expression in listener mode, which does, but  *)
(* has no place for a path or a fragment.  Removed query parameters are an *)
(* error.                                                                  *)
(***************************************************************************)
UrlTaken(u, mode) ==
  /\ u.is = "url" /\ ~u.stale
  /\ u.form = "hostless" => mode = Is("listener")
  /\ u.form = "pathed" => mode = Is("caller")

Load ==
  /\ phase = "load"
  /\ LET u == Pick("source")
         mode == Pick("mode")
         new == [o \in Option \ {"source"} |-> Convert(o)] IN
     IF /\ mode \in {Is("caller"), Is("listener")} /\ UrlTaken(u, mode)
        /\ \A o \in Option \ {"source"} : new[o] # Bad
     THEN /\ phase' = "validate"
          /\ cfg' = [s \in Setting |->
               CASE s = "sourceHost" -> u.host
                 [] s = "sourcePort" -> Int0(u.port)
                 [] s = "sourceBindHost" -> IF mode = Is("listener") THEN u.host ELSE Is("v4")
                 [] s = "streamId" -> IF u.streamId = Empty THEN Unset ELSE u.streamId
                 [] OTHER -> new[s]]
     ELSE phase' = "failed" /\ UNCHANGED cfg
  /\ UNCHANGED <<argv, env, i, args>>

-----------------------------------------------------------------------------
(* validateConfig *)

Whole(v, min, max) == ~v.half /\ min <= v.n /\ v.n <= max

(* Mutant: an IPv6 literal is not turned away. *)
SourceHostAllowedAny == cfg.sourceHost # Empty \/ cfg.mode = Is("listener")

SourceHostAllowed ==
  /\ cfg.sourceHost # Empty \/ cfg.mode = Is("listener")
  /\ cfg.sourceHost # Is("v6")

BindHostsAllowed ==
  cfg.listenHost = Is("v4") /\ cfg.callerBindHost \in {Unset, Is("v4")}

PassphraseAllowed(phrase, keyLen) ==
  phrase # Unset =>
    phrase = Is("phrase") /\ ~keyLen.half /\ keyLen.n \in {16, 24, 32}

NumbersAllowed ==
  /\ \A s \in {"sourcePort", "listenPort"} : Whole(cfg[s], 1, 65535)
  /\ \A s \in Millis : Whole(cfg[s], 0, Int32Max)
  /\ \A s \in Counts \cup Sizes : Whole(cfg[s], 1, Int32Max)
  /\ cfg.statsInterval.n >= 0
  /\ \A s \in RcvBufs : cfg[s].n <= FcWindow

Valid ==
  /\ SourceHostAllowed /\ BindHostsAllowed
  /\ PassphraseAllowed(cfg.upstreamPassphrase, cfg.upstreamPbKeyLen)
  /\ PassphraseAllowed(cfg.downstreamPassphrase, cfg.downstreamPbKeyLen)
  /\ cfg.streamId # Is("overlong")
  /\ NumbersAllowed

Validate ==
  /\ phase = "validate"
  /\ phase' = IF Valid THEN "resolve" ELSE "failed"
  /\ UNCHANGED <<argv, env, i, args, cfg>>

(* In listener mode the URL's host is the interface to bind. *)
ResolveTo(host) ==
  cfg' = [cfg EXCEPT !.sourceHost = host,
                     !.sourceBindHost = IF cfg.mode = Is("listener") THEN host ELSE @]

(* resolveSourceHost.  An address stays; an empty host is every interface; *)
(* a name is looked up, which fails, or finds no IPv4 address, or one.     *)
Resolve ==
  /\ phase = "resolve"
  /\ \/ /\ cfg.sourceHost = Empty
        /\ cfg' = [cfg EXCEPT !.sourceHost = Is("v4"), !.sourceBindHost = Is("v4")]
        /\ phase' = "ready"
     \/ /\ cfg.sourceHost \in {Is("v4"), Is("v6")}
        /\ ResolveTo(cfg.sourceHost)
        /\ phase' = "ready"
     \/ /\ cfg.sourceHost \notin {Empty, Is("v4"), Is("v6")}
        /\ \/ ResolveTo(Is("v4")) /\ phase' = "ready"
           \/ phase' = "failed" /\ UNCHANGED cfg
  /\ UNCHANGED <<argv, env, i, args>>

(* main() goes on to the relay, prints the help (exit 0), or the error and *)
(* the help (exit 2).                                                      *)
Decided == phase \in {"ready", "help", "failed"} /\ UNCHANGED vars

Next ==
  \/ ParseOption \/ ParseShort \/ ParseOther \/ EndParse
  \/ Load \/ Validate \/ Resolve \/ Decided

Spec == Init /\ [][Next]_vars

-----------------------------------------------------------------------------
IntIn(min, max) == [n : min..max, half : {FALSE}]

HostsUsable ==
  /\ cfg.mode \in {Is("caller"), Is("listener")}
  /\ cfg.sourceHost = Is("v4") /\ cfg.sourceBindHost = Is("v4") /\ cfg.listenHost = Is("v4")
  /\ cfg.callerBindHost \in {Unset, Is("v4")}

NumbersUsable ==
  /\ \A s \in Millis : cfg[s] \in IntIn(0, Int32Max)
  /\ \A s \in Counts \cup Sizes : cfg[s] \in IntIn(1, Int32Max)
  /\ \A s \in {"sourcePort", "listenPort"} : cfg[s] \in IntIn(1, 65535)
  /\ \A s \in RcvBufs : cfg[s].n <= FcWindow

KeysUsable ==
  /\ cfg.upstreamPassphrase # Unset => cfg.upstreamPbKeyLen.n \in {16, 24, 32}
  /\ cfg.downstreamPassphrase # Unset => cfg.downstreamPbKeyLen.n \in {16, 24, 32}

(* The tokens before "--", and the places among them that give o a value:  *)
(* --o=text, or --o and then a token that is not a flag.                   *)
Heard == {j \in 1..Len(argv) : \A k \in 1..j : argv[k].t # "--"}

GivenAt(o) ==
  {j \in Heard : \/ argv[j].t = "eq" /\ argv[j].key = o
                 \/ /\ argv[j].t = "long" /\ argv[j].key = o
                    /\ j + 1 \in Heard /\ argv[j + 1].t = "word"}

GivenLast(o) == CHOOSE j \in GivenAt(o) : \A k \in GivenAt(o) : k <= j

(***************************************************************************)
(* "CLI options take precedence over environment variables, which take     *)
(* precedence over the defaults" (README.md:99, src/config.js:174): said   *)
(* of the whole command line, without the parser's loop.  The last         *)
(* occurrence of an option counts, a word belongs to the option before it, *)
(* and an empty variable is as good as none.                               *)
(***************************************************************************)
Precedence ==
  phase \in {"load", "validate", "resolve", "ready"} =>
    \A o \in Option :
      Pick(o) = IF GivenAt(o) # {}
                THEN LET j == GivenLast(o) IN
                     IF argv[j].t = "eq" THEN argv[j].text ELSE argv[j + 1].text
                ELSE IF env[o] \notin {Unset, Empty} THEN env[o] ELSE Default[o]

(***************************************************************************)
(* What the relay and the native binding rely on, and no longer check: the *)
(* mode is one of two; every address handed to inet_pton is an IPv4        *)
(* literal (src/config.js:228-240, 314-319); what becomes a C int is a     *)
(* whole number that fits one (214-216); at least one client and one place *)
(* in the backlog; receive buffers within the flow-control window; a key   *)
(* length libsrt knows when there is a passphrase.                         *)
(***************************************************************************)
ReadyIsUsable == phase = "ready" => HostsUsable /\ NumbersUsable /\ KeysUsable
=============================================================================
