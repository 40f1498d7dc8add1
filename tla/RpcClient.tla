------------------------------ MODULE RpcClient ------------------------------
(***************************************************************************)
(* The gateway's end of the JSON-lines protocol with one pi process: the   *)
(* line decoder with its byte cap, and the client that pairs commands with *)
(* responses by id and settles every command once.                         *)
(*                                                                         *)
(* The wire is a sequence of bytes, which the pipe cuts into chunks        *)
(* anywhere.  A line stands for its message: the n bytes of its text, which*)
(* may be fewer characters, and the line feed.  A buffer is kept as its    *)
(* UTF-8 bytes, with those of an unfinished character that StringDecoder   *)
(* holds back.  A carriage return before the line feed is left out.        *)
(*                                                                         *)
(* The process is external: it answers commands, says other things, and    *)
(* ends when it likes; what it wrote can arrive after its exit was seen.   *)
(***************************************************************************)
EXTENDS Naturals, Sequences, FiniteSets, FiniteSetsExt, Functions

CONSTANTS
    Commands,      \* commands the gateway sends
    OwnId,         \* those that carry their own id and get no response
    Chatter,       \* other lines of the process: events, garbage, blank lines
    Malformed,     \* the chatter that is not JSON
    Nulls,         \* the chatter that is the JSON value null
    Bytes,         \* the bytes of a line without its line feed
    MaxLineBytes,
    MaxLines,      \* bound on the lines the process writes, of the model only
    LF             \* the line feed

Lines == Chatter \cup (Commands \ OwnId)      \* a command stands for its response

ASSUME RpcClientAssumption ==
    /\ OwnId \subseteq Commands
    /\ Malformed \subseteq Chatter /\ Nulls \subseteq Chatter
    /\ Chatter \cap Commands = {}
    /\ Bytes \in [Lines -> Nat]
    /\ \A m \in Malformed \cup Nulls \cup Commands : m \in Lines => Bytes[m] > 0
    /\ MaxLineBytes \in Nat
    /\ \A m \in Lines : \A i \in 1 .. Bytes[m] : LF # <<m, i>>

VARIABLES
    child,         \* the process: "up", "killed" (signalled) or "gone"
    failed,        \* its 'error' event was emitted
    asked,         \* commands it can have read
    written,       \* lines it wrote
    wire,          \* bytes written and not yet read by the gateway
    buffer, bufferBytes, poisoned,       \* JsonlDecoder
    outcome,       \* of the promise of each command
    pending,       \* RpcClient.pending
    timers,        \* armed timeouts
    handled,       \* messages passed to handle, in order
    exits          \* number of "exit" events emitted

process == <<child, failed, asked, written>>
decoder == <<buffer, bufferBytes, poisoned>>
client  == <<outcome, pending, timers>>
vars    == <<process, wire, decoder, client, handled, exits>>

Byte == {LF} \cup (Lines \X Nat)

TypeOK ==
    /\ child       \in {"up", "killed", "gone"}
    /\ failed      \in BOOLEAN
    /\ asked       \subseteq Commands
    /\ written     \in Seq(Lines)
    /\ wire        \in Seq(Byte)
    /\ buffer      \in Seq(Byte)
    /\ bufferBytes \in Nat
    /\ poisoned    \in BOOLEAN
    /\ outcome     \in [Commands -> {"unsent", "waiting", "resolved", "rejected"}]
    /\ pending     \subseteq Commands \ OwnId
    /\ timers      \subseteq Commands \ OwnId
    /\ handled     \in Seq(Lines \ Malformed)
    /\ exits       \in Nat

Init ==
    /\ child       = "up"
    /\ failed      = FALSE
    /\ asked       = {}
    /\ written     = <<>>
    /\ wire        = <<>>
    /\ buffer      = <<>>
    /\ bufferBytes = 0
    /\ poisoned    = FALSE
    /\ outcome     = [c \in Commands |-> "unsent"]
    /\ pending     = {}
    /\ timers      = {}
    /\ handled     = <<>>
    /\ exits       = 0

-----------------------------------------------------------------------------
(* The process and the pipe *)

Write(m) ==
    /\ child # "gone"
    /\ Len(written) < MaxLines
    /\ written' = Append(written, m)
    /\ wire'    = wire \o [i \in 1 .. Bytes[m] |-> <<m, i>>] \o <<LF>>
    /\ UNCHANGED <<child, failed, asked, decoder, client, handled, exits>>

Respond(c) == c \in asked \ OwnId /\ Write(c)

-----------------------------------------------------------------------------
(* JsonlDecoder *)

Ends(s) == {i \in DOMAIN s : s[i] = LF}

\* Byte 1 of a line starts a character, and so does every other byte but 2.
ByteLengthUnits(s) == Cardinality({i \in DOMAIN s : s[i] = LF \/ s[i][2] # 2})   \* mutant
ByteLength(s)      == Len(s)

LineAt(s, end) == SubSeq(s, Max({0} \cup {i \in Ends(s) : i < end}) + 1, end - 1)

\* JSON.parse: a line is the message whose bytes it has, and all of them.
Parses(line) ==
    /\ \A i \in DOMAIN line : line[i] = <<line[1][1], i>>
    /\ line[1][1] \notin Malformed
    /\ Len(line) = Bytes[line[1][1]]

Blank(line) == line = <<>>
BadEnds(s)  == {i \in Ends(s) : ~Blank(LineAt(s, i)) /\ ~Parses(LineAt(s, i))}

\* The while loop stops at the first line that does not parse, else when no
\* line feed is left.
Consumed(s) == IF BadEnds(s) # {} THEN Min(BadEnds(s)) ELSE Max({0} \cup Ends(s))

\* The values of f, a function of some numbers up to n, by growing number.
InOrder(f, n) ==
    LET values[i \in 0 .. n] ==
          IF i = 0 THEN <<>>
          ELSE IF i \in DOMAIN f THEN Append(values[i - 1], f[i]) ELSE values[i - 1]
    IN  values[n]

\* A line that is not blank gives the message its last byte is of.
Parsed(s) ==
    InOrder([i \in {j \in Ends(s) : ~Blank(LineAt(s, j))} |-> s[i - 1][1]], Len(s))

-----------------------------------------------------------------------------
(* RpcClient *)

Settle(cs, how) ==
    /\ outcome' = [c \in Commands |-> IF c \in cs THEN how ELSE outcome[c]]
    /\ timers'  = timers \ cs

\* Every pending send is rejected and the map cleared.
RejectAllClear == pending' = {} /\ UNCHANGED <<outcome, timers>>      \* mutant: cleared first
RejectAllMute  == pending' = {} /\ timers' = {} /\ UNCHANGED outcome  \* mutant: timers only
RejectAll      == Settle(pending, "rejected") /\ pending' = {}

FailFatal ==
    /\ RejectAll
    /\ child' = IF child = "up" THEN "killed" ELSE child
    /\ UNCHANGED <<failed, asked, written, handled, exits>>

\* handle, for each message of a chunk; it reads a field of each, so null throws.
Handle(msgs) ==
    /\ Settle(pending \cap Range(msgs), "resolved")
    /\ pending' = pending \ Range(msgs)
    /\ handled' = handled \o msgs
    /\ UNCHANGED <<process, exits>>

\* Mutant: the bytes after the last line feed are dropped.
KeepNone(all, n) == buffer' = <<>>
Keep(all, n)     == buffer' = SubSeq(all, n + 1, Len(all))

\* The byte count once the lines that are complete with the chunk are taken.
BytesLeft(chunk) ==
    LET all == buffer \o chunk IN
    (bufferBytes + ByteLength(chunk)) - ByteLength(SubSeq(all, 1, Consumed(all)))

\* push, of a decoder that is not poisoned, and what the data handler does
\* with what it returns or throws.
Push(chunk) ==
    LET all == buffer \o chunk
        n   == Consumed(all)
        now == BytesLeft(chunk) IN
    \/ /\ BadEnds(all) # {}
       /\ Keep(all, n)
       /\ bufferBytes' = now
       /\ UNCHANGED poisoned
       /\ FailFatal
    \/ /\ BadEnds(all) = {}
       /\ now > MaxLineBytes
       /\ buffer'      = <<>>
       /\ bufferBytes' = 0
       /\ poisoned'    = TRUE
       /\ FailFatal
    \/ /\ BadEnds(all) = {}
       /\ now <= MaxLineBytes
       /\ Keep(all, n)
       /\ bufferBytes' = now
       /\ UNCHANGED poisoned
       /\ Range(Parsed(all)) \cap Nulls = {}
       /\ Handle(Parsed(all))

Data ==
    \E n \in DOMAIN wire :
        /\ wire' = SubSeq(wire, n + 1, Len(wire))
        /\ \/ poisoned /\ UNCHANGED <<process, decoder, client, handled, exits>>
           \/ ~poisoned /\ Push(SubSeq(wire, 1, n))

\* A null among the messages of a chunk throws out of the data listener: the
\* gateway ends, and its successor begins anew.
Crash ==
    /\ \E n \in DOMAIN wire :
          LET all == buffer \o SubSeq(wire, 1, n) IN
          /\ ~poisoned /\ BadEnds(all) = {} /\ BytesLeft(SubSeq(wire, 1, n)) <= MaxLineBytes
          /\ Range(Parsed(all)) \cap Nulls # {}
    /\ child' = "up" /\ failed' = FALSE /\ asked' = {} /\ written' = <<>>
    /\ wire' = <<>> /\ buffer' = <<>> /\ bufferBytes' = 0 /\ poisoned' = FALSE
    /\ outcome' = [c \in Commands |-> "unsent"] /\ pending' = {} /\ timers' = {}
    /\ handled' = <<>> /\ exits' = 0

\* send.  A write to a process that is gone is lost.
Send(c) ==
    /\ outcome[c] = "unsent"
    /\ asked' = IF child = "gone" THEN asked ELSE asked \cup {c}
    /\ \/ /\ c \in OwnId
          /\ outcome' = [outcome EXCEPT ![c] = "resolved"]
          /\ UNCHANGED <<pending, timers>>
       \/ /\ c \notin OwnId
          /\ outcome' = [outcome EXCEPT ![c] = "waiting"]
          /\ pending' = pending \cup {c}
          /\ timers'  = timers \cup {c}
    /\ UNCHANGED <<child, failed, written, wire, decoder, handled, exits>>

Timeout(c) ==
    /\ c \in timers
    /\ Settle({c}, "rejected")
    /\ pending' = pending \ {c}
    /\ UNCHANGED <<process, wire, decoder, handled, exits>>

\* terminate, for the first of the 'exit' and 'error' events only.
TerminateTwice == RejectAll /\ exits' = exits + 1                     \* mutant: for each
Terminate ==
    \/ exits = 0 /\ RejectAll /\ exits' = 1
    \/ exits > 0 /\ UNCHANGED <<client, exits>>

Exit ==
    /\ child # "gone"
    /\ child' = "gone"
    /\ Terminate
    /\ UNCHANGED <<failed, asked, written, wire, decoder, handled>>

\* 'error': a failed spawn, which no 'exit' follows, or a signal that could
\* not be sent, which one may follow.  A second 'error', for which no listener is
\* left, is left out.
SpawnFails == child = "up" /\ written = <<>> /\ child' = "gone"
KillFails  == child = "killed" /\ UNCHANGED child

Error ==
    /\ ~failed
    /\ failed' = TRUE
    /\ SpawnFails \/ KillFails
    /\ Terminate
    /\ UNCHANGED <<asked, written, wire, decoder, handled>>

Next ==
    \/ \E m \in Chatter : Write(m)
    \/ Data \/ Crash \/ Exit \/ Error
    \/ \E c \in Commands : Send(c) \/ Respond(c) \/ Timeout(c)

Spec == Init /\ [][Next]_vars

\* A timeout that is armed fires.
FairSpec == Spec /\ \A c \in Commands : WF_vars(Timeout(c))

-----------------------------------------------------------------------------
(* Properties *)

\* Lines whose line feed the gateway has read.
Delivered == SubSeq(written, 1, Len(written) - Cardinality(Ends(wire)))
Clean     == ~poisoned /\ Malformed \cap Range(Delivered) = {}

\* However the pipe cuts the bytes, the gateway handles each line once, whole
\* and in order, and at once when its line feed is there; a blank line is
\* nothing.  A line that is not JSON ends this: what came with it is lost.
\* (JsonlDecoder.push: "LF is the ONLY delimiter", rpc.ts:6)
FramingIsExact ==
    LET text == {i \in DOMAIN Delivered : Bytes[Delivered[i]] > 0} IN
    Clean => handled = InOrder([i \in text |-> Delivered[i]], Len(Delivered))

\* The byte count is exact, over lines taken and chunks that were refused, and
\* once more than the cap is kept the process is being ended.  The cap itself,
\* "may never" be exceeded (rpc.ts:9), holds only up to a line that is not JSON:
\* JSON.parse throws past the check.  (bufferBytes, rpc.ts:24)
BufferIsBounded ==
    /\ bufferBytes = Len(buffer)
    /\ bufferBytes > MaxLineBytes =>
          child # "up" /\ Malformed \cap Range(Delivered) # {}

\* A send waits exactly as long as the map has its entry and its timer is
\* armed: no settled send is left behind in the map, none is forgotten by it.
\* (send, handle, failFatal, terminate)
EntriesAreOwed == {c \in Commands : outcome[c] = "waiting"} = pending /\ timers = pending

\* The end of the process is reported once, for a failed spawn, a failed
\* signal and an exit in any order.  ("observed exactly once", rpc.ts:116)
ExitIsReportedOnce == exits = IF child = "gone" \/ failed THEN 1 ELSE 0

\* Every send settles, whatever the process does, also one made after its end;
\* only the end of the gateway is sooner.  (send's timeout)
EverySendSettles ==
    \A c \in Commands : outcome[c] = "waiting" ~> outcome[c] # "waiting"
=============================================================================
