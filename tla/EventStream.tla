----------------------------- MODULE EventStream -----------------------------
(***************************************************************************)
(* The event stream of one thread: the bus appends to the log and fans out,*)
(* the SSE route replays a page and then goes live, and the web client     *)
(* reads, deduplicates and reconnects with the last number it has seen.    *)
(*                                                                         *)
(* From the slot check to the subscription the route does not yield, so a  *)
(* connection is one step.  A socket has its two ends: what is written and *)
(* not yet read travels in between, the client may be gone before the      *)
(* gateway notices, and the gateway may have ended it before the client    *)
(* has read it all.  All clients are windows of one user.                  *)
(***************************************************************************)
EXTENDS Integers, Sequences, FiniteSets

CONSTANTS
    Clients, Sockets, NoClient,
    Backlog,       \* rows in the log at the start
    Malformed,     \* those of them that fail the envelope schema
    Retention,     \* eventRetentionPerThread, 0 for none
    PageSize,      \* sseReplayPageSize
    MaxStreams,    \* maxSseStreamsPerUser
    MaxFailures,   \* MAX_FAILURES of the client
    MaxSeq,        \* bound on the length of the log, of the model only
    MaxFaults      \* bound on cuts, restarts, network failures and reloads, of the model only

ASSUME EventStreamAssumption ==
    /\ NoClient \notin Clients
    /\ Malformed \subseteq 0..Backlog - 1
    /\ {Backlog, Retention, MaxSeq, MaxFaults} \subseteq Nat /\ Backlog <= MaxSeq
    /\ {PageSize, MaxStreams, MaxFailures} \subseteq Nat \ {0}

VARIABLES
    first, next,   \* the rows of the log: first..next - 1
    phase,         \* a socket at the gateway: "free", "live", or "ended" and being flushed
    lastSeq,       \* the handler's lastSeq
    sseStreams,    \* the user's stream slots in use
    peer,          \* the client still reading a socket
    wire,          \* blocks written and not read
    lastSeen,      \* the parser's lastSeq
    partial,       \* an unterminated block whose data line is whole, left in the parser's buffer
    failures,      \* consecutive failures of a client's loop
    lost,          \* clients that gave up
    faults

logVars    == <<first, next>>
socketVars == <<phase, lastSeq, sseStreams, peer, wire>>
clientVars == <<lastSeen, partial, failures, lost>>
vars       == <<logVars, socketVars, clientVars, faults>>

Seqs  == 0..MaxSeq - 1
Hello == -1        \* the "retry:" block that opens every stream
None  == -1        \* nothing seen, or nothing partial

TypeOK ==
    /\ first \in 0..MaxSeq
    /\ next \in 0..MaxSeq
    /\ phase \in [Sockets -> {"free", "live", "ended"}]
    /\ lastSeq \in [Sockets -> Seqs \cup {None}]
    /\ sseStreams \in 0..MaxStreams
    /\ peer \in [Sockets -> Clients \cup {NoClient}]
    /\ wire \in [Sockets -> Seq(Seqs \cup {Hello})]
    /\ lastSeen \in [Clients -> Seqs \cup {None}]
    /\ partial \in [Clients -> Seqs \cup {None}]
    /\ failures \in [Clients -> 0..MaxFailures]
    /\ lost \in SUBSET Clients
    /\ faults \in 0..MaxFaults

Init ==
    /\ first = 0
    /\ next = Backlog
    /\ phase = [s \in Sockets |-> "free"]
    /\ lastSeq = [s \in Sockets |-> None]
    /\ sseStreams = 0
    /\ peer = [s \in Sockets |-> NoClient]
    /\ wire = [s \in Sockets |-> <<>>]
    /\ lastSeen = [c \in Clients |-> None]
    /\ partial = [c \in Clients |-> None]
    /\ failures = [c \in Clients |-> 0]
    /\ lost = {}
    /\ faults = 0

-----------------------------------------------------------------------------
(* The log *)

Larger(m, n) == IF m > n THEN m ELSE n

\* Mutant: the limit keeps the newest rows.
PageNewest(after) ==
    Larger(after + 1, Larger(first, next - PageSize))..next - 1
\* getEventsSince(after) with a limit.
PageSince(after) ==
    LET from == Larger(after + 1, first)
        to   == IF from + PageSize < next THEN from + PageSize ELSE next
    IN  from..to - 1

\* The rows of a page that pass the envelope schema.
Valid(page) == page \ Malformed

\* What the replay loop has written of them after some rows: the lowest, in order.
Replayed(rows) ==
    {f \in UNION {[1..k -> rows] : k \in 0..PageSize} :
        \A i \in DOMAIN f, n \in rows : n < f[i] <=> \E j \in 1..i - 1 : f[j] = n}

\* writeEnvelope skips what the stream has sent already.
Writes(s, n) == phase[s] = "live" /\ n > lastSeq[s]

\* Slots are given back by the number of sockets closed.  Mutant: a leak.
ReleaseNone(ss)    == sseStreams
Release(ss)        == sseStreams - Cardinality(ss)

\* publish: append and prune in one transaction, then fan out.  After a write
\* the gateway ends a stream whose reader is too slow (dropOnBackpressure).
Publish ==
    LET n == next
        w == {s \in Sockets : Writes(s, n)}
    IN
    /\ n < MaxSeq
    /\ next'  = n + 1
    /\ first' = IF Retention = 0 THEN first ELSE Larger(first, n - Retention + 1)
    /\ lastSeq' = [s \in Sockets |-> IF s \in w THEN n ELSE lastSeq[s]]
    /\ wire'    = [s \in Sockets |-> IF s \in w THEN Append(wire[s], n) ELSE wire[s]]
    /\ \E slow \in SUBSET w :
          /\ phase' = [s \in Sockets |-> IF s \in slow THEN "ended" ELSE phase[s]]
          /\ sseStreams' = Release(slow)
    /\ UNCHANGED <<peer, clientVars, faults>>

-----------------------------------------------------------------------------
(* Connections *)

Reading(c)    == \E s \in Sockets : peer[s] = c
Connecting(c) == c \notin lost /\ ~Reading(c)

\* Mutant: a page is full only when it has more rows than its limit.
EndsOver(page, written) == Cardinality(page) > PageSize /\ written > 0
\* A page that was full ends the stream if it made progress.
EndsPage(page, written) == Cardinality(page) = PageSize /\ written > 0

\* GET events: take a slot, replay a page, then end or go live; a reader that is
\* too slow is dropped after any row.
Connect(c, s) ==
    LET page == PageSince(lastSeen[c]) IN
    /\ Connecting(c)
    /\ phase[s] = "free"
    /\ sseStreams < MaxStreams
    /\ \E rows \in Replayed(Valid(page)), dropped \in BOOLEAN :
          /\ IF dropped THEN rows # <<>>
                        ELSE \A n \in Valid(page) : \E i \in DOMAIN rows : rows[i] = n
          /\ wire'    = [wire EXCEPT ![s] = <<Hello>> \o rows]
          /\ lastSeq' = [lastSeq EXCEPT ![s] = IF rows = <<>> THEN lastSeen[c]
                                                             ELSE rows[Len(rows)]]
          /\ IF dropped \/ EndsPage(page, Len(rows))
             THEN /\ phase' = [phase EXCEPT ![s] = "ended"]
                  /\ UNCHANGED sseStreams
             ELSE /\ phase' = [phase EXCEPT ![s] = "live"]
                  /\ sseStreams' = sseStreams + 1
    /\ peer' = [peer EXCEPT ![s] = c]
    /\ failures' = [failures EXCEPT ![c] = 0]
    /\ UNCHANGED <<logVars, lastSeen, partial, lost, faults>>

\* Clients whose attempt or connection failed.
Fail(cs) ==
    /\ failures' = [c \in Clients |-> IF c \in cs THEN failures[c] + 1 ELSE failures[c]]
    /\ lost' = lost \cup {c \in cs : failures'[c] = MaxFailures}

Fault == faults < MaxFaults /\ faults' = faults + 1

\* 429 too_many_streams.
Refused(c) ==
    /\ Connecting(c)
    /\ sseStreams = MaxStreams
    /\ Fail({c})
    /\ UNCHANGED <<logVars, socketVars, lastSeen, partial, faults>>

\* The network is down, or the gateway is.
Unreachable(c) ==
    /\ Connecting(c)
    /\ Fault
    /\ Fail({c})
    /\ UNCHANGED <<logVars, socketVars, lastSeen, partial>>

-----------------------------------------------------------------------------
(* The client *)

Apply(c, n)  == lastSeen' = [lastSeen EXCEPT ![c] = n]
Unseen(c, n) == n > lastSeen[c]

\* One block is parsed.  The opening block terminates whatever the last
\* connection left in the buffer.
Read(s) ==
    LET c == peer[s]
        n == IF Head(wire[s]) = Hello THEN partial[c] ELSE Head(wire[s])
    IN
    /\ c # NoClient
    /\ wire[s] # <<>>
    /\ wire' = [wire EXCEPT ![s] = Tail(@)]
    /\ partial' = [partial EXCEPT ![c] = None]
    /\ IF Unseen(c, n) THEN Apply(c, n) ELSE UNCHANGED lastSeen
    /\ UNCHANGED <<logVars, phase, lastSeq, sseStreams, peer, failures, lost, faults>>

\* Clean end of stream: reconnect at once.
ReadEnd(s) ==
    /\ peer[s] # NoClient
    /\ phase[s] = "ended" /\ wire[s] = <<>>
    /\ peer' = [peer EXCEPT ![s] = NoClient]
    /\ UNCHANGED <<logVars, phase, lastSeq, sseStreams, wire, clientVars, faults>>

\* Connections break, between two blocks or within one: a tail of it may stay
\* in the parser's buffer.
LeftOver(c) ==
    {partial[c]} \cup {Head(wire[s]) : s \in {t \in Sockets :
                           peer[t] = c /\ wire[t] # <<>> /\ Head(wire[t]) # Hello}}

Break(ss) ==
    LET cs == {peer[s] : s \in ss} \ {NoClient} IN
    /\ partial' \in {f \in [Clients -> Seqs \cup {None}] :
          \A c \in Clients : f[c] \in IF c \in cs THEN LeftOver(c) ELSE {partial[c]}}
    /\ peer' = [s \in Sockets |-> IF s \in ss THEN NoClient ELSE peer[s]]
    /\ wire' = [s \in Sockets |-> IF s \in ss THEN <<>> ELSE wire[s]]
    /\ Fail(cs)

Cut(s) ==
    /\ peer[s] # NoClient
    /\ Fault
    /\ Break({s})
    /\ UNCHANGED <<logVars, phase, lastSeq, sseStreams, lastSeen>>

\* The thread is opened again, in a new parser.
Reload(c) ==
    /\ Fault
    /\ lastSeen' = [lastSeen EXCEPT ![c] = None]
    /\ partial'  = [partial EXCEPT ![c] = None]
    /\ failures' = [failures EXCEPT ![c] = 0]
    /\ lost'     = lost \ {c}
    /\ peer'     = [s \in Sockets |-> IF peer[s] = c THEN NoClient ELSE peer[s]]
    /\ wire'     = [s \in Sockets |-> IF peer[s] = c THEN <<>> ELSE wire[s]]
    /\ UNCHANGED <<logVars, phase, lastSeq, sseStreams>>

-----------------------------------------------------------------------------
(* The gateway's end *)

\* Mutant: the slot is given back by every path that ends the stream.
CloseTwice(s) == {s}
Cleanup(s)    == {t \in {s} : phase[t] = "live"}

\* 'close' or the heartbeat finds the reader gone: cleanup, once.
Close(s) ==
    /\ phase[s] # "free"
    /\ peer[s] = NoClient
    /\ sseStreams' = Release(Cleanup(s))
    /\ phase' = [phase EXCEPT ![s] = "free"]
    /\ wire'  = [wire EXCEPT ![s] = <<>>]
    /\ UNCHANGED <<logVars, lastSeq, peer, clientVars, faults>>

\* The gateway stops and starts: preClose destroys the streams, the log stays.
Restart ==
    /\ Fault
    /\ Break(Sockets)
    /\ phase' = [s \in Sockets |-> "free"]
    /\ sseStreams' = 0
    /\ UNCHANGED <<logVars, lastSeq, lastSeen>>

-----------------------------------------------------------------------------
Next ==
    \/ Publish \/ Restart
    \/ \E c \in Clients, s \in Sockets : Connect(c, s)
    \/ \E c \in Clients : Refused(c) \/ Unreachable(c) \/ Reload(c)
    \/ \E s \in Sockets : Read(s) \/ ReadEnd(s) \/ Cut(s) \/ Close(s)

\* A client that is not lost tries again and again, and reads what arrives;
\* the gateway notices a closed socket.
Fairness ==
    /\ \A c \in Clients : WF_vars(Refused(c) \/ \E s \in Sockets : Connect(c, s))
    /\ \A s \in Sockets : WF_vars(Read(s)) /\ WF_vars(ReadEnd(s)) /\ WF_vars(Close(s))

Spec     == Init /\ [][Next]_vars
FairSpec == Spec /\ Fairness

-----------------------------------------------------------------------------
(* Properties *)

\* Whatever is cut, dropped, paged, restarted or replayed, every client goes
\* through the log in order, each event once, without a gap that retention did
\* not make.  (SseParser.push, openStream, writeEnvelope, getEventsSince)
Log == INSTANCE EventLog WITH cursor <- lastSeen
DeliveryInOrder == Log!Spec

\* The user's slots are exactly the streams that hold one: no path out of the
\* handler leaks a slot or gives it back twice.  (cleanup)
SlotsAreExact == sseStreams = Cardinality({s \in Sockets : phase[s] = "live"})

\* A client that has not given up ends up with everything the log still has.
\* (openStream's reconnect loop, the full-page rule of the route)
CaughtUp(c) == \A n \in lastSeen[c] + 1..next - 1 : n < first \/ n \in Malformed
EveryoneCatchesUp == \A c \in Clients : <>[](c \in lost \/ CaughtUp(c))
=============================================================================
