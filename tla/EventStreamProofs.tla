-------------------------- MODULE EventStreamProofs --------------------------
(***************************************************************************)
(* Proofs about EventStream, for any clients, sockets and log: its types,  *)
(* the exact count of the stream slots, and that it implements EventLog.   *)
(*                                                                         *)
(* The refinement needs a page with no valid row to be impossible: such a  *)
(* page goes live behind it, and the rows after it are skipped.            *)
(***************************************************************************)
EXTENDS EventStream, FiniteSetTheorems, SequenceTheorems, TLAPS

-----------------------------------------------------------------------------
(* The inductive invariants *)

Live == {s \in Sockets : phase[s] = "live"}

Slots == IsFiniteSet(Live) /\ sseStreams = Cardinality(Live)

\* A client reads one socket at most, has not failed while it does, and gives up
\* when it has failed too often.
Tries ==
    /\ \A s, t \in Sockets : peer[s] = peer[t] /\ peer[s] # NoClient => s = t
    /\ \A s \in Sockets : peer[s] # NoClient => failures[peer[s]] = 0
    /\ \A c \in Clients : c \notin lost => failures[c] < MaxFailures

LogFits ==
    /\ first <= next
    /\ Backlog <= next
    /\ \A c \in Clients : lastSeen[c] < next /\ partial[c] < next
    /\ \A s \in Sockets :
          lastSeq[s] < next /\ \A i \in DOMAIN wire[s] : wire[s][i] < next

\* Row m is gone or no event, or comes at place i of blocks at the latest.
Arrives(m, blocks, i, f) ==
    m < f \/ m \in Malformed \/ \E j \in 1..i : blocks[j] = m

Row(n, end) == n \in 0..end - 1 /\ n \notin Malformed

\* The blocks that travel to a reader are in order and without a gap after what it
\* has seen, and on a live socket they go up to the end of the log.
Fits(blocks, seen, f, end, ph) ==
    /\ \A i \in DOMAIN blocks :
          /\ blocks[i] # Hello => Row(blocks[i], end)
          /\ \A j \in 1..i - 1 : blocks[j] < blocks[i]
          /\ \A m \in seen + 1..blocks[i] - 1 : Arrives(m, blocks, i - 1, f)
    /\ ph = "live" => \A m \in seen + 1..end - 1 : Arrives(m, blocks, Len(blocks), f)

WireFits(s) == Fits(wire[s], lastSeen[peer[s]], first, next, phase[s])

\* What is left in a parser's buffer is the row its reader waits for.
PartialFits(c) ==
    partial[c] # None =>
        /\ Row(partial[c], next)
        /\ \A m \in lastSeen[c] + 1..partial[c] - 1 : m < first \/ m \in Malformed

InOrder ==
    /\ \A s \in Sockets : peer[s] # NoClient => WireFits(s)
    /\ \A c \in Clients : PartialFits(c)

\* No page can be full of rows that are not valid.
NoBlankPage == \A n \in Nat : ~(n..n + PageSize - 1 \subseteq Malformed)

Inv == TypeOK /\ Slots /\ Tries /\ LogFits

-----------------------------------------------------------------------------
(* Constants, pages and sequences *)

LEMMA Bounds ==
    /\ Backlog \in Nat /\ Retention \in Nat /\ MaxSeq \in Nat /\ MaxFaults \in Nat
    /\ PageSize \in Nat \ {0} /\ MaxStreams \in Nat \ {0} /\ MaxFailures \in Nat \ {0}
    /\ Backlog <= MaxSeq /\ Malformed \subseteq 0..Backlog - 1 /\ NoClient \notin Clients
    /\ Hello = -1 /\ None = -1 /\ Seqs \subseteq Nat
  <1>1. /\ Backlog \in Nat /\ Retention \in Nat /\ MaxSeq \in Nat /\ MaxFaults \in Nat
        /\ PageSize \in Nat \ {0} /\ MaxStreams \in Nat \ {0} /\ MaxFailures \in Nat \ {0}
    BY EventStreamAssumption
  <1>2. Backlog <= MaxSeq /\ Malformed \subseteq 0..Backlog - 1 /\ NoClient \notin Clients
    BY EventStreamAssumption
  <1>3. Hello = -1 /\ None = -1 /\ Seqs \subseteq Nat
    BY <1>1 DEF Hello, None, Seqs
  <1> QED BY <1>1, <1>2, <1>3

LEMMA LargerFacts ==
    ASSUME NEW m \in Int, NEW n \in Int
    PROVE  Larger(m, n) \in Int /\ Larger(m, n) >= m /\ Larger(m, n) >= n
           /\ (Larger(m, n) = m \/ Larger(m, n) = n)
  BY DEF Larger

LEMMA LogTypes ==
    ASSUME TypeOK
    PROVE  /\ first \in Nat /\ next \in Nat /\ next <= MaxSeq
           /\ \A c \in Clients : lastSeen[c] \in Int /\ lastSeen[c] >= -1
           /\ \A c \in Clients : partial[c] \in Int /\ partial[c] >= -1
           /\ \A s \in Sockets : lastSeq[s] \in Int
  <1>1. \A n \in Seqs \cup {None} : n \in Int /\ n >= -1
    BY Bounds
  <1>2. \A c \in Clients : lastSeen[c] \in Seqs \cup {None} /\ partial[c] \in Seqs \cup {None}
    BY DEF TypeOK
  <1>3. \A s \in Sockets : lastSeq[s] \in Seqs \cup {None}
    BY DEF TypeOK
  <1>4. first \in Nat /\ next \in Nat /\ next <= MaxSeq
    BY Bounds DEF TypeOK
  <1> HIDE DEF None
  <1> QED BY <1>1, <1>2, <1>3, <1>4, Zenon

\* A page is the stretch of the log after what the reader has: up to the end, or full.
LEMMA PageFacts ==
    ASSUME TypeOK, LogFits, NEW a \in Int, a >= -1
    PROVE  LET page == PageSince(a) IN
           /\ page \subseteq 0..next - 1
           /\ page \subseteq Seqs
           /\ \A n \in page : n > a
           /\ \A n \in page : \A m \in a + 1..n : m < first \/ m \in page
           /\ \/ \A m \in a + 1..next - 1 : m < first \/ m \in page
              \/ \E n \in Nat : page = n..n + PageSize - 1
           /\ Cardinality(page) # PageSize => \A m \in a + 1..next - 1 : m < first \/ m \in page
  <1> DEFINE from == Larger(a + 1, first)
             to   == IF from + PageSize < next THEN from + PageSize ELSE next
  <1>0. first \in Nat /\ next \in Nat /\ next <= MaxSeq /\ MaxSeq \in Nat /\ PageSize \in Nat \ {0}
    BY LogTypes, Bounds
  <1>1. /\ from \in Nat /\ from >= a + 1 /\ from >= first
        /\ (from = a + 1 \/ from = first)
    BY <1>0 DEF Larger
  <1>2. PageSince(a) = from..to - 1
    BY DEF PageSince
  <1> HIDE DEF from
  <1>3. to \in Int /\ to <= next /\ (to = next \/ to = from + PageSize)
    BY <1>0, <1>1
  <1> HIDE DEF to
  <1>4. to # next => Cardinality(from..to - 1) = PageSize
    <2>1. Cardinality(from..to - 1) = IF from > to - 1 THEN 0 ELSE to - 1 - from + 1
      BY <1>1, <1>3, FS_Interval
    <2> QED BY <1>0, <1>1, <1>3, <2>1
  <1> DEFINE page == from..to - 1
  <1>5. page \subseteq 0..next - 1 /\ page \subseteq Seqs /\ \A n \in page : n > a
    BY <1>0, <1>1, <1>3 DEF Seqs
  <1>6. ASSUME NEW n \in page, NEW m \in a + 1..n
        PROVE  m < first \/ m \in page
    <2>1. m \in Int /\ n \in Int /\ m <= n /\ n <= to - 1 /\ m >= a + 1
      BY <1>1, <1>3
    <2>2. m < first \/ m >= from
      BY <1>0, <1>1, <2>1
    <2> QED BY <1>0, <1>1, <1>3, <2>1, <2>2
  <1>7. ASSUME to = next, NEW m \in a + 1..next - 1
        PROVE  m < first \/ m \in page
    <2>1. m \in Int /\ m <= next - 1 /\ m >= a + 1
      BY <1>0
    <2>2. m < first \/ m >= from
      BY <1>0, <1>1, <2>1
    <2> QED BY <1>0, <1>1, <1>3, <1>7, <2>1, <2>2
  <1>8. to # next => \E n \in Nat : page = n..n + PageSize - 1
    <2> SUFFICES ASSUME to # next PROVE page = from..from + PageSize - 1
      BY <1>1
    <2>1. to = from + PageSize
      BY <1>3
    <2> QED BY <1>0, <1>1, <2>1
  <1> HIDE DEF page
  <1>9. PageSince(a) = page
    BY <1>2 DEF page
  <1> QED BY <1>4, <1>5, <1>6, <1>7, <1>8, <1>9 DEF page

\* The replay writes a sequence of the valid rows, opened by the retry block.
LEMMA ReplayedFacts ==
    ASSUME NEW V \in SUBSET Seqs, NEW rows \in Replayed(V)
    PROVE  /\ rows \in Seq(Seqs) /\ Len(rows) \in Nat /\ DOMAIN rows = 1..Len(rows)
           /\ \A i \in 1..Len(rows) : rows[i] \in V
           /\ rows # <<>> => Len(rows) > 0
           /\ <<Hello>> \o rows \in Seq(Seqs \cup {Hello})
           /\ Len(<<Hello>> \o rows) = Len(rows) + 1
           /\ (<<Hello>> \o rows)[1] = Hello
           /\ \A i \in 1..Len(rows) : (<<Hello>> \o rows)[i + 1] = rows[i]
           /\ \A i \in 1..Len(rows), n \in V :
                 n < rows[i] <=> \E j \in 1..i - 1 : rows[j] = n
  <1>1. PICK k \in 0..PageSize : rows \in [1..k -> V]
    BY DEF Replayed
  <1>2. rows \in Seq(V)
    BY <1>1, SeqDef, Bounds
  <1>3. rows \in Seq(Seqs) /\ rows \in Seq(Seqs \cup {Hello}) /\ <<Hello>> \in Seq(Seqs \cup {Hello})
    <2>1. Seqs \subseteq Seqs \cup {Hello} /\ V \subseteq Seqs \cup {Hello}
      OBVIOUS
    <2> QED BY <1>2, <2>1, SeqMonotonic
  <1>4. Len(rows) \in Nat /\ DOMAIN rows = 1..Len(rows) /\ \A i \in 1..Len(rows) : rows[i] \in V
    BY <1>2, LenProperties
  <1>5. rows # <<>> => Len(rows) > 0
    BY <1>2, <1>4, EmptySeq
  <1>6. /\ <<Hello>> \o rows \in Seq(Seqs \cup {Hello})
        /\ Len(<<Hello>> \o rows) = 1 + Len(rows)
        /\ \A i \in 1..1 + Len(rows) : (<<Hello>> \o rows)[i] =
                 IF i <= 1 THEN Hello ELSE rows[i - 1]
    <2>1. Len(<<Hello>>) = 1 /\ <<Hello>>[1] = Hello
      OBVIOUS
    <2>2. /\ <<Hello>> \o rows \in Seq(Seqs \cup {Hello})
          /\ Len(<<Hello>> \o rows) = Len(<<Hello>>) + Len(rows)
          /\ \A i \in 1..Len(<<Hello>>) + Len(rows) : (<<Hello>> \o rows)[i] =
                 IF i <= Len(<<Hello>>) THEN <<Hello>>[i] ELSE rows[i - Len(<<Hello>>)]
      BY <1>3, ConcatProperties
    <2> QED BY <1>4, <2>1, <2>2
  <1>7. \A i \in DOMAIN rows, n \in V : n < rows[i] <=> \E j \in 1..i - 1 : rows[j] = n
    BY DEF Replayed
  <1> QED BY <1>3, <1>4, <1>5, <1>6, <1>7

-----------------------------------------------------------------------------
(* Slots and failures *)

LEMMA ReleaseFits ==
    ASSUME TypeOK, Slots, NEW ss \in SUBSET Live, Live' = Live \ ss, sseStreams' = Release(ss)
    PROVE  Slots' /\ sseStreams' \in 0..MaxStreams
  <1>1. IsFiniteSet(Live \ ss) /\ Cardinality(Live \ ss) = Cardinality(Live) - Cardinality(ss)
    <2>1. Live \cap ss = ss
      OBVIOUS
    <2> QED BY <2>1, FS_Difference DEF Slots
  <1>2. IsFiniteSet(ss) /\ Cardinality(ss) \in Nat /\ Cardinality(Live \ ss) \in Nat
    BY <1>1, FS_Subset, FS_CardinalityType DEF Slots
  <1>3. sseStreams' = Cardinality(Live \ ss)
    BY <1>1 DEF Release, Slots
  <1> QED BY <1>1, <1>2, <1>3, Bounds DEF Release, Slots, TypeOK

LEMMA FailFits ==
    ASSUME TypeOK, Tries, NEW cs \in SUBSET Clients, Fail(cs), \A c \in cs : failures[c] < MaxFailures
    PROVE  /\ failures' \in [Clients -> 0..MaxFailures] /\ lost' \in SUBSET Clients
           /\ \A c \in Clients : c \notin lost' => failures'[c] < MaxFailures
           /\ \A c \in Clients \ cs : failures'[c] = failures[c]
  <1>1. \A c \in Clients : failures[c] \in Nat /\ failures[c] <= MaxFailures
    BY Bounds DEF TypeOK
  <1>2. \A c \in Clients : failures'[c] = IF c \in cs THEN failures[c] + 1 ELSE failures[c]
    BY DEF Fail
  <1>3. failures' \in [Clients -> 0..MaxFailures]
    <2>1. \A c \in Clients : (IF c \in cs THEN failures[c] + 1 ELSE failures[c]) \in 0..MaxFailures
      BY <1>1, Bounds
    <2> QED BY <2>1 DEF Fail
  <1>4. lost' = lost \cup {c \in cs : failures'[c] = MaxFailures}
    BY DEF Fail
  <1>5. ASSUME NEW c \in Clients, c \notin lost'
        PROVE  failures'[c] < MaxFailures
    <2>1. CASE c \in cs
      BY <1>1, <1>2, <1>4, <1>5, <2>1, Bounds
    <2>2. CASE c \notin cs
      BY <1>2, <1>4, <1>5, <2>2 DEF Tries
    <2> QED BY <2>1, <2>2
  <1> QED BY <1>2, <1>3, <1>4, <1>5 DEF TypeOK

-----------------------------------------------------------------------------
(* Types, slots and tries *)

LEMMA InitKeeps == Init => Inv
  <1> SUFFICES ASSUME Init PROVE Inv
    OBVIOUS
  <1>1. next \in Nat /\ next = Backlog /\ first = 0 /\ Backlog <= MaxSeq
    BY Bounds DEF Init
  <1>2. TypeOK
    <2>1. \A S : <<>> \in Seq(S)
      OBVIOUS
    <2> QED BY <1>1, <2>1, Bounds DEF Init, TypeOK
  <1>3. Slots
    <2>1. Live = {}
      BY DEF Init, Live
    <2> QED BY <2>1, FS_EmptySet DEF Init, Slots
  <1>4. Tries
    BY Bounds DEF Init, Tries
  <1>5. LogFits
    BY <1>1, Bounds DEF Init, LogFits
  <1> QED BY <1>2, <1>3, <1>4, <1>5 DEF Inv

LEMMA PublishKeeps ==
    ASSUME Inv, Publish
    PROVE  Inv'
  <1> DEFINE w == {s \in Sockets : Writes(s, next)}
  <1> USE DEF Inv
  <1>1. /\ next \in Nat /\ next < MaxSeq /\ next' = next + 1 /\ next \in Seqs
        /\ UNCHANGED <<peer, clientVars, faults>>
    BY LogTypes, Bounds DEF Publish, Seqs
  <1>2. first' \in Nat /\ first' >= first /\ first' <= next
    <2>1. first \in Nat /\ next \in Nat /\ first <= next /\ Retention \in Nat
      BY LogTypes, Bounds DEF LogFits
    <2>2. CASE Retention = 0
      BY <2>1, <2>2 DEF Publish
    <2>3. CASE Retention # 0
      <3>1. first' = Larger(first, next - Retention + 1)
        BY <2>3 DEF Publish
      <3> QED BY <2>1, <2>3, <3>1 DEF Larger
    <2> QED BY <2>2, <2>3
  <1>3. PICK slow \in SUBSET w :
           /\ phase' = [s \in Sockets |-> IF s \in slow THEN "ended" ELSE phase[s]]
           /\ sseStreams' = Release(slow)
    BY DEF Publish
  <1>4. /\ lastSeq' = [s \in Sockets |-> IF s \in w THEN next ELSE lastSeq[s]]
        /\ wire'    = [s \in Sockets |-> IF s \in w THEN Append(wire[s], next) ELSE wire[s]]
    BY DEF Publish
  <1>5. slow \in SUBSET Live
    BY <1>3 DEF Live, Writes
  <1> HIDE DEF w
  <1>6. Live' = Live \ slow
    BY <1>3, <1>5 DEF Live
  <1>7. Slots' /\ sseStreams' \in 0..MaxStreams
    BY <1>3, <1>5, <1>6, ReleaseFits
  <1>8. wire' \in [Sockets -> Seq(Seqs \cup {Hello})]
    <2>1. \A s \in Sockets : wire[s] \in Seq(Seqs \cup {Hello})
      BY DEF TypeOK
    <2>2. \A s \in Sockets : Append(wire[s], next) \in Seq(Seqs \cup {Hello})
      BY <1>1, <2>1, AppendProperties
    <2> QED BY <1>4, <2>1, <2>2
  <1>9. /\ lastSeq' \in [Sockets -> Seqs \cup {None}]
        /\ phase' \in [Sockets -> {"free", "live", "ended"}]
        /\ first' \in 0..MaxSeq /\ next' \in 0..MaxSeq
    BY <1>1, <1>2, <1>3, <1>4, Bounds DEF TypeOK
  <1>10. TypeOK'
    BY <1>1, <1>7, <1>8, <1>9 DEF TypeOK, clientVars
  <1>11. Tries'
    BY <1>1 DEF Tries, clientVars
  <1>12. LogFits'
    <2>1. \A s \in Sockets : lastSeq'[s] < next'
      BY <1>1, <1>4, LogTypes DEF LogFits
    <2>2. \A c \in Clients : lastSeen'[c] < next' /\ partial'[c] < next'
      BY <1>1, LogTypes DEF LogFits, clientVars
    <2>3. ASSUME NEW s \in Sockets, NEW i \in DOMAIN wire'[s]
          PROVE  wire'[s][i] < next'
      <3>1. /\ wire[s] \in Seq(Seqs \cup {Hello}) /\ DOMAIN wire[s] = 1..Len(wire[s])
            /\ Len(wire[s]) \in Nat
        BY DEF TypeOK
      <3>2. \A j \in 1..Len(wire[s]) : wire[s][j] \in Int /\ wire[s][j] < next
        <4>1. ASSUME NEW j \in 1..Len(wire[s])
              PROVE  wire[s][j] \in Int /\ wire[s][j] < next
          <5>1. wire[s][j] \in Seqs \cup {Hello} /\ wire[s][j] < next
            BY <3>1 DEF LogFits
          <5>2. \A n \in Seqs \cup {Hello} : n \in Int
            BY Bounds
          <5> QED BY <5>1, <5>2
        <4> QED BY <4>1
      <3>3. CASE s \in w
        <4>1. wire'[s] = Append(wire[s], next)
          BY <1>4, <3>3
        <4>2. /\ wire'[s] \in Seq(Seqs \cup {Hello}) /\ Len(wire'[s]) = Len(wire[s]) + 1
              /\ \A j \in 1..Len(wire[s]) : wire'[s][j] = wire[s][j]
              /\ wire'[s][Len(wire[s]) + 1] = next
          BY <1>1, <3>1, <4>1, AppendProperties
        <4>3. i \in 1..Len(wire[s]) \/ i = Len(wire[s]) + 1
          BY <2>3, <3>1, <4>2, LenProperties
        <4> QED BY <1>1, <3>2, <4>2, <4>3
      <3>4. CASE s \notin w
        <4>1. wire'[s] = wire[s]
          BY <1>4, <3>4
        <4>2. wire'[s][i] \in Int /\ wire'[s][i] < next
          BY <2>3, <3>1, <3>2, <4>1
        <4> QED BY ONLY <1>1, <4>2
      <3> QED BY <3>3, <3>4
    <2> QED BY <1>1, <1>2, <2>1, <2>2, <2>3, Bounds DEF LogFits
  <1> QED BY <1>7, <1>10, <1>11, <1>12

LEMMA ConnectKeeps ==
    ASSUME Inv, NEW c \in Clients, NEW s \in Sockets, Connect(c, s)
    PROVE  Inv'
  <1> DEFINE page == PageSince(lastSeen[c])
  <1> USE DEF Inv
  <1>1. /\ c \notin lost /\ \A t \in Sockets : peer[t] # c
        /\ phase[s] = "free" /\ sseStreams < MaxStreams
        /\ peer' = [peer EXCEPT ![s] = c] /\ failures' = [failures EXCEPT ![c] = 0]
        /\ UNCHANGED <<logVars, lastSeen, partial, lost, faults>>
    BY DEF Connect, Connecting, Reading
  <1>2. PICK rows \in Replayed(Valid(page)), dropped \in BOOLEAN :
          /\ wire'    = [wire EXCEPT ![s] = <<Hello>> \o rows]
          /\ lastSeq' = [lastSeq EXCEPT ![s] = IF rows = <<>> THEN lastSeen[c]
                                                             ELSE rows[Len(rows)]]
          /\ IF dropped \/ EndsPage(page, Len(rows))
             THEN phase' = [phase EXCEPT ![s] = "ended"] /\ UNCHANGED sseStreams
             ELSE phase' = [phase EXCEPT ![s] = "live"] /\ sseStreams' = sseStreams + 1
    BY DEF Connect
  <1>3. page \subseteq 0..next - 1 /\ page \subseteq Seqs
    BY PageFacts, LogTypes
  <1>4. Valid(page) \in SUBSET Seqs /\ Valid(page) \subseteq 0..next - 1
    BY <1>3 DEF Valid
  <1> HIDE DEF page
  <1>5. /\ rows \in Seq(Seqs) /\ Len(rows) \in Nat /\ (rows # <<>> => Len(rows) > 0)
        /\ \A i \in 1..Len(rows) : rows[i] \in Valid(page)
        /\ <<Hello>> \o rows \in Seq(Seqs \cup {Hello})
        /\ Len(<<Hello>> \o rows) = Len(rows) + 1
        /\ (<<Hello>> \o rows)[1] = Hello
        /\ \A i \in 1..Len(rows) : (<<Hello>> \o rows)[i + 1] = rows[i]
    BY <1>4, ReplayedFacts
  <1>6. \/ phase' = [phase EXCEPT ![s] = "ended"] /\ UNCHANGED sseStreams
        \/ phase' = [phase EXCEPT ![s] = "live"] /\ sseStreams' = sseStreams + 1
    BY <1>2
  <1>7. Slots' /\ sseStreams' \in 0..MaxStreams
    <2>1. s \notin Live
      BY <1>1 DEF Live
    <2>2. CASE phase' = [phase EXCEPT ![s] = "ended"] /\ UNCHANGED sseStreams
      <3>1. Live' = Live
        BY <1>1, <2>2 DEF Live, TypeOK
      <3> QED BY <2>2, <3>1 DEF Slots, TypeOK
    <2>3. CASE phase' = [phase EXCEPT ![s] = "live"] /\ sseStreams' = sseStreams + 1
      <3>1. Live' = Live \cup {s}
        BY <1>1, <2>3 DEF Live, TypeOK
      <3>2. IsFiniteSet(Live') /\ Cardinality(Live') = Cardinality(Live) + 1
        BY <2>1, <3>1, FS_AddElement DEF Slots
      <3> QED BY <1>1, <2>3, <3>2, Bounds DEF Slots, TypeOK
    <2> QED BY <1>6, <2>2, <2>3
  <1>8. phase' \in [Sockets -> {"free", "live", "ended"}]
    BY <1>6 DEF TypeOK
  <1> DEFINE l == IF rows = <<>> THEN lastSeen[c] ELSE rows[Len(rows)]
  <1>9. l \in Seqs \cup {None} /\ l < next
    <2>1. CASE rows = <<>>
      BY <2>1 DEF TypeOK, LogFits
    <2>2. CASE rows # <<>>
      <3>1. rows[Len(rows)] \in Valid(page)
        BY <1>5, <2>2
      <3> QED BY <1>4, <2>2, <3>1, LogTypes
    <2> QED BY <2>1, <2>2
  <1>10. lastSeq' = [lastSeq EXCEPT ![s] = l]
    BY <1>2
  <1> HIDE DEF l
  <1>11. lastSeq' \in [Sockets -> Seqs \cup {None}] /\ \A t \in Sockets : lastSeq'[t] < next'
    BY <1>1, <1>9, <1>10 DEF TypeOK, LogFits, logVars
  <1>12. wire' \in [Sockets -> Seq(Seqs \cup {Hello})]
    BY <1>2, <1>5 DEF TypeOK
  <1>13. failures' \in [Clients -> 0..MaxFailures] /\ peer' \in [Sockets -> Clients \cup {NoClient}]
    BY <1>1, Bounds DEF TypeOK
  <1>14. TypeOK'
    BY <1>1, <1>7, <1>8, <1>11, <1>12, <1>13 DEF TypeOK, logVars
  <1>15. Tries'
    BY <1>1, Bounds DEF Tries, TypeOK
  <1>16. LogFits'
    <2>1. ASSUME NEW i \in DOMAIN (<<Hello>> \o rows)
          PROVE  (<<Hello>> \o rows)[i] < next
      <3>1. i \in 1..Len(rows) + 1
        BY <1>5, LenProperties
      <3>2. CASE i = 1
        BY <1>5, <3>2, LogTypes, Bounds
      <3>3. CASE i # 1
        <4>1. i - 1 \in 1..Len(rows) /\ i = (i - 1) + 1
          BY <1>5, <3>1, <3>3
        <4>2. (<<Hello>> \o rows)[i] \in Valid(page)
          BY <1>5, <4>1
        <4> QED BY <1>4, <4>2, LogTypes
      <3> QED BY <3>2, <3>3
    <2> QED BY <1>1, <1>2, <1>11, <2>1 DEF LogFits, logVars, TypeOK
  <1> QED BY <1>7, <1>14, <1>15, <1>16

LEMMA AttemptKeeps ==
    ASSUME Inv, NEW c \in Clients, Refused(c) \/ Unreachable(c)
    PROVE  Inv'
  <1> USE DEF Inv
  <1>1. /\ c \notin lost /\ \A t \in Sockets : peer[t] # c
        /\ Fail({c}) /\ faults' \in 0..MaxFaults
        /\ UNCHANGED <<logVars, socketVars, lastSeen, partial>>
    BY Bounds DEF Refused, Unreachable, Connecting, Reading, Fault, TypeOK
  <1>2. /\ failures' \in [Clients -> 0..MaxFailures] /\ lost' \in SUBSET Clients
        /\ \A d \in Clients : d \notin lost' => failures'[d] < MaxFailures
        /\ \A d \in Clients \ {c} : failures'[d] = failures[d]
    BY <1>1, FailFits DEF Tries
  <1>3. TypeOK'
    BY <1>1, <1>2 DEF TypeOK, logVars, socketVars
  <1>4. Tries'
    BY <1>1, <1>2 DEF Tries, socketVars, TypeOK
  <1> QED BY <1>1, <1>3, <1>4 DEF Slots, Live, LogFits, logVars, socketVars

LEMMA ReadKeeps ==
    ASSUME Inv, NEW s \in Sockets, Read(s) \/ ReadEnd(s)
    PROVE  Inv'
  <1> USE DEF Inv
  <1>1. peer[s] \in Clients /\ UNCHANGED <<logVars, phase, lastSeq, sseStreams, failures, lost, faults>>
    BY DEF Read, ReadEnd, TypeOK, clientVars
  <1>2. CASE Read(s)
    <2> DEFINE c == peer[s]
               n == IF Head(wire[s]) = Hello THEN partial[c] ELSE Head(wire[s])
    <2>1. /\ wire[s] # <<>> /\ wire[s] \in Seq(Seqs \cup {Hello})
          /\ wire' = [wire EXCEPT ![s] = Tail(@)] /\ partial' = [partial EXCEPT ![c] = None]
          /\ IF Unseen(c, n) THEN Apply(c, n) ELSE UNCHANGED lastSeen
          /\ UNCHANGED peer
      BY <1>1, <1>2 DEF Read, TypeOK
    <2>2. /\ Head(wire[s]) = wire[s][1] /\ 1 \in DOMAIN wire[s]
          /\ Head(wire[s]) \in Seqs \cup {Hello} /\ Tail(wire[s]) \in Seq(Seqs \cup {Hello})
          /\ \A i \in DOMAIN Tail(wire[s]) : i + 1 \in DOMAIN wire[s]
                                             /\ Tail(wire[s])[i] = wire[s][i + 1]
      BY <2>1
    <2>3. n \in Seqs \cup {None} /\ n < next
      BY <1>1, <2>2 DEF TypeOK, LogFits
    <2> HIDE DEF n
    <2>4. /\ lastSeen' \in [Clients -> Seqs \cup {None}]
          /\ partial' \in [Clients -> Seqs \cup {None}]
          /\ \A d \in Clients : lastSeen'[d] \in {lastSeen[d], n} /\ partial'[d] \in {partial[d], None}
      BY <1>1, <2>1, <2>3 DEF Apply, TypeOK
    <2>5. wire' \in [Sockets -> Seq(Seqs \cup {Hello})]
      BY <2>1, <2>2 DEF TypeOK
    <2>6. LogFits'
      <3>1. \A d \in Clients : lastSeen'[d] < next /\ partial'[d] < next
        BY <2>3, <2>4, LogTypes, Bounds DEF LogFits
      <3>2. \A t \in Sockets : \A i \in DOMAIN wire'[t] : wire'[t][i] < next
        BY <2>1, <2>2 DEF LogFits, TypeOK
      <3> QED BY <1>1, <3>1, <3>2 DEF LogFits, logVars
    <2>7. TypeOK'
      BY <1>1, <2>1, <2>4, <2>5 DEF TypeOK, logVars
    <2> QED BY <1>1, <2>1, <2>6, <2>7 DEF Slots, Live, Tries
  <1>3. CASE ReadEnd(s)
    <2>1. peer' = [peer EXCEPT ![s] = NoClient] /\ UNCHANGED <<wire, clientVars>>
      BY <1>3 DEF ReadEnd
    <2>2. TypeOK'
      BY <1>1, <2>1 DEF TypeOK, logVars, clientVars
    <2>3. Tries'
      BY <1>1, <2>1 DEF Tries, clientVars, TypeOK
    <2> QED BY <1>1, <2>1, <2>2, <2>3 DEF Slots, Live, LogFits, logVars, clientVars
  <1> QED BY <1>2, <1>3

\* What a broken connection may leave in the parser's buffer.
LEMMA BreakFits ==
    ASSUME Inv, NEW ss \in SUBSET Sockets, Break(ss)
    PROVE  /\ \A c \in Clients : partial'[c] = partial[c] \/
                 \E s \in Sockets : /\ peer[s] = c /\ wire[s] # <<>> /\ Head(wire[s]) # Hello
                                    /\ partial'[c] = Head(wire[s])
           /\ partial' \in [Clients -> Seqs \cup {None}] /\ \A c \in Clients : partial'[c] < next
           /\ peer' = [s \in Sockets |-> IF s \in ss THEN NoClient ELSE peer[s]]
           /\ wire' = [s \in Sockets |-> IF s \in ss THEN <<>> ELSE wire[s]]
           /\ peer' \in [Sockets -> Clients \cup {NoClient}]
           /\ wire' \in [Sockets -> Seq(Seqs \cup {Hello})]
           /\ failures' \in [Clients -> 0..MaxFailures] /\ lost' \in SUBSET Clients
           /\ Tries'
  <1> DEFINE cs == {peer[s] : s \in ss} \ {NoClient}
  <1> USE DEF Inv
  <1>1. /\ partial' \in [Clients -> Seqs \cup {None}]
        /\ \A c \in Clients : partial'[c] \in IF c \in cs THEN LeftOver(c) ELSE {partial[c]}
        /\ peer' = [s \in Sockets |-> IF s \in ss THEN NoClient ELSE peer[s]]
        /\ wire' = [s \in Sockets |-> IF s \in ss THEN <<>> ELSE wire[s]]
        /\ Fail(cs)
    BY DEF Break
  <1>2. cs \in SUBSET Clients /\ \A c \in cs : failures[c] < MaxFailures
    BY Bounds DEF TypeOK, Tries
  <1>3. \A c \in Clients : partial'[c] = partial[c] \/
            \E s \in Sockets : /\ peer[s] = c /\ wire[s] # <<>> /\ Head(wire[s]) # Hello
                               /\ partial'[c] = Head(wire[s])
    BY <1>1 DEF LeftOver
  <1>4. \A c \in Clients : partial'[c] < next
    <2>1. ASSUME NEW s \in Sockets, wire[s] # <<>>
          PROVE  Head(wire[s]) < next
      <3>1. wire[s] \in Seq(Seqs \cup {Hello})
        BY DEF TypeOK
      <3>2. Head(wire[s]) = wire[s][1] /\ 1 \in DOMAIN wire[s]
        BY <2>1, <3>1
      <3> QED BY <3>2 DEF LogFits
    <2> QED BY <1>3, <2>1 DEF LogFits
  <1>5. /\ failures' \in [Clients -> 0..MaxFailures] /\ lost' \in SUBSET Clients
        /\ \A c \in Clients : c \notin lost' => failures'[c] < MaxFailures
        /\ \A c \in Clients \ cs : failures'[c] = failures[c]
    BY <1>1, <1>2, FailFits
  <1>6. peer' \in [Sockets -> Clients \cup {NoClient}]
    BY <1>1 DEF TypeOK
  <1>7. wire' \in [Sockets -> Seq(Seqs \cup {Hello})]
    <2>1. <<>> \in Seq(Seqs \cup {Hello})
      OBVIOUS
    <2> QED BY <1>1, <2>1 DEF TypeOK
  <1>8. Tries'
    <2>1. \A s \in Sockets : peer'[s] # NoClient => s \notin ss /\ peer'[s] = peer[s]
      BY <1>1
    <2>2. \A s \in Sockets : peer'[s] # NoClient => peer[s] \in Clients \ cs
      BY <2>1 DEF Tries, TypeOK
    <2> QED BY <1>5, <2>1, <2>2 DEF Tries
  <1> QED BY <1>1, <1>3, <1>4, <1>5, <1>6, <1>7, <1>8

LEMMA BreakKeeps ==
    ASSUME Inv, Restart \/ \E s \in Sockets : Cut(s)
    PROVE  Inv'
  <1> USE DEF Inv
  <1>1. PICK ss \in SUBSET Sockets : Break(ss)
    <2>1. Restart => Break(Sockets)
      BY Zenon DEF Restart
    <2>2. ASSUME NEW s \in Sockets, Cut(s)
          PROVE  Break({s}) /\ {s} \in SUBSET Sockets
      BY <2>2, Zenon DEF Cut
    <2>3. Sockets \in SUBSET Sockets
      OBVIOUS
    <2> HIDE DEF Inv
    <2> QED BY <2>1, <2>2, <2>3, Zenon
  <1>2. UNCHANGED <<logVars, lastSeq, lastSeen>> /\ faults' \in 0..MaxFaults
    <2>1. Fault => faults' \in 0..MaxFaults
      BY Bounds DEF Fault, TypeOK
    <2>2. UNCHANGED <<logVars, lastSeq, lastSeen>> /\ Fault
      <3>1. Restart => UNCHANGED <<logVars, lastSeq, lastSeen>> /\ Fault
        BY Zenon DEF Restart
      <3>2. ASSUME NEW s \in Sockets, Cut(s)
            PROVE  UNCHANGED <<logVars, lastSeq, lastSeen>> /\ Fault
        BY <3>2, Zenon DEF Cut
      <3> HIDE DEF Inv
      <3> QED BY <3>1, <3>2, Zenon
    <2> QED BY <2>1, <2>2
  <1>3. /\ phase' \in [Sockets -> {"free", "live", "ended"}] /\ Slots'
        /\ sseStreams' \in 0..MaxStreams
    <2>1. CASE UNCHANGED <<phase, sseStreams>>
      BY <2>1 DEF Slots, Live, TypeOK
    <2>2. CASE phase' = [s \in Sockets |-> "free"] /\ sseStreams' = 0
      <3>1. Live' = {}
        BY <2>2 DEF Live
      <3> QED BY <2>2, <3>1, FS_EmptySet, Bounds DEF Slots
    <2> QED BY <2>1, <2>2 DEF Restart, Cut
  <1>4. TypeOK'
    BY <1>1, <1>2, <1>3, BreakFits DEF TypeOK, logVars
  <1>5. LogFits'
    <2>1. \A c \in Clients : lastSeen'[c] < next' /\ partial'[c] < next'
      BY <1>1, <1>2, BreakFits DEF LogFits, logVars
    <2>2. \A s \in Sockets : \A i \in DOMAIN wire'[s] : wire'[s][i] < next
      <3>1. \A s \in Sockets : wire'[s] = IF s \in ss THEN <<>> ELSE wire[s]
        BY <1>1, BreakFits
      <3>2. DOMAIN <<>> = {}
        OBVIOUS
      <3> QED BY <3>1, <3>2 DEF LogFits
    <2> QED BY <1>2, <2>1, <2>2 DEF LogFits, logVars
  <1> QED BY <1>1, <1>3, <1>4, <1>5, BreakFits

LEMMA ReloadKeeps ==
    ASSUME Inv, NEW c \in Clients, Reload(c)
    PROVE  Inv'
  <1> USE DEF Inv
  <1>1. /\ lastSeen' = [lastSeen EXCEPT ![c] = None] /\ partial' = [partial EXCEPT ![c] = None]
        /\ failures' = [failures EXCEPT ![c] = 0] /\ lost' = lost \ {c}
        /\ peer' = [s \in Sockets |-> IF peer[s] = c THEN NoClient ELSE peer[s]]
        /\ wire' = [s \in Sockets |-> IF peer[s] = c THEN <<>> ELSE wire[s]]
        /\ UNCHANGED <<logVars, phase, lastSeq, sseStreams>> /\ faults' \in 0..MaxFaults
    BY Bounds DEF Reload, Fault, TypeOK
  <1>2. wire' \in [Sockets -> Seq(Seqs \cup {Hello})]
    <2>1. <<>> \in Seq(Seqs \cup {Hello})
      OBVIOUS
    <2> QED BY <1>1, <2>1 DEF TypeOK
  <1>3. TypeOK'
    BY <1>1, <1>2, Bounds DEF TypeOK, logVars
  <1>4. Tries'
    BY <1>1, Bounds DEF Tries, TypeOK
  <1>5. LogFits'
    <2>1. None < next
      BY LogTypes, Bounds
    <2>2. \A d \in Clients : lastSeen'[d] < next /\ partial'[d] < next
      BY <1>1, <2>1 DEF LogFits, TypeOK
    <2>3. \A s \in Sockets : \A i \in DOMAIN wire'[s] : wire'[s][i] < next
      BY <1>1 DEF LogFits
    <2> QED BY <1>1, <2>2, <2>3 DEF LogFits, logVars
  <1> QED BY <1>1, <1>3, <1>4, <1>5 DEF Slots, Live

LEMMA CloseKeeps ==
    ASSUME Inv, NEW s \in Sockets, Close(s)
    PROVE  Inv'
  <1> USE DEF Inv
  <1>1. /\ sseStreams' = Release(Cleanup(s)) /\ phase' = [phase EXCEPT ![s] = "free"]
        /\ wire' = [wire EXCEPT ![s] = <<>>]
        /\ UNCHANGED <<logVars, lastSeq, peer, clientVars, faults>>
    BY DEF Close
  <1>2. Cleanup(s) \in SUBSET Live /\ Live' = Live \ Cleanup(s)
    BY <1>1 DEF Cleanup, Live, TypeOK
  <1>3. Slots' /\ sseStreams' \in 0..MaxStreams
    BY <1>1, <1>2, ReleaseFits
  <1>4. wire' \in [Sockets -> Seq(Seqs \cup {Hello})]
    <2>1. <<>> \in Seq(Seqs \cup {Hello})
      OBVIOUS
    <2> QED BY <1>1, <2>1 DEF TypeOK
  <1>5. TypeOK'
    BY <1>1, <1>3, <1>4 DEF TypeOK, logVars, clientVars
  <1>6. LogFits'
    BY <1>1 DEF LogFits, logVars, clientVars, TypeOK
  <1> QED BY <1>1, <1>3, <1>5, <1>6 DEF Tries, clientVars

LEMMA NextKeeps == Inv /\ [Next]_vars => Inv'
  <1>1. Inv /\ UNCHANGED vars => Inv'
    BY DEF Inv, TypeOK, Slots, Live, Tries, LogFits, vars, logVars, socketVars, clientVars
  <1> QED
    BY <1>1, PublishKeeps, ConnectKeeps, AttemptKeeps, ReadKeeps, BreakKeeps, ReloadKeeps,
       CloseKeeps DEF Next

LEMMA Invariance == Spec => []Inv
  BY InitKeeps, NextKeeps, PTL DEF Spec

-----------------------------------------------------------------------------
(* What travels to a reader *)

LEMMA BlockTypes ==
    ASSUME NEW W \in Seq(Seqs \cup {Hello})
    PROVE  /\ DOMAIN W = 1..Len(W) /\ Len(W) \in Nat
           /\ \A i \in 1..Len(W) : W[i] \in Int /\ W[i] >= -1
  <1>1. DOMAIN W = 1..Len(W) /\ Len(W) \in Nat /\ \A i \in 1..Len(W) : W[i] \in Seqs \cup {Hello}
    BY LenProperties
  <1>2. \A n \in Seqs \cup {Hello} : n \in Int /\ n >= -1
    BY Bounds
  <1> HIDE DEF Hello
  <1> QED BY <1>1, <1>2

\* A longer log, an older row gone, a reader that has seen more: the blocks still fit,
\* on a socket that has received all it should.
LEMMA FitsLater ==
    ASSUME NEW W \in Seq(Seqs \cup {Hello}), NEW a \in Int, NEW b \in Int, a <= b,
           NEW f \in Nat, NEW g \in Nat, f <= g, NEW x \in Nat, NEW y \in Nat, x <= y,
           NEW p, NEW q, q = "live" => p = "live" /\ x = y, Fits(W, a, f, x, p)
    PROVE  Fits(W, b, g, y, q)
  <1>1. DOMAIN W = 1..Len(W) /\ Len(W) \in Nat /\ \A i \in 1..Len(W) : W[i] \in Int
    BY BlockTypes
  <1>2. \A m \in Int, i \in Int : Arrives(m, W, i, f) => Arrives(m, W, i, g)
    BY DEF Arrives
  <1>3. ASSUME NEW z \in Int, NEW m \in b + 1..z
        PROVE  m \in Int /\ m \in a + 1..z
    OBVIOUS
  <1>4. \A n : Row(n, x) => Row(n, y)
    BY DEF Row
  <1>5. ASSUME NEW i \in DOMAIN W
        PROVE  /\ W[i] # Hello => Row(W[i], y)
               /\ \A j \in 1..i - 1 : W[j] < W[i]
               /\ \A m \in b + 1..W[i] - 1 : Arrives(m, W, i - 1, g)
    <2>1. /\ W[i] # Hello => Row(W[i], x)
          /\ \A j \in 1..i - 1 : W[j] < W[i]
          /\ \A m \in a + 1..W[i] - 1 : Arrives(m, W, i - 1, f)
      BY DEF Fits
    <2>2. W[i] - 1 \in Int /\ i - 1 \in Int
      BY <1>1
    <2> QED BY <1>2, <1>3, <1>4, <2>1, <2>2
  <1>6. ASSUME q = "live", NEW m \in b + 1..y - 1
        PROVE  Arrives(m, W, Len(W), g)
    <2>1. \A n \in a + 1..x - 1 : Arrives(n, W, Len(W), f)
      BY <1>6 DEF Fits
    <2>2. m \in Int /\ m \in a + 1..x - 1
      BY <1>6
    <2> QED BY <1>1, <1>2, <2>1, <2>2
  <1> QED BY <1>5, <1>6 DEF Fits

\* A live socket receives the next event.
LEMMA FitsAppended ==
    ASSUME NEW W \in Seq(Seqs \cup {Hello}), NEW a \in Int, NEW f \in Nat, NEW g \in Nat, f <= g,
           NEW x \in Seqs, x \notin Malformed, \A i \in DOMAIN W : W[i] < x,
           Fits(W, a, f, x, "live"), NEW q
    PROVE  Fits(Append(W, x), a, g, x + 1, q)
  <1> DEFINE V == Append(W, x)
  <1>1. DOMAIN W = 1..Len(W) /\ Len(W) \in Nat /\ \A i \in 1..Len(W) : W[i] \in Int
    BY BlockTypes
  <1>2. /\ V \in Seq(Seqs \cup {Hello}) /\ Len(V) = Len(W) + 1
        /\ \A i \in 1..Len(W) : V[i] = W[i]
        /\ V[Len(W) + 1] = x
    BY AppendProperties
  <1>3. DOMAIN V = 1..Len(W) + 1
    BY <1>2, LenProperties
  <1>4. x \in Nat
    BY Bounds
  <1> HIDE DEF V
  <1>5. \A m \in Int, i \in 0..Len(W) : Arrives(m, W, i, f) => Arrives(m, V, i, g)
    BY <1>1, <1>2 DEF Arrives
  <1>6. ASSUME NEW m \in a + 1..x - 1
        PROVE  m \in Int /\ Arrives(m, V, Len(W), g)
    <2>1. m \in Int /\ Arrives(m, W, Len(W), f)
      BY <1>4 DEF Fits
    <2> QED BY <1>1, <1>5, <2>1
  <1>7. ASSUME NEW i \in DOMAIN V
        PROVE  /\ V[i] # Hello => Row(V[i], x + 1)
               /\ \A j \in 1..i - 1 : V[j] < V[i]
               /\ \A m \in a + 1..V[i] - 1 : Arrives(m, V, i - 1, g)
    <2>1. CASE i \in 1..Len(W)
      <3>1. /\ W[i] # Hello => Row(W[i], x)
            /\ \A j \in 1..i - 1 : W[j] < W[i]
            /\ \A m \in a + 1..W[i] - 1 : Arrives(m, W, i - 1, f)
        BY <1>1, <2>1 DEF Fits
      <3>2. \A m \in a + 1..W[i] - 1 : m \in Int
        BY <1>1, <2>1
      <3>3. i - 1 \in 0..Len(W) /\ V[i] = W[i] /\ \A j \in 1..i - 1 : V[j] = W[j]
        BY <1>1, <1>2, <2>1
      <3>4. \A n : Row(n, x) => Row(n, x + 1)
        BY <1>4 DEF Row
      <3> QED BY <1>5, <3>1, <3>2, <3>3, <3>4
    <2>2. CASE i = Len(W) + 1
      <3>1. V[i] = x /\ i - 1 = Len(W) /\ Row(x, x + 1)
        BY <1>1, <1>2, <1>4, <2>2 DEF Row
      <3>2. \A j \in 1..i - 1 : V[j] < x
        BY <1>1, <1>2, <3>1
      <3> QED BY <1>6, <3>1, <3>2
    <2> QED BY <1>1, <1>3, <2>1, <2>2
  <1>8. ASSUME NEW m \in a + 1..(x + 1) - 1
        PROVE  Arrives(m, V, Len(V), g)
    <2>1. CASE m = x
      BY <1>1, <1>2, <2>1 DEF Arrives
    <2>2. CASE m # x
      <3>1. m \in a + 1..x - 1
        BY <1>4, <2>2
      <3>2. Arrives(m, V, Len(W), g)
        BY <1>6, <3>1
      <3> QED BY <1>1, <1>2, <3>2 DEF Arrives
    <2> QED BY <2>1, <2>2
  <1> QED BY <1>7, <1>8 DEF Fits, V

\* The reader has taken the first block.
LEMMA FitsTail ==
    ASSUME NEW W \in Seq(Seqs \cup {Hello}), W # <<>>, NEW a \in Int, NEW b \in Int, a >= -1, a <= b,
           Head(W) # Hello => Head(W) <= b, NEW f \in Nat, NEW x \in Nat, NEW p, Fits(W, a, f, x, p)
    PROVE  Fits(Tail(W), b, f, x, p)
  <1> DEFINE V == Tail(W)
  <1>1. DOMAIN W = 1..Len(W) /\ Len(W) \in Nat /\ \A i \in 1..Len(W) : W[i] \in Int
    BY BlockTypes
  <1>2. /\ V \in Seq(Seqs \cup {Hello}) /\ Len(V) = Len(W) - 1 /\ Len(V) \in Nat
        /\ \A i \in 1..Len(V) : V[i] = W[i + 1]
        /\ Head(W) = W[1] /\ 1 \in DOMAIN W
    BY <1>1, HeadTailProperties, EmptySeq
  <1>3. DOMAIN V = 1..Len(V)
    BY <1>2, LenProperties
  <1> HIDE DEF V
  <1>4. ASSUME NEW m \in Int, m > b, NEW i \in 0..Len(V), Arrives(m, W, i + 1, f)
        PROVE  Arrives(m, V, i, f)
    <2>1. CASE m < f \/ m \in Malformed
      BY <2>1 DEF Arrives
    <2>2. CASE \E j \in 1..i + 1 : W[j] = m
      <3>1. PICK j \in 1..i + 1 : W[j] = m
        BY <2>2
      <3>2. j # 1
        BY <1>2, <1>4, <3>1, Bounds
      <3>3. j - 1 \in 1..i /\ j - 1 \in 1..Len(V) /\ (j - 1) + 1 = j
        BY <1>2, <1>4, <3>1, <3>2
      <3>4. V[j - 1] = m
        BY <1>2, <3>1, <3>3
      <3> QED BY <3>3, <3>4 DEF Arrives
    <2> QED BY <1>4, <2>1, <2>2 DEF Arrives
  <1>5. ASSUME NEW i \in DOMAIN V
        PROVE  /\ V[i] # Hello => Row(V[i], x)
               /\ \A j \in 1..i - 1 : V[j] < V[i]
               /\ \A m \in b + 1..V[i] - 1 : Arrives(m, V, i - 1, f)
    <2>1. i + 1 \in DOMAIN W /\ V[i] = W[i + 1] /\ (i + 1) - 1 = i /\ i - 1 \in 0..Len(V)
          /\ (i - 1) + 1 = i /\ W[i + 1] \in Int
      <3>1. i \in 1..Len(V) /\ i + 1 \in 1..Len(W)
        BY <1>1, <1>2, <1>3, <1>5
      <3>2. V[i] = W[i + 1] /\ W[i + 1] \in Int /\ i + 1 \in DOMAIN W
        BY <1>1, <1>2, <3>1
      <3> QED BY <1>2, <3>1, <3>2
    <2>2. /\ W[i + 1] # Hello => Row(W[i + 1], x)
          /\ \A j \in 1..i : W[j] < W[i + 1]
          /\ \A m \in a + 1..W[i + 1] - 1 : Arrives(m, W, i, f)
      BY <2>1 DEF Fits
    <2>3. \A j \in 1..i - 1 : V[j] = W[j + 1] /\ j + 1 \in 1..i
      BY <1>2, <1>3
    <2>4. ASSUME NEW m \in b + 1..V[i] - 1
          PROVE  Arrives(m, V, i - 1, f)
      <3>1. m \in Int /\ m > b /\ m \in a + 1..W[i + 1] - 1
        BY <2>1
      <3> QED BY <1>4, <2>1, <2>2, <3>1
    <2> QED BY <2>1, <2>2, <2>3, <2>4
  <1>6. ASSUME p = "live", NEW m \in b + 1..x - 1
        PROVE  Arrives(m, V, Len(V), f)
    <2>1. m \in Int /\ m > b /\ m \in a + 1..x - 1
      OBVIOUS
    <2>2. Arrives(m, W, Len(V) + 1, f)
      BY <1>1, <1>2, <1>6, <2>1 DEF Fits
    <2> QED BY <1>2, <1>4, <2>1, <2>2
  <1> QED BY <1>5, <1>6 DEF Fits, V

\* The first row that travels is one its reader may apply.
LEMMA FitsHead ==
    ASSUME NEW W \in Seq(Seqs \cup {Hello}), W # <<>>, Head(W) # Hello, NEW a \in Int,
           NEW f \in Nat, NEW x \in Nat, NEW p, Fits(W, a, f, x, p)
    PROVE  /\ Head(W) \in Nat /\ Row(Head(W), x)
           /\ \A m \in a + 1..Head(W) - 1 : m < f \/ m \in Malformed
  <1>1. Head(W) = W[1] /\ 1 \in DOMAIN W
    BY BlockTypes, EmptySeq, HeadTailProperties
  <1>2. Row(Head(W), x) /\ \A m \in a + 1..Head(W) - 1 : Arrives(m, W, 1 - 1, f)
    BY <1>1 DEF Fits
  <1>3. \A m : Arrives(m, W, 1 - 1, f) => m < f \/ m \in Malformed
    BY DEF Arrives
  <1> QED BY <1>2, <1>3 DEF Row

-----------------------------------------------------------------------------
(* The streams stay in order, and each step is one of EventLog *)

IInv == Inv /\ InOrder

LogStep == [Log!Next]_(Log!vars)

LEMMA LogIdles ==
    ASSUME UNCHANGED <<first, next, lastSeen>>
    PROVE  LogStep
  BY DEF LogStep, Log!vars

LEMMA LaterTypes ==
    ASSUME TypeOK'
    PROVE  first' \in Nat /\ next' \in Nat /\ \A c \in Clients : lastSeen'[c] \in Int
  <1>1. \A n \in Seqs \cup {None} : n \in Int
    BY Bounds
  <1>2. \A c \in Clients : lastSeen'[c] \in Seqs \cup {None}
    BY DEF TypeOK
  <1>3. first' \in Nat /\ next' \in Nat
    BY Bounds DEF TypeOK
  <1> HIDE DEF None
  <1> QED BY <1>1, <1>2, <1>3, Zenon

LEMMA WireTypes ==
    ASSUME TypeOK, NEW s \in Sockets, peer[s] # NoClient
    PROVE  /\ wire[s] \in Seq(Seqs \cup {Hello}) /\ peer[s] \in Clients
           /\ lastSeen[peer[s]] \in Int /\ lastSeen[peer[s]] >= -1
  <1>1. wire[s] \in Seq(Seqs \cup {Hello}) /\ peer[s] \in Clients
    BY DEF TypeOK
  <1> QED BY <1>1, LogTypes

\* Nothing happens to a socket but that its reader has seen more.
LEMMA WireStays ==
    ASSUME IInv, Inv', first <= first', next <= next',
           NEW s \in Sockets, peer[s] # NoClient, peer'[s] = peer[s], wire'[s] = wire[s],
           lastSeen[peer[s]] <= lastSeen'[peer[s]],
           phase'[s] = "live" => phase[s] = "live" /\ next' = next
    PROVE  WireFits(s)'
  <1>1. /\ wire[s] \in Seq(Seqs \cup {Hello}) /\ peer[s] \in Clients
        /\ lastSeen[peer[s]] \in Int
    BY WireTypes DEF IInv, Inv
  <1>2. first \in Nat /\ next \in Nat
    BY LogTypes DEF IInv, Inv
  <1>3. first' \in Nat /\ next' \in Nat /\ \A c \in Clients : lastSeen'[c] \in Int
    BY LaterTypes DEF Inv
  <1>4. Fits(wire[s], lastSeen[peer[s]], first, next, phase[s])
    BY DEF IInv, InOrder, WireFits
  <1>5. Fits(wire[s], lastSeen'[peer[s]], first', next', phase'[s])
    <2>1. lastSeen'[peer[s]] \in Int
      BY <1>1, <1>3
    <2>2. phase'[s] = "live" => phase[s] = "live" /\ next = next'
      OBVIOUS
    <2> QED BY <1>1, <1>2, <1>3, <1>4, <2>1, <2>2, FitsLater
  <1> QED BY <1>5 DEF WireFits

LEMMA PartialStays ==
    ASSUME IInv, Inv', first <= first', next <= next',
           NEW c \in Clients, partial'[c] = partial[c], lastSeen[c] <= lastSeen'[c]
    PROVE  PartialFits(c)'
  <1>1. first \in Nat /\ next \in Nat /\ lastSeen[c] \in Int /\ partial[c] \in Int
    BY LogTypes DEF IInv, Inv
  <1>2. first' \in Nat /\ next' \in Nat /\ lastSeen'[c] \in Int
    BY LaterTypes DEF Inv
  <1>3. PartialFits(c)
    BY DEF IInv, InOrder
  <1> QED BY <1>1, <1>2, <1>3 DEF PartialFits, Row

LEMMA InitInOrder == Init => InOrder /\ Log!Init
  <1> SUFFICES ASSUME Init PROVE InOrder /\ Log!Init
    OBVIOUS
  <1>1. InOrder
    BY DEF Init, InOrder, PartialFits
  <1>2. Log!Init
    BY Bounds DEF Init, Log!Init
  <1> QED BY <1>1, <1>2

LEMMA PublishInOrder ==
    ASSUME IInv, Inv', Publish
    PROVE  InOrder' /\ LogStep
  <1> DEFINE w == {s \in Sockets : Writes(s, next)}
  <1> USE DEF IInv, Inv
  <1>1. /\ first \in Nat /\ next \in Nat /\ next < MaxSeq /\ next' = next + 1 /\ next \in Seqs
        /\ UNCHANGED <<peer, lastSeen, partial>>
    BY LogTypes, Bounds DEF Publish, Seqs, clientVars
  <1>2. first' \in Nat /\ first <= first' /\ first' <= next
    <2>1. first \in Nat /\ next \in Nat /\ first <= next /\ Retention \in Nat
      BY LogTypes, Bounds DEF LogFits
    <2>2. CASE Retention = 0
      BY <2>1, <2>2 DEF Publish
    <2>3. CASE Retention # 0
      <3>1. first' = Larger(first, next - Retention + 1)
        BY <2>3 DEF Publish
      <3> QED BY <2>1, <2>3, <3>1 DEF Larger
    <2> QED BY <2>2, <2>3
  <1>3. /\ wire' = [s \in Sockets |-> IF s \in w THEN Append(wire[s], next) ELSE wire[s]]
        /\ \A s \in Sockets : s \notin w => phase'[s] = phase[s]
    BY DEF Publish
  <1>4. \A s \in Sockets : s \in w <=> phase[s] = "live"
    BY LogTypes DEF Writes, LogFits
  <1> HIDE DEF w
  <1>5. next \notin Malformed
    BY <1>1, Bounds DEF LogFits
  <1>6. ASSUME NEW s \in Sockets, peer'[s] # NoClient
        PROVE  WireFits(s)'
    <2>1. peer[s] # NoClient /\ peer'[s] = peer[s] /\ lastSeen' = lastSeen
      BY <1>1, <1>6
    <2>2. /\ wire[s] \in Seq(Seqs \cup {Hello}) /\ lastSeen[peer[s]] \in Int
      BY <2>1, WireTypes
    <2>3. CASE s \in w
      <3>1. phase[s] = "live" /\ wire'[s] = Append(wire[s], next)
        BY <1>3, <1>4, <2>3
      <3>2. Fits(wire[s], lastSeen[peer[s]], first, next, "live")
        BY <2>1, <3>1 DEF InOrder, WireFits
      <3>3. \A i \in DOMAIN wire[s] : wire[s][i] < next
        BY DEF LogFits
      <3>4. Fits(Append(wire[s], next), lastSeen[peer[s]], first', next + 1, phase'[s])
        BY <1>1, <1>2, <1>5, <2>2, <3>2, <3>3, FitsAppended
      <3> QED BY <1>1, <2>1, <3>1, <3>4 DEF WireFits
    <2>4. CASE s \notin w
      <3>1. wire'[s] = wire[s] /\ phase'[s] = phase[s] /\ phase[s] # "live"
        BY <1>3, <1>4, <2>4
      <3>2. next <= next' /\ lastSeen[peer[s]] <= lastSeen'[peer[s]]
        BY <1>1, <2>1, <2>2
      <3> QED BY <1>2, <2>1, <3>1, <3>2, WireStays
    <2> QED BY <2>3, <2>4
  <1>7. ASSUME NEW c \in Clients
        PROVE  PartialFits(c)'
    <2>1. lastSeen[c] <= lastSeen'[c] /\ next <= next' /\ partial'[c] = partial[c]
      BY <1>1, LogTypes
    <2> QED BY <1>2, <2>1, PartialStays
  <1>8. Log!Publish
    BY <1>1, <1>2 DEF Log!Publish
  <1> QED BY <1>6, <1>7, <1>8 DEF InOrder, LogStep, Log!Next

\* What the route writes before it ends or goes live fits its reader.
LEMMA FitsReplayed ==
    ASSUME NoBlankPage, TypeOK, LogFits, NEW a \in Int, a >= -1,
           NEW rows \in Replayed(Valid(PageSince(a))), NEW p,
           p = "live" =>
               /\ \A n \in Valid(PageSince(a)) : \E i \in DOMAIN rows : rows[i] = n
               /\ Cardinality(PageSince(a)) = PageSize => rows = <<>>
    PROVE  Fits(<<Hello>> \o rows, a, first, next, p)
  <1> DEFINE page == PageSince(a)
             V    == <<Hello>> \o rows
  <1>1. /\ page \subseteq 0..next - 1 /\ page \subseteq Seqs
        /\ \A n \in page : n > a
        /\ \A n \in page : \A m \in a + 1..n : m < first \/ m \in page
        /\ \/ \A m \in a + 1..next - 1 : m < first \/ m \in page
           \/ \E n \in Nat : page = n..n + PageSize - 1
        /\ Cardinality(page) # PageSize => \A m \in a + 1..next - 1 : m < first \/ m \in page
    BY PageFacts
  <1>2. Valid(page) \in SUBSET Seqs /\ Valid(page) = page \ Malformed
    BY <1>1 DEF Valid
  <1>3. rows \in Replayed(Valid(page)) /\ next \in Nat
    BY LogTypes
  <1>4. p = "live" =>
               /\ \A n \in Valid(page) : \E i \in DOMAIN rows : rows[i] = n
               /\ Cardinality(page) = PageSize => rows = <<>>
    OBVIOUS
  <1> HIDE DEF page
  <1>5. /\ Len(rows) \in Nat /\ DOMAIN rows = 1..Len(rows)
        /\ \A i \in 1..Len(rows) : rows[i] \in Valid(page)
        /\ V \in Seq(Seqs \cup {Hello}) /\ Len(V) = Len(rows) + 1 /\ V[1] = Hello
        /\ \A i \in 1..Len(rows) : V[i + 1] = rows[i]
        /\ \A i \in 1..Len(rows), n \in Valid(page) :
              n < rows[i] <=> \E j \in 1..i - 1 : rows[j] = n
    BY <1>2, <1>3, ReplayedFacts
  <1>6. DOMAIN V = 1..Len(rows) + 1
    BY <1>5, BlockTypes
  <1> HIDE DEF V
  <1>7. ASSUME NEW i \in 1..Len(rows)
        PROVE  /\ rows[i] \in Nat /\ Row(rows[i], next) /\ rows[i] \in page
               /\ \A j \in 1..i - 1 : rows[j] < rows[i]
    <2>1. rows[i] \in page /\ rows[i] \notin Malformed
      BY <1>2, <1>5
    <2>2. ASSUME NEW j \in 1..i - 1
          PROVE  rows[j] < rows[i]
      <3>1. rows[j] \in Valid(page)
        BY <1>5
      <3> QED BY <1>5, <3>1
    <2>3. rows[i] \in 0..next - 1 /\ rows[i] \in Nat
      <3>1. \A n \in page : n \in 0..next - 1
        BY <1>1
      <3>2. \A n \in 0..next - 1 : n \in Nat
        BY <1>3
      <3> QED BY <2>1, <3>1, <3>2
    <2> QED BY <2>1, <2>2, <2>3, Zenon DEF Row
  <1>8. ASSUME NEW i \in DOMAIN V
        PROVE  /\ V[i] # Hello => Row(V[i], next)
               /\ \A j \in 1..i - 1 : V[j] < V[i]
               /\ \A m \in a + 1..V[i] - 1 : Arrives(m, V, i - 1, first)
    <2>1. CASE i = 1
      BY <1>5, <2>1, Bounds
    <2>2. CASE i # 1
      <3> DEFINE k == i - 1
      <3>1. k \in 1..Len(rows) /\ k + 1 = i /\ V[i] = rows[k]
        BY <1>5, <1>6, <1>8, <2>2
      <3> HIDE DEF k
      <3>2. rows[k] \in Nat /\ Row(rows[k], next) /\ rows[k] \in page
            /\ \A j \in 1..k - 1 : rows[j] < rows[k]
        BY <1>7, <3>1
      <3>3. ASSUME NEW j \in 1..i - 1
            PROVE  V[j] < V[i]
        <4>1. CASE j = 1
          BY <1>5, <3>1, <3>2, <4>1, Bounds
        <4>2. CASE j # 1
          <5>1. j - 1 \in 1..k - 1 /\ j - 1 \in 1..Len(rows) /\ (j - 1) + 1 = j
            BY <1>5, <3>1, <4>2
          <5>2. V[j] = rows[j - 1]
            BY <1>5, <5>1
          <5> QED BY <3>1, <3>2, <5>1, <5>2
        <4> QED BY <4>1, <4>2
      <3>4. ASSUME NEW m \in a + 1..V[i] - 1
            PROVE  Arrives(m, V, i - 1, first)
        <4>1. m \in a + 1..rows[k] /\ m < rows[k] /\ m \in Int
          BY <3>1, <3>2
        <4>2. m < first \/ m \in Malformed \/ m \in Valid(page)
          BY <1>1, <1>2, <3>2, <4>1
        <4>3. CASE m \in Valid(page)
          <5>1. PICK j \in 1..k - 1 : rows[j] = m
            BY <1>5, <3>1, <4>1, <4>3
          <5>2. j + 1 \in 1..i - 1 /\ j \in 1..Len(rows)
            BY <1>5, <3>1
          <5>3. V[j + 1] = m
            BY <1>5, <5>1, <5>2
          <5> QED BY <5>2, <5>3 DEF Arrives
        <4> QED BY <4>2, <4>3 DEF Arrives
      <3> QED BY <3>1, <3>2, <3>3, <3>4
    <2> QED BY <2>1, <2>2
  <1>9. ASSUME p = "live", NEW m \in a + 1..next - 1
        PROVE  Arrives(m, V, Len(V), first)
    <2>1. \A k \in a + 1..next - 1 : k < first \/ k \in page
      <3>1. CASE Cardinality(page) # PageSize
        BY <1>1, <3>1
      <3>2. CASE Cardinality(page) = PageSize
        <4>1. rows = <<>>
          BY <1>4, <1>9, <3>2
        <4>2. Valid(page) = {}
          BY <1>4, <1>9, <4>1
        <4>3. page \subseteq Malformed
          BY <1>2, <4>2
        <4> QED BY <1>1, <4>3 DEF NoBlankPage
      <3> QED BY <3>1, <3>2
    <2>2. m < first \/ m \in Malformed \/ m \in Valid(page)
      BY <1>2, <2>1
    <2>3. CASE m \in Valid(page)
      <3>1. PICK i \in 1..Len(rows) : rows[i] = m
        BY <1>4, <1>5, <1>9, <2>3
      <3>2. i + 1 \in 1..Len(V) /\ V[i + 1] = m
        BY <1>5, <3>1
      <3> QED BY <3>2 DEF Arrives
    <2> QED BY <2>2, <2>3 DEF Arrives
  <1> QED BY <1>8, <1>9 DEF Fits, V

LEMMA ConnectInOrder ==
    ASSUME NoBlankPage, IInv, Inv', NEW c \in Clients, NEW s \in Sockets, Connect(c, s)
    PROVE  InOrder' /\ LogStep
  <1> DEFINE page == PageSince(lastSeen[c])
  <1> USE DEF IInv, Inv
  <1>1. /\ peer' = [peer EXCEPT ![s] = c] /\ UNCHANGED <<first, next, lastSeen, partial>>
    BY DEF Connect, logVars
  <1>2. PICK rows \in Replayed(Valid(page)), dropped \in BOOLEAN :
          /\ IF dropped THEN rows # <<>>
                        ELSE \A n \in Valid(page) : \E i \in DOMAIN rows : rows[i] = n
          /\ wire' = [wire EXCEPT ![s] = <<Hello>> \o rows]
          /\ IF dropped \/ EndsPage(page, Len(rows))
             THEN phase' = [phase EXCEPT ![s] = "ended"]
             ELSE phase' = [phase EXCEPT ![s] = "live"]
    BY DEF Connect
  <1>3. first \in Nat /\ next \in Nat /\ lastSeen[c] \in Int /\ lastSeen[c] >= -1
    BY LogTypes
  <1>4. wire'[s] = <<Hello>> \o rows /\ peer'[s] = c
    BY <1>1, <1>2 DEF TypeOK
  <1>5. \A t \in Sockets \ {s} : wire'[t] = wire[t] /\ peer'[t] = peer[t] /\ phase'[t] = phase[t]
    BY <1>1, <1>2 DEF TypeOK
  <1>6. phase'[s] = "live" =>
               /\ \A n \in Valid(page) : \E i \in DOMAIN rows : rows[i] = n
               /\ Cardinality(page) = PageSize => rows = <<>>
    <2> SUFFICES ASSUME phase'[s] = "live"
                 PROVE  /\ \A n \in Valid(page) : \E i \in DOMAIN rows : rows[i] = n
                        /\ Cardinality(page) = PageSize => rows = <<>>
      OBVIOUS
    <2>1. ~(dropped \/ EndsPage(page, Len(rows)))
      <3> SUFFICES ASSUME dropped \/ EndsPage(page, Len(rows)) PROVE FALSE
        OBVIOUS
      <3>1. phase' = [phase EXCEPT ![s] = "ended"]
        BY <1>2
      <3> QED BY <3>1 DEF TypeOK
    <2>2. rows # <<>> => Len(rows) > 0
      <3>1. Valid(page) \in SUBSET Seqs
        BY <1>3, PageFacts DEF Valid
      <3> QED BY <3>1, ReplayedFacts
    <2> QED BY <1>2, <2>1, <2>2 DEF EndsPage
  <1>7. Fits(<<Hello>> \o rows, lastSeen[c], first, next, phase'[s])
    BY <1>2, <1>3, <1>6, FitsReplayed
  <1>8. ASSUME NEW t \in Sockets, peer'[t] # NoClient
        PROVE  WireFits(t)'
    <2>1. CASE t = s
      BY <1>1, <1>4, <1>7, <2>1 DEF WireFits
    <2>2. CASE t # s
      <3>1. /\ wire'[t] = wire[t] /\ peer'[t] = peer[t] /\ phase'[t] = phase[t]
            /\ peer[t] # NoClient
        BY <1>5, <1>8, <2>2
      <3>2. /\ lastSeen[peer[t]] <= lastSeen'[peer[t]] /\ first <= first' /\ next <= next'
            /\ next' = next
        BY <1>1, <1>3, <3>1, WireTypes
      <3> QED BY <3>1, <3>2, WireStays
    <2> QED BY <2>1, <2>2
  <1>9. ASSUME NEW d \in Clients
        PROVE  PartialFits(d)'
    <2>1. /\ lastSeen[d] <= lastSeen'[d] /\ first <= first' /\ next <= next'
          /\ partial'[d] = partial[d]
      BY <1>1, <1>3, LogTypes
    <2> QED BY <2>1, PartialStays
  <1> QED BY <1>1, <1>8, <1>9, LogIdles DEF InOrder

LEMMA ReadInOrder ==
    ASSUME IInv, Inv', NEW s \in Sockets, Read(s)
    PROVE  InOrder' /\ LogStep
  <1> DEFINE c == peer[s]
             n == IF Head(wire[s]) = Hello THEN partial[c] ELSE Head(wire[s])
  <1> USE DEF IInv, Inv
  <1>1. /\ c \in Clients /\ c # NoClient /\ wire[s] # <<>>
        /\ wire' = [wire EXCEPT ![s] = Tail(@)] /\ partial' = [partial EXCEPT ![c] = None]
        /\ IF Unseen(c, n) THEN Apply(c, n) ELSE UNCHANGED lastSeen
        /\ UNCHANGED <<first, next, peer, phase>>
    BY DEF Read, TypeOK, logVars
  <1>2. /\ first \in Nat /\ next \in Nat
        /\ \A d \in Clients : lastSeen[d] \in Int /\ lastSeen[d] >= -1 /\ partial[d] \in Int
    BY LogTypes
  <1>3. /\ wire[s] \in Seq(Seqs \cup {Hello})
        /\ Fits(wire[s], lastSeen[c], first, next, phase[s])
    BY <1>1 DEF TypeOK, InOrder, WireFits
  <1>4. Head(wire[s]) = Hello => n = partial[c]
    OBVIOUS
  <1>5. Head(wire[s]) # Hello => n = Head(wire[s]) /\ n \in Nat /\ Row(n, next)
                                 /\ \A m \in lastSeen[c] + 1..n - 1 : m < first \/ m \in Malformed
    BY <1>1, <1>2, <1>3, FitsHead
  <1>6. n \in Int
    BY <1>1, <1>2, <1>4, <1>5
  <1> HIDE DEF n
  <1>7. /\ lastSeen'[c] \in Int /\ lastSeen[c] <= lastSeen'[c] /\ n <= lastSeen'[c]
        /\ \A d \in Clients \ {c} : lastSeen'[d] = lastSeen[d] /\ partial'[d] = partial[d]
        /\ partial'[c] = None
    <2>1. partial'[c] = None /\ \A d \in Clients \ {c} : partial'[d] = partial[d]
      BY <1>1 DEF TypeOK
    <2>2. CASE Unseen(c, n)
      <3>1. lastSeen' = [lastSeen EXCEPT ![c] = n]
        BY <1>1, <2>2 DEF Apply
      <3>2. lastSeen'[c] = n /\ \A d \in Clients \ {c} : lastSeen'[d] = lastSeen[d]
        BY <1>1, <3>1 DEF TypeOK
      <3>3. n > lastSeen[c]
        BY <2>2 DEF Unseen
      <3> QED BY <1>1, <1>2, <1>6, <2>1, <3>2, <3>3
    <2>3. CASE ~Unseen(c, n)
      <3>1. lastSeen' = lastSeen
        BY <1>1, <2>3
      <3>2. ~(n > lastSeen[c])
        BY <2>3 DEF Unseen
      <3> QED BY <1>1, <1>2, <1>6, <2>1, <3>1, <3>2
    <2> QED BY <2>2, <2>3
  <1>8. ASSUME NEW t \in Sockets, peer'[t] # NoClient
        PROVE  WireFits(t)'
    <2>1. CASE t = s
      <3>1. Fits(Tail(wire[s]), lastSeen'[c], first, next, phase[s])
        <4>1. Head(wire[s]) # Hello => Head(wire[s]) <= lastSeen'[c]
          BY <1>5, <1>7
        <4> QED BY <1>1, <1>2, <1>3, <1>7, <4>1, FitsTail
      <3>2. wire'[s] = Tail(wire[s])
        BY <1>1 DEF TypeOK
      <3> QED BY <1>1, <2>1, <3>1, <3>2 DEF WireFits
    <2>2. CASE t # s
      <3>1. /\ wire'[t] = wire[t] /\ peer'[t] = peer[t] /\ phase'[t] = phase[t]
            /\ peer[t] # NoClient /\ peer[t] \in Clients
        BY <1>1, <1>8, <2>2 DEF TypeOK
      <3>2. peer[t] # c
        BY <1>1, <2>2, <3>1 DEF Tries
      <3>3. /\ lastSeen[peer[t]] <= lastSeen'[peer[t]] /\ first <= first' /\ next <= next'
            /\ next' = next
        BY <1>1, <1>2, <1>7, <3>1, <3>2
      <3> QED BY <3>1, <3>3, WireStays
    <2> QED BY <2>1, <2>2
  <1>9. ASSUME NEW d \in Clients
        PROVE  PartialFits(d)'
    <2>1. CASE d = c
      BY <1>7, <2>1 DEF PartialFits
    <2>2. CASE d # c
      <3>1. /\ lastSeen[d] <= lastSeen'[d] /\ first <= first' /\ next <= next'
            /\ partial'[d] = partial[d]
        BY <1>1, <1>2, <1>7, <2>2
      <3> QED BY <3>1, PartialStays
    <2> QED BY <2>1, <2>2
  <1>10. LogStep
    <2>1. CASE Unseen(c, n)
      <3>1. lastSeen' = [lastSeen EXCEPT ![c] = n] /\ n > lastSeen[c]
        BY <1>1, <2>1 DEF Apply, Unseen
      <3>2. Row(n, next) /\ \A m \in lastSeen[c] + 1..n - 1 : m < first \/ m \in Malformed
        <4>1. CASE Head(wire[s]) = Hello
          <5>1. n = partial[c] /\ partial[c] # None
            BY <1>1, <1>2, <1>4, <3>1, <4>1, Bounds
          <5> QED BY <1>1, <5>1 DEF InOrder, PartialFits
        <4> QED BY <1>5, <4>1
      <3>3. n \in lastSeen[c] + 1..next - 1 /\ n \notin Malformed
        BY <1>1, <1>2, <1>6, <3>1, <3>2 DEF Row
      <3>4. Log!Deliver(c)
        BY <1>1, <3>1, <3>2, <3>3 DEF Log!Deliver
      <3> QED BY <1>1, <3>4 DEF LogStep, Log!Next
    <2>2. CASE ~Unseen(c, n)
      BY <1>1, <2>2, LogIdles
    <2> QED BY <2>1, <2>2
  <1> QED BY <1>8, <1>9, <1>10 DEF InOrder

\* Sockets lose their readers, and what travels to them: the others keep theirs.
LEMMA OthersStay ==
    ASSUME IInv, Inv', UNCHANGED <<first, next>>,
           NEW ss \in SUBSET Sockets,
           \A t \in ss : peer'[t] = NoClient,
           \A t \in Sockets \ ss :
               /\ peer'[t] = peer[t] /\ wire'[t] = wire[t]
               /\ phase'[t] = "live" => phase[t] = "live"
               /\ peer[t] # NoClient => lastSeen'[peer[t]] = lastSeen[peer[t]]
    PROVE  \A t \in Sockets : peer'[t] # NoClient => WireFits(t)'
  <1> SUFFICES ASSUME NEW t \in Sockets, peer'[t] # NoClient
               PROVE  WireFits(t)'
    OBVIOUS
  <1>1. /\ t \notin ss /\ peer'[t] = peer[t] /\ wire'[t] = wire[t] /\ peer[t] # NoClient
        /\ phase'[t] = "live" => phase[t] = "live"
        /\ lastSeen'[peer[t]] = lastSeen[peer[t]]
    OBVIOUS
  <1>2. /\ lastSeen[peer[t]] \in Int /\ first \in Nat /\ next \in Nat
    BY <1>1, WireTypes, LogTypes DEF IInv, Inv
  <1>3. /\ lastSeen[peer[t]] <= lastSeen'[peer[t]] /\ first <= first' /\ next <= next'
        /\ next' = next
    BY <1>1, <1>2
  <1> QED BY <1>1, <1>3, WireStays

LEMMA BreakInOrder ==
    ASSUME IInv, Inv', Restart \/ \E s \in Sockets : Cut(s)
    PROVE  InOrder' /\ LogStep
  <1> USE DEF IInv, Inv
  <1>1. PICK ss \in SUBSET Sockets : Break(ss)
    <2>1. Restart => Break(Sockets)
      BY Zenon DEF Restart
    <2>2. ASSUME NEW s \in Sockets, Cut(s)
          PROVE  Break({s}) /\ {s} \in SUBSET Sockets
      BY <2>2, Zenon DEF Cut
    <2>3. Sockets \in SUBSET Sockets
      OBVIOUS
    <2> HIDE DEF IInv, Inv
    <2> QED BY <2>1, <2>2, <2>3, Zenon
  <1>2. /\ UNCHANGED <<first, next, lastSeen>>
        /\ \A t \in Sockets : phase'[t] = "live" => phase[t] = "live"
    <2>1. Restart => /\ UNCHANGED <<logVars, lastSeen>>
                     /\ phase' = [t \in Sockets |-> "free"]
      BY Zenon DEF Restart
    <2>2. ASSUME NEW s \in Sockets, Cut(s)
          PROVE  UNCHANGED <<logVars, lastSeen, phase>>
      BY <2>2, Zenon DEF Cut
    <2>3. CASE Restart
      <3>1. \A t \in Sockets : phase'[t] = "free"
        BY <2>1, <2>3
      <3> QED BY <2>1, <2>3, <3>1 DEF logVars
    <2>4. CASE \E s \in Sockets : Cut(s)
      <3>1. UNCHANGED <<logVars, lastSeen, phase>>
        BY <2>2, <2>4
      <3> QED BY <3>1 DEF logVars
    <2> QED BY <2>3, <2>4
  <1>3. /\ peer' = [s \in Sockets |-> IF s \in ss THEN NoClient ELSE peer[s]]
        /\ wire' = [s \in Sockets |-> IF s \in ss THEN <<>> ELSE wire[s]]
        /\ \A c \in Clients : partial'[c] = partial[c] \/
                 \E s \in Sockets : /\ peer[s] = c /\ wire[s] # <<>> /\ Head(wire[s]) # Hello
                                    /\ partial'[c] = Head(wire[s])
    BY <1>1, BreakFits
  <1>4. \A t \in Sockets : peer'[t] # NoClient => WireFits(t)'
    <2>1. \A t \in ss : peer'[t] = NoClient
      BY <1>3
    <2>2. \A t \in Sockets \ ss : peer'[t] = peer[t] /\ wire'[t] = wire[t]
      BY <1>3
    <2> QED BY <1>2, <2>1, <2>2, OthersStay
  <1>5. ASSUME NEW c \in Clients
        PROVE  PartialFits(c)'
    <2>1. CASE partial'[c] = partial[c]
      <3>1. /\ lastSeen[c] <= lastSeen'[c] /\ first <= first' /\ next <= next'
        BY <1>2, LogTypes
      <3> QED BY <2>1, <3>1, PartialStays
    <2>2. CASE \E s \in Sockets : /\ peer[s] = c /\ wire[s] # <<>> /\ Head(wire[s]) # Hello
                                  /\ partial'[c] = Head(wire[s])
      <3>1. PICK s \in Sockets : /\ peer[s] = c /\ wire[s] # <<>> /\ Head(wire[s]) # Hello
                                 /\ partial'[c] = Head(wire[s])
        BY <2>2
      <3>2. peer[s] # NoClient
        BY <3>1, Bounds
      <3>3. /\ wire[s] \in Seq(Seqs \cup {Hello})
            /\ Fits(wire[s], lastSeen[c], first, next, phase[s])
            /\ lastSeen[c] \in Int /\ first \in Nat /\ next \in Nat
        BY <3>1, <3>2, WireTypes, LogTypes DEF InOrder, WireFits
      <3>4. /\ Row(Head(wire[s]), next)
            /\ \A m \in lastSeen[c] + 1..Head(wire[s]) - 1 : m < first \/ m \in Malformed
        BY <3>1, <3>3, FitsHead
      <3> QED BY <1>2, <3>1, <3>4 DEF PartialFits
    <2> QED BY <1>3, <2>1, <2>2
  <1> QED BY <1>2, <1>4, <1>5, LogIdles DEF InOrder

LEMMA ReloadInOrder ==
    ASSUME IInv, Inv', NEW c \in Clients, Reload(c)
    PROVE  InOrder' /\ LogStep
  <1> DEFINE ss == {t \in Sockets : peer[t] = c}
  <1> USE DEF IInv, Inv
  <1>1. /\ lastSeen' = [lastSeen EXCEPT ![c] = None] /\ partial' = [partial EXCEPT ![c] = None]
        /\ peer' = [s \in Sockets |-> IF peer[s] = c THEN NoClient ELSE peer[s]]
        /\ wire' = [s \in Sockets |-> IF peer[s] = c THEN <<>> ELSE wire[s]]
        /\ UNCHANGED <<first, next, phase>>
    BY DEF Reload, logVars
  <1>2. /\ \A d \in Clients \ {c} : lastSeen'[d] = lastSeen[d] /\ partial'[d] = partial[d]
        /\ partial'[c] = None
    BY <1>1 DEF TypeOK
  <1>3. \A t \in Sockets : peer'[t] # NoClient => WireFits(t)'
    <2>1. \A t \in ss : peer'[t] = NoClient
      BY <1>1
    <2>2. \A t \in Sockets \ ss :
               /\ peer'[t] = peer[t] /\ wire'[t] = wire[t] /\ phase'[t] = phase[t]
               /\ peer[t] # NoClient => lastSeen'[peer[t]] = lastSeen[peer[t]]
      BY <1>1, <1>2 DEF TypeOK
    <2> QED BY <1>1, <2>1, <2>2, OthersStay
  <1>4. ASSUME NEW d \in Clients
        PROVE  PartialFits(d)'
    <2>1. CASE d = c
      BY <1>2, <2>1 DEF PartialFits
    <2>2. CASE d # c
      <3>1. /\ lastSeen[d] <= lastSeen'[d] /\ first <= first' /\ next <= next'
            /\ partial'[d] = partial[d]
        BY <1>1, <1>2, <2>2, LogTypes
      <3> QED BY <3>1, PartialStays
    <2> QED BY <2>1, <2>2
  <1>5. Log!Reload(c)
    BY <1>1 DEF Log!Reload, None
  <1> QED BY <1>3, <1>4, <1>5 DEF InOrder, LogStep, Log!Next

\* A failed attempt, a stream read to its end, a socket closed: the readers of the
\* other streams notice nothing.
LEMMA RestInOrder ==
    ASSUME IInv, Inv', \/ \E c \in Clients : Refused(c) \/ Unreachable(c)
                       \/ \E s \in Sockets : ReadEnd(s) \/ Close(s)
                       \/ UNCHANGED vars
    PROVE  InOrder' /\ LogStep
  <1> USE DEF IInv, Inv
  <1>1. UNCHANGED <<first, next, lastSeen, partial>>
    BY DEF Refused, Unreachable, ReadEnd, Close, vars, logVars, clientVars
  <1>2. PICK ss \in SUBSET Sockets :
           /\ \A t \in ss : peer'[t] = NoClient
           /\ \A t \in Sockets \ ss :
                 /\ peer'[t] = peer[t] /\ wire'[t] = wire[t]
                 /\ phase'[t] = "live" => phase[t] = "live"
    <2>1. CASE UNCHANGED <<peer, wire, phase>>
      <3> WITNESS {} \in SUBSET Sockets
      <3> QED BY <2>1
    <2>2. ASSUME NEW s \in Sockets, ReadEnd(s) \/ Close(s)
          PROVE  /\ peer'[s] = NoClient
                 /\ \A t \in Sockets \ {s} :
                       peer'[t] = peer[t] /\ wire'[t] = wire[t] /\ phase'[t] = phase[t]
      BY <2>2 DEF ReadEnd, Close, TypeOK
    <2>3. ASSUME NEW s \in Sockets, ReadEnd(s) \/ Close(s)
          PROVE  \E ss \in SUBSET Sockets :
                   /\ \A t \in ss : peer'[t] = NoClient
                   /\ \A t \in Sockets \ ss :
                         /\ peer'[t] = peer[t] /\ wire'[t] = wire[t]
                         /\ phase'[t] = "live" => phase[t] = "live"
      <3> WITNESS {s} \in SUBSET Sockets
      <3> QED BY <2>2, <2>3
    <2>4. (\E c \in Clients : Refused(c) \/ Unreachable(c)) \/ UNCHANGED vars
             => UNCHANGED <<peer, wire, phase>>
      BY DEF Refused, Unreachable, vars, socketVars
    <2> QED BY <2>1, <2>3, <2>4
  <1>3. \A t \in Sockets : peer'[t] # NoClient => WireFits(t)'
    BY <1>1, <1>2, OthersStay
  <1>4. ASSUME NEW d \in Clients
        PROVE  PartialFits(d)'
    <2>1. /\ lastSeen[d] <= lastSeen'[d] /\ first <= first' /\ next <= next'
          /\ partial'[d] = partial[d]
      BY <1>1, LogTypes
    <2> QED BY <2>1, PartialStays
  <1> QED BY <1>1, <1>3, <1>4, LogIdles DEF InOrder

LEMMA NextInOrder == NoBlankPage /\ IInv /\ Inv' /\ [Next]_vars => InOrder' /\ LogStep
  <1> SUFFICES ASSUME NoBlankPage, IInv, Inv', [Next]_vars
               PROVE  InOrder' /\ LogStep
    OBVIOUS
  <1> QED
    BY PublishInOrder, ConnectInOrder, ReadInOrder, BreakInOrder, ReloadInOrder, RestInOrder
    DEF Next

\* The log, the sockets of the gateway and the parsers of the clients keep their types.
\* (the SSE route, SseParser)
THEOREM TypeCorrect == Spec => []TypeOK
<1>1. Inv => TypeOK
  BY DEF Inv
<1> QED BY <1>1, Invariance, PTL

\* However many streams are dropped, cut, ended or destroyed, and whichever end notices
\* first, no path out of the handler leaks a slot or gives one back twice.
\* (cleanup, releaseStream)
THEOREM SlotsNeverLeak == Spec => []SlotsAreExact
<1>1. Inv => SlotsAreExact
  BY DEF Inv, Slots, Live, SlotsAreExact
<1> QED BY <1>1, Invariance, PTL

\* Whatever is cut, dropped, paged, pruned, restarted or replayed, and however the blocks
\* fall into the parser's buffer, every client goes through the log in order, each event
\* once, without a gap that retention did not make: every step of the stream is a step of
\* EventLog.  (SseParser.push, openStream, writeEnvelope, getEventsSince)
THEOREM StreamImplementsLog == NoBlankPage => (Spec => DeliveryInOrder)
<1> SUFFICES ASSUME NoBlankPage PROVE Spec => DeliveryInOrder
  OBVIOUS
<1>1. Inv /\ Inv' /\ InOrder /\ [Next]_vars => InOrder' /\ LogStep
  BY NextInOrder DEF IInv
<1>2. Init => InOrder /\ Log!Init
  BY InitInOrder
<1> QED BY <1>1, <1>2, Invariance, PTL DEF Spec, DeliveryInOrder, Log!Spec, LogStep
=============================================================================
