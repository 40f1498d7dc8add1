--------------------------- MODULE RpcClientProofs ---------------------------
(***************************************************************************)
(* Proofs about RpcClient, for any commands, lines, byte counts and cap.   *)
(*                                                                         *)
(* The client: a send waits exactly as long as the client keeps it, and    *)
(* the end of the process is reported once.  For these, what the decoder   *)
(* makes of the bytes does not matter: for Push it is enough that it hands *)
(* messages to Handle or ends in FailFatal.                                *)
(*                                                                         *)
(* The decoder: each line is handled once, whole and in order, wherever    *)
(* the pipe cuts the bytes.  The invariant, FramingInv, counts from the    *)
(* first byte the process wrote: off[k] is where its k-th line ends, q how *)
(* far the gateway has read.  The wire carries the bytes behind q; the     *)
(* buffer, while all is well, those from the end of the last line that is  *)
(* complete within q up to q; and the lines up to there were handled.      *)
(***************************************************************************)
EXTENDS RpcClient, FiniteSetTheorems, WellFoundedInduction, TLAPS

\* The part of the type invariant that the client's own bookkeeping needs.
ClientTyped ==
    /\ child   \in {"up", "killed", "gone"}
    /\ outcome \in [Commands -> {"unsent", "waiting", "resolved", "rejected"}]
    /\ pending \subseteq Commands
    /\ timers  \subseteq Commands

IInv == ClientTyped /\ EntriesAreOwed /\ ExitIsReportedOnce

-----------------------------------------------------------------------------
(* The three ways a settle happens *)

\* Settling a set of pending sends keeps map, timers and promises in step.
LEMMA SettleKeeps ==
    ASSUME ClientTyped, EntriesAreOwed,
           NEW cs \in SUBSET pending, NEW how \in {"resolved", "rejected"},
           Settle(cs, how), pending' = pending \ cs
    PROVE  /\ outcome' \in [Commands -> {"unsent", "waiting", "resolved", "rejected"}]
           /\ pending' \subseteq Commands
           /\ timers'  \subseteq Commands
           /\ EntriesAreOwed'
<1>1. /\ pending \subseteq Commands
      /\ timers = pending
      /\ outcome \in [Commands -> {"unsent", "waiting", "resolved", "rejected"}]
      /\ \A c \in Commands : outcome[c] = "waiting" <=> c \in pending
  BY DEF ClientTyped, EntriesAreOwed
<1>2. /\ timers' = timers \ cs
      /\ outcome' = [c \in Commands |-> IF c \in cs THEN how ELSE outcome[c]]
  BY DEF Settle
<1>3. outcome' \in [Commands -> {"unsent", "waiting", "resolved", "rejected"}]
  BY <1>1, <1>2
<1>4. \A c \in Commands : outcome'[c] = "waiting" <=> c \in pending'
  BY <1>1, <1>2
<1>5. timers' = pending' /\ pending' \subseteq Commands
  BY <1>1, <1>2
<1> QED BY <1>3, <1>4, <1>5 DEF EntriesAreOwed

LEMMA RejectAllKeeps ==
    ASSUME ClientTyped, EntriesAreOwed, RejectAll
    PROVE  /\ outcome' \in [Commands -> {"unsent", "waiting", "resolved", "rejected"}]
           /\ pending' \subseteq Commands
           /\ timers'  \subseteq Commands
           /\ EntriesAreOwed'
<1>1. Settle(pending, "rejected") /\ pending' = pending \ pending
  BY DEF RejectAll
<1> QED BY <1>1, SettleKeeps

\* Nothing of the client changes.
LEMMA StutterKeeps ==
    ASSUME ClientTyped, EntriesAreOwed, UNCHANGED client
    PROVE  /\ outcome' \in [Commands -> {"unsent", "waiting", "resolved", "rejected"}]
           /\ pending' \subseteq Commands
           /\ timers'  \subseteq Commands
           /\ EntriesAreOwed'
BY DEF ClientTyped, EntriesAreOwed, client

-----------------------------------------------------------------------------
(* The actions *)

LEMMA FailFatalKeeps == IInv /\ FailFatal => IInv'
<1> SUFFICES ASSUME IInv, FailFatal PROVE IInv'
  OBVIOUS
<1>1. ClientTyped' /\ EntriesAreOwed'
  BY RejectAllKeeps DEF IInv, FailFatal, ClientTyped
<1>2. ExitIsReportedOnce'
  BY DEF IInv, FailFatal, ClientTyped, ExitIsReportedOnce
<1> QED BY <1>1, <1>2 DEF IInv

LEMMA HandleKeeps ==
    ASSUME IInv, NEW msgs, Handle(msgs)
    PROVE  IInv'
<1> DEFINE cs == pending \cap Range(msgs)
<1>1. cs \in SUBSET pending /\ Settle(cs, "resolved") /\ pending' = pending \ cs
  BY DEF Handle
<1>2. ClientTyped' /\ EntriesAreOwed'
  <2> HIDE DEF cs
  <2>1. UNCHANGED child
    BY DEF Handle, process
  <2> QED BY <1>1, <2>1, SettleKeeps DEF IInv, ClientTyped
<1>3. ExitIsReportedOnce'
  BY DEF IInv, Handle, process, ExitIsReportedOnce
<1> QED BY <1>2, <1>3 DEF IInv

LEMMA DataKeeps == IInv /\ Data => IInv'
<1> SUFFICES ASSUME IInv, Data PROVE IInv'
  OBVIOUS
<1>1. CASE UNCHANGED <<process, decoder, client, handled, exits>>
  <2>1. ClientTyped' /\ EntriesAreOwed'
    BY <1>1, StutterKeeps DEF IInv, ClientTyped, process
  <2>2. ExitIsReportedOnce'
    BY <1>1 DEF IInv, ExitIsReportedOnce, process
  <2> QED BY <2>1, <2>2 DEF IInv
<1>2. CASE \E n \in DOMAIN wire : Push(SubSeq(wire, 1, n))
  <2>1. PICK n \in DOMAIN wire : Push(SubSeq(wire, 1, n))
    BY <1>2
  <2>2. FailFatal \/ Handle(Parsed(buffer \o SubSeq(wire, 1, n)))
    BY <2>1 DEF Push
  <2> QED BY <2>2, FailFatalKeeps, HandleKeeps
<1> QED BY <1>1, <1>2 DEF Data

LEMMA SendKeeps ==
    ASSUME IInv, NEW c \in Commands, Send(c)
    PROVE  IInv'
<1>1. CASE c \in OwnId
  <2>1. /\ outcome' = [outcome EXCEPT ![c] = "resolved"]
        /\ UNCHANGED <<pending, timers, child, failed, exits>>
        /\ outcome[c] = "unsent"
    BY <1>1 DEF Send
  <2> QED BY <2>1 DEF IInv, ClientTyped, EntriesAreOwed, ExitIsReportedOnce
<1>2. CASE c \notin OwnId
  <2>1. /\ outcome' = [outcome EXCEPT ![c] = "waiting"]
        /\ pending' = pending \cup {c}
        /\ timers'  = timers \cup {c}
        /\ UNCHANGED <<child, failed, exits>>
    BY <1>2 DEF Send
  <2>2. ClientTyped' /\ ExitIsReportedOnce'
    BY <2>1 DEF IInv, ClientTyped, ExitIsReportedOnce
  <2>3. EntriesAreOwed'
    BY <2>1 DEF IInv, ClientTyped, EntriesAreOwed
  <2> QED BY <2>2, <2>3 DEF IInv
<1> QED BY <1>1, <1>2

LEMMA TimeoutKeeps ==
    ASSUME IInv, NEW c \in Commands, Timeout(c)
    PROVE  IInv'
<1>1. {c} \in SUBSET pending /\ Settle({c}, "rejected") /\ pending' = pending \ {c}
  BY DEF IInv, EntriesAreOwed, Timeout
<1>2. ClientTyped' /\ EntriesAreOwed'
  <2>1. UNCHANGED child
    BY DEF Timeout, process
  <2> QED BY <1>1, <2>1, SettleKeeps DEF IInv, ClientTyped
<1>3. ExitIsReportedOnce'
  BY DEF IInv, Timeout, process, ExitIsReportedOnce
<1> QED BY <1>2, <1>3 DEF IInv

LEMMA TerminateKeeps ==
    ASSUME ClientTyped, EntriesAreOwed, Terminate, child' \in {"up", "killed", "gone"}
    PROVE  ClientTyped' /\ EntriesAreOwed'
<1>1. CASE RejectAll
  BY <1>1, RejectAllKeeps DEF ClientTyped
<1>2. CASE UNCHANGED client
  BY <1>2, StutterKeeps DEF ClientTyped
<1> QED BY <1>1, <1>2 DEF Terminate, client

LEMMA ExitKeeps == IInv /\ Exit => IInv'
<1> SUFFICES ASSUME IInv, Exit PROVE IInv'
  OBVIOUS
<1>1. ClientTyped' /\ EntriesAreOwed'
  BY TerminateKeeps DEF IInv, Exit
<1>2. ExitIsReportedOnce'
  BY DEF IInv, Exit, Terminate, ExitIsReportedOnce
<1> QED BY <1>1, <1>2 DEF IInv

LEMMA ErrorKeeps == IInv /\ Error => IInv'
<1> SUFFICES ASSUME IInv, Error PROVE IInv'
  OBVIOUS
<1>1. child' \in {"up", "killed", "gone"}
  BY DEF Error, SpawnFails, KillFails
<1>2. ClientTyped' /\ EntriesAreOwed'
  BY <1>1, TerminateKeeps DEF IInv, Error
<1>3. ExitIsReportedOnce'
  BY DEF IInv, Error, SpawnFails, KillFails, Terminate, ExitIsReportedOnce
<1> QED BY <1>2, <1>3 DEF IInv

\* A step of the process, or none, touches neither.
LEMMA ElsewhereKeeps ==
    ASSUME IInv, UNCHANGED <<child, failed, client, exits>>
    PROVE  IInv'
BY DEF IInv, ClientTyped, EntriesAreOwed, ExitIsReportedOnce, client

LEMMA InitHolds == Init => IInv
BY DEF Init, IInv, ClientTyped, EntriesAreOwed, ExitIsReportedOnce

\* The successor of a gateway that ended begins anew.
LEMMA CrashRestarts == Crash => Init'
BY DEF Crash, Init

LEMMA NextKeeps == IInv /\ [Next]_vars => IInv'
<1> SUFFICES ASSUME IInv, [Next]_vars PROVE IInv'
  OBVIOUS
<1>1. ASSUME NEW m, Write(m) PROVE IInv'
  BY <1>1, ElsewhereKeeps DEF Write
<1>2. CASE Data
  BY <1>2, DataKeeps
<1>3. CASE Exit
  BY <1>3, ExitKeeps
<1>4. CASE Error
  BY <1>4, ErrorKeeps
<1>5. ASSUME NEW c \in Commands, Send(c) PROVE IInv'
  BY <1>5, SendKeeps
<1>6. ASSUME NEW c \in Commands, Respond(c) PROVE IInv'
  BY <1>6, <1>1 DEF Respond
<1>7. ASSUME NEW c \in Commands, Timeout(c) PROVE IInv'
  BY <1>7, TimeoutKeeps
<1>8. CASE UNCHANGED vars
  BY <1>8, ElsewhereKeeps DEF vars, process
<1>9. CASE Crash
  <2>1. Init'
    BY <1>9, CrashRestarts
  <2> QED BY <2>1, InitHolds, PTL
<1> QED BY <1>1, <1>2, <1>3, <1>4, <1>5, <1>6, <1>7, <1>8, <1>9 DEF Next

LEMMA Invariance == Spec => []IInv
<1> QED BY InitHolds, NextKeeps, PTL DEF Spec

-----------------------------------------------------------------------------
(* The client's theorems *)

\* A send waits exactly as long as the map has its entry and its timer is armed.
\* (send, handle, failFatal, terminate)
THEOREM SendsAreTracked == Spec => []EntriesAreOwed
<1>1. IInv => EntriesAreOwed
  BY DEF IInv
<1> QED BY <1>1, Invariance, PTL

\* However exits, failed spawns and failed signals combine, the end of the
\* process is reported exactly once.  (terminate)
THEOREM ExitReportedOnce == Spec => []ExitIsReportedOnce
<1>1. IInv => ExitIsReportedOnce
  BY DEF IInv
<1> QED BY <1>1, Invariance, PTL

-----------------------------------------------------------------------------
(* Numbers: induction, and the least and the greatest of a set *)

\* A set of numbers that holds 0 and the successor of each member holds all of
\* them: of those it lacked, the least would follow one it holds.
LEMMA Induction ==
    ASSUME NEW A \in SUBSET Nat, 0 \in A, \A n \in A : n + 1 \in A
    PROVE  A = Nat
<1> DEFINE Prefixes == {1..n : n \in Nat \ A}
<1>1. SUFFICES ASSUME A # Nat PROVE FALSE
  OBVIOUS
<1>2. Prefixes \subseteq FiniteSubsetsOf(Nat) /\ Prefixes # {}
  <2>1. \A n \in Nat : 1..n \in SUBSET Nat /\ IsFiniteSet(1..n)
    BY FS_Interval
  <2> QED BY <1>1, <2>1 DEF FiniteSubsetsOf
<1>3. PICK P \in Prefixes : \A Q \in Prefixes : <<Q, P>> \notin StrictSubsetOrdering(Nat)
  BY <1>2, WFMin, FS_StrictSubsetOrderingWellFounded
<1>4. PICK n \in Nat \ A : P = 1..n
  OBVIOUS
<1>5. n - 1 \in Nat \ A /\ n \in 1..n /\ n \notin 1..n - 1 /\ 1..n - 1 \subseteq 1..n
  OBVIOUS
<1>6. <<1..n - 1, P>> \in StrictSubsetOrdering(Nat)
  BY <1>4, <1>5 DEF StrictSubsetOrdering
<1>7. 1..n - 1 \in Prefixes
  BY <1>5
<1> QED BY <1>3, <1>6, <1>7

\* A set of numbers without a least one would lie above every number.
LEMMA LeastFacts ==
    ASSUME NEW S \in SUBSET Nat, S # {}
    PROVE  Min(S) \in S /\ \A x \in S : Min(S) <= x
<1> DEFINE A == {n \in Nat : \A x \in S : n < x}
<1>1. SUFFICES ASSUME \A x \in S : \E y \in S : ~(x <= y) PROVE FALSE
  <2>1. SUFFICES \E x \in S : \A y \in S : x <= y
    BY DEF Min
  <2> QED BY <1>1
<1>2. 0 \in A
  BY <1>1
<1>3. ASSUME NEW n \in A PROVE n + 1 \in A
  <2>1. ASSUME NEW x \in S PROVE n + 1 < x
    <3>1. PICK y \in S : ~(x <= y)
      BY <1>1
    <3> QED BY <3>1
  <2> QED BY <2>1
<1>4. A = Nat
  <2>1. A \in SUBSET Nat
    OBVIOUS
  <2> HIDE DEF A
  <2> QED BY <1>2, <1>3, <2>1, Induction
<1>5. PICK x \in S : TRUE
  OBVIOUS
<1>6. x \in A
  BY <1>4
<1> QED BY <1>6

\* The greatest of a bounded set is its least upper bound.
LEMMA GreatestFacts ==
    ASSUME NEW S \in SUBSET Nat, S # {}, NEW n \in Nat, \A x \in S : x <= n
    PROVE  Max(S) \in S /\ \A x \in S : Max(S) >= x
<1> DEFINE U == {u \in Nat : \A x \in S : x <= u}
<1>1. U \in SUBSET Nat /\ n \in U
  OBVIOUS
<1>2. Min(U) \in U /\ \A u \in U : Min(U) <= u
  <2> HIDE DEF U
  <2> QED BY <1>1, LeastFacts
<1> DEFINE m == Min(U)
<1>3. m \in Nat /\ (\A x \in S : x <= m) /\ (\A u \in U : m <= u)
  BY <1>2
<1> HIDE DEF m
<1>4. m \in S
  <2>1. SUFFICES ASSUME m \notin S PROVE FALSE
    OBVIOUS
  <2>2. \A x \in S : x <= m - 1 /\ m - 1 \in Nat
    BY <1>3, <2>1
  <2>3. m - 1 \in U
    BY <2>2
  <2> QED BY <1>3, <2>3
<1>5. \E x \in S : \A y \in S : x >= y
  BY <1>3, <1>4
<1> QED BY <1>5 DEF Max

-----------------------------------------------------------------------------
(* Values in the order of their numbers *)

\* The equation of the recursive function in InOrder, up to n.
ValuesTo(g, n, f) ==
    [i \in 0 .. n |->
        IF i = 0 THEN <<>>
        ELSE IF i \in DOMAIN f THEN Append(g[i - 1], f[i]) ELSE g[i - 1]]

LEMMA ValuesAt ==
    ASSUME NEW n \in Nat, NEW f, NEW g, g = ValuesTo(g, n, f)
    PROVE  /\ g[0] = <<>>
           /\ \A i \in Nat : i + 1 <= n =>
                 g[i + 1] = IF i + 1 \in DOMAIN f THEN Append(g[i], f[i + 1]) ELSE g[i]
<1>1. g[0] = <<>>
  <2>1. 0 \in 0 .. n
    OBVIOUS
  <2> QED BY <2>1 DEF ValuesTo
<1>2. ASSUME NEW i \in Nat, i + 1 <= n
      PROVE  g[i + 1] = IF i + 1 \in DOMAIN f THEN Append(g[i], f[i + 1]) ELSE g[i]
  <2>1. i + 1 \in 0 .. n /\ i + 1 # 0 /\ (i + 1) - 1 = i
    BY <1>2
  <2> QED BY <2>1 DEF ValuesTo
<1> QED BY <1>1, <1>2

\* The recursive definition in InOrder has a solution.
LEMMA ValuesDefined == ASSUME NEW f, NEW n \in Nat PROVE \E g : g = ValuesTo(g, n, f)
<1> DEFINE A == {k \in Nat : \E g : g = ValuesTo(g, k, f)}
<1>1. 0 \in A
  <2> DEFINE g == [i \in 0 .. 0 |-> <<>>]
  <2>1. g = ValuesTo(g, 0, f)
    BY DEF ValuesTo
  <2> QED BY <2>1
<1>2. ASSUME NEW k \in A PROVE k + 1 \in A
  <2>1. PICK g : g = ValuesTo(g, k, f)
    OBVIOUS
  <2> DEFINE last == IF k + 1 \in DOMAIN f THEN Append(g[k], f[k + 1]) ELSE g[k]
             h == [i \in 0 .. k + 1 |-> IF i = k + 1 THEN last ELSE g[i]]
  <2>2. k \in Nat
    OBVIOUS
  <2> HIDE DEF A
  <2>3. ASSUME NEW i \in 0 .. k + 1
        PROVE  h[i] = ValuesTo(h, k + 1, f)[i]
    <3>1. CASE i = k + 1
      <4>1. h[k] = g[k]
        BY <2>2
      <4>2. i # 0 /\ i - 1 = k
        BY <2>2, <3>1
      <4> QED BY <3>1, <4>1, <4>2 DEF ValuesTo
    <3>2. CASE i \in 0 .. k
      <4>1. g[i] = IF i = 0 THEN <<>>
                   ELSE IF i \in DOMAIN f THEN Append(g[i - 1], f[i]) ELSE g[i - 1]
        BY <2>1, <3>2 DEF ValuesTo
      <4>2. h[i] = g[i] /\ (i # 0 => h[i - 1] = g[i - 1])
        BY <2>2, <3>2
      <4> QED BY <3>2, <4>1, <4>2 DEF ValuesTo
    <3> QED BY <2>2, <3>1, <3>2
  <2>4. h = ValuesTo(h, k + 1, f)
    BY <2>3 DEF ValuesTo
  <2>5. \E e : e = ValuesTo(e, k + 1, f)
    <3> HIDE DEF h
    <3> QED BY <2>4
  <2>6. k + 1 \in Nat
    BY <2>2
  <2> QED BY <2>5, <2>6, Zenon DEF A
<1>3. n \in A
  <2>1. A \subseteq Nat
    OBVIOUS
  <2> HIDE DEF A
  <2>2. A = Nat
    BY <1>1, <1>2, <2>1, Induction
  <2> QED BY <2>2
<1> QED BY <1>3

\* f and h are the same up to k.
SameTo(k, f, h) ==
    \A i \in 1 .. k : /\ i \in DOMAIN f <=> i \in DOMAIN h
                      /\ i \in DOMAIN f => f[i] = h[i]

LEMMA ValuesAgree ==
    ASSUME NEW f, NEW h, NEW m \in Nat, NEW n \in Nat, NEW k \in Nat, k <= m, k <= n,
           SameTo(k, f, h), NEW g, g = ValuesTo(g, m, f), NEW e, e = ValuesTo(e, n, h)
    PROVE  g[k] = e[k]
<1> DEFINE A == {i \in Nat : i <= k => g[i] = e[i]}
<1>1. 0 \in A
  BY ValuesAt
<1>2. ASSUME NEW i \in A PROVE i + 1 \in A
  <2>1. ASSUME i + 1 <= k PROVE g[i + 1] = e[i + 1]
    <3>1. i \in Nat /\ g[i] = e[i] /\ i + 1 <= m /\ i + 1 <= n /\ i + 1 \in 1 .. k
      BY <2>1
    <3>2. g[i + 1] = IF i + 1 \in DOMAIN f THEN Append(g[i], f[i + 1]) ELSE g[i]
      BY <3>1, ValuesAt
    <3>3. e[i + 1] = IF i + 1 \in DOMAIN h THEN Append(e[i], h[i + 1]) ELSE e[i]
      BY <3>1, ValuesAt
    <3>4. /\ i + 1 \in DOMAIN f <=> i + 1 \in DOMAIN h
          /\ i + 1 \in DOMAIN f => f[i + 1] = h[i + 1]
      BY <3>1 DEF SameTo
    <3> QED BY <3>1, <3>2, <3>3, <3>4
  <2> QED BY <2>1
<1>3. A = Nat
  <2>1. A \in SUBSET Nat
    OBVIOUS
  <2> HIDE DEF A
  <2> QED BY <1>1, <1>2, <2>1, Induction
<1> QED BY <1>3

LEMMA InOrderValues ==
    ASSUME NEW f, NEW n \in Nat
    PROVE  \E g : g = ValuesTo(g, n, f) /\ InOrder(f, n) = g[n]
<1> DEFINE g == CHOOSE e : e = ValuesTo(e, n, f)
<1>1. InOrder(f, n) = g[n]
  BY Zenon DEF InOrder, ValuesTo
<1>2. g = ValuesTo(g, n, f)
  BY ValuesDefined, Zenon
<1> HIDE DEF g
<1> QED BY <1>1, <1>2

\* Values up to k, of functions that are the same up to there.
LEMMA InOrderAgree ==
    ASSUME NEW f, NEW h, NEW k \in Nat, SameTo(k, f, h)
    PROVE  InOrder(f, k) = InOrder(h, k)
<1>1. PICK g : g = ValuesTo(g, k, f) /\ InOrder(f, k) = g[k]
  BY InOrderValues
<1>2. PICK e : e = ValuesTo(e, k, h) /\ InOrder(h, k) = e[k]
  BY InOrderValues
<1>3. g[k] = e[k]
  BY <1>1, <1>2, ValuesAgree
<1> QED BY <1>1, <1>2, <1>3

LEMMA InOrderFacts ==
    ASSUME NEW f
    PROVE  /\ InOrder(f, 0) = <<>>
           /\ \A n \in Nat :
                 InOrder(f, n + 1) = IF n + 1 \in DOMAIN f THEN Append(InOrder(f, n), f[n + 1])
                                                           ELSE InOrder(f, n)
<1>1. InOrder(f, 0) = <<>>
  BY InOrderValues, ValuesAt
<1>2. ASSUME NEW n \in Nat
      PROVE  InOrder(f, n + 1) = IF n + 1 \in DOMAIN f THEN Append(InOrder(f, n), f[n + 1])
                                                       ELSE InOrder(f, n)
  <2>1. PICK g : g = ValuesTo(g, n, f) /\ InOrder(f, n) = g[n]
    BY InOrderValues
  <2>2. PICK e : e = ValuesTo(e, n + 1, f) /\ InOrder(f, n + 1) = e[n + 1]
    BY InOrderValues
  <2>3. g[n] = e[n]
    <3>1. SameTo(n, f, f) /\ n + 1 \in Nat /\ n <= n + 1 /\ n <= n
      BY DEF SameTo
    <3> QED BY <2>1, <2>2, <3>1, ValuesAgree
  <2>4. e[n + 1] = IF n + 1 \in DOMAIN f THEN Append(e[n], f[n + 1]) ELSE e[n]
    BY <2>2, ValuesAt
  <2> QED BY <2>1, <2>2, <2>3, <2>4
<1> QED BY <1>1, <1>2

\* Numbers without a value change nothing.
LEMMA InOrderGap ==
    ASSUME NEW f, NEW m \in Nat, NEW n \in Nat, m <= n, \A i \in m + 1 .. n : i \notin DOMAIN f
    PROVE  InOrder(f, n) = InOrder(f, m)
<1> DEFINE A == {k \in Nat : m + k <= n => InOrder(f, m + k) = InOrder(f, m)}
<1>1. 0 \in A
  OBVIOUS
<1>2. ASSUME NEW k \in A PROVE k + 1 \in A
  <2>1. ASSUME m + (k + 1) <= n PROVE InOrder(f, m + (k + 1)) = InOrder(f, m)
    <3>1. /\ m + k \in Nat /\ m + (k + 1) = (m + k) + 1 /\ (m + k) + 1 \in m + 1 .. n
          /\ InOrder(f, m + k) = InOrder(f, m)
      BY <2>1
    <3>2. (m + k) + 1 \notin DOMAIN f
      BY <3>1
    <3>3. InOrder(f, (m + k) + 1) = InOrder(f, m + k)
      BY <3>1, <3>2, InOrderFacts
    <3> QED BY <3>1, <3>3
  <2> QED BY <2>1
<1>3. A = Nat
  <2>1. A \in SUBSET Nat
    OBVIOUS
  <2> HIDE DEF A
  <2> QED BY <1>1, <1>2, <2>1, Induction
<1>4. n - m \in Nat /\ m + (n - m) = n
  OBVIOUS
<1>5. n - m \in A
  BY <1>3, <1>4
<1> QED BY <1>4, <1>5

LEMMA InOrderTyped ==
    ASSUME NEW f, NEW S, \A i \in DOMAIN f : f[i] \in S, NEW n \in Nat
    PROVE  InOrder(f, n) \in Seq(S)
<1> DEFINE A == {k \in Nat : InOrder(f, k) \in Seq(S)}
<1>1. 0 \in A
  <2>1. InOrder(f, 0) = <<>>
    BY InOrderFacts
  <2>2. <<>> \in Seq(S)
    OBVIOUS
  <2>3. InOrder(f, 0) \in Seq(S)
    BY <2>1, <2>2
  <2> QED BY <2>3
<1>2. ASSUME NEW k \in A PROVE k + 1 \in A
  <2>1. k \in Nat /\ InOrder(f, k) \in Seq(S)
    OBVIOUS
  <2>2. InOrder(f, k + 1) = IF k + 1 \in DOMAIN f THEN Append(InOrder(f, k), f[k + 1])
                                                  ELSE InOrder(f, k)
    BY <2>1, InOrderFacts
  <2>3. InOrder(f, k + 1) \in Seq(S)
    <3>1. CASE k + 1 \in DOMAIN f
      <4>1. InOrder(f, k + 1) = Append(InOrder(f, k), f[k + 1]) /\ f[k + 1] \in S
        BY <2>2, <3>1
      <4> HIDE DEF A
      <4> QED BY <2>1, <4>1
    <3>2. CASE k + 1 \notin DOMAIN f
      BY <2>1, <2>2, <3>2
    <3> QED BY <3>1, <3>2
  <2> QED BY <2>1, <2>3
<1>3. A = Nat
  <2>1. A \in SUBSET Nat
    OBVIOUS
  <2> HIDE DEF A
  <2> QED BY <1>1, <1>2, <2>1, Induction
<1> QED BY <1>3

-----------------------------------------------------------------------------
(* Lines on the pipe.  off[k] is how many bytes the first k lines of w have.*)

Spans(w, off) ==
    /\ off \in [0 .. Len(w) -> Nat]
    /\ off[0] = 0
    /\ \A k \in 1 .. Len(w) : off[k] = off[k - 1] + Bytes[w[k]] + 1

\* s is what follows the first q bytes, or a part of it.
Carries(s, w, off, q) ==
    /\ s \in Seq(Byte)
    /\ q + Len(s) <= off[Len(w)]
    /\ \A k \in 1 .. Len(w) :
          /\ off[k] - q \in DOMAIN s => s[off[k] - q] = LF
          /\ \A i \in 1 .. Bytes[w[k]] :
                off[k - 1] + i - q \in DOMAIN s => s[off[k - 1] + i - q] = <<w[k], i>>

\* The first d lines are complete within q bytes, and no more.
Complete(d, w, off, q) ==
    /\ d \in 0 .. Len(w)
    /\ off[d] <= q
    /\ d < Len(w) => q < off[d + 1]

LEMMA BytesAre == \A m \in Lines : Bytes[m] \in Nat
BY RpcClientAssumption

LEMMA SpansGrow ==
    ASSUME NEW w \in Seq(Lines), NEW off, Spans(w, off),
           NEW j \in 0 .. Len(w), NEW k \in 0 .. Len(w), j <= k
    PROVE  off[j] + (k - j) <= off[k]
<1> DEFINE A == {x \in Nat : j + x <= Len(w) => off[j] + x <= off[j + x]}
<1>1. 0 \in A
  BY DEF Spans
<1>2. ASSUME NEW x \in A PROVE x + 1 \in A
  <2>1. ASSUME j + (x + 1) <= Len(w) PROVE off[j] + (x + 1) <= off[j + (x + 1)]
    <3>1. x \in Nat /\ Len(w) \in Nat /\ j \in Nat /\ j + x <= Len(w) /\ off[j] + x <= off[j + x]
      BY <2>1
    <3>2. j + (x + 1) \in 1 .. Len(w) /\ (j + (x + 1)) - 1 = j + x /\ j + x \in 0 .. Len(w)
      BY <2>1, <3>1
    <3>3. off[j + (x + 1)] = off[j + x] + Bytes[w[j + (x + 1)]] + 1
      BY <3>2 DEF Spans
    <3>4. w[j + (x + 1)] \in Lines
      BY <3>2
    <3>5. Bytes[w[j + (x + 1)]] \in Nat
      BY <3>4, BytesAre
    <3>6. off[j] \in Nat /\ off[j + x] \in Nat
      BY <3>1, <3>2 DEF Spans
    <3> QED BY <3>1, <3>3, <3>5, <3>6
  <2> QED BY <2>1
<1>3. A = Nat
  <2>1. A \in SUBSET Nat
    OBVIOUS
  <2> HIDE DEF A
  <2> QED BY <1>1, <1>2, <2>1, Induction
<1>4. k - j \in Nat /\ j + (k - j) = k /\ k <= Len(w)
  OBVIOUS
<1>5. k - j \in A
  BY <1>3, <1>4
<1> QED BY <1>4, <1>5

\* A byte belongs to one line.
LEMMA SpansLocate ==
    ASSUME NEW w \in Seq(Lines), NEW off, Spans(w, off), NEW p \in 1 .. off[Len(w)]
    PROVE  \E k \in 1 .. Len(w) : off[k - 1] < p /\ p <= off[k]
<1> DEFINE S == {k \in 0 .. Len(w) : p <= off[k]}
<1>1. Len(w) \in Nat /\ off[0] = 0 /\ \A k \in 0 .. Len(w) : off[k] \in Nat
  BY DEF Spans
<1>2. Len(w) \in S /\ S \in SUBSET Nat
  BY <1>1
<1>3. Min(S) \in S /\ \A x \in S : Min(S) <= x
  <2> HIDE DEF S
  <2> QED BY <1>2, LeastFacts
<1> DEFINE k == Min(S)
<1>4. k \in 0 .. Len(w) /\ p <= off[k] /\ \A x \in 0 .. Len(w) : p <= off[x] => k <= x
  BY <1>3
<1> HIDE DEF k, S
<1>5. k \in 1 .. Len(w)
  BY <1>1, <1>4
<1>6. off[k - 1] < p
  <2>1. k - 1 \in 0 .. Len(w) /\ ~(k <= k - 1)
    BY <1>1, <1>5
  <2>2. ~(p <= off[k - 1]) /\ off[k - 1] \in Nat
    BY <1>1, <1>4, <2>1
  <2> QED BY <2>2
<1> QED BY <1>4, <1>5, <1>6

\* However many bytes were read, so many lines are complete.
LEMMA CompleteExists ==
    ASSUME NEW w \in Seq(Lines), NEW off, Spans(w, off), NEW q \in Nat,
           NEW c, Complete(c, w, off, q), NEW r \in Nat, q <= r
    PROVE  \E d \in c .. Len(w) : Complete(d, w, off, r)
<1> DEFINE S == {k \in 0 .. Len(w) : off[k] <= r}
<1>1. Len(w) \in Nat /\ \A k \in 0 .. Len(w) : off[k] \in Nat
  BY DEF Spans
<1>2. c \in S /\ S \in SUBSET Nat /\ \A x \in S : x <= Len(w)
  BY <1>1 DEF Complete
<1>3. Max(S) \in S /\ \A x \in S : Max(S) >= x
  <2> HIDE DEF S
  <2> QED BY <1>1, <1>2, GreatestFacts
<1> DEFINE d == Max(S)
<1>4. d \in 0 .. Len(w) /\ off[d] <= r /\ d >= c /\ \A x \in 0 .. Len(w) : off[x] <= r => d >= x
  BY <1>2, <1>3
<1> HIDE DEF d, S
<1>5. c \in Nat
  BY DEF Complete
<1>6. d < Len(w) => r < off[d + 1]
  <2>1. SUFFICES ASSUME d < Len(w) PROVE r < off[d + 1]
    OBVIOUS
  <2>2. d + 1 \in 0 .. Len(w) /\ ~(d >= d + 1)
    BY <1>1, <1>4, <2>1
  <2>3. ~(off[d + 1] <= r) /\ off[d + 1] \in Nat
    BY <1>1, <1>4, <2>2
  <2> QED BY <2>3
<1> QED BY <1>1, <1>4, <1>5, <1>6 DEF Complete

\* Complete lines are those that end within the bytes.
LEMMA CompleteMeans ==
    ASSUME NEW w \in Seq(Lines), NEW off, Spans(w, off), NEW q \in Nat,
           NEW d, Complete(d, w, off, q), NEW k \in 0 .. Len(w)
    PROVE  off[k] <= q <=> k <= d
<1>1. Len(w) \in Nat /\ d \in 0 .. Len(w) /\ off[d] \in Nat /\ off[k] \in Nat
  BY DEF Spans, Complete
<1>2. CASE k <= d
  <2>1. off[k] + (d - k) <= off[d]
    BY <1>1, <1>2, SpansGrow
  <2> QED BY <1>1, <1>2, <2>1 DEF Complete
<1>3. CASE d < k
  <2>1. d + 1 \in 0 .. Len(w) /\ d + 1 <= k
    BY <1>1, <1>3
  <2>2. off[d + 1] + (k - (d + 1)) <= off[k]
    BY <2>1, SpansGrow
  <2>3. q < off[d + 1] /\ off[d + 1] \in Nat
    BY <1>1, <1>3, <2>1 DEF Complete, Spans
  <2> QED BY <1>1, <1>3, <2>1, <2>2, <2>3
<1> QED BY <1>1, <1>2, <1>3

-----------------------------------------------------------------------------
(* Parts of the pipe and their line feeds *)

LEMMA CarriesPart ==
    ASSUME NEW w \in Seq(Lines), NEW off, Spans(w, off), NEW q \in Nat, NEW s,
           Carries(s, w, off, q), NEW a \in 0 .. Len(s), NEW b \in a .. Len(s)
    PROVE  Carries(SubSeq(s, a + 1, b), w, off, q + a)
<1> DEFINE t == SubSeq(s, a + 1, b)
<1>1. s \in Seq(Byte) /\ Len(s) \in Nat /\ a \in Nat /\ b \in Nat /\ q + Len(s) <= off[Len(w)]
  BY DEF Carries
<1>2. t \in Seq(Byte) /\ Len(t) = b - a /\ \A x \in 1 .. b - a : t[x] = s[x + a]
  BY <1>1
<1>3. \A x \in 1 .. b - a : x + a \in DOMAIN s
  BY <1>1
<1>4. DOMAIN t = 1 .. b - a
  BY <1>1, <1>2
<1>5. off[Len(w)] \in Nat /\ Len(w) \in Nat
  BY DEF Spans
<1>6. (q + a) + Len(t) <= off[Len(w)]
  BY <1>1, <1>2, <1>5
<1> HIDE DEF t
<1>7. ASSUME NEW k \in 1 .. Len(w)
      PROVE  /\ off[k] - (q + a) \in DOMAIN t => t[off[k] - (q + a)] = LF
             /\ \A i \in 1 .. Bytes[w[k]] :
                   off[k - 1] + i - (q + a) \in DOMAIN t =>
                       t[off[k - 1] + i - (q + a)] = <<w[k], i>>
  <2>1. off[k] \in Nat /\ off[k - 1] \in Nat
    BY DEF Spans
  <2>2. ASSUME off[k] - (q + a) \in DOMAIN t PROVE t[off[k] - (q + a)] = LF
    <3>1. off[k] - (q + a) \in 1 .. b - a /\ (off[k] - (q + a)) + a = off[k] - q
      BY <1>1, <1>4, <2>1, <2>2
    <3> QED BY <1>2, <1>3, <3>1 DEF Carries
  <2>3. ASSUME NEW i \in 1 .. Bytes[w[k]], off[k - 1] + i - (q + a) \in DOMAIN t
        PROVE  t[off[k - 1] + i - (q + a)] = <<w[k], i>>
    <3>1. /\ off[k - 1] + i - (q + a) \in 1 .. b - a
          /\ (off[k - 1] + i - (q + a)) + a = off[k - 1] + i - q
      BY <1>1, <1>4, <2>1, <2>3
    <3> QED BY <1>2, <1>3, <3>1 DEF Carries
  <2> QED BY <2>2, <2>3
<1>8. Carries(t, w, off, q + a)
  BY <1>2, <1>6, <1>7 DEF Carries
<1> QED BY <1>8 DEF t

LEMMA CarriesJoin ==
    ASSUME NEW w \in Seq(Lines), NEW off, Spans(w, off), NEW q \in Nat, NEW s, NEW t,
           Carries(s, w, off, q), Carries(t, w, off, q + Len(s))
    PROVE  Carries(s \o t, w, off, q)
<1> DEFINE u == s \o t
<1>1. s \in Seq(Byte) /\ t \in Seq(Byte) /\ Len(s) \in Nat /\ Len(t) \in Nat
      /\ (q + Len(s)) + Len(t) <= off[Len(w)]
  BY DEF Carries
<1>2. u \in Seq(Byte) /\ Len(u) = Len(s) + Len(t)
  BY <1>1
<1>3. \A x \in DOMAIN u : IF x <= Len(s) THEN x \in DOMAIN s /\ u[x] = s[x]
                                         ELSE x - Len(s) \in DOMAIN t /\ u[x] = t[x - Len(s)]
  BY <1>1
<1>4. off[Len(w)] \in Nat /\ Len(w) \in Nat
  BY DEF Spans
<1>5. q + Len(u) <= off[Len(w)]
  BY <1>1, <1>2, <1>4
<1>6. DOMAIN u \subseteq Nat
  BY <1>2
<1> HIDE DEF u
<1>7. ASSUME NEW k \in 1 .. Len(w)
      PROVE  /\ off[k] - q \in DOMAIN u => u[off[k] - q] = LF
             /\ \A i \in 1 .. Bytes[w[k]] :
                   off[k - 1] + i - q \in DOMAIN u => u[off[k - 1] + i - q] = <<w[k], i>>
  <2>1. off[k] \in Nat /\ off[k - 1] \in Nat
    BY SMTT(30) DEF Spans
  <2>2. ASSUME off[k] - q \in DOMAIN u PROVE u[off[k] - q] = LF
    <3>1. (off[k] - q) - Len(s) = off[k] - (q + Len(s))
      BY <1>1, <2>1
    <3> QED BY <1>3, <2>2, <3>1 DEF Carries
  <2>3. ASSUME NEW i \in 1 .. Bytes[w[k]], off[k - 1] + i - q \in DOMAIN u
        PROVE  u[off[k - 1] + i - q] = <<w[k], i>>
    <3>1. (off[k - 1] + i - q) - Len(s) = off[k - 1] + i - (q + Len(s))
      BY <1>1, <2>1
    <3> QED BY <1>3, <2>3, <3>1 DEF Carries
  <2> QED BY <2>2, <2>3
<1>8. Carries(u, w, off, q)
  BY <1>2, <1>5, <1>7 DEF Carries
<1> QED BY <1>8 DEF u

\* The line feeds of what follows q bytes are the ends of lines.
LEMMA EndsAre ==
    ASSUME NEW w \in Seq(Lines), NEW off, Spans(w, off), NEW q \in Nat, NEW s,
           Carries(s, w, off, q)
    PROVE  Ends(s) = {i \in DOMAIN s : \E k \in 1 .. Len(w) : i = off[k] - q}
<1>1. s \in Seq(Byte) /\ Len(s) \in Nat /\ q + Len(s) <= off[Len(w)] /\ DOMAIN s = 1 .. Len(s)
  BY DEF Carries
<1>2. off[Len(w)] \in Nat /\ Len(w) \in Nat
  BY DEF Spans
<1>3. ASSUME NEW i \in DOMAIN s, s[i] = LF PROVE \E k \in 1 .. Len(w) : i = off[k] - q
  <2>1. i \in Nat /\ q + i \in 1 .. off[Len(w)]
    BY <1>1, <1>2
  <2>2. PICK k \in 1 .. Len(w) : off[k - 1] < q + i /\ q + i <= off[k]
    BY <2>1, SpansLocate
  <2>3. off[k] \in Nat /\ off[k - 1] \in Nat /\ off[k] = off[k - 1] + Bytes[w[k]] + 1
    BY DEF Spans
  <2>4. w[k] \in Lines /\ Bytes[w[k]] \in Nat
    BY BytesAre
  <2>5. SUFFICES ASSUME q + i # off[k] PROVE FALSE
    BY <2>1, <2>3
  <2> DEFINE x == (q + i) - off[k - 1]
  <2>6. x \in 1 .. Bytes[w[k]] /\ off[k - 1] + x - q = i
    BY <2>1, <2>2, <2>3, <2>4, <2>5, SMTT(30)
  <2>7. s[i] = <<w[k], x>>
    <3> HIDE DEF x
    <3> QED BY <2>6 DEF Carries
  <2>8. LF # <<w[k], x>>
    <3> HIDE DEF x
    <3> QED BY <2>4, <2>6, RpcClientAssumption
  <2> QED BY <1>3, <2>7, <2>8
<1>4. ASSUME NEW i \in DOMAIN s, NEW k \in 1 .. Len(w), i = off[k] - q PROVE s[i] = LF
  BY <1>4 DEF Carries
<1> QED BY <1>3, <1>4 DEF Ends

\* What is left of the lines, and how many line feeds it has.
LEMMA EndsCount ==
    ASSUME NEW w \in Seq(Lines), NEW off, Spans(w, off), NEW q \in Nat, NEW s,
           Carries(s, w, off, q), q + Len(s) = off[Len(w)], NEW d, Complete(d, w, off, q)
    PROVE  IsFiniteSet(Ends(s)) /\ Cardinality(Ends(s)) = Len(w) - d
<1>1. s \in Seq(Byte) /\ Len(s) \in Nat /\ DOMAIN s = 1 .. Len(s)
  BY DEF Carries
<1>2. Len(w) \in Nat /\ d \in 0 .. Len(w) /\ \A k \in 0 .. Len(w) : off[k] \in Nat
  BY DEF Spans, Complete
<1> DEFINE n == Len(w) - d
           f == [j \in 1 .. n |-> off[d + j] - q]
<1>3. n \in Nat /\ IsFiniteSet(1 .. n) /\ Cardinality(1 .. n) = n
  <2>1. n \in Nat
    BY <1>2
  <2> HIDE DEF n
  <2>2. IsFiniteSet(1 .. n) /\ Cardinality(1 .. n) = IF 1 > n THEN 0 ELSE n - 1 + 1
    BY <2>1, FS_Interval
  <2> QED BY <2>1, <2>2
<1>4. ASSUME NEW j \in 1 .. n PROVE off[d + j] - q \in DOMAIN s /\ off[d + j] \in Nat
  <2>1. d + j \in 0 .. Len(w) /\ ~(d + j <= d)
    BY <1>2
  <2>2. ~(off[d + j] <= q) /\ off[d + j] \in Nat
    BY <1>2, <2>1, CompleteMeans
  <2>3. off[d + j] + (Len(w) - (d + j)) <= off[Len(w)]
    BY <1>2, <2>1, SpansGrow
  <2> QED BY <1>1, <1>2, <2>1, <2>2, <2>3
<1>5. ASSUME NEW j \in 1 .. n PROVE f[j] \in Ends(s)
  <2>1. d + j \in 1 .. Len(w)
    BY <1>2
  <2>2. f[j] = off[d + j] - q
    OBVIOUS
  <2> HIDE DEF f, n
  <2> QED BY <1>4, <2>1, <2>2, EndsAre
<1>6. ASSUME NEW i \in Ends(s) PROVE \E j \in 1 .. n : f[j] = i
  <2>1. PICK k \in 1 .. Len(w) : i = off[k] - q /\ i \in 1 .. Len(s)
    BY <1>1, EndsAre
  <2>2. k \in 0 .. Len(w) /\ off[k] \in Nat
    BY <1>2
  <2>3. ~(off[k] <= q)
    BY <2>1, <2>2
  <2>4. ~(k <= d)
    BY <2>2, <2>3, CompleteMeans
  <2>5. k - d \in 1 .. n /\ d + (k - d) = k
    BY <1>2, <2>2, <2>4
  <2> QED BY <2>1, <2>5
<1>7. ASSUME NEW i \in 1 .. n, NEW j \in 1 .. n, i < j PROVE f[i] < f[j]
  <2>1. d + i \in 0 .. Len(w) /\ d + j \in 0 .. Len(w) /\ d + i <= d + j
    BY <1>2, <1>7
  <2>2. off[d + i] + ((d + j) - (d + i)) <= off[d + j]
    BY <2>1, SpansGrow
  <2>3. off[d + i] \in Nat /\ off[d + j] \in Nat
    BY <1>2, <2>1
  <2>4. off[d + i] - q < off[d + j] - q
    BY <1>2, <1>7, <2>2, <2>3
  <2> QED BY <2>4
<1>8. f \in Bijection(1 .. n, Ends(s))
  <2>1. f \in [1 .. n -> Ends(s)]
    <3>1. f = [j \in 1 .. n |-> f[j]]
      OBVIOUS
    <3> HIDE DEF f, n
    <3> QED BY <1>5, <3>1
  <2>2. ASSUME NEW i \in 1 .. n, NEW j \in 1 .. n, f[i] = f[j] PROVE i = j
    <3>1. i \in Nat /\ j \in Nat /\ f[i] \in Int /\ f[j] \in Int
      BY <1>2, <1>4
    <3>2. i < j \/ j < i \/ i = j
      BY <3>1
    <3> HIDE DEF f, n
    <3> QED BY <1>7, <2>2, <3>1, <3>2
  <2> HIDE DEF f, n
  <2> QED BY <1>6, <2>1, <2>2 DEF Bijection, Injection, Surjection, IsInjective
<1> HIDE DEF f, n
<1>9. ExistsBijection(1 .. n, Ends(s))
  BY <1>8 DEF ExistsBijection
<1>10. IsFiniteSet(Ends(s)) /\ Cardinality(Ends(s)) = n
  BY <1>3, <1>9, FS_Bijection
<1> QED BY <1>10 DEF n

LEMMA PartIs ==
    ASSUME NEW S, NEW s \in Seq(S), NEW a \in 0 .. Len(s), NEW b \in a .. Len(s)
    PROVE  /\ SubSeq(s, a + 1, b) \in Seq(S)
           /\ Len(SubSeq(s, a + 1, b)) = b - a
           /\ \A i \in 1 .. b - a : SubSeq(s, a + 1, b)[i] = s[i + a]
<1> DEFINE t == SubSeq(s, a + 1, b)
<1>1. Len(s) \in Nat /\ a \in Nat /\ b \in Nat
  OBVIOUS
<1>2. t \in Seq(S) /\ Len(t) = b - a /\ \A i \in 1 .. b - a : t[i] = s[i + a]
  BY <1>1
<1> QED BY <1>2

\* The line that ends where the k-th one does, when s begins with a line.
LEMMA LineIs ==
    ASSUME NEW w \in Seq(Lines), NEW off, Spans(w, off), NEW d \in 0 .. Len(w), NEW s,
           Carries(s, w, off, off[d]), NEW k \in d + 1 .. Len(w), off[k] - off[d] <= Len(s)
    PROVE  LineAt(s, off[k] - off[d]) = [i \in 1 .. Bytes[w[k]] |-> <<w[k], i>>]
<1>1. s \in Seq(Byte) /\ Len(s) \in Nat /\ DOMAIN s = 1 .. Len(s)
  BY DEF Carries
<1>2. Len(w) \in Nat /\ k \in 1 .. Len(w) /\ k - 1 \in 0 .. Len(w) /\ k \in Nat /\ d \in Nat
      /\ d <= k - 1
  OBVIOUS
<1>3. off[k] \in Nat /\ off[k - 1] \in Nat /\ off[d] \in Nat
      /\ off[k] = off[k - 1] + Bytes[w[k]] + 1
  <2>1. k \in 0 .. Len(w)
    BY <1>2
  <2>2. /\ \A j \in 0 .. Len(w) : off[j] \in Nat
        /\ \A j \in 1 .. Len(w) : off[j] = off[j - 1] + Bytes[w[j]] + 1
    BY DEF Spans
  <2> QED BY <1>2, <2>1, <2>2
<1>4. w[k] \in Lines /\ Bytes[w[k]] \in Nat
  BY <1>2, BytesAre
<1>5. off[d] + ((k - 1) - d) <= off[k - 1]
  BY <1>2, SpansGrow
<1> DEFINE e == off[k] - off[d]
           S == {0} \cup {i \in Ends(s) : i < e}
           b == off[k - 1] - off[d]
<1>6. b \in Nat /\ e \in Nat /\ b < e /\ e = b + Bytes[w[k]] + 1 /\ e <= Len(s)
  <2>1. off[d] <= off[k - 1]
    BY <1>2, <1>3, <1>5
  <2>2. b \in Nat /\ e = b + Bytes[w[k]] + 1
    BY <1>3, <1>4, <2>1
  <2>3. e <= Len(s)
    OBVIOUS
  <2> HIDE DEF b, e
  <2> QED BY <1>4, <2>2, <2>3
<1>7. S \in SUBSET Nat /\ S # {} /\ \A x \in S : x <= e
  BY <1>1, <1>6 DEF Ends
<1>8. Max(S) \in S /\ \A x \in S : Max(S) >= x
  <2> HIDE DEF S, e
  <2> QED BY <1>6, <1>7, GreatestFacts
<1>9. b \in S
  <2>1. CASE k - 1 = d
    <3>1. b = 0
      BY <1>3, <2>1
    <3> QED BY <3>1
  <2>2. CASE k - 1 # d
    <3>1. k - 1 \in 1 .. Len(w) /\ d + 1 <= k - 1
      BY <1>2, <2>2
    <3>2. b \in DOMAIN s
      BY <1>1, <1>2, <1>3, <1>5, <1>6, <3>1
    <3>3. b \in Ends(s)
      <4> HIDE DEF S, e
      <4> QED BY <1>3, <3>1, <3>2, EndsAre
    <3> QED BY <1>6, <3>3
  <2> QED BY <2>1, <2>2
<1>10. ASSUME NEW x \in S PROVE x <= b
  <2>1. CASE x = 0
    BY <1>6, <2>1
  <2>2. CASE x \in Ends(s) /\ x < e
    <3>1. PICK j \in 1 .. Len(w) : x = off[j] - off[d]
      BY <1>3, <2>2, EndsAre
    <3>2. j \in 0 .. Len(w) /\ k \in 0 .. Len(w) /\ off[j] \in Nat
      BY <1>2 DEF Spans
    <3>3. j <= k - 1
      <4>1. SUFFICES ASSUME k <= j PROVE FALSE
        BY <1>2, <3>2
      <4>2. off[k] + (j - k) <= off[j]
        BY <3>2, <4>1, SpansGrow
      <4> QED BY <1>3, <2>2, <3>1, <3>2, <4>1, <4>2
    <3>4. off[j] + ((k - 1) - j) <= off[k - 1]
      BY <1>2, <3>2, <3>3, SpansGrow
    <3> QED BY <1>2, <1>3, <3>1, <3>2, <3>3, <3>4, SMTT(30)
  <2> QED BY <2>1, <2>2
<1>11. Max(S) = b
  <2>1. Max(S) \in Nat /\ Max(S) <= b /\ Max(S) >= b
    <3> HIDE DEF S, b, e
    <3> QED BY <1>7, <1>8, <1>9, <1>10
  <2> QED BY <1>6, <2>1
<1>12. LineAt(s, e) = SubSeq(s, b + 1, e - 1)
  BY <1>11 DEF LineAt
<1>13. SubSeq(s, b + 1, e - 1) = [i \in 1 .. Bytes[w[k]] |-> s[b + i]]
  <2> DEFINE t == SubSeq(s, b + 1, e - 1)
  <2> HIDE DEF b, e
  <2>1. e - 1 \in Nat /\ e - 1 <= Len(s) /\ b <= e - 1 /\ (e - 1) - b = Bytes[w[k]]
    BY <1>1, <1>4, <1>6
  <2>2. t \in Seq(Byte) /\ Len(t) = (e - 1) - b /\ \A i \in 1 .. (e - 1) - b : t[i] = s[i + b]
    <3>1. b \in 0 .. Len(s) /\ e - 1 \in b .. Len(s)
      BY <1>1, <1>6, <2>1
    <3> QED BY <1>1, <3>1, PartIs
  <2>3. t = [i \in 1 .. Bytes[w[k]] |-> t[i]]
    <3> HIDE DEF t
    <3> QED BY <2>1, <2>2
  <2>4. \A i \in 1 .. Bytes[w[k]] : i + b = b + i
    BY <1>4, <1>6
  <2>5. t = [i \in 1 .. Bytes[w[k]] |-> s[b + i]]
    <3> HIDE DEF t
    <3> QED BY <2>1, <2>2, <2>3, <2>4
  <2> QED BY <2>5
<1>14. ASSUME NEW i \in 1 .. Bytes[w[k]] PROVE s[b + i] = <<w[k], i>>
  <2>1. off[k - 1] + i - off[d] = b + i
    BY <1>3, <1>4
  <2>2. b + i \in DOMAIN s
    <3> HIDE DEF b, e
    <3> QED BY <1>1, <1>4, <1>6
  <2> HIDE DEF b, e
  <2> QED BY <1>2, <2>1, <2>2 DEF Carries
<1>15. LineAt(s, e) = [i \in 1 .. Bytes[w[k]] |-> <<w[k], i>>]
  <2> HIDE DEF b, e
  <2> QED BY <1>12, <1>13, <1>14
<1> QED BY <1>15

-----------------------------------------------------------------------------
(* What the decoder takes and parses *)

\* The lines that end in s, when s begins with a line.
LEMMA EndsWithin ==
    ASSUME NEW w \in Seq(Lines), NEW off, Spans(w, off), NEW d \in 0 .. Len(w), NEW s,
           Carries(s, w, off, off[d]), NEW e, Complete(e, w, off, off[d] + Len(s))
    PROVE  /\ \A i \in Ends(s) : \E k \in d + 1 .. e : i = off[k] - off[d]
           /\ \A k \in d + 1 .. e : off[k] - off[d] \in Ends(s)
<1>1. Len(w) \in Nat /\ d \in Nat /\ e \in 0 .. Len(w)
  BY DEF Complete
<1>2. off[d] \in Nat /\ \A k \in 0 .. Len(w) : off[k] \in Nat
  BY <1>1 DEF Spans
<1>3. Len(s) \in Nat /\ DOMAIN s = 1 .. Len(s)
  BY DEF Carries
<1>4. off[d] + Len(s) \in Nat
  BY <1>2, <1>3
<1>5. ASSUME NEW i \in Ends(s) PROVE \E k \in d + 1 .. e : i = off[k] - off[d]
  <2>1. PICK k \in 1 .. Len(w) : i = off[k] - off[d] /\ i \in 1 .. Len(s)
    BY <1>2, <1>3, EndsAre
  <2>2. k \in 0 .. Len(w) /\ off[k] \in Nat
    BY <1>1, <1>2
  <2>3. off[k] <= off[d] + Len(s) /\ ~(off[k] <= off[d])
    BY <1>2, <1>3, <2>1, <2>2
  <2>4. k <= e
    BY <1>4, <2>2, <2>3, CompleteMeans
  <2>5. ~(k <= d)
    <3>1. SUFFICES ASSUME k <= d PROVE FALSE
      OBVIOUS
    <3>2. off[k] + (d - k) <= off[d]
      BY <2>2, <3>1, SpansGrow
    <3> QED BY <1>1, <1>2, <2>2, <2>3, <3>1, <3>2
  <2>6. k \in d + 1 .. e
    BY <1>1, <2>2, <2>4, <2>5
  <2> QED BY <2>1, <2>6
<1>6. ASSUME NEW k \in d + 1 .. e PROVE off[k] - off[d] \in Ends(s)
  <2>1. k \in 1 .. Len(w) /\ k \in 0 .. Len(w) /\ k <= e /\ d <= k /\ d < k
    BY <1>1
  <2>2. off[k] <= off[d] + Len(s)
    BY <1>4, <2>1, CompleteMeans
  <2>3. off[d] + (k - d) <= off[k]
    BY <2>1, SpansGrow
  <2>4. off[k] \in Nat
    BY <1>2, <2>1
  <2>5. off[k] - off[d] \in 1 .. Len(s)
    BY <1>1, <1>2, <1>3, <2>1, <2>2, <2>3, <2>4
  <2> QED BY <1>2, <1>3, <2>1, <2>5, EndsAre, SMTT(30)
<1> QED BY <1>5, <1>6

LEMMA WithinIs ==
    ASSUME NEW w \in Seq(Lines), NEW off, Spans(w, off), NEW d \in 0 .. Len(w), NEW s,
           Carries(s, w, off, off[d]), NEW e, Complete(e, w, off, off[d] + Len(s)),
           NEW k \in d + 1 .. e
    PROVE  /\ w[k] \in Lines
           /\ LineAt(s, off[k] - off[d]) = [i \in 1 .. Bytes[w[k]] |-> <<w[k], i>>]
           /\ Blank(LineAt(s, off[k] - off[d])) <=> Bytes[w[k]] = 0
           /\ w[k] \notin Malformed => \/ Blank(LineAt(s, off[k] - off[d]))
                                       \/ Parses(LineAt(s, off[k] - off[d]))
<1>1. Len(w) \in Nat /\ d \in Nat /\ e \in 0 .. Len(w) /\ k \in d + 1 .. Len(w)
  BY DEF Complete
<1>2. w[k] \in Lines /\ Bytes[w[k]] \in Nat
  BY <1>1, BytesAre
<1>3. off[k] - off[d] <= Len(s)
  <2>1. off[k] - off[d] \in Ends(s)
    BY EndsWithin
  <2>2. DOMAIN s = 1 .. Len(s) /\ Len(s) \in Nat
    BY DEF Carries
  <2> QED BY <2>1, <2>2 DEF Ends
<1> DEFINE text == [i \in 1 .. Bytes[w[k]] |-> <<w[k], i>>]
<1>4. LineAt(s, off[k] - off[d]) = text
  BY <1>1, <1>3, LineIs
<1>5. Blank(text) <=> Bytes[w[k]] = 0
  <2>1. CASE Bytes[w[k]] = 0
    BY <2>1 DEF Blank
  <2>2. CASE Bytes[w[k]] # 0
    <3>1. 1 \in DOMAIN text
      BY <1>2, <2>2
    <3>2. 1 \notin DOMAIN <<>>
      OBVIOUS
    <3> QED BY <2>2, <3>1, <3>2 DEF Blank
  <2> QED BY <2>1, <2>2
<1>6. w[k] \notin Malformed /\ Bytes[w[k]] # 0 => Parses(text)
  <2>1. SUFFICES ASSUME w[k] \notin Malformed, Bytes[w[k]] # 0 PROVE Parses(text)
    OBVIOUS
  <2>2. 1 \in 1 .. Bytes[w[k]]
    BY <1>2, <2>1
  <2>3. text[1] = <<w[k], 1>>
    BY <2>2
  <2>4. text[1][1] = w[k]
    BY <2>3
  <2>5. DOMAIN text = 1 .. Bytes[w[k]] /\ \A i \in DOMAIN text : text[i] = <<w[k], i>>
    OBVIOUS
  <2>6. Len(text) = Bytes[w[k]]
    BY <1>2, <2>5
  <2> HIDE DEF text
  <2> QED BY <2>1, <2>4, <2>5, <2>6 DEF Parses
<1> HIDE DEF text
<1>7. /\ Blank(LineAt(s, off[k] - off[d])) <=> Bytes[w[k]] = 0
      /\ w[k] \notin Malformed => \/ Blank(LineAt(s, off[k] - off[d]))
                                  \/ Parses(LineAt(s, off[k] - off[d]))
  BY <1>4, <1>5, <1>6
<1> QED BY <1>2, <1>4, <1>7 DEF text

\* Lines that are JSON, or blank, all parse.
LEMMA NoneBad ==
    ASSUME NEW w \in Seq(Lines), NEW off, Spans(w, off), NEW d \in 0 .. Len(w), NEW s,
           Carries(s, w, off, off[d]), NEW e, Complete(e, w, off, off[d] + Len(s)),
           \A k \in d + 1 .. e : w[k] \notin Malformed
    PROVE  BadEnds(s) = {}
<1>1. SUFFICES ASSUME NEW i \in Ends(s)
               PROVE  Blank(LineAt(s, i)) \/ Parses(LineAt(s, i))
  BY DEF BadEnds
<1>2. PICK k \in d + 1 .. e : i = off[k] - off[d]
  BY EndsWithin
<1> QED BY <1>2, WithinIs

\* What is taken ends with the last complete line.
LEMMA ConsumedIs ==
    ASSUME NEW w \in Seq(Lines), NEW off, Spans(w, off), NEW d \in 0 .. Len(w), NEW s,
           Carries(s, w, off, off[d]), NEW e, Complete(e, w, off, off[d] + Len(s)), d <= e,
           BadEnds(s) = {}
    PROVE  Consumed(s) = off[e] - off[d]
<1>1. Len(w) \in Nat /\ d \in Nat /\ e \in 0 .. Len(w) /\ e \in Nat
  BY DEF Complete
<1>2. off[d] \in Nat /\ off[e] \in Nat /\ \A k \in 0 .. Len(w) : off[k] \in Nat
  BY <1>1 DEF Spans
<1>3. Len(s) \in Nat /\ DOMAIN s = 1 .. Len(s)
  BY DEF Carries
<1> DEFINE S == {0} \cup Ends(s)
           c == off[e] - off[d]
<1>4. S \in SUBSET Nat /\ S # {} /\ \A x \in S : x <= Len(s)
  BY <1>3 DEF Ends
<1>5. Max(S) \in S /\ \A x \in S : Max(S) >= x
  <2> HIDE DEF S
  <2> QED BY <1>3, <1>4, GreatestFacts
<1>6. c \in S
  <2>1. CASE e = d
    <3>1. c = 0
      BY <1>2, <2>1
    <3> QED BY <3>1
  <2>2. CASE e # d
    <3>1. e \in d + 1 .. e
      BY <1>1, <2>2
    <3> QED BY <3>1, EndsWithin
  <2> QED BY <2>1, <2>2
<1>7. ASSUME NEW x \in S PROVE x <= c
  <2>0. off[d] + (e - d) <= off[e]
    BY <1>1, SpansGrow
  <2>1. CASE x = 0
    BY <1>1, <1>2, <2>0, <2>1
  <2>2. CASE x \in Ends(s)
    <3>1. PICK k \in d + 1 .. e : x = off[k] - off[d]
      BY <2>2, EndsWithin
    <3>2. k \in 0 .. Len(w) /\ k \in Nat /\ k <= e
      BY <1>1
    <3>3. off[k] + (e - k) <= off[e]
      BY <1>1, <3>2, SpansGrow
    <3>4. off[k] \in Nat
      BY <1>2, <3>2
    <3> QED BY <1>1, <1>2, <3>1, <3>2, <3>3, <3>4
  <2> QED BY <2>1, <2>2
<1>8. Max(S) = c
  <2>1. Max(S) \in Nat /\ c \in Nat /\ Max(S) <= c /\ Max(S) >= c
    <3> HIDE DEF S, c
    <3> QED BY <1>4, <1>5, <1>6, <1>7
  <2> HIDE DEF S, c
  <2> QED BY <2>1
<1> QED BY <1>8 DEF Consumed

\* The messages of the lines of w that are not blank.
Spelled(w) == [k \in {j \in DOMAIN w : Bytes[w[j]] > 0} |-> w[k]]

\* What is parsed of s: the messages of its complete lines.
LEMMA ParsedIs ==
    ASSUME NEW w \in Seq(Lines), NEW off, Spans(w, off), NEW d \in 0 .. Len(w), NEW s,
           Carries(s, w, off, off[d]), NEW e, Complete(e, w, off, off[d] + Len(s)), d <= e
    PROVE  InOrder(Spelled(w), e) = InOrder(Spelled(w), d) \o Parsed(s)
<1>1. Len(w) \in Nat /\ d \in Nat /\ e \in 0 .. Len(w) /\ e \in Nat /\ DOMAIN w = 1 .. Len(w)
  BY DEF Complete
<1>2. off[d] \in Nat /\ off[e] \in Nat /\ \A k \in 0 .. Len(w) : off[k] \in Nat
  BY <1>1 DEF Spans
<1>3. Len(s) \in Nat /\ DOMAIN s = 1 .. Len(s)
  BY DEF Carries
<1>0. off[d] \in Nat /\ off[e] \in Nat
  BY <1>2
<1>a. ASSUME NEW k \in d + 1 .. e
      PROVE  off[k] - off[d] \in Ends(s) /\ (Blank(LineAt(s, off[k] - off[d])) <=> Bytes[w[k]] = 0)
  <2>1. off[k] - off[d] \in Ends(s)
    BY EndsWithin
  <2>2. ASSUME Bytes[w[k]] = 0 PROVE Blank(LineAt(s, off[k] - off[d]))
    BY <2>2, WithinIs
  <2>3. ASSUME Blank(LineAt(s, off[k] - off[d])) PROVE Bytes[w[k]] = 0
    <3>1. LineAt(s, off[k] - off[d]) = [i \in 1 .. Bytes[w[k]] |-> <<w[k], i>>]
      BY WithinIs
    <3>2. Bytes[w[k]] \in Nat
      <4>1. k \in 1 .. Len(w)
        BY <1>1
      <4> QED BY <4>1, BytesAre
    <3> DEFINE text == [i \in 1 .. Bytes[w[k]] |-> <<w[k], i>>]
    <3>3. text = <<>>
      BY <2>3, <3>1 DEF Blank
    <3>4. DOMAIN text = 1 .. Bytes[w[k]] /\ DOMAIN <<>> = {}
      OBVIOUS
    <3>5. 1 .. Bytes[w[k]] = {}
      <4> HIDE DEF text
      <4> QED BY <3>3, <3>4
    <3> QED BY <3>2, <3>5
  <2> QED BY <2>1, <2>2, <2>3
<1> DEFINE P == [i \in {j \in Ends(s) : ~Blank(LineAt(s, j))} |-> s[i - 1][1]]
           F == Spelled(w)
<1>4. Parsed(s) = InOrder(P, Len(s))
  BY DEF Parsed
\* One line.
<1>5. ASSUME NEW k \in d + 1 .. e
      PROVE  /\ off[k] - off[d] \in DOMAIN P <=> k \in DOMAIN F
             /\ k \in DOMAIN F => P[off[k] - off[d]] = F[k]
  <2>1. k \in 1 .. Len(w) /\ d <= k - 1 /\ k - 1 \in 0 .. Len(w) /\ k \in DOMAIN w
    BY <1>1
  <2>2. w[k] \in Lines /\ Bytes[w[k]] \in Nat
    BY <2>1, BytesAre
  <2>3. off[k] - off[d] \in Ends(s) /\ (Blank(LineAt(s, off[k] - off[d])) <=> Bytes[w[k]] = 0)
    BY <1>a
  <2>4. k \in DOMAIN F <=> Bytes[w[k]] # 0
    BY <2>1, <2>2 DEF Spelled
  <2>5. off[k] - off[d] \in DOMAIN P <=> k \in DOMAIN F
    BY <2>3, <2>4
  <2>6. ASSUME k \in DOMAIN F PROVE P[off[k] - off[d]] = F[k]
    <3>1. F[k] = w[k]
      BY <2>6 DEF Spelled
    <3>2. Bytes[w[k]] \in 1 .. Bytes[w[k]]
      BY <2>2, <2>4, <2>6
    <3>3. off[k] \in Nat /\ off[k - 1] \in Nat /\ off[k] = off[k - 1] + Bytes[w[k]] + 1
      BY <2>1 DEF Spans
    <3>4. off[d] + ((k - 1) - d) <= off[k - 1]
      BY <2>1, SpansGrow
    <3>5. off[k - 1] + Bytes[w[k]] - off[d] = (off[k] - off[d]) - 1
      <4>1. off[k] - off[d] = (off[k - 1] + Bytes[w[k]] + 1) - off[d]
        BY <3>3
      <4> DEFINE b == off[k - 1]
                 n == Bytes[w[k]]
                 c == off[d]
      <4>2. b \in Nat /\ n \in Nat /\ c \in Nat
        BY <1>0, <2>2, <3>3
      <4> HIDE DEF b, n, c
      <4>3. b + n - c = ((b + n + 1) - c) - 1
        BY <4>2
      <4> USE DEF b, n, c
      <4> QED BY <4>1, <4>3
    <3>6. off[k] - off[d] \in 1 .. Len(s)
      BY <1>3, <2>3 DEF Ends
    <3>7. off[k - 1] + Bytes[w[k]] - off[d] \in DOMAIN s
      <4>1. off[d] <= off[k - 1]
        <5>1. (k - 1) - d \in Nat
          BY <1>1, <2>1
        <5> QED BY <1>0, <3>3, <3>4, <5>1
      <4>2. 1 <= off[k - 1] + Bytes[w[k]] - off[d]
        BY <1>0, <3>2, <3>3, <4>1, <2>2, SMTT(30)
      <4> QED BY <1>0, <1>3, <2>2, <3>3, <3>5, <3>6, <4>2, SMTT(30)
    <3>8. s[(off[k] - off[d]) - 1] = <<w[k], Bytes[w[k]]>>
      BY <2>1, <3>2, <3>5, <3>7 DEF Carries
    <3>9. P[off[k] - off[d]] = s[(off[k] - off[d]) - 1][1]
      BY <2>5, <2>6
    <3> QED BY <3>1, <3>8, <3>9
  <2> HIDE DEF P, F
  <2> QED BY <2>5, <2>6
\* Between two line feeds, and after the last one, there is nothing.
<1>6. ASSUME NEW i \in DOMAIN P PROVE i \in Nat /\ \E k \in d + 1 .. e : i = off[k] - off[d]
  <2>1. i \in Ends(s)
    OBVIOUS
  <2>2. i \in Nat
    BY <1>3, <2>1 DEF Ends
  <2> HIDE DEF P
  <2> QED BY <2>1, <2>2, EndsWithin
<1> HIDE DEF P, F
<1> DEFINE A == {x \in Nat : d + x <= e =>
                    InOrder(F, d + x) = InOrder(F, d) \o InOrder(P, off[d + x] - off[d])}
<1>7. InOrder(F, d) \in Seq(Lines)
  <2>1. \A i \in DOMAIN F : F[i] \in Lines
    BY <1>1 DEF F, Spelled
  <2> QED BY <1>1, <2>1, InOrderTyped
<1>8. 0 \in A
  <2>1. d + 0 = d /\ off[d] - off[d] = 0
    BY <1>1, <1>2
  <2>2. InOrder(P, 0) = <<>>
    BY InOrderFacts
  <2>3. InOrder(F, d) = InOrder(F, d) \o <<>>
    BY <1>7
  <2>4. InOrder(F, d + 0) = InOrder(F, d) \o InOrder(P, off[d + 0] - off[d])
    BY <2>1, <2>2, <2>3
  <2> QED BY <2>4
<1>9. ASSUME NEW x \in A PROVE x + 1 \in A
  <2> DEFINE k == d + (x + 1)
             g == off[k - 1] - off[d]
             h == off[k] - off[d]
  <2>1. SUFFICES ASSUME k <= e PROVE InOrder(F, k) = InOrder(F, d) \o InOrder(P, h)
    OBVIOUS
  <2>2. x \in Nat /\ InOrder(F, d + x) = InOrder(F, d) \o InOrder(P, off[d + x] - off[d])
    BY <1>1, <2>1
  <2>3. k - 1 = d + x /\ k - 1 \in Nat /\ k \in d + 1 .. e /\ k \in 0 .. Len(w)
        /\ k - 1 \in 0 .. Len(w) /\ k \in 1 .. Len(w) /\ d <= k - 1 /\ (k - 1) + 1 = k
    BY <1>1, <2>1, <2>2
  <2> HIDE DEF A, k
  <2>4. InOrder(F, k - 1) = InOrder(F, d) \o InOrder(P, g)
    BY <2>2, <2>3
  <2>5. InOrder(F, k) = IF k \in DOMAIN F THEN Append(InOrder(F, k - 1), F[k])
                                          ELSE InOrder(F, k - 1)
    BY <2>3, InOrderFacts
  <2>6. off[k] \in Nat /\ off[k - 1] \in Nat /\ off[k] = off[k - 1] + Bytes[w[k]] + 1
    BY <2>3 DEF Spans
  <2>7. off[d] + ((k - 1) - d) <= off[k - 1]
    BY <2>3, SpansGrow
  <2>8. Bytes[w[k]] \in Nat
    BY <2>3, BytesAre
  <2>9. g \in Nat /\ h - 1 \in Nat /\ h \in Nat /\ g <= h - 1 /\ (h - 1) + 1 = h
    <3>1. off[d] <= off[k - 1]
      <4>1. (k - 1) - d \in Nat
        BY <1>1, <2>3
      <4> QED BY <1>0, <2>6, <2>7, <4>1
    <3>2. g \in Nat /\ h = g + Bytes[w[k]] + 1
      BY <1>0, <2>6, <2>8, <3>1, SMTT(30)
    <3> HIDE DEF g, h
    <3> QED BY <2>8, <3>2
  <2>10. ASSUME NEW i \in g + 1 .. h - 1 PROVE i \notin DOMAIN P
    <3>1. SUFFICES ASSUME i \in DOMAIN P PROVE FALSE
      OBVIOUS
    <3>2. PICK j \in d + 1 .. e : i = off[j] - off[d]
      BY <1>6, <3>1
    <3>3. j \in 0 .. Len(w) /\ j \in Nat
      BY <1>1
    <3>4. off[j] \in Nat
      BY <1>2, <3>3
    <3>5. off[k - 1] < off[j] /\ off[j] < off[k]
      <4>1. \A a \in Nat : \A b \in Nat : \A c \in Nat : \A y \in Nat :
                y - c \in (b - c) + 1 .. (a - c) - 1 => b < y /\ y < a
        OBVIOUS
      <4>2. off[j] - off[d] \in (off[k - 1] - off[d]) + 1 .. (off[k] - off[d]) - 1
        BY <3>2
      <4> QED BY <1>2, <2>6, <3>4, <4>1, <4>2, Zenon
    <3>6. CASE j <= k - 1
      <4>1. off[j] + ((k - 1) - j) <= off[k - 1]
        BY <2>3, <3>3, <3>6, SpansGrow
      <4> QED BY <2>3, <2>6, <3>3, <3>4, <3>5, <3>6, <4>1
    <3>7. CASE k <= j
      <4>1. off[k] + (j - k) <= off[j]
        BY <2>3, <3>3, <3>7, SpansGrow
      <4> QED BY <2>3, <2>6, <3>3, <3>4, <3>5, <3>7, <4>1
    <3> QED BY <2>3, <3>3, <3>6, <3>7
  <2>11. InOrder(P, h - 1) = InOrder(P, g)
    <3> HIDE DEF g, h
    <3> QED BY <2>9, <2>10, InOrderGap
  <2>12. InOrder(P, h) = IF h \in DOMAIN P THEN Append(InOrder(P, h - 1), P[h])
                                           ELSE InOrder(P, h - 1)
    <3> HIDE DEF g, h
    <3> QED BY <2>9, InOrderFacts
  <2>13. /\ h \in DOMAIN P <=> k \in DOMAIN F
         /\ k \in DOMAIN F => P[h] = F[k]
    BY <1>5, <2>3
  <2>14. CASE k \in DOMAIN F
    <3>1. InOrder(F, k) = Append(InOrder(F, d) \o InOrder(P, g), F[k])
      BY <2>4, <2>5, <2>14
    <3>2. InOrder(P, h) = Append(InOrder(P, g), F[k])
      BY <2>11, <2>12, <2>13, <2>14
    <3>3. InOrder(P, g) \in Seq(Lines) /\ F[k] \in Lines
      <4>1. \A i \in DOMAIN P : P[i] \in Lines
        <5>1. ASSUME NEW i \in DOMAIN P PROVE P[i] \in Lines
          <6>1. PICK j \in d + 1 .. e : i = off[j] - off[d]
            BY <1>6
          <6>2. j \in DOMAIN F /\ P[i] = F[j]
            BY <1>5, <6>1
          <6> QED BY <1>1, <6>2 DEF F, Spelled
        <5> QED BY <5>1
      <4>2. F[k] \in Lines
        BY <1>1, <2>14 DEF F, Spelled
      <4> HIDE DEF g
      <4> QED BY <2>9, <4>1, <4>2, InOrderTyped
    <3>4. \A a \in Seq(Lines) : \A b \in Seq(Lines) : \A m \in Lines :
              Append(a \o b, m) = a \o Append(b, m)
      OBVIOUS
    <3> HIDE DEF g, h
    <3>5. Append(InOrder(F, d) \o InOrder(P, g), F[k]) = InOrder(F, d) \o Append(InOrder(P, g), F[k])
      BY <1>7, <3>3, <3>4, Zenon
    <3> QED BY <3>1, <3>2, <3>5, Zenon
  <2>15. CASE k \notin DOMAIN F
    BY <2>4, <2>5, <2>11, <2>12, <2>13, <2>15
  <2> QED BY <2>14, <2>15
<1>10. A = Nat
  <2>1. A \in SUBSET Nat
    OBVIOUS
  <2> HIDE DEF A
  <2> QED BY <1>8, <1>9, <2>1, Induction
<1>11. InOrder(F, e) = InOrder(F, d) \o InOrder(P, off[e] - off[d])
  <2>1. e - d \in Nat /\ d + (e - d) = e /\ e <= e
    BY <1>1
  <2>2. e - d \in A
    BY <1>10, <2>1
  <2> QED BY <2>1, <2>2
<1>12. InOrder(P, Len(s)) = InOrder(P, off[e] - off[d])
  <2>1. off[d] + (e - d) <= off[e]
    BY <1>1, SpansGrow
  <2>2. off[e] <= off[d] + Len(s)
    BY DEF Complete
  <2>3. off[e] - off[d] \in Nat /\ off[e] - off[d] <= Len(s)
    BY <1>1, <1>2, <1>3, <2>1, <2>2
  <2>4. ASSUME NEW i \in (off[e] - off[d]) + 1 .. Len(s) PROVE i \notin DOMAIN P
    <3>1. SUFFICES ASSUME i \in DOMAIN P PROVE FALSE
      OBVIOUS
    <3>2. PICK j \in d + 1 .. e : i = off[j] - off[d]
      BY <1>6, <3>1
    <3>3. j \in 0 .. Len(w) /\ j \in Nat /\ j <= e
      BY <1>1
    <3>4. off[j] + (e - j) <= off[e] /\ off[j] \in Nat
      BY <1>1, <1>2, <3>3, SpansGrow
    <3> QED BY <1>1, <1>2, <1>3, <3>2, <3>3, <3>4
  <2> QED BY <1>3, <2>3, <2>4, InOrderGap
<1> QED BY <1>4, <1>11, <1>12 DEF F

-----------------------------------------------------------------------------
(* One more line *)

\* One more line is written.
Longer(w, off, m) ==
    [k \in 0 .. Len(w) + 1 |-> IF k <= Len(w) THEN off[k] ELSE off[Len(w)] + Bytes[m] + 1]

LEMMA LongerSpans ==
    ASSUME NEW w \in Seq(Lines), NEW off, Spans(w, off), NEW m \in Lines
    PROVE  Spans(Append(w, m), Longer(w, off, m))
<1> DEFINE v == Append(w, m)
           new == Longer(w, off, m)
<1>1. Len(w) \in Nat /\ Bytes[m] \in Nat /\ off[Len(w)] \in Nat
  BY BytesAre DEF Spans
<1>2. Len(v) = Len(w) + 1 /\ v[Len(w) + 1] = m /\ \A k \in 1 .. Len(w) : v[k] = w[k]
  BY <1>1
<1>3. /\ \A k \in 0 .. Len(w) : new[k] = off[k]
      /\ new[Len(w) + 1] = off[Len(w)] + Bytes[m] + 1
      /\ DOMAIN new = 0 .. Len(w) + 1
      /\ new = [k \in 0 .. Len(w) + 1 |-> new[k]]
  BY <1>1 DEF Longer
<1> HIDE DEF v, new
<1>4. new \in [0 .. Len(v) -> Nat]
  <2>1. ASSUME NEW k \in 0 .. Len(w) + 1 PROVE new[k] \in Nat
    <3>1. CASE k \in 0 .. Len(w)
      BY <1>3, <3>1 DEF Spans
    <3>2. CASE k = Len(w) + 1
      BY <1>1, <1>3, <3>2
    <3> QED BY <1>1, <3>1, <3>2
  <2> QED BY <1>2, <1>3, <2>1
<1>5. new[0] = 0
  <2>1. 0 \in 0 .. Len(w)
    BY <1>1
  <2> QED BY <1>3, <2>1 DEF Spans
<1>6. ASSUME NEW k \in 1 .. Len(v) PROVE new[k] = new[k - 1] + Bytes[v[k]] + 1
  <2>1. CASE k \in 1 .. Len(w)
    <3>1. k - 1 \in 0 .. Len(w) /\ k \in 0 .. Len(w)
      BY <1>1, <2>1
    <3> QED BY <1>2, <1>3, <2>1, <3>1 DEF Spans
  <2>2. CASE k = Len(w) + 1
    <3>1. k - 1 = Len(w) /\ Len(w) \in 0 .. Len(w)
      BY <1>1, <2>2
    <3> QED BY <1>2, <1>3, <2>2, <3>1
  <2> QED BY <1>1, <1>2, <2>1, <2>2
<1> QED BY <1>4, <1>5, <1>6 DEF Spans, v, new

LEMMA LongerCarries ==
    ASSUME NEW w \in Seq(Lines), NEW off, Spans(w, off), NEW m \in Lines, NEW q \in Nat, NEW s,
           Carries(s, w, off, q)
    PROVE  Carries(s, Append(w, m), Longer(w, off, m), q)
<1> DEFINE v == Append(w, m)
           new == Longer(w, off, m)
<1>1. Len(w) \in Nat /\ Bytes[m] \in Nat /\ off[Len(w)] \in Nat
  BY BytesAre DEF Spans
<1>2. Len(v) = Len(w) + 1 /\ v[Len(w) + 1] = m /\ \A k \in 1 .. Len(w) : v[k] = w[k]
  BY <1>1
<1>3. /\ \A k \in 0 .. Len(w) : new[k] = off[k]
      /\ new[Len(w) + 1] = off[Len(w)] + Bytes[m] + 1
  BY <1>1 DEF Longer
<1> HIDE DEF v, new
<1>4. s \in Seq(Byte) /\ Len(s) \in Nat /\ DOMAIN s = 1 .. Len(s) /\ q + Len(s) <= off[Len(w)]
  BY DEF Carries
<1>5. q + Len(s) <= new[Len(v)]
  BY <1>1, <1>2, <1>3, <1>4
<1>6. ASSUME NEW k \in 1 .. Len(v)
      PROVE  /\ new[k] - q \in DOMAIN s => s[new[k] - q] = LF
             /\ \A i \in 1 .. Bytes[v[k]] :
                   new[k - 1] + i - q \in DOMAIN s => s[new[k - 1] + i - q] = <<v[k], i>>
  <2>1. CASE k \in 1 .. Len(w)
    <3>1. k - 1 \in 0 .. Len(w) /\ k \in 0 .. Len(w)
      BY <1>1, <2>1
    <3>2. new[k] = off[k] /\ new[k - 1] = off[k - 1] /\ v[k] = w[k]
      BY <1>2, <1>3, <2>1, <3>1
    <3>3. /\ off[k] - q \in DOMAIN s => s[off[k] - q] = LF
          /\ \A i \in 1 .. Bytes[w[k]] :
                off[k - 1] + i - q \in DOMAIN s => s[off[k - 1] + i - q] = <<w[k], i>>
      BY <2>1 DEF Carries
    <3> QED BY <3>2, <3>3
  <2>2. CASE k = Len(w) + 1
    <3>1. k - 1 = Len(w) /\ Len(w) \in 0 .. Len(w)
      BY <1>1, <2>2
    <3>2. new[k] = off[Len(w)] + Bytes[m] + 1 /\ new[k - 1] = off[Len(w)] /\ v[k] = m
      BY <1>2, <1>3, <2>2, <3>1
    <3>3. new[k] - q \notin DOMAIN s
      BY <1>1, <1>4, <3>2
    <3>4. ASSUME NEW i \in 1 .. Bytes[v[k]] PROVE new[k - 1] + i - q \notin DOMAIN s
      BY <1>1, <1>4, <3>2
    <3> QED BY <3>3, <3>4
  <2> QED BY <1>1, <1>2, <2>1, <2>2
<1> QED BY <1>4, <1>5, <1>6 DEF Carries, v, new

LEMMA LongerComplete ==
    ASSUME NEW w \in Seq(Lines), NEW off, Spans(w, off), NEW m \in Lines, NEW q \in Nat,
           q <= off[Len(w)], NEW d, Complete(d, w, off, q)
    PROVE  Complete(d, Append(w, m), Longer(w, off, m), q)
<1> DEFINE v == Append(w, m)
           new == Longer(w, off, m)
<1>1. Len(w) \in Nat /\ Bytes[m] \in Nat /\ off[Len(w)] \in Nat
  BY BytesAre DEF Spans
<1>2. Len(v) = Len(w) + 1
  BY <1>1
<1>3. /\ \A k \in 0 .. Len(w) : new[k] = off[k]
      /\ new[Len(w) + 1] = off[Len(w)] + Bytes[m] + 1
  BY <1>1 DEF Longer
<1> HIDE DEF v, new
<1>4. d \in 0 .. Len(w) /\ off[d] <= q /\ (d < Len(w) => q < off[d + 1])
  BY DEF Complete
<1>5. d \in 0 .. Len(v) /\ new[d] <= q
  BY <1>1, <1>2, <1>3, <1>4
<1>6. q < new[d + 1]
  <2>1. CASE d < Len(w)
    <3>1. d + 1 \in 0 .. Len(w)
      BY <1>1, <1>4, <2>1
    <3> QED BY <1>3, <1>4, <2>1, <3>1
  <2>2. CASE d = Len(w)
    BY <1>1, <1>3, <2>2
  <2> QED BY <1>1, <1>4, <2>1, <2>2
<1> QED BY <1>5, <1>6 DEF Complete, v, new

\* The bytes of the line itself.
LEMMA LineCarries ==
    ASSUME NEW w \in Seq(Lines), NEW off, Spans(w, off), NEW m \in Lines, NEW s \in Seq(Byte),
           Len(s) = Bytes[m] + 1, s[Bytes[m] + 1] = LF,
           \A i \in 1 .. Bytes[m] : s[i] = <<m, i>>
    PROVE  Carries(s, Append(w, m), Longer(w, off, m), off[Len(w)])
<1> DEFINE v == Append(w, m)
           new == Longer(w, off, m)
           q == off[Len(w)]
<1>1. Len(w) \in Nat /\ Bytes[m] \in Nat /\ q \in Nat
  BY BytesAre DEF Spans
<1>2. Len(v) = Len(w) + 1 /\ v[Len(w) + 1] = m /\ \A k \in 1 .. Len(w) : v[k] = w[k]
  BY <1>1
<1>3. /\ \A k \in 0 .. Len(w) : new[k] = off[k]
      /\ new[Len(w) + 1] = q + Bytes[m] + 1
  BY <1>1 DEF Longer
<1>4. ASSUME NEW k \in 0 .. Len(w) PROVE off[k] \in Nat /\ off[k] + (Len(w) - k) <= q
  <2>1. Len(w) \in 0 .. Len(w) /\ k <= Len(w)
    BY <1>1
  <2>2. off[k] + (Len(w) - k) <= off[Len(w)]
    BY <2>1, SpansGrow
  <2>3. off[k] \in Nat
    BY DEF Spans
  <2> QED BY <2>2, <2>3
<1> HIDE DEF v, new, q
<1>5. Len(s) \in Nat /\ DOMAIN s = 1 .. Len(s)
  OBVIOUS
<1>7. q + Len(s) <= new[Len(v)]
  BY <1>1, <1>2, <1>3, <1>5
<1>6. ASSUME NEW k \in 1 .. Len(v)
      PROVE  /\ new[k] - q \in DOMAIN s => s[new[k] - q] = LF
             /\ \A i \in 1 .. Bytes[v[k]] :
                   new[k - 1] + i - q \in DOMAIN s => s[new[k - 1] + i - q] = <<v[k], i>>
  <2>1. CASE k \in 1 .. Len(w)
    <3>1. k - 1 \in 0 .. Len(w) /\ k \in 0 .. Len(w) /\ k \in Nat /\ k <= Len(w)
      BY <1>1, <2>1
    <3>2. new[k] = off[k] /\ new[k - 1] = off[k - 1] /\ v[k] = w[k]
      BY <1>2, <1>3, <2>1, <3>1
    <3>3. off[k] \in Nat /\ off[k - 1] \in Nat /\ off[k] = off[k - 1] + Bytes[w[k]] + 1
      BY <2>1, <3>1 DEF Spans
    <3>4. off[k] <= q
      BY <1>1, <1>4, <3>1, <3>3
    <3>5. Bytes[w[k]] \in Nat
      BY <2>1, BytesAre
    <3>6. new[k] - q \notin DOMAIN s
      BY <1>1, <1>5, <3>2, <3>3, <3>4
    <3>7. ASSUME NEW i \in 1 .. Bytes[v[k]] PROVE new[k - 1] + i - q \notin DOMAIN s
      BY <1>1, <1>5, <3>2, <3>3, <3>4, <3>5, SMTT(30)
    <3> QED BY <3>6, <3>7
  <2>2. CASE k = Len(w) + 1
    <3>1. k - 1 = Len(w) /\ Len(w) \in 0 .. Len(w)
      BY <1>1, <2>2
    <3>2. new[k] = q + Bytes[m] + 1 /\ new[k - 1] = q /\ v[k] = m
      BY <1>2, <1>3, <2>2, <3>1 DEF q
    <3>3. new[k] - q = Bytes[m] + 1
      BY <1>1, <3>2
    <3>4. ASSUME NEW i \in 1 .. Bytes[v[k]] PROVE new[k - 1] + i - q = i
      BY <1>1, <3>2
    <3> QED BY <3>2, <3>3, <3>4
  <2> QED BY <1>1, <1>2, <2>1, <2>2
<1> QED BY <1>5, <1>6, <1>7 DEF Carries, v, new, q

\* The messages of the first lines are what they were.
LEMMA SpelledAgree ==
    ASSUME NEW w \in Seq(Lines), NEW v \in Seq(Lines), NEW d \in 0 .. Len(w), d <= Len(v),
           \A k \in 1 .. d : v[k] = w[k]
    PROVE  InOrder(Spelled(v), d) = InOrder(Spelled(w), d)
<1>1. d \in Nat /\ Len(w) \in Nat /\ Len(v) \in Nat
      /\ DOMAIN w = 1 .. Len(w) /\ DOMAIN v = 1 .. Len(v)
  OBVIOUS
<1>2. ASSUME NEW k \in 1 .. d
      PROVE  /\ k \in DOMAIN Spelled(v) <=> k \in DOMAIN Spelled(w)
             /\ k \in DOMAIN Spelled(v) => Spelled(v)[k] = Spelled(w)[k]
  <2>1. k \in DOMAIN w /\ k \in DOMAIN v
    BY <1>1
  <2> QED BY <2>1 DEF Spelled
<1>3. SameTo(d, Spelled(v), Spelled(w))
  BY <1>2 DEF SameTo
<1> QED BY <1>1, <1>3, InOrderAgree

\* Lines whose line feed was read are those complete within the bytes read.
LEMMA DeliveredIs ==
    ASSUME NEW w \in Seq(Lines), NEW off, Spans(w, off), NEW q \in Nat, NEW s,
           Carries(s, w, off, q), q + Len(s) = off[Len(w)], NEW d, Complete(d, w, off, q)
    PROVE  SubSeq(w, 1, Len(w) - Cardinality(Ends(s))) = SubSeq(w, 1, d)
<1>1. Cardinality(Ends(s)) = Len(w) - d
  BY EndsCount
<1>2. Len(w) - (Len(w) - d) = d
  BY DEF Complete
<1> QED BY <1>1, <1>2

LEMMA FirstAre ==
    ASSUME NEW w \in Seq(Lines), NEW d \in 0 .. Len(w)
    PROVE  /\ SubSeq(w, 1, d) \in Seq(Lines)
           /\ Len(SubSeq(w, 1, d)) = d
           /\ \A k \in 1 .. d : SubSeq(w, 1, d)[k] = w[k]
           /\ Range(SubSeq(w, 1, d)) = {w[k] : k \in 1 .. d}
<1> DEFINE t == SubSeq(w, 1, d)
<1>1. Len(w) \in Nat /\ d \in Nat
  OBVIOUS
<1>2. t \in Seq(Lines) /\ Len(t) = d /\ \A k \in 1 .. d : t[k] = w[k]
  BY <1>1
<1>3. DOMAIN t = 1 .. d
  BY <1>2
<1> HIDE DEF t
<1>4. Range(t) = {w[k] : k \in 1 .. d}
  BY <1>2, <1>3 DEF Range
<1> QED BY <1>2, <1>4 DEF t

LEMMA CleanIs ==
    ASSUME NEW w \in Seq(Lines), NEW off, Spans(w, off), NEW q \in Nat, NEW s,
           Carries(s, w, off, q), q + Len(s) = off[Len(w)], NEW d, Complete(d, w, off, q)
    PROVE  Malformed \cap Range(SubSeq(w, 1, Len(w) - Cardinality(Ends(s)))) = {}
              <=> \A k \in 1 .. d : w[k] \notin Malformed
<1>1. SubSeq(w, 1, Len(w) - Cardinality(Ends(s))) = SubSeq(w, 1, d)
  BY DeliveredIs
<1>2. Range(SubSeq(w, 1, d)) = {w[k] : k \in 1 .. d}
  BY FirstAre DEF Complete
<1>3. Malformed \cap {w[k] : k \in 1 .. d} = {} <=> \A k \in 1 .. d : w[k] \notin Malformed
  OBVIOUS
<1> QED BY <1>1, <1>2, <1>3

-----------------------------------------------------------------------------
(* Framing *)

\* The gateway has read q bytes, and d lines with them.  While all is well the
\* buffer has what follows these lines, and each of them was handled.
Framed(off, q, d) ==
    /\ Spans(written, off)
    /\ q \in Nat
    /\ Complete(d, written, off, q)
    /\ Carries(wire, written, off, q)
    /\ q + Len(wire) = off[Len(written)]
    /\ Clean => /\ Carries(buffer, written, off, off[d])
                /\ off[d] + Len(buffer) = q
                /\ handled = InOrder(Spelled(written), d)

Counted ==
    /\ buffer \in Seq(Byte)
    /\ bufferBytes = Len(buffer)
    /\ poisoned => bufferBytes = 0
    /\ bufferBytes > MaxLineBytes => child # "up" /\ ~Clean

FramingInv ==
    /\ written \in Seq(Lines)
    /\ Counted
    /\ \E off, q, d : Framed(off, q, d)

LEMMA FramedStutter ==
    ASSUME FramingInv, UNCHANGED <<written, wire, decoder, handled>>,
           child # "up" => child' # "up"
    PROVE  FramingInv'
<1>1. UNCHANGED <<written, wire, buffer, bufferBytes, poisoned, handled>>
  BY DEF decoder
<1>2. PICK off, q, d : Framed(off, q, d)
  BY DEF FramingInv
<1>3. Clean' <=> Clean
  BY <1>1 DEF Clean, Delivered
<1>4. Framed(off, q, d)'
  BY <1>1, <1>2, <1>3 DEF Framed
<1>5. Counted'
  BY <1>1, <1>3 DEF FramingInv, Counted
<1>6. \E o, p, e : Framed(o, p, e)'
  BY <1>4
<1> QED BY <1>1, <1>5, <1>6 DEF FramingInv

LEMMA FramedInit == Init => FramingInv
<1> SUFFICES ASSUME Init PROVE FramingInv
  OBVIOUS
<1>1. /\ written = <<>> /\ wire = <<>> /\ buffer = <<>> /\ bufferBytes = 0 /\ handled = <<>>
  BY DEF Init
<1> DEFINE off == [k \in {0} |-> 0]
<1>2. Len(<<>>) = 0 /\ DOMAIN <<>> = {} /\ <<>> \in Seq(Byte) /\ <<>> \in Seq(Lines)
  OBVIOUS
<1>3. off[0] = 0 /\ off \in [0 .. 0 -> Nat]
  <2>1. 0 .. 0 = {0}
    OBVIOUS
  <2> QED BY <2>1
<1> HIDE DEF off
<1>4. 1 .. 0 = {}
  OBVIOUS
<1>5. Spans(<<>>, off)
  BY <1>2, <1>3, <1>4 DEF Spans
<1>6. Complete(0, <<>>, off, 0)
  BY <1>2, <1>3 DEF Complete
<1>7. Carries(<<>>, <<>>, off, 0)
  BY <1>2, <1>3, <1>4 DEF Carries
<1>8. InOrder(Spelled(<<>>), 0) = <<>>
  BY InOrderFacts
<1>9. Framed(off, 0, 0)
  BY <1>1, <1>2, <1>3, <1>5, <1>6, <1>7, <1>8 DEF Framed
<1>10. Counted
  BY <1>1, <1>2, RpcClientAssumption DEF Counted
<1>11. \E o, p, e : Framed(o, p, e)
  BY <1>9
<1> QED BY <1>1, <1>2, <1>10, <1>11 DEF FramingInv

LEMMA FramedWrite ==
    ASSUME FramingInv, NEW m \in Lines, Write(m)
    PROVE  FramingInv'
<1>1. PICK off, q, d : Framed(off, q, d)
  BY DEF FramingInv
<1> DEFINE line == [i \in 1 .. Bytes[m] |-> <<m, i>>] \o <<LF>>
<1>2. /\ written \in Seq(Lines) /\ Spans(written, off) /\ q \in Nat
      /\ Complete(d, written, off, q) /\ Carries(wire, written, off, q)
      /\ q + Len(wire) = off[Len(written)] /\ wire \in Seq(Byte) /\ Len(wire) \in Nat
  BY <1>1 DEF FramingInv, Framed, Carries
<1>3. Bytes[m] \in Nat /\ Len(written) \in Nat /\ off[Len(written)] \in Nat
  BY <1>2, BytesAre DEF Spans
<1>4. /\ written' = Append(written, m)
      /\ UNCHANGED <<child, buffer, bufferBytes, poisoned, handled>>
  BY DEF Write, decoder
<1>5. /\ line \in Seq(Byte) /\ Len(line) = Bytes[m] + 1 /\ line[Bytes[m] + 1] = LF
      /\ \A i \in 1 .. Bytes[m] : line[i] = <<m, i>>
  <2> DEFINE text == [i \in 1 .. Bytes[m] |-> <<m, i>>]
  <2>1. \A i \in 1 .. Bytes[m] : <<m, i>> \in Byte
    BY <1>3 DEF Byte
  <2>2. text \in Seq(Byte) /\ Len(text) = Bytes[m] /\ \A i \in 1 .. Bytes[m] : text[i] = <<m, i>>
    BY <1>3, <2>1
  <2>3. <<LF>> \in Seq(Byte) /\ Len(<<LF>>) = 1 /\ <<LF>>[1] = LF
    BY DEF Byte
  <2> HIDE DEF text
  <2>4. text \o <<LF>> \in Seq(Byte) /\ Len(text \o <<LF>>) = Bytes[m] + 1
        /\ (text \o <<LF>>)[Bytes[m] + 1] = LF
        /\ \A i \in 1 .. Bytes[m] : (text \o <<LF>>)[i] = text[i]
    BY <1>3, <2>2, <2>3
  <2> QED BY <2>2, <2>4 DEF text
<1>6. wire' = wire \o line
  <2> DEFINE text == [i \in 1 .. Bytes[m] |-> <<m, i>>]
  <2>1. text \in Seq(Byte) /\ <<LF>> \in Seq(Byte)
    <3>1. \A i \in 1 .. Bytes[m] : <<m, i>> \in Byte
      BY <1>3 DEF Byte
    <3> QED BY <1>3, <3>1 DEF Byte
  <2>2. wire' = (wire \o text) \o <<LF>>
    BY DEF Write
  <2> HIDE DEF text
  <2>3. (wire \o text) \o <<LF>> = wire \o (text \o <<LF>>)
    BY <1>2, <2>1
  <2> QED BY <2>2, <2>3 DEF text
<1> HIDE DEF line
<1>n. PICK new : new = Longer(written, off, m)
  OBVIOUS
<1>7. written' \in Seq(Lines) /\ Len(written') = Len(written) + 1
      /\ \A k \in 1 .. Len(written) : written'[k] = written[k]
  BY <1>2, <1>4
<1>8. Spans(written', new)
  BY <1>2, <1>4, LongerSpans, <1>n
<1>9. Complete(d, written', new, q)
  <2>1. q <= off[Len(written)]
    BY <1>2, <1>3
  <2> QED BY <1>2, <1>4, <2>1, LongerComplete, <1>n
<1>10. Carries(wire', written', new, q)
  <2>1. Carries(wire, written', new, q)
    BY <1>2, <1>4, LongerCarries, <1>n
  <2>2. Carries(line, written', new, off[Len(written)])
    BY <1>2, <1>4, <1>5, LineCarries, <1>n
  <2>3. Carries(line, written', new, q + Len(wire))
    BY <1>2, <2>2
  <2> QED BY <1>2, <1>6, <1>7, <1>8, <2>1, <2>3, CarriesJoin
<1>11. q + Len(wire') = new[Len(written')]
  <2>1. Len(wire') = Len(wire) + (Bytes[m] + 1)
    BY <1>2, <1>5, <1>6
  <2>2. new[Len(written) + 1] = off[Len(written)] + Bytes[m] + 1
    BY <1>3, <1>n DEF Longer
  <2> QED BY <1>2, <1>3, <1>7, <2>1, <2>2
<1>12. d \in 0 .. Len(written) /\ d \in Nat /\ d <= Len(written')
  BY <1>2, <1>3, <1>7 DEF Complete
<1>13. new[d] = off[d]
  BY <1>3, <1>12, <1>n DEF Longer
<1>14. Clean' => Clean
  <2>1. Malformed \cap Range(Delivered) = {} <=> \A k \in 1 .. d : written[k] \notin Malformed
    BY <1>2, CleanIs DEF Delivered
  <2>2. Malformed \cap Range(Delivered') = {} <=> \A k \in 1 .. d : written'[k] \notin Malformed
    BY <1>2, <1>7, <1>8, <1>9, <1>10, <1>11, CleanIs DEF Delivered
  <2>3. \A k \in 1 .. d : written'[k] = written[k]
    BY <1>7, <1>12
  <2> QED BY <1>4, <2>1, <2>2, <2>3 DEF Clean
<1>15. Clean' => /\ Carries(buffer', written', new, new[d])
                 /\ new[d] + Len(buffer') = q
                 /\ handled' = InOrder(Spelled(written'), d)
  <2>1. SUFFICES ASSUME Clean PROVE /\ Carries(buffer, written', new, new[d])
                                    /\ new[d] + Len(buffer) = q
                                    /\ handled = InOrder(Spelled(written'), d)
    BY <1>4, <1>14
  <2>2. /\ Carries(buffer, written, off, off[d]) /\ off[d] + Len(buffer) = q
        /\ handled = InOrder(Spelled(written), d)
    BY <1>1, <2>1 DEF Framed
  <2>3. off[d] \in Nat
    BY <1>2, <1>12 DEF Spans
  <2>4. Carries(buffer, written', new, off[d])
    BY <1>2, <1>4, <2>2, <2>3, LongerCarries, <1>n
  <2>5. InOrder(Spelled(written'), d) = InOrder(Spelled(written), d)
    BY <1>2, <1>7, <1>12, SpelledAgree
  <2> QED BY <1>13, <2>2, <2>4, <2>5
<1>16. Framed(new, q, d)'
  BY <1>2, <1>8, <1>9, <1>10, <1>11, <1>15 DEF Framed
<1>17. Counted'
  BY <1>4, <1>14 DEF FramingInv, Counted
<1>18. \E o, p, e : Framed(o, p, e)'
  BY <1>16
<1> QED BY <1>7, <1>17, <1>18 DEF FramingInv

\* What push takes out of a chunk is at most what it has.
LEMMA ConsumedIn ==
    ASSUME NEW s \in Seq(Byte)
    PROVE  Consumed(s) \in 0 .. Len(s)
<1>1. Ends(s) \in SUBSET (1 .. Len(s)) /\ Len(s) \in Nat
  BY DEF Ends
<1>2. CASE BadEnds(s) # {}
  <2>1. BadEnds(s) \in SUBSET Nat /\ BadEnds(s) \subseteq 1 .. Len(s)
    BY <1>1 DEF BadEnds
  <2>2. Min(BadEnds(s)) \in BadEnds(s)
    BY <1>2, <2>1, LeastFacts
  <2> QED BY <1>1, <1>2, <2>1, <2>2 DEF Consumed
<1>3. CASE BadEnds(s) = {}
  <2> DEFINE S == {0} \cup Ends(s)
  <2>1. S \in SUBSET Nat /\ S # {} /\ \A x \in S : x <= Len(s)
    BY <1>1
  <2>2. Max(S) \in S
    <3> HIDE DEF S
    <3> QED BY <1>1, <2>1, GreatestFacts
  <2> QED BY <1>1, <1>3, <2>1, <2>2 DEF Consumed
<1> QED BY <1>2, <1>3

\* push: the count stays exact, and only a chunk without a bad line and within
\* the cap leaves things well.
LEMMA PushCounts ==
    ASSUME Counted, ~poisoned, NEW chunk \in Seq(Byte), Push(chunk)
    PROVE  LET all == buffer \o chunk
               c   == Consumed(all)
           IN  /\ buffer' \in Seq(Byte)
               /\ bufferBytes' = Len(buffer')
               /\ poisoned' => bufferBytes' = 0
               /\ bufferBytes' > MaxLineBytes => child' # "up"
               /\ UNCHANGED written
               /\ ~poisoned' /\ BadEnds(all) = {} =>
                     /\ bufferBytes' <= MaxLineBytes
                     /\ buffer' = SubSeq(all, c + 1, Len(all))
                     /\ handled' = handled \o Parsed(all)
<1> DEFINE all == buffer \o chunk
           c   == Consumed(all)
           now == BytesLeft(chunk)
<1>1. /\ all \in Seq(Byte) /\ Len(all) = bufferBytes + Len(chunk)
      /\ bufferBytes \in Nat /\ Len(chunk) \in Nat
  BY DEF Counted
<1>2. c \in 0 .. Len(all)
  <2> HIDE DEF all
  <2> QED BY <1>1, ConsumedIn
<1> HIDE DEF all, c
<1>3. /\ SubSeq(all, c + 1, Len(all)) \in Seq(Byte)
      /\ Len(SubSeq(all, c + 1, Len(all))) = Len(all) - c
  <2>1. Len(all) \in c .. Len(all)
    BY <1>1, <1>2
  <2> QED BY <1>1, <1>2, <2>1, PartIs
<1>4. now = Len(all) - c
  <2>1. Len(SubSeq(all, 1, c)) = c
    <3>1. SubSeq(all, 0 + 1, c) = SubSeq(all, 1, c) /\ c - 0 = c /\ 0 \in 0 .. Len(all)
          /\ c \in 0 .. Len(all)
      BY <1>1, <1>2
    <3> QED BY <1>1, <3>1, PartIs
  <2>2. now = (bufferBytes + ByteLength(chunk)) - ByteLength(SubSeq(all, 1, c))
    BY DEF BytesLeft, all, c
  <2> QED BY <1>1, <1>2, <2>1, <2>2 DEF ByteLength
<1>5. \/ /\ BadEnds(all) # {} /\ buffer' = SubSeq(all, c + 1, Len(all)) /\ bufferBytes' = now
         /\ UNCHANGED poisoned /\ FailFatal
      \/ /\ BadEnds(all) = {} /\ buffer' = <<>> /\ bufferBytes' = 0 /\ poisoned' = TRUE
         /\ FailFatal
      \/ /\ BadEnds(all) = {} /\ now <= MaxLineBytes
         /\ buffer' = SubSeq(all, c + 1, Len(all)) /\ bufferBytes' = now
         /\ UNCHANGED poisoned /\ Handle(Parsed(all))
  BY DEF Push, Keep, all, c
<1>6. UNCHANGED written
  BY <1>5 DEF FailFatal, Handle, process
<1>7. buffer' \in Seq(Byte) /\ bufferBytes' = Len(buffer')
  <2>1. <<>> \in Seq(Byte) /\ Len(<<>>) = 0
    OBVIOUS
  <2> HIDE DEF now
  <2> QED BY <1>3, <1>4, <1>5, <2>1
<1>8. ~poisoned' /\ BadEnds(all) = {} =>
          /\ bufferBytes' <= MaxLineBytes
          /\ buffer' = SubSeq(all, c + 1, Len(all))
          /\ handled' = handled \o Parsed(all)
  <2> HIDE DEF now
  <2> QED BY <1>5 DEF Handle
<1>9. (poisoned' => bufferBytes' = 0) /\ (bufferBytes' > MaxLineBytes => child' # "up")
  <2>1. now \in Int /\ MaxLineBytes \in Nat
    BY <1>1, <1>2, <1>4, RpcClientAssumption
  <2>2. FailFatal => child' # "up"
    BY DEF FailFatal
  <2> HIDE DEF now
  <2> QED BY <1>5, <2>1, <2>2
<1> QED BY <1>6, <1>7, <1>8, <1>9 DEF all, c

LEMMA FramedData ==
    ASSUME FramingInv, Data
    PROVE  FramingInv'
<1>1. PICK off, q, d : Framed(off, q, d)
  BY DEF FramingInv
<1>2. PICK n \in DOMAIN wire :
          /\ wire' = SubSeq(wire, n + 1, Len(wire))
          /\ \/ poisoned /\ UNCHANGED <<process, decoder, client, handled, exits>>
             \/ ~poisoned /\ Push(SubSeq(wire, 1, n))
  BY DEF Data
<1> DEFINE chunk == SubSeq(wire, 1, n)
           all == buffer \o chunk
           c == Consumed(all)
<1>3. /\ written \in Seq(Lines) /\ Spans(written, off) /\ q \in Nat /\ Counted
      /\ Complete(d, written, off, q) /\ Carries(wire, written, off, q)
      /\ q + Len(wire) = off[Len(written)] /\ wire \in Seq(Byte) /\ Len(wire) \in Nat
  BY <1>1 DEF FramingInv, Framed, Carries
<1>4. n \in 0 .. Len(wire) /\ n \in Nat /\ Len(wire) \in n .. Len(wire) /\ 0 \in 0 .. Len(wire)
      /\ q + n \in Nat /\ q <= q + n
  BY <1>3
<1>5. chunk \in Seq(Byte) /\ Len(chunk) = n
  <2>1. SubSeq(wire, 0 + 1, n) = chunk /\ n - 0 = n
    BY <1>4
  <2> QED BY <1>3, <1>4, <2>1, PartIs
<1>6. Carries(chunk, written, off, q)
  <2>1. SubSeq(wire, 0 + 1, n) = chunk /\ q + 0 = q
    BY <1>3, <1>4
  <2> QED BY <1>3, <1>4, <2>1, CarriesPart
<1>7. Carries(wire', written, off, q + n)
  BY <1>2, <1>3, <1>4, CarriesPart
<1>8. Len(wire') = Len(wire) - n
  BY <1>2, <1>3, <1>4, PartIs
<1>9. (q + n) + Len(wire') = off[Len(written)]
  BY <1>3, <1>4, <1>8
<1>10. PICK e \in d .. Len(written) : Complete(e, written, off, q + n)
  BY <1>3, <1>4, CompleteExists
<1>11. d \in 0 .. Len(written) /\ e \in 0 .. Len(written) /\ d <= e /\ Len(written) \in Nat
       /\ d \in Nat /\ e \in Nat
  BY <1>3, <1>10 DEF Complete
<1>12. off[d] \in Nat /\ off[e] \in Nat
  BY <1>3, <1>11 DEF Spans
<1> HIDE DEF chunk, all, c
<1>13. /\ UNCHANGED written /\ buffer' \in Seq(Byte) /\ bufferBytes' = Len(buffer')
       /\ poisoned' => bufferBytes' = 0
       /\ bufferBytes' > MaxLineBytes => child' # "up"
  <2>1. CASE UNCHANGED <<process, decoder, client, handled, exits>>
    <3>1. UNCHANGED <<child, written, buffer, bufferBytes, poisoned>>
      BY <2>1 DEF process, decoder
    <3> QED BY <1>3, <3>1 DEF Counted
  <2>2. CASE ~poisoned /\ Push(chunk)
    BY <1>3, <1>5, <2>2, PushCounts
  <2> QED BY <1>2, <2>1, <2>2 DEF chunk
\* All is well after the step only if it was before, and no line is bad.
<1>14. ASSUME Clean'
       PROVE  /\ Carries(buffer', written, off, off[e])
              /\ off[e] + Len(buffer') = q + n
              /\ handled' = InOrder(Spelled(written), e)
              /\ bufferBytes' <= MaxLineBytes
  <2>1. ~poisoned /\ Push(chunk)
    BY <1>2, <1>14 DEF Clean, chunk, decoder
  <2>2. \A k \in 1 .. e : written[k] \notin Malformed
    <3>1. Malformed \cap Range(Delivered') = {}
              <=> \A k \in 1 .. e : written'[k] \notin Malformed
      BY <1>3, <1>4, <1>7, <1>9, <1>10, <1>13, CleanIs DEF Delivered
    <3> QED BY <1>13, <1>14, <3>1 DEF Clean
  <2>3. Clean
    <3>1. Malformed \cap Range(Delivered) = {} <=> \A k \in 1 .. d : written[k] \notin Malformed
      BY <1>3, CleanIs DEF Delivered
    <3>2. \A k \in 1 .. d : k \in 1 .. e
      BY <1>11
    <3> QED BY <2>1, <2>2, <3>1, <3>2 DEF Clean
  <2>4. /\ Carries(buffer, written, off, off[d]) /\ off[d] + Len(buffer) = q
        /\ handled = InOrder(Spelled(written), d)
    BY <1>1, <2>3 DEF Framed
  <2>5. buffer \in Seq(Byte) /\ Len(buffer) \in Nat
    BY <1>3 DEF Counted
  <2>6. Carries(all, written, off, off[d])
    BY <1>3, <1>6, <1>12, <2>4, CarriesJoin DEF all
  <2>7. Len(all) = Len(buffer) + n /\ Len(all) \in Nat /\ all \in Seq(Byte)
    BY <1>4, <1>5, <2>5, SMTT(30) DEF all
  <2>8. off[d] + Len(all) = q + n
    BY <1>3, <1>4, <1>12, <2>4, <2>5, <2>7
  <2>9. Complete(e, written, off, off[d] + Len(all))
    BY <1>10, <2>8
  <2>10. BadEnds(all) = {}
    <3>1. \A k \in d + 1 .. e : written[k] \notin Malformed
      BY <1>11, <2>2
    <3> QED BY <1>3, <1>11, <2>6, <2>9, <3>1, NoneBad
  <2>11. ~poisoned'
    BY <1>14 DEF Clean
  <2>12. /\ bufferBytes' <= MaxLineBytes
         /\ buffer' = SubSeq(all, c + 1, Len(all))
         /\ handled' = handled \o Parsed(all)
    BY <1>3, <1>5, <2>1, <2>10, <2>11, PushCounts DEF all, c
  <2>13. c = off[e] - off[d]
    BY <1>3, <1>11, <2>6, <2>9, <2>10, ConsumedIs DEF c
  <2>14. c \in 0 .. Len(all) /\ Len(all) \in c .. Len(all)
    <3>1. c \in 0 .. Len(all)
      BY <2>7, ConsumedIn DEF c
    <3> QED BY <2>7, <3>1
  <2>15. off[d] + c = off[e]
    BY <1>12, <2>13
  <2>16. Carries(buffer', written, off, off[e])
    <3>1. Carries(SubSeq(all, c + 1, Len(all)), written, off, off[d] + c)
      BY <1>3, <1>12, <2>6, <2>14, CarriesPart
    <3> QED BY <2>12, <2>15, <3>1
  <2>17. off[e] + Len(buffer') = q + n
    <3>1. Len(buffer') = Len(all) - c
      BY <2>7, <2>12, <2>14, PartIs
    <3> QED BY <1>12, <2>7, <2>8, <2>14, <2>15, <3>1
  <2>18. handled' = InOrder(Spelled(written), e)
    <3>1. InOrder(Spelled(written), e) = InOrder(Spelled(written), d) \o Parsed(all)
      <4>1. written \in Seq(Lines) /\ Spans(written, off) /\ d \in 0 .. Len(written) /\ d <= e
        BY <1>3, <1>11
      <4> QED BY <2>6, <2>9, <4>1, ParsedIs, SMTT(60)
    <3> QED BY <2>4, <2>12, <3>1
  <2> QED BY <2>12, <2>16, <2>17, <2>18
<1>15. Framed(off, q + n, e)'
  BY <1>3, <1>4, <1>7, <1>9, <1>10, <1>13, <1>14 DEF Framed
<1>16. Counted'
  <2>1. bufferBytes' \in Nat /\ MaxLineBytes \in Nat
    BY <1>13, RpcClientAssumption
  <2>2. bufferBytes' > MaxLineBytes => ~Clean'
    BY <1>14, <2>1
  <2> QED BY <1>13, <2>2 DEF Counted
<1>17. \E o, p, x : Framed(o, p, x)'
  BY <1>15
<1> QED BY <1>3, <1>13, <1>16, <1>17 DEF FramingInv

LEMMA FramedStep == FramingInv /\ [Next]_vars => FramingInv'
<1> SUFFICES ASSUME FramingInv, [Next]_vars PROVE FramingInv'
  OBVIOUS
<1>1. ASSUME NEW m \in Chatter, Write(m) PROVE FramingInv'
  BY <1>1, FramedWrite DEF Lines
<1>2. CASE Data
  BY <1>2, FramedData
<1>3. CASE Exit
  BY <1>3, FramedStutter DEF Exit
<1>4. CASE Error
  BY <1>4, FramedStutter DEF Error, SpawnFails, KillFails
<1>5. ASSUME NEW x \in Commands, Send(x) PROVE FramingInv'
  BY <1>5, FramedStutter DEF Send
<1>6. ASSUME NEW x \in Commands, Respond(x) PROVE FramingInv'
  BY <1>6, FramedWrite DEF Respond, Lines
<1>7. ASSUME NEW x \in Commands, Timeout(x) PROVE FramingInv'
  BY <1>7, FramedStutter DEF Timeout, process
<1>8. CASE UNCHANGED vars
  BY <1>8, FramedStutter DEF vars, process
<1>9. CASE Crash
  <2>1. Init'
    BY <1>9, CrashRestarts
  <2> QED BY <2>1, FramedInit, PTL
<1> QED BY <1>1, <1>2, <1>3, <1>4, <1>5, <1>6, <1>7, <1>8, <1>9 DEF Next

LEMMA FramedAlways == Spec => []FramingInv
BY FramedInit, FramedStep, PTL DEF Spec

LEMMA FramedIsExact == FramingInv => FramingIsExact
<1> SUFFICES ASSUME FramingInv, Clean PROVE FramingIsExact
  BY DEF FramingIsExact
<1>1. PICK off, q, d : Framed(off, q, d)
  BY DEF FramingInv
<1>2. /\ written \in Seq(Lines) /\ Spans(written, off) /\ q \in Nat
      /\ Complete(d, written, off, q) /\ Carries(wire, written, off, q)
      /\ q + Len(wire) = off[Len(written)] /\ d \in 0 .. Len(written)
  BY <1>1 DEF FramingInv, Framed, Complete
<1>3. Delivered = SubSeq(written, 1, d)
  BY <1>2, DeliveredIs DEF Delivered
<1>4. Delivered \in Seq(Lines) /\ Len(Delivered) = d /\ \A k \in 1 .. d : Delivered[k] = written[k]
  BY <1>2, <1>3, FirstAre
<1>5. InOrder(Spelled(Delivered), d) = InOrder(Spelled(written), d)
  <2>1. d <= d
    BY <1>2
  <2> QED BY <1>2, <1>4, <2>1, SpelledAgree
<1>6. handled = InOrder(Spelled(Delivered), Len(Delivered))
  BY <1>1, <1>4, <1>5 DEF Framed
<1> QED BY <1>6 DEF FramingIsExact, Spelled

\* However the pipe cuts the bytes, the gateway handles each line once, whole
\* and in order, as long as all of them are JSON and none exceeds the cap.
\* (JsonlDecoder.push)
THEOREM FramedExactly == Spec => []FramingIsExact
BY FramedAlways, FramedIsExact, PTL

\* The byte count is exact, and more than the cap is kept only behind a line that
\* is not JSON, of a process that is being ended.  (JsonlDecoder.push, bufferBytes)
THEOREM BufferBounded == Spec => []BufferIsBounded
<1>1. FramingInv => BufferIsBounded
  <2> SUFFICES ASSUME FramingInv PROVE BufferIsBounded
    OBVIOUS
  <2>1. bufferBytes = Len(buffer) /\ MaxLineBytes \in Nat
    BY RpcClientAssumption DEF FramingInv, Counted
  <2>2. bufferBytes > MaxLineBytes => child # "up" /\ ~poisoned /\ ~Clean
    BY <2>1 DEF FramingInv, Counted
  <2> QED BY <2>1, <2>2 DEF BufferIsBounded, Clean
<1> QED BY <1>1, FramedAlways, PTL

-----------------------------------------------------------------------------
(* Types: also of what the decoder makes of the bytes behind a bad line *)

\* A message that is passed on was all of one line.
LEMMA ParsedTyped ==
    ASSUME NEW s \in Seq(Byte), BadEnds(s) = {}
    PROVE  Parsed(s) \in Seq(Lines \ Malformed)
<1> DEFINE P == [i \in {j \in Ends(s) : ~Blank(LineAt(s, j))} |-> s[i - 1][1]]
<1>1. Parsed(s) = InOrder(P, Len(s)) /\ Len(s) \in Nat
  BY DEF Parsed
<1>2. ASSUME NEW i \in Ends(s), ~Blank(LineAt(s, i)) PROVE s[i - 1][1] \in Lines \ Malformed
  <2> DEFINE S == {0} \cup {j \in Ends(s) : j < i}
             b == Max(S)
             line == LineAt(s, i)
             m == line[1][1]
  <2>1. i \in 1 .. Len(s) /\ Ends(s) \subseteq 1 .. Len(s) /\ i \in Nat
    BY <1>1 DEF Ends
  <2>2. S \in SUBSET Nat /\ S # {} /\ \A x \in S : x <= i
    BY <1>1, <2>1
  <2>3. b \in S /\ \A x \in S : b >= x
    <3> HIDE DEF S
    <3> QED BY <2>1, <2>2, GreatestFacts
  <2>4. b \in Nat /\ b < i /\ b \in 0 .. Len(s) /\ i - 1 \in b .. Len(s)
    <3>1. b \in Nat /\ b < i
      <4> HIDE DEF b
      <4> QED BY <2>1, <2>3
    <3> HIDE DEF b
    <3> QED BY <1>1, <2>1, <3>1
  <2>5. line = SubSeq(s, b + 1, i - 1)
    BY DEF LineAt
  <2>6. Parses(line)
    BY <1>2 DEF BadEnds
  <2> HIDE DEF b, line
  <2>7. /\ line \in Seq(Byte) /\ Len(line) = (i - 1) - b
        /\ \A x \in 1 .. (i - 1) - b : line[x] = s[x + b]
    BY <2>4, <2>5, PartIs
  <2>8. (i - 1) - b \in Nat
    BY <2>4
  <2>9. (i - 1) - b # 0
    <3>1. SUFFICES ASSUME Len(line) = 0 PROVE FALSE
      BY <2>7
    <3>2. line = <<>>
      BY <2>7, <3>1
    <3> QED BY <1>2, <3>2 DEF Blank, line
  <2>10. /\ 1 \in 1 .. (i - 1) - b /\ (i - 1) - b \in 1 .. (i - 1) - b
         /\ ((i - 1) - b) + b = i - 1 /\ 1 + b \in 1 .. Len(s) /\ 1 + b < i
    BY <1>1, <2>1, <2>4, <2>8, <2>9
  <2>11. DOMAIN line = 1 .. (i - 1) - b
    BY <2>7
  <2>12. s[i - 1] = <<m, (i - 1) - b>> /\ m \notin Malformed
    <3>1. line[(i - 1) - b] = <<m, (i - 1) - b>>
      BY <2>6, <2>10, <2>11 DEF Parses
    <3>2. line[(i - 1) - b] = s[i - 1]
      BY <2>7, <2>10
    <3>3. m \notin Malformed
      BY <2>6 DEF Parses
    <3> QED BY <3>1, <3>2, <3>3
  <2>13. s[1 + b] # LF
    <3>1. SUFFICES ASSUME s[1 + b] = LF PROVE FALSE
      OBVIOUS
    <3>2. 1 + b \in S
      BY <2>10, <3>1 DEF Ends
    <3> QED BY <2>3, <2>4, <3>2
  <2>14. s[1 + b] \in Lines \X Nat
    <3>1. s[1 + b] \in Byte
      BY <2>10
    <3> QED BY <2>13, <3>1 DEF Byte
  <2>15. line[1] = s[1 + b]
    BY <2>7, <2>10
  <2>16. m \in Lines
    BY <2>14, <2>15
  <2> HIDE DEF m
  <2>17. s[i - 1][1] = m
    BY <2>12
  <2> QED BY <2>12, <2>16, <2>17
<1>3. \A i \in DOMAIN P : P[i] \in Lines \ Malformed
  BY <1>2
<1> HIDE DEF P
<1> QED BY <1>1, <1>3, InOrderTyped

\* What the client's bookkeeping and the framing do not say.
Rest ==
    /\ failed   \in BOOLEAN
    /\ asked    \subseteq Commands
    /\ poisoned \in BOOLEAN
    /\ pending  \subseteq Commands \ OwnId
    /\ handled  \in Seq(Lines \ Malformed)

LEMMA RestInit == Init => Rest
<1> SUFFICES ASSUME Init PROVE Rest
  OBVIOUS
<1>1. <<>> \in Seq(Lines \ Malformed)
  OBVIOUS
<1> QED BY <1>1 DEF Init, Rest

LEMMA RestData ==
    ASSUME Rest, FramingInv, Data
    PROVE  Rest'
<1>1. CASE UNCHANGED <<process, decoder, client, handled, exits>>
  BY <1>1 DEF Rest, process, decoder, client
<1>2. CASE \E n \in DOMAIN wire : ~poisoned /\ Push(SubSeq(wire, 1, n))
  <2>1. PICK n \in DOMAIN wire : ~poisoned /\ Push(SubSeq(wire, 1, n))
    BY <1>2
  <2> DEFINE all == buffer \o SubSeq(wire, 1, n)
  <2>2. all \in Seq(Byte)
    <3>1. wire \in Seq(Byte) /\ buffer \in Seq(Byte)
      BY DEF FramingInv, Framed, Carries, Counted
    <3>2. n \in Nat /\ n <= Len(wire) /\ Len(wire) \in Nat
      BY <3>1
    <3>3. SubSeq(wire, 1, n) \in Seq(Byte)
      BY <3>1, <3>2
    <3> QED BY <3>1, <3>3
  <2>3. \/ FailFatal /\ poisoned' \in {poisoned, TRUE}
        \/ BadEnds(all) = {} /\ Handle(Parsed(all)) /\ UNCHANGED poisoned
    BY <2>1 DEF Push
  <2> HIDE DEF all
  <2>4. CASE FailFatal /\ poisoned' \in {poisoned, TRUE}
    <3>1. pending' = {} /\ UNCHANGED <<failed, asked, handled>>
      BY <2>4 DEF FailFatal, RejectAll
    <3> QED BY <2>4, <3>1 DEF Rest
  <2>5. CASE BadEnds(all) = {} /\ Handle(Parsed(all)) /\ UNCHANGED poisoned
    <3>1. Parsed(all) \in Seq(Lines \ Malformed)
      BY <2>2, <2>5, ParsedTyped
    <3>2. /\ handled' = handled \o Parsed(all) /\ pending' \subseteq pending
          /\ UNCHANGED <<failed, asked>>
      BY <2>5 DEF Handle, process
    <3>3. handled' \in Seq(Lines \ Malformed)
      BY <3>1, <3>2 DEF Rest
    <3> QED BY <2>5, <3>2, <3>3 DEF Rest
  <2> QED BY <2>3, <2>4, <2>5
<1> QED BY <1>1, <1>2 DEF Data

LEMMA RestStep == Rest /\ FramingInv /\ [Next]_vars => Rest'
<1> SUFFICES ASSUME Rest, FramingInv, [Next]_vars PROVE Rest'
  OBVIOUS
<1>1. ASSUME NEW m, Write(m) PROVE Rest'
  BY <1>1 DEF Write, Rest, decoder, client
<1>2. CASE Data
  BY <1>2, RestData
<1>3. CASE Exit
  <2>1. pending' \in {pending, {}} /\ UNCHANGED <<failed, asked, poisoned, handled>>
    BY <1>3 DEF Exit, Terminate, RejectAll, decoder, client
  <2> QED BY <2>1 DEF Rest
<1>4. CASE Error
  <2>1. pending' \in {pending, {}} /\ failed' = TRUE /\ UNCHANGED <<asked, poisoned, handled>>
    BY <1>4 DEF Error, Terminate, RejectAll, decoder, client
  <2> QED BY <2>1 DEF Rest
<1>5. ASSUME NEW c \in Commands, Send(c) PROVE Rest'
  <2>1. /\ asked' \in {asked, asked \cup {c}}
        /\ pending' = pending \/ (c \notin OwnId /\ pending' = pending \cup {c})
        /\ UNCHANGED <<failed, poisoned, handled>>
    BY <1>5 DEF Send, decoder
  <2> QED BY <2>1 DEF Rest
<1>6. ASSUME NEW c \in Commands, Respond(c) PROVE Rest'
  BY <1>6, <1>1 DEF Respond
<1>7. ASSUME NEW c \in Commands, Timeout(c) PROVE Rest'
  BY <1>7 DEF Timeout, Rest, process, decoder
<1>8. CASE UNCHANGED vars
  BY <1>8 DEF vars, Rest, process, decoder, client
<1>9. CASE Crash
  <2>1. Init'
    BY <1>9, CrashRestarts
  <2> QED BY <2>1, RestInit, PTL
<1> QED BY <1>1, <1>2, <1>3, <1>4, <1>5, <1>6, <1>7, <1>8, <1>9 DEF Next

LEMMA Typed == IInv /\ FramingInv /\ Rest => TypeOK
<1> SUFFICES ASSUME IInv, FramingInv, Rest PROVE TypeOK
  OBVIOUS
<1>1. child \in {"up", "killed", "gone"} /\ timers = pending /\ exits \in Nat
      /\ outcome \in [Commands -> {"unsent", "waiting", "resolved", "rejected"}]
  BY DEF IInv, ClientTyped, EntriesAreOwed, ExitIsReportedOnce
<1>2. /\ written \in Seq(Lines) /\ wire \in Seq(Byte) /\ buffer \in Seq(Byte)
      /\ bufferBytes \in Nat
  BY DEF FramingInv, Framed, Carries, Counted
<1> QED BY <1>1, <1>2 DEF Rest, TypeOK

\* Every variable has its type; of these, that no line that is not JSON ever
\* reaches handle, whatever comes behind a line that made push throw.
\* (JsonlDecoder.push, the data handler)
THEOREM TypeCorrect == Spec => []TypeOK
BY Invariance, FramedAlways, RestInit, RestStep, Typed, PTL DEF Spec
=============================================================================
