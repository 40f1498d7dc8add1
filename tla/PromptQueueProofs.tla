------------------------- MODULE PromptQueueProofs --------------------------
(***************************************************************************)
(* Proofs about PromptQueue, for any sets of users and conversations, any  *)
(* caps and any bound on the queue: rows and statuses agree but for the    *)
(* conversations whose row and status were set apart, and the first slot   *)
(* of a pass goes to the oldest prompt that may have it.                   *)
(***************************************************************************)
EXTENDS PromptQueue, FiniteSetTheorems, WellFoundedInduction, TLAPS

\* A set of numbers that holds 0 and the successor of each member holds all of
\* them: of those it lacked, the least would follow one it holds.
LEMMA Induction ==
    ASSUME NEW A \in SUBSET Nat, 0 \in A, \A n \in A : n + 1 \in A
    PROVE  A = Nat
<1> DEFINE Initials == {1..n : n \in Nat \ A}
<1>1. SUFFICES ASSUME A # Nat PROVE FALSE
  OBVIOUS
<1>2. Initials \subseteq FiniteSubsetsOf(Nat) /\ Initials # {}
  <2>1. \A n \in Nat : 1..n \in SUBSET Nat /\ IsFiniteSet(1..n)
    BY FS_Interval
  <2> QED BY <1>1, <2>1 DEF FiniteSubsetsOf
<1>3. PICK P \in Initials : \A Q \in Initials : <<Q, P>> \notin StrictSubsetOrdering(Nat)
  BY <1>2, WFMin, FS_StrictSubsetOrderingWellFounded
<1>4. PICK n \in Nat \ A : P = 1..n
  OBVIOUS
<1>5. n - 1 \in Nat \ A /\ n \in 1..n /\ n \notin 1..n - 1 /\ 1..n - 1 \subseteq 1..n
  OBVIOUS
<1>6. <<1..n - 1, P>> \in StrictSubsetOrdering(Nat)
  BY <1>4, <1>5 DEF StrictSubsetOrdering
<1>7. 1..n - 1 \in Initials
  BY <1>5
<1> QED BY <1>3, <1>6, <1>7

\* A set of numbers has a least one: without one it would lie above every number.
LEMMA LeastExists ==
    ASSUME NEW S \in SUBSET Nat, S # {}
    PROVE  \E x \in S : \A y \in S : x <= y
<1> DEFINE A == {n \in Nat : \A x \in S : n < x}
<1>1. SUFFICES ASSUME \A x \in S : \E y \in S : ~(x <= y) PROVE FALSE
  OBVIOUS
<1>2. 0 \in A
  BY <1>1
<1>3. ASSUME NEW n \in A PROVE n + 1 \in A
  <2>1. ASSUME NEW x \in S PROVE n + 1 < x
    <3>1. PICK y \in S : ~(x <= y)
      BY <1>1
    <3> QED BY <3>1
  <2> QED BY <2>1
<1>4. A = Nat
  <2>1. A \in SUBSET Nat
    OBVIOUS
  <2> HIDE DEF A
  <2> QED BY <1>2, <1>3, <2>1, Induction
<1>5. PICK x \in S : TRUE
  OBVIOUS
<1>6. x \in A
  BY <1>4
<1> QED BY <1>6

-----------------------------------------------------------------------------
(* Values in the order of their numbers *)

\* The equation of the recursive function in InOrder, up to n.
ValuesTo(g, n, f) ==
    [i \in 0 .. n |->
        IF i = 0 THEN <<>>
        ELSE IF i \in DOMAIN f THEN Append(g[i - 1], f[i]) ELSE g[i - 1]]

LEMMA ValuesAt ==
    ASSUME NEW n \in Nat, NEW f, NEW g, g = ValuesTo(g, n, f)
    PROVE  /\ g[0] = <<>>
           /\ \A i \in Nat : i + 1 <= n =>
                 g[i + 1] = IF i + 1 \in DOMAIN f THEN Append(g[i], f[i + 1]) ELSE g[i]
<1>1. g[0] = <<>>
  <2>1. 0 \in 0 .. n
    OBVIOUS
  <2> QED BY <2>1 DEF ValuesTo
<1>2. ASSUME NEW i \in Nat, i + 1 <= n
      PROVE  g[i + 1] = IF i + 1 \in DOMAIN f THEN Append(g[i], f[i + 1]) ELSE g[i]
  <2>1. i + 1 \in 0 .. n /\ i + 1 # 0 /\ (i + 1) - 1 = i
    BY <1>2
  <2> QED BY <2>1 DEF ValuesTo
<1> QED BY <1>1, <1>2

\* The recursive definition in InOrder has a solution.
LEMMA ValuesDefined == ASSUME NEW f, NEW n \in Nat PROVE \E g : g = ValuesTo(g, n, f)
<1> DEFINE A == {k \in Nat : \E g : g = ValuesTo(g, k, f)}
<1>1. 0 \in A
  <2> DEFINE g == [i \in 0 .. 0 |-> <<>>]
  <2>1. g = ValuesTo(g, 0, f)
    BY DEF ValuesTo
  <2> QED BY <2>1
<1>2. ASSUME NEW k \in A PROVE k + 1 \in A
  <2>1. PICK g : g = ValuesTo(g, k, f)
    OBVIOUS
  <2> DEFINE last == IF k + 1 \in DOMAIN f THEN Append(g[k], f[k + 1]) ELSE g[k]
             h == [i \in 0 .. k + 1 |-> IF i = k + 1 THEN last ELSE g[i]]
  <2>2. k \in Nat
    OBVIOUS
  <2> HIDE DEF A
  <2>3. ASSUME NEW i \in 0 .. k + 1
        PROVE  h[i] = ValuesTo(h, k + 1, f)[i]
    <3>1. CASE i = k + 1
      <4>1. h[k] = g[k]
        BY <2>2
      <4>2. i # 0 /\ i - 1 = k
        BY <2>2, <3>1
      <4> QED BY <3>1, <4>1, <4>2 DEF ValuesTo
    <3>2. CASE i \in 0 .. k
      <4>1. g[i] = IF i = 0 THEN <<>>
                   ELSE IF i \in DOMAIN f THEN Append(g[i - 1], f[i]) ELSE g[i - 1]
        BY <2>1, <3>2 DEF ValuesTo
      <4>2. h[i] = g[i] /\ (i # 0 => h[i - 1] = g[i - 1])
        BY <2>2, <3>2
      <4> QED BY <3>2, <4>1, <4>2 DEF ValuesTo
    <3> QED BY <2>2, <3>1, <3>2
  <2>4. h = ValuesTo(h, k + 1, f)
    BY <2>3 DEF ValuesTo
  <2>5. \E e : e = ValuesTo(e, k + 1, f)
    <3> HIDE DEF h
    <3> QED BY <2>4
  <2>6. k + 1 \in Nat
    BY <2>2
  <2> QED BY <2>5, <2>6, Zenon DEF A
<1>3. n \in A
  <2>1. A \subseteq Nat
    OBVIOUS
  <2> HIDE DEF A
  <2>2. A = Nat
    BY <1>1, <1>2, <2>1, Induction
  <2> QED BY <2>2
<1> QED BY <1>3

LEMMA ValuesAgree ==
    ASSUME NEW f, NEW n \in Nat, NEW g, g = ValuesTo(g, n, f), NEW e, e = ValuesTo(e, n + 1, f)
    PROVE  g[n] = e[n]
<1> DEFINE A == {i \in Nat : i <= n => g[i] = e[i]}
<1>1. 0 \in A
  BY ValuesAt
<1>2. ASSUME NEW i \in A PROVE i + 1 \in A
  <2>1. ASSUME i + 1 <= n PROVE g[i + 1] = e[i + 1]
    <3>1. i \in Nat /\ g[i] = e[i] /\ i + 1 <= n + 1 /\ n + 1 \in Nat
      BY <2>1
    <3>2. g[i + 1] = IF i + 1 \in DOMAIN f THEN Append(g[i], f[i + 1]) ELSE g[i]
      BY <2>1, <3>1, ValuesAt
    <3>3. e[i + 1] = IF i + 1 \in DOMAIN f THEN Append(e[i], f[i + 1]) ELSE e[i]
      BY <3>1, ValuesAt
    <3> QED BY <3>1, <3>2, <3>3
  <2> QED BY <2>1
<1>3. A = Nat
  <2>1. A \in SUBSET Nat
    OBVIOUS
  <2> HIDE DEF A
  <2> QED BY <1>1, <1>2, <2>1, Induction
<1> QED BY <1>3

LEMMA InOrderValues ==
    ASSUME NEW f, NEW n \in Nat
    PROVE  \E g : g = ValuesTo(g, n, f) /\ InOrder(f, n) = g[n]
<1> DEFINE g == CHOOSE e : e = ValuesTo(e, n, f)
<1>1. InOrder(f, n) = g[n]
  BY Zenon DEF InOrder, ValuesTo
<1>2. g = ValuesTo(g, n, f)
  BY ValuesDefined, Zenon
<1> HIDE DEF g
<1> QED BY <1>1, <1>2

LEMMA InOrderFacts ==
    ASSUME NEW f
    PROVE  /\ InOrder(f, 0) = <<>>
           /\ \A n \in Nat :
                 InOrder(f, n + 1) = IF n + 1 \in DOMAIN f THEN Append(InOrder(f, n), f[n + 1])
                                                           ELSE InOrder(f, n)
<1>1. InOrder(f, 0) = <<>>
  BY InOrderValues, ValuesAt
<1>2. ASSUME NEW n \in Nat
      PROVE  InOrder(f, n + 1) = IF n + 1 \in DOMAIN f THEN Append(InOrder(f, n), f[n + 1])
                                                       ELSE InOrder(f, n)
  <2>1. PICK g : g = ValuesTo(g, n, f) /\ InOrder(f, n) = g[n]
    BY InOrderValues
  <2>2. PICK e : e = ValuesTo(e, n + 1, f) /\ InOrder(f, n + 1) = e[n + 1]
    BY InOrderValues
  <2>3. g[n] = e[n]
    BY <2>1, <2>2, ValuesAgree
  <2>4. e[n + 1] = IF n + 1 \in DOMAIN f THEN Append(e[n], f[n + 1]) ELSE e[n]
    BY <2>2, ValuesAt
  <2> QED BY <2>1, <2>2, <2>3, <2>4
<1> QED BY <1>1, <1>2

\* The values keep the order of their places, and none is left out.
Places(r, f, n, pos) ==
    /\ pos \in [1 .. Len(r) -> {i \in DOMAIN f : i <= n}]
    /\ \A k \in 1 .. Len(r) : r[k] = f[pos[k]]
    /\ \A j \in 1 .. Len(r) : \A k \in 1 .. Len(r) : j < k => pos[j] < pos[k]
    /\ \A i \in DOMAIN f : i <= n => \E k \in 1 .. Len(r) : pos[k] = i

LEMMA InOrderPlaces ==
    ASSUME NEW f, NEW S, \A i \in DOMAIN f : i \in Nat \ {0} /\ f[i] \in S, NEW n \in Nat
    PROVE  /\ InOrder(f, n) \in Seq(S)
           /\ \E pos : Places(InOrder(f, n), f, n, pos)
<1> DEFINE A == {m \in Nat : /\ InOrder(f, m) \in Seq(S)
                              /\ \E pos : Places(InOrder(f, m), f, m, pos)}
<1>1. 0 \in A
  <2>1. InOrder(f, 0) = <<>> /\ <<>> \in Seq(S) /\ Len(<<>>) = 0 /\ 1 .. 0 = {}
    BY InOrderFacts
  <2>2. \A i \in DOMAIN f : ~(i <= 0)
    OBVIOUS
  <2> DEFINE pos == [k \in 1 .. 0 |-> 0]
  <2>3. pos \in [1 .. 0 -> {i \in DOMAIN f : i <= 0}]
    BY <2>1
  <2> HIDE DEF pos
  <2>4. Places(InOrder(f, 0), f, 0, pos)
    BY <2>1, <2>2, <2>3 DEF Places
  <2>5. InOrder(f, 0) \in Seq(S) /\ \E p : Places(InOrder(f, 0), f, 0, p)
    BY <2>1, <2>4
  <2> QED BY <2>5
<1>2. ASSUME NEW m \in A PROVE m + 1 \in A
  <2> DEFINE r == InOrder(f, m)
             t == InOrder(f, m + 1)
  <2>1. m \in Nat /\ r \in Seq(S)
    OBVIOUS
  <2>2. PICK pos : Places(r, f, m, pos)
    OBVIOUS
  <2>3. t = IF m + 1 \in DOMAIN f THEN Append(r, f[m + 1]) ELSE r
    BY <2>1, InOrderFacts
  <2> HIDE DEF A, r, t
  <2>4. Len(r) \in Nat
    BY <2>1
  <2>5. \A k \in 1 .. Len(r) : pos[k] \in DOMAIN f /\ pos[k] <= m /\ pos[k] \in Nat
    BY <2>2 DEF Places
  <2>6. CASE m + 1 \in DOMAIN f
    <3> DEFINE new == [k \in 1 .. Len(r) + 1 |-> IF k = Len(r) + 1 THEN m + 1 ELSE pos[k]]
    <3>1. t = Append(r, f[m + 1]) /\ f[m + 1] \in S
      BY <2>3, <2>6
    <3>2. /\ t \in Seq(S) /\ Len(t) = Len(r) + 1 /\ t[Len(r) + 1] = f[m + 1]
          /\ \A k \in 1 .. Len(r) : t[k] = r[k]
      BY <2>1, <3>1
    <3>3. /\ new[Len(r) + 1] = m + 1 /\ \A k \in 1 .. Len(r) : new[k] = pos[k]
          /\ new = [k \in 1 .. Len(r) + 1 |-> new[k]]
      BY <2>4
    <3> HIDE DEF new
    <3>4. \A k \in 1 .. Len(r) + 1 : k \in 1 .. Len(r) \/ k = Len(r) + 1
      BY <2>4
    <3>5. ASSUME NEW k \in 1 .. Len(r) + 1
          PROVE  new[k] \in DOMAIN f /\ new[k] <= m + 1 /\ t[k] = f[new[k]]
      <4>1. CASE k = Len(r) + 1
        <5>1. new[k] = m + 1 /\ t[k] = f[m + 1] /\ m + 1 <= m + 1
          BY <2>1, <3>2, <3>3, <4>1
        <5> QED BY <2>6, <5>1
      <4>2. CASE k \in 1 .. Len(r)
        <5>1. new[k] = pos[k] /\ t[k] = r[k] /\ r[k] = f[pos[k]]
          BY <2>2, <3>2, <3>3, <4>2 DEF Places
        <5> QED BY <2>1, <2>5, <4>2, <5>1
      <4> QED BY <3>4, <4>1, <4>2
    <3>6. ASSUME NEW j \in 1 .. Len(r) + 1, NEW k \in 1 .. Len(r) + 1, j < k
          PROVE  new[j] < new[k]
      <4>1. j \in 1 .. Len(r)
        BY <2>4, <3>6
      <4>2. CASE k = Len(r) + 1
        <5>1. new[j] = pos[j] /\ pos[j] \in Nat /\ pos[j] <= m /\ new[k] = m + 1
          BY <2>5, <3>3, <4>1, <4>2
        <5> QED BY <2>1, <5>1
      <4>3. CASE k \in 1 .. Len(r)
        BY <2>2, <3>3, <3>6, <4>1, <4>3 DEF Places
      <4> QED BY <3>4, <4>2, <4>3
    <3>7. ASSUME NEW i \in DOMAIN f, i <= m + 1 PROVE \E k \in 1 .. Len(r) + 1 : new[k] = i
      <4>1. CASE i = m + 1
        <5>1. Len(r) + 1 \in 1 .. Len(r) + 1
          BY <2>4
        <5> QED BY <3>3, <4>1, <5>1
      <4>2. CASE i # m + 1
        <5>1. i <= m
          BY <2>1, <3>7, <4>2
        <5>2. PICK k \in 1 .. Len(r) : pos[k] = i
          BY <2>2, <5>1 DEF Places
        <5>3. k \in 1 .. Len(r) + 1
          BY <2>4
        <5> QED BY <3>3, <5>2, <5>3
      <4> QED BY <4>1, <4>2
    <3>8. new \in [1 .. Len(t) -> {i \in DOMAIN f : i <= m + 1}]
      BY <3>2, <3>3, <3>5
    <3>9. Places(t, f, m + 1, new)
      BY <3>2, <3>5, <3>6, <3>7, <3>8 DEF Places
    <3> QED BY <2>1, <3>2, <3>9 DEF A, t
  <2>7. CASE m + 1 \notin DOMAIN f
    <3>1. t = r
      BY <2>3, <2>7
    <3>2. \A i \in DOMAIN f : i <= m + 1 <=> i <= m
      <4>1. SUFFICES ASSUME NEW i \in DOMAIN f PROVE i <= m + 1 <=> i <= m
        OBVIOUS
      <4>2. i # m + 1 /\ i \in Nat
        BY <2>7
      <4> QED BY <2>1, <4>2
    <3>3. {i \in DOMAIN f : i <= m + 1} = {i \in DOMAIN f : i <= m}
      BY <3>2
    <3>4. Places(t, f, m + 1, pos)
      BY <2>2, <3>1, <3>2, <3>3 DEF Places
    <3> QED BY <2>1, <3>1, <3>4 DEF A, t
  <2> QED BY <2>6, <2>7
<1>3. A = Nat
  <2>1. A \in SUBSET Nat
    OBVIOUS
  <2> HIDE DEF A
  <2> QED BY <1>1, <1>2, <2>1, Induction
<1> QED BY <1>3

-----------------------------------------------------------------------------
USE PromptQueueAssumption

\* Two rows of one conversation: it is marked, since its row and its status had
\* gone apart before the second was queued.
DoublesAreMarked ==
    \A i \in DOMAIN queue : \A j \in DOMAIN queue :
        i # j /\ queue[i] = queue[j] => queue[i] \in parted

\* Only finitely many conversations have a host.
Hosting == {t \in Threads : host[t] # "none"}

RowInv ==
    /\ TypeOK
    /\ RowsAreAwaited
    /\ DoublesAreMarked
    /\ IsFiniteSet(Hosting)

-----------------------------------------------------------------------------
(* What a step leaves of the queue *)

\* Rows keeps exactly the rows asked for, each of them once.
LEMMA RowsFacts ==
    ASSUME queue \in Seq(Threads), NEW ids \in SUBSET DOMAIN queue
    PROVE  /\ Rows(ids) \in Seq(Threads)
           /\ Range(Rows(ids)) = {queue[i] : i \in ids}
           /\ \A j \in DOMAIN Rows(ids) : \A k \in DOMAIN Rows(ids) : j # k =>
                 \E h \in ids : \E i \in ids :
                    h # i /\ Rows(ids)[j] = queue[h] /\ Rows(ids)[k] = queue[i]
<1> DEFINE f == [i \in ids |-> queue[i]]
           r == Rows(ids)
<1>1. r = InOrder(f, Len(queue))
  BY DEF Rows
<1>2. /\ DOMAIN f = ids
      /\ \A i \in ids : i \in Nat \ {0} /\ i <= Len(queue) /\ f[i] = queue[i] /\ f[i] \in Threads
  OBVIOUS
<1>3. Len(queue) \in Nat
  OBVIOUS
<1> HIDE DEF f, r
<1>4. r \in Seq(Threads) /\ \E pos : Places(r, f, Len(queue), pos)
  BY <1>1, <1>2, <1>3, InOrderPlaces
<1>5. PICK pos : Places(r, f, Len(queue), pos)
  BY <1>4
<1>6. DOMAIN r = 1 .. Len(r) /\ Len(r) \in Nat
  BY <1>4
<1>7. \A k \in DOMAIN r : pos[k] \in ids /\ r[k] = queue[pos[k]]
  BY <1>2, <1>5, <1>6 DEF Places
<1>8. \A i \in ids : \E k \in DOMAIN r : pos[k] = i
  BY <1>2, <1>5, <1>6 DEF Places
<1>9. Range(r) = {queue[i] : i \in ids}
  BY <1>7, <1>8 DEF Range
<1>10. ASSUME NEW j \in DOMAIN r, NEW k \in DOMAIN r, j # k PROVE pos[j] # pos[k]
  <2>1. j < k \/ k < j
    BY <1>6, <1>10
  <2>2. pos[j] < pos[k] \/ pos[k] < pos[j]
    BY <1>5, <1>6, <2>1 DEF Places
  <2>3. pos[j] \in Nat /\ pos[k] \in Nat
    BY <1>2, <1>7
  <2> QED BY <2>2, <2>3
<1>11. ASSUME NEW j \in DOMAIN r, NEW k \in DOMAIN r, j # k
       PROVE  \E h \in ids : \E i \in ids : h # i /\ r[j] = queue[h] /\ r[k] = queue[i]
  BY <1>7, <1>10, <1>11
<1> QED BY <1>4, <1>9, <1>11 DEF r

LEMMA RowsLeft ==
    ASSUME queue \in Seq(Threads), NEW ids \in SUBSET DOMAIN queue, queue' = Rows(ids)
    PROVE  /\ queue' \in Seq(Threads)
           /\ Range(queue') = {queue[i] : i \in ids}
           /\ \A j \in DOMAIN queue' : \A k \in DOMAIN queue' : j # k =>
                 \E h \in ids : \E i \in ids :
                    h # i /\ queue'[j] = queue[h] /\ queue'[k] = queue[i]
<1>1. queue' \in Seq(Threads) /\ Range(queue') = {queue[i] : i \in ids}
  BY RowsFacts
<1>2. ASSUME NEW j \in DOMAIN queue', NEW k \in DOMAIN queue', j # k
      PROVE  \E h \in ids : \E i \in ids : h # i /\ queue'[j] = queue[h] /\ queue'[k] = queue[i]
  BY <1>2, RowsFacts
<1> QED BY <1>1, <1>2

LEMMA QueuedIs == Queued = {queue[i] : i \in DOMAIN queue}
BY DEF Queued, Range

\* Every row of ts goes and the others stay; two rows of one conversation were
\* two rows of it before.
LEMMA WithoutFacts ==
    ASSUME queue \in Seq(Threads), NEW ts, queue' = Without(ts), DoublesAreMarked
    PROVE  /\ queue' \in Seq(Threads)
           /\ Queued' = Queued \ ts
           /\ \A j \in DOMAIN queue' : \A k \in DOMAIN queue' :
                 j # k /\ queue'[j] = queue'[k] => queue'[j] \in parted
<1> DEFINE ids == {i \in DOMAIN queue : queue[i] \notin ts}
<1>1. queue' = Rows(ids) /\ ids \in SUBSET DOMAIN queue
  BY DEF Without
<1>2. /\ queue' \in Seq(Threads)
      /\ Range(queue') = {queue[i] : i \in ids}
      /\ \A j \in DOMAIN queue' : \A k \in DOMAIN queue' : j # k =>
            \E h \in ids : \E i \in ids :
               h # i /\ queue'[j] = queue[h] /\ queue'[k] = queue[i]
  BY <1>1, RowsLeft
<1>3. Queued' = Queued \ ts
  BY <1>2, QueuedIs DEF Queued
<1> HIDE DEF ids
<1>4. ASSUME NEW j \in DOMAIN queue', NEW k \in DOMAIN queue', j # k, queue'[j] = queue'[k]
      PROVE  queue'[j] \in parted
  <2>1. \E h \in ids : \E i \in ids : h # i /\ queue'[j] = queue[h] /\ queue'[k] = queue[i]
    BY <1>2, <1>4
  <2> QED BY <1>1, <1>4, <2>1 DEF DoublesAreMarked
<1> QED BY <1>2, <1>3, <1>4

\* The oldest row of a user with queued work.
LEMMA OldestIs ==
    ASSUME NEW u, RowsOf(u) # {}, queue \in Seq(Threads)
    PROVE  /\ OldestOf(u) \in RowsOf(u)
           /\ \A j \in RowsOf(u) : OldestOf(u) <= j
<1>1. RowsOf(u) \in SUBSET Nat
  BY DEF RowsOf
<1>2. \E i \in RowsOf(u) : \A j \in RowsOf(u) : i <= j
  BY <1>1, LeastExists
<1> QED BY <1>2, Zenon DEF OldestOf

-----------------------------------------------------------------------------
(* Hosts: at most one is added by a step *)

LEMMA HostAdded ==
    ASSUME IsFiniteSet(Hosting), NEW t \in Threads, NEW s, host' = [host EXCEPT ![t] = s],
           host \in [Threads -> HostStates]
    PROVE  IsFiniteSet(Hosting')
<1>1. Hosting' \subseteq Hosting \cup {t}
  BY DEF Hosting
<1>2. IsFiniteSet(Hosting \cup {t})
  BY FS_AddElement
<1> QED BY <1>1, <1>2, FS_Subset

LEMMA HostsKilled ==
    ASSUME IsFiniteSet(Hosting), NEW ts, KillHosts(ts), host \in [Threads -> HostStates]
    PROVE  IsFiniteSet(Hosting') /\ host' \in [Threads -> HostStates]
<1>1. Hosting' \subseteq Hosting
  BY DEF Hosting, KillHosts, Live
<1>2. host' \in [Threads -> HostStates]
  BY DEF KillHosts, HostStates
<1> QED BY <1>1, <1>2, FS_Subset

-----------------------------------------------------------------------------
(* Rows and statuses *)

Agree == RowsAreAwaited /\ DoublesAreMarked

LEMMA RowsKept ==
    ASSUME Agree, UNCHANGED <<queue, status, parted>>
    PROVE  Agree'
BY DEF Agree, RowsAreAwaited, DoublesAreMarked, Queued

\* A step may set row and status apart, and leave or make two rows, only of the
\* conversations that it marks or that had a mark.
LEMMA Marked ==
    ASSUME TypeOK, NEW ts \in SUBSET Threads, Mark(ts),
           \A t \in Threads \ (parted \cup ts) : status'[t] = "queued" <=> t \in Queued',
           \A j \in DOMAIN queue' : \A k \in DOMAIN queue' :
              j # k /\ queue'[j] = queue'[k] => queue'[j] \in parted \cup ts
    PROVE  Agree' /\ parted' \in SUBSET Threads
<1>1. parted' = {t \in parted \cup ts : t \in Queued' \/ status'[t] = "queued"}
  BY DEF Mark, Queued
<1>2. RowsAreAwaited'
  <2>1. ASSUME NEW t \in Threads, t \notin parted' PROVE status'[t] = "queued" <=> t \in Queued'
    <3>1. CASE t \in parted \cup ts
      BY <1>1, <2>1, <3>1
    <3>2. CASE t \notin parted \cup ts
      BY <3>2
    <3> QED BY <3>1, <3>2
  <2> QED BY <2>1 DEF RowsAreAwaited
<1>3. DoublesAreMarked'
  <2>1. ASSUME NEW j \in DOMAIN queue', NEW k \in DOMAIN queue', j # k, queue'[j] = queue'[k]
        PROVE  queue'[j] \in parted'
    <3>1. queue'[j] \in parted \cup ts
      BY <2>1
    <3>2. queue'[j] \in Queued'
      BY DEF Queued, Range
    <3> QED BY <1>1, <3>1, <3>2
  <2> QED BY <2>1 DEF DoublesAreMarked
<1>4. parted' \in SUBSET Threads
  BY <1>1 DEF TypeOK
<1> QED BY <1>2, <1>3, <1>4 DEF Agree

\* The queue stays, and only conversations with a mark get another status.
LEMMA StatusSet ==
    ASSUME Agree, TypeOK, UNCHANGED queue, NEW ts \in SUBSET Threads, Mark(ts),
           \A t \in Threads \ ts : status'[t] = status[t]
    PROVE  Agree' /\ parted' \in SUBSET Threads
<1>1. Queued' = Queued
  BY DEF Queued
<1>2. \A t \in Threads \ (parted \cup ts) : status'[t] = "queued" <=> t \in Queued'
  BY <1>1 DEF Agree, RowsAreAwaited
<1>3. \A j \in DOMAIN queue' : \A k \in DOMAIN queue' :
         j # k /\ queue'[j] = queue'[k] => queue'[j] \in parted \cup ts
  BY DEF Agree, DoublesAreMarked
<1> QED BY <1>2, <1>3, Marked

\* The rows of ts go with the status of those who waited for them.
LEMMA RowsDropped ==
    ASSUME Agree, TypeOK, NEW ts, queue' = Without(ts), Mark({}),
           \A u \in Threads : status'[u] = "queued" => status[u] = "queued" /\ u \notin ts,
           \A u \in Threads \ ts : status'[u] = status[u]
    PROVE  Agree' /\ queue' \in Seq(Threads) /\ parted' \in SUBSET Threads
<1>1. /\ queue' \in Seq(Threads)
      /\ Queued' = Queued \ ts
      /\ \A j \in DOMAIN queue' : \A k \in DOMAIN queue' :
            j # k /\ queue'[j] = queue'[k] => queue'[j] \in parted
  BY WithoutFacts DEF Agree, TypeOK
<1>2. \A t \in Threads \ (parted \cup {}) : status'[t] = "queued" <=> t \in Queued'
  <2>1. ASSUME NEW t \in Threads \ parted PROVE status'[t] = "queued" <=> t \in Queued'
    <3>1. status[t] = "queued" <=> t \in Queued
      BY DEF Agree, RowsAreAwaited
    <3>2. CASE t \in ts
      BY <1>1, <3>2
    <3>3. CASE t \notin ts
      BY <1>1, <3>1, <3>3
    <3> QED BY <3>2, <3>3
  <2> QED BY <2>1
<1>3. \A j \in DOMAIN queue' : \A k \in DOMAIN queue' :
         j # k /\ queue'[j] = queue'[k] => queue'[j] \in parted \cup {}
  BY <1>1
<1>4. {} \in SUBSET Threads
  OBVIOUS
<1>5. Agree' /\ parted' \in SUBSET Threads
  BY <1>2, <1>3, <1>4, Marked
<1> QED BY <1>1, <1>5

LEMMA FailedStep ==
    ASSUME Agree, TypeOK, UNCHANGED queue, NEW t \in Threads, Failed(t)
    PROVE  Agree' /\ status' \in [Threads -> Statuses] /\ parted' \in SUBSET Threads
<1>1. PICK s \in Reviewed(t) : status' = [status EXCEPT ![t] = s]
  BY DEF Failed
<1>2. s \in Statuses
  BY DEF Reviewed, Statuses
<1>3. Mark({t}) /\ {t} \in SUBSET Threads
  BY DEF Failed
<1>4. \A u \in Threads \ {t} : status'[u] = status[u]
  BY <1>1 DEF TypeOK
<1>5. Agree' /\ parted' \in SUBSET Threads
  BY <1>3, <1>4, StatusSet
<1> QED BY <1>1, <1>2, <1>5 DEF TypeOK

LEMMA BreaksStep ==
    ASSUME Agree, TypeOK, UNCHANGED queue, NEW t \in Threads, Breaks(t)
    PROVE  Agree' /\ status' \in [Threads -> Statuses] /\ parted' \in SUBSET Threads
<1>1. CASE Failed(t)
  BY <1>1, FailedStep
<1>2. CASE UNCHANGED <<status, parted>>
  BY <1>2, RowsKept DEF TypeOK
<1> QED BY <1>1, <1>2 DEF Breaks

\* A prompt's start leaves at most one host more.
LEMMA TurnTaken ==
    ASSUME TypeOK, IsFiniteSet(Hosting), NEW t \in Threads, Begins(t) \/ Owes(t) \/ Fails(t)
    PROVE  host' \in [Threads -> HostStates] /\ owed' \in SUBSET Threads /\ IsFiniteSet(Hosting')
<1>1. CASE Begins(t)
  <2>1. host' = [host EXCEPT ![t] = "streaming"] /\ owed' = owed
    BY <1>1 DEF Begins
  <2>2. IsFiniteSet(Hosting')
    BY <2>1, HostAdded DEF TypeOK
  <2> QED BY <2>1, <2>2 DEF TypeOK, HostStates
<1>2. CASE host' = host /\ owed' \in SUBSET Threads
  BY <1>2 DEF TypeOK, Hosting
<1>3. CASE Owes(t) \/ Fails(t)
  BY <1>2, <1>3 DEF Owes, Fails, TypeOK
<1> QED BY <1>1, <1>3

-----------------------------------------------------------------------------
(* RowInv is inductive *)

LEMMA RoutesStep ==
    ASSUME RowInv, NEW t \in Threads, Prompt(t) \/ Enqueue(t) \/ Execute(t) \/ Merge(t)
    PROVE  RowInv'
<1> USE DEF RowInv, Agree
<1>1. CASE Prompt(t)
  <2>1. host' \in [Threads -> HostStates] /\ owed' \in SUBSET Threads /\ IsFiniteSet(Hosting')
    BY <1>1, TurnTaken DEF Prompt
  <2>2. Agree'
    BY <1>1, RowsKept DEF Prompt
  <2> QED BY <1>1, <2>1, <2>2 DEF Prompt, TypeOK
<1>2. CASE Execute(t)
  <2>1. /\ UNCHANGED <<queue, todo>> /\ taken' = NoThread /\ Mark({t})
        /\ status' = [status EXCEPT ![t] = "open"]
        /\ Begins(t) \/ Owes(t) \/ Fails(t) \/ UNCHANGED <<host, owed>>
    BY <1>2 DEF Execute, Starts, Halts
  <2>2. host' \in [Threads -> HostStates] /\ owed' \in SUBSET Threads /\ IsFiniteSet(Hosting')
    <3>1. CASE Begins(t) \/ Owes(t) \/ Fails(t)
      BY <3>1, TurnTaken
    <3>2. CASE UNCHANGED <<host, owed>>
      BY <3>2 DEF TypeOK, Hosting
    <3> QED BY <2>1, <3>1, <3>2
  <2>3. status' \in [Threads -> Statuses] /\ \A u \in Threads \ {t} : status'[u] = status[u]
    BY <2>1 DEF TypeOK, Statuses
  <2>4. Agree' /\ parted' \in SUBSET Threads
    <3>1. {t} \in SUBSET Threads /\ UNCHANGED queue
      BY <2>1
    <3> QED BY <2>1, <2>3, <3>1, StatusSet
  <2> QED BY <2>1, <2>2, <2>3, <2>4 DEF TypeOK
<1>3. CASE Merge(t)
  <2>1. /\ status[t] = "open" /\ status' = [status EXCEPT ![t] = "closed"]
        /\ taken' = NoThread /\ UNCHANGED <<queue, host, owed, todo, parted>>
    BY <1>3 DEF Merge
  <2>2. \A u \in Threads : status'[u] = "queued" <=> status[u] = "queued"
    BY <2>1 DEF TypeOK
  <2>3. Agree'
    BY <2>1, <2>2 DEF RowsAreAwaited, DoublesAreMarked, Queued
  <2>4. status' \in [Threads -> Statuses]
    BY <2>1 DEF TypeOK, Statuses
  <2> QED BY <2>1, <2>3, <2>4 DEF TypeOK, Hosting
<1>4. CASE Enqueue(t)
  <2>1. /\ status[t] # "queued" /\ queue' = Append(queue, t) /\ taken' = NoThread
        /\ UNCHANGED <<host, owed, todo>>
        /\ \/ status' = [status EXCEPT ![t] = "queued"] /\ UNCHANGED parted
           \/ UNCHANGED status /\ Mark({t})
    BY <1>4 DEF Enqueue
  <2>2. queue \in Seq(Threads)
    BY DEF TypeOK
  <2>3. /\ queue' \in Seq(Threads)
        /\ \A i \in DOMAIN queue' :
              \/ i \in DOMAIN queue /\ queue'[i] = queue[i]
              \/ i = Len(queue) + 1 /\ queue'[i] = t
        /\ \A i \in DOMAIN queue : i \in DOMAIN queue' /\ queue'[i] = queue[i]
        /\ Len(queue) + 1 \in DOMAIN queue' /\ queue'[Len(queue) + 1] = t
    BY <2>1, <2>2
  <2>4. Queued' = Queued \cup {t}
    BY <2>3 DEF Queued, Range
  <2>5. t \in Queued => t \in parted
    BY <2>1 DEF RowsAreAwaited
  <2>6. ASSUME NEW i \in DOMAIN queue', NEW j \in DOMAIN queue', i # j, queue'[i] = queue'[j]
        PROVE  queue'[i] \in parted
    <3>1. CASE i \in DOMAIN queue /\ j \in DOMAIN queue
      BY <2>3, <2>6, <3>1 DEF DoublesAreMarked
    <3>2. CASE i \notin DOMAIN queue \/ j \notin DOMAIN queue
      <4>1. queue'[i] = t /\ t \in Queued
        BY <2>3, <2>6, <3>2, QueuedIs
      <4> QED BY <2>5, <4>1
    <3> QED BY <3>1, <3>2
  <2>7. CASE status' = [status EXCEPT ![t] = "queued"] /\ UNCHANGED parted
    <3>1. \A u \in Threads : status'[u] = IF u = t THEN "queued" ELSE status[u]
      BY <2>7 DEF TypeOK
    <3>2. RowsAreAwaited'
      BY <2>4, <2>7, <3>1 DEF RowsAreAwaited
    <3>3. DoublesAreMarked'
      BY <2>6, <2>7 DEF DoublesAreMarked
    <3>4. status' \in [Threads -> Statuses]
      BY <2>7 DEF TypeOK, Statuses
    <3> QED BY <2>1, <2>3, <2>7, <3>2, <3>3, <3>4 DEF TypeOK, Hosting
  <2>8. CASE UNCHANGED status /\ Mark({t})
    <3>1. \A u \in Threads \ (parted \cup {t}) : status'[u] = "queued" <=> u \in Queued'
      BY <2>4, <2>8 DEF RowsAreAwaited
    <3>2. \A i \in DOMAIN queue' : \A j \in DOMAIN queue' :
             i # j /\ queue'[i] = queue'[j] => queue'[i] \in parted \cup {t}
      BY <2>6
    <3>3. {t} \in SUBSET Threads
      OBVIOUS
    <3>4. Agree' /\ parted' \in SUBSET Threads
      BY <2>8, <3>1, <3>2, <3>3, Marked
    <3> QED BY <2>1, <2>3, <2>8, <3>4 DEF TypeOK, Hosting
  <2> QED BY <2>1, <2>7, <2>8
<1> QED BY <1>1, <1>2, <1>3, <1>4

\* Threads of ws end, hosts are killed, and the rows of ts go; or no row goes, and
\* ws is marked.
LEMMA RemovalStep ==
    ASSUME RowInv, UNCHANGED <<owed, todo>>, taken' = NoThread,
           NEW ks, KillHosts(ks),
           NEW ts \in SUBSET Threads,
           NEW ws \in SUBSET Threads, NEW s \in {"closed", "deleted"},
           status' = [t \in Threads |-> IF t \in ws THEN s ELSE status[t]],
           \/ /\ queue' = Without(ts) /\ Mark({})
              /\ ws \subseteq ts /\ \A t \in ts : status[t] = "queued" => t \in ws
           \/ UNCHANGED queue /\ Mark(ws)
    PROVE  RowInv'
<1> USE DEF RowInv, Agree
<1>1. status' \in [Threads -> Statuses]
  BY DEF TypeOK, Statuses
<1>2. IsFiniteSet(Hosting') /\ host' \in [Threads -> HostStates]
  BY HostsKilled DEF TypeOK
<1>3. Agree' /\ queue' \in Seq(Threads) /\ parted' \in SUBSET Threads
  <2>1. CASE /\ queue' = Without(ts) /\ Mark({})
             /\ ws \subseteq ts /\ \A t \in ts : status[t] = "queued" => t \in ws
    <3>1. \A u \in Threads : status'[u] = "queued" => status[u] = "queued" /\ u \notin ts
      BY <2>1
    <3>2. \A u \in Threads \ ts : status'[u] = status[u]
      BY <2>1
    <3> QED BY <2>1, <3>1, <3>2, RowsDropped
  <2>2. CASE UNCHANGED queue /\ Mark(ws)
    <3>1. \A u \in Threads \ ws : status'[u] = status[u]
      OBVIOUS
    <3> QED BY <2>2, <3>1, StatusSet DEF TypeOK
  <2> QED BY <2>1, <2>2
<1> QED BY <1>1, <1>2, <1>3 DEF TypeOK

LEMMA EndsStep ==
    ASSUME RowInv, NEW t \in Threads, NEW s \in {"closed", "deleted"}, Ends(t, s)
    PROVE  RowInv'
<1>1. status' = [u \in Threads |-> IF u \in {t} THEN s ELSE status[u]]
  BY DEF Ends, RowInv, TypeOK
<1>2. /\ KillHosts({t}) /\ UNCHANGED <<owed, todo>> /\ taken' = NoThread
      /\ (queue' = Without({t}) /\ Mark({})) \/ (UNCHANGED queue /\ Mark({t}))
  BY DEF Ends
<1>3. /\ {t} \in SUBSET Threads /\ {t} \subseteq {t}
      /\ \A u \in {t} : status[u] = "queued" => u \in {t}
  OBVIOUS
<1> HIDE DEF RowInv, KillHosts, Without, Mark
<1> QED BY <1>1, <1>2, <1>3, RemovalStep

LEMMA AbandonStep ==
    ASSUME RowInv, NEW t \in Threads, Abandon(t) \/ Delete(t)
    PROVE  RowInv'
<1>1. CASE Ends(t, "closed") \/ Ends(t, "deleted")
  BY <1>1, EndsStep
<1>2. CASE ~(Ends(t, "closed") \/ Ends(t, "deleted"))
  <2>1. /\ status' = [status EXCEPT ![t] = "closed"] /\ Mark({t})
        /\ UNCHANGED <<queue, host, owed, todo>> /\ taken' = NoThread
    BY <1>2 DEF Abandon, Delete
  <2>2. status' \in [Threads -> Statuses] /\ \A u \in Threads \ {t} : status'[u] = status[u]
    BY <2>1 DEF RowInv, TypeOK, Statuses
  <2>3. {t} \in SUBSET Threads /\ UNCHANGED queue
    BY <2>1
  <2>4. Agree' /\ parted' \in SUBSET Threads
    BY <2>1, <2>2, <2>3, StatusSet DEF RowInv, Agree
  <2> QED BY <2>1, <2>2, <2>4 DEF RowInv, Agree, TypeOK, Hosting
<1> QED BY <1>1, <1>2

LEMMA KillAllStep ==
    ASSUME RowInv, NEW u \in Users, KillAll(u)
    PROVE  RowInv'
<1> DEFINE mine   == {t \in Threads : OwnerOf[t] = u}
           doomed == {t \in mine : Present(t) /\ (host[t] = "streaming" \/ status[t] = "queued")}
<1>1. PICK ws \in SUBSET mine, ks \in SUBSET mine :
         /\ KillHosts(ks)
         /\ status' = [t \in Threads |-> IF t \in ws THEN "closed" ELSE status[t]]
         /\ \/ doomed \subseteq ws /\ queue' = Without(mine) /\ Mark({})
            \/ UNCHANGED queue /\ Mark(ws)
  BY DEF KillAll
<1>2. UNCHANGED <<owed, todo>> /\ taken' = NoThread
  BY DEF KillAll
<1>3. doomed \subseteq ws => \A t \in mine : status[t] = "queued" => t \in ws
  BY DEF Present
<1>4. /\ mine \in SUBSET Threads /\ ws \in SUBSET Threads /\ ws \subseteq mine
      /\ "closed" \in {"closed", "deleted"}
  OBVIOUS
<1> HIDE DEF mine, doomed
<1>5. CASE doomed \subseteq ws /\ queue' = Without(mine) /\ Mark({})
  BY <1>1, <1>2, <1>3, <1>4, <1>5, RemovalStep
<1>6. CASE UNCHANGED queue /\ Mark(ws)
  BY <1>1, <1>2, <1>4, <1>6, RemovalStep
<1> QED BY <1>1, <1>5, <1>6

LEMMA HostsStep ==
    ASSUME RowInv, NEW t \in Threads, TurnEnds(t) \/ Reap(t) \/ Crash(t) \/ HostGone(t)
    PROVE  RowInv'
<1> USE DEF RowInv, Agree
<1>1. PICK s \in HostStates : host' = [host EXCEPT ![t] = s]
  BY DEF TurnEnds, Reap, Crash, HostGone, HostStates
<1>2. host' \in [Threads -> HostStates] /\ IsFiniteSet(Hosting')
  BY <1>1, HostAdded DEF TypeOK
<1>3. UNCHANGED <<queue, todo>> /\ taken' = NoThread /\ owed' \in SUBSET Threads
  BY DEF TurnEnds, Reap, Crash, HostGone, TypeOK
<1>4. ASSUME TurnEnds(t)
      PROVE  Agree' /\ status' \in [Threads -> Statuses] /\ parted' \in SUBSET Threads
  <2>1. CASE Failed(t)
    BY <1>3, <2>1, FailedStep
  <2>2. CASE UNCHANGED <<status, parted>>
    BY <1>3, <2>2, RowsKept DEF TypeOK
  <2> QED BY <1>4, <2>1, <2>2 DEF TurnEnds
<1>5. ASSUME Reap(t)
      PROVE  Agree' /\ status' \in [Threads -> Statuses] /\ parted' \in SUBSET Threads
  BY <1>5, RowsKept DEF Reap, TypeOK
<1>6. ASSUME Crash(t) \/ HostGone(t)
      PROVE  Agree' /\ status' \in [Threads -> Statuses] /\ parted' \in SUBSET Threads
  BY <1>3, <1>6, BreaksStep DEF Crash, HostGone
<1> QED BY <1>2, <1>3, <1>4, <1>5, <1>6 DEF TypeOK

LEMMA RestartStep == ASSUME RowInv, Restart PROVE RowInv'
<1> USE DEF RowInv, Agree, Restart
<1>1. Agree'
  BY RowsKept
<1>2. Hosting' = {}
  BY DEF Hosting
<1>3. IsFiniteSet(Hosting')
  BY <1>2, FS_EmptySet
<1> QED BY <1>1, <1>3 DEF TypeOK, HostStates

\* A pass visits the users with queued work, by their oldest rows.
LEMMA ListingFacts ==
    ASSUME TypeOK
    PROVE  /\ Listing \in Seq(Users)
           /\ \A u \in Users : RowsOf(u) # {} => u \in Range(Listing)
           /\ \A j \in DOMAIN Listing : \A k \in DOMAIN Listing :
                 j < k => OldestOf(Listing[j]) < OldestOf(Listing[k])
<1> DEFINE ids == {OldestOf(u) : u \in Waiting}
           f == [i \in ids |-> OwnerOf[queue[i]]]
<1>1. Listing = InOrder(f, Len(queue))
  BY DEF Listing
<1>2. queue \in Seq(Threads) /\ Len(queue) \in Nat /\ DOMAIN queue = 1 .. Len(queue)
  BY DEF TypeOK
<1>3. ASSUME NEW u \in Waiting
      PROVE  OldestOf(u) \in DOMAIN queue /\ OwnerOf[queue[OldestOf(u)]] = u
  BY <1>2, OldestIs DEF Waiting, RowsOf
<1>4. ASSUME NEW i \in ids
      PROVE  i \in Nat \ {0} /\ i <= Len(queue) /\ f[i] \in Users /\ OldestOf(f[i]) = i
  <2>1. PICK u \in Waiting : i = OldestOf(u)
    OBVIOUS
  <2>2. i \in DOMAIN queue /\ f[i] = u
    BY <1>3, <2>1
  <2> QED BY <1>2, <2>1, <2>2 DEF Waiting
<1>5. DOMAIN f = ids
  OBVIOUS
<1>6. \A u \in Waiting : OldestOf(u) \in ids /\ f[OldestOf(u)] = u
  BY <1>3
<1> DEFINE r == Listing
<1> HIDE DEF f, ids, r
<1>7. r \in Seq(Users) /\ \E pos : Places(r, f, Len(queue), pos)
  BY <1>1, <1>2, <1>4, <1>5, InOrderPlaces DEF r
<1>8. PICK pos : Places(r, f, Len(queue), pos)
  BY <1>7
<1>9. DOMAIN r = 1 .. Len(r)
  BY <1>7
<1>10. \A k \in DOMAIN r : pos[k] \in ids /\ r[k] = f[pos[k]]
  BY <1>5, <1>8, <1>9 DEF Places
<1>11. ASSUME NEW u \in Users, RowsOf(u) # {} PROVE u \in Range(r)
  <2>1. u \in Waiting
    BY <1>11 DEF Waiting
  <2>2. OldestOf(u) \in ids /\ f[OldestOf(u)] = u
    BY <1>6, <2>1
  <2>3. OldestOf(u) <= Len(queue)
    BY <1>4, <2>2
  <2>4. \E k \in 1 .. Len(r) : pos[k] = OldestOf(u)
    BY <1>5, <1>8, <2>2, <2>3 DEF Places
  <2> QED BY <1>9, <1>10, <2>2, <2>4 DEF Range
<1>12. ASSUME NEW j \in DOMAIN r, NEW k \in DOMAIN r, j < k
       PROVE  OldestOf(r[j]) < OldestOf(r[k])
  <2>1. pos[j] < pos[k]
    BY <1>8, <1>9, <1>12 DEF Places
  <2>2. OldestOf(r[j]) = pos[j] /\ OldestOf(r[k]) = pos[k]
    BY <1>4, <1>10
  <2> QED BY <2>1, <2>2
<1> QED BY <1>7, <1>11, <1>12 DEF r

LEMMA StartPassStep == ASSUME RowInv, StartPass PROVE RowInv'
<1> USE DEF RowInv, Agree, StartPass
<1>1. Agree'
  BY RowsKept
<1>2. todo' \in Seq(Users)
  BY ListingFacts
<1> QED BY <1>1, <1>2 DEF TypeOK, Hosting

\* A prompt is dequeued: its turn starts, its thread is gone, or the pass breaks
\* off.  Of the rows of its conversation only the marked ones are left.
LEMMA TakeOneStep ==
    ASSUME RowInv, NEW u, RowsOf(u) # {}, TakeOne(u)
    PROVE  /\ RowInv'
           /\ taken' = queue[OldestOf(u)] /\ taken' \in Threads /\ OwnerOf[taken'] = u
           /\ Range(queue') \subseteq Range(queue)
           /\ \/ UNCHANGED todo /\ Present(taken') /\ Starts(taken')
              \/ UNCHANGED <<todo, status, host>>
              \/ todo' = <<>>
<1> USE DEF RowInv
<1> DEFINE i == OldestOf(u)
           t == queue[i]
           ids == DOMAIN queue \ {i}
<1>1. queue \in Seq(Threads) /\ i \in DOMAIN queue /\ OwnerOf[t] = u
  BY OldestIs DEF TypeOK, RowsOf
<1>2. t \in Threads /\ t \in Queued
  BY <1>1, QueuedIs
<1>3. /\ queue' = Rows(ids) /\ taken' = t
      /\ \/ UNCHANGED todo /\ Present(t) /\ Starts(t) /\ Mark({})
         \/ UNCHANGED <<todo, status, host, owed>> /\ ~Present(t) /\ Mark({})
         \/ todo' = <<>> /\ (Halts(t) \/ UNCHANGED <<status, host, owed>>) /\ Mark({t})
  BY DEF TakeOne
<1>4. ids \in SUBSET DOMAIN queue
  OBVIOUS
<1>5. /\ queue' \in Seq(Threads)
      /\ Range(queue') = {queue[j] : j \in ids}
      /\ \A j \in DOMAIN queue' : \A k \in DOMAIN queue' : j # k =>
            \E h \in ids : \E e \in ids :
               h # e /\ queue'[j] = queue[h] /\ queue'[k] = queue[e]
  BY <1>1, <1>3, <1>4, RowsLeft
<1>6. Range(queue') \subseteq Queued /\ Queued' = Range(queue') /\ Queued = Range(queue)
  BY <1>4, <1>5, QueuedIs DEF Queued
<1>7. t \in Queued' => t \in parted
  BY <1>1, <1>5, <1>6 DEF DoublesAreMarked
<1>8. \A v \in Queued : v # t => v \in Queued'
  BY <1>5, <1>6, QueuedIs
<1> HIDE DEF i, ids, t
<1>9. status' = [status EXCEPT ![t] = "open"] \/ UNCHANGED status
  BY <1>3 DEF Starts, Halts
<1>10. /\ status' \in [Threads -> Statuses]
       /\ \A v \in Threads \ {t} : status'[v] = status[v]
  BY <1>9 DEF TypeOK, Statuses
<1>11. PICK ts \in SUBSET {t} :
          Mark(ts) /\ (t \in ts \/ t \in parted \/ status'[t] # "queued")
  <2>1. CASE Present(t) /\ Starts(t) /\ Mark({})
    <3>1. status'[t] # "queued"
      BY <1>2, <2>1 DEF Starts, TypeOK
    <3> QED BY <2>1, <3>1
  <2>2. CASE UNCHANGED status /\ ~Present(t) /\ Mark({})
    BY <2>2 DEF Present
  <2>3. CASE Mark({t})
    BY <2>3
  <2> QED BY <1>3, <2>1, <2>2, <2>3
<1>12. \A v \in Threads \ (parted \cup ts) : status'[v] = "queued" <=> v \in Queued'
  <2>1. ASSUME NEW v \in Threads, v \notin parted \cup ts
        PROVE  status'[v] = "queued" <=> v \in Queued'
    <3>1. CASE v = t
      BY <1>7, <1>11, <2>1, <3>1
    <3>2. CASE v # t
      <4>1. status'[v] = status[v] /\ (status[v] = "queued" <=> v \in Queued)
        BY <1>10, <2>1, <3>2 DEF RowsAreAwaited
      <4>2. v \in Queued <=> v \in Queued'
        BY <1>6, <1>8, <3>2
      <4> QED BY <4>1, <4>2
    <3> QED BY <3>1, <3>2
  <2> QED BY <2>1
<1>13. \A j \in DOMAIN queue' : \A k \in DOMAIN queue' :
          j # k /\ queue'[j] = queue'[k] => queue'[j] \in parted \cup ts
  <2>1. ASSUME NEW j \in DOMAIN queue', NEW k \in DOMAIN queue', j # k, queue'[j] = queue'[k]
        PROVE  queue'[j] \in parted
    <3>1. PICK h \in ids, e \in ids : h # e /\ queue'[j] = queue[h] /\ queue'[k] = queue[e]
      BY <1>5, <2>1
    <3> QED BY <1>4, <2>1, <3>1 DEF DoublesAreMarked
  <2> QED BY <2>1
<1>14. Agree' /\ parted' \in SUBSET Threads
  <2>1. ts \in SUBSET Threads
    BY <1>2
  <2> QED BY <1>11, <1>12, <1>13, <2>1, Marked
<1>15. host' \in [Threads -> HostStates] /\ owed' \in SUBSET Threads /\ IsFiniteSet(Hosting')
  <2>1. CASE Begins(t) \/ Owes(t) \/ Fails(t)
    BY <1>2, <2>1, TurnTaken
  <2>2. CASE UNCHANGED <<host, owed>>
    BY <2>2 DEF TypeOK, Hosting
  <2> QED BY <1>3, <2>1, <2>2 DEF Starts, Halts
<1>16. todo' \in Seq(Users)
  <2>1. UNCHANGED todo \/ todo' = <<>>
    BY <1>3
  <2>2. <<>> \in Seq(Users)
    OBVIOUS
  <2> QED BY <2>1, <2>2 DEF TypeOK
<1>17. TypeOK'
  BY <1>2, <1>3, <1>5, <1>10, <1>14, <1>15, <1>16 DEF TypeOK
<1> QED
  BY <1>1, <1>2, <1>3, <1>6, <1>14, <1>15, <1>17 DEF i, t, Agree

LEMMA LeaveStep == ASSUME RowInv, ~AtRest, Leave PROVE RowInv'
<1> USE DEF RowInv, Agree, Leave
<1>1. Agree'
  BY RowsKept
<1>2. todo' \in Seq(Users)
  BY DEF TypeOK, AtRest
<1> QED BY <1>1, <1>2 DEF TypeOK, Hosting

LEMMA RowInvStep == ASSUME RowInv, [Next]_vars PROVE RowInv'
<1>1. ASSUME VisitNext PROVE RowInv'
  <2>1. ~AtRest /\ (Leave \/ (RowsOf(Head(todo)) # {} /\ TakeOne(Head(todo))))
    BY <1>1 DEF VisitNext
  <2> QED BY <2>1, TakeOneStep, LeaveStep
<1>2. ASSUME UNCHANGED vars PROVE RowInv'
  BY <1>2, RowsKept DEF vars, RowInv, Agree, TypeOK, Hosting
<1> QED
  BY <1>1, <1>2, RoutesStep, AbandonStep, KillAllStep, HostsStep, StartPassStep, RestartStep
  DEF Next

LEMMA RowInvInit == Init => RowInv
<1> SUFFICES ASSUME Init PROVE RowInv
  OBVIOUS
<1>1. Queued = {} /\ Hosting = {}
  BY DEF Init, Queued, Range, Hosting
<1>2. IsFiniteSet(Hosting)
  BY <1>1, FS_EmptySet
<1>3. TypeOK
  BY DEF Init, TypeOK, Statuses, HostStates
<1> QED
  BY <1>1, <1>2, <1>3 DEF Init, RowInv, RowsAreAwaited, DoublesAreMarked

-----------------------------------------------------------------------------
(* A pass of the runner *)

\* Whoever has queued work and a slot is still to be visited, and until the
\* first prompt is dequeued the visits go by the oldest rows.
PassCovers == ~AtRest => \A u \in Users : Eligible(u) => u \in Range(todo)
PassOrdered ==
    ~AtRest /\ taken = NoThread =>
        \A j \in DOMAIN todo : \A k \in DOMAIN todo :
            j < k => OldestOf(todo[j]) < OldestOf(todo[k])

PassInv == PassCovers /\ PassOrdered

\* A prompt that is started leaves no user a slot that there was not.
LEMMA CapsOnlyFill ==
    ASSUME RowInv, NEW t \in Threads, Present(t), Starts(t), NEW u, ~AtCap(u)'
    PROVE  ~AtCap(u)
<1> USE DEF RowInv
<1>1. \A v \in Threads : host'[v] = host[v] \/ host'[v] = "streaming"
  BY DEF Starts, Begins, Owes, Fails, TypeOK
<1>2. \A v \in Threads : Present(v) => status'[v] # "deleted"
  BY DEF Starts, TypeOK, Present
<1>3. IsFiniteSet(Hosting')
  <2>1. Begins(t) \/ Owes(t) \/ Fails(t)
    BY DEF Starts
  <2> QED BY <2>1, TurnTaken
<1> DEFINE Streams == {v \in Threads : OwnerOf[v] = u /\ host[v] = "streaming" /\ Present(v)}
           Hosts   == {v \in Threads : Live(v)}
<1>4. Streams \subseteq Streams' /\ Streams' \subseteq Hosting'
  BY <1>1, <1>2 DEF Hosting, Present
<1>5. Hosts \subseteq Hosts' /\ Hosts' \subseteq Hosting'
  BY <1>1 DEF Hosting, Live
<1>6. Running(u) = Cardinality(Streams) /\ Running(u)' = Cardinality(Streams)'
  BY DEF Running
<1>7. HostCount = Cardinality(Hosts) /\ HostCount' = Cardinality(Hosts)'
  BY DEF HostCount
<1> HIDE DEF Streams, Hosts
<1>8. PICK s1, s2 : s1 = Streams /\ s2 = Streams'
  OBVIOUS
<1>9. PICK h1, h2 : h1 = Hosts /\ h2 = Hosts'
  OBVIOUS
<1>10. IsFiniteSet(s2) /\ IsFiniteSet(h2)
  BY <1>3, <1>4, <1>5, <1>8, <1>9, FS_Subset
<1>11. s1 \in SUBSET s2 /\ h1 \in SUBSET h2
  BY <1>4, <1>5, <1>8, <1>9
<1>12. /\ IsFiniteSet(s1) /\ Cardinality(s1) <= Cardinality(s2)
       /\ IsFiniteSet(h1) /\ Cardinality(h1) <= Cardinality(h2)
  BY <1>10, <1>11, FS_Subset
<1>13. /\ Cardinality(s1) \in Nat /\ Cardinality(s2) \in Nat
       /\ Cardinality(h1) \in Nat /\ Cardinality(h2) \in Nat
  BY <1>10, <1>12, FS_CardinalityType
<1>14. /\ Running(u) = Cardinality(s1) /\ Running(u)' = Cardinality(s2)
       /\ HostCount = Cardinality(h1) /\ HostCount' = Cardinality(h2)
  BY <1>6, <1>7, <1>8, <1>9
<1>15. MaxRunning \in Nat /\ MaxHosts \in Nat
  OBVIOUS
<1> QED BY <1>12, <1>13, <1>14, <1>15 DEF AtCap

LEMMA TakeOnePass ==
    ASSUME RowInv, PassInv, ~AtRest, NEW u, RowsOf(u) # {}, TakeOne(u)
    PROVE  PassInv' /\ taken' # NoThread /\ OwnerOf[taken'] = u
<1>1. /\ RowInv' /\ taken' \in Threads /\ OwnerOf[taken'] = u
      /\ Range(queue') \subseteq Range(queue)
      /\ \/ UNCHANGED todo /\ Present(taken') /\ Starts(taken')
         \/ UNCHANGED <<todo, status, host>>
         \/ todo' = <<>>
  BY TakeOneStep
<1>2. PICK t \in Threads : t = taken'
  BY <1>1
<1>3. ASSUME NEW v \in Users, Eligible(v)', ~AtRest' PROVE v \in Range(todo')
  <2>1. ~AtCap(v)
    <3>1. CASE Present(t) /\ Starts(t)
      BY <1>2, <1>3, <3>1, CapsOnlyFill DEF Eligible
    <3>2. CASE UNCHANGED <<status, host>>
      BY <1>3, <3>2 DEF Eligible, AtCap, Running, HostCount, Live, Present
    <3> QED BY <1>1, <1>2, <1>3, <3>1, <3>2 DEF AtRest
  <2>2. PICK i \in DOMAIN queue' : OwnerOf[queue'[i]] = v
    BY <1>3 DEF Eligible, RowsOf
  <2>3. PICK j \in DOMAIN queue : queue[j] = queue'[i]
    BY <1>1, <2>2 DEF Range
  <2>4. Eligible(v)
    BY <2>1, <2>2, <2>3 DEF Eligible, RowsOf
  <2>5. UNCHANGED todo
    BY <1>1, <1>3 DEF AtRest
  <2> QED BY <2>4, <2>5 DEF PassInv, PassCovers
<1>4. taken' # NoThread
  BY <1>1
<1> QED BY <1>1, <1>3, <1>4 DEF PassInv, PassCovers, PassOrdered

LEMMA LeavePass ==
    ASSUME RowInv, PassInv, ~AtRest, Leave, ~Eligible(Head(todo))
    PROVE  PassInv' /\ taken' = taken
<1>1. todo \in Seq(Users) /\ todo # <<>> /\ todo' = Tail(todo)
  BY DEF RowInv, TypeOK, AtRest, Leave
<1>2. UNCHANGED <<queue, status, host, taken>>
  BY DEF Leave
<1>3. \A u : (Eligible(u)' <=> Eligible(u)) /\ OldestOf(u)' = OldestOf(u)
  BY <1>2 DEF Eligible, RowsOf, OldestOf, AtCap, Running, HostCount, Live, Present
<1>4. ASSUME NEW u \in Users, Eligible(u)' PROVE \E k \in DOMAIN todo' : todo'[k] = u
  <2>1. Eligible(u)
    BY <1>3, <1>4
  <2>2. PICK k \in DOMAIN todo : todo[k] = u
    BY <2>1 DEF PassInv, PassCovers, Range
  <2>3. k # 1
    BY <1>1, <2>1, <2>2
  <2>4. k - 1 \in DOMAIN todo' /\ todo'[k - 1] = u
    BY <1>1, <2>2, <2>3
  <2> QED BY <2>4
<1>5. PassCovers'
  BY <1>4 DEF PassCovers, Range
<1>6. PassOrdered'
  <2>1. SUFFICES ASSUME taken = NoThread,
                        NEW j \in DOMAIN todo', NEW k \in DOMAIN todo', j < k
                 PROVE  OldestOf(todo'[j]) < OldestOf(todo'[k])
    BY <1>2, <1>3 DEF PassOrdered
  <2>2. /\ j + 1 \in DOMAIN todo /\ k + 1 \in DOMAIN todo /\ j + 1 < k + 1
        /\ todo'[j] = todo[j + 1] /\ todo'[k] = todo[k + 1]
    BY <1>1, <2>1
  <2> QED BY <2>1, <2>2 DEF PassInv, PassOrdered
<1> QED BY <1>2, <1>5, <1>6 DEF PassInv

LEMMA StartPassCovers == ASSUME RowInv, StartPass PROVE PassInv'
<1>1. todo' = Listing /\ UNCHANGED <<queue, status, host>> /\ TypeOK
  BY DEF StartPass, RowInv
<1>2. \A u : (Eligible(u)' => RowsOf(u) # {}) /\ OldestOf(u)' = OldestOf(u)
  BY <1>1 DEF Eligible, RowsOf, OldestOf
<1>3. /\ \A u \in Users : RowsOf(u) # {} => u \in Range(todo')
      /\ \A j \in DOMAIN todo' : \A k \in DOMAIN todo' :
            j < k => OldestOf(todo'[j]) < OldestOf(todo'[k])
  BY <1>1, ListingFacts
<1>4. PassCovers'
  BY <1>2, <1>3 DEF PassCovers
<1>5. PassOrdered'
  BY <1>2, <1>3 DEF PassOrdered
<1> QED BY <1>4, <1>5 DEF PassInv

\* Outside a pass nothing is to visit; but for the end of the process no other
\* step runs in a pass.
LEMMA OutsidePass ==
    ASSUME [Next]_vars, ~VisitNext, ~StartPass
    PROVE  \/ AtRest' /\ taken' = NoThread
           \/ UNCHANGED vars
BY DEF Next, Prompt, Enqueue, Execute, Abandon, Delete, Ends, Merge, KillAll, TurnEnds, Reap,
       Crash, HostGone, Restart, AtRest

FirstIsOldest ==
    taken = NoThread /\ taken' # NoThread =>
        \A u \in Users : Eligible(u) => OldestOf(OwnerOf[taken']) <= OldestOf(u)

LEMMA PassStep ==
    ASSUME RowInv, PassInv, [Next]_vars
    PROVE  PassInv' /\ FirstIsOldest
<1>1. CASE VisitNext
  <2> DEFINE u == Head(todo)
  <2>1. ~AtRest
    BY <1>1 DEF VisitNext
  <2>2. CASE RowsOf(u) # {} /\ ~AtCap(u)
    <3>1. TakeOne(u)
      BY <1>1, <2>2 DEF VisitNext
    <3>2. PassInv' /\ OwnerOf[taken'] = u
      BY <2>1, <2>2, <3>1, TakeOnePass
    <3>3. ASSUME taken = NoThread, NEW v \in Users, Eligible(v) PROVE OldestOf(u) <= OldestOf(v)
      <4>1. PICK k \in DOMAIN todo : todo[k] = v
        BY <2>1, <3>3 DEF PassInv, PassCovers, Range
      <4>2. /\ todo \in Seq(Users) /\ todo # <<>> /\ 1 \in DOMAIN todo /\ u = todo[1]
            /\ k \in Nat /\ k >= 1
        BY <2>1, <4>1 DEF RowInv, TypeOK, AtRest
      <4>3. OldestOf(u) \in Nat /\ OldestOf(v) \in Nat
        <5>1. queue \in Seq(Threads) /\ RowsOf(v) # {}
          BY <3>3 DEF Eligible, RowInv, TypeOK
        <5> QED BY <2>2, <5>1, OldestIs DEF RowsOf
      <4>4. CASE k = 1
        BY <4>1, <4>2, <4>3, <4>4
      <4>5. CASE k # 1
        <5>1. OldestOf(todo[1]) < OldestOf(todo[k])
          BY <2>1, <3>3, <4>1, <4>2, <4>5 DEF PassInv, PassOrdered
        <5> QED BY <4>1, <4>2, <4>3, <5>1
      <4> QED BY <4>4, <4>5
    <3> QED BY <3>2, <3>3 DEF FirstIsOldest
  <2>3. CASE ~(RowsOf(u) # {} /\ ~AtCap(u))
    <3>1. Leave /\ ~Eligible(u)
      BY <1>1, <2>3 DEF VisitNext, Eligible
    <3> QED BY <2>1, <3>1, LeavePass DEF FirstIsOldest
  <2> QED BY <2>2, <2>3
<1>2. CASE StartPass
  BY <1>2, StartPassCovers DEF FirstIsOldest, StartPass
<1>3. CASE ~VisitNext /\ ~StartPass
  <2>1. CASE AtRest' /\ taken' = NoThread
    BY <2>1 DEF PassInv, PassCovers, PassOrdered, FirstIsOldest
  <2>2. CASE UNCHANGED vars
    <3>1. \A u : (Eligible(u)' <=> Eligible(u)) /\ OldestOf(u)' = OldestOf(u)
      BY <2>2 DEF vars, Eligible, RowsOf, OldestOf, AtCap, Running, HostCount, Live, Present
    <3> QED
      BY <2>2, <3>1 DEF vars, PassInv, PassCovers, PassOrdered, FirstIsOldest, AtRest
  <2> QED BY <1>3, <2>1, <2>2, OutsidePass
<1> QED BY <1>1, <1>2, <1>3

-----------------------------------------------------------------------------
\* Rows, their statuses and marks, and the list of a pass agree in every
\* reachable state.
THEOREM Invariance == Spec => [](RowInv /\ PassInv)
<1>1. Init => RowInv /\ PassInv
  BY RowInvInit DEF Init, PassInv, PassCovers, PassOrdered, AtRest
<1>2. RowInv /\ PassInv /\ [Next]_vars => (RowInv /\ PassInv)'
  BY RowInvStep, PassStep
<1> QED BY <1>1, <1>2, PTL DEF Spec

\* Every variable keeps its type: in particular what is queued are conversations.
THEOREM TypeCorrect == Spec => []TypeOK
BY Invariance, PTL DEF RowInv

\* Queue and statuses agree, whichever calls and passes interleave and wherever
\* a step breaks off, but for the conversations whose row and status some call
\* or the break itself set apart.
\* (enqueuePrompt, abandonThread, kill-all, deleteQueuedForConversation, the runner)
THEOREM RowsAwaited == Spec => []RowsAreAwaited
BY Invariance, PTL DEF RowInv

\* The first slot of a pass goes to the oldest prompt whose user may have it.
\* (listQueuedNamespaces, the queue runner)
THEOREM FirstSlotIsFair == Spec => FirstSlotToOldest
<1>1. RowInv /\ PassInv /\ [Next]_vars => [FirstIsOldest]_vars
  BY PassStep
<1> QED BY <1>1, Invariance, PTL DEF Spec, FirstSlotToOldest, FirstIsOldest
=============================================================================
