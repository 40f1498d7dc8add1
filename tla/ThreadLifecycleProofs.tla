----------------------- MODULE ThreadLifecycleProofs ------------------------
(***************************************************************************)
(* Proofs about ThreadLifecycle, for any sets of threads, hosts and calls, *)
(* any caps and any bound on the queue: it implements SessionHosts, no row *)
(* is left streaming without a host, terminal decisions are kept, and what *)
(* is published for a deleted thread was in flight for it.                 *)
(***************************************************************************)
EXTENDS ThreadLifecycle, FiniteSetTheorems, WellFoundedInduction, TLAPS

-----------------------------------------------------------------------------
(* What the removal of deleted threads leaves in the queue.                  *)

\* A set of numbers that holds 0 and the successor of each member holds all of
\* them: of those it lacked, the least would follow one it holds.
LEMMA Induction ==
    ASSUME NEW A \in SUBSET Nat, 0 \in A, \A n \in A : n + 1 \in A
    PROVE  A = Nat
<1> DEFINE Prefixes == {1..n : n \in Nat \ A}
<1>1. SUFFICES ASSUME A # Nat PROVE FALSE
  OBVIOUS
<1>2. Prefixes \subseteq FiniteSubsetsOf(Nat) /\ Prefixes # {}
  <2>1. \A n \in Nat : 1..n \in SUBSET Nat /\ IsFiniteSet(1..n)
    BY FS_Interval
  <2> QED BY <1>1, <2>1 DEF FiniteSubsetsOf
<1>3. PICK P \in Prefixes : \A Q \in Prefixes : <<Q, P>> \notin StrictSubsetOrdering(Nat)
  BY <1>2, WFMin, FS_StrictSubsetOrderingWellFounded
<1>4. PICK n \in Nat \ A : P = 1..n
  OBVIOUS
<1>5. n - 1 \in Nat \ A /\ n \in 1..n /\ n \notin 1..n - 1 /\ 1..n - 1 \subseteq 1..n
  OBVIOUS
<1>6. <<1..n - 1, P>> \in StrictSubsetOrdering(Nat)
  BY <1>4, <1>5 DEF StrictSubsetOrdering
<1>7. 1..n - 1 \in Prefixes
  BY <1>5
<1> QED BY <1>3, <1>6, <1>7

\* The equation of the recursive function in Without, up to n.
KeptTo(f, n, q, ts) ==
    [i \in 0..n |-> IF i = 0 THEN <<>>
                    ELSE IF q[i] \in ts THEN f[i - 1] ELSE Append(f[i - 1], q[i])]

\* The recursive definition in Without has a solution, whatever the queue.
LEMMA WithoutDefined ==
    ASSUME NEW S, NEW q \in Seq(S), NEW ts
    PROVE  \E g : g = KeptTo(g, Len(q), q, ts)
<1> DEFINE A == {n \in Nat : \E g : g = KeptTo(g, n, q, ts)}
<1>1. 0 \in A
  <2> DEFINE g == [i \in 0..0 |-> <<>>]
  <2>1. g = KeptTo(g, 0, q, ts)
    BY DEF KeptTo
  <2> QED BY <2>1
<1>2. ASSUME NEW n \in A PROVE n + 1 \in A
  <2>1. PICK g : g = KeptTo(g, n, q, ts)
    OBVIOUS
  <2> DEFINE last == IF q[n + 1] \in ts THEN g[n] ELSE Append(g[n], q[n + 1])
             h == [i \in 0..n + 1 |-> IF i = n + 1 THEN last ELSE g[i]]
  <2>2. n \in Nat
    OBVIOUS
  <2> HIDE DEF A
  <2>3. ASSUME NEW i \in 0..n + 1
        PROVE  h[i] = KeptTo(h, n + 1, q, ts)[i]
    <3>1. CASE i = n + 1
      <4>1. h[n] = g[n]
        BY <2>2
      <4>2. i # 0 /\ i - 1 = n
        BY <2>2, <3>1
      <4> QED BY <3>1, <4>1, <4>2 DEF KeptTo
    <3>2. CASE i \in 0..n
      <4>1. g[i] = IF i = 0 THEN <<>> ELSE IF q[i] \in ts THEN g[i - 1] ELSE Append(g[i - 1], q[i])
        BY <2>1, <3>2 DEF KeptTo
      <4>2. h[i] = g[i] /\ (i # 0 => h[i - 1] = g[i - 1])
        BY <2>2, <3>2
      <4> QED BY <3>2, <4>1, <4>2 DEF KeptTo
    <3> QED BY <2>2, <3>1, <3>2
  <2>4. h = KeptTo(h, n + 1, q, ts)
    BY <2>3 DEF KeptTo
  <2>5. \E f : f = KeptTo(f, n + 1, q, ts)
    <3> HIDE DEF h
    <3> QED BY <2>4
  <2>6. n + 1 \in Nat
    BY <2>2
  <2> QED BY <2>5, <2>6, Zenon DEF A
<1>3. Len(q) \in A
  <2>1. A \subseteq Nat
    OBVIOUS
  <2> HIDE DEF A
  <2>2. A = Nat
    BY <1>1, <1>2, <2>1, Induction
  <2> QED BY <2>2
<1> QED BY <1>3

\* Removing threads from a queue leaves a queue of the other ones.
LEMMA WithoutFacts ==
    ASSUME NEW S, NEW q \in Seq(S), NEW ts
    PROVE  Without(q, ts) \in Seq(S \ ts)
<1> DEFINE kept == CHOOSE f : f = KeptTo(f, Len(q), q, ts)
<1>1. Without(q, ts) = kept[Len(q)]
  BY Zenon DEF Without, KeptTo
<1>2. kept = KeptTo(kept, Len(q), q, ts)
  BY WithoutDefined, Zenon
<1> HIDE DEF kept
<1> DEFINE A == {n \in Nat : n <= Len(q) => kept[n] \in Seq(S \ ts)}
<1>3. 0 \in A
  BY <1>2 DEF KeptTo
<1>4. ASSUME NEW n \in A PROVE n + 1 \in A
  <2>1. ASSUME n + 1 <= Len(q) PROVE kept[n + 1] \in Seq(S \ ts)
    <3>1. kept[n] \in Seq(S \ ts) /\ q[n + 1] \in S
      BY <2>1
    <3>2. kept[n + 1] = IF q[n + 1] \in ts THEN kept[n] ELSE Append(kept[n], q[n + 1])
      <4>1. n + 1 \in 0..Len(q) /\ n + 1 # 0 /\ (n + 1) - 1 = n
        BY <2>1
      <4> QED BY <1>2, <4>1 DEF KeptTo
    <3> QED BY <3>1, <3>2
  <2> QED BY <2>1
<1>5. Len(q) \in A
  <2> HIDE DEF A
  <2>1. A \subseteq Nat
    BY DEF A
  <2>2. A = Nat
    BY <1>3, <1>4, <2>1, Induction
  <2> QED BY <2>2
<1> QED BY <1>1, <1>5

-----------------------------------------------------------------------------
USE HostStateAssumption, ThreadLifecycleAssumption

(* Session hosts, for whatever specification implements SessionHosts *)

\* A process that runs serves a conversation.
OwnersKnown == \A h \in Hosts : SH!Alive(h) => owner[h] \in Threads

\* A teardown mark is only on a process that still exists.
MarksAreAlive == exiting \cup zombie \subseteq {h \in Hosts : SH!Alive(h)}

\* The pending exit promises of a conversation are exactly its killed hosts.
ZombiesTracked ==
    \A h \in Hosts, t \in Threads : h \in zombies[t] <=> h \in zombie /\ owner[h] = t

\* No handle is registered beside a zombie: nobody spawns before it is gone.
NoHandleBesideZombie ==
    \A t \in Threads : zombies[t] # {} => handles[t] = NoHost

\* A conversation has at most one zombie.
OneZombie == \A t \in Threads : \A g, h \in zombies[t] : g = h

\* A suspended call awaits every process its conversation still has, and once
\* its awaits are settled there is nothing left that is being torn down.
WaitsCover ==
    \A c \in Calls : SH!Waiting(c) =>
        /\ target[c] \in Threads
        /\ \A h \in waits[c] : SH!Alive(h) /\ owner[h] = target[c]
        /\ zombies[target[c]] \subseteq waits[c]
        /\ waits[c] # {} => handles[target[c]] \in waits[c] \cup {NoHost}
        /\ waits[c] = {} => handles[target[c]] \notin exiting

\* The strengthening of the checked invariants that every step preserves.
HostsInv ==
    /\ SH!TypeOK
    /\ SH!HandlesAreLive
    /\ SH!OnlyCurrentSpeaks
    /\ OwnersKnown
    /\ MarksAreAlive
    /\ KillsLand => ZombiesTracked /\ NoHandleBesideZombie /\ OneZombie /\ WaitsCover

-----------------------------------------------------------------------------
(* Each action of SessionHosts keeps HostsInv *)

LEMMA HostsInit == SH!Init => HostsInv
BY DEF SH!Init, HostsInv, SH!TypeOK, SH!HandlesAreLive, SH!OnlyCurrentSpeaks, OwnersKnown,
       MarksAreAlive, ZombiesTracked, NoHandleBesideZombie, OneZombie, WaitsCover, SH!Alive,
       SH!Waiting, SH!ProcStates, SH!Stages

LEMMA HostsKill ==
    ASSUME HostsInv, NEW ts \in SUBSET Threads, SH!Kill(ts)
    PROVE  HostsInv'
<1> DEFINE hs == SH!Killed(ts)
<1> USE DEF HostsInv, SH!Waiting, SH!Alive, SH!Killed
<1>1. /\ hs \subseteq Hosts
      /\ handles' = [t \in Threads |-> IF t \in ts THEN NoHost ELSE handles[t]]
      /\ exiting' = exiting \cup hs
      /\ zombie'  = zombie \cup hs
      /\ zombies' = [t \in Threads |->
                        IF t \in ts THEN zombies[t] \cup SH!Killed({t}) ELSE zombies[t]]
      /\ proc'    = [h \in Hosts |-> IF h \in hs THEN SH!Terminate(proc[h]) ELSE proc[h]]
      /\ UNCHANGED <<owner, SH!callVars>>
  BY DEF SH!Kill, SH!KillChildren, SH!TypeOK
<1>2. SH!TypeOK'
  <2>1. /\ handles' \in [Threads -> Hosts \cup {NoHost}]
        /\ exiting' \in SUBSET Hosts
        /\ zombie' \in SUBSET Hosts
        /\ zombies' \in [Threads -> SUBSET Hosts]
    BY <1>1 DEF SH!TypeOK
  <2>2. proc' \in [Hosts -> SH!ProcStates]
    BY <1>1 DEF SH!TypeOK, SH!ProcStates, SH!Terminate
  <2> HIDE DEF hs
  <2> QED BY <1>1, <2>1, <2>2 DEF SH!TypeOK, SH!callVars
<1>3. \A h \in Hosts : SH!Alive(h)' <=> SH!Alive(h)
  BY <1>1 DEF SH!TypeOK, SH!Terminate
<1>4. \A h \in hs : owner[h] \in ts /\ handles[owner[h]] = h
  BY DEF SH!HandlesAreLive
<1>5. \A t \in ts : handles[t] # NoHost => handles[t] \in hs /\ owner[handles[t]] = t
  BY DEF SH!HandlesAreLive
<1>6. \A t \in Threads \ ts : handles[t] \notin hs
  BY <1>4, <1>1 DEF SH!HandlesAreLive
<1> HIDE DEF hs
<1>7. SH!HandlesAreLive' /\ OwnersKnown'
  BY <1>1, <1>3 DEF SH!TypeOK, SH!HandlesAreLive, OwnersKnown
<1>8. MarksAreAlive'
  BY <1>1, <1>3, <1>4, <1>5 DEF SH!TypeOK, MarksAreAlive, SH!HandlesAreLive
<1>9. SH!OnlyCurrentSpeaks'
  BY <1>1, <1>3, <1>4, <1>5, <1>6 DEF SH!TypeOK, SH!OnlyCurrentSpeaks, OwnersKnown
<1>10. ASSUME KillsLand
       PROVE  ZombiesTracked' /\ NoHandleBesideZombie' /\ OneZombie' /\ WaitsCover'
  <2>1. \A t \in ts : handles[t] # NoHost => zombies[t] = {}
    BY <1>10 DEF NoHandleBesideZombie
  <2>2. ZombiesTracked'
    BY <1>1, <1>4, <1>5, <1>10 DEF ZombiesTracked, SH!TypeOK
  <2>3. NoHandleBesideZombie' /\ OneZombie'
    BY <1>1, <1>10, <2>1 DEF NoHandleBesideZombie, OneZombie, SH!TypeOK
  <2>4. WaitsCover'
    <3> SUFFICES ASSUME NEW c \in Calls, SH!Waiting(c)
                 PROVE  /\ target[c] \in Threads
                        /\ \A h \in waits[c] : SH!Alive(h)' /\ owner[h] = target[c]
                        /\ zombies'[target[c]] \subseteq waits[c]
                        /\ waits[c] # {} => handles'[target[c]] \in waits[c] \cup {NoHost}
                        /\ waits[c] = {} => handles'[target[c]] \notin exiting'
      BY <1>1 DEF WaitsCover, SH!callVars
    <3>1. waits[c] # {}
      BY DEF SH!Kill, SH!Idle, SH!Continuation, SH!Resumable
    <3> QED
      BY <1>1, <1>3, <1>10, <2>1, <3>1 DEF WaitsCover, SH!TypeOK
  <2> QED BY <2>2, <2>3, <2>4
<1> QED BY <1>2, <1>7, <1>8, <1>9, <1>10

\* A restart leads back to the initial state.
LEMMA HostsRestart == ASSUME SH!Restart PROVE HostsInv'
BY DEF SH!Restart, HostsInv, SH!TypeOK, SH!HandlesAreLive, SH!OnlyCurrentSpeaks, OwnersKnown,
       MarksAreAlive, ZombiesTracked, NoHandleBesideZombie, OneZombie, WaitsCover, SH!Alive,
       SH!Waiting, SH!ProcStates, SH!Stages

LEMMA HostsReap ==
    ASSUME HostsInv, NEW hs \in SUBSET Hosts, SH!Reap(hs)
    PROVE  HostsInv'
<1> USE DEF HostsInv, SH!Waiting, SH!Alive, SH!Reap
<1>1. SH!TypeOK'
  BY DEF SH!TypeOK, SH!callVars, SH!ProcStates, SH!Terminate
<1>2. \A h \in Hosts : SH!Alive(h)' <=> SH!Alive(h)
  BY DEF SH!TypeOK, SH!Terminate
<1>3. SH!HandlesAreLive' /\ OwnersKnown' /\ SH!OnlyCurrentSpeaks'
  BY <1>2 DEF SH!TypeOK, SH!HandlesAreLive, OwnersKnown, SH!OnlyCurrentSpeaks
<1>4. MarksAreAlive'
  BY <1>2 DEF SH!TypeOK, MarksAreAlive, SH!HandlesAreLive, SH!Current
<1>5. ASSUME KillsLand
      PROVE  ZombiesTracked' /\ NoHandleBesideZombie' /\ OneZombie' /\ WaitsCover'
  <2>1. ZombiesTracked' /\ NoHandleBesideZombie' /\ OneZombie'
    BY <1>5 DEF ZombiesTracked, NoHandleBesideZombie, OneZombie
  <2>2. \A c \in Calls : SH!Waiting(c) => waits[c] # {}
    BY DEF SH!Idle, SH!Continuation, SH!Resumable
  <2>3. WaitsCover'
    BY <1>2, <1>5, <2>2 DEF WaitsCover, SH!callVars, SH!TypeOK
  <2> QED BY <2>1, <2>3
<1> QED BY <1>1, <1>3, <1>4, <1>5

\* Escalation and a decoder overflow only move a process towards its end.
LEMMA HostsSignal ==
    ASSUME HostsInv, NEW h \in Hosts, SH!Escalate(h) \/ SH!Overflow(h)
    PROVE  HostsInv'
<1> USE DEF HostsInv, SH!Waiting, SH!Alive
<1>1. /\ UNCHANGED <<handles, owner, exiting, zombie, zombies, target, waits, via>>
      /\ \E p \in {"term", "kill"} : proc' = [proc EXCEPT ![h] = p]
      /\ proc[h] # "none"
      /\ stage' \in [Calls -> SH!Stages]
      /\ \A c \in Calls : SH!Waiting(c)' <=> SH!Waiting(c)
  BY DEF SH!Escalate, SH!Overflow, SH!RejectPending, SH!callVars, SH!TypeOK, SH!Stages
<1>2. SH!TypeOK'
  BY <1>1 DEF SH!TypeOK, SH!ProcStates
<1>3. \A g \in Hosts : SH!Alive(g)' <=> SH!Alive(g)
  BY <1>1 DEF SH!TypeOK
<1>4. SH!HandlesAreLive' /\ OwnersKnown' /\ SH!OnlyCurrentSpeaks' /\ MarksAreAlive'
  BY <1>1, <1>3 DEF SH!TypeOK, SH!HandlesAreLive, OwnersKnown, SH!OnlyCurrentSpeaks, MarksAreAlive
<1>5. ASSUME KillsLand
      PROVE  ZombiesTracked' /\ NoHandleBesideZombie' /\ OneZombie' /\ WaitsCover'
  BY <1>1, <1>3, <1>5 DEF ZombiesTracked, NoHandleBesideZombie, OneZombie, WaitsCover, SH!TypeOK
<1> QED BY <1>2, <1>4, <1>5

LEMMA HostsExit ==
    ASSUME HostsInv, NEW h \in Hosts, SH!Exit(h)
    PROVE  HostsInv'
<1> USE DEF HostsInv, SH!Waiting, SH!Alive, SH!Exit, SH!Forget
<1>1. SH!TypeOK'
  BY DEF SH!TypeOK, SH!RejectPending, SH!ProcStates, SH!Stages
<1>2. \A g \in Hosts : SH!Alive(g)' <=> SH!Alive(g) /\ g # h
  BY DEF SH!TypeOK
<1>3. /\ \A g \in Hosts : g # h => owner'[g] = owner[g]
      /\ \A c \in Calls : SH!Waiting(c)' <=> SH!Waiting(c)
  BY DEF SH!TypeOK, SH!RejectPending
<1>4. SH!HandlesAreLive' /\ OwnersKnown' /\ MarksAreAlive'
  BY <1>2, <1>3 DEF SH!TypeOK, SH!HandlesAreLive, OwnersKnown, MarksAreAlive
<1>5. SH!OnlyCurrentSpeaks'
  BY <1>2, <1>3 DEF SH!TypeOK, SH!OnlyCurrentSpeaks, OwnersKnown
<1>6. ASSUME KillsLand
      PROVE  ZombiesTracked' /\ NoHandleBesideZombie' /\ OneZombie' /\ WaitsCover'
  <2>1. ZombiesTracked'
    BY <1>3, <1>6 DEF ZombiesTracked, SH!TypeOK
  <2>2. NoHandleBesideZombie' /\ OneZombie'
    BY <1>6 DEF NoHandleBesideZombie, OneZombie, SH!TypeOK
  <2>3. WaitsCover'
    <3> SUFFICES ASSUME NEW c \in Calls, SH!Waiting(c)
                 PROVE  /\ target[c] \in Threads
                        /\ \A g \in waits'[c] : SH!Alive(g)' /\ owner'[g] = target[c]
                        /\ zombies'[target[c]] \subseteq waits'[c]
                        /\ waits'[c] # {} => handles'[target[c]] \in waits'[c] \cup {NoHost}
                        /\ waits'[c] = {} => handles'[target[c]] \notin exiting'
      <4>1. UNCHANGED target
        OBVIOUS
      <4>2. \A c \in Calls : SH!Waiting(c)' => SH!Waiting(c)
        BY <1>3
      <4> QED BY <4>1, <4>2, SMTT(30) DEF WaitsCover
    <3>1. /\ target[c] \in Threads /\ waits[c] # {} /\ waits'[c] = waits[c] \ {h}
          /\ handles[target[c]] \in waits[c] \cup {NoHost}
          /\ zombies[target[c]] \subseteq waits[c]
          /\ waits[c] \subseteq Hosts
          /\ \A g \in waits[c] : SH!Alive(g) /\ owner[g] = target[c]
      BY <1>6 DEF WaitsCover, SH!TypeOK, SH!Idle, SH!Continuation, SH!Resumable
    <3>2. handles'[target[c]] \in waits'[c] \cup {NoHost}
      BY <3>1 DEF SH!TypeOK
    <3>3. waits'[c] = {} => handles'[target[c]] \notin exiting'
      BY <1>1, <3>2 DEF SH!TypeOK
    <3> QED BY <1>2, <1>3, <3>1, <3>2, <3>3 DEF SH!TypeOK
  <2> QED BY <2>1, <2>2, <2>3
<1> QED BY <1>1, <1>4, <1>5, <1>6

\* The bounds of exitOf only elapse when SIGKILL may not land in time.
LEMMA HostsElapsed ==
    ASSUME HostsInv,
           \/ \E t \in Threads, h \in Hosts : SH!ZombieWaitElapsed(t, h)
           \/ \E c \in Calls, h \in Hosts : SH!ExitWaitElapsed(c, h)
    PROVE  HostsInv'
<1>1. ~KillsLand
  BY DEF SH!ZombieWaitElapsed, SH!ExitWaitElapsed
<1>2. /\ zombies' \in [Threads -> SUBSET Hosts]
      /\ waits' \in [Calls -> SUBSET Hosts]
      /\ UNCHANGED <<handles, proc, owner, exiting, zombie, stage, target, via>>
  BY DEF HostsInv, SH!TypeOK, SH!ZombieWaitElapsed, SH!ExitWaitElapsed, SH!hostVars
<1> QED
  BY <1>1, <1>2 DEF HostsInv, SH!TypeOK, SH!HandlesAreLive, SH!OnlyCurrentSpeaks, OwnersKnown,
                    MarksAreAlive, SH!Alive

\* The answer of a command, its timeout and the caller's continuation leave
\* the hosts and the suspended calls alone.
LEMMA HostsAnswer ==
    ASSUME HostsInv, NEW c \in Calls, SH!Reply(c) \/ SH!RpcTimeout(c) \/ SH!Finish(c)
    PROVE  HostsInv'
<1> USE DEF HostsInv, SH!Waiting, SH!Alive
<1>1. /\ UNCHANGED <<handles, proc, owner, exiting, zombie, zombies, waits>>
      /\ stage[c] \in {"sent", "replied", "failed"}
      /\ \E s \in {"replied", "failed", "free"} : stage' = [stage EXCEPT ![c] = s]
      /\ target' \in [Calls -> Threads \cup {NoThread}]
      /\ via' \in [Calls -> Hosts \cup {NoHost}]
      /\ \A d \in Calls : d # c => target'[d] = target[d]
  BY DEF SH!Reply, SH!RpcTimeout, SH!Finish, SH!hostVars, SH!TypeOK
<1>2. SH!TypeOK'
  <2>1. stage' \in [Calls -> SH!Stages]
    BY <1>1 DEF SH!TypeOK, SH!Stages
  <2> QED BY <1>1, <2>1 DEF SH!TypeOK
<1>3. SH!HandlesAreLive' /\ OwnersKnown' /\ SH!OnlyCurrentSpeaks' /\ MarksAreAlive'
  BY <1>1 DEF SH!HandlesAreLive, OwnersKnown, SH!OnlyCurrentSpeaks, MarksAreAlive
<1>4. ASSUME KillsLand
      PROVE  ZombiesTracked' /\ NoHandleBesideZombie' /\ OneZombie' /\ WaitsCover'
  <2>1. ZombiesTracked' /\ NoHandleBesideZombie' /\ OneZombie'
    BY <1>1, <1>4 DEF ZombiesTracked, NoHandleBesideZombie, OneZombie
  <2>2. \A d \in Calls : SH!Waiting(d)' => d # c /\ SH!Waiting(d)
    BY <1>1 DEF SH!TypeOK
  <2>3. WaitsCover'
    BY <1>1, <1>4, <2>2 DEF WaitsCover
  <2> QED BY <2>1, <2>3
<1> QED BY <1>2, <1>3, <1>4

-----------------------------------------------------------------------------
\* What a call may rely on when it runs its turn on t: nothing of t is being
\* torn down, and nobody else is suspended on it.
ClearToRun(c, t) ==
    KillsLand => /\ zombies[t] = {}
                 /\ handles[t] \notin exiting

\* A call that suspends awaits all that is left of its conversation.
LEMMA HostsSuspend ==
    ASSUME HostsInv, NEW c \in Calls, NEW t \in Threads, NEW s \in {"zombies", "exit"},
           NEW hs \in SUBSET Hosts, SH!Suspend(c, t, s, hs),
           KillsLand => /\ hs # {}
                        /\ \A h \in hs : SH!Alive(h) /\ owner[h] = t
                        /\ zombies[t] \subseteq hs
                        /\ handles[t] \in hs \cup {NoHost}
    PROVE  HostsInv'
<1> USE DEF HostsInv, SH!Waiting, SH!Alive, SH!Suspend, SH!hostVars
<1>1. SH!TypeOK'
  <2>1. stage' \in [Calls -> SH!Stages]
    BY DEF SH!TypeOK, SH!Stages
  <2> QED BY <2>1 DEF SH!TypeOK
<1>2. SH!HandlesAreLive' /\ OwnersKnown' /\ SH!OnlyCurrentSpeaks' /\ MarksAreAlive'
  BY DEF SH!HandlesAreLive, OwnersKnown, SH!OnlyCurrentSpeaks, MarksAreAlive
<1>3. ASSUME KillsLand
      PROVE  ZombiesTracked' /\ NoHandleBesideZombie' /\ OneZombie' /\ WaitsCover'
  <2>1. ZombiesTracked' /\ NoHandleBesideZombie' /\ OneZombie'
    BY <1>3 DEF ZombiesTracked, NoHandleBesideZombie, OneZombie
  <2>2. WaitsCover'
    BY <1>3 DEF WaitsCover, SH!TypeOK
  <2> QED BY <2>1, <2>2
<1> QED BY <1>1, <1>2, <1>3

\* With nothing left of the conversation, a spawn makes its only process.
LEMMA HostsRun ==
    ASSUME HostsInv, NEW c \in Calls, NEW t \in Threads, SH!RunTurn(c, t), ClearToRun(c, t)
    PROVE  /\ HostsInv'
           /\ KillsLand => \A d \in Calls :
                 stage[d] # "sent" /\ stage'[d] = "sent" => via'[d] \notin exiting'
<1> USE DEF HostsInv, SH!Waiting, SH!Alive, SH!RunTurn
<1>1. /\ UNCHANGED <<exiting, zombie, zombies>>
      /\ waits' = [waits EXCEPT ![c] = {}]
      /\ \E s \in {"sent", "free", "failed"} : stage' = [stage EXCEPT ![c] = s]
      /\ target' \in [Calls -> Threads \cup {NoThread}]
      /\ \A d \in Calls : d # c => target'[d] = target[d]
      /\ via' \in [Calls -> Hosts \cup {NoHost}]
  BY DEF SH!TypeOK, SH!EnsureSession, SH!hostVars
<1>2. stage' \in [Calls -> SH!Stages]
  BY <1>1 DEF SH!TypeOK, SH!Stages
<1>3. \A d \in Calls : SH!Waiting(d)' => d # c /\ SH!Waiting(d) /\ target'[d] = target[d]
                                      /\ waits'[d] = waits[d]
  BY <1>1 DEF SH!TypeOK
<1>4. CASE UNCHANGED <<handles, proc, owner>>
  <2>1. SH!TypeOK'
    BY <1>1, <1>2, <1>4 DEF SH!TypeOK
  <2>2. SH!HandlesAreLive' /\ OwnersKnown' /\ SH!OnlyCurrentSpeaks' /\ MarksAreAlive'
    BY <1>1, <1>4 DEF SH!HandlesAreLive, OwnersKnown, SH!OnlyCurrentSpeaks, MarksAreAlive
  <2>3. ASSUME KillsLand
        PROVE  ZombiesTracked' /\ NoHandleBesideZombie' /\ OneZombie' /\ WaitsCover'
    <3>1. ZombiesTracked' /\ NoHandleBesideZombie' /\ OneZombie'
      BY <1>1, <1>4, <2>3 DEF ZombiesTracked, NoHandleBesideZombie, OneZombie
    <3>2. WaitsCover'
      BY <1>1, <1>3, <1>4, <2>3 DEF WaitsCover
    <3> QED BY <3>1, <3>2
  <2>4. ASSUME KillsLand, NEW d \in Calls, stage[d] # "sent", stage'[d] = "sent"
        PROVE  via'[d] \notin exiting'
    <3>1. d = c
      BY <1>1, <2>4 DEF SH!TypeOK
    <3>2. via'[c] = handles[t]
      BY <1>1, <1>4, <2>4, <3>1 DEF SH!TypeOK, SH!EnsureSession, SH!hostVars, SH!HandlesAreLive
    <3> QED BY <1>1, <2>4, <3>1, <3>2 DEF ClearToRun
  <2> QED BY <2>1, <2>2, <2>3, <2>4
<1>5. ASSUME NEW h \in Hosts, handles[t] = NoHost, SH!Fresh(h),
             handles' = [handles EXCEPT ![t] = h],
             proc' = [proc EXCEPT ![h] = "up"],
             owner' = [owner EXCEPT ![h] = t],
             \A d \in Calls : stage[d] # "sent" /\ stage'[d] = "sent" => via'[d] = h
      PROVE  /\ HostsInv'
             /\ KillsLand => \A d \in Calls :
                   stage[d] # "sent" /\ stage'[d] = "sent" => via'[d] \notin exiting'
  <2>1. SH!TypeOK'
    BY <1>1, <1>2, <1>5 DEF SH!TypeOK, SH!ProcStates
  <2>2. /\ ~SH!Alive(h) /\ h \notin exiting /\ h \notin zombie
        /\ \A g \in Hosts : SH!Alive(g)' <=> SH!Alive(g) \/ g = h
        /\ \A u \in Threads : handles[u] # h
    BY <1>5 DEF SH!TypeOK, SH!Fresh, MarksAreAlive, SH!HandlesAreLive
  <2>3. SH!HandlesAreLive' /\ OwnersKnown' /\ MarksAreAlive'
    BY <1>1, <1>5, <2>2 DEF SH!TypeOK, SH!HandlesAreLive, OwnersKnown, MarksAreAlive
  <2>4. SH!OnlyCurrentSpeaks'
    <3> SUFFICES ASSUME NEW g \in Hosts, SH!Alive(g)'
                 PROVE  g \in zombie' <=> handles'[owner'[g]] # g
      BY DEF SH!OnlyCurrentSpeaks
    <3>1. CASE g = h
      BY <1>1, <1>5, <2>2, <3>1 DEF SH!TypeOK
    <3>2. CASE g # h
      BY <1>1, <1>5, <2>2, <3>2 DEF SH!TypeOK, SH!OnlyCurrentSpeaks, OwnersKnown
    <3> QED BY <3>1, <3>2
  <2>5. ASSUME KillsLand
        PROVE  ZombiesTracked' /\ NoHandleBesideZombie' /\ OneZombie' /\ WaitsCover'
    <3>1. zombies[t] = {}
      BY <2>5 DEF ClearToRun
    <3>2. \A g \in Hosts : SH!Alive(g) => owner[g] # t
      BY <1>5, <2>5, <3>1 DEF SH!OnlyCurrentSpeaks, ZombiesTracked, SH!TypeOK
    <3>3. ZombiesTracked' /\ NoHandleBesideZombie' /\ OneZombie'
      BY <1>1, <1>5, <2>2, <2>5, <3>1
      DEF ZombiesTracked, NoHandleBesideZombie, OneZombie, SH!TypeOK
    <3>4. WaitsCover'
      <4> SUFFICES ASSUME NEW d \in Calls, SH!Waiting(d)'
                   PROVE  /\ target'[d] \in Threads
                          /\ \A g \in waits'[d] : SH!Alive(g)' /\ owner'[g] = target'[d]
                          /\ zombies'[target'[d]] \subseteq waits'[d]
                          /\ waits'[d] # {} => handles'[target'[d]] \in waits'[d] \cup {NoHost}
                          /\ waits'[d] = {} => handles'[target'[d]] \notin exiting'
        BY DEF WaitsCover
      <4>1. /\ SH!Waiting(d) /\ target'[d] = target[d] /\ waits'[d] = waits[d]
            /\ target[d] \in Threads /\ waits[d] \subseteq Hosts
            /\ \A g \in waits[d] : SH!Alive(g) /\ owner[g] = target[d]
        BY <1>3, <2>5 DEF WaitsCover, SH!TypeOK
      <4>2. target[d] = t => waits[d] = {}
        BY <3>2, <4>1
      <4>3. CASE target[d] = t
        BY <1>1, <1>5, <2>2, <3>1, <4>1, <4>2, <4>3 DEF SH!TypeOK
      <4>4. CASE target[d] # t
        <5>1. handles'[target[d]] = handles[target[d]]
          BY <1>5, <4>1, <4>4 DEF SH!TypeOK
        <5>2. \A g \in waits[d] : SH!Alive(g)' /\ owner'[g] = target[d]
          BY <1>5, <2>2, <4>1 DEF SH!TypeOK
        <5> QED BY <1>1, <1>3, <2>5, <4>1, <5>1, <5>2 DEF WaitsCover
      <4> QED BY <4>3, <4>4
    <3> QED BY <3>3, <3>4
  <2>6. \A d \in Calls : stage[d] # "sent" /\ stage'[d] = "sent" => via'[d] \notin exiting'
    BY <1>1, <1>5, <2>2
  <2> QED BY <2>1, <2>3, <2>4, <2>5, <2>6
<1>6. \/ UNCHANGED <<handles, proc, owner>>
      \/ \E h \in Hosts :
            /\ handles[t] = NoHost /\ SH!Fresh(h)
            /\ handles' = [handles EXCEPT ![t] = h]
            /\ proc' = [proc EXCEPT ![h] = "up"]
            /\ owner' = [owner EXCEPT ![h] = t]
            /\ \A d \in Calls : stage[d] # "sent" /\ stage'[d] = "sent" => via'[d] = h
  BY DEF SH!EnsureSession, SH!hostVars, SH!TypeOK
<1> QED BY <1>4, <1>5, <1>6

\* The action part of TurnAvoidsDyingHost.
AvoidsDying ==
    KillsLand => \A c \in Calls :
        stage[c] # "sent" /\ stage'[c] = "sent" => via'[c] \notin exiting'

\* prepareTurn once the zombies of t are gone.
LEMMA HostsAwaitReaped ==
    ASSUME HostsInv, NEW c \in Calls, NEW t \in Threads, SH!AwaitReaped(c, t),
           KillsLand => zombies[t] = {}
    PROVE  HostsInv' /\ AvoidsDying
<1>1. CASE handles[t] \in exiting
  <2>1. /\ SH!Suspend(c, t, "exit", {handles[t]})
        /\ {handles[t]} \in SUBSET Hosts
    BY <1>1 DEF SH!AwaitReaped, HostsInv, SH!TypeOK
  <2>2. SH!Alive(handles[t]) /\ owner[handles[t]] = t
    BY <1>1, <2>1 DEF HostsInv, SH!HandlesAreLive
  <2>3. HostsInv'
    BY <2>1, <2>2, HostsSuspend
  <2> QED BY <2>1, <2>3 DEF AvoidsDying, SH!Suspend, HostsInv, SH!TypeOK
<1>2. CASE handles[t] \notin exiting
  BY <1>2, HostsRun DEF SH!AwaitReaped, ClearToRun, AvoidsDying
<1> QED BY <1>1, <1>2

LEMMA HostsBeginTurn ==
    ASSUME HostsInv, NEW c \in Calls, NEW t \in Threads, SH!BeginTurn(c, t)
    PROVE  HostsInv' /\ AvoidsDying
<1>1. CASE zombies[t] = {}
  BY <1>1, HostsAwaitReaped DEF SH!BeginTurn
<1>2. CASE zombies[t] # {}
  <2>1. SH!Suspend(c, t, "zombies", zombies[t]) /\ zombies[t] \in SUBSET Hosts
    BY <1>2 DEF SH!BeginTurn, HostsInv, SH!TypeOK
  <2>2. KillsLand => /\ \A h \in zombies[t] : SH!Alive(h) /\ owner[h] = t
                     /\ handles[t] = NoHost
    BY <1>2, <2>1 DEF HostsInv, ZombiesTracked, MarksAreAlive, NoHandleBesideZombie
  <2>3. HostsInv'
    BY <1>2, <2>1, <2>2, HostsSuspend
  <2> QED BY <2>1, <2>3 DEF AvoidsDying, SH!Suspend, HostsInv, SH!TypeOK
<1> QED BY <1>1, <1>2

LEMMA HostsResume ==
    ASSUME HostsInv, NEW c \in Calls, SH!Resume(c), target[c] \in Threads
    PROVE  HostsInv' /\ AvoidsDying
<1>1. KillsLand => zombies[target[c]] = {} /\ handles[target[c]] \notin exiting
  BY DEF HostsInv, WaitsCover, SH!Resume, SH!Resumable
<1>2. SH!AwaitReaped(c, target[c]) \/ SH!RunTurn(c, target[c])
  BY DEF SH!Resume
<1> QED BY <1>1, <1>2, HostsAwaitReaped, HostsRun DEF ClearToRun, AvoidsDying

\* A call under way knows its conversation, whether or not kills land.
TargetsKnown == \A c \in Calls : stage[c] # "free" => target[c] \in Threads

LEMMA HostsTargets ==
    ASSUME SH!TypeOK, TargetsKnown, [SH!Next]_(SH!vars)
    PROVE  TargetsKnown'
<1>1. ASSUME NEW c \in Calls, NEW t \in Threads,
             SH!BeginTurn(c, t) \/ (SH!Resume(c) /\ t = target[c])
      PROVE  TargetsKnown'
  <2>1. \E s \in SH!Stages : stage' = [stage EXCEPT ![c] = s]
    BY <1>1 DEF SH!BeginTurn, SH!Resume, SH!AwaitReaped, SH!Suspend, SH!RunTurn, SH!Stages
  <2>2. \E u \in {t, NoThread} : target' = [target EXCEPT ![c] = u]
    BY <1>1 DEF SH!BeginTurn, SH!Resume, SH!AwaitReaped, SH!Suspend, SH!RunTurn
  <2>3. target'[c] = NoThread => stage'[c] = "free"
    BY <1>1 DEF SH!BeginTurn, SH!Resume, SH!AwaitReaped, SH!Suspend, SH!RunTurn, SH!TypeOK
  <2> QED BY <2>1, <2>2, <2>3 DEF TargetsKnown, SH!TypeOK
<1>2. ASSUME NEW c \in Calls, NEW t \in Threads, SH!BeginTurn(c, t)
      PROVE  TargetsKnown'
  BY <1>1, <1>2
<1>3. ASSUME NEW c \in Calls, SH!Resume(c)
      PROVE  TargetsKnown'
  <2>1. target[c] \in Threads
    BY <1>3 DEF SH!Resume, SH!Resumable, SH!Waiting, TargetsKnown
  <2> QED BY <1>1, <1>3, <2>1
<1>4. ASSUME NEW c \in Calls, SH!Reply(c) \/ SH!RpcTimeout(c) \/ SH!Finish(c)
      PROVE  TargetsKnown'
  BY <1>4 DEF SH!Reply, SH!RpcTimeout, SH!Finish, TargetsKnown, SH!TypeOK
<1>5. ASSUME NEW h \in Hosts, SH!Overflow(h) \/ SH!Exit(h)
      PROVE  TargetsKnown'
  BY <1>5 DEF SH!Overflow, SH!Exit, SH!RejectPending, TargetsKnown, SH!TypeOK
<1>6. CASE UNCHANGED <<stage, target>>
  BY <1>6 DEF TargetsKnown
<1>7. ASSUME NEW ts \in SUBSET Threads, SH!Kill(ts)
      PROVE  TargetsKnown'
  BY <1>6, <1>7 DEF SH!Kill, SH!callVars
<1>8. ASSUME NEW hs \in SUBSET Hosts, SH!Reap(hs)
      PROVE  TargetsKnown'
  BY <1>6, <1>8 DEF SH!Reap, SH!callVars
<1>9. ASSUME NEW h \in Hosts, SH!Escalate(h)
      PROVE  TargetsKnown'
  BY <1>6, <1>9 DEF SH!Escalate, SH!callVars
<1>10. ASSUME \/ \E t \in Threads, h \in Hosts : SH!ZombieWaitElapsed(t, h)
              \/ \E c \in Calls, h \in Hosts : SH!ExitWaitElapsed(c, h)
       PROVE  TargetsKnown'
  BY <1>6, <1>10 DEF SH!ZombieWaitElapsed, SH!ExitWaitElapsed
<1>11. CASE UNCHANGED SH!vars
  BY <1>6, <1>11 DEF SH!vars, SH!callVars
<1>12. CASE SH!Restart
  BY <1>12 DEF SH!Restart, TargetsKnown
<1> QED BY <1>2, <1>3, <1>4, <1>5, <1>7, <1>8, <1>9, <1>10, <1>11, <1>12 DEF SH!Next

LEMMA HostsNext ==
    ASSUME HostsInv, TargetsKnown, [SH!Next]_(SH!vars)
    PROVE  HostsInv' /\ AvoidsDying
<1>1. ASSUME NEW c \in Calls, NEW t \in Threads, SH!BeginTurn(c, t)
      PROVE  HostsInv' /\ AvoidsDying
  BY <1>1, HostsBeginTurn
<1>2. ASSUME NEW c \in Calls, SH!Resume(c)
      PROVE  HostsInv' /\ AvoidsDying
  <2>1. target[c] \in Threads
    BY <1>2 DEF TargetsKnown, SH!Resume, SH!Resumable, SH!Waiting
  <2> QED BY <1>2, <2>1, HostsResume
<1>3. ASSUME \A c \in Calls : stage'[c] = "sent" => stage[c] = "sent"
      PROVE  AvoidsDying
  BY <1>3 DEF AvoidsDying
<1>4. ASSUME NEW c \in Calls, SH!Reply(c) \/ SH!RpcTimeout(c) \/ SH!Finish(c)
      PROVE  HostsInv' /\ AvoidsDying
  <2>1. \A d \in Calls : stage'[d] = "sent" => stage[d] = "sent"
    BY <1>4 DEF SH!Reply, SH!RpcTimeout, SH!Finish, HostsInv, SH!TypeOK
  <2> QED BY <1>3, <1>4, <2>1, HostsAnswer
<1>5. ASSUME NEW h \in Hosts, SH!Overflow(h) \/ SH!Exit(h) \/ SH!Escalate(h)
      PROVE  HostsInv' /\ AvoidsDying
  <2>1. \A d \in Calls : stage'[d] = "sent" => stage[d] = "sent"
    BY <1>5 DEF SH!Overflow, SH!Exit, SH!Escalate, SH!RejectPending, SH!callVars
  <2> QED BY <1>3, <1>5, <2>1, HostsSignal, HostsExit
<1>6. ASSUME NEW ts \in SUBSET Threads, SH!Kill(ts)
      PROVE  HostsInv' /\ AvoidsDying
  BY <1>3, <1>6, HostsKill DEF SH!Kill, SH!callVars
<1>7. ASSUME NEW hs \in SUBSET Hosts, SH!Reap(hs)
      PROVE  HostsInv' /\ AvoidsDying
  BY <1>3, <1>7, HostsReap DEF SH!Reap, SH!callVars
<1>8. ASSUME \/ \E t \in Threads, h \in Hosts : SH!ZombieWaitElapsed(t, h)
             \/ \E c \in Calls, h \in Hosts : SH!ExitWaitElapsed(c, h)
      PROVE  HostsInv' /\ AvoidsDying
  BY <1>3, <1>8, HostsElapsed DEF SH!ZombieWaitElapsed, SH!ExitWaitElapsed
<1>9. CASE UNCHANGED SH!vars
  BY <1>9 DEF SH!vars, SH!hostVars, SH!callVars, HostsInv, AvoidsDying, SH!TypeOK,
      SH!HandlesAreLive, SH!OnlyCurrentSpeaks, OwnersKnown, MarksAreAlive, ZombiesTracked,
      NoHandleBesideZombie, OneZombie, WaitsCover, SH!Waiting, SH!Alive
<1>10. CASE SH!Restart
  BY <1>3, <1>10, HostsRestart DEF SH!Restart
<1> QED BY <1>1, <1>2, <1>4, <1>5, <1>6, <1>7, <1>8, <1>9, <1>10 DEF SH!Next

\* Two processes of one conversation would be its handle and a zombie, or two
\* zombies; neither pair exists while kills land.
LEMMA InvExcludesTwo == HostsInv => OneProcessPerThread
<1> SUFFICES ASSUME HostsInv, KillsLand, NEW g \in Hosts, NEW h \in Hosts,
                    SH!Alive(g), SH!Alive(h), owner[g] = owner[h]
             PROVE  g = h
  BY DEF OneProcessPerThread, Alive, SH!Alive
<1> DEFINE t == owner[g]
<1>1. t \in Threads
  BY DEF HostsInv, OwnersKnown
<1>2. \A k \in {g, h} : handles[t] = k \/ k \in zombies[t]
  BY <1>1 DEF HostsInv, SH!OnlyCurrentSpeaks, ZombiesTracked
<1> QED BY <1>1, <1>2 DEF HostsInv, NoHandleBesideZombie, OneZombie

-----------------------------------------------------------------------------
\* The inductive invariant of the hosts holds in every reachable state, and a
\* call under way knows its conversation.
THEOREM HostsInvariance == HostsSpec => [](HostsInv /\ TargetsKnown)
<1>1. SH!Init => HostsInv /\ TargetsKnown
  BY HostsInit DEF SH!Init, TargetsKnown
<1>2. HostsInv /\ TargetsKnown /\ [SH!Next]_(SH!vars) => (HostsInv /\ TargetsKnown)'
  BY HostsNext, HostsTargets DEF HostsInv
<1> QED BY <1>1, <1>2, PTL DEF HostsSpec, SH!Spec

\* Every variable of the hosts keeps its type.
THEOREM HostsTyped == HostsSpec => []SH!TypeOK
BY HostsInvariance, PTL DEF HostsInv

\* Exactly the processes the supervisor no longer lists are silenced.
THEOREM ZombieSilence == HostsSpec => []OnlyCurrentSpeaks
<1>1. HostsInv => OnlyCurrentSpeaks
  BY DEF HostsInv, OnlyCurrentSpeaks, SH!OnlyCurrentSpeaks, Alive, SH!Alive
<1> QED BY <1>1, HostsInvariance, PTL

\* The handle map never holds a dead process.
THEOREM LiveHandles == HostsSpec => []HandlesAreLive
<1>1. HostsInv => HandlesAreLive
  BY DEF HostsInv, HandlesAreLive, SH!HandlesAreLive, Alive, SH!Alive
<1> QED BY <1>1, HostsInvariance, PTL

-----------------------------------------------------------------------------
(* Rows and routes *)

\* What the routes need to know of the hosts.
HostFacts ==
    /\ SH!TypeOK
    /\ SH!HandlesAreLive
    /\ \A h \in exiting : SH!Alive(h)
    /\ \A h \in Hosts : SH!Alive(h) => owner[h] \in Threads
    /\ \A c \in Calls : stage[c] # "free" => target[c] \in Threads
    /\ \A c \in Calls : SH!Waiting(c) /\ KillsLand /\ waits[c] = {} =>
          handles[target[c]] \notin exiting

\* The parts of TypeOK the proofs use.
RowsTyped ==
    /\ present  \in SUBSET Threads
    /\ state    \in [Threads -> States]
    /\ status   \in [Threads -> Statuses]
    /\ checking \in SUBSET Hosts

\* A pipeline that is not stale belongs to the current host of its thread.
CheckingCurrent == \A h \in checking : owner[h] \in Threads /\ Fresh(h)

RowInv == RowsTyped /\ CheckingCurrent /\ NoLeakedStreaming

-----------------------------------------------------------------------------
(* Refinement of SessionHosts. *)

LEMMA HostsStep == ASSUME RowsTyped, [Next]_vars PROVE [SH!Next]_(SH!vars)
<1> USE DEF SH!Next, SH!vars, SH!hostVars, SH!callVars, hostVars
<1>1. ASSUME NEW c \in Calls, NEW t \in Threads, Prompt(c, t) \/ Dequeue(c, t)
      PROVE  SH!Next
  BY <1>1 DEF Prompt, Dequeue, Submit
<1>2. ASSUME NEW c \in Calls, NEW t \in Threads, NEW k \in Kinds, Execute(c, t, k)
      PROVE  SH!Next
  BY <1>2 DEF Execute, Submit
<1>3. ASSUME NEW ts \in SUBSET Threads, Stop(ts)
      PROVE  SH!Next
  BY <1>3 DEF Stop
<1>4. ASSUME NEW t \in Threads, Abandon(t) \/ Delete(t)
      PROVE  SH!Next
  BY <1>3, <1>4 DEF Abandon, Delete
<1>5. CASE KillAll
  BY <1>3, <1>5 DEF KillAll, Killable, RowsTyped
<1>6. ASSUME NEW t \in Threads, \/ Enqueue(t) \/ Merge(t)
                            \/ ContractReply(t) \/ OutdatedEnds(t)
      PROVE  UNCHANGED SH!vars
  BY <1>6 DEF Enqueue, Merge, ContractReply, OutdatedEnds, RowStep
<1>7. ASSUME NEW c \in Calls, Resume(c) \/ Reply(c) \/ RpcTimeout(c) \/ Finish(c)
      PROVE  SH!Next
  BY <1>7 DEF Resume, Reply, RpcTimeout, Finish
<1>8. ASSUME NEW h \in Hosts,
             Settle(h) \/ PipelineEnds(h) \/ RetryAnswered(h) \/ HarvestAnswered(h) \/ Block(h)
      PROVE  UNCHANGED SH!vars
  BY <1>8 DEF Settle, PipelineEnds, RetryAnswered, HarvestAnswered, Block, RowStep
<1>9. ASSUME NEW hs \in SUBSET Hosts, Reap(hs)
      PROVE  SH!Next
  BY <1>9 DEF Reap
<1>10. ASSUME NEW h \in Hosts, Overflow(h) \/ Exit(h)
       PROVE  SH!Next
  BY <1>10 DEF Overflow, Exit
<1>11. CASE Timer
  BY <1>11 DEF Timer
<1>12. CASE Restart
  BY <1>12 DEF Restart
<1>13. CASE UNCHANGED vars
  BY <1>13 DEF vars
<1> QED
  BY <1>1, <1>2, <1>4, <1>5, <1>6, <1>7, <1>8, <1>9, <1>10, <1>11, <1>12, <1>13 DEF Next

LEMMA RowsTypedStep == ASSUME RowsTyped, [Next]_vars PROVE RowsTyped'
<1> USE DEF RowsTyped, States, Statuses
<1>1. ASSUME NEW c \in Calls, NEW t \in Threads, NEW k, TurnOf(c, t, k)
      PROVE  /\ present' = present
             /\ state' \in [Threads -> States]
             /\ checking' \in SUBSET Hosts
  BY <1>1 DEF TurnOf, TurnEffects, Outdate, SetState
<1>2. ASSUME NEW c \in Calls, NEW t \in Threads, Prompt(c, t) \/ Dequeue(c, t)
      PROVE  RowsTyped'
  BY <1>1, <1>2 DEF Prompt, Dequeue, Submit
<1>3. ASSUME NEW c \in Calls, NEW t \in Threads, NEW k \in Kinds, Execute(c, t, k)
      PROVE  RowsTyped'
  BY <1>1, <1>3 DEF Execute, Submit
<1>4. ASSUME NEW c \in Calls, Resume(c) \/ Reply(c) \/ RpcTimeout(c) \/ Finish(c)
      PROVE  RowsTyped'
  <2>1. CASE Resume(c)
    BY <2>1 DEF Resume, TurnOf, TurnEffects, Outdate, SetState
  <2>2. CASE Reply(c) \/ RpcTimeout(c)
    BY <2>2 DEF Reply, RpcTimeout, rowVars, pipeVars
  <2>3. CASE Finish(c)
    BY <2>3 DEF Finish, FinishPrompt, FinishQueued, FinishExecution, Degrade, Review, SetState,
               pipeVars
  <2> QED BY <1>4, <2>1, <2>2, <2>3
<1>5. ASSUME NEW t \in Threads, \/ Enqueue(t) \/ Merge(t)
                            \/ ContractReply(t) \/ OutdatedEnds(t)
      PROVE  RowsTyped'
  BY <1>5 DEF Enqueue, Merge, ContractReply, OutdatedEnds, RowStep, SetState, pipeVars
<1>6. ASSUME NEW t \in Threads, Abandon(t) \/ Delete(t)
      PROVE  RowsTyped'
  BY <1>6 DEF Abandon, Delete, Stop, Outdate, Landed
<1>7. CASE KillAll
  BY <1>7 DEF KillAll, Stop, Outdate
<1>8. ASSUME NEW h \in Hosts,
             Settle(h) \/ PipelineEnds(h) \/ RetryAnswered(h) \/ HarvestAnswered(h) \/ Block(h)
      PROVE  RowsTyped'
  BY <1>8 DEF Settle, PipelineEnds, RetryAnswered, HarvestAnswered, Block, RowStep, SetState,
              SettleRunning, Review, Degrade, pipeVars
<1>9. ASSUME NEW hs \in SUBSET Hosts, Reap(hs)
      PROVE  RowsTyped'
  BY <1>9 DEF Reap, Outdate
<1>10. ASSUME NEW h \in Hosts, Overflow(h) \/ Exit(h)
       PROVE  RowsTyped'
  BY <1>10 DEF Overflow, Exit, Outdate, Degrade, SetState
<1>11. CASE Timer \/ Restart \/ UNCHANGED vars
  BY <1>11 DEF Timer, Restart, vars, rowVars, pipeVars
<1> QED
  BY <1>2, <1>3, <1>4, <1>5, <1>6, <1>7, <1>8, <1>9, <1>10, <1>11 DEF Next

LEMMA RowsTypedInit == Init => RowsTyped
BY DEF Init, RowsTyped, States, Statuses

-----------------------------------------------------------------------------
(* Streaming rows have a live host. *)

\* A step of a turn either leaves the hosts alone, or registers a host that is
\* not being torn down; a spawned one was no process before.
LEMMA TurnOutcome ==
    ASSUME HostFacts, NEW c \in Calls, NEW t \in Threads,
           SH!BeginTurn(c, t) \/ (SH!Resume(c) /\ t = target[c])
    PROVE  \/ /\ stage'[c] \notin {"sent", "free"}
              /\ UNCHANGED <<handles, proc, owner, exiting>>
           \/ /\ stage'[c] \in {"sent", "free"}
              /\ UNCHANGED exiting
              /\ \E h \in Hosts :
                    /\ handles' = [handles EXCEPT ![t] = h]
                    /\ KillsLand => h \notin exiting
                    /\ \/ handles[t] = h /\ UNCHANGED <<proc, owner>>
                       \/ /\ handles[t] = NoHost
                          /\ proc[h] = "none"
                          /\ owner' = [owner EXCEPT ![h] = t]
<1> USE DEF HostFacts, SH!TypeOK, SH!Stages
<1>1. ASSUME SH!RunTurn(c, t), KillsLand => handles[t] \notin exiting
      PROVE  \/ /\ stage'[c] \notin {"sent", "free"}
                /\ UNCHANGED <<handles, proc, owner, exiting>>
             \/ /\ stage'[c] \in {"sent", "free"}
                /\ UNCHANGED exiting
                /\ \E h \in Hosts :
                      /\ handles' = [handles EXCEPT ![t] = h]
                      /\ KillsLand => h \notin exiting
                      /\ \/ handles[t] = h /\ UNCHANGED <<proc, owner>>
                         \/ /\ handles[t] = NoHost
                            /\ proc[h] = "none"
                            /\ owner' = [owner EXCEPT ![h] = t]
  <2>1. ASSUME NEW h \in Hosts, SH!EnsureSession(t, h), stage'[c] \in {"sent", "free"}
        PROVE  /\ UNCHANGED exiting
               /\ handles' = [handles EXCEPT ![t] = h]
               /\ KillsLand => h \notin exiting
               /\ \/ handles[t] = h /\ UNCHANGED <<proc, owner>>
                  \/ /\ handles[t] = NoHost
                     /\ proc[h] = "none"
                     /\ owner' = [owner EXCEPT ![h] = t]
    BY <1>1, <2>1 DEF SH!EnsureSession, SH!Fresh, SH!Alive
  <2>2. CASE \E h \in Hosts : SH!EnsureSession(t, h) /\ stage'[c] \in {"sent", "free"}
    BY <2>1, <2>2
  <2>3. CASE stage' = [stage EXCEPT ![c] = "failed"] /\ UNCHANGED SH!hostVars
    BY <2>3 DEF SH!hostVars
  <2> QED BY <1>1, <2>2, <2>3 DEF SH!RunTurn
<1>2. ASSUME NEW s \in {"zombies", "exit"}, NEW hs, SH!Suspend(c, t, s, hs)
      PROVE  stage'[c] \notin {"sent", "free"} /\ UNCHANGED <<handles, proc, owner, exiting>>
  BY <1>2 DEF SH!Suspend, SH!hostVars
<1>3. SH!Resume(c) => /\ KillsLand => handles[target[c]] \notin exiting
                      /\ SH!AwaitReaped(c, target[c]) \/ SH!RunTurn(c, target[c])
  BY DEF SH!Resume, SH!Resumable
<1>4. CASE SH!AwaitReaped(c, t)
  BY <1>1, <1>2, <1>4 DEF SH!AwaitReaped
<1>5. CASE SH!Suspend(c, t, "zombies", zombies[t])
  BY <1>2, <1>5
<1>6. CASE SH!RunTurn(c, t) /\ (KillsLand => handles[t] \notin exiting)
  BY <1>1, <1>6
<1> QED BY <1>3, <1>4, <1>5, <1>6 DEF SH!BeginTurn

\* Rows and pipelines after a step of a turn.
LEMMA TurnStep ==
    ASSUME HostFacts, RowInv, NEW c \in Calls, NEW t \in Threads, NEW k, TurnOf(c, t, k),
           SH!BeginTurn(c, t) \/ (SH!Resume(c) /\ t = target[c])
    PROVE  CheckingCurrent' /\ NoLeakedStreaming'
<1> USE DEF RowInv, RowsTyped, HostFacts, SH!TypeOK, Live, Streaming
<1>1. CASE stage'[c] \notin {"sent", "free"} /\ UNCHANGED <<handles, proc, owner, exiting>>
  BY <1>1 DEF TurnOf, TurnEffects, CheckingCurrent, NoLeakedStreaming, Fresh
<1>2. ASSUME stage'[c] \in {"sent", "free"}, UNCHANGED exiting, NEW h \in Hosts,
             handles' = [handles EXCEPT ![t] = h],
             KillsLand => h \notin exiting,
             \/ handles[t] = h /\ UNCHANGED <<proc, owner>>
             \/ handles[t] = NoHost /\ proc[h] = "none" /\ owner' = [owner EXCEPT ![h] = t]
      PROVE  CheckingCurrent' /\ NoLeakedStreaming'
  <2>1. /\ present' = present
        /\ state' = IF t \in present THEN [state EXCEPT ![t] = "streaming"] ELSE state
        /\ checking' = checking \ {h}
    BY <1>2 DEF TurnOf, TurnEffects, Outdate, SetState
  <2>2. CheckingCurrent'
    BY <1>2, <2>1 DEF CheckingCurrent, Fresh
  <2>3. NoLeakedStreaming'
    BY <1>2, <2>1 DEF NoLeakedStreaming
  <2> QED BY <2>2, <2>3
<1> QED BY <1>1, <1>2, TurnOutcome

\* The steps that leave hosts alone or only signal them, and write no row
\* streaming unless its host is up.
LEMMA QuietStep ==
    ASSUME RowInv, RowsTyped', UNCHANGED <<handles, owner, exiting, present>>,
           \A h \in checking' : h \in checking \/ (owner[h] \in Threads /\ Fresh(h)),
           \A t \in Threads : state'[t] = "streaming" =>
               state[t] = "streaming" \/ (Live(t) /\ handles[t] \notin exiting)
    PROVE  RowInv'
BY DEF RowInv, RowsTyped, CheckingCurrent, NoLeakedStreaming, Fresh, Live, Streaming

LEMMA StopStep ==
    ASSUME HostFacts, RowInv, RowsTyped', NEW ts \in SUBSET Threads, Stop(ts),
           present' \subseteq present,
           \A t \in present' : state'[t] = "streaming" => t \notin ts /\ state[t] = "streaming"
    PROVE  RowInv'
<1> USE DEF RowInv, RowsTyped, HostFacts, SH!TypeOK
<1>1. /\ handles' = [t \in Threads |-> IF t \in ts THEN NoHost ELSE handles[t]]
      /\ exiting' = exiting \cup ({handles[t] : t \in ts} \ {NoHost})
      /\ checking' = checking \ {handles[t] : t \in ts}
      /\ UNCHANGED owner
  BY DEF Stop, Outdate, SH!Kill, SH!KillChildren, SH!Killed
<1>2. \A t, u \in Threads : handles[t] = handles[u] /\ handles[t] # NoHost => t = u
  BY DEF SH!HandlesAreLive
<1>3. CheckingCurrent'
  BY <1>1, <1>2 DEF CheckingCurrent, Fresh
<1>4. NoLeakedStreaming'
  BY <1>1, <1>2 DEF NoLeakedStreaming, Live, Streaming
<1> QED BY <1>3, <1>4

LEMMA ReapStep ==
    ASSUME RowInv, RowsTyped', NEW hs \in SUBSET Hosts, Reap(hs)
    PROVE  RowInv'
<1> USE DEF RowInv, RowsTyped
<1>1. /\ exiting' = exiting \cup hs
      /\ UNCHANGED <<handles, owner, present>>
      /\ checking' = checking \ hs
      /\ state' = [t \in Threads |-> IF t \in Streaming /\ handles[t] \in hs THEN "degraded"
                                                                           ELSE state[t]]
  BY DEF Reap, Outdate, SH!Reap
<1>2. CheckingCurrent'
  BY <1>1 DEF CheckingCurrent, Fresh
<1>3. NoLeakedStreaming'
  BY <1>1 DEF NoLeakedStreaming, Live, Streaming
<1> QED BY <1>2, <1>3

LEMMA ExitStep ==
    ASSUME HostFacts, RowInv, RowsTyped', NEW h \in Hosts, Exit(h)
    PROVE  RowInv'
<1> USE DEF RowInv, RowsTyped, HostFacts, SH!TypeOK
<1>1. /\ handles' = [t \in Threads |-> IF handles[t] = h THEN NoHost ELSE handles[t]]
      /\ owner' = [owner EXCEPT ![h] = NoThread]
      /\ exiting' = exiting \ {h}
      /\ checking' = checking \ {h}
      /\ UNCHANGED present
  BY DEF Exit, Outdate, SH!Exit, SH!Forget
<1>2. \A t \in Threads : handles[t] = h => owner[h] = t
  BY DEF SH!HandlesAreLive
<1>3. CheckingCurrent'
  BY <1>1, <1>2 DEF CheckingCurrent, Fresh
<1>4. \A t \in Threads : state'[t] = "streaming" => state[t] = "streaming"
  BY DEF Exit, Degrade, SetState
<1>5. \A t \in present : Fresh(h) /\ owner[h] = t => state'[t] = "degraded"
  BY DEF Exit, Degrade, SetState
<1>6. NoLeakedStreaming'
  BY <1>1, <1>2, <1>4, <1>5 DEF NoLeakedStreaming, Live, Streaming, Fresh
<1> QED BY <1>3, <1>6

LEMMA RowStepKeepsInv == ASSUME HostFacts, RowInv, [Next]_vars PROVE RowInv'
<1>1. RowsTyped'
  BY RowsTypedStep DEF RowInv
<1> USE DEF RowInv
<1>2. ASSUME NEW c \in Calls, NEW t \in Threads, Prompt(c, t) \/ Dequeue(c, t)
      PROVE  RowInv'
  BY <1>1, <1>2, TurnStep DEF Prompt, Dequeue, Submit
<1>3. ASSUME NEW c \in Calls, NEW t \in Threads, NEW k \in Kinds, Execute(c, t, k)
      PROVE  RowInv'
  BY <1>1, <1>3, TurnStep DEF Execute, Submit
<1>4. ASSUME NEW c \in Calls, Resume(c)
      PROVE  RowInv'
  <2>1. target[c] \in Threads
    BY <1>4 DEF HostFacts, Resume, SH!Resume, SH!Resumable, SH!Waiting
  <2> QED BY <1>1, <1>4, <2>1, TurnStep DEF Resume
<1>5. ASSUME NEW c \in Calls, Reply(c) \/ RpcTimeout(c) \/ Finish(c)
      PROVE  RowInv'
  <2>1. UNCHANGED <<handles, owner, exiting, present, checking>>
    BY <1>5 DEF Reply, RpcTimeout, Finish, SH!Reply, SH!RpcTimeout, SH!Finish, SH!hostVars,
                rowVars, pipeVars
  <2>2. \A t \in Threads : state'[t] = "streaming" => state[t] = "streaming"
    BY <1>5 DEF RowsTyped, Reply, RpcTimeout, Finish, FinishPrompt, FinishQueued,
                FinishExecution, Degrade, SetState, rowVars
  <2> QED BY <1>1, <2>1, <2>2, QuietStep
<1>6. ASSUME NEW t \in Threads, \/ Enqueue(t) \/ Merge(t)
                            \/ ContractReply(t) \/ OutdatedEnds(t)
      PROVE  RowInv'
  <2>1. UNCHANGED <<handles, owner, exiting, present, checking>>
    BY <1>6 DEF Enqueue, Merge, ContractReply, OutdatedEnds, RowStep, hostVars, pipeVars
  <2>2. \A u \in Threads : state'[u] = "streaming" =>
            state[u] = "streaming" \/ (Live(u) /\ handles[u] \notin exiting)
    BY <1>6 DEF RowsTyped, Enqueue, Merge, ContractReply, OutdatedEnds, SetState
  <2> QED BY <1>1, <2>1, <2>2, QuietStep
<1>7. ASSUME NEW t \in Threads, Abandon(t) \/ Delete(t)
      PROVE  RowInv'
  <2>1. Stop({t}) /\ present' \subseteq present
    BY <1>7 DEF Abandon, Delete
  <2>2. \A u \in present' : state'[u] = "streaming" => u # t /\ state[u] = "streaming"
    BY <1>7 DEF RowsTyped, Abandon, Delete, Landed
  <2> QED BY <1>1, <2>1, <2>2, StopStep
<1>8. CASE KillAll
  <2>1. Killable \in SUBSET Threads
    BY DEF RowsTyped, Killable
  <2>2. \A t \in present : state'[t] = "streaming" => t \notin Killable /\ state[t] = "streaming"
    BY <1>8 DEF RowsTyped, KillAll
  <2> QED BY <1>1, <1>8, <2>1, <2>2, StopStep DEF KillAll
<1>9. ASSUME NEW h \in Hosts, Settle(h)
      PROVE  RowInv'
  <2>1. /\ UNCHANGED <<handles, owner, exiting, present>>
        /\ owner[h] \in Threads
        /\ checking' \in {checking, checking \cup {g \in {h} : Fresh(g)}}
        /\ \A t \in Threads : state'[t] = "streaming" => state[t] = "streaming"
    BY <1>9 DEF RowsTyped, HostFacts, Settle, Speaks, RowStep, SetState, hostVars
  <2> QED BY <1>1, <2>1, QuietStep
<1>10. ASSUME NEW h \in Hosts, PipelineEnds(h)
       PROVE  RowInv'
  <2>1. /\ UNCHANGED <<handles, owner, exiting, present>>
        /\ checking' = checking \ {h}
        /\ state' \in {state, [state EXCEPT ![owner[h]] = "streaming"]}
    BY <1>10 DEF PipelineEnds, RowStep, SetState, hostVars
  <2>2. Live(owner[h]) /\ handles[owner[h]] \notin exiting
    BY <1>10 DEF PipelineEnds, CheckingCurrent, Fresh, Live
  <2> QED BY <1>1, <2>1, <2>2, QuietStep DEF RowsTyped
<1>11. ASSUME NEW h \in Hosts, RetryAnswered(h) \/ HarvestAnswered(h) \/ Block(h) \/ Overflow(h)
       PROVE  RowInv'
  <2>1. UNCHANGED <<handles, owner, exiting, present, checking>>
    BY <1>11 DEF RetryAnswered, HarvestAnswered, Block, Overflow, SH!Overflow, RowStep, hostVars,
                 pipeVars
  <2>2. \A t \in Threads : state'[t] = "streaming" => state[t] = "streaming"
    BY <1>11 DEF RowsTyped, RetryAnswered, HarvestAnswered, Block, Overflow, Degrade, SetState
  <2> QED BY <1>1, <2>1, <2>2, QuietStep
<1>12. CASE Timer \/ UNCHANGED vars
  <2>1. UNCHANGED <<handles, owner, exiting, present, checking, state>>
    BY <1>12 DEF Timer, SH!Escalate, SH!ZombieWaitElapsed, SH!ExitWaitElapsed, SH!hostVars,
                 vars, hostVars, rowVars, pipeVars
  <2> QED BY <1>1, <2>1, QuietStep
<1>13. CASE Restart
  BY <1>1, <1>13 DEF Restart, RowsTyped, CheckingCurrent, NoLeakedStreaming, Streaming
<1> QED
  BY <1>2, <1>3, <1>4, <1>5, <1>6, <1>7, <1>8, <1>9, <1>10, <1>11, <1>12, <1>13,
     <1>1, ReapStep, ExitStep DEF Next

LEMMA HostFactsHold == HostsInv /\ TargetsKnown => HostFacts
BY DEF HostFacts, HostsInv, TargetsKnown, MarksAreAlive, OwnersKnown, WaitsCover

-----------------------------------------------------------------------------
\* Rows, routes, queue and pipelines only ever move the hosts as SessionHosts
\* says they move.
THEOREM HostsRefined == Spec => HostsSpec
<1>1. Init => SH!Init /\ RowsTyped
  BY RowsTypedInit DEF Init
<1>2. RowsTyped /\ [Next]_vars => RowsTyped'
  BY RowsTypedStep
<1>3. RowsTyped /\ [Next]_vars => [SH!Next]_(SH!vars)
  BY HostsStep
<1> QED BY <1>1, <1>2, <1>3, PTL DEF Spec, HostsSpec, SH!Spec

\* Rows and routes never bring a second process to a thread.
THEOREM ProcessUniqueness == Spec => []OneProcessPerThread
BY HostsRefined, HostsInvariance, InvExcludesTwo, PTL

\* No route or retry writes a turn into a child that is being torn down.
THEOREM DyingHostAvoided == Spec => TurnAvoidsDyingHost
<1>1. HostsInv /\ TargetsKnown /\ [SH!Next]_(SH!vars) => [AvoidsDying]_(SH!vars)
  BY HostsNext
<1>2. HostsSpec => SH!TurnAvoidsDyingHost
  BY <1>1, HostsInvariance, PTL DEF HostsSpec, SH!Spec, SH!TurnAvoidsDyingHost, AvoidsDying
<1> QED BY <1>2, HostsRefined, PTL DEF TurnAvoidsDyingHost

\* What is proved of the hosts holds under rows and routes.
LEMMA HostFactsAlways == Spec => []HostFacts
BY HostsRefined, HostsInvariance, HostFactsHold, PTL

LEMMA RowInvAlways == Spec => []RowInv
<1>1. Init => RowInv
  BY RowsTypedInit DEF Init, RowInv, CheckingCurrent, NoLeakedStreaming, Streaming
<1>2. HostFacts /\ RowInv /\ [Next]_vars => RowInv'
  BY RowStepKeepsInv
<1> QED BY <1>1, <1>2, HostFactsAlways, PTL DEF Spec

\* No row is left streaming without a host that can end its turn.
THEOREM NoTurnLeaks == Spec => []NoLeakedStreaming
BY RowInvAlways, PTL DEF RowInv

\* The action part of DecisionsSurviveTurns, and the steps it is about: those
\* that put a closed (merged or abandoned) thread back to reviewed.
Reopens(t) == status[t] \in Terminal /\ status'[t] = "reviewed"
Kept ==
    \A t \in Threads : Reopens(t) =>
        \E c \in Calls : target[c] = t /\ kind[c] \in {"approve", "retry"}

LEMMA StatusStep == ASSUME RowsTyped, [Next]_vars PROVE Kept
<1> USE DEF RowsTyped, Terminal, Reopens
<1>1. ASSUME \A t \in Threads : ~Reopens(t)
      PROVE  Kept
  BY <1>1 DEF Kept
<1>2. ASSUME NEW c \in Calls, Finish(c)
      PROVE  Kept
  <2>1. CASE FinishPrompt(c) \/ FinishQueued(c)
    <3>1. \A t \in Threads : ~Reopens(t)
      BY <1>2, <2>1 DEF FinishPrompt, FinishQueued, Review
    <3> QED BY <1>1, <1>2, <3>1
  <2>2. CASE FinishExecution(c)
    <3>1. \A t \in Threads : status'[t] # status[t] => t = target[c]
      BY <1>2, <2>2 DEF FinishExecution, Review
    <3> QED BY <2>2, <3>1 DEF Kept, FinishExecution
  <2> QED BY <1>2, <2>1, <2>2 DEF Finish
<1>3. ASSUME NEW h \in Hosts, PipelineEnds(h) \/ Settle(h)
      PROVE  \A t \in Threads : ~Reopens(t)
  BY <1>3 DEF PipelineEnds, Settle, SettleRunning, Review
<1>4. ASSUME NEW t \in Threads,
             Enqueue(t) \/ Abandon(t) \/ Delete(t) \/ Merge(t) \/ ContractReply(t)
      PROVE  \A u \in Threads : ~Reopens(u)
  BY <1>4 DEF Enqueue, Abandon, Delete, Merge, ContractReply
<1>5. ASSUME NEW c \in Calls, NEW t \in Threads, NEW k \in Kinds,
             Prompt(c, t) \/ Dequeue(c, t) \/ Execute(c, t, k)
      PROVE  \A u \in Threads : ~Reopens(u)
  BY <1>5 DEF Prompt, Dequeue, Execute
<1>6. ASSUME KillAll
      PROVE  \A t \in Threads : ~Reopens(t)
  BY <1>6 DEF KillAll
<1>7. UNCHANGED status => \A t \in Threads : ~Reopens(t)
  OBVIOUS
<1>8. ASSUME NEW c \in Calls, Resume(c) \/ Reply(c) \/ RpcTimeout(c)
      PROVE  UNCHANGED status
  BY <1>8 DEF Resume, Reply, RpcTimeout, rowVars
<1>9. ASSUME NEW h \in Hosts,
             RetryAnswered(h) \/ HarvestAnswered(h) \/ Block(h) \/ Overflow(h) \/ Exit(h)
      PROVE  UNCHANGED status
  BY <1>9 DEF RetryAnswered, HarvestAnswered, Block, Overflow, Exit
<1>10. ASSUME NEW hs \in SUBSET Hosts, Reap(hs)
       PROVE  UNCHANGED status
  BY <1>10 DEF Reap
<1>11. ASSUME NEW t \in Threads, OutdatedEnds(t)
       PROVE  UNCHANGED status
  BY <1>11 DEF OutdatedEnds
<1>12. Timer \/ Restart \/ UNCHANGED vars => UNCHANGED status
  BY DEF Timer, Restart, vars, rowVars
<1>13. Kinds # {}
  BY DEF Kinds
<1> HIDE DEF RowsTyped, Terminal, Reopens
<1> QED
  BY <1>1, <1>2, <1>3, <1>4, <1>5, <1>6, <1>7, <1>8, <1>9, <1>10, <1>11, <1>12, <1>13 DEF Next

\* Only a failed approve or retry puts a merged or abandoned thread back.
THEOREM DecisionsKept == Spec => DecisionsSurviveTurns
<1>1. RowsTyped /\ [Next]_vars => RowsTyped'
  BY RowsTypedStep
<1>2. RowsTyped /\ [Next]_vars => [Kept]_vars
  BY StatusStep
<1> QED BY <1>1, <1>2, RowsTypedInit, PTL DEF Spec, DecisionsSurviveTurns, Kept, Reopens
-----------------------------------------------------------------------------
(* Types, queue and pipelines.                                               *)

\* The parts of TypeOK that RowsTyped leaves, with what makes them inductive:
\* a queued prompt is for a thread that has a row, and a send of a pipeline
\* that is not answered yet is to a process that runs.
Known ==
    /\ orphans  \in SUBSET Threads
    /\ outdated \in SUBSET Threads
    /\ queue    \in Seq(present)
    /\ kind     \in [Calls -> Kinds \cup {"none"}]
    /\ retrying \cup harvesting \subseteq {h \in Hosts : SH!Alive(h)}

\* A call, a host or a stale pipeline is in flight for the thread.
InFlight(t) ==
    \/ \E c \in Calls : target[c] = t
    \/ \E h \in Hosts : owner[h] = t
    \/ t \in outdated

\* Events are published only for a thread something is in flight for.
Published == \A t \in orphans' \ orphans : t \in Threads /\ InFlight(t)

LEMMA KnownInit == Init => Known
BY DEF Init, Known, Kinds

\* What is in flight for the thread of an event is the reason.
LEMMA PublishedFor ==
    ASSUME NEW t \in Threads, orphans' \subseteq orphans \cup {t}, InFlight(t)
    PROVE  Published
BY DEF Published

LEMMA HostPublishes ==
    ASSUME HostFacts, NEW h \in Hosts, SH!Alive(h), orphans' \subseteq orphans \cup {owner[h]}
    PROVE  Published
BY PublishedFor DEF HostFacts, InFlight

LEMMA PublishedStep ==
    ASSUME HostFacts, RowInv, Known, [Next]_vars
    PROVE  Published
<1> USE DEF Published
<1>1. ASSUME NEW c \in Calls, NEW t \in present, NEW k, TurnOf(c, t, k)
      PROVE  orphans' = orphans
  BY <1>1 DEF TurnOf, TurnEffects, SetState
<1>2. ASSUME NEW c \in Calls, NEW t \in Threads, Prompt(c, t) \/ Dequeue(c, t)
      PROVE  Published
  <2>1. t \in present
    BY <1>2 DEF Prompt, Dequeue, Known
  <2> QED BY <1>1, <1>2, <2>1 DEF Prompt, Dequeue, Submit
<1>3. ASSUME NEW c \in Calls, NEW t \in Threads, NEW k \in Kinds, Execute(c, t, k)
      PROVE  Published
  BY <1>1, <1>3 DEF Execute, Submit
<1>4. ASSUME NEW c \in Calls, Resume(c) \/ Finish(c)
      PROVE  Published
  <2>1. target[c] \in Threads
    BY <1>4 DEF HostFacts, Resume, Finish, SH!Resume, SH!Resumable, SH!Waiting, SH!Finish
  <2>2. orphans' \subseteq orphans \cup {target[c]}
    BY <1>4 DEF Resume, TurnOf, TurnEffects, SetState, Finish, FinishPrompt, FinishQueued,
                FinishExecution, Degrade
  <2> QED BY <2>1, <2>2, PublishedFor DEF InFlight
<1>5. ASSUME NEW t \in Threads, ContractReply(t)
      PROVE  Published
  <2>1. handles[t] \in Hosts /\ owner[handles[t]] = t
    BY <1>5 DEF HostFacts, SH!TypeOK, SH!HandlesAreLive, ContractReply, Live
  <2>2. orphans' \subseteq orphans \cup {t}
    BY <1>5 DEF ContractReply, SetState
  <2> QED BY <2>1, <2>2, PublishedFor DEF InFlight
<1>6. ASSUME NEW h \in Hosts, Settle(h) \/ Block(h)
      PROVE  Published
  <2>1. SH!Alive(h) /\ orphans' \subseteq orphans \cup {owner[h]}
    BY <1>6 DEF Settle, Block, Speaks, SetState
  <2> QED BY <2>1, HostPublishes
<1>7. ASSUME NEW h \in Hosts, PipelineEnds(h)
      PROVE  Published
  <2>1. owner[h] \in Threads
    BY <1>7 DEF RowInv, CheckingCurrent, PipelineEnds
  <2>2. orphans' \subseteq orphans \cup {owner[h]}
    BY <1>7 DEF PipelineEnds, SetState
  <2> QED BY <2>1, <2>2, PublishedFor DEF InFlight
<1>8. ASSUME NEW h \in Hosts, RetryAnswered(h) \/ HarvestAnswered(h)
      PROVE  Published
  <2>1. SH!Alive(h) /\ orphans' \subseteq orphans \cup {owner[h]}
    BY <1>8 DEF Known, RetryAnswered, HarvestAnswered, Degrade, SetState
  <2> QED BY <2>1, HostPublishes
<1>9. ASSUME NEW h \in Hosts, Overflow(h) \/ Exit(h)
      PROVE  Published
  <2>1. SH!Alive(h) /\ orphans' \subseteq orphans \cup {owner[h]}
    BY <1>9 DEF Overflow, Exit, SH!Overflow, SH!Exit, SH!Alive, Degrade, SetState
  <2> QED BY <2>1, HostPublishes
<1>10. ASSUME NEW t \in Threads, Enqueue(t) \/ Abandon(t) \/ Delete(t) \/ Merge(t)
       PROVE  orphans' = orphans
  BY <1>10 DEF Enqueue, Abandon, Delete, Merge
<1>11. ASSUME NEW c \in Calls, Reply(c) \/ RpcTimeout(c)
       PROVE  orphans' = orphans
  BY <1>11 DEF Reply, RpcTimeout, rowVars
<1>12. ASSUME NEW hs \in SUBSET Hosts, Reap(hs)
       PROVE  orphans' = orphans
  BY <1>12 DEF Reap
<1>13. ASSUME NEW t \in Threads, OutdatedEnds(t)
       PROVE  Published
  <2>1. orphans' \subseteq orphans \cup {t} /\ InFlight(t)
    BY <1>13 DEF OutdatedEnds, InFlight
  <2> QED BY <2>1, PublishedFor
<1>14. KillAll \/ Timer \/ Restart \/ UNCHANGED vars => orphans' = orphans
  BY DEF KillAll, Timer, Restart, vars, rowVars
<1> QED
  BY <1>2, <1>3, <1>4, <1>5, <1>6, <1>7, <1>8, <1>9, <1>10, <1>11, <1>12, <1>13,
     <1>14 DEF Next

\* The queue names threads that have a row: a deletion removes its own prompts.
LEMMA QueueStep ==
    ASSUME RowsTyped, Known, [Next]_vars
    PROVE  queue' \in Seq(present')
<1> USE DEF Known
<1>1. CASE UNCHANGED <<queue, present>>
  BY <1>1
<1>2. ASSUME NEW c \in Calls, NEW t \in Threads, Dequeue(c, t)
      PROVE  queue' \in Seq(present')
  BY <1>2 DEF Dequeue, Submit, TurnOf
<1>3. ASSUME NEW t \in Threads, Enqueue(t)
      PROVE  queue' \in Seq(present')
  BY <1>3 DEF Enqueue
<1>4. ASSUME NEW t \in Threads, Abandon(t)
      PROVE  queue' \in Seq(present')
  <2>1. queue' \in Seq(present \ {t})
    BY <1>4, WithoutFacts DEF Abandon
  <2> QED BY <1>4, <2>1 DEF Abandon
<1>5. ASSUME NEW t \in Threads, Delete(t)
      PROVE  queue' \in Seq(present')
  BY <1>5, WithoutFacts DEF Delete
<1>6. CASE KillAll
  BY <1>6 DEF KillAll
<1>7. ASSUME NEW c \in Calls, NEW t \in Threads, NEW k \in Kinds,
             Prompt(c, t) \/ Execute(c, t, k)
      PROVE  UNCHANGED <<queue, present>>
  BY <1>7 DEF Prompt, Execute, Submit, TurnOf
<1>8. ASSUME NEW c \in Calls, Resume(c) \/ Reply(c) \/ RpcTimeout(c) \/ Finish(c)
      PROVE  UNCHANGED <<queue, present>>
  BY <1>8 DEF Resume, TurnOf, Reply, RpcTimeout, Finish, rowVars
<1>9. ASSUME NEW t \in Threads, Merge(t) \/ ContractReply(t) \/ OutdatedEnds(t)
      PROVE  UNCHANGED <<queue, present>>
  BY <1>9 DEF Merge, ContractReply, OutdatedEnds, RowStep
<1>10. ASSUME NEW h \in Hosts, \/ Settle(h) \/ PipelineEnds(h) \/ RetryAnswered(h)
                               \/ HarvestAnswered(h) \/ Block(h) \/ Overflow(h) \/ Exit(h)
       PROVE  UNCHANGED <<queue, present>>
  BY <1>10 DEF Settle, PipelineEnds, RetryAnswered, HarvestAnswered, Block, RowStep, Overflow, Exit
<1>11. ASSUME NEW hs \in SUBSET Hosts, Reap(hs)
       PROVE  UNCHANGED <<queue, present>>
  BY <1>11 DEF Reap
<1>12. Timer \/ Restart \/ UNCHANGED vars => UNCHANGED <<queue, present>>
  BY DEF Timer, Restart, vars, rowVars
<1>13. Kinds # {}
  BY DEF Kinds
<1> HIDE DEF Known
<1> QED
  BY <1>1, <1>2, <1>3, <1>4, <1>5, <1>6, <1>7, <1>8, <1>9, <1>10, <1>11, <1>12, <1>13 DEF Next

\* Sends of a pipeline end with their process.
LEMMA PipesStep ==
    ASSUME HostFacts, RowInv, Known, [Next]_vars
    PROVE  retrying' \cup harvesting' \subseteq {h \in Hosts : SH!Alive(h)'}
<1> DEFINE Pipes == retrying \cup harvesting
<1> USE DEF HostFacts, SH!TypeOK, SH!Alive
<1> SUFFICES ASSUME NEW h \in Pipes'
             PROVE  h \in Hosts /\ SH!Alive(h)'
  OBVIOUS
<1>1. ASSUME UNCHANGED proc, Pipes' \subseteq Pipes
      PROVE  h \in Hosts /\ SH!Alive(h)'
  BY <1>1 DEF Known
<1>2. ASSUME NEW c \in Calls, NEW t \in Threads,
             SH!BeginTurn(c, t) \/ (SH!Resume(c) /\ t = target[c]),
             UNCHANGED <<retrying, harvesting>>
      PROVE  h \in Hosts /\ SH!Alive(h)'
  <2>1. proc' = proc \/ \E g \in Hosts : proc' = [proc EXCEPT ![g] = "up"]
    BY <1>2 DEF SH!BeginTurn, SH!Resume, SH!AwaitReaped, SH!Suspend, SH!RunTurn,
                SH!EnsureSession, SH!hostVars
  <2> QED BY <1>2, <2>1 DEF Known
<1>3. ASSUME NEW c \in Calls, NEW t \in Threads, NEW k \in Kinds,
             Prompt(c, t) \/ Dequeue(c, t) \/ Execute(c, t, k)
      PROVE  h \in Hosts /\ SH!Alive(h)'
  BY <1>2, <1>3 DEF Prompt, Dequeue, Execute, Submit, TurnOf
<1>4. ASSUME NEW c \in Calls, Resume(c)
      PROVE  h \in Hosts /\ SH!Alive(h)'
  <2>1. target[c] \in Threads
    BY <1>4 DEF Resume, SH!Resume, SH!Resumable, SH!Waiting
  <2> QED BY <1>2, <1>4, <2>1 DEF Resume, TurnOf
<1>5. ASSUME NEW c \in Calls, Reply(c) \/ RpcTimeout(c) \/ Finish(c)
      PROVE  UNCHANGED proc /\ Pipes' \subseteq Pipes
  BY <1>5 DEF Reply, RpcTimeout, Finish, SH!Reply, SH!RpcTimeout, SH!Finish, SH!hostVars, pipeVars
<1>6. ASSUME NEW t \in Threads, \/ Enqueue(t) \/ Merge(t)
                            \/ ContractReply(t) \/ OutdatedEnds(t)
      PROVE  UNCHANGED proc /\ Pipes' \subseteq Pipes
  BY <1>6 DEF Enqueue, Merge, ContractReply, OutdatedEnds, RowStep, hostVars, pipeVars
<1>7. ASSUME NEW ts, Stop(ts)
      PROVE  h \in Hosts /\ SH!Alive(h)'
  BY <1>7 DEF Known, Stop, SH!Kill, SH!KillChildren, SH!Terminate
<1>8. ASSUME NEW t \in Threads, Abandon(t) \/ Delete(t)
      PROVE  h \in Hosts /\ SH!Alive(h)'
  BY <1>7, <1>8 DEF Abandon, Delete
<1>9. CASE KillAll
  BY <1>7, <1>9 DEF KillAll
<1>10. ASSUME NEW g \in Hosts, Settle(g)
       PROVE  h \in Hosts /\ SH!Alive(h)'
  BY <1>10 DEF Known, Settle, Speaks, RowStep, hostVars
<1>11. ASSUME NEW g \in Hosts, PipelineEnds(g)
       PROVE  h \in Hosts /\ SH!Alive(h)'
  <2>1. SH!Alive(g)
    BY <1>11 DEF PipelineEnds, RowInv, CheckingCurrent, Fresh, SH!HandlesAreLive
  <2> QED BY <1>11, <2>1 DEF Known, PipelineEnds, RowStep, hostVars
<1>12. ASSUME NEW g \in Hosts, RetryAnswered(g) \/ HarvestAnswered(g) \/ Block(g)
       PROVE  UNCHANGED proc /\ Pipes' \subseteq Pipes
  BY <1>12 DEF RetryAnswered, HarvestAnswered, Block, RowStep, hostVars, pipeVars
<1>13. ASSUME NEW g \in Hosts, Overflow(g) \/ Exit(g)
       PROVE  h \in Hosts /\ SH!Alive(h)'
  BY <1>13 DEF Known, Overflow, Exit, RejectSends, SH!Overflow, SH!Exit
<1>14. ASSUME NEW hs \in SUBSET Hosts, Reap(hs)
       PROVE  h \in Hosts /\ SH!Alive(h)'
  BY <1>14 DEF Known, Reap, SH!Reap, SH!Terminate
<1>15. CASE Timer
  BY <1>15 DEF Known, Timer, pipeVars, SH!Escalate, SH!ZombieWaitElapsed, SH!ExitWaitElapsed,
               SH!hostVars
<1>16. Restart => Pipes' = {}
  BY DEF Restart
<1>17. UNCHANGED vars => UNCHANGED proc /\ Pipes' \subseteq Pipes
  BY DEF vars, hostVars, pipeVars
<1>18. Kinds # {}
  BY DEF Kinds
<1> HIDE DEF Pipes, HostFacts, SH!TypeOK, SH!Alive
<1> QED
  BY <1>1, <1>3, <1>4, <1>5, <1>6, <1>8, <1>9, <1>10, <1>11, <1>12, <1>13, <1>14, <1>15,
     <1>16, <1>17, <1>18 DEF Next

\* What a call was made for, and the threads with a stale pipeline.
LEMMA KindStep ==
    ASSUME HostFacts, RowInv, Known, [Next]_vars
    PROVE  kind' \in [Calls -> Kinds \cup {"none"}] /\ outdated' \in SUBSET Threads
<1> DEFINE Goal == kind' \in [Calls -> Kinds \cup {"none"}] /\ outdated' \in SUBSET Threads
<1> SUFFICES Goal
  OBVIOUS
<1> USE DEF Known
<1>1. ASSUME NEW hs, Outdate(hs)
      PROVE  outdated' \in SUBSET Threads
  BY <1>1 DEF Outdate, RowInv, CheckingCurrent
<1>2. ASSUME NEW c \in Calls, NEW t \in Threads, NEW k \in Kinds \cup {"none"}, TurnOf(c, t, k)
      PROVE  Goal
  <2>1. kind' \in [Calls -> Kinds \cup {"none"}]
    BY <1>2 DEF TurnOf
  <2>2. outdated' \in SUBSET Threads
    BY <1>1, <1>2 DEF TurnOf, TurnEffects
  <2> QED BY <2>1, <2>2
<1>3. "prompt" \in Kinds /\ "queued" \in Kinds
  BY DEF Kinds
<1>4. ASSUME NEW c \in Calls, NEW t \in Threads, NEW k \in Kinds,
             Prompt(c, t) \/ Dequeue(c, t) \/ Execute(c, t, k)
      PROVE  Goal
  BY <1>2, <1>3, <1>4 DEF Prompt, Dequeue, Execute, Submit
<1>5. ASSUME NEW c \in Calls, Resume(c)
      PROVE  Goal
  <2>1. target[c] \in Threads
    BY <1>5 DEF HostFacts, Resume, SH!Resume, SH!Resumable, SH!Waiting
  <2> QED BY <1>2, <1>5, <2>1 DEF Resume
<1>6. ASSUME NEW c \in Calls, Finish(c)
      PROVE  Goal
  BY <1>6 DEF Finish, pipeVars
<1>7. ASSUME NEW ts, Stop(ts)
      PROVE  Goal
  BY <1>1, <1>7 DEF Stop
<1>8. ASSUME NEW t \in Threads, Abandon(t) \/ Delete(t)
      PROVE  Goal
  BY <1>7, <1>8 DEF Abandon, Delete
<1>9. CASE KillAll
  BY <1>7, <1>9 DEF KillAll
<1>10. ASSUME NEW c \in Calls, Reply(c) \/ RpcTimeout(c)
      PROVE  UNCHANGED <<kind, outdated>>
  BY <1>10 DEF Reply, RpcTimeout, pipeVars
<1>11. ASSUME NEW t \in Threads, Enqueue(t) \/ Merge(t) \/ ContractReply(t)
       PROVE  UNCHANGED <<kind, outdated>>
  BY <1>11 DEF Enqueue, Merge, ContractReply, RowStep, pipeVars
<1>12. ASSUME NEW t \in Threads, OutdatedEnds(t)
       PROVE  Goal
  BY <1>12 DEF OutdatedEnds
<1>13. ASSUME NEW h \in Hosts, Settle(h)
       PROVE  Goal
  <2>1. owner[h] \in Threads
    BY <1>13 DEF HostFacts, Settle, Speaks
  <2> QED BY <1>13, <2>1 DEF Settle, RowStep
<1>14. ASSUME NEW h \in Hosts, \/ PipelineEnds(h) \/ RetryAnswered(h)
                               \/ HarvestAnswered(h) \/ Block(h) \/ Overflow(h)
       PROVE  UNCHANGED <<kind, outdated>>
  BY <1>14 DEF PipelineEnds, RetryAnswered, HarvestAnswered, Block, RowStep, Overflow, pipeVars
<1>15. ASSUME NEW h \in Hosts, Exit(h)
       PROVE  Goal
  BY <1>1, <1>15 DEF Exit
<1>16. ASSUME NEW hs \in SUBSET Hosts, Reap(hs)
       PROVE  Goal
  BY <1>1, <1>16 DEF Reap
<1>17. Timer \/ UNCHANGED vars => UNCHANGED <<kind, outdated>>
  BY DEF Timer, vars, pipeVars
<1>18. CASE Restart
  BY <1>18 DEF Restart
<1>19. UNCHANGED <<kind, outdated>> => Goal
  OBVIOUS
<1> HIDE DEF Goal, Known
<1> QED
  BY <1>3, <1>4, <1>5, <1>6, <1>8, <1>9, <1>10, <1>11, <1>12, <1>13, <1>14, <1>15, <1>16,
     <1>17, <1>18, <1>19 DEF Next

-----------------------------------------------------------------------------
LEMMA KnownStep == ASSUME HostFacts, RowInv, Known, [Next]_vars PROVE Known'
<1>1. orphans' \in SUBSET Threads
  BY PublishedStep DEF Known, Published
<1> QED BY <1>1, QueueStep, KindStep, PipesStep DEF Known, RowInv, SH!Alive

LEMMA KnownAlways == Spec => []Known
BY KnownInit, KnownStep, HostFactsAlways, RowInvAlways, PTL DEF Spec

\* Every variable keeps its type, the queue and the pipelines' hosts included.
THEOREM TypeCorrect == Spec => []TypeOK
<1>1. HostFacts /\ RowInv /\ Known => TypeOK
  BY DEF HostFacts, RowInv, RowsTyped, Known, TypeOK
<1> QED BY <1>1, HostFactsAlways, RowInvAlways, KnownAlways, PTL

\* A deleted thread gets event rows again only from a call, a host or a stale
\* pipeline that was in flight for it.
THEOREM StragglersOnly == Spec => OrphansAreStragglers
<1>1. HostFacts /\ RowInv /\ Known /\ [Next]_vars =>
          [\A t \in orphans' \ orphans : InFlight(t)]_vars
  BY PublishedStep DEF Published
<1> QED
  BY <1>1, HostFactsAlways, RowInvAlways, KnownAlways, PTL
  DEF Spec, OrphansAreStragglers, InFlight
=============================================================================
