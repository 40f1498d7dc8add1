-------------------------- MODULE SelfUpdateProofs --------------------------
(***************************************************************************)
(* Proofs about SelfUpdate, for any services, versions and commits and any *)
(* number of keepers.  The types hold whatever keepers do.  The properties *)
(* of the update cycle hold as long as the lock does what it is there for: *)
(* []LiveHolderBlocks, which takeover can break and the code does not      *)
(* ensure, is their hypothesis.                                            *)
(***************************************************************************)
EXTENDS SelfUpdate, TLAPS

-----------------------------------------------------------------------------
(* The inductive invariant *)

Resting == {"off", "held", "reopen", "write", "ready", "fetch"}
Settled == Resting \cup {"save"}

\* What a keeper's job holds where it stands.
JobFits(k) ==
    LET j == job[k] IN
    /\ pc[k] \in {"off", "held", "reopen", "write"} => j = NewJob
    /\ j.lastGood \in {0} \cup DOMAIN repo
    /\ pc[k] \in Resting \cup {"merge", "install"} => j.mode = "update"
    /\ pc[k] \in {"reset", "reinstall"} => j.mode = "rollback"
    /\ j.mode = "clear" => pc[k] = "save"
    /\ pc[k] \notin Settled /\ j.mode # "restart" => j.prev \in DOMAIN repo
    /\ pc[k] \notin Settled /\ j.mode = "update" =>
          /\ j.target \in DOMAIN repo
          /\ j.restart = Touched(repo[j.prev], repo[j.target])
          /\ j.install = Installs(repo[j.prev], repo[j.target])

JobsFit == \A k \in Keepers : JobFits(k)

\* The count that state.json holds, or will once it is written.
Count(k) == IF pc[k] = "save" THEN job[k].failures ELSE failures

\* No update begins on a tripped breaker, nothing but the worker moves the counter,
\* and a rollback under way owes it one failure.
Counts(k) ==
    /\ failed <= MaxFailures + Lost
    /\ ~disabled => failed <= Count(k) + Lost + 1
    /\ ~disabled /\ (job[k].mode # "rollback" \/ pc[k] = "save" \/ ~Working(k)) =>
          failed <= Count(k) + Lost
    /\ Working(k) /\ pc[k] \notin {"ready", "save"} /\ job[k].mode = "update" =>
          ~disabled /\ failures < MaxFailures
    /\ Working(k) /\ pc[k] \notin {"ready", "save"} /\ job[k].mode # "restart" =>
          job[k].failures = failures
    /\ job[k].mode = "clear" => failed = 0

Counted ==
    /\ failed <= MaxFailures + Lost
    /\ (\A k \in Keepers : ~Working(k)) /\ ~disabled => failed <= failures + Lost
    /\ \A k \in Keepers : Working(k) => Counts(k)

\* The services of which no restart left a process behind.
Sure == Services \ missed

\* A service runs a version that came up, and nothing else is about to.
RunsIn(r, b, s, n) == r[s] \in {repo[n].code[s], Down} /\ b[s] \subseteq {repo[n].code[s]}
Runs(s, n)         == RunsIn(running, booting, s, n)
Follows            == \A s \in Sure : Runs(s, head)
GoodCommit(n)      == \A s \in Sure : repo[n].code[s] \notin Broken

\* What an update has in front of it: upstream's last commit; and behind it: a
\* commit that was healthy.
UpdateFits(k) ==
    LET j == job[k] IN
    /\ pc[k] = "fetch" => GoodCommit(head)
    /\ pc[k] \notin Settled /\ j.mode = "update" =>
          /\ GoodCommit(j.prev)
          /\ j.target = Len(repo)
          /\ head = IF pc[k] = "merge" THEN j.prev ELSE j.target
    /\ j.lastGood # 0 => GoodCommit(j.lastGood)

\* What the services run, by where the worker stands.
ServicesFit(k) ==
    LET j == job[k] IN
    /\ pc[k] \in Settled \cup {"merge", "launch", "verify"} => Follows
    /\ j.mode # "restart" /\ pc[k] \in {"install", "kill", "reset", "reinstall"} =>
          \A s \in Sure \ j.restart : Runs(s, j.prev)
    /\ j.mode = "update" /\ pc[k] \in {"install", "kill"} => \A s \in Sure : Runs(s, j.prev)
    /\ j.mode = "restart" => j.restart = Services /\ Follows
    /\ pc[k] \in {"reinstall", "kill", "launch", "verify"} /\ j.mode = "rollback" => head = j.prev

NoneBroken == \A s \in Services : running[s] \notin Broken /\ booting[s] \cap Broken = {}
Vouched    == lastGood # 0 => GoodCommit(lastGood)

\* TreeFits, of the one keeper at work.
Good(k) == Vouched /\ UpdateFits(k) /\ ServicesFit(k)

TreeFits ==
    /\ NoneBroken
    /\ incident \subseteq {"manual"} =>
          /\ Vouched
          /\ (\A k \in Keepers : ~Working(k)) => Follows
          /\ \A k \in Keepers : Working(k) => UpdateFits(k) /\ ServicesFit(k)

\* What is installed, by where the worker stands.
InstallFits(k) ==
    LET j == job[k] IN
    /\ pc[k] \in Settled \cup {"merge", "kill", "launch", "verify"} => deps = repo[head].deps
    /\ pc[k] = "install" => deps = repo[j.prev].deps
    /\ pc[k] \in {"reset", "reinstall"} =>
          /\ deps \in {repo[j.prev].deps, repo[Len(repo)].deps}
          /\ pc[k] = "reinstall" => head = j.prev

DepsFit ==
    incident = {} =>
        /\ (\A k \in Keepers : ~Working(k)) => deps = repo[head].deps
        /\ \A k \in Keepers : Working(k) => InstallFits(k)

-----------------------------------------------------------------------------
(* Types *)

LEMMA BoundsAreNat ==
    /\ MaxFailures \in Nat \ {0} /\ MaxCommits \in Nat \ {0} /\ MaxCrashes \in Nat
    /\ 0 \in Shas /\ 1 \in Shas /\ 0 \in 0..MaxFailures
  BY SelfUpdateAssumption DEF Shas

LEMMA NewJobFacts ==
    /\ NewJob \in Job /\ NewJob.mode = "update" /\ NewJob.lastGood = 0
    /\ [NewJob EXCEPT !.cycle = TRUE] \in Job
  BY BoundsAreNat DEF Job, NewJob, Modes

\* The commits fetched stay where they are.
LEMMA AppendKeeps ==
    ASSUME TypeOK, NEW c \in Commit, Len(repo) < MaxCommits, repo' = Append(repo, c)
    PROVE  /\ repo' \in Seq(Commit)
           /\ Len(repo') = Len(repo) + 1
           /\ Len(repo') \in Shas
           /\ Len(repo') \in DOMAIN repo'
           /\ DOMAIN repo \subseteq DOMAIN repo'
           /\ \A n \in DOMAIN repo : repo'[n] = repo[n]
  BY BoundsAreNat DEF TypeOK, Shas

LEMMA RepoFacts ==
    ASSUME TypeOK
    PROVE  /\ DOMAIN repo = 1..Len(repo) /\ Len(repo) \in Nat
           /\ Len(repo) \in DOMAIN repo
           /\ DOMAIN repo \subseteq Shas /\ 0 \notin DOMAIN repo
           /\ \A n \in DOMAIN repo : repo[n] \in Commit /\ repo[n].deps \in Lockfiles
                                     /\ repo[n].code \in [Services -> Versions]
<1>1. repo \in Seq(Commit) /\ DOMAIN repo = 1..Len(repo) /\ Len(repo) \in Nat
  BY DEF TypeOK
<1>2. Len(repo) \in DOMAIN repo /\ DOMAIN repo \subseteq Shas /\ 0 \notin DOMAIN repo
  BY <1>1, BoundsAreNat DEF TypeOK, Shas
<1>3. ASSUME NEW n \in DOMAIN repo
      PROVE  repo[n] \in Commit /\ repo[n].deps \in Lockfiles
             /\ repo[n].code \in [Services -> Versions]
  <2>1. repo[n] \in Commit
    BY <1>1, <1>3
  <2> QED BY <2>1 DEF Commit
<1> QED BY <1>1, <1>2, <1>3

\* A step of one keeper: what it leaves typed, and the others alone.
KeeperStep(k) ==
    /\ pc' \in [Keepers -> Pcs] /\ job' \in [Keepers -> Job]
    /\ lock' \in Keepers \cup {NoLock, Blank}
    /\ \A i \in Keepers \ {k} : pc'[i] = pc[i] /\ job'[i] = job[i]

StateTyped ==
    /\ failures' \in 0..MaxFailures /\ disabled' \in BOOLEAN
    /\ lastGood' \in {0} \cup DOMAIN repo'
    /\ failed' \in Nat
    /\ incident' \subseteq {"crash", "botched", "manual"}

LEMMA GotoTyped ==
    ASSUME TypeOK, NEW k \in Keepers, NEW p \in Pcs, Goto(k, p)
    PROVE  /\ pc' \in [Keepers -> Pcs] /\ pc'[k] = p
           /\ \A i \in Keepers \ {k} : pc'[i] = pc[i]
  BY DEF TypeOK, Goto

LEMMA EndedFits ==
    ASSUME TypeOK, NEW k \in Keepers, Ended(k)
    PROVE  /\ KeeperStep(k) /\ JobFits(k)'
           /\ pc'[k] \in {"off", "ready"} /\ job'[k].mode = "update" /\ job'[k].lastGood = 0
  <1>1. "off" \in Pcs /\ "ready" \in Pcs
    BY DEF Pcs
  <1>2. CASE Exit(k)
    <2>1. pc'[k] = "off" /\ job'[k] = NewJob
      BY <1>1, <1>2, GotoTyped DEF Exit, TypeOK
    <2>2. KeeperStep(k)
      BY <1>1, <1>2, GotoTyped, NewJobFacts DEF Exit, TypeOK, KeeperStep
    <2> QED BY <2>1, <2>2, NewJobFacts DEF JobFits, Resting, Settled
  <1>3. CASE ~Exit(k)
    <2>1. pc'[k] = "ready" /\ job'[k] = [NewJob EXCEPT !.cycle = TRUE]
      BY <1>1, <1>3, GotoTyped DEF Ended, TypeOK
    <2>2. KeeperStep(k)
      <3>1. [NewJob EXCEPT !.cycle = TRUE] \in Job
        BY NewJobFacts
      <3> QED BY <1>1, <1>3, <3>1, GotoTyped, ZenonT(60) DEF Ended, TypeOK, KeeperStep
    <2>3. job'[k].mode = "update" /\ job'[k].lastGood = 0
      BY <2>1 DEF NewJob
    <2> QED BY <2>1, <2>2, <2>3 DEF JobFits, Resting, Settled
  <1> QED BY <1>2, <1>3

LEMMA ExitEnds == \A k \in Keepers : Exit(k) => Ended(k)
  BY DEF Ended

Acting == {"install", "kill", "launch", "verify", "reset", "reinstall"}

LEMMA FailureFits ==
    ASSUME TypeOK, JobsFit, NEW k \in Keepers, pc[k] \in Acting, Failure(k), UNCHANGED repo
    PROVE  KeeperStep(k) /\ JobFits(k)' /\ StateTyped
  <1>0. "reset" \in Pcs /\ "rollback" \in Modes
    BY DEF Pcs, Modes
  <1>1. CASE job[k].mode = "update"
    <2>1. /\ job' = [job EXCEPT ![k].mode = "rollback"] /\ Goto(k, "reset")
          /\ failed' = failed + 1 /\ UNCHANGED <<stateVars, lock, incident>>
      BY <1>1 DEF Failure
    <2>2. [job[k] EXCEPT !.mode = "rollback"] \in Job /\ job[k] \in Job
      BY <1>0 DEF TypeOK, Job
    <2>3. /\ job'[k] = [job[k] EXCEPT !.mode = "rollback"]
          /\ job' \in [Keepers -> Job] /\ \A i \in Keepers \ {k} : job'[i] = job[i]
      BY <2>1, <2>2 DEF TypeOK
    <2>4. /\ job'[k].mode = "rollback" /\ job'[k].prev = job[k].prev
          /\ job'[k].lastGood = job[k].lastGood
      BY <2>2, <2>3 DEF Job
    <2>5. pc'[k] = "reset" /\ KeeperStep(k)
      BY <1>0, <2>1, <2>3, GotoTyped DEF KeeperStep, TypeOK
    <2>6. StateTyped
      BY <2>1 DEF StateTyped, TypeOK, stateVars
    <2>7. /\ job[k].prev \in DOMAIN repo /\ job[k].lastGood \in {0} \cup DOMAIN repo
      BY <1>1 DEF JobsFit, JobFits, Acting, Resting, Settled
    <2> QED BY <2>4, <2>5, <2>6, <2>7 DEF JobFits, Resting, Settled
  <1>2. CASE job[k].mode = "rollback"
    <2>1. /\ Ended(k) /\ disabled' = TRUE /\ incident' = incident \cup {"botched"}
          /\ UNCHANGED <<failures, lastGood, failed>>
      BY <1>2 DEF Failure
    <2>2. StateTyped
      BY <2>1 DEF StateTyped, TypeOK
    <2> QED BY <2>1, <2>2, EndedFits
  <1>3. CASE job[k].mode = "restart"
    <2>1. Exit(k) /\ UNCHANGED <<stateVars, failed, incident>>
      BY <1>3 DEF Failure
    <2>2. StateTyped
      BY <2>1 DEF StateTyped, TypeOK, stateVars
    <2> QED BY <2>1, <2>2, EndedFits, ExitEnds
  <1> QED BY <1>1, <1>2, <1>3 DEF Failure

\* A job that stays as it is, further on.
LEMMA JobStays ==
    ASSUME TypeOK, JobsFit, NEW k \in Keepers, NEW p \in Pcs, Goto(k, p),
           UNCHANGED <<job, repo, lock>>,
           pc[k] \notin Settled, p \notin Settled,
           p = "install" => pc[k] = "merge",
           p = "merge" => FALSE,
           p \in {"reset", "reinstall"} => job[k].mode = "rollback"
    PROVE  KeeperStep(k) /\ JobFits(k)' /\ pc'[k] = p /\ job'[k] = job[k]
  <1>1. pc' \in [Keepers -> Pcs] /\ pc'[k] = p /\ \A i \in Keepers \ {k} : pc'[i] = pc[i]
    BY GotoTyped
  <1>2. KeeperStep(k)
    BY <1>1 DEF KeeperStep, TypeOK
  <1>3. JobFits(k)
    BY DEF JobsFit
  <1> QED BY <1>1, <1>2, <1>3 DEF JobFits, Resting, Settled, Pcs

\* The jobs of the other keepers fit a log of commits that grew.
LEMMA OthersFit ==
    ASSUME TypeOK, JobsFit, NEW k \in Keepers, KeeperStep(k), JobFits(k)',
           DOMAIN repo \subseteq DOMAIN repo', \A n \in DOMAIN repo : repo'[n] = repo[n]
    PROVE  JobsFit'
  <1> SUFFICES ASSUME NEW i \in Keepers \ {k} PROVE JobFits(i)'
    BY DEF JobsFit
  <1>1. pc'[i] = pc[i] /\ job'[i] = job[i] /\ JobFits(i)
    BY DEF KeeperStep, JobsFit
  <1> QED BY <1>1 DEF JobFits, Touched, Installs

\* What a step of a keeper that fetches nothing leaves typed.
TypedInv == TypeOK /\ JobsFit

LEMMA StepTyped ==
    ASSUME TypedInv, NEW k \in Keepers, KeeperStep(k), JobFits(k)', StateTyped, UNCHANGED repo,
           head' \in DOMAIN repo, deps' \in Lockfiles,
           running' \in [Services -> Versions \cup {Down}],
           booting' \in [Services -> SUBSET Versions],
           {crashes', torn'} \subseteq 0..MaxCrashes, missed' \subseteq Services
    PROVE  TypedInv'
  <1>1. JobsFit'
    BY OthersFit DEF TypedInv
  <1> QED BY <1>1 DEF TypedInv, TypeOK, KeeperStep, StateTyped

\* A step that leaves what the state file and the history hold.
LEMMA StateKept ==
    ASSUME TypeOK, UNCHANGED <<repo, stateVars, failed, incident>>
    PROVE  StateTyped
  BY DEF TypeOK, StateTyped, stateVars

LEMMA LockTyped ==
    ASSUME TypedInv, NEW k \in Keepers, Start(k) \/ TakeOver(k) \/ Reopen(k) \/ WritePid(k)
    PROVE  TypedInv'
  <1> USE DEF TypedInv, treeVars, histVars
  <1>1. StateTyped
    BY StateKept DEF Start, TakeOver, Reopen, WritePid
  <1>2. PICK p \in {"off", "held", "reopen", "write", "ready"} : Goto(k, p)
    BY DEF Start, TakeOver, Reopen, WritePid
  <1>3. p \in Pcs /\ pc[k] \in {"off", "held", "reopen", "write"} /\ job' = job
    BY DEF Start, TakeOver, Reopen, WritePid, Pcs
  <1>4. lock' \in Keepers \cup {NoLock, Blank}
    BY DEF Start, TakeOver, Reopen, WritePid, TypeOK
  <1>5. KeeperStep(k) /\ pc'[k] = p
    BY <1>2, <1>3, <1>4, GotoTyped DEF KeeperStep, TypeOK
  <1>6. job[k] = NewJob
    BY <1>3 DEF JobsFit, JobFits
  <1>7. JobFits(k)'
    BY <1>3, <1>5, <1>6, NewJobFacts DEF JobFits, Resting, Settled
  <1> QED
    BY <1>1, <1>5, <1>7, StepTyped
       DEF Start, TakeOver, Reopen, WritePid, TypeOK, deaths

LEMMA PreflightTyped ==
    ASSUME TypedInv, NEW k \in Keepers, Preflight(k)
    PROVE  TypedInv'
  <1> USE DEF TypedInv, treeVars, histVars
  <1>1. StateTyped
    BY StateKept DEF Preflight
  <1>2. job[k] \in Job /\ JobFits(k) /\ pc[k] = "ready"
    BY DEF TypeOK, JobsFit, Preflight
  <1>3. KeeperStep(k) /\ JobFits(k)'
    <2>1. CASE Exit(k)
      BY <2>1, EndedFits, ExitEnds
    <2>2. CASE job' = [job EXCEPT ![k].cycle = TRUE] /\ UNCHANGED <<pc, lock>>
      <3>1. job'[k] = [job[k] EXCEPT !.cycle = TRUE]
        BY <2>2 DEF TypeOK
      <3>2. job'[k] \in Job /\ job'[k].mode = job[k].mode /\ job'[k].lastGood = job[k].lastGood
        BY <1>2, <3>1 DEF Job
      <3>3. KeeperStep(k)
        BY <2>2, <3>1, <3>2 DEF KeeperStep, TypeOK
      <3>4. repo' = repo
        BY DEF Preflight
      <3> QED BY <1>2, <2>2, <3>2, <3>3, <3>4 DEF JobFits, Resting, Settled
    <2>3. CASE /\ job' = [job EXCEPT ![k].cycle = TRUE, ![k].failures = failures,
                                     ![k].lastGood = lastGood]
               /\ Goto(k, "fetch") /\ UNCHANGED lock
      <3>1. job'[k] = [job[k] EXCEPT !.cycle = TRUE, !.failures = failures, !.lastGood = lastGood]
        BY <2>3 DEF TypeOK
      <3>2. failures \in 0..MaxFailures /\ lastGood \in Shas
        BY RepoFacts, BoundsAreNat DEF TypeOK
      <3>3. job'[k] \in Job /\ job'[k].mode = job[k].mode /\ job'[k].lastGood = lastGood
        BY <1>2, <3>1, <3>2 DEF Job
      <3>4. pc'[k] = "fetch" /\ KeeperStep(k)
        <4>1. "fetch" \in Pcs
          BY DEF Pcs
        <4> QED BY <2>3, <3>1, <3>3, <4>1, GotoTyped DEF KeeperStep, TypeOK
      <3>5. lastGood \in {0} \cup DOMAIN repo
        BY DEF TypeOK
      <3>6. repo' = repo
        BY DEF Preflight
      <3> QED BY <1>2, <3>3, <3>4, <3>5, <3>6 DEF JobFits, Resting, Settled
    <2> QED BY <2>1, <2>2, <2>3 DEF Preflight
  <1> QED BY <1>1, <1>3, StepTyped DEF Preflight, TypeOK, deaths

\* The commits after a fetch.
LEMMA FetchGrows ==
    ASSUME TypeOK, NEW k \in Keepers, Fetch(k)
    PROVE  /\ repo' \in Seq(Commit) /\ Len(repo') \in Shas /\ Len(repo') \in DOMAIN repo'
           /\ DOMAIN repo \subseteq DOMAIN repo'
           /\ \A n \in DOMAIN repo : repo'[n] = repo[n]
  <1>1. CASE UNCHANGED repo
    BY <1>1, RepoFacts DEF TypeOK
  <1>2. CASE Len(repo) < MaxCommits /\ \E c \in Commit : repo' = Append(repo, c)
    BY <1>2, AppendKeeps
  <1> QED BY <1>1, <1>2 DEF Fetch

LEMMA FetchTyped ==
    ASSUME TypedInv, NEW k \in Keepers, Fetch(k)
    PROVE  TypedInv'
  <1> USE DEF TypedInv, histVars, stateVars
  <1>1. job[k] \in Job /\ JobFits(k) /\ pc[k] = "fetch"
    BY DEF TypeOK, JobsFit, Fetch
  <1>2. KeeperStep(k) /\ JobFits(k)'
    <2>1. CASE Ended(k)
      BY <2>1, EndedFits
    <2>2. CASE /\ job' = [job EXCEPT ![k].prev = head, ![k].target = Len(repo'),
                                ![k].restart = Touched(repo'[head], repo'[Len(repo')]),
                                ![k].install = Installs(repo'[head], repo'[Len(repo')])]
               /\ Goto(k, "merge")
               /\ UNCHANGED lock
      <3> DEFINE t == Len(repo')
                 r == Touched(repo'[head], repo'[t])
                 i == Installs(repo'[head], repo'[t])
      <3>1. job'[k] = [job[k] EXCEPT !.prev = head, !.target = t, !.restart = r, !.install = i]
        BY <2>2 DEF TypeOK
      <3>2. head \in Shas /\ t \in Shas /\ r \in SUBSET Services /\ i \in BOOLEAN
        BY FetchGrows, RepoFacts DEF Touched, Installs, TypeOK
      <3>3. /\ job'[k] \in Job /\ job'[k].mode = "update" /\ job'[k].lastGood = job[k].lastGood
            /\ job'[k].prev = head /\ job'[k].target = t /\ job'[k].restart = r
            /\ job'[k].install = i
        <4>1. job'[k] \in Job
          BY <1>1, <3>1, <3>2 DEF Job
        <4>2. job[k].mode = "update"
          BY <1>1 DEF JobFits, Resting, Settled
        <4> HIDE DEF r, i, t
        <4> QED BY <1>1, <3>1, <4>1, <4>2 DEF Job
      <3>4. pc'[k] = "merge" /\ KeeperStep(k)
        <4>1. "merge" \in Pcs
          BY DEF Pcs
        <4> HIDE DEF r, i, t
        <4>2. job' \in [Keepers -> Job] /\ \A m \in Keepers \ {k} : job'[m] = job[m]
          BY <2>2, <3>1, <3>3 DEF TypeOK
        <4> QED BY <2>2, <4>1, <4>2, GotoTyped DEF KeeperStep, TypeOK
      <3>5. job[k].lastGood \in {0} \cup DOMAIN repo' /\ head \in DOMAIN repo' /\ t \in DOMAIN repo'
        BY <1>1, FetchGrows DEF JobFits, TypeOK
      <3>6. r = Touched(repo'[head], repo'[t]) /\ i = Installs(repo'[head], repo'[t])
        OBVIOUS
      <3> HIDE DEF r, i, t
      <3> QED BY <3>3, <3>4, <3>5, <3>6 DEF JobFits, Resting, Settled
    <2> QED BY <2>1, <2>2 DEF Fetch
  <1>3. JobsFit'
    BY <1>2, FetchGrows, OthersFit
  <1>4. TypeOK'
    <2>1. head' \in DOMAIN repo' /\ lastGood' \in {0} \cup DOMAIN repo'
      BY FetchGrows DEF Fetch, TypeOK
    <2> QED BY <1>2, <2>1, FetchGrows DEF Fetch, TypeOK, KeeperStep, deaths
  <1> QED BY <1>3, <1>4

LEMMA MergeTyped ==
    ASSUME TypedInv, NEW k \in Keepers, Merge(k)
    PROVE  TypedInv'
  <1> USE DEF TypedInv, histVars
  <1>1. StateTyped
    BY StateKept DEF Merge
  <1>2. KeeperStep(k) /\ JobFits(k)'
    <2>1. CASE Ended(k)
      BY <2>1, EndedFits
    <2>2. CASE Goto(k, "install") /\ UNCHANGED <<lock, job>>
      <3>1. "install" \in Pcs /\ "install" \notin Settled /\ pc[k] = "merge" /\ pc[k] \notin Settled
        BY DEF Pcs, Resting, Settled, Merge
      <3> QED BY <2>2, <3>1, JobStays DEF Merge
    <2> QED BY <2>1, <2>2 DEF Merge
  <1>3. head' \in DOMAIN repo
    BY RepoFacts DEF Merge, TypeOK
  <1> QED BY <1>1, <1>2, <1>3, StepTyped DEF Merge, TypeOK, deaths

LEMMA DepsTyped ==
    ASSUME TypeOK, NEW asked \in BOOLEAN
    PROVE  Installed(asked) \in Lockfiles /\ Failing(asked) \subseteq Lockfiles
  BY RepoFacts DEF Installed, Failing, TypeOK

LEMMA InstallTyped ==
    ASSUME TypedInv, NEW k \in Keepers, Install(k)
    PROVE  TypedInv'
  <1> USE DEF TypedInv
  <1>1. pc[k] = "install" /\ job[k].install \in BOOLEAN
    BY DEF Install, TypeOK, Job
  <1>2. StateTyped /\ KeeperStep(k) /\ JobFits(k)' /\ deps' \in Lockfiles
    <2>1. CASE /\ deps' = Installed(job[k].install)
               /\ Goto(k, IF job[k].restart = {} THEN "verify" ELSE "kill")
               /\ UNCHANGED <<stateVars, lock, job, failed, incident>>
      <3>1. PICK p \in {"verify", "kill"} : Goto(k, p)
        BY <2>1
      <3>2. p \in Pcs /\ p \notin Settled /\ pc[k] \notin Settled
        BY <1>1 DEF Pcs, Resting, Settled
      <3>3. deps' \in Lockfiles
        BY <1>1, <2>1, DepsTyped
      <3> QED BY <2>1, <3>1, <3>2, <3>3, JobStays, StateKept DEF Install
    <2>2. CASE Failure(k) /\ deps' \in Failing(job[k].install)
      <3>1. pc[k] \in Acting
        BY <1>1 DEF Acting
      <3> QED BY <1>1, <2>2, <3>1, FailureFits, DepsTyped DEF Install
    <2> QED BY <2>1, <2>2 DEF Install
  <1> QED BY <1>2, StepTyped DEF Install, TypeOK, deaths

LEMMA ComesTyped ==
    ASSUME TypeOK, NEW s \in Services
    PROVE  Comes(s) \subseteq Versions
  BY RepoFacts DEF Comes, TypeOK

LEMMA RestartTyped ==
    ASSUME TypedInv, NEW k \in Keepers, Kill(k) \/ Launch(k)
    PROVE  TypedInv'
  <1> USE DEF TypedInv
  <1>1. pc[k] \in {"kill", "launch"}
    BY DEF Kill, Launch
  <1>2. pc[k] \in Acting /\ pc[k] \notin Settled
    BY <1>1 DEF Acting, Resting, Settled
  <1>3. StateTyped /\ KeeperStep(k) /\ JobFits(k)'
    <2>1. CASE Failure(k)
      BY <1>2, <2>1, FailureFits DEF Kill, Launch
    <2>2. CASE /\ \E p \in {"launch", "verify"} : Goto(k, p)
               /\ UNCHANGED <<stateVars, lock, job, failed, incident>>
      <3>1. PICK p \in {"launch", "verify"} : Goto(k, p)
        BY <2>2
      <3>2. p \in Pcs /\ p \notin Settled
        BY DEF Pcs, Resting, Settled
      <3> QED BY <1>2, <2>2, <3>1, <3>2, JobStays, StateKept DEF Kill, Launch
    <2> QED BY <2>1, <2>2 DEF Kill, Launch
  <1>4. running' \in [Services -> Versions \cup {Down}]
    BY DEF Kill, Launch, TypeOK
  <1>5. booting' \in [Services -> SUBSET Versions]
    <2>1. CASE Kill(k)
      BY <2>1 DEF Kill, TypeOK
    <2>2. CASE Launch(k)
      <3>1. PICK up \in SUBSET job[k].restart :
               booting' = [s \in Services |->
                              IF s \in up THEN booting[s] \cup Comes(s) ELSE booting[s]]
        BY <2>2 DEF Launch
      <3>2. \A s \in Services : booting[s] \subseteq Versions
        BY DEF TypeOK
      <3> QED BY <3>1, <3>2, ComesTyped
    <2> QED BY <2>1, <2>2
  <1>6. missed' \subseteq Services
    BY DEF Kill, Launch, TypeOK, Job
  <1>7. {crashes', torn'} \subseteq 0..MaxCrashes
    BY DEF Kill, Launch, TypeOK, deaths
  <1> QED BY <1>3, <1>4, <1>5, <1>6, <1>7, StepTyped DEF Kill, Launch, TypeOK

LEMMA OneMoreTyped ==
    ASSUME NEW n \in 0..MaxFailures
    PROVE  OneMore(n) \in 0..MaxFailures
  BY BoundsAreNat DEF OneMore

\* The state file as it is truncated, whatever is to be written.
LEMMA TruncateFits ==
    ASSUME TypedInv, NEW k \in Keepers, UNCHANGED <<repo, lock>>, Goto(k, "save"),
           job' \in [Keepers -> Job], \A i \in Keepers \ {k} : job'[i] = job[i],
           job'[k].lastGood \in {0} \cup DOMAIN repo
    PROVE  KeeperStep(k) /\ JobFits(k)' /\ pc'[k] = "save"
  <1>1. "save" \in Pcs
    BY DEF Pcs
  <1>2. pc' \in [Keepers -> Pcs] /\ pc'[k] = "save" /\ \A i \in Keepers \ {k} : pc'[i] = pc[i]
    BY <1>1, GotoTyped DEF TypedInv
  <1>3. KeeperStep(k)
    BY <1>2 DEF KeeperStep, TypedInv, TypeOK
  <1> QED BY <1>2, <1>3 DEF JobFits, Resting, Settled

LEMMA TruncateSays ==
    ASSUME TypedInv, NEW k \in Keepers, UNCHANGED repo,
           NEW f \in 0..MaxFailures, NEW g \in {0} \cup DOMAIN repo, Truncate(k, f, g)
    PROVE  /\ KeeperStep(k) /\ JobFits(k)' /\ pc'[k] = "save"
           /\ job'[k].mode = job[k].mode /\ job'[k].failures = f /\ job'[k].lastGood = g
           /\ job'[k].restart = job[k].restart
           /\ failures' = 0 /\ lastGood' = 0 /\ UNCHANGED disabled
  <1>1. job[k] \in Job /\ g \in Shas
    BY RepoFacts, BoundsAreNat DEF TypedInv, TypeOK
  <1>2. /\ failures' = 0 /\ lastGood' = 0 /\ UNCHANGED <<disabled, lock>> /\ Goto(k, "save")
        /\ job' = [job EXCEPT ![k].failures = f, ![k].lastGood = g]
    BY DEF Truncate
  <1>3. job'[k] = [job[k] EXCEPT !.failures = f, !.lastGood = g]
    BY <1>2 DEF TypedInv, TypeOK
  <1>4. /\ job'[k] \in Job /\ job'[k].failures = f /\ job'[k].lastGood = g
        /\ job'[k].mode = job[k].mode /\ job'[k].restart = job[k].restart
    BY <1>1, <1>3 DEF Job
  <1>5. job' \in [Keepers -> Job] /\ \A i \in Keepers \ {k} : job'[i] = job[i]
    BY <1>2, <1>3, <1>4 DEF TypedInv, TypeOK
  <1> QED BY <1>2, <1>4, <1>5, TruncateFits

LEMMA ClearSays ==
    ASSUME TypedInv, NEW k \in Keepers, CmdReset(k)
    PROVE  /\ KeeperStep(k) /\ JobFits(k)' /\ pc'[k] = "save"
           /\ job'[k].mode = "clear" /\ job'[k].failures = 0 /\ job'[k].lastGood = lastGood
  <1>1. job[k] \in Job /\ lastGood \in Shas /\ "clear" \in Modes /\ 0 \in 0..MaxFailures
        /\ lastGood \in {0} \cup DOMAIN repo
    BY RepoFacts, BoundsAreNat DEF TypedInv, TypeOK, Modes
  <1>2. /\ UNCHANGED <<repo, lock>> /\ Goto(k, "save")
        /\ job' = [job EXCEPT ![k].mode = "clear", ![k].failures = 0, ![k].lastGood = lastGood]
    BY DEF CmdReset, treeVars
  <1>3. job'[k] = [job[k] EXCEPT !.mode = "clear", !.failures = 0, !.lastGood = lastGood]
    BY <1>2 DEF TypedInv, TypeOK
  <1>4. /\ job'[k] \in Job /\ job'[k].mode = "clear" /\ job'[k].failures = 0
        /\ job'[k].lastGood = lastGood
    BY <1>1, <1>3 DEF Job
  <1>5. job' \in [Keepers -> Job] /\ \A i \in Keepers \ {k} : job'[i] = job[i]
    BY <1>2, <1>3, <1>4 DEF TypedInv, TypeOK
  <1> QED BY <1>1, <1>2, <1>4, <1>5, TruncateFits

\* What a verified command does: it ends, or it truncates the state file.
LEMMA VerifiedCases ==
    ASSUME TypedInv, NEW k \in Keepers, Verify(k), Verified(k)
    PROVE  \/ /\ job[k].mode = "restart" /\ Exit(k)
              /\ UNCHANGED <<stateVars, failed>>
           \/ \E f \in 0..MaxFailures, g \in {0} \cup DOMAIN repo :
                 /\ Truncate(k, f, g)
                 /\ \/ job[k].mode = "update" /\ f = 0 /\ g = job[k].target /\ failed' = 0
                    \/ /\ job[k].mode = "rollback" /\ f = OneMore(job[k].failures)
                       /\ g = job[k].lastGood /\ UNCHANGED failed
                    \/ job[k].mode = "restart" /\ f = failures /\ g = head /\ UNCHANGED failed
  <1>1. /\ job[k].failures \in 0..MaxFailures
        /\ job[k].lastGood \in {0} \cup DOMAIN repo
        /\ job[k].mode = "update" => job[k].target \in DOMAIN repo
    BY DEF Verify, TypedInv, TypeOK, JobsFit, Job, JobFits, Resting, Settled
  <1>2. failures \in 0..MaxFailures /\ head \in DOMAIN repo /\ 0 \in 0..MaxFailures
    BY BoundsAreNat DEF TypedInv, TypeOK
  <1>3. CASE job[k].mode = "update"
    BY <1>1, <1>2, <1>3 DEF Verified
  <1>4. CASE job[k].mode = "rollback"
    BY <1>1, <1>2, <1>4, OneMoreTyped DEF Verified
  <1>5. CASE job[k].mode = "restart"
    BY <1>2, <1>5 DEF Verified
  <1> QED BY <1>3, <1>4, <1>5 DEF Verified

LEMMA VerifyTyped ==
    ASSUME TypedInv, NEW k \in Keepers, Verify(k)
    PROVE  TypedInv'
  <1>1. pc[k] = "verify" /\ pc[k] \in Acting /\ TypeOK /\ JobsFit /\ UNCHANGED treeVars
    BY DEF Verify, Acting, TypedInv
  <1>2. StateTyped /\ KeeperStep(k) /\ JobFits(k)'
    <2>1. CASE Failure(k)
      BY <1>1, <2>1, FailureFits DEF treeVars
    <2>2. CASE Verified(k) /\ UNCHANGED incident
      <3>1. CASE Exit(k) /\ UNCHANGED <<stateVars, failed>>
        BY <1>1, <2>2, <3>1, ExitEnds, EndedFits, StateKept DEF treeVars
      <3>2. CASE \E f \in 0..MaxFailures, g \in {0} \cup DOMAIN repo :
                    Truncate(k, f, g) /\ failed' \in {0, failed}
        <4>1. PICK f \in 0..MaxFailures, g \in {0} \cup DOMAIN repo :
                 Truncate(k, f, g) /\ failed' \in {0, failed}
          BY <3>2
        <4>2. KeeperStep(k) /\ JobFits(k)'
          BY <1>1, <4>1, TruncateSays DEF treeVars
        <4>3. StateTyped
          BY <1>1, <2>2, <4>1, BoundsAreNat DEF Truncate, StateTyped, TypeOK
        <4> QED BY <4>2, <4>3
      <3> QED BY <2>2, <3>1, <3>2, VerifiedCases
    <2> QED BY <2>1, <2>2 DEF Verify
  <1> QED BY <1>1, <1>2, StepTyped DEF Verify, TypeOK, treeVars, deaths

LEMMA SaveTyped ==
    ASSUME TypedInv, NEW k \in Keepers, Save(k)
    PROVE  TypedInv'
  <1>1. job[k] \in Job /\ JobFits(k) /\ TypeOK
    BY DEF TypedInv, TypeOK, JobsFit
  <1>2. Ended(k) /\ UNCHANGED <<treeVars, histVars>>
    BY ExitEnds DEF Save
  <1>3. failures' \in 0..MaxFailures /\ lastGood' \in {0} \cup DOMAIN repo
    BY <1>1 DEF Save, Job, JobFits
  <1>4. disabled' \in BOOLEAN
    BY <1>1 DEF Save, TypeOK
  <1>5. StateTyped
    BY <1>1, <1>2, <1>3, <1>4 DEF StateTyped, TypeOK, treeVars, histVars
  <1> QED
    BY <1>1, <1>2, <1>5, EndedFits, StepTyped DEF TypeOK, treeVars, histVars, deaths

LEMMA RollbackTyped ==
    ASSUME TypedInv, NEW k \in Keepers, Reset(k) \/ Reinstall(k)
    PROVE  TypedInv'
  <1> USE DEF TypedInv
  <1>1. /\ pc[k] \in {"reset", "reinstall"} /\ job[k].mode = "rollback"
        /\ job[k].prev \in DOMAIN repo
    BY DEF Reset, Reinstall, JobsFit, JobFits, Resting, Settled
  <1>2. pc[k] \in Acting /\ pc[k] \notin Settled
    BY <1>1 DEF Acting, Resting, Settled
  <1>3. StateTyped /\ KeeperStep(k) /\ JobFits(k)'
    <2>1. CASE Failure(k)
      BY <1>2, <2>1, FailureFits DEF Reset, Reinstall
    <2>2. CASE /\ \E p \in {"reinstall", "kill"} : Goto(k, p)
               /\ UNCHANGED <<stateVars, lock, job, failed, incident>>
      <3>1. PICK p \in {"reinstall", "kill"} : Goto(k, p)
        BY <2>2
      <3>2. p \in Pcs /\ p \notin Settled
        BY DEF Pcs, Resting, Settled
      <3> QED BY <1>1, <1>2, <2>2, <3>1, <3>2, JobStays, StateKept DEF Reset, Reinstall
    <2> QED BY <2>1, <2>2 DEF Reset, Reinstall
  <1>4. head' \in DOMAIN repo /\ deps' \in Lockfiles
    <2>1. Reinstalls(job[k].prev) \in BOOLEAN
      BY DEF Reinstalls, Installs
    <2> QED BY <1>1, <2>1, DepsTyped DEF Reset, Reinstall, TypeOK
  <1> QED BY <1>3, <1>4, StepTyped DEF Reset, Reinstall, TypeOK, deaths

\* The restart of all services, by whichever command.
LEMMA BounceFits ==
    ASSUME TypedInv, NEW k \in Keepers, Bounce(k), UNCHANGED <<lock, repo>>
    PROVE  /\ KeeperStep(k) /\ JobFits(k)' /\ pc'[k] = "kill" /\ job'[k].mode = "restart"
           /\ job'[k].restart = Services /\ job'[k].lastGood = job[k].lastGood
  <1> USE DEF TypedInv
  <1>1. job[k] \in Job /\ JobFits(k) /\ "kill" \in Pcs
    BY DEF TypeOK, JobsFit, Pcs
  <1>2. job'[k] = [job[k] EXCEPT !.mode = "restart", !.restart = Services]
    BY DEF Bounce, TypeOK
  <1>3. /\ job'[k] \in Job /\ job'[k].mode = "restart" /\ job'[k].restart = Services
        /\ job'[k].lastGood = job[k].lastGood
    BY <1>1, <1>2 DEF Job, Modes
  <1>4. KeeperStep(k) /\ pc'[k] = "kill"
    <2>1. job' \in [Keepers -> Job] /\ \A m \in Keepers \ {k} : job'[m] = job[m]
      BY <1>2, <1>3 DEF Bounce, TypeOK
    <2> QED BY <1>1, <2>1, GotoTyped DEF Bounce, KeeperStep, TypeOK
  <1> QED BY <1>1, <1>3, <1>4 DEF JobFits, Resting, Settled

\* A rollback by hand takes its commit and the state file along.
ByHand(k, sha) ==
    /\ job' = [job EXCEPT ![k].mode = "rollback", ![k].prev = sha,
                          ![k].restart = Services,
                          ![k].failures = failures, ![k].lastGood = lastGood]
    /\ Goto(k, "reset")
    /\ UNCHANGED lock

LEMMA RollbackCases ==
    ASSUME TypeOK, NEW k \in Keepers, CmdRollback(k)
    PROVE  /\ Commanded(k)
           /\ UNCHANGED <<treeVars, stateVars, failed, deaths, missed>>
           /\ \/ Exit(k) /\ UNCHANGED incident
              \/ Bounce(k) /\ UNCHANGED <<lock, incident>>
              \/ /\ \E sha \in DOMAIN repo : ByHand(k, sha)
                 /\ incident' = incident \cup {"manual"}
  <1>1. PICK sha \in DOMAIN repo \cup {lastGood} :
           \/ Missing(sha) /\ Exit(k) /\ UNCHANGED incident
           \/ sha = head /\ Bounce(k) /\ UNCHANGED <<lock, incident>>
           \/ ~Missing(sha) /\ ByHand(k, sha) /\ incident' = incident \cup {"manual"}
    BY Zenon DEF CmdRollback, ByHand
  <1>2. ~Missing(sha) => sha \in DOMAIN repo
    BY DEF Missing, TypeOK
  <1>3. Commanded(k) /\ UNCHANGED <<treeVars, stateVars, failed, deaths, missed>>
    BY Zenon DEF CmdRollback
  <1> QED BY <1>1, <1>2, <1>3, Zenon

LEMMA ManualFits ==
    ASSUME TypedInv, NEW k \in Keepers, NEW sha \in DOMAIN repo, ByHand(k, sha), UNCHANGED repo
    PROVE  /\ KeeperStep(k) /\ JobFits(k)' /\ pc'[k] = "reset"
           /\ job'[k].mode = "rollback" /\ job'[k].restart = Services /\ job'[k].prev = sha
           /\ job'[k].failures = failures /\ job'[k].lastGood = lastGood
  <1> USE DEF TypedInv
  <1>1. job[k] \in Job /\ "reset" \in Pcs /\ sha \in Shas /\ lastGood \in Shas
        /\ failures \in 0..MaxFailures
    BY RepoFacts, BoundsAreNat DEF TypeOK, Pcs
  <1>2. job'[k] = [job[k] EXCEPT !.mode = "rollback", !.prev = sha, !.restart = Services,
                                 !.failures = failures, !.lastGood = lastGood]
    BY DEF ByHand, TypeOK
  <1>3. /\ job'[k] \in Job /\ job'[k].mode = "rollback" /\ job'[k].restart = Services
        /\ job'[k].prev = sha /\ job'[k].failures = failures /\ job'[k].lastGood = lastGood
    <2>1. job'[k].mode = "rollback" /\ job'[k].restart = Services /\ job'[k].prev = sha
      BY <1>1, <1>2 DEF Job
    <2>2. job'[k].failures = failures /\ job'[k].lastGood = lastGood
      BY <1>1, <1>2 DEF Job
    <2>3. job'[k] \in Job
      <3>1. "rollback" \in Modes /\ Services \in SUBSET Services
        BY DEF Modes
      <3>2. ASSUME NEW m \in Modes, NEW r \in SUBSET Services, NEW f \in 0..MaxFailures,
                   NEW g \in Shas
            PROVE  [job[k] EXCEPT !.mode = m, !.prev = sha, !.restart = r,
                                  !.failures = f, !.lastGood = g] \in Job
        BY <1>1 DEF Job
      <3>3. [job[k] EXCEPT !.mode = "rollback", !.prev = sha, !.restart = Services,
                           !.failures = failures, !.lastGood = lastGood] \in Job
        BY ONLY <1>1, <3>1, <3>2, Zenon
      <3> QED BY <1>2, <3>3
    <2> QED BY <2>1, <2>2, <2>3
  <1>4. KeeperStep(k) /\ pc'[k] = "reset"
    <2>1. job' \in [Keepers -> Job] /\ \A m \in Keepers \ {k} : job'[m] = job[m]
      BY <1>2, <1>3 DEF ByHand, TypeOK
    <2> QED BY <1>1, <2>1, GotoTyped DEF ByHand, KeeperStep, TypeOK
  <1>5. lastGood \in {0} \cup DOMAIN repo
    BY DEF TypeOK
  <1> QED BY <1>3, <1>4, <1>5 DEF JobFits, Resting, Settled

LEMMA CommandTyped ==
    ASSUME TypedInv, NEW k \in Keepers, CmdReset(k) \/ CmdRestart(k) \/ CmdRollback(k)
    PROVE  TypedInv'
  <1> USE DEF TypedInv, treeVars, histVars
  <1>1. CASE CmdReset(k)
    <2>1. KeeperStep(k) /\ JobFits(k)'
      BY <1>1, ClearSays
    <2>2. StateTyped
      BY <1>1, BoundsAreNat DEF CmdReset, StateTyped, TypeOK
    <2> QED BY <1>1, <2>1, <2>2, StepTyped DEF CmdReset, TypeOK, deaths
  <1>2. CASE CmdRestart(k)
    BY <1>2, BounceFits, StateKept, StepTyped DEF CmdRestart, TypeOK, deaths
  <1>3. CASE CmdRollback(k)
    <2>1. UNCHANGED <<treeVars, stateVars, failed, deaths, missed>>
      BY <1>3, RollbackCases
    <2>2. KeeperStep(k) /\ JobFits(k)'
      <3>1. UNCHANGED repo
        BY <2>1 DEF treeVars
      <3> QED BY <1>3, <3>1, RollbackCases, EndedFits, ExitEnds, BounceFits, ManualFits
    <2>3. StateTyped
      BY <1>3, <2>1, RollbackCases DEF StateTyped, TypeOK, stateVars
    <2> QED BY <1>3, <2>1, <2>2, <2>3, StepTyped DEF TypeOK, deaths
  <1> QED BY <1>1, <1>2, <1>3

LEMMA DeathTyped ==
    ASSUME TypedInv,
           \/ \E s \in Services : Die(s) \/ Boot(s)
           \/ \E k \in Keepers : Crash(k)
           \/ UNCHANGED vars
    PROVE  TypedInv'
  <1> USE DEF TypedInv, treeVars, stateVars, histVars, deaths
  <1>1. CASE UNCHANGED vars
    BY <1>1 DEF vars, TypeOK, JobsFit, JobFits
  <1>2. CASE \E s \in Services : Die(s)
    BY <1>2 DEF Die, TypeOK, JobsFit, JobFits
  <1>3. ASSUME NEW s \in Services, Boot(s)
        PROVE  TypedInv'
    <2>1. PICK v \in booting[s] :
             /\ booting' = [booting EXCEPT ![s] = @ \ {v}]
             /\ running' = [running EXCEPT ![s] = IF @ = Down THEN v ELSE @]
      BY <1>3 DEF Boot
    <2>2. v \in Versions /\ booting[s] \ {v} \in SUBSET Versions
      BY <2>1 DEF TypeOK
    <2>3. /\ running' \in [Services -> Versions \cup {Down}]
          /\ booting' \in [Services -> SUBSET Versions]
      BY <2>1, <2>2 DEF TypeOK
    <2>4. UNCHANGED <<repo, head, deps, failures, lastGood, disabled, lock, pc, job, failed,
                      crashes, torn, incident, missed>>
      BY <1>3 DEF Boot
    <2>5. TypeOK'
      BY <2>3, <2>4 DEF TypeOK
    <2>6. JobsFit'
      BY <2>4 DEF JobsFit, JobFits
    <2> QED BY <2>5, <2>6
  <1>4. ASSUME NEW k \in Keepers, Crash(k)
        PROVE  TypedInv'
    <2>1. pc'[k] = "off" /\ job'[k] = NewJob /\ KeeperStep(k)
      <3>1. "off" \in Pcs
        BY DEF Pcs
      <3> QED BY <1>4, <3>1, GotoTyped, NewJobFacts DEF Crash, KeeperStep, TypeOK
    <2>2. JobFits(k)'
      BY <2>1, NewJobFacts DEF JobFits, Resting, Settled
    <2>3. StateTyped
      BY <1>4 DEF Crash, StateTyped, TypeOK
    <2>4. {crashes', torn'} \subseteq 0..MaxCrashes
      BY <1>4, BoundsAreNat DEF Crash, TypeOK
    <2> QED BY <1>4, <2>1, <2>2, <2>3, <2>4, StepTyped DEF Crash, TypeOK
  <1> QED BY <1>1, <1>2, <1>3, <1>4

LEMMA NextTyped == TypedInv /\ [Next]_vars => TypedInv'
  BY LockTyped, PreflightTyped, FetchTyped, MergeTyped, InstallTyped, RestartTyped, VerifyTyped,
     SaveTyped, RollbackTyped, CommandTyped, DeathTyped DEF Next

LEMMA InitTyped == Init => TypedInv
  <1> SUFFICES ASSUME Init PROVE TypedInv
    OBVIOUS
  <1>1. PICK v \in Versions \ Broken, l \in Lockfiles :
           repo = <<[code |-> [s \in Services |-> v], deps |-> l]>>
    BY DEF Init
  <1> DEFINE c == [code |-> [s \in Services |-> v], deps |-> l]
  <1>2. c \in Commit /\ c.deps = l /\ c.code \in [Services -> Versions]
    BY DEF Commit
  <1> HIDE DEF c
  <1>3. repo \in Seq(Commit) /\ Len(repo) = 1 /\ DOMAIN repo = {1} /\ repo[1] = c
    BY <1>1, <1>2 DEF c
  <1>4. TypeOK
    <2>1. /\ running \in [Services -> Versions \cup {Down}] /\ deps \in Lockfiles
          /\ booting \in [Services -> SUBSET Versions]
      BY <1>2, <1>3 DEF Init, Commit
    <2>2. pc \in [Keepers -> Pcs] /\ job \in [Keepers -> Job]
      BY NewJobFacts DEF Init, Pcs
    <2>3. Len(repo) \in Shas /\ failures \in 0..MaxFailures
          /\ {crashes, torn} \subseteq 0..MaxCrashes
      BY <1>3, BoundsAreNat DEF Init
    <2> QED BY <1>2, <1>3, <2>1, <2>2, <2>3 DEF Init, TypeOK
  <1>5. JobsFit
    BY NewJobFacts DEF Init, JobsFit, JobFits, Resting, Settled
  <1> QED BY <1>4, <1>5 DEF TypedInv

\* Tree, state file, lock and jobs keep their types, whatever keepers do to each other.
\* (runCycle, rollback, acquireLock)
THEOREM TypeCorrect == Spec => []TypeOK
<1>1. TypedInv => TypeOK
  BY DEF TypedInv
<1> QED BY <1>1, InitTyped, NextTyped, PTL DEF Spec

-----------------------------------------------------------------------------
(* The one keeper at work *)

Worker(k) ==
    \/ Preflight(k) \/ Fetch(k) \/ Merge(k) \/ Install(k) \/ Kill(k) \/ Launch(k)
    \/ Verify(k) \/ Save(k) \/ Reset(k) \/ Reinstall(k)
    \/ CmdReset(k) \/ CmdRestart(k) \/ CmdRollback(k)

Alone(k) == \A i \in Keepers \ {k} : ~Working(i) /\ job[i].mode = "update"

LEMMA WorkerWorks == TypeOK => \A k \in Keepers : Worker(k) => Working(k)
  <1> SUFFICES ASSUME TypeOK, NEW k \in Keepers, Worker(k) PROVE Working(k)
    OBVIOUS
  <1>1. Commanded(k) => Working(k)
    BY DEF Commanded, Working
  <1> QED
    BY <1>1, RollbackCases DEF Worker, Working, Preflight, Fetch, Merge, Install, Kill, Launch,
       Verify, Save, Reset, Reinstall, CmdReset, CmdRestart

LEMMA OthersStay ==
    ASSUME TypedInv, NEW k \in Keepers, Worker(k) \/ Crash(k), NEW i \in Keepers \ {k}
    PROVE  pc'[i] = pc[i] /\ job'[i] = job[i]
  <1> USE DEF TypedInv, TypeOK, Goto
  <1>1. Ended(k) => pc'[i] = pc[i] /\ job'[i] = job[i]
    BY DEF Ended, Exit
  <1>2. Failure(k) => pc'[i] = pc[i] /\ job'[i] = job[i]
    BY <1>1, ExitEnds DEF Failure
  <1>3. Verified(k) => pc'[i] = pc[i] /\ job'[i] = job[i]
    <2>1. ASSUME NEW f, NEW g, Truncate(k, f, g)
          PROVE  pc'[i] = pc[i] /\ job'[i] = job[i]
      BY <2>1 DEF Truncate
    <2> QED BY <1>1, <2>1, ExitEnds DEF Verified
  <1>4. Bounce(k) => pc'[i] = pc[i] /\ job'[i] = job[i]
    BY DEF Bounce
  <1>5. ASSUME Preflight(k) \/ Fetch(k) \/ Merge(k) \/ Save(k) \/ Crash(k)
        PROVE  pc'[i] = pc[i] /\ job'[i] = job[i]
    BY <1>1, <1>5, ExitEnds DEF Preflight, Fetch, Merge, Save, Crash
  <1>6. ASSUME Install(k) \/ Kill(k) \/ Launch(k) \/ Reset(k) \/ Reinstall(k) \/ Verify(k)
        PROVE  pc'[i] = pc[i] /\ job'[i] = job[i]
    BY <1>2, <1>3, <1>6 DEF Install, Kill, Launch, Reset, Reinstall, Verify
  <1>7. ASSUME CmdReset(k) \/ CmdRestart(k) \/ CmdRollback(k)
        PROVE  pc'[i] = pc[i] /\ job'[i] = job[i]
    <2>1. ASSUME NEW sha \in DOMAIN repo, ByHand(k, sha)
          PROVE  pc'[i] = pc[i] /\ job'[i] = job[i]
      BY <2>1 DEF ByHand
    <2> QED BY <1>1, <1>4, <1>7, <2>1, ExitEnds, RollbackCases DEF CmdReset, CmdRestart
  <1> QED BY <1>5, <1>6, <1>7 DEF Worker

LEMMA WorkerAlone ==
    ASSUME TypedInv, LiveHolderBlocks, NEW k \in Keepers, Worker(k) \/ (Crash(k) /\ Working(k))
    PROVE  Alone(k) /\ Alone(k)'
  <1> SUFFICES ASSUME NEW i \in Keepers \ {k}
               PROVE  /\ ~Working(i) /\ job[i].mode = "update"
                      /\ ~Working(i)' /\ job'[i].mode = "update"
    BY DEF Alone
  <1>1. ~Working(i)
    BY WorkerWorks DEF LiveHolderBlocks, TypedInv
  <1>2. job[i].mode = "update"
    BY <1>1 DEF TypedInv, JobsFit, JobFits, Working, Resting, Settled
  <1> QED BY <1>1, <1>2, OthersStay DEF Working

-----------------------------------------------------------------------------
(* The breaker *)

LEMMA CountsAlone ==
    ASSUME NEW k \in Keepers, Working(k), Counted
    PROVE  Counts(k)
  BY DEF Counted

LEMMA CountsBack ==
    ASSUME NEW k \in Keepers, Alone(k)', Counts(k)'
    PROVE  Counted'
  <1>1. ~Working(k)' => Count(k)' = failures'
    BY DEF Working, Count
  <1>2. failed' <= MaxFailures + Lost'
    BY DEF Counts
  <1>3. ~Working(k)' /\ ~disabled' => failed' <= Count(k)' + Lost'
    BY DEF Counts
  <1>4. \A i \in Keepers : Working(i)' => i = k
    BY DEF Alone
  <1> QED BY <1>1, <1>2, <1>3, <1>4 DEF Counted

LEMMA CountTypes ==
    ASSUME TypedInv
    PROVE  /\ failed \in Nat /\ failures \in Nat /\ Lost \in Nat /\ MaxFailures \in Nat \ {0}
           /\ failures <= MaxFailures /\ disabled \in BOOLEAN
           /\ \A k \in Keepers : Count(k) \in Nat
  <1>1. /\ failed \in Nat /\ failures \in Nat /\ MaxFailures \in Nat \ {0}
        /\ failures <= MaxFailures /\ disabled \in BOOLEAN
        /\ torn \in Nat /\ crashes \in Nat
    BY BoundsAreNat DEF TypedInv, TypeOK
  <1>2. Lost \in Nat
    BY <1>1 DEF Lost
  <1>3. \A k \in Keepers : Count(k) \in Nat
    BY <1>1 DEF Count, TypedInv, TypeOK, Job
  <1> QED BY <1>1, <1>2, <1>3

\* What a death is worth.
LEMMA LostGrows ==
    ASSUME TypedInv
    PROVE  /\ UNCHANGED deaths => Lost' = Lost
           /\ crashes' = crashes + 1 /\ UNCHANGED torn => Lost' = Lost + 1
           /\ torn' = torn + 1 /\ UNCHANGED crashes => Lost' = Lost + MaxFailures
  <1>1. torn \in Nat /\ crashes \in Nat /\ MaxFailures \in Nat
    BY BoundsAreNat DEF TypedInv, TypeOK
  <1>2. \A m, n \in Nat : m * n \in Nat /\ m * (n + 1) = m * n + m
    OBVIOUS
  <1>3. MaxFailures * torn \in Nat /\ MaxFailures * (torn + 1) = MaxFailures * torn + MaxFailures
    BY <1>1, <1>2
  <1>4. \A a, b, c \in Nat : a + (b + 1) = (a + b) + 1 /\ (a + c) + b = (a + b) + c
    OBVIOUS
  <1>5. UNCHANGED deaths => Lost' = Lost
    BY DEF Lost, deaths
  <1>6. crashes' = crashes + 1 /\ UNCHANGED torn => Lost' = Lost + 1
    BY <1>1, <1>3, <1>4, ZenonT(60) DEF Lost
  <1>7. ASSUME torn' = torn + 1, UNCHANGED crashes
        PROVE  Lost' = Lost + MaxFailures
    <2>1. Lost' = MaxFailures * (torn + 1) + crashes
      BY <1>7 DEF Lost
    <2>2. Lost' = (MaxFailures * torn + MaxFailures) + crashes
      BY <1>3, <2>1, Zenon
    <2> QED BY <1>1, <1>3, <1>4, <2>2, Zenon DEF Lost
  <1> QED BY <1>5, <1>6, <1>7

LEMMA CountsSay ==
    ASSUME NEW k \in Keepers, Counts(k)
    PROVE  /\ failed <= MaxFailures + Lost
           /\ ~disabled => failed <= Count(k) + Lost + 1
           /\ ~disabled /\ (job[k].mode # "rollback" \/ pc[k] = "save" \/ ~Working(k)) =>
                 failed <= Count(k) + Lost
           /\ pc[k] # "save" => Count(k) = failures
  BY DEF Counts, Count

\* Where nothing is owed.
LEMMA SettledCounts ==
    ASSUME NEW k \in Keepers, failed' \in Nat, Count(k)' \in Nat, Lost' \in Nat,
           failed' <= MaxFailures + Lost',
           ~disabled' => failed' <= Count(k)' + Lost',
           Working(k)' /\ pc'[k] \notin {"ready", "save"} /\ job'[k].mode = "update" =>
               ~disabled' /\ failures' < MaxFailures,
           Working(k)' /\ pc'[k] \notin {"ready", "save"} /\ job'[k].mode # "restart" =>
               job'[k].failures = failures',
           job'[k].mode = "clear" => failed' = 0
    PROVE  Counts(k)'
  <1>1. failed' <= Count(k)' + Lost' => failed' <= Count(k)' + Lost' + 1
    <2>1. \A a, b, c \in Nat : a <= b + c => a <= b + c + 1
      BY ONLY TRUE
    <2> QED BY <2>1, Zenon
  <1> QED BY <1>1, Zenon DEF Counts

\* Where a command ends, the failure that a rollback owed is counted, or the breaker tripped.
LEMMA EndCounts ==
    ASSUME TypedInv, NEW k \in Keepers, Ended(k),
           failed' <= MaxFailures + Lost', ~disabled' => failed' <= failures' + Lost',
           failed' \in Nat, failures' \in Nat, Lost' \in Nat
    PROVE  Counts(k)'
  <1>1. pc'[k] \in {"off", "ready"} /\ job'[k].mode = "update"
    BY EndedFits DEF TypedInv
  <1>2. ~Working(k)' \/ pc'[k] = "ready"
    BY <1>1 DEF Working
  <1>3. Count(k)' = failures'
    BY <1>1 DEF Count
  <1>4. job'[k].mode # "clear"
    BY <1>1
  <1>5. Count(k)' \in Nat /\ (~disabled' => failed' <= Count(k)' + Lost')
    BY <1>3
  <1> QED BY <1>2, <1>4, <1>5, SettledCounts, Zenon

LEMMA QuietEndCounts ==
    ASSUME TypedInv, NEW k \in Keepers, Counts(k), Ended(k), job[k].mode # "rollback",
           pc[k] # "save", UNCHANGED <<failures, disabled, failed, deaths>>
    PROVE  Counts(k)'
  <1>1. Lost' = Lost /\ Count(k) = failures
    BY LostGrows, CountsSay
  <1>2. failed <= MaxFailures + Lost /\ (~disabled => failed <= failures + Lost)
    BY <1>1, CountsSay
  <1> QED BY <1>1, <1>2, EndCounts, CountTypes

LEMMA ActingWorks ==
    \A k \in Keepers : pc[k] \in Acting => Working(k) /\ pc[k] \notin {"ready", "save"}
  BY DEF Acting, Working

LEMMA FailureCounts ==
    ASSUME TypedInv, NEW k \in Keepers, Counts(k), pc[k] \in Acting, Failure(k), UNCHANGED deaths
    PROVE  Counts(k)'
  <1>0. /\ Lost' = Lost /\ Count(k) = failures /\ pc[k] \notin {"ready", "save"} /\ Working(k)
        /\ failed <= MaxFailures + Lost
    BY LostGrows, CountsSay, ActingWorks
  <1>1. CASE job[k].mode = "update"
    <2>1. /\ job'[k].mode = "rollback" /\ job'[k].failures = job[k].failures
          /\ failed' = failed + 1 /\ UNCHANGED <<failures, disabled>> /\ pc'[k] = "reset"
      <3>1. job' = [job EXCEPT ![k].mode = "rollback"] /\ job[k] \in Job
        BY <1>1 DEF Failure, TypedInv, TypeOK
      <3> QED BY <1>1, <3>1 DEF Failure, TypedInv, TypeOK, stateVars, Job, Goto
    <2>2. ~disabled /\ failures < MaxFailures /\ job[k].failures = failures
      BY <1>0, <1>1 DEF Counts
    <2>3. failed <= failures + Lost
      BY <1>0, <1>1, <2>2, CountsSay
    <2>4. Count(k)' = failures' /\ Working(k)' /\ pc'[k] # "save"
      BY <2>1 DEF Count, Working
    <2>5. failed' <= MaxFailures + Lost' /\ failed' <= Count(k)' + Lost' + 1
      BY <1>0, <2>1, <2>2, <2>3, <2>4, CountTypes
    <2> QED BY <2>1, <2>2, <2>4, <2>5 DEF Counts
  <1>2. CASE job[k].mode = "rollback"
    <2>1. Ended(k) /\ disabled' = TRUE /\ UNCHANGED <<failures, failed>>
      BY <1>2 DEF Failure
    <2> QED BY <1>0, <2>1, EndCounts, CountTypes
  <1>3. CASE job[k].mode = "restart"
    <2>1. Ended(k) /\ UNCHANGED <<failures, failed, disabled>>
      BY <1>3, ExitEnds DEF Failure, stateVars
    <2> QED BY <1>0, <1>3, <2>1, QuietEndCounts
  <1> QED BY <1>1, <1>2, <1>3 DEF Failure

\* A job that goes on as what it is.
LEMMA GoingOnCounts ==
    ASSUME TypedInv, NEW k \in Keepers, Counts(k), Working(k), pc[k] \notin {"ready", "save"},
           Working(k)', pc'[k] # "save",
           UNCHANGED <<failures, disabled, failed, deaths>>,
           job'[k].mode = job[k].mode, job'[k].failures = job[k].failures
    PROVE  Counts(k)'
  <1>1. Lost' = Lost /\ Count(k) = failures /\ Count(k)' = failures'
    BY LostGrows, CountsSay DEF Count
  <1> QED BY <1>1 DEF Counts

LEMMA PreflightCounts ==
    ASSUME TypedInv, NEW k \in Keepers, Counts(k), Preflight(k)
    PROVE  Counts(k)'
  <1>1. /\ pc[k] = "ready" /\ job[k].mode = "update" /\ job[k] \in Job
        /\ UNCHANGED <<failures, disabled, failed, deaths>>
    BY DEF Preflight, TypedInv, JobsFit, JobFits, Resting, Settled, stateVars, histVars, TypeOK
  <1>2. Lost' = Lost /\ Count(k) = failures /\ failed <= MaxFailures + Lost
        /\ (~disabled => failed <= failures + Lost)
    BY <1>1, LostGrows, CountsSay
  <1>3. CASE Exit(k)
    BY <1>1, <1>3, QuietEndCounts, ExitEnds
  <1>4. CASE job' = [job EXCEPT ![k].cycle = TRUE] /\ UNCHANGED pc
    <2>1. job'[k].mode = "update" /\ Count(k)' = failures
      BY <1>1, <1>4 DEF TypedInv, TypeOK, Job, Count
    <2> QED BY <1>1, <1>2, <1>4, <2>1, SettledCounts, CountTypes
  <1>5. CASE /\ ~Tripped /\ Goto(k, "fetch")
             /\ job' = [job EXCEPT ![k].cycle = TRUE, ![k].failures = failures,
                                   ![k].lastGood = lastGood]
    <2>1. ~disabled /\ failures < MaxFailures
      BY <1>5, CountTypes DEF Tripped
    <2>2. job'[k] = [job[k] EXCEPT !.cycle = TRUE, !.failures = failures, !.lastGood = lastGood]
      BY <1>5 DEF TypedInv, TypeOK
    <2>3. job'[k].failures = failures /\ job'[k].mode = "update"
      BY <1>1, <2>2 DEF Job
    <2>4. pc'[k] = "fetch" /\ Count(k)' = failures
      BY <1>1, <1>5 DEF Goto, TypedInv, TypeOK, Count
    <2> QED BY <1>1, <1>2, <2>1, <2>3, <2>4, SettledCounts, CountTypes
  <1> QED BY <1>3, <1>4, <1>5 DEF Preflight

LEMMA FetchCounts ==
    ASSUME TypedInv, NEW k \in Keepers, Counts(k), Fetch(k) \/ Merge(k)
    PROVE  Counts(k)'
  <1>1. /\ pc[k] \in {"fetch", "merge"} /\ job[k].mode = "update" /\ job[k] \in Job
        /\ UNCHANGED <<failures, disabled, failed, deaths>>
    BY DEF Fetch, Merge, TypedInv, JobsFit, JobFits, Resting, Settled, stateVars, histVars, TypeOK
  <1>2. CASE Ended(k)
    BY <1>1, <1>2, QuietEndCounts
  <1>3. CASE ~Ended(k)
    <2>1. /\ job'[k].mode = job[k].mode /\ job'[k].failures = job[k].failures
          /\ pc'[k] \in {"merge", "install"}
      <3>1. CASE Fetch(k)
        BY <1>1, <1>3, <3>1 DEF Fetch, TypedInv, TypeOK, Job, Goto
      <3>2. CASE Merge(k)
        BY <1>3, <3>2 DEF Merge, Goto, TypedInv, TypeOK
      <3> QED BY <3>1, <3>2
    <2>2. Working(k) /\ Working(k)' /\ pc'[k] # "save" /\ pc[k] \notin {"ready", "save"}
      BY <1>1, <2>1 DEF Working
    <2> QED BY <1>1, <2>1, <2>2, GoingOnCounts
  <1> QED BY <1>2, <1>3

LEMMA ActCounts ==
    ASSUME TypedInv, NEW k \in Keepers, Counts(k),
           Install(k) \/ Kill(k) \/ Launch(k) \/ Reset(k) \/ Reinstall(k)
    PROVE  Counts(k)'
  <1>1. pc[k] \in Acting /\ UNCHANGED deaths
    BY DEF Install, Kill, Launch, Reset, Reinstall, Acting
  <1>2. CASE Failure(k)
    BY <1>1, <1>2, FailureCounts
  <1>3. CASE ~Failure(k)
    <2>1. UNCHANGED <<stateVars, job, failed>>
      BY <1>3 DEF Install, Kill, Launch, Reset, Reinstall
    <2>2. pc'[k] \in Acting
      BY <1>3 DEF Install, Kill, Launch, Reset, Reinstall, Goto, TypedInv, TypeOK, Acting
    <2>3. Working(k) /\ Working(k)' /\ pc'[k] # "save" /\ pc[k] \notin {"ready", "save"}
      BY <1>1, <2>2 DEF Acting, Working
    <2> QED BY <1>1, <2>1, <2>3, GoingOnCounts DEF stateVars
  <1> QED BY <1>2, <1>3

LEMMA VerifyCounts ==
    ASSUME TypedInv, NEW k \in Keepers, Counts(k), Verify(k)
    PROVE  Counts(k)'
  <1>1. pc[k] \in Acting /\ UNCHANGED <<deaths, repo>>
    BY DEF Verify, Acting, treeVars
  <1>2. CASE Failure(k)
    BY <1>1, <1>2, FailureCounts
  <1>3. CASE Verified(k)
    <2>1. /\ Lost' = Lost /\ Count(k) = failures /\ failed <= MaxFailures + Lost
          /\ Working(k) /\ pc[k] \notin {"ready", "save"}
      BY <1>1, LostGrows, CountsSay, ActingWorks
    <2>2. CASE job[k].mode = "restart" /\ Exit(k) /\ UNCHANGED <<stateVars, failed>>
      BY <1>1, <2>1, <2>2, QuietEndCounts, ExitEnds DEF stateVars
    <2>3. ASSUME NEW f \in 0..MaxFailures, NEW g \in {0} \cup DOMAIN repo, Truncate(k, f, g),
                 failed' \in Nat, failed' <= MaxFailures + Lost, job[k].mode # "clear",
                 ~disabled => failed' <= f + Lost
          PROVE  Counts(k)'
      <3>1. /\ pc'[k] = "save" /\ job'[k].mode = job[k].mode /\ job'[k].failures = f
            /\ UNCHANGED disabled
        BY <1>1, <2>3, TruncateSays
      <3>2. Count(k)' = f /\ f \in Nat
        BY <3>1, BoundsAreNat DEF Count
      <3> QED BY <2>1, <2>3, <3>1, <3>2, SettledCounts, CountTypes
    <2>4. ASSUME NEW f \in 0..MaxFailures, NEW g \in {0} \cup DOMAIN repo, Truncate(k, f, g),
                 job[k].mode = "update", failed' = 0
          PROVE  Counts(k)'
      <3>1. failed' \in Nat /\ failed' <= MaxFailures + Lost /\ failed' <= f + Lost
        BY <2>4, CountTypes, BoundsAreNat
      <3> QED BY <2>3, <2>4, <3>1
    <2>5. ASSUME NEW f \in 0..MaxFailures, NEW g \in {0} \cup DOMAIN repo, Truncate(k, f, g),
                 job[k].mode = "rollback", f = OneMore(job[k].failures), UNCHANGED failed
          PROVE  Counts(k)'
      <3>1. job[k].failures = failures
        BY <2>1, <2>5 DEF Counts
      <3>2. CASE failures >= MaxFailures
        <4>1. failed' \in Nat /\ failed' <= MaxFailures + Lost /\ failed' <= f + Lost
          BY <2>1, <2>5, <3>1, <3>2, CountTypes DEF OneMore
        <4> QED BY <2>3, <2>5, <4>1
      <3>3. CASE ~(failures >= MaxFailures)
        <4>1. f = failures + 1
          BY <2>5, <3>1, <3>3 DEF OneMore
        <4>2. failed <= failures + Lost + 1 => failed' <= f + Lost
          BY <2>5, <4>1, CountTypes
        <4>3. ~disabled => failed' <= f + Lost
          BY <2>1, <4>2, CountsSay
        <4>4. failed' \in Nat /\ failed' <= MaxFailures + Lost
          BY <2>1, <2>5, CountTypes
        <4> QED BY <2>3, <2>5, <4>3, <4>4
      <3> QED BY <3>2, <3>3
    <2>6. ASSUME NEW f \in 0..MaxFailures, NEW g \in {0} \cup DOMAIN repo, Truncate(k, f, g),
                 job[k].mode = "restart", f = failures, UNCHANGED failed
          PROVE  Counts(k)'
      <3>1. ~disabled => failed' <= f + Lost
        BY <2>1, <2>6, CountsSay
      <3>2. failed' \in Nat /\ failed' <= MaxFailures + Lost
        BY <2>1, <2>6, CountTypes
      <3> QED BY <2>3, <2>6, <3>1, <3>2
    <2> QED BY <1>3, <2>2, <2>4, <2>5, <2>6, VerifiedCases
  <1> QED BY <1>2, <1>3 DEF Verify

\* What is written is what was owed.
LEMMA SaveCounts ==
    ASSUME TypedInv, NEW k \in Keepers, Counts(k), Save(k)
    PROVE  Counts(k)'
  <1>1. /\ pc[k] = "save" /\ Ended(k) /\ UNCHANGED <<deaths, failed>>
        /\ failures' = job[k].failures
    BY ExitEnds DEF Save, histVars
  <1>2. Lost' = Lost /\ Count(k) = failures' /\ failed <= MaxFailures + Lost
    BY <1>1, LostGrows, CountsSay DEF Count
  <1>3. ~disabled => failed <= failures' + Lost
    BY <1>1, <1>2, CountsSay
  <1>4. failed = 0 => failed <= failures' + Lost
    BY <1>2, CountTypes
  <1>5. ~disabled' => failed <= failures' + Lost
    <2>1. ~disabled' => ~disabled \/ job[k].mode = "clear"
      BY DEF Save
    <2> QED BY <1>3, <1>4, <2>1 DEF Counts
  <1> QED BY <1>1, <1>2, <1>5, EndCounts, CountTypes

LEMMA CommandCounts ==
    ASSUME TypedInv, NEW k \in Keepers, Counts(k), CmdReset(k) \/ CmdRestart(k) \/ CmdRollback(k)
    PROVE  Counts(k)'
  <1>1. pc[k] = "ready" /\ job[k].mode = "update" /\ job[k] \in Job
    <2>1. Commanded(k)
      BY RollbackCases DEF CmdReset, CmdRestart, TypedInv
    <2> QED BY <2>1 DEF Commanded, TypedInv, JobsFit, JobFits, Resting, TypeOK
  <1>2. /\ Count(k) = failures /\ failed <= MaxFailures + Lost
        /\ (~disabled => failed <= failures + Lost)
    BY <1>1, CountsSay
  <1>3. ASSUME UNCHANGED <<failures, disabled, failed, deaths>>,
               pc'[k] # "save", job'[k].mode \in {"restart", "rollback"},
               job'[k].mode = "rollback" => job'[k].failures = failures
        PROVE  Counts(k)'
    <2>1. Lost' = Lost /\ Count(k)' = failures
      BY <1>3, LostGrows DEF Count
    <2> QED BY <1>2, <1>3, <2>1, SettledCounts, CountTypes
  <1>4. CASE CmdReset(k)
    <2>1. pc'[k] = "save" /\ job'[k].mode = "clear" /\ job'[k].failures = 0
      BY <1>4, ClearSays
    <2>2. Lost' = Lost /\ failed' = 0 /\ Count(k)' = 0
      BY <1>4, <2>1, LostGrows DEF CmdReset, Count
    <2>3. 0 <= MaxFailures + Lost /\ 0 <= 0 + Lost
      BY CountTypes
    <2> QED BY <2>1, <2>2, <2>3, SettledCounts, CountTypes
  <1>5. CASE CmdRestart(k)
    <2>1. pc'[k] = "kill" /\ job'[k].mode = "restart"
      BY <1>5, BounceFits DEF CmdRestart, treeVars
    <2> QED BY <1>3, <1>5, <2>1 DEF CmdRestart, stateVars, histVars
  <1>6. CASE CmdRollback(k)
    <2>1. UNCHANGED <<failures, disabled, failed, deaths, repo>>
      BY <1>6, RollbackCases DEF stateVars, treeVars, TypedInv
    <2>2. CASE Exit(k)
      BY <1>1, <2>1, <2>2, QuietEndCounts, ExitEnds
    <2>3. CASE Bounce(k) /\ UNCHANGED lock
      <3>1. pc'[k] = "kill" /\ job'[k].mode = "restart"
        BY <2>1, <2>3, BounceFits
      <3> QED BY <1>3, <2>1, <3>1
    <2>4. ASSUME NEW sha \in DOMAIN repo, ByHand(k, sha)
          PROVE  Counts(k)'
      <3>1. pc'[k] = "reset" /\ job'[k].mode = "rollback" /\ job'[k].failures = failures
        BY <2>1, <2>4, ManualFits
      <3> QED BY <1>3, <2>1, <3>1
    <2> QED BY <1>6, <2>2, <2>3, <2>4, RollbackCases DEF TypedInv
  <1> QED BY <1>4, <1>5, <1>6

\* A keeper that died may have owed a failure; its death makes up for it, and one in a
\* write of the state file for the whole count.
LEMMA CrashCounts ==
    ASSUME TypedInv, NEW k \in Keepers, Counts(k), Crash(k)
    PROVE  Counts(k)'
  <1>1. pc'[k] = "off" /\ job'[k].mode = "update" /\ UNCHANGED <<failures, disabled, failed>>
    <2>1. "off" \in Pcs
      BY DEF Pcs
    <2> QED BY <2>1, GotoTyped, NewJobFacts DEF Crash, TypedInv, TypeOK, stateVars
  <1>2. Count(k)' = failures /\ failed <= MaxFailures + Lost
    BY <1>1, CountsSay DEF Count
  <1>3. /\ Lost' \in Nat /\ failed <= MaxFailures + Lost'
        /\ ~disabled => failed <= failures + Lost'
    <2>1. CASE pc[k] = "save"
      <3>1. Lost' = Lost + MaxFailures
        BY <2>1, LostGrows DEF Crash
      <3> QED BY <1>2, <3>1, CountTypes
    <2>2. CASE pc[k] # "save"
      <3>1. Lost' = Lost + 1
        BY <2>2, LostGrows DEF Crash
      <3>2. ~disabled => failed <= failures + Lost + 1
        BY <2>2, CountsSay
      <3>3. failed <= failures + Lost + 1 => failed <= failures + Lost'
        BY <3>1, CountTypes
      <3>4. Lost' \in Nat /\ failed <= MaxFailures + Lost'
        BY <1>2, <3>1, CountTypes
      <3> QED BY <3>2, <3>3, <3>4
    <2> QED BY <2>1, <2>2
  <1>4. ~Working(k)'
    BY <1>1 DEF Working
  <1> QED BY <1>1, <1>2, <1>3, <1>4, SettledCounts, CountTypes

\* The steps of a keeper that has not got the lock, and of its death before it has.
LEMMA IdleStep ==
    ASSUME TypedInv, NEW k \in Keepers,
           Start(k) \/ TakeOver(k) \/ Reopen(k) \/ WritePid(k) \/ (Crash(k) /\ ~Working(k))
    PROVE  /\ ~Working(k) /\ job[k] = NewJob /\ job' = job
           /\ \A i \in Keepers \ {k} : pc'[i] = pc[i]
           /\ pc'[k] \in {"off", "held", "reopen", "write", "ready"}
           /\ UNCHANGED <<treeVars, stateVars, failed, incident, missed>>
           /\ ~WritePid(k) => ~Working(k)'
           /\ UNCHANGED deaths \/ (crashes' = crashes + 1 /\ UNCHANGED torn)
  <1> USE DEF TypedInv
  <1>1. ~Working(k) /\ job[k] = NewJob
    BY DEF Start, TakeOver, Reopen, WritePid, Working, JobsFit, JobFits
  <1>2. CASE Crash(k)
    <2>1. job'[k] = NewJob /\ \A i \in Keepers \ {k} : job'[i] = job[i]
      BY <1>2 DEF Crash, TypeOK
    <2>2. job' = job
      BY <1>1, <1>2, <2>1 DEF Crash, TypeOK
    <2>3. ~Halfway(k) /\ pc[k] # "save"
      BY <1>1 DEF Halfway, Working
    <2>4. UNCHANGED incident /\ crashes' = crashes + 1 /\ UNCHANGED torn
      BY <1>2, <2>3 DEF Crash
    <2> QED BY <1>1, <1>2, <2>2, <2>4 DEF Crash, Goto, TypeOK, Working
  <1>3. CASE ~Crash(k)
    BY <1>1, <1>3 DEF Start, TakeOver, Reopen, WritePid, Goto, TypeOK, Working, histVars
  <1> QED BY <1>2, <1>3

\* Another's death costs the one at work nothing.
LEMMA CountsGrow ==
    ASSUME TypedInv, NEW k \in Keepers, Counts(k), pc'[k] = pc[k], job'[k] = job[k],
           UNCHANGED <<failures, disabled, failed>>, Lost' = Lost \/ Lost' = Lost + 1
    PROVE  Counts(k)'
  <1>1. Count(k)' = Count(k) /\ (Working(k)' <=> Working(k))
    BY DEF Count, Working
  <1>2. \A a, b \in Nat : a <= b + Lost => a <= b + Lost'
    BY CountTypes
  <1>3. \A a, b \in Nat : a <= b + Lost + 1 => a <= b + Lost' + 1
    BY CountTypes
  <1>4. failed \in Nat /\ Count(k) \in Nat /\ MaxFailures \in Nat
    BY CountTypes
  <1> QED BY <1>1, <1>2, <1>3, <1>4, Zenon DEF Counts

LEMMA BecomesAlone ==
    ASSUME TypedInv, LiveHolderBlocks', NEW k \in Keepers, Working(k)',
           Start(k) \/ TakeOver(k) \/ Reopen(k) \/ WritePid(k) \/ (Crash(k) /\ ~Working(k))
    PROVE  Alone(k)' /\ \A i \in Keepers : ~Working(i)
  <1>1. /\ ~Working(k) /\ job' = job /\ \A i \in Keepers \ {k} : pc'[i] = pc[i]
    BY IdleStep
  <1>2. \A i \in Keepers \ {k} : ~Working(i)'
    BY DEF LiveHolderBlocks
  <1>3. \A i \in Keepers : ~Working(i)
    BY <1>1, <1>2 DEF Working
  <1>4. \A i \in Keepers : job[i].mode = "update"
    BY <1>3 DEF TypedInv, JobsFit, JobFits, Working, Resting
  <1> QED BY <1>1, <1>2, <1>3, <1>4 DEF Alone

LEMMA IdleCounts ==
    ASSUME TypedInv, LiveHolderBlocks', Counted, NEW k \in Keepers,
           Start(k) \/ TakeOver(k) \/ Reopen(k) \/ WritePid(k) \/ (Crash(k) /\ ~Working(k))
    PROVE  Counted'
  <1>1. /\ job' = job /\ UNCHANGED <<failures, disabled, failed>> /\ job[k] = NewJob
        /\ \A i \in Keepers \ {k} : pc'[i] = pc[i]
        /\ pc'[k] \in {"off", "held", "reopen", "write", "ready"} /\ ~Working(k)
    BY IdleStep DEF stateVars
  <1>2. Lost' = Lost \/ Lost' = Lost + 1
    BY IdleStep, LostGrows
  <1>3. failed <= MaxFailures + Lost /\ Lost' \in Nat
    BY <1>2, CountTypes DEF Counted
  <1>4. failed' <= MaxFailures + Lost'
    BY <1>1, <1>2, <1>3, CountTypes
  <1>5. ASSUME \A i \in Keepers : ~Working(i), ~disabled
        PROVE  failed' <= failures' + Lost'
    <2>1. failed <= failures + Lost
      BY <1>5 DEF Counted
    <2> QED BY <1>1, <1>2, <2>1, CountTypes
  <1>6. CASE Working(k)'
    <2>1. Alone(k)' /\ \A i \in Keepers : ~Working(i)
      BY <1>6, BecomesAlone
    <2>2. pc'[k] = "ready" /\ job'[k].mode = "update" /\ Count(k)' = failures'
      BY <1>1, <1>6, NewJobFacts DEF Working, Count
    <2>3. ~disabled' => failed' <= Count(k)' + Lost'
      BY <1>1, <1>5, <2>1, <2>2
    <2>4. Counts(k)'
      BY <1>1, <1>3, <1>4, <2>2, <2>3, SettledCounts, CountTypes
    <2> QED BY <2>1, <2>4, CountsBack
  <1>7. CASE ~Working(k)'
    <2>1. \A i \in Keepers : Working(i)' <=> Working(i)
      BY <1>1, <1>7 DEF Working
    <2>2. ASSUME NEW i \in Keepers, Working(i)'
          PROVE  Counts(i)'
      <3>1. Working(i) /\ i # k
        BY <1>7, <2>1, <2>2
      <3>2. Counts(i)
        BY <3>1 DEF Counted
      <3> QED BY <1>1, <1>2, <3>1, <3>2, CountsGrow
    <2> QED BY <1>1, <1>4, <1>5, <2>1, <2>2 DEF Counted
  <1> QED BY <1>6, <1>7

LEMMA NextCounts ==
    TypedInv /\ LiveHolderBlocks /\ LiveHolderBlocks' /\ Counted /\ [Next]_vars => Counted'
  <1> SUFFICES ASSUME TypedInv, LiveHolderBlocks, LiveHolderBlocks', Counted, [Next]_vars
               PROVE  Counted'
    OBVIOUS
  <1>1. CASE UNCHANGED vars \/ \E s \in Services : Die(s) \/ Boot(s)
    <2>1. UNCHANGED <<failures, disabled, failed, deaths, pc, job>>
      BY <1>1 DEF vars, Die, Boot, stateVars, histVars
    <2>2. Lost' = Lost
      BY <2>1, LostGrows
    <2> QED BY <2>1, <2>2 DEF Counted, Counts, Count, Working
  <1>2. ASSUME NEW k \in Keepers, Worker(k) \/ (Crash(k) /\ Working(k))
        PROVE  Counted'
    <2>1. Counts(k)
      BY <1>2, WorkerWorks, CountsAlone DEF TypedInv
    <2>2. Counts(k)'
      BY <1>2, <2>1, PreflightCounts, FetchCounts, ActCounts, VerifyCounts, SaveCounts,
         CommandCounts, CrashCounts DEF Worker
    <2> QED BY <1>2, <2>2, WorkerAlone, CountsBack
  <1>3. ASSUME NEW k \in Keepers,
               Start(k) \/ TakeOver(k) \/ Reopen(k) \/ WritePid(k) \/ (Crash(k) /\ ~Working(k))
        PROVE  Counted'
    BY <1>3, IdleCounts
  <1> QED BY <1>1, <1>2, <1>3 DEF Next, Worker

LEMMA InitCounts == Init => Counted
  <1> SUFFICES ASSUME Init PROVE Counted
    OBVIOUS
  <1>1. failed = 0 /\ failures = 0 /\ Lost \in Nat
    BY BoundsAreNat DEF Init, Lost
  <1>2. \A k \in Keepers : ~Working(k)
    BY DEF Init, Working
  <1>3. 0 <= MaxFailures + Lost /\ 0 <= 0 + Lost
    BY <1>1, BoundsAreNat
  <1> QED BY <1>1, <1>2, <1>3, Zenon DEF Counted

\* Where no two keepers work at once, a broken upstream wedges the loop for a bounded
\* number of updates: MaxFailures of them fail in a row, as many again for each keeper
\* that died between the truncation and the writing of state.json, and one more for each
\* that died elsewhere, before it could count.  (breakerTripped, rollback, writeState)
THEOREM BreakerHolds == Spec /\ []LiveHolderBlocks => []BreakerBounds
<1>1. Counted => BreakerBounds
  BY DEF Counted, BreakerBounds
<1> QED
  BY <1>1, InitTyped, NextTyped, InitCounts, NextCounts, PTL DEF Spec

-----------------------------------------------------------------------------
(* The services and the tree *)

LEMMA TreeAlone ==
    ASSUME NEW k \in Keepers, Working(k), TreeFits
    PROVE  NoneBroken /\ (incident \subseteq {"manual"} => Good(k))
  BY DEF TreeFits, Good

LEMMA TreeBack ==
    ASSUME NEW k \in Keepers, Alone(k)', NoneBroken',
           incident' \subseteq {"manual"} => Good(k)'
    PROVE  TreeFits'
  <1>1. ASSUME \A i \in Keepers : ~Working(i)', Good(k)'
        PROVE  Follows'
    <2>1. pc'[k] \in Resting
      BY <1>1 DEF Working, Resting
    <2> QED BY <1>1, <2>1 DEF Good, ServicesFit, Settled
  <1> QED BY <1>1 DEF TreeFits, Good, Alone

\* A commit whose services are all up has come up.
LEMMA HealthyIsGood ==
    ASSUME NoneBroken, Healthy(running), NEW n, \A s \in Sure : Runs(s, n)
    PROVE  GoodCommit(n)
  BY DEF NoneBroken, Healthy, Runs, RunsIn, GoodCommit, Sure

\* Where nothing about a commit changes but the services that are sure.
LEMMA GoodStays ==
    ASSUME NEW n, GoodCommit(n), repo'[n] = repo[n], Sure' \subseteq Sure
    PROVE  \A s \in Sure' : repo'[n].code[s] \notin Broken
  BY DEF GoodCommit

LEMMA VouchedStays ==
    ASSUME Vouched, UNCHANGED <<repo, lastGood>>, Sure' \subseteq Sure
    PROVE  Vouched'
  BY DEF Vouched, GoodCommit

LEMMA SureStays ==
    /\ UNCHANGED missed => Sure' = Sure
    /\ missed \subseteq missed' => Sure' \subseteq Sure
  BY DEF Sure

\* Where a command ends, the services run the tree.
LEMMA EndGood ==
    ASSUME TypedInv, NEW k \in Keepers, Ended(k), Vouched', Follows'
    PROVE  Good(k)'
  <1>1. pc'[k] \in {"off", "ready"} /\ job'[k].mode = "update" /\ job'[k].lastGood = 0
    BY EndedFits DEF TypedInv
  <1>2. UpdateFits(k)'
    BY <1>1 DEF UpdateFits, Resting, Settled
  <1>3. ServicesFit(k)'
    BY <1>1 DEF ServicesFit, Resting, Settled
  <1> QED BY <1>2, <1>3 DEF Good

LEMMA FailureGood ==
    ASSUME TypedInv, NEW k \in Keepers, pc[k] \in Acting, Failure(k), UNCHANGED <<repo, missed>>,
           Good(k), incident' \subseteq {"manual"},
           job[k].mode = "update" =>
               \A s \in Sure \ job[k].restart : RunsIn(running', booting', s, job[k].prev),
           job[k].mode = "restart" => Follows'
    PROVE  Good(k)'
  <1>0. Sure' = Sure
    BY SureStays
  <1>1. CASE job[k].mode = "update"
    <2>1. /\ job' = [job EXCEPT ![k].mode = "rollback"] /\ Goto(k, "reset")
          /\ UNCHANGED stateVars
      BY <1>1 DEF Failure
    <2>2. job[k] \in Job /\ "reset" \in Pcs
      BY DEF TypedInv, TypeOK, Pcs
    <2>3. job'[k] = [job[k] EXCEPT !.mode = "rollback"] /\ pc'[k] = "reset"
      BY <2>1, <2>2, GotoTyped DEF TypedInv, TypeOK
    <2>4. /\ job'[k].mode = "rollback" /\ job'[k].prev = job[k].prev
          /\ job'[k].lastGood = job[k].lastGood /\ job'[k].restart = job[k].restart
      BY <2>2, <2>3 DEF Job
    <2>5. Vouched'
      BY <1>0, <2>1, VouchedStays DEF Good, stateVars
    <2>6. UpdateFits(k)'
      BY <1>0, <2>3, <2>4 DEF Good, UpdateFits, GoodCommit, Resting, Settled
    <2>7. ServicesFit(k)'
      BY <1>0, <1>1, <2>3, <2>4 DEF ServicesFit, Resting, Settled, Runs, RunsIn
    <2> QED BY <2>5, <2>6, <2>7 DEF Good
  <1>2. CASE job[k].mode = "rollback"
    BY <1>2 DEF Failure
  <1>3. CASE job[k].mode = "restart"
    <2>1. Ended(k) /\ UNCHANGED lastGood
      BY <1>3, ExitEnds DEF Failure, stateVars
    <2>2. Vouched'
      BY <1>0, <2>1, VouchedStays DEF Good
    <2> QED BY <1>3, <2>1, <2>2, EndGood
  <1> QED BY <1>1, <1>2, <1>3 DEF Failure

LEMMA FollowsStays ==
    ASSUME Follows, UNCHANGED <<repo, head, running, booting, missed>>
    PROVE  Follows'
  BY SureStays DEF Follows, Runs, RunsIn

LEMMA PreflightGood ==
    ASSUME TypedInv, NEW k \in Keepers, NoneBroken, Good(k), Preflight(k)
    PROVE  Good(k)'
  <1>1. /\ pc[k] = "ready" /\ job[k].mode = "update" /\ job[k] \in Job
        /\ UNCHANGED <<repo, head, running, booting, missed, lastGood>>
    BY DEF Preflight, TypedInv, JobsFit, JobFits, Resting, Settled, stateVars, treeVars, histVars,
           TypeOK
  <1>2. Follows /\ Follows' /\ Sure' = Sure
    BY <1>1, FollowsStays, SureStays DEF Good, ServicesFit, Resting, Settled
  <1>3. Vouched /\ Vouched'
    BY <1>1, <1>2, VouchedStays DEF Good
  <1>4. CASE Exit(k)
    BY <1>2, <1>3, <1>4, EndGood, ExitEnds
  <1>5. CASE job' = [job EXCEPT ![k].cycle = TRUE] /\ UNCHANGED pc
    <2>1. job'[k].mode = "update" /\ job'[k].lastGood = job[k].lastGood
      BY <1>1, <1>5 DEF TypedInv, TypeOK, Job
    <2>2. UpdateFits(k)'
      BY <1>1, <1>2, <1>5, <2>1 DEF Good, UpdateFits, GoodCommit, Resting, Settled
    <2>3. ServicesFit(k)'
      BY <1>1, <1>2, <1>5, <2>1 DEF ServicesFit, Resting, Settled
    <2> QED BY <1>3, <2>2, <2>3 DEF Good
  <1>6. CASE /\ Healthy(running) /\ Goto(k, "fetch")
             /\ job' = [job EXCEPT ![k].cycle = TRUE, ![k].failures = failures,
                                   ![k].lastGood = lastGood]
    <2>1. job'[k] = [job[k] EXCEPT !.cycle = TRUE, !.failures = failures, !.lastGood = lastGood]
      BY <1>6 DEF TypedInv, TypeOK
    <2>2. job'[k].mode = "update" /\ job'[k].lastGood = lastGood
      BY <1>1, <2>1 DEF Job
    <2>3. pc'[k] = "fetch"
      BY <1>6 DEF Goto, TypedInv, TypeOK
    <2>4. GoodCommit(head)
      BY <1>2, <1>6, HealthyIsGood DEF Follows
    <2>5. UpdateFits(k)'
      BY <1>1, <1>2, <1>3, <2>2, <2>3, <2>4
         DEF UpdateFits, GoodCommit, Vouched, Resting, Settled
    <2>6. ServicesFit(k)'
      BY <1>2, <2>2, <2>3 DEF ServicesFit, Resting, Settled
    <2> QED BY <1>3, <2>5, <2>6 DEF Good
  <1> QED BY <1>4, <1>5, <1>6 DEF Preflight

LEMMA FetchGood ==
    ASSUME TypedInv, NEW k \in Keepers, Good(k), Fetch(k)
    PROVE  Good(k)'
  <1>1. /\ pc[k] = "fetch" /\ job[k].mode = "update" /\ job[k] \in Job
        /\ job[k].lastGood \in {0} \cup DOMAIN repo
        /\ UNCHANGED <<head, running, booting, missed, lastGood>> /\ Sure' = Sure
    BY SureStays
       DEF Fetch, TypedInv, JobsFit, JobFits, Resting, Settled, stateVars, histVars, TypeOK
  <1>2. DOMAIN repo \subseteq DOMAIN repo' /\ \A n \in DOMAIN repo : repo'[n] = repo[n]
    BY FetchGrows DEF TypedInv
  <1>3. head \in DOMAIN repo /\ lastGood \in {0} \cup DOMAIN repo
    BY DEF TypedInv, TypeOK
  <1>4. Vouched'
    BY <1>1, <1>2, <1>3 DEF Good, Vouched, GoodCommit
  <1>5. Follows'
    BY <1>1, <1>2, <1>3 DEF Good, ServicesFit, Follows, Runs, RunsIn, Resting, Settled
  <1>6. CASE Ended(k)
    BY <1>4, <1>5, <1>6, EndGood
  <1>7. CASE ~Ended(k)
    <2>1. /\ job' = [job EXCEPT ![k].prev = head, ![k].target = Len(repo'),
                                ![k].restart = Touched(repo'[head], repo'[Len(repo')]),
                                ![k].install = Installs(repo'[head], repo'[Len(repo')])]
          /\ Goto(k, "merge")
      BY <1>7 DEF Fetch
    <2>2. pc'[k] = "merge"
      BY <2>1 DEF Goto, TypedInv, TypeOK
    <2>3. job'[k] = [job[k] EXCEPT !.prev = head, !.target = Len(repo'),
                                !.restart = Touched(repo'[head], repo'[Len(repo')]),
                                !.install = Installs(repo'[head], repo'[Len(repo')])]
      BY <2>1 DEF TypedInv, TypeOK
    <2>4. /\ job'[k].mode = "update" /\ job'[k].prev = head /\ job'[k].target = Len(repo')
          /\ job'[k].lastGood = job[k].lastGood
      BY <1>1, <2>3 DEF Job
    <2>5. UpdateFits(k)'
      BY <1>1, <1>2, <1>3, <2>2, <2>4 DEF Good, UpdateFits, GoodCommit, Resting, Settled
    <2>6. ServicesFit(k)'
      BY <1>5, <2>2, <2>4 DEF ServicesFit, Resting, Settled
    <2> QED BY <1>4, <2>5, <2>6 DEF Good
  <1> QED BY <1>6, <1>7

LEMMA MergeGood ==
    ASSUME TypedInv, NEW k \in Keepers, Good(k), Merge(k)
    PROVE  Good(k)'
  <1>1. /\ pc[k] = "merge" /\ job[k].mode = "update"
        /\ UNCHANGED <<repo, running, booting, missed, lastGood>> /\ Sure' = Sure
    BY SureStays DEF Merge, TypedInv, JobsFit, JobFits, Resting, Settled, stateVars, histVars
  <1>2. Vouched'
    BY <1>1, VouchedStays DEF Good
  <1>3. Follows /\ GoodCommit(job[k].prev) /\ job[k].target = Len(repo) /\ head = job[k].prev
    BY <1>1 DEF Good, ServicesFit, UpdateFits, Resting, Settled
  <1>4. CASE Ended(k) /\ UNCHANGED head
    BY <1>1, <1>2, <1>3, <1>4, FollowsStays, EndGood
  <1>5. CASE head' = Len(repo) /\ Goto(k, "install") /\ UNCHANGED job
    <2>1. pc'[k] = "install"
      BY <1>5 DEF Goto, TypedInv, TypeOK
    <2>2. UpdateFits(k)'
      BY <1>1, <1>3, <1>5, <2>1 DEF Good, UpdateFits, GoodCommit, Resting, Settled
    <2>3. ServicesFit(k)'
      BY <1>1, <1>3, <1>5, <2>1 DEF ServicesFit, Follows, Runs, RunsIn, Resting, Settled
    <2> QED BY <1>2, <2>2, <2>3 DEF Good
  <1> QED BY <1>4, <1>5 DEF Merge

LEMMA InstallGood ==
    ASSUME TypedInv, NEW k \in Keepers, Good(k), Install(k), incident' \subseteq {"manual"}
    PROVE  Good(k)'
  <1>1. /\ pc[k] = "install" /\ job[k].mode = "update" /\ pc[k] \in Acting
        /\ UNCHANGED <<repo, head, running, booting, missed>> /\ Sure' = Sure
        /\ job[k].restart = Touched(repo[job[k].prev], repo[job[k].target])
    BY SureStays DEF Install, TypedInv, JobsFit, JobFits, Resting, Settled, Acting
  <1>2. \A s \in Sure : Runs(s, job[k].prev)
    BY <1>1 DEF Good, ServicesFit
  <1>3. CASE Failure(k)
    <2>1. \A s \in Sure \ job[k].restart : RunsIn(running', booting', s, job[k].prev)
      BY <1>1, <1>2 DEF Runs, RunsIn
    <2> QED BY <1>1, <1>3, <2>1, FailureGood
  <1>4. CASE /\ Goto(k, IF job[k].restart = {} THEN "verify" ELSE "kill")
             /\ UNCHANGED <<stateVars, job>>
    <2>1. pc'[k] = IF job[k].restart = {} THEN "verify" ELSE "kill"
      BY <1>4 DEF Goto, TypedInv, TypeOK
    <2>2. Vouched'
      BY <1>1, <1>4, VouchedStays DEF Good, stateVars
    <2>3. UpdateFits(k)'
      BY <1>1, <1>4, <2>1 DEF Good, UpdateFits, GoodCommit, Resting, Settled
    <2>4. CASE job[k].restart = {}
      <3>1. head = job[k].target
        BY <1>1 DEF Good, UpdateFits, Resting, Settled
      <3>2. \A s \in Services : repo[job[k].prev].code[s] = repo[head].code[s]
        BY <1>1, <2>4, <3>1 DEF Touched
      <3>3. Follows'
        BY <1>1, <1>2, <3>2 DEF Follows, Runs, RunsIn, Sure
      <3>4. ServicesFit(k)'
        BY <1>1, <1>4, <2>1, <2>4, <3>3 DEF ServicesFit, Resting, Settled
      <3> QED BY <2>2, <2>3, <3>4 DEF Good
    <2>5. CASE job[k].restart # {}
      <3>1. ServicesFit(k)'
        BY <1>1, <1>2, <1>4, <2>1, <2>5 DEF ServicesFit, Runs, RunsIn, Resting, Settled
      <3> QED BY <2>2, <2>3, <3>1 DEF Good
    <2> QED BY <2>4, <2>5
  <1> QED BY <1>3, <1>4 DEF Install

\* What an update does not restart is what it was before.
LEMMA UntouchedSame ==
    ASSUME TypedInv, NEW k \in Keepers, Good(k), pc[k] \in {"kill", "launch", "verify"},
           job[k].mode # "restart"
    PROVE  \A s \in Services \ job[k].restart : repo[job[k].prev].code[s] = repo[head].code[s]
  <1>1. CASE job[k].mode = "rollback"
    BY <1>1 DEF Good, ServicesFit
  <1>2. CASE job[k].mode = "update"
    <2>1. head = job[k].target /\ job[k].restart = Touched(repo[job[k].prev], repo[job[k].target])
      BY <1>2 DEF Good, UpdateFits, TypedInv, JobsFit, JobFits, Resting, Settled
    <2> QED BY <2>1 DEF Touched
  <1>3. job[k].mode \in {"update", "rollback"}
    BY DEF TypedInv, TypeOK, Job, Modes, JobsFit, JobFits
  <1> QED BY <1>1, <1>2, <1>3

LEMMA KillGood ==
    ASSUME TypedInv, NEW k \in Keepers, Good(k), Kill(k), incident' \subseteq {"manual"}
    PROVE  Good(k)'
  <1>1. pc[k] = "kill" /\ pc[k] \in Acting /\ UNCHANGED <<repo, head, booting>>
    BY DEF Kill, Acting
  <1>2. \A s \in Services : running'[s] \in {running[s], Down}
    BY DEF Kill
  <1>3. /\ job[k].mode # "restart" => \A s \in Sure \ job[k].restart : Runs(s, job[k].prev)
        /\ job[k].mode = "update" => \A s \in Sure : Runs(s, job[k].prev)
        /\ job[k].mode = "restart" => job[k].restart = Services /\ Follows
        /\ job[k].mode = "rollback" => head = job[k].prev
    BY <1>1 DEF Good, ServicesFit
  <1>4. CASE Failure(k) /\ UNCHANGED missed
    <2>1. job[k].mode = "update" =>
             \A s \in Sure \ job[k].restart : RunsIn(running', booting', s, job[k].prev)
      BY <1>1, <1>2, <1>3 DEF Runs, RunsIn, Sure
    <2>2. job[k].mode = "restart" => Follows'
      BY <1>1, <1>2, <1>3, <1>4, SureStays DEF Follows, Runs, RunsIn, Sure
    <2> QED BY <1>1, <1>4, <2>1, <2>2, FailureGood
  <1>5. CASE /\ \A s \in job[k].restart : running'[s] = Down
             /\ missed' = missed \cup {s \in job[k].restart : ~(booting[s] \subseteq Comes(s))}
             /\ Goto(k, "launch") /\ UNCHANGED <<stateVars, job>>
    <2>1. pc'[k] = "launch"
      BY <1>5 DEF Goto, TypedInv, TypeOK
    <2>2. Sure' \subseteq Sure /\ Sure \subseteq Services
      BY <1>5, SureStays DEF Sure
    <2>3. \A s \in Sure' \cap job[k].restart : booting[s] \subseteq {repo[head].code[s]}
      BY <1>5 DEF Sure, Comes
    <2>4. \A s \in Sure' \cap job[k].restart : RunsIn(running', booting', s, head)
      BY <1>1, <1>5, <2>3 DEF RunsIn
    <2>5. ASSUME NEW s \in Sure' \ job[k].restart
          PROVE  RunsIn(running', booting', s, head)
      <3>1. job[k].mode # "restart"
        BY <1>3, <2>2, <2>5
      <3>2. Runs(s, job[k].prev) /\ s \in Services \ job[k].restart
        BY <1>3, <2>2, <2>5, <3>1
      <3>3. repo[job[k].prev].code[s] = repo[head].code[s]
        BY <1>1, <3>1, <3>2, UntouchedSame
      <3> QED BY <1>1, <1>2, <3>2, <3>3 DEF Runs, RunsIn
    <2>6. Follows'
      BY <1>1, <2>4, <2>5 DEF Follows, Runs, RunsIn
    <2>7. Vouched'
      BY <1>1, <1>5, <2>2, VouchedStays DEF Good, stateVars
    <2>8. UpdateFits(k)'
      BY <1>1, <1>5, <2>1, <2>2 DEF Good, UpdateFits, GoodCommit, Resting, Settled
    <2>9. ServicesFit(k)'
      BY <1>1, <1>3, <1>5, <2>1, <2>6 DEF ServicesFit, Resting, Settled
    <2> QED BY <2>7, <2>8, <2>9 DEF Good
  <1> QED BY <1>4, <1>5 DEF Kill

LEMMA LaunchGood ==
    ASSUME TypedInv, NEW k \in Keepers, Good(k), Launch(k), incident' \subseteq {"manual"}
    PROVE  Good(k)'
  <1>1. /\ pc[k] = "launch" /\ pc[k] \in Acting /\ Sure' = Sure
        /\ UNCHANGED <<repo, head, running, missed>>
    BY SureStays DEF Launch, Acting
  <1>2. Follows
    BY <1>1 DEF Good, ServicesFit
  <1>3. PICK up \in SUBSET job[k].restart :
           /\ booting' = [s \in Services |->
                             IF s \in up THEN booting[s] \cup Comes(s) ELSE booting[s]]
           /\ \/ /\ up = job[k].restart
                 /\ Goto(k, "verify") /\ UNCHANGED <<stateVars, lock, job, failed, incident>>
              \/ Failure(k)
    BY DEF Launch
  <1>4. \A s \in Sure : booting[s] \subseteq {repo[head].code[s]}
    BY <1>2 DEF Follows, Runs, RunsIn
  <1>5. \A s \in Services : Comes(s) \subseteq {repo[head].code[s]}
    BY DEF Comes
  <1>6. \A s \in Sure : booting'[s] \subseteq {repo[head].code[s]}
    BY <1>3, <1>4, <1>5 DEF Sure
  <1>7. Follows'
    BY <1>1, <1>2, <1>6 DEF Follows, Runs, RunsIn
  <1>8. CASE Failure(k)
    <2>1. ASSUME job[k].mode = "update", NEW s \in Sure \ job[k].restart
          PROVE  RunsIn(running', booting', s, job[k].prev)
      <3>1. repo[job[k].prev].code[s] = repo[head].code[s]
        BY <1>1, <2>1, UntouchedSame DEF Sure
      <3>2. running[s] \in {repo[head].code[s], Down}
        BY <1>2 DEF Follows, Runs, RunsIn
      <3> QED BY <1>1, <1>6, <3>1, <3>2 DEF RunsIn
    <2> QED BY <1>1, <1>7, <1>8, <2>1, FailureGood
  <1>9. CASE Goto(k, "verify") /\ UNCHANGED <<stateVars, job>>
    <2>1. pc'[k] = "verify"
      BY <1>9 DEF Goto, TypedInv, TypeOK
    <2>2. Vouched'
      BY <1>1, <1>9, VouchedStays DEF Good, stateVars
    <2>3. UpdateFits(k)'
      BY <1>1, <1>9, <2>1 DEF Good, UpdateFits, GoodCommit, Resting, Settled
    <2>4. ServicesFit(k)'
      BY <1>1, <1>7, <1>9, <2>1 DEF Good, ServicesFit, Resting, Settled
    <2> QED BY <2>2, <2>3, <2>4 DEF Good
  <1> QED BY <1>3, <1>8, <1>9

LEMMA VerifyGood ==
    ASSUME TypedInv, NEW k \in Keepers, NoneBroken, Good(k), Verify(k),
           incident' \subseteq {"manual"}
    PROVE  Good(k)'
  <1>1. /\ pc[k] = "verify" /\ pc[k] \in Acting /\ job[k] \in Job /\ Sure' = Sure
        /\ UNCHANGED <<repo, head, running, booting, missed>>
    BY SureStays DEF Verify, treeVars, Acting, TypedInv, TypeOK
  <1>2. Follows /\ Follows'
    BY <1>1, FollowsStays DEF Good, ServicesFit
  <1>3. job[k].mode = "update" =>
           /\ head = job[k].target /\ GoodCommit(job[k].prev)
           /\ job[k].restart = Touched(repo[job[k].prev], repo[head])
    BY <1>1 DEF Good, UpdateFits, TypedInv, JobsFit, JobFits, Resting, Settled
  <1>4. CASE Failure(k)
    <2>1. ASSUME job[k].mode = "update", NEW s \in Sure \ job[k].restart
          PROVE  RunsIn(running', booting', s, job[k].prev)
      <3>1. repo[job[k].prev].code[s] = repo[head].code[s]
        BY <1>1, <2>1, UntouchedSame DEF Sure
      <3> QED BY <1>1, <1>2, <3>1 DEF Follows, Runs, RunsIn
    <2> QED BY <1>1, <1>2, <1>4, <2>1, FailureGood
  <1>5. CASE /\ Verified(k)
             /\ Healthy(running) \/ (job[k].mode = "update" /\ job[k].restart = {})
    <2>1. Healthy(running) => GoodCommit(head)
      BY <1>2, HealthyIsGood DEF Follows
    <2>2. job[k].mode = "update" /\ job[k].restart = {} => GoodCommit(head)
      BY <1>3 DEF Touched, GoodCommit, Sure
    <2>3. GoodCommit(head)
      BY <1>5, <2>1, <2>2
    <2>4. CASE Exit(k) /\ UNCHANGED stateVars
      <3>1. Vouched'
        BY <1>1, <2>4, VouchedStays DEF Good, stateVars
      <3> QED BY <1>2, <2>4, <3>1, EndGood, ExitEnds
    <2>5. ASSUME NEW f \in 0..MaxFailures, NEW g \in {0} \cup DOMAIN repo, Truncate(k, f, g),
                 g \in {head, job[k].lastGood}
          PROVE  Good(k)'
      <3>1. /\ pc'[k] = "save" /\ job'[k].mode = job[k].mode /\ job'[k].lastGood = g
            /\ job'[k].restart = job[k].restart /\ lastGood' = 0
        <4>1. UNCHANGED repo
          BY <1>1
        <4>2. Truncate(k, f, g)
          BY <2>5
        <4> QED BY ONLY TypedInv, <4>1, <4>2, TruncateSays
      <3>2. g # 0 => GoodCommit(g)
        BY <2>3, <2>5 DEF Good, UpdateFits
      <3>3. Vouched'
        BY <3>1 DEF Vouched
      <3>4. UpdateFits(k)'
        BY <1>1, <3>1, <3>2 DEF UpdateFits, GoodCommit, Resting, Settled
      <3>5. ServicesFit(k)'
        BY <1>1, <1>2, <3>1 DEF Good, ServicesFit, Resting, Settled
      <3> QED BY <3>3, <3>4, <3>5 DEF Good
    <2> QED BY <1>3, <1>5, <2>4, <2>5, VerifiedCases
  <1> QED BY <1>4, <1>5 DEF Verify

LEMMA SaveGood ==
    ASSUME TypedInv, NEW k \in Keepers, Good(k), Save(k)
    PROVE  Good(k)'
  <1>1. /\ pc[k] = "save" /\ Ended(k) /\ lastGood' = job[k].lastGood /\ Sure' = Sure
        /\ UNCHANGED <<repo, head, running, booting, missed>>
    BY ExitEnds, SureStays DEF Save, treeVars, histVars
  <1>2. Follows /\ Follows'
    BY <1>1, FollowsStays DEF Good, ServicesFit, Settled
  <1>3. Vouched'
    BY <1>1 DEF Good, UpdateFits, Vouched, GoodCommit
  <1> QED BY <1>1, <1>2, <1>3, EndGood

LEMMA RollbackGood ==
    ASSUME TypedInv, NEW k \in Keepers, Good(k), Reset(k) \/ Reinstall(k),
           incident' \subseteq {"manual"}
    PROVE  Good(k)'
  <1>1. /\ pc[k] \in {"reset", "reinstall"} /\ job[k].mode = "rollback"
        /\ pc[k] \in Acting /\ pc[k] \notin Settled /\ Sure' = Sure
        /\ UNCHANGED <<repo, running, booting, missed>>
    BY SureStays DEF Reset, Reinstall, TypedInv, JobsFit, JobFits, Resting, Settled, Acting
  <1>2. \A s \in Sure \ job[k].restart : Runs(s, job[k].prev)
    BY <1>1 DEF Good, ServicesFit
  <1>3. CASE Failure(k)
    BY <1>1, <1>3, FailureGood
  <1>4. CASE ~Failure(k)
    <2>1. /\ UNCHANGED <<stateVars, job>> /\ head' = job[k].prev
          /\ \E p \in {"reinstall", "kill"} : Goto(k, p)
      BY <1>1, <1>4 DEF Reset, Reinstall, Good, ServicesFit
    <2>2. pc'[k] \in {"reinstall", "kill"}
      BY <2>1 DEF Goto, TypedInv, TypeOK
    <2>3. Vouched'
      BY <1>1, <2>1, VouchedStays DEF Good, stateVars
    <2>4. UpdateFits(k)'
      BY <1>1, <2>1, <2>2 DEF Good, UpdateFits, GoodCommit, Resting, Settled
    <2>5. ServicesFit(k)'
      BY <1>1, <1>2, <2>1, <2>2 DEF ServicesFit, Runs, RunsIn, Resting, Settled
    <2> QED BY <2>3, <2>4, <2>5 DEF Good
  <1> QED BY <1>3, <1>4

LEMMA CommandGood ==
    ASSUME TypedInv, NEW k \in Keepers, Good(k), CmdReset(k) \/ CmdRestart(k) \/ CmdRollback(k)
    PROVE  Good(k)'
  <1>1. /\ pc[k] = "ready" /\ job[k].mode = "update"
        /\ UNCHANGED <<repo, head, running, booting, missed>>
    <2>1. Commanded(k)
      BY RollbackCases DEF CmdReset, CmdRestart, TypedInv
    <2>2. UNCHANGED <<treeVars, missed>>
      BY RollbackCases DEF CmdReset, CmdRestart, TypedInv, histVars
    <2> QED BY <2>1, <2>2 DEF Commanded, TypedInv, JobsFit, JobFits, Resting, Settled, treeVars
  <1>2. Follows /\ Follows' /\ Sure' = Sure
    BY <1>1, FollowsStays, SureStays DEF Good, ServicesFit, Resting, Settled
  <1>3. Vouched /\ (job[k].lastGood # 0 => GoodCommit(job[k].lastGood))
    BY DEF Good, UpdateFits
  <1>4. ~CmdReset(k) => UNCHANGED lastGood
    BY RollbackCases DEF CmdRestart, TypedInv, stateVars
  <1>5. ~CmdReset(k) => Vouched'
    BY <1>1, <1>2, <1>3, <1>4, VouchedStays
  <1>6. CASE CmdReset(k)
    <2>1. /\ pc'[k] = "save" /\ job'[k].mode = "clear" /\ job'[k].lastGood = lastGood
          /\ lastGood' = 0
      BY <1>6, ClearSays DEF CmdReset
    <2>2. Vouched'
      BY <2>1 DEF Vouched
    <2>3. UpdateFits(k)'
      BY <1>1, <1>2, <1>3, <2>1 DEF UpdateFits, Vouched, GoodCommit, Resting, Settled
    <2>4. ServicesFit(k)'
      BY <1>2, <2>1 DEF ServicesFit
    <2> QED BY <2>2, <2>3, <2>4 DEF Good
  <1>7. CASE Exit(k) /\ ~CmdReset(k)
    BY <1>2, <1>5, <1>7, EndGood, ExitEnds
  <1>8. CASE Bounce(k) /\ UNCHANGED lock /\ ~CmdReset(k)
    <2>1. /\ pc'[k] = "kill" /\ job'[k].mode = "restart" /\ job'[k].restart = Services
          /\ job'[k].lastGood = job[k].lastGood
      BY <1>1, <1>8, BounceFits
    <2>2. UpdateFits(k)'
      BY <1>1, <1>2, <1>3, <2>1 DEF UpdateFits, GoodCommit, Resting, Settled
    <2>3. ServicesFit(k)'
      BY <1>2, <2>1 DEF ServicesFit, Resting, Settled
    <2> QED BY <1>5, <1>8, <2>2, <2>3 DEF Good
  <1>9. ASSUME NEW sha \in DOMAIN repo, ByHand(k, sha), ~CmdReset(k)
        PROVE  Good(k)'
    <2>1. /\ pc'[k] = "reset" /\ job'[k].mode = "rollback" /\ job'[k].restart = Services
          /\ job'[k].lastGood = lastGood
      BY <1>1, <1>9, ManualFits
    <2>2. UpdateFits(k)'
      BY <1>1, <1>2, <1>3, <2>1 DEF UpdateFits, GoodCommit, Vouched, Resting, Settled
    <2>3. ServicesFit(k)'
      BY <1>2, <2>1 DEF ServicesFit, Sure, Resting, Settled
    <2> QED BY <1>5, <1>9, <2>2, <2>3 DEF Good
  <1> QED BY <1>6, <1>7, <1>8, <1>9, RollbackCases DEF CmdRestart, TypedInv

LEMMA WorkerGood ==
    ASSUME TypedInv, NEW k \in Keepers, NoneBroken, Good(k), Worker(k),
           incident' \subseteq {"manual"}
    PROVE  Good(k)'
  BY PreflightGood, FetchGood, MergeGood, InstallGood, KillGood, LaunchGood, VerifyGood, SaveGood,
     RollbackGood, CommandGood DEF Worker

\* What an incident is, it stays; and no step starts a version that does not come up.
LEMMA IncidentStays ==
    ASSUME TypeOK, NEW k \in Keepers, Worker(k)
    PROVE  incident \subseteq incident'
  <1>1. Failure(k) => incident \subseteq incident'
    BY DEF Failure
  <1>2. CmdRollback(k) => incident \subseteq incident'
    BY RollbackCases
  <1> QED BY <1>1, <1>2 DEF Worker, Preflight, Fetch, Merge, Install, Kill, Launch, Verify, Save,
             Reset, Reinstall, CmdReset, CmdRestart, histVars

LEMMA RunningStays ==
    ASSUME TypeOK, NEW k \in Keepers, Worker(k) \/ Crash(k), NoneBroken
    PROVE  NoneBroken'
  <1>0. Down \notin Broken
    BY SelfUpdateAssumption
  <1>1. CASE Kill(k)
    BY <1>0, <1>1 DEF Kill, NoneBroken
  <1>2. CASE Launch(k)
    <2>1. UNCHANGED running
      BY <1>2 DEF Launch
    <2>2. \A s \in Services : booting'[s] \subseteq booting[s] \cup Comes(s)
      BY <1>2 DEF Launch
    <2>3. \A s \in Services : Comes(s) \cap Broken = {}
      BY DEF Comes
    <2> QED BY <2>1, <2>2, <2>3 DEF NoneBroken
  <1>3. CASE ~Kill(k) /\ ~Launch(k)
    <2>1. CmdRollback(k) => UNCHANGED <<running, booting>>
      BY RollbackCases DEF treeVars
    <2>2. UNCHANGED <<running, booting>>
      BY <1>3, <2>1 DEF Worker, Crash, Preflight, Fetch, Merge, Install, Verify, Save, Reset,
             Reinstall, CmdReset, CmdRestart, treeVars
    <2> QED BY <2>2 DEF NoneBroken
  <1> QED BY <1>1, <1>2, <1>3

LEMMA WorkerTree ==
    ASSUME TypedInv, LiveHolderBlocks, TreeFits, NEW k \in Keepers, Worker(k)
    PROVE  TreeFits'
  <1>1. Alone(k)' /\ Working(k)
    BY WorkerAlone, WorkerWorks DEF TypedInv
  <1>2. NoneBroken /\ NoneBroken'
    BY <1>1, TreeAlone, RunningStays DEF TypedInv
  <1>3. ASSUME incident' \subseteq {"manual"}
        PROVE  Good(k)'
    BY <1>1, <1>2, <1>3, TreeAlone, WorkerGood, IncidentStays DEF TypedInv
  <1> QED BY <1>1, <1>2, <1>3, TreeBack

\* A keeper becomes the one at work where there is none.
LEMMA IdleTree ==
    ASSUME TypedInv, LiveHolderBlocks', TreeFits, NEW k \in Keepers,
           Start(k) \/ TakeOver(k) \/ Reopen(k) \/ WritePid(k) \/ (Crash(k) /\ ~Working(k))
    PROVE  TreeFits'
  <1>1. /\ ~Working(k) /\ job[k] = NewJob /\ job' = job
        /\ \A i \in Keepers \ {k} : pc'[i] = pc[i]
        /\ pc'[k] \in {"off", "held", "reopen", "write", "ready"}
        /\ UNCHANGED <<repo, head, running, booting, lastGood, incident, missed>>
    BY IdleStep DEF treeVars, stateVars
  <1>2. Sure' = Sure /\ (Follows => Follows') /\ (Vouched => Vouched')
        /\ (NoneBroken => NoneBroken')
    BY <1>1, SureStays, FollowsStays, VouchedStays DEF NoneBroken
  <1>3. CASE Working(k)'
    <2>1. Alone(k)' /\ \A i \in Keepers : ~Working(i)
      BY <1>3, BecomesAlone
    <2>2. ASSUME incident' \subseteq {"manual"}
          PROVE  Good(k)'
      <3>1. Follows' /\ Vouched'
        BY <1>1, <1>2, <2>1, <2>2 DEF TreeFits
      <3>2. pc'[k] \in Resting /\ pc'[k] # "fetch"
        BY <1>1 DEF Resting
      <3>3. job'[k].mode = "update" /\ job'[k].lastGood = 0
        BY <1>1, NewJobFacts
      <3>4. UpdateFits(k)'
        BY <3>2, <3>3 DEF UpdateFits, Settled
      <3>5. ServicesFit(k)'
        BY <3>1, <3>2, <3>3 DEF ServicesFit, Resting, Settled
      <3> QED BY <3>1, <3>4, <3>5 DEF Good
    <2>3. NoneBroken'
      BY <1>2 DEF TreeFits
    <2> QED BY <2>1, <2>2, <2>3, TreeBack
  <1>4. CASE ~Working(k)'
    <2>1. \A i \in Keepers : Working(i)' <=> Working(i)
      BY <1>1, <1>4 DEF Working
    <2>2. ASSUME NEW i \in Keepers, Working(i), UpdateFits(i), ServicesFit(i)
          PROVE  UpdateFits(i)' /\ ServicesFit(i)'
      <3>1. pc'[i] = pc[i] /\ job'[i] = job[i]
        BY <1>1, <2>2
      <3>2. UpdateFits(i)'
        BY <1>1, <1>2, <2>2, <3>1 DEF UpdateFits, GoodCommit
      <3>3. ServicesFit(i)'
        BY <1>1, <1>2, <2>2, <3>1 DEF ServicesFit, Runs, RunsIn
      <3> QED BY <3>2, <3>3
    <2> QED BY <1>1, <1>2, <2>1, <2>2 DEF TreeFits
  <1> QED BY <1>3, <1>4

\* A service that dies, or begins to listen, is what it was or was about to be.
LEMMA DieStep ==
    ASSUME TypedInv, NEW d \in Services, Die(d) \/ Boot(d)
    PROVE  /\ UNCHANGED <<repo, head, deps, stateVars, pc, job, histVars>>
           /\ \A s \in Services : /\ running'[s] \in {running[s], Down} \cup booting[s]
                                  /\ booting'[s] \subseteq booting[s]
  BY DEF Die, Boot, TypedInv, TypeOK

LEMMA DieTree ==
    ASSUME TypedInv, TreeFits, NEW d \in Services, Die(d) \/ Boot(d)
    PROVE  TreeFits'
  <1>0. Down \notin Broken
    BY SelfUpdateAssumption
  <1>1. UNCHANGED <<repo, head, lastGood, pc, job, incident, missed>> /\ Sure' = Sure
    BY DieStep, SureStays DEF stateVars, histVars
  <1>2. ASSUME NEW s \in Sure, NEW n, Runs(s, n)
        PROVE  RunsIn(running', booting', s, n)
    BY <1>2, DieStep DEF Runs, RunsIn, Sure
  <1>3. (Follows => Follows') /\ (Vouched => Vouched')
    BY <1>1, <1>2, VouchedStays DEF Follows, Runs, RunsIn
  <1>4. NoneBroken'
    BY <1>0, DieStep DEF TreeFits, NoneBroken
  <1>5. ASSUME NEW k \in Keepers, UpdateFits(k) /\ ServicesFit(k)
        PROVE  UpdateFits(k)' /\ ServicesFit(k)'
    <2>1. UpdateFits(k)'
      BY <1>1, <1>5 DEF UpdateFits, GoodCommit
    <2>2. /\ (\A s \in Sure \ job[k].restart : Runs(s, job[k].prev)) =>
                \A s \in Sure \ job[k].restart : RunsIn(running', booting', s, job[k].prev)
          /\ (\A s \in Sure : Runs(s, job[k].prev)) =>
                \A s \in Sure : RunsIn(running', booting', s, job[k].prev)
      BY <1>2
    <2>3. ASSUME NEW s, NEW n
          PROVE  RunsIn(running', booting', s, n) <=> RunsIn(running, booting, s, n)'
      BY <1>1 DEF RunsIn
    <2>4. /\ (\A s \in Sure \ job[k].restart : Runs(s, job[k].prev)) =>
                (\A s \in Sure \ job[k].restart : Runs(s, job[k].prev))'
          /\ (\A s \in Sure : Runs(s, job[k].prev)) => (\A s \in Sure : Runs(s, job[k].prev))'
      BY <1>1, <2>2 DEF Runs, RunsIn
    <2>5. ServicesFit(k)'
      BY <1>1, <1>3, <1>5, <2>4 DEF ServicesFit
    <2> QED BY <2>1, <2>5
  <1>6. \A k \in Keepers : Working(k)' <=> Working(k)
    BY <1>1 DEF Working
  <1> QED BY <1>1, <1>3, <1>4, <1>5, <1>6 DEF TreeFits

\* A keeper that dies elsewhere than halfway leaves services that run the tree.
LEMMA CrashTree ==
    ASSUME TypedInv, LiveHolderBlocks, TreeFits, NEW k \in Keepers, Crash(k), Working(k)
    PROVE  TreeFits'
  <1>1. /\ NoneBroken' /\ NoneBroken
    BY RunningStays DEF TreeFits, TypedInv
  <1>2. CASE Halfway(k)
    <2>1. "crash" \in incident'
      BY <1>2 DEF Crash
    <2> QED BY <1>1, <2>1 DEF TreeFits
  <1>3. CASE ~Halfway(k)
    <2>1. /\ UNCHANGED <<repo, head, running, booting, missed, lastGood, incident>>
          /\ pc'[k] = "off" /\ Sure' = Sure
      BY <1>3, SureStays DEF Crash, Goto, TypedInv, TypeOK, treeVars, stateVars
    <2>2. \A i \in Keepers : ~Working(i)'
      BY <2>1, WorkerAlone DEF Alone, Working
    <2>3. ASSUME incident \subseteq {"manual"}
          PROVE  Follows' /\ Vouched'
      <3>1. Good(k)
        BY <2>3, TreeAlone
      <3>2. Follows
        <4>1. CASE job[k].mode = "restart"
          BY <3>1, <4>1 DEF Good, ServicesFit
        <4>2. CASE job[k].mode # "restart"
          <5>1. pc[k] \in Settled \cup {"merge", "launch", "verify"}
            BY <1>3, <4>2 DEF Halfway, Settled, Resting, TypedInv, TypeOK, Pcs
          <5> QED BY <3>1, <5>1 DEF Good, ServicesFit
        <4> QED BY <4>1, <4>2
      <3> QED BY <2>1, <3>1, <3>2, FollowsStays, VouchedStays DEF Good
    <2> QED BY <1>1, <2>1, <2>2, <2>3 DEF TreeFits
  <1> QED BY <1>2, <1>3

LEMMA NextTree ==
    TypedInv /\ LiveHolderBlocks /\ LiveHolderBlocks' /\ TreeFits /\ [Next]_vars => TreeFits'
  <1>1. TreeFits /\ UNCHANGED vars => TreeFits'
    BY DEF vars, treeVars, stateVars, histVars, TreeFits, UpdateFits, ServicesFit, Follows, Runs,
           RunsIn, GoodCommit, Sure, Working, NoneBroken, Vouched
  <1> QED BY <1>1, WorkerTree, IdleTree, DieTree, CrashTree DEF Next, Worker

LEMMA InitTree == Init => TreeFits
  <1> SUFFICES ASSUME Init PROVE TreeFits
    OBVIOUS
  <1>1. PICK v \in Versions \ Broken, l \in Lockfiles :
           repo = <<[code |-> [s \in Services |-> v], deps |-> l]>>
    BY DEF Init
  <1>2. /\ head = 1 /\ running = repo[1].code /\ booting = [s \in Services |-> {}]
        /\ lastGood = 0 /\ \A k \in Keepers : pc[k] = "off"
    BY DEF Init
  <1>3. \A s \in Services : running[s] = v /\ booting[s] = {} /\ Runs(s, head)
    BY <1>1, <1>2 DEF Runs, RunsIn
  <1>4. \A k \in Keepers : ~Working(k)
    BY <1>2 DEF Working
  <1> QED BY <1>2, <1>3, <1>4 DEF TreeFits, Follows, Sure, NoneBroken, Vouched

LEMMA TreeAlways == Spec /\ []LiveHolderBlocks => []TreeFits
  BY InitTyped, NextTyped, InitTree, NextTree, PTL DEF Spec

\* Where no two keepers work at once, no commit with code that does not come up is
\* recorded as known good, also not by an update that did not touch that code; not
\* of a service of which a restart left an old process to answer in its stead.
\* (writeState in runCycle, cmdRestart and rollback)
THEOREM KnownGoodComesUp == Spec /\ []LiveHolderBlocks => []KnownGoodIsGood
<1>1. TreeFits => KnownGoodIsGood
  BY DEF TreeFits, Vouched, KnownGoodIsGood, GoodCommit, Sure
<1> QED BY <1>1, TreeAlways, PTL

\* Where no two keepers work at once, the surgical restarts leave no service behind:
\* between two commands, what is up runs what the working tree holds, with a keeper's
\* death halfway and a process overlooked by a restart as the exceptions.
\* (affectedServices, restartServices, rollback)
THEOREM NothingLeftBehind == Spec /\ []LiveHolderBlocks => []RunsTheTree
<1>1. TreeFits => RunsTheTree
  <2> SUFFICES ASSUME TreeFits, AtRest, incident \subseteq {"manual"}
               PROVE  Follows
    BY DEF RunsTheTree, Follows, Runs, RunsIn, Sure
  <2>1. CASE \A k \in Keepers : ~Working(k)
    BY <2>1 DEF TreeFits
  <2>2. ASSUME NEW k \in Keepers, Working(k)
        PROVE  Follows
    <3>1. ServicesFit(k)
      BY <2>2 DEF TreeFits
    <3> QED BY <3>1 DEF ServicesFit, AtRest, Resting, Settled
  <2> QED BY <2>1, <2>2
<1> QED BY <1>1, TreeAlways, PTL

-----------------------------------------------------------------------------
(* The dependencies *)

LEMMA DepsAlone ==
    ASSUME NEW k \in Keepers, Working(k), DepsFit, incident = {}
    PROVE  InstallFits(k)
  BY DEF DepsFit

LEMMA DepsBack ==
    ASSUME NEW k \in Keepers, Alone(k)', incident' = {} => InstallFits(k)'
    PROVE  DepsFit'
  <1>1. ASSUME \A i \in Keepers : ~Working(i)', InstallFits(k)'
        PROVE  deps' = repo'[head'].deps
    <2>1. pc'[k] \in Resting
      BY <1>1 DEF Working, Resting, Settled
    <2> QED BY <1>1, <2>1 DEF InstallFits, Settled
  <1> QED BY <1>1 DEF DepsFit, Alone

LEMMA EndDeps ==
    ASSUME TypedInv, NEW k \in Keepers, Ended(k), deps' = repo'[head'].deps
    PROVE  InstallFits(k)'
  <1>1. pc'[k] \in {"off", "ready"}
    BY EndedFits DEF TypedInv
  <1> QED BY <1>1 DEF InstallFits, Resting, Settled

\* An update that fails leaves one of the two lock files installed; a restart, the tree's.
LEMMA FailureDeps ==
    ASSUME TypedInv, NEW k \in Keepers, pc[k] \in Acting, Failure(k), UNCHANGED repo, incident' = {},
           job[k].mode = "update" => deps' \in {repo[job[k].prev].deps, repo[Len(repo)].deps},
           job[k].mode = "restart" => deps' = repo[head'].deps
    PROVE  InstallFits(k)'
  <1>1. CASE job[k].mode = "update"
    <2>1. job' = [job EXCEPT ![k].mode = "rollback"] /\ Goto(k, "reset")
      BY <1>1 DEF Failure
    <2>2. job[k] \in Job
      BY DEF TypedInv, TypeOK
    <2>3. job'[k].prev = job[k].prev /\ pc'[k] = "reset"
      BY <2>1, <2>2 DEF Goto, TypedInv, TypeOK, Job
    <2> QED BY <1>1, <2>3 DEF InstallFits, Resting, Settled
  <1>2. CASE job[k].mode = "rollback"
    BY <1>2 DEF Failure
  <1>3. CASE job[k].mode = "restart"
    BY <1>3, EndDeps, ExitEnds DEF Failure
  <1> QED BY <1>1, <1>2, <1>3 DEF Failure

LEMMA CycleDeps ==
    ASSUME TypedInv, NEW k \in Keepers, InstallFits(k), UpdateFits(k),
           Preflight(k) \/ Fetch(k) \/ Merge(k) \/ Save(k)
    PROVE  InstallFits(k)'
  <1>1. pc[k] \in Settled \cup {"merge"} /\ UNCHANGED deps
    BY DEF Preflight, Fetch, Merge, Save, Resting, Settled, treeVars
  <1>2. head \in DOMAIN repo /\ deps = repo[head].deps
    BY <1>1 DEF InstallFits, TypedInv, TypeOK
  <1>3. repo'[head] = repo[head]
    BY <1>2, FetchGrows DEF TypedInv, Preflight, Merge, Save, treeVars
  <1>4. CASE Preflight(k)
    <2>1. CASE Exit(k)
      BY <1>1, <1>2, <1>3, <1>4, <2>1, EndDeps, ExitEnds DEF Preflight, treeVars
    <2>2. CASE ~Exit(k)
      <3>1. pc'[k] \in Resting
        BY <1>4, <2>2 DEF Preflight, Goto, TypedInv, TypeOK, Resting, Settled
      <3> QED BY <1>1, <1>2, <1>3, <1>4, <3>1 DEF InstallFits, Preflight, Resting, Settled, treeVars
    <2> QED BY <2>1, <2>2
  <1>5. CASE Fetch(k)
    <2>1. CASE Ended(k)
      BY <1>1, <1>2, <1>3, <1>5, <2>1, EndDeps DEF Fetch
    <2>2. CASE ~Ended(k)
      <3>1. pc'[k] = "merge" /\ head' = head
        BY <1>5, <2>2 DEF Fetch, Goto, TypedInv, TypeOK
      <3> QED BY <1>1, <1>2, <1>3, <3>1 DEF InstallFits, Resting, Settled
    <2> QED BY <2>1, <2>2
  <1>6. CASE Merge(k)
    <2>1. CASE Ended(k) /\ UNCHANGED head
      BY <1>1, <1>2, <1>3, <1>6, <2>1, EndDeps DEF Merge
    <2>2. CASE Goto(k, "install") /\ UNCHANGED job
      <3>1. pc'[k] = "install" /\ UNCHANGED <<repo, job>>
        BY <1>6, <2>2 DEF Merge, Goto, TypedInv, TypeOK
      <3>2. job[k].prev = head
        BY <1>6 DEF Merge, UpdateFits, TypedInv, JobsFit, JobFits, Resting, Settled
      <3> QED BY <1>1, <1>2, <3>1, <3>2 DEF InstallFits, Resting, Settled
    <2> QED BY <1>6, <2>1, <2>2 DEF Merge
  <1>7. CASE Save(k)
    BY <1>1, <1>2, <1>3, <1>7, EndDeps, ExitEnds DEF Save, treeVars
  <1> QED BY <1>4, <1>5, <1>6, <1>7

LEMMA InstallDeps ==
    ASSUME TypedInv, NEW k \in Keepers, InstallFits(k), UpdateFits(k), Install(k), incident' = {}
    PROVE  InstallFits(k)'
  <1>1. /\ pc[k] = "install" /\ job[k].mode = "update" /\ pc[k] \in Acting
        /\ UNCHANGED <<repo, head>>
        /\ job[k].install = Installs(repo[job[k].prev], repo[job[k].target])
    BY DEF Install, TypedInv, JobsFit, JobFits, Resting, Settled, Acting
  <1>2. deps = repo[job[k].prev].deps /\ head = job[k].target /\ head = Len(repo)
    BY <1>1 DEF InstallFits, UpdateFits, Resting, Settled
  <1>3. CASE Failure(k)
    <2>1. deps' \in {deps, repo[head].deps}
      BY <1>1, <1>3 DEF Install, Failing, Installed, Failure, Goto, TypedInv, TypeOK
    <2> QED BY <1>1, <1>2, <1>3, <2>1, FailureDeps
  <1>4. CASE /\ deps' = Installed(job[k].install)
             /\ Goto(k, IF job[k].restart = {} THEN "verify" ELSE "kill")
    <2>1. pc'[k] \in {"verify", "kill"}
      BY <1>4 DEF Goto, TypedInv, TypeOK
    <2>2. deps' = repo[head].deps
      BY <1>1, <1>2, <1>4 DEF Installed, Installs
    <2> QED BY <1>1, <2>1, <2>2 DEF InstallFits, Resting, Settled
  <1> QED BY <1>3, <1>4 DEF Install

LEMMA RestartDeps ==
    ASSUME TypedInv, NEW k \in Keepers, InstallFits(k), UpdateFits(k),
           Kill(k) \/ Launch(k) \/ Verify(k), incident' = {}
    PROVE  InstallFits(k)'
  <1>1. /\ pc[k] \in {"kill", "launch", "verify"} /\ pc[k] \in Acting
        /\ UNCHANGED <<repo, head, deps>>
    BY DEF Kill, Launch, Verify, Acting, treeVars
  <1>2. /\ deps = repo[head].deps
        /\ job[k].mode = "update" => head = Len(repo)
    BY <1>1 DEF InstallFits, UpdateFits, Resting, Settled
  <1>3. CASE Failure(k)
    BY <1>1, <1>2, <1>3, FailureDeps
  <1>4. CASE Ended(k)
    BY <1>1, <1>2, <1>4, EndDeps
  <1>5. CASE \E p \in {"launch", "verify", "save"} : Goto(k, p)
    <2>1. pc'[k] \in {"launch", "verify", "save"}
      BY <1>5 DEF Goto, TypedInv, TypeOK
    <2> QED BY <1>1, <1>2, <2>1 DEF InstallFits, Resting, Settled
  <1> QED BY <1>3, <1>4, <1>5, ExitEnds DEF Kill, Launch, Verify, Verified, Truncate

LEMMA RollbackDeps ==
    ASSUME TypedInv, NEW k \in Keepers, InstallFits(k), Reset(k) \/ Reinstall(k), incident' = {}
    PROVE  InstallFits(k)'
  <1>1. /\ pc[k] \in {"reset", "reinstall"} /\ job[k].mode = "rollback" /\ pc[k] \in Acting
        /\ UNCHANGED repo
    BY DEF Reset, Reinstall, TypedInv, JobsFit, JobFits, Resting, Settled, Acting
  <1>2. deps \in {repo[job[k].prev].deps, repo[Len(repo)].deps}
    BY <1>1 DEF InstallFits
  <1>3. CASE Failure(k)
    BY <1>1, <1>3, FailureDeps
  <1>4. CASE Reset(k) /\ ~Failure(k)
    <2>1. pc'[k] = "reinstall" /\ head' = job[k].prev /\ UNCHANGED <<job, deps>>
      BY <1>4 DEF Reset, Goto, TypedInv, TypeOK
    <2> QED BY <1>1, <1>2, <2>1 DEF InstallFits, Resting, Settled
  <1>5. CASE Reinstall(k) /\ ~Failure(k)
    <2>1. /\ pc'[k] = "kill" /\ UNCHANGED head
          /\ deps' = Installed(Reinstalls(job[k].prev)) /\ head = job[k].prev
      BY <1>5 DEF Reinstall, Goto, TypedInv, TypeOK, InstallFits
    <2>2. deps' = repo[head].deps
      BY <1>2, <2>1 DEF Installed, Reinstalls, Installs
    <2> QED BY <1>1, <2>1, <2>2 DEF InstallFits, Resting, Settled
  <1> QED BY <1>3, <1>4, <1>5

LEMMA CommandDeps ==
    ASSUME TypedInv, NEW k \in Keepers, InstallFits(k),
           CmdReset(k) \/ CmdRestart(k) \/ CmdRollback(k), incident' = {}
    PROVE  InstallFits(k)'
  <1>1. pc[k] = "ready" /\ UNCHANGED <<repo, head, deps>>
    <2>1. Commanded(k)
      BY RollbackCases DEF CmdReset, CmdRestart, TypedInv
    <2>2. UNCHANGED treeVars
      BY RollbackCases DEF CmdReset, CmdRestart, TypedInv
    <2> QED BY <2>1, <2>2 DEF Commanded, treeVars
  <1>2. deps = repo[head].deps
    BY <1>1 DEF InstallFits, Resting, Settled
  <1>3. CASE Exit(k)
    BY <1>1, <1>2, <1>3, EndDeps, ExitEnds
  <1>4. CASE (Bounce(k) /\ UNCHANGED lock) \/ CmdReset(k)
    <2>1. pc'[k] \in {"kill", "save"}
      BY <1>1, <1>4, BounceFits, ClearSays
    <2> QED BY <1>1, <1>2, <2>1 DEF InstallFits, Resting, Settled
  <1>5. incident' # incident \cup {"manual"}
    OBVIOUS
  <1> QED BY <1>3, <1>4, <1>5, RollbackCases DEF CmdReset, CmdRestart, TypedInv

LEMMA WorkerDeps ==
    ASSUME TypedInv, LiveHolderBlocks, TreeFits, DepsFit, NEW k \in Keepers, Worker(k)
    PROVE  DepsFit'
  <1>1. Alone(k)' /\ Working(k)
    BY WorkerAlone, WorkerWorks DEF TypedInv
  <1>2. ASSUME incident' = {}
        PROVE  InstallFits(k)'
    <2>1. incident = {}
      BY <1>2, IncidentStays DEF TypedInv
    <2>2. InstallFits(k) /\ UpdateFits(k)
      BY <1>1, <2>1, DepsAlone, TreeAlone DEF Good
    <2> QED BY <1>2, <2>2, CycleDeps, InstallDeps, RestartDeps, RollbackDeps, CommandDeps DEF Worker
  <1> QED BY <1>1, <1>2, DepsBack

LEMMA IdleDeps ==
    ASSUME TypedInv, LiveHolderBlocks', DepsFit, NEW k \in Keepers,
           Start(k) \/ TakeOver(k) \/ Reopen(k) \/ WritePid(k) \/ (Crash(k) /\ ~Working(k))
    PROVE  DepsFit'
  <1>1. /\ ~Working(k) /\ job' = job
        /\ \A i \in Keepers \ {k} : pc'[i] = pc[i]
        /\ pc'[k] \in {"off", "held", "reopen", "write", "ready"}
        /\ UNCHANGED <<repo, head, deps, incident>>
    BY IdleStep DEF treeVars
  <1>2. CASE Working(k)'
    <2>1. Alone(k)' /\ \A i \in Keepers : ~Working(i)
      BY <1>2, BecomesAlone
    <2>2. incident = {} => deps = repo[head].deps
      BY <2>1 DEF DepsFit
    <2>3. incident' = {} => InstallFits(k)'
      BY <1>1, <2>2 DEF InstallFits, Resting, Settled
    <2> QED BY <2>1, <2>3, DepsBack
  <1>3. CASE ~Working(k)'
    <2>1. \A i \in Keepers : Working(i)' <=> Working(i)
      BY <1>1, <1>3 DEF Working
    <2> QED BY <1>1, <1>3, <2>1 DEF DepsFit, InstallFits
  <1> QED BY <1>2, <1>3

\* A keeper that dies elsewhere than halfway leaves the tree's dependencies.
LEMMA CrashDeps ==
    ASSUME TypedInv, LiveHolderBlocks, DepsFit, NEW k \in Keepers, Crash(k), Working(k)
    PROVE  DepsFit'
  <1>1. CASE Halfway(k)
    BY <1>1 DEF Crash, DepsFit
  <1>2. CASE ~Halfway(k)
    <2>1. UNCHANGED <<repo, head, deps, incident>> /\ pc'[k] = "off"
      BY <1>2 DEF Crash, Goto, TypedInv, TypeOK, treeVars
    <2>2. \A i \in Keepers : ~Working(i)'
      BY <2>1, WorkerAlone DEF Alone, Working
    <2>3. pc[k] \in Settled \cup {"merge", "kill", "launch", "verify"}
      <3>1. pc[k] \in {"install", "reset", "reinstall"} => job[k].mode # "restart"
        BY DEF TypedInv, JobsFit, JobFits
      <3> QED BY <1>2, <3>1 DEF Halfway, Settled, Resting, TypedInv, TypeOK, Pcs
    <2>4. incident = {} => deps = repo[head].deps
      BY <2>3, DepsAlone DEF InstallFits
    <2> QED BY <2>1, <2>2, <2>4 DEF DepsFit
  <1> QED BY <1>1, <1>2

LEMMA NextDeps ==
    TypedInv /\ LiveHolderBlocks /\ LiveHolderBlocks' /\ TreeFits /\ DepsFit /\ [Next]_vars => DepsFit'
  <1> SUFFICES ASSUME TypedInv, LiveHolderBlocks, LiveHolderBlocks', TreeFits, DepsFit, [Next]_vars
               PROVE  DepsFit'
    OBVIOUS
  <1>1. CASE UNCHANGED vars \/ \E s \in Services : Die(s) \/ Boot(s)
    BY <1>1 DEF vars, treeVars, histVars, Die, Boot, DepsFit, InstallFits, Working
  <1> QED BY <1>1, WorkerDeps, IdleDeps, CrashDeps DEF Next, Worker

LEMMA InitDeps == Init => DepsFit
  BY DEF Init, DepsFit, Working

\* Where no two keepers work at once, no keeper dies halfway and no operator rolls back by
\* hand, the dependencies are those of the working tree between two commands, also after
\* an install or a verification that failed.  (rollback's comparison of the lock files)
THEOREM DependenciesFollow == Spec /\ []LiveHolderBlocks => []DepsFitTheTree
<1>1. DepsFit => DepsFitTheTree
  <2> SUFFICES ASSUME DepsFit, AtRest, incident = {} PROVE deps = repo[head].deps
    BY DEF DepsFitTheTree
  <2>1. CASE \A k \in Keepers : ~Working(k)
    BY <2>1 DEF DepsFit
  <2>2. ASSUME NEW k \in Keepers, Working(k)
        PROVE  deps = repo[head].deps
    BY <2>2 DEF DepsFit, InstallFits, AtRest, Resting, Settled
  <2> QED BY <2>1, <2>2
<1> QED
  BY <1>1, InitTyped, NextTyped, InitTree, NextTree, InitDeps, NextDeps, PTL DEF Spec

-----------------------------------------------------------------------------
(* One keeper *)

AtMostOneKeeper == \A j, k \in Keepers : j = k

\* A keeper that nobody starts twice needs no lock: the four properties hold of it
\* without the hypothesis.  (runCycle, cmdRestart and rollback, in a daemon that is
\* started once)
THEOREM OneKeeperIsSafe ==
    AtMostOneKeeper /\ Spec =>
        [](BreakerBounds /\ KnownGoodIsGood /\ RunsTheTree /\ DepsFitTheTree)
<1>1. AtMostOneKeeper => LiveHolderBlocks
  BY DEF AtMostOneKeeper, LiveHolderBlocks
<1>2. AtMostOneKeeper => []AtMostOneKeeper
  <2>1. AtMostOneKeeper => AtMostOneKeeper'
    BY DEF AtMostOneKeeper
  <2> QED BY <2>1, PTL
<1> QED
  BY <1>1, <1>2, BreakerHolds, KnownGoodComesUp, NothingLeftBehind, DependenciesFollow, PTL
=============================================================================
