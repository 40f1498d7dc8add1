------------------------------ MODULE SelfUpdate -----------------------------
(***************************************************************************)
(* The self-update keeper: its lock, the update cycle with its gates, the  *)
(* restart and verification of the services, rollback, the failure breaker *)
(* and the operator's commands.                                            *)
(*                                                                         *)
(* A keeper is an operating-system process: its steps are the stretches    *)
(* between two system calls other keepers can see, and it may die between  *)
(* any two of them.  The repository is a line of commits; a commit is what *)
(* it holds of each service and of the lock file of the dependencies.      *)
(***************************************************************************)
EXTENDS Naturals, Sequences, FiniteSets

CONSTANTS
    Keepers, NoLock, Blank,
    Services,      \* gateway and web
    Versions,      \* contents of a service's files
    Broken,        \* those that never pass the health check
    Lockfiles,     \* contents of pnpm-lock.yaml
    Down,
    MaxFailures,   \* SELF_UPDATE_MAX_FAILURES
    MaxCommits,    \* bound on the commits, of the model only
    MaxCrashes     \* bound on the deaths of keepers, of the model only

ASSUME SelfUpdateAssumption ==
    /\ {NoLock, Blank} \cap Keepers = {} /\ NoLock # Blank
    /\ Broken \subseteq Versions
    /\ Down \notin Versions
    /\ {MaxFailures, MaxCommits} \subseteq Nat \ {0}
    /\ MaxCrashes \in Nat

VARIABLES
    repo,               \* the commits fetched; the last one is the tracking ref's
    head,               \* HEAD of the working tree
    deps,               \* the lock file node_modules was installed from
    running,            \* the version that listens on each service's port, or Down
    booting,            \* the versions launched that do not listen yet
    failures, lastGood, \* state.json, as it reads; 0 is the null sha
    disabled,           \* the breaker's marker file
    lock,               \* the lock file: absent, blank, or a keeper's pid
    pc, job,            \* where each keeper stands, and its local variables
    failed,             \* history: failed updates since the last success or reset
    crashes, torn,      \* history: deaths of keepers; those in a write of state.json
    incident,           \* history: what only an operator can put right
    missed              \* history: services of which a restart left a process behind

treeVars  == <<repo, head, deps, running, booting>>
stateVars == <<failures, lastGood, disabled>>
deaths    == <<crashes, torn>>
histVars  == <<failed, deaths, incident, missed>>
vars == <<treeVars, stateVars, lock, pc, job, histVars>>

Commit == [code : [Services -> Versions], deps : Lockfiles]
Shas   == 0..MaxCommits
Modes  == {"update", "restart", "rollback", "clear"}
Pcs    == {"off", "held", "reopen", "write", "ready", "fetch", "merge", "install",
           "reset", "reinstall", "kill", "launch", "verify", "save"}
Job    == [cycle : BOOLEAN, mode : Modes, prev : Shas, target : Shas,
           restart : SUBSET Services, install : BOOLEAN, failures : 0..MaxFailures, lastGood : Shas]

NewJob ==
    [cycle |-> FALSE, mode |-> "update", prev |-> 0, target |-> 0, restart |-> {},
     install |-> FALSE, failures |-> 0, lastGood |-> 0]

TypeOK ==
    /\ repo \in Seq(Commit)
    /\ Len(repo) \in Shas
    /\ head \in DOMAIN repo
    /\ lastGood \in {0} \cup DOMAIN repo
    /\ deps \in Lockfiles
    /\ running \in [Services -> Versions \cup {Down}]
    /\ booting \in [Services -> SUBSET Versions]
    /\ failures \in 0..MaxFailures
    /\ disabled \in BOOLEAN
    /\ lock \in Keepers \cup {NoLock, Blank}
    /\ pc \in [Keepers -> Pcs]
    /\ job \in [Keepers -> Job]
    /\ failed \in Nat
    /\ {crashes, torn} \subseteq 0..MaxCrashes
    /\ incident \subseteq {"crash", "botched", "manual"}
    /\ missed \subseteq Services

\* The first commit runs, with its dependencies.  The versions of one service have
\* nothing to do with those of another, so all may start with the same one.
Init ==
    /\ \E v \in Versions \ Broken, l \in Lockfiles :
          repo = <<[code |-> [s \in Services |-> v], deps |-> l]>>
    /\ head = 1
    /\ deps = repo[1].deps
    /\ running = repo[1].code
    /\ booting = [s \in Services |-> {}]
    /\ failures = 0
    /\ lastGood = 0
    /\ disabled = FALSE
    /\ lock = NoLock
    /\ pc = [k \in Keepers |-> "off"]
    /\ job = [k \in Keepers |-> NewJob]
    /\ failed = 0
    /\ crashes = 0
    /\ torn = 0
    /\ incident = {}
    /\ missed = {}

-----------------------------------------------------------------------------
(* Helpers *)

Goto(k, p) == pc' = [pc EXCEPT ![k] = p]

\* process.exit: releaseLock unlinks the lock file, whoever's it is.
Exit(k) ==
    /\ Goto(k, "off")
    /\ job' = [job EXCEPT ![k] = NewJob]
    /\ lock' = NoLock

\* The end of a command; the loop sleeps and runs the cycle again.
Ended(k) ==
    \/ Exit(k)
    \/ /\ job[k].cycle
       /\ Goto(k, "ready")
       /\ job' = [job EXCEPT ![k] = [NewJob EXCEPT !.cycle = TRUE]]
       /\ UNCHANGED lock

\* Mutant: one service that answers is enough.
AnyHealthy(r) == \E s \in Services : r[s] # Down
\* healthSnapshot
Healthy(r)    == \A s \in Services : r[s] # Down

Tripped == failures >= MaxFailures \/ disabled

\* affectedServices, by what differs between the two trees.
Touched(a, b)  == {s \in Services : a.code[s] # b.code[s]}
Installs(a, b) == a.deps # b.deps

\* The count as far as the breaker compares it.  Mutant: it is not counted.
Forgotten(n)  == n
OneMore(n)    == IF n >= MaxFailures THEN n ELSE n + 1

\* A version that does not come up never listens.
Comes(s) == {repo[head].code[s]} \ Broken

\* Mutant: an error of the restart escapes the cycle.
Escapes(k) ==
    /\ Exit(k)
    /\ UNCHANGED <<stateVars, failed, incident>>

\* A failed update goes to rollback with the services of its plan; a failed
\* rollback trips the breaker; a failed restart is the end of the command.
Failure(k) ==
    \/ /\ job[k].mode = "update"
       /\ job' = [job EXCEPT ![k].mode = "rollback"]
       /\ Goto(k, "reset")
       /\ failed' = failed + 1
       /\ UNCHANGED <<stateVars, lock, incident>>
    \/ /\ job[k].mode = "rollback"
       /\ disabled' = TRUE
       /\ incident' = incident \cup {"botched"}
       /\ Ended(k)
       /\ UNCHANGED <<failures, lastGood, failed>>
    \/ /\ job[k].mode = "restart"
       /\ Exit(k)
       /\ UNCHANGED <<stateVars, failed, incident>>

-----------------------------------------------------------------------------
(* The lock *)

\* openSync(.., "wx"): the file is there without a pid in it, or it was before.
Start(k) ==
    /\ pc[k] = "off"
    /\ IF lock = NoLock THEN lock' = Blank /\ Goto(k, "write")
                        ELSE Goto(k, "held") /\ UNCHANGED lock
    /\ UNCHANGED <<treeVars, stateVars, job, histVars>>

\* The holder is looked up: kill(pid, 0) throws ESRCH when it is dead and nothing
\* when it lives, so either way its file is unlinked.  Only a pid that belongs to
\* another user, who may have got it after the holder's death, refuses (EPERM).
TakeOver(k) ==
    /\ pc[k] = "held"
    /\ \/ lock' = NoLock /\ Goto(k, "reopen")
       \/ lock \in Keepers /\ Goto(k, "off") /\ UNCHANGED lock
    /\ UNCHANGED <<treeVars, stateVars, job, histVars>>

\* The second exclusive create; "another keeper is running" if it fails.
Reopen(k) ==
    /\ pc[k] = "reopen"
    /\ IF lock = NoLock
       THEN lock' = Blank /\ Goto(k, "write")
       ELSE Goto(k, "off") /\ UNCHANGED lock
    /\ UNCHANGED <<treeVars, stateVars, job, histVars>>

\* writeSyncLock writes the path, not the descriptor.
WritePid(k) ==
    /\ pc[k] = "write"
    /\ lock' = k
    /\ Goto(k, "ready")
    /\ UNCHANGED <<treeVars, stateVars, job, histVars>>

-----------------------------------------------------------------------------
(* The update cycle *)

\* The breaker ends the loop too; an unhealthy stack only skips the cycle.
Preflight(k) ==
    /\ pc[k] = "ready"
    /\ \/ (Tripped \/ ~Healthy(running)) /\ Exit(k)
       \/ /\ ~Tripped /\ ~Healthy(running)
          /\ job' = [job EXCEPT ![k].cycle = TRUE]
          /\ UNCHANGED <<pc, lock>>
       \/ /\ ~Tripped /\ Healthy(running)
          /\ job' = [job EXCEPT ![k].cycle = TRUE, ![k].failures = failures,
                                ![k].lastGood = lastGood]
          /\ Goto(k, "fetch")
          /\ UNCHANGED lock
    /\ UNCHANGED <<treeVars, stateVars, histVars>>

\* Fetch and plan.  Commits fetched together count as one.  A failing fetch, a red
\* commit, local changes and nothing to pull only end the cycle.
Fetch(k) ==
    /\ pc[k] = "fetch"
    /\ \/ UNCHANGED repo
       \/ Len(repo) < MaxCommits /\ \E c \in Commit : repo' = Append(repo, c)
    /\ \/ Ended(k)
       \/ /\ head # Len(repo')
          /\ job' = [job EXCEPT ![k].prev = head, ![k].target = Len(repo'),
                                ![k].restart = Touched(repo'[head], repo'[Len(repo')]),
                                ![k].install = Installs(repo'[head], repo'[Len(repo')])]
          /\ Goto(k, "merge")
          /\ UNCHANGED lock
    /\ UNCHANGED <<head, deps, running, booting, stateVars, histVars>>

\* git merge --ff-only; nothing moved when it fails.
Merge(k) ==
    /\ pc[k] = "merge"
    /\ \/ Ended(k) /\ UNCHANGED head
       \/ /\ head' = Len(repo)
          /\ Goto(k, "install")
          /\ UNCHANGED <<lock, job>>
    /\ UNCHANGED <<repo, deps, running, booting, stateVars, histVars>>

\* pnpm install, if it is asked for, with the outcomes of a failed one.
Installed(asked) == IF asked THEN repo[head].deps ELSE deps
Failing(asked)   == IF asked THEN {deps, repo[head].deps} ELSE {deps}

\* The install of the plan and the web build; either may fail.
Install(k) ==
    /\ pc[k] = "install"
    /\ \/ /\ deps' = Installed(job[k].install)
          /\ Goto(k, IF job[k].restart = {} THEN "verify" ELSE "kill")
          /\ UNCHANGED <<stateVars, lock, job, failed, incident>>
       \/ Failure(k) /\ deps' \in Failing(job[k].install)
    /\ UNCHANGED <<repo, head, running, booting, deaths, missed>>

-----------------------------------------------------------------------------
(* restartServices and waitForHealth *)

\* taskkill on the listeners of the ports; a survivor is an error.  A process that
\* does not listen yet is not found.
Kill(k) ==
    /\ pc[k] = "kill"
    /\ \E killed \in SUBSET job[k].restart :
          /\ running' = [s \in Services |-> IF s \in killed THEN Down ELSE running[s]]
          /\ \/ /\ \A s \in job[k].restart : running'[s] = Down
                /\ missed' = missed \cup {s \in job[k].restart : ~(booting[s] \subseteq Comes(s))}
                /\ Goto(k, "launch")
                /\ UNCHANGED <<stateVars, lock, job, failed, incident>>
             \/ Failure(k) /\ UNCHANGED missed
    /\ UNCHANGED <<repo, head, deps, booting, deaths>>

\* launchGateway, then launchWeb; either may throw, with the other launched.
Launch(k) ==
    /\ pc[k] = "launch"
    /\ \E up \in SUBSET job[k].restart :
          /\ booting' = [s \in Services |->
                            IF s \in up THEN booting[s] \cup Comes(s) ELSE booting[s]]
          /\ \/ /\ up = job[k].restart
                /\ Goto(k, "verify")
                /\ UNCHANGED <<stateVars, lock, job, failed, incident>>
             \/ up # job[k].restart /\ Failure(k)
    /\ UNCHANGED <<repo, head, deps, running, deaths, missed>>

\* writeFileSync truncates the file before it writes: until Save it reads as one
\* without failures and without a known-good commit.
Truncate(k, f, g) ==
    /\ failures' = 0
    /\ lastGood' = 0
    /\ job' = [job EXCEPT ![k].failures = f, ![k].lastGood = g]
    /\ Goto(k, "save")
    /\ UNCHANGED <<disabled, lock>>

\* A verified update is the new known-good commit; a verified rollback counts as a
\* failure, a manual one too; a verified restart vouches for HEAD.
Verified(k) ==
    \/ /\ job[k].mode = "update"
       /\ Truncate(k, 0, job[k].target)
       /\ failed' = 0
    \/ /\ job[k].mode = "rollback"
       /\ Truncate(k, OneMore(job[k].failures), job[k].lastGood)
       /\ UNCHANGED failed
    \/ /\ job[k].mode = "restart"
       /\ IF lastGood = head THEN Exit(k) /\ UNCHANGED stateVars
                             ELSE Truncate(k, failures, head)
       /\ UNCHANGED failed

\* An update that restarts nothing is not verified.
Verify(k) ==
    /\ pc[k] = "verify"
    /\ IF Healthy(running) \/ (job[k].mode = "update" /\ job[k].restart = {})
       THEN Verified(k) /\ UNCHANGED incident
       ELSE Failure(k)
    /\ UNCHANGED <<treeVars, deaths, missed>>

\* The file is written; the rollback's breaker and the reset's marker follow.  After
\* an update the loop starts itself anew.
Save(k) ==
    /\ pc[k] = "save"
    /\ failures' = job[k].failures
    /\ lastGood' = job[k].lastGood
    /\ \/ /\ job[k].mode = "rollback"
          /\ disabled' = (disabled \/ failures' >= MaxFailures)
          /\ Ended(k)
       \/ /\ job[k].mode # "rollback"
          /\ disabled' = (disabled /\ job[k].mode # "clear")
          /\ Exit(k)
    /\ UNCHANGED <<treeVars, histVars>>

-----------------------------------------------------------------------------
(* rollback *)

\* git reset --hard
Reset(k) ==
    /\ pc[k] = "reset"
    /\ \/ /\ head' = job[k].prev
          /\ Goto(k, "reinstall")
          /\ UNCHANGED <<stateVars, lock, job, failed, incident>>
       \/ Failure(k) /\ UNCHANGED head
    /\ UNCHANGED <<repo, deps, running, booting, deaths, missed>>

\* Mutant: the lock files are compared after the reset.
ReinstallsHead(prev) == Installs(repo[prev], repo[head])
Reinstalls(prev)     == Installs(repo[prev], repo[Len(repo)])

\* The lock file of the restored commit is compared with upstream's.
Reinstall(k) ==
    /\ pc[k] = "reinstall"
    /\ \/ /\ deps' = Installed(Reinstalls(job[k].prev))
          /\ Goto(k, "kill")
          /\ UNCHANGED <<stateVars, lock, job, failed, incident>>
       \/ Failure(k) /\ deps' \in Failing(Reinstalls(job[k].prev))
    /\ UNCHANGED <<repo, head, running, booting, deaths, missed>>

-----------------------------------------------------------------------------
(* The operator's commands: a keeper looks at its arguments once it has the lock *)

Commanded(k) == pc[k] = "ready" /\ ~job[k].cycle

CmdReset(k) ==
    /\ Commanded(k)
    /\ failures' = 0
    /\ lastGood' = 0
    /\ job' = [job EXCEPT ![k].mode = "clear", ![k].failures = 0, ![k].lastGood = lastGood]
    /\ Goto(k, "save")
    /\ failed' = 0
    /\ UNCHANGED <<treeVars, disabled, lock, deaths, incident, missed>>

Bounce(k) ==
    /\ job' = [job EXCEPT ![k].mode = "restart", ![k].restart = Services]
    /\ Goto(k, "kill")

CmdRestart(k) ==
    /\ Commanded(k)
    /\ Bounce(k)
    /\ UNCHANGED <<treeVars, stateVars, lock, histVars>>

\* Mutant: the null sha of a state file without a known-good commit is not refused.
NeverMissing(sha) == FALSE
Missing(sha)      == sha = 0

\* To the given commit, or to the last known-good one.
CmdRollback(k) ==
    /\ Commanded(k)
    /\ \E sha \in DOMAIN repo \cup {lastGood} :
          \/ Missing(sha) /\ Exit(k) /\ UNCHANGED incident
          \/ sha = head /\ Bounce(k) /\ UNCHANGED <<lock, incident>>
          \/ /\ ~Missing(sha) /\ sha # head
             /\ job' = [job EXCEPT ![k].mode = "rollback", ![k].prev = sha,
                                   ![k].restart = Services,
                                   ![k].failures = failures, ![k].lastGood = lastGood]
             /\ incident' = incident \cup {"manual"}
             /\ Goto(k, "reset")
             /\ UNCHANGED lock
    /\ UNCHANGED <<treeVars, stateVars, failed, deaths, missed>>

-----------------------------------------------------------------------------
(* Around the keeper (external) *)

\* A service dies of its own; where no keeper looks at it, it may as well die later.
Die(s) ==
    /\ \A k \in Keepers : pc[k] \in {"off", "ready", "verify"}
    /\ running[s] # Down
    /\ running' = [running EXCEPT ![s] = Down]
    /\ UNCHANGED <<repo, head, deps, booting, stateVars, lock, pc, job, histVars>>

\* A launched process listens, or ends because the port is taken; so late as it is seen.
Boot(s) ==
    /\ \A k \in Keepers : pc[k] \in {"off", "ready", "kill", "verify"}
    /\ \E v \in booting[s] :
          /\ booting' = [booting EXCEPT ![s] = @ \ {v}]
          /\ running' = [running EXCEPT ![s] = IF @ = Down THEN v ELSE @]
    /\ UNCHANGED <<repo, head, deps, stateVars, lock, pc, job, histVars>>

\* The tree has moved, and what is installed or runs has not followed.
Halfway(k) == pc[k] \in {"install", "kill", "reset", "reinstall"} /\ job[k].mode # "restart"

\* A keeper dies, and leaves its lock and what it wrote.
Crash(k) ==
    /\ pc[k] # "off"
    /\ crashes + torn < MaxCrashes
    /\ IF pc[k] = "save" THEN torn' = torn + 1 /\ UNCHANGED crashes
                         ELSE crashes' = crashes + 1 /\ UNCHANGED torn
    /\ incident' = incident \cup (IF Halfway(k) THEN {"crash"} ELSE {})
    /\ Goto(k, "off")
    /\ job' = [job EXCEPT ![k] = NewJob]
    /\ UNCHANGED <<treeVars, stateVars, lock, failed, missed>>

-----------------------------------------------------------------------------
Next ==
    \/ \E s \in Services : Die(s) \/ Boot(s)
    \/ \E k \in Keepers :
          \/ Start(k) \/ TakeOver(k) \/ Reopen(k) \/ WritePid(k)
          \/ Preflight(k) \/ Fetch(k) \/ Merge(k) \/ Install(k)
          \/ Kill(k) \/ Launch(k) \/ Verify(k) \/ Save(k) \/ Reset(k) \/ Reinstall(k)
          \/ CmdReset(k) \/ CmdRestart(k) \/ CmdRollback(k)
          \/ Crash(k)

Spec == Init /\ [][Next]_vars

-----------------------------------------------------------------------------
(* Properties *)

AtRest == \A k \in Keepers : pc[k] \in {"off", "ready"}

\* Surgical restarts leave no service behind: between two commands, whatever was
\* updated, restarted and rolled back before and wherever else keepers died, a
\* service that is up runs what the working tree holds.  The exceptions: a keeper
\* died while the tree had moved and the services had not, or an earlier restart of
\* the service went past a process of another version that did not listen yet.
\* (affectedServices, rollback's services, restartServices)
RunsTheTree ==
    AtRest /\ incident \subseteq {"manual"} =>
        \A s \in Services \ missed : running[s] \in {repo[head].code[s], Down}

\* Code that does not come up is never part of a commit recorded as known good, also
\* not by a later update that did not touch the broken part.  (writeState in runCycle)
KnownGoodIsGood ==
    incident \subseteq {"manual"} /\ lastGood # 0 =>
        \A s \in Services \ missed : repo[lastGood].code[s] \notin Broken

\* The dependencies are those of the working tree between two commands, also after
\* an install or a verification that failed, or a keeper's death elsewhere.  (rollback)
DepsFitTheTree == AtRest /\ incident = {} => deps = repo[head].deps

\* A broken upstream wedges the loop for a bounded number of updates: MaxFailures of
\* them fail in a row, and as many again for every keeper that died while it wrote
\* state.json, which erases the count, and one more for every other dead keeper.
\* (breakerTripped, rollback, writeState, readState)
Lost == MaxFailures * torn + crashes
BreakerBounds == failed <= MaxFailures + Lost

\* "A dead holder is taken over, a live one blocks": two keepers never work at once.
\* (docs/ops/self-update.md, acquireLock)
Working(k) == pc[k] \notin {"off", "held", "reopen", "write"}
LiveHolderBlocks == \A j, k \in Keepers : Working(j) /\ Working(k) => j = k
=============================================================================
