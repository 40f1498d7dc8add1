-------------------------- MODULE ThreadLifecycle ---------------------------
(***************************************************************************)
(* The threads of one user: their rows in the store (conversation state    *)
(* and lifecycle status), the durable prompt queue, the /v1/threads routes *)
(* and the queue runner, composed with the session hosts that run turns.   *)
(*                                                                         *)
(* Every action contains the step of SessionHosts it makes, if any, so this*)
(* module implements SessionHosts.  Left open, hence every choice allowed: *)
(* whether a thread has a spec draft, a last prompt, a workspace, a diff,  *)
(* and what verify answers.  The cost cap and the rate limit only refuse   *)
(* requests.                                                               *)
(***************************************************************************)
EXTENDS HostState, Naturals, FiniteSets, Sequences

CONSTANTS
    MaxRunning,  \* maxRunningHostsPerUser: streaming threads of the user
    MaxHosts,    \* maxSessionHosts: entries of the handle map
    MaxQueue     \* bound on the queue's length, of the model only

ASSUME ThreadLifecycleAssumption ==
    {MaxRunning, MaxHosts, MaxQueue} \subseteq Nat

VARIABLES
    present,     \* conversations with a row
    orphans,     \* deleted conversations with event rows
    state,       \* conversations.state
    status,      \* conversations.status
    queue,       \* prompt_queue, oldest first
    kind,        \* what an unfinished supervisor call was made for
    checking,    \* hosts with a post-turn pipeline in flight that is not stale
    outdated,    \* conversations with a stale pipeline that still computes the diff
    retrying,    \* hosts that have not answered the pipeline's retry prompt
    harvesting   \* hosts that have not answered a settle's stats request

SH == INSTANCE SessionHosts

hostVars == <<handles, proc, owner, exiting, zombie, zombies, stage, target, waits, via>>
rowVars  == <<present, orphans, state, status, queue>>
pipeVars == <<checking, outdated, retrying, harvesting>>
vars     == <<hostVars, rowVars, kind, pipeVars>>

States   == {"idle", "streaming", "blocked", "degraded"}
\* closed: merged or abandoned (TERMINAL_THREAD_STATUSES).
Statuses == {"draft", "queued", "running", "reviewed", "closed"}
Terminal == {"closed"}
Kinds    == {"prompt", "queued", "approve", "retry"}

TypeOK ==
    /\ SH!TypeOK
    /\ present  \in SUBSET Threads
    /\ orphans  \in SUBSET Threads
    /\ state    \in [Threads -> States]
    /\ status   \in [Threads -> Statuses]
    /\ queue    \in Seq(Threads)
    /\ kind     \in [Calls -> Kinds \cup {"none"}]
    /\ checking \in SUBSET Hosts
    /\ outdated \in SUBSET Threads
    /\ retrying \in SUBSET Hosts
    /\ harvesting \in SUBSET Hosts

Init ==
    /\ SH!Init
    /\ present  = Threads
    /\ orphans  = {}
    /\ state    = [t \in Threads |-> "idle"]
    /\ status   = [t \in Threads |-> "draft"]
    /\ queue    = <<>>
    /\ kind     = [c \in Calls |-> "none"]
    /\ checking = {}
    /\ outdated = {}
    /\ retrying = {}
    /\ harvesting = {}

-----------------------------------------------------------------------------
Live(t)   == handles[t] # NoHost                                 \* supervisor.has
Streaming == {t \in present : state[t] = "streaming"}            \* countStreaming
AtCap     == \/ Cardinality(Streaming) >= MaxRunning
             \/ Cardinality({t \in Threads : Live(t)}) >= MaxHosts
Without(q, ts) ==
    LET kept[i \in 0..Len(q)] ==
          IF i = 0 THEN <<>>
          ELSE IF q[i] \in ts THEN kept[i - 1] ELSE Append(kept[i - 1], q[i])
    IN  kept[Len(q)]

\* setConversationState and the session_state envelope: a missing row is not
\* updated, but the envelope is appended to the events table all the same.
SetState(t, s) ==
    /\ state'   = IF t \in present THEN [state EXCEPT ![t] = s] ELSE state
    /\ orphans' = orphans \cup ({t} \ present)

\* Pipelines of hs, if any, become stale.  A stale pipeline moves no status, but
\* publishes its diff, with or without its host.
Outdate(hs) ==
    /\ checking' = checking \ hs
    /\ outdated' = outdated \cup {owner[h] : h \in checking \cap hs}

\* The effects of the gateway's own part of RunTurn, when that is what the
\* call's step was: the row flips to streaming, and a pipeline of an earlier
\* turn on the host becomes stale.
TurnEffects(c, t) ==
    IF stage'[c] \in {"sent", "free"}
    THEN SetState(t, "streaming") /\ Outdate({handles'[t]})
    ELSE UNCHANGED <<state, orphans, checking, outdated>>

\* Only approve and retry of a drafted spec return without the child's answer;
\* without a draft they send the last prompt again.
TurnOf(c, t, k) ==
    /\ stage'[c] = "free" => k \in {"approve", "retry"}
    /\ kind' = [kind EXCEPT ![c] = IF stage'[c] = "free" THEN "none" ELSE k]
    /\ TurnEffects(c, t)
    /\ UNCHANGED <<present, retrying, harvesting>>

Submit(c, t, k) == SH!BeginTurn(c, t) /\ TurnOf(c, t, k)

-----------------------------------------------------------------------------
(* Routes *)

\* POST prompt: a thread with a host passes through; otherwise a queued
\* thread is refused, and over a cap the prompt is queued.
Prompt(c, t) ==
    /\ t \in present
    /\ Live(t) \/ (status[t] # "queued" /\ ~AtCap)
    /\ Submit(c, t, "prompt")
    /\ UNCHANGED <<status, queue>>

Enqueue(t) ==
    /\ SH!Idle
    /\ t \in present
    /\ ~Live(t) /\ status[t] # "queued" /\ AtCap
    /\ Len(queue) < MaxQueue
    /\ queue'  = Append(queue, t)
    /\ status' = [status EXCEPT ![t] = "queued"]
    /\ UNCHANGED <<hostVars, present, orphans, state, kind, pipeVars>>

\* POST approve and POST retry: 'running' is written before the call.
Execute(c, t, k) ==
    /\ k \in {"approve", "retry"}
    /\ t \in present
    /\ Live(t) \/ ~AtCap
    /\ status' = [status EXCEPT ![t] = "running"]
    /\ Submit(c, t, k)
    /\ UNCHANGED queue

\* What abandon, delete and kill-all do to the hosts of ts.
Stop(ts) ==
    /\ SH!Kill(ts)
    /\ Outdate({handles[t] : t \in ts})
    /\ UNCHANGED <<kind, retrying, harvesting>>

\* abandonThread settles the row itself: the exit of a killed host is silent.
LandedBlocked(s) == IF s = "blocked" THEN "idle" ELSE s          \* mutant
Landed(s)        == IF s \in {"streaming", "blocked"} THEN "idle" ELSE s

\* Mutant: the 404 for a missing thread is dropped.
AbandonUnchecked(t) ==
    /\ Stop({t})
    /\ status'  = [u \in Threads |-> IF u = t /\ t \in present THEN "closed" ELSE status[u]]
    /\ state'   = [state EXCEPT ![t] = Landed(@)]
    /\ orphans' = orphans \cup ({t} \ present)
    /\ queue'   = Without(queue, {t})
    /\ UNCHANGED <<present>>

Abandon(t) ==
    /\ t \in present
    /\ Stop({t})
    /\ status' = [status EXCEPT ![t] = "closed"]
    /\ state'  = [state EXCEPT ![t] = Landed(@)]
    /\ queue'  = Without(queue, {t})
    /\ UNCHANGED <<present, orphans>>

\* POST kill-all: what is live or queued is abandoned, all queued work dropped.
Killable == {t \in present : state[t] \in {"streaming", "blocked"} \/ status[t] = "queued"}

KillAll ==
    LET ts == Killable IN
    /\ Stop(ts)
    /\ status' = [t \in Threads |-> IF t \in ts THEN "closed" ELSE status[t]]
    /\ state'  = [t \in Threads |-> IF t \in ts THEN "idle" ELSE state[t]]
    /\ queue'  = <<>>
    /\ UNCHANGED <<present, orphans>>

\* DELETE: the row and its events go, then the child and the queued prompts.
Delete(t) ==
    /\ t \in present
    /\ Stop({t})
    /\ present' = present \ {t}
    /\ state'   = [state EXCEPT ![t] = "idle"]
    /\ status'  = [status EXCEPT ![t] = "draft"]
    /\ queue'   = Without(queue, {t})
    /\ UNCHANGED orphans

\* POST merge.  Mutant: the state column gets the status.
MergeState(t) ==
    /\ SH!Idle
    /\ t \in present
    /\ status[t] = "reviewed"
    /\ state' = [state EXCEPT ![t] = "closed"]
    /\ UNCHANGED <<hostVars, present, orphans, status, queue, kind, pipeVars>>

Merge(t) ==
    /\ SH!Idle
    /\ t \in present
    /\ status[t] = "reviewed"
    /\ status' = [status EXCEPT ![t] = "closed"]
    /\ state'  = [state EXCEPT ![t] = "idle"]
    /\ UNCHANGED <<hostVars, present, orphans, queue, kind, pipeVars>>

\* The queue runner takes the oldest prompt.  One pass may take several in one
\* macrotask; taking them in separate steps allows strictly more.  No route breaks
\* off between its writes here (that is PromptQueue's), so the row of a deleted
\* thread, which the runner would skip, never exists.
Dequeue(c, t) ==
    /\ ~AtCap
    /\ queue # <<>> /\ Head(queue) = t
    /\ queue'  = Tail(queue)
    /\ status' = [status EXCEPT ![t] = "running"]
    /\ Submit(c, t, "queued")

-----------------------------------------------------------------------------
(* Continuations of the calls *)

Resume(c) ==
    /\ SH!Resume(c)
    /\ TurnOf(c, target[c], kind[c])
    /\ UNCHANGED <<status, queue>>

Reply(c)      == SH!Reply(c) /\ UNCHANGED <<rowVars, kind, pipeVars>>
RpcTimeout(c) == SH!RpcTimeout(c) /\ UNCHANGED <<rowVars, kind, pipeVars>>

\* The call failed and the row says so: degraded, and after an execution
\* reviewed.  updateThreadStatus of a missing row is a no-op.
Degrade(t) == SetState(t, "degraded")
Review(t)  == status' = IF t \in present THEN [status EXCEPT ![t] = "reviewed"] ELSE status

Unanswered(c) == stage[c] = "failed"

\* The prompt route: a rejection by the agent (answered, not accepted) leaves
\* the row as it is; acceptance publishes the user's message.
FinishPrompt(c) ==
    /\ kind[c] = "prompt"
    /\ \/ Unanswered(c) /\ Degrade(target[c])
       \/ ~Unanswered(c) /\ orphans' = orphans \cup ({target[c]} \ present) /\ UNCHANGED state
       \/ ~Unanswered(c) /\ UNCHANGED <<orphans, state>>
    /\ UNCHANGED status

\* failDequeuedPrompt: a deleted or terminal thread is left alone.
FinishQueued(c) ==
    LET t == target[c] IN
    /\ kind[c] = "queued"
    /\ \/ t \in present /\ status[t] \notin Terminal /\ Degrade(t) /\ Review(t)
       \/ /\ ~Unanswered(c) \/ t \notin present \/ status[t] \in Terminal
          /\ UNCHANGED <<orphans, state, status>>

\* approve and retry ignore the agent's verdict; a failed call is written back
\* whatever the thread has become meanwhile.
FinishExecution(c) ==
    /\ kind[c] \in {"approve", "retry"}
    /\ IF Unanswered(c) THEN Degrade(target[c]) /\ Review(target[c])
                        ELSE UNCHANGED <<orphans, state, status>>

Finish(c) ==
    /\ SH!Finish(c)
    /\ FinishPrompt(c) \/ FinishQueued(c) \/ FinishExecution(c)
    /\ kind' = [kind EXCEPT ![c] = "none"]
    /\ UNCHANGED <<present, queue, pipeVars>>

-----------------------------------------------------------------------------
(* Events of a host, and its post-turn pipeline *)

RowStep == UNCHANGED <<hostVars, present, queue, kind>>

Speaks(h) == SH!Alive(h) /\ h \notin zombie /\ SH!ChunkOf(h)

\* contract.reply, from PATCH spec or from the agent's own spec signals.
ContractReply(t) ==
    /\ Live(t) /\ handles[t] \notin exiting
    /\ SH!ChunkOf(handles[t])
    /\ SetState(t, "streaming")
    /\ RowStep
    /\ UNCHANGED <<status, pipeVars>>

Fresh(h) == handles[owner[h]] = h /\ h \notin exiting            \* ~stale()

\* settleRunningThread: only a running thread is moved to reviewed.
SettleAny(t) == Review(t)                        \* mutant: whatever the status
SettleRunning(t) ==
    status' = IF t \in present /\ status[t] = "running" THEN [status EXCEPT ![t] = "reviewed"]
                                                        ELSE status

\* agent_settled: the row goes idle and the stats are asked for; without a row or
\* a workspace the pipeline ends at once, otherwise it goes on asynchronously.
Settle(h) ==
    /\ Speaks(h)
    /\ SetState(owner[h], "idle")
    /\ \/ /\ owner[h] \in present
          /\ IF Fresh(h) THEN checking' = checking \cup {h} /\ UNCHANGED outdated
                         ELSE outdated' = outdated \cup {owner[h]} /\ UNCHANGED checking
          /\ UNCHANGED status
       \/ /\ IF Fresh(h) THEN SettleRunning(owner[h]) ELSE UNCHANGED status
          /\ UNCHANGED <<checking, outdated>>
    /\ harvesting' = harvesting \cup {h}
    /\ RowStep
    /\ UNCHANGED retrying

\* A stale pipeline publishes the diff, or finds none, without another look at
\* the host, the turn or the row.  The thread may have a further one.
OutdatedEnds(t) ==
    /\ SH!Idle
    /\ t \in outdated
    /\ outdated' \in {outdated, outdated \ {t}}
    /\ orphans' = orphans \cup ({t} \ present) \/ UNCHANGED orphans
    /\ UNCHANGED <<hostVars, present, state, status, queue, kind>>
    /\ UNCHANGED <<checking, retrying, harvesting>>

\* The pipeline of a turn that is still the host's latest: reviewed with a
\* diff, settled without one, a retry prompt, or a failure of the tools.
PipelineEnds(h) ==
    LET t == owner[h] IN
    /\ SH!Idle
    /\ h \in checking
    /\ checking' = checking \ {h}
    /\ \/ /\ IF status[t] \in Terminal THEN UNCHANGED status ELSE Review(t)
          /\ UNCHANGED <<state, orphans, retrying>>
       \/ SettleRunning(t) /\ UNCHANGED <<state, orphans, retrying>>
       \/ SetState(t, "streaming") /\ retrying' = retrying \cup {h} /\ UNCHANGED status
       \/ UNCHANGED <<state, orphans, status, retrying>>
    /\ RowStep
    /\ UNCHANGED <<outdated, harvesting>>

\* The retry prompt is answered, or rejected, or times out.
RetryAnswered(h) ==
    /\ SH!ChunkOf(h)
    /\ h \in retrying
    /\ retrying' = retrying \ {h}
    /\ Degrade(owner[h]) \/ UNCHANGED <<state, orphans>>
    /\ RowStep
    /\ UNCHANGED <<status, checking, outdated, harvesting>>

\* harvestUsage: the answer publishes the usage, and over the cost cap blocks
\* the thread; no check that the host is still the thread's, or the turn over.
HarvestAnswered(h) ==
    LET t == owner[h] IN
    /\ SH!ChunkOf(h)
    /\ h \in harvesting
    /\ harvesting' = harvesting \ {h}
    /\ \/ SetState(t, "blocked")
       \/ orphans' = orphans \cup ({t} \ present) /\ UNCHANGED state
       \/ UNCHANGED <<orphans, state>>
    /\ RowStep
    /\ UNCHANGED <<status, checking, outdated, retrying>>

\* A gated action or an escalated dialog.
Block(h) ==
    /\ Speaks(h)
    /\ SetState(owner[h], "blocked")
    /\ RowStep
    /\ UNCHANGED <<status, pipeVars>>

-----------------------------------------------------------------------------
(* Ends of a host *)

\* reapIdle with strandTurnIfMidTurn.
Reap(hs) ==
    LET stranded == {t \in Streaming : handles[t] \in hs} IN
    /\ SH!Reap(hs)
    /\ state'    = [t \in Threads |-> IF t \in stranded THEN "degraded" ELSE state[t]]
    /\ Outdate(hs)
    /\ UNCHANGED <<present, orphans, status, queue, kind, retrying, harvesting>>

\* A torn-down rpc client rejects the sends of the pipeline as well.
RejectSends(h) == retrying' = retrying \ {h} /\ harvesting' = harvesting \ {h}

Overflow(h) ==
    /\ SH!Overflow(h)
    /\ IF h \in retrying THEN Degrade(owner[h]) ELSE UNCHANGED <<state, orphans>>
    /\ RejectSends(h)
    /\ UNCHANGED <<present, status, queue, kind, checking, outdated>>

\* A crash of the current host degrades the thread; an expected exit is silent.
Exit(h) ==
    /\ SH!Exit(h)
    /\ IF Fresh(h) \/ h \in retrying THEN Degrade(owner[h]) ELSE UNCHANGED <<state, orphans>>
    /\ RejectSends(h)
    /\ Outdate({h})
    /\ UNCHANGED <<present, status, queue, kind>>

\* Timers of the supervisor that touch no row.
Timer ==
    /\ \/ \E h \in Hosts : SH!Escalate(h)
       \/ \E t \in Threads, h \in Hosts : SH!ZombieWaitElapsed(t, h)
       \/ \E c \in Calls, h \in Hosts : SH!ExitWaitElapsed(c, h)
    /\ UNCHANGED <<rowVars, kind, pipeVars>>

\* Rows, events and queue are durable; markStaleStreamingDegraded at boot.
Restart ==
    /\ SH!Restart
    /\ state'    = [t \in Threads |-> IF state[t] = "streaming" THEN "degraded" ELSE state[t]]
    /\ kind'     = [c \in Calls |-> "none"]
    /\ checking' = {}
    /\ outdated' = {}
    /\ retrying' = {}
    /\ harvesting' = {}
    /\ UNCHANGED <<present, orphans, status, queue>>

-----------------------------------------------------------------------------
Next ==
    \/ \E c \in Calls, t \in Threads : Prompt(c, t) \/ Dequeue(c, t)
    \/ \E c \in Calls, t \in Threads, k \in Kinds : Execute(c, t, k)
    \/ \E t \in Threads : Enqueue(t) \/ Abandon(t) \/ Delete(t) \/ Merge(t) \/ ContractReply(t)
    \/ \E c \in Calls : Resume(c) \/ Reply(c) \/ RpcTimeout(c) \/ Finish(c)
    \/ \E h \in Hosts : Settle(h) \/ PipelineEnds(h) \/ RetryAnswered(h)
                        \/ HarvestAnswered(h) \/ Block(h)
    \/ \E hs \in SUBSET Hosts : Reap(hs)
    \/ \E h \in Hosts : Overflow(h) \/ Exit(h)
    \/ \E t \in Threads : OutdatedEnds(t)
    \/ KillAll \/ Timer \/ Restart

Spec == Init /\ [][Next]_vars

-----------------------------------------------------------------------------
(* Properties *)

\* Every row marked streaming has a host that can end the turn.  A row without
\* one eats a slot of the running-host cap for good, and starves the queue.
\* (prepareTurn, abandonThread, strandTurnIfMidTurn, the exit listener)
NoLeakedStreaming ==
    KillsLand => \A t \in Streaming : Live(t) /\ handles[t] \notin exiting

\* A finished pipeline, a settle or a failed queued prompt never puts a merged
\* or abandoned thread back to reviewed; only approve and retry could.
\* (markThreadReviewedById, settleRunningThread, failDequeuedPrompt)
DecisionsSurviveTurns ==
    [][\A t \in Threads :
          status[t] \in Terminal /\ status'[t] = "reviewed" =>
              \E c \in Calls : target[c] = t /\ kind[c] \in {"approve", "retry"}]_vars

\* The code says a terminal status is not overwritten by a late failure
\* ("abandoned/merged are terminal"); approve and retry do overwrite it.
\* (app.ts, the catch blocks of POST approve and POST retry)
DecisionsStand ==
    [][\A t \in Threads : status[t] \in Terminal => status'[t] # "reviewed"]_vars

\* Deleting a thread kills its host so that nothing re-inserts its event rows.
\* What was in flight still does: a call made for the thread, a host that was its
\* own, or a stale pipeline, which outlives its host.  Nothing else
\* does: a deleted thread with none of them stays without events.
\* (deleteThread, prepareTurn, handleProtocolEvent, harvestUsage, postTurnPipeline)
OrphansAreStragglers ==
    [][\A t \in orphans' \ orphans :
          \/ \E c \in Calls : target[c] = t
          \/ \E h \in Hosts : owner[h] = t
          \/ t \in outdated]_vars

\* No turn is written into a child that is already being torn down.
\* (prepareTurn's wait for an exiting handle, supervisor.ts:361)
TurnAvoidsDyingHost == SH!TurnAvoidsDyingHost

\* Composed with rows, routes and queue, the hosts still are SessionHosts.
HostsSpec == SH!Spec
=============================================================================
