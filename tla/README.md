# Aelvyril: a verification development

TLA+ models of the Aelvyril gateway, TLC configurations that check them on small
instances, and TLAPS proofs for every value of the constants. The program is a
TypeScript gateway (Fastify on one Node process) that runs one `pi` coding-agent child
process per conversation thread, stores threads and events in SQLite, streams events
to a web client, and updates itself. Source paths below are relative to the
repository; `gw/` stands for `src/apps/gateway/src/`.

## 1. Inventory

| Component (code) | State it keeps | Operations | What makes it correct |
|---|---|---|---|
| Session hosts (`gw/supervisor.ts`) | `handles` (conversation -> current host), `zombies` (conversation -> exit promises), per host `exiting`, `zombie`, `turnGeneration`, `lastActivity` | `prompt`, `approveExecution`, `retryExecution` (through `prepareTurn`), `killChild`, `reapIdle`, exit listener, `exitOf`, `disposeAll` | one process per session file; the handle map lists live processes only; a replaced process is silent, a current one never is; no turn enters a dying process; every wait ends |
| RPC client (`gw/rpc.ts`) | pending commands with timers, decoder buffer | `send`, `onLine`, `failFatal`, `onExit` | every command is answered, rejected or timed out; bytes are bounded |
| Thread routes (`gw/app.ts`) | none of their own; guards on rows and hosts before an `await`, writes after it | prompt, approve, retry, abandon, delete, merge, kill-all, spec patch, abort | no row is left `streaming` without a host; decisions of the user stand; deleted means gone; caps hold |
| Conversation store (`gw/store.ts`) | conversations (state, status, last prompt, counters), events with sequence numbers, prompt queue, trust, audit | single-statement updates and transactions; `markStaleStreamingDegraded` at boot | rows agree with hosts after any crash; sequence numbers grow per conversation; counters feed trust correctly |
| Prompt queue and runner (`gw/app.ts`, `gw/store.ts`) | `prompt_queue` | enqueue at the cap, `runQueue`, `failDequeuedPrompt`, removal | a queued thread has its prompt; no prompt outlives its thread; slots go by age |
| Post-turn pipeline (`gw/supervisor.ts`, `gw/verify.ts`, `gw/workspace-git.ts`) | per host turn generation, verify attempts | settle, harvest, diff, verify, retry prompt | a stale pipeline moves no row and sends no prompt (it may still publish its diff); a decided thread is not reopened |
| Agent contract (`gw/agent-contract.ts`) | interview rounds, draft, approval, gate flags | question, draft, execute, gate, approve, retry, patch | a turn that reaches for a gated action is stopped and not taken for a finished one; the interview ends |
| Bus, event log, SSE (`gw/bus.ts`, `gw/app.ts`, `gw/store.ts`) | subscribers, stream slots, last sequence number | publish, subscribe, replay pages, live, heartbeat, cleanup | each client sees each event once and in order; slots are returned |
| Web client (`src/apps/web/lib`) | reducer state, last sequence number | apply, reconnect | a duplicate or a replay changes nothing |
| Rate limiter (`gw/rate-limit.ts`) | token buckets with lazy eviction | take | eviction is unobservable |
| Self update (`src/scripts/self-update.mjs`, `gw/updater.ts`) | lock file, breaker state, installed version | cycle, rollback, restart, reset | services and dependencies follow the tree after a step that fails; a bounded number of failed updates; one keeper at a time (section 8 says where a crash breaks this) |
| Risk classifier, spec heuristic, auth, child environment, allowlist, metrics, health, schemas, UI | none, or counters | pure functions, rendering | ordinary tests reach it |

How they interact. A route checks rows and caps, writes a row, awaits the supervisor,
and writes again. The supervisor suspends while an old child exits, spawns or reuses a
host, writes a command and awaits the answer. The child's stdout delivers answers and
events; events update rows and are published through the bus. Timers (10 s answer
timer, SIGKILL escalation, bounded exit wait, reap sweep, queue runner) fire between
any two of these. The hard behaviours are what happens across an `await`: rows, handles
and children change in between. They are listed with their lines as `hazards` in
`PROJECT.json`.

## 2. Plan

Order is by what breaks worst. All eight are modelled and checked.

1. `SessionHosts`: hosts, kills, reaps, exits, calls, over the variables of `HostState`.
2. `ThreadLifecycle`: rows, routes, queue, pipelines composed with (1), which it
   implements. Proofs of both in `ThreadLifecycleProofs`.
3. `AgentTurn`: one conversation's contract with its gate, interview, aborts, verify
   retries and pipelines, against an agent behind two pipes. Proofs in `AgentTurnProofs`.
4. `EventStream`, an implementation of the abstract `EventLog`. Proofs in `EventStreamProofs`.
5. `SelfUpdate`: the keeper. Proofs in `SelfUpdateProofs`.
6. `PromptQueue`: several namespaces, runner passes, fairness and liveness, restart. Proofs in
   `PromptQueueProofs`.
7. `RateLimiter` (buckets with lazy refill and eviction), an implementation of the abstract
   `LeakyBucket`, with proofs in `RateLimiterProofs`; `RpcClient` (byte-bounded line decoder and
   the settling of commands), with proofs in `RpcClientProofs`.
8. `ThreadView`: row, published envelopes and browser tab of a thread, and the trust its merge
   earns. Proofs in `ThreadViewProofs`.

Every safety property a run checks and expects to hold is proved, those of `EventStream`'s delivery
and of `SelfUpdate`'s cycle under a hypothesis; that `ThreadLifecycle` implements `SessionHosts` is
proved only. Liveness is not proved (section 7).

Not planned: pure text classification, authentication and rendering.

## 3. `SessionHosts`: the model and the code

One Node process runs everything, so a step is one macrotask without a yield (a route up
to its first `await`, a timer, a stdout chunk, an exit event), or one promise
continuation. Continuations run before the next macrotask: `Idle` guards macrotasks, and
`ChunkOf(h)` lets further messages of the same stdout chunk be dispatched before the
continuation of the answer that was in it.

The variables, and what must be true of them in any composition, are in `HostState`.

| Variable | Code |
|---|---|
| `handles` | `Supervisor.handles` |
| `proc`, `owner` | the child process (up, SIGTERM sent, SIGKILL sent, gone) and `handle.conversationId` |
| `exiting`, `zombie` | flags of a handle |
| `zombies` | `Supervisor.zombies`, as the set of hosts whose exit promise is unresolved |
| `stage`, `target`, `waits`, `via` | a call in flight: where it stands, its conversation, the exits it awaits, the host it was sent to |

`BeginTurn`/`Resume` are `prepareTurn` and the part of `prompt`, `approveExecution` and
`retryExecution` up to the answer; `Reply`, `RpcTimeout`, `Finish` end a call; `Kill` is
`killChild` for one thread (abandon, delete) or several (kill-all); `Reap` is one sweep of
`reapIdle`; `Escalate` is the SIGKILL timer; `Overflow` is `failFatal`, which both the
decoder's byte cap and a JSON parse error reach; `Exit` is the exit listener with the
rejection of pending commands; `ZombieWaitElapsed` and `ExitWaitElapsed` are the bounded
wait of `exitOf`; `Restart` is the end of the gateway and its next start. An orderly
shutdown (`disposeAll`, every child gets SIGTERM) is folded into `Restart`: the model lets
the process end at any point, and the code itself relies on children not outliving it
(`gw/app.ts:183-186`). A queue-runner prompt that is suspended during shutdown could still
spawn after `disposeAll` took its snapshot; that window is inside `Restart` and not observed.

Host identities are recycled when the process is gone and no call names it, which keeps
the state finite without losing behaviours.

`KillsLand` is the environment assumption that a child which received SIGKILL exits
within the margin of `exitOf`. With it false, waits elapse while the process lingers. The
code chooses availability there: two processes of one thread may then overlap, so
`OneProcessPerThread` and `TurnAvoidsDyingHost` are conditional on it, and
`OnlyCurrentSpeaks` and `HandlesAreLive` are not.

## 4. `ThreadLifecycle`: the model and the code

It extends `HostState`, as `SessionHosts` does, takes the latter by `INSTANCE`, and
every action contains the host step it makes. Its own state: `present` and `orphans`
(conversation rows, and deleted conversations with event rows), `state` and `status` (the
two columns, the latter with merged and abandoned as `closed`), `queue` (`prompt_queue`), `kind`
(what a call was made for), `checking` (hosts with a pipeline that is not stale), `outdated`
(conversations with a stale one, which outlives its host), `retrying` and
`harvesting` (hosts that owe an answer to the pipeline's retry prompt or to the stats request).

| Action | Code |
|---|---|
| `Prompt`, `Enqueue` | `POST /v1/threads/:id/prompt` below and at the cap |
| `Execute` | `POST approve`, `POST retry`: `running` is written before the call |
| `Abandon`, `KillAll`, `Delete`, `Merge` | the routes of those names |
| `Dequeue`, `Finish` (`FinishQueued`) | `runQueue`, `failDequeuedPrompt` |
| `Resume`, `Reply`, `RpcTimeout`, `Finish` | continuations of a call with the row writes that follow |
| `ContractReply`, `Settle`, `Block` | protocol events of a host |
| `PipelineEnds`, `OutdatedEnds`, `RetryAnswered`, `HarvestAnswered` | `postTurnPipeline`, `harvestUsage` |
| `Reap`, `Overflow`, `Exit`, `Restart` | ends of a host with their row writes |

Choices left open, so that every outcome is allowed: whether a thread has a draft, a last
prompt, a workspace or a diff, and what verification answers. The cost cap and the rate limit only
refuse requests and are not modelled. `POST abort` writes no row. Creating a thread is
inert, and identifiers are never reused, so threads exist from the start. The branch
`ok = false` of approve and retry is not modelled: its condition is checked synchronously
just before. One pass of the queue runner may take several prompts; the model takes them
in separate steps, which allows strictly more interleavings; `PromptQueue` has the passes, and
the routes that break off between two of their writes.

## 5. The other modules and the code

### `AgentTurn`

One conversation. `host` holds the fields of the `AgentContract` and of the `Handle` that
live and die with a session host; `state` is the state column with *blocked* split by the
reason published with it (`gated`, `capped`); `spec` and `prompted` are what the store keeps;
`checking` are the pipelines in flight that are not stale. `input` and `output` are the
child's stdin and stdout. The gateway never sees turn numbers: they are in the messages so
that properties can say which turn a settle belonged to. `gated`, `stopped` and `finished`
are history variables.

| Action | Code |
|---|---|
| `Prompt`, `Approve`, `Retry`, `PatchSpec`, `Abort` | the routes with `prompt`, `approveExecution`, `retryExecution`, `submitSpecPatch`, `abort` of the supervisor |
| `OnQuestion`, `OnDraft` | `onSpecQuestion`, `onSpecDraft` with `decideExecution` |
| `OnTool`, `EscalateGate` | `tool_execution_start` and `escalateGate` |
| `OnSettled`, `OnStray` (`Settled`) | `agent_settled`, of a turn and in answer to an abort at rest, which the code does not tell apart |
| `OnUsage`, `PipelineEnds`, `OnRefused` | `harvestUsage`, `postTurnPipeline` and the answer to its retry prompt |
| `Crash`, `Reap`, `Abandon` | ends of the host, in one step (section 3 has the time in between) |
| `ReadPrompt`, `ReadAbort`, `ReadStats`, `Work` | the agent, external |

The agent is taken from `src/apps/gateway/fixtures/fake-pi.mjs` and the comments on it: it
settles each turn once, an abort ends the turn before the next command is read, an abort at rest
is answered with a settle of no turn or not at all, and a bare prompt in the middle of a turn is
refused. Whether a step is gated, a draft is auto-run and
a turn costs too much is open. Dialogs (`extension_ui_request`) are left out.

### `EventLog` and `EventStream`

`EventLog` is what a thread's stream promises: a client's cursor moves over the log in
order, skipping only rows that retention deleted or that are not valid envelopes.
`EventStream` has the log (`first..next - 1`, with pruning in the same transaction as the
append), sockets with their two ends, and the clients. From the slot check to the
subscription the route does not yield, so `Connect` is one step. `phase[s] = "ended"` is a
stream the gateway has ended whose bytes still flow; `peer[s] = NoClient` one whose client is
gone and the gateway may not know. A page is a stretch of the log (`PageSince`), of which the
replay loop may have written any beginning when back-pressure drops the stream (`Replayed`);
a published row may end a stream as well. `Break`
keeps a whole data line without its blank line in the parser's buffer (`partial`), which the
`retry:` block of the next connection terminates, as `SseParser.push` would see it. All
clients are windows of one user, for whom the slots are counted.

Two simplifications matter. A full page without one valid row falls through to the live
subscription (`gw/app.ts:1065`), and rows behind it are then never sent; the instance has
fewer malformed rows in a row than a page, and the bus stores only valid ones. An
operating-system crash may lose the tail of the WAL and so reuse sequence numbers that a
client has seen (`gw/store.ts:143-146`); the model's log is durable.

### `SelfUpdate`

A keeper is a process; its steps are the stretches between system calls that others can see
(opening, unlinking and writing the lock file are three), and it may die between any two.
`repo` is a line of commits, each known by what it holds of every service and of
`pnpm-lock.yaml`; `affectedServices` compares two of them (`Touched`, `Installs`). `running`
is the version that listens on each service's port, `booting` those launched that do not listen yet
(`Boot`; the one that comes to a port that is taken ends); the restart finds and kills only what
listens. `deps` is the lock file `node_modules` was installed from; a version in `Broken` never
listens. `job` holds the local
variables of the command: where a rollback returns to, what it restarts, and the state it
read at the beginning. `Failure` is what an error means in each place: roll the update
back, trip the breaker, or end the command. Fetching, merging, installing, `taskkill`,
launching and resetting may all fail. `state.json` is truncated (`Truncate`) and then written
(`Save`): in between it reads as one without failures and without a known-good commit. Of the
history variables `incident` records what leaves the stack to an operator: a keeper that died while
the tree had moved and the services had not, a failed rollback, a rollback by hand; `missed` the
services at whose restart a process of another version did not listen yet; `crashes` and `torn` the
deaths of keepers, outside and inside a write of `state.json`.

### `PromptQueue`

The queue and its runner for several namespaces that share the hosts. A pass of the runner does
not yield: `StartPass` takes the list of namespaces with queued work (`todo`), `VisitNext` is one
turn of the loops (`TakeOne` dequeues and starts a prompt, `Leave` goes to the next namespace), and
`AtRest` keeps everything but the end of the process out until the pass is over. `status` is kept as
far as the queue tells it apart (`open` is draft, running or reviewed, `closed` merged or
abandoned, `deleted` a thread without a row), `host` as far as the caps
and a wait for a dying process do. `owed` are prompts suspended in `prepareTurn`; they start when
the process is gone (`HostGone`), past every cap. Whose call a running turn was is left open
(`Breaks`): one of the runner, of approve or of retry writes *reviewed* when it fails, a plain
prompt does not.

A row and the status that goes with it are two autocommit writes. Each step that makes both has an
outcome in which only the first was made, because the second threw or the process ended there:
`Enqueue` (`gw/app.ts:583-584`), `TakeOne` (`gw/store.ts:502` and `gw/app.ts:1115`, where the catch
around the pass swallows the exception), `Ends` of abandon and delete (`gw/app.ts:779-791`,
`535-543`), `KillAll` (`gw/app.ts:895-905`). `Execute` and `TakeOne` may also stop after the status,
before the turn (`Halts`). `parted` is a history variable for the conversations whose row and status
go apart: by such a break, by an approve of a queued thread, or by the late failure of a call begun
before the thread was queued.

### `LeakyBucket` and `RateLimiter`

`LeakyBucket` is the promise: per user a bucket that requests fill and time drains, and a request
is admitted exactly when it fits. `RateLimiter` is `consume`: the sweep, which runs at most once
a period and drops buckets idle for three, the lazy refill, the new full bucket, the token. Tokens
are measured in the milliseconds they take to refill, so every number is an integer: a bucket
holds at most `Period`, a request costs `Cost`. Rounding of floating point is therefore not in the
model, nor a clock that steps back, a limiter that never refills (`refillPerSecond = 0`) and the
empty user id, which is refused first. `since` and `spent` belong to an observer who starts to
watch at any time.

### `RpcClient`

The gateway's end of the JSON-lines protocol. The wire is a sequence of bytes and the pipe cuts
it anywhere (`Data`); a line stands for its message, and a line feed is none of
a line's bytes (`RpcClientAssumption`). `Push` is `JsonlDecoder.push`, with its three
ends: a line that is not JSON throws out of the loop, a remainder over the cap poisons the
decoder, else the messages are handled. A line that is the JSON value `null` throws out of `handle`,
past the `try` of the listener, and the gateway has no handler for that: `Crash` is its end and its
next start. `Send`, `Timeout`, `Handle`, `FailFatal`, `Terminate` are
the functions of those names; `Exit` and `Error` are the child's events. What the process wrote
can arrive after its exit was seen, and an exit can follow a failed signal. A command that carries
its own id (an `extension_ui_response`) resolves at once and has no entry. JavaScript strings are
kept as their UTF-8 bytes, with those `StringDecoder` holds back; invalid UTF-8, whose
replacement characters are longer than what they replace, is left out, and so is a second `error` event of one
process, for which `once` has left no listener.

### `ThreadView`

One thread as its row, the log of its envelopes and a browser tab have it. `shown` is the last
`session_state` of the log. The stream delivers once and in
order and a reload replays the log (`EventStream`), so the tab's state is a fold of the
log, and only `waiting`, which the hook also writes by itself, has a life of its own: `Ask` sets it
before the POST, `Answer` clears it for a queued or refused prompt, `Stop` after an abort, `Lost`
with the stream, `Receive` sets it from the envelopes in flight. `spec_status` envelopes, which no
property reads, are left out. `host` tells a turn from two, the second begun before the settle of
the first was read. `retries` and `revision` are
`retry_count` and `reviewed_revision`, `trust` the namespace's count. A review is here one of the
pipeline (`markReviewed`), which takes the snapshot; the failure writebacks of approve, retry and
the runner (`gw/app.ts:748`, `831`, `1139`) also write *reviewed* and take none, although
`gw/store.ts:426` speaks of the "last reviewed transition", so a merge after one of them counts the
retries since the pipeline's review.

A host comes and goes in one step here (section 3 has the time in between), and whether a cap, a
limit or a missing spec refuses a request is left open. Of the tab's prompts one is unanswered at
a time, and of the other calls one; `MaxFlight` bounds the envelopes on their way. Where the code
publishes the same envelope twice in a row there is one.

## 6. What is checked

| Run | Instance | Properties |
|---|---|---|
| `hosts` | 1 thread, 2 processes, 2 calls, kills may not land, fairness | `OnlyCurrentSpeaks`, `HandlesAreLive`, `WaitsAreBounded`, `EveryTurnReturns` |
| `threads` | 2 threads, 2 processes, 1 call, one running slot, one host slot, queue of 1, kills land | `TypeOK`, `NoLeakedStreaming`, `OneProcessPerThread`, `TurnAvoidsDyingHost`, `DecisionsSurviveTurns`, `OrphansAreStragglers` |
| `prompt_queue` | a user with two threads and one with one, 1 running slot each, 2 hosts, queue of 2, fairness | `TypeOK`, `RowsAreAwaited`, `FirstSlotToOldest`, `NoStarvation` |
| `rate_limiter` | 2 users, 2 tokens, clock up to 9 | `WindowBound`, `OnlyRecentBuckets`, `ImplementsContract` (refines `LeakyBucket`) |
| `rpc_client` | 2 commands and a dialog answer, lines of 0 to 3 bytes around a cap of 2, malformed, null and blank ones among them, 3 lines, fairness | `FramingIsExact`, `BufferIsBounded`, `EntriesAreOwed`, `ExitIsReportedOnce`, `EverySendSettles` |
| `agent_turn` | 2 gated classes, 1 interview round, 1 retry, 4 prompts, pipes of 2, symmetry | `TypeOK`, `GatedTurnIsAborted`, `GatedTurnNeverFinishes`, `NoStuckStreaming` |
| `thread_view` | 2 envelopes in flight, 2 retries, 1 merge that earns trust | `NoPhantomRun`, `TrustIffUnrevised` |
| `event_stream` | 2 clients, 3 sockets, 2 slots, 3 rows with one malformed, retention 3, pages of 2, 2 faults, fairness | `TypeOK`, `SlotsAreExact`, `DeliveryInOrder` (refines `EventLog`), `EveryoneCatchesUp` |
| `self_update` | 1 keeper, 2 services, 2 commits of any content, breaker at 2, 1 crash, symmetry | `TypeOK`, `RunsTheTree`, `KnownGoodIsGood`, `DepsFitTheTree`, `BreakerBounds` |
| `gate_approvable` | as `agent_turn` | one statement of a comment, violated (section 8) |
| `keeper_lock` | 2 keepers, no crash | one statement of the runbook, violated (section 8) |
| `decisions_stand` | 2 threads, 2 processes, 2 calls | one statement of a comment, violated (section 8) |

What they show. `hosts`: even with processes that linger after SIGKILL, a replaced child is
silent, a current one never is, and every wait and turn ends. `threads`: at every cap, no row
keeps a running slot without a host, no two processes share a session file, no turn or pipeline
undoes a decision, and for a deleted thread only what was in flight still writes, a stale pipeline
included. `prompt_queue`: a thread that refuses prompts because one is queued has one, and the runner
starts no thread that was ended, except where a step broke off between its two writes or an older
call wrote over the status; the first slot of a pass goes to the oldest prompt that can have it, and
no queued prompt starves for the sake of other queued ones. `rate_limiter`: the comment "semantically identical"
on eviction holds, and two users never share a limit. `rpc_client`: no cut of the bytes loses,
splits or repeats a line, every command settles once, and the byte cap is passed only behind a line
that is not JSON. `thread_view`: a tab that is up to date shows no run that a replay of the log would
not show (after kill-all, which publishes nothing, log and tab go on showing a run that the row has
ended); autonomy is earned by merges that nobody retried since the pipeline's review.
`agent_turn`, `event_stream` and `self_update`: a gated turn is aborted and never finishes the thread,
clients see each event once and in order, and the stack runs what the tree says after any step that
failed and wherever the keeper died but in the middle of an update, for every service that listened
when it was to be killed.

Why the bounds suffice. Interference needs an old and a new process of one thread, and another
thread as a bystander: two processes in `hosts` and two threads in `threads` give both, and the
safety properties of hosts and of threads are proved for all sizes. Two calls in
`hosts` give one suspended call overtaken by another; more calls of a kind repeat the pattern,
since calls meet only through `handles` and `zombies`. With one running slot and one host slot
the cap is reached by one thread, so the other is queued, dequeued and rejected. `MaxQueue` is the
model's bound on the queue; the code has none, and the queue's properties do not depend on its
length.

In `prompt_queue` the busy user's second thread can be queued before and behind the guest's, two
hosts are fewer than the three threads, so each cap is reached alone, and two rows are enough
for a younger one to overtake. A step may break off, and the process end, any number of times. In `rate_limiter` the clock runs past the eviction age and one
sweep period more, with a burst, a refusal and a boundary of every comparison on the way; the proofs
have any numbers. In `rpc_client` three lines give a line cut in any place between two others, at
and over the cap, blank, or malformed; two commands give one that settles while another waits.
In `thread_view` two envelopes in flight give one that contradicts the next, and two retries one
before and one after a review; it is proved for any bounds.

In `agent_turn` four prompts allow a gated turn, a turn begun before its settle is read, a
retry prompt and one more; `MaxPipe` limits only what the agent and `POST abort` add, never a
reaction, so two already put an abort and an event at work on their way past each other, and more
follows from the reactions; the run of `gate_approvable` has three. In `event_stream` the backlog is longer than a page and one event more is
published, so that pruning overtakes a client, pages end and go live, and a stream is cut,
dropped or restarted twice; three sockets for two slots leave one that is only flushed. In
`self_update` two commits allow a failed update, its rollback, another attempt and a rollback by
hand in either direction; a third commit, which need not touch what failed, is left to the proofs,
which have any number. The check of the lock alone needs two keepers; everything else is checked
for one, because with the lock as it is two keepers at work falsify all of it.

Fairness in `event_stream`: a client that has not given up connects again (the loop of
`openStream`), it reads what has arrived, and the gateway's `close` event or heartbeat finds
a closed socket. Faults are bounded; nothing is assumed of the network beyond that.

Fairness in `hosts`. Continuations are weakly fair: the event loop runs them.
Timers (answer timer, SIGKILL timer, exit wait) are strongly fair: a due timer stays due
while continuations run in between. The agent owes nothing: no fairness on answers or on
exits of its own will.

Fairness in `rpc_client`: an armed timeout fires. Nothing is asked of the process or the pipe.

Fairness in `prompt_queue`: a pass that has begun runs to its end unless the process does
(`WF_vars(VisitNext)`). Nothing is assumed of the timer, nor of what users do between its ticks: a
period of two seconds does not make a tick fall into a moment in which a slot is free. What
`NoStarvation` needs of that stands in the property: its hypotheses are that again and again a pass
starts while the user is below the caps, and that from some time on no pass is cut short by an end of
the process. Where direct prompts take every freed slot between two ticks the first does not hold,
and the queued prompt does starve, since `POST prompt` does not look at the queue (section 8).

## 7. What is proved

Assumptions: the ASSUME of each module (the null values are not hosts, threads or buckets, the
bounds are naturals, those of pages, streams, failures and commits and a bucket's period are not
zero, the rows of the initial log fit its bound, the byte counts of lines are naturals and none of these bytes is a line feed,
which JSON escapes), nothing
about sizes or finiteness. Two modules state a hypothesis in their theorems, named below.

`ThreadLifecycleProofs`, hosts. What is proved of hosts is proved of `HostsSpec`, the instance of
`SessionHosts` in `ThreadLifecycle`, and so of everything that implements it. The properties are not
inductive alone: that no second process is spawned follows from what a suspended call waits for.
`HostsInv` adds exactly that. While kills land, a process of a thread that is not its current handle
is listed in `zombies`, and a call past the zombie wait awaits every other process of its thread.
`HostsInvariance` proves it, one step per action; `HostsTyped`, `ZombieSilence` and `LiveHandles`
follow, and hold without `KillsLand`.

`ThreadLifecycleProofs`, threads. `HostsRefined`: the composition implements `SessionHosts`, so
the host theorems carry over (`ProcessUniqueness`, `DyingHostAvoided`, stated of the whole).
`NoTurnLeaks` needs `RowInv`: every streaming row has a listed, non-exiting host, and a pipeline that is not stale
belongs to one; the second part is what lets a pipeline's retry prompt flip a row to streaming.
`DecisionsKept`: only a failing approve or retry reopens a decided thread. `StragglersOnly` and
`TypeCorrect` need `Known`: a queued prompt is for a thread that has a row, so the runner publishes
for no other, and an unanswered send of a pipeline is to a process that runs, so its thread is known.
What remains for a deleted thread is a call, a host or a pipeline, stale ones (`outdated`) included.
That removing a thread's prompts leaves prompts of the others (`WithoutFacts`) is an induction over
the queue. The induction theorems of the library take an operator; `Induction` states the same of a
set of numbers and follows from the least element of what the set lacks.

`PromptQueueProofs`. `RowsAwaited` is not inductive: a conversation may have two rows, and dequeuing
the first ends its wait. `RowInv` adds that such a conversation is marked (`DoublesAreMarked`), since
it was queued again only after its row and its status had gone apart; and that finitely many
conversations have a host, without which a cap would say nothing. A pass has its own invariant
(`PassInv`): whoever has queued work and a slot is still to be visited (`PassCovers`), and until the
first prompt is dequeued the visits go by the oldest rows (`PassOrdered`); together they give
`FirstSlotIsFair`. That no start of a prompt gives a user a slot is `CapsOnlyFill`. What the
queue and the list are built with (`InOrder`) keeps order and loses nothing (`InOrderPlaces`), by
induction over a set of numbers again.

`AgentTurnProofs`. That a gated turn has an abort on its way (`GatedTurnStops`) is not inductive:
`Inv` adds that a prompt still in the pipe carries a number of its own, neither gated nor at work
(`FreshPrompts`), and that a tool event still in the pipe never names the turn of such a prompt
(`LateTools`), so no turn is gated before it begins. `GatedTurnIsDropped` needs the order of the
turns: prompts, the turn at work and the settles in the other pipe carry growing numbers
(`Order`), so while a stopped turn is open it is the next to settle, and the marker that drops
its settle is set (`Marked`); a finished turn is over in every respect (`Done`). The settle that
answers an abort at rest belongs to no turn: in the pipe it stands behind every event of the turns
that were stopped or still can be (`StrayFits`), so it never finds a stopped turn open. `StreamingRowsEnd`
counts: while the row is streaming, one more settle is to come than the marker will swallow, in
the pipe, from the turn at work or from a prompt on its way (`Coming`); and a marker that waits for
a settle not yet sent belongs to the turn at work (`Owned`).

`EventStreamProofs`. `SlotsNeverLeak` is the count of the live sockets against the counter
(`Slots`), through every way a stream ends. `StreamImplementsLog`: a step of the stream is a step
of `EventLog` or none. The invariant is about the blocks that travel to a reader: they are in order,
each row between what the reader has seen and a block is sent before it, pruned or malformed, and
on a live socket they go up to the end of the log (`WireFits`); what a broken connection left in the
parser is the row the reader waits for (`PartialFits`). The hypothesis `NoBlankPage`, no full page
of malformed rows, excludes the page that goes live too early (section 5); the instance of
`event_stream` satisfies it.

`SelfUpdateProofs`. `TypeCorrect` holds whatever keepers do. The four properties of the update cycle
have the hypothesis that no two keepers work at once (`[]LiveHolderBlocks`), which is what the lock
is there for and what the takeover breaks (section 8). Under it `Counted` says which failure a
rollback under way still owes the breaker, and reads the count that state.json holds or, between its
truncation and the write, will hold (`Count`); a death there costs the whole count, any other one
failure (`Lost`). `TreeFits` says what the services run, what is about to listen (`booting`) and what
upstream holds at each step of the worker, for the services of which no restart missed a process
(`Sure`), and `DepsFit` what is installed there. `OneKeeperIsSafe` needs no such
hypothesis: with one keeper all four hold.

`RateLimiterProofs`. `LimiterRefines` maps a missing bucket to an empty debt and a bucket to what it
lacks to be full now. The step that matters is that a sweep drops only buckets whose debt is
zero: their age is over three periods, and a debt is at most one (`TypeOK`). `WindowBounded` is not
inductive: `IInv` adds that what was spent since the observer began is at most the debt plus the
time passed (`SpentIsOwed`), that no bucket was refilled in the future (`RefilledInPast`), and that
the last sweep left no bucket that had been idle for three periods (`SweptBefore`), on which
`MapStaysRecent` rests.

`RpcClientProofs`. `SendsAreTracked` and `ExitReportedOnce` rest on the types of the client's
part (`ClientTyped`) and on each other only, so they hold whatever the decoder does with the bytes.
`BufferBounded`: the byte count is the length of the buffer whatever arrives, and a buffer over the
cap belongs to a process that a line which is not JSON has just put to death (`Counted`).
`FramedExactly` and this need `FramingInv`, which counts from the first byte the process
wrote: `off[k]` is where its `k`-th line ends (`Spans`), `q` how far the gateway has read, `d` how
many lines are complete by then (`Complete`). The wire carries the bytes behind `q`, whatever
happened (`Carries`), so the line feeds left on it count the lines not delivered (`EndsCount`); while
all is well the buffer carries those from the end of line `d` to `q`, and the lines up to `d` were
handled. A step is well only if the one before was and no line it completes is bad; then `Consumed`
is the end of the last complete line (`ConsumedIs`) and `Parsed` the messages of those it completes
(`ParsedIs`). That `InOrder` extends line by line, `Max` and `Min` exist and lines do not
overlap are inductions over a set of numbers (`Induction`). `TypeCorrect` adds that
what push returns are messages of whole lines also behind a bad one (`ParsedTyped`), where the
process still writes and the buffer starts anywhere.

`ThreadViewProofs`. `NoPhantom` needs `IInv`: a tab with nothing in flight that waits
was either told of a run by the last envelope or still has its own request open, and a queued or
refused answer clears the flag only for its own page. `TrustEarned` needs that the two counters
differ exactly after a retry that no review has seen, and that the revision never passes the retries
(`Counted`).

Model-checked only: liveness (`WaitsAreBounded`, `EveryTurnReturns`, `NoStarvation`,
`EverySendSettles`, `EveryoneCatchesUp`), which the prover does not reach, and the three runs that
end in a violation (section 8).

## 8. Where the code and its own statements differ

* `DecisionsStand`. Comments call merged and abandoned terminal and guard two writebacks
  for it; the failure branches of approve and retry are not guarded
  (`gw/app.ts:742-762`, `824-845`). Abandon during the awaited call, then the call
  is rejected, and the thread is `reviewed` again.
* `GatedCanBeApproved`. A comment calls approve the only way to allow a parked gated action
  (`gw/app.ts:723-724`), but the action is parked in the host's memory, and a blocked thread's
  host is reaped like an idle one; approve then answers 409.
* `LiveHolderBlocks`. The keeper's lock refuses a live holder by comment and runbook
  (`src/scripts/self-update.mjs:191`, `src/docs/ops/self-update.md:82`), but `kill(pid, 0)`
  does not throw for a live process and the code goes on to unlink its lock.

Seen while modelling; the models allow each of these, and no run states the opposite.

Threads and the queue.
* The caps are read before an `await` and a host counts once it is spawned, so two turns can pass
  one free slot (`gw/app.ts:573-579`, ADR 0005).
* Delete kills the host so that no orphan event rows appear (`gw/app.ts:536-538`), but a call
  already in flight publishes after it, or spawns a host, and a pipeline publishes its diff without
  asking whether it is stale (`gw/supervisor.ts:788`); `OrphansAreStragglers` says nothing else does.
* A queue row left behind by approve on a queued thread revives a merged thread
  (`gw/app.ts:1111-1115`). The failure of a prompt dequeued before, or of an approve, writes
  *reviewed* over *queued* (`gw/app.ts:1136-1139`): the thread is queued twice in the end, or merged
  and then run.
* Row and status are two writes. Where an enqueue or a dequeue breaks off between them, the thread is
  queued without a row and answers 409 `already_queued` from then on (`gw/app.ts:583-584`,
  `gw/store.ts:502` and `gw/app.ts:1115`, whose throw the catch at 1197 swallows); where an abandon or
  a kill-all does, the row is left and the runner starts an ended thread later (`gw/app.ts:779-791`,
  `895-905`). Such threads are in `parted`.
* Direct prompts that take each slot as it becomes free starve the queue: `POST prompt` looks at the
  caps and not at the queue.
* The runner gives one namespace several slots per pass, although a comment and ADR 0005 speak of
  one (`gw/store.ts:478-479`): its inner loop goes on while there is a slot (`gw/app.ts:1110`).
* Approve and retry ignore a rejection by the agent (`gw/supervisor.ts:397`, `430`). A prompt that the
  agent refuses (`gw/app.ts:638`) leaves its row streaming over a live, idle host until the reaper.
* A merged thread that approve or a failed approve reopened can be merged again, and earns trust twice.

Agent and pipeline.
* Auto-run sends a bare prompt while the drafting turn runs, although replies are "only legal while
  the agent is settled" (`gw/agent-contract.ts:29`, `284`).
* A gated action in a later turn that was queued before the gate stop was cleared sets no abort
  marker (`gw/supervisor.ts:715`).
* A pipeline takes its turn generation when the settle is read, so a settle read after the next
  prompt counts as that prompt's (`gw/supervisor.ts:766`).

Envelopes and the web client.
* Kill-all, merge and the boot recovery write the state column without an envelope
  (`gw/app.ts:869`, `896`, `gw/store.ts:527`): the tab shows the old state, also after a reload, which is why a
  comment asks to publish what is written (`gw/app.ts:743-745`).
* `markReviewed` publishes *reviewed* even when the store refused it for a merged or abandoned
  thread (`gw/supervisor.ts:878-879`), and auto-run publishes *running* without writing the column
  (`gw/agent-contract.ts:317`): its run, without a workspace or a diff, stays RUNNING in the client.
* A refused steer, or a late *queued* answer, sets `waiting` to false while a turn is
  live, against the comment above it (`src/apps/web/lib/use-thread.ts:176-179`, `184-187`).
* After a terminal loss of the stream an accepted prompt leaves `waiting` true, since nothing clears
  it. The `verify_failed` error is cleared at once by the *streaming* envelope behind it.

RPC and rate limit.
* A line that is not JSON ends the connection but does not poison the decoder, and the messages
  parsed before it in the same chunk are lost; on that push the cap is not checked, so the
  buffer may pass it (`gw/rpc.ts:46`), although "a single unterminated line may never exceed" it
  (`gw/rpc.ts:9`).
* A line that is JSON `null` throws out of `handle` (`gw/rpc.ts:142`, called from 112) and of the
  stdout listener; nothing catches it, so the gateway ends (`Crash`).
* `rateLimitPerMin` admits up to twice its number in one minute: a full bucket and its refill
  (`gw/app.ts:191`).

Self update.
* A rollback by hand compares lock files with upstream's, not with those installed, so that
  returning past a lock file that was changed and changed back leaves the wrong dependencies
  (`src/scripts/self-update.mjs:701`).
* A keeper that dies while it writes state.json leaves it truncated (`166-168`); a file that does not
  parse reads as no failures and no known-good commit (`159-165`), so the breaker counts from zero.
* Only a process that listens is found (`288-308`). A gateway launched just before `launchWeb` throws
  (`371-373`, `429-430`) survives the rollback's kill and may answer its health check, which
  the check of survivors (`408-418`) is there to prevent. What
  is checked and proved of the services leaves out those of `missed`.
* A keeper that dies between merge and restart leaves a merged commit that later cycles call up to date.

## 9. Not modelled

Text classification (risk, spec heuristic), authentication, allowlists and the child's
environment are pure admission checks before any modelled step. Metrics, health and the UI
observe. Of the web client's reducer the timeline, the error banner and the usage are folds of the
stream without feedback; of the store, usage, titles, the audit table and the contents of spec
drafts decide nothing that a modelled step does. Dialogs answered automatically write no state.
The gateway's own updater (`gw/updater.ts`) pulls, installs and ends its own process in a
detached shell; what it does to the tree while a keeper works is not modelled.
`PROJECT.json` lists every component with its status.
