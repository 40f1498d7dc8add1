---------------------------- MODULE SessionHosts ----------------------------
(***************************************************************************)
(* The supervisor's session hosts: one pi child process per conversation,  *)
(* spawned on demand by a turn, reaped when idle, killed by the lifecycle  *)
(* routes, and replaced by the next turn once the old process is gone.     *)
(*                                                                         *)
(* The gateway is one Node process.  A step is what one macrotask (a route *)
(* up to its first await, a timer, a child's exit event) does without      *)
(* yielding, or one promise continuation; continuations run before the     *)
(* next macrotask, which is what the guard Idle states.                    *)
(*                                                                         *)
(* Host identities are recycled: a spawn takes any identity whose process  *)
(* is gone and which no in-flight call still names.                        *)
(***************************************************************************)
EXTENDS HostState

hostVars == <<handles, proc, owner, exiting, zombie, zombies>>
callVars == <<stage, target, waits, via>>
vars     == <<hostVars, callVars>>

ProcStates == {"none", "up", "term", "kill"}    \* term, kill: SIGTERM, SIGKILL sent
Stages     == {"free", "zombies", "exit", "sent", "replied", "failed"}

TypeOK ==
    /\ handles \in [Threads -> Hosts \cup {NoHost}]
    /\ proc    \in [Hosts -> ProcStates]
    /\ owner   \in [Hosts -> Threads \cup {NoThread}]
    /\ exiting \in SUBSET Hosts
    /\ zombie  \in SUBSET Hosts
    /\ zombies \in [Threads -> SUBSET Hosts]
    /\ stage   \in [Calls -> Stages]
    /\ target  \in [Calls -> Threads \cup {NoThread}]
    /\ waits   \in [Calls -> SUBSET Hosts]
    /\ via     \in [Calls -> Hosts \cup {NoHost}]

Init ==
    /\ handles = [t \in Threads |-> NoHost]
    /\ proc    = [h \in Hosts |-> "none"]
    /\ owner   = [h \in Hosts |-> NoThread]
    /\ exiting = {}
    /\ zombie  = {}
    /\ zombies = [t \in Threads |-> {}]
    /\ stage   = [c \in Calls |-> "free"]
    /\ target  = [c \in Calls |-> NoThread]
    /\ waits   = [c \in Calls |-> {}]
    /\ via     = [c \in Calls |-> NoHost]

-----------------------------------------------------------------------------
Current(h) == \E t \in Threads : handles[t] = h
Waiting(c) == stage[c] \in {"zombies", "exit"}

\* Promise continuations the event loop owes: every await of the call is settled.
Unawaited(c)    == Waiting(c)                 \* mutant: the exits are not awaited
Resumable(c)    == Waiting(c) /\ waits[c] = {}
Continuation(c) == Resumable(c) \/ stage[c] \in {"replied", "failed"}
Idle            == \A c \in Calls : ~Continuation(c)

\* One stdout chunk may carry several messages of h; the continuation of a
\* reply runs only after the whole chunk was dispatched.
ChunkOf(h) == \A c \in Calls : Continuation(c) => stage[c] = "replied" /\ via[c] = h

Fresh(h) == ~Alive(h) /\ \A c \in Calls : via[c] # h

-----------------------------------------------------------------------------
(* Turns: prompt, approveExecution and retryExecution up to the rpc answer. *)

\* ensureSession: reuse the conversation's handle, or spawn one.
EnsureSession(t, h) ==
    /\ \/ /\ handles[t] = h
          /\ UNCHANGED <<handles, proc, owner>>
       \/ /\ handles[t] = NoHost
          /\ Fresh(h)
          /\ handles' = [handles EXCEPT ![t] = h]
          /\ proc'    = [proc EXCEPT ![h] = "up"]
          /\ owner'   = [owner EXCEPT ![h] = t]
    /\ UNCHANGED <<exiting, zombie, zombies>>

\* The rest of prepareTurn.  The command is written and its answer awaited,
\* or written without awaiting (a draft execution's contract.reply); a spawn
\* that throws (scratch directory, exec) rejects the call.
RunTurn(c, t) ==
    /\ waits' = [waits EXCEPT ![c] = {}]
    /\ \/ \E h \in Hosts :
            /\ EnsureSession(t, h)
            /\ \/ /\ stage'  = [stage EXCEPT ![c] = "sent"]
                  /\ target' = [target EXCEPT ![c] = t]
                  /\ via'    = [via EXCEPT ![c] = h]
               \/ /\ stage'  = [stage EXCEPT ![c] = "free"]
                  /\ target' = [target EXCEPT ![c] = NoThread]
                  /\ UNCHANGED via
       \/ /\ handles[t] = NoHost
          /\ stage'  = [stage EXCEPT ![c] = "failed"]
          /\ target' = [target EXCEPT ![c] = t]
          /\ UNCHANGED <<hostVars, via>>

Suspend(c, t, s, hs) ==
    /\ stage'  = [stage EXCEPT ![c] = s]
    /\ target' = [target EXCEPT ![c] = t]
    /\ waits'  = [waits EXCEPT ![c] = hs]
    /\ UNCHANGED <<hostVars, via>>

\* prepareTurn past the zombies: an idle-reaped host is waited for as well.
AwaitReaped(c, t) ==
    IF handles[t] \in exiting
    THEN Suspend(c, t, "exit", {handles[t]})
    ELSE RunTurn(c, t)

BeginTurn(c, t) ==
    /\ Idle
    /\ stage[c] = "free"
    /\ IF zombies[t] # {}
       THEN Suspend(c, t, "zombies", zombies[t])
       ELSE AwaitReaped(c, t)

Resume(c) ==
    /\ Resumable(c)
    /\ IF stage[c] = "zombies"
       THEN AwaitReaped(c, target[c])
       ELSE RunTurn(c, target[c])

\* The child answers the command.  A dying or killed child's answer still
\* resolves its promise: only its events are dropped.
Reply(c) ==
    /\ stage[c] = "sent"
    /\ ChunkOf(via[c])
    /\ stage' = [stage EXCEPT ![c] = "replied"]
    /\ UNCHANGED <<hostVars, target, waits, via>>

\* Mutant: no timer, only the exit of the child rejects the command.
RpcUntimed(c) == stage[c] = "sent" /\ ~Alive(via[c]) /\ UNCHANGED vars

\* The 10 s rpc timer rejects an unanswered command.
RpcTimeout(c) ==
    /\ Idle
    /\ stage[c] = "sent"
    /\ stage' = [stage EXCEPT ![c] = "failed"]
    /\ UNCHANGED <<hostVars, target, waits, via>>

\* The route's continuation after the call returned or threw.
Finish(c) ==
    /\ stage[c] \in {"replied", "failed"}
    /\ stage'  = [stage EXCEPT ![c] = "free"]
    /\ target' = [target EXCEPT ![c] = NoThread]
    /\ via'    = [via EXCEPT ![c] = NoHost]
    /\ UNCHANGED <<hostVars, waits>>

-----------------------------------------------------------------------------
(* Stopping hosts. *)

\* pending sends of a torn-down rpc client reject together.
RejectPending(h) ==
    stage' = [c \in Calls |-> IF stage[c] = "sent" /\ via[c] = h THEN "failed" ELSE stage[c]]

Terminate(p) == IF p = "up" THEN "term" ELSE p

\* The handles killChild finds.
Killed(ts) == {handles[t] : t \in ts} \ {NoHost}

\* killChild for each conversation of ts: forget the handle before the kill,
\* remember its exit promise.
KillChildren(ts) ==
    LET hs == Killed(ts) IN
    /\ handles' = [t \in Threads |-> IF t \in ts THEN NoHost ELSE handles[t]]
    /\ exiting' = exiting \cup hs
    /\ zombie'  = zombie \cup hs
    /\ zombies' = [t \in Threads |-> IF t \in ts THEN zombies[t] \cup Killed({t}) ELSE zombies[t]]
    /\ proc'    = [h \in Hosts |-> IF h \in hs THEN Terminate(proc[h]) ELSE proc[h]]
    /\ UNCHANGED owner

\* abandon and delete kill one child, kill-all several in one step.
Kill(ts) ==
    /\ Idle
    /\ KillChildren(ts)
    /\ UNCHANGED callVars

\* reapIdle: every live host past its idle time, in one sweep; each keeps its
\* handle until its exit event.
Reap(hs) ==
    /\ Idle
    /\ hs # {}
    /\ \A h \in hs : Current(h) /\ h \notin exiting
    /\ exiting' = exiting \cup hs
    /\ proc'    = [h \in Hosts |-> IF h \in hs THEN Terminate(proc[h]) ELSE proc[h]]
    /\ UNCHANGED <<handles, owner, zombie, zombies, callVars>>

\* sigtermWithEscalation's timer; armed by killChild and reapIdle only.
Escalate(h) ==
    /\ Idle
    /\ h \in exiting
    /\ proc[h] = "term"
    /\ proc' = [proc EXCEPT ![h] = "kill"]
    /\ UNCHANGED <<handles, owner, exiting, zombie, zombies, callVars>>

\* rpc.failFatal: a record past the decoder cap.  SIGTERM without the
\* escalation, and the handle stays registered until the exit event.
Overflow(h) ==
    /\ ChunkOf(h)
    /\ proc[h] \in {"up", "term"}
    /\ proc' = [proc EXCEPT ![h] = "term"]
    /\ RejectPending(h)
    /\ UNCHANGED <<handles, owner, exiting, zombie, zombies, target, waits, via>>

\* The exit listener deletes the handle if it is still the current one.  Mutants:
\* without the identity check, or after the early return of expected exits.
ForgetOwner(h)      == [t \in Threads |-> IF owner[h] = t THEN NoHost ELSE handles[t]]
ForgetUnexpected(h) == [t \in Threads |-> IF handles[t] = h /\ h \notin exiting THEN NoHost
                                                                           ELSE handles[t]]
Forget(h)           == [t \in Threads |-> IF handles[t] = h THEN NoHost ELSE handles[t]]

\* The child's exit event, expected or a crash: the rpc client rejects its
\* pending sends, the exit listener runs, and the exit promises resolve.
Exit(h) ==
    /\ Idle
    /\ Alive(h)
    /\ proc'    = [proc EXCEPT ![h] = "none"]
    /\ owner'   = [owner EXCEPT ![h] = NoThread]
    /\ handles' = Forget(h)
    /\ zombies' = [t \in Threads |-> zombies[t] \ {h}]
    /\ exiting' = exiting \ {h}
    /\ zombie'  = zombie \ {h}
    /\ RejectPending(h)
    /\ waits'   = [c \in Calls |-> waits[c] \ {h}]
    /\ UNCHANGED <<target, via>>

\* exitOf's bound (kill grace + margin) elapses, after the SIGKILL was sent,
\* while the process lingers: the promise of killChild ...
ZombieWaitElapsed(t, h) ==
    /\ Idle
    /\ ~KillsLand
    /\ h \in zombies[t]
    /\ proc[h] = "kill"
    /\ zombies' = [zombies EXCEPT ![t] = @ \ {h}]
    /\ waits'   = [c \in Calls |-> IF stage[c] = "zombies" THEN waits[c] \ {h} ELSE waits[c]]
    /\ UNCHANGED <<handles, proc, owner, exiting, zombie, stage, target, via>>

\* Mutant: the wait has no bound, only the exit event resolves it.
ExitWaitUnbounded(c, h) == stage[c] = "exit" /\ h \in waits[c] /\ ~Alive(h) /\ UNCHANGED vars

\* ... or the one a call waiting for a reaped host created for itself.
ExitWaitElapsed(c, h) ==
    /\ Idle
    /\ ~KillsLand
    /\ stage[c] = "exit"
    /\ h \in waits[c]
    /\ proc[h] = "kill"
    /\ waits' = [waits EXCEPT ![c] = @ \ {h}]
    /\ UNCHANGED <<hostVars, stage, target, via>>

\* The gateway process ends and starts again: its children end with it, and
\* the new process has no handle and owes no answer.
Restart ==
    /\ handles' = [t \in Threads |-> NoHost]
    /\ proc'    = [h \in Hosts |-> "none"]
    /\ owner'   = [h \in Hosts |-> NoThread]
    /\ exiting' = {}
    /\ zombie'  = {}
    /\ zombies' = [t \in Threads |-> {}]
    /\ stage'   = [c \in Calls |-> "free"]
    /\ target'  = [c \in Calls |-> NoThread]
    /\ waits'   = [c \in Calls |-> {}]
    /\ via'     = [c \in Calls |-> NoHost]

-----------------------------------------------------------------------------
Next ==
    \/ \E c \in Calls, t \in Threads : BeginTurn(c, t)
    \/ \E c \in Calls : Resume(c) \/ Reply(c) \/ RpcTimeout(c) \/ Finish(c)
    \/ \E ts \in SUBSET Threads : Kill(ts)
    \/ \E hs \in SUBSET Hosts : Reap(hs)
    \/ \E h \in Hosts : Escalate(h) \/ Overflow(h) \/ Exit(h)
    \/ \E t \in Threads, h \in Hosts : ZombieWaitElapsed(t, h)
    \/ \E c \in Calls, h \in Hosts : ExitWaitElapsed(c, h)
    \/ Restart

\* The event loop runs every continuation.  A due timer or a pending exit event
\* keeps its place while continuations run in between, hence strong fairness
\* for them; the kernel delivers SIGKILL (perhaps never without KillsLand).
Fairness ==
    /\ \A c \in Calls : WF_vars(Resume(c)) /\ WF_vars(Finish(c)) /\ SF_vars(RpcTimeout(c))
    /\ \A h \in Hosts : SF_vars(Escalate(h))
    /\ KillsLand => \A h \in Hosts : SF_vars(proc[h] = "kill" /\ Exit(h))
    /\ \A t \in Threads, h \in Hosts : SF_vars(ZombieWaitElapsed(t, h))
    /\ \A c \in Calls, h \in Hosts : SF_vars(ExitWaitElapsed(c, h))

Spec     == Init /\ [][Next]_vars
FairSpec == Spec /\ Fairness

-----------------------------------------------------------------------------
(* Properties *)

\* No turn is written into a child that is already being torn down.
\* (prepareTurn's wait for an exiting handle, supervisor.ts:361)
TurnAvoidsDyingHost ==
    [][KillsLand => \A c \in Calls :
          stage[c] # "sent" /\ stage'[c] = "sent" => via'[c] \notin exiting']_vars

\* The exit wait is bounded: a child that survives every signal cannot hang
\* the turns that wait for it.  (exitOf)
WaitsAreBounded == \A c \in Calls : waits[c] # {} ~> waits[c] = {}

\* Every turn is answered: accepted, rejected or failed.
EveryTurnReturns == \A c \in Calls : stage[c] # "free" ~> stage[c] = "free"
=============================================================================
