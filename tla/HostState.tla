------------------------------ MODULE HostState -----------------------------
(***************************************************************************)
(* What the supervisor keeps of session hosts and of the calls in flight,  *)
(* and what must be true of it.  SessionHosts says how it moves;           *)
(* ThreadLifecycle has the rest of the gateway around it.                  *)
(***************************************************************************)

CONSTANTS
    Threads,     \* conversations
    Hosts,       \* identities of handles and of their child processes
    Calls,       \* supervisor calls (prompt, approve, retry) that may be in flight
    NoHost,      \* no entry in the handle map
    NoThread,    \* a process that serves nobody
    KillsLand    \* a SIGKILLed child exits within the margin of exitOf

ASSUME HostStateAssumption ==
    /\ NoHost \notin Hosts
    /\ NoThread \notin Threads
    /\ KillsLand \in BOOLEAN

VARIABLES
    handles,     \* Supervisor.handles: conversation -> current handle
    proc,        \* the child process of a handle, as the OS sees it
    owner,       \* handle.conversationId
    exiting,     \* handles with handle.exiting set
    zombie,      \* handles with handle.zombie set: their events are dropped
    zombies,     \* Supervisor.zombies: conversation -> unresolved exit promises
    stage,       \* where a call stands
    target,      \* the conversation of a call
    waits,       \* the exits a suspended call awaits
    via          \* the handle a call was sent to

Alive(h) == proc[h] # "none"

-----------------------------------------------------------------------------
\* Never two pi processes on one session file: the replacement of a killed,
\* reaped or crashed host is spawned only when the old process is gone.
\* (supervisor.ts prepareTurn, killChild, reapIdle)
OneProcessPerThread ==
    KillsLand => \A g, h \in Hosts : Alive(g) /\ Alive(h) /\ owner[g] = owner[h] => g = h

\* A process the supervisor no longer lists for its conversation is marked, so
\* a stale child's events never reach the thread - while a listed one is never
\* marked, so a respawned host is never silenced.  (killChild, handleProtocolEvent)
OnlyCurrentSpeaks ==
    \A h \in Hosts : Alive(h) => (h \in zombie <=> handles[owner[h]] # h)

\* The handle map holds only live processes, each under its own conversation:
\* a dead handle left behind would swallow every later turn.  (exit listener)
HandlesAreLive ==
    \A t \in Threads : handles[t] # NoHost => Alive(handles[t]) /\ owner[handles[t]] = t
=============================================================================
