----------------------------- MODULE PromptQueue -----------------------------
(***************************************************************************)
(* The durable prompt queue and its runner, for several users who share    *)
(* the gateway's session hosts.  The routes queue a prompt when a cap is   *)
(* reached; every two seconds the runner walks the users with queued work, *)
(* oldest row first, and starts prompts while the caps allow it.           *)
(*                                                                         *)
(* A pass of the runner is one macrotask: its steps run before anything    *)
(* else but the end of the process, which is the guard AtRest of every     *)
(* other action.  A queue row and the status that goes with it are two     *)
(* writes: a route and the runner may break off between them, because the  *)
(* second write throws or the process ends there.  A thread's status is    *)
(* kept as far as the queue tells it apart, and its host as far as the     *)
(* caps and a prompt's wait for a dying process do (ThreadLifecycle and    *)
(* SessionHosts have the rest).                                            *)
(***************************************************************************)
EXTENDS Naturals, FiniteSets, Sequences, SequencesExt, Functions

CONSTANTS
    Users,       \* namespaces
    Threads,     \* conversations
    OwnerOf,     \* the namespace of a conversation
    MaxRunning,  \* maxRunningHostsPerUser
    MaxHosts,    \* maxSessionHosts
    MaxQueue,    \* bound on the queue's length, of the model only
    NoThread     \* nothing dequeued yet

ASSUME PromptQueueAssumption ==
    /\ OwnerOf \in [Threads -> Users]
    /\ {MaxRunning, MaxHosts, MaxQueue} \subseteq Nat \ {0}
    /\ NoThread \notin Threads

VARIABLES
    queue,     \* prompt_queue by id: the conversation of each row
    status,    \* conversations.status; "open" is draft, running or reviewed,
               \* "closed" merged or abandoned, "deleted" a row that is gone
    host,      \* what the supervisor has for a conversation
    owed,      \* conversations with a prompt suspended in prepareTurn
    todo,      \* namespaces the running pass has still to visit
    taken,     \* the conversation the runner dequeued last, until anything else happens
    parted     \* conversations whose row and status go apart: an approve, a retry or a
               \* failed call wrote the status past the row, or a step broke off

vars == <<queue, status, host, owed, todo, taken, parted>>

Statuses == {"open", "queued", "closed", "deleted"}

\* idle: a host between turns; reaped: asked to exit, still in the handle map;
\* killed: out of the map, its process not yet gone.
HostStates == {"none", "idle", "streaming", "reaped", "killed"}

TypeOK ==
    /\ queue    \in Seq(Threads)
    /\ status   \in [Threads -> Statuses]
    /\ host     \in [Threads -> HostStates]
    /\ owed     \in SUBSET Threads
    /\ todo     \in Seq(Users)
    /\ taken    \in Threads \cup {NoThread}
    /\ parted   \in SUBSET Threads

Init ==
    /\ queue    = <<>>
    /\ status   = [t \in Threads |-> "open"]
    /\ host     = [t \in Threads |-> "none"]
    /\ owed     = {}
    /\ todo     = <<>>
    /\ taken    = NoThread
    /\ parted   = {}

-----------------------------------------------------------------------------
AtRest      == todo = <<>>
Live(t)     == host[t] \in {"idle", "streaming", "reaped"}          \* supervisor.has
Ending(t)   == host[t] \in {"reaped", "killed"}
Present(t)  == status[t] # "deleted"

\* countStreaming of the namespace, and supervisor.runningCount.
Running(u)  == Cardinality({t \in Threads : OwnerOf[t] = u /\ host[t] = "streaming" /\ Present(t)})
HostCount   == Cardinality({t \in Threads : Live(t)})
AtCap(u)    == Running(u) >= MaxRunning \/ HostCount >= MaxHosts

Queued      == Range(queue)
RowsOf(u)   == {i \in DOMAIN queue : OwnerOf[queue[i]] = u}
OldestOf(u) == CHOOSE i \in RowsOf(u) : \A j \in RowsOf(u) : i <= j
Waiting     == {u \in Users : RowsOf(u) # {}}

\* The values of f, a function of some numbers up to n, by growing number.
InOrder(f, n) ==
    LET values[i \in 0 .. n] ==
          IF i = 0 THEN <<>>
          ELSE IF i \in DOMAIN f THEN Append(values[i - 1], f[i]) ELSE values[i - 1]
    IN  values[n]

Rows(ids)   == InOrder([i \in ids |-> queue[i]], Len(queue))
Kept(ts)    == queue                                \* mutant: the rows stay behind
Without(ts) == Rows({i \in DOMAIN queue : queue[i] \notin ts})

\* The turn of a prompt: it starts at once, also on a busy host as a steer; it
\* waits for a dying process; or the spawn fails.
Begins(t) == ~Ending(t) /\ host' = [host EXCEPT ![t] = "streaming"] /\ UNCHANGED owed
Owes(t)   == Ending(t) /\ owed' = owed \cup {t} /\ UNCHANGED host
Fails(t)  == host[t] = "none" /\ UNCHANGED <<host, owed>>

\* The marks of a step that sets row and status of ts apart: a conversation with
\* neither a row nor the status has none.
Mark(ts) == parted' = {t \in parted \cup ts : t \in Range(queue') \/ status'[t] = "queued"}

\* The call of the runner, of approve or of retry fails: the thread is reviewed,
\* a closed one too if it was an execution.
Reviewed(t) ==
    CASE status[t] = "deleted" -> {"deleted"}
      [] status[t] = "closed"  -> {"closed", "open"}
      [] OTHER                 -> {"open"}
Failed(t) ==
    /\ status' \in {[status EXCEPT ![t] = s] : s \in Reviewed(t)}
    /\ Mark({t})

\* The call that started a turn breaks off.  If it was answered before, or was a
\* plain prompt, no status is written; whose it was is left open.
Breaks(t) == Failed(t) \/ UNCHANGED <<status, parted>>

-----------------------------------------------------------------------------
(* Routes *)

Prompt(t) ==
    /\ AtRest
    /\ Present(t)
    /\ Live(t) \/ (status[t] # "queued" /\ ~AtCap(OwnerOf[t]))
    /\ Begins(t) \/ Owes(t) \/ Fails(t)
    /\ taken' = NoThread
    /\ UNCHANGED <<queue, status, todo, parted>>

Enqueue(t) ==
    /\ AtRest
    /\ Present(t)
    /\ ~Live(t)
    /\ status[t] # "queued"
    /\ AtCap(OwnerOf[t])
    /\ Len(queue) < MaxQueue
    /\ queue'  = Append(queue, t)
    /\ \/ status' = [status EXCEPT ![t] = "queued"] /\ UNCHANGED parted
       \/ UNCHANGED status /\ Mark({t})                        \* the status is not written
    /\ taken'  = NoThread
    /\ UNCHANGED <<host, owed, todo>>

\* The runner's and the executions' start of a turn; one that fails, and one that
\* breaks off between its status and the turn, leave the status that was written.
Starts(t) ==
    /\ Begins(t) \/ Owes(t) \/ Fails(t)
    /\ status' = [status EXCEPT ![t] = "open"]
Halts(t) == status' = [status EXCEPT ![t] = "open"] /\ UNCHANGED <<host, owed>>

\* approve and retry: 'running' whatever the status.
Execute(t) ==
    /\ AtRest
    /\ Present(t)
    /\ Live(t) \/ ~AtCap(OwnerOf[t])
    /\ UNCHANGED <<queue, todo>>
    /\ Starts(t) \/ Halts(t)
    /\ Mark({t})
    /\ taken' = NoThread

\* killChild of each thread of ts.
KillHosts(ts) == host' = [t \in Threads |-> IF t \in ts /\ Live(t) THEN "killed" ELSE host[t]]

\* The end of a thread: its status, its host, then its rows in the queue.
Ends(t, final) ==
    /\ AtRest
    /\ Present(t)
    /\ status' = [status EXCEPT ![t] = final]
    /\ KillHosts({t})
    /\ \/ queue' = Without({t}) /\ Mark({})
       \/ UNCHANGED queue /\ Mark({t})                          \* the rows stay
    /\ taken' = NoThread
    /\ UNCHANGED <<owed, todo>>

Delete(t)  == Ends(t, "deleted")
Abandon(t) ==
    \/ Ends(t, "closed")
    \/ /\ AtRest                                     \* it breaks off before the host
       /\ Present(t)
       /\ status' = [status EXCEPT ![t] = "closed"]
       /\ UNCHANGED <<queue, host, owed, todo>>
       /\ Mark({t})
       /\ taken' = NoThread

\* POST kill-all: streaming, blocked and queued threads, each its host and then
\* its status, and the rows of all at last.  A blocked thread's host is at rest,
\* or was reaped.
KillAll(u) ==
    LET mine   == {t \in Threads : OwnerOf[t] = u /\ Present(t)}
        doomed == {t \in mine : host[t] = "streaming" \/ status[t] = "queued"}
        others == {t \in mine : host[t] \in {"idle", "reaped", "none"}}
        Closes(ts) == status' = [t \in Threads |-> IF t \in ts THEN "closed" ELSE status[t]] IN
    /\ AtRest
    /\ \/ \E blocked \in SUBSET others :
             /\ KillHosts(doomed \cup blocked)
             /\ Closes(doomed \cup blocked)
             /\ queue' = Without({t \in Threads : OwnerOf[t] = u})
             /\ Mark({})
       \/ \E done \in SUBSET (doomed \cup others), last \in doomed \cup others :
             /\ KillHosts(done \cup {last})                     \* it breaks off
             /\ Closes(done)
             /\ UNCHANGED queue
             /\ Mark(done)
    /\ taken' = NoThread
    /\ UNCHANGED <<owed, todo>>

\* POST merge leaves the host and the queue alone.
Merge(t) ==
    /\ AtRest
    /\ status[t] = "open"
    /\ status' = [status EXCEPT ![t] = "closed"]
    /\ taken'  = NoThread
    /\ UNCHANGED <<queue, host, owed, todo, parted>>

-----------------------------------------------------------------------------
(* Hosts *)

\* Mutant: the conversation's state gets the status.
TurnEndsReviewed(t) ==
    /\ AtRest
    /\ host[t] = "streaming"
    /\ host'  = [host EXCEPT ![t] = "open"]
    /\ taken' = NoThread
    /\ UNCHANGED <<queue, status, owed, todo, parted>>

\* A turn settles or blocks, and a running thread becomes reviewed; or the agent
\* refuses the prompt or does not answer.
TurnEnds(t) ==
    /\ AtRest
    /\ host[t] = "streaming"
    /\ host'  = [host EXCEPT ![t] = "idle"]
    /\ UNCHANGED <<queue, owed, todo>>
    /\ UNCHANGED <<status, parted>> \/ Failed(t)
    /\ taken' = NoThread

Reap(t) ==
    /\ AtRest
    /\ host[t] \in {"idle", "streaming"}
    /\ host'  = [host EXCEPT ![t] = "reaped"]
    /\ taken' = NoThread
    /\ UNCHANGED <<queue, status, owed, todo, parted>>

Crash(t) ==
    /\ AtRest
    /\ host[t] \in {"idle", "streaming"}
    /\ host'  = [host EXCEPT ![t] = "none"]
    /\ UNCHANGED <<queue, owed, todo>>
    /\ Breaks(t)
    /\ taken' = NoThread

\* The process is gone.  A prompt that waited for it starts, past every cap, or
\* cannot be spawned; what was sent to the old process fails.
HostGone(t) ==
    /\ AtRest
    /\ Ending(t)
    /\ \/ t \in owed /\ host' = [host EXCEPT ![t] = "streaming"]
       \/ host' = [host EXCEPT ![t] = "none"]
    /\ owed'  = owed \ {t}
    /\ UNCHANGED <<queue, todo>>
    /\ Breaks(t)
    /\ taken' = NoThread

\* The process ends, also within a pass.  The queue is durable; hosts and
\* suspended prompts are not.
Restart ==
    /\ host'  = [t \in Threads |-> "none"]
    /\ owed'  = {}
    /\ todo'  = <<>>
    /\ taken' = NoThread
    /\ UNCHANGED <<queue, status, parted>>

-----------------------------------------------------------------------------
(* The runner *)

\* listQueuedNamespaces: the users with queued work by their oldest row.  Mutant:
\* in whatever order GROUP BY returns them.
ListingUnordered == SetToSeq(Waiting)
Listing == InOrder([i \in {OldestOf(u) : u \in Waiting} |-> OwnerOf[queue[i]]], Len(queue))

StartPass ==
    /\ AtRest
    /\ queue # <<>>
    /\ todo'  = Listing
    /\ taken' = NoThread
    /\ UNCHANGED <<queue, status, host, owed, parted>>

\* The inner loop's next prompt, the oldest of the namespace, unless its thread
\* is gone.  A failure is written back as reviewed when the pass is over.  A write
\* that throws ends the pass, with the row gone.
TakeOne(u) ==
    LET i == OldestOf(u)
        t == queue[i] IN
    /\ queue' = Rows(DOMAIN queue \ {i})
    /\ taken' = t
    /\ \/ Present(t) /\ Starts(t) /\ UNCHANGED todo /\ Mark({})
       \/ ~Present(t) /\ UNCHANGED <<status, host, owed, todo>> /\ Mark({})
       \/ Present(t) /\ (Halts(t) \/ UNCHANGED <<status, host, owed>>) /\ todo' = <<>> /\ Mark({t})

Leave ==
    /\ todo'  = Tail(todo)
    /\ UNCHANGED <<queue, status, host, owed, taken, parted>>

VisitNext ==
    /\ ~AtRest
    /\ LET u == Head(todo) IN
          IF RowsOf(u) # {} /\ ~AtCap(u) THEN TakeOne(u) ELSE Leave

-----------------------------------------------------------------------------
Next ==
    \/ \E t \in Threads : Prompt(t) \/ Enqueue(t) \/ Execute(t) \/ Abandon(t) \/ Delete(t) \/ Merge(t)
    \/ \E u \in Users : KillAll(u)
    \/ \E t \in Threads : TurnEnds(t) \/ Reap(t) \/ Crash(t) \/ HostGone(t)
    \/ StartPass \/ VisitNext \/ Restart

Eligible(u) == RowsOf(u) # {} /\ ~AtCap(u)

\* A pass runs to its end, unless the process does.  Nothing is assumed of the
\* ticks, nor of what the users do between them.
Fairness == WF_vars(VisitNext)

Spec     == Init /\ [][Next]_vars
FairSpec == Spec /\ Fairness

-----------------------------------------------------------------------------
(* Properties *)

\* Rows and queued threads agree: a thread that refuses prompts because one is
\* queued has one, and the runner starts no thread that was abandoned, merged,
\* killed or deleted.  It holds of every thread but those an approve, a retry or
\* the failure of an earlier call wrote the status of past the row, and those a
\* step broke off at: a row without the status is started by a later pass, and
\* the status without a row keeps refusing prompts.
\* (409 already_queued, abandonThread, kill-all, deleteQueuedForConversation)
RowsAreAwaited == \A t \in Threads \ parted : status[t] = "queued" <=> t \in Queued

\* The first prompt a pass dequeues is the oldest of all whose user is below the
\* caps: a user with many tasks does not overtake an older one of another user.
\* (listQueuedNamespaces' order; later slots of the pass may go to younger ones)
FirstSlotToOldest ==
    [][taken = NoThread /\ taken' # NoThread =>
          \A u \in Users : Eligible(u) => OldestOf(OwnerOf[taken']) <= OldestOf(u)]_vars

\* However many prompts others queue meanwhile, a queued prompt is dequeued at
\* last if again and again a tick finds its user below the caps and from some
\* time on no pass is cut short by the end of the process.  (the queue runner:
\* what direct prompts leave of the slots is shared out by age)
NoStarvation ==
    \A t \in Threads :
        /\ []<><<StartPass /\ ~AtCap(OwnerOf[t])>>_vars
        /\ <>[][~AtRest => VisitNext]_vars
        => []<>(t \notin Queued \/ taken = t)
=============================================================================
