------------------------------ MODULE ThreadView ------------------------------
(***************************************************************************)
(* One thread as its row, its published envelopes and a browser tab have   *)
(* it: the routes and the host write the row and publish; the tab reduces  *)
(* the stream (useThread, applyEnvelope) and sets its waiting flag itself  *)
(* around the requests it makes.  The retry and review counters of the row *)
(* and the trust they earn are here too.                                   *)
(*                                                                         *)
(* The stream delivers every envelope once and in order, and a tab opened  *)
(* anew replays the log (EventStream).  So of what the tab holds only the  *)
(* waiting flag, which it also sets by itself, can differ from the log: the*)
(* rest of its state is a fold of the stream.  Of the envelopes on their   *)
(* way only whether a session_state says streaming is kept; the spec_status*)
(* envelopes, which no property reads, are left out.                       *)
(*                                                                         *)
(* A host comes and goes in one step (SessionHosts), and whether a cap, a  *)
(* limit or a missing spec refuses a request, and what the pipeline's tools*)
(* answer, is left open.  Where the code publishes the same envelope twice *)
(* in a row there is one here.  Of the tab's prompts one is unanswered at a*)
(* time, and of the other calls one.                                       *)
(***************************************************************************)
EXTENDS Naturals, Sequences

CONSTANTS
    MaxFlight,     \* bound on the session_states on their way to the tab, of the model only
    MaxRetries,    \* bound on POST retry, of the model only
    MaxTrust       \* bound on the trust the thread earns, of the model only

ASSUME ThreadViewAssumption == {MaxFlight, MaxRetries, MaxTrust} \subseteq Nat

VARIABLES
    status, state,           \* columns of the conversation
    retries, revision,       \* retry_count and reviewed_revision
    trust,                   \* merged_without_revision of the namespace
    row,                     \* the thread has a row in prompt_queue
    host,                    \* "none", "idle", "turn", "turns": the next has begun before
                             \* the settle of the last was read, "gated": with a gate stop
    checking,                \* a post-turn pipeline that is not stale
    owed,                    \* the host owes the stats, or the pipeline an answer to its retry
    call,                    \* an execution (approve, retry) or a queued prompt that awaits
    shown,                   \* the last session_state of the log
    flight,                  \* session_states the tab has not received: is it streaming
    waiting,                 \* ThreadState.waiting of the tab
    connected,               \* its stream is not lost
    ask,                     \* POST prompt of the tab, as far as it has come
    asking,                  \* the tab waits for its answer
    retried                  \* history: a retry since the pipeline's last review

stateVars  == <<state, shown, flight>>
counters   == <<retries, revision, trust, retried>>
hostVars   == <<host, checking, owed, call>>
tabVars    == <<waiting, connected, ask, asking>>
vars       == <<status, stateVars, counters, row, hostVars, tabVars>>

Statuses == {"draft", "queued", "running", "reviewed", "merged", "abandoned"}
States   == {"idle", "streaming", "blocked", "degraded"}
Terminal == {"merged", "abandoned"}

TypeOK ==
    /\ status \in Statuses
    /\ state  \in States
    /\ {retries, revision} \subseteq 0 .. MaxRetries
    /\ trust \in 0 .. MaxTrust
    /\ {row, checking, owed, retried, waiting, connected, asking} \subseteq BOOLEAN
    /\ host   \in {"none", "idle", "turn", "turns", "gated"}
    /\ call   \in {<<>>} \cup {"execution", "queued"} \X {"before", "sent"}
    /\ shown  \in States
    /\ flight \in Seq({"streaming", "other"}) /\ Len(flight) <= MaxFlight
    /\ ask    \in {"none", "posted", "sent", "queued", "refused"}

Init ==
    /\ status = "draft" /\ state = "idle"
    /\ retries = 0 /\ revision = 0 /\ trust = 0
    /\ row = FALSE
    /\ host = "none" /\ checking = FALSE /\ owed = FALSE /\ call = <<>>
    /\ shown = "idle" /\ flight = <<>>
    /\ waiting = FALSE /\ connected = TRUE
    /\ ask = "none" /\ asking = FALSE
    /\ retried = FALSE

-----------------------------------------------------------------------------
(* Envelopes *)

\* setConversationState and its session_state envelope.
SetState(s) ==
    /\ Len(flight) < MaxFlight
    /\ state'  = s
    /\ shown'  = s
    /\ flight' = IF connected THEN Append(flight, IF s = "streaming" THEN s ELSE "other") ELSE flight

\* The column alone.
SetStateSilently(s) ==
    /\ state' = s
    /\ UNCHANGED <<shown, flight>>

-----------------------------------------------------------------------------
(* POST prompt *)

\* A prompt of a turn in flight joins it, or the turn has ended and the settle
\* is still to be read.
Begun(h) == IF h \in {"turn", "turns"} THEN {h, "turns"} ELSE {"turn"}

\* prepareTurn, on a host that is there or is spawned; a pipeline of an earlier
\* turn is stale from here.
Begin == host' \in Begun(host) /\ checking' = FALSE /\ SetState("streaming")

AskOnly == UNCHANGED <<counters, row, owed, call, waiting, connected, asking>>

PromptQueued ==
    /\ ask = "posted"
    /\ host = "none" /\ status # "queued"
    /\ row'    = TRUE
    /\ status' = "queued"
    /\ ask'    = "queued"
    /\ UNCHANGED <<stateVars, counters, hostVars, waiting, connected, asking>>

PromptBegins ==
    /\ ask = "posted"
    /\ Begin
    /\ ask' = "sent"
    /\ AskOnly
    /\ UNCHANGED status

\* The route or the agent refuses; or the agent does not answer, or no host can
\* be spawned, which degrades the thread.
PromptFails ==
    /\ ask \in {"posted", "sent"}
    /\ SetState("degraded") \/ UNCHANGED stateVars
    /\ ask' = "refused"
    /\ AskOnly
    /\ UNCHANGED <<status, host, checking>>

-----------------------------------------------------------------------------
(* POST approve and retry, and the queue runner *)

\* The status is written and the retry counted before the supervisor is called.
Approve ==
    /\ call = <<>>
    /\ status' = "running"
    /\ call'   = <<"execution", "before">>
    /\ UNCHANGED <<stateVars, counters, row, host, checking, owed, tabVars>>

Retry ==
    /\ call = <<>>
    /\ retries < MaxRetries
    /\ retries' = retries + 1
    /\ retried' = TRUE
    /\ status'  = "running"
    /\ call'    = <<"execution", "before">>
    /\ UNCHANGED <<stateVars, revision, trust, row, host, checking, owed, tabVars>>

\* The runner takes the thread's prompt, whatever became of the thread.
Dequeue ==
    /\ row
    /\ call = <<>>
    /\ row'    = FALSE
    /\ status' = "running"
    /\ call'   = <<"queued", "before">>
    /\ UNCHANGED <<stateVars, counters, host, checking, owed, tabVars>>

CallOnly == UNCHANGED <<counters, row, owed, tabVars>>

\* The supervisor's part.  With a drafted spec, approve and retry do not wait
\* for the agent's answer.
CallBegins ==
    /\ call # <<>> /\ call[2] = "before"
    /\ Begin
    /\ \/ call' = <<call[1], "sent">>
       \/ call[1] # "queued" /\ call' = <<>>
    /\ CallOnly
    /\ UNCHANGED status

CallAnswered ==
    /\ call # <<>> /\ call[2] = "sent"
    /\ call' = <<>>
    /\ CallOnly
    /\ UNCHANGED <<stateVars, status, host, checking>>

\* A failed execution is reviewed, whatever the thread has become; so is a
\* queued prompt, refused or failed, unless the thread is terminal.
CallFails ==
    /\ call # <<>>
    /\ call' = <<>>
    /\ \/ /\ call[1] = "queued" /\ status \in Terminal
          /\ UNCHANGED <<stateVars, status>>
       \/ /\ call[1] # "queued" \/ status \notin Terminal
          /\ SetState("degraded")
          /\ status' = "reviewed"
    /\ CallOnly
    /\ UNCHANGED <<host, checking>>

-----------------------------------------------------------------------------
(* The user's decisions *)

KillHost == host' = "none" /\ checking' = FALSE /\ owed' = FALSE

Landed == IF state \in {"streaming", "blocked"} THEN "idle" ELSE state

\* abandonThread's landing.
Land == IF Landed # state THEN SetState(Landed) ELSE UNCHANGED stateVars

Abandon ==
    /\ status' = "abandoned"
    /\ row' = FALSE
    /\ Land
    /\ KillHost
    /\ UNCHANGED <<counters, call, tabVars>>

\* POST kill-all publishes no session_state, and drops queued work in any case.
KillAll ==
    /\ row' = FALSE
    /\ \/ /\ state \in {"streaming", "blocked"} \/ status = "queued"
          /\ status' = "abandoned"
          /\ SetStateSilently("idle")
          /\ KillHost
       \/ /\ state \notin {"streaming", "blocked"} /\ status # "queued"
          /\ UNCHANGED <<stateVars, status, host, checking, owed>>
    /\ UNCHANGED <<counters, call, tabVars>>

\* isMergedWithoutRevision and recordMergedWithoutRevision.
Merge ==
    /\ status = "reviewed"
    /\ trust < MaxTrust
    /\ status' = "merged"
    /\ SetStateSilently("idle")
    /\ trust'  = IF retries = revision THEN trust + 1 ELSE trust
    /\ UNCHANGED <<retries, revision, retried, row, hostVars, tabVars>>

-----------------------------------------------------------------------------
(* The host *)

HostOnly == UNCHANGED <<retries, trust, row, call, tabVars>>
NoReview == UNCHANGED <<status, revision, retried>>

InTurn == host \in {"turn", "turns", "gated"}

\* A spec signal of the agent; an execution, or a question too many, the
\* contract replies to.
Announce ==
    /\ InTurn
    /\ \/ (SetState("streaming") \/ UNCHANGED stateVars) /\ UNCHANGED host
       \/ SetState("streaming") /\ host' \in Begun(host)
    /\ HostOnly /\ NoReview
    /\ UNCHANGED <<checking, owed>>

\* PATCH spec reaches the agent as a prompt.
SpecPatch ==
    /\ host # "none"
    /\ SetState("streaming")
    /\ host' \in IF host = "gated" THEN {host} ELSE Begun(host)
    /\ HostOnly /\ NoReview
    /\ UNCHANGED <<checking, owed>>

\* A gated action, or a dialog that is escalated.
Block ==
    /\ InTurn
    /\ SetState("blocked")
    /\ host' \in {host, "gated"}
    /\ HostOnly /\ NoReview
    /\ UNCHANGED <<checking, owed>>

SnapshotNot == UNCHANGED revision                                    \* mutant
Snapshot    == revision' = retries

\* markReviewed: a decision of the user stands.
MarkReviewed ==
    IF status \in Terminal
    THEN NoReview
    ELSE status' = "reviewed" /\ Snapshot /\ retried' = FALSE

SettleRunning == IF status = "running" THEN MarkReviewed ELSE NoReview

\* agent_settled; without a workspace the pipeline ends at once, and it does
\* not begin during an interview.
Settle ==
    /\ host \in {"turn", "turns"}
    /\ host' = IF host = "turns" THEN "turn" ELSE "idle"
    /\ SetState("idle")
    /\ owed' = TRUE
    /\ \/ SettleRunning /\ UNCHANGED checking
       \/ NoReview /\ checking' \in {checking, TRUE}
    /\ HostOnly

\* The settle of an aborted run is dropped.
GateSettle ==
    /\ host = "gated"
    /\ host' = "idle"
    /\ HostOnly /\ NoReview
    /\ UNCHANGED <<stateVars, checking, owed>>

\* The pipeline: reviewed with a diff, settled without, a retry prompt, or a
\* failure of its tools.
PipelineEnds ==
    /\ checking
    /\ checking' = FALSE
    /\ \/ (MarkReviewed \/ SettleRunning) /\ UNCHANGED <<stateVars, host, owed>>
       \/ SetState("streaming") /\ host' \in Begun(host) /\ owed' = TRUE /\ NoReview
       \/ NoReview /\ UNCHANGED <<stateVars, host, owed>>
    /\ HostOnly

\* The stats over the cost cap block the thread; a refused retry degrades it.
Late ==
    /\ owed
    /\ owed' = FALSE
    /\ SetState("blocked") \/ SetState("degraded") \/ UNCHANGED stateVars
    /\ HostOnly /\ NoReview
    /\ UNCHANGED <<host, checking>>

\* A crash, or an idle reap: of a turn it is published alike.
HostEnds ==
    /\ host # "none"
    /\ KillHost
    /\ \/ SetState("degraded")
       \/ state # "streaming" /\ UNCHANGED stateVars
    /\ HostOnly /\ NoReview

\* markStaleStreamingDegraded at boot publishes nothing; requests break off.
Restart ==
    /\ SetStateSilently(IF state = "streaming" THEN "degraded" ELSE state)
    /\ KillHost
    /\ call' = <<>>
    /\ ask'  = IF ask \in {"posted", "sent"} THEN "refused" ELSE ask
    /\ UNCHANGED <<status, counters, row, waiting, connected, asking>>

-----------------------------------------------------------------------------
(* The tab *)

TabOnly == UNCHANGED <<state, shown, status, counters, row, hostVars>>

\* applyEnvelope of a session_state.
Receive ==
    /\ flight # <<>>
    /\ waiting' = (Head(flight) = "streaming")
    /\ flight'  = Tail(flight)
    /\ TabOnly
    /\ UNCHANGED <<connected, ask, asking>>

\* ask, and the answer to its POST.
Ask ==
    /\ ask = "none"
    /\ ask'     = "posted"
    /\ asking'  = TRUE
    /\ waiting' = TRUE
    /\ TabOnly
    /\ UNCHANGED <<flight, connected>>

ClearsRefused(a) == a = "refused"                                    \* mutant
Clears(a)        == a \in {"queued", "refused"}

Answer ==
    /\ ask \in {"sent", "queued", "refused"}
    /\ ask'     = "none"
    /\ asking'  = FALSE
    /\ waiting' = (waiting /\ ~(asking /\ Clears(ask)))
    /\ TabOnly
    /\ UNCHANGED <<flight, connected>>

\* A POST abort that succeeds.
Stop ==
    /\ waiting
    /\ waiting' = FALSE
    /\ TabOnly
    /\ UNCHANGED <<flight, connected, ask, asking>>

\* onLost: no more updates until the page is opened again.
Lost ==
    /\ connected
    /\ connected' = FALSE
    /\ flight'    = <<>>
    /\ waiting'   = FALSE
    /\ TabOnly
    /\ UNCHANGED <<ask, asking>>

\* A clean slate and a replay; answers to the old page are nobody's.
Reload ==
    /\ connected' = TRUE
    /\ flight'    = <<>>
    /\ waiting'   = (shown = "streaming")
    /\ asking'    = FALSE
    /\ TabOnly
    /\ UNCHANGED ask

Next ==
    \/ PromptQueued \/ PromptBegins \/ PromptFails
    \/ Approve \/ Retry \/ Dequeue \/ CallBegins \/ CallAnswered \/ CallFails
    \/ Abandon \/ KillAll \/ Merge
    \/ Announce \/ SpecPatch \/ Block \/ Settle \/ GateSettle \/ PipelineEnds \/ Late
    \/ HostEnds \/ Restart
    \/ Receive \/ Ask \/ Answer \/ Stop \/ Lost \/ Reload

Spec == Init /\ [][Next]_vars

-----------------------------------------------------------------------------
(* Properties *)

\* A tab that has received everything and waits for no answer shows a run in
\* flight only if a replay would: what it set itself before a request does not
\* outlive it, however answers and envelopes overtake each other.  The log, not
\* the row, is what it is held to: kill-all, merge and a restart write the row
\* and publish no state.  (ask, stop, applyEnvelope)
CaughtUp     == connected /\ flight = <<>> /\ ~asking
NoPhantomRun == CaughtUp /\ waiting => shown = "streaming"

\* A merge counts as one without revision exactly if nobody retried since the
\* pipeline reviewed the thread, however late the retry's turn begins, settles or
\* fails.  (incrementRetryCount, markThreadReviewedById, isMergedWithoutRevision)
TrustIffUnrevised == [][Merge => (trust' = trust + 1 <=> ~retried)]_vars
=============================================================================
