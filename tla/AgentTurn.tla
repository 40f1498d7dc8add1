------------------------------ MODULE AgentTurn ------------------------------
(***************************************************************************)
(* One conversation's agent turns: the contract of its session host        *)
(* (interview, gate, approval), the settle of a turn, the post-turn        *)
(* pipeline with its retry prompts, and the two pipes to the agent.        *)
(*                                                                         *)
(* Commands and events are delivered in order, so an event can be in the   *)
(* pipe when the user acts, and a command when the agent does.  Hosts come *)
(* and go in one step here (SessionHosts has the time in between), and the *)
(* thread's status is left to ThreadLifecycle.  A turn is known by the     *)
(* number of the prompt that started it; the gateway never sees it.        *)
(***************************************************************************)
EXTENDS Naturals, Sequences

CONSTANTS
    Reasons,     \* classes of gated actions (ActionVerdict.reason)
    MaxRounds,   \* maxSpecRounds: the question budget
    Retries,     \* verify.retries
    MaxTurns,    \* bound on the prompts sent, of the model only
    MaxPipe      \* bound on what is in the two pipes when more is begun, of the model only

ASSUME AgentTurnAssumption == {MaxRounds, Retries, MaxTurns, MaxPipe} \subseteq Nat

VARIABLES
    live,        \* the conversation has a session host
    host,        \* its contract and handle fields
    state,       \* conversations.state; a blocked row by the reason published with it
    spec,        \* a spec draft is stored
    prompted,    \* a last prompt is stored
    checking,    \* turns with a post-turn pipeline in flight that is not stale; 0: of a stray
    input,       \* commands the agent has not read
    output,      \* events the gateway has not handled
    turn,        \* the agent's turn, 0 when it is settled
    sent,        \* number of prompts sent
    gated,       \* history: turns that reached for a gated action
    stopped,     \* history: the ones of them that raised the gate stop
    finished     \* history: turns whose settle made the row idle

gatewayVars == <<live, host, state, spec, prompted, checking>>
historyVars == <<gated, stopped, finished>>
vars == <<gatewayVars, input, output, turn, sent, historyVars>>

States == {"idle", "streaming", "gated", "capped", "degraded"}
Turns  == 1..MaxTurns
Handle == [gateStopped: BOOLEAN, awaitingInterview: BOOLEAN, specRounds: 0..MaxRounds + 1,
           pendingGated: SUBSET Reasons, allowedGated: SUBSET Reasons,
           pendingAbortSettle: BOOLEAN, verifyAttempts: Nat]

FreshHandle ==
    [gateStopped |-> FALSE, awaitingInterview |-> FALSE, specRounds |-> 0,
     pendingGated |-> {}, allowedGated |-> {},
     pendingAbortSettle |-> FALSE, verifyAttempts |-> 0]

Command == [cmd: {"prompt", "steer", "retry"}, turn: Turns] \cup [cmd: {"abort", "stats"}]
Event   == [ev: {"question", "draft", "settled"}, turn: Turns]
           \cup [ev: {"tool"}, turn: Turns, reason: Reasons]
           \cup [ev: {"stray", "usage", "refused"}]

TypeOK ==
    /\ live \in BOOLEAN
    /\ host \in Handle
    /\ state \in States
    /\ spec \in BOOLEAN
    /\ prompted \in BOOLEAN
    /\ checking \in SUBSET (Turns \cup {0})
    /\ input \in Seq(Command)
    /\ output \in Seq(Event)
    /\ turn \in 0..MaxTurns
    /\ sent \in 0..MaxTurns
    /\ gated \in SUBSET Turns
    /\ stopped \in SUBSET Turns
    /\ finished \in SUBSET Turns

Init ==
    /\ live = FALSE
    /\ host = FreshHandle
    /\ state = "idle"
    /\ spec = FALSE
    /\ prompted = FALSE
    /\ checking = {}
    /\ input = <<>>
    /\ output = <<>>
    /\ turn = 0
    /\ sent = 0
    /\ gated = {}
    /\ stopped = {}
    /\ finished = {}

-----------------------------------------------------------------------------
(* Sending *)

Send(c) == input' = Append(input, c)
Room    == Len(input) + Len(output) < MaxPipe

\* A prompt of the given kind; its turn is the next number.
SendPrompt(k) ==
    /\ sent < MaxTurns
    /\ sent' = sent + 1
    /\ Send([cmd |-> k, turn |-> sent + 1])

\* The contract's reply: the row flips to streaming, the turn generation stays,
\* and the prompt is a bare one whatever the agent is doing.
Reply ==
    /\ SendPrompt("prompt")
    /\ state' = "streaming"

-----------------------------------------------------------------------------
(* The user *)

\* prepareTurn: spawn or reuse; the new generation makes every pipeline stale.
PrepareTurn ==
    /\ live' = TRUE
    /\ state' = "streaming"
    /\ checking' = {}

BeginUserTurn(h) ==
    [h EXCEPT !.gateStopped = FALSE, !.awaitingInterview = FALSE, !.specRounds = 0]

BeginExecution(h) == [h EXCEPT !.gateStopped = FALSE, !.awaitingInterview = FALSE]

AllowPendingGated(h) ==
    [h EXCEPT !.allowedGated = @ \cup h.pendingGated, !.pendingGated = {}]

\* POST prompt: a streaming thread with a host is steered, any other may be.
Prompt(k) ==
    /\ k \in {"prompt", "steer"}
    /\ live /\ state = "streaming" => k = "steer"
    /\ PrepareTurn
    /\ host' = [BeginUserTurn(host) EXCEPT !.verifyAttempts = 0]
    /\ prompted' = TRUE
    /\ SendPrompt(k)
    /\ UNCHANGED <<spec, output, turn, historyVars>>

Approvable == spec \/ (host.pendingGated # {} /\ prompted)

\* POST approve: the only way a gated class becomes allowed.
Approve ==
    /\ Approvable
    /\ PrepareTurn
    /\ host' = BeginExecution(AllowPendingGated(host))
    /\ SendPrompt("prompt")
    /\ UNCHANGED <<spec, prompted, output, turn, historyVars>>

Retry ==
    /\ spec \/ prompted
    /\ PrepareTurn
    /\ host' = BeginExecution(host)
    /\ SendPrompt("prompt")
    /\ UNCHANGED <<spec, prompted, output, turn, historyVars>>

\* PATCH spec: stored, and forwarded to a live agent.
PatchSpec ==
    /\ spec' \in {spec, TRUE}
    /\ IF live THEN Reply ELSE spec' # spec /\ UNCHANGED <<state, input, sent>>
    /\ UNCHANGED <<live, host, prompted, checking, output, turn, historyVars>>

Abort ==
    /\ live
    /\ Room
    /\ Send([cmd |-> "abort"])
    /\ UNCHANGED <<gatewayVars, output, turn, sent, historyVars>>

-----------------------------------------------------------------------------
(* Events of the agent, in the order of its output *)

Take(e) == output # <<>> /\ Head(output).ev = e /\ output' = Tail(output)

\* onSpecQuestion.  Past the budget the count does not matter any more.
OnQuestion ==
    /\ Take("question")
    /\ host' = [host EXCEPT !.awaitingInterview = TRUE,
                            !.specRounds = IF @ > MaxRounds THEN @ ELSE @ + 1]
    /\ IF host'.specRounds > MaxRounds THEN Reply ELSE UNCHANGED <<state, input, sent>>
    /\ UNCHANGED <<live, spec, prompted, checking, turn, historyVars>>

\* onSpecDraft: stored, and executed at once unless a step of it is gated.
OnDraft ==
    /\ Take("draft")
    /\ spec' = TRUE
    /\ \/ /\ host' = [host EXCEPT !.awaitingInterview = FALSE]
          /\ UNCHANGED <<state, input, sent>>
       \/ /\ host' = BeginExecution(host)
          /\ Reply
    /\ UNCHANGED <<live, prompted, checking, turn, historyVars>>

\* Mutant: a repeated gate does not abort again.
EscalateOnce(r, n) ==
    /\ host' = [host EXCEPT !.gateStopped = TRUE, !.pendingAbortSettle = TRUE,
                            !.pendingGated = @ \cup {r}]
    /\ state' = "gated"
    /\ gated' = gated \cup {n}
    /\ stopped' = IF host.gateStopped THEN stopped ELSE stopped \cup {n}
    /\ IF host.gateStopped THEN UNCHANGED input ELSE Send([cmd |-> "abort"])

\* escalateGate: block, remember the class, and abort the run.
EscalateGate(r, n) ==
    /\ host' = [host EXCEPT !.gateStopped = TRUE,
                            !.pendingAbortSettle = @ \/ ~host.gateStopped,
                            !.pendingGated = @ \cup {r}]
    /\ state' = "gated"
    /\ gated' = gated \cup {n}
    /\ stopped' = IF host.gateStopped THEN stopped ELSE stopped \cup {n}
    /\ Send([cmd |-> "abort"])

\* tool_execution_start of a gated class.
OnTool ==
    /\ Take("tool")
    /\ LET e == Head(output) IN
       IF e.reason \in host.allowedGated THEN UNCHANGED <<host, state, gated, stopped, input>>
                                         ELSE EscalateGate(e.reason, e.turn)
    /\ UNCHANGED <<live, spec, prompted, checking, turn, sent, finished>>

\* Mutants: the settle of an aborted turn is not recognised once a newer turn
\* cleared gateStopped, or the marker survives the settle it was set for.
SettledByGateOnly(h) == h.gateStopped
MarkerKept(h)        == [h EXCEPT !.pendingAbortSettle = @ /\ h.gateStopped]
AbortSettle(h)       == h.gateStopped \/ h.pendingAbortSettle
ClearMarker(h)       == [h EXCEPT !.pendingAbortSettle = FALSE]

\* agent_settled: the end of an aborted run is dropped; any other makes the
\* row idle, asks for the usage and starts the pipeline, unless an interview
\* is outstanding or the thread has no workspace.
Settled(ended, pipeline) ==
    /\ IF AbortSettle(host)
       THEN /\ host' = ClearMarker(host)
            /\ UNCHANGED <<state, input, checking, finished>>
       ELSE /\ state' = "idle"
            /\ Send([cmd |-> "stats"])
            /\ finished' = finished \cup ended
            /\ \/ ~host.awaitingInterview /\ checking' = checking \cup {pipeline}
               \/ UNCHANGED checking
            /\ UNCHANGED host
    /\ UNCHANGED <<live, spec, prompted, turn, sent, gated, stopped>>

OnSettled == Take("settled") /\ LET n == Head(output).turn IN Settled({n}, n)

\* The answer to an abort at rest: its pipeline belongs to no turn.
OnStray == Take("stray") /\ Settled({}, 0)

\* harvestUsage's answer: over the cost cap the thread is blocked.
OnUsage ==
    /\ Take("usage")
    /\ state' \in {state, "capped"}
    /\ UNCHANGED <<live, host, spec, prompted, checking, input, turn, sent, historyVars>>

\* The agent refused the pipeline's retry prompt; the refusal of any other
\* prompt changes nothing.
OnRefused ==
    /\ Take("refused")
    /\ state' = "degraded"
    /\ UNCHANGED <<live, host, spec, prompted, checking, input, turn, sent, historyVars>>

\* postTurnPipeline after its awaits: done (with or without a diff, verified
\* or not), failed past the retries, or a retry prompt.
PipelineEnds(n) ==
    /\ n \in checking
    /\ checking' = checking \ {n}
    /\ \/ UNCHANGED <<host, state, input, sent>>
       \/ /\ host' = [host EXCEPT !.verifyAttempts = IF @ > Retries THEN @ ELSE @ + 1]
          /\ IF host'.verifyAttempts > Retries
             THEN UNCHANGED <<state, input, sent>>
             ELSE SendPrompt("retry") /\ state' = "streaming"
    /\ UNCHANGED <<live, spec, prompted, output, turn, historyVars>>

-----------------------------------------------------------------------------
(* Ends of the host.  Nothing of it survives: a pipeline of it is stale, and  *)
(* its contract is gone with it.                                             *)

LoseHost ==
    /\ live' = FALSE
    /\ host' = FreshHandle
    /\ checking' = {}
    /\ input' = <<>>
    /\ output' = <<>>
    /\ turn' = 0
    /\ UNCHANGED <<spec, prompted, sent, historyVars>>

Crash == live /\ state' = "degraded" /\ LoseHost

\* reapIdle and a restart of the gateway strand a streaming turn.
Reap == live /\ state' = (IF state = "streaming" THEN "degraded" ELSE state) /\ LoseHost

\* Mutant: the state column gets the status.
AbandonState == state' = "abandoned" /\ LoseHost

Abandon ==
    /\ state' = IF state \in {"streaming", "gated", "capped"} THEN "idle" ELSE state
    /\ LoseHost

-----------------------------------------------------------------------------
(* The agent (external): it reads a command while it works on a turn, refuses *)
(* a bare prompt mid-turn, settles every turn once, and may answer an abort   *)
(* at rest with a settle of no turn.                                          *)

Emit(e) == output' = Append(output, e)

ReadPrompt ==
    /\ input # <<>> /\ Head(input).cmd \in {"prompt", "steer", "retry"}
    /\ input' = Tail(input)
    /\ turn' = IF turn = 0 THEN Head(input).turn ELSE turn
    /\ IF turn # 0 /\ Head(input).cmd = "retry" THEN Emit([ev |-> "refused"])
                                                ELSE UNCHANGED output
    /\ UNCHANGED <<gatewayVars, sent, historyVars>>

ReadAbort ==
    /\ input # <<>> /\ Head(input).cmd = "abort"
    /\ input' = Tail(input)
    /\ turn' = 0
    /\ \/ turn # 0 /\ Emit([ev |-> "settled", turn |-> turn])
       \/ turn = 0 /\ (Emit([ev |-> "stray"]) \/ UNCHANGED output)
    /\ UNCHANGED <<gatewayVars, sent, historyVars>>

ReadStats ==
    /\ input # <<>> /\ Head(input).cmd = "stats"
    /\ input' = Tail(input)
    /\ Emit([ev |-> "usage"])
    /\ UNCHANGED <<gatewayVars, turn, sent, historyVars>>

Work ==
    /\ turn # 0
    /\ Room
    /\ \/ \E e \in {"question", "draft"} : Emit([ev |-> e, turn |-> turn]) /\ UNCHANGED turn
       \/ \E r \in Reasons : Emit([ev |-> "tool", turn |-> turn, reason |-> r]) /\ UNCHANGED turn
       \/ Emit([ev |-> "settled", turn |-> turn]) /\ turn' = 0
    /\ UNCHANGED <<gatewayVars, input, sent, historyVars>>

-----------------------------------------------------------------------------
Next ==
    \/ \E k \in {"prompt", "steer"} : Prompt(k)
    \/ Approve \/ Retry \/ PatchSpec \/ Abort
    \/ OnQuestion \/ OnDraft \/ OnTool \/ OnSettled \/ OnStray \/ OnUsage \/ OnRefused
    \/ \E n \in Turns \cup {0} : PipelineEnds(n)
    \/ Crash \/ Reap \/ Abandon
    \/ ReadPrompt \/ ReadAbort \/ ReadStats \/ Work

Spec == Init /\ [][Next]_vars

-----------------------------------------------------------------------------
(* Properties *)

\* A turn that reached for a gated action the user has not allowed does not
\* go on: as long as it runs, an abort is on its way to it.  (escalateGate)
GatedTurnIsAborted ==
    turn \in gated => \E i \in DOMAIN input : input[i].cmd = "abort"

\* A turn that raised a gate stop never counts as a finished one, however late its
\* settle comes and whatever the user did meanwhile: no idle row over a newer
\* turn, no usage, no diff of a half-done turn.  (agent_settled, escalateGate)
GatedTurnNeverFinishes == stopped \cap finished = {}

\* When the agent is settled and nothing is on its way in either direction the
\* row does not claim a turn, unless a gate stop is still unanswered.
\* (agent_settled: the abort marker is consumed by one settle, not by two)
Quiet == live /\ turn = 0 /\ input = <<>> /\ output = <<>>
NoStuckStreaming == Quiet /\ ~host.gateStopped => state # "streaming"

\* A thread blocked on a gated action can be approved: approve is the only way
\* to allow the parked action.  (POST approve, hasPendingGated)
GatedCanBeApproved == state = "gated" => Approvable
=============================================================================
