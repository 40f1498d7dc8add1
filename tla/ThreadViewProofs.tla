--------------------------- MODULE ThreadViewProofs ---------------------------
(***************************************************************************)
(* Proofs about ThreadView, for any bounds: the three parts of the         *)
(* inductive invariant are the types, what the counters remember of the    *)
(* retries, and what the tab holds while envelopes and an answer are on    *)
(* their way.                                                              *)
(***************************************************************************)
EXTENDS ThreadView, TLAPS

\* The counters differ exactly after a retry that no review has seen.
Counted == revision <= retries /\ (retried <=> revision # retries)

\* What is last in flight says what the log says; with nothing in flight, a
\* waiting tab follows a run of the log, or its own request, which has not
\* begun a turn.
TabFollows ==
    /\ asking => ask # "none"
    /\ connected /\ flight # <<>> => (flight[Len(flight)] = "streaming" <=> shown = "streaming")
    /\ connected /\ flight = <<>> /\ waiting =>
          shown = "streaming" \/ (asking /\ ask # "sent")

IInv == TypeOK /\ Counted /\ TabFollows

USE ThreadViewAssumption

-----------------------------------------------------------------------------
(* What an envelope does to the variables of the state. *)

StateTyped ==
    /\ state  \in States
    /\ shown  \in States
    /\ flight \in Seq({"streaming", "other"}) /\ Len(flight) <= MaxFlight

StatusTyped == status \in Statuses

CountersTyped ==
    /\ {retries, revision} \subseteq 0 .. MaxRetries
    /\ trust \in 0 .. MaxTrust
    /\ retried \in BOOLEAN

Hosts == {"none", "idle", "turn", "turns", "gated"}

HostTyped ==
    /\ host \in Hosts
    /\ {checking, owed, row} \subseteq BOOLEAN
    /\ call \in {<<>>} \cup {"execution", "queued"} \X {"before", "sent"}

TabTyped ==
    /\ {waiting, connected, asking} \subseteq BOOLEAN
    /\ ask \in {"none", "posted", "sent", "queued", "refused"}

LEMMA TypeParts == TypeOK <=> StateTyped /\ StatusTyped /\ CountersTyped /\ HostTyped /\ TabTyped
BY DEF TypeOK, StateTyped, StatusTyped, CountersTyped, HostTyped, Hosts, TabTyped

\* A state is published, or the state is left alone, or written silently.
StateStep ==
    \/ \E s \in States : SetState(s) \/ SetStateSilently(s)
    \/ UNCHANGED stateVars

LEMMA StateStepKeeps ==
    ASSUME StateTyped, connected \in BOOLEAN, StateStep
    PROVE  StateTyped'
<1>1. ASSUME NEW s \in States, SetState(s) PROVE StateTyped'
  <2> DEFINE n == IF s = "streaming" THEN s ELSE "other"
  <2>1. flight \in Seq({"streaming", "other"}) /\ n \in {"streaming", "other"}
    BY DEF StateTyped
  <2>2. flight' = flight \/ flight' = Append(flight, n)
    BY <1>1 DEF SetState
  <2>3. Len(flight) < MaxFlight /\ Len(flight) \in Nat /\ MaxFlight \in Nat
    BY <1>1, <2>1 DEF SetState
  <2> HIDE DEF n
  <2>4. flight' \in Seq({"streaming", "other"}) /\ Len(flight') <= MaxFlight
    BY <2>1, <2>2, <2>3
  <2> QED BY <1>1, <2>4 DEF SetState, StateTyped
<1>2. ASSUME NEW s \in States, SetStateSilently(s) PROVE StateTyped'
  BY <1>2 DEF SetStateSilently, StateTyped
<1>3. CASE UNCHANGED stateVars
  BY <1>3 DEF stateVars, StateTyped
<1> QED BY <1>1, <1>2, <1>3 DEF StateStep

-----------------------------------------------------------------------------
(* The other kinds of effect *)

StatusStep == status' = status \/ status' \in Statuses

CountStep ==
    \/ UNCHANGED counters
    \/ /\ retries < MaxRetries
       /\ retries' = retries + 1 /\ retried' = TRUE
       /\ UNCHANGED <<revision, trust>>
    \/ /\ trust' \in {trust, trust + 1} /\ trust < MaxTrust
       /\ UNCHANGED <<retries, revision, retried>>
    \/ revision' = retries /\ retried' = FALSE /\ UNCHANGED <<retries, trust>>

LEMMA CountStepKeeps ==
    ASSUME CountersTyped, Counted, CountStep
    PROVE  CountersTyped' /\ Counted'
<1>1. /\ retries \in Nat /\ retries <= MaxRetries /\ MaxRetries \in Nat
      /\ revision \in Nat /\ revision <= retries
      /\ trust \in Nat /\ trust <= MaxTrust /\ MaxTrust \in Nat
      /\ retried <=> revision # retries
      /\ retried \in BOOLEAN
  BY DEF CountersTyped, Counted
<1>2. CASE UNCHANGED counters
  BY <1>2 DEF counters, CountersTyped, Counted
<1>3. CASE /\ retries < MaxRetries
           /\ retries' = retries + 1 /\ retried' = TRUE
           /\ UNCHANGED <<revision, trust>>
  <2>1. retries' \in 0 .. MaxRetries /\ revision' \in 0 .. MaxRetries /\ trust' \in 0 .. MaxTrust
    BY <1>1, <1>3
  <2>2. revision' <= retries' /\ revision' # retries' /\ retried'
    BY <1>1, <1>3
  <2>3. retried' \in BOOLEAN
    BY <1>3
  <2> QED BY <2>1, <2>2, <2>3 DEF CountersTyped, Counted
<1>4. CASE /\ trust' \in {trust, trust + 1} /\ trust < MaxTrust
           /\ UNCHANGED <<retries, revision, retried>>
  <2>1. retries' = retries /\ revision' = revision /\ retried' = retried
    BY <1>4
  <2>2. trust' \in 0 .. MaxTrust
    BY <1>1, <1>4
  <2> QED BY <2>1, <2>2 DEF CountersTyped, Counted
<1>5. CASE revision' = retries /\ retried' = FALSE /\ UNCHANGED <<retries, trust>>
  <2>1. retries' \in 0 .. MaxRetries /\ revision' \in 0 .. MaxRetries /\ trust' \in 0 .. MaxTrust
    BY <1>1, <1>5
  <2>2. revision' <= retries' /\ revision' = retries' /\ ~retried'
    BY <1>1, <1>5
  <2>3. retried' \in BOOLEAN
    BY <1>5
  <2> QED BY <2>1, <2>2, <2>3 DEF CountersTyped, Counted
<1> QED BY <1>2, <1>3, <1>4, <1>5 DEF CountStep

\* The gateway leaves the tab alone.  An answer, or the turn of a posted prompt,
\* which is published, may be on its way after the step.
TabStep ==
    /\ UNCHANGED <<waiting, connected, asking>>
    /\ ask' \in {"none", "posted", "sent", "queued", "refused"}
    /\ ask # "none" => ask' # "none"
    /\ \/ \E s \in States : SetState(s)
       \/ UNCHANGED <<shown, flight>> /\ (ask' = "sent" => ask = "sent")

LEMMA TabStepKeeps ==
    ASSUME StateTyped, TabTyped, TabFollows, TabStep
    PROVE  TabTyped' /\ TabFollows'
<1>1. TabTyped'
  BY DEF TabTyped, TabStep
<1>2. asking' => ask' # "none"
  BY DEF TabFollows, TabStep
<1>3. ASSUME NEW s \in States, SetState(s), connected
      PROVE  /\ flight' # <<>>
             /\ flight'[Len(flight')] = "streaming" <=> shown' = "streaming"
  <2> DEFINE n == IF s = "streaming" THEN s ELSE "other"
  <2>1. flight' = Append(flight, n) /\ shown' = s
    BY <1>3 DEF SetState
  <2>2. flight \in Seq({"streaming", "other"}) /\ n \in {"streaming", "other"}
    BY DEF StateTyped
  <2>3. n = "streaming" <=> s = "streaming"
    OBVIOUS
  <2> HIDE DEF n
  <2>4. flight' # <<>> /\ flight'[Len(flight')] = n
    BY <2>1, <2>2
  <2> QED BY <2>1, <2>3, <2>4
<1>4. CASE \E s \in States : SetState(s)
  BY <1>1, <1>2, <1>3, <1>4 DEF TabFollows, TabStep
<1>5. CASE UNCHANGED <<shown, flight>> /\ (ask' = "sent" => ask = "sent")
  BY <1>1, <1>2, <1>5 DEF TabFollows, TabStep
<1> QED BY <1>1, <1>4, <1>5 DEF TabStep

-----------------------------------------------------------------------------
(* The gateway's actions have these effects. *)

Effects == StateStep /\ StatusStep /\ CountStep /\ HostTyped' /\ TabStep

LEMMA EffectsKeep ==
    ASSUME IInv, Effects
    PROVE  IInv'
<1>1. StateTyped /\ StatusTyped /\ CountersTyped /\ TabTyped /\ connected \in BOOLEAN
  BY TypeParts DEF IInv, TabTyped
<1>3. StateTyped' /\ StatusTyped'
  BY <1>1, StateStepKeeps DEF Effects, StatusStep, StatusTyped
<1>5. CountersTyped' /\ Counted'
  BY <1>1, CountStepKeeps DEF Effects, IInv
<1>6. TabTyped' /\ TabFollows'
  BY <1>1, TabStepKeeps DEF Effects, IInv
<1>7. TypeOK'
  BY <1>3, <1>5, <1>6, TypeParts DEF Effects, TypeOK, StateTyped, StatusTyped,
     CountersTyped, HostTyped, Hosts, TabTyped
<1> QED BY <1>5, <1>6, <1>7 DEF IInv

LEMMA Publishes ==
    /\ \A s \in States : SetState(s) => StateStep
    /\ \A s \in States : SetStateSilently(s) => StateStep /\ UNCHANGED <<shown, flight>>
    /\ UNCHANGED stateVars => StateStep /\ UNCHANGED <<shown, flight>>
    /\ {"idle", "streaming", "blocked", "degraded"} = States
BY DEF StateStep, States, SetStateSilently, stateVars

LEMMA StatusSteps ==
    /\ UNCHANGED status => StatusStep
    /\ \A s \in Statuses : status' = s => StatusStep
    /\ Statuses = {"draft", "queued", "running", "reviewed", "merged", "abandoned"}
BY DEF StatusStep, Statuses

LEMMA BegunTyped == Begun(host) \subseteq Hosts
BY DEF Begun, Hosts

\* The prompt of the tab.
LEMMA PromptEffects ==
    ASSUME TypeOK, PromptQueued \/ PromptBegins \/ PromptFails
    PROVE  Effects
<1> USE Publishes, StatusSteps
<1>1. HostTyped /\ TabTyped
  BY TypeParts
<1>2. CASE PromptQueued
  <2>1. StateStep /\ UNCHANGED <<shown, flight>> /\ StatusStep /\ CountStep
    BY <1>2 DEF PromptQueued, CountStep
  <2>2. HostTyped'
    BY <1>1, <1>2 DEF PromptQueued, HostTyped, hostVars
  <2>3. TabStep
    BY <1>2, <2>1 DEF PromptQueued, TabStep
  <2> QED BY <2>1, <2>2, <2>3 DEF Effects
<1>3. CASE PromptBegins
  <2>1. StateStep /\ SetState("streaming") /\ StatusStep /\ CountStep
    BY <1>3 DEF PromptBegins, Begin, AskOnly, CountStep
  <2>2. HostTyped'
    BY <1>1, <1>3, BegunTyped DEF PromptBegins, Begin, AskOnly, HostTyped
  <2>3. TabStep
    BY <1>3, <2>1 DEF PromptBegins, AskOnly, TabStep
  <2> QED BY <2>1, <2>2, <2>3 DEF Effects
<1>4. CASE PromptFails
  <2>1. StateStep /\ StatusStep /\ CountStep
    BY <1>4 DEF PromptFails, AskOnly, CountStep
  <2>2. HostTyped'
    BY <1>1, <1>4 DEF PromptFails, AskOnly, HostTyped
  <2>3. TabStep
    BY <1>4 DEF PromptFails, AskOnly, TabStep
  <2> QED BY <2>1, <2>2, <2>3 DEF Effects
<1> QED BY <1>2, <1>3, <1>4

\* Executions and queued prompts.
LEMMA CallEffects ==
    ASSUME TypeOK, Approve \/ Retry \/ Dequeue \/ CallBegins \/ CallAnswered \/ CallFails
    PROVE  Effects
<1> USE Publishes, StatusSteps
<1>1. HostTyped /\ TabTyped
  BY TypeParts
<1>2. CASE Approve \/ Retry \/ Dequeue
  <2>1. UNCHANGED <<stateVars, tabVars, host, checking, owed>>
    BY <1>2 DEF Approve, Retry, Dequeue
  <2>2. StatusStep
    BY <1>2 DEF Approve, Retry, Dequeue, StatusStep, Statuses
  <2>3. CountStep
    BY <1>2 DEF Approve, Retry, Dequeue, CountStep, counters
  <2>4. HostTyped'
    <3>1. call' \in {<<>>} \cup {"execution", "queued"} \X {"before", "sent"}
      BY <1>2 DEF Approve, Retry, Dequeue
    <3>2. row' \in BOOLEAN
      BY <1>1, <1>2 DEF Approve, Retry, Dequeue, HostTyped
    <3>3. host' = host /\ checking' = checking /\ owed' = owed
      BY <2>1
    <3> QED BY <1>1, <3>1, <3>2, <3>3 DEF HostTyped
  <2>5. TabStep
    BY <1>1, <2>1 DEF TabStep, TabTyped, tabVars
  <2> QED BY <2>1, <2>2, <2>3, <2>4, <2>5 DEF Effects
<1>3. CASE CallBegins
  <2>1. SetState("streaming") /\ CountStep /\ UNCHANGED tabVars
    BY <1>3 DEF CallBegins, Begin, CallOnly, CountStep
  <2>2. StatusStep
    BY <1>3 DEF CallBegins, StatusStep
  <2>3. HostTyped'
    <3>1. call' \in {<<>>} \cup {"execution", "queued"} \X {"before", "sent"}
      <4>1. call[1] \in {"execution", "queued"}
        BY <1>1, <1>3 DEF CallBegins, HostTyped
      <4> QED BY <1>3, <4>1 DEF CallBegins
    <3>2. host' \in Hosts /\ checking' = FALSE /\ row' = row /\ owed' = owed
      BY <1>3, BegunTyped DEF CallBegins, Begin, CallOnly
    <3> QED BY <1>1, <3>1, <3>2 DEF HostTyped
  <2>4. TabStep
    BY <1>1, <2>1 DEF TabStep, TabTyped, tabVars
  <2> QED BY <2>1, <2>2, <2>3, <2>4 DEF Effects
<1>4. CASE CallAnswered \/ CallFails
  <2>1. (SetState("degraded") \/ UNCHANGED stateVars) /\ StatusStep
    BY <1>4 DEF CallAnswered, CallFails
  <2>2. CountStep /\ UNCHANGED tabVars
    BY <1>4 DEF CallAnswered, CallFails, CallOnly, CountStep
  <2>3. HostTyped'
    BY <1>1, <1>4 DEF CallAnswered, CallFails, CallOnly, HostTyped
  <2>4. TabStep
    BY <1>1, <2>1, <2>2 DEF TabStep, TabTyped, tabVars
  <2> QED BY <2>1, <2>2, <2>3, <2>4 DEF Effects
<1> QED BY <1>2, <1>3, <1>4

\* The user's decisions, and a restart.
LEMMA DecisionEffects ==
    ASSUME TypeOK, Abandon \/ KillAll \/ Merge \/ Restart
    PROVE  Effects
<1> USE Publishes, StatusSteps
<1>1. HostTyped /\ TabTyped /\ state \in States
  BY TypeParts DEF TypeOK
<1>2. CASE Abandon
  <2>1. (\E s \in States : SetState(s)) \/ UNCHANGED stateVars
    BY <1>1, <1>2 DEF Abandon, Land, Landed
  <2>2. StatusStep /\ CountStep /\ UNCHANGED tabVars
    BY <1>2 DEF Abandon, CountStep
  <2>3. HostTyped'
    BY <1>1, <1>2 DEF Abandon, KillHost, HostTyped, Hosts
  <2>4. TabStep
    BY <1>1, <2>1, <2>2 DEF TabStep, TabTyped, tabVars
  <2> QED BY <2>1, <2>2, <2>3, <2>4 DEF Effects
<1>3. CASE KillAll
  <2>1. StateStep /\ UNCHANGED <<shown, flight>>
    BY <1>3 DEF KillAll
  <2>2. StatusStep /\ CountStep /\ UNCHANGED tabVars
    BY <1>3 DEF KillAll, CountStep
  <2>3. HostTyped'
    BY <1>1, <1>3 DEF KillAll, KillHost, HostTyped, Hosts
  <2>4. TabStep
    BY <1>1, <2>1, <2>2 DEF TabStep, TabTyped, tabVars
  <2> QED BY <2>1, <2>2, <2>3, <2>4 DEF Effects
<1>4. CASE Merge
  <2>1. StateStep /\ UNCHANGED <<shown, flight>>
    BY <1>4 DEF Merge
  <2>2. StatusStep /\ UNCHANGED tabVars
    BY <1>4 DEF Merge
  <2>3. CountStep
    BY <1>4 DEF Merge, CountStep
  <2>4. HostTyped'
    BY <1>1, <1>4 DEF Merge, hostVars, HostTyped
  <2>5. TabStep
    BY <1>1, <2>1, <2>2 DEF TabStep, TabTyped, tabVars
  <2> QED BY <2>1, <2>2, <2>3, <2>4, <2>5 DEF Effects
<1>5. CASE Restart
  <2>1. StateStep /\ UNCHANGED <<shown, flight>>
    BY <1>1, <1>5 DEF Restart
  <2>2. StatusStep /\ CountStep
    BY <1>5 DEF Restart, CountStep
  <2>3. HostTyped'
    BY <1>1, <1>5 DEF Restart, KillHost, HostTyped, Hosts
  <2>4. TabStep
    BY <1>1, <1>5, <2>1 DEF Restart, TabStep, TabTyped
  <2> QED BY <2>1, <2>2, <2>3, <2>4 DEF Effects
<1> QED BY <1>2, <1>3, <1>4, <1>5

LEMMA ReviewEffects ==
    /\ MarkReviewed /\ UNCHANGED <<retries, trust>> => StatusStep /\ CountStep
    /\ SettleRunning /\ UNCHANGED <<retries, trust>> => StatusStep /\ CountStep
    /\ NoReview /\ UNCHANGED <<retries, trust>> => StatusStep /\ CountStep
<1>1. MarkReviewed /\ UNCHANGED <<retries, trust>> => StatusStep
  BY DEF MarkReviewed, NoReview, StatusStep, Statuses
<1>2. MarkReviewed /\ UNCHANGED <<retries, trust>> => CountStep
  BY DEF MarkReviewed, NoReview, Snapshot, CountStep, counters
<1>3. NoReview /\ UNCHANGED <<retries, trust>> => StatusStep /\ CountStep
  BY DEF NoReview, StatusStep, CountStep, counters
<1> QED BY <1>1, <1>2, <1>3 DEF SettleRunning

\* The host, its pipeline and its end.
LEMMA HostEffects ==
    ASSUME TypeOK,
           \/ Announce \/ SpecPatch \/ Block \/ Settle \/ GateSettle
           \/ PipelineEnds \/ Late \/ HostEnds
    PROVE  Effects
<1> USE Publishes, StatusSteps
<1>1. HostTyped /\ TabTyped
  BY TypeParts
<1>2. UNCHANGED <<retries, trust, row, call, tabVars>>
  BY DEF Announce, SpecPatch, Block, Settle, GateSettle, PipelineEnds, Late, HostEnds, HostOnly
<1>3. (\E s \in States : SetState(s)) \/ UNCHANGED stateVars
  BY DEF Announce, SpecPatch, Block, Settle, GateSettle, PipelineEnds, Late, HostEnds
<1>4. StatusStep /\ CountStep
  <2>1. MarkReviewed \/ SettleRunning \/ NoReview
    BY DEF Announce, SpecPatch, Block, Settle, GateSettle, PipelineEnds, Late, HostEnds
  <2> QED BY <1>2, <2>1, ReviewEffects
<1>5. HostTyped'
  <2>1. host' \in Hosts
    BY <1>1, BegunTyped DEF Announce, SpecPatch, Block, Settle, GateSettle, PipelineEnds, Late, HostEnds,
       KillHost, HostTyped, Hosts
  <2>2. checking' \in BOOLEAN /\ owed' \in BOOLEAN
    BY <1>1 DEF Announce, SpecPatch, Block, Settle, GateSettle, PipelineEnds, Late, HostEnds,
       KillHost, HostTyped, Hosts
  <2> QED BY <1>1, <1>2, <2>1, <2>2 DEF HostTyped
<1>6. TabStep
  BY <1>1, <1>2, <1>3 DEF TabStep, TabTyped, tabVars
<1> QED BY <1>3, <1>4, <1>5, <1>6 DEF Effects

-----------------------------------------------------------------------------
(* The tab's actions *)

LEMMA EmptyFlight ==
    ASSUME NEW f, f = <<>>, NEW n \in Nat
    PROVE  f \in Seq({"streaming", "other"}) /\ Len(f) <= n
<1>1. Len(f) = 0
  OBVIOUS
<1> QED BY <1>1

\* They leave the row and the log alone; what they change is typed and follows.
LEMMA TabOnlyKeeps ==
    ASSUME IInv, TabOnly, TabTyped', TabFollows',
           flight' \in Seq({"streaming", "other"}), Len(flight') <= MaxFlight
    PROVE  IInv'
<1>1. StateTyped /\ StatusTyped /\ CountersTyped /\ HostTyped
  BY TypeParts DEF IInv
<1>2. StateTyped' /\ StatusTyped' /\ CountersTyped' /\ HostTyped'
  BY <1>1 DEF TabOnly, StateTyped, StatusTyped, CountersTyped, HostTyped,
     counters, hostVars
<1>3. TypeOK'
  BY <1>2 DEF TypeOK, StateTyped, StatusTyped, CountersTyped, HostTyped, Hosts, TabTyped
<1>4. Counted'
  BY DEF IInv, Counted, TabOnly, counters
<1> QED BY <1>3, <1>4 DEF IInv

LEMMA ReceiveKeeps == IInv /\ Receive => IInv'
<1> SUFFICES ASSUME IInv, Receive PROVE IInv'
  OBVIOUS
<1>1. /\ flight \in Seq({"streaming", "other"}) /\ Len(flight) <= MaxFlight
      /\ TabTyped /\ TabFollows /\ flight # <<>> /\ MaxFlight \in Nat
  BY TypeParts DEF IInv, StateTyped, Receive
<1>2. /\ flight' = Tail(flight) /\ waiting' = (Head(flight) = "streaming")
      /\ UNCHANGED <<connected, ask, asking, shown>> /\ TabOnly
  BY DEF Receive, TabOnly
<1>3. /\ flight' \in Seq({"streaming", "other"}) /\ Len(flight') = Len(flight) - 1
      /\ Len(flight) \in Nat \ {0}
  BY <1>1, <1>2
<1>4. flight' # <<>> => flight'[Len(flight')] = flight[Len(flight)]
  BY <1>1, <1>2, <1>3
<1>5. flight' = <<>> => Head(flight) = flight[Len(flight)]
  <2>1. Head(flight) = flight[1]
    BY <1>1
  <2>2. flight' = <<>> => Len(flight') = 0
    OBVIOUS
  <2>3. flight' = <<>> => Len(flight) = 1
    BY <1>3, <2>2
  <2> QED BY <2>1, <2>3
<1>6. TabTyped'
  <2>1. waiting' \in BOOLEAN
    BY <1>2
  <2> QED BY <1>1, <1>2, <2>1 DEF TabTyped
<1>7. TabFollows'
  <2>1. asking' => ask' # "none"
    BY <1>1, <1>2 DEF TabFollows
  <2>2. connected' => (flight[Len(flight)] = "streaming" <=> shown' = "streaming")
    BY <1>1, <1>2 DEF TabFollows
  <2>3. connected' /\ flight' = <<>> /\ waiting' => shown' = "streaming"
    BY <1>2, <1>5, <2>2
  <2> QED BY <1>4, <2>1, <2>2, <2>3 DEF TabFollows
<1>8. Len(flight') <= MaxFlight
  BY <1>1, <1>3
<1> QED BY <1>2, <1>3, <1>6, <1>7, <1>8, TabOnlyKeeps

\* The actions that leave the stream alone, or start it over.
LEMMA OtherTabKeeps == IInv /\ (Ask \/ Answer \/ Stop \/ Lost \/ Reload) => IInv'
<1> SUFFICES ASSUME IInv, Ask \/ Answer \/ Stop \/ Lost \/ Reload PROVE IInv'
  OBVIOUS
<1>1. /\ flight \in Seq({"streaming", "other"}) /\ Len(flight) <= MaxFlight
      /\ TabTyped /\ TabFollows /\ MaxFlight \in Nat
  BY TypeParts DEF IInv, StateTyped
<1>2. TabOnly /\ shown' = shown
  BY DEF Ask, Answer, Stop, Lost, Reload, TabOnly
<1>3. (flight' = flight \/ flight' = <<>>)
  BY DEF Ask, Answer, Stop, Lost, Reload
<1>4. flight' \in Seq({"streaming", "other"}) /\ Len(flight') <= MaxFlight
  BY <1>1, <1>3, EmptyFlight
<1>5. TabTyped'
  <2>1. waiting' \in BOOLEAN
    BY <1>1 DEF Ask, Answer, Stop, Lost, Reload, TabTyped
  <2>2. connected' \in BOOLEAN /\ asking' \in BOOLEAN
    BY <1>1 DEF Ask, Answer, Stop, Lost, Reload, TabTyped
  <2>3. ask' \in {"none", "posted", "sent", "queued", "refused"}
    BY <1>1 DEF Ask, Answer, Stop, Lost, Reload, TabTyped
  <2> QED BY <2>1, <2>2, <2>3 DEF TabTyped
<1>6. TabFollows'
  <2>1. CASE Ask
    BY <1>1, <1>2, <2>1 DEF Ask, TabFollows
  <2>2. CASE Answer
    <3>1. asking' = FALSE /\ UNCHANGED <<flight, connected>>
      BY <2>2 DEF Answer
    <3>2. waiting' => waiting /\ (asking => ask = "sent")
      BY <1>1, <2>2 DEF Answer, Clears, TabTyped
    <3> QED BY <1>1, <1>2, <3>1, <3>2 DEF TabFollows
  <2>3. CASE Stop
    BY <1>1, <1>2, <2>3 DEF Stop, TabFollows
  <2>4. CASE Lost
    BY <1>1, <1>2, <2>4 DEF Lost, TabFollows
  <2>5. CASE Reload
    BY <1>1, <1>2, <2>5 DEF Reload, TabFollows
  <2> QED BY <2>1, <2>2, <2>3, <2>4, <2>5
<1> QED BY <1>2, <1>4, <1>5, <1>6, TabOnlyKeeps

-----------------------------------------------------------------------------
LEMMA InitHolds == Init => IInv
<1> SUFFICES ASSUME Init PROVE IInv
  OBVIOUS
<1>1. MaxFlight \in Nat /\ MaxRetries \in Nat /\ MaxTrust \in Nat
  BY DEF ThreadViewAssumption
<1>2. StateTyped
  <2>1. flight \in Seq({"streaming", "other"}) /\ Len(flight) <= MaxFlight
    BY <1>1, EmptyFlight DEF Init
  <2> QED BY <2>1 DEF Init, StateTyped, States
<1>3. StatusTyped /\ HostTyped
  BY DEF Init, StatusTyped, HostTyped, Hosts, Statuses
<1>4. CountersTyped
  <2>1. 0 \in 0 .. MaxRetries /\ 0 \in 0 .. MaxTrust
    BY <1>1
  <2> QED BY <2>1 DEF Init, CountersTyped
<1>5. TabTyped
  BY DEF Init, TabTyped
<1>6. Counted /\ TabFollows
  BY DEF Init, Counted, TabFollows
<1> QED BY <1>2, <1>3, <1>4, <1>5, <1>6, TypeParts DEF IInv

LEMMA NextKeeps == IInv /\ [Next]_vars => IInv'
<1> SUFFICES ASSUME IInv, [Next]_vars PROVE IInv'
  OBVIOUS
<1>1. TypeOK
  BY DEF IInv
<1>2. CASE PromptQueued \/ PromptBegins \/ PromptFails
  BY <1>1, <1>2, PromptEffects, EffectsKeep
<1>3. CASE Approve \/ Retry \/ Dequeue \/ CallBegins \/ CallAnswered \/ CallFails
  BY <1>1, <1>3, CallEffects, EffectsKeep
<1>4. CASE Abandon \/ KillAll \/ Merge \/ Restart
  BY <1>1, <1>4, DecisionEffects, EffectsKeep
<1>5. CASE \/ Announce \/ SpecPatch \/ Block \/ Settle \/ GateSettle
           \/ PipelineEnds \/ Late \/ HostEnds
  BY <1>1, <1>5, HostEffects, EffectsKeep
<1>6. CASE Receive
  BY <1>6, ReceiveKeeps
<1>7. CASE Ask \/ Answer \/ Stop \/ Lost \/ Reload
  BY <1>7, OtherTabKeeps
<1>8. CASE UNCHANGED vars
  BY <1>8 DEF vars, stateVars, counters, hostVars, tabVars,
     IInv, TypeOK, Counted, TabFollows
<1> QED BY <1>2, <1>3, <1>4, <1>5, <1>6, <1>7, <1>8 DEF Next

LEMMA Invariance == Spec => []IInv
<1> QED BY InitHolds, NextKeeps, PTL DEF Spec

-----------------------------------------------------------------------------
(* Theorems *)

\* Every variable keeps its type; the bounds are those of the model.
THEOREM TypeCorrect == Spec => []TypeOK
<1>1. IInv => TypeOK
  BY DEF IInv
<1> QED BY <1>1, Invariance, PTL

\* A tab that has received everything shows no run that a replay would not,
\* whatever overtakes what.  (ask, stop, applyEnvelope)
THEOREM NoPhantom == Spec => []NoPhantomRun
<1>1. IInv => NoPhantomRun
  BY DEF IInv, TabFollows, NoPhantomRun, CaughtUp
<1> QED BY <1>1, Invariance, PTL

\* A merge raises the trust exactly if no retry is later than the last review.
\* (incrementRetryCount, markThreadReviewedById, isMergedWithoutRevision)
THEOREM TrustEarned == Spec => TrustIffUnrevised
<1>1. IInv /\ [Next]_vars => [Merge => (trust' = trust + 1 <=> ~retried)]_vars
  <2> SUFFICES ASSUME IInv, Merge PROVE trust' = trust + 1 <=> ~retried
    OBVIOUS
  <2>1. trust \in Nat /\ (retried <=> revision # retries)
    BY TypeParts DEF IInv, CountersTyped, Counted
  <2> QED BY <2>1 DEF Merge
<1> QED BY <1>1, Invariance, PTL DEF Spec, TrustIffUnrevised
=============================================================================
