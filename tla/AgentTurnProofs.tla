--------------------------- MODULE AgentTurnProofs ---------------------------
(***************************************************************************)
(* Proofs about AgentTurn, for any reasons, bounds and pipes: its types,   *)
(* that a gated turn is aborted and never finishes the thread, and that a  *)
(* row which claims a turn has something on its way that ends it.          *)
(***************************************************************************)
EXTENDS AgentTurn, TLAPS

-----------------------------------------------------------------------------
(* The two pipes *)

\* What is left of a sequence whose head was taken.
LEMMA TailFacts ==
    ASSUME NEW S, NEW s \in Seq(S), s # <<>>
    PROVE  /\ Head(s) \in S
           /\ Head(s) = s[1]
           /\ Tail(s) \in Seq(S)
           /\ DOMAIN s = 1..Len(s)
           /\ DOMAIN Tail(s) = 1..Len(s) - 1
           /\ \A i \in DOMAIN Tail(s) : i + 1 \in DOMAIN s /\ Tail(s)[i] = s[i + 1]
           /\ \A i \in DOMAIN s : i # 1 => i - 1 \in DOMAIN Tail(s) /\ s[i] = Tail(s)[i - 1]
    OBVIOUS

\* What a sequence with one more element holds.
LEMMA AppendFacts ==
    ASSUME NEW S, NEW s \in Seq(S), NEW e \in S
    PROVE  /\ Append(s, e) \in Seq(S)
           /\ Len(s) \in Nat
           /\ DOMAIN s = 1..Len(s)
           /\ DOMAIN Append(s, e) = 1..Len(s) + 1
           /\ Append(s, e)[Len(s) + 1] = e
           /\ \A i \in DOMAIN s : Append(s, e)[i] = s[i]
    OBVIOUS

LEMMA EmptyFacts ==
    ASSUME NEW S
    PROVE  <<>> \in Seq(S) /\ DOMAIN <<>> = {}
    OBVIOUS

\* The members of the pipes by their kind.
IsPrompt(c) == c.cmd \in {"prompt", "steer", "retry"}

LEMMA CommandFacts ==
    /\ \A k \in {"prompt", "steer", "retry"}, n \in Turns : [cmd |-> k, turn |-> n] \in Command
    /\ [cmd |-> "abort"] \in Command /\ [cmd |-> "stats"] \in Command
    /\ \A c \in Command : IsPrompt(c) => c.turn \in Turns
    BY DEF Command, IsPrompt

LEMMA EventFacts ==
    /\ \A k \in {"question", "draft", "settled"}, n \in Turns : [ev |-> k, turn |-> n] \in Event
    /\ \A n \in Turns, r \in Reasons : [ev |-> "tool", turn |-> n, reason |-> r] \in Event
    /\ [ev |-> "usage"] \in Event /\ [ev |-> "refused"] \in Event /\ [ev |-> "stray"] \in Event
    /\ \A e \in Event : e.ev = "settled" => e.turn \in Turns
    /\ \A e \in Event : e.ev = "tool" => e.turn \in Turns /\ e.reason \in Reasons
    BY DEF Event

-----------------------------------------------------------------------------
(* Types *)

\* What an action that sends leaves typed.
LEMMA SendTyped ==
    ASSUME TypeOK, NEW k \in {"prompt", "steer", "retry"}, SendPrompt(k)
    PROVE  sent' \in 0..MaxTurns /\ input' \in Seq(Command)
    <1>1. sent + 1 \in Turns /\ sent + 1 \in 0..MaxTurns
        BY AgentTurnAssumption DEF TypeOK, SendPrompt, Turns
    <1>2. [cmd |-> k, turn |-> sent + 1] \in Command
        BY <1>1, CommandFacts
    <1> QED BY <1>1, <1>2, AppendFacts DEF TypeOK, SendPrompt, Send

LEMMA TakeTyped ==
    ASSUME TypeOK, NEW e, Take(e)
    PROVE  Head(output) \in Event /\ output' \in Seq(Event)
    BY TailFacts DEF TypeOK, Take

LEMMA EmitTyped ==
    ASSUME TypeOK, NEW e \in Event, Emit(e)
    PROVE  output' \in Seq(Event)
    BY AppendFacts DEF TypeOK, Emit

\* What the contract does to its handle.
LEMMA HandleFacts ==
    ASSUME NEW h \in Handle
    PROVE  /\ BeginUserTurn(h) \in Handle
           /\ [BeginUserTurn(h) EXCEPT !.verifyAttempts = 0] \in Handle
           /\ BeginExecution(h) \in Handle
           /\ BeginExecution(AllowPendingGated(h)) \in Handle
           /\ [h EXCEPT !.awaitingInterview = FALSE] \in Handle
           /\ [h EXCEPT !.verifyAttempts = IF @ > Retries THEN @ ELSE @ + 1] \in Handle
           /\ [h EXCEPT !.awaitingInterview = TRUE,
                        !.specRounds = IF @ > MaxRounds THEN @ ELSE @ + 1] \in Handle
           /\ ClearMarker(h) \in Handle
           /\ \A r \in Reasons :
                [h EXCEPT !.gateStopped = TRUE,
                          !.pendingAbortSettle = @ \/ ~h.gateStopped,
                          !.pendingGated = @ \cup {r}] \in Handle
    <1>1. MaxRounds \in Nat
        BY AgentTurnAssumption
    <1>2. BeginUserTurn(h) \in Handle
        <2>1. 0 \in 0..MaxRounds + 1
            BY <1>1
        <2> QED BY <2>1 DEF Handle, BeginUserTurn
    <1>3. [BeginUserTurn(h) EXCEPT !.verifyAttempts = 0] \in Handle
        BY <1>2 DEF Handle
    <1>4. ASSUME NEW g \in Handle PROVE BeginExecution(g) \in Handle
        BY DEF Handle, BeginExecution
    <1>5. AllowPendingGated(h) \in Handle
        BY DEF Handle, AllowPendingGated
    <1>6. [h EXCEPT !.awaitingInterview = FALSE] \in Handle
        BY DEF Handle
    <1>7. [h EXCEPT !.verifyAttempts = IF @ > Retries THEN @ ELSE @ + 1] \in Handle
        <2>1. h.verifyAttempts \in Nat
            BY DEF Handle
        <2>2. (IF h.verifyAttempts > Retries THEN h.verifyAttempts ELSE h.verifyAttempts + 1) \in Nat
            BY <2>1
        <2>3. ASSUME NEW q \in Nat PROVE [h EXCEPT !.verifyAttempts = q] \in Handle
            BY DEF Handle
        <2> QED BY <2>2, <2>3, Zenon
    <1>8. [h EXCEPT !.awaitingInterview = TRUE,
                    !.specRounds = IF @ > MaxRounds THEN @ ELSE @ + 1] \in Handle
        <2>1. h.specRounds \in 0..MaxRounds + 1
            BY DEF Handle
        <2>2. (IF h.specRounds > MaxRounds THEN h.specRounds ELSE h.specRounds + 1)
                \in 0..MaxRounds + 1
            BY <1>1, <2>1
        <2>3. ASSUME NEW q \in 0..MaxRounds + 1
              PROVE  [h EXCEPT !.awaitingInterview = TRUE, !.specRounds = q] \in Handle
            BY DEF Handle
        <2> QED BY <2>2, <2>3, Zenon
    <1>9. ClearMarker(h) \in Handle
        BY DEF Handle, ClearMarker
    <1>10. ASSUME NEW r \in Reasons
           PROVE  [h EXCEPT !.gateStopped = TRUE,
                            !.pendingAbortSettle = @ \/ ~h.gateStopped,
                            !.pendingGated = @ \cup {r}] \in Handle
        <2>1. (h.pendingAbortSettle \/ ~h.gateStopped) \in BOOLEAN
            OBVIOUS
        <2>2. h.pendingGated \cup {r} \in SUBSET Reasons
            BY DEF Handle
        <2>3. ASSUME NEW q \in BOOLEAN
              PROVE  [h EXCEPT !.gateStopped = TRUE, !.pendingAbortSettle = q,
                               !.pendingGated = @ \cup {r}] \in Handle
            BY <2>2 DEF Handle
        <2> QED BY <2>1, <2>3, Zenon
    <1> QED BY <1>2, <1>3, <1>4, <1>5, <1>6, <1>7, <1>8, <1>9, <1>10

LEMMA FreshHandleTyped == FreshHandle \in Handle
    <1>1. MaxRounds \in Nat BY AgentTurnAssumption
    <1> QED BY <1>1 DEF Handle, FreshHandle

LEMMA InitTyped == Init => TypeOK
    <1>1. 0 \in 0..MaxTurns
        BY AgentTurnAssumption
    <1> QED BY <1>1, FreshHandleTyped, EmptyFacts DEF Init, TypeOK, States

\* Every action keeps the types.
LEMMA NextTyped == TypeOK /\ [Next]_vars => TypeOK'
    <1> SUFFICES ASSUME TypeOK, [Next]_vars PROVE TypeOK'
        OBVIOUS
    <1> USE DEF vars, gatewayVars, historyVars
    <1>1. ASSUME NEW k \in {"prompt", "steer"}, Prompt(k) PROVE TypeOK'
        <2>1. sent' \in 0..MaxTurns /\ input' \in Seq(Command)
            BY <1>1, SendTyped DEF Prompt
        <2>2. host' \in Handle
            BY <1>1, HandleFacts DEF Prompt, TypeOK
        <2> QED BY <1>1, <2>1, <2>2 DEF Prompt, PrepareTurn, TypeOK, States
    <1>2. ASSUME Approve \/ Retry PROVE TypeOK'
        <2>1. sent' \in 0..MaxTurns /\ input' \in Seq(Command)
            BY <1>2, SendTyped DEF Approve, Retry
        <2>2. host' \in Handle
            BY <1>2, HandleFacts DEF Approve, Retry, TypeOK
        <2> QED BY <1>2, <2>1, <2>2 DEF Approve, Retry, PrepareTurn, TypeOK, States
    <1>3. ASSUME PatchSpec PROVE TypeOK'
        <2>1. sent' \in 0..MaxTurns /\ input' \in Seq(Command) /\ state' \in States
            BY <1>3, SendTyped DEF PatchSpec, Reply, TypeOK, States
        <2>2. spec' \in BOOLEAN
            BY <1>3 DEF PatchSpec, TypeOK
        <2> QED BY <1>3, <2>1, <2>2 DEF PatchSpec, TypeOK
    <1>4. ASSUME Abort PROVE TypeOK'
        BY <1>4, AppendFacts, CommandFacts DEF Abort, Send, TypeOK
    <1>5. ASSUME OnQuestion PROVE TypeOK'
        <2>1. output' \in Seq(Event)
            BY <1>5, TakeTyped DEF OnQuestion
        <2>2. host' \in Handle
            BY <1>5, HandleFacts DEF OnQuestion, TypeOK
        <2>3. sent' \in 0..MaxTurns /\ input' \in Seq(Command) /\ state' \in States
            BY <1>5, SendTyped DEF OnQuestion, Reply, TypeOK, States
        <2> QED BY <1>5, <2>1, <2>2, <2>3 DEF OnQuestion, TypeOK
    <1>6. ASSUME OnDraft PROVE TypeOK'
        <2>1. output' \in Seq(Event)
            BY <1>6, TakeTyped DEF OnDraft
        <2>2. host' \in Handle
            BY <1>6, HandleFacts DEF OnDraft, TypeOK
        <2>3. sent' \in 0..MaxTurns /\ input' \in Seq(Command) /\ state' \in States
            BY <1>6, SendTyped DEF OnDraft, Reply, TypeOK, States
        <2> QED BY <1>6, <2>1, <2>2, <2>3 DEF OnDraft, TypeOK
    <1>7. ASSUME OnTool PROVE TypeOK'
        <2> DEFINE e == Head(output)
        <2>1. output' \in Seq(Event) /\ e.turn \in Turns /\ e.reason \in Reasons
            BY <1>7, TakeTyped, EventFacts DEF OnTool, Take
        <2>2. CASE e.reason \in host.allowedGated
            BY <1>7, <2>1, <2>2 DEF OnTool, TypeOK
        <2>3. CASE e.reason \notin host.allowedGated
            <3>1. EscalateGate(e.reason, e.turn)
                BY <1>7, <2>3 DEF OnTool
            <3>2. host' \in Handle
                BY <2>1, <3>1, HandleFacts DEF EscalateGate, TypeOK
            <3>3. input' \in Seq(Command)
                BY <3>1, AppendFacts, CommandFacts DEF EscalateGate, Send, TypeOK
            <3>4. gated' \in SUBSET Turns /\ stopped' \in SUBSET Turns /\ state' \in States
                BY <2>1, <3>1 DEF EscalateGate, TypeOK, States
            <3> QED BY <1>7, <2>1, <3>2, <3>3, <3>4 DEF OnTool, TypeOK
        <2> QED BY <2>2, <2>3
    <1>8. ASSUME OnSettled \/ OnStray PROVE TypeOK'
        <2>1. output' \in Seq(Event) /\ (OnSettled => Head(output).turn \in Turns)
            BY <1>8, TakeTyped, EventFacts DEF OnSettled, OnStray, Take
        <2>2. PICK ended \in SUBSET Turns, p \in Turns \cup {0} : Settled(ended, p)
            BY <1>8, <2>1 DEF OnSettled, OnStray
        <2>3. CASE AbortSettle(host)
            <3>1. host' \in Handle
                BY <2>2, <2>3, HandleFacts DEF Settled, TypeOK
            <3> QED BY <2>1, <2>2, <2>3, <3>1 DEF Settled, TypeOK
        <2>4. CASE ~AbortSettle(host)
            <3>1. input' \in Seq(Command)
                BY <2>2, <2>4, AppendFacts, CommandFacts DEF Settled, Send, TypeOK
            <3>2. checking' \in SUBSET (Turns \cup {0})
                BY <2>2, <2>4 DEF Settled, TypeOK
            <3>3. finished' \in SUBSET Turns /\ state' \in States
                BY <2>2, <2>4 DEF Settled, TypeOK, States
            <3> QED BY <2>1, <2>2, <2>4, <3>1, <3>2, <3>3 DEF Settled, TypeOK
        <2> QED BY <2>3, <2>4
    <1>9. ASSUME OnUsage \/ OnRefused PROVE TypeOK'
        <2>1. output' \in Seq(Event)
            BY <1>9, TakeTyped DEF OnUsage, OnRefused
        <2> QED BY <1>9, <2>1 DEF OnUsage, OnRefused, TypeOK, States
    <1>10. ASSUME NEW n \in Turns \cup {0}, PipelineEnds(n) PROVE TypeOK'
        <2>1. host' \in Handle
            BY <1>10, HandleFacts DEF PipelineEnds, TypeOK
        <2>2. sent' \in 0..MaxTurns /\ input' \in Seq(Command) /\ state' \in States
            BY <1>10, SendTyped DEF PipelineEnds, TypeOK, States
        <2> QED BY <1>10, <2>1, <2>2 DEF PipelineEnds, TypeOK
    <1>11. ASSUME Crash \/ Reap \/ Abandon PROVE TypeOK'
        <2>1. LoseHost /\ state' \in States
            BY <1>11 DEF Crash, Reap, Abandon, TypeOK, States
        <2>2. 0 \in 0..MaxTurns
            BY AgentTurnAssumption
        <2> QED BY <2>1, <2>2, FreshHandleTyped, EmptyFacts DEF LoseHost, TypeOK
    <1>12. ASSUME ReadPrompt PROVE TypeOK'
        <2>1. Head(input) \in Command /\ input' \in Seq(Command)
            BY <1>12, TailFacts DEF ReadPrompt, TypeOK
        <2>2. turn' \in 0..MaxTurns
            BY <1>12, <2>1, CommandFacts DEF ReadPrompt, IsPrompt, TypeOK, Turns
        <2>3. output' \in Seq(Event)
            BY <1>12, EmitTyped, EventFacts DEF ReadPrompt, TypeOK
        <2> QED BY <1>12, <2>1, <2>2, <2>3 DEF ReadPrompt, TypeOK
    <1>13. ASSUME ReadAbort PROVE TypeOK'
        <2>1. input' \in Seq(Command)
            BY <1>13, TailFacts DEF ReadAbort, TypeOK
        <2>2. turn # 0 => turn \in Turns
            BY DEF TypeOK, Turns
        <2>3. output' \in Seq(Event)
            <3>1. CASE turn # 0
                <4>1. [ev |-> "settled", turn |-> turn] \in Event
                    BY <2>2, <3>1, EventFacts
                <4> QED BY <1>13, <3>1, <4>1, EmitTyped DEF ReadAbort
            <3>2. CASE turn = 0
                BY <1>13, <3>2, EmitTyped, EventFacts DEF ReadAbort, TypeOK
            <3> QED BY <3>1, <3>2
        <2>4. turn' \in 0..MaxTurns
            BY <1>13, AgentTurnAssumption DEF ReadAbort
        <2> QED BY <1>13, <2>1, <2>3, <2>4 DEF ReadAbort, TypeOK
    <1>14. ASSUME ReadStats PROVE TypeOK'
        <2>1. input' \in Seq(Command)
            BY <1>14, TailFacts DEF ReadStats, TypeOK
        <2>2. output' \in Seq(Event)
            BY <1>14, EmitTyped, EventFacts DEF ReadStats
        <2> QED BY <1>14, <2>1, <2>2 DEF ReadStats, TypeOK
    <1>15. ASSUME Work PROVE TypeOK'
        <2>1. turn \in Turns /\ 0 \in 0..MaxTurns
            BY <1>15, AgentTurnAssumption DEF Work, TypeOK, Turns
        <2>2. output' \in Seq(Event)
            <3>1. /\ \A k \in {"question", "draft", "settled"} : [ev |-> k, turn |-> turn] \in Event
                  /\ \A r \in Reasons : [ev |-> "tool", turn |-> turn, reason |-> r] \in Event
                BY <2>1, EventFacts
            <3>2. PICK e \in Event : Emit(e)
                BY <1>15, <3>1 DEF Work
            <3> QED BY <3>2, EmitTyped
        <2>3. turn' \in 0..MaxTurns
            BY <1>15, <2>1 DEF Work, TypeOK
        <2> QED BY <1>15, <2>2, <2>3 DEF Work, TypeOK
    <1>16. CASE UNCHANGED vars
        BY <1>16 DEF TypeOK
    <1> QED BY <1>1, <1>2, <1>3, <1>4, <1>5, <1>6, <1>7, <1>8, <1>9, <1>10,
               <1>11, <1>12, <1>13, <1>14, <1>15, <1>16 DEF Next

\* Every reachable state is typed: the questions counted are within the budget and
\* one, and a turn is the number of a prompt that was sent.  (contract.ts)
THEOREM TypeCorrect == Spec => []TypeOK
    BY InitTyped, NextTyped, PTL DEF Spec

-----------------------------------------------------------------------------
(* A gated turn is aborted                                                  *)
(*                                                                          *)
(* The property alone is not inductive: the agent must not begin a turn that *)
(* was gated before (FreshPrompts), and a late tool event must not gate a    *)
(* turn whose prompt is still in the pipe (LateTools).                       *)

Prompts == {i \in DOMAIN input : IsPrompt(input[i])}
Events  == {output[j] : j \in DOMAIN output}
Tools   == {e \in Events : e.ev = "tool"}

NumbersSent == turn <= sent /\ gated \subseteq 1..sent

FreshPrompts ==
    /\ \A i \in Prompts : input[i].turn <= sent /\ input[i].turn \notin gated /\ input[i].turn # turn
    /\ \A i, j \in Prompts : i # j => input[i].turn # input[j].turn

LateTools ==
    \A e \in Tools : e.turn <= sent /\ \A i \in Prompts : input[i].turn # e.turn

Inv == NumbersSent /\ FreshPrompts /\ LateTools /\ GatedTurnIsAborted

\* What the pipe of events holds after an event was taken or sent.
LEMMA TakeShrinks ==
    ASSUME TypeOK, NEW e, Take(e)
    PROVE  Events' \subseteq Events /\ Head(output) \in Events
    <1>1. /\ \A j \in DOMAIN Tail(output) : j + 1 \in DOMAIN output /\ Tail(output)[j] = output[j + 1]
          /\ Head(output) = output[1] /\ 1 \in DOMAIN output
        BY TailFacts DEF Take, TypeOK
    <1> QED BY <1>1 DEF Take, Events

LEMMA EmitAdds ==
    ASSUME TypeOK, NEW e \in Event, Emit(e)
    PROVE  Events' \subseteq Events \cup {e}
    <1>1. /\ DOMAIN output = 1..Len(output) /\ Len(output) \in Nat
          /\ DOMAIN output' = 1..Len(output) + 1
          /\ output'[Len(output) + 1] = e
          /\ \A j \in DOMAIN output : output'[j] = output[j]
        BY AppendFacts DEF Emit, TypeOK
    <1>2. \A j \in DOMAIN output' : j = Len(output) + 1 \/ j \in DOMAIN output
        BY <1>1
    <1> QED BY <1>1, <1>2 DEF Events

\* What the pipe of commands holds after one was sent.
LEMMA SendAdds ==
    ASSUME TypeOK, NEW c \in Command, Send(c)
    PROVE  /\ DOMAIN input \subseteq DOMAIN input'
           /\ \A i \in DOMAIN input : input'[i] = input[i]
           /\ \E k \in DOMAIN input' \ DOMAIN input :
                /\ DOMAIN input' = DOMAIN input \cup {k}
                /\ input'[k] = c
    <1>1. /\ DOMAIN input = 1..Len(input) /\ Len(input) \in Nat
          /\ DOMAIN input' = 1..Len(input) + 1
          /\ input'[Len(input) + 1] = c
          /\ \A i \in DOMAIN input : input'[i] = input[i]
        BY AppendFacts DEF Send, TypeOK
    <1>2. /\ Len(input) + 1 \in DOMAIN input' \ DOMAIN input
          /\ DOMAIN input' = DOMAIN input \cup {Len(input) + 1}
        BY <1>1
    <1> QED BY <1>1, <1>2

LEMMA TypedBound ==
    ASSUME TypeOK
    PROVE  /\ sent \in Nat /\ turn \in Nat
           /\ \A i \in Prompts : input[i] \in Command /\ input[i].turn \in Turns
           /\ \A e \in Tools : e.turn \in Turns
           /\ \A n \in Turns : n \in Nat /\ n # 0
           /\ 0 \notin gated
    <1>1. \A i \in DOMAIN input : input[i] \in Command
        BY DEF TypeOK
    <1>2. \A j \in DOMAIN output : output[j] \in Event
        BY DEF TypeOK
    <1>3. sent \in Nat /\ turn \in Nat /\ (\A n \in Turns : n \in Nat /\ n # 0) /\ 0 \notin gated
        BY AgentTurnAssumption DEF TypeOK, Turns
    <1>4. \A i \in Prompts : input[i] \in Command /\ input[i].turn \in Turns
        BY <1>1, CommandFacts DEF Prompts
    <1>5. \A e \in Tools : e.turn \in Turns
        BY <1>2, EventFacts DEF Tools, Events
    <1> QED BY <1>3, <1>4, <1>5

\* A new prompt has a number of its own.
LEMMA PromptKeeps ==
    ASSUME TypeOK, Inv, NEW k \in {"prompt", "steer", "retry"}, SendPrompt(k),
           turn' = turn, gated' = gated, Events' \subseteq Events
    PROVE  Inv'
    <1> DEFINE c == [cmd |-> k, turn |-> sent + 1]
    <1>1. sent + 1 \in Turns /\ sent' = sent + 1 /\ sent \in Nat
        BY AgentTurnAssumption DEF SendPrompt, TypeOK, Turns
    <1>2. c \in Command /\ IsPrompt(c) /\ c.turn = sent + 1
        BY <1>1, CommandFacts DEF IsPrompt
    <1>3. PICK m \in DOMAIN input' \ DOMAIN input :
              DOMAIN input' = DOMAIN input \cup {m} /\ input'[m] = c
        BY <1>2, SendAdds DEF SendPrompt
    <1>4. \A i \in DOMAIN input : i \in DOMAIN input' /\ input'[i] = input[i]
        BY <1>2, SendAdds DEF SendPrompt
    <1>5. Prompts' = Prompts \cup {m} /\ m \notin Prompts
        BY <1>2, <1>3, <1>4 DEF Prompts
    <1>6. \A i \in Prompts : input'[i] = input[i] /\ input[i].turn \in Nat /\ input[i].turn <= sent
        BY <1>4, TypedBound DEF Prompts, Inv, FreshPrompts
    <1>7. Tools' \subseteq Tools
        BY DEF Tools
    <1>8. NumbersSent'
        BY <1>1, TypedBound DEF Inv, NumbersSent
    <1>9. FreshPrompts'
        BY <1>1, <1>2, <1>3, <1>5, <1>6, TypedBound DEF Inv, FreshPrompts, NumbersSent
    <1>10. LateTools'
        BY <1>1, <1>2, <1>3, <1>5, <1>6, <1>7, TypedBound DEF Inv, LateTools
    <1>11. GatedTurnIsAborted'
        BY <1>4 DEF Inv, GatedTurnIsAborted
    <1> QED BY <1>8, <1>9, <1>10, <1>11 DEF Inv

\* Neither a new command of another kind nor an event taken disturbs it.
LEMMA OtherKeeps ==
    ASSUME TypeOK, Inv, UNCHANGED <<turn, sent, gated>>, Events' \subseteq Events,
           input' = input \/ \E k \in {"abort", "stats"} : Send([cmd |-> k])
    PROVE  Inv'
    <1>1. \A i \in DOMAIN input : i \in DOMAIN input' /\ input'[i] = input[i]
        BY CommandFacts, SendAdds
    <1>2. Prompts' = Prompts
        <2>1. CASE input' = input
            BY <2>1 DEF Prompts
        <2>2. CASE \E k \in {"abort", "stats"} : Send([cmd |-> k])
            <3>1. PICK k \in {"abort", "stats"} : Send([cmd |-> k])
                BY <2>2
            <3>2. [cmd |-> k] \in Command /\ ~IsPrompt([cmd |-> k])
                BY CommandFacts DEF IsPrompt
            <3> QED BY <1>1, <3>1, <3>2, SendAdds DEF Prompts
        <2> QED BY <2>1, <2>2
    <1>3. \A i \in Prompts : input'[i] = input[i]
        BY <1>1 DEF Prompts
    <1>4. Tools' \subseteq Tools
        BY DEF Tools
    <1>5. NumbersSent' /\ FreshPrompts' /\ LateTools'
        BY <1>2, <1>3, <1>4 DEF Inv, NumbersSent, FreshPrompts, LateTools
    <1>6. GatedTurnIsAborted'
        BY <1>1 DEF Inv, GatedTurnIsAborted
    <1> QED BY <1>5, <1>6 DEF Inv

\* What the agent leaves when it reads a command.
LEMMA ReadShrinks ==
    ASSUME TypeOK, input # <<>>, input' = Tail(input)
    PROVE  /\ 1 \in DOMAIN input /\ Head(input) = input[1]
           /\ \A i \in Prompts' : i + 1 \in Prompts /\ i + 1 # 1 /\ input'[i] = input[i + 1]
           /\ \A i, j \in Prompts' : i # j => i + 1 # j + 1
           /\ \A i \in DOMAIN input : i # 1 => i - 1 \in DOMAIN input' /\ input[i] = input'[i - 1]
    <1>1. /\ DOMAIN input = 1..Len(input) /\ Len(input) \in Nat \ {0}
          /\ Head(input) = input[1]
          /\ DOMAIN input' = 1..Len(input) - 1
          /\ \A i \in DOMAIN input' : i + 1 \in DOMAIN input /\ input'[i] = input[i + 1]
          /\ \A i \in DOMAIN input : i # 1 => i - 1 \in DOMAIN input' /\ input[i] = input'[i - 1]
        BY TailFacts DEF TypeOK
    <1> QED BY <1>1 DEF Prompts

\* A gated tool takes the place of its turn among the gated ones.
LEMMA ToolKeeps == TypeOK /\ Inv /\ OnTool => Inv'
    <1> SUFFICES ASSUME TypeOK, Inv, OnTool PROVE Inv'
        OBVIOUS
    <1> DEFINE e == Head(output)
    <1>1. Events' \subseteq Events /\ e \in Tools
        BY TakeShrinks DEF OnTool, Take, Tools
    <1>2. CASE e.reason \in host.allowedGated
        BY <1>1, <1>2, OtherKeeps DEF OnTool
    <1>3. CASE e.reason \notin host.allowedGated
        <2>1. /\ Send([cmd |-> "abort"]) /\ gated' = gated \cup {e.turn}
              /\ turn' = turn /\ sent' = sent
            BY <1>3 DEF OnTool, EscalateGate
        <2>2. [cmd |-> "abort"] \in Command /\ ~IsPrompt([cmd |-> "abort"])
              /\ [cmd |-> "abort"].cmd = "abort"
            BY CommandFacts DEF IsPrompt
        <2>3. PICK m \in DOMAIN input' \ DOMAIN input :
                  DOMAIN input' = DOMAIN input \cup {m} /\ input'[m] = [cmd |-> "abort"]
            BY <2>1, <2>2, SendAdds
        <2>4. \A i \in DOMAIN input : i \in DOMAIN input' /\ input'[i] = input[i]
            BY <2>1, <2>2, SendAdds
        <2>5. Prompts' = Prompts /\ \A i \in Prompts : input'[i] = input[i]
            BY <2>2, <2>3, <2>4 DEF Prompts
        <2>6. e.turn \in Nat /\ e.turn # 0 /\ e.turn <= sent /\ sent \in Nat
            BY <1>1, TypedBound DEF Inv, LateTools
        <2>7. NumbersSent'
            <3>1. e.turn \in 1..sent
                BY <2>6
            <3> QED BY <2>1, <3>1 DEF Inv, NumbersSent
        <2>8. FreshPrompts'
            BY <1>1, <2>1, <2>5 DEF Inv, FreshPrompts, LateTools
        <2>9. LateTools'
            BY <1>1, <2>1, <2>5 DEF Inv, LateTools, Tools
        <2>10. GatedTurnIsAborted'
            BY <2>2, <2>3 DEF GatedTurnIsAborted
        <2> QED BY <2>7, <2>8, <2>9, <2>10 DEF Inv
    <1> QED BY <1>2, <1>3

LEMMA LoseKeeps == TypeOK /\ LoseHost /\ Inv => Inv'
    <1> SUFFICES ASSUME TypeOK, LoseHost, Inv PROVE Inv'
        OBVIOUS
    <1>1. Prompts' = {} /\ Tools' = {}
        BY EmptyFacts DEF LoseHost, Prompts, Tools, Events
    <1>2. NumbersSent' /\ turn' \notin gated'
        BY TypedBound DEF LoseHost, Inv, NumbersSent, historyVars
    <1> QED BY <1>1, <1>2 DEF Inv, FreshPrompts, LateTools, GatedTurnIsAborted

\* The turn the agent begins was never gated, and no tool event of it is late.
LEMMA ReadPromptKeeps == TypeOK /\ Inv /\ ReadPrompt => Inv'
    <1> SUFFICES ASSUME TypeOK, Inv, ReadPrompt PROVE Inv'
        OBVIOUS
    <1>1. sent' = sent /\ gated' = gated
        BY DEF ReadPrompt, historyVars
    <1>2. /\ 1 \in Prompts /\ Head(input) = input[1] /\ input[1].cmd # "abort"
          /\ \A i \in Prompts' : i + 1 \in Prompts /\ i + 1 # 1 /\ input'[i] = input[i + 1]
          /\ \A i, j \in Prompts' : i # j => i + 1 # j + 1
          /\ \A i \in DOMAIN input : i # 1 => i - 1 \in DOMAIN input' /\ input[i] = input'[i - 1]
        BY ReadShrinks DEF ReadPrompt, Prompts, IsPrompt
    <1>3. turn' = turn \/ turn' = input[1].turn
        BY <1>2 DEF ReadPrompt
    <1>4. Tools' \subseteq Tools
        <2>1. CASE Emit([ev |-> "refused"])
            <3>1. [ev |-> "refused"] \in Event /\ [ev |-> "refused"].ev # "tool"
                BY EventFacts
            <3> QED BY <2>1, <3>1, EmitAdds DEF Tools
        <2>2. CASE output' = output
            BY <2>2 DEF Tools, Events
        <2> QED BY <2>1, <2>2 DEF ReadPrompt
    <1>5. NumbersSent'
        BY <1>1, <1>2, <1>3 DEF Inv, NumbersSent, FreshPrompts
    <1>6. FreshPrompts'
        BY <1>1, <1>2, <1>3 DEF Inv, FreshPrompts
    <1>7. LateTools'
        BY <1>1, <1>2, <1>4 DEF Inv, LateTools
    <1>8. GatedTurnIsAborted'
        <2>1. CASE turn' = input[1].turn
            BY <1>1, <1>2, <2>1 DEF Inv, FreshPrompts, GatedTurnIsAborted
        <2>2. CASE turn' = turn
            <3> SUFFICES ASSUME turn \in gated
                         PROVE  \E i \in DOMAIN input' : input'[i].cmd = "abort"
                BY <1>1, <2>2 DEF GatedTurnIsAborted
            <3>1. PICK i \in DOMAIN input : input[i].cmd = "abort"
                BY DEF Inv, GatedTurnIsAborted
            <3>2. i # 1
                BY <1>2, <3>1
            <3> QED BY <1>2, <3>1, <3>2
        <2> QED BY <1>3, <2>1, <2>2
    <1> QED BY <1>5, <1>6, <1>7, <1>8 DEF Inv

\* An abort read ends the turn; a request for the statistics leaves it.
LEMMA ReadOtherKeeps == TypeOK /\ Inv /\ (ReadAbort \/ ReadStats) => Inv'
    <1> SUFFICES ASSUME TypeOK, Inv, ReadAbort \/ ReadStats PROVE Inv'
        OBVIOUS
    <1>1. sent' = sent /\ gated' = gated
        BY DEF ReadAbort, ReadStats, historyVars
    <1>2. /\ 1 \in DOMAIN input /\ Head(input) = input[1]
          /\ \A i \in Prompts' : i + 1 \in Prompts /\ input'[i] = input[i + 1]
          /\ \A i, j \in Prompts' : i # j => i + 1 # j + 1
          /\ \A i \in DOMAIN input : i # 1 => i - 1 \in DOMAIN input' /\ input[i] = input'[i - 1]
        BY ReadShrinks DEF ReadAbort, ReadStats
    <1>3. turn' = 0 \/ (turn' = turn /\ input[1].cmd # "abort")
        BY <1>2 DEF ReadAbort, ReadStats
    <1>4. Tools' \subseteq Tools
        <2>1. \A k \in {"settled"} : [ev |-> k, turn |-> turn].ev # "tool"
            OBVIOUS
        <2>2. CASE ReadAbort /\ turn # 0
            <3>1. turn \in Turns
                BY <2>2 DEF TypeOK, Turns
            <3>2. [ev |-> "settled", turn |-> turn] \in Event
                BY <3>1, EventFacts
            <3> QED BY <2>1, <2>2, <3>2, EmitAdds DEF ReadAbort, Tools
        <2>3. CASE ReadStats
            <3>1. [ev |-> "usage"] \in Event /\ [ev |-> "usage"].ev # "tool"
                BY EventFacts
            <3> QED BY <2>3, <3>1, EmitAdds DEF ReadStats, Tools
        <2>4. CASE Emit([ev |-> "stray"])
            <3>1. [ev |-> "stray"] \in Event /\ [ev |-> "stray"].ev # "tool"
                BY EventFacts
            <3> QED BY <2>4, <3>1, EmitAdds DEF Tools
        <2>5. CASE output' = output
            BY <2>5 DEF Tools, Events
        <2> QED BY <2>2, <2>3, <2>4, <2>5 DEF ReadAbort
    <1>5. NumbersSent'
        BY <1>1, <1>3, TypedBound DEF Inv, NumbersSent
    <1>6. FreshPrompts'
        BY <1>1, <1>2, <1>3, TypedBound DEF Inv, FreshPrompts
    <1>7. LateTools'
        BY <1>1, <1>2, <1>4 DEF Inv, LateTools
    <1>8. GatedTurnIsAborted'
        <2>1. CASE turn' = 0
            BY <1>1, <2>1, TypedBound DEF GatedTurnIsAborted
        <2>2. CASE turn' = turn /\ input[1].cmd # "abort"
            <3> SUFFICES ASSUME turn \in gated
                         PROVE  \E i \in DOMAIN input' : input'[i].cmd = "abort"
                BY <1>1, <2>2 DEF GatedTurnIsAborted
            <3>1. PICK i \in DOMAIN input : input[i].cmd = "abort"
                BY DEF Inv, GatedTurnIsAborted
            <3>2. i # 1
                BY <2>2, <3>1
            <3> QED BY <1>2, <3>1, <3>2
        <2> QED BY <1>3, <2>1, <2>2
    <1> QED BY <1>5, <1>6, <1>7, <1>8 DEF Inv

\* The tool events of a turn at work are late only for that turn.
LEMMA WorkKeeps == TypeOK /\ Inv /\ Work => Inv'
    <1> SUFFICES ASSUME TypeOK, Inv, Work PROVE Inv'
        OBVIOUS
    <1>1. /\ sent' = sent /\ gated' = gated /\ input' = input
          /\ turn \in Turns
          /\ turn' = turn \/ turn' = 0
        <2>1. sent' = sent /\ gated' = gated /\ input' = input
            BY DEF Work, historyVars
        <2>2. turn \in Turns
            BY DEF Work, TypeOK, Turns
        <2>3. turn' = turn \/ turn' = 0
            BY DEF Work
        <2> QED BY <2>1, <2>2, <2>3
    <1>2. Prompts' = Prompts
        BY <1>1 DEF Prompts
    <1>3. \A x \in Tools' : x \in Tools \/ x.turn = turn
        <2>1. /\ \A k \in {"question", "draft", "settled"} : [ev |-> k, turn |-> turn] \in Event
              /\ \A r \in Reasons : [ev |-> "tool", turn |-> turn, reason |-> r] \in Event
            BY <1>1, EventFacts
        <2>2. PICK x \in Event : Emit(x) /\ x.turn = turn
            BY <2>1 DEF Work
        <2> QED BY <2>2, EmitAdds DEF Tools
    <1>4. NumbersSent' /\ FreshPrompts' /\ GatedTurnIsAborted'
        BY <1>1, <1>2, TypedBound DEF Inv, NumbersSent, FreshPrompts, GatedTurnIsAborted
    <1>5. LateTools'
        BY <1>1, <1>2, <1>3 DEF Inv, NumbersSent, FreshPrompts, LateTools
    <1> QED BY <1>4, <1>5 DEF Inv

\* Every action keeps the invariant.
LEMMA NextKeeps == TypeOK /\ Inv /\ [Next]_vars => Inv'
    <1> SUFFICES ASSUME TypeOK, Inv, [Next]_vars PROVE Inv'
        OBVIOUS
    <1> USE DEF vars, gatewayVars, historyVars
    <1>0. ASSUME output' = output PROVE Events' \subseteq Events
        BY <1>0 DEF Events
    <1>1. ASSUME NEW k \in {"prompt", "steer"}, Prompt(k) PROVE Inv'
        BY <1>0, <1>1, PromptKeeps DEF Prompt
    <1>2. ASSUME Approve \/ Retry PROVE Inv'
        BY <1>0, <1>2, PromptKeeps DEF Approve, Retry
    <1>3. ASSUME PatchSpec PROVE Inv'
        BY <1>0, <1>3, PromptKeeps, OtherKeeps DEF PatchSpec, Reply
    <1>4. ASSUME Abort PROVE Inv'
        BY <1>0, <1>4, OtherKeeps DEF Abort
    <1>5. ASSUME OnQuestion PROVE Inv'
        BY <1>5, TakeShrinks, PromptKeeps, OtherKeeps DEF OnQuestion, Reply
    <1>6. ASSUME OnDraft PROVE Inv'
        BY <1>6, TakeShrinks, PromptKeeps, OtherKeeps DEF OnDraft, Reply
    <1>7. ASSUME OnTool PROVE Inv'
        BY <1>7, ToolKeeps
    <1>8. ASSUME OnSettled \/ OnStray PROVE Inv'
        BY <1>8, TakeShrinks, OtherKeeps DEF OnSettled, OnStray, Settled
    <1>9. ASSUME OnUsage \/ OnRefused PROVE Inv'
        BY <1>9, TakeShrinks, OtherKeeps DEF OnUsage, OnRefused
    <1>10. ASSUME NEW n \in Turns \cup {0}, PipelineEnds(n) PROVE Inv'
        BY <1>0, <1>10, PromptKeeps, OtherKeeps DEF PipelineEnds
    <1>11. ASSUME Crash \/ Reap \/ Abandon PROVE Inv'
        BY <1>11, LoseKeeps DEF Crash, Reap, Abandon
    <1>12. ASSUME ReadPrompt PROVE Inv'
        BY <1>12, ReadPromptKeeps
    <1>13. ASSUME ReadAbort \/ ReadStats PROVE Inv'
        BY <1>13, ReadOtherKeeps
    <1>14. ASSUME Work PROVE Inv'
        BY <1>14, WorkKeeps
    <1>15. CASE UNCHANGED vars
        BY <1>0, <1>15, OtherKeeps
    <1> QED BY <1>1, <1>2, <1>3, <1>4, <1>5, <1>6, <1>7, <1>8, <1>9, <1>10,
               <1>11, <1>12, <1>13, <1>14, <1>15 DEF Next

LEMMA InitHolds == Init => Inv
    <1> SUFFICES ASSUME Init PROVE Inv
        OBVIOUS
    <1>1. Prompts = {} /\ Tools = {}
        BY EmptyFacts DEF Init, Prompts, Tools, Events
    <1> QED BY <1>1 DEF Init, Inv, NumbersSent, FreshPrompts, LateTools, GatedTurnIsAborted

\* A turn that reached for a gated action the user has not allowed does not
\* go on: as long as it runs, an abort is on its way to it.  (escalateGate)
THEOREM GatedTurnStops == Spec => []GatedTurnIsAborted
    <1>1. Inv => GatedTurnIsAborted
        BY DEF Inv
    <1> QED BY <1>1, InitTyped, InitHolds, NextTyped, NextKeeps, PTL DEF Spec

-----------------------------------------------------------------------------
(* Turns end in the order they began                                        *)
(*                                                                          *)
(* That the settle of a stopped turn finds its marker rests on the order of *)
(* the pipe: turns begin in the order of their prompts, and what a turn did *)
(* lies before its settle and behind the settle of the turn before.         *)

Worked  == {j \in DOMAIN output : output[j].ev \in {"tool", "settled"}}
Settles == {j \in Worked : output[j].ev = "settled"}

\* An event may come before another of turn n.
Before(e, n) == IF e.ev = "settled" THEN e.turn < n ELSE e.turn <= n

InTurn ==
    /\ \A i, j \in Worked : i < j => Before(output[i], output[j].turn)
    /\ \A j \in Worked :
        /\ output[j].turn <= sent
        /\ turn # 0 => Before(output[j], turn)
        /\ \A i \in Prompts : output[j].turn < input[i].turn

PromptsGrow ==
    /\ \A i, j \in Prompts : i < j => input[i].turn < input[j].turn
    /\ \A i \in Prompts : turn < input[i].turn

Order == InTurn /\ PromptsGrow

\* The settle of a turn is still to come.
Open(n) == turn = n \/ \E j \in Settles : output[j].turn = n

\* A stopped turn is the next to settle, and the marker is set for it.
Marked ==
    /\ stopped \subseteq gated
    /\ \A n \in stopped : Open(n) =>
        /\ host.pendingAbortSettle
        /\ \A j \in Settles : n <= output[j].turn

\* A finished turn is over in every respect.
Done ==
    /\ stopped \cap finished = {}
    /\ \A n \in finished :
        /\ n <= sent /\ turn # n
        /\ \A j \in Worked : output[j].ev = "tool" => output[j].turn # n
        /\ \A i \in Prompts : input[i].turn # n

\* A tool event whose turn has no settle behind it is one of the turn at work, and
\* while the marker waits for a settle that is not in the pipe, a gated turn works.
Owned ==
    /\ \A j \in Worked \ Settles : (\A k \in Settles : k <= j) => turn = output[j].turn
    /\ host.pendingAbortSettle /\ Settles = {} => turn \in gated

\* One more settle is to come than the marker will swallow: it is in the pipe, or the
\* turn at work or one whose prompt is in the pipe will send it.
Swallowed     == host.pendingAbortSettle /\ Settles = {}
SettleInPipe  == \E j \in Settles : host.pendingAbortSettle => \E i \in Settles : i < j
TurnAtWork    == turn # 0 /\ ~Swallowed
PromptInPipe  ==
    \E i \in Prompts : Swallowed => \E k \in DOMAIN input : k < i /\ input[k].cmd = "abort"

Coming == SettleInPipe \/ TurnAtWork \/ PromptInPipe

Awaiting == live /\ state = "streaming" /\ ~host.gateStopped

StreamingEnds == Awaiting => Coming

\* The settle that answers an abort at rest is behind all that a turn did which
\* raised a gate stop, or reached for a tool in front of it.
Strays      == {j \in DOMAIN output : output[j].ev = "stray"}
Over(n, j)  == turn # n /\ \A k \in Settles : output[k].turn = n => k < j
StrayFits   ==
    \A j \in Strays :
        /\ \A n \in stopped : Over(n, j)
        /\ \A i \in Worked \ Settles : i < j => Over(output[i].turn, j)

\* What was in a pipe and still is has moved up by d places at most.
OutShift(d) ==
    /\ \A j \in Worked' : j + d \in Worked /\ output'[j] = output[j + d]
    /\ \A j \in Worked : j > d => j - d \in Worked' /\ output'[j - d] = output[j]

InShift(d) ==
    /\ \A i \in Prompts' : i + d \in Prompts /\ input'[i] = input[i + d]
    /\ \A i \in DOMAIN input : i > d => i - d \in DOMAIN input' /\ input'[i - d] = input[i]

LEMMA OrderTypes ==
    ASSUME TypeOK
    PROVE  /\ sent \in Nat /\ turn \in Nat
           /\ \A j \in Worked : j \in Nat /\ j >= 1 /\ output[j].turn \in Nat /\ output[j].turn >= 1
           /\ \A i \in DOMAIN input : i \in Nat /\ i >= 1
           /\ \A i \in Prompts : i \in DOMAIN input /\ input[i].turn \in Nat /\ input[i].turn >= 1
    <1>1. sent \in Nat /\ turn \in Nat /\ \A n \in Turns : n \in Nat /\ n >= 1
        BY AgentTurnAssumption DEF TypeOK, Turns
    <1>2. \A j \in DOMAIN output : j \in Nat /\ j >= 1 /\ output[j] \in Event
        BY DEF TypeOK
    <1>3. \A i \in DOMAIN input : i \in Nat /\ i >= 1 /\ input[i] \in Command
        BY DEF TypeOK
    <1>4. \A j \in Worked : output[j].turn \in Turns
        BY <1>2, EventFacts DEF Worked
    <1>5. \A i \in Prompts : input[i].turn \in Turns
        BY <1>3, CommandFacts DEF Prompts
    <1> QED BY <1>1, <1>2, <1>3, <1>4, <1>5 DEF Worked, Prompts

LEMMA TakeShifts ==
    ASSUME TypeOK, NEW e, Take(e)
    PROVE  OutShift(1) /\ Head(output) = output[1] /\ 1 \in DOMAIN output /\ output[1].ev = e
    <1>1. /\ \A j \in DOMAIN output' : j \in Nat /\ j + 1 \in DOMAIN output /\ output'[j] = output[j + 1]
          /\ \A j \in DOMAIN output : j # 1 => j - 1 \in DOMAIN output' /\ output[j] = output'[j - 1]
          /\ Head(output) = output[1] /\ 1 \in DOMAIN output
        BY TailFacts DEF Take, TypeOK
    <1> QED BY <1>1, OrderTypes DEF Take, OutShift, Worked

LEMMA SameShifts ==
    ASSUME TypeOK
    PROVE  /\ output' = output => OutShift(0)
           /\ input' = input => InShift(0)
    <1>1. output' = output => Worked' = Worked
        BY DEF Worked
    <1>2. input' = input => Prompts' = Prompts
        BY DEF Prompts
    <1> QED BY <1>1, <1>2, OrderTypes DEF OutShift, InShift

LEMMA EmitFacts ==
    ASSUME TypeOK, NEW e \in Event, Emit(e)
    PROVE  \E m \in Nat :
              /\ output'[m] = e
              /\ DOMAIN output' = DOMAIN output \cup {m}
              /\ \A j \in DOMAIN output : j < m /\ output'[j] = output[j]
    <1>1. /\ DOMAIN output = 1..Len(output) /\ Len(output) \in Nat
          /\ DOMAIN output' = 1..Len(output) + 1
          /\ output'[Len(output) + 1] = e
          /\ \A j \in DOMAIN output : output'[j] = output[j]
        BY AppendFacts DEF Emit, TypeOK
    <1>2. /\ Len(output) + 1 \in Nat /\ DOMAIN output' = DOMAIN output \cup {Len(output) + 1}
          /\ \A j \in DOMAIN output : j < Len(output) + 1
        BY <1>1
    <1> QED BY <1>1, <1>2

LEMMA EmitShifts ==
    ASSUME TypeOK, NEW e \in Event, Emit(e), e.ev \notin {"tool", "settled"}
    PROVE  OutShift(0)
    <1>1. PICK m \in Nat :
              /\ output'[m] = e
              /\ DOMAIN output' = DOMAIN output \cup {m}
              /\ \A j \in DOMAIN output : j < m /\ output'[j] = output[j]
        BY EmitFacts
    <1>2. Worked' = Worked /\ \A j \in Worked : output'[j] = output[j]
        BY <1>1 DEF Worked
    <1> QED BY <1>2, OrderTypes DEF OutShift

\* A turn's own event goes behind all others.
LEMMA EmitTurn ==
    ASSUME TypeOK, NEW e \in Event, Emit(e), e.ev \in {"tool", "settled"}
    PROVE  \E m \in Nat :
              /\ output'[m] = e /\ Worked' = Worked \cup {m}
              /\ \A j \in Worked : j < m /\ output'[j] = output[j]
    <1>1. PICK m \in Nat :
              /\ output'[m] = e
              /\ DOMAIN output' = DOMAIN output \cup {m}
              /\ \A j \in DOMAIN output : j < m /\ output'[j] = output[j]
        BY EmitFacts
    <1>2. Worked' = Worked \cup {m} /\ \A j \in Worked : j < m /\ output'[j] = output[j]
        BY <1>1 DEF Worked
    <1> QED BY <1>1, <1>2

LEMMA SendFacts ==
    ASSUME TypeOK, NEW c \in Command, Send(c)
    PROVE  \E m \in Nat :
              /\ input'[m] = c
              /\ DOMAIN input' = DOMAIN input \cup {m}
              /\ \A i \in DOMAIN input : i < m /\ input'[i] = input[i]
    <1>1. /\ DOMAIN input = 1..Len(input) /\ Len(input) \in Nat
          /\ DOMAIN input' = 1..Len(input) + 1
          /\ input'[Len(input) + 1] = c
          /\ \A i \in DOMAIN input : input'[i] = input[i]
        BY AppendFacts DEF Send, TypeOK
    <1>2. /\ Len(input) + 1 \in Nat /\ DOMAIN input' = DOMAIN input \cup {Len(input) + 1}
          /\ \A i \in DOMAIN input : i < Len(input) + 1
        BY <1>1
    <1> QED BY <1>1, <1>2

LEMMA SendShifts ==
    ASSUME TypeOK, NEW k \in {"abort", "stats"}, Send([cmd |-> k])
    PROVE  InShift(0)
    <1>1. [cmd |-> k] \in Command /\ ~IsPrompt([cmd |-> k])
        BY CommandFacts DEF IsPrompt
    <1>2. PICK m \in Nat :
              /\ input'[m] = [cmd |-> k]
              /\ DOMAIN input' = DOMAIN input \cup {m}
              /\ \A i \in DOMAIN input : i < m /\ input'[i] = input[i]
        BY <1>1, SendFacts
    <1>3. Prompts' = Prompts
        BY <1>1, <1>2 DEF Prompts
    <1> QED BY <1>2, <1>3, OrderTypes DEF InShift

LEMMA SendTurn ==
    ASSUME TypeOK, NEW k \in {"prompt", "steer", "retry"}, SendPrompt(k)
    PROVE  /\ sent' = sent + 1
           /\ \E m \in Nat :
                /\ m \in DOMAIN input' /\ input'[m].turn = sent + 1 /\ Prompts' = Prompts \cup {m}
                /\ \A i \in DOMAIN input : i < m /\ i \in DOMAIN input' /\ input'[i] = input[i]
    <1> DEFINE c == [cmd |-> k, turn |-> sent + 1]
    <1>1. sent + 1 \in Turns /\ sent' = sent + 1
        BY AgentTurnAssumption DEF SendPrompt, TypeOK, Turns
    <1>2. c \in Command /\ IsPrompt(c) /\ c.turn = sent + 1
        BY <1>1, CommandFacts DEF IsPrompt
    <1>3. PICK m \in Nat :
              /\ input'[m] = c
              /\ DOMAIN input' = DOMAIN input \cup {m}
              /\ \A i \in DOMAIN input : i < m /\ input'[i] = input[i]
        BY <1>2, SendFacts DEF SendPrompt
    <1>4. Prompts' = Prompts \cup {m}
        BY <1>2, <1>3 DEF Prompts
    <1> QED BY <1>1, <1>2, <1>3, <1>4

LEMMA ReadShifts ==
    ASSUME TypeOK, input # <<>>, input' = Tail(input)
    PROVE  InShift(1) /\ 1 \in DOMAIN input /\ Head(input) = input[1]
    <1>1. /\ 1 \in DOMAIN input /\ Head(input) = input[1]
          /\ \A i \in Prompts' : i + 1 \in Prompts /\ input'[i] = input[i + 1]
          /\ \A i \in DOMAIN input : i # 1 => i - 1 \in DOMAIN input' /\ input[i] = input'[i - 1]
        BY ReadShrinks
    <1>2. \A i \in DOMAIN input : i > 1 => i # 1
        BY OrderTypes
    <1> QED BY <1>1, <1>2 DEF InShift

-----------------------------------------------------------------------------
(* The order of the pipe *)

\* Events taken, commands read and the end of a turn leave the rest in order.
LEMMA KeptOrder ==
    ASSUME TypeOK, TypeOK', Order, NEW d \in {0, 1}, OutShift(d), NEW c \in {0, 1}, InShift(c),
           turn' \in {turn, 0}, sent' = sent
    PROVE  Order'
    <1>1. \A j \in Worked' : j \in Nat /\ j + d \in Worked /\ output'[j] = output[j + d]
        BY OrderTypes DEF OutShift, Worked, TypeOK
    <1>2. \A i \in Prompts' : i \in Nat /\ i + c \in Prompts /\ input'[i] = input[i + c]
        BY DEF InShift, Prompts, TypeOK
    <1>3. ASSUME NEW i \in Worked', NEW j \in Worked', i < j
          PROVE  Before(output'[i], output'[j].turn)
        <2>1. i + d < j + d
            BY <1>1, <1>3
        <2> QED BY <1>1, <2>1 DEF Order, InTurn
    <1>4. ASSUME NEW j \in Worked'
          PROVE  /\ output'[j].turn <= sent'
                 /\ turn' # 0 => Before(output'[j], turn')
                 /\ \A i \in Prompts' : output'[j].turn < input'[i].turn
        BY <1>1, <1>2 DEF Order, InTurn
    <1>5. ASSUME NEW i \in Prompts', NEW j \in Prompts', i < j
          PROVE  input'[i].turn < input'[j].turn
        <2>1. i + c < j + c
            BY <1>2, <1>5
        <2> QED BY <1>2, <2>1 DEF Order, PromptsGrow
    <1>6. ASSUME NEW i \in Prompts'
          PROVE  turn' < input'[i].turn
        BY <1>2, OrderTypes DEF Order, PromptsGrow
    <1> QED BY <1>3, <1>4, <1>5, <1>6 DEF Order, InTurn, PromptsGrow

\* A new prompt has the highest number.
LEMMA PromptOrder ==
    ASSUME TypeOK, TypeOK', Inv, Order, NEW k \in {"prompt", "steer", "retry"}, SendPrompt(k),
           NEW d \in {0, 1}, OutShift(d), turn' = turn
    PROVE  Order'
    <1>1. \A j \in Worked' : j \in Nat /\ j + d \in Worked /\ output'[j] = output[j + d]
        BY OrderTypes DEF OutShift, Worked, TypeOK
    <1>2. /\ sent' = sent + 1 /\ sent \in Nat /\ turn \in Nat /\ turn <= sent
          /\ \A i \in Prompts : input[i].turn \in Nat /\ input[i].turn <= sent
        BY SendTurn, OrderTypes DEF Inv, NumbersSent, FreshPrompts
    <1>3. PICK m \in Nat :
              /\ input'[m].turn = sent + 1 /\ Prompts' = Prompts \cup {m}
              /\ \A i \in Prompts : i \in Nat /\ i < m /\ input'[i] = input[i]
        BY SendTurn, OrderTypes
    <1>4. ASSUME NEW i \in Worked', NEW j \in Worked', i < j
          PROVE  Before(output'[i], output'[j].turn)
        <2>1. i + d < j + d
            BY <1>1, <1>4
        <2> QED BY <1>1, <2>1 DEF Order, InTurn
    <1>5. ASSUME NEW j \in Worked'
          PROVE  /\ output'[j].turn <= sent'
                 /\ turn' # 0 => Before(output'[j], turn')
                 /\ \A i \in Prompts' : output'[j].turn < input'[i].turn
        <2>1. /\ output'[j].turn \in Nat /\ output'[j].turn <= sent
              /\ turn # 0 => Before(output'[j], turn)
              /\ \A i \in Prompts : output'[j].turn < input[i].turn
            BY <1>1, OrderTypes DEF Order, InTurn
        <2>2. output'[j].turn <= sent + 1 /\ output'[j].turn < sent + 1
            BY <1>2, <2>1
        <2> QED BY <1>2, <1>3, <2>1, <2>2
    <1>6. ASSUME NEW i \in Prompts', NEW j \in Prompts', i < j
          PROVE  input'[i].turn < input'[j].turn
        <2>1. i \in Prompts
            BY <1>3, <1>6
        <2>2. CASE j \in Prompts
            BY <1>3, <1>6, <2>1, <2>2 DEF Order, PromptsGrow
        <2>3. CASE j = m
            BY <1>2, <1>3, <2>1, <2>3
        <2> QED BY <1>3, <2>2, <2>3
    <1>7. ASSUME NEW i \in Prompts'
          PROVE  turn' < input'[i].turn
        BY <1>2, <1>3 DEF Order, PromptsGrow
    <1> QED BY <1>4, <1>5, <1>6, <1>7 DEF Order, InTurn, PromptsGrow

\* The turn that begins is the next in order.
LEMMA BeginOrder ==
    ASSUME TypeOK, TypeOK', Order, ReadPrompt, turn = 0
    PROVE  Order'
    <1>1. /\ InShift(1) /\ 1 \in Prompts /\ turn' = input[1].turn /\ sent' = sent
        BY ReadShifts DEF ReadPrompt, Prompts, IsPrompt
    <1>2. OutShift(0)
        BY SameShifts DEF ReadPrompt
    <1>3. \A j \in Worked' : j \in Nat /\ j \in Worked /\ output'[j] = output[j]
        BY <1>2, OrderTypes DEF OutShift, Worked, TypeOK
    <1>4. \A i \in Prompts' : i \in Nat /\ i >= 1 /\ i + 1 \in Prompts /\ input'[i] = input[i + 1]
        BY <1>1 DEF InShift, Prompts, TypeOK
    <1>5. \A i, j \in Worked' : i < j => Before(output'[i], output'[j].turn)
        BY <1>3 DEF Order, InTurn
    <1>6. ASSUME NEW j \in Worked'
          PROVE  /\ output'[j].turn <= sent'
                 /\ turn' # 0 => Before(output'[j], turn')
                 /\ \A i \in Prompts' : output'[j].turn < input'[i].turn
        <2>1. output'[j].turn \in Nat /\ output'[j].turn < turn' /\ turn' \in Nat
            BY <1>1, <1>3, OrderTypes DEF Order, InTurn
        <2>2. Before(output'[j], turn')
            BY <2>1 DEF Before
        <2> QED BY <1>1, <1>3, <1>4, <2>2 DEF Order, InTurn
    <1>7. ASSUME NEW i \in Prompts', NEW j \in Prompts', i < j
          PROVE  input'[i].turn < input'[j].turn
        <2>1. i + 1 < j + 1
            BY <1>4, <1>7
        <2> QED BY <1>4, <2>1 DEF Order, PromptsGrow
    <1>8. ASSUME NEW i \in Prompts'
          PROVE  turn' < input'[i].turn
        <2>1. 1 < i + 1
            BY <1>4
        <2> QED BY <1>1, <1>4, <2>1 DEF Order, PromptsGrow
    <1> QED BY <1>5, <1>6, <1>7, <1>8 DEF Order, InTurn, PromptsGrow

\* What the turn at work does comes behind all that was done before.
LEMMA WorkOrder ==
    ASSUME TypeOK, TypeOK', Inv, Order, turn # 0, NEW e \in Event, Emit(e), e.turn = turn,
           \/ e.ev = "tool" /\ turn' = turn
           \/ e.ev = "settled" /\ turn' = 0,
           NEW c \in {0, 1}, InShift(c), sent' = sent
    PROVE  Order'
    <1>1. PICK m \in Nat :
              /\ output'[m] = e /\ Worked' = Worked \cup {m}
              /\ \A j \in Worked : j \in Nat /\ j < m /\ output'[j] = output[j]
        BY EmitTurn, OrderTypes
    <1>2. \A i \in Prompts' : i \in Nat /\ i + c \in Prompts /\ input'[i] = input[i + c]
        BY DEF InShift, Prompts, TypeOK
    <1>3. turn \in Nat /\ turn <= sent
        BY OrderTypes DEF Inv, NumbersSent
    <1>4. ASSUME NEW i \in Worked', NEW j \in Worked', i < j
          PROVE  Before(output'[i], output'[j].turn)
        <2>1. i \in Worked
            BY <1>1, <1>4
        <2>2. CASE j \in Worked
            BY <1>1, <1>4, <2>1, <2>2 DEF Order, InTurn
        <2>3. CASE j = m
            BY <1>1, <2>1, <2>3 DEF Order, InTurn
        <2> QED BY <1>1, <2>2, <2>3
    <1>5. ASSUME NEW j \in Worked'
          PROVE  /\ output'[j].turn <= sent'
                 /\ turn' # 0 => Before(output'[j], turn')
                 /\ \A i \in Prompts' : output'[j].turn < input'[i].turn
        <2>1. CASE j \in Worked
            BY <1>1, <1>2, <2>1 DEF Order, InTurn
        <2>2. CASE j = m
            <3>1. turn' # 0 => Before(e, turn')
                BY <1>3 DEF Before
            <3> QED BY <1>1, <1>2, <1>3, <2>2, <3>1 DEF Order, PromptsGrow
        <2> QED BY <1>1, <2>1, <2>2
    <1>6. ASSUME NEW i \in Prompts', NEW j \in Prompts', i < j
          PROVE  input'[i].turn < input'[j].turn
        <2>1. i + c < j + c
            BY <1>2, <1>6
        <2> QED BY <1>2, <2>1 DEF Order, PromptsGrow
    <1>7. ASSUME NEW i \in Prompts'
          PROVE  turn' < input'[i].turn
        BY <1>2, OrderTypes DEF Order, PromptsGrow
    <1> QED BY <1>4, <1>5, <1>6, <1>7 DEF Order, InTurn, PromptsGrow

-----------------------------------------------------------------------------
(* The kinds of steps, as far as the pipes, the turn and the marker go *)

MarkerStays == host'.pendingAbortSettle = host.pendingAbortSettle

\* A prompt is sent; an event may be taken, but no settle.
Prompting ==
    /\ MarkerStays /\ UNCHANGED <<turn, historyVars>>
    /\ \E k \in {"prompt", "steer", "retry"} : SendPrompt(k)
    /\ \E d \in {0, 1} : OutShift(d) /\ (d = 1 => 1 \notin Settles)

\* Nothing that bears on a turn: no prompt is sent or begins a turn, no abort ends one.
Passing ==
    /\ MarkerStays /\ UNCHANGED <<turn, sent, historyVars>> /\ (Awaiting' => Awaiting)
    /\ \E d \in {0, 1} : OutShift(d) /\ (d = 1 => 1 \notin Settles)
    /\ \E c \in {0, 1} : InShift(c) /\ (c = 1 => IF turn = 0 THEN 1 \notin Prompts
                                                             ELSE input[1].cmd # "abort")

\* The turn at work uses a tool, or settles of itself or by an abort.
Turning ==
    /\ UNCHANGED <<gatewayVars, sent, historyVars>>
    /\ turn # 0
    /\ \E e \in Event :
        /\ Emit(e) /\ e.turn = turn
        /\ \/ e.ev = "tool" /\ turn' = turn
           \/ e.ev = "settled" /\ turn' = 0
    /\ \E c \in {0, 1} : InShift(c) /\ (c = 1 => 1 \notin Prompts /\ turn' = 0)

Beginning == turn = 0 /\ ReadPrompt

Gating ==
    /\ Take("tool")
    /\ EscalateGate(Head(output).reason, Head(output).turn)
    /\ UNCHANGED <<turn, sent, finished>>

LEMMA MarkerFacts ==
    ASSUME NEW h \in Handle
    PROVE  /\ [BeginUserTurn(h) EXCEPT !.verifyAttempts = 0].pendingAbortSettle = h.pendingAbortSettle
           /\ BeginExecution(h).pendingAbortSettle = h.pendingAbortSettle
           /\ BeginExecution(AllowPendingGated(h)).pendingAbortSettle = h.pendingAbortSettle
           /\ ClearMarker(h).pendingAbortSettle = FALSE
           /\ ClearMarker(h).gateStopped = h.gateStopped
    <1>1. BeginUserTurn(h) \in Handle /\ BeginUserTurn(h).pendingAbortSettle = h.pendingAbortSettle
        BY HandleFacts DEF Handle, BeginUserTurn
    <1>2. [BeginUserTurn(h) EXCEPT !.verifyAttempts = 0].pendingAbortSettle = h.pendingAbortSettle
        BY <1>1 DEF Handle
    <1>3. \A g \in Handle : BeginExecution(g).pendingAbortSettle = g.pendingAbortSettle
        BY DEF Handle, BeginExecution
    <1>4. /\ AllowPendingGated(h) \in Handle
          /\ AllowPendingGated(h).pendingAbortSettle = h.pendingAbortSettle
        BY DEF Handle, AllowPendingGated
    <1>5. /\ ClearMarker(h).pendingAbortSettle = FALSE
          /\ ClearMarker(h).gateStopped = h.gateStopped
        BY DEF Handle, ClearMarker
    <1> QED BY <1>2, <1>3, <1>4, <1>5

\* An event other than a settle is taken.
LEMMA TakeOther ==
    ASSUME TypeOK, NEW e, e # "settled", Take(e)
    PROVE  \E d \in {0, 1} : OutShift(d) /\ (d = 1 => 1 \notin Settles)
    <1>1. OutShift(1) /\ 1 \notin Settles
        BY TakeShifts DEF Settles
    <1> QED BY <1>1

LEMMA NoTake ==
    ASSUME TypeOK, OutShift(0)
    PROVE  \E d \in {0, 1} : OutShift(d) /\ (d = 1 => 1 \notin Settles)
    OBVIOUS

LEMMA NoRead ==
    ASSUME TypeOK, InShift(0)
    PROVE  /\ \E c \in {0, 1} : InShift(c) /\ (c = 1 => IF turn = 0 THEN 1 \notin Prompts
                                                                    ELSE input[1].cmd # "abort")
           /\ \E c \in {0, 1} : InShift(c) /\ (c = 1 => 1 \notin Prompts)
    OBVIOUS

LEMMA UserKinds ==
    ASSUME TypeOK, \/ \E k \in {"prompt", "steer"} : Prompt(k)
                   \/ Approve \/ Retry \/ PatchSpec \/ Abort
    PROVE  Prompting \/ Passing
    <1>1. OutShift(0)
        BY SameShifts DEF Prompt, Approve, Retry, PatchSpec, Abort
    <1>2. host \in Handle
        BY DEF TypeOK
    <1>3. CASE \E k \in {"prompt", "steer"} : Prompt(k)
        <2>1. MarkerStays /\ UNCHANGED <<turn, historyVars>>
            BY <1>2, <1>3, MarkerFacts DEF Prompt, MarkerStays
        <2> QED BY <1>1, <1>3, <2>1, NoTake DEF Prompt, Prompting
    <1>4. CASE Approve \/ Retry
        <2>1. MarkerStays /\ UNCHANGED <<turn, historyVars>> /\ SendPrompt("prompt")
            BY <1>2, <1>4, MarkerFacts DEF Approve, Retry, MarkerStays
        <2> QED BY <1>1, <2>1, NoTake DEF Prompting
    <1>5. CASE PatchSpec
        <2>1. MarkerStays /\ UNCHANGED <<turn, historyVars>>
            BY <1>5 DEF PatchSpec, MarkerStays
        <2>2. CASE live
            BY <1>1, <1>5, <2>1, <2>2, NoTake DEF PatchSpec, Reply, Prompting
        <2>3. CASE ~live
            BY <1>1, <1>5, <2>1, <2>3, NoTake, NoRead, SameShifts DEF PatchSpec, Passing, Awaiting
        <2> QED BY <2>2, <2>3
    <1>6. CASE Abort
        <2>1. InShift(0)
            BY <1>6, SendShifts DEF Abort
        <2> QED BY <1>1, <1>6, <2>1, NoTake, NoRead DEF Abort, Passing, MarkerStays, Awaiting, gatewayVars
    <1> QED BY <1>3, <1>4, <1>5, <1>6

LEMMA EventKinds ==
    ASSUME TypeOK, OnQuestion \/ OnDraft \/ OnTool \/ OnUsage \/ OnRefused
    PROVE  Prompting \/ Passing \/ Gating
    <1>1. host \in Handle
        BY DEF TypeOK
    <1>2. CASE OnQuestion
        <2>1. host'.pendingAbortSettle = host.pendingAbortSettle /\ host'.gateStopped = host.gateStopped
            BY <1>1, <1>2 DEF OnQuestion, Handle
        <2>2. CASE Reply
            BY <1>2, <2>1, <2>2, TakeOther DEF OnQuestion, Reply, Prompting, MarkerStays
        <2>3. CASE UNCHANGED <<state, input, sent>>
            BY <1>2, <2>1, <2>3, TakeOther, NoRead, SameShifts DEF OnQuestion, Passing, MarkerStays, Awaiting
        <2> QED BY <1>2, <2>2, <2>3 DEF OnQuestion
    <1>3. CASE OnDraft
        <2>1. host'.pendingAbortSettle = host.pendingAbortSettle
            BY <1>1, <1>3, MarkerFacts DEF OnDraft, Handle
        <2>2. CASE Reply
            BY <1>3, <2>1, <2>2, TakeOther DEF OnDraft, Reply, Prompting, MarkerStays
        <2>3. CASE host' = [host EXCEPT !.awaitingInterview = FALSE] /\ UNCHANGED <<state, input, sent>>
            <3>1. host'.gateStopped = host.gateStopped
                BY <1>1, <2>3 DEF Handle
            <3> QED BY <1>3, <2>1, <2>3, <3>1, TakeOther, NoRead, SameShifts
                    DEF OnDraft, Passing, MarkerStays, Awaiting
        <2> QED BY <1>3, <2>2, <2>3 DEF OnDraft
    <1>4. CASE OnTool
        <2>1. CASE Head(output).reason \in host.allowedGated
            BY <1>4, <2>1, TakeOther, NoRead, SameShifts
            DEF OnTool, Passing, MarkerStays, Awaiting, historyVars
        <2>2. CASE Head(output).reason \notin host.allowedGated
            BY <1>4, <2>2 DEF OnTool, Gating
        <2> QED BY <2>1, <2>2
    <1>5. CASE OnUsage \/ OnRefused
        BY <1>5, TakeOther, NoRead, SameShifts DEF OnUsage, OnRefused, Passing, MarkerStays, Awaiting
    <1> QED BY <1>2, <1>3, <1>4, <1>5

LEMMA PipelineKinds ==
    ASSUME TypeOK, NEW n \in Turns \cup {0}, PipelineEnds(n)
    PROVE  Prompting \/ Passing
    <1>1. OutShift(0) /\ host \in Handle
        BY SameShifts DEF PipelineEnds, TypeOK
    <1>2. host'.pendingAbortSettle = host.pendingAbortSettle /\ host'.gateStopped = host.gateStopped
        BY <1>1 DEF PipelineEnds, Handle
    <1>3. CASE SendPrompt("retry")
        BY <1>1, <1>2, <1>3, NoTake DEF PipelineEnds, Prompting, MarkerStays
    <1>4. CASE UNCHANGED <<state, input, sent>>
        BY <1>1, <1>2, <1>4, NoTake, NoRead, SameShifts DEF PipelineEnds, Passing, MarkerStays, Awaiting
    <1> QED BY <1>3, <1>4 DEF PipelineEnds

LEMMA AgentKinds ==
    ASSUME TypeOK, ReadPrompt \/ ReadAbort \/ ReadStats \/ Work
    PROVE  Passing \/ Turning \/ Beginning
    <1> USE DEF gatewayVars
    <1>1. CASE ReadPrompt
        <2>1. CASE turn = 0
            BY <1>1, <2>1 DEF Beginning
        <2>2. CASE turn # 0
            <3>1. InShift(1) /\ input[1].cmd # "abort"
                BY <1>1, ReadShifts DEF ReadPrompt
            <3>2. OutShift(0)
                <4>1. [ev |-> "refused"] \in Event /\ [ev |-> "refused"].ev \notin {"tool", "settled"}
                    BY EventFacts
                <4> QED BY <1>1, <4>1, EmitShifts, SameShifts DEF ReadPrompt
            <3>3. \E c \in {0, 1} : InShift(c) /\ (c = 1 => IF turn = 0 THEN 1 \notin Prompts
                                                                        ELSE input[1].cmd # "abort")
                BY <2>2, <3>1
            <3> QED BY <1>1, <2>2, <3>2, <3>3, NoTake DEF ReadPrompt, Passing, MarkerStays, Awaiting
        <2> QED BY <2>1, <2>2
    <1>2. CASE ReadAbort
        <2>1. InShift(1) /\ 1 \notin Prompts
            BY <1>2, ReadShifts DEF ReadAbort, Prompts, IsPrompt
        <2>2. CASE turn = 0
            <3>1. OutShift(0) /\ turn' = turn
                <4>1. [ev |-> "stray"] \in Event /\ [ev |-> "stray"].ev \notin {"tool", "settled"}
                    BY EventFacts
                <4> QED BY <1>2, <2>2, <4>1, EmitShifts, SameShifts DEF ReadAbort
            <3>2. \E c \in {0, 1} : InShift(c) /\ (c = 1 => IF turn = 0 THEN 1 \notin Prompts
                                                                        ELSE input[1].cmd # "abort")
                BY <2>1, <2>2
            <3> QED BY <1>2, <3>1, <3>2, NoTake DEF ReadAbort, Passing, MarkerStays, Awaiting
        <2>3. CASE turn # 0
            <3>1. turn \in Turns
                BY <2>3 DEF TypeOK, Turns
            <3>2. [ev |-> "settled", turn |-> turn] \in Event
                BY <3>1, EventFacts
            <3>3. \E e \in Event : /\ Emit(e) /\ e.turn = turn
                                   /\ \/ e.ev = "tool" /\ turn' = turn
                                      \/ e.ev = "settled" /\ turn' = 0
                BY <1>2, <2>3, <3>2 DEF ReadAbort
            <3>4. \E c \in {0, 1} : InShift(c) /\ (c = 1 => 1 \notin Prompts /\ turn' = 0)
                BY <1>2, <2>1 DEF ReadAbort
            <3> QED BY <1>2, <2>3, <3>3, <3>4 DEF ReadAbort, Turning
        <2> QED BY <2>2, <2>3
    <1>3. CASE ReadStats
        <2>1. InShift(1) /\ 1 \notin Prompts /\ input[1].cmd # "abort"
            BY <1>3, ReadShifts DEF ReadStats, Prompts, IsPrompt
        <2>2. OutShift(0)
            <3>1. [ev |-> "usage"] \in Event /\ [ev |-> "usage"].ev \notin {"tool", "settled"}
                BY EventFacts
            <3> QED BY <1>3, <3>1, EmitShifts DEF ReadStats
        <2>3. \E c \in {0, 1} : InShift(c) /\ (c = 1 => IF turn = 0 THEN 1 \notin Prompts
                                                                    ELSE input[1].cmd # "abort")
            BY <2>1
        <2> QED BY <1>3, <2>2, <2>3, NoTake DEF ReadStats, Passing, MarkerStays, Awaiting
    <1>4. CASE Work
        <2>1. turn \in Turns /\ turn # 0 /\ InShift(0) /\ UNCHANGED <<gatewayVars, input, sent, historyVars>>
            BY <1>4, SameShifts DEF Work, TypeOK, Turns
        <2>2. /\ \A k \in {"question", "draft", "settled"} : [ev |-> k, turn |-> turn] \in Event
              /\ \A r \in Reasons : [ev |-> "tool", turn |-> turn, reason |-> r] \in Event
            BY <2>1, EventFacts
        <2>3. CASE \E e \in {"question", "draft"} : Emit([ev |-> e, turn |-> turn]) /\ UNCHANGED turn
            <3>1. OutShift(0)
                BY <2>2, <2>3, EmitShifts
            <3> QED BY <2>1, <2>3, <3>1, NoTake, NoRead DEF Passing, MarkerStays, Awaiting
        <2>4. CASE \/ \E r \in Reasons : Emit([ev |-> "tool", turn |-> turn, reason |-> r]) /\ UNCHANGED turn
                   \/ Emit([ev |-> "settled", turn |-> turn]) /\ turn' = 0
            <3>1. \E e \in Event : /\ Emit(e) /\ e.turn = turn
                                   /\ \/ e.ev = "tool" /\ turn' = turn
                                      \/ e.ev = "settled" /\ turn' = 0
                BY <2>2, <2>4
            <3> QED BY <2>1, <3>1, NoRead DEF Turning
        <2> QED BY <1>4, <2>3, <2>4 DEF Work
    <1> QED BY <1>1, <1>2, <1>3, <1>4

LEMMA StepKinds ==
    ASSUME TypeOK, [Next]_vars
    PROVE  \/ Prompting \/ Passing \/ Turning \/ Beginning \/ Gating
           \/ OnSettled \/ OnStray \/ LoseHost
    <1>1. CASE UNCHANGED vars
        BY <1>1, NoTake, NoRead, SameShifts
        DEF vars, gatewayVars, historyVars, Passing, MarkerStays, Awaiting
    <1>2. Crash \/ Reap \/ Abandon => LoseHost
        BY DEF Crash, Reap, Abandon
    <1> QED BY <1>1, <1>2, UserKinds, EventKinds, PipelineKinds, AgentKinds DEF Next

LEMMA NextOrder ==
    ASSUME TypeOK, TypeOK', Inv, Order, [Next]_vars
    PROVE  Order'
    <1>1. CASE Prompting
        BY <1>1, PromptOrder DEF Prompting
    <1>2. CASE Passing
        BY <1>2, KeptOrder DEF Passing
    <1>3. CASE Turning
        BY <1>3, WorkOrder DEF Turning
    <1>4. CASE Beginning
        BY <1>4, BeginOrder DEF Beginning
    <1>5. CASE Gating
        <2>1. OutShift(1) /\ InShift(0)
            BY <1>5, TakeShifts, SendShifts DEF Gating, EscalateGate
        <2> QED BY <1>5, <2>1, KeptOrder DEF Gating
    <1>6. CASE OnSettled \/ OnStray
        <2>1. OutShift(1) /\ InShift(0)
            BY <1>6, TakeShifts, SendShifts, SameShifts DEF OnSettled, OnStray, Settled
        <2> QED BY <1>6, <2>1, KeptOrder DEF OnSettled, OnStray, Settled
    <1>7. CASE LoseHost
        <2>1. Worked' = {} /\ Prompts' = {}
            BY <1>7, EmptyFacts DEF LoseHost, Worked, Prompts
        <2> QED BY <2>1 DEF Order, InTurn, PromptsGrow
    <1> QED BY <1>1, <1>2, <1>3, <1>4, <1>5, <1>6, <1>7, StepKinds

-----------------------------------------------------------------------------
(* A stopped turn never finishes *)

Fate == Marked /\ Done

LEMMA SettlesShift ==
    ASSUME TypeOK, TypeOK', NEW d \in {0, 1}, OutShift(d)
    PROVE  /\ \A j \in Settles' : j + d \in Settles /\ output'[j] = output[j + d] /\ j \in Nat /\ j >= 1
           /\ \A j \in Worked' : j + d \in Worked /\ output'[j] = output[j + d] /\ j \in Nat /\ j >= 1
           /\ \A j \in Settles : j > d => j - d \in Settles' /\ output'[j - d] = output[j]
    <1>1. \A j \in Worked' : j + d \in Worked /\ output'[j] = output[j + d] /\ j \in Nat /\ j >= 1
        BY DEF OutShift, Worked, TypeOK
    <1>2. \A j \in Worked : j > d => j - d \in Worked' /\ output'[j - d] = output[j]
        BY DEF OutShift
    <1> QED BY <1>1, <1>2 DEF Settles

\* Steps that neither settle a turn nor stop one.
LEMMA KeptFate ==
    ASSUME TypeOK, TypeOK', Fate, NEW d \in {0, 1}, OutShift(d), sent <= sent',
           turn' = turn, MarkerStays \/ \A n \in stopped : ~Open(n), UNCHANGED historyVars,
           \A i \in Prompts' : input'[i].turn > sent \/ \E j \in Prompts : input'[i].turn = input[j].turn
    PROVE  Fate'
    <1>1. /\ \A j \in Settles' : j + d \in Settles /\ output'[j] = output[j + d]
          /\ \A j \in Worked' : j + d \in Worked /\ output'[j] = output[j + d]
        BY SettlesShift
    <1>2. \A n : Open(n)' => Open(n)
        BY <1>1 DEF Open
    <1>3. Marked'
        BY <1>1, <1>2 DEF Fate, Marked, MarkerStays, historyVars
    <1>4. ASSUME NEW n \in finished
          PROVE  /\ n <= sent' /\ turn' # n
                 /\ \A j \in Worked' : output'[j].ev = "tool" => output'[j].turn # n
                 /\ \A i \in Prompts' : input'[i].turn # n
        <2>1. n \in Nat /\ n <= sent /\ sent \in Nat /\ sent' \in Nat
            BY OrderTypes, AgentTurnAssumption DEF Fate, Done, TypeOK, Turns
        <2>2. n <= sent'
            BY <2>1
        <2>3. \A i \in Prompts' : input'[i].turn # n
            BY <2>1 DEF Fate, Done
        <2> QED BY <1>1, <2>2, <2>3 DEF Fate, Done
    <1> QED BY <1>3, <1>4 DEF Fate, Done, historyVars

LEMMA PromptFate ==
    ASSUME TypeOK, TypeOK', Fate, Prompting
    PROVE  Fate'
    <1>1. PICK k \in {"prompt", "steer", "retry"} : SendPrompt(k)
        BY DEF Prompting
    <1>2. sent' = sent + 1 /\ sent \in Nat
        BY <1>1, SendTurn, OrderTypes
    <1>3. PICK m \in Nat :
                /\ input'[m].turn = sent + 1 /\ Prompts' = Prompts \cup {m}
                /\ \A i \in DOMAIN input : input'[i] = input[i]
        BY <1>1, SendTurn
    <1>4. \A i \in Prompts' : input'[i].turn > sent \/ \E j \in Prompts : input'[i].turn = input[j].turn
        BY <1>2, <1>3 DEF Prompts
    <1>5. sent <= sent'
        BY <1>2
    <1> QED BY <1>4, <1>5, KeptFate DEF Prompting

LEMMA PassFate ==
    ASSUME TypeOK, TypeOK', Fate, Passing
    PROVE  Fate'
    <1>1. PICK c \in {0, 1} : InShift(c)
        BY DEF Passing
    <1>2. \A i \in Prompts' : \E j \in Prompts : input'[i].turn = input[j].turn
        BY <1>1 DEF InShift
    <1>3. sent <= sent'
        BY OrderTypes DEF Passing
    <1> QED BY <1>2, <1>3, KeptFate DEF Passing

\* A turn at work cannot be one that finished, and settles after the stopped one.
LEMMA TurnFate ==
    ASSUME TypeOK, TypeOK', Order, Fate, Turning
    PROVE  Fate'
    <1>1. PICK e \in Event : /\ Emit(e) /\ e.turn = turn
                             /\ \/ e.ev = "tool" /\ turn' = turn
                                \/ e.ev = "settled" /\ turn' = 0
        BY DEF Turning
    <1>2. PICK m \in Nat :
              /\ output'[m] = e /\ Worked' = Worked \cup {m}
              /\ \A j \in Worked : j < m /\ output'[j] = output[j]
        BY <1>1, EmitTurn
    <1>3. /\ turn # 0 /\ turn \in Nat /\ sent' = sent /\ MarkerStays /\ UNCHANGED historyVars
          /\ \A n \in Turns : n # 0 /\ n \in Nat
        BY OrderTypes, TypedBound DEF Turning, MarkerStays, gatewayVars
    <1>4. PICK c \in {0, 1} : InShift(c)
        BY DEF Turning
    <1>5. \A i \in Prompts' : \E j \in Prompts : input'[i].turn = input[j].turn
        BY <1>4 DEF InShift
    <1>6. Settles' \subseteq Settles \cup {m} /\ (m \in Settles' => e.ev = "settled")
          /\ \A j \in Settles : output'[j] = output[j]
        BY <1>2 DEF Settles
    <1>7. ASSUME NEW n \in stopped, Open(n)'
          PROVE  /\ host'.pendingAbortSettle
                 /\ \A j \in Settles' : n <= output'[j].turn
        <2>1. n \in Turns
            BY DEF TypeOK
        <2>2. Open(n)
            BY <1>1, <1>2, <1>3, <1>6, <1>7, <2>1 DEF Open
        <2>3. /\ host.pendingAbortSettle
              /\ \A j \in Settles : n <= output[j].turn
            BY <2>2 DEF Fate, Marked
        <2>4. n <= turn
            <3>1. CASE turn = n
                BY <1>3, <3>1
            <3>2. CASE \E j \in Settles : output[j].turn = n
                <4>1. PICK j \in Settles : output[j].turn = n
                    BY <3>2
                <4>2. Before(output[j], turn) /\ output[j].ev = "settled"
                    BY <1>3, <4>1 DEF Settles, Order, InTurn
                <4> QED BY <1>3, <2>1, <4>1, <4>2 DEF Before
            <3> QED BY <2>2, <3>1, <3>2 DEF Open
        <2> QED BY <1>1, <1>2, <1>3, <1>6, <2>3, <2>4 DEF MarkerStays
    <1>8. Marked'
        BY <1>3, <1>7 DEF Fate, Marked, historyVars
    <1>9. ASSUME NEW n \in finished
          PROVE  /\ n <= sent' /\ turn' # n
                 /\ \A j \in Worked' : output'[j].ev = "tool" => output'[j].turn # n
                 /\ \A i \in Prompts' : input'[i].turn # n
        <2>1. /\ n <= sent /\ turn # n /\ n # 0
              /\ \A j \in Worked : output[j].ev = "tool" => output[j].turn # n
              /\ \A i \in Prompts : input[i].turn # n
            BY <1>3 DEF Fate, Done, TypeOK
        <2>2. \A j \in Worked' : output'[j].ev = "tool" => output'[j].turn # n
            BY <1>1, <1>2, <2>1
        <2>3. turn' # n
            BY <1>1, <2>1
        <2> QED BY <1>3, <1>5, <2>1, <2>2, <2>3
    <1>10. Done'
        BY <1>3, <1>9 DEF Fate, Done, historyVars
    <1> QED BY <1>8, <1>10 DEF Fate

\* The turn that begins was never stopped and never finished.
LEMMA BeginFate ==
    ASSUME TypeOK, TypeOK', Inv, Order, Fate, Beginning
    PROVE  Fate'
    <1>1. /\ InShift(1) /\ 1 \in Prompts /\ turn' = input[1].turn
          /\ UNCHANGED <<gatewayVars, output, sent, historyVars>>
        BY ReadShifts DEF Beginning, ReadPrompt, Prompts, IsPrompt
    <1>2. turn' \notin gated /\ turn' \notin finished
        BY <1>1 DEF Inv, FreshPrompts, Fate, Done
    <1>3. Worked' = Worked /\ Settles' = Settles
        BY <1>1 DEF Worked, Settles
    <1>4. \A i \in Prompts' : \E j \in Prompts : input'[i].turn = input[j].turn
        BY <1>1 DEF InShift
    <1>5. \A n \in stopped : Open(n)' => Open(n)
        BY <1>1, <1>2, <1>3 DEF Open, Fate, Marked
    <1>6. Marked'
        BY <1>1, <1>3, <1>5 DEF Fate, Marked, gatewayVars, historyVars
    <1>7. Done'
        BY <1>1, <1>2, <1>3, <1>4 DEF Fate, Done, historyVars
    <1> QED BY <1>6, <1>7 DEF Fate

\* What a turn did before its settle comes before every other settle behind it.
LEMMA GateFate ==
    ASSUME TypeOK, TypeOK', Order, Fate, Gating
    PROVE  Fate'
    <1> DEFINE n == output[1].turn
    <1>1. /\ OutShift(1) /\ InShift(0) /\ Head(output) = output[1] /\ 1 \in Worked
          /\ output[1].ev = "tool"
        BY TakeShifts, SendShifts DEF Gating, EscalateGate, Worked
    <1>2. /\ gated' = gated \cup {n} /\ UNCHANGED <<turn, sent, finished>>
          /\ stopped' = IF host.gateStopped THEN stopped ELSE stopped \cup {n}
          /\ host'.pendingAbortSettle = (host.pendingAbortSettle \/ ~host.gateStopped)
        <2>1. gated' = gated \cup {n} /\ UNCHANGED <<turn, sent, finished>>
              /\ stopped' = IF host.gateStopped THEN stopped ELSE stopped \cup {n}
            BY <1>1 DEF Gating, EscalateGate
        <2>2. host' = [host EXCEPT !.gateStopped = TRUE,
                                   !.pendingAbortSettle = @ \/ ~host.gateStopped,
                                   !.pendingGated = @ \cup {Head(output).reason}]
            BY DEF Gating, EscalateGate
        <2>3. host'.pendingAbortSettle = (host.pendingAbortSettle \/ ~host.gateStopped)
            BY <2>2 DEF TypeOK, Handle
        <2> QED BY <2>1, <2>3
    <1> HIDE DEF n
    <1>3. /\ \A j \in Settles' : j + 1 \in Settles /\ output'[j] = output[j + 1] /\ j \in Nat /\ j >= 1
          /\ \A j \in Worked' : j + 1 \in Worked /\ output'[j] = output[j + 1]
        BY <1>1, SettlesShift
    <1>4. \A j \in Settles' : n <= output'[j].turn
        <2> SUFFICES ASSUME NEW j \in Settles' PROVE n <= output'[j].turn
            OBVIOUS
        <2>1. 1 < j + 1 /\ j + 1 \in Worked
            BY <1>3 DEF Settles
        <2>2. Before(output[1], output[j + 1].turn)
            BY <1>1, <2>1 DEF Order, InTurn
        <2> QED BY <1>1, <1>3, <2>2 DEF Before, n
    <1>5. \A k \in stopped : Open(k)' => Open(k)
        BY <1>2, <1>3 DEF Open
    <1>6. Marked'
        BY <1>2, <1>3, <1>4, <1>5 DEF Fate, Marked
    <1>7. n \notin finished
        BY <1>1 DEF Fate, Done, n
    <1>8. \A i \in Prompts' : \E j \in Prompts : input'[i].turn = input[j].turn
        BY <1>1 DEF InShift
    <1>9. Done'
        BY <1>2, <1>3, <1>7, <1>8 DEF Fate, Done
    <1> QED BY <1>6, <1>9 DEF Fate

\* The settle that is read ends the oldest turn: a stopped one, if one is open.
LEMMA SettleFate ==
    ASSUME TypeOK, TypeOK', Order, Fate, OnSettled
    PROVE  Fate'
    <1> DEFINE n == output[1].turn
    <1>1. /\ OutShift(1) /\ InShift(0) /\ Head(output) = output[1] /\ 1 \in Settles /\ 1 \in Worked
        BY TakeShifts, SendShifts, SameShifts DEF OnSettled, Settled, Worked, Settles
    <1>2. /\ UNCHANGED <<turn, sent, gated, stopped>> /\ n \in Nat /\ n <= sent /\ sent \in Nat
        BY <1>1, OrderTypes DEF OnSettled, Settled, Order, InTurn
    <1>3. /\ \A j \in Settles' : j + 1 \in Settles /\ output'[j] = output[j + 1] /\ j \in Nat /\ j >= 1
          /\ \A j \in Worked' : j + 1 \in Worked /\ output'[j] = output[j + 1] /\ j \in Nat /\ j >= 1
        BY <1>1, SettlesShift
    <1>4. /\ \A j \in Worked' : n < output'[j].turn /\ output'[j].turn \in Nat
          /\ turn # 0 => n < turn
          /\ \A i \in Prompts : n < input[i].turn
        <2>1. ASSUME NEW j \in Worked'
              PROVE  n < output'[j].turn /\ output'[j].turn \in Nat
            <3>1. 1 < j + 1 /\ j + 1 \in Worked
                BY <1>3
            <3>2. Before(output[1], output[j + 1].turn)
                BY <1>1, <3>1 DEF Order, InTurn
            <3> QED BY <1>1, <1>3, <3>1, <3>2, OrderTypes DEF Before, Settles
        <2>2. turn # 0 => n < turn
            BY <1>1 DEF Order, InTurn, Before, Settles
        <2>3. \A i \in Prompts : n < input[i].turn
            BY <1>1 DEF Order, InTurn
        <2> QED BY <2>1, <2>2, <2>3
    <1>5. \A i \in Prompts' : \E j \in Prompts : input'[i].turn = input[j].turn
        BY <1>1 DEF InShift
    <1>6. \A k \in stopped : ~Open(k)'
        <2> SUFFICES ASSUME NEW k \in stopped, Open(k)' PROVE FALSE
            OBVIOUS
        <2>1. k # 0 /\ k \in Nat
            BY TypedBound DEF TypeOK
        <2>2. Open(k)
            BY <1>2, <1>3 DEF Open
        <2>3. k <= n
            BY <1>1, <2>2 DEF Fate, Marked
        <2>4. n < k
            <3>1. CASE turn' = k
                BY <1>2, <1>4, <2>1, <3>1
            <3>2. CASE \E j \in Settles' : output'[j].turn = k
                BY <1>4, <3>2 DEF Settles
            <3> QED BY <3>1, <3>2 DEF Open
        <2> QED BY <1>2, <2>1, <2>3, <2>4
    <1>7. Marked'
        BY <1>2, <1>6 DEF Fate, Marked
    <1>8. /\ finished' \subseteq finished \cup {n}
          /\ n \in finished' \ finished => ~host.pendingAbortSettle
        BY <1>1 DEF OnSettled, Settled, AbortSettle
    <1>9. stopped' \cap finished' = {}
        <2> SUFFICES ASSUME n \in stopped, ~host.pendingAbortSettle PROVE FALSE
            BY <1>2, <1>8 DEF Fate, Done
        <2>1. Open(n)
            BY <1>1 DEF Open
        <2> QED BY <2>1 DEF Fate, Marked
    <1>10. ASSUME NEW k \in finished'
           PROVE  /\ k <= sent' /\ turn' # k
                  /\ \A j \in Worked' : output'[j].ev = "tool" => output'[j].turn # k
                  /\ \A i \in Prompts' : input'[i].turn # k
        <2>1. CASE k \in finished
            BY <1>2, <1>3, <1>5, <2>1 DEF Fate, Done
        <2>2. CASE k = n
            <3>1. n >= 1 /\ \A i \in Prompts : input[i].turn \in Nat
                BY <1>1, OrderTypes
            <3>2. turn' # n
                BY <1>2, <1>4, <3>1
            <3>3. \A j \in Worked' : output'[j].turn # n
                BY <1>2, <1>4
            <3>4. \A i \in Prompts' : input'[i].turn # n
                BY <1>2, <1>4, <1>5, <3>1
            <3> QED BY <1>2, <2>2, <3>2, <3>3, <3>4
        <2> QED BY <1>8, <2>1, <2>2
    <1> QED BY <1>7, <1>9, <1>10 DEF Fate, Done

LEMMA LoseFate ==
    ASSUME TypeOK, Fate, LoseHost
    PROVE  Fate'
    <1>1. /\ Worked' = {} /\ Prompts' = {} /\ Settles' = {} /\ turn' = 0
          /\ UNCHANGED <<sent, historyVars>>
        BY EmptyFacts DEF LoseHost, Worked, Prompts, Settles
    <1>2. \A n \in stopped \cup finished : n # 0
        BY TypedBound DEF TypeOK
    <1> QED BY <1>1, <1>2 DEF Fate, Marked, Done, Open, historyVars

\* The pipe as it is, a turn that goes on or ends.
LEMMA SameStray ==
    ASSUME TypeOK, StrayFits, output' = output, turn' \in {turn, 0}, stopped' = stopped
    PROVE  StrayFits'
    <1>1. Strays' = Strays /\ Worked' = Worked /\ Settles' = Settles
        BY DEF Strays, Worked, Settles
    <1>2. /\ \A n \in stopped : n # 0
          /\ \A i \in Worked : output[i].turn # 0
        BY TypedBound, OrderTypes DEF TypeOK
    <1>3. ASSUME NEW n, n # 0, NEW j, Over(n, j) PROVE Over(n, j)'
        BY <1>1, <1>3 DEF Over
    <1> QED BY <1>1, <1>2, <1>3 DEF StrayFits

\* An event is taken; if it raises a gate stop its turn was over at every stray behind it.
LEMMA TakeStray ==
    ASSUME TypeOK, TypeOK', StrayFits, NEW e, Take(e), turn' = turn,
           stopped' = stopped \/ (e = "tool" /\ stopped' = stopped \cup {output[1].turn})
    PROVE  StrayFits'
    <1>1. OutShift(1) /\ 1 \in DOMAIN output /\ output[1].ev = e
        BY TakeShifts
    <1>2. /\ \A j \in Settles' : j + 1 \in Settles /\ output'[j] = output[j + 1] /\ j \in Nat
          /\ \A j \in Worked' : j + 1 \in Worked /\ output'[j] = output[j + 1] /\ j \in Nat
        BY <1>1, SettlesShift
    <1>3. \A j \in Strays' : j + 1 \in Strays /\ j \in Nat /\ j >= 1
        BY TailFacts DEF Take, TypeOK, Strays
    <1>4. ASSUME NEW n, NEW j \in Strays', Over(n, j + 1) PROVE Over(n, j)'
        <2>1. ASSUME NEW k \in Settles', output'[k].turn = n PROVE k < j
            <3>1. k + 1 < j + 1 /\ k \in Nat /\ j \in Nat
                BY <1>2, <1>3, <1>4, <2>1 DEF Over
            <3> QED BY <3>1
        <2> QED BY <1>4, <2>1 DEF Over
    <1>5. ASSUME NEW j \in Strays', NEW n \in stopped' PROVE Over(n, j)'
        <2>1. CASE n \in stopped
            BY <1>3, <1>4, <2>1 DEF StrayFits
        <2>2. CASE e = "tool" /\ n = output[1].turn
            <3>1. 1 \in Worked \ Settles /\ 1 < j + 1
                BY <1>1, <1>3, <2>2 DEF Worked, Settles
            <3> QED BY <1>3, <1>4, <2>2, <3>1 DEF StrayFits
        <2> QED BY <1>5, <2>1, <2>2
    <1>6. ASSUME NEW j \in Strays', NEW i \in Worked' \ Settles', i < j
          PROVE  Over(output[i].turn, j)'
        <2>1. i + 1 \in Worked \ Settles /\ output'[i] = output[i + 1] /\ i + 1 < j + 1
            <3>1. i + 1 \in Worked /\ output'[i] = output[i + 1] /\ i \in Nat /\ j \in Nat
                BY <1>2, <1>3
            <3>2. output'[i].ev # "settled"
                BY DEF Settles
            <3> QED BY <1>6, <3>1, <3>2 DEF Settles
        <2>2. PICK n : n = output[i + 1].turn
            OBVIOUS
        <2>3. Over(n, j + 1)
            BY <1>3, <2>1, <2>2 DEF StrayFits
        <2>4. Over(n, j)'
            BY <1>4, <2>3
        <2> QED BY <2>1, <2>2, <2>4 DEF Over
    <1> QED BY <1>5, <1>6 DEF StrayFits

\* An event goes behind all others; one of a turn is of the turn at work.
LEMMA EmitStray ==
    ASSUME TypeOK, TypeOK', StrayFits, NEW e \in Event, Emit(e), stopped' = stopped,
           \/ e.ev \notin {"tool", "settled"} /\ turn' = turn /\ (e.ev = "stray" => turn = 0)
           \/ e.ev \in {"tool", "settled"} /\ e.turn = turn /\ turn' \in {turn, 0}
    PROVE  StrayFits'
    <1>1. PICK m \in Nat :
              /\ output'[m] = e
              /\ DOMAIN output' = DOMAIN output \cup {m}
              /\ \A j \in DOMAIN output : j < m /\ output'[j] = output[j]
        BY EmitFacts
    <1>2. /\ \A k \in Settles' : \/ k \in Settles /\ output'[k] = output[k] /\ k < m
                                 \/ k = m /\ e.ev = "settled"
          /\ \A i \in Worked' \ Settles' :
                \/ i \in Worked \ Settles /\ output'[i] = output[i] /\ i < m
                \/ i = m
          /\ \A j \in Strays' : \/ j \in Strays /\ j < m
                                \/ j = m /\ e.ev = "stray"
        BY <1>1 DEF Settles, Worked, Strays
    <1>3. /\ \A n \in stopped : n # 0
          /\ \A i \in Worked : output[i].turn # 0 /\ i \in Nat
          /\ \A j \in Strays : j \in Nat
        BY TypedBound, OrderTypes DEF TypeOK, Strays
    <1>4. ASSUME NEW n, n # 0, NEW j \in Strays', j \in Strays => Over(n, j) PROVE Over(n, j)'
        <2>1. CASE j \in Strays /\ j < m
            <3>1. turn # n /\ turn' # n
                BY <1>4, <2>1 DEF Over
            <3>2. ASSUME NEW k \in Settles', output'[k].turn = n PROVE k < j
                BY <1>1, <1>2, <1>4, <2>1, <3>1, <3>2 DEF Over
            <3> QED BY <3>1, <3>2 DEF Over
        <2>2. CASE j = m /\ e.ev = "stray"
            <3>1. turn' = 0 /\ \A k \in Settles' : k < m
                BY <1>2, <2>2
            <3> QED BY <1>4, <2>2, <3>1 DEF Over
        <2> QED BY <1>2, <2>1, <2>2
    <1>5. ASSUME NEW j \in Strays', NEW n \in stopped' PROVE Over(n, j)'
        BY <1>3, <1>4, <1>5 DEF StrayFits
    <1>6. ASSUME NEW j \in Strays', NEW i \in Worked' \ Settles', i < j
          PROVE  Over(output[i].turn, j)'
        <2>1. j <= m /\ j \in Nat
            BY <1>2, <1>3
        <2>2. i \in Worked \ Settles /\ output'[i] = output[i]
            BY <1>2, <1>6, <2>1
        <2>3. PICK n : n = output[i].turn
            OBVIOUS
        <2>4. j \in Strays => Over(n, j)
            BY <1>6, <2>2, <2>3 DEF StrayFits
        <2>5. n # 0
            BY <1>3, <2>2, <2>3
        <2>6. Over(n, j)'
            BY <1>4, <2>4, <2>5
        <2> QED BY <2>2, <2>3, <2>6 DEF Over
    <1> QED BY <1>5, <1>6 DEF StrayFits

\* The turn that begins was never stopped, and has done nothing yet.
LEMMA BeginStray ==
    ASSUME TypeOK, TypeOK', Inv, Order, Fate, StrayFits, Beginning
    PROVE  StrayFits'
    <1>1. /\ 1 \in Prompts /\ turn' = input[1].turn /\ turn = 0
          /\ UNCHANGED <<output, stopped>>
        BY ReadShifts DEF Beginning, ReadPrompt, Prompts, IsPrompt, historyVars
    <1>2. Strays' = Strays /\ Worked' = Worked /\ Settles' = Settles
        BY <1>1 DEF Strays, Worked, Settles
    <1>3. /\ \A n \in stopped : turn' # n
          /\ \A i \in Worked : turn' # output[i].turn
        <2>1. turn' \notin gated
            BY <1>1 DEF Inv, FreshPrompts
        <2>2. \A i \in Worked : output[i].turn < turn' /\ output[i].turn \in Nat /\ turn' \in Nat
            BY <1>1, OrderTypes DEF Order, InTurn
        <2> QED BY <2>1, <2>2 DEF Fate, Marked
    <1>4. ASSUME NEW n, turn' # n, NEW j, Over(n, j) PROVE Over(n, j)'
        BY <1>1, <1>2, <1>4 DEF Over
    <1> QED BY <1>1, <1>2, <1>3, <1>4 DEF StrayFits

LEMMA NextStray ==
    ASSUME TypeOK, TypeOK', Inv, Order, Fate, StrayFits, [Next]_vars
    PROVE  StrayFits'
    <1> USE DEF vars, historyVars
    <1>1. CASE \/ \E k \in {"prompt", "steer"} : Prompt(k)
               \/ Approve \/ Retry \/ PatchSpec \/ Abort
               \/ \E n \in Turns \cup {0} : PipelineEnds(n)
               \/ UNCHANGED vars
        BY <1>1, SameStray DEF Prompt, Approve, Retry, PatchSpec, Abort, PipelineEnds
    <1>2. CASE OnQuestion \/ OnDraft \/ OnSettled \/ OnStray \/ OnUsage \/ OnRefused
        <2>1. /\ \E e \in {"question", "draft", "settled", "stray", "usage", "refused"} : Take(e)
              /\ turn' = turn /\ stopped' = stopped
            BY <1>2 DEF OnQuestion, OnDraft, OnSettled, OnStray, Settled, OnUsage, OnRefused
        <2> QED BY <2>1, TakeStray
    <1>3. CASE OnTool
        <2>1. Take("tool") /\ turn' = turn /\ Head(output) = output[1]
            BY <1>3, TakeShifts DEF OnTool
        <2>2. stopped' \in {stopped, stopped \cup {output[1].turn}}
            BY <1>3, <2>1 DEF OnTool, EscalateGate
        <2> QED BY <2>1, <2>2, TakeStray
    <1>4. CASE Crash \/ Reap \/ Abandon
        <2>1. Strays' = {}
            BY <1>4, EmptyFacts DEF Crash, Reap, Abandon, LoseHost, Strays
        <2> QED BY <2>1 DEF StrayFits
    <1>5. CASE ReadPrompt
        <2>1. CASE turn = 0
            BY <1>5, <2>1, BeginStray DEF Beginning
        <2>2. CASE turn # 0
            <3>1. [ev |-> "refused"] \in Event /\ [ev |-> "refused"].ev = "refused"
                BY EventFacts
            <3> QED BY <1>5, <2>2, <3>1, SameStray, EmitStray DEF ReadPrompt
        <2> QED BY <2>1, <2>2
    <1>6. CASE ReadAbort
        <2>1. CASE turn # 0
            <3>1. turn \in Turns
                BY <2>1 DEF TypeOK, Turns
            <3>2. [ev |-> "settled", turn |-> turn] \in Event
                BY <3>1, EventFacts
            <3> QED BY <1>6, <2>1, <3>2, EmitStray DEF ReadAbort
        <2>2. CASE turn = 0
            <3>1. [ev |-> "stray"] \in Event /\ [ev |-> "stray"].ev = "stray"
                BY EventFacts
            <3> QED BY <1>6, <2>2, <3>1, SameStray, EmitStray DEF ReadAbort
        <2> QED BY <2>1, <2>2
    <1>7. CASE ReadStats
        <2>1. [ev |-> "usage"] \in Event /\ [ev |-> "usage"].ev = "usage"
            BY EventFacts
        <2> QED BY <1>7, <2>1, EmitStray DEF ReadStats
    <1>8. CASE Work
        <2>1. turn \in Turns
            BY <1>8 DEF Work, TypeOK, Turns
        <2>2. /\ \A k \in {"question", "draft", "settled"} : [ev |-> k, turn |-> turn] \in Event
              /\ \A r \in Reasons : [ev |-> "tool", turn |-> turn, reason |-> r] \in Event
            BY <2>1, EventFacts
        <2>3. CASE \E e \in {"question", "draft"} : Emit([ev |-> e, turn |-> turn]) /\ UNCHANGED turn
            BY <1>8, <2>2, <2>3, EmitStray DEF Work
        <2>4. CASE \E r \in Reasons : Emit([ev |-> "tool", turn |-> turn, reason |-> r]) /\ UNCHANGED turn
            BY <1>8, <2>2, <2>4, EmitStray DEF Work
        <2>5. CASE Emit([ev |-> "settled", turn |-> turn]) /\ turn' = 0
            BY <1>8, <2>2, <2>5, EmitStray DEF Work
        <2> QED BY <1>8, <2>3, <2>4, <2>5 DEF Work
    <1> QED BY <1>1, <1>2, <1>3, <1>4, <1>5, <1>6, <1>7, <1>8 DEF Next

\* A stray settle that is read finds no stopped turn open.
LEMMA StrayFate ==
    ASSUME TypeOK, TypeOK', Fate, StrayFits, OnStray
    PROVE  Fate'
    <1>1. OutShift(1) /\ InShift(0) /\ 1 \in Strays
        BY TakeShifts, SendShifts, SameShifts DEF OnStray, Settled, Strays
    <1>2. ASSUME NEW n \in stopped PROVE ~Open(n)
        <2>1. Over(n, 1)
            BY <1>1 DEF StrayFits
        <2>2. \A k \in Settles : ~(k < 1)
            BY OrderTypes DEF Settles
        <2> QED BY <2>1, <2>2 DEF Over, Open
    <1>3. turn' = turn /\ sent' = sent /\ sent <= sent' /\ UNCHANGED historyVars
        <2>1. turn' = turn /\ sent' = sent /\ UNCHANGED historyVars
            BY DEF OnStray, Settled, historyVars
        <2> QED BY <2>1, OrderTypes
    <1>4. \A i \in Prompts' : \E j \in Prompts : input'[i].turn = input[j].turn
        BY <1>1 DEF InShift
    <1> QED BY <1>1, <1>2, <1>3, <1>4, KeptFate

LEMMA NextFate ==
    ASSUME TypeOK, TypeOK', Inv, Order, Fate, StrayFits, [Next]_vars
    PROVE  Fate'
    BY StepKinds, PromptFate, PassFate, TurnFate, BeginFate, GateFate, SettleFate, StrayFate, LoseFate

LEMMA InitFate == Init => Order /\ Fate /\ StrayFits
    <1> SUFFICES ASSUME Init PROVE Order /\ Fate /\ StrayFits
        OBVIOUS
    <1>1. Worked = {} /\ Prompts = {} /\ Settles = {} /\ Strays = {}
        BY EmptyFacts DEF Init, Worked, Prompts, Settles, Strays
    <1> QED BY <1>1 DEF Init, Order, InTurn, PromptsGrow, Fate, Marked, Done, StrayFits

\* Whatever the user sends, however late the settle of a turn that raised a gate stop is
\* read, and whatever other turns do meanwhile: it finds its marker or the gate still
\* closed, and never makes the row idle.  (agent_settled, escalateGate, beginUserTurn)
THEOREM GatedTurnIsDropped == Spec => []GatedTurnNeverFinishes
    <1>1. Fate => GatedTurnNeverFinishes
        BY DEF Fate, Done, GatedTurnNeverFinishes
    <1> QED BY <1>1, InitTyped, InitHolds, InitFate, NextTyped, NextKeeps, NextOrder, NextFate,
            NextStray, PTL DEF Spec

-----------------------------------------------------------------------------
(* No row is left streaming                                                 *)

NoSettle(j) == \A k \in Settles : k <= j

\* Steps that take no settle leave the owner of each tool event.
LEMMA KeptOwned ==
    ASSUME TypeOK, TypeOK', Owned, NEW d \in {0, 1}, OutShift(d), d = 1 => 1 \notin Settles,
           turn' = turn, gated' = gated, host'.pendingAbortSettle => host.pendingAbortSettle
    PROVE  Owned'
    <1>1. /\ \A j \in Settles' : j + d \in Settles /\ output'[j] = output[j + d] /\ j \in Nat
          /\ \A j \in Worked' : j + d \in Worked /\ output'[j] = output[j + d] /\ j \in Nat
          /\ \A j \in Settles : j > d => j - d \in Settles'
        BY SettlesShift
    <1>2. \A j \in Settles : j > d /\ j \in Nat
        BY OrderTypes DEF Settles
    <1>3. ASSUME NEW j \in Worked' \ Settles', \A k \in Settles' : k <= j
          PROVE  turn' = output'[j].turn
        <2>1. j + d \in Worked \ Settles
            BY <1>1, <1>3 DEF Settles
        <2>2. \A k \in Settles : k <= j + d
            BY <1>1, <1>2, <1>3
        <2> QED BY <1>1, <2>1, <2>2 DEF Owned
    <1>4. Settles' = {} => Settles = {}
        BY <1>1, <1>2
    <1> QED BY <1>3, <1>4 DEF Owned

LEMMA TurnOwned ==
    ASSUME TypeOK, TypeOK', Owned, Turning
    PROVE  Owned'
    <1>1. PICK e \in Event : /\ Emit(e) /\ e.turn = turn
                             /\ \/ e.ev = "tool" /\ turn' = turn
                                \/ e.ev = "settled" /\ turn' = 0
        BY DEF Turning
    <1>2. PICK m \in Nat :
              /\ output'[m] = e /\ Worked' = Worked \cup {m}
              /\ \A j \in Worked : j \in Nat /\ j < m /\ output'[j] = output[j]
        BY <1>1, EmitTurn, OrderTypes
    <1>3. UNCHANGED <<gated, host>>
        BY DEF Turning, gatewayVars, historyVars
    <1>4. CASE e.ev = "tool"
        <2>1. Settles' = Settles /\ turn' = turn
            BY <1>1, <1>2, <1>4 DEF Settles
        <2>2. \A j \in Worked' \ Settles' : NoSettle(j)' => turn' = output'[j].turn
            BY <1>1, <1>2, <2>1 DEF Owned, NoSettle
        <2> QED BY <1>3, <2>1, <2>2 DEF Owned, NoSettle
    <1>5. CASE e.ev = "settled"
        <2>1. m \in Settles' /\ Settles' = Settles \cup {m}
            BY <1>2, <1>5 DEF Settles
        <2>2. \A j \in Worked' \ Settles' : ~NoSettle(j)'
            <3> SUFFICES ASSUME NEW j \in Worked' \ Settles', NoSettle(j)' PROVE FALSE
                OBVIOUS
            <3>1. j \in Worked /\ m <= j
                BY <1>2, <2>1 DEF NoSettle
            <3> QED BY <1>2, <3>1
        <2> QED BY <1>3, <2>1, <2>2 DEF Owned, NoSettle
    <1> QED BY <1>1, <1>4, <1>5

LEMMA BeginOwned ==
    ASSUME TypeOK, TypeOK', Inv, Owned, Beginning
    PROVE  Owned'
    <1>1. UNCHANGED <<gatewayVars, output, historyVars>> /\ turn = 0
        BY DEF Beginning, ReadPrompt
    <1>2. Worked' = Worked /\ Settles' = Settles
        BY <1>1 DEF Worked, Settles
    <1>3. 0 \notin gated /\ \A j \in Worked : output[j].turn # 0
        BY TypedBound, OrderTypes
    <1> QED BY <1>1, <1>2, <1>3 DEF Owned, gatewayVars, historyVars

LEMMA GateOwned ==
    ASSUME TypeOK, TypeOK', Owned, Gating
    PROVE  Owned'
    <1>1. /\ OutShift(1) /\ Head(output) = output[1] /\ 1 \in Worked \ Settles
          /\ output[1].ev = "tool"
        BY TakeShifts DEF Gating, Worked, Settles
    <1>2. turn' = turn /\ gated' = gated \cup {output[1].turn}
        BY <1>1 DEF Gating, EscalateGate
    <1>3. /\ \A j \in Settles' : j + 1 \in Settles /\ j \in Nat /\ j >= 1
          /\ \A j \in Worked' : j + 1 \in Worked /\ output'[j] = output[j + 1] /\ j \in Nat
          /\ \A j \in Settles : j > 1 => j - 1 \in Settles'
        BY <1>1, SettlesShift
    <1>4. \A j \in Settles : j > 1 /\ j \in Nat
        BY <1>1, OrderTypes DEF Settles
    <1>5. ASSUME NEW j \in Worked' \ Settles', \A k \in Settles' : k <= j
          PROVE  turn' = output'[j].turn
        <2>1. j + 1 \in Worked \ Settles
            BY <1>3, <1>5 DEF Settles
        <2>2. \A k \in Settles : k <= j + 1
            BY <1>3, <1>4, <1>5
        <2> QED BY <1>2, <1>3, <2>1, <2>2 DEF Owned
    <1>6. Settles' = {} => turn' \in gated'
        <2> SUFFICES ASSUME Settles' = {} PROVE turn' \in gated'
            OBVIOUS
        <2>1. Settles = {}
            BY <1>3, <1>4
        <2>2. turn = output[1].turn
            BY <1>1, <2>1 DEF Owned
        <2> QED BY <1>2, <2>2
    <1> QED BY <1>5, <1>6 DEF Owned

LEMMA SettleOwned ==
    ASSUME TypeOK, TypeOK', Owned, OnSettled
    PROVE  Owned' /\ ~host'.pendingAbortSettle
    <1>1. OutShift(1) /\ turn' = turn
        BY TakeShifts DEF OnSettled, Settled
    <1>2. ~host'.pendingAbortSettle
        <2>1. CASE AbortSettle(host)
            <3>1. host' = ClearMarker(host)
                BY <2>1 DEF OnSettled, Settled
            <3> QED BY <3>1, MarkerFacts DEF TypeOK
        <2>2. CASE ~AbortSettle(host)
            <3>1. host' = host
                BY <2>2 DEF OnSettled, Settled
            <3> QED BY <2>2, <3>1 DEF AbortSettle
        <2> QED BY <2>1, <2>2
    <1>3. /\ \A j \in Settles' : j + 1 \in Settles /\ j \in Nat /\ j >= 1
          /\ \A j \in Worked' : j + 1 \in Worked /\ output'[j] = output[j + 1] /\ j \in Nat /\ j >= 1
          /\ \A j \in Settles : j > 1 => j - 1 \in Settles'
        BY <1>1, SettlesShift
    <1>4. \A j \in Settles : j >= 1 /\ j \in Nat
        BY OrderTypes DEF Settles
    <1>5. ASSUME NEW j \in Worked' \ Settles', \A k \in Settles' : k <= j
          PROVE  turn' = output'[j].turn
        <2>1. j + 1 \in Worked \ Settles
            BY <1>3, <1>5 DEF Settles
        <2>2. ASSUME NEW k \in Settles
              PROVE  k <= j + 1
            <3>1. CASE k > 1
                <4>1. k - 1 \in Settles'
                    BY <1>3, <3>1
                <4>2. k - 1 <= j
                    BY <1>5, <4>1
                <4> QED BY <1>3, <1>4, <4>2
            <3>2. CASE ~(k > 1)
                BY <1>3, <1>4, <3>2
            <3> QED BY <3>1, <3>2
        <2> QED BY <1>1, <1>3, <2>1, <2>2 DEF Owned
    <1> QED BY <1>2, <1>5 DEF Owned

LEMMA LoseOwned ==
    ASSUME LoseHost
    PROVE  Owned' /\ ~live'
    <1>1. Worked' = {}
        BY EmptyFacts DEF LoseHost, Worked
    <1>2. ~host'.pendingAbortSettle /\ ~live'
        BY DEF LoseHost, FreshHandle
    <1> QED BY <1>1, <1>2 DEF Owned

\* A stray settle clears the marker or makes the row idle.
LEMMA StrayTaken ==
    ASSUME TypeOK, OnStray
    PROVE  /\ OutShift(1) /\ 1 \notin Settles
           /\ UNCHANGED <<turn, gated, live>> /\ ~host'.pendingAbortSettle
           /\ Awaiting' => Awaiting /\ input' = input
    <1>1. OutShift(1) /\ 1 \notin Settles
        BY TakeShifts DEF OnStray, Settles
    <1>2. UNCHANGED <<turn, gated, live>>
        BY DEF OnStray, Settled
    <1>3. CASE AbortSettle(host)
        <2>1. ~ClearMarker(host).pendingAbortSettle /\ ClearMarker(host).gateStopped = host.gateStopped
            BY MarkerFacts DEF TypeOK
        <2>2. host' = ClearMarker(host) /\ state' = state /\ input' = input
            BY <1>3 DEF OnStray, Settled
        <2> QED BY <1>1, <1>2, <2>1, <2>2 DEF Awaiting
    <1>4. CASE ~AbortSettle(host)
        <2>1. host' = host /\ state' = "idle"
            BY <1>4 DEF OnStray, Settled
        <2> QED BY <1>1, <1>2, <1>4, <2>1 DEF Awaiting, AbortSettle
    <1> QED BY <1>3, <1>4

LEMMA NextOwned ==
    ASSUME TypeOK, TypeOK', Inv, Owned, [Next]_vars
    PROVE  Owned'
    <1>1. Prompting \/ Passing => Owned'
        BY KeptOwned DEF Prompting, Passing, MarkerStays, historyVars
    <1>2. OnStray => Owned'
        BY StrayTaken, KeptOwned
    <1> QED BY <1>1, <1>2, StepKinds, TurnOwned, BeginOwned, GateOwned, SettleOwned, LoseOwned

\* The settles in the pipe, and what the marker swallows of them, while none is taken.
LEMMA KeptSettles ==
    ASSUME TypeOK, TypeOK', NEW d \in {0, 1}, OutShift(d), d = 1 => 1 \notin Settles, MarkerStays
    PROVE  /\ Swallowed' <=> Swallowed
           /\ SettleInPipe => SettleInPipe'
    <1>1. /\ \A j \in Settles' : j + d \in Settles
          /\ \A j \in Settles : j > d => j - d \in Settles'
        BY SettlesShift
    <1>2. \A j \in Settles : j > d /\ j \in Nat
        BY OrderTypes DEF Settles
    <1>3. Settles' = {} <=> Settles = {}
        BY <1>1, <1>2
    <1>4. ASSUME NEW j \in Settles, host.pendingAbortSettle => \E i \in Settles : i < j
          PROVE  SettleInPipe'
        <2>1. j - d \in Settles'
            BY <1>1, <1>2
        <2>2. CASE ~host.pendingAbortSettle
            BY <2>1, <2>2 DEF SettleInPipe, MarkerStays
        <2>3. CASE \E i \in Settles : i < j
            <3>1. PICK i \in Settles : i < j
                BY <2>3
            <3>2. i - d \in Settles' /\ i - d < j - d
                BY <1>1, <1>2, <3>1
            <3> QED BY <2>1, <3>2 DEF SettleInPipe
        <2> QED BY <1>4, <2>2, <2>3
    <1> QED BY <1>3, <1>4 DEF Swallowed, SettleInPipe, MarkerStays

\* A prompt that is sent goes behind the abort of the gated turn, if one is at work.
LEMMA PromptEnds ==
    ASSUME TypeOK, TypeOK', Inv, Owned, Prompting
    PROVE  Coming'
    <1>1. PICK d \in {0, 1} : OutShift(d) /\ (d = 1 => 1 \notin Settles)
        BY DEF Prompting
    <1>2. Swallowed' => Swallowed
        BY <1>1, KeptSettles DEF Prompting
    <1>3. PICK k \in {"prompt", "steer", "retry"} : SendPrompt(k)
        BY DEF Prompting
    <1>4. PICK m \in Nat :
              /\ Prompts' = Prompts \cup {m}
              /\ \A i \in DOMAIN input : i < m /\ i \in DOMAIN input' /\ input'[i] = input[i]
        BY <1>3, SendTurn
    <1>5. ASSUME Swallowed
          PROVE  \E i \in DOMAIN input' : i < m /\ input'[i].cmd = "abort"
        BY <1>4, <1>5 DEF Swallowed, Owned, Inv, GatedTurnIsAborted
    <1> QED BY <1>2, <1>4, <1>5 DEF Coming, PromptInPipe

\* What the agent reads without a turn of its own is no prompt; while a turn is at work
\* it may be one, and the turn ends for it.
LEMMA PassEnds ==
    ASSUME TypeOK, TypeOK', Owned, Coming, Passing
    PROVE  Coming'
    <1>1. PICK d \in {0, 1} : OutShift(d) /\ (d = 1 => 1 \notin Settles)
        BY DEF Passing
    <1>2. (Swallowed' <=> Swallowed) /\ (SettleInPipe => SettleInPipe') /\ turn' = turn
        BY <1>1, KeptSettles DEF Passing
    <1>3. CASE SettleInPipe
        BY <1>2, <1>3 DEF Coming
    <1>4. CASE TurnAtWork
        BY <1>2, <1>4 DEF Coming, TurnAtWork
    <1>5. CASE ~TurnAtWork /\ PromptInPipe
        <2>1. PICK c \in {0, 1} : InShift(c) /\ (c = 1 => IF turn = 0 THEN 1 \notin Prompts
                                                                     ELSE input[1].cmd # "abort")
            BY DEF Passing
        <2>2. PICK i \in Prompts :
                  Swallowed => \E k \in DOMAIN input : k < i /\ input[k].cmd = "abort"
            BY <1>5 DEF PromptInPipe
        <2>3. /\ \A k \in DOMAIN input : k > c => k - c \in DOMAIN input' /\ input'[k - c] = input[k]
              /\ \A k \in DOMAIN input : k \in Nat /\ k >= 1
            BY <2>1, OrderTypes DEF InShift
        <2>4. turn = 0 \/ Swallowed
            BY <1>5 DEF TurnAtWork
        <2>5. i > c
            <3>1. CASE i > 1 \/ c = 0
                BY <2>3, <3>1 DEF Prompts
            <3>2. CASE i = 1 /\ c = 1
                BY <2>1, <2>2, <2>3, <2>4, <3>2
            <3> QED BY <2>3, <3>1, <3>2 DEF Prompts
        <2>6. i - c \in Prompts' /\ i \in Nat
            BY <2>3, <2>5 DEF Prompts
        <2>7. ASSUME Swallowed
              PROVE  \E k \in DOMAIN input' : k < i - c /\ input'[k].cmd = "abort"
            <3>1. PICK k \in DOMAIN input : k < i /\ input[k].cmd = "abort"
                BY <2>2, <2>7
            <3>2. turn # 0
                BY <2>7, TypedBound DEF Swallowed, Owned
            <3>3. k > c
                BY <2>1, <2>3, <3>1, <3>2
            <3>4. k - c < i - c
                BY <2>3, <2>6, <3>1
            <3> QED BY <2>3, <3>1, <3>3, <3>4
        <2> QED BY <1>2, <2>6, <2>7 DEF Coming, PromptInPipe
    <1> QED BY <1>3, <1>4, <1>5 DEF Coming

\* The settle a turn sends is behind all that were on their way before it.
LEMMA TurnEnds ==
    ASSUME TypeOK, TypeOK', Coming, Turning
    PROVE  Coming'
    <1>1. PICK e \in Event : /\ Emit(e) /\ e.turn = turn
                             /\ \/ e.ev = "tool" /\ turn' = turn
                                \/ e.ev = "settled" /\ turn' = 0
        BY DEF Turning
    <1>2. PICK m \in Nat :
              /\ output'[m] = e /\ Worked' = Worked \cup {m}
              /\ \A j \in Worked : j < m /\ output'[j] = output[j]
        BY <1>1, EmitTurn
    <1>3. host' = host
        BY DEF Turning, gatewayVars
    <1>4. Settles \subseteq Settles'
        BY <1>2 DEF Settles
    <1>5. CASE SettleInPipe
        BY <1>3, <1>4, <1>5 DEF Coming, SettleInPipe
    <1>6. CASE TurnAtWork /\ e.ev = "tool"
        BY <1>1, <1>3, <1>4, <1>6 DEF Coming, TurnAtWork, Swallowed
    <1>7. CASE TurnAtWork /\ e.ev = "settled"
        <2>1. m \in Settles'
            BY <1>2, <1>7 DEF Settles
        <2>2. host.pendingAbortSettle => \E i \in Settles : i < m
            BY <1>2, <1>7 DEF TurnAtWork, Swallowed, Settles
        <2> QED BY <1>3, <1>4, <2>1, <2>2 DEF Coming, SettleInPipe
    <1>8. CASE ~TurnAtWork /\ PromptInPipe
        <2>1. Swallowed
            BY <1>8 DEF TurnAtWork, Turning
        <2>2. PICK c \in {0, 1} : InShift(c) /\ (c = 1 => 1 \notin Prompts /\ turn' = 0)
            BY DEF Turning
        <2>3. /\ \A k \in DOMAIN input : k > c => k - c \in DOMAIN input' /\ input'[k - c] = input[k]
              /\ \A k \in DOMAIN input : k \in Nat /\ k >= 1
            BY <2>2, OrderTypes DEF InShift
        <2>4. PICK i \in Prompts : \E k \in DOMAIN input : k < i /\ input[k].cmd = "abort"
            BY <1>8, <2>1 DEF PromptInPipe
        <2>5. i > c
            BY <2>2, <2>3, <2>4 DEF Prompts
        <2>6. i - c \in Prompts'
            BY <2>3, <2>5 DEF Prompts
        <2>7. CASE e.ev = "tool"
            <3>1. c = 0 /\ Swallowed'
                <4>1. c = 0
                    BY <1>1, <2>2, <2>7 DEF Turning
                <4>2. Settles' = Settles
                    BY <1>2, <2>7 DEF Settles
                <4> QED BY <1>3, <2>1, <4>1, <4>2 DEF Swallowed
            <3>2. PICK k \in DOMAIN input : k < i /\ input[k].cmd = "abort"
                BY <2>4
            <3>3. k - c \in DOMAIN input' /\ input'[k - c] = input[k] /\ k - c < i - c
                BY <2>3, <3>1, <3>2, OrderTypes DEF Prompts
            <3> QED BY <2>6, <3>2, <3>3 DEF Coming, PromptInPipe
        <2>8. CASE e.ev = "settled"
            <3>1. Settles' # {}
                BY <1>2, <2>8 DEF Settles
            <3> QED BY <2>6, <3>1 DEF Coming, PromptInPipe, Swallowed
        <2> QED BY <1>1, <2>7, <2>8
    <1> QED BY <1>1, <1>5, <1>6, <1>7, <1>8 DEF Coming

\* The turn that begins will settle; a marker that waits for a settle outside the pipe
\* would wait for the turn at work, and none was.
LEMMA BeginEnds ==
    ASSUME TypeOK, TypeOK', Owned, Beginning
    PROVE  Coming'
    <1>1. UNCHANGED <<gatewayVars, output>> /\ turn = 0
        BY DEF Beginning, ReadPrompt
    <1>2. ~Swallowed
        BY <1>1, TypedBound DEF Swallowed, Owned
    <1>3. Settles' = Settles
        BY <1>1 DEF Settles, Worked
    <1>4. turn' # 0
        <2>1. 1 \in Prompts /\ turn' = input[1].turn
            BY ReadShifts DEF Beginning, ReadPrompt, Prompts, IsPrompt
        <2> QED BY <2>1, OrderTypes
    <1> QED BY <1>1, <1>2, <1>3, <1>4 DEF Coming, TurnAtWork, Swallowed, gatewayVars

LEMMA GateEnds ==
    ASSUME TypeOK, Gating
    PROVE  ~Awaiting'
    <1>1. host' = [host EXCEPT !.gateStopped = TRUE,
                               !.pendingAbortSettle = @ \/ ~host.gateStopped,
                               !.pendingGated = @ \cup {Head(output).reason}]
        BY DEF Gating, EscalateGate
    <1> QED BY <1>1 DEF Awaiting, TypeOK, Handle

\* A settle that leaves the row streaming was the one swallowed: of two that were on
\* their way one is left, and the next is not swallowed.
LEMMA SettleEnds ==
    ASSUME TypeOK, TypeOK', Owned, StreamingEnds, OnSettled
    PROVE  StreamingEnds'
    <1> SUFFICES ASSUME Awaiting' PROVE Coming'
        BY DEF StreamingEnds
    <1>1. /\ OutShift(1) /\ UNCHANGED <<turn, live>> /\ ~host'.pendingAbortSettle
          /\ 1 \in Settles
        BY TakeShifts, SettleOwned DEF OnSettled, Settled, Settles, Worked
    <1>2. AbortSettle(host)
        BY DEF OnSettled, Settled, Awaiting
    <1>3. host.pendingAbortSettle /\ Awaiting /\ input' = input
        <2>1. ClearMarker(host).gateStopped = host.gateStopped
            BY MarkerFacts DEF TypeOK
        <2>2. ~host.gateStopped /\ state' = state /\ input' = input
            BY <1>2, <2>1 DEF OnSettled, Settled, Awaiting
        <2> QED BY <1>1, <1>2, <2>2 DEF AbortSettle, Awaiting
    <1>4. ~Swallowed'
        BY <1>1 DEF Swallowed
    <1>5. CASE SettleInPipe
        <2>1. PICK j \in Settles, i \in Settles : i < j
            BY <1>3, <1>5 DEF SettleInPipe
        <2>2. j > 1
            BY <2>1, OrderTypes DEF Settles
        <2>3. j - 1 \in Settles'
            BY <1>1, <2>2, SettlesShift
        <2> QED BY <1>1, <2>3 DEF Coming, SettleInPipe
    <1>6. CASE TurnAtWork
        BY <1>1, <1>4, <1>6 DEF Coming, TurnAtWork
    <1>7. CASE PromptInPipe
        <2>1. Prompts' = Prompts
            BY <1>3 DEF Prompts
        <2> QED BY <1>4, <1>7, <2>1 DEF Coming, PromptInPipe
    <1> QED BY <1>3, <1>5, <1>6, <1>7 DEF StreamingEnds, Coming

\* A stray settle swallows nothing that is to come.
LEMMA StrayEnds ==
    ASSUME TypeOK, TypeOK', StreamingEnds, OnStray
    PROVE  StreamingEnds'
    <1> SUFFICES ASSUME Awaiting' PROVE Coming'
        BY DEF StreamingEnds
    <1>1. /\ OutShift(1) /\ 1 \notin Settles /\ turn' = turn /\ input' = input
          /\ ~host'.pendingAbortSettle /\ ~Swallowed' /\ Coming
        BY StrayTaken DEF StreamingEnds, Swallowed
    <1>2. CASE SettleInPipe
        <2>1. PICK j \in Settles : TRUE
            BY <1>2 DEF SettleInPipe
        <2>2. j > 1
            BY <1>1, OrderTypes DEF Settles
        <2>3. j - 1 \in Settles'
            BY <1>1, <2>2, SettlesShift
        <2> QED BY <1>1, <2>3 DEF Coming, SettleInPipe
    <1>3. CASE TurnAtWork
        BY <1>1, <1>3 DEF Coming, TurnAtWork
    <1>4. CASE PromptInPipe
        <2>1. Prompts' = Prompts
            BY <1>1 DEF Prompts
        <2> QED BY <1>1, <1>4, <2>1 DEF Coming, PromptInPipe
    <1> QED BY <1>1, <1>2, <1>3, <1>4 DEF Coming

LEMMA NextEnds ==
    ASSUME TypeOK, TypeOK', Inv, Owned, StreamingEnds, [Next]_vars
    PROVE  StreamingEnds'
    <1>1. CASE Prompting
        BY <1>1, PromptEnds DEF StreamingEnds
    <1>2. CASE Passing
        BY <1>2, PassEnds DEF StreamingEnds, Passing
    <1>3. CASE Turning
        BY <1>3, TurnEnds DEF StreamingEnds, Turning, Awaiting, gatewayVars
    <1>4. CASE Beginning
        BY <1>4, BeginEnds DEF StreamingEnds
    <1>5. CASE Gating
        BY <1>5, GateEnds DEF StreamingEnds
    <1>6. CASE OnSettled \/ OnStray
        BY <1>6, SettleEnds, StrayEnds
    <1>7. CASE LoseHost
        BY <1>7, LoseOwned DEF StreamingEnds, Awaiting
    <1> QED BY <1>1, <1>2, <1>3, <1>4, <1>5, <1>6, <1>7, StepKinds

LEMMA InitEnds == Init => Owned /\ StreamingEnds
    <1> SUFFICES ASSUME Init PROVE Owned /\ StreamingEnds
        OBVIOUS
    <1>1. Worked = {} /\ ~host.pendingAbortSettle /\ ~live
        BY EmptyFacts DEF Init, Worked, FreshHandle
    <1> QED BY <1>1 DEF Owned, StreamingEnds, Awaiting

\* When the agent is settled and nothing is on its way in either direction the row does
\* not claim a turn, unless a gate stop is still unanswered: a marker swallows one settle,
\* and while a row is streaming one more than that is to come.  (agent_settled,
\* escalateGate, prepareTurn)
THEOREM StreamingRowsEnd == Spec => []NoStuckStreaming
    <1>1. StreamingEnds => NoStuckStreaming
        <2> SUFFICES ASSUME StreamingEnds, Quiet, ~host.gateStopped, state = "streaming"
                     PROVE  FALSE
            BY DEF NoStuckStreaming
        <2>1. Prompts = {} /\ Settles = {} /\ turn = 0 /\ live
            BY EmptyFacts DEF Quiet, Prompts, Settles, Worked
        <2> QED BY <2>1 DEF StreamingEnds, Awaiting, Coming, SettleInPipe, TurnAtWork, PromptInPipe
    <1> QED BY <1>1, InitTyped, InitHolds, InitEnds, NextTyped, NextKeeps, NextOwned, NextEnds, PTL
            DEF Spec
=============================================================================
