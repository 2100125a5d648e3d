------------------------------ MODULE Executor ------------------------------
(***************************************************************************)
(* call_executor (scripts/roboport_runtime/executor.py): one plan step run *)
(* against its owner agent.  A round asks the provider for a reply, with   *)
(* bounded retries on transient errors; a reply is a batch of tool calls,  *)
(* an empty message or a final answer; an answer that misses the output    *)
(* schema gets one repair pass.                                            *)
(*                                                                         *)
(* The provider (a remote model) is the environment: it may fail, or reply *)
(* anything its interface allows, at every call.  Prompts, arguments and   *)
(* tool results are abstracted away; the names in a batch are chosen when  *)
(* the executor reaches them, which nothing can tell from choosing them    *)
(* when the reply arrives.                                                 *)
(***************************************************************************)
EXTENDS Naturals

CONSTANTS
    Tools,          \* tool names a model can ask for
    Allowed,        \* the owner's whitelist (config `tools`)
    Unsafe,         \* names the denylist patterns match
    MaxRounds,      \* MAX_TOOL_ROUNDS
    MaxRetries,     \* MAX_PROVIDER_RETRIES
    LLMBudgets,     \* the max_llm_calls an agent may be configured with
    ToolBudgets,    \* the max_tool_calls an agent may be configured with
    MaxBatch        \* bound: tool calls in one reply

ASSUME ExecutorAssumption ==
    /\ Allowed \subseteq Tools
    /\ Unsafe \subseteq Tools
    /\ MaxRounds \in Nat \ {0}
    /\ MaxRetries \in Nat
    /\ LLMBudgets \subseteq Nat
    /\ ToolBudgets \subseteq Nat
    /\ MaxBatch \in Nat \ {0}

VARIABLES
    step,       \* the step, its owner's registry entry and its budget
    pc,         \* where call_executor is
    round,      \* round_idx
    llmCalls,   \* llm_calls; usage is folded into the telemetry with it
    toolCalls,  \* tool_calls_total
    retries,    \* retries_total
    attempt,    \* retries used by the current _chat_retry
    batch,      \* tool calls of the current reply still to be handled
    answer,     \* the parsed answer under repair
    result,     \* what the call returned
    executed,   \* history: tools dispatched
    replies,    \* history: replies the provider produced (and billed)
    reattempts  \* history: rounds' calls re-tried after a transient error

vars == <<step, pc, round, llmCalls, toolCalls, retries, attempt, batch, answer,
          result, executed, replies, reattempts>>

-----------------------------------------------------------------------------
(* Data                                                                    *)

Owners == {"unknown", "stub", "agent"}

\* What varies from step to step.  `typed`: output_type names a schema;
\* `list`: output_type starts with "list[".
Steps == [owner : Owners, typed : BOOLEAN, list : BOOLEAN,
          maxLLM : LLMBudgets, maxTools : ToolBudgets]

\* An output, by what the executor can tell of it: it conforms and holds
\* something, it is an empty list, or it misses the schema.
Shapes == {"good", "empty", "bad"}

\* A parsed final answer: the model's own verdict and its output.
Answers == [status : {"ok", "failed"}, shape : Shapes]

Criteria == {"schema", "quiet200"}

Layers == {"none", "provider_5xx", "provider_error", "budget_exceeded",
           "unsafe_action"}

Results == [status : {"pending", "ok", "failed"}, layer : Layers,
            output : Shapes \cup {"none"}, failing : SUBSET Criteria,
            llm : Nat, tools : Nat, retries : Nat,
            repaired : BOOLEAN, telemetry : BOOLEAN, escalated : SUBSET Tools]

Pending == [status |-> "pending", layer |-> "none", output |-> "none",
            failing |-> {}, llm |-> 0, tools |-> 0, retries |-> 0,
            repaired |-> FALSE, telemetry |-> FALSE, escalated |-> {}]

\* An empty list is a valid array of anything and a valid nothing else.
Conforms(shape) ==
    \/ ~step.typed
    \/ shape = "good"
    \/ shape = "empty" /\ step.list

\* The criteria the executor itself appends as failed.
Failing(a) ==
    {c \in Criteria : \/ c = "schema" /\ ~Conforms(a.shape)
                      \/ c = "quiet200" /\ step.list /\ a.shape = "empty"}

\* return _failed(...): no output, no telemetry.
Fail(layer, llm, nTools, nRetries, escalated) ==
    /\ pc' = "returned"
    /\ result' = [status |-> "failed", layer |-> layer,
                  output |-> "none", failing |-> {}, llm |-> llm,
                  tools |-> nTools, retries |-> nRetries,
                  repaired |-> FALSE, telemetry |-> FALSE,
                  escalated |-> escalated]

\* The final return: the model's own status, with the failed criteria beside it.
Deliver(a, llm, nRetries, repaired) ==
    /\ pc' = "returned"
    /\ result' = [status |-> a.status, layer |-> "none",
                  output |-> a.shape, failing |-> Failing(a), llm |-> llm,
                  tools |-> toolCalls, retries |-> nRetries,
                  repaired |-> repaired, telemetry |-> TRUE, escalated |-> {}]

-----------------------------------------------------------------------------
Init ==
    /\ step \in Steps
    /\ pc = "entry"
    /\ round = 0
    /\ llmCalls = 0
    /\ toolCalls = 0
    /\ retries = 0
    /\ attempt = 0
    /\ batch = 0
    /\ answer \in {[status |-> "ok", shape |-> "good"]}
    /\ result = Pending
    /\ executed = {}
    /\ replies = 0
    /\ reattempts = 0

counters == <<llmCalls, toolCalls, retries, attempt>>
histories == <<executed, replies, reattempts>>

\* An owner missing from the registry fails before any call.
RejectOwner ==
    /\ pc = "entry"
    /\ step.owner = "unknown"
    /\ Fail("none", 0, 0, 0, {})
    /\ UNCHANGED <<step, round, counters, batch, answer, histories>>

\* A deterministic agent without a model returns a stub naming its owner and
\* input, every criterion marked passed; no schema is consulted.
ReturnStub ==
    /\ pc = "entry"
    /\ step.owner = "stub"
    /\ pc' = "returned"
    /\ result' = [Pending EXCEPT !.status = "ok", !.telemetry = TRUE,
                     !.output = IF step.typed THEN "bad" ELSE "good"]
    /\ UNCHANGED <<step, round, counters, batch, answer, histories>>

\* provider() or load_agent_spec raises: nothing here catches it.
RaiseSetup ==
    /\ pc = "entry"
    /\ step.owner = "agent"
    /\ pc' = "raised"
    /\ UNCHANGED <<step, round, counters, batch, answer, result, histories>>

EnterRounds ==
    /\ pc = "entry"
    /\ step.owner = "agent"
    /\ pc' = "round"
    /\ UNCHANGED <<step, round, counters, batch, answer, result, histories>>

-----------------------------------------------------------------------------
(* The head of a round                                                     *)

ExhaustRounds ==
    /\ pc = "round"
    /\ round = MaxRounds
    /\ Fail("budget_exceeded", llmCalls, toolCalls, retries, {})
    /\ UNCHANGED <<step, round, counters, batch, answer, histories>>

ExceedCallBudget ==
    /\ pc = "round"
    /\ round < MaxRounds
    /\ llmCalls >= step.maxLLM
    /\ Fail("budget_exceeded", llmCalls, toolCalls, retries, {})
    /\ UNCHANGED <<step, round, counters, batch, answer, histories>>

\* Fault: the call budget is compared with <=.
StartRoundOverBudget ==
    /\ pc = "round"
    /\ round < MaxRounds
    /\ llmCalls <= step.maxLLM
    /\ pc' = "chat"
    /\ UNCHANGED <<step, round, counters, batch, answer, result, histories>>

StartRound ==
    /\ pc = "round"
    /\ round < MaxRounds
    /\ llmCalls < step.maxLLM
    /\ pc' = "chat"
    /\ UNCHANGED <<step, round, counters, batch, answer, result, histories>>

-----------------------------------------------------------------------------
(* The provider call of a round: _chat_retry                               *)

\* Fault: one retry too many.
RetryChatOnceMore ==
    /\ pc = "chat"
    /\ attempt <= MaxRetries
    /\ attempt' = attempt + 1
    /\ reattempts' = reattempts + 1
    /\ UNCHANGED <<step, pc, round, llmCalls, toolCalls, retries, batch, answer,
                   result, executed, replies>>

RetryChat ==
    /\ pc = "chat"
    /\ attempt < MaxRetries
    /\ attempt' = attempt + 1
    /\ reattempts' = reattempts + 1
    /\ UNCHANGED <<step, pc, round, llmCalls, toolCalls, retries, batch, answer,
                   result, executed, replies>>

\* Fault: the retries of the failing call are left out of the report.
ExhaustRetriesUnreported ==
    /\ pc = "chat"
    /\ attempt = MaxRetries
    /\ Fail("provider_5xx", llmCalls, toolCalls, retries, {})
    /\ UNCHANGED <<step, round, counters, batch, answer, histories>>

ExhaustRetries ==
    /\ pc = "chat"
    /\ attempt = MaxRetries
    /\ Fail("provider_5xx", llmCalls, toolCalls, retries + MaxRetries, {})
    /\ UNCHANGED <<step, round, counters, batch, answer, histories>>

\* Any other exception is fatal; what _chat_retry had re-tried is not reported.
FailChat ==
    /\ pc = "chat"
    /\ Fail("provider_error", llmCalls, toolCalls, retries, {})
    /\ UNCHANGED <<step, round, counters, batch, answer, histories>>

\* What every reply of a round does before it is looked at.
CountReply ==
    /\ pc = "chat"
    /\ llmCalls' = llmCalls + 1
    /\ retries' = retries + attempt
    /\ attempt' = 0
    /\ replies' = replies + 1
    /\ UNCHANGED <<step, toolCalls, executed, reattempts>>

ReceiveToolCalls ==
    /\ CountReply
    /\ batch' \in 1..MaxBatch
    /\ pc' = "tools"
    /\ UNCHANGED <<round, answer, result>>

\* An empty message is answered with a nudge, in every round but the last.
ReceiveEmpty ==
    /\ CountReply
    /\ \/ /\ round < MaxRounds - 1
          /\ round' = round + 1
          /\ pc' = "round"
          /\ UNCHANGED result
       \/ /\ round = MaxRounds - 1
          /\ Fail("none", llmCalls + 1, toolCalls, 0, {})
          /\ UNCHANGED round
    /\ UNCHANGED <<batch, answer>>

ReceiveGarbled ==
    /\ CountReply
    /\ Fail("none", llmCalls + 1, toolCalls, 0, {})
    /\ UNCHANGED <<round, batch, answer>>

\* JSON that is not an object: `result.get` raises out of call_executor.
ReceiveNonObject ==
    /\ CountReply
    /\ pc' = "raised"
    /\ UNCHANGED <<round, batch, answer, result>>

\* Fault: the repair call is made whatever is left of the budget.
ReceiveAnswerUngated(a) ==
    /\ CountReply
    /\ IF Conforms(a.shape)
       THEN /\ Deliver(a, llmCalls + 1, retries + attempt, FALSE)
            /\ UNCHANGED answer
       ELSE /\ pc' = "repair"
            /\ answer' = a
            /\ UNCHANGED result
    /\ UNCHANGED <<round, batch>>

\* A final answer goes to repair if it misses the schema and a call is left.
ReceiveAnswer(a) ==
    /\ CountReply
    /\ \/ /\ ~Conforms(a.shape)
          /\ llmCalls + 1 < step.maxLLM
          /\ pc' = "repair"
          /\ answer' = a
          /\ UNCHANGED result
       \/ /\ Conforms(a.shape) \/ llmCalls + 1 >= step.maxLLM
          /\ Deliver(a, llmCalls + 1, retries + attempt, FALSE)
          /\ UNCHANGED answer
    /\ UNCHANGED <<round, batch>>

-----------------------------------------------------------------------------
(* The tool calls of a reply, in order                                     *)

\* The denylist comes first: it overrides the whitelist and ends the step.
EscalateUnsafe(t) ==
    /\ pc = "tools"
    /\ batch > 0
    /\ t \in Unsafe
    /\ Fail("unsafe_action", llmCalls, toolCalls, retries, {t})
    /\ UNCHANGED <<step, round, counters, batch, answer, histories>>

\* A benign tool outside the whitelist is refused; the error is fed back.
RefuseTool(t) ==
    /\ pc = "tools"
    /\ batch > 0
    /\ t \notin Unsafe
    /\ t \notin Allowed
    /\ toolCalls' = toolCalls + 1
    /\ batch' = batch - 1
    /\ UNCHANGED <<step, pc, round, llmCalls, retries, attempt, answer, result,
                   histories>>

\* Fault: the whitelist is consulted before the denylist.
DispatchWhitelisted(t) ==
    /\ pc = "tools"
    /\ batch > 0
    /\ t \in Allowed
    /\ executed' = executed \cup {t}
    /\ toolCalls' = toolCalls + 1
    /\ batch' = batch - 1
    /\ UNCHANGED <<step, pc, round, llmCalls, retries, attempt, answer, result,
                   replies, reattempts>>

DispatchTool(t) ==
    /\ pc = "tools"
    /\ batch > 0
    /\ t \notin Unsafe
    /\ t \in Allowed
    /\ executed' = executed \cup {t}
    /\ toolCalls' = toolCalls + 1
    /\ batch' = batch - 1
    /\ UNCHANGED <<step, pc, round, llmCalls, retries, attempt, answer, result,
                   replies, reattempts>>

\* Fault: the tool budget is forgotten.
EndBatchUnchecked ==
    /\ pc = "tools"
    /\ batch = 0
    /\ round' = round + 1
    /\ pc' = "round"
    /\ UNCHANGED <<step, counters, batch, answer, result, histories>>

\* The tool budget is looked at once the whole batch has run.
EndBatch ==
    /\ pc = "tools"
    /\ batch = 0
    /\ \/ /\ toolCalls > step.maxTools
          /\ Fail("budget_exceeded", llmCalls, toolCalls, retries, {})
          /\ UNCHANGED round
       \/ /\ toolCalls <= step.maxTools
          /\ round' = round + 1
          /\ pc' = "round"
          /\ UNCHANGED result
    /\ UNCHANGED <<step, counters, batch, answer, histories>>

-----------------------------------------------------------------------------
(* _repair_schema: one more call, its retries and its failures swallowed   *)

\* Fault: the retry counter starts over inside the loop.
RetryRepairForever ==
    /\ pc = "repair"
    /\ attempt' = IF attempt < MaxRetries THEN attempt + 1 ELSE 0
    /\ UNCHANGED <<step, pc, round, llmCalls, toolCalls, retries, batch, answer,
                   result, histories>>

\* Retries of the repair call; `attempt` restarted when the reply came in.
RetryRepair ==
    /\ pc = "repair"
    /\ attempt < MaxRetries
    /\ attempt' = attempt + 1
    /\ UNCHANGED <<step, pc, round, llmCalls, toolCalls, retries, batch, answer,
                   result, histories>>

\* No usable reply: retries exhausted, a fatal error, or content that is not
\* JSON (only then did the provider reply).  The first answer stands.
AbandonRepair ==
    /\ pc = "repair"
    /\ replies' \in {replies, replies + 1}
    /\ Deliver(answer, llmCalls, retries, FALSE)
    /\ UNCHANGED <<step, round, counters, batch, answer, executed, reattempts>>

\* What a parsed repair does: it counts as a call whatever it holds.
CountRepair ==
    /\ pc = "repair"
    /\ llmCalls' = llmCalls + 1
    /\ replies' = replies + 1
    /\ UNCHANGED <<step, round, toolCalls, retries, attempt, batch, answer,
                   executed, reattempts>>

\* Fault: the repaired answer is returned with the first answer's criteria.
RepairWithStaleCriteria(a) ==
    /\ CountRepair
    /\ pc' = "returned"
    /\ result' = [status |-> a.status, layer |-> "none", output |-> a.shape,
                  failing |-> Failing(answer), llm |-> llmCalls + 1,
                  tools |-> toolCalls, retries |-> retries, repaired |-> TRUE,
                  telemetry |-> TRUE, escalated |-> {}]

\* The repaired answer replaces the first; it is validated again, not re-repaired.
RepairWith(a) ==
    /\ CountRepair
    /\ Deliver(a, llmCalls + 1, retries, TRUE)

RepairNonObject ==
    /\ CountRepair
    /\ pc' = "raised"
    /\ UNCHANGED result

-----------------------------------------------------------------------------
Closed == pc \in {"returned", "raised"}

Next ==
    \/ RejectOwner \/ ReturnStub \/ RaiseSetup \/ EnterRounds
    \/ ExhaustRounds \/ ExceedCallBudget \/ StartRound
    \/ RetryChat \/ ExhaustRetries \/ FailChat
    \/ ReceiveToolCalls \/ ReceiveEmpty \/ ReceiveGarbled \/ ReceiveNonObject
    \/ \E a \in Answers : ReceiveAnswer(a)
    \/ \E t \in Tools : EscalateUnsafe(t) \/ RefuseTool(t) \/ DispatchTool(t)
    \/ EndBatch
    \/ RetryRepair \/ AbandonRepair \/ RepairNonObject
    \/ \E a \in Answers : RepairWith(a)

\* One thread runs the step and every provider call ends (a timeout raises).
Spec == Init /\ [][Next]_vars /\ WF_vars(Next)

-----------------------------------------------------------------------------
(* Properties                                                              *)

\* Every variable stays in its range, and the counters within what the loop,
\* the retry limit and the batch bound allow.
TypeOK ==
    /\ step \in Steps
    /\ pc \in {"entry", "round", "chat", "tools", "repair", "returned", "raised"}
    /\ round \in 0..MaxRounds
    /\ llmCalls \in Nat
    /\ toolCalls \in Nat
    /\ retries \in Nat
    /\ attempt \in 0..MaxRetries
    /\ batch \in 0..MaxBatch
    /\ answer \in Answers
    /\ result \in Results
    /\ executed \subseteq Tools
    /\ replies \in Nat
    /\ reattempts \in Nat

\* Deny overrides allow: no denied tool ever runs, whitelisted or not, and no
\* tool outside the whitelist runs either (L290-308).
OnlyPermittedToolsRun == executed \subseteq Allowed \ Unsafe

\* The step never draws more replies from the provider than its budget, the
\* uncounted ones of an abandoned repair included; and it never reports more
\* calls than were made nor hides more than one (L247, L351-356).
CallBudgetHolds ==
    /\ replies <= step.maxLLM
    /\ llmCalls <= replies
    /\ replies <= llmCalls + 1
    /\ replies > llmCalls => pc = "returned" /\ result.failing # {}

\* The model is never consulted again once the tool budget is overrun: only
\* the batch that overran it was run, and it ends the step (L313-317).
OverrunEndsStep ==
    /\ pc \in {"round", "chat", "repair"} => toolCalls <= step.maxTools
    /\ toolCalls <= step.maxTools + MaxBatch
    /\ toolCalls > step.maxTools /\ pc = "returned" =>
           result.layer \in {"budget_exceeded", "unsafe_action"}

\* An agent's output that misses its schema, or an empty search result, never
\* leaves the executor without the matching failed criterion beside it, and a
\* clean one never carries a stale criterion of the answer it replaced: the
\* list is rebuilt when a repair comes in (L345-378).
DefectsAreFlagged ==
    result.output # "none" /\ step.owner = "agent" =>
        /\ "schema" \in result.failing <=> ~Conforms(result.output)
        /\ "quiet200" \in result.failing <=> step.list /\ result.output = "empty"
        /\ result.repaired => replies = result.llm

\* The retries a step reports are the calls its rounds really made again, on
\* every way out but three that lose them: a fatal error (L269-272) and the
\* two failures built without `retries` (L332-339).
RetriesAccounted ==
    /\ pc \in {"round", "tools", "repair"} => retries = reattempts
    /\ pc = "chat" => retries + attempt = reattempts
    /\ pc = "returned" =>
           /\ result.retries <= reattempts
           /\ result.telemetry \/ result.layer \notin {"none", "provider_error"}
                  => result.retries = reattempts

\* Whatever the provider does, the step ends: returned or raised.
Terminates == <>Closed

\* The step implements its contract with the orchestrator.
Contract == INSTANCE StepContract WITH
    Permitted <- Allowed \ Unsafe,
    phase <- IF Closed THEN "closed" ELSE "running",
    cap <- step.maxLLM

Implements == Contract!Spec

-----------------------------------------------------------------------------
(* What the documentation says, refuted by a run                           *)

\* docs/architecture.md:86, "A schema-invalid output is a step failure, period".
SchemaInvalidFails ==
    step.owner = "agent" /\ result.status = "ok" => Conforms(result.output)
=============================================================================
