--------------------------- MODULE ExecutorProofs ---------------------------
(***************************************************************************)
(* The safety of call_executor for every whitelist, denylist, budget,      *)
(* number of rounds and of retries: the invariants the executor run checks *)
(* on one instance, from one inductive invariant, and that the step        *)
(* implements StepContract.                                                *)
(***************************************************************************)
EXTENDS Executor, TLAPS

-----------------------------------------------------------------------------
(* The inductive invariant                                                 *)

\* Nothing is returned before the call returns.
PendingUntilReturned == pc # "returned" => result = Pending

\* A provider call is only ever under way with a call of the budget left, and
\* every reply so far was counted; an answer under repair misses its schema.
CallsCounted ==
    /\ pc # "returned" => replies = llmCalls
    /\ llmCalls <= step.maxLLM
    /\ pc \in {"chat", "repair"} => llmCalls < step.maxLLM
    /\ pc = "repair" => ~Conforms(answer.shape)

\* A batch started within the tool budget.
BatchFits ==
    /\ pc \in {"entry", "round", "chat", "repair"} => toolCalls <= step.maxTools
    /\ pc = "tools" => toolCalls + batch <= step.maxTools + MaxBatch

\* Between provider calls no retry is pending.
AttemptsSettled ==
    /\ pc \in {"entry", "round", "tools"} => attempt = 0
    /\ pc = "entry" => retries = 0 /\ reattempts = 0

\* A reply is only handled inside the loop.
RoundsLeft == pc \in {"chat", "tools", "repair"} => round < MaxRounds

IInv ==
    /\ TypeOK
    /\ RoundsLeft
    /\ PendingUntilReturned
    /\ CallsCounted
    /\ BatchFits
    /\ AttemptsSettled
    /\ OnlyPermittedToolsRun
    /\ CallBudgetHolds
    /\ OverrunEndsStep
    /\ DefectsAreFlagged
    /\ RetriesAccounted

-----------------------------------------------------------------------------
(* The two ways to build a result                                          *)

LEMMA PendingIsResult == Pending \in Results /\ Pending.output = "none"
BY DEF Pending, Results, Criteria, Layers, Shapes

\* What _failed(...) returns carries no output and no failed criterion.
LEMMA FailReturns ==
    ASSUME NEW layer \in Layers, NEW llm \in Nat, NEW nTools \in Nat,
           NEW nRetries \in Nat, NEW escalated \in SUBSET Tools,
           Fail(layer, llm, nTools, nRetries, escalated)
    PROVE  /\ pc' = "returned"
           /\ result' \in Results
           /\ result'.output = "none"
           /\ result'.layer = layer
           /\ result'.retries = nRetries
           /\ ~result'.telemetry
BY DEF Fail, Results, Criteria, Layers, Shapes

\* What the final return delivers: answer a, flagged with exactly its defects.
Delivered(a, nRetries) ==
    /\ pc' = "returned"
    /\ result' \in Results
    /\ result'.output = a.shape
    /\ result'.layer = "none"
    /\ result'.retries = nRetries
    /\ "schema" \in result'.failing <=> ~Conforms(a.shape)
    /\ "quiet200" \in result'.failing <=> step.list /\ a.shape = "empty"

LEMMA DeliverReturns ==
    ASSUME NEW a \in Answers, NEW llm \in Nat, NEW nRetries \in Nat,
           NEW repaired \in BOOLEAN, toolCalls \in Nat,
           Deliver(a, llm, nRetries, repaired)
    PROVE  /\ Delivered(a, nRetries)
           /\ result'.llm = llm
           /\ result'.repaired = repaired
<1>1. Failing(a) \in SUBSET Criteria
  BY DEF Failing
<1>2. /\ "schema" \in Failing(a) <=> ~Conforms(a.shape)
      /\ "quiet200" \in Failing(a) <=> step.list /\ a.shape = "empty"
  BY DEF Failing, Criteria
<1>3. QED
  BY <1>1, <1>2 DEF Deliver, Delivered, Results, Answers, Layers

\* A first answer is delivered as it is ...
LEMMA AnswerDelivered ==
    ASSUME TypeOK, NEW a \in Answers,
           Deliver(a, llmCalls + 1, retries + attempt, FALSE)
    PROVE  Delivered(a, retries + attempt) /\ ~result'.repaired
<1>1. llmCalls + 1 \in Nat /\ retries + attempt \in Nat /\ toolCalls \in Nat
  BY ExecutorAssumption DEF TypeOK
<1>2. QED
  BY <1>1, DeliverReturns

\* ... so is the answer that a failed repair leaves standing ...
LEMMA AbandonedDelivered ==
    ASSUME TypeOK, AbandonRepair
    PROVE  Delivered(answer, retries) /\ ~result'.repaired
<1>1. llmCalls \in Nat /\ retries \in Nat /\ toolCalls \in Nat /\ answer \in Answers
  BY DEF TypeOK
<1>2. Deliver(answer, llmCalls, retries, FALSE)
  BY DEF AbandonRepair
<1>3. QED
  BY <1>1, <1>2, DeliverReturns

\* ... and the answer that replaces it.
LEMMA RepairedDelivered ==
    ASSUME TypeOK, NEW a \in Answers, RepairWith(a)
    PROVE  Delivered(a, retries) /\ result'.llm = llmCalls + 1
<1>1. llmCalls + 1 \in Nat /\ retries \in Nat /\ toolCalls \in Nat
  BY DEF TypeOK
<1>2. Deliver(a, llmCalls + 1, retries, TRUE)
  BY DEF RepairWith
<1>3. QED
  BY <1>1, <1>2, DeliverReturns

-----------------------------------------------------------------------------
(* The invariant holds initially and every action keeps it                 *)

\* The budgets of a step are numbers.
LEMMA BudgetsAreNumbers ==
    ASSUME step \in Steps
    PROVE  step.maxLLM \in Nat /\ step.maxTools \in Nat
BY ExecutorAssumption DEF Steps

LEMMA InitEstablishes == Init => IInv
<1> SUFFICES ASSUME Init PROVE IInv
  OBVIOUS
<1>1. TypeOK
  BY ExecutorAssumption, PendingIsResult DEF Init, TypeOK, Answers, Shapes
<1>2. step.maxLLM \in Nat /\ step.maxTools \in Nat
  BY BudgetsAreNumbers DEF Init
<1>3. /\ RoundsLeft /\ PendingUntilReturned /\ CallsCounted
      /\ BatchFits /\ AttemptsSettled
  BY <1>2 DEF Init, RoundsLeft, PendingUntilReturned, CallsCounted, BatchFits,
              AttemptsSettled
<1>4. OnlyPermittedToolsRun /\ CallBudgetHolds /\ OverrunEndsStep
  BY <1>2, ExecutorAssumption
     DEF Init, OnlyPermittedToolsRun, CallBudgetHolds, OverrunEndsStep
<1>5. DefectsAreFlagged /\ RetriesAccounted
  BY PendingIsResult DEF Init, DefectsAreFlagged, RetriesAccounted
<1>6. QED
  BY <1>1, <1>3, <1>4, <1>5 DEF IInv

LEMMA IInvTyped == IInv => TypeOK
BY DEF IInv

\* By cases on the actions of Next.
LEMMA StepPreserves == IInv /\ [Next]_vars => IInv'
<1> SUFFICES ASSUME IInv, [Next]_vars PROVE IInv'
  OBVIOUS
<1> USE ExecutorAssumption, BudgetsAreNumbers, PendingIsResult
    DEF IInv, TypeOK, RoundsLeft, PendingUntilReturned, CallsCounted, BatchFits,
        AttemptsSettled, OnlyPermittedToolsRun, CallBudgetHolds, OverrunEndsStep,
        DefectsAreFlagged, RetriesAccounted, counters, histories, CountReply,
        CountRepair
<1>1. CASE RejectOwner
  <2>1. Fail("none", 0, 0, 0, {})
    BY <1>1 DEF RejectOwner
  <2>2. /\ result' \in Results /\ result'.output = "none" /\ result'.layer = "none"
        /\ result'.retries = 0 /\ ~result'.telemetry /\ pc' = "returned"
    BY <2>1, FailReturns DEF Layers
  <2>3. QED
    BY <1>1, <2>2 DEF RejectOwner
<1>2. CASE ReturnStub
  <2>1. result' \in Results /\ result'.retries = 0 /\ step.owner # "agent"
    BY <1>2 DEF ReturnStub, Pending, Results, Layers, Criteria, Shapes
  <2>2. QED
    BY <1>2, <2>1 DEF ReturnStub
<1>3. CASE RaiseSetup
  BY <1>3 DEF RaiseSetup
<1>4. CASE EnterRounds
  BY <1>4 DEF EnterRounds
<1>5. CASE ExhaustRounds
  BY <1>5, FailReturns DEF ExhaustRounds, Layers
<1>6. CASE ExceedCallBudget
  BY <1>6, FailReturns DEF ExceedCallBudget, Layers
<1>7. CASE StartRound
  BY <1>7 DEF StartRound
<1>8. CASE RetryChat
  BY <1>8 DEF RetryChat
<1>9. CASE ExhaustRetries
  BY <1>9, FailReturns DEF ExhaustRetries, Layers
<1>10. CASE FailChat
  BY <1>10, FailReturns DEF FailChat, Layers
<1>11. CASE ReceiveToolCalls
  BY <1>11 DEF ReceiveToolCalls
<1>12. CASE ReceiveEmpty
  BY <1>12, FailReturns DEF ReceiveEmpty, Layers
<1>13. CASE ReceiveGarbled
  BY <1>13, FailReturns DEF ReceiveGarbled, Layers
<1>14. CASE ReceiveNonObject
  BY <1>14 DEF ReceiveNonObject
<1>15. ASSUME NEW a \in Answers, ReceiveAnswer(a) PROVE IInv'
  <2>1. CASE ~Conforms(a.shape) /\ llmCalls + 1 < step.maxLLM
    <3>1. pc' = "repair" /\ answer' = a /\ UNCHANGED result
      <4>1. ~(llmCalls + 1 >= step.maxLLM)
        BY <2>1
      <4>2. QED
        BY <1>15, <2>1, <4>1, Zenon DEF ReceiveAnswer
    <3>2. TypeOK' /\ CallsCounted' /\ CallBudgetHolds'
      BY <1>15, <2>1, <3>1 DEF ReceiveAnswer, Conforms
    <3>3. QED
      BY <1>15, <3>1, <3>2 DEF ReceiveAnswer, Conforms
  <2>2. CASE Deliver(a, llmCalls + 1, retries + attempt, FALSE) /\ UNCHANGED answer
    <3>1. Delivered(a, retries + attempt) /\ ~result'.repaired
      BY <1>15, <2>2, AnswerDelivered, IInvTyped
    <3>2. retries + attempt = reattempts
      BY <1>15 DEF ReceiveAnswer
    <3>3. QED
      BY <1>15, <2>2, <3>1, <3>2 DEF ReceiveAnswer, Delivered, Conforms
  <2>3. QED
    BY <1>15, <2>1, <2>2 DEF ReceiveAnswer
<1>16. ASSUME NEW t \in Tools, EscalateUnsafe(t) PROVE IInv'
  BY <1>16, FailReturns DEF EscalateUnsafe, Layers
<1>17. ASSUME NEW t \in Tools, RefuseTool(t) PROVE IInv'
  BY <1>17 DEF RefuseTool
<1>18. ASSUME NEW t \in Tools, DispatchTool(t) PROVE IInv'
  BY <1>18 DEF DispatchTool
<1>19. CASE EndBatch
  <2>1. CASE toolCalls > step.maxTools
    BY <1>19, <2>1, FailReturns DEF EndBatch, Layers
  <2>2. CASE toolCalls <= step.maxTools
    BY <1>19, <2>2 DEF EndBatch
  <2>3. QED
    BY <1>19, <2>1, <2>2 DEF EndBatch
<1>20. CASE RetryRepair
  BY <1>20 DEF RetryRepair, Conforms
<1>21. CASE AbandonRepair
  <2>1. Delivered(answer, retries) /\ ~result'.repaired
    BY <1>21, AbandonedDelivered, IInvTyped
  <2>2. "schema" \in result'.failing
    BY <1>21, <2>1 DEF AbandonRepair, Delivered
  <2>3. QED
    BY <1>21, <2>1, <2>2 DEF AbandonRepair, Delivered, Conforms
<1>22. ASSUME NEW a \in Answers, RepairWith(a) PROVE IInv'
  <2>1. Delivered(a, retries) /\ result'.llm = llmCalls + 1
    BY <1>22, RepairedDelivered, IInvTyped
  <2>2. QED
    BY <1>22, <2>1 DEF RepairWith, Delivered, Conforms
<1>23. CASE RepairNonObject
  BY <1>23 DEF RepairNonObject
<1>24. CASE UNCHANGED vars
  BY <1>24 DEF vars, Conforms
<1>25. QED
  BY <1>1, <1>2, <1>3, <1>4, <1>5, <1>6, <1>7, <1>8, <1>9, <1>10, <1>11, <1>12,
     <1>13, <1>14, <1>15, <1>16, <1>17, <1>18, <1>19, <1>20, <1>21, <1>22, <1>23,
     <1>24 DEF Next

-----------------------------------------------------------------------------
(* Theorems                                                                *)

\* The inductive invariant holds in every reachable state.
LEMMA Invariance == Spec => []IInv
BY InitEstablishes, StepPreserves, PTL DEF Spec

\* Every variable of call_executor keeps its type, whatever the provider does.
THEOREM TypeCorrect == Spec => []TypeOK
<1>1. IInv => TypeOK
  BY DEF IInv
<1>2. QED
  BY <1>1, Invariance, PTL

\* Layer 3 of the error stack: whatever the model asks for, no denied tool and
\* no tool outside the whitelist is ever dispatched.
THEOREM DenyOverridesAllow == Spec => []OnlyPermittedToolsRun
<1>1. IInv => OnlyPermittedToolsRun
  BY DEF IInv
<1>2. QED
  BY <1>1, Invariance, PTL

\* Layer 2: the step never draws more replies than max_llm_calls, the repair
\* pass included, and reports all of them but at most an abandoned repair's.
THEOREM CallBudget == Spec => []CallBudgetHolds
<1>1. IInv => CallBudgetHolds
  BY DEF IInv
<1>2. QED
  BY <1>1, Invariance, PTL

\* Layer 2: a batch that overruns max_tool_calls ends the step.
THEOREM ToolBudget == Spec => []OverrunEndsStep
<1>1. IInv => OverrunEndsStep
  BY DEF IInv
<1>2. QED
  BY <1>1, Invariance, PTL

\* Layer 1: an output that misses its schema, or an empty search result, is
\* never returned unflagged, and a clean one never carries a stale flag.
THEOREM DefectsFlagged == Spec => []DefectsAreFlagged
<1>1. IInv => DefectsAreFlagged
  BY DEF IInv
<1>2. QED
  BY <1>1, Invariance, PTL

\* Layer 1: the retries reported are the calls made again.
THEOREM RetriesReported == Spec => []RetriesAccounted
<1>1. IInv => RetriesAccounted
  BY DEF IInv
<1>2. QED
  BY <1>1, Invariance, PTL

\* The states and steps of the executor are states and steps of its contract.
LEMMA ContractInit == Init => Contract!Init
BY BudgetsAreNumbers DEF Init, Contract!Init, Closed

LEMMA ContractStep ==
    ASSUME IInv, [Next]_vars
    PROVE  [Contract!Next]_Contract!vars
<1> DEFINE Idle == UNCHANGED <<step, executed, replies>>
           Reply == /\ replies < step.maxLLM /\ replies' = replies + 1
                    /\ UNCHANGED <<step, executed>>
<1> USE DEF counters, histories, Contract!vars, Contract!Next
<1>1. CASE ~Closed /\ Idle
  BY <1>1 DEF Closed, Contract!Close
<1>2. CASE ~Closed /\ Reply
  BY <1>2 DEF Closed, Contract!Consult
<1>3. ASSUME NEW t \in Tools, DispatchTool(t)
      PROVE  Contract!Run(t) /\ t \in Allowed \ Unsafe
  BY <1>3 DEF DispatchTool, Closed, Contract!Run
<1>4. CASE UNCHANGED vars
  BY <1>4 DEF vars, Closed
<1>5. /\ pc \in {"chat", "repair"} => replies < step.maxLLM
      /\ replies \in Nat
  BY DEF IInv, CallsCounted, TypeOK
<1>6. CASE RejectOwner \/ ReturnStub \/ RaiseSetup \/ EnterRounds
  BY <1>1, <1>6 DEF RejectOwner, ReturnStub, RaiseSetup, EnterRounds, Closed
<1>7. CASE ExhaustRounds \/ ExceedCallBudget \/ StartRound
  BY <1>1, <1>7 DEF ExhaustRounds, ExceedCallBudget, StartRound, Closed
<1>8. CASE RetryChat \/ ExhaustRetries \/ FailChat
  BY <1>1, <1>8 DEF RetryChat, ExhaustRetries, FailChat, Closed
<1>9. CASE CountReply
  BY <1>2, <1>5, <1>9 DEF CountReply, Closed
<1>10. ASSUME NEW t \in Tools, EscalateUnsafe(t) \/ RefuseTool(t)
       PROVE [Contract!Next]_Contract!vars
  BY <1>1, <1>10 DEF EscalateUnsafe, RefuseTool, Closed
<1>11. CASE EndBatch \/ RetryRepair
  BY <1>1, <1>11 DEF EndBatch, RetryRepair, Closed
<1>12. CASE AbandonRepair
  BY <1>1, <1>2, <1>5, <1>12 DEF AbandonRepair, Closed
<1>13. CASE CountRepair
  BY <1>2, <1>5, <1>13 DEF CountRepair, Closed
<1>14. CASE ReceiveToolCalls \/ ReceiveEmpty \/ ReceiveGarbled \/ ReceiveNonObject
  BY <1>9, <1>14 DEF ReceiveToolCalls, ReceiveEmpty, ReceiveGarbled, ReceiveNonObject
<1>15. ASSUME NEW a \in Answers, ReceiveAnswer(a) \/ RepairWith(a)
       PROVE [Contract!Next]_Contract!vars
  BY <1>9, <1>13, <1>15 DEF ReceiveAnswer, RepairWith
<1>16. CASE RepairNonObject
  BY <1>13, <1>16 DEF RepairNonObject
<1>17. QED
  BY <1>3, <1>4, <1>6, <1>7, <1>8, <1>10, <1>11, <1>12, <1>14, <1>15, <1>16 DEF Next

\* What the orchestrator may assume of a step, call_executor delivers.
THEOREM ExecutorRefinesContract == Spec => Implements
<1>1. Init => Contract!Init
  BY ContractInit
<1>2. IInv /\ [Next]_vars => [Contract!Next]_Contract!vars
  BY ContractStep
<1>3. QED
  BY <1>1, <1>2, Invariance, PTL DEF Spec, Implements, Contract!Spec
=============================================================================
