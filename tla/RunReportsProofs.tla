--------------------------- MODULE RunReportsProofs ---------------------------
(***************************************************************************)
(* The readers of run directories for any plans, results and gradings, and *)
(* any number of launches and kills: what is on disk keeps its kind, only  *)
(* losses fail the build, the overlay shows what the comparison says, and  *)
(* the readers of a directory tell the same of it.                         *)
(*                                                                         *)
(* Induction is over a set of naturals (NatSetInduction), and what a fold, *)
(* a flattened sequence or the last place of a sequence is follows from    *)
(* the CHOOSE it is defined by, with the steps of the definition as the    *)
(* induction (Flattened, FoldExists, FoldRuns).                            *)
(***************************************************************************)
EXTENDS RunReports, FiniteSetTheorems, NaturalsInduction, SequenceTheorems, TLAPS

-----------------------------------------------------------------------------
(* What is on disk and in memory                                           *)

LEMMA Kinds ==
    /\ \A p \in Plans : p \in [goal : STRING, steps : Seq([owner : STRING, type : STRING])]
    /\ \A r \in Results :
        r \in [status : {"ok", "failed"}, criteria : [DOMAIN r.criteria -> BOOLEAN],
              calls : Nat, ms : Nat, fp : STRING, route : STRING, cost : Nat \cup {Unknown}]
    /\ Outputs \subseteq [failed : {FALSE}, valid : {"valid", "invalid", "none"}, stable : Nat]
    /\ TypeOf \in Seq(STRING)
    /\ \A g \in Gradings :
        /\ g \in [verdict : [DOMAIN g.verdict -> Verdicts], blockers : SUBSET DOMAIN g.verdict,
                 rate : Nat, blockerFailed : BOOLEAN]
        /\ DOMAIN g.verdict \subseteq Expectations
BY RunReportsAssumption, Zenon

LEMMA LaunchesBounded == MaxLaunches \in Nat /\ Baselines \subseteq Directories
BY RunReportsAssumption, Zenon

\* The files of a directory, one by one.
LEMMA FilesAre ==
    ASSUME NEW d \in Directories
    PROVE  /\ d.plan \in Plans \cup {NoPlan} /\ d.log \in Seq(StepLines)
           /\ d.final = <<>> \/ \E o \in Outputs \cup {FailedOutput} : d.final = <<o>>
           /\ d.grading = <<>> \/ \E g \in Gradings : d.grading = <<g>>
           /\ "grading" \in d.torn => d.grading = <<>>
BY DEF Directories

\* A write of one file changes that file and its mark.
LEMMA FilesKept ==
    ASSUME NEW d \in Directories
    PROVE  /\ \A p \in Plans \cup {NoPlan} : [d EXCEPT !.plan = p] \in Directories
           /\ \A l \in StepLines : [d EXCEPT !.log = Append(@, l)] \in Directories
           /\ \A o \in Outputs \cup {FailedOutput} :
                  [d EXCEPT !.final = <<o>>, !.torn = @ \ {"final"}] \in Directories
           /\ \A g \in Gradings :
                  [d EXCEPT !.grading = <<g>>, !.torn = @ \ {"grading"}] \in Directories
           /\ [d EXCEPT !.final = <<>>, !.torn = @ \cup {"final"}] \in Directories
           /\ [d EXCEPT !.grading = <<>>, !.torn = @ \cup {"grading"}] \in Directories
<1> DEFINE Finals == {<<>>} \cup {<<o>> : o \in Outputs \cup {FailedOutput}}
           Marks == {<<>>} \cup {<<g>> : g \in Gradings}
           Logs == Seq(StepLines)
           Files == [plan : Plans \cup {NoPlan}, log : Logs, final : Finals, grading : Marks,
                     torn : SUBSET {"final", "grading"}]
<1>1. Directories = {x \in Files : /\ "final" \in x.torn => x.final = <<>>
                                   /\ "grading" \in x.torn => x.grading = <<>>}
  BY DEF Directories
<1>2. \A o \in Outputs \cup {FailedOutput} : <<o>> \in Finals  OBVIOUS
<1>3. \A g \in Gradings : <<g>> \in Marks  OBVIOUS
<1>4. <<>> \in Finals /\ <<>> \in Marks  OBVIOUS
<1>5. \A l \in StepLines : Append(d.log, l) \in Logs
  <2>1. d.log \in Seq(StepLines)  BY FilesAre
  <2> QED  BY <2>1
<1> HIDE DEF Finals, Marks, Logs
<1>6. \A p \in Plans \cup {NoPlan} : [d EXCEPT !.plan = p] \in Directories  BY <1>1
<1>7. \A l \in StepLines : [d EXCEPT !.log = Append(@, l)] \in Directories  BY <1>1, <1>5
<1>8. \A o \in Outputs \cup {FailedOutput} :
          [d EXCEPT !.final = <<o>>, !.torn = @ \ {"final"}] \in Directories
  BY <1>1, <1>2
<1>9. \A g \in Gradings :
          [d EXCEPT !.grading = <<g>>, !.torn = @ \ {"grading"}] \in Directories
  BY <1>1, <1>3
<1>10. [d EXCEPT !.final = <<>>, !.torn = @ \cup {"final"}] \in Directories  BY <1>1, <1>4
<1>11. [d EXCEPT !.grading = <<>>, !.torn = @ \cup {"grading"}] \in Directories
  BY <1>1, <1>4
<1> QED  BY <1>6, <1>7, <1>8, <1>9, <1>10, <1>11

LEMMA PlansHaveSteps ==
    ASSUME NEW p \in Plans \cup {NoPlan}
    PROVE  p.steps \in Seq([owner : STRING, type : STRING])
<1>1. CASE p \in Plans  BY <1>1, Kinds
<1>2. CASE p = NoPlan
  <2>1. NoPlan.steps = <<>>  BY DEF NoPlan
  <2> QED  BY <1>2, <2>1
<1> QED  BY <1>1, <1>2

\* A step of a plan, and what is kept of it.
LEMMA StepKept ==
    ASSUME NEW p \in Plans \cup {NoPlan}, NEW i \in DOMAIN p.steps, NEW r \in Results
    PROVE  /\ StepDone(i, r) \in StepLines
           /\ Telemetry(p.steps[i].owner, r) \in Telemetries
<1>1. p \in Plans
  <2>1. NoPlan.steps = <<>>  BY DEF NoPlan
  <2>2. DOMAIN <<>> = {}  OBVIOUS
  <2> QED  BY <2>1, <2>2
<1>2. p.steps \in Seq([owner : STRING, type : STRING])  BY PlansHaveSteps
<1>3. p.steps[i].owner \in STRING
  <2>1. PICK S : S = [owner : STRING, type : STRING]  OBVIOUS
  <2>2. PICK steps : steps = p.steps  OBVIOUS
  <2>3. steps \in Seq(S) /\ i \in DOMAIN steps  BY <1>2, <2>1, <2>2
  <2>4. steps[i] \in S  BY <2>3
  <2> QED  BY <2>1, <2>2, <2>4
<1>4. i \in UNION {DOMAIN q.steps : q \in Plans}  BY <1>1
<1>5. StepDone(i, r) \in StepLines  BY <1>4 DEF StepLines
<1>6. r \in [status : {"ok", "failed"}, criteria : [DOMAIN r.criteria -> BOOLEAN],
             calls : Nat, ms : Nat, fp : STRING, route : STRING, cost : Nat \cup {Unknown}]
  BY Kinds
<1> QED  BY <1>3, <1>5, <1>6 DEF Telemetry, Telemetries

\* A kill in the middle of a write costs the file that was written, and no log.
LEMMA WhatIsCut ==
    ASSUME candidate \in Directories, KillWriting
    PROVE  /\ candidate' \in Directories /\ candidate'.log = candidate.log
           /\ \/ candidate'.plan = candidate.plan
              \/ stage = "plan" /\ candidate'.plan = NoPlan
           /\ summary' = summary \/ summary' = <<>>
           /\ stage # "never" /\ stage' = "dead" /\ UNCHANGED <<baseline, launches, launched>>
<1>1. stage' = "dead" /\ UNCHANGED <<baseline, launches, launched>>  BY DEF KillWriting
<1>2. CASE stage = "plan" /\ candidate' = [candidate EXCEPT !.plan = NoPlan] /\ UNCHANGED summary
  BY <1>1, <1>2, FilesKept DEF Directories
<1>3. CASE /\ stage = "steps" /\ UNCHANGED summary
           /\ candidate' = [candidate EXCEPT !.final = <<>>, !.torn = @ \cup {"final"}]
  BY <1>1, <1>3, FilesKept DEF Directories
<1>4. CASE /\ stage = "final" /\ UNCHANGED summary
           /\ candidate' = [candidate EXCEPT !.grading = <<>>, !.torn = @ \cup {"grading"}]
  BY <1>1, <1>4, FilesKept DEF Directories
<1>5. CASE stage \in {"final", "graded"} /\ summary' = <<>> /\ UNCHANGED candidate
  BY <1>1, <1>5
<1> QED  BY <1>2, <1>3, <1>4, <1>5 DEF KillWriting

\* Every variable of the benchmark and every file keeps its kind; a launch forgets
\* the steps of the launch before, so there are never more than the plan has.
THEOREM TypeCorrect == Spec => []TypeOK
<1>1. Init => TypeOK
  <2> SUFFICES ASSUME Init PROVE TypeOK
    OBVIOUS
  <2>1. EmptyDirectory \in Directories
    <3>1. <<>> \in Seq(StepLines)  OBVIOUS
    <3> QED  BY <3>1 DEF EmptyDirectory, Directories
  <2>2. <<>> \in Seq(Telemetries) /\ Len(<<>>) = 0  OBVIOUS
  <2>3. Len(EmptyDirectory.plan.steps) = 0  BY DEF EmptyDirectory, NoPlan
  <2>4. 0 \in 0..MaxLaunches  BY LaunchesBounded
  <2> QED  BY <2>1, <2>2, <2>3, <2>4 DEF Init, TypeOK
<1>2. TypeOK /\ [Next]_vars => TypeOK'
  <2> SUFFICES ASSUME TypeOK, [Next]_vars PROVE TypeOK'
    OBVIOUS
  <2>0. candidate \in Directories /\ launched \in Seq(Telemetries)  BY DEF TypeOK
  <2>1. CASE Launch
    <3>1. launched' = <<>> /\ candidate' = candidate /\ stage' = "plan"  BY <2>1 DEF Launch
    <3>2. PICK steps : steps = candidate.plan.steps  OBVIOUS
    <3>3. steps \in Seq([owner : STRING, type : STRING])
      BY <2>0, <3>2, FilesAre, PlansHaveSteps
    <3>4. Len(launched') <= Len(steps) /\ launched' \in Seq(Telemetries)  BY <3>1, <3>3
    <3>5. launches' \in 0..MaxLaunches  BY <2>1, LaunchesBounded DEF Launch, TypeOK
    <3> QED  BY <2>1, <3>1, <3>2, <3>4, <3>5 DEF Launch, TypeOK
  <2>8. ASSUME NEW plan \in Plans, WritePlan(plan)
        PROVE  TypeOK'
    <3>1. candidate' \in Directories  BY <2>0, <2>8, FilesKept DEF WritePlan
    <3>2. candidate'.plan = plan  BY <2>0, <2>8 DEF WritePlan, Directories
    <3>3. plan.steps \in Seq([owner : STRING, type : STRING])  BY PlansHaveSteps
    <3>4. launched' = <<>> /\ stage' = "steps"  BY <2>8 DEF WritePlan, TypeOK
    <3>5. Len(launched') <= Len(candidate'.plan.steps)  BY <3>2, <3>3, <3>4
    <3> QED  BY <2>8, <3>1, <3>4, <3>5 DEF WritePlan, TypeOK
  <2>2. ASSUME NEW result \in Results, RunStep(result)
        PROVE  TypeOK'
    <3>1. PICK next : next = Len(launched) + 1  OBVIOUS
    <3>2. candidate.plan \in Plans \cup {NoPlan}  BY <2>0, FilesAre
    <3>3. /\ stage = "steps" /\ next \in DOMAIN candidate.plan.steps
          /\ candidate' = [candidate EXCEPT !.log = Append(@, StepDone(next, result))]
          /\ launched' = Append(launched, Telemetry(candidate.plan.steps[next].owner, result))
          /\ UNCHANGED <<baseline, stage, launches, summary>>
      BY <2>2, <3>1 DEF RunStep
    <3>4. /\ StepDone(next, result) \in StepLines
          /\ Telemetry(candidate.plan.steps[next].owner, result) \in Telemetries
      BY <3>2, <3>3, StepKept
    <3>5. candidate' \in Directories  BY <2>0, <3>3, <3>4, FilesKept
    <3>6. candidate'.plan = candidate.plan  BY <2>0, <3>3 DEF Directories
    <3>7. launched' \in Seq(Telemetries) /\ Len(launched') = next
      BY <2>0, <3>1, <3>3, <3>4
    <3>8. next <= Len(candidate'.plan.steps)
      <4>1. candidate.plan.steps \in Seq([owner : STRING, type : STRING])
        BY <3>2, PlansHaveSteps
      <4> QED  BY <3>3, <3>6, <4>1
    <3> QED  BY <3>3, <3>5, <3>7, <3>8 DEF TypeOK
  <2>3. ASSUME NEW output \in Outputs \cup {FailedOutput}, WriteFinal(output)
        PROVE  TypeOK'
    <3>1. candidate' \in Directories  BY <2>0, <2>3, FilesKept DEF WriteFinal
    <3>2. candidate'.plan = candidate.plan  BY <2>0, <2>3 DEF WriteFinal, Directories
    <3> QED  BY <2>3, <3>1, <3>2 DEF WriteFinal, TypeOK
  <2>4. ASSUME NEW grading \in Gradings, Grade(grading)
        PROVE  TypeOK'
    <3>1. candidate' \in Directories  BY <2>0, <2>4, FilesKept DEF Grade
    <3>2. candidate'.plan = candidate.plan  BY <2>0, <2>4 DEF Grade, Directories
    <3> QED  BY <2>4, <3>1, <3>2 DEF Grade, TypeOK
  <2>5. CASE Summarise
    <3>1. PICK routing : routing = RoutingSummary(launched)  OBVIOUS
    <3>2. summary' = <<routing>>  BY <2>5, <3>1 DEF Summarise
    <3>3. Len(summary') = 1  BY <3>2
    <3> QED  BY <2>5, <3>3 DEF Summarise, TypeOK
  <2>6. CASE Kill
    BY <2>6 DEF Kill, TypeOK
  <2>9. CASE KillWriting
    <3>1. Len(launched') <= Len(candidate'.plan.steps)
      <4>1. CASE candidate'.plan = candidate.plan /\ launched' = launched
        BY <4>1 DEF TypeOK
      <4>2. CASE stage = "plan" /\ candidate'.plan = NoPlan /\ launched' = launched
        <5>1. launched' = <<>> /\ NoPlan.steps = <<>>  BY <4>2 DEF TypeOK, NoPlan
        <5> QED  BY <4>2, <5>1
      <4> QED  BY <2>0, <2>9, <4>1, <4>2, WhatIsCut
    <3>2. Len(summary') <= 1
      <4>1. Len(<<>>) <= 1  OBVIOUS
      <4> QED  BY <2>0, <2>9, <4>1, WhatIsCut DEF TypeOK
    <3> QED  BY <2>0, <2>9, <3>1, <3>2, WhatIsCut DEF TypeOK
  <2>7. CASE UNCHANGED vars
    BY <2>7 DEF vars, TypeOK
  <2> QED  BY <2>1, <2>2, <2>3, <2>4, <2>5, <2>6, <2>7, <2>8, <2>9 DEF Next
<1> QED  BY <1>1, <1>2, PTL DEF Spec

-----------------------------------------------------------------------------
(* Sequences                                                               *)

\* Induction over the naturals, for a set rather than a predicate.
LEMMA NatSetInduction ==
    ASSUME NEW S, 0 \in S, \A n \in Nat : n \in S => n + 1 \in S
    PROVE  Nat \subseteq S
<1> SUFFICES ASSUME Nat \ S # {} PROVE FALSE
  OBVIOUS
<1>1. PICK R : R = OpToRel(<, Nat)  OBVIOUS
<1>2. IsWellFoundedOn(R, Nat)  BY <1>1, NatLessThanWellFounded
<1>3. \A x, y \in Nat : y < x => <<y, x>> \in R  BY <1>1 DEF OpToRel
<1>4. PICK T : T = Nat \ S  OBVIOUS
<1>5. T \subseteq Nat /\ T # {}  BY <1>4
<1>6. PICK n \in T : \A m \in T : ~(<<m, n>> \in R)
  BY <1>2, <1>5, WFMin
<1>7. n \in Nat /\ n \notin S /\ n # 0  BY <1>4, <1>6
<1>8. n - 1 \in Nat /\ n - 1 < n /\ (n - 1) + 1 = n  BY <1>7
<1>9. n - 1 \notin T  BY <1>3, <1>6, <1>7, <1>8
<1> QED  BY <1>4, <1>7, <1>8, <1>9

\* A set of naturals up to n that is not empty has its Max.
LEMMA MaxBounds ==
    ASSUME NEW n \in Nat, NEW S \in SUBSET (0..n), S # {}
    PROVE  Max(S) \in S /\ \A y \in S : y <= Max(S)
<1> DEFINE Below == {k \in Nat : (\E y \in S : k <= y) \/ (\E x \in S : \A y \in S : x >= y)}
<1>1. 0 \in Below
  <2>1. PICK y \in S : TRUE  OBVIOUS
  <2>2. 0 <= y  BY <2>1
  <2> QED  BY <2>1, <2>2
<1>2. ASSUME NEW k \in Nat, k \in Below PROVE k + 1 \in Below
  <2>1. CASE \E x \in S : \A y \in S : x >= y  BY <2>1
  <2>2. CASE \E y \in S : k <= y
    <3>1. PICK y \in S : k <= y  BY <2>2
    <3>2. CASE \E z \in S : k + 1 <= z  BY <3>2
    <3>3. CASE \A z \in S : ~(k + 1 <= z)
      <4>1. \A z \in S : y >= z  BY <3>1, <3>3
      <4> QED  BY <4>1
    <3> QED  BY <3>2, <3>3
  <2> QED  BY <1>2, <2>1, <2>2
<1> HIDE DEF Below
<1>3. n \in Below  BY <1>1, <1>2, NatSetInduction
<1>4. \E x \in S : \A y \in S : x >= y  BY <1>3 DEF Below
<1>5. Max(S) \in S /\ \A y \in S : Max(S) >= y  BY <1>4 DEF Max
<1> QED  BY <1>5

LEMMA Concatenated ==
    ASSUME NEW S, NEW s \in Seq(S), NEW t \in Seq(S)
    PROVE  s \o t \in Seq(S) /\ ToSet(s \o t) = ToSet(s) \cup ToSet(t)
<1>1. /\ s \o t \in Seq(S) /\ DOMAIN (s \o t) = 1..(Len(s) + Len(t))
      /\ DOMAIN s = 1..Len(s) /\ DOMAIN t = 1..Len(t) /\ Len(s) \in Nat /\ Len(t) \in Nat
      /\ \A i \in 1..Len(s) : (s \o t)[i] = s[i]
      /\ \A i \in 1..Len(t) : (s \o t)[Len(s) + i] = t[i]
  OBVIOUS
<1>2. ASSUME NEW x \in ToSet(s \o t)
      PROVE  x \in ToSet(s) \cup ToSet(t)
  <2>1. PICK i \in 1..(Len(s) + Len(t)) : x = (s \o t)[i]  BY <1>1 DEF ToSet
  <2>2. CASE i <= Len(s)
    <3>1. i \in 1..Len(s)  BY <1>1, <2>2
    <3> QED  BY <1>1, <2>1, <3>1 DEF ToSet
  <2>3. CASE ~(i <= Len(s))
    <3>1. i - Len(s) \in 1..Len(t) /\ Len(s) + (i - Len(s)) = i  BY <1>1, <2>3
    <3>2. x = t[i - Len(s)]  BY <1>1, <2>1, <3>1
    <3> QED  BY <1>1, <3>1, <3>2 DEF ToSet
  <2> QED  BY <2>2, <2>3
<1>3. ASSUME NEW x \in ToSet(s)
      PROVE  x \in ToSet(s \o t)
  <2>1. PICK i \in 1..Len(s) : x = s[i]  BY <1>1 DEF ToSet
  <2>2. i \in 1..(Len(s) + Len(t))  BY <1>1
  <2> QED  BY <1>1, <2>1, <2>2 DEF ToSet
<1>4. ASSUME NEW x \in ToSet(t)
      PROVE  x \in ToSet(s \o t)
  <2>1. PICK i \in 1..Len(t) : x = t[i]  BY <1>1 DEF ToSet
  <2>2. Len(s) + i \in 1..(Len(s) + Len(t))  BY <1>1
  <2> QED  BY <1>1, <2>1, <2>2 DEF ToSet
<1> QED  BY <1>1, <1>2, <1>3, <1>4

LEMMA EmptyHasNone == ToSet(<<>>) = {}
<1>1. DOMAIN <<>> = {}  OBVIOUS
<1> QED  BY <1>1 DEF ToSet

LEMMA NoElementsIsEmpty ==
    ASSUME NEW S, NEW s \in Seq(S), ToSet(s) = {}
    PROVE  s = <<>>
<1>1. CASE Len(s) = 0  BY <1>1
<1>2. CASE Len(s) # 0
  <2>1. 1 \in DOMAIN s  BY <1>2
  <2> QED  BY <2>1 DEF ToSet
<1> QED  BY <1>1, <1>2

\* The equation of FlattenSeq's sequences.
Flattens(f, s, n) == f = [i \in 1..n |-> IF i = 1 THEN s[i] ELSE f[i - 1] \o s[i]]

LEMMA FlattensExist ==
    ASSUME NEW s, NEW n \in Nat
    PROVE  \E f : Flattens(f, s, n)
<1> DEFINE Ns == {k \in Nat : \E f : Flattens(f, s, k)}
<1>1. 0 \in Ns
  <2>1. PICK f : f = [i \in {} |-> s[i]]  OBVIOUS
  <2>2. 1..0 = {}  OBVIOUS
  <2>3. Flattens(f, s, 0)  BY <2>1, <2>2 DEF Flattens
  <2> QED  BY <2>3
<1>2. ASSUME NEW k \in Nat, k \in Ns
      PROVE  k + 1 \in Ns
  <2>1. PICK f : Flattens(f, s, k)  BY <1>2
  <2> DEFINE more == [i \in 1..(k + 1) |->
                         IF i = k + 1 THEN (IF i = 1 THEN s[i] ELSE f[k] \o s[i]) ELSE f[i]]
  <2>2. \A i \in 1..k : f[i] = IF i = 1 THEN s[i] ELSE f[i - 1] \o s[i]
    BY <2>1 DEF Flattens
  <2>3. \A i \in 1..k : more[i] = f[i]  OBVIOUS
  <2>4. more[k + 1] = IF k + 1 = 1 THEN s[k + 1] ELSE f[k] \o s[k + 1]  OBVIOUS
  <2> DEFINE next(i) == IF i = 1 THEN s[i] ELSE more[i - 1] \o s[i]
  <2>5. more = [i \in 1..(k + 1) |-> more[i]]  OBVIOUS
  <2> HIDE DEF more
  <2>6. ASSUME NEW i \in 1..(k + 1)
        PROVE  more[i] = next(i)
    <3>1. CASE i = k + 1
      <4>1. CASE k = 0  BY <2>4, <3>1, <4>1
      <4>2. CASE k # 0
        <5>1. k \in 1..k /\ i - 1 = k /\ i # 1  BY <3>1, <4>2
        <5>2. more[i - 1] = f[k]  BY <2>3, <5>1
        <5> QED  BY <2>4, <3>1, <5>1, <5>2
      <4> QED  BY <4>1, <4>2
    <3>2. CASE i # k + 1
      <4>1. i \in 1..k  BY <3>2
      <4>2. CASE i = 1  BY <2>2, <2>3, <4>1, <4>2
      <4>3. CASE i # 1
        <5>1. i - 1 \in 1..k  BY <4>1, <4>3
        <5>2. more[i - 1] = f[i - 1] /\ more[i] = f[i]  BY <2>3, <4>1, <5>1
        <5> QED  BY <2>2, <4>1, <4>3, <5>2
      <4> QED  BY <4>2, <4>3
    <3> QED  BY <3>1, <3>2
  <2>7. Flattens(more, s, k + 1)  BY <2>5, <2>6 DEF Flattens
  <2> QED  BY <2>7
<1> HIDE DEF Ns
<1>3. n \in Ns  BY <1>1, <1>2, NatSetInduction
<1> QED  BY <1>3 DEF Ns

\* What a flattened sequence holds is what its sequences hold.
LEMMA Flattened ==
    ASSUME NEW S, NEW s \in Seq(Seq(S))
    PROVE  /\ FlattenSeq(s) \in Seq(S)
           /\ \A x : x \in ToSet(FlattenSeq(s)) <=> \E i \in 1..Len(s) : x \in ToSet(s[i])
<1>1. PICK n \in Nat : n = Len(s)  OBVIOUS
<1>2. CASE n = 0
  <2>1. s = <<>>
    <3>1. PICK T : T = Seq(S)  OBVIOUS
    <3>2. s \in Seq(T)  BY <3>1
    <3>3. Len(s) = 0  BY <1>1, <1>2
    <3> QED  BY <3>2, <3>3, EmptySeq
  <2>3. FlattenSeq(s) = s  BY <1>1, <1>2 DEF FlattenSeq
  <2>2. 1..0 = {} /\ <<>> \in Seq(S)  OBVIOUS
  <2> QED  BY <1>1, <1>2, <2>1, <2>2, <2>3, EmptyHasNone
<1>3. CASE n # 0
  <2> DEFINE flat == CHOOSE f : Flattens(f, s, n)
  <2>1. Flattens(flat, s, n)  BY FlattensExist
  <2>2. FlattenSeq(s) = flat[n]  BY <1>1, <1>3 DEF FlattenSeq, Flattens
  <2>3. PICK f : f = flat  OBVIOUS
  <2> HIDE DEF flat
  <2>4. \A i \in 1..n : f[i] = IF i = 1 THEN s[i] ELSE f[i - 1] \o s[i]
    BY <2>1, <2>3 DEF Flattens
  <2>5. \A i \in 1..n : s[i] \in Seq(S)  BY <1>1
  <2> DEFINE Holds(k) == /\ f[k] \in Seq(S)
                         /\ \A x : x \in ToSet(f[k]) <=> \E i \in 1..k : x \in ToSet(s[i])
             Ns == {k \in Nat : k + 1 <= n => Holds(k + 1)}
  <2>6. 0 \in Ns
    <3>1. 1 \in 1..n  BY <1>3
    <3>2. f[1] = s[1] /\ f[1] \in Seq(S)  BY <2>4, <2>5, <3>1
    <3>3. 1..1 = {1}  OBVIOUS
    <3>4. Holds(1)  BY <3>2, <3>3
    <3> QED  BY <3>4
  <2>7. ASSUME NEW k \in Nat, k \in Ns
        PROVE  k + 1 \in Ns
    <3> SUFFICES ASSUME (k + 1) + 1 <= n
                 PROVE  Holds((k + 1) + 1)
      OBVIOUS
    <3>1. PICK m \in Nat : m = k + 1  OBVIOUS
    <3>2. Holds(m)  BY <2>7, <3>1
    <3>3. m + 1 \in 1..n /\ m + 1 # 1 /\ (m + 1) - 1 = m  BY <3>1
    <3>4. PICK u : u = f[m]  OBVIOUS
    <3>5. PICK v : v = s[m + 1]  OBVIOUS
    <3>6. f[m + 1] = u \o v  BY <2>4, <3>3, <3>4, <3>5
    <3>7. u \in Seq(S) /\ v \in Seq(S)  BY <2>5, <3>2, <3>3, <3>4, <3>5
    <3>8. u \o v \in Seq(S) /\ ToSet(u \o v) = ToSet(u) \cup ToSet(v)  BY <3>7, Concatenated
    <3>9. ASSUME NEW x
          PROVE  x \in ToSet(u) \cup ToSet(v) <=> \E i \in 1..(m + 1) : x \in ToSet(s[i])
      <4>1. x \in ToSet(u) <=> \E i \in 1..m : x \in ToSet(s[i])  BY <3>2, <3>4
      <4>2. 1..(m + 1) = 1..m \cup {m + 1}  OBVIOUS
      <4>3. x \in ToSet(v) <=> x \in ToSet(s[m + 1])  BY <3>5
      <4> QED  BY <4>1, <4>2, <4>3
    <3>10. Holds(m + 1)  BY <3>6, <3>8, <3>9
    <3> QED  BY <3>1, <3>10
  <2> HIDE DEF Ns
  <2>8. n - 1 \in Ns /\ n - 1 \in Nat /\ (n - 1) + 1 = n
    <3>1. n - 1 \in Nat /\ (n - 1) + 1 = n  BY <1>3
    <3> QED  BY <2>6, <2>7, <3>1, NatSetInduction
  <2>9. Holds(n)  BY <2>8 DEF Ns
  <2> QED  BY <1>1, <2>2, <2>3, <2>9
<1> QED  BY <1>2, <1>3

-----------------------------------------------------------------------------
(* The diffs, whatever they hold                                           *)

Listed(s) == \E S : s \in Seq(S)

LEMMA ListsJoin ==
    ASSUME NEW s, NEW t, Listed(s), Listed(t)
    PROVE  Listed(s \o t) /\ ToSet(s \o t) = ToSet(s) \cup ToSet(t)
<1>1. PICK S1 : s \in Seq(S1)  BY DEF Listed
<1>2. PICK S2 : t \in Seq(S2)  BY DEF Listed
<1>3. PICK S : S = S1 \cup S2  OBVIOUS
<1>4. s \in Seq(S) /\ t \in Seq(S)  BY <1>1, <1>2, <1>3
<1> QED  BY <1>4, Concatenated DEF Listed

LEMMA ListsFlatten ==
    ASSUME NEW n \in Nat, NEW s, s = [i \in 1..n |-> s[i]], \A i \in 1..n : Listed(s[i])
    PROVE  /\ Listed(FlattenSeq(s))
           /\ \A x : x \in ToSet(FlattenSeq(s)) <=> \E i \in 1..n : x \in ToSet(s[i])
<1>1. PICK S : S = UNION {ToSet(s[i]) : i \in 1..n}  OBVIOUS
<1>2. ASSUME NEW i \in 1..n
      PROVE  s[i] \in Seq(S)
  <2>1. PICK T : s[i] \in Seq(T)  BY DEF Listed
  <2>2. PICK t : t = s[i]  OBVIOUS
  <2>3. ToSet(t) \subseteq S  BY <1>1, <2>2
  <2>4. \A k \in DOMAIN t : t[k] \in S  BY <2>3 DEF ToSet
  <2>5. t \in Seq(T)  BY <2>1, <2>2
  <2>6. t \in Seq(S)  BY <2>4, <2>5
  <2> QED  BY <2>2, <2>6
<1>3. PICK T : T = Seq(S)  OBVIOUS
<1>4. s \in [1..n -> T]  BY <1>2, <1>3
<1>5. s \in Seq(T) /\ Len(s) = n  BY <1>4
<1>6. s \in Seq(Seq(S))  BY <1>3, <1>5
<1> QED  BY <1>5, <1>6, Flattened DEF Listed

LEMMA OneIsListed ==
    ASSUME NEW x
    PROVE  Listed(<<x>>) /\ ToSet(<<x>>) = {x} /\ Listed(<<>>)
<1>1. <<x>> \in Seq({x}) /\ DOMAIN <<x>> = {1} /\ <<x>>[1] = x  OBVIOUS
<1>2. <<>> \in Seq({x})  OBVIOUS
<1>3. ToSet(<<x>>) = {x}  BY <1>1 DEF ToSet
<1> QED  BY <1>1, <1>2, <1>3 DEF Listed

Severities(signals) == {s.severity : s \in signals}

DiffOf(agent, signals) ==
    [agent |-> agent, signals |-> signals, severity |-> Worst(Severities(signals), "info")]

LEMMA AgentListed ==
    ASSUME NEW agent, NEW signals
    PROVE  /\ Listed(AgentDiff(agent, signals))
           /\ signals = {} => AgentDiff(agent, signals) = <<>>
           /\ \A x : x \in ToSet(AgentDiff(agent, signals))
                         <=> signals # {} /\ x = DiffOf(agent, signals)
<1>1. CASE signals = {}
  <2>1. AgentDiff(agent, signals) = <<>>  BY <1>1 DEF AgentDiff
  <2> QED  BY <1>1, <2>1, OneIsListed, EmptyHasNone
<1>2. CASE signals # {}
  <2>1. PICK d : d = DiffOf(agent, signals)  OBVIOUS
  <2>2. AgentDiff(agent, signals) = <<d>>  BY <1>2, <2>1 DEF AgentDiff, DiffOf, Severities
  <2> QED  BY <1>2, <2>1, <2>2, OneIsListed
<1> QED  BY <1>1, <1>2

LEMMA WorstIsRegression ==
    ASSUME NEW severities, NEW otherwise \in {"info", "pass"}
    PROVE  Worst(severities, otherwise) = "regression" <=> "regression" \in severities
<1>1. CASE "regression" \in severities  BY <1>1 DEF Worst
<1>2. CASE "regression" \notin severities
  <2>1. CASE "warning" \in severities  BY <1>2, <2>1 DEF Worst
  <2>2. CASE "warning" \notin severities /\ "inconclusive" \in severities
    BY <1>2, <2>2 DEF Worst
  <2>3. CASE "warning" \notin severities /\ "inconclusive" \notin severities
    BY <1>2, <2>3 DEF Worst
  <2> QED  BY <2>1, <2>2, <2>3
<1> QED  BY <1>1, <1>2

Hard(signals) == \E s \in signals : s.severity = "regression"

LEMMA DiffIsRegression ==
    ASSUME NEW agent, NEW signals
    PROVE  (\E x \in ToSet(AgentDiff(agent, signals)) : x.severity = "regression")
               <=> Hard(signals)
<1>1. DiffOf(agent, signals).severity = "regression" <=> "regression" \in Severities(signals)
  BY WorstIsRegression DEF DiffOf
<1>2. "regression" \in Severities(signals) <=> Hard(signals)  BY DEF Severities, Hard
<1>3. Hard(signals) => signals # {}  BY DEF Hard
<1> QED  BY <1>1, <1>2, <1>3, AgentListed

-----------------------------------------------------------------------------
(* The log of a directory                                                  *)

\* A log of step_done lines, whatever they report.
Readable(d) ==
    \E n \in Nat : /\ DOMAIN d.log = 1..n /\ Listed(d.log)
                   /\ \A i \in 1..n : d.log[i].step \in Nat \ {0}

\* The last line of a step.
IsLastOf(d, step, k) ==
    /\ k \in DOMAIN d.log /\ d.log[k].step = step
    /\ \A j \in DOMAIN d.log : d.log[j].step = step => j <= k

LEMMA LastRecord ==
    ASSUME NEW d, Readable(d), NEW step \in Recorded(d)
    PROVE  \E k : IsLastOf(d, step, k) /\ StepOf(d, step) = d.log[k]
<1>1. PICK n \in Nat : DOMAIN d.log = 1..n /\ Listed(d.log)
  BY DEF Readable
<1>2. PICK I : I = {i \in 1..n : d.log[i].step = step}  OBVIOUS
<1>3. I \in SUBSET (0..n) /\ I # {}  BY <1>1, <1>2 DEF Recorded
<1>4. Max(I) \in I /\ \A y \in I : y <= Max(I)  BY <1>3, MaxBounds
<1>5. PICK k : k = Max(I)  OBVIOUS
<1>6. Len(d.log) = n  BY <1>1 DEF Listed
<1>7. StepOf(d, step) = d.log[k]
  <2>1. I = {i \in 1..Len(d.log) : d.log[i].step = step}  BY <1>2, <1>6
  <2> QED  BY <1>3, <1>5, <2>1 DEF StepOf, SelectLastInSeq
<1>8. IsLastOf(d, step, k)  BY <1>1, <1>2, <1>4, <1>5 DEF IsLastOf
<1> QED  BY <1>7, <1>8

LEMMA ListIsBounded ==
    ASSUME NEW n \in Nat, NEW f, \A i \in 1..n : f[i] \in Nat
    PROVE  \E m \in Nat : \A i \in 1..n : f[i] <= m
<1> DEFINE Ns == {k \in Nat : k <= n => \E m \in Nat : \A i \in 1..k : f[i] <= m}
<1>1. 0 \in Ns
  <2>1. \A i \in 1..0 : f[i] <= 0  OBVIOUS
  <2> QED  BY <2>1
<1>2. ASSUME NEW k \in Nat, k \in Ns
      PROVE  k + 1 \in Ns
  <2> SUFFICES ASSUME k + 1 <= n
               PROVE  \E m \in Nat : \A i \in 1..(k + 1) : f[i] <= m
    OBVIOUS
  <2>1. PICK m \in Nat : \A i \in 1..k : f[i] <= m  BY <1>2
  <2>2. PICK v \in Nat : v = f[k + 1]  OBVIOUS
  <2>3. \A i \in 1..(k + 1) : f[i] <= m + v
    <3> TAKE i \in 1..(k + 1)
    <3>1. f[i] \in Nat  OBVIOUS
    <3>2. CASE i = k + 1  BY <2>2, <3>2
    <3>3. CASE i # k + 1
      <4>1. i \in 1..k  BY <3>3
      <4>2. f[i] <= m  BY <2>1, <4>1
      <4> QED  BY <3>1, <4>2
    <3> QED  BY <3>2, <3>3
  <2> QED  BY <2>3
<1> HIDE DEF Ns
<1>3. n \in Ns  BY <1>1, <1>2, NatSetInduction
<1> QED  BY <1>3 DEF Ns

LEMMA StepsBounded ==
    ASSUME NEW b, NEW c, Readable(b), Readable(c)
    PROVE  /\ Max(Recorded(b) \cup Recorded(c) \cup {0}) \in Nat
           /\ Recorded(b) \cap Recorded(c) \subseteq
                  1..Max(Recorded(b) \cup Recorded(c) \cup {0})
<1>1. ASSUME NEW d, Readable(d)
      PROVE  \E m \in Nat : Recorded(d) \subseteq 1..m
  <2>1. PICK n \in Nat : DOMAIN d.log = 1..n /\ \A i \in 1..n : d.log[i].step \in Nat \ {0}
    BY <1>1 DEF Readable
  <2>2. PICK f : f = [i \in 1..n |-> d.log[i].step]  OBVIOUS
  <2>3. \A i \in 1..n : f[i] \in Nat \ {0}  BY <2>1, <2>2
  <2>4. PICK m \in Nat : \A i \in 1..n : f[i] <= m  BY <2>3, ListIsBounded
  <2>5. \A i \in 1..n : f[i] \in 1..m  BY <2>3, <2>4
  <2>6. \A i \in 1..n : d.log[i].step \in 1..m  BY <2>2, <2>5
  <2> QED  BY <2>1, <2>6 DEF Recorded
<1>2. PICK m1 \in Nat : Recorded(b) \subseteq 1..m1  BY <1>1
<1>3. PICK m2 \in Nat : Recorded(c) \subseteq 1..m2  BY <1>1
<1>4. PICK S : S = Recorded(b) \cup Recorded(c) \cup {0}  OBVIOUS
<1> DEFINE m == m1 + m2
<1>5. m \in Nat /\ S \in SUBSET (0..m) /\ S # {}  BY <1>2, <1>3, <1>4
<1> HIDE DEF m
<1>6. Max(S) \in S /\ \A y \in S : y <= Max(S)  BY <1>5, MaxBounds
<1>7. Max(S) \in Nat
  <2>1. S \subseteq Nat  BY <1>5
  <2> QED  BY <1>6, <2>1
<1>8. ASSUME NEW step \in Recorded(b) \cap Recorded(c)
      PROVE  step \in 1..Max(S)
  <2>1. step \in Nat \ {0}  BY <1>2
  <2>2. step <= Max(S)  BY <1>4, <1>6
  <2> QED  BY <1>7, <2>1, <2>2
<1> QED  BY <1>4, <1>7, <1>8

-----------------------------------------------------------------------------
(* What a comparison regresses on                                          *)

Regresses(diffs) == \E x \in ToSet(diffs) : x.severity = "regression"

\* The signals of a step that both runs recorded.
SignalsAt(b, c, step) == Signals(StepOf(b, step), StepOf(c, step))

LEMMA StepsListed ==
    ASSUME NEW b, NEW c, Readable(b), Readable(c)
    PROVE  /\ Listed(StepDiffs(b, c))
           /\ \A x : x \in ToSet(StepDiffs(b, c)) <=>
                  \E step \in Recorded(b) \cap Recorded(c) :
                      x \in ToSet(AgentDiff(AgentOf(b, c, step), SignalsAt(b, c, step)))
<1>1. PICK last : last = Max(Recorded(b) \cup Recorded(c) \cup {0})  OBVIOUS
<1>2. last \in Nat /\ Recorded(b) \cap Recorded(c) \subseteq 1..last  BY <1>1, StepsBounded
<1> DEFINE diff(step) == AgentDiff(AgentOf(b, c, step), SignalsAt(b, c, step))
           s == [step \in 1..last |->
                    IF step \in Recorded(b) \cap Recorded(c) THEN diff(step) ELSE <<>>]
<1>3. StepDiffs(b, c) = FlattenSeq(s)  BY <1>1 DEF StepDiffs, SignalsAt
<1>4. \A step \in 1..last : Listed(s[step])
  <2> TAKE step \in 1..last
  <2>1. CASE step \in Recorded(b) \cap Recorded(c)
    <3>1. s[step] = diff(step)  BY <2>1
    <3> QED  BY <3>1, AgentListed
  <2>2. CASE step \notin Recorded(b) \cap Recorded(c)
    <3>1. s[step] = <<>>  BY <2>2
    <3> QED  BY <3>1, OneIsListed
  <2> QED  BY <2>1, <2>2
<1>5. \A step \in 1..last :
          s[step] = IF step \in Recorded(b) \cap Recorded(c) THEN diff(step) ELSE <<>>
  OBVIOUS
<1>6. PICK t : t = s  OBVIOUS
<1>7. t = [step \in 1..last |-> t[step]]  BY <1>6
<1> HIDE DEF s
<1>8. /\ Listed(FlattenSeq(t))
      /\ \A x : x \in ToSet(FlattenSeq(t)) <=> \E step \in 1..last : x \in ToSet(t[step])
  BY <1>2, <1>4, <1>6, <1>7, ListsFlatten
<1>9. ASSUME NEW x
      PROVE  (\E step \in 1..last : x \in ToSet(t[step]))
                 <=> \E step \in Recorded(b) \cap Recorded(c) : x \in ToSet(diff(step))
  <2> HIDE DEF diff
  <2>1. ASSUME NEW step \in 1..last, x \in ToSet(t[step])
        PROVE  step \in Recorded(b) \cap Recorded(c) /\ x \in ToSet(diff(step))
    <3>1. CASE step \in Recorded(b) \cap Recorded(c)
      BY <1>5, <1>6, <2>1, <3>1
    <3>2. CASE step \notin Recorded(b) \cap Recorded(c)
      <4>1. t[step] = <<>>  BY <1>5, <1>6, <3>2
      <4> QED  BY <2>1, <4>1, EmptyHasNone
    <3> QED  BY <3>1, <3>2
  <2>2. ASSUME NEW step \in Recorded(b) \cap Recorded(c), x \in ToSet(diff(step))
        PROVE  step \in 1..last /\ x \in ToSet(t[step])
    <3>1. step \in 1..last  BY <1>2
    <3> QED  BY <1>5, <1>6, <2>2, <3>1
  <2> QED  BY <2>1, <2>2
<1> QED  BY <1>3, <1>6, <1>8, <1>9

LEMMA FlagIsHard ==
    ASSUME NEW kind, NEW severity, NEW holds \in BOOLEAN
    PROVE  /\ Hard(Flag(kind, severity, holds)) <=> holds /\ severity = "regression"
           /\ Flag(kind, severity, holds) = {} <=> ~holds
<1>1. CASE holds
  <2>1. Flag(kind, severity, holds) = {[kind |-> kind, severity |-> severity]}
    BY <1>1 DEF Flag
  <2>2. [kind |-> kind, severity |-> severity].severity = severity  OBVIOUS
  <2> QED  BY <1>1, <2>1, <2>2 DEF Hard
<1>2. CASE ~holds
  <2>1. Flag(kind, severity, holds) = {}  BY <1>2 DEF Flag
  <2> QED  BY <1>2, <2>1 DEF Hard
<1> QED  BY <1>1, <1>2

LEMMA HardUnion ==
    ASSUME NEW s, NEW t
    PROVE  Hard(s \cup t) <=> Hard(s) \/ Hard(t)
BY DEF Hard

\* A step regresses when it failed or lost a criterion.
StepLost(b, c) == \/ b.status = "ok" /\ c.status # "ok"
                  \/ \E x \in DOMAIN b.criteria \cap DOMAIN c.criteria :
                         b.criteria[x] /\ ~c.criteria[x]

LEMMA SignalsHard ==
    ASSUME NEW b, NEW c
    PROVE  Hard(Signals(b, c)) <=> StepLost(b, c)
<1> DEFINE both == DOMAIN b.criteria \cap DOMAIN c.criteria
           slower == c.ms - b.ms
           A1 == Flag("step_failed", "regression", b.status = "ok" /\ c.status # "ok")
           A2 == Flag("criterion_failed", "regression",
                      \E x \in both : b.criteria[x] /\ ~c.criteria[x])
           A3 == Flag("criterion_fixed", "info", \E x \in both : ~b.criteria[x] /\ c.criteria[x])
           A4 == Flag("calls_increase", "warning", c.calls > b.calls)
           A5 == Flag("latency_increase", "warning",
                      slower > 250 /\ 4 * slower > (IF b.ms = 0 THEN 1 ELSE b.ms))
           A6 == Flag("config_changed", "info", c.fp # b.fp)
<1>1. Signals(b, c) = A1 \cup A2 \cup A3 \cup A4 \cup A5 \cup A6  BY DEF Signals
<1>2. Hard(A1) <=> b.status = "ok" /\ c.status # "ok"  BY FlagIsHard
<1>3. Hard(A2) <=> \E x \in both : b.criteria[x] /\ ~c.criteria[x]  BY FlagIsHard
<1>4. ~Hard(A3) /\ ~Hard(A4) /\ ~Hard(A5) /\ ~Hard(A6)  BY DEF Flag, Hard
<1> HIDE DEF A1, A2, A3, A4, A5, A6
<1>5. Hard(Signals(b, c)) <=> Hard(A1) \/ Hard(A2)
  <2>1. Hard(A1 \cup A2 \cup A3 \cup A4 \cup A5 \cup A6)
            <=> Hard(A1) \/ Hard(A2) \/ Hard(A3) \/ Hard(A4) \/ Hard(A5) \/ Hard(A6)
    BY DEF Hard
  <2> QED  BY <1>1, <1>4, <2>1
<1> QED  BY <1>2, <1>3, <1>5 DEF StepLost

OutputLost(b, c) ==
    \/ b.final # <<>> /\ c.final # <<>> /\ b.final[1].valid = "valid"
       /\ c.final[1].valid = "invalid"
    \/ ~RunFailed(b) /\ RunFailed(c)

LEMMA OutputListed ==
    ASSUME NEW b, NEW c
    PROVE  /\ Listed(OutputDiffs(b, c))
           /\ Regresses(OutputDiffs(b, c)) <=> OutputLost(b, c)
<1> DEFINE owner == OwnerOf(b, c, FinalType(c), "(final_output)")
           both == b.final # <<>> /\ c.final # <<>>
           invalid == both /\ b.final[1].valid = "valid" /\ c.final[1].valid = "invalid"
           changed == both /\ 0 \notin {b.final[1].stable, c.final[1].stable}
                      /\ b.final[1].stable # c.final[1].stable
           failed == ~RunFailed(b) /\ RunFailed(c)
           A1 == AgentDiff(owner, Flag("schema_invalid", "regression", invalid))
           A2 == AgentDiff(owner, Flag("stable_field_changed", "warning", changed))
           A3 == AgentDiff("(run)", Flag("run_failed", "regression", failed))
<1>1. OutputDiffs(b, c) = A1 \o A2 \o A3  BY DEF OutputDiffs
<1>2. Regresses(A1) <=> invalid  BY DiffIsRegression, FlagIsHard DEF Regresses
<1>3. ~Regresses(A2)
  <2>1. ~Hard(Flag("stable_field_changed", "warning", changed))  BY DEF Flag, Hard
  <2> QED  BY <2>1, DiffIsRegression DEF Regresses
<1>4. Regresses(A3) <=> failed  BY DiffIsRegression, FlagIsHard DEF Regresses
<1>5. Listed(A1) /\ Listed(A2) /\ Listed(A3)  BY AgentListed
<1>6. invalid \/ failed <=> OutputLost(b, c)  BY DEF OutputLost
<1> HIDE DEF A1, A2, A3, invalid, failed
<1>7. Listed(A1 \o A2) /\ ToSet(A1 \o A2) = ToSet(A1) \cup ToSet(A2)  BY <1>5, ListsJoin
<1>8. /\ Listed((A1 \o A2) \o A3)
      /\ ToSet((A1 \o A2) \o A3) = ToSet(A1 \o A2) \cup ToSet(A3)
  BY <1>5, <1>7, ListsJoin
<1> QED  BY <1>1, <1>2, <1>3, <1>4, <1>6, <1>7, <1>8 DEF Regresses

GradingLost(b, c) ==
    b.grading # <<>> /\ c.grading # <<>> /\ \E e \in Expectations : Lost(b, c, e)

LEMMA GradingListed ==
    ASSUME NEW b, NEW c
    PROVE  /\ Listed(GradingDiffs(b, c))
           /\ Regresses(GradingDiffs(b, c)) <=> GradingLost(b, c)
<1>1. CASE b.grading # <<>> /\ c.grading # <<>>
  <2>1. PICK n \in Nat : Expectations = 1..n  BY Kinds DEF Expectations
  <2> DEFINE flag(e) == Flag(IF e \in c.grading[1].blockers THEN "blocker_failed"
                             ELSE "expectation_failed", "regression", Lost(b, c, e))
             diff(e) == AgentDiff(OwnerOf(b, c, TypeOf[e], "(grading)"), flag(e))
             s == [e \in Expectations |-> diff(e)]
  <2>2. GradingDiffs(b, c) = FlattenSeq(s)  BY <1>1 DEF GradingDiffs
  <2>3. PICK t : t = s  OBVIOUS
  <2>4. \A e \in 1..n : t[e] = diff(e)  BY <2>1, <2>3
  <2>5. t = [e \in 1..n |-> t[e]]  BY <2>1, <2>3
  <2>6. \A e \in 1..n : Listed(t[e])  BY <2>4, AgentListed
  <2>7. \A e \in 1..n : Regresses(t[e]) <=> Lost(b, c, e)
    <3> TAKE e \in 1..n
    <3>1. Lost(b, c, e) \in BOOLEAN  BY DEF Lost
    <3>2. Hard(flag(e)) <=> Lost(b, c, e)  BY <3>1, FlagIsHard
    <3>3. Regresses(diff(e)) <=> Hard(flag(e))  BY DiffIsRegression DEF Regresses
    <3> QED  BY <2>4, <3>2, <3>3
  <2> HIDE DEF s, diff
  <2>8. /\ Listed(FlattenSeq(t))
        /\ \A x : x \in ToSet(FlattenSeq(t)) <=> \E e \in 1..n : x \in ToSet(t[e])
    BY <2>5, <2>6, ListsFlatten
  <2>9. Regresses(FlattenSeq(t)) <=> \E e \in 1..n : Regresses(t[e])
    BY <2>8 DEF Regresses
  <2> QED  BY <1>1, <2>1, <2>2, <2>3, <2>7, <2>8, <2>9 DEF GradingLost
<1>2. CASE ~(b.grading # <<>> /\ c.grading # <<>>)
  <2> DEFINE missing == Flag("grading_missing", "inconclusive",
                             b.grading # <<>> \/ c.grading # <<>>)
  <2>1. GradingDiffs(b, c) = AgentDiff("(grading)", missing)  BY <1>2 DEF GradingDiffs
  <2>2. ~Hard(missing)  BY DEF Hard, Flag
  <2>3. ~Regresses(AgentDiff("(grading)", missing))
    BY <2>2, DiffIsRegression DEF Regresses
  <2>4. Listed(AgentDiff("(grading)", missing))  BY AgentListed
  <2> QED  BY <1>2, <2>1, <2>3, <2>4 DEF GradingLost
<1> QED  BY <1>1, <1>2

AllDiffs(b, c) == StepDiffs(b, c) \o OutputDiffs(b, c) \o GradingDiffs(b, c)

LEMMA AllListed ==
    ASSUME NEW b, NEW c, Readable(b), Readable(c)
    PROVE  /\ Listed(AllDiffs(b, c))
           /\ ToSet(AllDiffs(b, c)) = ToSet(StepDiffs(b, c)) \cup ToSet(OutputDiffs(b, c))
                                          \cup ToSet(GradingDiffs(b, c))
<1>1. PICK s : s = StepDiffs(b, c)  OBVIOUS
<1>2. PICK o : o = OutputDiffs(b, c)  OBVIOUS
<1>3. PICK g : g = GradingDiffs(b, c)  OBVIOUS
<1>4. Listed(s) /\ Listed(o) /\ Listed(g)
  BY <1>1, <1>2, <1>3, StepsListed, OutputListed, GradingListed
<1>5. Listed(s \o o) /\ ToSet(s \o o) = ToSet(s) \cup ToSet(o)  BY <1>4, ListsJoin
<1>6. Listed((s \o o) \o g) /\ ToSet((s \o o) \o g) = ToSet(s \o o) \cup ToSet(g)
  BY <1>4, <1>5, ListsJoin
<1> QED  BY <1>1, <1>2, <1>3, <1>5, <1>6 DEF AllDiffs

\* A verdict is a regression when something was lost.
LEMMA VerdictIsLoss ==
    ASSUME NEW b, NEW c, Readable(b), Readable(c)
    PROVE  DiffRuns(b, c).verdict = "regression" <=>
               /\ Comparable(b, c)
               /\ \/ \E step \in Recorded(b) \cap Recorded(c) :
                         StepLost(StepOf(b, step), StepOf(c, step))
                  \/ OutputLost(b, c) \/ GradingLost(b, c)
<1>1. PICK diffs : diffs = AllDiffs(b, c)  OBVIOUS
<1>2. CASE ~Comparable(b, c)  BY <1>2 DEF DiffRuns
<1>3. CASE Comparable(b, c)
  <2>1. DiffRuns(b, c).verdict = Worst({diffs[i].severity : i \in DOMAIN diffs}, "pass")
    BY <1>1, <1>3 DEF DiffRuns, AllDiffs
  <2>2. DiffRuns(b, c).verdict = "regression"
            <=> "regression" \in {diffs[i].severity : i \in DOMAIN diffs}
    BY <2>1, WorstIsRegression
  <2>3. "regression" \in {diffs[i].severity : i \in DOMAIN diffs} <=> Regresses(diffs)
    BY DEF Regresses, ToSet
  <2>4. Regresses(diffs) <=> \/ Regresses(StepDiffs(b, c)) \/ Regresses(OutputDiffs(b, c))
                             \/ Regresses(GradingDiffs(b, c))
    BY <1>1, AllListed DEF Regresses
  <2>5. Regresses(StepDiffs(b, c)) <=>
            \E step \in Recorded(b) \cap Recorded(c) :
                Regresses(AgentDiff(AgentOf(b, c, step), SignalsAt(b, c, step)))
    BY StepsListed DEF Regresses
  <2>6. \A step : Regresses(AgentDiff(AgentOf(b, c, step), SignalsAt(b, c, step)))
                      <=> StepLost(StepOf(b, step), StepOf(c, step))
    BY DiffIsRegression, SignalsHard DEF Regresses, SignalsAt
  <2> QED  BY <1>3, <2>2, <2>3, <2>4, <2>5, <2>6, OutputListed, GradingListed
<1> QED  BY <1>2, <1>3

-----------------------------------------------------------------------------
(* Directories as the benchmark writes them                                *)

\* What a line of a log holds, softened or not.
LineKinds(l) == l.step \in Nat \ {0} /\ l.calls \in Nat /\ l.ms \in Nat

LEMMA StepLineKinds ==
    ASSUME NEW l \in StepLines
    PROVE  /\ LineKinds(l)
           /\ l = [step |-> l.step, status |-> l.status, criteria |-> l.criteria,
                   calls |-> l.calls, ms |-> l.ms, fp |-> l.fp, route |-> l.route,
                   cost |-> l.cost]
<1>1. PICK step \in UNION {DOMAIN p.steps : p \in Plans}, r \in Results : l = StepDone(step, r)
  BY DEF StepLines
<1>2. step \in Nat \ {0}
  <2>1. PICK p \in Plans : step \in DOMAIN p.steps  BY <1>1
  <2>2. PICK steps : steps = p.steps  OBVIOUS
  <2>3. steps \in Seq([owner : STRING, type : STRING])  BY <2>2, PlansHaveSteps
  <2> QED  BY <2>1, <2>2, <2>3
<1>3. r.calls \in Nat /\ r.ms \in Nat
  <2>1. r \in [status : {"ok", "failed"}, criteria : [DOMAIN r.criteria -> BOOLEAN],
               calls : Nat, ms : Nat, fp : STRING, route : STRING, cost : Nat \cup {Unknown}]
    BY Kinds
  <2> QED  BY <2>1
<1>4. l = [step |-> step, status |-> r.status, criteria |-> r.criteria, calls |-> r.calls,
           ms |-> r.ms, fp |-> r.fp, route |-> r.route, cost |-> r.cost]
  BY <1>1 DEF StepDone
<1> QED  BY <1>2, <1>3, <1>4 DEF LineKinds

LEMMA DirectoryReadable ==
    ASSUME NEW d \in Directories
    PROVE  /\ Readable(d) /\ d.log \in Seq(StepLines) /\ DOMAIN d.log = 1..Len(d.log)
           /\ \A i \in DOMAIN d.log : d.log[i] \in StepLines
<1>1. PICK log : log = d.log  OBVIOUS
<1>2. log \in Seq(StepLines)  BY <1>1 DEF Directories
<1>3. Len(log) \in Nat /\ DOMAIN log = 1..Len(log) /\ \A i \in DOMAIN log : log[i] \in StepLines
  BY <1>2
<1>4. \A i \in DOMAIN log : log[i].step \in Nat \ {0}  BY <1>3, StepLineKinds DEF LineKinds
<1> QED  BY <1>1, <1>2, <1>3, <1>4 DEF Readable, Listed

LEMMA RecordIsLine ==
    ASSUME NEW d \in Directories, NEW step \in Recorded(d)
    PROVE  StepOf(d, step) \in StepLines
<1>1. PICK k : IsLastOf(d, step, k) /\ StepOf(d, step) = d.log[k]
  BY DirectoryReadable, LastRecord
<1> QED  BY <1>1, DirectoryReadable DEF IsLastOf

LEMMA SameIsQuiet ==
    ASSUME NEW l \in StepLines
    PROVE  Signals(l, l) = {}
<1>1. l.calls \in Nat /\ l.ms \in Nat  BY StepLineKinds DEF LineKinds
<1>2. ~(l.calls > l.calls) /\ ~(l.ms - l.ms > 250)  BY <1>1
<1> DEFINE both == DOMAIN l.criteria \cap DOMAIN l.criteria
<1>3. /\ Flag("step_failed", "regression", l.status = "ok" /\ l.status # "ok") = {}
      /\ Flag("criterion_failed", "regression",
              \E x \in both : l.criteria[x] /\ ~l.criteria[x]) = {}
      /\ Flag("criterion_fixed", "info", \E x \in both : ~l.criteria[x] /\ l.criteria[x]) = {}
      /\ Flag("config_changed", "info", l.fp # l.fp) = {}
  BY FlagIsHard
<1>4. Flag("calls_increase", "warning", l.calls > l.calls) = {}  BY <1>2 DEF Flag
<1>5. Flag("latency_increase", "warning",
           l.ms - l.ms > 250 /\ 4 * (l.ms - l.ms) > (IF l.ms = 0 THEN 1 ELSE l.ms)) = {}
  BY <1>2 DEF Flag
<1> QED  BY <1>3, <1>4, <1>5 DEF Signals

\* A directory does not differ from itself.
LEMMA SelfPasses ==
    ASSUME NEW d \in Directories
    PROVE  DiffRuns(d, d).diffs = <<>> /\ DiffRuns(d, d).verdict = "pass"
<1>1. Readable(d)  BY DirectoryReadable
<1>2. ToSet(StepDiffs(d, d)) = {}
  <2>1. \A step \in Recorded(d) : SignalsAt(d, d, step) = {}
    BY RecordIsLine, SameIsQuiet DEF SignalsAt
  <2>2. \A x : \A step \in Recorded(d) :
            x \notin ToSet(AgentDiff(AgentOf(d, d, step), SignalsAt(d, d, step)))
    BY <2>1, AgentListed
  <2>3. \A x : x \notin ToSet(StepDiffs(d, d))  BY <1>1, <2>2, StepsListed
  <2> QED  BY <2>3
<1>3. ToSet(OutputDiffs(d, d)) = {}
  <2> DEFINE owner == OwnerOf(d, d, FinalType(d), "(final_output)")
             both == d.final # <<>> /\ d.final # <<>>
  <2>1. AgentDiff(owner, Flag("schema_invalid", "regression",
                              both /\ d.final[1].valid = "valid"
                                   /\ d.final[1].valid = "invalid")) = <<>>
    BY FlagIsHard, AgentListed
  <2>2. AgentDiff(owner, Flag("stable_field_changed", "warning",
                              both /\ 0 \notin {d.final[1].stable, d.final[1].stable}
                                   /\ d.final[1].stable # d.final[1].stable)) = <<>>
    BY FlagIsHard, AgentListed
  <2>3. AgentDiff("(run)", Flag("run_failed", "regression", ~RunFailed(d) /\ RunFailed(d)))
            = <<>>
    BY FlagIsHard, AgentListed
  <2>4. OutputDiffs(d, d) = <<>> \o <<>> \o <<>>  BY <2>1, <2>2, <2>3 DEF OutputDiffs
  <2>5. <<>> \o <<>> \o <<>> = <<>>  OBVIOUS
  <2> QED  BY <2>4, <2>5, EmptyHasNone
<1>4. ToSet(GradingDiffs(d, d)) = {}
  <2>1. CASE d.grading # <<>>
    <3>1. PICK n \in Nat : Expectations = 1..n  BY Kinds DEF Expectations
    <3> DEFINE flag(e) == Flag(IF e \in d.grading[1].blockers THEN "blocker_failed"
                               ELSE "expectation_failed", "regression", Lost(d, d, e))
               diff(e) == AgentDiff(OwnerOf(d, d, TypeOf[e], "(grading)"), flag(e))
    <3>2. PICK s : s = [e \in Expectations |-> diff(e)]  OBVIOUS
    <3>3. GradingDiffs(d, d) = FlattenSeq(s)  BY <2>1, <3>2 DEF GradingDiffs
    <3>4. \A e \in 1..n : s[e] = <<>>
      <4> TAKE e \in 1..n
      <4>1. Lost(d, d, e) = FALSE  BY DEF Lost
      <4>2. flag(e) = {}  BY <4>1 DEF Flag
      <4>3. diff(e) = <<>>  BY <4>2, AgentListed
      <4> QED  BY <3>1, <3>2, <4>3
    <3>5. s = [e \in 1..n |-> s[e]]  BY <3>1, <3>2
    <3>6. \A e \in 1..n : Listed(s[e])  BY <3>4, OneIsListed
    <3>7. \A x : x \in ToSet(FlattenSeq(s)) <=> \E e \in 1..n : x \in ToSet(s[e])
      BY <3>5, <3>6, ListsFlatten
    <3> QED  BY <3>3, <3>4, <3>7, EmptyHasNone
  <2>2. CASE d.grading = <<>>
    <3>1. AgentDiff("(grading)", Flag("grading_missing", "inconclusive",
                                      d.grading # <<>> \/ d.grading # <<>>)) = <<>>
      BY <2>2, FlagIsHard, AgentListed
    <3> QED  BY <2>2, <3>1, EmptyHasNone DEF GradingDiffs
  <2> QED  BY <2>1, <2>2
<1>5. PICK diffs : diffs = AllDiffs(d, d)  OBVIOUS
<1>6. Listed(diffs) /\ ToSet(diffs) = {}  BY <1>1, <1>2, <1>3, <1>4, <1>5, AllListed
<1>7. diffs = <<>>  BY <1>6, NoElementsIsEmpty DEF Listed
<1>8. Comparable(d, d)  BY DEF Comparable
<1>9. /\ DiffRuns(d, d).diffs = diffs
      /\ DiffRuns(d, d).verdict = Worst({diffs[i].severity : i \in DOMAIN diffs}, "pass")
  BY <1>5, <1>8 DEF DiffRuns, AllDiffs
<1>10. DOMAIN <<>> = {}  OBVIOUS
<1>11. {diffs[i].severity : i \in DOMAIN diffs} = {}  BY <1>7, <1>10
<1>12. Worst({}, "pass") = "pass"  BY DEF Worst
<1> QED  BY <1>7, <1>9, <1>11, <1>12

-----------------------------------------------------------------------------
(* What is soft                                                            *)

Softened(l) == [l EXCEPT !.calls = 0, !.ms = 0, !.fp = ""]

LEMMA SoftFiles ==
    ASSUME NEW d \in Directories
    PROVE  /\ Soft(d).plan = d.plan /\ Soft(d).grading = d.grading
           /\ Soft(d).log = [i \in DOMAIN d.log |-> Softened(d.log[i])]
           /\ Soft(d).final = [i \in DOMAIN d.final |-> [d.final[i] EXCEPT !.stable = 0]]
BY DEF Directories, Soft, Softened

LEMMA SoftLine ==
    ASSUME NEW l \in StepLines
    PROVE  /\ Softened(l).step = l.step /\ Softened(l).status = l.status
           /\ Softened(l).criteria = l.criteria
<1>1. l = [step |-> l.step, status |-> l.status, criteria |-> l.criteria, calls |-> l.calls,
           ms |-> l.ms, fp |-> l.fp, route |-> l.route, cost |-> l.cost]
  BY StepLineKinds
<1>2. PICK v1, v2, v3, v4, v5, v6, v7, v8 :
        l = [step |-> v1, status |-> v2, criteria |-> v3, calls |-> v4,
             ms |-> v5, fp |-> v6, route |-> v7, cost |-> v8]
  BY <1>1
<1> QED  BY <1>2 DEF Softened

LEMMA SoftLog ==
    ASSUME NEW d \in Directories
    PROVE  /\ Readable(Soft(d)) /\ Recorded(Soft(d)) = Recorded(d)
           /\ \A step \in Recorded(d) :
                  /\ StepOf(Soft(d), step).status = StepOf(d, step).status
                  /\ StepOf(Soft(d), step).criteria = StepOf(d, step).criteria
<1>1. PICK e : e = Soft(d)  OBVIOUS
<1>2. PICK n \in Nat : n = Len(d.log) /\ DOMAIN d.log = 1..n /\ Readable(d)
      /\ \A i \in 1..n : d.log[i] \in StepLines
  BY DirectoryReadable
<1>3. PICK log : log = e.log  OBVIOUS
<1>4. log = [i \in 1..n |-> Softened(d.log[i])]  BY <1>1, <1>2, <1>3, SoftFiles
<1>5. \A i \in 1..n : /\ log[i].step = d.log[i].step /\ log[i].status = d.log[i].status
                      /\ log[i].criteria = d.log[i].criteria
                      /\ log[i].step \in Nat \ {0}
  BY <1>2, <1>4, SoftLine, StepLineKinds DEF LineKinds
<1>6. Listed(log)
  <2>1. PICK S : S = {log[i] : i \in 1..n}  OBVIOUS
  <2>2. log \in Seq(S)  BY <1>4, <2>1
  <2> QED  BY <2>2 DEF Listed
<1>7. DOMAIN log = 1..n  BY <1>4
<1>8. Readable(e)  BY <1>3, <1>5, <1>6, <1>7 DEF Readable
<1>9. Recorded(e) = Recorded(d)  BY <1>2, <1>3, <1>5, <1>7 DEF Recorded
<1>10. ASSUME NEW step \in Recorded(d)
       PROVE  /\ StepOf(e, step).status = StepOf(d, step).status
              /\ StepOf(e, step).criteria = StepOf(d, step).criteria
  <2>1. PICK k : IsLastOf(d, step, k) /\ StepOf(d, step) = d.log[k]  BY <1>2, LastRecord
  <2>2. PICK j : IsLastOf(e, step, j) /\ StepOf(e, step) = e.log[j]
    BY <1>8, <1>9, LastRecord
  <2>3. k \in 1..n /\ j \in 1..n /\ d.log[k].step = step /\ log[j].step = step
    BY <1>2, <1>3, <1>7, <2>1, <2>2 DEF IsLastOf
  <2>4. j <= k /\ k <= j
    BY <1>2, <1>3, <1>5, <1>7, <2>1, <2>2, <2>3 DEF IsLastOf
  <2>5. j = k  BY <2>3, <2>4
  <2> QED  BY <1>3, <1>5, <2>1, <2>2, <2>3, <2>5
<1> QED  BY <1>1, <1>8, <1>9, <1>10

LEMMA SoftOutput ==
    ASSUME NEW d \in Directories
    PROVE  /\ Soft(d).final = <<>> <=> d.final = <<>>
           /\ d.final # <<>> => /\ Soft(d).final[1].valid = d.final[1].valid
                                /\ Soft(d).final[1].failed = d.final[1].failed
<1>1. PICK soft : soft = Soft(d).final  OBVIOUS
<1>2. soft = [i \in DOMAIN d.final |-> [d.final[i] EXCEPT !.stable = 0]]  BY <1>1, SoftFiles
<1>3. CASE d.final = <<>>
  <2>1. DOMAIN <<>> = {}  OBVIOUS
  <2>2. DOMAIN soft = {} /\ soft = [i \in {} |-> soft[i]]  BY <1>2, <1>3, <2>1
  <2>3. soft = <<>>  BY <2>2
  <2> QED  BY <1>1, <1>3, <2>3
<1>4. CASE d.final # <<>>
  <2>1. PICK o \in Outputs \cup {FailedOutput} : d.final = <<o>>  BY <1>4 DEF Directories
  <2>2. DOMAIN <<o>> = {1} /\ <<o>>[1] = o  OBVIOUS
  <2>3. soft[1] = [o EXCEPT !.stable = 0] /\ DOMAIN soft = {1}  BY <1>2, <2>1, <2>2
  <2>4. soft # <<>>
    <3>1. DOMAIN <<>> = {}  OBVIOUS
    <3> QED  BY <2>3, <3>1
  <2>5. o \in [failed : BOOLEAN, valid : {"valid", "invalid", "none"}, stable : Nat]
    <3>1. CASE o = FailedOutput  BY <3>1 DEF FailedOutput
    <3>2. CASE o \in Outputs
      <4>1. o \in [failed : {FALSE}, valid : {"valid", "invalid", "none"}, stable : Nat]
        BY <3>2, Kinds
      <4> QED  BY <4>1
    <3> QED  BY <3>1, <3>2
  <2>6. [o EXCEPT !.stable = 0].valid = o.valid /\ [o EXCEPT !.stable = 0].failed = o.failed
    BY <2>5
  <2> QED  BY <1>1, <1>4, <2>1, <2>2, <2>3, <2>4, <2>6
<1> QED  BY <1>3, <1>4

\* What is soft makes no regression and hides none.
LEMMA SoftnessIsIgnored ==
    ASSUME NEW b \in Directories, NEW c \in Directories
    PROVE  DiffRuns(b, c).verdict = "regression"
               <=> DiffRuns(Soft(b), Soft(c)).verdict = "regression"
<1>1. PICK b1 : b1 = Soft(b)  OBVIOUS
<1>2. PICK c1 : c1 = Soft(c)  OBVIOUS
<1>3. Readable(b) /\ Readable(c)  BY DirectoryReadable
<1>4. /\ Readable(b1) /\ Recorded(b1) = Recorded(b)
      /\ \A step \in Recorded(b) : /\ StepOf(b1, step).status = StepOf(b, step).status
                                   /\ StepOf(b1, step).criteria = StepOf(b, step).criteria
  BY <1>1, SoftLog
<1>5. /\ Readable(c1) /\ Recorded(c1) = Recorded(c)
      /\ \A step \in Recorded(c) : /\ StepOf(c1, step).status = StepOf(c, step).status
                                   /\ StepOf(c1, step).criteria = StepOf(c, step).criteria
  BY <1>2, SoftLog
<1>6. Comparable(b1, c1) <=> Comparable(b, c)  BY <1>1, <1>2, SoftFiles DEF Comparable
<1>7. \A step \in Recorded(b) \cap Recorded(c) :
          StepLost(StepOf(b1, step), StepOf(c1, step))
              <=> StepLost(StepOf(b, step), StepOf(c, step))
  BY <1>4, <1>5 DEF StepLost
<1>8. OutputLost(b1, c1) <=> OutputLost(b, c)
  BY <1>1, <1>2, SoftOutput DEF OutputLost, RunFailed
<1>9. GradingLost(b1, c1) <=> GradingLost(b, c)
  BY <1>1, <1>2, SoftFiles DEF GradingLost, Lost
<1>10. DiffRuns(b, c).verdict = "regression" <=> DiffRuns(b1, c1).verdict = "regression"
  BY <1>3, <1>4, <1>5, <1>6, <1>7, <1>8, <1>9, VerdictIsLoss
<1> QED  BY <1>1, <1>2, <1>10

\* What is counted as a new blocker failure.
LEMMA NewBlockersAre ==
    ASSUME NEW b \in Directories, NEW c \in Directories, DiffRuns(b, c).newBlockers > 0
    PROVE  /\ Comparable(b, c) /\ b.grading # <<>> /\ c.grading # <<>>
           /\ DiffRuns(b, c).newBlockers
                  = (IF ~BlockerFailed(b) /\ BlockerFailed(c) THEN 1 ELSE 0)
                    + Cardinality({e \in c.grading[1].blockers : Lost(b, c, e)})
<1>1. CASE ~Comparable(b, c)
  <2>1. DiffRuns(b, c).newBlockers = 0  BY <1>1 DEF DiffRuns
  <2> QED  BY <2>1
<1>2. CASE Comparable(b, c)
  <2>1. DiffRuns(b, c).newBlockers = NewBlockerFailures(b, c)  BY <1>2 DEF DiffRuns
  <2>2. CASE b.grading = <<>> \/ c.grading = <<>>
    <3>1. NewBlockerFailures(b, c) = 0  BY <2>2 DEF NewBlockerFailures
    <3> QED  BY <2>1, <3>1
  <2>3. CASE b.grading # <<>> /\ c.grading # <<>>
    BY <1>2, <2>1, <2>3 DEF NewBlockerFailures
  <2> QED  BY <2>2, <2>3
<1> QED  BY <1>1, <1>2

\* A grading is one of Gradings.
LEMMA GradingIs ==
    ASSUME NEW d \in Directories, d.grading # <<>>
    PROVE  /\ d.grading[1] \in Gradings
           /\ DOMAIN d.grading[1].verdict \subseteq Expectations
           /\ d.grading[1].blockers \subseteq DOMAIN d.grading[1].verdict
           /\ \A e \in DOMAIN d.grading[1].verdict : d.grading[1].verdict[e] \in Verdicts
           /\ d.grading[1].rate \in Nat
<1>1. PICK g \in Gradings : d.grading = <<g>>  BY FilesAre
<1>2. d.grading[1] = g  BY <1>1
<1>3. /\ g \in [verdict : [DOMAIN g.verdict -> Verdicts], blockers : SUBSET DOMAIN g.verdict,
                rate : Nat, blockerFailed : BOOLEAN]
      /\ DOMAIN g.verdict \subseteq Expectations
  BY Kinds
<1>4. g.verdict \in [DOMAIN g.verdict -> Verdicts] /\ g.blockers \in SUBSET DOMAIN g.verdict
      /\ g.rate \in Nat
  BY <1>3
<1> QED  BY <1>2, <1>3, <1>4

\* Of several new blocker failures one is an expectation that was lost.
LEMMA SeveralAreLost ==
    ASSUME NEW b \in Directories, NEW c \in Directories, DiffRuns(b, c).newBlockers > 1
    PROVE  DiffRuns(b, c).verdict = "regression"
<1>1. PICK S : S = {e \in c.grading[1].blockers : Lost(b, c, e)}  OBVIOUS
<1>2. DiffRuns(b, c).newBlockers > 0
  <2>1. CASE ~Comparable(b, c)
    <3>1. DiffRuns(b, c).newBlockers = 0  BY <2>1 DEF DiffRuns
    <3> QED  BY <3>1
  <2>2. CASE Comparable(b, c)
    <3>1. DiffRuns(b, c).newBlockers = NewBlockerFailures(b, c)  BY <2>2 DEF DiffRuns
    <3>2. CASE b.grading = <<>> \/ c.grading = <<>>
      <4>1. NewBlockerFailures(b, c) = 0  BY <3>2 DEF NewBlockerFailures
      <4> QED  BY <3>1, <4>1
    <3>3. CASE b.grading # <<>> /\ c.grading # <<>>
      <4>1. IsFiniteSet(S)
        <5>1. PICK n \in Nat : Expectations = 1..n  BY Kinds DEF Expectations
        <5>2. IsFiniteSet(Expectations)  BY <5>1, FS_Interval
        <5>3. S \in SUBSET Expectations  BY <1>1, <3>3, GradingIs
        <5> QED  BY <5>2, <5>3, FS_Subset
      <4>2. Cardinality(S) \in Nat  BY <4>1, FS_CardinalityType
      <4>3. NewBlockerFailures(b, c)
                = (IF ~BlockerFailed(b) /\ BlockerFailed(c) THEN 1 ELSE 0) + Cardinality(S)
        BY <1>1, <3>3 DEF NewBlockerFailures
      <4> QED  BY <3>1, <4>2, <4>3
    <3> QED  BY <3>2, <3>3
  <2> QED  BY <2>1, <2>2
<1>3. /\ Comparable(b, c) /\ b.grading # <<>> /\ c.grading # <<>>
      /\ DiffRuns(b, c).newBlockers
             = (IF ~BlockerFailed(b) /\ BlockerFailed(c) THEN 1 ELSE 0) + Cardinality(S)
  BY <1>1, <1>2, NewBlockersAre
<1>4. S # {}
  <2>1. Cardinality({}) = 0  BY FS_EmptySet
  <2>2. PICK k \in 0..1 : k = IF ~BlockerFailed(b) /\ BlockerFailed(c) THEN 1 ELSE 0
    OBVIOUS
  <2>3. DiffRuns(b, c).newBlockers = k + Cardinality(S)  BY <1>3, <2>2
  <2>4. k + 0 <= 1  OBVIOUS
  <2> QED  BY <2>1, <2>3, <2>4
<1>5. GradingLost(b, c)
  <2>1. c.grading[1].blockers \subseteq Expectations  BY <1>3, GradingIs
  <2> QED  BY <1>1, <1>3, <1>4, <2>1 DEF GradingLost
<1> QED  BY <1>3, <1>5, DirectoryReadable, VerdictIsLoss

\* And so is a single one, if the gradings are alike and the baseline's is decided.
LEMMA NewBlockerIsLost ==
    ASSUME NEW b \in Directories, NEW c \in Directories, DiffRuns(b, c).newBlockers > 0,
           AlikeGraded(b, c), ~Undecided(b),
           b.grading[1].blockers = c.grading[1].blockers
    PROVE  DiffRuns(b, c).verdict = "regression"
<1>1. PICK g : g = b.grading[1]  OBVIOUS
<1>2. PICK h : h = c.grading[1]  OBVIOUS
<1>3. /\ b.grading # <<>> /\ c.grading # <<>> /\ DOMAIN g.verdict = DOMAIN h.verdict
      /\ FollowsPrompt(g) /\ FollowsPrompt(h) /\ g.blockers = h.blockers
  BY <1>1, <1>2 DEF AlikeGraded
<1>4. /\ DOMAIN g.verdict \subseteq Expectations /\ g.blockers \subseteq DOMAIN g.verdict
      /\ \A e \in DOMAIN g.verdict : g.verdict[e] \in Verdicts
  BY <1>1, <1>3, GradingIs
<1>5. \A e \in DOMAIN g.verdict : g.verdict[e] \in {"PASS", "FAIL"}
  <2> TAKE e \in DOMAIN g.verdict
  <2>1. g.verdict[e] \in Range(g.verdict)  BY DEF Range
  <2>2. g.verdict[e] # "INCONCLUSIVE"  BY <1>1, <2>1 DEF Undecided
  <2> QED  BY <1>4, <2>2 DEF Verdicts
<1>6. Comparable(b, c)  BY NewBlockersAre
<1>7. \E e \in h.blockers : Lost(b, c, e)
  <2> SUFFICES ASSUME \A e \in h.blockers : ~Lost(b, c, e) PROVE FALSE
    OBVIOUS
  <2>1. Cardinality({e \in h.blockers : Lost(b, c, e)}) = 0
    <3>1. {e \in h.blockers : Lost(b, c, e)} = {}  OBVIOUS
    <3> QED  BY <3>1, FS_EmptySet
  <2>2. ~BlockerFailed(b) /\ BlockerFailed(c)
    BY <1>2, <2>1, NewBlockersAre
  <2>3. ~g.blockerFailed /\ h.blockerFailed  BY <1>1, <1>2, <1>3, <2>2 DEF BlockerFailed
  <2>4. PICK e \in h.blockers : h.verdict[e] = "FAIL"  BY <1>3, <2>3 DEF FollowsPrompt
  <2>5. g.verdict[e] # "FAIL"  BY <1>3, <2>3, <2>4 DEF FollowsPrompt
  <2>6. e \in DOMAIN g.verdict /\ g.verdict[e] = "PASS"  BY <1>3, <1>4, <1>5, <2>5
  <2> QED  BY <1>1, <1>2, <1>3, <2>4, <2>6 DEF Lost
<1>8. GradingLost(b, c)  BY <1>3, <1>4, <1>7 DEF GradingLost
<1> QED  BY <1>6, <1>8, DirectoryReadable, VerdictIsLoss

LEMMA TypesGiveDirectories == TypeOK => baseline \in Directories /\ candidate \in Directories
BY LaunchesBounded DEF TypeOK

\* Whatever launches and kills have left in a directory: it passes against itself, the
\* soft fields decide no regression, and new blocker failures are one if there are two,
\* or if the graders followed their prompt alike and the baseline's decided.
THEOREM OnlyLossesGate == Spec => []HardLossesOnly
<1>1. TypeOK => HardLossesOnly
  <2> SUFFICES ASSUME TypeOK PROVE HardLossesOnly
    OBVIOUS
  <2>1. baseline \in Directories /\ candidate \in Directories  BY TypesGiveDirectories
  <2>2. \A t \in Thresholds : ExitCode("pass", t) = 0  BY DEF ExitCode, Thresholds
  <2>3. \A t \in Thresholds : ExitCode("regression", t) = 1  BY DEF ExitCode, Thresholds
  <2>4. \A r \in {baseline, candidate} :
            /\ DiffRuns(r, r).diffs = <<>>
            /\ \A t \in Thresholds : ExitCode(DiffRuns(r, r).verdict, t) = 0
    BY <2>1, <2>2, SelfPasses
  <2>5. DiffRuns(baseline, candidate).verdict = "regression"
            <=> DiffRuns(Soft(baseline), Soft(candidate)).verdict = "regression"
    BY <2>1, SoftnessIsIgnored
  <2>6. ASSUME \/ DiffRuns(baseline, candidate).newBlockers > 1
               \/ /\ DiffRuns(baseline, candidate).newBlockers > 0
                  /\ AlikeGraded(baseline, candidate) /\ ~Undecided(baseline)
                  /\ baseline.grading[1].blockers = candidate.grading[1].blockers
        PROVE  \A t \in Thresholds : ExitCode(DiffRuns(baseline, candidate).verdict, t) = 1
    BY <2>1, <2>3, <2>6, SeveralAreLost, NewBlockerIsLost
  <2> QED  BY <2>4, <2>5, <2>6 DEF HardLossesOnly
<1> QED  BY <1>1, TypeCorrect, PTL

-----------------------------------------------------------------------------
(* The overlay                                                             *)

LEMMA GraderIsNoStation == "(grading)" \notin Stations
BY RunReportsAssumption, Zenon

\* Only a missing grading is inconclusive, and no station has it.
Voiced(x) ==
    /\ x.severity \in {"regression", "warning", "inconclusive", "info"}
    /\ x.severity = "inconclusive" => x.agent = "(grading)"

Decided(signals) == \A s \in signals : s.severity # "inconclusive"

LEMMA DiffVoiced ==
    ASSUME NEW agent, NEW signals, agent = "(grading)" \/ Decided(signals)
    PROVE  \A x \in ToSet(AgentDiff(agent, signals)) : Voiced(x)
<1> TAKE x \in ToSet(AgentDiff(agent, signals))
<1>1. x = DiffOf(agent, signals)  BY AgentListed
<1>2. x.agent = agent /\ x.severity = Worst(Severities(signals), "info")
  BY <1>1 DEF DiffOf
<1>3. Worst(Severities(signals), "info") \in {"regression", "warning", "inconclusive", "info"}
  BY DEF Worst
<1>4. Decided(signals) => Worst(Severities(signals), "info") # "inconclusive"
  BY DEF Decided, Worst, Severities
<1> QED  BY <1>2, <1>3, <1>4 DEF Voiced

LEMMA FlagDecided ==
    ASSUME NEW kind, NEW severity, NEW holds, severity # "inconclusive"
    PROVE  Decided(Flag(kind, severity, holds))
BY DEF Decided, Flag

LEMMA SignalsDecided ==
    ASSUME NEW b, NEW c
    PROVE  Decided(Signals(b, c))
BY DEF Signals, Decided, Flag

LEMMA AllVoiced ==
    ASSUME NEW b, NEW c, Readable(b), Readable(c)
    PROVE  \A x \in ToSet(AllDiffs(b, c)) : Voiced(x)
<1>1. \A x \in ToSet(StepDiffs(b, c)) : Voiced(x)
  <2>1. \A step : Decided(SignalsAt(b, c, step))  BY SignalsDecided DEF SignalsAt
  <2> QED  BY <2>1, StepsListed, DiffVoiced
<1>2. \A x \in ToSet(OutputDiffs(b, c)) : Voiced(x)
  <2> DEFINE owner == OwnerOf(b, c, FinalType(c), "(final_output)")
             both == b.final # <<>> /\ c.final # <<>>
             A1 == AgentDiff(owner, Flag("schema_invalid", "regression",
                             both /\ b.final[1].valid = "valid"
                                  /\ c.final[1].valid = "invalid"))
             A2 == AgentDiff(owner, Flag("stable_field_changed", "warning",
                                both /\ 0 \notin {b.final[1].stable, c.final[1].stable}
                                     /\ b.final[1].stable # c.final[1].stable))
             A3 == AgentDiff("(run)", Flag("run_failed", "regression",
                                           ~RunFailed(b) /\ RunFailed(c)))
  <2>1. OutputDiffs(b, c) = A1 \o A2 \o A3  BY DEF OutputDiffs
  <2>2. \A x \in ToSet(A1) : Voiced(x)  BY FlagDecided, DiffVoiced
  <2>3. \A x \in ToSet(A2) : Voiced(x)  BY FlagDecided, DiffVoiced
  <2>4. \A x \in ToSet(A3) : Voiced(x)  BY FlagDecided, DiffVoiced
  <2>5. Listed(A1) /\ Listed(A2) /\ Listed(A3)  BY AgentListed
  <2> HIDE DEF A1, A2, A3
  <2>6. Listed(A1 \o A2) /\ ToSet(A1 \o A2) = ToSet(A1) \cup ToSet(A2)  BY <2>5, ListsJoin
  <2>7. ToSet((A1 \o A2) \o A3) = ToSet(A1 \o A2) \cup ToSet(A3)  BY <2>5, <2>6, ListsJoin
  <2> QED  BY <2>1, <2>2, <2>3, <2>4, <2>6, <2>7
<1>3. \A x \in ToSet(GradingDiffs(b, c)) : Voiced(x)
  <2>1. CASE b.grading # <<>> /\ c.grading # <<>>
    <3>1. PICK n \in Nat : Expectations = 1..n  BY Kinds DEF Expectations
    <3> DEFINE flag(e) == Flag(IF e \in c.grading[1].blockers THEN "blocker_failed"
                                                 ELSE "expectation_failed",
                               "regression", Lost(b, c, e))
               diff(e) == AgentDiff(OwnerOf(b, c, TypeOf[e], "(grading)"), flag(e))
               s == [e \in Expectations |-> diff(e)]
    <3>2. GradingDiffs(b, c) = FlattenSeq(s)  BY <2>1 DEF GradingDiffs
    <3>3. PICK t : t = s  OBVIOUS
    <3>4. \A e \in 1..n : t[e] = diff(e)  BY <3>1, <3>3
    <3>5. t = [e \in 1..n |-> t[e]]  BY <3>1, <3>3
    <3>6. \A e \in 1..n : Listed(t[e])  BY <3>4, AgentListed
    <3>7. \A e \in 1..n : \A x \in ToSet(t[e]) : Voiced(x)
      <4> TAKE e \in 1..n
      <4>1. Decided(flag(e))  BY FlagDecided
      <4>2. \A x \in ToSet(diff(e)) : Voiced(x)  BY <4>1, DiffVoiced
      <4> QED  BY <3>4, <4>2
    <3> HIDE DEF s, diff
    <3>8. \A x : x \in ToSet(FlattenSeq(t)) <=> \E e \in 1..n : x \in ToSet(t[e])
      BY <3>5, <3>6, ListsFlatten
    <3> QED  BY <3>2, <3>3, <3>7, <3>8
  <2>2. CASE ~(b.grading # <<>> /\ c.grading # <<>>)
    <3>1. PICK missing : GradingDiffs(b, c) = AgentDiff("(grading)", missing)
      BY <2>2 DEF GradingDiffs
    <3> QED  BY <3>1, DiffVoiced
  <2> QED  BY <2>1, <2>2
<1> QED  BY <1>1, <1>2, <1>3, AllListed

\* What envelopes say, whatever their seq.
Says(e) == <<e.type, e.at, e.state>>
Said(envs) == {Says(e) : e \in ToSet(envs)}

Station(agent) == {agent} \cap Stations
Alarm(diff) == IF diff.severity = "regression" THEN "critical" ELSE "warning"
Duty(diff) == IF diff.severity = "regression" THEN "drain" ELSE "busy"
Alert(diff) == Env("alert.raised", Station(diff.agent), Alarm(diff), <<>>)
Update(diff) == Env("station.updated", Station(diff.agent), Duty(diff), <<1>>)

\* The envelopes of one diff, and of all of them.
PartOf(diff) ==
    IF diff.severity = "info" THEN <<Log>>
    ELSE <<Alert(diff)>> \o (IF Station(diff.agent) = {} THEN <<>> ELSE <<Update(diff)>>)
                         \o <<Log>>
Parts(d) == FlattenSeq([i \in DOMAIN d.diffs |-> PartOf(d.diffs[i])])

LEMMA OverlayStamped ==
    ASSUME NEW d
    PROVE  Overlay(d) = Stamped(<<Snapshot, Log>> \o Parts(d), 0)
<1>1. NewRunState.seq + 0 = 0  BY DEF NewRunState
<1> DEFINE ofAgent(diff) ==
            LET at == {diff.agent} \cap Stations
                hard == diff.severity = "regression"
            IN IF diff.severity = "info" THEN <<Log>>
               ELSE <<Env("alert.raised", at, IF hard THEN "critical" ELSE "warning", <<>>)>>
                    \o (IF at = {} THEN <<>>
                        ELSE <<Env("station.updated", at, IF hard THEN "drain" ELSE "busy",
                                   <<1>>)>>)
                    \o <<Log>>
<1>2. \A diff : ofAgent(diff) = PartOf(diff)
  BY DEF PartOf, Alert, Update, Station, Alarm, Duty
<1> HIDE DEF ofAgent
<1>3. [i \in DOMAIN d.diffs |-> ofAgent(d.diffs[i])] = [i \in DOMAIN d.diffs |-> PartOf(d.diffs[i])]
  BY <1>2
<1>4. Overlay(d) = Emit(NewRunState, <<Snapshot, Log>> \o
            FlattenSeq([i \in DOMAIN d.diffs |-> ofAgent(d.diffs[i])]), 0).out
  BY DEF Overlay, ofAgent
<1>5. Overlay(d) = Emit(NewRunState, <<Snapshot, Log>> \o Parts(d), 0).out
  BY <1>3, <1>4 DEF Parts
<1> QED  BY <1>1, <1>5 DEF Emit

LEMMA PartHolds ==
    ASSUME NEW diff
    PROVE  /\ Listed(PartOf(diff))
           /\ \A e : e \in ToSet(PartOf(diff)) <=>
                  \/ e = Log
                  \/ diff.severity # "info" /\ e = Alert(diff)
                  \/ diff.severity # "info" /\ Station(diff.agent) # {} /\ e = Update(diff)
<1>1. CASE diff.severity = "info"  BY <1>1, OneIsListed DEF PartOf
<1>2. CASE diff.severity # "info"
  <2>1. PICK a : a = <<Alert(diff)>>  OBVIOUS
  <2>2. PICK u : u = IF Station(diff.agent) = {} THEN <<>> ELSE <<Update(diff)>>  OBVIOUS
  <2>3. PICK l : l = <<Log>>  OBVIOUS
  <2>4. Listed(a) /\ ToSet(a) = {Alert(diff)}  BY <2>1, OneIsListed
  <2>5. Listed(l) /\ ToSet(l) = {Log}  BY <2>3, OneIsListed
  <2>6. Listed(u) /\ ToSet(u) = IF Station(diff.agent) = {} THEN {} ELSE {Update(diff)}
    BY <2>2, OneIsListed, EmptyHasNone
  <2>7. Listed(a \o u) /\ ToSet(a \o u) = ToSet(a) \cup ToSet(u)  BY <2>4, <2>6, ListsJoin
  <2>8. /\ Listed((a \o u) \o l)
        /\ ToSet((a \o u) \o l) = ToSet(a \o u) \cup ToSet(l)
    BY <2>5, <2>7, ListsJoin
  <2>9. PartOf(diff) = (a \o u) \o l  BY <1>2, <2>1, <2>2, <2>3 DEF PartOf
  <2> QED  BY <1>2, <2>4, <2>5, <2>6, <2>7, <2>8, <2>9
<1> QED  BY <1>1, <1>2

\* A comparison's diffs, and what its overlay says of them.
Compared(d) ==
    \E n \in Nat : /\ DOMAIN d.diffs = 1..n
                   /\ \A i \in 1..n : Voiced(d.diffs[i])

LEMMA PartsHold ==
    ASSUME NEW d, Compared(d)
    PROVE  /\ Listed(Parts(d))
           /\ \A e : e \in ToSet(Parts(d)) <=>
                  \E i \in DOMAIN d.diffs : e \in ToSet(PartOf(d.diffs[i]))
<1>1. PICK n \in Nat : DOMAIN d.diffs = 1..n  BY DEF Compared
<1>2. PICK s : s = [i \in 1..n |-> PartOf(d.diffs[i])]  OBVIOUS
<1>3. \A i \in 1..n : s[i] = PartOf(d.diffs[i])  BY <1>2
<1>4. s = [i \in 1..n |-> s[i]]  BY <1>2
<1>5. \A i \in 1..n : Listed(s[i])  BY <1>3, PartHolds
<1>6. Parts(d) = FlattenSeq(s)  BY <1>1, <1>2 DEF Parts
<1> QED  BY <1>1, <1>3, <1>4, <1>5, <1>6, ListsFlatten

LEMMA SnapshotsTyped == Snapshot \in Envelopes /\ Log \in Envelopes
<1>1. {} \in SUBSET Stations /\ <<>> \in Seq(Nat) /\ 0 \in Nat  OBVIOUS
<1> QED  BY <1>1 DEF Snapshot, Log, Env, Envelopes

LEMMA AlertsTyped ==
    ASSUME NEW diff
    PROVE  Alert(diff) \in Envelopes /\ Update(diff) \in Envelopes
<1>1. Station(diff.agent) \in SUBSET Stations  BY DEF Station
<1>2. <<>> \in Seq(Nat) /\ <<1>> \in Seq(Nat) /\ 0 \in Nat  OBVIOUS
<1>3. Alarm(diff) \in {"critical", "warning"} /\ Duty(diff) \in {"drain", "busy"}
  BY DEF Alarm, Duty
<1> HIDE DEF Alarm, Duty, Station
<1> QED  BY <1>1, <1>2, <1>3 DEF Alert, Update, Env, Envelopes

\* An envelope of an overlay after the snapshot.
Told(e, d) ==
    \/ Says(e) = Says(Log)
    \/ \E i \in DOMAIN d.diffs :
           /\ d.diffs[i].severity # "info"
           /\ \/ Says(e) = Says(Alert(d.diffs[i]))
              \/ Station(d.diffs[i].agent) # {} /\ Says(e) = Says(Update(d.diffs[i]))
                 /\ e.num = <<1>>

\* What is said in an overlay, without its seqs.
LEMMA OverlayHolds ==
    ASSUME NEW d, Compared(d)
    PROVE  LET envs == Overlay(d)
           IN /\ envs \in Seq(Envelopes) /\ Len(envs) > 0
              /\ Says(envs[1]) = Says(Snapshot)
              /\ \A i \in 2..Len(envs) : Told(envs[i], d)
              /\ \A i \in DOMAIN d.diffs : d.diffs[i].severity # "info" =>
                     /\ Says(Alert(d.diffs[i])) \in Said(envs)
                     /\ Station(d.diffs[i].agent) # {} =>
                            Says(Update(d.diffs[i])) \in Said(envs)
<1>1. PICK p : p = Parts(d)  OBVIOUS
<1>2. /\ Listed(p)
      /\ \A e : e \in ToSet(p) <=> \E i \in DOMAIN d.diffs : e \in ToSet(PartOf(d.diffs[i]))
  BY <1>1, PartsHold
<1>3. \A e \in ToSet(p) :
          /\ e \in Envelopes
          /\ Told(e, d)
  <2> TAKE e \in ToSet(p)
  <2>1. PICK i \in DOMAIN d.diffs : e \in ToSet(PartOf(d.diffs[i]))  BY <1>2
  <2>2. PICK diff : diff = d.diffs[i]  OBVIOUS
  <2>3. \/ e = Log
        \/ diff.severity # "info" /\ e = Alert(diff)
        \/ diff.severity # "info" /\ Station(diff.agent) # {} /\ e = Update(diff)
    BY <2>1, <2>2, PartHolds
  <2>4. e \in Envelopes  BY <2>3, SnapshotsTyped, AlertsTyped
  <2>5. Update(diff).num = <<1>>  BY DEF Update, Env
  <2> QED  BY <2>2, <2>3, <2>4, <2>5 DEF Told
<1>4. PICK m \in Nat : m = Len(p) /\ DOMAIN p = 1..m  BY <1>2 DEF Listed
<1>5. \A i \in 1..m : p[i] \in ToSet(p)  BY <1>4 DEF ToSet
<1>6. p \in Seq(Envelopes)
  <2>1. PICK S : p \in Seq(S)  BY <1>2 DEF Listed
  <2>2. \A i \in DOMAIN p : p[i] \in Envelopes  BY <1>3, <1>4, <1>5
  <2> QED  BY <2>1, <2>2
<1>7. PICK h : h = <<Snapshot, Log>>  OBVIOUS
<1>8. h \in Seq(Envelopes) /\ Len(h) = 2 /\ h[1] = Snapshot /\ h[2] = Log
  BY <1>7, SnapshotsTyped
<1>9. PICK f \in Seq(Envelopes) :
          /\ f = h \o p /\ Len(f) = 2 + m
          /\ \A i \in 1..2 : f[i] = h[i]
          /\ \A i \in 3..(2 + m) : f[i] = p[i - 2]
  <2>1. PICK k \in Nat : k = Len(h) /\ k = 2  BY <1>8
  <2>2. h \in Seq(Envelopes) /\ p \in Seq(Envelopes) /\ Len(p) = m /\ Len(h) = k
    BY <1>4, <1>6, <1>8, <2>1
  <2>3. PICK f : f = h \o p  OBVIOUS
  <2>4. /\ f \in Seq(Envelopes) /\ Len(f) = k + m
        /\ \A i \in 1..k : f[i] = h[i]
        /\ \A i \in (k + 1)..(k + m) : f[i] = p[i - k]
    <3>1. PICK E : E = Envelopes  OBVIOUS
    <3>2. h \in Seq(E) /\ p \in Seq(E)  BY <2>2, <3>1
    <3>3. /\ f \in Seq(E) /\ Len(f) = Len(h) + Len(p)
          /\ \A i \in 1..(Len(h) + Len(p)) :
                 f[i] = IF i <= Len(h) THEN h[i] ELSE p[i - Len(h)]
      BY <2>3, <3>2, ConcatProperties
    <3>4. \A i \in 1..(k + m) : f[i] = IF i <= k THEN h[i] ELSE p[i - k]
      BY <2>2, <3>3
    <3> QED  BY <2>2, <3>1, <3>3, <3>4
  <2>5. \A i \in 3..(2 + m) : f[i] = p[i - 2]  BY <2>1, <2>4
  <2> QED  BY <2>1, <2>3, <2>4, <2>5
<1>10. PICK w : w = Stamped(f, 0)  OBVIOUS
<1>11. w = [i \in 1..(2 + m) |-> [f[i] EXCEPT !.seq = 0 + i]]
  <2>1. DOMAIN f = 1..(2 + m)  BY <1>9
  <2>2. w = [i \in DOMAIN f |-> [f[i] EXCEPT !.seq = 0 + i]]  BY <1>10, Zenon DEF Stamped
  <2> QED  BY <2>1, <2>2
<1>12. ASSUME NEW i \in 1..(2 + m)
       PROVE  w[i] \in Envelopes /\ Says(w[i]) = Says(f[i]) /\ w[i].num = f[i].num
  <2>1. f[i] \in Envelopes  BY <1>9
  <2>2. w[i] = [f[i] EXCEPT !.seq = i] /\ i \in Nat  BY <1>11
  <2> QED  BY <2>1, <2>2 DEF Envelopes, Says
<1>13. w \in Seq(Envelopes) /\ Len(w) = 2 + m
  <2>1. w \in [1..(2 + m) -> Envelopes]  BY <1>11, <1>12
  <2> QED  BY <2>1
<1>14. Overlay(d) = w  BY <1>1, <1>7, <1>9, <1>10, OverlayStamped
<1>15. Says(w[1]) = Says(Snapshot)  BY <1>8, <1>9, <1>12
<1>16. \A i \in 2..Len(w) : Told(w[i], d)
  <2> TAKE i \in 2..Len(w)
  <2>1. i \in 1..(2 + m)  BY <1>13
  <2>2. Says(w[i]) = Says(f[i]) /\ w[i].num = f[i].num  BY <1>12, <2>1
  <2>3. Told(f[i], d)
    <3>1. CASE i = 2
      <4>1. f[i] = Log  BY <1>8, <1>9, <3>1
      <4> QED  BY <4>1 DEF Told
    <3>2. CASE i # 2
      <4>1. i \in 3..(2 + m) /\ i - 2 \in 1..m  BY <1>13, <3>2
      <4>2. f[i] = p[i - 2] /\ p[i - 2] \in ToSet(p)  BY <1>5, <1>9, <4>1
      <4> QED  BY <1>3, <4>2
    <3> QED  BY <3>1, <3>2
  <2> QED  BY <2>2, <2>3 DEF Told
<1>17. \A e \in ToSet(p) : Says(e) \in Said(w)
  <2> TAKE e \in ToSet(p)
  <2>1. PICK i \in 1..m : e = p[i]  BY <1>4 DEF ToSet
  <2>2. i + 2 \in 1..(2 + m) /\ i + 2 \in 3..(2 + m) /\ (i + 2) - 2 = i  OBVIOUS
  <2>3. f[i + 2] = e  BY <1>9, <2>1, <2>2
  <2>4. Says(w[i + 2]) = Says(e)  BY <1>12, <2>2, <2>3
  <2>5. i + 2 \in DOMAIN w  BY <1>11, <2>2
  <2>6. w[i + 2] \in ToSet(w)  BY <2>5 DEF ToSet
  <2> QED  BY <2>4, <2>6 DEF Said
<1>18. \A i \in DOMAIN d.diffs : d.diffs[i].severity # "info" =>
           /\ Alert(d.diffs[i]) \in ToSet(p)
           /\ Station(d.diffs[i].agent) # {} => Update(d.diffs[i]) \in ToSet(p)
  BY <1>2, PartHolds
<1>19. \A i \in DOMAIN d.diffs : d.diffs[i].severity # "info" =>
           /\ Says(Alert(d.diffs[i])) \in Said(w)
           /\ Station(d.diffs[i].agent) # {} => Says(Update(d.diffs[i])) \in Said(w)
  BY <1>17, <1>18
<1>20. Len(w) > 0  BY <1>13
<1> QED  BY <1>13, <1>14, <1>15, <1>16, <1>19, <1>20, Zenon

-----------------------------------------------------------------------------
(* Folds: FoldLeft is a function on the sets of places, the last taken last *)

\* What a set of places is without the last of them.
LEMMA LastRemoved ==
    ASSUME NEW n \in Nat, NEW s \in SUBSET (1..n)
    PROVE  /\ IsFiniteSet(s) /\ Cardinality(s) \in Nat
           /\ Cardinality(s) = 0 <=> s = {}
           /\ s # {} => /\ Max(s) \in 1..n
                        /\ s \ {Max(s)} \in SUBSET (1..n)
                        /\ Cardinality(s \ {Max(s)}) = Cardinality(s) - 1
<1>1. IsFiniteSet(s) /\ Cardinality(s) \in Nat
  <2>1. IsFiniteSet(1..n)  BY FS_Interval
  <2> QED  BY <2>1, FS_Subset, FS_CardinalityType
<1>2. Cardinality(s) = 0 <=> s = {}  BY <1>1, FS_EmptySet
<1>3. ASSUME s # {}
      PROVE  /\ Max(s) \in 1..n
             /\ s \ {Max(s)} \in SUBSET (1..n)
             /\ Cardinality(s \ {Max(s)}) = Cardinality(s) - 1
  <2>0. s \in SUBSET (0..n)  OBVIOUS
  <2>1. Max(s) \in s  BY <1>3, <2>0, MaxBounds
  <2>2. Cardinality(s \ {Max(s)}) = Cardinality(s) - 1  BY <1>1, <2>1, FS_RemoveElement
  <2> QED  BY <2>1, <2>2
<1> QED  BY <1>1, <1>2, <1>3

\* g folds s by the step F, wherever the results before are in T.
Folds(g, T, F, s, base) ==
    /\ g[{}] = base
    /\ \A p \in SUBSET (1..Len(s)) :
           p # {} /\ g[p \ {Max(p)}] \in T => g[p] = F[<<g[p \ {Max(p)}], s[Max(p)]>>]

\* t holds the results after each of the elements, of which the fold g is the last.
Folded(t, T, F, s, base, g) ==
    /\ t \in [0..Len(s) -> T] /\ t[0] = base
    /\ \A i \in 1..Len(s) : t[i] = F[<<t[i - 1], s[i]>>]
    /\ t[Len(s)] = g[1..Len(s)]

\* Such a function exists for any step F that stays within T.
LEMMA FoldExists ==
    ASSUME NEW T, NEW A, NEW F \in [T \X A -> T], NEW s \in Seq(A), NEW base \in T
    PROVE  \E g \in [SUBSET (1..Len(s)) -> T] : Folds(g, T, F, s, base)
<1>1. PICK n \in Nat : n = Len(s)  OBVIOUS
<1> DEFINE then(g, p) == F[<<g[p \ {Max(p)}], s[Max(p)]>>]
           UpTo(k) == {g \in [SUBSET (1..n) -> T] : \A p \in SUBSET (1..n) :
                          Cardinality(p) <= k => g[p] = IF p = {} THEN base ELSE then(g, p)}
           Ns == {k \in Nat : UpTo(k) # {}}
<1>2. 0 \in Ns
  <2>1. [p \in SUBSET (1..n) |-> base] \in [SUBSET (1..n) -> T]  OBVIOUS
  <2>2. ASSUME NEW p \in SUBSET (1..n), Cardinality(p) <= 0
        PROVE  p = {}
    <3>1. Cardinality(p) \in Nat /\ (Cardinality(p) = 0 => p = {})  BY LastRemoved
    <3> QED  BY <2>2, <3>1
  <2>3. [p \in SUBSET (1..n) |-> base] \in UpTo(0)  BY <2>1, <2>2
  <2> QED  BY <2>3
<1>3. ASSUME NEW k \in Nat, k \in Ns
      PROVE  k + 1 \in Ns
  <2>1. PICK g : g \in UpTo(k)  BY <1>3
  <2>2. /\ g \in [SUBSET (1..n) -> T]
        /\ \A p \in SUBSET (1..n) : Cardinality(p) <= k =>
               g[p] = IF p = {} THEN base ELSE then(g, p)
    BY <2>1
  <2> DEFINE h == [p \in SUBSET (1..n) |-> IF p = {} THEN base ELSE then(g, p)]
  <2>3. ASSUME NEW p \in SUBSET (1..n), p # {}
        PROVE  then(g, p) \in T
    <3>1. Max(p) \in 1..n /\ p \ {Max(p)} \in SUBSET (1..n)  BY <2>3, LastRemoved
    <3>2. g[p \ {Max(p)}] \in T /\ s[Max(p)] \in A  BY <1>1, <2>2, <3>1
    <3> QED  BY <3>2
  <2> HIDE DEF then
  <2>4. h \in [SUBSET (1..n) -> T]  BY <2>3
  <2>5. ASSUME NEW p \in SUBSET (1..n), Cardinality(p) <= k
        PROVE  h[p] = g[p]
    BY <2>2, <2>5
  <2>6. ASSUME NEW p \in SUBSET (1..n), Cardinality(p) <= k + 1, p # {}
        PROVE  h[p] = then(h, p)
    <3>1. /\ p \ {Max(p)} \in SUBSET (1..n) /\ Cardinality(p) \in Nat
          /\ Cardinality(p \ {Max(p)}) = Cardinality(p) - 1
      BY <2>6, LastRemoved
    <3>2. Cardinality(p) - 1 <= k  BY <2>6, <3>1
    <3>3. Cardinality(p \ {Max(p)}) <= k  BY <3>1, <3>2
    <3>4. h[p \ {Max(p)}] = g[p \ {Max(p)}]  BY <2>5, <3>1, <3>3
    <3>5. then(h, p) = then(g, p)  BY <3>4 DEF then
    <3> QED  BY <2>6, <3>5
  <2>7. h[{}] = base  OBVIOUS
  <2> HIDE DEF h
  <2>8. h \in UpTo(k + 1)  BY <2>4, <2>6, <2>7
  <2>9. UpTo(k + 1) # {}  BY <2>8
  <2> HIDE DEF UpTo
  <2> QED  BY <2>9
<1> HIDE DEF Ns
<1>4. n \in Ns  BY <1>2, <1>3, NatSetInduction
<1>5. PICK g : g \in UpTo(n)  BY <1>4 DEF Ns
<1>6. \A p \in SUBSET (1..n) : Cardinality(p) <= n
  <2>1. IsFiniteSet(1..n) /\ Cardinality(1..n) = n  BY FS_Interval
  <2> QED  BY <2>1, FS_Subset
<1>7. g \in [SUBSET (1..n) -> T]  BY <1>5
<1>8. \A p \in SUBSET (1..n) : g[p] = IF p = {} THEN base ELSE then(g, p)
  BY <1>5, <1>6
<1>9. g[{}] = base  BY <1>8
<1> QED  BY <1>1, <1>7, <1>8, <1>9 DEF Folds

\* What any such function, even one defined by a step that is not confined to T,
\* makes of the first places, of the first two, and so on.
LEMMA FoldRuns ==
    ASSUME NEW T, NEW A, NEW F \in [T \X A -> T], NEW s \in Seq(A), NEW base \in T,
           NEW g, Folds(g, T, F, s, base)
    PROVE  \E t : Folded(t, T, F, s, base, g)
<1>1. PICK n \in Nat : n = Len(s)  OBVIOUS
<1> DEFINE t == [k \in 0..n |-> g[1..k]]
           Ns == {k \in Nat : k <= n => t[k] \in T}
<1>2. t[0] = base
  <2>1. 1..0 = {} /\ 0 \in 0..n  OBVIOUS
  <2>2. g[1..0] = base  BY <2>1 DEF Folds
  <2> QED  BY <2>1, <2>2
<1>3. ASSUME NEW k \in 1..n, t[k - 1] \in T
      PROVE  t[k] = F[<<t[k - 1], s[k]>>]
  <2>1. PICK p \in SUBSET (1..n) : p = 1..k  OBVIOUS
  <2>2. k \in p /\ \A i \in p : i <= k  BY <2>1
  <2>3. Max(p) \in p /\ \A i \in p : i <= Max(p)
    <3>1. 1..n \subseteq 0..n  OBVIOUS
    <3>2. p \in SUBSET (0..n) /\ p # {}  BY <2>1, <2>2, <3>1
    <3> QED  BY <3>2, MaxBounds
  <2>4. Max(p) = k  BY <2>1, <2>2, <2>3
  <2>5. p \ {k} = 1..(k - 1)  BY <2>1
  <2>6. k - 1 \in 0..n /\ k \in 0..n  OBVIOUS
  <2>7. g[1..(k - 1)] \in T  BY <1>3, <2>6
  <2>8. g[p] = F[<<g[1..(k - 1)], s[k]>>]  BY <1>1, <2>2, <2>4, <2>5, <2>7 DEF Folds
  <2> QED  BY <2>1, <2>6, <2>8
<1> HIDE DEF t
<1>4. 0 \in Ns  BY <1>2
<1>5. ASSUME NEW k \in Nat, k \in Ns
      PROVE  k + 1 \in Ns
  <2>1. ASSUME k + 1 <= n
        PROVE  t[k + 1] \in T
    <3>1. k + 1 \in 1..n /\ (k + 1) - 1 = k /\ t[k] \in T  BY <1>5, <2>1
    <3>2. s[k + 1] \in A  BY <1>1, <3>1
    <3>3. t[k + 1] = F[<<t[k], s[k + 1]>>]  BY <1>3, <3>1
    <3> QED  BY <3>1, <3>2, <3>3
  <2> QED  BY <2>1
<1> HIDE DEF Ns
<1>6. Nat \subseteq Ns  BY <1>4, <1>5, NatSetInduction
<1>7. \A k \in 0..n : t[k] \in T  BY <1>6 DEF Ns
<1>8. t \in [0..n -> T]  BY <1>7 DEF t
<1>9. \A i \in 1..n : t[i] = F[<<t[i - 1], s[i]>>]
  <2> TAKE i \in 1..n
  <2>1. i - 1 \in 0..n  OBVIOUS
  <2> QED  BY <1>3, <1>7, <2>1
<1>10. t[n] = g[1..n]  BY DEF t
<1>11. Folded(t, T, F, s, base, g)  BY <1>1, <1>2, <1>8, <1>9, <1>10 DEF Folded
<1> QED  BY <1>11

-----------------------------------------------------------------------------
(* What a console shows                                                    *)

States == {"", "busy", "idle", "drain", "dispatched", "returning", "critical", "warning",
           "docked"}
\* An envelope's number, and what Head makes of one that has none.
Numbers == Nat \cup {Head(<<>>)}
Marks == [state : States, rev : Numbers]
Models == [station : [Stations -> Marks], agent : [Stations -> Marks],
           tasks : SUBSET Numbers, metrics : Seq(Nat)]

LEMMA NumberOf ==
    ASSUME NEW env \in Envelopes
    PROVE  Head(env.num) \in Numbers
<1>1. env.num \in Seq(Nat)  BY DEF Envelopes
<1>2. CASE env.num = <<>>  BY <1>2 DEF Numbers
<1>3. CASE env.num # <<>>  BY <1>1, <1>3 DEF Numbers
<1> QED  BY <1>2, <1>3

LEMMA HydratedTyped == Hydrated \in Models
<1>1. [state |-> "idle", rev |-> 0] \in Marks /\ [state |-> "docked", rev |-> 0] \in Marks
  BY DEF Marks, States, Numbers
<1>2. <<0, 0>> \in Seq(Nat)  OBVIOUS
<1> QED  BY <1>1, <1>2 DEF Hydrated, Models

LEMMA NewerTyped ==
    ASSUME NEW old \in Marks, NEW env \in Envelopes
    PROVE  Newer(old, env) \in Marks
<1>1. Head(env.num) \in Numbers  BY NumberOf
<1>2. env.state \in States  BY DEF Envelopes, States
<1>3. [state |-> env.state, rev |-> Head(env.num)] \in Marks  BY <1>1, <1>2 DEF Marks
<1> QED  BY <1>3 DEF Newer

LEMMA RouteTyped ==
    ASSUME NEW m \in Models, NEW env \in Envelopes
    PROVE  Route(m, env) \in Models
<1> DEFINE s == CHOOSE x \in env.at : TRUE
<1>1. /\ m.station \in [Stations -> Marks] /\ m.agent \in [Stations -> Marks]
      /\ m.tasks \subseteq Numbers /\ m.metrics \in Seq(Nat)
  BY DEF Models
<1>2. PICK n \in Numbers : n = Head(env.num)  BY NumberOf
<1>3. CASE env.type = "snapshot"  BY <1>3, HydratedTyped DEF Route
<1>4. CASE env.type = "agent.updated"
  <2>1. \A x \in Stations : Newer(m.agent[x], env) \in Marks  BY <1>1, NewerTyped
  <2>2. PICK a : a = [m.agent EXCEPT ![s] = Newer(m.agent[s], env)]  OBVIOUS
  <2>3. a \in [Stations -> Marks]  BY <1>1, <2>1, <2>2
  <2>4. Route(m, env) = [m EXCEPT !.agent = a]  BY <1>4, <2>2 DEF Route
  <2> QED  BY <2>3, <2>4 DEF Models
<1>5. CASE env.type = "station.updated"
  <2>1. \A x \in Stations : Newer(m.station[x], env) \in Marks  BY <1>1, NewerTyped
  <2>2. PICK a : a = [m.station EXCEPT ![s] = Newer(m.station[s], env)]  OBVIOUS
  <2>3. a \in [Stations -> Marks]  BY <1>1, <2>1, <2>2
  <2>4. Route(m, env) = [m EXCEPT !.station = a]  BY <1>5, <2>2 DEF Route
  <2> QED  BY <2>3, <2>4 DEF Models
<1>6. CASE env.type \in {"task.enqueued", "task.assigned"}
  <2>1. Route(m, env) = [m EXCEPT !.tasks = @ \cup {n}]  BY <1>2, <1>6 DEF Route
  <2>2. m.tasks \cup {n} \in SUBSET Numbers  BY <1>1
  <2> QED  BY <2>1, <2>2 DEF Models
<1>7. CASE env.type \in {"task.completed", "task.failed"}
  <2>1. Route(m, env) = [m EXCEPT !.tasks = @ \ {n}]  BY <1>2, <1>7 DEF Route
  <2>2. m.tasks \ {n} \in SUBSET Numbers  BY <1>1
  <2> QED  BY <2>1, <2>2 DEF Models
<1>8. CASE env.type = "metrics.tick"
  <2>1. Route(m, env) = [m EXCEPT !.metrics = env.num] /\ env.num \in Seq(Nat)
    BY <1>8 DEF Route, Envelopes
  <2> QED  BY <2>1 DEF Models
<1>9. CASE env.type \in {"log.appended", "alert.raised"}  BY <1>9 DEF Route
<1> QED  BY <1>3, <1>4, <1>5, <1>6, <1>7, <1>8, <1>9 DEF Envelopes

\* The equation of Shown's fold.
Shows(g, envs) ==
    g = [s \in SUBSET DOMAIN envs |->
            IF s = {} THEN Hydrated ELSE Route(g[s \ {Max(s)}], envs[Max(s)])]

\* What is shown is the result of the last envelope.
InOrder(t, envs) ==
    /\ t \in [0..Len(envs) -> Models] /\ t[0] = Hydrated
    /\ \A i \in 1..Len(envs) : t[i] = Route(t[i - 1], envs[i])
    /\ t[Len(envs)] = Shown(envs)

LEMMA ShownInOrder ==
    ASSUME NEW envs \in Seq(Envelopes)
    PROVE  \E t : InOrder(t, envs)
<1>1. PICK n \in Nat : n = Len(envs) /\ DOMAIN envs = 1..n  OBVIOUS
<1>2. PICK F : F = [p \in Models \X Envelopes |-> Route(p[1], p[2])]  OBVIOUS
<1>3. /\ F \in [Models \X Envelopes -> Models]
      /\ \A m \in Models, env \in Envelopes : F[<<m, env>>] = Route(m, env)
  BY <1>2, RouteTyped
<1>4. \A p \in SUBSET (1..n) : p # {} => /\ p \ {Max(p)} \in SUBSET (1..n)
                                         /\ envs[Max(p)] \in Envelopes
  <2> TAKE p \in SUBSET (1..n)
  <2>1. p \ {Max(p)} \in SUBSET (1..n)  OBVIOUS
  <2>2. p # {} => Max(p) \in 1..n  BY LastRemoved
  <2>3. \A i \in 1..n : envs[i] \in Envelopes  BY <1>1
  <2> QED  BY <2>1, <2>2, <2>3
<1>5. PICK base \in Models : base = Hydrated  BY HydratedTyped
<1>6. \E g : Shows(g, envs)
  <2>1. PICK g \in [SUBSET (1..Len(envs)) -> Models] : Folds(g, Models, F, envs, base)
    BY <1>3, FoldExists
  <2>2. \A p \in SUBSET (1..n) :
            g[p] = IF p = {} THEN Hydrated ELSE Route(g[p \ {Max(p)}], envs[Max(p)])
    BY <1>1, <1>3, <1>4, <1>5, <2>1 DEF Folds
  <2>3. g = [p \in SUBSET (1..n) |-> g[p]]  BY <1>1
  <2>4. Shows(g, envs)  BY <1>1, <2>2, <2>3 DEF Shows
  <2> QED  BY <2>4
<1> DEFINE all == CHOOSE g : Shows(g, envs)
<1>7. Shows(all, envs)  BY <1>6
<1>8. Shown(envs) = all[1..n]
  BY <1>1 DEF Shown, FoldLeft, MapThenFoldSet, Shows
<1>9. PICK g : g = all  OBVIOUS
<1> HIDE DEF all
<1>10. \A p \in SUBSET (1..n) :
           g[p] = IF p = {} THEN Hydrated ELSE Route(g[p \ {Max(p)}], envs[Max(p)])
  BY <1>1, <1>7, <1>9 DEF Shows
<1>11. g[{}] = base  BY <1>5, <1>10
<1>12. Folds(g, Models, F, envs, base)
  <2>1. \A p \in SUBSET (1..n) : p # {} /\ g[p \ {Max(p)}] \in Models =>
            g[p] = F[<<g[p \ {Max(p)}], envs[Max(p)]>>]
    BY <1>3, <1>4, <1>10
  <2> QED  BY <1>1, <1>11, <2>1 DEF Folds
<1>13. PICK t : Folded(t, Models, F, envs, base, g)
  BY <1>3, <1>12, FoldRuns
<1>14. \A i \in 1..n : t[i] = Route(t[i - 1], envs[i])
  <2> TAKE i \in 1..n
  <2>1. i - 1 \in 0..n  OBVIOUS
  <2>2. t[i - 1] \in Models /\ envs[i] \in Envelopes  BY <1>1, <1>13, <2>1 DEF Folded
  <2> QED  BY <1>1, <1>3, <1>13, <2>2 DEF Folded
<1>15. InOrder(t, envs)  BY <1>1, <1>5, <1>8, <1>9, <1>13, <1>14 DEF Folded, InOrder
<1> QED  BY <1>15

\* What one envelope of an overlay does to a station.
LEMMA StationTold ==
    ASSUME NEW d, NEW m \in Models, NEW e \in Envelopes, Told(e, d), NEW s \in Stations
    PROVE  Route(m, e).station[s] =
               IF e.type = "station.updated" /\ e.at = {s} THEN Newer(m.station[s], e)
               ELSE m.station[s]
<1>1. m.station \in [Stations -> Marks]  BY DEF Models
<1>2. CASE Says(e) = Says(Log)
  <2>1. e.type = "log.appended"  BY <1>2 DEF Says, Log, Env
  <2> QED  BY <2>1 DEF Route
<1>3. ASSUME NEW diff, Says(e) = Says(Alert(diff))
      PROVE  Route(m, e) = m /\ e.type = "alert.raised"
  <2>1. e.type = "alert.raised"  BY <1>3 DEF Says, Alert, Env
  <2> QED  BY <2>1 DEF Route
<1>4. ASSUME NEW diff, Station(diff.agent) # {}, Says(e) = Says(Update(diff))
      PROVE  Route(m, e).station[s] =
                 IF e.at = {s} THEN Newer(m.station[s], e) ELSE m.station[s]
  <2>1. e.type = "station.updated" /\ e.at = Station(diff.agent)
    BY <1>4 DEF Says, Update, Env
  <2>2. PICK x \in Stations : e.at = {x}  BY <1>4, <2>1 DEF Station
  <2>3. (CHOOSE y \in e.at : TRUE) = x  BY <2>2
  <2>4. Route(m, e) = [m EXCEPT !.station[x] = Newer(@, e)]  BY <2>1, <2>3 DEF Route
  <2>5. PICK st : st = m.station  OBVIOUS
  <2>6. Route(m, e).station = [st EXCEPT ![x] = Newer(st[x], e)]
    BY <2>4, <2>5 DEF Models
  <2> QED  BY <1>1, <2>2, <2>5, <2>6
<1>5. ASSUME NEW diff, Says(e) = Says(Update(diff))
      PROVE  e.type = "station.updated"
  BY <1>5 DEF Says, Update, Env
<1> QED  BY <1>2, <1>3, <1>4, <1>5 DEF Told, Says, Log, Env

\* The console keeps the first state it is told of a station.
LEMMA StationShown ==
    ASSUME NEW d, Compared(d), NEW s \in Stations, NEW w, w = Overlay(d)
    PROVE  \/ /\ Shown(w).station[s].state = "idle"
              /\ \A e \in ToSet(w) : ~(e.type = "station.updated" /\ e.at = {s})
           \/ <<"station.updated", {s}, Shown(w).station[s].state>> \in Said(w)
<1>1. PICK n \in Nat : n = Len(w) /\ n > 0 /\ DOMAIN w = 1..n /\ w \in Seq(Envelopes)
  BY OverlayHolds
<1>2. Says(w[1]) = Says(Snapshot) /\ \A i \in 2..n : Told(w[i], d)
  BY <1>1, OverlayHolds
<1>3. PICK t : InOrder(t, w)  BY <1>1, ShownInOrder
<1>4. /\ \A i \in 0..n : t[i] \in Models
      /\ \A i \in 1..n : t[i] = Route(t[i - 1], w[i])
      /\ t[n] = Shown(w)
  BY <1>1, <1>3 DEF InOrder
<1>5. \A i \in 1..n : w[i] \in Envelopes /\ w[i] \in ToSet(w)
  BY <1>1 DEF ToSet
<1> DEFINE Untold(k) == /\ t[k].station[s] = [state |-> "idle", rev |-> 0]
                        /\ \A i \in 1..k : ~(w[i].type = "station.updated" /\ w[i].at = {s})
           First(k) == /\ t[k].station[s].rev = 1
                       /\ <<"station.updated", {s}, t[k].station[s].state>> \in Said(w)
           Ns == {k \in Nat : k + 1 <= n => Untold(k + 1) \/ First(k + 1)}
<1>6. 0 \in Ns
  <2>1. w[1].type = "snapshot"  BY <1>2 DEF Says, Snapshot, Env
  <2>2. 1 \in 1..n /\ 1..1 = {1}  BY <1>1
  <2>3. t[1] = Hydrated  BY <1>4, <2>1, <2>2 DEF Route
  <2>4. t[1].station[s] = [state |-> "idle", rev |-> 0]  BY <2>3 DEF Hydrated
  <2>5. Untold(1)  BY <2>1, <2>2, <2>4
  <2> QED  BY <2>5
<1>7. ASSUME NEW k \in Nat, k \in Ns
      PROVE  k + 1 \in Ns
  <2> SUFFICES ASSUME (k + 1) + 1 <= n
               PROVE  Untold((k + 1) + 1) \/ First((k + 1) + 1)
    OBVIOUS
  <2>1. PICK j \in Nat : j = k + 1  OBVIOUS
  <2>2. /\ j \in 0..n /\ j + 1 \in 1..n /\ (j + 1) - 1 = j /\ j + 1 \in 2..n
        /\ 1..(j + 1) = 1..j \cup {j + 1}
    BY <2>1
  <2>3. Untold(j) \/ First(j)  BY <1>7, <2>1
  <2>4. PICK e \in Envelopes : e = w[j + 1]  BY <1>5, <2>2
  <2>5. PICK m \in Models : m = t[j]  BY <1>4, <2>2
  <2>6. t[j + 1] = Route(m, e)  BY <1>4, <2>2, <2>4, <2>5
  <2>7. Told(e, d) /\ e \in ToSet(w)  BY <1>2, <1>5, <2>2, <2>4
  <2>8. t[j + 1].station[s] =
            IF e.type = "station.updated" /\ e.at = {s} THEN Newer(m.station[s], e)
            ELSE m.station[s]
    BY <2>6, <2>7, StationTold
  <2>9. CASE e.type = "station.updated" /\ e.at = {s}
    <3>1. e.num = <<1>>
      BY <2>7, <2>9 DEF Told, Says, Log, Alert, Env
    <3>2. Head(e.num) = 1  BY <3>1
    <3>3. t[j + 1].station[s] = Newer(m.station[s], e)  BY <2>8, <2>9
    <3>4. CASE Untold(j)
      <4>1. m.station[s] = [state |-> "idle", rev |-> 0]  BY <2>5, <3>4
      <4>2. t[j + 1].station[s] = [state |-> e.state, rev |-> 1]
        BY <3>2, <3>3, <4>1 DEF Newer
      <4>3. Says(e) = <<"station.updated", {s}, e.state>>  BY <2>9 DEF Says
      <4>4. Says(e) \in Said(w)  BY <2>7 DEF Said
      <4>5. First(j + 1)  BY <4>2, <4>3, <4>4
      <4> QED  BY <2>1, <4>5
    <3>5. CASE First(j)
      <4>1. m.station[s].rev = 1  BY <2>5, <3>5
      <4>2. t[j + 1].station[s] = m.station[s]  BY <3>2, <3>3, <4>1 DEF Newer
      <4>3. First(j + 1)  BY <2>5, <3>5, <4>2
      <4> QED  BY <2>1, <4>3
    <3> QED  BY <2>3, <3>4, <3>5
  <2>10. CASE ~(e.type = "station.updated" /\ e.at = {s})
    <3>1. t[j + 1].station[s] = t[j].station[s]  BY <2>5, <2>8, <2>10
    <3>2. Untold(j) => Untold(j + 1)  BY <2>2, <2>4, <2>10, <3>1
    <3>3. First(j) => First(j + 1)  BY <3>1
    <3> QED  BY <2>1, <2>3, <3>2, <3>3
  <2> QED  BY <2>9, <2>10
<1> HIDE DEF Ns
<1>8. n - 1 \in Nat /\ (n - 1) + 1 = n  BY <1>1
<1>9. n - 1 \in Ns  BY <1>6, <1>7, <1>8, NatSetInduction
<1>10. Untold(n) \/ First(n)  BY <1>8, <1>9 DEF Ns
<1>11. ASSUME Untold(n), NEW e \in ToSet(w)
       PROVE  ~(e.type = "station.updated" /\ e.at = {s})
  <2>1. PICK i \in 1..n : e = w[i]  BY <1>1 DEF ToSet
  <2> QED  BY <1>11, <2>1
<1> QED  BY <1>4, <1>10, <1>11

\* The ring of a station is one of its alerts.
LEMMA RingIsAlert ==
    ASSUME NEW envs \in Seq(Envelopes), NEW s
    PROVE  \/ /\ Ring(envs, s) = "none"
              /\ \A e \in ToSet(envs) : ~(e.type = "alert.raised" /\ e.at = {s})
           \/ <<"alert.raised", {s}, Ring(envs, s)>> \in Said(envs)
<1>1. PICK n \in Nat : n = Len(envs) /\ DOMAIN envs = 1..n  OBVIOUS
<1>2. PICK I : I = {i \in 1..n : envs[i].type = "alert.raised" /\ envs[i].at = {s}}  OBVIOUS
<1>3. PICK last : last = IF I = {} THEN 0 ELSE Max(I)  OBVIOUS
<1>4. SelectLastInSeq(envs, LAMBDA e : e.type = "alert.raised" /\ e.at = {s}) = last
  <2>1. I = {i \in 1..Len(envs) : envs[i].type = "alert.raised" /\ envs[i].at = {s}}
    BY <1>1, <1>2
  <2> QED  BY <1>3, <2>1 DEF SelectLastInSeq
<1>5. Ring(envs, s) = IF last = 0 THEN "none" ELSE envs[last].state
  BY <1>4 DEF Ring
<1>6. CASE I = {}
  <2>1. Ring(envs, s) = "none"  BY <1>3, <1>5, <1>6
  <2>2. \A e \in ToSet(envs) : ~(e.type = "alert.raised" /\ e.at = {s})
    BY <1>1, <1>2, <1>6 DEF ToSet
  <2> QED  BY <2>1, <2>2
<1>7. CASE I # {}
  <2>1. I \in SUBSET (0..n)  BY <1>2
  <2>2. last \in I  BY <1>3, <1>7, <2>1, MaxBounds
  <2>3. last # 0 /\ last \in DOMAIN envs  BY <1>1, <1>2, <2>2
  <2>4. envs[last].type = "alert.raised" /\ envs[last].at = {s}  BY <1>2, <2>2
  <2>5. Ring(envs, s) = envs[last].state  BY <1>5, <2>3
  <2>6. envs[last] \in ToSet(envs)  BY <2>3 DEF ToSet
  <2>7. Says(envs[last]) = <<"alert.raised", {s}, Ring(envs, s)>>  BY <2>4, <2>5 DEF Says
  <2> QED  BY <2>6, <2>7 DEF Said
<1> QED  BY <1>6, <1>7

LEMMA RunsCompared ==
    ASSUME NEW b \in Directories, NEW c \in Directories, NEW d, d = DiffRuns(b, c)
    PROVE  /\ Compared(d)
           /\ d.verdict = "regression" <=>
                  \E i \in DOMAIN d.diffs : d.diffs[i].severity = "regression"
           /\ d.verdict = "pass" \/ ~Comparable(b, c) <=>
                  \A i \in DOMAIN d.diffs : d.diffs[i].severity = "info"
<1>1. Readable(b) /\ Readable(c)  BY DirectoryReadable
<1>3. CASE ~Comparable(b, c)
  <2>1. d.diffs = <<>> /\ d.verdict = "inconclusive"  BY <1>3 DEF DiffRuns
  <2>2. DOMAIN <<>> = 1..0 /\ 0 \in Nat /\ 1..0 = {}  OBVIOUS
  <2>3. Compared(d)  BY <2>1, <2>2 DEF Compared
  <2>4. DOMAIN d.diffs = {}  BY <2>1, <2>2
  <2> QED  BY <1>3, <2>1, <2>3, <2>4
<1>4. CASE Comparable(b, c)
  <2>1. PICK all : all = AllDiffs(b, c)  OBVIOUS
  <2>2. d.diffs = all /\ d.verdict = Worst({all[i].severity : i \in DOMAIN all}, "pass")
    BY <1>4, <2>1 DEF DiffRuns, AllDiffs
  <2>3. Listed(all) /\ \A x \in ToSet(all) : Voiced(x)
    BY <1>1, <2>1, AllListed, AllVoiced
  <2>4. PICK n \in Nat : DOMAIN all = 1..n  BY <2>3 DEF Listed
  <2>5. \A i \in 1..n : Voiced(all[i])  BY <2>3, <2>4 DEF ToSet
  <2>6. Compared(d)  BY <2>2, <2>4, <2>5 DEF Compared
  <2>7. PICK said : said = {all[i].severity : i \in DOMAIN all}  OBVIOUS
  <2>8. said \subseteq {"regression", "warning", "inconclusive", "info"}
    BY <2>4, <2>5, <2>7 DEF Voiced
  <2>9. d.verdict = "regression" <=> "regression" \in said
    BY <2>2, <2>7, WorstIsRegression
  <2>10. d.verdict = "pass" <=> said \subseteq {"info"}
    BY <2>2, <2>7, <2>8 DEF Worst
  <2> QED  BY <1>4, <2>2, <2>6, <2>7, <2>9, <2>10
<1> QED  BY <1>3, <1>4

LEMMA SaysWhat ==
    ASSUME NEW diff
    PROVE  /\ Says(Alert(diff)) = <<"alert.raised", Station(diff.agent), Alarm(diff)>>
           /\ Says(Update(diff)) = <<"station.updated", Station(diff.agent), Duty(diff)>>
           /\ Says(Alert(diff))[1] = "alert.raised"
           /\ Says(Update(diff))[1] = "station.updated"
           /\ Says(Log)[1] = "log.appended" /\ Says(Snapshot)[1] = "snapshot"
BY DEF Says, Alert, Update, Log, Snapshot, Env

\* What is said in an overlay is said of its diffs.
LEMMA SaidOfDiff ==
    ASSUME NEW d, Compared(d), NEW w, w = Overlay(d), NEW e \in ToSet(w),
           e.type \in {"alert.raised", "station.updated"}
    PROVE  \E i \in DOMAIN d.diffs :
               /\ d.diffs[i].severity # "info"
               /\ \/ Says(e) = Says(Alert(d.diffs[i]))
                  \/ Station(d.diffs[i].agent) # {} /\ Says(e) = Says(Update(d.diffs[i]))
<1>1. PICK n \in Nat : n = Len(w) /\ n > 0 /\ DOMAIN w = 1..n /\ w \in Seq(Envelopes)
  BY OverlayHolds
<1>2. PICK i \in 1..n : e = w[i]  BY <1>1 DEF ToSet
<1>3. Says(e)[1] = e.type  BY DEF Says
<1>4. i # 1
  <2>1. Says(w[1]) = Says(Snapshot)  BY OverlayHolds
  <2> QED  BY <1>2, <1>3, <2>1, SaysWhat
<1>5. i \in 2..Len(w)  BY <1>1, <1>2, <1>4
<1>6. Told(e, d)  BY <1>2, <1>5, OverlayHolds
<1>7. Says(e) # Says(Log)  BY <1>3, SaysWhat
<1> QED  BY <1>6, <1>7 DEF Told

LEMMA AlertIsOfDiff ==
    ASSUME NEW d, Compared(d), NEW w, w = Overlay(d), NEW at, NEW kind
    PROVE  <<"alert.raised", at, kind>> \in Said(w) <=>
               \E i \in DOMAIN d.diffs :
                   /\ d.diffs[i].severity # "info"
                   /\ at = Station(d.diffs[i].agent) /\ kind = Alarm(d.diffs[i])
<1>1. ASSUME <<"alert.raised", at, kind>> \in Said(w)
      PROVE  \E i \in DOMAIN d.diffs :
                 /\ d.diffs[i].severity # "info"
                 /\ at = Station(d.diffs[i].agent) /\ kind = Alarm(d.diffs[i])
  <2>1. PICK e \in ToSet(w) : Says(e) = <<"alert.raised", at, kind>>  BY <1>1 DEF Said
  <2>2. e.type = "alert.raised"  BY <2>1 DEF Says
  <2>3. PICK i \in DOMAIN d.diffs :
            /\ d.diffs[i].severity # "info"
            /\ \/ Says(e) = Says(Alert(d.diffs[i]))
               \/ Station(d.diffs[i].agent) # {} /\ Says(e) = Says(Update(d.diffs[i]))
    BY <2>2, SaidOfDiff
  <2>4. PICK diff : diff = d.diffs[i]  OBVIOUS
  <2>5. Says(Alert(diff))[1] = "alert.raised" /\ Says(Update(diff))[1] = "station.updated"
    BY SaysWhat
  <2>6. \/ diff.severity # "info" /\ Says(e) = Says(Alert(diff))
        \/ diff.severity # "info" /\ Station(diff.agent) # {} /\ Says(e) = Says(Update(diff))
    BY <2>3, <2>4
  <2>7. Says(e)[1] = "alert.raised"  BY <2>1
  <2>8. diff.severity # "info" /\ Says(e) = Says(Alert(diff))  BY <2>5, <2>6, <2>7
  <2>9. <<"alert.raised", at, kind>> = <<"alert.raised", Station(diff.agent), Alarm(diff)>>
    BY <2>1, <2>8, SaysWhat
  <2>10. at = Station(diff.agent) /\ kind = Alarm(diff)  BY <2>9
  <2> QED  BY <2>4, <2>8, <2>10
<1>2. ASSUME NEW i \in DOMAIN d.diffs, d.diffs[i].severity # "info",
             at = Station(d.diffs[i].agent), kind = Alarm(d.diffs[i])
      PROVE  <<"alert.raised", at, kind>> \in Said(w)
  <2>1. PICK diff : diff = d.diffs[i]  OBVIOUS
  <2>2. Says(Alert(diff)) \in Said(w)  BY <1>2, <2>1, OverlayHolds
  <2> QED  BY <1>2, <2>1, <2>2, SaysWhat
<1> QED  BY <1>1, <1>2

LEMMA UpdateIsOfDiff ==
    ASSUME NEW d, Compared(d), NEW w, w = Overlay(d), NEW at, NEW kind
    PROVE  <<"station.updated", at, kind>> \in Said(w) <=>
               \E i \in DOMAIN d.diffs :
                   /\ d.diffs[i].severity # "info" /\ Station(d.diffs[i].agent) # {}
                   /\ at = Station(d.diffs[i].agent) /\ kind = Duty(d.diffs[i])
<1>1. ASSUME <<"station.updated", at, kind>> \in Said(w)
      PROVE  \E i \in DOMAIN d.diffs :
                 /\ d.diffs[i].severity # "info" /\ Station(d.diffs[i].agent) # {}
                 /\ at = Station(d.diffs[i].agent) /\ kind = Duty(d.diffs[i])
  <2>1. PICK e \in ToSet(w) : Says(e) = <<"station.updated", at, kind>>  BY <1>1 DEF Said
  <2>2. e.type = "station.updated"  BY <2>1 DEF Says
  <2>3. PICK i \in DOMAIN d.diffs :
            /\ d.diffs[i].severity # "info"
            /\ \/ Says(e) = Says(Alert(d.diffs[i]))
               \/ Station(d.diffs[i].agent) # {} /\ Says(e) = Says(Update(d.diffs[i]))
    BY <2>2, SaidOfDiff
  <2>4. PICK diff : diff = d.diffs[i]  OBVIOUS
  <2>5. Says(Alert(diff))[1] = "alert.raised" /\ Says(Update(diff))[1] = "station.updated"
    BY SaysWhat
  <2>6. \/ diff.severity # "info" /\ Says(e) = Says(Alert(diff))
        \/ diff.severity # "info" /\ Station(diff.agent) # {} /\ Says(e) = Says(Update(diff))
    BY <2>3, <2>4
  <2>7. Says(e)[1] = "station.updated"  BY <2>1
  <2>8. diff.severity # "info" /\ Station(diff.agent) # {} /\ Says(e) = Says(Update(diff))
    BY <2>5, <2>6, <2>7
  <2>9. <<"station.updated", at, kind>>
            = <<"station.updated", Station(diff.agent), Duty(diff)>>
    BY <2>1, <2>8, SaysWhat
  <2>10. at = Station(diff.agent) /\ kind = Duty(diff)  BY <2>9
  <2> QED  BY <2>4, <2>8, <2>10
<1>2. ASSUME NEW i \in DOMAIN d.diffs, d.diffs[i].severity # "info",
             Station(d.diffs[i].agent) # {},
             at = Station(d.diffs[i].agent), kind = Duty(d.diffs[i])
      PROVE  <<"station.updated", at, kind>> \in Said(w)
  <2>1. PICK diff : diff = d.diffs[i]  OBVIOUS
  <2>2. Says(Update(diff)) \in Said(w)  BY <1>2, <2>1, OverlayHolds
  <2> QED  BY <1>2, <2>1, <2>2, SaysWhat
<1> QED  BY <1>1, <1>2

\* Whether a diff of one of the severities names the agent.
Flagged(d, s, severities) ==
    \E i \in DOMAIN d.diffs : d.diffs[i].agent = s /\ d.diffs[i].severity \in severities

\* A station's ring and state show what the diffs say.
Lit(d, w, s) ==
    LET state == Shown(w).station[s].state
    IN /\ Flagged(d, s, {"regression"}) =>
              \E e \in Alerts(w) : e.at = {s} /\ e.state = "critical"
       /\ "critical" = Ring(w, s) \/ "drain" = state => Flagged(d, s, {"regression"})
       /\ Ring(w, s) = "none" <=> ~Flagged(d, s, {"regression", "warning"})
       /\ state = "idle" <=> Ring(w, s) = "none"

LEMMA OverlayTells ==
    ASSUME NEW d, Compared(d), NEW w, w = Overlay(d)
    PROVE  /\ (\E e \in Alerts(w) : e.state = "critical")
                  <=> \E i \in DOMAIN d.diffs : d.diffs[i].severity = "regression"
           /\ Alerts(w) = {} <=> \A i \in DOMAIN d.diffs : d.diffs[i].severity = "info"
           /\ \A s \in Stations : Lit(d, w, s)
<1>1. \A at, kind : <<"alert.raised", at, kind>> \in Said(w) <=>
          \E e \in Alerts(w) : e.at = at /\ e.state = kind
  BY DEF Said, Says, Alerts
<1>2. \A i \in DOMAIN d.diffs : Voiced(d.diffs[i])  BY DEF Compared
<1>3. \A diff : /\ Alarm(diff) = "critical" <=> diff.severity = "regression"
                /\ Duty(diff) = "drain" <=> diff.severity = "regression"
                /\ Alarm(diff) # "none" /\ Duty(diff) # "idle"
  BY DEF Alarm, Duty
<1>4. (\E e \in Alerts(w) : e.state = "critical")
          <=> \E i \in DOMAIN d.diffs : d.diffs[i].severity = "regression"
  <2>1. ASSUME NEW e \in Alerts(w), e.state = "critical"
        PROVE  \E i \in DOMAIN d.diffs : d.diffs[i].severity = "regression"
    <3>1. <<"alert.raised", e.at, "critical">> \in Said(w)  BY <1>1, <2>1
    <3> QED  BY <1>3, <3>1, AlertIsOfDiff
  <2>2. ASSUME NEW i \in DOMAIN d.diffs, d.diffs[i].severity = "regression"
        PROVE  \E e \in Alerts(w) : e.state = "critical"
    <3>1. <<"alert.raised", Station(d.diffs[i].agent), Alarm(d.diffs[i])>> \in Said(w)
      BY <2>2, AlertIsOfDiff
    <3> QED  BY <1>1, <1>3, <2>2, <3>1
  <2> QED  BY <2>1, <2>2
<1>5. Alerts(w) = {} <=> \A i \in DOMAIN d.diffs : d.diffs[i].severity = "info"
  <2>1. ASSUME NEW e \in Alerts(w)
        PROVE  \E i \in DOMAIN d.diffs : d.diffs[i].severity # "info"
    <3>1. <<"alert.raised", e.at, e.state>> \in Said(w)  BY <1>1
    <3> QED  BY <3>1, AlertIsOfDiff
  <2>2. ASSUME NEW i \in DOMAIN d.diffs, d.diffs[i].severity # "info"
        PROVE  Alerts(w) # {}
    <3>1. <<"alert.raised", Station(d.diffs[i].agent), Alarm(d.diffs[i])>> \in Said(w)
      BY <2>2, AlertIsOfDiff
    <3> QED  BY <1>1, <3>1
  <2> QED  BY <2>1, <2>2
<1>6. ASSUME NEW s \in Stations
      PROVE  Lit(d, w, s)
  <2>1. PICK state : state = Shown(w).station[s].state  OBVIOUS
  <2>2. PICK ring : ring = Ring(w, s)  OBVIOUS
  <2>3. w \in Seq(Envelopes)  BY OverlayHolds
  <2>4. \A agent : Station(agent) = {s} <=> agent = s  BY DEF Station
  <2>5. \A i \in DOMAIN d.diffs : d.diffs[i].agent = s =>
            \/ d.diffs[i].severity = "info"
            \/ d.diffs[i].severity \in {"regression", "warning"}
    BY <1>2, GraderIsNoStation DEF Voiced
  <2>6. ASSUME NEW i \in DOMAIN d.diffs
        PROVE  /\ Station(d.diffs[i].agent) = {s} <=> d.diffs[i].agent = s
               /\ d.diffs[i].agent = s =>
                      (d.diffs[i].severity # "info"
                           <=> d.diffs[i].severity \in {"regression", "warning"})
    BY <2>4, <2>5
  <2>7. \A kind : <<"alert.raised", {s}, kind>> \in Said(w) <=>
             \E i \in DOMAIN d.diffs : /\ d.diffs[i].agent = s /\ kind = Alarm(d.diffs[i])
                                       /\ d.diffs[i].severity \in {"regression", "warning"}
    <3> TAKE kind
    <3>0. PICK at : at = {s}  OBVIOUS
    <3>1. <<"alert.raised", at, kind>> \in Said(w) <=>
              \E i \in DOMAIN d.diffs :
                  /\ d.diffs[i].severity # "info"
                  /\ at = Station(d.diffs[i].agent) /\ kind = Alarm(d.diffs[i])
      BY AlertIsOfDiff
    <3> QED  BY <2>6, <3>0, <3>1
  <2>8. \A kind : <<"station.updated", {s}, kind>> \in Said(w) <=>
             \E i \in DOMAIN d.diffs : /\ d.diffs[i].agent = s /\ kind = Duty(d.diffs[i])
                                       /\ d.diffs[i].severity \in {"regression", "warning"}
    <3> TAKE kind
    <3>0. PICK at : at = {s}  OBVIOUS
    <3>1. <<"station.updated", at, kind>> \in Said(w) <=>
              \E i \in DOMAIN d.diffs :
                  /\ d.diffs[i].severity # "info" /\ Station(d.diffs[i].agent) # {}
                  /\ at = Station(d.diffs[i].agent) /\ kind = Duty(d.diffs[i])
      BY UpdateIsOfDiff
    <3>2. at # {}  BY <3>0
    <3> QED  BY <2>6, <3>0, <3>1, <3>2
  <2>9. \/ /\ ring = "none"
           /\ \A e \in ToSet(w) : ~(e.type = "alert.raised" /\ e.at = {s})
        \/ <<"alert.raised", {s}, ring>> \in Said(w)
    BY <2>2, <2>3, RingIsAlert
  <2>10. \/ /\ state = "idle"
           /\ \A e \in ToSet(w) : ~(e.type = "station.updated" /\ e.at = {s})
        \/ <<"station.updated", {s}, state>> \in Said(w)
    BY <2>1, StationShown
  <2>11. (\A e \in ToSet(w) : ~(e.type = "alert.raised" /\ e.at = {s}))
            => \A kind : <<"alert.raised", {s}, kind>> \notin Said(w)
    BY DEF Said, Says
  <2>12. (\A e \in ToSet(w) : ~(e.type = "station.updated" /\ e.at = {s}))
             => \A kind : <<"station.updated", {s}, kind>> \notin Said(w)
    BY DEF Said, Says
  <2>13. ring = "none" <=> ~Flagged(d, s, {"regression", "warning"})
    BY <1>3, <2>7, <2>9, <2>11 DEF Flagged
  <2>14. state = "idle" <=> ~Flagged(d, s, {"regression", "warning"})
    BY <1>3, <2>8, <2>10, <2>12 DEF Flagged
  <2>15. ring = "critical" => Flagged(d, s, {"regression"})
    BY <1>3, <2>7, <2>9 DEF Flagged
  <2>16. state = "drain" => Flagged(d, s, {"regression"})
    BY <1>3, <2>8, <2>10 DEF Flagged
  <2>17. Flagged(d, s, {"regression"}) =>
             \E e \in Alerts(w) : e.at = {s} /\ e.state = "critical"
    <3>1. ASSUME NEW i \in DOMAIN d.diffs, d.diffs[i].agent = s,
                 d.diffs[i].severity = "regression"
          PROVE  <<"alert.raised", {s}, "critical">> \in Said(w)
      <4>1. Alarm(d.diffs[i]) = "critical"  BY <1>3, <3>1
      <4> QED  BY <2>7, <3>1, <4>1
    <3>2. <<"alert.raised", {s}, "critical">> \in Said(w) =>
              \E e \in Alerts(w) : e.at = {s} /\ e.state = "critical"
      BY <1>1
    <3> QED  BY <3>1, <3>2 DEF Flagged
  <2> QED  BY <2>1, <2>2, <2>13, <2>14, <2>15, <2>16, <2>17 DEF Lit
<1> QED  BY <1>4, <1>5, <1>6

\* The overlay is critical when the verdict is a regression, silent when the runs pass
\* or cannot be compared, and lights the stations that are flagged and no others.
THEOREM OverlayTrue == Spec => []OverlayAgrees
<1>1. ASSUME TypeOK
      PROVE  OverlayAgrees
  <2>1. PICK b \in Directories : b = baseline  BY <1>1, TypesGiveDirectories
  <2>2. PICK c \in Directories : c = candidate  BY <1>1, TypesGiveDirectories
  <2>3. PICK d : d = DiffRuns(b, c)  OBVIOUS
  <2>4. PICK w : w = Overlay(d)  OBVIOUS
  <2>5. /\ Compared(d)
        /\ d.verdict = "regression" <=>
               \E i \in DOMAIN d.diffs : d.diffs[i].severity = "regression"
        /\ d.verdict = "pass" \/ ~Comparable(b, c) <=>
               \A i \in DOMAIN d.diffs : d.diffs[i].severity = "info"
    BY <2>3, RunsCompared
  <2>6. /\ (\E e \in Alerts(w) : e.state = "critical")
               <=> \E i \in DOMAIN d.diffs : d.diffs[i].severity = "regression"
        /\ Alerts(w) = {} <=> \A i \in DOMAIN d.diffs : d.diffs[i].severity = "info"
        /\ \A s \in Stations : Lit(d, w, s)
    <3>1. Compared(d) /\ w = Overlay(d)  BY <2>4, <2>5
    <3> QED  BY <3>1, OverlayTells
  <2>7. (\E e \in Alerts(w) : e.state = "critical") <=> d.verdict = "regression"
    BY <2>5, <2>6
  <2>8. Alerts(w) = {} <=> d.verdict = "pass" \/ ~Comparable(b, c)
    BY <2>5, <2>6
  <2>9. /\ DiffRuns(baseline, candidate) = d /\ Overlay(d) = w
        /\ Comparable(baseline, candidate) <=> Comparable(b, c)
    BY <2>1, <2>2, <2>3, <2>4
  <2> QED  BY <2>6, <2>7, <2>8, <2>9 DEF OverlayAgrees, Lit, Flagged
<1> QED  BY <1>1, TypeCorrect, PTL

-----------------------------------------------------------------------------
(* Sums over finite sets                                                  *)

\* The equation of SumFunctionOnSet: g adds f up over the subsets of S.
Adds(g, f, S) ==
    g = [s \in SUBSET S |-> IF s = {} THEN 0
                            ELSE f[CHOOSE x \in s : TRUE] + g[s \ {CHOOSE x \in s : TRUE}]]

IsSum(g, f, S) == g \in [SUBSET S -> Nat] /\ Adds(g, f, S)

LEMMA SumsExist ==
    ASSUME NEW S, IsFiniteSet(S), NEW f \in [S -> Nat]
    PROVE  \E g : IsSum(g, f, S)
<1> DEFINE c(s) == CHOOSE x \in s : TRUE
           UpTo(n) == {g \in [SUBSET S -> Nat] : \A s \in SUBSET S : Cardinality(s) <= n =>
                           g[s] = IF s = {} THEN 0 ELSE f[c(s)] + g[s \ {c(s)}]}
           Ns == {n \in Nat : UpTo(n) # {}}
<1>1. \A s \in SUBSET S : IsFiniteSet(s) /\ Cardinality(s) \in Nat
  BY FS_Subset, FS_CardinalityType
<1>2. \A s \in SUBSET S : s # {} => c(s) \in s
  OBVIOUS
<1> HIDE DEF c
<1>3. \A s \in SUBSET S : s # {} =>
          s \ {c(s)} \in SUBSET S /\ Cardinality(s \ {c(s)}) = Cardinality(s) - 1
  BY <1>1, <1>2, FS_RemoveElement
<1>4. 0 \in Ns
  <2>1. \A s \in SUBSET S : Cardinality(s) <= 0 => s = {}
    BY <1>1, FS_EmptySet
  <2>2. [s \in SUBSET S |-> 0] \in UpTo(0)  BY <2>1
  <2> QED  BY <2>2
<1>5. ASSUME NEW n \in Nat, n \in Ns
      PROVE  n + 1 \in Ns
  <2>1. PICK g \in [SUBSET S -> Nat] : \A s \in SUBSET S : Cardinality(s) <= n =>
            g[s] = IF s = {} THEN 0 ELSE f[c(s)] + g[s \ {c(s)}]
    BY <1>5
  <2> DEFINE h == [s \in SUBSET S |-> IF Cardinality(s) <= n THEN g[s]
                                      ELSE f[c(s)] + g[s \ {c(s)}]]
  <2>2. Cardinality({}) = 0  BY FS_EmptySet
  <2>3. ASSUME NEW s \in SUBSET S, ~(Cardinality(s) <= n)
        PROVE  s # {} /\ f[c(s)] + g[s \ {c(s)}] \in Nat
    <3>1. s # {}
      <4> SUFFICES ASSUME s = {} PROVE FALSE
        OBVIOUS
      <4> QED  BY <2>2, <2>3
    <3>2. c(s) \in S /\ s \ {c(s)} \in SUBSET S  BY <1>2, <1>3, <3>1
    <3> QED  BY <3>1, <3>2
  <2>4. h \in [SUBSET S -> Nat]  BY <2>3
  <2>5. ASSUME NEW s \in SUBSET S, Cardinality(s) <= n + 1, s # {}
        PROVE  h[s] = f[c(s)] + h[s \ {c(s)}]
    <3>1. s \ {c(s)} \in SUBSET S /\ Cardinality(s \ {c(s)}) <= n  BY <1>1, <1>3, <2>5
    <3>2. h[s \ {c(s)}] = g[s \ {c(s)}]  BY <3>1
    <3>3. CASE Cardinality(s) <= n  BY <3>3, <2>1, <3>2, <2>5
    <3>4. CASE ~(Cardinality(s) <= n)  BY <3>4, <3>2
    <3> QED  BY <3>3, <3>4
  <2>6. h[{}] = 0  BY <2>1, <2>2
  <2> HIDE DEF h
  <2>7. h \in UpTo(n + 1)  BY <2>4, <2>5, <2>6
  <2>8. UpTo(n + 1) # {}  BY <2>7
  <2> HIDE DEF UpTo
  <2> QED  BY <2>8
<1> HIDE DEF Ns
<1>6. Nat \subseteq Ns  BY <1>4, <1>5, NatSetInduction
<1>7. Cardinality(S) \in Nat  BY FS_CardinalityType
<1>8. PICK g : g \in UpTo(Cardinality(S))  BY <1>6, <1>7 DEF Ns
<1>9. \A s \in SUBSET S : Cardinality(s) <= Cardinality(S)  BY FS_Subset
<1>10. \A s \in SUBSET S : g[s] = IF s = {} THEN 0 ELSE f[c(s)] + g[s \ {c(s)}]
  BY <1>8, <1>9
<1>11. g \in [SUBSET S -> Nat]  BY <1>8
<1> HIDE DEF UpTo
<1>12. Adds(g, f, S)  BY <1>10, <1>11 DEF Adds, c
<1> QED  BY <1>11, <1>12 DEF IsSum

\* It does not matter which element is added first.
LEMMA SumAdds ==
    ASSUME NEW S, IsFiniteSet(S), NEW f \in [S -> Nat], NEW g, IsSum(g, f, S),
           NEW T \in SUBSET S, NEW x \in S \ T
    PROVE  g[T \cup {x}] = g[T] + f[x]
<1> DEFINE c(s) == CHOOSE y \in s : TRUE
           Ns == {n \in Nat : \A s \in SUBSET S : \A y \in S \ s :
                      Cardinality(s) = n => g[s \cup {y}] = g[s] + f[y]}
<1>1. \A s \in SUBSET S : IsFiniteSet(s) /\ Cardinality(s) \in Nat
  BY FS_Subset, FS_CardinalityType
<1>2. \A s \in SUBSET S : s # {} => c(s) \in s
  OBVIOUS
<1> HIDE DEF c
<1>3. \A s \in SUBSET S : s # {} =>
          s \ {c(s)} \in SUBSET S /\ Cardinality(s \ {c(s)}) = Cardinality(s) - 1
  BY <1>1, <1>2, FS_RemoveElement
<1>4. /\ g \in [SUBSET S -> Nat] /\ g[{}] = 0
      /\ \A s \in SUBSET S : s # {} => g[s] = f[c(s)] + g[s \ {c(s)}]
  BY DEF IsSum, Adds, c
<1>5. 0 \in Ns
  <2>1. ASSUME NEW s \in SUBSET S, NEW y \in S \ s, Cardinality(s) = 0
        PROVE  g[s \cup {y}] = g[s] + f[y]
    <3>1. s = {}  BY <1>1, <2>1, FS_EmptySet
    <3>2. c({y}) = y /\ {y} \in SUBSET S /\ {y} \ {y} = {} /\ s \cup {y} = {y}  BY <1>2, <3>1
    <3>3. g[{y}] = f[y] + g[{y} \ {y}]  BY <1>4, <3>2
    <3> QED  BY <1>4, <3>1, <3>2, <3>3
  <2> QED  BY <2>1
<1>6. ASSUME NEW n \in Nat, n \in Ns
      PROVE  n + 1 \in Ns
  <2>1. ASSUME NEW s \in SUBSET S, NEW y \in S \ s, Cardinality(s) = n + 1
        PROVE  g[s \cup {y}] = g[s] + f[y]
    <3>1. PICK u \in SUBSET S : u = s \cup {y}  OBVIOUS
    <3>2. u # {} /\ c(u) \in u  BY <1>2, <3>1
    <3>3. g[u] = f[c(u)] + g[u \ {c(u)}]  BY <1>4, <3>2
    <3>4. CASE c(u) = y
      <4>1. u \ {c(u)} = s  BY <3>1, <3>4
      <4>2. g[u] = f[y] + g[s]  BY <3>3, <3>4, <4>1
      <4>3. f[y] \in Nat /\ g[s] \in Nat  BY <1>4
      <4> QED  BY <3>1, <4>2, <4>3
    <3>5. CASE c(u) # y
      <4>1. PICK z \in s : z = c(u)  BY <3>1, <3>2, <3>5
      <4>2. PICK r \in SUBSET S : r = s \ {z}  OBVIOUS
      <4>3. u \ {c(u)} = r \cup {y} /\ y \in S \ r /\ z \in S \ r /\ r \cup {z} = s
        BY <3>1, <3>5, <4>1, <4>2
      <4>4. Cardinality(r) = n
        BY <1>1, <2>1, <4>1, <4>2, FS_RemoveElement
      <4>5. g[r \cup {y}] = g[r] + f[y] /\ g[r \cup {z}] = g[r] + f[z]
        BY <1>6, <4>3, <4>4
      <4>6. g[u] = f[z] + (g[r] + f[y]) /\ g[s] = g[r] + f[z]
        BY <3>3, <4>1, <4>3, <4>5
      <4>7. f[y] \in Nat /\ f[z] \in Nat /\ g[r] \in Nat  BY <1>4
      <4> QED  BY <3>1, <4>6, <4>7
    <3> QED  BY <3>4, <3>5
  <2> QED  BY <2>1
<1> HIDE DEF Ns
<1>7. Nat \subseteq Ns  BY <1>5, <1>6, NatSetInduction
<1> QED  BY <1>1, <1>7 DEF Ns

\* A function with the equation of SumFunctionOnSet's adds up naturals.
LEMMA SumsAreNat ==
    ASSUME NEW S, IsFiniteSet(S), NEW f \in [S -> Nat], NEW g, Adds(g, f, S)
    PROVE  IsSum(g, f, S)
<1> DEFINE c(s) == CHOOSE x \in s : TRUE
           Ns == {n \in Nat : \A s \in SUBSET S : Cardinality(s) = n => g[s] \in Nat}
<1>1. \A s \in SUBSET S : IsFiniteSet(s) /\ Cardinality(s) \in Nat
  BY FS_Subset, FS_CardinalityType
<1>2. \A s \in SUBSET S : s # {} => c(s) \in s
  OBVIOUS
<1>3. \A s \in SUBSET S : g[s] = IF s = {} THEN 0 ELSE f[c(s)] + g[s \ {c(s)}]
  BY DEF Adds
<1>4. g = [s \in SUBSET S |-> g[s]]
  BY DEF Adds
<1> HIDE DEF c
<1>5. \A s \in SUBSET S : s # {} =>
          s \ {c(s)} \in SUBSET S /\ Cardinality(s \ {c(s)}) = Cardinality(s) - 1
  BY <1>1, <1>2, FS_RemoveElement
<1>6. 0 \in Ns
  <2>1. \A s \in SUBSET S : Cardinality(s) = 0 => s = {}
    BY <1>1, FS_EmptySet
  <2>2. \A s \in SUBSET S : Cardinality(s) = 0 => g[s] = 0  BY <1>3, <2>1
  <2> QED  BY <2>2
<1>7. ASSUME NEW n \in Nat, n \in Ns
      PROVE  n + 1 \in Ns
  <2>1. ASSUME NEW s \in SUBSET S, Cardinality(s) = n + 1, s # {}
        PROVE  g[s] \in Nat
    <3>1. s \ {c(s)} \in SUBSET S /\ Cardinality(s \ {c(s)}) = n  BY <1>5, <2>1
    <3>2. g[s \ {c(s)}] \in Nat  BY <1>7, <3>1
    <3>3. f[c(s)] \in Nat  BY <1>2, <2>1
    <3>4. g[s] = f[c(s)] + g[s \ {c(s)}]  BY <1>3, <2>1
    <3> QED  BY <3>2, <3>3, <3>4
  <2>2. g[{}] = 0  BY <1>3
  <2>3. ASSUME NEW s \in SUBSET S, Cardinality(s) = n + 1
        PROVE  g[s] \in Nat
    <3>1. CASE s = {}  BY <2>2, <3>1
    <3> QED  BY <2>1, <2>3, <3>1
  <2> QED  BY <2>3
<1> HIDE DEF Ns
<1>8. Nat \subseteq Ns  BY <1>6, <1>7, NatSetInduction
<1>9. \A s \in SUBSET S : g[s] \in Nat  BY <1>1, <1>8 DEF Ns
<1>10. g \in [SUBSET S -> Nat]  BY <1>4, <1>9
<1> QED  BY <1>10 DEF IsSum

\* Induction over the subsets of a finite set, for a set of them rather than a predicate.
LEMMA SubsetInduction ==
    ASSUME NEW S, IsFiniteSet(S), NEW C, {} \in C,
           \A T \in SUBSET S : \A x \in S \ T : T \in C => T \cup {x} \in C
    PROVE  S \in C
<1> DEFINE Ns == {n \in Nat : \A T \in SUBSET S : Cardinality(T) = n => T \in C}
<1>1. \A T \in SUBSET S : IsFiniteSet(T) /\ Cardinality(T) \in Nat
  BY FS_Subset, FS_CardinalityType
<1>2. 0 \in Ns
  <2>1. \A T \in SUBSET S : Cardinality(T) = 0 => T = {}  BY <1>1, FS_EmptySet
  <2> QED  BY <2>1
<1>3. ASSUME NEW n \in Nat, n \in Ns
      PROVE  n + 1 \in Ns
  <2>1. ASSUME NEW T \in SUBSET S, Cardinality(T) = n + 1
        PROVE  T \in C
    <3>1. T # {}
      <4>1. Cardinality({}) = 0  BY FS_EmptySet
      <4> QED  BY <2>1, <4>1
    <3>2. PICK x \in T : TRUE  BY <3>1
    <3>3. PICK R \in SUBSET S : R = T \ {x}  OBVIOUS
    <3>4. Cardinality(R) = n
      <4>1. Cardinality(T \ {x}) = Cardinality(T) - 1  BY <1>1, <3>2, FS_RemoveElement
      <4> QED  BY <2>1, <3>3, <4>1
    <3>5. R \in C  BY <1>3, <3>4
    <3>6. x \in S \ R /\ R \cup {x} = T  BY <3>2, <3>3
    <3> QED  BY <3>5, <3>6
  <2> QED  BY <2>1
<1> HIDE DEF Ns
<1>4. Nat \subseteq Ns  BY <1>2, <1>3, NatSetInduction
<1> QED  BY <1>1, <1>4 DEF Ns

\* g holds the sums of f over the subsets of S.
Sums(g, f, S) ==
    /\ g \in [SUBSET S -> Nat] /\ g[{}] = 0
    /\ \A T \in SUBSET S : \A x \in S \ T : g[T \cup {x}] = g[T] + f[x]
    /\ \A T \in SUBSET S : SumFunction([x \in T |-> f[x]]) = g[T]

LEMMA SumsOfSubsets ==
    ASSUME NEW S, IsFiniteSet(S), NEW f, \A x \in S : f[x] \in Nat
    PROVE  \E g : Sums(g, f, S)
<1>1. PICK h \in [S -> Nat] : h = [x \in S |-> f[x]]  OBVIOUS
<1>2. PICK g : IsSum(g, h, S)  BY SumsExist
<1>3. g \in [SUBSET S -> Nat] /\ g[{}] = 0  BY <1>2 DEF IsSum, Adds
<1>4. \A T \in SUBSET S : \A x \in S \ T : g[T \cup {x}] = g[T] + f[x]
  <2> TAKE T \in SUBSET S
  <2> TAKE x \in S \ T
  <2>1. g[T \cup {x}] = g[T] + h[x]  BY <1>2, SumAdds
  <2> QED  BY <1>1, <2>1
<1>5. ASSUME NEW T \in SUBSET S
      PROVE  SumFunction([x \in T |-> f[x]]) = g[T]
  <2>1. PICK u : u = [x \in T |-> f[x]]  OBVIOUS
  <2>2. u \in [T -> Nat] /\ IsFiniteSet(T) /\ DOMAIN u = T  BY <2>1, FS_Subset
  <2> DEFINE it == CHOOSE k : Adds(k, u, T)
  <2>3. Adds(it, u, T)  BY <2>2, SumsExist DEF IsSum
  <2>4. SumFunction(u) = it[T]
    BY <2>2 DEF SumFunction, SumFunctionOnSet, FoldFunctionOnSet, MapThenFoldSet, Adds
  <2>5. PICK k : k = it  OBVIOUS
  <2>6. IsSum(k, u, T)  BY <2>2, <2>3, <2>5, SumsAreNat
  <2>7. k[{}] = 0  BY <2>6 DEF IsSum, Adds
  <2>8. \A R \in SUBSET T : \A x \in T \ R : k[R \cup {x}] = k[R] + u[x]
    <3> TAKE R \in SUBSET T
    <3> TAKE x \in T \ R
    <3> QED  BY <2>2, <2>6, SumAdds
  <2> DEFINE C == {R \in SUBSET T : k[R] = g[R]}
  <2>9. {} \in C  BY <1>3, <2>7
  <2>10. \A R \in SUBSET T : \A x \in T \ R : R \in C => R \cup {x} \in C
    BY <1>4, <2>1, <2>8
  <2> HIDE DEF C
  <2>11. T \in C  BY <2>2, <2>9, <2>10, SubsetInduction
  <2>12. k[T] = g[T]  BY <2>11 DEF C
  <2> QED  BY <2>1, <2>4, <2>5, <2>12
<1> QED  BY <1>3, <1>4, <1>5 DEF Sums

\* The sum over two sets that share nothing.
LEMMA SumsSplit ==
    ASSUME NEW S, IsFiniteSet(S), NEW f, NEW g, Sums(g, f, S), \A x \in S : f[x] \in Nat,
           NEW A \in SUBSET S, NEW B \in SUBSET S, A \cap B = {}
    PROVE  g[A \cup B] = g[A] + g[B]
<1> DEFINE C == {T \in SUBSET B : g[A \cup T] = g[A] + g[T]}
<1>1. {} \in C
  <2>1. A \cup {} = A /\ g[A] \in Nat /\ g[{}] = 0  BY DEF Sums
  <2> QED  BY <2>1
<1>2. ASSUME NEW T \in SUBSET B, NEW x \in B \ T, T \in C
      PROVE  T \cup {x} \in C
  <2>1. g[A \cup T] = g[A] + g[T]  BY <1>2
  <2>2. A \cup T \in SUBSET S /\ T \in SUBSET S /\ x \in S \ (A \cup T) /\ x \in S \ T
    OBVIOUS
  <2>3. g[(A \cup T) \cup {x}] = g[A \cup T] + f[x] /\ g[T \cup {x}] = g[T] + f[x]
    BY <2>2 DEF Sums
  <2>4. g[A] \in Nat /\ g[T] \in Nat /\ f[x] \in Nat  BY <2>2 DEF Sums
  <2>5. (A \cup T) \cup {x} = A \cup (T \cup {x})  OBVIOUS
  <2>6. g[A] + g[T] + f[x] = g[A] + (g[T] + f[x])
    <3>1. PICK n \in Nat : n = g[A]  BY DEF Sums
    <3> QED  BY <2>4, <3>1
  <2>7. g[A \cup (T \cup {x})] = g[A \cup T] + f[x]  BY <2>3, <2>5
  <2>8. g[A \cup (T \cup {x})] = g[A] + g[T] + f[x]  BY <2>1, <2>7
  <2> QED  BY <2>3, <2>6, <2>8
<1> HIDE DEF C
<1>3. IsFiniteSet(B)  BY FS_Subset
<1>4. B \in C  BY <1>1, <1>2, <1>3, SubsetInduction
<1> QED  BY <1>4 DEF C

\* The sum over other names for the same.
LEMMA SumsRename ==
    ASSUME NEW S, IsFiniteSet(S), NEW f, NEW g, Sums(g, f, S),
           NEW R, IsFiniteSet(R), NEW u, NEW h, Sums(h, u, R),
           NEW b \in [R -> S], \A x, y \in R : b[x] = b[y] => x = y,
           \A x \in R : u[x] = f[b[x]]
    PROVE  h[R] = g[{b[x] : x \in R}]
<1> DEFINE Image(T) == {b[x] : x \in T}
           C == {T \in SUBSET R : h[T] = g[Image(T)]}
<1>1. {} \in C
  <2>1. Image({}) = {}  OBVIOUS
  <2> QED  BY <2>1 DEF Sums
<1>2. ASSUME NEW T \in SUBSET R, NEW x \in R \ T, T \in C
      PROVE  T \cup {x} \in C
  <2>1. h[T] = g[Image(T)]  BY <1>2
  <2>2. Image(T \cup {x}) = Image(T) \cup {b[x]}  OBVIOUS
  <2>3. b[x] \in S \ Image(T) /\ Image(T) \in SUBSET S  OBVIOUS
  <2> HIDE DEF Image
  <2>4. g[Image(T) \cup {b[x]}] = g[Image(T)] + f[b[x]]  BY <2>3 DEF Sums
  <2>5. h[T \cup {x}] = h[T] + u[x]  BY DEF Sums
  <2> QED  BY <2>1, <2>2, <2>4, <2>5
<1> HIDE DEF C
<1>3. R \in C  BY <1>1, <1>2, SubsetInduction
<1> QED  BY <1>3 DEF C

\* The sum of the sums over those of one key each.
LEMMA SumsByKey ==
    ASSUME NEW S, IsFiniteSet(S), NEW f, NEW g, Sums(g, f, S), \A x \in S : f[x] \in Nat,
           NEW key, NEW K, IsFiniteSet(K), NEW part, NEW m, m = [k \in K |-> m[k]],
           \A k \in K : /\ m[k] = g[part[k]] /\ part[k] \in SUBSET S
                       /\ \A x \in S : x \in part[k] <=> key[x] = k,
           NEW T \in SUBSET S, \A x \in S : x \in T <=> key[x] \in K
    PROVE  SumFunction(m) = g[T]
<1> DEFINE With(L) == {x \in S : key[x] \in L}
<1>1. \A k \in K : m[k] \in Nat
  <2> TAKE k \in K
  <2> QED  BY DEF Sums
<1>2. PICK h : Sums(h, m, K)  BY <1>1, SumsOfSubsets
<1> DEFINE C == {L \in SUBSET K : h[L] = g[With(L)]}
<1>3. {} \in C
  <2>1. With({}) = {}  OBVIOUS
  <2> QED  BY <1>2, <2>1 DEF Sums
<1>4. ASSUME NEW L \in SUBSET K, NEW k \in K \ L, L \in C
      PROVE  L \cup {k} \in C
  <2>1. h[L] = g[With(L)]  BY <1>4
  <2>2. PICK B \in SUBSET S : B = part[k]  OBVIOUS
  <2>3. With(L \cup {k}) = With(L) \cup B  BY <2>2
  <2>4. With(L) \cap B = {} /\ With(L) \in SUBSET S  BY <2>2
  <2> HIDE DEF With
  <2>5. g[With(L) \cup B] = g[With(L)] + g[B]  BY <2>4, SumsSplit
  <2>6. h[L \cup {k}] = h[L] + m[k]  BY <1>2 DEF Sums
  <2> QED  BY <2>1, <2>2, <2>3, <2>5, <2>6
<1>5. With(K) = T  OBVIOUS
<1> HIDE DEF C
<1>6. K \in C  BY <1>3, <1>4, SubsetInduction
<1> HIDE DEF With
<1>7. h[K] = g[T]  BY <1>5, <1>6 DEF C
<1>8. SumFunction([k \in K |-> m[k]]) = h[K]  BY <1>2 DEF Sums
<1> QED  BY <1>7, <1>8

-----------------------------------------------------------------------------
(* What a launch leaves                                                   *)

\* The end of the log is what this launch did, in step with what it keeps in memory;
\* before it are the lines of earlier launches, none of a first one.
Kept ==
    LET log == candidate.log
        earlier == Len(log) - Len(launched)
    IN /\ earlier >= 0
       /\ \A i \in DOMAIN launched :
            /\ log[earlier + i].step = i
            /\ launched[i] = Telemetry(candidate.plan.steps[i].owner, log[earlier + i])
       /\ stage = "plan" => launched = <<>>
       /\ launches = 0 => stage = "never" /\ log = <<>>
       /\ launches = 1 => earlier = 0
       /\ stage = "done" => summary = <<RoutingSummary(launched)>>

LEMMA LineTold ==
    ASSUME NEW step, NEW r, NEW owner
    PROVE  /\ StepDone(step, r).step = step
           /\ Telemetry(owner, StepDone(step, r)) = Telemetry(owner, r)
BY DEF StepDone, Telemetry

LEMMA LaunchIsKept == Spec => []Kept
<1>1. Init => Kept
  <2> SUFFICES ASSUME Init PROVE Kept
    OBVIOUS
  <2>1. Len(<<>>) = 0 /\ DOMAIN <<>> = {}  OBVIOUS
  <2>2. candidate.log = <<>>  BY DEF Init, EmptyDirectory
  <2>3. Len(candidate.log) - Len(launched) = 0  BY <2>1, <2>2 DEF Init
  <2> QED  BY <2>1, <2>2, <2>3 DEF Init, Kept
<1>2. TypeOK /\ Kept /\ [Next]_vars => Kept'
  <2> SUFFICES ASSUME TypeOK, Kept, [Next]_vars PROVE Kept'
    OBVIOUS
  <2>1. candidate \in Directories /\ launched \in Seq(Telemetries) /\ launches \in Nat
    BY LaunchesBounded DEF TypeOK
  <2>2. candidate.log \in Seq(StepLines) /\ Len(candidate.log) \in Nat /\ Len(launched) \in Nat
    BY <2>1, DirectoryReadable
  <2>3. PICK earlier \in Nat : earlier = Len(candidate.log) - Len(launched)
    <3>1. Len(candidate.log) - Len(launched) >= 0  BY DEF Kept
    <3>2. Len(candidate.log) - Len(launched) \in Nat  BY <2>2, <3>1
    <3> QED  BY <3>2
  <2>4. ASSUME candidate'.log = candidate.log,
               candidate'.plan = candidate.plan \/ stage = "plan",
               launched' = launched, launches' = launches,
               stage' = "never" => stage = "never", stage # "never", stage' # "plan",
               stage' = "done" => summary' = <<RoutingSummary(launched)>>
        PROVE  Kept'
    <3>1. \A i \in DOMAIN launched : candidate'.plan = candidate.plan
      <4>1. DOMAIN <<>> = {}  OBVIOUS
      <4> QED  BY <2>4, <4>1 DEF Kept
    <3> QED  BY <2>4, <3>1 DEF Kept
  <2>5. CASE Launch
    <3>1. candidate'.log = candidate.log  BY <2>5 DEF Launch
    <3>2. launched' = <<>> /\ launches' = launches + 1 /\ stage' = "plan"
      BY <2>5 DEF Launch
    <3>3. Len(launched') = 0 /\ DOMAIN launched' = {}  BY <3>2
    <3>4. launches' # 0  BY <2>1, <3>2
    <3>5. launches' = 1 => Len(candidate'.log) = 0
      <4>1. Len(<<>>) = 0  OBVIOUS
      <4>2. launches' = 1 => candidate.log = <<>>  BY <2>1, <3>2 DEF Kept
      <4> QED  BY <3>1, <4>1, <4>2
    <3>6. Len(candidate'.log) \in Nat  BY <2>2, <3>1
    <3> QED  BY <3>2, <3>3, <3>4, <3>5, <3>6 DEF Kept
  <2>6. ASSUME NEW result \in Results, RunStep(result)
        PROVE  Kept'
    <3>1. PICK next \in Nat : next = Len(launched) + 1  BY <2>2
    <3>2. PICK line : line = StepDone(next, result)  OBVIOUS
    <3>3. PICK told : told = Telemetry(candidate.plan.steps[next].owner, result)  OBVIOUS
    <3>4. /\ candidate' = [candidate EXCEPT !.log = Append(@, line)]
          /\ launched' = Append(launched, told)
          /\ UNCHANGED <<stage, launches>> /\ stage = "steps"
      BY <2>6, <3>1, <3>2, <3>3 DEF RunStep
    <3>5. candidate'.log = Append(candidate.log, line) /\ candidate'.plan = candidate.plan
      BY <2>1, <3>4 DEF Directories
    <3>6. Len(candidate'.log) = Len(candidate.log) + 1 /\ Len(launched') = next
      BY <2>1, <2>2, <3>1, <3>4, <3>5
    <3>7. Len(candidate'.log) - Len(launched') = earlier  BY <2>2, <2>3, <3>1, <3>6
    <3>8. ASSUME NEW i \in DOMAIN launched'
          PROVE  /\ candidate'.log[earlier + i].step = i
                 /\ launched'[i] = Telemetry(candidate'.plan.steps[i].owner,
                                             candidate'.log[earlier + i])
      <4>1. i \in 1..next  BY <2>1, <3>1, <3>4, <3>6
      <4>2. CASE i = next
        <5>1. earlier + i = Len(candidate.log) + 1
          <6>1. \A x, y \in Nat : earlier = x - y => earlier + (y + 1) = x + 1  OBVIOUS
          <6> QED  BY <2>2, <2>3, <3>1, <4>2, <6>1
        <5>2. candidate'.log[earlier + i] = line /\ launched'[i] = told
          BY <2>1, <2>2, <3>1, <3>4, <3>5, <4>2, <5>1
        <5> QED  BY <3>2, <3>3, <3>5, <4>2, <5>2, LineTold
      <4>3. CASE i # next
        <5>1. i \in 1..Len(launched)  BY <2>2, <3>1, <4>1, <4>3
        <5>2. earlier + i \in 1..Len(candidate.log)  BY <2>2, <2>3, <5>1
        <5>3. candidate'.log[earlier + i] = candidate.log[earlier + i] /\ launched'[i] = launched[i]
          BY <2>1, <2>2, <3>4, <3>5, <5>1, <5>2
        <5>4. i \in DOMAIN launched  BY <2>1, <5>1
        <5>5. /\ candidate.log[earlier + i].step = i
              /\ launched[i] = Telemetry(candidate.plan.steps[i].owner,
                                         candidate.log[earlier + i])
          BY <2>3, <5>4 DEF Kept
        <5> QED  BY <3>5, <5>3, <5>5
      <4> QED  BY <4>2, <4>3
    <3>9. launches # 0 /\ (launches = 1 => earlier = 0)  BY <2>3, <3>4 DEF Kept
    <3>10. stage' = "steps" /\ launches' # 0 /\ (launches' = 1 => earlier = 0)  BY <3>4, <3>9
    <3>11. earlier >= 0  OBVIOUS
    <3> QED  BY <3>7, <3>8, <3>10, <3>11 DEF Kept
  <2>7. ASSUME NEW output \in Outputs \cup {FailedOutput}, WriteFinal(output)
        PROVE  Kept'
    <3>1. candidate'.log = candidate.log /\ candidate'.plan = candidate.plan
      BY <2>1, <2>7 DEF WriteFinal, Directories
    <3> QED  BY <2>4, <2>7, <3>1 DEF WriteFinal
  <2>8. ASSUME NEW grading \in Gradings, Grade(grading)
        PROVE  Kept'
    <3>1. candidate'.log = candidate.log /\ candidate'.plan = candidate.plan
      BY <2>1, <2>8 DEF Grade, Directories
    <3> QED  BY <2>4, <2>8, <3>1 DEF Grade
  <2>9. CASE Summarise
    BY <2>4, <2>9 DEF Summarise
  <2>10. CASE Kill
    BY <2>4, <2>10 DEF Kill
  <2>12. ASSUME NEW plan \in Plans, WritePlan(plan)
         PROVE  Kept'
    <3>1. candidate'.log = candidate.log  BY <2>1, <2>12 DEF WritePlan, Directories
    <3> QED  BY <2>4, <2>12, <3>1 DEF WritePlan
  <2>13. CASE KillWriting
    BY <2>1, <2>4, <2>13, WhatIsCut
  <2>11. CASE UNCHANGED vars
    BY <2>11 DEF vars, Kept
  <2> QED  BY <2>5, <2>6, <2>7, <2>8, <2>9, <2>10, <2>11, <2>12, <2>13 DEF Next
<1> QED  BY <1>1, <1>2, TypeCorrect, PTL DEF Spec

\* What this launch did is the last that the log says of its steps.
LEMMA LaunchIsLast ==
    ASSUME TypeOK, Kept, NEW i \in DOMAIN launched
    PROVE  /\ i \in Recorded(candidate) /\ StepOf(candidate, i) \in StepLines
           /\ launched[i] = Telemetry(candidate.plan.steps[i].owner, StepOf(candidate, i))
           /\ launched[i] = Telemetry(launched[i].agent, StepOf(candidate, i))
<1>1. candidate \in Directories /\ launched \in Seq(Telemetries)
  BY TypesGiveDirectories DEF TypeOK
<1>2. PICK m \in Nat : m = Len(candidate.log) /\ DOMAIN candidate.log = 1..m
  BY <1>1, DirectoryReadable
<1>3. PICK n \in Nat : n = Len(launched) /\ DOMAIN launched = 1..n  BY <1>1
<1>4. PICK earlier \in Nat : earlier = m - n
  <2>1. m - n >= 0  BY <1>2, <1>3 DEF Kept
  <2>2. m - n \in Nat  BY <2>1
  <2> QED  BY <2>2
<1>5. \A j \in 1..n : candidate.log[earlier + j].step = j  BY <1>2, <1>3, <1>4 DEF Kept
<1>6. launched[i] = Telemetry(candidate.plan.steps[i].owner, candidate.log[earlier + i])
  BY <1>2, <1>3, <1>4 DEF Kept
<1>7. earlier + i \in 1..m  BY <1>2, <1>3, <1>4
<1>8. i \in Recorded(candidate)  BY <1>2, <1>3, <1>5, <1>7 DEF Recorded
<1>9. PICK k : IsLastOf(candidate, i, k) /\ StepOf(candidate, i) = candidate.log[k]
  BY <1>1, <1>8, DirectoryReadable, LastRecord
<1>10. k \in 1..m /\ candidate.log[k].step = i /\ earlier + i <= k
  BY <1>2, <1>3, <1>5, <1>7, <1>9 DEF IsLastOf
<1>11. k = earlier + i
  <2>1. i \in 1..n /\ k \in Nat /\ k <= m  BY <1>2, <1>3, <1>10
  <2>2. k - earlier \in 1..n /\ earlier + (k - earlier) = k  BY <1>4, <1>10, <2>1
  <2>3. candidate.log[k].step = k - earlier  BY <1>5, <2>2
  <2> QED  BY <1>4, <1>10, <2>2, <2>3
<1>12. launched[i] = Telemetry(candidate.plan.steps[i].owner, StepOf(candidate, i))
  BY <1>6, <1>9, <1>11
<1>13. launched[i].agent = candidate.plan.steps[i].owner  BY <1>12 DEF Telemetry
<1> QED  BY <1>1, <1>8, <1>12, <1>13, RecordIsLine

-----------------------------------------------------------------------------
(* The lines of a log, added up                                           *)

LEMMA ImageIsFinite ==
    ASSUME NEW S, IsFiniteSet(S), NEW f
    PROVE  IsFiniteSet({f[x] : x \in S})
<1>1. PICK T : T = {f[x] : x \in S}  OBVIOUS
<1>2. PICK h : h = [x \in S |-> f[x]]  OBVIOUS
<1>3. h \in Surjection(S, T)  BY <1>1, <1>2 DEF Surjection
<1> QED  BY <1>1, <1>3, FS_Surjection

\* The lines that a later line of the same step overrides.
Stale(d) == {i \in DOMAIN d.log : \E j \in DOMAIN d.log : j > i /\ d.log[j].step = d.log[i].step}

\* The calls of lines, and of any of them.
LEMMA CallsAddUp ==
    ASSUME NEW lines, NEW S, S = DOMAIN lines, IsFiniteSet(S),
           \A p \in S : lines[p].calls \in Nat
    PROVE  \E g : /\ Sums(g, [p \in S |-> lines[p].calls], S)
                  /\ Total(lines, "calls") = g[S]
                  /\ \A T \in SUBSET S : Total([p \in T |-> lines[p]], "calls") = g[T]
<1>1. PICK f : f = [p \in S |-> lines[p].calls]  OBVIOUS
<1>2. \A p \in S : f[p] \in Nat  BY <1>1
<1>3. PICK g : Sums(g, f, S)  BY <1>2, SumsOfSubsets
<1>4. ASSUME NEW T \in SUBSET S, NEW some, DOMAIN some = T, \A p \in T : some[p] = lines[p]
      PROVE  Total(some, "calls") = g[T]
  <2>1. [p \in DOMAIN some |-> some[p]["calls"]] = [p \in T |-> f[p]]  BY <1>1, <1>4
  <2>2. SumFunction([p \in T |-> f[p]]) = g[T]  BY <1>3 DEF Sums
  <2> QED  BY <2>1, <2>2 DEF Total
<1>5. Total(lines, "calls") = g[S]  BY <1>4
<1>6. \A T \in SUBSET S : Total([p \in T |-> lines[p]], "calls") = g[T]
  <2> TAKE T \in SUBSET S
  <2>1. PICK some : some = [p \in T |-> lines[p]]  OBVIOUS
  <2>2. DOMAIN some = T /\ \A p \in T : some[p] = lines[p]  BY <2>1
  <2> QED  BY <1>4, <2>1, <2>2
<1> QED  BY <1>1, <1>3, <1>5, <1>6

LEMMA LogIsFinite ==
    ASSUME NEW d \in Directories
    PROVE  /\ IsFiniteSet(DOMAIN d.log) /\ IsFiniteSet(Recorded(d))
           /\ \A i \in DOMAIN d.log : d.log[i].calls \in Nat /\ d.log[i].ms \in Nat
           /\ \A step \in Recorded(d) : StepOf(d, step).calls \in Nat /\ StepOf(d, step).ms \in Nat
<1>1. PICK n \in Nat : DOMAIN d.log = 1..n /\ \A i \in 1..n : d.log[i] \in StepLines
  BY DirectoryReadable
<1>2. IsFiniteSet(1..n)  BY FS_Interval
<1>3. PICK f : f = [i \in 1..n |-> d.log[i].step]  OBVIOUS
<1>4. Recorded(d) = {f[i] : i \in 1..n}  BY <1>1, <1>3 DEF Recorded
<1>5. IsFiniteSet({f[i] : i \in 1..n})  BY <1>2, ImageIsFinite
<1> QED  BY <1>1, <1>2, <1>4, <1>5, StepLineKinds, RecordIsLine DEF LineKinds

\* The lines of a log are the last of every step, and the stale ones.
LEMMA StaleExceed ==
    ASSUME NEW d \in Directories
    PROVE  Total(d.log, "calls") = TotalCalls(d) + Total([i \in Stale(d) |-> d.log[i]], "calls")
<1>1. PICK S : S = DOMAIN d.log  OBVIOUS
<1>2. PICK R : R = Recorded(d)  OBVIOUS
<1>3. IsFiniteSet(S) /\ IsFiniteSet(R)  BY <1>1, <1>2, LogIsFinite
<1>4. PICK f : f = [i \in S |-> d.log[i].calls]  OBVIOUS
<1>5. PICK g : /\ Sums(g, f, S) /\ Total(d.log, "calls") = g[S]
               /\ \A T \in SUBSET S : Total([i \in T |-> d.log[i]], "calls") = g[T]
  <2>1. PICK log : log = d.log  OBVIOUS
  <2>2. S = DOMAIN log /\ \A i \in S : log[i].calls \in Nat  BY <1>1, <2>1, LogIsFinite
  <2>3. f = [i \in S |-> log[i].calls]  BY <1>4, <2>1
  <2>4. \E g : /\ Sums(g, f, S) /\ Total(log, "calls") = g[S]
               /\ \A T \in SUBSET S : Total([i \in T |-> log[i]], "calls") = g[T]
    BY <1>3, <2>2, <2>3, CallsAddUp
  <2> QED  BY <2>1, <2>4
<1>6. PICK last : last = [step \in R |-> StepOf(d, step)]  OBVIOUS
<1>7. PICK u : u = [step \in R |-> last[step].calls]  OBVIOUS
<1>8. PICK h : Sums(h, u, R) /\ Total(last, "calls") = h[R]
  <2>1. R = DOMAIN last /\ \A step \in R : last[step].calls \in Nat  BY <1>2, <1>6, LogIsFinite
  <2> QED  BY <1>3, <1>7, <2>1, CallsAddUp
<1>9. PICK place : place = [step \in R |-> CHOOSE k : IsLastOf(d, step, k)
                                                        /\ StepOf(d, step) = d.log[k]]
  OBVIOUS
<1>10. ASSUME NEW step \in R
       PROVE  IsLastOf(d, step, place[step]) /\ StepOf(d, step) = d.log[place[step]]
  <2>1. \E k : IsLastOf(d, step, k) /\ StepOf(d, step) = d.log[k]
    BY <1>2, DirectoryReadable, LastRecord
  <2> QED  BY <1>9, <2>1
<1>11. place \in [R -> S]  BY <1>1, <1>9, <1>10 DEF IsLastOf
<1>12. \A x, y \in R : place[x] = place[y] => x = y  BY <1>10 DEF IsLastOf
<1>13. \A step \in R : u[step] = f[place[step]]  BY <1>4, <1>6, <1>7, <1>10, <1>11
<1>14. PICK A \in SUBSET S : A = {place[step] : step \in R}  BY <1>11
<1>15. h[R] = g[A]  BY <1>3, <1>5, <1>8, <1>11, <1>12, <1>13, <1>14, SumsRename
<1>16. PICK n \in Nat : S = 1..n  BY <1>1, DirectoryReadable
<1>17. Stale(d) = S \ A
  <2>1. ASSUME NEW i \in A
        PROVE  i \notin Stale(d)
    <3>1. PICK step \in R : i = place[step]  BY <1>14
    <3>2. \A j \in S : d.log[j].step = d.log[i].step => j <= i
      BY <1>1, <1>10, <3>1 DEF IsLastOf
    <3>3. \A j \in S : j <= i => ~(j > i)  BY <1>16
    <3> QED  BY <1>1, <3>2, <3>3 DEF Stale
  <2>2. ASSUME NEW i \in S \ A
        PROVE  i \in Stale(d)
    <3>1. d.log[i].step \in R  BY <1>1, <1>2 DEF Recorded
    <3>2. PICK k \in S : k = place[d.log[i].step]  BY <1>11, <3>1
    <3>3. k \in A /\ i <= k /\ d.log[k].step = d.log[i].step
      BY <1>1, <1>10, <1>14, <3>1, <3>2 DEF IsLastOf
    <3>4. k > i  BY <1>16, <3>3
    <3> QED  BY <1>1, <3>3, <3>4 DEF Stale
  <2> QED  BY <1>1, <2>1, <2>2 DEF Stale
<1>18. \A i \in S : f[i] \in Nat  BY <1>1, <1>4, LogIsFinite
<1>19. PICK B \in SUBSET S : B = Stale(d)  BY <1>17
<1>20. A \cap B = {} /\ A \cup B = S  BY <1>17, <1>19
<1>21. g[A \cup B] = g[A] + g[B]  BY <1>3, <1>5, <1>18, <1>20, SumsSplit
<1>22. Total([i \in B |-> d.log[i]], "calls") = g[B]  BY <1>5
<1>23. TotalCalls(d) = h[R]  BY <1>2, <1>6, <1>8 DEF TotalCalls
<1> QED  BY <1>5, <1>15, <1>19, <1>20, <1>21, <1>22, <1>23

LEMMA RoutesAddUp ==
    ASSUME NEW lines, IsFiniteSet(DOMAIN lines), \A p \in DOMAIN lines : lines[p].calls \in Nat
    PROVE  SumFunction([r \in Routes(lines) |-> Total(OfRoute(lines, r), "calls")])
               = Total(RestrictValues(lines, LAMBDA l : l.route # ""), "calls")
<1>1. PICK S : S = DOMAIN lines  OBVIOUS
<1>2. PICK f : f = [p \in S |-> lines[p].calls]  OBVIOUS
<1>3. PICK g : /\ Sums(g, f, S)
               /\ \A T \in SUBSET S : Total([p \in T |-> lines[p]], "calls") = g[T]
  <2>1. IsFiniteSet(S) /\ \A p \in S : lines[p].calls \in Nat  BY <1>1
  <2>2. \E g : /\ Sums(g, [p \in S |-> lines[p].calls], S)
              /\ Total(lines, "calls") = g[S]
              /\ \A T \in SUBSET S : Total([p \in T |-> lines[p]], "calls") = g[T]
    BY <1>1, <2>1, CallsAddUp
  <2> QED  BY <1>2, <2>2
<1>4. PICK key : key = [p \in S |-> lines[p].route]  OBVIOUS
<1>5. PICK K : K = Routes(lines)  OBVIOUS
<1>6. IsFiniteSet(K)
  <2>1. PICK all : all = {key[p] : p \in S}  OBVIOUS
  <2>2. IsFiniteSet(all)  BY <1>1, <2>1, ImageIsFinite
  <2>3. K \in SUBSET all  BY <1>1, <1>4, <1>5, <2>1 DEF Routes
  <2> QED  BY <2>2, <2>3, FS_Subset
<1>7. PICK m : m = [r \in K |-> Total(OfRoute(lines, r), "calls")]  OBVIOUS
<1>8. PICK part : part = [r \in K |-> {p \in S : key[p] = r}]  OBVIOUS
<1>9. ASSUME NEW r \in K
      PROVE  /\ m[r] = g[part[r]] /\ part[r] \in SUBSET S
             /\ \A p \in S : p \in part[r] <=> key[p] = r
  <2>1. PICK T \in SUBSET S : T = {p \in S : key[p] = r}  OBVIOUS
  <2>2. T = {p \in DOMAIN lines : lines[p].route = r}  BY <1>1, <1>4, <2>1
  <2>3. OfRoute(lines, r) = [p \in T |-> lines[p]]  BY <2>2 DEF OfRoute, RestrictValues, Restrict
  <2>4. Total(OfRoute(lines, r), "calls") = g[T]  BY <1>3, <2>3
  <2>5. part[r] = T  BY <1>8, <2>1
  <2> QED  BY <1>7, <2>1, <2>4, <2>5
<1>10. \A p \in S : f[p] \in Nat  BY <1>1, <1>2
<1>11. PICK T \in SUBSET S : T = {p \in S : key[p] \in K}  OBVIOUS
<1>12. SumFunction(m) = g[T]
  <2>1. IsFiniteSet(S) /\ Sums(g, f, S)  BY <1>1, <1>3
  <2>2. m = [r \in K |-> m[r]]  BY <1>7
  <2>3. \A p \in S : p \in T <=> key[p] \in K  BY <1>11
  <2> QED  BY <1>6, <1>9, <1>10, <2>1, <2>2, <2>3, SumsByKey
<1>13. T = {p \in DOMAIN lines : lines[p].route # ""}  BY <1>1, <1>4, <1>5, <1>11 DEF Routes
<1>14. RestrictValues(lines, LAMBDA l : l.route # "") = [p \in T |-> lines[p]]
  BY <1>13 DEF RestrictValues, Restrict
<1> QED  BY <1>3, <1>5, <1>7, <1>12, <1>14

-----------------------------------------------------------------------------
(* The rollup                                                              *)

\* The two directories of a rollup, as a fact to cite: the prover takes a visible
\* tuple apart.
OfBoth(runs, b, c) == runs = <<b, c>>

Users(runs, r) == {i \in DOMAIN runs : r \in Routes(runs[i].log)}

LEMMA RowSums ==
    ASSUME NEW runs, NEW rows, rows = RoutingRollup(runs).byRoute,
           NEW lines, lines = LinesOf(runs, DOMAIN runs)
    PROVE  /\ DOMAIN rows = Routes(lines)
           /\ \A r \in DOMAIN rows : rows[r].sums = SumSteps(OfRoute(lines, r))
BY DEF RoutingRollup

LEMMA RowCounts ==
    ASSUME NEW runs, NEW rows, rows = RoutingRollup(runs).byRoute, NEW r \in DOMAIN rows
    PROVE  /\ rows[r].runs = Cardinality(Users(runs, r))
           /\ rows[r].graded = Cardinality({i \in Users(runs, r) : runs[i].grading # <<>>})
           /\ rows[r].blockerFails
                  = Cardinality({i \in Users(runs, r) : BlockerFailed(runs[i])})
BY DEF RoutingRollup, Users

LEMMA RunSums ==
    ASSUME NEW runs
    PROVE  RoutingRollup(runs).perRun = [i \in DOMAIN runs |-> SumSteps(runs[i].log)]
BY DEF RoutingRollup

LEMMA PassingSums ==
    ASSUME NEW runs, NEW picked, picked = {i \in DOMAIN runs : Passing(runs[i])}
    PROVE  RoutingRollup(runs).passing = SumSteps(LinesOf(runs, picked))
BY DEF RoutingRollup

LEMMA TwoRuns ==
    ASSUME NEW b, NEW c, NEW runs, OfBoth(runs, b, c)
    PROVE  DOMAIN runs = {1, 2} /\ runs[1] = b /\ runs[2] = c /\ IsFiniteSet({1, 2})
<1>1. IsFiniteSet({1} \cup {2})  BY FS_Singleton, FS_AddElement
<1>2. {1} \cup {2} = {1, 2}  OBVIOUS
<1>3. DOMAIN runs = {1, 2} /\ runs[1] = b /\ runs[2] = c  BY DEF OfBoth
<1> QED  BY <1>1, <1>2, <1>3

LEMMA StepsSummed ==
    ASSUME NEW lines
    PROVE  /\ SumSteps(lines).steps = Cardinality(DOMAIN lines)
           /\ SumSteps(lines).calls = Total(lines, "calls")
           /\ SumSteps(lines).ms = Total(lines, "ms")
           /\ SumSteps(lines).cost = Cost(lines)
BY DEF SumSteps

LEMMA LinesGathered ==
    ASSUME NEW b \in Directories, NEW c \in Directories, NEW runs, OfBoth(runs, b, c),
           NEW picked \in SUBSET {1, 2}, NEW lines, lines = LinesOf(runs, picked)
    PROVE  /\ IsFiniteSet(DOMAIN lines)
           /\ \A p \in DOMAIN lines :
                  /\ p[1] \in picked /\ p[2] \in DOMAIN runs[p[1]].log
                  /\ lines[p] = runs[p[1]].log[p[2]] /\ lines[p] \in StepLines
                  /\ lines[p].calls \in Nat
           /\ \A i \in picked : \A k \in DOMAIN runs[i].log :
                  /\ <<i, k>> \in DOMAIN lines
                  /\ lines[<<i, k>>] = runs[i].log[k]
<1>1. runs[1] = b /\ runs[2] = c  BY TwoRuns
<1>2. PICK S : S = UNION {{i} \X DOMAIN runs[i].log : i \in picked}  OBVIOUS
<1>3. lines = [p \in S |-> runs[p[1]].log[p[2]]]  BY <1>2 DEF LinesOf
<1>4. \A i \in picked : runs[i] \in Directories  BY <1>1
<1>5. PICK n \in Nat : \A i \in picked : DOMAIN runs[i].log \subseteq 1..n
  <2>1. PICK n1 \in Nat : DOMAIN b.log = 1..n1  BY DirectoryReadable
  <2>2. PICK n2 \in Nat : DOMAIN c.log = 1..n2  BY DirectoryReadable
  <2>3. n1 + n2 \in Nat /\ 1..n1 \subseteq 1..(n1 + n2) /\ 1..n2 \subseteq 1..(n1 + n2)
    OBVIOUS
  <2>4. \A i \in picked : i = 1 \/ i = 2  OBVIOUS
  <2>5. \A i \in picked : DOMAIN runs[i].log \subseteq 1..(n1 + n2)
    BY <1>1, <2>1, <2>2, <2>3, <2>4
  <2> QED  BY <2>3, <2>5
<1>6. ASSUME NEW p \in S
      PROVE  /\ p[1] \in picked /\ p[2] \in DOMAIN runs[p[1]].log /\ p \in {1, 2} \X (1..n)
             /\ lines[p] = runs[p[1]].log[p[2]] /\ lines[p] \in StepLines
             /\ lines[p].calls \in Nat
  <2>1. PICK i \in picked : p \in {i} \X DOMAIN runs[i].log  BY <1>2
  <2>2. p[1] = i /\ p[2] \in DOMAIN runs[i].log /\ p = <<i, p[2]>>  BY <2>1
  <2>3. i \in {1, 2} /\ p[2] \in 1..n  BY <1>5, <2>2
  <2>4. lines[p] = runs[i].log[p[2]]  BY <1>3, <2>2
  <2>5. runs[i].log[p[2]] \in StepLines  BY <1>4, <2>2, DirectoryReadable
  <2>6. p \in {1, 2} \X (1..n)  BY <2>2, <2>3
  <2> QED  BY <2>2, <2>4, <2>5, <2>6, StepLineKinds DEF LineKinds
<1>7. IsFiniteSet(S)
  <2>1. IsFiniteSet({1, 2})  BY TwoRuns
  <2>2. IsFiniteSet(1..n)  BY FS_Interval
  <2>3. IsFiniteSet({1, 2} \X (1..n))  BY <2>1, <2>2, FS_Product
  <2>4. S \in SUBSET ({1, 2} \X (1..n))  BY <1>6
  <2> QED  BY <2>3, <2>4, FS_Subset
<1>8. ASSUME NEW i \in picked, NEW k \in DOMAIN runs[i].log
      PROVE  <<i, k>> \in S /\ lines[<<i, k>>] = runs[i].log[k]
  <2>1. <<i, k>> \in S  BY <1>2
  <2>2. <<i, k>>[1] = i /\ <<i, k>>[2] = k  OBVIOUS
  <2> QED  BY <1>3, <2>1, <2>2
<1>9. DOMAIN lines = S  BY <1>3
<1> QED  BY <1>6, <1>7, <1>8, <1>9

\* The provider rows add up to the lines that have a route.
LEMMA RowsAddUp ==
    ASSUME NEW b \in Directories, NEW c \in Directories, NEW runs, OfBoth(runs, b, c),
           NEW rows, rows = RoutingRollup(runs).byRoute
    PROVE  SumFunction([r \in DOMAIN rows |-> rows[r].sums.calls])
               = Total(RestrictValues(LinesOf(runs, {1, 2}), LAMBDA l : l.route # ""), "calls")
<1>1. DOMAIN runs = {1, 2}  BY TwoRuns
<1>2. PICK lines : lines = LinesOf(runs, DOMAIN runs) /\ lines = LinesOf(runs, {1, 2})
  BY <1>1
<1>3. /\ DOMAIN rows = Routes(lines)
      /\ \A r \in DOMAIN rows : rows[r].sums = SumSteps(OfRoute(lines, r))
  BY <1>2, RowSums
<1>4. \A r \in DOMAIN rows : rows[r].sums.calls = Total(OfRoute(lines, r), "calls")
  BY <1>3, StepsSummed
<1>5. [r \in DOMAIN rows |-> rows[r].sums.calls]
          = [r \in Routes(lines) |-> Total(OfRoute(lines, r), "calls")]
  BY <1>3, <1>4
<1>6. IsFiniteSet(DOMAIN lines) /\ \A p \in DOMAIN lines : lines[p].calls \in Nat
  BY <1>2, LinesGathered
<1> QED  BY <1>2, <1>5, <1>6, RoutesAddUp

\* A provider's rates are over its own runs, and it has a line of each.
LEMMA RowsCount ==
    ASSUME NEW b \in Directories, NEW c \in Directories, NEW runs, OfBoth(runs, b, c),
           NEW rows, rows = RoutingRollup(runs).byRoute, NEW r \in DOMAIN rows
    PROVE  /\ rows[r].blockerFails <= rows[r].graded /\ rows[r].graded <= rows[r].runs
           /\ rows[r].runs <= rows[r].sums.steps
<1>1. DOMAIN runs = {1, 2}  BY TwoRuns
<1>2. PICK lines : lines = LinesOf(runs, DOMAIN runs) /\ lines = LinesOf(runs, {1, 2})
  BY <1>1
<1>3. PICK U : U = Users(runs, r)  OBVIOUS
<1>4. PICK G : G = {i \in U : runs[i].grading # <<>>}  OBVIOUS
<1>5. PICK F : F = {i \in U : BlockerFailed(runs[i])}  OBVIOUS
<1>6. PICK T : T = DOMAIN OfRoute(lines, r)  OBVIOUS
<1>7. /\ rows[r].runs = Cardinality(U) /\ rows[r].graded = Cardinality(G)
      /\ rows[r].blockerFails = Cardinality(F)
  BY <1>3, <1>4, <1>5, RowCounts
<1>8. rows[r].sums.steps = Cardinality(T)  BY <1>2, <1>6, RowSums, StepsSummed
<1>9. F \in SUBSET G /\ G \in SUBSET U  BY <1>4, <1>5 DEF BlockerFailed
<1>10. U \in SUBSET {1, 2}  BY <1>1, <1>3 DEF Users
<1>11. IsFiniteSet({1, 2})  BY TwoRuns
<1>12. IsFiniteSet(U)  BY <1>10, <1>11, FS_Subset
<1>13. IsFiniteSet(G) /\ Cardinality(G) <= Cardinality(U)  BY <1>9, <1>12, FS_Subset
<1>14. Cardinality(F) <= Cardinality(G)  BY <1>9, <1>13, FS_Subset
<1>15. Cardinality(U) <= Cardinality(T)
  <2>1. T = {p \in DOMAIN lines : lines[p].route = r}
    BY <1>6 DEF OfRoute, RestrictValues, Restrict
  <2>2. IsFiniteSet(T)
    <3>1. IsFiniteSet(DOMAIN lines) /\ T \in SUBSET DOMAIN lines  BY <1>2, <2>1, LinesGathered
    <3> QED  BY <3>1, FS_Subset
  <2>3. \A i \in U : \E k \in DOMAIN runs[i].log : runs[i].log[k].route = r
    BY <1>3 DEF Users, Routes
  <2>4. PICK place : place = [i \in U |-> <<i, CHOOSE k \in DOMAIN runs[i].log :
                                                  runs[i].log[k].route = r>>]
    OBVIOUS
  <2>5. ASSUME NEW i \in U
        PROVE  place[i] \in T /\ place[i][1] = i
    <3>1. PICK k \in DOMAIN runs[i].log : runs[i].log[k].route = r /\ place[i] = <<i, k>>
      BY <2>3, <2>4
    <3>2. <<i, k>> \in DOMAIN lines /\ lines[<<i, k>>] = runs[i].log[k]
      BY <1>2, <1>10, LinesGathered
    <3> QED  BY <2>1, <3>1, <3>2
  <2>6. place \in [U -> T]  BY <2>4, <2>5
  <2>7. \A i, j \in U : place[i] = place[j] => i = j  BY <2>5
  <2>8. place \in Injection(U, T)  BY <2>6, <2>7 DEF Injection, IsInjective
  <2> QED  BY <2>2, <2>8, FS_Injection
<1> QED  BY <1>7, <1>8, <1>13, <1>14, <1>15

\* A line whose cost is not known leaves no total that is.
LEMMA CostHidesNothing ==
    ASSUME NEW b \in Directories, NEW c \in Directories, NEW runs, OfBoth(runs, b, c),
           RoutingRollup(runs).passing.cost # Unknown,
           NEW d \in {b, c}, Passing(d), NEW step \in Recorded(d)
    PROVE  StepOf(d, step).cost # Unknown
<1>1. PICK i \in {1, 2} : runs[i] = d
  <2>1. runs[1] = b /\ runs[2] = c  BY TwoRuns
  <2> QED  BY <2>1
<1>2. PICK picked : picked = {j \in DOMAIN runs : Passing(runs[j])}  OBVIOUS
<1>3. picked \in SUBSET {1, 2}  BY <1>2, TwoRuns
<1>4. PICK lines : lines = LinesOf(runs, picked) /\ Cost(lines) # Unknown
  BY <1>2, PassingSums, StepsSummed
<1>5. \A p \in DOMAIN lines : lines[p].cost # Unknown  BY <1>4 DEF Cost
<1>6. i \in picked  BY <1>1, <1>2, TwoRuns
<1>7. PICK k : k \in DOMAIN d.log /\ StepOf(d, step) = d.log[k]
  BY DirectoryReadable, LastRecord DEF IsLastOf
<1>8. <<i, k>> \in DOMAIN lines /\ lines[<<i, k>>] = d.log[k]
  BY <1>1, <1>3, <1>4, <1>6, <1>7, LinesGathered
<1> QED  BY <1>5, <1>7, <1>8

-----------------------------------------------------------------------------
(* The summary of a launch                                                 *)

\* The agents' rows add up to the steps.
LEMMA AgentsAddUp ==
    ASSUME NEW steps, IsFiniteSet(DOMAIN steps), \A i \in DOMAIN steps : steps[i].calls \in Nat
    PROVE  Total(RoutingSummary(steps), "calls") = Total(steps, "calls")
<1>1. PICK S : S = DOMAIN steps  OBVIOUS
<1>2. PICK f : f = [i \in S |-> steps[i].calls]  OBVIOUS
<1>3. PICK g : /\ Sums(g, f, S) /\ Total(steps, "calls") = g[S]
               /\ \A T \in SUBSET S : Total([i \in T |-> steps[i]], "calls") = g[T]
  BY <1>1, <1>2, CallsAddUp
<1>4. PICK key : key = [i \in S |-> steps[i].agent]  OBVIOUS
<1>5. PICK K : K = {key[i] : i \in S}  OBVIOUS
<1>6. IsFiniteSet(K)  BY <1>1, <1>5, ImageIsFinite
<1>7. PICK rows : rows = RoutingSummary(steps)  OBVIOUS
<1>8. PICK m : m = [a \in K |-> rows[a].calls]  OBVIOUS
<1>9. PICK part : part = [a \in K |-> {i \in S : key[i] = a}]  OBVIOUS
<1>10. DOMAIN rows = K
  <2>1. K = {steps[i].agent : i \in DOMAIN steps}  BY <1>1, <1>4, <1>5
  <2> QED  BY <1>7, <2>1 DEF RoutingSummary
<1>11. ASSUME NEW a \in K
       PROVE  /\ m[a] = g[part[a]] /\ part[a] \in SUBSET S
              /\ \A i \in S : i \in part[a] <=> key[i] = a
  <2>1. PICK T \in SUBSET S : T = {i \in S : key[i] = a}  OBVIOUS
  <2>2. T = {i \in DOMAIN steps : steps[i].agent = a}  BY <1>1, <1>4, <2>1
  <2>3. RestrictValues(steps, LAMBDA s : s.agent = a) = [i \in T |-> steps[i]]
    BY <2>2 DEF RestrictValues, Restrict
  <2>4. a \in {steps[i].agent : i \in DOMAIN steps}  BY <1>1, <1>4, <1>5
  <2>5. rows[a] = SumSteps(RestrictValues(steps, LAMBDA s : s.agent = a))
    BY <1>7, <2>4 DEF RoutingSummary
  <2>6. rows[a].calls = Total([i \in T |-> steps[i]], "calls")  BY <2>3, <2>5, StepsSummed
  <2>7. m[a] = g[T]  BY <1>3, <1>8, <2>6
  <2>8. part[a] = T  BY <1>9, <2>1
  <2> QED  BY <2>1, <2>7, <2>8
<1>12. \A i \in S : f[i] \in Nat  BY <1>1, <1>2
<1>13. SumFunction(m) = g[S]
  <2>1. IsFiniteSet(S) /\ Sums(g, f, S) /\ S \in SUBSET S  BY <1>1, <1>3
  <2>2. m = [a \in K |-> m[a]]  BY <1>8
  <2>3. \A i \in S : i \in S <=> key[i] \in K  BY <1>5
  <2> QED  BY <1>6, <1>11, <1>12, <2>1, <2>2, <2>3, SumsByKey
<1>14. [a \in DOMAIN rows |-> rows[a]["calls"]] = m  BY <1>8, <1>10
<1>15. Total(rows, "calls") = SumFunction(m)  BY <1>14 DEF Total
<1> QED  BY <1>3, <1>7, <1>13, <1>15

\* The row of an agent with one step is that step.
LEMMA OneStepSummed ==
    ASSUME NEW steps, NEW k \in DOMAIN steps, steps[k].ms \in Nat,
           NEW a, \A i \in DOMAIN steps : steps[i].agent = a <=> i = k
    PROVE  /\ a \in DOMAIN RoutingSummary(steps) /\ RoutingSummary(steps)[a].steps = 1
           /\ RoutingSummary(steps)[a].ms = steps[k].ms
<1>1. a \in {steps[i].agent : i \in DOMAIN steps}  OBVIOUS
<1>2. PICK T : T = {k}  OBVIOUS
<1>3. T = {i \in DOMAIN steps : steps[i].agent = a}  BY <1>2
<1>4. PICK own : own = [i \in T |-> steps[i]]  OBVIOUS
<1>5. RestrictValues(steps, LAMBDA s : s.agent = a) = own
  BY <1>3, <1>4 DEF RestrictValues, Restrict
<1>6. DOMAIN RoutingSummary(steps) = {steps[i].agent : i \in DOMAIN steps}
      /\ RoutingSummary(steps)[a] = SumSteps(own)
  BY <1>1, <1>5 DEF RoutingSummary
<1>7. DOMAIN own = T /\ own[k].ms = steps[k].ms  BY <1>2, <1>4
<1>8. IsFiniteSet(T) /\ Cardinality(T) = 1  BY <1>2, FS_Singleton
<1>9. Total(own, "ms") = steps[k].ms
  <2>1. PICK f : f = [i \in T |-> own[i].ms]  OBVIOUS
  <2>2. \A i \in T : f[i] \in Nat  BY <1>2, <1>7, <2>1
  <2>3. PICK g : Sums(g, f, T)  BY <1>8, <2>2, SumsOfSubsets
  <2>4. g[{}] = 0 /\ g[{} \cup {k}] = g[{}] + f[k]
    <3>1. {} \in SUBSET T /\ k \in T \ {}  BY <1>2
    <3> QED  BY <2>3, <3>1 DEF Sums
  <2>5. {} \cup {k} = T /\ T \in SUBSET T  BY <1>2
  <2>6. g[T] = steps[k].ms  BY <1>2, <1>7, <2>1, <2>2, <2>4, <2>5
  <2>7. SumFunction([i \in T |-> f[i]]) = g[T]  BY <2>3, <2>5 DEF Sums
  <2>8. [i \in DOMAIN own |-> own[i]["ms"]] = [i \in T |-> f[i]]  BY <1>7, <2>1
  <2> QED  BY <2>6, <2>7, <2>8 DEF Total
<1> QED  BY <1>1, <1>6, <1>7, <1>8, <1>9, StepsSummed

\* After one launch the log is that launch.
LEMMA OnceIsLaunched ==
    ASSUME TypeOK, Kept, launches = 1
    PROVE  /\ DOMAIN launched = DOMAIN candidate.log /\ OneLaunch(candidate)
           /\ \A i \in DOMAIN launched : launched[i] = Telemetry(candidate.plan.steps[i].owner,
                                                                 candidate.log[i])
<1>1. candidate \in Directories /\ launched \in Seq(Telemetries)
  BY TypesGiveDirectories DEF TypeOK
<1>2. PICK n \in Nat : n = Len(candidate.log) /\ DOMAIN candidate.log = 1..n
  BY <1>1, DirectoryReadable
<1>3. Len(candidate.log) - Len(launched) = 0  BY DEF Kept
<1>4. DOMAIN launched = 1..n /\ Len(launched) = n  BY <1>1, <1>2, <1>3
<1>5. \A i \in 1..n :
          /\ candidate.log[0 + i].step = i
          /\ launched[i] = Telemetry(candidate.plan.steps[i].owner, candidate.log[0 + i])
  <2>1. PICK earlier : earlier = Len(candidate.log) - Len(launched)  OBVIOUS
  <2>2. \A i \in DOMAIN launched :
            /\ candidate.log[earlier + i].step = i
            /\ launched[i] = Telemetry(candidate.plan.steps[i].owner, candidate.log[earlier + i])
    BY <2>1 DEF Kept
  <2> QED  BY <1>3, <1>4, <2>1, <2>2
<1>6. \A i \in 1..n : 0 + i = i  OBVIOUS
<1>7. candidate.plan.steps \in Seq([owner : STRING, type : STRING])
  <2>1. candidate.plan \in Plans \cup {NoPlan}  BY <1>1 DEF Directories
  <2> QED  BY <2>1, PlansHaveSteps
<1>8. \A i \in 1..n : i \in DOMAIN candidate.plan.steps
  <2>1. n <= Len(candidate.plan.steps)  BY <1>4 DEF TypeOK
  <2> QED  BY <1>7, <2>1
<1> QED  BY <1>2, <1>4, <1>5, <1>6, <1>8 DEF OneLaunch

LEMMA SummaryIsRollup ==
    ASSUME TypeOK, Kept, launches = 1
    PROVE  Total(RoutingSummary(launched), "calls") = Total(candidate.log, "calls")
<1>1. PICK log : log = candidate.log  OBVIOUS
<1>2. candidate \in Directories  BY TypesGiveDirectories
<1>3. DOMAIN launched = DOMAIN log
      /\ \A i \in DOMAIN launched : launched[i] = Telemetry(candidate.plan.steps[i].owner, log[i])
  BY <1>1, OnceIsLaunched
<1>4. \A i \in DOMAIN launched : launched[i].calls = log[i].calls  BY <1>3 DEF Telemetry
<1>5. IsFiniteSet(DOMAIN launched) /\ \A i \in DOMAIN launched : launched[i].calls \in Nat
  BY <1>1, <1>2, <1>3, <1>4, LogIsFinite
<1>6. [i \in DOMAIN launched |-> launched[i]["calls"]] = [i \in DOMAIN log |-> log[i]["calls"]]
  BY <1>3, <1>4
<1>7. Total(launched, "calls") = Total(log, "calls")  BY <1>6 DEF Total
<1> QED  BY <1>1, <1>5, <1>7, AgentsAddUp

-----------------------------------------------------------------------------
(* What compare sees                                                       *)

\* Numbers of the same total are ordered as what they are shares of.
LEMMA SharesOrdered ==
    ASSUME NEW x \in Nat, NEW y \in Nat, NEW p \in Nat, NEW q \in Nat, NEW n \in Nat,
           n > 0, x * n = 100 * p, y * n = 100 * q, x < y
    PROVE  p < q
<1>1. PICK k \in Nat : y = x + k /\ k > 0
  <2>1. y - x \in Nat /\ y = x + (y - x) /\ y - x > 0  OBVIOUS
  <2> QED  BY <2>1
<1>2. y * n = x * n + k * n  BY <1>1
<1>3. k * n > 0  BY <1>1
<1>4. x * n \in Nat /\ k * n \in Nat  OBVIOUS
<1> QED  BY <1>2, <1>3, <1>4

LEMMA LossIsTold ==
    ASSUME NEW b \in Directories, NEW c \in Directories, Comparable(b, c), AlikeGraded(b, c),
           Compare(b, c) = "loss"
    PROVE  DiffRuns(b, c).verdict = "regression" \/ Undecided(c)
<1>1. PICK g : g = b.grading[1]  OBVIOUS
<1>2. PICK h : h = c.grading[1]  OBVIOUS
<1>3. PICK E : E = DOMAIN g.verdict  OBVIOUS
<1>4. /\ b.grading # <<>> /\ c.grading # <<>> /\ E = DOMAIN h.verdict
      /\ FollowsPrompt(g) /\ FollowsPrompt(h)
  BY <1>1, <1>2, <1>3 DEF AlikeGraded
<1>5. h.rate < g.rate
  <2>1. PassRate(c) < PassRate(b)  BY DEF Compare
  <2> QED  BY <1>1, <1>2, <2>1 DEF PassRate
<1>6. E \subseteq Expectations /\ g.rate \in Nat /\ h.rate \in Nat
      /\ \A e \in E : h.verdict[e] \in Verdicts
  BY <1>1, <1>2, <1>3, <1>4, GradingIs
<1>7. PICK G : G = {e \in E : g.verdict[e] = "PASS"}  OBVIOUS
<1>8. PICK H : H = {e \in E : h.verdict[e] = "PASS"}  OBVIOUS
<1>9. IsFiniteSet(E)
  <2>1. PICK n \in Nat : Expectations = 1..n  BY Kinds DEF Expectations
  <2>2. IsFiniteSet(Expectations)  BY <2>1, FS_Interval
  <2> QED  BY <1>6, <2>2, FS_Subset
<1>10. IsFiniteSet(G) /\ IsFiniteSet(H)  BY <1>7, <1>8, <1>9, FS_Subset
<1>11. /\ g.rate * Cardinality(E) = 100 * Cardinality(G)
       /\ h.rate * Cardinality(E) = 100 * Cardinality(H)
       /\ E # {}
  BY <1>3, <1>4, <1>7, <1>8 DEF FollowsPrompt
<1>12. /\ Cardinality(E) \in Nat /\ Cardinality(G) \in Nat /\ Cardinality(H) \in Nat
       /\ Cardinality(E) # 0
  BY <1>9, <1>10, <1>11, FS_CardinalityType, FS_EmptySet
<1>13. Cardinality(H) < Cardinality(G)
  <2>1. PICK n \in Nat : n = Cardinality(E) /\ n > 0  BY <1>12
  <2> QED  BY <1>5, <1>6, <1>11, <1>12, <2>1, SharesOrdered
<1>14. PICK e \in E : g.verdict[e] = "PASS" /\ h.verdict[e] # "PASS"
  <2> SUFFICES ASSUME G \in SUBSET H PROVE FALSE
    BY <1>7, <1>8
  <2>1. Cardinality(G) <= Cardinality(H)  BY <1>10, FS_Subset
  <2> QED  BY <1>12, <1>13, <2>1
<1>15. CASE h.verdict[e] = "FAIL"
  <2>1. Lost(b, c, e)  BY <1>1, <1>2, <1>3, <1>4, <1>14, <1>15 DEF Lost
  <2>2. GradingLost(b, c)  BY <1>4, <1>6, <2>1 DEF GradingLost
  <2> QED  BY <2>2, DirectoryReadable, VerdictIsLoss
<1>16. CASE h.verdict[e] = "INCONCLUSIVE"
  <2>1. "INCONCLUSIVE" \in Range(h.verdict)  BY <1>4, <1>16 DEF Range
  <2> QED  BY <1>2, <2>1 DEF Undecided
<1> QED  BY <1>6, <1>14, <1>15, <1>16 DEF Verdicts

\* A grading on one side only is told.
LEMMA MissingIsTold ==
    ASSUME NEW b \in Directories, NEW c \in Directories, Comparable(b, c),
           ~Collects(<<b, c>>), DiffRuns(b, c).verdict = "pass"
    PROVE  b.grading = <<>> /\ c.grading = <<>>
<1>1. b.grading = <<>> \/ c.grading = <<>>
  <2>1. PICK runs : runs = <<b, c>>  OBVIOUS
  <2>2. DOMAIN runs = {1, 2} /\ runs[1] = b /\ runs[2] = c  BY <2>1
  <2>3. "grading" \in b.torn \/ "grading" \in c.torn  BY <2>1, <2>2 DEF Collects
  <2> QED  BY <2>3, FilesAre
<1>2. SUFFICES ASSUME b.grading # <<>> \/ c.grading # <<>> PROVE FALSE
  OBVIOUS
<1>3. PICK flag : flag = [kind |-> "grading_missing", severity |-> "inconclusive"]  OBVIOUS
<1>4. Flag("grading_missing", "inconclusive", b.grading # <<>> \/ c.grading # <<>>) = {flag}
  BY <1>2, <1>3 DEF Flag
<1>5. GradingDiffs(b, c) = AgentDiff("(grading)", {flag})  BY <1>1, <1>4 DEF GradingDiffs
<1>6. DiffOf("(grading)", {flag}) \in ToSet(GradingDiffs(b, c))  BY <1>5, AgentListed
<1>7. DiffOf("(grading)", {flag}).severity = "inconclusive"
  <2>1. Severities({flag}) = {"inconclusive"}  BY <1>3 DEF Severities
  <2>2. Worst({"inconclusive"}, "info") = "inconclusive"  BY DEF Worst
  <2> QED  BY <2>1, <2>2 DEF DiffOf
<1>8. PICK diffs : diffs = AllDiffs(b, c)  OBVIOUS
<1>9. DiffOf("(grading)", {flag}) \in ToSet(diffs)
  BY <1>6, <1>8, DirectoryReadable, AllListed
<1>10. PICK i \in DOMAIN diffs : diffs[i].severity = "inconclusive"
  BY <1>7, <1>9 DEF ToSet
<1>11. DiffRuns(b, c).verdict = Worst({diffs[k].severity : k \in DOMAIN diffs}, "pass")
  BY <1>8 DEF DiffRuns, AllDiffs
<1>12. "inconclusive" \in {diffs[k].severity : k \in DOMAIN diffs}  BY <1>10
<1> QED  BY <1>11, <1>12 DEF Worst

\* A step that failed, and did not in the baseline, is a regression.
LEMMA FailedStepIsTold ==
    ASSUME TypeOK, Kept, StepFailed, Comparable(baseline, candidate),
           Len(launched) \in Recorded(baseline),
           StepOf(baseline, Len(launched)).status = "ok"
    PROVE  DiffRuns(baseline, candidate).verdict = "regression"
<1>1. baseline \in Directories /\ candidate \in Directories /\ launched \in Seq(Telemetries)
  BY TypesGiveDirectories DEF TypeOK
<1>2. PICK i : i = Len(launched)  OBVIOUS
<1>3. i \in DOMAIN launched /\ launched[i].status = "failed"
  BY <1>1, <1>2 DEF StepFailed, Last
<1>4. i \in Recorded(candidate)
      /\ launched[i] = Telemetry(candidate.plan.steps[i].owner, StepOf(candidate, i))
  BY <1>3, LaunchIsLast
<1>5. StepOf(candidate, i).status = "failed"  BY <1>3, <1>4 DEF Telemetry
<1>6. StepLost(StepOf(baseline, i), StepOf(candidate, i))  BY <1>2, <1>5 DEF StepLost
<1> QED  BY <1>1, <1>2, <1>4, <1>6, DirectoryReadable, VerdictIsLoss

\* final_output.json says that a step failed as long as the launch it failed in is over.
FailureTold ==
    stage \in {"final", "graded", "done"} /\ StepFailed => candidate.final = <<FailedOutput>>

LEMMA FailureIsTold == Spec => []FailureTold
<1>1. Init => FailureTold
  BY DEF Init, FailureTold
<1>2. TypeOK /\ FailureTold /\ [Next]_vars => FailureTold'
  <2> SUFFICES ASSUME TypeOK, FailureTold, [Next]_vars PROVE FailureTold'
    OBVIOUS
  <2>1. candidate \in Directories  BY TypesGiveDirectories
  <2>2. CASE Launch
    BY <2>2 DEF Launch, FailureTold
  <2>9. ASSUME NEW plan \in Plans, WritePlan(plan) PROVE FailureTold'
    BY <2>9 DEF WritePlan, FailureTold
  <2>3. ASSUME NEW result \in Results, RunStep(result) PROVE FailureTold'
    BY <2>3 DEF RunStep, FailureTold
  <2>4. ASSUME NEW output \in Outputs \cup {FailedOutput}, WriteFinal(output)
        PROVE  FailureTold'
    <3>1. /\ candidate' = [candidate EXCEPT !.final = <<output>>, !.torn = @ \ {"final"}]
          /\ launched' = launched
          /\ StepFailed => output = FailedOutput
      BY <2>4 DEF WriteFinal
    <3>2. candidate'.final = <<output>>  BY <2>1, <3>1 DEF Directories
    <3>3. StepFailed' = StepFailed  BY <3>1 DEF StepFailed
    <3> QED  BY <3>1, <3>2, <3>3 DEF FailureTold
  <2>5. ASSUME NEW grading \in Gradings, Grade(grading) PROVE FailureTold'
    <3>1. /\ candidate' = [candidate EXCEPT !.grading = <<grading>>, !.torn = @ \ {"grading"}]
          /\ launched' = launched /\ stage = "final"
      BY <2>5 DEF Grade
    <3>2. candidate'.final = candidate.final  BY <2>1, <3>1 DEF Directories
    <3>3. StepFailed' = StepFailed  BY <3>1 DEF StepFailed
    <3> QED  BY <3>1, <3>2, <3>3 DEF FailureTold
  <2>6. CASE Summarise
    BY <2>6 DEF Summarise, FailureTold, StepFailed
  <2>7. CASE Kill
    BY <2>7 DEF Kill, FailureTold
  <2>10. CASE KillWriting
    BY <2>10 DEF KillWriting, FailureTold
  <2>8. CASE UNCHANGED vars
    BY <2>8 DEF vars, FailureTold, StepFailed
  <2> QED  BY <2>2, <2>3, <2>4, <2>5, <2>6, <2>7, <2>8, <2>9, <2>10 DEF Next
<1> QED  BY <1>1, <1>2, TypeCorrect, PTL DEF Spec

\* What such a file makes of the run: aggregate.py has it pass, diff_runs regress.
LEMMA FailedRunIsRead ==
    ASSUME NEW b \in Directories, NEW c \in Directories, c.final = <<FailedOutput>>
    PROVE  /\ Passing(c) <=> ~BlockerFailed(c)
           /\ Comparable(b, c) /\ ~RunFailed(b) => DiffRuns(b, c).verdict = "regression"
<1>1. c.final # <<>> /\ c.final[1].failed
  <2>1. PICK output : output = FailedOutput  OBVIOUS
  <2>2. c.final = <<output>> /\ output.failed  BY <2>1 DEF FailedOutput
  <2> QED  BY <2>2
<1>2. Passing(c) <=> ~BlockerFailed(c)  BY <1>1 DEF Passing, Completed
<1>3. RunFailed(c)  BY <1>1 DEF RunFailed
<1>4. ~RunFailed(b) => OutputLost(b, c)  BY <1>3 DEF OutputLost
<1> QED  BY <1>2, <1>4, DirectoryReadable, VerdictIsLoss

LEMMA SlowerIsMeant ==
    ASSUME NEW b, NEW c, b.ms \in Nat, c.ms \in Nat, Slower \in Signals(b, c)
    PROVE  c.ms - b.ms > 250 /\ (b.ms > 0 => 4 * (c.ms - b.ms) > b.ms)
<1> DEFINE more == c.ms - b.ms
           holds == more > 250 /\ 4 * more > (IF b.ms = 0 THEN 1 ELSE b.ms)
<1>1. Slower \in Flag("latency_increase", "warning", holds)
  BY DEF Signals, Flag, Slower
<1>2. holds  BY <1>1 DEF Flag
<1> QED  BY <1>2

\* A log of one launch has each step at its place.
LEMMA OnceIsInPlace ==
    ASSUME NEW d \in Directories, OneLaunch(d), NEW step \in Recorded(d)
    PROVE  step \in DOMAIN d.log /\ step \in DOMAIN d.plan.steps /\ StepOf(d, step) = d.log[step]
<1>1. PICK k : IsLastOf(d, step, k) /\ StepOf(d, step) = d.log[k]
  BY DirectoryReadable, LastRecord
<1> QED  BY <1>1 DEF IsLastOf, OneLaunch

\* What a directory of one launch says of the agent of one step.
LEMMA OneStepTold ==
    ASSUME NEW d \in Directories, OneLaunch(d), NEW told, DOMAIN told = DOMAIN d.log,
           \A i \in DOMAIN told : told[i] = Telemetry(d.plan.steps[i].owner, d.log[i]),
           NEW step \in Recorded(d), NEW a, a = d.plan.steps[step].owner, HasOneStep(d.plan, a)
    PROVE  /\ a \in DOMAIN RoutingSummary(told) /\ RoutingSummary(told)[a].steps = 1
           /\ RoutingSummary(told)[a].ms = StepOf(d, step).ms
<1>1. step \in DOMAIN told /\ step \in DOMAIN d.plan.steps /\ StepOf(d, step) = d.log[step]
  BY OnceIsInPlace
<1>2. \A i \in DOMAIN told : i \in DOMAIN d.plan.steps  BY DEF OneLaunch
<1>3. \A i \in DOMAIN told : told[i].agent = d.plan.steps[i].owner /\ told[i].ms = d.log[i].ms
  <2> TAKE i \in DOMAIN told
  <2>1. PICK line : line = d.log[i]  OBVIOUS
  <2>2. PICK owner : owner = d.plan.steps[i].owner  OBVIOUS
  <2>3. told[i] = Telemetry(owner, line)  BY <2>1, <2>2
  <2> QED  BY <2>1, <2>2, <2>3 DEF Telemetry
<1>4. \A i \in DOMAIN d.plan.steps : d.plan.steps[i].owner = a <=> i = step
  BY <1>1 DEF HasOneStep
<1>5. \A i \in DOMAIN told : told[i].agent = a <=> i = step  BY <1>2, <1>3, <1>4
<1>6. told[step].ms = StepOf(d, step).ms /\ told[step].ms \in Nat
  BY <1>1, <1>3, LogIsFinite
<1> QED  BY <1>1, <1>5, <1>6, OneStepSummed

\* An agent with one step that is slower to diff_runs is slower to compare.
LEMMA SlowerAgree ==
    ASSUME NEW b \in Directories, NEW c \in Directories, OneLaunch(b), OneLaunch(c),
           c.plan = b.plan,
           NEW told, DOMAIN told = DOMAIN b.log,
           \A i \in DOMAIN told : told[i] = Telemetry(b.plan.steps[i].owner, b.log[i]),
           NEW kept, DOMAIN kept = DOMAIN c.log,
           \A i \in DOMAIN kept : kept[i] = Telemetry(c.plan.steps[i].owner, c.log[i]),
           NEW diff \in ToSet(StepDiffs(b, c)), Slower \in diff.signals,
           HasOneStep(c.plan, diff.agent), RoutingSummary(told)[diff.agent].ms > 0
    PROVE  diff.agent \in SlowerAgents(RoutingSummary(told), RoutingSummary(kept))
<1>1. PICK step \in Recorded(b) \cap Recorded(c) :
          diff \in ToSet(AgentDiff(AgentOf(b, c, step), SignalsAt(b, c, step)))
  BY DirectoryReadable, StepsListed
<1>2. diff = DiffOf(AgentOf(b, c, step), SignalsAt(b, c, step))  BY <1>1, AgentListed
<1>3. PICK a : a = diff.agent  OBVIOUS
<1>4. a = AgentOf(b, c, step) /\ Slower \in Signals(StepOf(b, step), StepOf(c, step))
  BY <1>2, <1>3 DEF DiffOf, SignalsAt
<1>5. step \in DOMAIN c.plan.steps  BY OnceIsInPlace
<1>6. a = c.plan.steps[step].owner /\ a = b.plan.steps[step].owner
  BY <1>4, <1>5 DEF AgentOf
<1>7. PICK x \in Nat : x = StepOf(b, step).ms  BY LogIsFinite
<1>8. PICK y \in Nat : y = StepOf(c, step).ms  BY LogIsFinite
<1>9. y - x > 250 /\ (x > 0 => 4 * (y - x) > x)  BY <1>4, <1>7, <1>8, SlowerIsMeant
<1>10. PICK before : before = RoutingSummary(told)  OBVIOUS
<1>11. PICK after : after = RoutingSummary(kept)  OBVIOUS
<1>12. a \in DOMAIN before /\ before[a].steps = 1 /\ before[a].ms = x
  BY <1>3, <1>6, <1>7, <1>10, OneStepTold
<1>13. a \in DOMAIN after /\ after[a].steps = 1 /\ after[a].ms = y
  BY <1>3, <1>6, <1>8, <1>11, OneStepTold
<1>14. x > 0  BY <1>3, <1>10, <1>12
<1>15. 5 * (y * 1 - x * 1) > x * 1 /\ y * 1 - x * 1 > 50 * 1 * 1  BY <1>9, <1>14
<1>16. a \in SlowerAgents(before, after)  BY <1>12, <1>13, <1>14, <1>15 DEF SlowerAgents
<1> QED  BY <1>3, <1>10, <1>11, <1>16

\* However often a directory is launched and killed, its readers agree: what is in
\* memory is the last record of each step; where aggregate.py can read the gradings, the
\* rollup counts the stale lines and nothing else, the provider rows are the routed
\* lines, with rates over their own runs, no unknown cost is hidden and a directory
\* launched once has its rollup as its summary; where it cannot, diff_runs passes no
\* graded run; a loss that compare sees between runs graded as the prompt asks is a
\* regression unless the grader could not decide; an agent of one step that is slower
\* to diff_runs is slower to compare; a failed step is a regression wherever the kill
\* came; and a run that a failed step ended passes to the one reader and is a
\* regression to the other.
THEOREM ReadersTellTheSame == Spec => []ReadersAgree
<1>1. TypeOK /\ Kept /\ FailureTold => ReadersAgree
  <2> SUFFICES ASSUME TypeOK, Kept, FailureTold PROVE ReadersAgree
    OBVIOUS
  <2>1. baseline \in Directories /\ candidate \in Directories  BY TypesGiveDirectories
  <2> DEFINE runs == <<baseline, candidate>>
             rollup == RoutingRollup(runs)
             log == candidate.log
             stale == {i \in DOMAIN log : \E j \in DOMAIN log : j > i /\ log[j].step = log[i].step}
             diffs == StepDiffs(baseline, candidate)
             verdict == DiffRuns(baseline, candidate).verdict
             last == Len(launched)
             told == [i \in DOMAIN baseline.log |->
                         Telemetry(baseline.plan.steps[i].owner, baseline.log[i])]
  <2>2. OfBoth(runs, baseline, candidate)  BY DEF OfBoth
  <2> HIDE DEF runs
  <2>3. \A i \in DOMAIN launched :
            launched[i] = Telemetry(launched[i].agent, StepOf(candidate, i))
    BY LaunchIsLast
  <2>4. rollup.perRun[2].calls = Total(log, "calls")
    <3>1. rollup.perRun = [i \in DOMAIN runs |-> SumSteps(runs[i].log)]  BY RunSums
    <3>2. 2 \in DOMAIN runs /\ runs[2] = candidate  BY <2>2, TwoRuns
    <3>3. rollup.perRun[2] = SumSteps(log)  BY <3>1, <3>2
    <3> QED  BY <3>3, StepsSummed
  <2>5. rollup.perRun[2].calls
            = TotalCalls(candidate) + Total([i \in stale |-> log[i]], "calls")
    <3>1. stale = Stale(candidate)  BY DEF Stale
    <3> QED  BY <2>1, <2>4, <3>1, StaleExceed
  <2>6. SumFunction([r \in DOMAIN rollup.byRoute |-> rollup.byRoute[r].sums.calls])
            = Total(RestrictValues(LinesOf(runs, {1, 2}), LAMBDA l : l.route # ""), "calls")
    BY <2>1, <2>2, RowsAddUp
  <2>7. \A r \in DOMAIN rollup.byRoute :
            /\ rollup.byRoute[r].blockerFails <= rollup.byRoute[r].graded
            /\ rollup.byRoute[r].graded <= rollup.byRoute[r].runs
            /\ rollup.byRoute[r].runs <= rollup.byRoute[r].sums.steps
    BY <2>1, <2>2, RowsCount
  <2>8. rollup.passing.cost # Unknown =>
            \A d \in {baseline, candidate} : Passing(d) =>
                \A s \in Recorded(d) : StepOf(d, s).cost # Unknown
    BY <2>1, <2>2, CostHidesNothing
  <2>9. ASSUME stage = "done", launches = 1
        PROVE  /\ Total(summary[1], "calls") = rollup.perRun[2].calls
               /\ candidate.plan = baseline.plan /\ OneLaunch(baseline) =>
                      \A i \in DOMAIN diffs :
                          /\ Slower \in diffs[i].signals
                          /\ HasOneStep(candidate.plan, diffs[i].agent)
                          /\ BaselineSummary[diffs[i].agent].ms > 0
                          => diffs[i].agent \in SlowerAgents(BaselineSummary, summary[1])
    <3>1. summary[1] = RoutingSummary(launched)
      <4>1. PICK routing : routing = RoutingSummary(launched)  OBVIOUS
      <4>2. summary = <<routing>>  BY <2>9, <4>1 DEF Kept
      <4> QED  BY <4>1, <4>2
    <3>2. Total(summary[1], "calls") = rollup.perRun[2].calls
      BY <2>4, <2>9, <3>1, SummaryIsRollup
    <3>3. BaselineSummary = RoutingSummary(told)  BY DEF BaselineSummary
    <3>4. ASSUME candidate.plan = baseline.plan, OneLaunch(baseline), NEW i \in DOMAIN diffs,
                 Slower \in diffs[i].signals, HasOneStep(candidate.plan, diffs[i].agent),
                 RoutingSummary(told)[diffs[i].agent].ms > 0
          PROVE  diffs[i].agent \in SlowerAgents(RoutingSummary(told), RoutingSummary(launched))
      <4>1. PICK diff : diff = diffs[i] /\ diff \in ToSet(diffs)  BY DEF ToSet
      <4>2. PICK before : before = told  OBVIOUS
      <4>3. /\ DOMAIN before = DOMAIN baseline.log
            /\ \A j \in DOMAIN before :
                   before[j] = Telemetry(baseline.plan.steps[j].owner, baseline.log[j])
        BY <4>2
      <4>4. /\ DOMAIN launched = DOMAIN candidate.log /\ OneLaunch(candidate)
            /\ \A j \in DOMAIN launched :
                   launched[j] = Telemetry(candidate.plan.steps[j].owner, candidate.log[j])
        BY <2>9, OnceIsLaunched
      <4> HIDE DEF told, diffs
      <4>5. diff.agent \in SlowerAgents(RoutingSummary(before), RoutingSummary(launched))
        <5>1. diff \in ToSet(StepDiffs(baseline, candidate))  BY <4>1 DEF diffs
        <5> QED  BY <2>1, <3>4, <4>1, <4>2, <4>3, <4>4, <5>1, SlowerAgree
      <4> QED  BY <4>1, <4>2, <4>5
    <3> HIDE DEF told, diffs
    <3> QED  BY <3>1, <3>2, <3>3, <3>4
  <2>10. Comparable(baseline, candidate) /\ AlikeGraded(baseline, candidate) =>
             (Compare(baseline, candidate) = "loss" =>
                  verdict = "regression" \/ Undecided(candidate))
    BY <2>1, LossIsTold
  <2>11. stage \in {"final", "graded", "done"} /\ StepFailed =>
             /\ Passing(candidate) <=> ~BlockerFailed(candidate)
             /\ Comparable(baseline, candidate) /\ ~RunFailed(baseline) =>
                    verdict = "regression"
    BY <2>1, FailedRunIsRead DEF FailureTold
  <2>12. ~Collects(runs) /\ Comparable(baseline, candidate) =>
             ("pass" = verdict => baseline.grading = <<>> /\ candidate.grading = <<>>)
    BY <2>1, MissingIsTold DEF runs
  <2>13. StepFailed /\ Comparable(baseline, candidate) =>
             (last \in Recorded(baseline) /\ StepOf(baseline, last).status = "ok" =>
                  verdict = "regression")
    BY FailedStepIsTold
  <2> QED
    <3> HIDE DEF rollup, verdict, last
    <3> QED
      BY <2>3, <2>5, <2>6, <2>7, <2>8, <2>9, <2>10, <2>11, <2>12, <2>13
      DEF ReadersAgree, runs, rollup, verdict, last
<1> QED  BY <1>1, TypeCorrect, LaunchIsKept, FailureIsTold, PTL
===============================================================================
