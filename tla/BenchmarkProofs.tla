---------------------------- MODULE BenchmarkProofs ----------------------------
(***************************************************************************)
(* The orchestrator for any number of jobs, steps and launches: what one   *)
(* line of run.log and of the feed allows the next to be, and the exit     *)
(* code, whatever is killed and launched again.                            *)
(***************************************************************************)
EXTENDS Benchmark, FiniteSetTheorems, SequenceTheorems, TLAPS

-----------------------------------------------------------------------------
(* The inductive invariant                                                 *)

Running == pc \notin {"dead", "exited"}

\* A run is under way from plan_emitted on; it is over after its last step.
Over == {"closing", "writeFinal", "returned"}
InRun == {"announce", "next", "execute", "report", "reportConsole"} \cup Over

\* The types TypeOK gives, with the files as sequences and pos where it is used.
Types ==
    /\ pc \in {"dead", "start", "plan", "announce", "next", "execute", "report",
               "reportConsole", "closing", "writeFinal", "returned", "summarise",
               "exited"}
    /\ launches \in 0..MaxLaunches
    /\ job \in Jobs
    /\ size \in 0..MaxSteps
    /\ pos \in 0..(size + 1)
    /\ pc \in {"announce", "next"} => pos \in 1..(size + 1)
    /\ pc \in {"execute", "report", "reportConsole"} => pos \in 1..size
    /\ pc \in Over /\ outcome.status = "failed" => pos \in 1..size
    /\ outcome \in [status : {"ok", "failed"}, llm : StepCalls \cup {0}]
    /\ pc = "report" => outcome.llm \in StepCalls
    /\ llmTotal \in Nat
    /\ exit \in {"none", "0", "1"}

FileTypes ==
    /\ log \in [Jobs -> Seq(LogLines)]
    /\ feed \in Seq(FeedLines)
    /\ console \in [Jobs -> Seq(ConsoleLines)]
    /\ final \in [Jobs -> FinalFiles]
    /\ grading \in [Jobs -> Gradings]

LastFed == feed[Len(feed)]
LastLogged == log[job][Len(log[job])]

\* What the feed ends with, by the place the process is at.
FeedAt ==
    /\ pc \in {"next", "execute", "report", "reportConsole", "closing"} => feed # <<>>
    /\ pc = "announce" => pos = 1
    /\ pc = "next" =>
        \/ pos = 1 /\ LastFed.ev = "crew_start"
        \/ LastFed.ev = "task_end" /\ LastFed.status = "ok" /\ pos = LastFed.step + 1
    /\ pc \in {"execute", "report"} => LastFed.ev = "task_open" /\ LastFed.step = pos
    /\ pc = "reportConsole" =>
        /\ LastFed.ev = "task_end" /\ LastFed.step = pos
        /\ LastFed.status = IF outcome.status = "ok" THEN "ok" ELSE "error"
    /\ pc = "closing" =>
        \/ outcome.status = "ok" /\ LastFed.ev = "crew_start"
        \/ /\ LastFed.ev = "task_end"
           /\ LastFed.status = IF outcome.status = "ok" THEN "ok" ELSE "error"

\* What the run.log of the job ends with.
LogAt ==
    /\ pc \in {"announce", "next", "execute", "report", "reportConsole"} =>
           log[job] # <<>>
    /\ pc \in {"announce", "next", "execute"} =>
        \/ pos = 1 /\ LastLogged.ev = "plan_emitted"
        \/ LastLogged.ev = "step_done" /\ LastLogged.status = "ok"
           /\ pos = LastLogged.step + 1
    /\ pc \in {"report", "reportConsole"} =>
        /\ LastLogged.ev = "step_done" /\ LastLogged.step = pos
        /\ LastLogged.status = outcome.status

\* The statuses in memory are those of the jobs that are over, as they are on disk.
StatusesAt ==
    /\ statuses \in Seq({"ok", "failed"}) /\ Len(statuses) <= NJobs
    /\ summary \in Seq({"ok", "failed"}) /\ Len(summary) <= NJobs
    /\ Running =>
        /\ exit = "none"
        /\ Len(statuses) = IF pc = "summarise" THEN NJobs ELSE job - 1
        /\ \A j \in 1..Len(statuses) : statuses[j] = final[j]
        /\ pc = "returned" => final[job] = outcome.status
    /\ pc = "dead" => exit = "none"

\* The step_done lines of a job and of all, and the reports the streams have of them.
Recorded(j) == Cardinality(LinesOf({"step_done"}, log[j]))
RecordedInAll == Cardinality(Records)
ShownOnConsole(j) == Cardinality(LinesOf({"step.complete", "step.failed"}, console[j]))
ShownOnFeed == Cardinality(LinesOf({"task_end"}, feed))

\* The step that has its record, and not yet its report.
PendingOnConsole(j) == IF job = j /\ pc \in {"report", "reportConsole"} THEN 1 ELSE 0
PendingOnFeed == IF pc = "report" THEN 1 ELSE 0

\* The launch under way has lost no report so far.
Within(shown, recorded, pending) ==
    /\ shown <= recorded /\ recorded <= shown + launches
    /\ Running => /\ shown + pending <= recorded
                  /\ recorded + 1 <= shown + pending + launches

CountsAt ==
    /\ IsFiniteSet(Records)
    /\ \A j \in Jobs : Within(ShownOnConsole(j), Recorded(j), PendingOnConsole(j))
    /\ Within(ShownOnFeed, RecordedInAll, PendingOnFeed)

\* How many steps of the run under way run.log has, and how the last one did.
StepsDone == IF pc \in {"announce", "next", "execute"} THEN pos - 1
             ELSE IF pc \in Over /\ outcome.status = "ok" THEN size ELSE pos
LastStatus == IF pc \in {"announce", "next", "execute"} THEN "ok" ELSE outcome.status

Calls(run) == [i \in DOMAIN run |-> run[i].llm]

\* The run under way in run.log, and llm_total as its sum.
RunAt ==
    pc \in InRun =>
        LET run == ThisRun(log[job])
        IN /\ run \in Seq(LogLines) /\ Len(run) = StepsDone
           /\ \A i \in 1..StepsDone :
                 /\ run[i].ev = "step_done"
                 /\ run[i].status = IF i = StepsDone THEN LastStatus ELSE "ok"
           /\ llmTotal = SumFunction(Calls(run))

\* What the two streams end with once they are closed.
StreamsAt ==
    pc \in {"writeFinal", "returned"} =>
        /\ Last(feed) = [ev |-> "crew_end", status |-> outcome.status]
        /\ Last(console[job]) = [ev |-> "run.complete", llm |-> llmTotal,
                                 steps |-> StepsDone]

IInv == /\ Types /\ FileTypes /\ FeedAt /\ FeedWellBracketed
        /\ LogAt /\ LogStopsAtFailure /\ StatusesAt /\ ExitCodeHonest
        /\ CountsAt /\ RunAt /\ StreamsAt

-----------------------------------------------------------------------------
(* Induction, sums and counts: what the operators on files return          *)

\* Induction over the naturals, for a set rather than a predicate.
LEMMA NatSetInduction ==
    ASSUME NEW S, 0 \in S, \A n \in Nat : n \in S => n + 1 \in S
    PROVE  Nat \subseteq S
<1> SUFFICES ASSUME Nat \ S # {} PROVE FALSE
  OBVIOUS
<1>1. PICK R : R = OpToRel(<, Nat)  OBVIOUS
<1>2. IsWellFoundedOn(R, Nat)  BY <1>1, NatLessThanWellFounded
<1>3. \A x, y \in Nat : y < x => <<y, x>> \in R  BY <1>1 DEF OpToRel
<1>4. PICK T : T = Nat \ S  OBVIOUS
<1>5. T \subseteq Nat /\ T # {}  BY <1>4
<1>6. PICK n \in T : \A m \in T : ~(<<m, n>> \in R)
  BY <1>2, <1>5, WFMin
<1>7. n \in Nat /\ n \notin S /\ n # 0  BY <1>4, <1>6
<1>8. n - 1 \in Nat /\ n - 1 < n /\ (n - 1) + 1 = n  BY <1>7
<1>9. n - 1 \notin T  BY <1>3, <1>6, <1>7, <1>8
<1> QED  BY <1>4, <1>7, <1>8, <1>9

\* A set of naturals up to n that is not empty has its Max.
LEMMA MaxBounds ==
    ASSUME NEW n \in Nat, NEW S \in SUBSET (1..n), S # {}
    PROVE  Max(S) \in S /\ \A y \in S : y <= Max(S)
<1> DEFINE Below == {k \in Nat : (\E y \in S : k < y) \/ (\E x \in S : \A y \in S : x >= y)}
<1>1. 0 \in Below
  <2>1. PICK y \in S : TRUE  OBVIOUS
  <2>2. 0 < y  BY <2>1
  <2> QED  BY <2>1, <2>2
<1>2. ASSUME NEW k \in Nat, k \in Below PROVE k + 1 \in Below
  <2>1. CASE \E x \in S : \A y \in S : x >= y  BY <2>1
  <2>2. CASE \E y \in S : k < y
    <3>1. PICK y \in S : k < y  BY <2>2
    <3>2. CASE \E z \in S : k + 1 < z  BY <3>2
    <3>3. CASE \A z \in S : ~(k + 1 < z)
      <4>1. \A z \in S : y >= z  BY <3>1, <3>3
      <4> QED  BY <4>1
    <3> QED  BY <3>2, <3>3
  <2> QED  BY <1>2, <2>1, <2>2
<1> HIDE DEF Below
<1>3. n \in Below  BY <1>1, <1>2, NatSetInduction
<1>4. \E x \in S : \A y \in S : x >= y  BY <1>3 DEF Below
<1>5. Max(S) \in S /\ \A y \in S : Max(S) >= y  BY <1>4 DEF Max
<1> QED  BY <1>5

\* The equation of SumFunctionOnSet: g adds f up over the subsets of S.
Adds(g, f, S) ==
    g = [s \in SUBSET S |-> IF s = {} THEN 0
                            ELSE f[CHOOSE x \in s : TRUE] + g[s \ {CHOOSE x \in s : TRUE}]]

IsSum(g, f, S) == g \in [SUBSET S -> Nat] /\ Adds(g, f, S)

LEMMA SumsExist ==
    ASSUME NEW S, IsFiniteSet(S), NEW f \in [S -> Nat]
    PROVE  \E g : IsSum(g, f, S)
<1> DEFINE c(s) == CHOOSE x \in s : TRUE
           UpTo(n) == {g \in [SUBSET S -> Nat] : \A s \in SUBSET S : Cardinality(s) <= n =>
                           g[s] = IF s = {} THEN 0 ELSE f[c(s)] + g[s \ {c(s)}]}
           Ns == {n \in Nat : UpTo(n) # {}}
<1>1. \A s \in SUBSET S : IsFiniteSet(s) /\ Cardinality(s) \in Nat
  BY FS_Subset, FS_CardinalityType
<1>2. \A s \in SUBSET S : s # {} => c(s) \in s
  OBVIOUS
<1> HIDE DEF c
<1>3. \A s \in SUBSET S : s # {} =>
          s \ {c(s)} \in SUBSET S /\ Cardinality(s \ {c(s)}) = Cardinality(s) - 1
  BY <1>1, <1>2, FS_RemoveElement
<1>4. 0 \in Ns
  <2>1. \A s \in SUBSET S : Cardinality(s) <= 0 => s = {}
    BY <1>1, FS_EmptySet
  <2>2. [s \in SUBSET S |-> 0] \in UpTo(0)  BY <2>1
  <2> QED  BY <2>2
<1>5. ASSUME NEW n \in Nat, n \in Ns
      PROVE  n + 1 \in Ns
  <2>1. PICK g \in [SUBSET S -> Nat] : \A s \in SUBSET S : Cardinality(s) <= n =>
            g[s] = IF s = {} THEN 0 ELSE f[c(s)] + g[s \ {c(s)}]
    BY <1>5
  <2> DEFINE h == [s \in SUBSET S |-> IF Cardinality(s) <= n THEN g[s]
                                      ELSE f[c(s)] + g[s \ {c(s)}]]
  <2>2. Cardinality({}) = 0  BY FS_EmptySet
  <2>3. ASSUME NEW s \in SUBSET S, ~(Cardinality(s) <= n)
        PROVE  s # {} /\ f[c(s)] + g[s \ {c(s)}] \in Nat
    <3>1. s # {}
      <4> SUFFICES ASSUME s = {} PROVE FALSE
        OBVIOUS
      <4> QED  BY <2>2, <2>3
    <3>2. c(s) \in S /\ s \ {c(s)} \in SUBSET S  BY <1>2, <1>3, <3>1
    <3> QED  BY <3>1, <3>2
  <2>4. h \in [SUBSET S -> Nat]  BY <2>3
  <2>5. ASSUME NEW s \in SUBSET S, Cardinality(s) <= n + 1, s # {}
        PROVE  h[s] = f[c(s)] + h[s \ {c(s)}]
    <3>1. s \ {c(s)} \in SUBSET S /\ Cardinality(s \ {c(s)}) <= n  BY <1>1, <1>3, <2>5
    <3>2. h[s \ {c(s)}] = g[s \ {c(s)}]  BY <3>1
    <3>3. CASE Cardinality(s) <= n  BY <3>3, <2>1, <3>2, <2>5
    <3>4. CASE ~(Cardinality(s) <= n)  BY <3>4, <3>2
    <3> QED  BY <3>3, <3>4
  <2>6. h[{}] = 0  BY <2>1, <2>2
  <2> HIDE DEF h
  <2>7. h \in UpTo(n + 1)  BY <2>4, <2>5, <2>6
  <2>8. UpTo(n + 1) # {}  BY <2>7
  <2> HIDE DEF UpTo
  <2> QED  BY <2>8
<1> HIDE DEF Ns
<1>6. Nat \subseteq Ns  BY <1>4, <1>5, NatSetInduction
<1>7. Cardinality(S) \in Nat  BY FS_CardinalityType
<1>8. PICK g : g \in UpTo(Cardinality(S))  BY <1>6, <1>7 DEF Ns
<1>9. \A s \in SUBSET S : Cardinality(s) <= Cardinality(S)  BY FS_Subset
<1>10. \A s \in SUBSET S : g[s] = IF s = {} THEN 0 ELSE f[c(s)] + g[s \ {c(s)}]
  BY <1>8, <1>9
<1>11. g \in [SUBSET S -> Nat]  BY <1>8
<1> HIDE DEF UpTo
<1>12. Adds(g, f, S)  BY <1>10, <1>11 DEF Adds, c
<1> QED  BY <1>11, <1>12 DEF IsSum

\* It does not matter which element is added first.
LEMMA SumAdds ==
    ASSUME NEW S, IsFiniteSet(S), NEW f \in [S -> Nat], NEW g, IsSum(g, f, S),
           NEW T \in SUBSET S, NEW x \in S \ T
    PROVE  g[T \cup {x}] = g[T] + f[x]
<1> DEFINE c(s) == CHOOSE y \in s : TRUE
           Ns == {n \in Nat : \A s \in SUBSET S : \A y \in S \ s :
                      Cardinality(s) = n => g[s \cup {y}] = g[s] + f[y]}
<1>1. \A s \in SUBSET S : IsFiniteSet(s) /\ Cardinality(s) \in Nat
  BY FS_Subset, FS_CardinalityType
<1>2. \A s \in SUBSET S : s # {} => c(s) \in s
  OBVIOUS
<1> HIDE DEF c
<1>3. \A s \in SUBSET S : s # {} =>
          s \ {c(s)} \in SUBSET S /\ Cardinality(s \ {c(s)}) = Cardinality(s) - 1
  BY <1>1, <1>2, FS_RemoveElement
<1>4. /\ g \in [SUBSET S -> Nat] /\ g[{}] = 0
      /\ \A s \in SUBSET S : s # {} => g[s] = f[c(s)] + g[s \ {c(s)}]
  BY DEF IsSum, Adds, c
<1>5. 0 \in Ns
  <2>1. ASSUME NEW s \in SUBSET S, NEW y \in S \ s, Cardinality(s) = 0
        PROVE  g[s \cup {y}] = g[s] + f[y]
    <3>1. s = {}  BY <1>1, <2>1, FS_EmptySet
    <3>2. c({y}) = y /\ {y} \in SUBSET S /\ {y} \ {y} = {} /\ s \cup {y} = {y}  BY <1>2, <3>1
    <3>3. g[{y}] = f[y] + g[{y} \ {y}]  BY <1>4, <3>2
    <3> QED  BY <1>4, <3>1, <3>2, <3>3
  <2> QED  BY <2>1
<1>6. ASSUME NEW n \in Nat, n \in Ns
      PROVE  n + 1 \in Ns
  <2>1. ASSUME NEW s \in SUBSET S, NEW y \in S \ s, Cardinality(s) = n + 1
        PROVE  g[s \cup {y}] = g[s] + f[y]
    <3>1. PICK u \in SUBSET S : u = s \cup {y}  OBVIOUS
    <3>2. u # {} /\ c(u) \in u  BY <1>2, <3>1
    <3>3. g[u] = f[c(u)] + g[u \ {c(u)}]  BY <1>4, <3>2
    <3>4. CASE c(u) = y
      <4>1. u \ {c(u)} = s  BY <3>1, <3>4
      <4>2. g[u] = f[y] + g[s]  BY <3>3, <3>4, <4>1
      <4>3. f[y] \in Nat /\ g[s] \in Nat  BY <1>4
      <4> QED  BY <3>1, <4>2, <4>3
    <3>5. CASE c(u) # y
      <4>1. PICK z \in s : z = c(u)  BY <3>1, <3>2, <3>5
      <4>2. PICK r \in SUBSET S : r = s \ {z}  OBVIOUS
      <4>3. u \ {c(u)} = r \cup {y} /\ y \in S \ r /\ z \in S \ r /\ r \cup {z} = s
        BY <3>1, <3>5, <4>1, <4>2
      <4>4. Cardinality(r) = n
        BY <1>1, <2>1, <4>1, <4>2, FS_RemoveElement
      <4>5. g[r \cup {y}] = g[r] + f[y] /\ g[r \cup {z}] = g[r] + f[z]
        BY <1>6, <4>3, <4>4
      <4>6. g[u] = f[z] + (g[r] + f[y]) /\ g[s] = g[r] + f[z]
        BY <3>3, <4>1, <4>3, <4>5
      <4>7. f[y] \in Nat /\ f[z] \in Nat /\ g[r] \in Nat  BY <1>4
      <4> QED  BY <3>1, <4>6, <4>7
    <3> QED  BY <3>4, <3>5
  <2> QED  BY <2>1
<1> HIDE DEF Ns
<1>7. Nat \subseteq Ns  BY <1>5, <1>6, NatSetInduction
<1> QED  BY <1>1, <1>7 DEF Ns

\* A function with the equation of SumFunctionOnSet's adds up naturals.
LEMMA SumsAreNat ==
    ASSUME NEW S, IsFiniteSet(S), NEW f \in [S -> Nat], NEW g, Adds(g, f, S)
    PROVE  IsSum(g, f, S)
<1> DEFINE c(s) == CHOOSE x \in s : TRUE
           Ns == {n \in Nat : \A s \in SUBSET S : Cardinality(s) = n => g[s] \in Nat}
<1>1. \A s \in SUBSET S : IsFiniteSet(s) /\ Cardinality(s) \in Nat
  BY FS_Subset, FS_CardinalityType
<1>2. \A s \in SUBSET S : s # {} => c(s) \in s
  OBVIOUS
<1>3. \A s \in SUBSET S : g[s] = IF s = {} THEN 0 ELSE f[c(s)] + g[s \ {c(s)}]
  BY DEF Adds
<1>4. g = [s \in SUBSET S |-> g[s]]
  BY DEF Adds
<1> HIDE DEF c
<1>5. \A s \in SUBSET S : s # {} =>
          s \ {c(s)} \in SUBSET S /\ Cardinality(s \ {c(s)}) = Cardinality(s) - 1
  BY <1>1, <1>2, FS_RemoveElement
<1>6. 0 \in Ns
  <2>1. \A s \in SUBSET S : Cardinality(s) = 0 => s = {}
    BY <1>1, FS_EmptySet
  <2>2. \A s \in SUBSET S : Cardinality(s) = 0 => g[s] = 0  BY <1>3, <2>1
  <2> QED  BY <2>2
<1>7. ASSUME NEW n \in Nat, n \in Ns
      PROVE  n + 1 \in Ns
  <2>1. ASSUME NEW s \in SUBSET S, Cardinality(s) = n + 1, s # {}
        PROVE  g[s] \in Nat
    <3>1. s \ {c(s)} \in SUBSET S /\ Cardinality(s \ {c(s)}) = n  BY <1>5, <2>1
    <3>2. g[s \ {c(s)}] \in Nat  BY <1>7, <3>1
    <3>3. f[c(s)] \in Nat  BY <1>2, <2>1
    <3>4. g[s] = f[c(s)] + g[s \ {c(s)}]  BY <1>3, <2>1
    <3> QED  BY <3>2, <3>3, <3>4
  <2>2. g[{}] = 0  BY <1>3
  <2>3. ASSUME NEW s \in SUBSET S, Cardinality(s) = n + 1
        PROVE  g[s] \in Nat
    <3>1. CASE s = {}  BY <2>2, <3>1
    <3> QED  BY <2>1, <2>3, <3>1
  <2> QED  BY <2>3
<1> HIDE DEF Ns
<1>8. Nat \subseteq Ns  BY <1>6, <1>7, NatSetInduction
<1>9. \A s \in SUBSET S : g[s] \in Nat  BY <1>1, <1>8 DEF Ns
<1>10. g \in [SUBSET S -> Nat]  BY <1>4, <1>9
<1> QED  BY <1>10 DEF IsSum

\* What SumFunction computes: a running total.
LEMMA SumIsRunningTotal ==
    ASSUME NEW n \in Nat, NEW f \in [1..n -> Nat]
    PROVE  \E t \in [0..n -> Nat] : /\ t[0] = 0
                                    /\ \A i \in 1..n : t[i] = t[i - 1] + f[i]
                                    /\ SumFunction(f) = t[n]
<1> DEFINE it == CHOOSE g : Adds(g, f, 1..n)
<1>1. IsFiniteSet(1..n)  BY FS_Interval
<1>2. \E g : Adds(g, f, 1..n)  BY <1>1, SumsExist DEF IsSum
<1>3. Adds(it, f, 1..n)  BY <1>2
<1>4. DOMAIN f = 1..n  OBVIOUS
<1>5. SumFunction(f) = it[1..n]
  BY <1>4 DEF SumFunction, SumFunctionOnSet, FoldFunctionOnSet, MapThenFoldSet, Adds
<1>6. PICK g : g = it  OBVIOUS
<1>7. IsSum(g, f, 1..n)  BY <1>1, <1>3, <1>6, SumsAreNat
<1>8. \A k \in 0..n : 1..k \in SUBSET (1..n) /\ g[1..k] \in Nat  BY <1>7 DEF IsSum
<1> DEFINE t == [k \in 0..n |-> g[1..k]]
<1>9. t[0] = 0
  <2>1. 1..0 = {} /\ {} \in SUBSET (1..n)  OBVIOUS
  <2>2. g[{}] = 0  BY <1>7, <2>1 DEF IsSum, Adds
  <2> QED  BY <2>1, <2>2
<1>10. ASSUME NEW i \in 1..n
       PROVE  t[i] = t[i - 1] + f[i]
  <2>1. PICK s \in SUBSET (1..n) : s = 1..(i - 1)  OBVIOUS
  <2>2. i \in (1..n) \ s /\ 1..i = s \cup {i} /\ i - 1 \in 0..n /\ i \in 0..n  BY <2>1
  <2>3. g[s \cup {i}] = g[s] + f[i]  BY <1>1, <1>7, <2>2, SumAdds
  <2>4. t[i] = g[1..i] /\ t[i - 1] = g[1..(i - 1)]  BY <2>2
  <2> QED  BY <2>1, <2>2, <2>3, <2>4
<1>11. t \in [0..n -> Nat] /\ t[n] = g[1..n]  BY <1>8
<1> HIDE DEF t
<1> QED  BY <1>5, <1>6, <1>9, <1>10, <1>11

\* The sum of one more.
LEMMA SumGrows ==
    ASSUME NEW n \in Nat, NEW f \in [1..n -> Nat], NEW g \in [1..(n + 1) -> Nat],
           \A i \in 1..n : g[i] = f[i]
    PROVE  SumFunction(g) = SumFunction(f) + g[n + 1]
<1>1. PICK t \in [0..n -> Nat] : /\ t[0] = 0
                                 /\ \A i \in 1..n : t[i] = t[i - 1] + f[i]
                                 /\ SumFunction(f) = t[n]
  BY SumIsRunningTotal
<1>2. PICK u \in [0..(n + 1) -> Nat] : /\ u[0] = 0
                                       /\ \A i \in 1..(n + 1) : u[i] = u[i - 1] + g[i]
                                       /\ SumFunction(g) = u[n + 1]
  <2>1. n + 1 \in Nat  OBVIOUS
  <2> QED  BY <2>1, SumIsRunningTotal
<1> DEFINE Ns == {k \in Nat : k <= n => t[k] = u[k]}
<1>3. 0 \in Ns  BY <1>1, <1>2
<1>4. ASSUME NEW k \in Nat, k \in Ns
      PROVE  k + 1 \in Ns
  <2>1. ASSUME k + 1 <= n
        PROVE  t[k + 1] = u[k + 1]
    <3>1. k + 1 \in 1..n /\ k + 1 \in 1..(n + 1) /\ (k + 1) - 1 = k  BY <2>1
    <3>2. t[k + 1] = t[k] + f[k + 1]  BY <1>1, <3>1
    <3>3. u[k + 1] = u[k] + g[k + 1]  BY <1>2, <3>1
    <3>4. t[k] = u[k]  BY <1>4, <2>1
    <3> QED  BY <3>1, <3>2, <3>3, <3>4
  <2> QED  BY <2>1
<1> HIDE DEF Ns
<1>5. t[n] = u[n]
  <2>1. n \in Ns  BY <1>3, <1>4, NatSetInduction
  <2> QED  BY <2>1 DEF Ns
<1>6. u[n + 1] = u[n] + g[n + 1]
  <2>1. n + 1 \in 1..(n + 1) /\ (n + 1) - 1 = n  OBVIOUS
  <2> QED  BY <1>2, <2>1
<1> QED  BY <1>1, <1>2, <1>5, <1>6

\* Nothing adds up to 0.
LEMMA SumOfNone ==
    ASSUME NEW f \in [1..0 -> Nat]
    PROVE  SumFunction(f) = 0
<1>1. \E t \in [0..0 -> Nat] : t[0] = 0 /\ SumFunction(f) = t[0]
  BY 0 \in Nat, SumIsRunningTotal
<1> QED  BY <1>1

\* What appending does.
LEMMA Grown ==
    ASSUME NEW S, NEW s \in Seq(S), NEW e \in S
    PROVE  /\ Append(s, e) \in Seq(S)
           /\ Len(Append(s, e)) = Len(s) + 1
           /\ Len(s) \in Nat
           /\ Append(s, e) # <<>>
           /\ \A i \in 1..Len(s) : Append(s, e)[i] = s[i]
           /\ Append(s, e)[Len(s) + 1] = e
OBVIOUS

\* Counting the lines of a file that one line is appended to.
LEMMA CountGrows ==
    ASSUME NEW evs, NEW S, NEW s \in Seq(S), NEW e
    PROVE  /\ LinesOf(evs, s) \subseteq 1..Len(s)
           /\ Cardinality(LinesOf(evs, s)) \in Nat
           /\ LinesOf(evs, Append(s, e)) =
                  IF e.ev \in evs THEN LinesOf(evs, s) \cup {Len(s) + 1} ELSE LinesOf(evs, s)
           /\ Cardinality(LinesOf(evs, Append(s, e))) =
                  Cardinality(LinesOf(evs, s)) + IF e.ev \in evs THEN 1 ELSE 0
<1> DEFINE A == LinesOf(evs, s)
           B == LinesOf(evs, Append(s, e))
<1>1. /\ Len(s) \in Nat /\ DOMAIN s = 1..Len(s)
      /\ DOMAIN Append(s, e) = 1..(Len(s) + 1)
      /\ \A i \in 1..Len(s) : Append(s, e)[i] = s[i]
      /\ Append(s, e)[Len(s) + 1] = e
  OBVIOUS
<1>2. A \subseteq 1..Len(s)  BY <1>1 DEF LinesOf
<1>3. IsFiniteSet(A) /\ Cardinality(A) \in Nat
  <2>1. IsFiniteSet(1..Len(s))  BY <1>1, FS_Interval
  <2> QED  BY <1>2, <2>1, FS_Subset, FS_CardinalityType
<1>4. B = IF e.ev \in evs THEN A \cup {Len(s) + 1} ELSE A
  BY <1>1 DEF LinesOf
<1>5. Len(s) + 1 \notin A  BY <1>1, <1>2
<1> HIDE DEF A, B
<1>6. CASE e.ev \in evs
  <2>1. Cardinality(B) = Cardinality(A) + 1  BY <1>3, <1>4, <1>5, <1>6, FS_AddElement
  <2> QED  BY <1>2, <1>3, <1>4, <1>6, <2>1 DEF A, B
<1>7. CASE e.ev \notin evs
  BY <1>2, <1>3, <1>4, <1>7 DEF A, B
<1> QED  BY <1>6, <1>7

\* The lines after the last plan_emitted, when one more is written.
LEMMA RunStarts ==
    ASSUME NEW s \in Seq(LogLines), NEW e \in LogLines, e.ev = "plan_emitted"
    PROVE  ThisRun(Append(s, e)) = <<>>
<1> DEFINE I == {i \in 1..Len(Append(s, e)) : Append(s, e)[i].ev = "plan_emitted"}
<1>1. /\ Len(s) \in Nat /\ Len(Append(s, e)) = Len(s) + 1
      /\ Append(s, e)[Len(s) + 1] = e
  OBVIOUS
<1>2. Len(s) + 1 \in I /\ \A i \in I : i \in Nat /\ Len(s) + 1 >= i
  BY <1>1
<1>3. I # {} /\ Max(I) = Len(s) + 1
  <2> HIDE DEF I
  <2>1. PICK m : m = Max(I)  OBVIOUS
  <2>2. m \in I /\ \A i \in I : m >= i  BY <1>2, <2>1 DEF Max
  <2>3. m = Len(s) + 1
     BY <1>1, <1>2, <2>2
  <2> QED  BY <1>2, <2>1, <2>3
<1>4. SelectLastInSeq(Append(s, e), LAMBDA line : line.ev = "plan_emitted") = Len(s) + 1
  BY <1>3 DEF SelectLastInSeq
<1>5. ThisRun(Append(s, e)) = SubSeq(Append(s, e), Len(s) + 1 + 1, Len(s) + 1)
  BY <1>1, <1>4 DEF ThisRun
<1> QED  BY <1>1, <1>5, SubSeqEmpty

LEMMA RunGrows ==
    ASSUME NEW s \in Seq(LogLines), NEW e \in LogLines, e.ev # "plan_emitted"
    PROVE  /\ ThisRun(s) \in Seq(LogLines)
           /\ ThisRun(Append(s, e)) = Append(ThisRun(s), e)
<1> DEFINE I == {i \in 1..Len(s) : s[i].ev = "plan_emitted"}
           J == {i \in 1..Len(Append(s, e)) : Append(s, e)[i].ev = "plan_emitted"}
<1>1. /\ Len(s) \in Nat /\ Append(s, e) \in Seq(LogLines)
      /\ Len(Append(s, e)) = Len(s) + 1
      /\ \A i \in 1..Len(s) : Append(s, e)[i] = s[i] /\ s[i] \in LogLines
      /\ Append(s, e)[Len(s) + 1] = e
  OBVIOUS
<1>2. I = J  BY <1>1
<1>3. PICK m : m = SelectLastInSeq(s, LAMBDA line : line.ev = "plan_emitted")
  OBVIOUS
<1>4. m = IF I # {} THEN Max(I) ELSE 0  BY <1>3 DEF SelectLastInSeq
<1>5. SelectLastInSeq(Append(s, e), LAMBDA line : line.ev = "plan_emitted") =
          IF J # {} THEN Max(J) ELSE 0
  BY DEF SelectLastInSeq
<1>6. I \in SUBSET (1..Len(s))  OBVIOUS
<1> HIDE DEF I, J
<1>7. m \in 0..Len(s)
  <2>1. CASE I = {}  BY <1>1, <1>4, <2>1
  <2>2. CASE I # {}
    <3>1. Max(I) \in I  BY <1>1, <1>6, <2>2, MaxBounds
    <3>2. m \in 1..Len(s)  BY <1>4, <1>6, <2>2, <3>1
    <3> QED  BY <1>1, <3>2
  <2> QED  BY <2>1, <2>2
<1> DEFINE u == SubSeq(s, m + 1, Len(s))
           v == SubSeq(Append(s, e), m + 1, Len(s) + 1)
<1>8. ThisRun(s) = u /\ ThisRun(Append(s, e)) = v
  BY <1>1, <1>2, <1>3, <1>4, <1>5 DEF ThisRun
<1>9. PICK k \in Nat : k = Len(s) - m  BY <1>1, <1>7
<1>10. u \in Seq(LogLines) /\ Len(u) = k /\ \A i \in 1..k : u[i] = s[m + i]
  <2>1. \A i \in (m + 1)..Len(s) : s[i] \in LogLines  BY <1>1, <1>7
  <2> QED  BY <1>1, <1>7, <1>9, <2>1, SubSeqProperties
<1>11. v \in Seq(LogLines) /\ Len(v) = k + 1
       /\ \A i \in 1..(k + 1) : v[i] = Append(s, e)[m + i]
  <2>1. \A i \in (m + 1)..(Len(s) + 1) : Append(s, e)[i] \in LogLines  BY <1>1, <1>7
  <2> QED  BY <1>1, <1>7, <1>9, <2>1, SubSeqProperties
<1> HIDE DEF u, v
<1>12. PICK w : w = Append(u, e)  OBVIOUS
<1>13. /\ w \in Seq(LogLines) /\ Len(w) = k + 1
       /\ \A i \in 1..k : w[i] = u[i]
       /\ w[k + 1] = e
  BY <1>10, <1>12, Grown
<1>14. ASSUME NEW i \in 1..(k + 1)
       PROVE  v[i] = w[i]
  <2>1. CASE i = k + 1
    <3>1. m + i = Len(s) + 1  BY <1>1, <1>7, <1>9, <2>1
    <3>2. v[i] = e  BY <1>1, <1>11, <3>1
    <3> QED  BY <1>13, <2>1, <3>2
  <2>2. CASE i # k + 1
    <3>1. i \in 1..k /\ m + i \in 1..Len(s)  BY <1>1, <1>7, <1>9, <2>2
    <3>2. v[i] = s[m + i]  BY <1>1, <1>11, <3>1
    <3> QED  BY <1>10, <1>13, <3>1, <3>2
  <2> QED  BY <2>1, <2>2
<1>15. v = w  BY <1>11, <1>13, <1>14, SeqEqual
<1> QED  BY <1>8, <1>10, <1>12, <1>15


-----------------------------------------------------------------------------
LEMMA InitEstablishes == Init => IInv
<1> SUFFICES ASSUME Init PROVE IInv
  OBVIOUS
<1> USE BenchmarkAssumption DEF Init
<1>1. Types  BY DEF Types, Jobs, NoOutcome
<1>2. FileTypes  BY DEF FileTypes, FinalFiles, Gradings
<1>3. FeedAt  BY DEF FeedAt
<1>4. LogAt  BY DEF LogAt
<1>5. StatusesAt  BY DEF StatusesAt, Running
<1>6. FeedWellBracketed  BY DEF FeedWellBracketed
<1>7. LogStopsAtFailure  BY DEF LogStopsAtFailure
<1>8. ExitCodeHonest  BY DEF ExitCodeHonest
<1>9. CountsAt
  <2>1. LinesOf({"step_done"}, <<>>) = {} /\ LinesOf({"task_end"}, <<>>) = {}
        /\ LinesOf({"step.complete", "step.failed"}, <<>>) = {}
    BY DEF LinesOf
  <2>2. Records = {}
    <3>1. \A j \in Jobs : {j} \X LinesOf({"step_done"}, log[j]) = {}  BY <2>1
    <3> QED  BY <3>1 DEF Records
  <2>3. /\ \A j \in Jobs : Recorded(j) = 0 /\ ShownOnConsole(j) = 0
        /\ RecordedInAll = 0 /\ ShownOnFeed = 0 /\ IsFiniteSet(Records)
    BY <2>1, <2>2, FS_EmptySet DEF Recorded, ShownOnConsole, RecordedInAll, ShownOnFeed
  <2> QED  BY <2>3 DEF CountsAt, Within, Running
<1>10. RunAt  BY DEF RunAt, InRun, Over
<1>11. StreamsAt  BY DEF StreamsAt
<1> QED
  BY <1>1, <1>2, <1>3, <1>4, <1>5, <1>6, <1>7, <1>8, <1>9, <1>10, <1>11 DEF IInv

LEMMA TypesKept == Types /\ [Next]_vars => Types'
<1> SUFFICES ASSUME Types, [Next]_vars PROVE Types'
  OBVIOUS
<1> USE BenchmarkAssumption DEF Types, memory, files, Jobs, Over
<1>1. CASE Launch  BY <1>1 DEF Launch, NoOutcome
<1>2. CASE Kill  BY <1>2 DEF Kill
<1>3. CASE Run
  <2>1. CASE StartRun  BY <2>1 DEF StartRun
  <2>2. CASE EmitPlan
    <3>1. PICK n \in 0..MaxSteps : size' = n  BY <2>2 DEF EmitPlan
    <3>2. 1 \in 0..(n + 1) /\ 1 \in 1..(n + 1)  OBVIOUS
    <3> QED  BY <2>2, <3>1, <3>2 DEF EmitPlan
  <2>3. CASE Announce  BY <2>3 DEF Announce
  <2>4. CASE OpenStep  BY <2>4 DEF OpenStep
  <2>5. CASE FinishStep
    <3>1. outcome' \in Outcomes /\ outcome'.llm \in StepCalls /\ outcome'.llm \in Nat
      BY <2>5 DEF FinishStep, Outcomes
    <3>2. outcome' \in [status : {"ok", "failed"}, llm : StepCalls \cup {0}]
      BY <3>1 DEF Outcomes
    <3> QED  BY <2>5, <3>1, <3>2 DEF FinishStep
  <2>6. CASE ReportFeed  BY <2>6 DEF ReportFeed
  <2>7. CASE ReportConsole  BY <2>7 DEF ReportConsole
  <2>8. CASE RunOutOfSteps  BY <2>8 DEF RunOutOfSteps, NoOutcome
  <2>9. CASE CloseStreams  BY <2>9 DEF CloseStreams
  <2>10. CASE WriteFinal  BY <2>10 DEF WriteFinal
  <2> QED
    BY <1>3, <2>1, <2>2, <2>3, <2>4, <2>5, <2>6, <2>7, <2>8, <2>9, <2>10 DEF Run
<1>4. CASE Raise  BY <1>4 DEF Raise
<1>5. CASE Grade  BY <1>5 DEF Grade
<1>6. CASE Summarise  BY <1>6 DEF Summarise
<1>7. CASE UNCHANGED vars  BY <1>7 DEF vars
<1> QED  BY <1>1, <1>2, <1>3, <1>4, <1>5, <1>6, <1>7 DEF Next, Work

-----------------------------------------------------------------------------
(* The files                                                               *)

LEMMA LogGrows ==
    ASSUME Types, FileTypes, NEW line \in LogLines, LogLine(line)
    PROVE  /\ log' \in [Jobs -> Seq(LogLines)]
           /\ log'[job] = Append(log[job], line)
           /\ \A j \in Jobs : j # job => log'[j] = log[j]
<1>1. log[job] \in Seq(LogLines)  BY DEF Types, FileTypes
<1>2. Append(log[job], line) \in Seq(LogLines)  BY <1>1
<1>3. log' = [log EXCEPT ![job] = Append(log[job], line)]  BY DEF LogLine
<1> QED  BY <1>2, <1>3 DEF Types, FileTypes

LEMMA ConsoleGrows ==
    ASSUME Types, FileTypes, NEW line \in ConsoleLines, ConsoleLine(line)
    PROVE  /\ console' \in [Jobs -> Seq(ConsoleLines)]
           /\ console'[job] = Append(console[job], line)
           /\ \A j \in Jobs : j # job => console'[j] = console[j]
<1>1. console[job] \in Seq(ConsoleLines)  BY DEF Types, FileTypes
<1>2. Append(console[job], line) \in Seq(ConsoleLines)  BY <1>1
<1>3. console' = [console EXCEPT ![job] = Append(console[job], line)]  BY DEF ConsoleLine
<1> QED  BY <1>2, <1>3 DEF Types, FileTypes

LEMMA FilesKept == Types /\ FileTypes /\ [Next]_vars => FileTypes'
<1> SUFFICES ASSUME Types, FileTypes, [Next]_vars PROVE FileTypes'
  OBVIOUS
<1> USE BenchmarkAssumption DEF memory, files
<1>1. CASE Launch  BY <1>1 DEF Launch, FileTypes
<1>2. CASE Kill
  <2>1. log' = log /\ feed' = feed /\ console' = console  BY <1>2 DEF Kill
  <2>2. final' \in [Jobs -> FinalFiles] /\ grading' \in [Jobs -> Gradings]
    BY <1>2 DEF Kill, FileTypes, FinalFiles, Gradings
  <2> QED  BY <2>1, <2>2 DEF FileTypes
<1>3. CASE Run
  <2>1. CASE StartRun
    <3>1. [ev |-> "run.start"] \in ConsoleLines  BY DEF ConsoleLines
    <3> QED  BY <2>1, <3>1, ConsoleGrows DEF StartRun, FileTypes
  <2>2. CASE EmitPlan
    <3>1. [ev |-> "plan_emitted"] \in LogLines  BY DEF LogLines
    <3> QED  BY <2>2, <3>1, LogGrows DEF EmitPlan, FileTypes
  <2>3. CASE Announce
    <3>1. [ev |-> "plan.created"] \in ConsoleLines  BY DEF ConsoleLines
    <3>2. [ev |-> "crew_start"] \in FeedLines  BY DEF FeedLines
    <3>3. feed' \in Seq(FeedLines)  BY <2>3, <3>2 DEF Announce, FeedLine, FileTypes
    <3> QED  BY <2>3, <3>1, <3>3, ConsoleGrows DEF Announce, FileTypes
  <2>4. CASE OpenStep
    <3>1. [ev |-> "step.start"] \in ConsoleLines  BY DEF ConsoleLines
    <3>2. pos \in 1..MaxSteps  BY <2>4 DEF OpenStep, Types
    <3>3. [ev |-> "task_open", step |-> pos] \in FeedLines  BY <3>2 DEF FeedLines
    <3>4. feed' \in Seq(FeedLines)  BY <2>4, <3>3 DEF OpenStep, FeedLine, FileTypes
    <3> QED  BY <2>4, <3>1, <3>4, ConsoleGrows DEF OpenStep, FileTypes
  <2>5. CASE FinishStep
    <3>1. PICK o \in Outcomes : outcome' = o  BY <2>5 DEF FinishStep
    <3>2. pos \in 1..MaxSteps  BY <2>5 DEF FinishStep, Types
    <3>3. [ev |-> "step_done", step |-> pos, status |-> o.status, llm |-> o.llm] \in LogLines
      BY <3>2 DEF LogLines, Outcomes
    <3>4. LogLine([ev |-> "step_done", step |-> pos, status |-> o.status, llm |-> o.llm])
      BY <2>5, <3>1 DEF FinishStep
    <3>5. log' \in [Jobs -> Seq(LogLines)]  BY <3>3, <3>4, LogGrows
    <3> QED  BY <2>5, <3>5 DEF FinishStep, FileTypes
  <2>6. CASE ReportFeed
    <3>1. pos \in 1..MaxSteps  BY <2>6 DEF ReportFeed, Types
    <3>2. [ev |-> "task_end", step |-> pos,
           status |-> IF outcome.status = "ok" THEN "ok" ELSE "error"] \in FeedLines
      BY <3>1 DEF FeedLines
    <3>3. feed' \in Seq(FeedLines)  BY <2>6, <3>2 DEF ReportFeed, FeedLine, FileTypes
    <3> QED  BY <2>6, <3>3 DEF ReportFeed, FileTypes
  <2>7. CASE ReportConsole
    <3>1. [ev |-> "step.complete"] \in ConsoleLines /\ [ev |-> "step.failed"] \in ConsoleLines
      BY DEF ConsoleLines
    <3>2. console' \in [Jobs -> Seq(ConsoleLines)]
      BY <2>7, <3>1, ConsoleGrows DEF ReportConsole
    <3> QED  BY <2>7, <3>2 DEF ReportConsole, FileTypes
  <2>8. CASE RunOutOfSteps  BY <2>8 DEF RunOutOfSteps, FileTypes
  <2>9. CASE CloseStreams
    <3>1. PICK n : n = IF outcome.status = "ok" THEN size ELSE pos  OBVIOUS
    <3>2. PICK line : line = [ev |-> "run.complete", llm |-> llmTotal, steps |-> n]
      OBVIOUS
    <3>3. ConsoleLine(line)  BY <2>9, <3>1, <3>2 DEF CloseStreams
    <3>4. outcome.status \in {"ok", "failed"}  BY DEF Types
    <3>5. [ev |-> "crew_end", status |-> outcome.status] \in FeedLines  BY <3>4 DEF FeedLines
    <3>6. feed' \in Seq(FeedLines)  BY <2>9, <3>5 DEF CloseStreams, FeedLine, FileTypes
    <3>7. n \in 0..MaxSteps  BY <2>9, <3>1 DEF CloseStreams, Types, Over
    <3>8. line \in ConsoleLines  BY <3>2, <3>7 DEF ConsoleLines, Types
    <3> QED  BY <2>9, <3>3, <3>6, <3>8, ConsoleGrows DEF CloseStreams, FileTypes
  <2>10. CASE WriteFinal
    <3>1. outcome.status \in FinalFiles  BY DEF Types, FinalFiles
    <3> QED  BY <2>10, <3>1 DEF WriteFinal, FileTypes
  <2> QED
    BY <1>3, <2>1, <2>2, <2>3, <2>4, <2>5, <2>6, <2>7, <2>8, <2>9, <2>10 DEF Run
<1>4. CASE Raise  BY <1>4 DEF Raise, FileTypes
<1>5. CASE Grade  BY <1>5 DEF Grade, FileTypes, Types, Gradings
<1>6. CASE Summarise  BY <1>6 DEF Summarise, FileTypes
<1>7. CASE UNCHANGED vars  BY <1>7 DEF vars, FileTypes
<1> QED  BY <1>1, <1>2, <1>3, <1>4, <1>5, <1>6, <1>7 DEF Next, Work

-----------------------------------------------------------------------------
(* The feed                                                                *)

\* A line that may follow the last one keeps the feed well bracketed.
LEMMA FeedGrows ==
    ASSUME FileTypes, FeedWellBracketed, NEW line \in FeedLines, FeedLine(line),
           feed = <<>> => line.ev = "crew_start",
           feed # <<>> => FollowsOnFeed(LastFed, line)
    PROVE  FeedWellBracketed' /\ (feed # <<>>)' /\ LastFed' = line
<1>1. feed \in Seq(FeedLines) /\ feed' = Append(feed, line)  BY DEF FileTypes, FeedLine
<1>2. /\ Len(feed') = Len(feed) + 1 /\ Len(feed) \in Nat /\ feed' # <<>>
      /\ \A i \in 1..Len(feed) : feed'[i] = feed[i]
      /\ feed'[Len(feed) + 1] = line
  BY <1>1, Grown
<1>3. LastFed' = line  BY <1>2 DEF LastFed
<1>4. feed'[1].ev = "crew_start"
  <2>1. CASE feed = <<>>  BY <1>2, <2>1
  <2>2. CASE feed # <<>>
    <3>1. 1 \in 1..Len(feed)  BY <1>1, <2>2
    <3> QED  BY <1>2, <2>2, <3>1 DEF FeedWellBracketed
  <2> QED  BY <2>1, <2>2
<1>5. ASSUME NEW i \in 2..Len(feed')
      PROVE  FollowsOnFeed(feed'[i - 1], feed'[i])
  <2>1. i - 1 \in 1..Len(feed) /\ feed'[i - 1] = feed[i - 1]  BY <1>2
  <2>2. CASE i = Len(feed) + 1
    <3>1. feed # <<>> /\ feed'[i] = line /\ feed'[i - 1] = LastFed
      BY <1>1, <1>2, <2>1, <2>2 DEF LastFed
    <3> QED  BY <3>1
  <2>3. CASE i # Len(feed) + 1
    <3>1. i \in 2..Len(feed) /\ i \in 1..Len(feed)  BY <1>2, <2>3
    <3>2. feed'[i] = feed[i]  BY <1>2, <3>1
    <3> QED  BY <2>1, <3>1, <3>2 DEF FeedWellBracketed
  <2> QED  BY <2>2, <2>3
<1> QED  BY <1>2, <1>3, <1>4, <1>5 DEF FeedWellBracketed

LEMMA FeedKept ==
    Types /\ FileTypes /\ FeedAt /\ FeedWellBracketed /\ [Next]_vars
        => FeedAt' /\ FeedWellBracketed'
<1> SUFFICES ASSUME Types, FileTypes, FeedAt, FeedWellBracketed, [Next]_vars
             PROVE  FeedAt' /\ FeedWellBracketed'
  OBVIOUS
<1> USE DEF memory, files
<1>0. ASSUME feed' = feed PROVE FeedWellBracketed'  BY <1>0 DEF FeedWellBracketed
<1>1. CASE Launch  BY <1>0, <1>1 DEF Launch, FeedAt
<1>2. CASE Kill  BY <1>0, <1>2 DEF Kill, FeedAt
<1>3. CASE Run
  <2>1. CASE StartRun  BY <1>0, <2>1 DEF StartRun, FeedAt
  <2>2. CASE EmitPlan  BY <1>0, <2>2 DEF EmitPlan, FeedAt
  <2>3. CASE Announce
    <3> DEFINE line == [ev |-> "crew_start"]
    <3>1. line \in FeedLines  BY DEF FeedLines
    <3>2. FeedWellBracketed' /\ (feed # <<>>)' /\ LastFed' = line
      BY <2>3, <3>1, FeedGrows DEF Announce, FollowsOnFeed
    <3>3. pc' = "next" /\ pos' = pos /\ pos = 1
      BY <2>3 DEF Announce, FeedAt
    <3> QED  BY <3>2, <3>3 DEF FeedAt
  <2>4. CASE OpenStep
    <3> DEFINE line == [ev |-> "task_open", step |-> pos]
    <3>1. line \in FeedLines
      <4>1. pos \in 1..MaxSteps  BY <2>4, BenchmarkAssumption DEF OpenStep, Types
      <4> QED  BY <4>1 DEF FeedLines
    <3>2. feed # <<>> /\ FollowsOnFeed(LastFed, line)
      BY <2>4 DEF OpenStep, FeedAt, FollowsOnFeed
    <3>3. FeedWellBracketed' /\ (feed # <<>>)' /\ LastFed' = line
      BY <2>4, <3>1, <3>2, FeedGrows DEF OpenStep
    <3>4. LastFed'.ev = "task_open" /\ LastFed'.step = pos  BY <3>3
    <3>5. pc' = "execute" /\ pos' = pos  BY <2>4 DEF OpenStep
    <3> QED  BY <3>3, <3>4, <3>5 DEF FeedAt
  <2>5. CASE FinishStep
    <3>1. feed' = feed /\ pos' = pos /\ pc' = "report" /\ pc = "execute"
      BY <2>5 DEF FinishStep
    <3> QED  BY <1>0, <3>1 DEF FeedAt, LastFed
  <2>6. CASE ReportFeed
    <3> DEFINE line == [ev |-> "task_end", step |-> pos,
                        status |-> IF outcome.status = "ok" THEN "ok" ELSE "error"]
    <3>1. line \in FeedLines
      <4>1. pos \in 1..MaxSteps  BY <2>6, BenchmarkAssumption DEF ReportFeed, Types
      <4> QED  BY <4>1 DEF FeedLines
    <3>2. feed # <<>> /\ FollowsOnFeed(LastFed, line)
      BY <2>6 DEF ReportFeed, FeedAt, FollowsOnFeed
    <3>3. FeedWellBracketed' /\ (feed # <<>>)' /\ LastFed' = line
      BY <2>6, <3>1, <3>2, FeedGrows DEF ReportFeed
    <3>4. /\ LastFed'.ev = "task_end" /\ LastFed'.step = pos
          /\ LastFed'.status = IF outcome.status = "ok" THEN "ok" ELSE "error"
      BY <3>3
    <3>5. pc' = "reportConsole" /\ pos' = pos /\ outcome' = outcome  BY <2>6 DEF ReportFeed
    <3> QED  BY <3>3, <3>4, <3>5 DEF FeedAt
  <2>7. CASE ReportConsole
    <3>1. /\ feed' = feed /\ outcome' = outcome /\ pc = "reportConsole"
          /\ \/ outcome.status = "ok" /\ pc' = "next" /\ pos' = pos + 1
             \/ outcome.status = "failed" /\ pc' = "closing"
      BY <2>7 DEF ReportConsole
    <3> QED  BY <1>0, <3>1 DEF FeedAt, LastFed
  <2>8. CASE RunOutOfSteps
    <3>1. /\ feed' = feed /\ outcome' = NoOutcome /\ pc = "next" /\ pc' = "closing"
      BY <2>8 DEF RunOutOfSteps
    <3> QED  BY <1>0, <3>1 DEF FeedAt, LastFed, NoOutcome
  <2>9. CASE CloseStreams
    <3> DEFINE line == [ev |-> "crew_end", status |-> outcome.status]
    <3>1. line \in FeedLines  BY DEF FeedLines, Types
    <3>2. feed # <<>> /\ FollowsOnFeed(LastFed, line)
      BY <2>9 DEF CloseStreams, FeedAt, FollowsOnFeed, Types
    <3>3. FeedWellBracketed'  BY <2>9, <3>1, <3>2, FeedGrows DEF CloseStreams
    <3>4. pc' = "writeFinal"  BY <2>9 DEF CloseStreams
    <3> QED  BY <3>3, <3>4 DEF FeedAt
  <2>10. CASE WriteFinal  BY <1>0, <2>10 DEF WriteFinal, FeedAt
  <2> QED
    BY <1>3, <2>1, <2>2, <2>3, <2>4, <2>5, <2>6, <2>7, <2>8, <2>9, <2>10 DEF Run
<1>4. CASE Raise  BY <1>0, <1>4 DEF Raise, FeedAt
<1>5. CASE Grade  BY <1>0, <1>5 DEF Grade, FeedAt
<1>6. CASE Summarise  BY <1>0, <1>6 DEF Summarise, FeedAt
<1>7. CASE UNCHANGED vars  BY <1>0, <1>7 DEF vars, FeedAt, LastFed
<1> QED  BY <1>1, <1>2, <1>3, <1>4, <1>5, <1>6, <1>7 DEF Next, Work

-----------------------------------------------------------------------------
(* run.log                                                                 *)

\* What LogStopsAtFailure says of two lines.
FollowsInLog(prev, line) ==
    line.ev = "step_done" =>
        line.step = IF prev.ev = "plan_emitted" THEN 1
                    ELSE IF prev.status = "ok" THEN prev.step + 1 ELSE 0

LEMMA LogStaysInOrder ==
    ASSUME Types, FileTypes, LogStopsAtFailure, NEW line \in LogLines, LogLine(line),
           log[job] = <<>> \/ FollowsInLog(LastLogged, line)
    PROVE  /\ LogStopsAtFailure'
           /\ log'[job] # <<>>
           /\ log'[job][Len(log'[job])] = line
<1>1. /\ log[job] \in Seq(LogLines)
      /\ log'[job] = Append(log[job], line)
      /\ \A j \in Jobs : j # job => log'[j] = log[j]
  BY LogGrows DEF Types, FileTypes
<1>2. PICK s \in Seq(LogLines) : s = log[job]  BY <1>1
<1>3. PICK t : t = Append(s, line)  OBVIOUS
<1>4. /\ Len(t) = Len(s) + 1 /\ Len(s) \in Nat /\ t # <<>>
      /\ \A i \in 1..Len(s) : t[i] = s[i]
      /\ t[Len(s) + 1] = line
  BY <1>3, Grown
<1>5. log'[job] = t  BY <1>1, <1>2, <1>3
<1>6. \A i \in 2..Len(s) : FollowsInLog(s[i - 1], s[i])
  <2>1. job \in Jobs  BY DEF Types
  <2> QED  BY <1>2, <2>1 DEF LogStopsAtFailure, FollowsInLog
<1>7. ASSUME NEW i \in 2..Len(t)
      PROVE  FollowsInLog(t[i - 1], t[i])
  <2>1. i - 1 \in 1..Len(s) /\ t[i - 1] = s[i - 1]  BY <1>4
  <2>2. CASE i = Len(s) + 1
    <3>1. s # <<>> /\ t[i] = line /\ t[i - 1] = s[Len(s)]  BY <1>4, <2>1, <2>2
    <3> QED  BY <1>2, <3>1 DEF LastLogged
  <2>3. CASE i # Len(s) + 1
    <3>1. i \in 2..Len(s) /\ i \in 1..Len(s)  BY <1>4, <2>3
    <3> QED  BY <1>4, <1>6, <2>1, <3>1
  <2> QED  BY <2>2, <2>3
<1>8. ASSUME NEW j \in Jobs, NEW i \in 2..Len(log'[j])
      PROVE  FollowsInLog(log'[j][i - 1], log'[j][i])
  <2>1. CASE j = job  BY <1>5, <1>7, <1>8, <2>1
  <2>2. CASE j # job
    <3>1. log'[j] = log[j]  BY <1>1, <2>2
    <3> QED  BY <1>8, <3>1 DEF LogStopsAtFailure, FollowsInLog
  <2> QED  BY <2>1, <2>2
<1>9. LogStopsAtFailure'  BY <1>8 DEF LogStopsAtFailure, FollowsInLog
<1> QED  BY <1>4, <1>5, <1>9

LEMMA LogKept ==
    Types /\ FileTypes /\ FeedAt /\ LogAt /\ LogStopsAtFailure /\ [Next]_vars
        => LogAt' /\ LogStopsAtFailure'
<1> SUFFICES ASSUME Types, FileTypes, FeedAt, LogAt, LogStopsAtFailure, [Next]_vars
             PROVE  LogAt' /\ LogStopsAtFailure'
  OBVIOUS
<1> USE DEF memory, files
<1>0. ASSUME log' = log PROVE LogStopsAtFailure'  BY <1>0 DEF LogStopsAtFailure
<1>1. CASE Launch  BY <1>0, <1>1 DEF Launch, LogAt
<1>2. CASE Kill  BY <1>0, <1>2 DEF Kill, LogAt
<1>3. CASE Run
  <2>1. CASE StartRun  BY <1>0, <2>1 DEF StartRun, LogAt
  <2>2. CASE EmitPlan
    <3> DEFINE line == [ev |-> "plan_emitted"]
    <3>1. line \in LogLines  BY DEF LogLines
    <3>2. FollowsInLog(LastLogged, line)  BY DEF FollowsInLog
    <3>3. LogStopsAtFailure' /\ log'[job] # <<>> /\ log'[job][Len(log'[job])] = line
      BY <2>2, <3>1, <3>2, LogStaysInOrder DEF EmitPlan
    <3>4. log'[job][Len(log'[job])].ev = "plan_emitted"  BY <3>3
    <3>5. pc' = "announce" /\ pos' = 1 /\ job' = job  BY <2>2 DEF EmitPlan
    <3> QED  BY <3>3, <3>4, <3>5 DEF LogAt, LastLogged
  <2>3. CASE Announce
    <3>1. log' = log /\ pos' = pos /\ job' = job /\ pc = "announce" /\ pc' = "next"
      BY <2>3 DEF Announce
    <3> QED  BY <1>0, <3>1 DEF LogAt, LastLogged
  <2>4. CASE OpenStep
    <3>1. log' = log /\ pos' = pos /\ job' = job /\ pc = "next" /\ pc' = "execute"
      BY <2>4 DEF OpenStep
    <3> QED  BY <1>0, <3>1 DEF LogAt, LastLogged
  <2>5. CASE FinishStep
    <3>1. PICK o \in Outcomes : outcome' = o  BY <2>5 DEF FinishStep
    <3> DEFINE line == [ev |-> "step_done", step |-> pos, status |-> o.status, llm |-> o.llm]
    <3>2. line \in LogLines
      <4>1. pos \in 1..MaxSteps  BY <2>5, BenchmarkAssumption DEF FinishStep, Types
      <4> QED  BY <4>1 DEF LogLines, Outcomes
    <3>3. FollowsInLog(LastLogged, line)  BY <2>5 DEF FinishStep, LogAt, FollowsInLog
    <3>4. LogLine(line)  BY <2>5, <3>1 DEF FinishStep
    <3>5. LogStopsAtFailure' /\ log'[job] # <<>> /\ log'[job][Len(log'[job])] = line
      BY <3>2, <3>3, <3>4, LogStaysInOrder
    <3>6. /\ log'[job][Len(log'[job])].ev = "step_done"
          /\ log'[job][Len(log'[job])].step = pos
          /\ log'[job][Len(log'[job])].status = o.status
      BY <3>5
    <3>7. pc' = "report" /\ pos' = pos /\ job' = job  BY <2>5 DEF FinishStep
    <3> QED  BY <3>1, <3>5, <3>6, <3>7 DEF LogAt, LastLogged
  <2>6. CASE ReportFeed
    <3>1. /\ log' = log /\ pos' = pos /\ job' = job /\ outcome' = outcome
          /\ pc = "report" /\ pc' = "reportConsole"
      BY <2>6 DEF ReportFeed
    <3> QED  BY <1>0, <3>1 DEF LogAt, LastLogged
  <2>7. CASE ReportConsole
    <3>1. /\ log' = log /\ job' = job /\ outcome' = outcome /\ pc = "reportConsole"
          /\ \/ outcome.status = "ok" /\ pc' = "next" /\ pos' = pos + 1
             \/ outcome.status = "failed" /\ pc' = "closing"
      BY <2>7 DEF ReportConsole
    <3> QED  BY <1>0, <3>1 DEF LogAt, LastLogged
  <2>8. CASE RunOutOfSteps  BY <1>0, <2>8 DEF RunOutOfSteps, LogAt
  <2>9. CASE CloseStreams  BY <1>0, <2>9 DEF CloseStreams, LogAt
  <2>10. CASE WriteFinal  BY <1>0, <2>10 DEF WriteFinal, LogAt
  <2> QED
    BY <1>3, <2>1, <2>2, <2>3, <2>4, <2>5, <2>6, <2>7, <2>8, <2>9, <2>10 DEF Run
<1>4. CASE Raise  BY <1>0, <1>4 DEF Raise, LogAt
<1>5. CASE Grade  BY <1>0, <1>5 DEF Grade, LogAt
<1>6. CASE Summarise  BY <1>0, <1>6 DEF Summarise, LogAt
<1>7. CASE UNCHANGED vars  BY <1>0, <1>7 DEF vars, LogAt, LastLogged
<1> QED  BY <1>1, <1>2, <1>3, <1>4, <1>5, <1>6, <1>7 DEF Next, Work

-----------------------------------------------------------------------------
(* The exit code                                                           *)

LEMMA StatusesKept ==
    Types /\ FileTypes /\ StatusesAt /\ ExitCodeHonest /\ [Next]_vars
        => StatusesAt' /\ ExitCodeHonest'
<1> SUFFICES ASSUME Types, FileTypes, StatusesAt, ExitCodeHonest, [Next]_vars
             PROVE  StatusesAt' /\ ExitCodeHonest'
  OBVIOUS
<1> USE BenchmarkAssumption DEF memory, files
<1>0. ASSUME exit' \notin {"0", "1"} PROVE ExitCodeHonest'  BY <1>0 DEF ExitCodeHonest
<1>1. CASE Launch
  <2>1. /\ pc' = "start" /\ job' = 1 /\ statuses' = <<>> /\ exit' = "none"
        /\ summary' = summary
    BY <1>1 DEF Launch
  <2> QED  BY <1>0, <2>1 DEF StatusesAt, Running
<1>2. CASE Kill
  <2>1. /\ pc' = "dead" /\ statuses' = statuses /\ exit' = exit /\ exit = "none"
        /\ summary' \in {summary, <<>>}
    BY <1>2 DEF Kill, StatusesAt, Running
  <2>2. summary' \in Seq({"ok", "failed"}) /\ Len(summary') <= NJobs
    <3>1. <<>> \in Seq({"ok", "failed"}) /\ Len(<<>>) <= NJobs  OBVIOUS
    <3> QED  BY <2>1, <3>1 DEF StatusesAt
  <2> QED  BY <1>0, <2>1, <2>2 DEF StatusesAt, Running
<1>3. CASE Run
  <2>1. Running /\ exit = "none" /\ pc \notin {"returned", "summarise"}
    BY <1>3 DEF Run, StartRun, EmitPlan, Announce, OpenStep, FinishStep, ReportFeed,
                ReportConsole, RunOutOfSteps, CloseStreams, WriteFinal, Running, StatusesAt
  <2>2. /\ statuses' = statuses /\ summary' = summary /\ job' = job /\ exit' = exit
        /\ pc' \notin {"dead", "exited", "summarise"}
    BY <1>3 DEF Run, StartRun, EmitPlan, Announce, OpenStep, FinishStep, ReportFeed,
                ReportConsole, RunOutOfSteps, CloseStreams, WriteFinal
  <2>3. \A j \in 1..Len(statuses) : statuses[j] = final[j]  BY <2>1 DEF StatusesAt
  <2>4. Len(statuses) = job - 1  BY <2>1 DEF StatusesAt
  <2>5. CASE WriteFinal
    <3>1. /\ final' = [final EXCEPT ![job] = outcome.status] /\ outcome' = outcome
          /\ pc' = "returned"
      BY <2>5 DEF WriteFinal
    <3>2. final'[job] = outcome.status  BY <3>1 DEF Types, FileTypes
    <3>3. ASSUME NEW j \in 1..Len(statuses)
          PROVE  statuses[j] = final'[j]
      <4>1. j # job /\ j \in Jobs  BY <2>4 DEF Types, Jobs
      <4> QED  BY <2>3, <3>1, <4>1 DEF FileTypes
    <3> QED  BY <1>0, <2>1, <2>2, <2>4, <3>1, <3>2, <3>3 DEF StatusesAt, Running
  <2>6. CASE ~WriteFinal
    <3>1. final' = final /\ pc' # "returned"
      BY <1>3, <2>6 DEF Run, StartRun, EmitPlan, Announce, OpenStep, FinishStep, ReportFeed,
                        ReportConsole, RunOutOfSteps, CloseStreams
    <3> QED  BY <1>0, <2>1, <2>2, <2>3, <2>4, <3>1 DEF StatusesAt, Running
  <2> QED  BY <2>5, <2>6
<1>4. CASE Raise
  <2>1. pc' = "exited" /\ exit' = "1" /\ statuses' = statuses /\ summary' = summary
        /\ Running /\ pc # "summarise"
    BY <1>4 DEF Raise, Running
  <2>2. Len(statuses) = job - 1 /\ job \in 1..NJobs
    BY <2>1 DEF StatusesAt, Types, Jobs
  <2>3. Len(statuses') # NJobs  BY <2>1, <2>2
  <2>4. ExitCodeHonest'  BY <2>1, <2>3 DEF ExitCodeHonest
  <2> QED  BY <2>1, <2>4 DEF StatusesAt, Running
<1>5. CASE Grade
  <2>1. /\ pc = "returned" /\ statuses' = Append(statuses, outcome.status)
        /\ exit' = exit /\ final' = final /\ summary' = summary /\ outcome' = outcome
        /\ \/ job < NJobs /\ job' = job + 1 /\ pc' = "start"
           \/ ~(job < NJobs) /\ job' = job /\ pc' = "summarise"
    BY <1>5 DEF Grade
  <2>2. /\ statuses \in Seq({"ok", "failed"}) /\ Len(statuses) = job - 1
        /\ \A j \in 1..Len(statuses) : statuses[j] = final[j]
        /\ final[job] = outcome.status /\ exit = "none"
    BY <2>1 DEF StatusesAt, Running
  <2>3. outcome.status \in {"ok", "failed"} /\ job \in 1..NJobs  BY DEF Types, Jobs
  <2>4. /\ statuses' \in Seq({"ok", "failed"}) /\ Len(statuses') = job
        /\ \A j \in 1..Len(statuses) : statuses'[j] = statuses[j]
        /\ statuses'[job] = outcome.status
    BY <2>1, <2>2, <2>3, Grown
  <2>5. ASSUME NEW j \in 1..Len(statuses')
        PROVE  statuses'[j] = final'[j]
    <3>1. CASE j = job  BY <2>1, <2>2, <2>4, <3>1
    <3>2. CASE j # job
      <4>1. j \in 1..Len(statuses)  BY <2>2, <2>3, <2>4, <3>2
      <4> QED  BY <2>1, <2>2, <2>4, <4>1
    <3> QED  BY <3>1, <3>2
  <2>6. Len(statuses') = IF pc' = "summarise" THEN NJobs ELSE job' - 1
    BY <2>1, <2>3, <2>4
  <2>7. Len(statuses') <= NJobs  BY <2>3, <2>4
  <2> QED  BY <1>0, <2>1, <2>2, <2>4, <2>5, <2>6, <2>7 DEF StatusesAt, Running
<1>6. CASE Summarise
  <2>1. /\ pc = "summarise" /\ pc' = "exited" /\ summary' = statuses /\ statuses' = statuses
        /\ final' = final
        /\ exit' = IF \A j \in Jobs : statuses[j] = "ok" THEN "0" ELSE "1"
    BY <1>6 DEF Summarise
  <2>2. /\ Len(statuses) = NJobs
        /\ \A j \in 1..Len(statuses) : statuses[j] = final[j]
    BY <2>1 DEF StatusesAt, Running
  <2>3. \A j \in Jobs : statuses[j] = final[j]  BY <2>2 DEF Jobs
  <2>4. StatusesAt'  BY <2>1 DEF StatusesAt, Running
  <2>5. ExitCodeHonest'  BY <2>1, <2>3 DEF ExitCodeHonest
  <2> QED  BY <2>4, <2>5
<1>7. CASE UNCHANGED vars
  BY <1>7 DEF vars, StatusesAt, Running, ExitCodeHonest
<1> QED  BY <1>1, <1>2, <1>3, <1>4, <1>5, <1>6, <1>7 DEF Next, Work

-----------------------------------------------------------------------------
(* What the streams report                                                 *)

\* A line of run.log counts for its job, once.
LEMMA LogCounted ==
    ASSUME Types, FileTypes, IsFiniteSet(Records), NEW line \in LogLines, LogLine(line),
           NEW k, k = job, NEW d, d = IF line.ev = "step_done" THEN 1 ELSE 0
    PROVE  /\ IsFiniteSet(Records)'
           /\ RecordedInAll' = RecordedInAll + d
           /\ Recorded(k)' = Recorded(k) + d
           /\ \A j \in Jobs : j # k => Recorded(j)' = Recorded(j)
<1> DEFINE Lines(j) == LinesOf({"step_done"}, log[j])
           Lines1(j) == LinesOf({"step_done"}, log'[j])
           new == Len(log[k]) + 1
<1>1. k \in Jobs /\ log[k] \in Seq(LogLines)  BY DEF Types, FileTypes
<1>2. /\ log'[k] = Append(log[k], line)
      /\ \A j \in Jobs : j # k => log'[j] = log[j]
  BY LogGrows
<1>3. /\ Lines(k) \subseteq 1..Len(log[k])
      /\ Cardinality(Lines(k)) \in Nat
      /\ Lines1(k) = IF line.ev = "step_done" THEN Lines(k) \cup {new} ELSE Lines(k)
      /\ Cardinality(Lines1(k)) = Cardinality(Lines(k)) + d
  <2>1. PICK s \in Seq(LogLines) : s = log[k]  BY <1>1
  <2>2. PICK evs : evs = {"step_done"}  OBVIOUS
  <2>3. line.ev \in evs <=> line.ev = "step_done"  BY <2>2
  <2>4. Lines(k) = LinesOf(evs, s) /\ Lines1(k) = LinesOf(evs, Append(s, line))
        /\ new = Len(s) + 1
    BY <1>2, <2>1, <2>2
  <2> HIDE DEF Lines, Lines1, new
  <2>5. /\ LinesOf(evs, s) \subseteq 1..Len(s)
        /\ Cardinality(LinesOf(evs, s)) \in Nat
        /\ LinesOf(evs, Append(s, line)) =
               IF line.ev \in evs THEN LinesOf(evs, s) \cup {Len(s) + 1} ELSE LinesOf(evs, s)
        /\ Cardinality(LinesOf(evs, Append(s, line))) =
               Cardinality(LinesOf(evs, s)) + IF line.ev \in evs THEN 1 ELSE 0
    BY CountGrows
  <2> QED  BY <2>1, <2>3, <2>4, <2>5
<1>4. \A j \in Jobs : j # k => Lines1(j) = Lines(j)  BY <1>2
<1>5. /\ Records = UNION {{j} \X Lines(j) : j \in Jobs}
      /\ Records' = UNION {{j} \X Lines1(j) : j \in Jobs}
  BY DEF Records, Jobs
<1>6. new \notin Lines(k)  BY <1>1, <1>3
<1>7. \A j : Recorded(j) = Cardinality(Lines(j)) /\ Recorded(j)' = Cardinality(Lines1(j))
  BY DEF Recorded
<1> HIDE DEF Lines, Lines1, new
<1>8. RecordedInAll' = RecordedInAll + d /\ IsFiniteSet(Records)'
  <2>1. PICK x : x = <<k, new>>  OBVIOUS
  <2>2. x \notin Records  BY <1>5, <1>6, <2>1
  <2>3. CASE line.ev = "step_done"
    <3>1. Lines1(k) = Lines(k) \cup {new}  BY <1>3, <2>3
    <3>2. Records' = Records \cup {x}  BY <1>1, <1>4, <1>5, <2>1, <3>1
    <3> QED  BY <2>2, <2>3, <3>2, FS_AddElement DEF RecordedInAll
  <2>4. CASE line.ev # "step_done"
    <3>1. \A j \in Jobs : Lines1(j) = Lines(j)  BY <1>3, <1>4, <2>4
    <3>2. Records' = Records  BY <1>5, <3>1
    <3>3. Cardinality(Records) \in Nat  BY FS_CardinalityType
    <3> QED  BY <2>4, <3>2, <3>3 DEF RecordedInAll
  <2> QED  BY <2>3, <2>4
<1> QED  BY <1>3, <1>4, <1>7, <1>8

\* A report on the console counts for its job, once.
LEMMA ConsoleCounted ==
    ASSUME Types, FileTypes, NEW line \in ConsoleLines, ConsoleLine(line),
           NEW k, k = job, NEW d, d = IF line.ev \in {"step.complete", "step.failed"} THEN 1 ELSE 0
    PROVE  /\ ShownOnConsole(k)' = ShownOnConsole(k) + d
           /\ \A j \in Jobs : j # k => ShownOnConsole(j)' = ShownOnConsole(j)
<1>1. k \in Jobs /\ console[k] \in Seq(ConsoleLines)  BY DEF Types, FileTypes
<1>2. /\ console'[k] = Append(console[k], line)
      /\ \A j \in Jobs : j # k => console'[j] = console[j]
  BY ConsoleGrows
<1>3. PICK s \in Seq(ConsoleLines) : s = console[k]  BY <1>1
<1>4. PICK evs : evs = {"step.complete", "step.failed"}  OBVIOUS
<1>5. Cardinality(LinesOf(evs, Append(s, line))) = Cardinality(LinesOf(evs, s)) + d
  BY <1>4, CountGrows
<1> QED  BY <1>2, <1>3, <1>4, <1>5 DEF ShownOnConsole

\* A line on the feed.
LEMMA FeedCounted ==
    ASSUME FileTypes, NEW line \in FeedLines, FeedLine(line),
           NEW d, d = IF line.ev = "task_end" THEN 1 ELSE 0
    PROVE  ShownOnFeed' = ShownOnFeed + d
<1>1. feed \in Seq(FeedLines) /\ feed' = Append(feed, line)  BY DEF FileTypes, FeedLine
<1>2. PICK evs : evs = {"task_end"}  OBVIOUS
<1>3. line.ev \in evs <=> line.ev = "task_end"  BY <1>2
<1>4. Cardinality(LinesOf(evs, Append(feed, line))) = Cardinality(LinesOf(evs, feed)) + d
  BY <1>1, <1>3, CountGrows
<1> QED  BY <1>1, <1>2, <1>4 DEF ShownOnFeed

\* The numbers that are compared.
LEMMA CountsAreNat ==
    ASSUME FileTypes, IsFiniteSet(Records)
    PROVE  /\ \A j \in Jobs : Recorded(j) \in Nat /\ ShownOnConsole(j) \in Nat
           /\ RecordedInAll \in Nat /\ ShownOnFeed \in Nat
<1>1. ASSUME NEW j \in Jobs
      PROVE  Recorded(j) \in Nat /\ ShownOnConsole(j) \in Nat
  <2>1. log[j] \in Seq(LogLines) /\ console[j] \in Seq(ConsoleLines)  BY DEF FileTypes
  <2>2. Cardinality(LinesOf({"step_done"}, log[j])) \in Nat  BY <2>1, CountGrows
  <2>3. Cardinality(LinesOf({"step.complete", "step.failed"}, console[j])) \in Nat
    BY <2>1, CountGrows
  <2> QED  BY <2>2, <2>3 DEF Recorded, ShownOnConsole
<1>2. ShownOnFeed \in Nat
  <2>1. feed \in Seq(FeedLines)  BY DEF FileTypes
  <2> QED  BY <2>1, CountGrows DEF ShownOnFeed
<1>3. RecordedInAll \in Nat  BY FS_CardinalityType DEF RecordedInAll
<1> QED  BY <1>1, <1>2, <1>3

LEMMA CountsKept ==
    Types /\ FileTypes /\ CountsAt /\ [Next]_vars => CountsAt'
<1> SUFFICES ASSUME Types, FileTypes, CountsAt, [Next]_vars PROVE CountsAt'
  OBVIOUS
<1> USE DEF memory, files
<1>1. /\ IsFiniteSet(Records)
      /\ \A j \in Jobs : Within(ShownOnConsole(j), Recorded(j), PendingOnConsole(j))
      /\ Within(ShownOnFeed, RecordedInAll, PendingOnFeed)
  BY DEF CountsAt
<1>2. /\ \A j \in Jobs : Recorded(j) \in Nat /\ ShownOnConsole(j) \in Nat
      /\ RecordedInAll \in Nat /\ ShownOnFeed \in Nat /\ launches \in Nat
  BY <1>1, CountsAreNat DEF Types
<1>3. PICK k \in Jobs : k = job  BY DEF Types
<1>4. log' = log => /\ IsFiniteSet(Records)' /\ RecordedInAll' = RecordedInAll
                    /\ \A j \in Jobs : Recorded(j)' = Recorded(j)
  BY <1>1 DEF Records, RecordedInAll, Recorded, Jobs
<1>5. feed' = feed => ShownOnFeed' = ShownOnFeed
  BY DEF ShownOnFeed
<1>6. console' = console => \A j \in Jobs : ShownOnConsole(j)' = ShownOnConsole(j)
  BY DEF ShownOnConsole
<1>7. ASSUME IsFiniteSet(Records)', launches' = launches, Running, Running',
             NEW dr \in {0, 1}, NEW df \in {0, 1}, NEW dc \in {0, 1}, job' = job,
             RecordedInAll' = RecordedInAll + dr, Recorded(k)' = Recorded(k) + dr,
             \A j \in Jobs : j # k => Recorded(j)' = Recorded(j),
             ShownOnFeed' = ShownOnFeed + df, ShownOnConsole(k)' = ShownOnConsole(k) + dc,
             \A j \in Jobs : j # k => ShownOnConsole(j)' = ShownOnConsole(j),
             PendingOnConsole(k) + dr = PendingOnConsole(k)' + dc,
             PendingOnFeed + dr = PendingOnFeed' + df
      PROVE  CountsAt'
  <2>1. Within(ShownOnFeed, RecordedInAll, PendingOnFeed)'
    BY <1>1, <1>2, <1>7 DEF Within, PendingOnFeed
  <2>2. ASSUME NEW j \in Jobs
        PROVE  Within(ShownOnConsole(j), Recorded(j), PendingOnConsole(j))'
    <3>1. CASE j = k
      <4>1. Within(ShownOnConsole(k), Recorded(k), PendingOnConsole(k))  BY <1>1
      <4>2. PendingOnConsole(k) \in {0, 1} /\ PendingOnConsole(k)' \in {0, 1}
        BY DEF PendingOnConsole
      <4> QED  BY <1>2, <1>7, <3>1, <4>1, <4>2 DEF Within
    <3>2. CASE j # k
      <4>1. PendingOnConsole(j) = 0 /\ PendingOnConsole(j)' = 0
        BY <1>3, <1>7, <3>2 DEF PendingOnConsole
      <4>2. Within(ShownOnConsole(j), Recorded(j), PendingOnConsole(j))  BY <1>1
      <4> QED  BY <1>2, <1>7, <3>2, <4>1, <4>2 DEF Within
    <3> QED  BY <3>1, <3>2
  <2> QED  BY <1>7, <2>1, <2>2 DEF CountsAt, Jobs
<1>8. CASE Launch
  <2>1. /\ launches' = launches + 1 /\ ~Running /\ pc' = "start"
        /\ log' = log /\ feed' = feed /\ console' = console
    BY <1>8 DEF Launch, Running
  <2>2. PendingOnFeed' = 0 /\ \A j \in Jobs : PendingOnConsole(j)' = 0
    BY <2>1 DEF PendingOnFeed, PendingOnConsole
  <2>3. Within(ShownOnFeed, RecordedInAll, PendingOnFeed)'
    BY <1>1, <1>2, <1>4, <1>5, <2>1, <2>2 DEF Within
  <2>4. ASSUME NEW j \in Jobs
        PROVE  Within(ShownOnConsole(j), Recorded(j), PendingOnConsole(j))'
    BY <1>1, <1>2, <1>4, <1>6, <2>1, <2>2 DEF Within
  <2> QED  BY <1>4, <2>1, <2>3, <2>4 DEF CountsAt, Jobs
<1>9. CASE Kill \/ Raise \/ Summarise
  <2>1. /\ launches' = launches /\ pc' \in {"dead", "exited"}
        /\ log' = log /\ feed' = feed /\ console' = console
    BY <1>9 DEF Kill, Raise, Summarise
  <2>2. ~Running'  BY <2>1 DEF Running
  <2>3. Within(ShownOnFeed, RecordedInAll, PendingOnFeed)'
    BY <1>1, <1>2, <1>4, <1>5, <2>1, <2>2 DEF Within, PendingOnFeed
  <2>4. ASSUME NEW j \in Jobs
        PROVE  Within(ShownOnConsole(j), Recorded(j), PendingOnConsole(j))'
    BY <1>1, <1>2, <1>4, <1>6, <2>1, <2>2 DEF Within, PendingOnConsole
  <2> QED  BY <1>4, <2>1, <2>3, <2>4 DEF CountsAt, Jobs
<1>10. CASE Grade \/ RunOutOfSteps \/ WriteFinal
  <2>1. /\ launches' = launches /\ log' = log /\ feed' = feed /\ console' = console
        /\ Running /\ Running'
        /\ pc \notin {"report", "reportConsole"} /\ pc' \notin {"report", "reportConsole"}
    BY <1>10 DEF Grade, RunOutOfSteps, WriteFinal, Running
  <2>2. /\ PendingOnFeed = 0 /\ \A j \in Jobs : PendingOnConsole(j) = 0
        /\ PendingOnFeed' = 0 /\ \A j \in Jobs : PendingOnConsole(j)' = 0
    BY <2>1 DEF PendingOnFeed, PendingOnConsole
  <2>3. Within(ShownOnFeed, RecordedInAll, PendingOnFeed)'
    BY <1>1, <1>2, <1>4, <1>5, <2>1, <2>2 DEF Within
  <2>4. ASSUME NEW j \in Jobs
        PROVE  Within(ShownOnConsole(j), Recorded(j), PendingOnConsole(j))'
    BY <1>1, <1>2, <1>4, <1>6, <2>1, <2>2 DEF Within
  <2> QED  BY <1>4, <2>1, <2>3, <2>4 DEF CountsAt, Jobs
<1>11. CASE StartRun \/ Announce \/ OpenStep \/ CloseStreams
  <2>1. /\ launches' = launches /\ log' = log /\ job' = job /\ Running /\ Running'
        /\ pc \notin {"report", "reportConsole"} /\ pc' \notin {"report", "reportConsole"}
    BY <1>11 DEF StartRun, Announce, OpenStep, CloseStreams, Running
  <2>2. ShownOnFeed' = ShownOnFeed
    <3>1. CASE StartRun  BY <1>5, <3>1 DEF StartRun
    <3>2. CASE Announce \/ OpenStep \/ CloseStreams
      <4>1. PICK line \in FeedLines : FeedLine(line) /\ line.ev # "task_end"
        <5>1. CASE Announce
          <6>1. [ev |-> "crew_start"] \in FeedLines  BY DEF FeedLines
          <6> QED  BY <5>1, <6>1 DEF Announce
        <5>2. CASE OpenStep
          <6>1. pos \in 1..MaxSteps  BY <5>2, BenchmarkAssumption DEF OpenStep, Types
          <6>2. [ev |-> "task_open", step |-> pos] \in FeedLines  BY <6>1 DEF FeedLines
          <6> QED  BY <5>2, <6>2 DEF OpenStep
        <5>3. CASE CloseStreams
          <6>1. [ev |-> "crew_end", status |-> outcome.status] \in FeedLines
            BY DEF FeedLines, Types
          <6> QED  BY <5>3, <6>1 DEF CloseStreams
        <5> QED  BY <3>2, <5>1, <5>2, <5>3
      <4>2. PICK d : d = IF line.ev = "task_end" THEN 1 ELSE 0  OBVIOUS
      <4> QED  BY <1>2, <4>1, <4>2, FeedCounted
    <3> QED  BY <1>11, <3>1, <3>2
  <2>3. PICK line \in ConsoleLines :
            ConsoleLine(line) /\ line.ev \notin {"step.complete", "step.failed"}
    <3>1. [ev |-> "run.start"] \in ConsoleLines /\ [ev |-> "plan.created"] \in ConsoleLines
          /\ [ev |-> "step.start"] \in ConsoleLines
      BY DEF ConsoleLines
    <3>2. CASE StartRun  BY <3>1, <3>2 DEF StartRun
    <3>3. CASE Announce  BY <3>1, <3>3 DEF Announce
    <3>4. CASE OpenStep  BY <3>1, <3>4 DEF OpenStep
    <3>5. CASE CloseStreams
      <4>1. PICK n : n = IF outcome.status = "ok" THEN size ELSE pos  OBVIOUS
      <4>2. n \in 0..MaxSteps  BY <3>5, <4>1, BenchmarkAssumption DEF CloseStreams, Types, Over
      <4>3. [ev |-> "run.complete", llm |-> llmTotal, steps |-> n] \in ConsoleLines
        BY <4>2 DEF ConsoleLines, Types
      <4> QED  BY <3>5, <4>1, <4>3 DEF CloseStreams
    <3> QED  BY <1>11, <3>2, <3>3, <3>4, <3>5
  <2>4. PICK d : d = IF line.ev \in {"step.complete", "step.failed"} THEN 1 ELSE 0  OBVIOUS
  <2>5. /\ ShownOnConsole(k)' = ShownOnConsole(k) + 0
        /\ \A j \in Jobs : j # k => ShownOnConsole(j)' = ShownOnConsole(j)
    BY <1>3, <2>3, <2>4, ConsoleCounted
  <2>6. PendingOnFeed = 0 /\ PendingOnFeed' = 0
        /\ PendingOnConsole(k) = 0 /\ PendingOnConsole(k)' = 0
    BY <2>1 DEF PendingOnFeed, PendingOnConsole
  <2>7. /\ RecordedInAll' = RecordedInAll + 0 /\ Recorded(k)' = Recorded(k) + 0
        /\ ShownOnFeed' = ShownOnFeed + 0 /\ IsFiniteSet(Records)'
        /\ \A j \in Jobs : j # k => Recorded(j)' = Recorded(j)
    BY <1>2, <1>4, <2>1, <2>2
  <2>8. 0 \in {0, 1} /\ 0 + 0 = 0  OBVIOUS
  <2> QED  BY <1>7, <2>1, <2>5, <2>6, <2>7, <2>8
<1>12. CASE EmitPlan \/ FinishStep
  <2>1. /\ launches' = launches /\ feed' = feed /\ console' = console /\ job' = job
        /\ Running /\ Running' /\ pc \in {"plan", "execute"}
        /\ pc' = IF pc = "plan" THEN "announce" ELSE "report"
        /\ pc = "plan" <=> ~FinishStep
    BY <1>12 DEF EmitPlan, FinishStep, Running
  <2>2. PICK line \in LogLines :
            LogLine(line) /\ line.ev = IF pc = "plan" THEN "plan_emitted" ELSE "step_done"
    <3>1. CASE EmitPlan
      <4>1. [ev |-> "plan_emitted"] \in LogLines  BY DEF LogLines
      <4> QED  BY <3>1, <4>1 DEF EmitPlan
    <3>2. CASE FinishStep
      <4>1. PICK o \in Outcomes : outcome' = o  BY <3>2 DEF FinishStep
      <4>2. pos \in 1..MaxSteps  BY <3>2, BenchmarkAssumption DEF FinishStep, Types
      <4>3. [ev |-> "step_done", step |-> pos, status |-> o.status, llm |-> o.llm] \in LogLines
        BY <4>2 DEF LogLines, Outcomes
      <4>4. LogLine([ev |-> "step_done", step |-> pos, status |-> o.status, llm |-> o.llm])
        BY <3>2, <4>1 DEF FinishStep
      <4> QED  BY <3>2, <4>3, <4>4 DEF FinishStep
    <3> QED  BY <1>12, <3>1, <3>2
  <2>3. PICK d : d = IF line.ev = "step_done" THEN 1 ELSE 0  OBVIOUS
  <2>4. d = (IF pc = "plan" THEN 0 ELSE 1) /\ d \in {0, 1}  BY <2>1, <2>2, <2>3
  <2>5. /\ IsFiniteSet(Records)'
        /\ RecordedInAll' = RecordedInAll + d /\ Recorded(k)' = Recorded(k) + d
        /\ \A j \in Jobs : j # k => Recorded(j)' = Recorded(j)
    BY <1>1, <1>3, <2>2, <2>3, LogCounted
  <2>6. /\ PendingOnFeed = 0 /\ PendingOnFeed' = d
        /\ PendingOnConsole(k) = 0 /\ PendingOnConsole(k)' = d
    BY <1>3, <2>1, <2>4 DEF PendingOnFeed, PendingOnConsole
  <2>7. /\ ShownOnFeed' = ShownOnFeed + 0 /\ ShownOnConsole(k)' = ShownOnConsole(k) + 0
        /\ \A j \in Jobs : j # k => ShownOnConsole(j)' = ShownOnConsole(j)
    BY <1>2, <1>5, <1>6, <2>1
  <2>8. 0 \in {0, 1} /\ 0 + d = d + 0  BY <2>4
  <2> QED  BY <1>7, <2>1, <2>4, <2>5, <2>6, <2>7, <2>8
<1>13. CASE ReportFeed
  <2>1. /\ launches' = launches /\ log' = log /\ console' = console /\ job' = job
        /\ Running /\ Running' /\ pc = "report" /\ pc' = "reportConsole"
    BY <1>13 DEF ReportFeed, Running
  <2> DEFINE line == [ev |-> "task_end", step |-> pos,
                      status |-> IF outcome.status = "ok" THEN "ok" ELSE "error"]
  <2>2. line \in FeedLines
    <3>1. pos \in 1..MaxSteps  BY <1>13, BenchmarkAssumption DEF ReportFeed, Types
    <3> QED  BY <3>1 DEF FeedLines
  <2>3. FeedLine(line)  BY <1>13 DEF ReportFeed
  <2>4. 1 = IF line.ev = "task_end" THEN 1 ELSE 0  OBVIOUS
  <2>5. ShownOnFeed' = ShownOnFeed + 1  BY <2>2, <2>3, <2>4, FeedCounted
  <2>6. /\ PendingOnFeed = 1 /\ PendingOnFeed' = 0
        /\ PendingOnConsole(k) = 1 /\ PendingOnConsole(k)' = 1
    BY <1>3, <2>1 DEF PendingOnFeed, PendingOnConsole
  <2>7. /\ RecordedInAll' = RecordedInAll + 0 /\ Recorded(k)' = Recorded(k) + 0
        /\ ShownOnConsole(k)' = ShownOnConsole(k) + 0 /\ IsFiniteSet(Records)'
        /\ \A j \in Jobs : j # k => Recorded(j)' = Recorded(j)
        /\ \A j \in Jobs : j # k => ShownOnConsole(j)' = ShownOnConsole(j)
    BY <1>2, <1>4, <1>6, <2>1
  <2>8. 0 \in {0, 1} /\ 1 \in {0, 1} /\ 1 + 0 = 0 + 1 /\ 1 + 0 = 1 + 0  OBVIOUS
  <2> QED  BY <1>7, <2>1, <2>5, <2>6, <2>7, <2>8
<1>14. CASE ReportConsole
  <2>1. /\ launches' = launches /\ log' = log /\ feed' = feed /\ job' = job
        /\ Running /\ Running' /\ pc = "reportConsole" /\ pc' \in {"next", "closing"}
    BY <1>14 DEF ReportConsole, Running
  <2>2. PICK line \in ConsoleLines :
            ConsoleLine(line) /\ line.ev \in {"step.complete", "step.failed"}
    <3>1. [ev |-> "step.complete"] \in ConsoleLines /\ [ev |-> "step.failed"] \in ConsoleLines
      BY DEF ConsoleLines
    <3> QED  BY <1>14, <3>1 DEF ReportConsole
  <2>3. 1 = IF line.ev \in {"step.complete", "step.failed"} THEN 1 ELSE 0  BY <2>2
  <2>4. /\ ShownOnConsole(k)' = ShownOnConsole(k) + 1
        /\ \A j \in Jobs : j # k => ShownOnConsole(j)' = ShownOnConsole(j)
    BY <1>3, <2>2, <2>3, ConsoleCounted
  <2>5. /\ PendingOnFeed = 0 /\ PendingOnFeed' = 0
        /\ PendingOnConsole(k) = 1 /\ PendingOnConsole(k)' = 0
    BY <1>3, <2>1 DEF PendingOnFeed, PendingOnConsole
  <2>6. /\ RecordedInAll' = RecordedInAll + 0 /\ Recorded(k)' = Recorded(k) + 0
        /\ ShownOnFeed' = ShownOnFeed + 0 /\ IsFiniteSet(Records)'
        /\ \A j \in Jobs : j # k => Recorded(j)' = Recorded(j)
    BY <1>2, <1>4, <1>5, <2>1
  <2>7. 0 \in {0, 1} /\ 1 \in {0, 1} /\ 1 + 0 = 0 + 1 /\ 0 + 0 = 0 + 0  OBVIOUS
  <2> QED  BY <1>7, <2>1, <2>4, <2>5, <2>6, <2>7
<1>15. CASE UNCHANGED vars
  BY <1>1, <1>4, <1>5, <1>6, <1>15
  DEF vars, CountsAt, Within, Running, PendingOnFeed, PendingOnConsole, Jobs
<1> QED
  BY <1>8, <1>9, <1>10, <1>11, <1>12, <1>13, <1>14, <1>15 DEF Next, Work, Run

-----------------------------------------------------------------------------
(* What is left when a run returns                                         *)

\* The calls of a run under way can be added up.
LEMMA CallsAreNat ==
    ASSUME NEW run \in Seq(LogLines), \A i \in 1..Len(run) : run[i].ev = "step_done"
    PROVE  Calls(run) \in [1..Len(run) -> Nat]
<1>1. ASSUME NEW i \in 1..Len(run)
      PROVE  run[i].llm \in Nat
  <2>1. run[i] \in LogLines /\ run[i].ev = "step_done"  OBVIOUS
  <2>2. run[i].llm \in StepCalls  BY <2>1 DEF LogLines
  <2> QED  BY <2>2, BenchmarkAssumption
<1>2. DOMAIN run = 1..Len(run)  OBVIOUS
<1> QED  BY <1>1, <1>2 DEF Calls

LEMMA RunKept == Types /\ FileTypes /\ FeedAt /\ RunAt /\ [Next]_vars => RunAt'
<1> SUFFICES ASSUME Types, FileTypes, FeedAt, RunAt, [Next]_vars PROVE RunAt'
  OBVIOUS
<1> USE DEF memory, files
<1>1. CASE Launch \/ Kill \/ Raise \/ Grade \/ Summarise \/ StartRun
  <2>1. pc' \notin InRun
    BY <1>1 DEF Launch, Kill, Raise, Grade, Summarise, StartRun, InRun, Over
  <2> QED  BY <2>1 DEF RunAt
<1>2. CASE EmitPlan
  <2> DEFINE line == [ev |-> "plan_emitted"]
  <2>1. line \in LogLines  BY DEF LogLines
  <2>2. log[job] \in Seq(LogLines)  BY DEF Types, FileTypes
  <2>3. log'[job] = Append(log[job], line) /\ job' = job /\ llmTotal' = 0
        /\ pc' = "announce" /\ pos' = 1
    BY <1>2, <2>1, LogGrows DEF EmitPlan
  <2>4. ThisRun(log'[job']) = <<>>  BY <2>1, <2>2, <2>3, RunStarts
  <2>5. StepsDone' = 0  BY <2>3 DEF StepsDone
  <2>6. PICK run : run = <<>>  OBVIOUS
  <2>7. run \in Seq(LogLines) /\ Len(run) = 0  BY <2>6
  <2>8. SumFunction(Calls(run)) = 0
    <3>1. PICK f : f = Calls(run)  OBVIOUS
    <3>2. \A i \in 1..Len(run) : run[i].ev = "step_done"  BY <2>7
    <3>3. f \in [1..0 -> Nat]  BY <2>7, <3>1, <3>2, CallsAreNat
    <3> QED  BY <3>1, <3>3, SumOfNone
  <2>9. \A i \in 1..StepsDone' : FALSE  BY <2>5
  <2>10. ThisRun(log'[job']) = run  BY <2>4, <2>6
  <2> QED  BY <2>3, <2>5, <2>7, <2>8, <2>9, <2>10 DEF RunAt
<1>3. CASE FinishStep
  <2>1. PICK o \in Outcomes : outcome' = o  BY <1>3 DEF FinishStep
  <2> DEFINE line == [ev |-> "step_done", step |-> pos, status |-> o.status, llm |-> o.llm]
  <2>2. line \in LogLines
    <3>1. pos \in 1..MaxSteps  BY <1>3, BenchmarkAssumption DEF FinishStep, Types
    <3> QED  BY <3>1 DEF LogLines, Outcomes
  <2>3. log[job] \in Seq(LogLines)  BY DEF Types, FileTypes
  <2>4. LogLine(line) /\ pc = "execute" /\ pc' = "report" /\ job' = job /\ pos' = pos
        /\ llmTotal' = llmTotal + o.llm
    BY <1>3, <2>1 DEF FinishStep
  <2>5. log'[job] = Append(log[job], line)  BY <2>2, <2>4, LogGrows
  <2>6. PICK run : run = ThisRun(log[job])  OBVIOUS
  <2>7. PICK n \in Nat : n = pos - 1  BY <2>4 DEF Types
  <2>8. /\ run \in Seq(LogLines) /\ Len(run) = n
        /\ \A i \in 1..n : run[i].ev = "step_done" /\ run[i].status = "ok"
        /\ llmTotal = SumFunction(Calls(run))
    BY <2>4, <2>6, <2>7 DEF RunAt, InRun, StepsDone, LastStatus
  <2>9. PICK e \in LogLines : e = line  BY <2>2
  <2>10. e.ev = "step_done" /\ e.status = o.status /\ e.llm = o.llm  BY <2>9
  <2> HIDE DEF line
  <2>11. PICK run1 : run1 = Append(run, e)  OBVIOUS
  <2>12. /\ run1 \in Seq(LogLines) /\ Len(run1) = n + 1
         /\ \A i \in 1..n : run1[i] = run[i]
         /\ run1[n + 1] = e
    BY <2>8, <2>11, Grown
  <2>13. ThisRun(log'[job']) = run1
    <3>1. e.ev # "plan_emitted"  BY <2>10
    <3>2. ThisRun(Append(log[job], e)) = Append(ThisRun(log[job]), e)
      BY <2>3, <3>1, RunGrows
    <3> QED  BY <2>4, <2>5, <2>6, <2>9, <2>11, <3>2
  <2>14. ASSUME NEW i \in 1..(n + 1)
         PROVE  /\ run1[i].ev = "step_done"
                /\ run1[i].status = IF i = n + 1 THEN o.status ELSE "ok"
    <3>1. CASE i = n + 1  BY <2>10, <2>12, <3>1
    <3>2. CASE i # n + 1
      <4>1. i \in 1..n  BY <3>2
      <4> QED  BY <2>8, <2>12, <3>2, <4>1
    <3> QED  BY <3>1, <3>2
  <2>15. llmTotal' = SumFunction(Calls(run1))
    <3>1. PICK f \in [1..n -> Nat] : f = Calls(run)  BY <2>8, CallsAreNat
    <3>2. PICK g \in [1..(n + 1) -> Nat] : g = Calls(run1)  BY <2>12, <2>14, CallsAreNat
    <3>3. DOMAIN run = 1..n /\ DOMAIN run1 = 1..(n + 1)  BY <2>8, <2>12
    <3>4. \A i \in 1..n : g[i] = f[i]  BY <2>12, <3>1, <3>2, <3>3 DEF Calls
    <3>5. g[n + 1] = o.llm  BY <2>10, <2>12, <3>2, <3>3 DEF Calls
    <3>6. SumFunction(g) = SumFunction(f) + g[n + 1]  BY <3>4, SumGrows
    <3> QED  BY <2>4, <2>8, <3>1, <3>2, <3>5, <3>6
  <2>16. StepsDone' = n + 1 /\ LastStatus' = o.status
    <3>1. StepsDone' = pos /\ LastStatus' = o.status
      BY <2>1, <2>4 DEF StepsDone, LastStatus, Over
    <3>2. pos = n + 1  BY <2>7, <2>4 DEF Types
    <3> QED  BY <3>1, <3>2
  <2> QED  BY <2>12, <2>13, <2>14, <2>15, <2>16 DEF RunAt
<1>4. ASSUME log' = log, job' = job, llmTotal' = llmTotal, pc \in InRun,
             StepsDone' = StepsDone,
             StepsDone \in Nat \ {0} => LastStatus' = LastStatus
      PROVE  RunAt'
  <2>1. PICK run : run = ThisRun(log[job]) /\ run = ThisRun(log'[job'])  BY <1>4
  <2>2. PICK n : n = StepsDone  OBVIOUS
  <2>3. /\ run \in Seq(LogLines) /\ Len(run) = n
        /\ \A i \in 1..n :
              /\ run[i].ev = "step_done"
              /\ run[i].status = IF i = n THEN LastStatus ELSE "ok"
        /\ llmTotal = SumFunction(Calls(run))
    BY <1>4, <2>1, <2>2 DEF RunAt
  <2>4. ASSUME NEW i \in 1..n
        PROVE  run[i].status = IF i = n THEN LastStatus' ELSE "ok"
    <3>1. n \in Nat  BY <2>3
    <3>2. n \in Nat \ {0}  BY <3>1
    <3> QED  BY <1>4, <2>2, <2>3, <3>2
  <2> QED  BY <1>4, <2>1, <2>2, <2>3, <2>4 DEF RunAt
<1>5. CASE Announce \/ OpenStep
  <2>1. log' = log /\ job' = job /\ llmTotal' = llmTotal /\ pos' = pos
        /\ pc \in {"announce", "next"} /\ pc' \in {"next", "execute"}
    BY <1>5 DEF Announce, OpenStep
  <2> QED  BY <1>4, <2>1 DEF StepsDone, LastStatus, InRun
<1>6. CASE ReportFeed
  <2>1. log' = log /\ job' = job /\ llmTotal' = llmTotal /\ pos' = pos /\ outcome' = outcome
        /\ pc = "report" /\ pc' = "reportConsole"
    BY <1>6 DEF ReportFeed
  <2> QED  BY <1>4, <2>1 DEF StepsDone, LastStatus, InRun, Over
<1>7. CASE ReportConsole
  <2>1. /\ log' = log /\ job' = job /\ llmTotal' = llmTotal /\ outcome' = outcome
        /\ pc = "reportConsole"
        /\ \/ outcome.status = "ok" /\ pos' = pos + 1 /\ pc' = "next"
           \/ outcome.status = "failed" /\ pos' = pos /\ pc' = "closing"
    BY <1>7 DEF ReportConsole
  <2>2. pos \in Nat /\ (pos + 1) - 1 = pos  BY DEF Types
  <2>3. StepsDone' = StepsDone /\ LastStatus' = LastStatus
    BY <2>1, <2>2 DEF StepsDone, LastStatus, Over
  <2> QED  BY <1>4, <2>1, <2>3 DEF InRun
<1>8. CASE RunOutOfSteps
  <2>1. /\ log' = log /\ job' = job /\ llmTotal' = llmTotal /\ outcome'.status = "ok"
        /\ pc = "next" /\ pc' = "closing" /\ pos > size /\ size' = size
    BY <1>8 DEF RunOutOfSteps, NoOutcome
  <2>2. pos - 1 = size  BY <2>1, BenchmarkAssumption DEF Types
  <2>3. StepsDone' = StepsDone /\ LastStatus' = LastStatus
    BY <2>1, <2>2 DEF StepsDone, LastStatus, Over
  <2> QED  BY <1>4, <2>1, <2>3 DEF InRun
<1>9. CASE CloseStreams \/ WriteFinal
  <2>1. /\ log' = log /\ job' = job /\ llmTotal' = llmTotal /\ outcome' = outcome
        /\ pos' = pos /\ size' = size
        /\ pc \in {"closing", "writeFinal"} /\ pc' \in {"writeFinal", "returned"}
    BY <1>9 DEF CloseStreams, WriteFinal
  <2>2. StepsDone' = StepsDone /\ LastStatus' = LastStatus
    BY <2>1 DEF StepsDone, LastStatus, Over
  <2> QED  BY <1>4, <2>1, <2>2 DEF InRun, Over
<1>10. CASE UNCHANGED vars  BY <1>10 DEF vars, RunAt, StepsDone, LastStatus
<1> QED
  BY <1>1, <1>2, <1>3, <1>5, <1>6, <1>7, <1>8, <1>9, <1>10 DEF Next, Work, Run

LEMMA StreamsKept == Types /\ FileTypes /\ StreamsAt /\ [Next]_vars => StreamsAt'
<1> SUFFICES ASSUME Types, FileTypes, StreamsAt, [Next]_vars PROVE StreamsAt'
  OBVIOUS
<1> USE DEF memory, files
<1>1. CASE Launch \/ Kill \/ Raise \/ Grade \/ Summarise
  BY <1>1 DEF Launch, Kill, Raise, Grade, Summarise, StreamsAt
<1>2. CASE StartRun \/ EmitPlan \/ Announce \/ OpenStep \/ FinishStep \/ ReportFeed
           \/ ReportConsole \/ RunOutOfSteps
  <2>1. pc' \notin {"writeFinal", "returned"}
    BY <1>2 DEF StartRun, EmitPlan, Announce, OpenStep, FinishStep, ReportFeed,
                ReportConsole, RunOutOfSteps
  <2> QED  BY <2>1 DEF StreamsAt
<1>3. CASE CloseStreams
  <2>1. PICK n : n = IF outcome.status = "ok" THEN size ELSE pos  OBVIOUS
  <2>2. PICK e : e = [ev |-> "run.complete", llm |-> llmTotal, steps |-> n]  OBVIOUS
  <2>3. PICK l : l = [ev |-> "crew_end", status |-> outcome.status]  OBVIOUS
  <2>4. /\ ConsoleLine(e) /\ FeedLine(l) /\ pc = "closing" /\ pc' = "writeFinal"
        /\ job' = job /\ outcome' = outcome /\ llmTotal' = llmTotal
        /\ size' = size /\ pos' = pos
    BY <1>3, <2>1, <2>2, <2>3 DEF CloseStreams
  <2>5. e \in ConsoleLines
    <3>1. n \in 0..MaxSteps  BY <2>1, <2>4, BenchmarkAssumption DEF Types, Over
    <3> QED  BY <2>2, <3>1 DEF ConsoleLines, Types
  <2>6. l \in FeedLines  BY <2>3 DEF FeedLines, Types
  <2>7. Last(feed') = l
    <3>1. feed \in Seq(FeedLines) /\ feed' = Append(feed, l)  BY <2>4 DEF FileTypes, FeedLine
    <3> QED  BY <2>6, <3>1, Grown DEF Last
  <2>8. Last(console'[job]) = e
    <3>1. console[job] \in Seq(ConsoleLines)  BY DEF Types, FileTypes
    <3>2. console'[job] = Append(console[job], e)  BY <2>4, <2>5, ConsoleGrows
    <3> QED  BY <2>5, <3>1, <3>2, Grown DEF Last
  <2>9. StepsDone' = n  BY <2>1, <2>4 DEF StepsDone, Over
  <2> QED  BY <2>2, <2>3, <2>4, <2>7, <2>8, <2>9 DEF StreamsAt
<1>4. CASE WriteFinal
  <2>1. /\ feed' = feed /\ console' = console /\ job' = job /\ outcome' = outcome
        /\ llmTotal' = llmTotal /\ size' = size /\ pos' = pos
        /\ pc = "writeFinal" /\ pc' = "returned"
    BY <1>4 DEF WriteFinal
  <2>2. StepsDone' = StepsDone  BY <2>1 DEF StepsDone, Over
  <2> QED  BY <2>1, <2>2 DEF StreamsAt
<1>5. CASE UNCHANGED vars  BY <1>5 DEF vars, StreamsAt, StepsDone
<1> QED  BY <1>1, <1>2, <1>3, <1>4, <1>5 DEF Next, Work, Run

-----------------------------------------------------------------------------
(* The theorems                                                            *)

\* The inductive invariant holds in every state.
THEOREM Invariance == Spec => []IInv
<1>1. IInv /\ [Next]_vars => IInv'
  BY TypesKept, FilesKept, FeedKept, LogKept, StatusesKept, CountsKept, RunKept, StreamsKept
  DEF IInv
<1> QED  BY <1>1, InitEstablishes, PTL DEF Spec

\* Every variable stays in its range, for any number of jobs, steps and launches.
THEOREM TypeCorrect == Spec => []TypeOK
<1>1. IInv => TypeOK
  <2> SUFFICES ASSUME IInv PROVE TypeOK
    OBVIOUS
  <2>1. Types /\ FileTypes /\ StatusesAt  BY DEF IInv
  <2>2. ASSUME NEW s, s \in Seq({"ok", "failed"}), Len(s) <= NJobs
        PROVE  s \in BoundedSeq({"ok", "failed"}, NJobs)
    <3>1. Len(s) \in 0..NJobs /\ s \in [1..Len(s) -> {"ok", "failed"}]
      BY <2>2, BenchmarkAssumption
    <3> QED  BY <3>1 DEF BoundedSeq, SeqOf
  <2>3. statuses \in BoundedSeq({"ok", "failed"}, NJobs)
        /\ summary \in BoundedSeq({"ok", "failed"}, NJobs)
    BY <2>1, <2>2 DEF StatusesAt
  <2>4. ToSet(feed) \subseteq FeedLines  BY <2>1 DEF FileTypes, ToSet
  <2>5. ASSUME NEW j \in Jobs
        PROVE  /\ ToSet(log[j]) \subseteq LogLines
               /\ \A i \in DOMAIN console[j] : console[j][i] \in ConsoleLines
    <3>1. log[j] \in Seq(LogLines) /\ console[j] \in Seq(ConsoleLines)
      BY <2>1 DEF FileTypes
    <3> QED  BY <3>1 DEF ToSet
  <2> QED  BY <2>1, <2>3, <2>4, <2>5 DEF TypeOK, Types, FileTypes
<1> QED  BY <1>1, Invariance, PTL

\* However many launches are killed on the same feed, tasks are bracketed: none is
\* ended twice, opened in another or reported by a crew that did not run it.
THEOREM FeedBracketed == Spec => []FeedWellBracketed
<1>1. IInv => FeedWellBracketed  BY DEF IInv
<1> QED  BY <1>1, Invariance, PTL

\* In every run.log, whoever wrote it, a run ends at its first failed step and
\* names its steps in order.
THEOREM FailureEndsRun == Spec => []LogStopsAtFailure
<1>1. IInv => LogStopsAtFailure  BY DEF IInv
<1> QED  BY <1>1, Invariance, PTL

\* Exit code 0 is the word of every run directory and of summary.json, whatever was
\* left there before; exit code 1 is, where no exception cut the launch short.
THEOREM ExitCodeTold == Spec => []ExitCodeHonest
<1>1. IInv => ExitCodeHonest  BY DEF IInv
<1> QED  BY <1>1, Invariance, PTL

\* Whatever is killed and launched again, and however often: the console of a job
\* and the feed report no step that run.log lacks, and miss one a launch at most.
THEOREM RunLogLeads == Spec => []LogLeadsStreams
<1>1. IInv => LogLeadsStreams
  BY DEF IInv, CountsAt, Within, LogLeadsStreams, Recorded, RecordedInAll, ShownOnConsole,
         ShownOnFeed
<1> QED  BY <1>1, Invariance, PTL

\* When run_one returns, final_output.json, the feed, the console and run.log tell
\* one story of the run, down to the sum of its model calls, for plans of any length.
THEOREM ReturnedRunsAgree == Spec => []RecordsAgree
<1>1. IInv => RecordsAgree
  <2> SUFFICES ASSUME IInv, pc = "returned" PROVE RecordsAgree
    BY DEF RecordsAgree
  <2>1. Types /\ FileTypes /\ StatusesAt /\ RunAt /\ StreamsAt  BY DEF IInv
  <2>2. PICK run : run = ThisRun(log[job])  OBVIOUS
  <2>3. PICK n : n = StepsDone  OBVIOUS
  <2>4. /\ run \in Seq(LogLines) /\ Len(run) = n /\ n \in Nat /\ DOMAIN run = 1..n
        /\ \A i \in 1..n : run[i].status = IF i = n THEN outcome.status ELSE "ok"
        /\ llmTotal = SumFunction(Calls(run))
    BY <2>1, <2>2, <2>3 DEF RunAt, InRun, Over, LastStatus
  <2>5. final[job] = outcome.status  BY <2>1 DEF StatusesAt, Running
  <2>6. outcome.status \in {"ok", "failed"}  BY <2>1 DEF Types
  <2>7. n = IF outcome.status = "ok" THEN size ELSE pos  BY <2>3 DEF StepsDone, Over
  <2>8. outcome.status = "failed" => pos \in 1..size  BY <2>1 DEF Types, Over
  <2>9. PICK ok : ok = {i \in DOMAIN run : run[i].status = "ok"}  OBVIOUS
  <2>10. final[job] = IF ok = 1..size THEN "ok" ELSE "failed"
    <3>1. CASE outcome.status = "ok"
      <4>1. n = size /\ \A i \in 1..n : run[i].status = "ok"  BY <2>4, <2>7, <3>1
      <4>2. ok = 1..size  BY <2>4, <2>9, <4>1
      <4> QED  BY <2>5, <3>1, <4>2
    <3>2. CASE outcome.status = "failed"
      <4>1. n \in 1..n /\ n \in 1..size  BY <2>4, <2>7, <2>8, <3>2
      <4>2. run[n].status = "failed"  BY <2>4, <3>2, <4>1
      <4>3. n \notin ok  BY <2>9, <4>2
      <4> QED  BY <2>5, <3>2, <4>1, <4>3
    <3> QED  BY <2>6, <3>1, <3>2
  <2>11. final[job] = "failed" => Last(run).status = "failed"
    <3>1. CASE outcome.status = "failed"
      <4>1. n \in 1..n  BY <2>4, <2>7, <2>8, <3>1
      <4> QED  BY <2>4, <3>1, <4>1 DEF Last
    <3> QED  BY <2>5, <3>1
  <2>12. /\ Last(feed) = [ev |-> "crew_end", status |-> final[job]]
         /\ Last(console[job]).ev = "run.complete"
         /\ Last(console[job]).steps = Len(run)
         /\ Last(console[job]).llm = SumFunction(Calls(run))
    BY <2>1, <2>3, <2>4, <2>5 DEF StreamsAt
  <2> QED  BY <2>2, <2>9, <2>10, <2>11, <2>12 DEF RecordsAgree, Calls
<1> QED  BY <1>1, Invariance, PTL
-----------------------------------------------------------------------------
(* The contract of a launch                                                *)

\* The variables of the contract that are computed, as Benchmark substitutes them.
Ended == IF pc \in {"dead", "exited"} THEN 0
         ELSE IF pc = "returned" THEN job ELSE Len(statuses)
Announced == IF pc = "writeFinal" THEN Last(feed).status ELSE "none"

LEMMA ContractInit == Init => Contract!Init
BY DEF Init, Contract!Init, Contract!Jobs, Jobs

\* What the contract needs of the invariant.
LEMMA ContractBasis ==
    ASSUME IInv
    PROVE  /\ job \in 1..NJobs /\ NJobs \in Nat
           /\ outcome.status \in {"ok", "failed"}
           /\ final \in [1..NJobs -> FinalFiles]
           /\ Running /\ pc # "summarise" => Len(statuses) = job - 1
           /\ pc = "writeFinal" => Announced = outcome.status
<1>1. Types /\ FileTypes /\ StatusesAt /\ StreamsAt  BY DEF IInv
<1>2. job \in 1..NJobs /\ NJobs \in Nat /\ outcome.status \in {"ok", "failed"}
  BY <1>1, BenchmarkAssumption DEF Types, Jobs
<1>3. final \in [1..NJobs -> FinalFiles]  BY <1>1 DEF FileTypes, Jobs
<1>4. Running /\ pc # "summarise" => Len(statuses) = job - 1
  BY <1>1 DEF StatusesAt, Running
<1>5. pc = "writeFinal" => Announced = outcome.status
  BY <1>1 DEF StreamsAt, Announced
<1> QED  BY <1>2, <1>3, <1>4, <1>5

\* A step of a launch that changes nothing the contract sees leaves it alone.
LEMMA ContractStutters ==
    ASSUME Running, Running', Ended' = Ended, Announced' = Announced,
           UNCHANGED <<final, exit, summary>>
    PROVE  UNCHANGED Contract!vars
BY DEF Running, Ended, Announced, Contract!vars

\* So does one that ends no run and closes no stream.
LEMMA ContractIgnoresSteps ==
    ASSUME pc \notin {"dead", "exited", "returned", "writeFinal"},
           pc' \notin {"dead", "exited", "returned", "writeFinal"},
           UNCHANGED <<statuses, final, exit, summary>>
    PROVE  UNCHANGED Contract!vars
<1>1. Running /\ Running'  BY DEF Running
<1>2. Ended' = Ended /\ Announced' = Announced  BY DEF Ended, Announced
<1> QED  BY <1>1, <1>2, ContractStutters

\* crew_end goes out: the verdict on the run under way is announced.
LEMMA StreamsAnnounce ==
    ASSUME IInv, IInv', CloseStreams
    PROVE  \E v \in Contract!Verdicts : Contract!Announce(v)
<1>1. /\ pc = "closing" /\ pc' = "writeFinal" /\ outcome' = outcome
      /\ UNCHANGED <<job, statuses, final, exit, summary>>
  BY DEF CloseStreams, memory
<1>2. outcome.status \in Contract!Verdicts
  BY ContractBasis DEF Contract!Verdicts
<1>3. Announced' = outcome.status
  <2>1. StreamsAt'  BY DEF IInv
  <2> QED  BY <1>1, <2>1 DEF StreamsAt, Announced
<1>4. Ended = Len(statuses) /\ Ended' = Ended /\ Ended < NJobs
  BY <1>1, ContractBasis DEF Ended, Running
<1>5. Contract!Announce(outcome.status)
  BY <1>1, <1>3, <1>4 DEF Contract!Announce, Ended, Announced
<1> QED  BY <1>2, <1>5

\* final_output.json records what was announced, of the next run.
LEMMA FinalRecords ==
    ASSUME IInv, WriteFinal
    PROVE  Contract!Record
<1>1. /\ pc = "writeFinal" /\ pc' = "returned"
      /\ final' = [final EXCEPT ![job] = outcome.status]
      /\ UNCHANGED <<job, statuses, feed, exit, summary>>
  BY DEF WriteFinal, memory
<1>2. Announced = outcome.status /\ Announced # "none"
  BY <1>1, ContractBasis
<1>3. Ended = job - 1 /\ Ended' = job /\ job \in Nat /\ Ended' = Ended + 1
  BY <1>1, ContractBasis DEF Ended, Running
<1>4. Announced' = "none"  BY <1>1 DEF Announced
<1> QED  BY <1>1, <1>2, <1>3, <1>4 DEF Contract!Record, Ended, Announced

\* summary.json and the exit code report every run of the launch.
LEMMA SummaryReports ==
    ASSUME IInv, Summarise
    PROVE  Contract!Report
<1>1. /\ pc = "summarise" /\ pc' = "exited" /\ summary' = statuses
      /\ exit' = IF \A j \in Jobs : statuses[j] = "ok" THEN "0" ELSE "1"
      /\ UNCHANGED final
  BY DEF Summarise
<1>2. /\ statuses \in Seq({"ok", "failed"}) /\ Len(statuses) = NJobs
      /\ \A j \in 1..NJobs : statuses[j] = final[j]
  BY <1>1 DEF IInv, StatusesAt, Running
<1>3. statuses = final
  BY <1>2, ContractBasis
<1>4. Ended = NJobs /\ Ended' = 0 /\ Announced = "none" /\ Announced' = "none"
  BY <1>1, <1>2 DEF Ended, Announced
<1> QED
  BY <1>1, <1>3, <1>4 DEF Contract!Report, Contract!Jobs, Jobs, Ended, Announced

\* Every step of the orchestrator is one of the contract's or none.
LEMMA ContractStep ==
    ASSUME IInv, IInv', [Next]_vars
    PROVE  [Contract!Next]_Contract!vars
<1>1. CASE Launch
  <2>1. /\ pc \in {"dead", "exited"} /\ pc' = "start" /\ statuses' = <<>> /\ exit' = "none"
        /\ UNCHANGED <<final, summary>>
    BY <1>1 DEF Launch, files
  <2>2. Ended = 0 /\ Ended' = 0 /\ Announced = "none" /\ Announced' = "none"
    BY <2>1 DEF Ended, Announced
  <2>3. Contract!Launch  BY <2>1, <2>2 DEF Contract!Launch, Ended, Announced
  <2> QED  BY <2>3 DEF Contract!Next
<1>2. CASE Kill
  <2>1. /\ pc \notin {"dead", "exited"} /\ pc' = "dead" /\ exit' = exit
        /\ \/ UNCHANGED <<final, summary>>
           \/ /\ pc = "writeFinal" /\ summary' = summary
              /\ final' = [final EXCEPT ![job] = "torn"]
           \/ pc = "summarise" /\ summary' = <<>> /\ final' = final
    BY <1>2 DEF Kill
  <2>2. Ended' = 0 /\ Announced' = "none"  BY <2>1 DEF Ended, Announced
  <2>3. \/ UNCHANGED <<final, summary>>
        \/ /\ Announced # "none" /\ summary' = summary
           /\ final' = [final EXCEPT ![Ended + 1] = "torn"]
        \/ Ended = NJobs /\ summary' = <<>> /\ final' = final
    <3>1. CASE UNCHANGED <<final, summary>>  BY <3>1
    <3>2. CASE pc = "writeFinal" /\ summary' = summary
               /\ final' = [final EXCEPT ![job] = "torn"]
      <4>1. Announced # "none"  BY <3>2, ContractBasis
      <4>2. Ended = job - 1 /\ job \in Nat  BY <3>2, ContractBasis DEF Ended, Running
      <4>3. Ended + 1 = job  BY <4>2
      <4> QED  BY <3>2, <4>1, <4>3
    <3>3. CASE pc = "summarise" /\ summary' = <<>> /\ final' = final
      <4>1. Ended = NJobs  BY <3>3 DEF IInv, StatusesAt, Running, Ended
      <4> QED  BY <3>3, <4>1
    <3> QED  BY <2>1, <3>1, <3>2, <3>3
  <2>4. Contract!Kill  BY <2>1, <2>2, <2>3 DEF Contract!Kill, Ended, Announced
  <2> QED  BY <2>4 DEF Contract!Next
<1>3. CASE Raise
  <2>1. /\ pc \in {"plan", "announce", "next", "execute", "returned"}
        /\ pc' = "exited" /\ exit' = "1"
        /\ UNCHANGED <<final, summary>>
    BY <1>3 DEF Raise, files
  <2>2. Announced = "none" /\ Announced' = "none" /\ Ended' = 0
    BY <2>1 DEF Ended, Announced
  <2>3. Contract!Raise  BY <2>1, <2>2 DEF Contract!Raise, Ended, Announced
  <2> QED  BY <2>3 DEF Contract!Next
<1>4. CASE Grade
  <2>1. /\ pc = "returned" /\ pc' \in {"start", "summarise"}
        /\ statuses' = Append(statuses, outcome.status)
        /\ UNCHANGED <<final, exit, summary>>
    BY <1>4 DEF Grade
  <2>2. Len(statuses') = job
    BY <2>1, ContractBasis DEF IInv, StatusesAt, Running
  <2>3. Ended' = Ended /\ Announced' = Announced /\ Running /\ Running'
    BY <2>1, <2>2 DEF Ended, Announced, Running
  <2> QED  BY <2>1, <2>3, ContractStutters
<1>5. CASE CloseStreams
  BY <1>5, StreamsAnnounce DEF Contract!Next
<1>6. CASE WriteFinal
  BY <1>6, FinalRecords DEF Contract!Next
<1>7. CASE Summarise
  BY <1>7, SummaryReports DEF Contract!Next
<1>8. CASE StartRun \/ EmitPlan \/ Announce \/ OpenStep
  <2>1. /\ pc \in {"start", "plan", "announce", "next"}
        /\ pc' \in {"plan", "announce", "next", "execute"}
        /\ UNCHANGED <<statuses, final, exit, summary>>
    BY <1>8 DEF StartRun, EmitPlan, Announce, OpenStep, memory
  <2> QED  BY <2>1, ContractIgnoresSteps
<1>9. CASE FinishStep \/ ReportFeed \/ ReportConsole \/ RunOutOfSteps
  <2>1. /\ pc \in {"execute", "report", "reportConsole", "next"}
        /\ pc' \in {"report", "reportConsole", "next", "closing"}
        /\ UNCHANGED <<statuses, final, exit, summary>>
    BY <1>9 DEF FinishStep, ReportFeed, ReportConsole, RunOutOfSteps, memory, files
  <2> QED  BY <2>1, ContractIgnoresSteps
<1>10. CASE UNCHANGED vars
  BY <1>10 DEF vars, memory, files, Contract!vars
<1> QED
  BY <1>1, <1>2, <1>3, <1>4, <1>5, <1>6, <1>7, <1>8, <1>9, <1>10 DEF Next, Work, Run

\* What is promised of a launch, the orchestrator keeps, for any number of jobs,
\* steps and launches: runs end in order, on the feed and then on disk with the
\* same verdict, and exit code 0 and a new summary.json say what the disk says.
THEOREM BenchmarkKeepsContract == Spec => KeepsContract
<1>1. Init => Contract!Init
  BY ContractInit
<1>2. IInv /\ IInv' /\ [Next]_vars => [Contract!Next]_Contract!vars
  BY ContractStep
<1> QED  BY <1>1, <1>2, Invariance, PTL DEF Spec, KeepsContract, Contract!Spec
=============================================================================
