---------------------------- MODULE ScaffoldProofs ----------------------------
(***************************************************************************)
(* The scaffold for any agents, roles, number of processes and of runs,    *)
(* from any registry without a cycle: a run that no other overlapped       *)
(* leaves a complete agent, and a registry that can be read always         *)
(* validates and has no cycle, whatever is killed or overwritten, so that  *)
(* the feed collector's rounds give each agent its longest way.            *)
(***************************************************************************)
EXTENDS Scaffold, FiniteSetTheorems, SequenceTheorems, TLAPS

-----------------------------------------------------------------------------
(* The inductive invariant                                                 *)

\* What a run may still have to write.
Remainders == {<<"spec", "registry", "config", "evals">>, <<"spec", "registry", "evals">>,
               <<"registry", "config", "evals">>, <<"registry", "evals">>,
               <<"config", "evals">>, <<"evals">>, <<>>}

Pending(p) == ToSet(todo[p])

\* A registry's text is sound when every entry has one of these specs.
Sound(reg, withSpec) ==
    /\ reg.agents \subseteq withSpec
    /\ Resolves(reg) /\ OneEntryEach(reg) /\ Acyclic(reg)

\* The registry on disk is sound (what it held, where it is being written); so is
\* the one a run is about to write, once its own spec is there.
TextsSound ==
    /\ Sound(registry, specs)
    /\ \A p \in Processes : pc[p] = "apply" =>
           /\ todo[p] \in Remainders
           /\ Sound(draft[p].registry, specs \cup {Spot(args[p])})
           /\ "spec" \notin Pending(p) \/ open[p] => Spot(args[p]) \in specs

\* What a run that none overlapped still has to write is in its drafts, and the
\* rest is on disk and whole; it fills the file it has emptied.
LoneRun(p) ==
    /\ Running = {p}
    /\ Holds(draft[p].registry, args[p])
    /\ args[p].name \in draft[p].config
    /\ open[p] => Target(p) \in empty
    /\ open[p] /\ Head(todo[p]) = "evals" => args[p].name \in evals
    /\ "spec" \in Pending(p) \/ Whole(Place("spec", args[p]))
    /\ "registry" \in Pending(p) \/ (Holds(registry, args[p]) /\ Whole(REGISTRY))
    /\ "config" \in Pending(p) \/ args[p].name \in config \cup OtherKeys
    /\ "evals" \in Pending(p) \/ (args[p].name \in evals /\ Whole(Place("evals", args[p])))

LoneProgress == \A p \in Processes \ raced : pc[p] = "apply" => LoneRun(p)

\* What such a run has left is on disk, and in the drafts of every run since, of
\* which none is about the same name.
Kept(p) ==
    /\ Spot(args[p]) \in specs /\ Whole(Place("spec", args[p]))
    /\ args[p].name \in evals /\ Whole(Place("evals", args[p]))
    /\ Holds(registry, args[p]) /\ args[p].name \in config \cup OtherKeys
    /\ \A q \in Processes : pc[q] = "apply" =>
          /\ Holds(draft[q].registry, args[p])
          /\ args[p].name \in draft[q].config \cup OtherKeys
          /\ args[q].name # args[p].name

DoneIsKept ==
    \A p \in Processes \ raced : pc[p] # "failed" /\ (pc[p] = "done" => Kept(p))

\* The registry is empty while it is written or after a kill, and ends with a piece
\* of another text after an overlap.
SpoiltIsTold ==
    /\ REGISTRY \in empty => \E p \in Processes :
           \/ pc[p] = "apply" /\ open[p] /\ Target(p) = REGISTRY
           \/ pc[p] = "killed"
    /\ REGISTRY \in mixed => \E p \in Processes : p \in raced

IInv == TypeOK /\ TextsSound /\ LoneProgress /\ DoneIsKept /\ SpoiltIsTold

-----------------------------------------------------------------------------
(* What is left after the first of the remaining files is written          *)

LEMMA RemaindersShrink ==
    ASSUME NEW s \in Remainders, s # <<>>
    PROVE  /\ Tail(s) \in Remainders
           /\ Head(s) \in Files /\ Head(s) \notin ToSet(Tail(s))
           /\ ToSet(s) = ToSet(Tail(s)) \cup {Head(s)}
           /\ "spec" \notin ToSet(Tail(s))
           /\ Head(s) = "registry" => "spec" \notin ToSet(s)
<1>1. CASE s = <<"spec", "registry", "config", "evals">>
  <2>1. Head(s) = "spec" /\ Tail(s) = <<"registry", "config", "evals">>  BY <1>1
  <2>2. ToSet(s) = Files /\ ToSet(Tail(s)) = {"registry", "config", "evals"}
    BY <1>1, <2>1 DEF ToSet, Files
  <2> QED  BY <2>1, <2>2 DEF Remainders, Files
<1>2. CASE s = <<"spec", "registry", "evals">>
  <2>1. Head(s) = "spec" /\ Tail(s) = <<"registry", "evals">>  BY <1>2
  <2>2. ToSet(s) = {"spec", "registry", "evals"} /\ ToSet(Tail(s)) = {"registry", "evals"}
    BY <1>2, <2>1 DEF ToSet
  <2> QED  BY <2>1, <2>2 DEF Remainders, Files
<1>3. CASE s = <<"registry", "config", "evals">>
  <2>1. Head(s) = "registry" /\ Tail(s) = <<"config", "evals">>  BY <1>3
  <2>2. ToSet(s) = {"registry", "config", "evals"} /\ ToSet(Tail(s)) = {"config", "evals"}
    BY <1>3, <2>1 DEF ToSet
  <2> QED  BY <2>1, <2>2 DEF Remainders, Files
<1>4. CASE s = <<"registry", "evals">>
  <2>1. Head(s) = "registry" /\ Tail(s) = <<"evals">>  BY <1>4
  <2>2. ToSet(s) = {"registry", "evals"} /\ ToSet(Tail(s)) = {"evals"}
    BY <1>4, <2>1 DEF ToSet
  <2> QED  BY <2>1, <2>2 DEF Remainders, Files
<1>5. CASE s = <<"config", "evals">>
  <2>1. Head(s) = "config" /\ Tail(s) = <<"evals">>  BY <1>5
  <2>2. ToSet(s) = {"config", "evals"} /\ ToSet(Tail(s)) = {"evals"}
    BY <1>5, <2>1 DEF ToSet
  <2> QED  BY <2>1, <2>2 DEF Remainders, Files
<1>6. CASE s = <<"evals">>
  <2>1. Head(s) = "evals" /\ Tail(s) = <<>>  BY <1>6
  <2>2. ToSet(s) = {"evals"} /\ ToSet(Tail(s)) = {}  BY <1>6, <2>1 DEF ToSet
  <2> QED  BY <2>1, <2>2 DEF Remainders, Files
<1> QED  BY <1>1, <1>2, <1>3, <1>4, <1>5, <1>6 DEF Remainders

LEMMA PrependEdge ==
    ASSUME NEW S, NEW edges \in Seq(S), NEW e \in S
    PROVE  /\ <<e>> \o edges \in Seq(S)
           /\ DOMAIN (<<e>> \o edges) = 1..(Len(edges) + 1)
           /\ (<<e>> \o edges)[1] = e
           /\ \A i \in DOMAIN edges : (<<e>> \o edges)[i + 1] = edges[i]
           /\ \A i \in DOMAIN (<<e>> \o edges) : i = 1 \/ i - 1 \in DOMAIN edges
           /\ ToSet(<<e>> \o edges) = ToSet(edges) \cup {e}
<1> DEFINE longer == <<e>> \o edges
<1>1. longer \in Seq(S) /\ Len(longer) = Len(edges) + 1 /\ DOMAIN longer = 1..(Len(edges) + 1)
  OBVIOUS
<1>2. longer[1] = e
  OBVIOUS
<1>3. \A i \in DOMAIN edges : longer[i + 1] = edges[i] /\ i + 1 \in DOMAIN longer
  OBVIOUS
<1>4. \A i \in DOMAIN longer : i = 1 \/ (i - 1 \in DOMAIN edges /\ longer[i] = edges[i - 1])
  OBVIOUS
<1>5. ToSet(longer) = ToSet(edges) \cup {e}
  <2>1. ASSUME NEW x \in ToSet(longer)  PROVE x \in ToSet(edges) \cup {e}
    BY <2>1, <1>2, <1>4 DEF ToSet
  <2>2. ASSUME NEW x \in ToSet(edges)  PROVE x \in ToSet(longer)
    BY <2>2, <1>3 DEF ToSet
  <2>3. e \in ToSet(longer)
    BY <1>1, <1>2 DEF ToSet
  <2> QED  BY <2>1, <2>2, <2>3
<1> QED  BY <1>1, <1>2, <1>3, <1>4, <1>5

\* A file's place says which it is; there is one registry and one configuration.
LEMMA PlacesTold ==
    ASSUME NEW file \in Files, NEW a
    PROVE  /\ Place(file, a)[1] = file
           /\ file = "registry" => Place(file, a) = REGISTRY
           /\ file = "config" => Place(file, a) = CONFIG
           /\ REGISTRY[1] = "registry" /\ CONFIG[1] = "config"
BY DEF Place, REGISTRY, CONFIG, Files

\* Agents of different names have no spec and no eval set in common.
LEMMA PlacesDiffer ==
    ASSUME NEW file \in Files, NEW a, NEW b, a.name # b.name
    PROVE  Place("spec", a) # Place(file, b) /\ Place("evals", a) # Place(file, b)
<1>1. CASE file = "spec"
  BY <1>1 DEF Place, Spot
<1>2. CASE file = "evals"
  BY <1>2 DEF Place
<1>3. CASE file \notin {"spec", "evals"}
  BY <1>3 DEF Place
<1> QED  BY <1>1, <1>2, <1>3

\* A new agent that another hands to makes no cycle.
LEMMA EdgeToNew ==
    ASSUME NEW old, NEW reg, NEW from, NEW new, Resolves(old), Acyclic(old),
           new \notin Registered(old), from \in Registered(old),
           Registered(reg) = Registered(old) \cup {new},
           \A edge \in ToSet(reg.edges) : edge \in ToSet(old.edges) \/ edge = <<from, new>>
    PROVE  Acyclic(reg)
<1> SUFFICES ASSUME NEW S \in SUBSET Registered(reg), S # {}
             PROVE  \E a \in S : \A edge \in ToSet(reg.edges) : edge[2] = a => edge[1] \notin S
  BY DEF Acyclic
<1>1. \A edge \in ToSet(old.edges) :
          edge[1] \in Registered(old) /\ edge[2] \in Registered(old)
  BY DEF Resolves, ToSet
<1>2. CASE S \subseteq {new}
  <2>1. S = {new}  BY <1>2
  <2>2. \A edge \in ToSet(reg.edges) : edge[1] \in Registered(old)
    BY <1>1
  <2> QED  BY <2>1, <2>2
<1>3. CASE ~(S \subseteq {new})
  <2>1. S \ {new} \in SUBSET Registered(old) /\ S \ {new} # {}  BY <1>3
  <2>2. PICK a \in S \ {new} :
            \A edge \in ToSet(old.edges) : edge[2] = a => edge[1] \notin S \ {new}
    BY <2>1 DEF Acyclic
  <2>3. \A edge \in ToSet(reg.edges) : edge[2] = a => edge[1] \notin S
    <3> TAKE edge \in ToSet(reg.edges)
    <3>1. CASE edge \in ToSet(old.edges)
      BY <3>1, <2>2, <1>1
    <3>2. CASE edge = <<from, new>>
      BY <3>2, <2>2
    <3> QED  BY <3>1, <3>2
  <2> QED  BY <2>2, <2>3
<1> QED  BY <1>2, <1>3

\* An agent that may be added makes a sound text, that holds it and all it held.
LEMMA PatchIsSound ==
    ASSUME TypeOK, Sound(registry, specs), NEW a \in CommandLines, MayAdd(a)
    PROVE  /\ PatchRegistry(a) \in Registries
           /\ Sound(PatchRegistry(a), specs \cup {Spot(a)})
           /\ Holds(PatchRegistry(a), a)
           /\ \A b \in CommandLines \cup {NoAgent} : Holds(registry, b) =>
                  Holds(PatchRegistry(a), b) /\ a.name # b.name
<1> DEFINE reg == PatchRegistry(a)
           e == <<a.after, a.name>>
<1>1. /\ a.name \in Agents /\ a.role \in Roles /\ a.after \in Agents \cup {NoCrew}
      /\ a.name # NoCrew
  BY ScaffoldAssumption DEF Arguments
<1>2. /\ registry.agents \in SUBSET (Roles \X Agents)
      /\ registry.edges \in Seq(Agents \X Agents)
  BY DEF TypeOK, Registries
<1>3. /\ reg.agents = registry.agents \cup {Spot(a)}
      /\ reg = [agents |-> reg.agents, edges |-> reg.edges]
      /\ reg.edges = IF a.after = NoCrew THEN registry.edges ELSE <<e>> \o registry.edges
  BY DEF PatchRegistry
<1>4. Spot(a) \in Roles \X Agents /\ Spot(a)[2] = a.name
  BY <1>1 DEF Spot
<1>5. Registered(reg) = Registered(registry) \cup {a.name}
  <2> HIDE DEF reg
  <2> QED  BY <1>3, <1>4 DEF Registered
<1>6. a.name \notin Registered(registry) /\ a.after \in Registered(registry) \cup {NoCrew}
  BY DEF MayAdd
<1>7. OneEntryEach(reg)
  BY <1>3, <1>4, <1>6 DEF OneEntryEach, Sound, Registered
<1>8. reg.agents \subseteq specs \cup {Spot(a)} /\ Entry \in Registered(reg)
  BY <1>3, <1>5 DEF Sound, Resolves
<1>9. \A b \in CommandLines \cup {NoAgent} : Holds(registry, b) => a.name # b.name
  <2> SUFFICES ASSUME NEW b \in CommandLines \cup {NoAgent}, Holds(registry, b)
               PROVE  b.name \in Registered(registry)
    BY <1>6
  <2>1. Spot(b) \in registry.agents /\ Spot(b)[2] = b.name  BY DEF Holds, Spot
  <2> QED  BY <2>1 DEF Registered
<1>10. CASE a.after = NoCrew
  <2>1. reg.edges = registry.edges  BY <1>3, <1>10
  <2>2. Resolves(reg)
    BY <2>1, <1>5, <1>8 DEF Sound, Resolves
  <2>3. Acyclic(reg)
    <3> SUFFICES ASSUME NEW S \in SUBSET Registered(reg), S # {}
                 PROVE  \E b \in S : \A edge \in ToSet(reg.edges) :
                            edge[2] = b => edge[1] \notin S
      BY DEF Acyclic
    <3>1. CASE a.name \in S
      <4>1. \A edge \in ToSet(reg.edges) : edge[2] \in Registered(registry)
        BY <2>1 DEF Sound, Resolves, ToSet
      <4> QED  BY <3>1, <4>1, <1>6
    <3>2. CASE a.name \notin S
      <4>1. S \in SUBSET Registered(registry)  BY <3>2, <1>5
      <4> QED  BY <4>1, <2>1 DEF Sound, Acyclic
    <3> QED  BY <3>1, <3>2
  <2>4. reg \in Registries
    BY <2>1, <1>2, <1>3, <1>4 DEF Registries
  <2>5. Sound(reg, specs \cup {Spot(a)})
    BY <2>2, <2>3, <1>7, <1>8 DEF Sound
  <2> QED  BY <2>1, <2>4, <2>5, <1>3, <1>9, <1>10 DEF Holds
<1>11. CASE a.after # NoCrew
  <2>1. reg.edges = <<e>> \o registry.edges /\ a.after \in Registered(registry)
    BY <1>3, <1>6, <1>11
  <2>2. e \in Agents \X Agents /\ e[1] = a.after /\ e[2] = a.name
    BY <1>1, <1>11
  <2>3. /\ reg.edges \in Seq(Agents \X Agents) /\ reg.edges[1] = e
        /\ \A i \in DOMAIN reg.edges :
              i = 1 \/ (i - 1 \in DOMAIN registry.edges /\ reg.edges[i] = registry.edges[i - 1])
        /\ ToSet(reg.edges) = ToSet(registry.edges) \cup {e}
    <3> HIDE DEF e
    <3>1. /\ <<e>> \o registry.edges \in Seq(Agents \X Agents)
          /\ (<<e>> \o registry.edges)[1] = e
          /\ \A i \in DOMAIN (<<e>> \o registry.edges) : i = 1 \/
                (i - 1 \in DOMAIN registry.edges
                 /\ (<<e>> \o registry.edges)[i] = registry.edges[i - 1])
          /\ ToSet(<<e>> \o registry.edges) = ToSet(registry.edges) \cup {e}
      BY <1>2, <2>2, PrependEdge
    <3> QED  BY <3>1, <2>1
  <2>4. reg \in Registries
    BY <1>2, <1>3, <1>4, <2>3 DEF Registries
  <2>5. \A i \in DOMAIN registry.edges :
            registry.edges[i] \in Registered(registry) \X Registered(registry)
    BY DEF Sound, Resolves
  <2>6. Resolves(reg)
    <3>1. \A i \in DOMAIN reg.edges : reg.edges[i] \in Registered(reg) \X Registered(reg)
      BY <1>5, <2>1, <2>2, <2>3, <2>5
    <3> QED  BY <3>1, <1>8 DEF Resolves
  <2>7. Acyclic(reg)
    <3>1. \A edge \in ToSet(reg.edges) :
              edge \in ToSet(registry.edges) \/ edge = <<a.after, a.name>>
      BY <2>3
    <3>2. Resolves(registry) /\ Acyclic(registry)  BY DEF Sound
    <3> HIDE DEF reg
    <3> QED  BY <3>1, <3>2, <1>5, <1>6, <2>1, EdgeToNew
  <2>8. Sound(reg, specs \cup {Spot(a)})
    BY <1>7, <1>8, <2>6, <2>7 DEF Sound
  <2> QED  BY <2>3, <2>4, <2>8, <1>3, <1>9 DEF Holds
<1> QED  BY <1>10, <1>11

-----------------------------------------------------------------------------
(* The invariant                                                           *)

LEMMA InitIInv == Init => IInv
<1> SUFFICES ASSUME Init PROVE IInv
  OBVIOUS
<1> USE DEF Init
<1>1. registry \in Registries /\ OneEntryEach(registry) /\ Resolves(registry) /\ Acyclic(registry)
  BY ScaffoldAssumption
<1>2. TypeOK
  <2>1. runs \in 0..MaxRuns  BY ScaffoldAssumption
  <2>2. specs \subseteq Roles \X Agents  BY <1>1 DEF Registries
  <2>3. config \subseteq Agents /\ evals \subseteq Agents
    BY <2>2 DEF Registered
  <2>4. draft \in [Processes ->
                      [registry : Registries, config : SUBSET Agents, tail : BOOLEAN]]
    BY <1>1, <2>3
  <2>5. <<>> \in Seq(Files)  OBVIOUS
  <2> QED  BY <1>1, <2>1, <2>2, <2>3, <2>4, <2>5 DEF TypeOK
<1>3. Sound(registry, specs)
  BY <1>1 DEF Sound
<1> QED
  BY <1>2, <1>3 DEF IInv, TextsSound, LoneProgress, DoneIsKept, SpoiltIsTold, Running

LEMMA BuildStep ==
    ASSUME IInv, NEW p \in Processes, NEW a \in CommandLines, Build(p, a)
    PROVE  IInv'
<1> USE DEF IInv
<1> DEFINE reg == PatchRegistry(a)
<1>1. /\ pc[p] # "apply" /\ MayAdd(a) /\ runs' = runs + 1 /\ runs < MaxRuns
      /\ args' = [args EXCEPT ![p] = a]
      /\ draft' = [draft EXCEPT ![p] = [registry |-> reg, config |-> config \cup {a.name},
                                        tail |-> CONFIG \in mixed]]
      /\ todo' = [todo EXCEPT ![p] = FilesToWrite(a)]
      /\ pc' = [pc EXCEPT ![p] = "apply"]
      /\ raced' = IF Running = {} THEN raced \ {p} ELSE raced \cup Running \cup {p}
      /\ UNCHANGED files /\ open' = open
  BY DEF Build
<1>2. /\ reg \in Registries /\ Sound(reg, specs \cup {Spot(a)}) /\ Holds(reg, a)
      /\ \A b \in CommandLines \cup {NoAgent} :
             Holds(registry, b) => Holds(reg, b) /\ a.name # b.name
  BY <1>1, PatchIsSound DEF TextsSound
<1> HIDE DEF reg
<1>3. a.name \in Agents  BY ScaffoldAssumption DEF Arguments
<1>4. /\ FilesToWrite(a) \in Remainders /\ FilesToWrite(a) \in Seq(Files)
      /\ FilesToWrite(a) # <<>>
      /\ {"spec", "registry", "evals"} \subseteq ToSet(FilesToWrite(a))
      /\ "config" \notin ToSet(FilesToWrite(a)) => a.name \in config \cup OtherKeys
  <2>1. CASE a.name \in config \cup OtherKeys
    <3>1. FilesToWrite(a) = <<"spec", "registry", "evals">>  BY <2>1 DEF FilesToWrite
    <3>2. ToSet(FilesToWrite(a)) = {"spec", "registry", "evals"}  BY <3>1 DEF ToSet
    <3> QED  BY <2>1, <3>1, <3>2 DEF Remainders, Files
  <2>2. CASE a.name \notin config \cup OtherKeys
    <3>1. FilesToWrite(a) = <<"spec", "registry", "config", "evals">>
      BY <2>2 DEF FilesToWrite
    <3>2. ToSet(FilesToWrite(a)) = {"spec", "registry", "config", "evals"}
      BY <3>1 DEF ToSet
    <3> QED  BY <2>2, <3>1, <3>2 DEF Remainders, Files
  <2> QED  BY <2>1, <2>2
<1>5. ~open[p] /\ Whole(REGISTRY)
  <2>1. todo[p] = <<>>  BY <1>1 DEF TypeOK
  <2> QED  BY <1>1, <2>1 DEF TypeOK, MayAdd, Readable
<1>6. TypeOK'
  <2>1. raced' \subseteq Processes /\ runs' \in 0..MaxRuns
    BY <1>1, ScaffoldAssumption DEF TypeOK, Running
  <2>2. draft' \in [Processes ->
                       [registry : Registries, config : SUBSET Agents, tail : BOOLEAN]]
    BY <1>1, <1>2, <1>3 DEF TypeOK, files
  <2>3. todo' \in [Processes -> Seq(Files)]
    BY <1>1, <1>4 DEF TypeOK
  <2>4. \A q \in Processes : /\ todo'[q] # <<>> => pc'[q] = "apply"
                             /\ open'[q] => todo'[q] # <<>>
    BY <1>1, <1>4 DEF TypeOK
  <2> QED  BY <1>1, <2>1, <2>2, <2>3, <2>4 DEF TypeOK, files
<1>7. TextsSound'
  BY <1>1, <1>2, <1>4, <1>5 DEF TextsSound, TypeOK, files, Pending, Sound
<1>8. LoneProgress'
  <2> SUFFICES ASSUME NEW q \in Processes \ raced', pc'[q] = "apply"
               PROVE  LoneRun(q)'
    BY DEF LoneProgress
  <2>1. q = p /\ Running = {}
    BY <1>1 DEF TypeOK, Running
  <2>2. Running' = {p}
    BY <1>1, <2>1 DEF TypeOK, Running, LoneRun
  <2>3. /\ draft'[q].registry = reg /\ args'[q] = a /\ a.name \in draft'[q].config
        /\ Pending(q)' = ToSet(FilesToWrite(a)) /\ ~open'[q] /\ config' = config
    BY <1>1, <1>5, <2>1 DEF TypeOK, files, Pending, LoneRun
  <2>4. Holds(draft[q].registry, args[q])'
    BY <1>2, <2>3 DEF Holds
  <2> QED  BY <1>4, <2>1, <2>2, <2>3, <2>4 DEF LoneRun
<1>9. DoneIsKept'
  <2>1. ASSUME NEW q \in Processes \ raced'
        PROVE  pc'[q] # "failed"
    BY <1>1, <2>1 DEF DoneIsKept, TypeOK
  <2>2. ASSUME NEW q \in Processes \ raced', pc'[q] = "done"
        PROVE  Kept(q)'
    <3>1. q # p /\ pc[q] = "done" /\ q \notin raced /\ args'[q] = args[q]
      BY <1>1, <2>2 DEF TypeOK
    <3>2. args[q] \in CommandLines \cup {NoAgent}  BY DEF TypeOK
    <3>3. Kept(q)
      BY <3>1 DEF DoneIsKept
    <3>4. Holds(reg, args[q]) /\ a.name # args[q].name  BY <1>2, <3>2, <3>3 DEF Kept
    <3>5. ASSUME NEW r \in Processes, pc'[r] = "apply"
          PROVE  /\ Holds(draft'[r].registry, args[q])
                 /\ args[q].name \in draft'[r].config \cup OtherKeys
                 /\ args'[r].name # args[q].name
      <4>1. CASE r = p
        BY <1>1, <3>3, <3>4, <4>1 DEF TypeOK, Kept
      <4>2. CASE r # p
        BY <1>1, <3>3, <3>5, <4>2 DEF TypeOK, Kept
      <4> QED  BY <4>1, <4>2
    <3> QED  BY <1>1, <3>1, <3>3, <3>5 DEF files, Holds, Whole, Kept
  <2> QED  BY <2>1, <2>2 DEF DoneIsKept
<1>10. SpoiltIsTold'
  BY <1>1, <1>5 DEF files, Whole, SpoiltIsTold
<1> QED  BY <1>6, <1>7, <1>8, <1>9, <1>10

LEMMA EmptyStep ==
    ASSUME IInv, NEW p \in Processes, Empty(p)
    PROVE  IInv'
<1> USE DEF IInv
<1> DEFINE file == Head(todo[p])
           a == args[p]
<1>1. /\ pc[p] = "apply" /\ todo[p] # <<>> /\ ~open[p]
      /\ open' = [open EXCEPT ![p] = TRUE]
      /\ empty' = empty \cup {Target(p)} /\ mixed' = mixed \ {Target(p)}
      /\ specs' = IF file = "spec" THEN specs \cup {Spot(a)} ELSE specs
      /\ evals' = IF file = "evals" THEN evals \cup {a.name} ELSE evals
      /\ UNCHANGED <<registry, config, pc, args, draft, todo, raced, runs>>
  BY DEF Empty
<1>2. /\ todo[p] \in Remainders /\ file \in Files /\ file \in Pending(p)
      /\ Pending(p) = ToSet(Tail(todo[p])) \cup {file}
      /\ "spec" \notin ToSet(Tail(todo[p]))
  BY <1>1, RemaindersShrink DEF TextsSound, Pending
<1>3. Target(p) = Place(file, a)  BY DEF Target
<1>4. a \in CommandLines \cup {NoAgent} /\ a.name \in Agents /\ Spot(a) \in Roles \X Agents
  BY ScaffoldAssumption DEF TypeOK, Arguments, NoAgent, Spot
<1>5. \A q \in Processes : Pending(q)' = Pending(q) /\ Target(q)' = Target(q)
  BY <1>1 DEF Pending, Target
<1>6. /\ specs \subseteq specs' /\ evals \subseteq evals'
      /\ \A place : Whole(place) /\ place # Target(p) => Whole(place)'
  BY <1>1 DEF Whole
<1>7. TypeOK'
  <2>1. Target(p) \in {Place(f, b) : f \in Files, b \in CommandLines \cup {NoAgent}}
    BY <1>2, <1>3, <1>4
  <2>2. specs' \subseteq Roles \X Agents /\ evals' \subseteq Agents
    BY <1>1, <1>4 DEF TypeOK
  <2>3. \A q \in Processes : /\ todo'[q] # <<>> => pc'[q] = "apply"
                             /\ open'[q] => todo'[q] # <<>>
    BY <1>1 DEF TypeOK
  <2>4. open' \in [Processes -> BOOLEAN]  BY <1>1 DEF TypeOK
  <2>5. empty' \cup mixed' \subseteq {Place(f, b) : f \in Files, b \in CommandLines \cup {NoAgent}}
    BY <1>1, <2>1 DEF TypeOK
  <2>6. UNCHANGED <<registry, config, pc, args, draft, todo, raced, runs>>  BY <1>1
  <2> QED  BY <2>2, <2>3, <2>4, <2>5, <2>6 DEF TypeOK
<1>8. TextsSound'
  <2>1. Sound(registry, specs)'  BY <1>1, <1>6 DEF TextsSound, Sound, Registered, Resolves,
                                       OneEntryEach, Acyclic
  <2>2. ASSUME NEW q \in Processes, pc'[q] = "apply"
        PROVE  (/\ todo[q] \in Remainders
                /\ Sound(draft[q].registry, specs \cup {Spot(args[q])})
                /\ "spec" \notin Pending(q) \/ open[q] => Spot(args[q]) \in specs)'
    <3>1. /\ todo[q] \in Remainders /\ Sound(draft[q].registry, specs \cup {Spot(args[q])})
          /\ "spec" \notin Pending(q) \/ open[q] => Spot(args[q]) \in specs
      BY <1>1, <2>2 DEF TextsSound
    <3>2. Sound(draft[q].registry, specs' \cup {Spot(args[q])})
      BY <3>1, <1>6 DEF Sound
    <3>3. CASE q # p
      <4>1. open'[q] = open[q]  BY <1>1, <3>3 DEF TypeOK
      <4> QED  BY <3>1, <3>2, <4>1, <1>1, <1>5, <1>6 DEF Sound
    <3>4. CASE q = p
      <4>1. Spot(a) \in specs'
        <5>1. CASE file = "spec"  BY <5>1, <1>1
        <5>2. CASE file # "spec"
          <6>1. "spec" \notin Pending(p)  BY <5>2, <1>2
          <6> QED  BY <6>1, <3>1, <3>4, <1>6
        <5> QED  BY <5>1, <5>2
      <4> QED  BY <3>1, <3>2, <3>4, <4>1, <1>1 DEF Sound
    <3> QED  BY <3>3, <3>4
  <2> QED  BY <2>1, <2>2 DEF TextsSound
<1>9. LoneProgress'
  <2> SUFFICES ASSUME NEW q \in Processes \ raced', pc'[q] = "apply"
               PROVE  LoneRun(q)'
    BY DEF LoneProgress
  <2>1. LoneRun(q)
    BY <1>1 DEF LoneProgress
  <2>2. q = p  BY <1>1, <2>1 DEF Running, LoneRun
  <2>3. Running' = Running  BY <1>1 DEF Running
  <2>4. /\ (draft[q])' = draft[q] /\ (args[q])' = args[q]
        /\ Pending(q)' = Pending(q) /\ Target(q)' = Target(q)
    BY <1>1, <1>5
  <2>5. /\ "spec" # file => Place("spec", a) # Target(p)
        /\ "registry" # file => REGISTRY # Target(p)
        /\ "evals" # file => Place("evals", a) # Target(p)
    <3>1. "spec" \in Files /\ "evals" \in Files  BY DEF Files
    <3>2. Target(p)[1] = file /\ REGISTRY[1] = "registry"  BY <1>2, <1>3, PlacesTold
    <3>3. Place("spec", a)[1] = "spec" /\ Place("evals", a)[1] = "evals"
      BY <3>1, PlacesTold
    <3> QED  BY <3>2, <3>3
  <2>6. ("spec" \in Pending(q) \/ Whole(Place("spec", args[q])))'
    <3>1. CASE "spec" \in Pending(q)  BY <3>1, <2>4
    <3>2. CASE "spec" \notin Pending(q)
      <4>1. Whole(Place("spec", a)) /\ "spec" # file  BY <3>2, <2>1, <2>2, <1>2 DEF LoneRun
      <4>2. Whole(Place("spec", a))'  BY <4>1, <2>5, <1>1, <1>6 DEF Whole, Place, Spot
      <4> QED  BY <4>2, <2>2
    <3> QED  BY <3>1, <3>2
  <2>7. ("registry" \in Pending(q) \/ (Holds(registry, args[q]) /\ Whole(REGISTRY)))'
    <3>1. CASE "registry" \in Pending(q)  BY <3>1, <2>4
    <3>2. CASE "registry" \notin Pending(q)
      <4>1. Whole(REGISTRY) /\ Holds(registry, a) /\ "registry" # file
        BY <3>2, <2>1, <2>2, <1>2 DEF LoneRun
      <4>2. Whole(REGISTRY)'  BY <4>1, <2>5, <1>1 DEF Whole
      <4> QED  BY <4>1, <4>2, <2>2, <1>1 DEF Holds, Spot
    <3> QED  BY <3>1, <3>2
  <2>8. ("evals" \in Pending(q) \/ (args[q].name \in evals /\ Whole(Place("evals", args[q]))))'
    <3>1. CASE "evals" \in Pending(q)  BY <3>1, <2>4
    <3>2. CASE "evals" \notin Pending(q)
      <4>1. Whole(Place("evals", a)) /\ "evals" # file /\ a.name \in evals
        BY <3>2, <2>1, <2>2, <1>2 DEF LoneRun
      <4>2. Whole(Place("evals", a))'  BY <4>1, <2>5, <1>1 DEF Whole, Place
      <4> QED  BY <4>1, <4>2, <2>2, <1>1, <1>6
    <3> QED  BY <3>1, <3>2
  <2>9. (open[q] => Target(q) \in empty)'
    BY <1>1, <2>2, <2>4
  <2>10. (open[q] /\ Head(todo[q]) = "evals" => args[q].name \in evals)'
    BY <1>1, <2>2
  <2>11. /\ Running' = {q} /\ Holds(draft[q].registry, args[q])'
         /\ (args[q].name \in draft[q].config)'
         /\ ("config" \in Pending(q) \/ args[q].name \in config \cup OtherKeys)'
    BY <2>1, <2>3, <2>4, <1>1 DEF Holds, LoneRun
  <2> QED  BY <2>6, <2>7, <2>8, <2>9, <2>10, <2>11 DEF LoneRun
<1>10. DoneIsKept'
  <2> SUFFICES ASSUME NEW q \in Processes \ raced'
               PROVE  pc'[q] # "failed" /\ (pc'[q] = "done" => Kept(q)')
    BY DEF DoneIsKept
  <2>1. pc[q] # "failed"  BY <1>1 DEF DoneIsKept
  <2>2. CASE pc[q] # "done"  BY <1>1, <2>1, <2>2
  <2>3. CASE pc[q] = "done"
    <3>1. Kept(q)
      BY <1>1, <2>3 DEF DoneIsKept
    <3>2. Place("spec", args[q]) # Target(p) /\ Place("evals", args[q]) # Target(p)
      BY <1>1, <1>2, <1>3, <3>1, PlacesDiffer DEF Kept
    <3>3. /\ Whole(Place("spec", args[q]))' /\ Whole(Place("evals", args[q]))'
          /\ Spot(args[q])' \in specs' /\ args'[q].name \in evals'
      BY <1>1, <1>6, <3>1, <3>2 DEF Whole, Place, Spot, Kept
    <3>4. /\ UNCHANGED <<registry, config, pc, args, draft>>
          /\ Spot(args[q])' = Spot(args[q])
      BY <1>1 DEF Spot
    <3> QED  BY <2>1, <2>3, <3>1, <3>3, <3>4 DEF Holds, Kept
  <2> QED  BY <2>2, <2>3
<1>11. SpoiltIsTold'
  <2>1. CASE Target(p) = REGISTRY
    BY <1>1, <1>5, <2>1 DEF SpoiltIsTold, TypeOK
  <2>2. CASE Target(p) # REGISTRY
    <3>1. (REGISTRY \in empty)' <=> REGISTRY \in empty
      BY <1>1, <2>2 DEF REGISTRY, Place, NoAgent
    <3>2. (REGISTRY \in mixed)' => REGISTRY \in mixed
      BY <1>1, <2>2 DEF REGISTRY, Place, NoAgent
    <3>3. \A q \in Processes : open[q] => open'[q]  BY <1>1 DEF TypeOK
    <3> QED  BY <1>1, <1>5, <3>1, <3>2, <3>3 DEF SpoiltIsTold
  <2> QED  BY <2>1, <2>2
<1> QED  BY <1>7, <1>8, <1>9, <1>10, <1>11

LEMMA FillStep ==
    ASSUME IInv, NEW p \in Processes, Fill(p)
    PROVE  IInv'
<1> USE DEF IInv
<1> DEFINE file == Head(todo[p])
           a == args[p]
           kept == IF file = "config" /\ draft[p].tail THEN {CONFIG} ELSE {}
<1>1. /\ open[p]
      /\ registry' = IF file = "registry" THEN draft[p].registry ELSE registry
      /\ config' = IF file = "config" THEN draft[p].config ELSE config
      /\ empty' = empty \ {Target(p)}
      /\ \/ mixed' = (mixed \ {Target(p)}) \cup kept
         \/ Target(p) \notin empty /\ mixed' = mixed \cup {Target(p)}
      /\ open' = [open EXCEPT ![p] = FALSE]
      /\ todo' = [todo EXCEPT ![p] = Tail(@)]
      /\ UNCHANGED <<specs, evals, pc, args, draft, raced, runs>>
  BY DEF Fill
<1>2. pc[p] = "apply" /\ todo[p] # <<>>
  BY <1>1 DEF TypeOK
<1>3. /\ todo[p] \in Remainders /\ Tail(todo[p]) \in Remainders
      /\ file \in Files /\ file \notin ToSet(Tail(todo[p]))
      /\ Pending(p) = ToSet(Tail(todo[p])) \cup {file}
      /\ "spec" \notin ToSet(Tail(todo[p]))
  BY <1>2, RemaindersShrink DEF TextsSound, Pending
<1>4. /\ Pending(p)' = ToSet(Tail(todo[p]))
      /\ \A q \in Processes \ {p} : Pending(q)' = Pending(q) /\ Target(q)' = Target(q)
  BY <1>1 DEF TypeOK, Pending, Target
<1>5. Target(p) = Place(file, a)  BY DEF Target
<1>6. a \in CommandLines \cup {NoAgent} /\ a.name \in Agents /\ Spot(a) \in Roles \X Agents
  BY ScaffoldAssumption DEF TypeOK, Arguments, NoAgent, Spot
<1>7. draft[p].registry \in Registries /\ draft[p].config \in SUBSET Agents
  BY DEF TypeOK
<1>8. kept \subseteq {Target(p)}
  BY <1>3, <1>5, PlacesTold
<1> HIDE DEF file, a
<1>9. TypeOK'
  <2>1. Tail(todo[p]) \in Seq(Files)  BY <1>2 DEF TypeOK
  <2>2. Target(p) \in {Place(f, b) : f \in Files, b \in CommandLines \cup {NoAgent}}
    BY <1>3, <1>5, <1>6
  <2>3. mixed' \subseteq mixed \cup {Target(p)} /\ empty' \subseteq empty
    BY <1>1, <1>8
  <2> HIDE DEF kept
  <2>4. empty' \cup mixed' \subseteq
            {Place(f, b) : f \in Files, b \in CommandLines \cup {NoAgent}}
    BY <2>2, <2>3 DEF TypeOK
  <2>5. registry' \in Registries /\ config' \subseteq Agents
    BY <1>1, <1>7 DEF TypeOK
  <2>6. open' \in [Processes -> BOOLEAN] /\ todo' \in [Processes -> Seq(Files)]
    BY <1>1, <2>1 DEF TypeOK
  <2>7. \A q \in Processes : /\ todo'[q] # <<>> => pc'[q] = "apply"
                             /\ open'[q] => todo'[q] # <<>>
    BY <1>1, <1>2 DEF TypeOK
  <2> QED  BY <1>1, <2>4, <2>5, <2>6, <2>7 DEF TypeOK
<1>10. TextsSound'
  <2>1. Sound(registry', specs)
    <3>1. CASE file = "registry"
      <4>1. Spot(a) \in specs /\ registry' = draft[p].registry
        BY <3>1, <1>1, <1>2 DEF TextsSound, a
      <4>2. Sound(draft[p].registry, specs \cup {Spot(a)})
        BY <1>2 DEF TextsSound, a
      <4>3. specs \cup {Spot(a)} = specs  BY <4>1
      <4> QED  BY <4>1, <4>2, <4>3
    <3>2. CASE file # "registry"
      BY <3>2, <1>1 DEF TextsSound
    <3> QED  BY <3>1, <3>2
  <2>2. ASSUME NEW q \in Processes, pc'[q] = "apply"
        PROVE  (/\ todo[q] \in Remainders
                /\ Sound(draft[q].registry, specs \cup {Spot(args[q])})
                /\ "spec" \notin Pending(q) \/ open[q] => Spot(args[q]) \in specs)'
    <3>1. /\ todo[q] \in Remainders /\ Sound(draft[q].registry, specs \cup {Spot(args[q])})
          /\ "spec" \notin Pending(q) \/ open[q] => Spot(args[q]) \in specs
      BY <1>1, <2>2 DEF TextsSound
    <3>2. CASE q # p
      <4>1. open'[q] = open[q] /\ todo'[q] = todo[q]  BY <1>1, <3>2 DEF TypeOK
      <4> QED  BY <3>1, <3>2, <4>1, <1>1, <1>4 DEF Sound
    <3>3. CASE q = p
      <4>1. todo'[p] = Tail(todo[p]) /\ Spot(args[p]) \in specs
        BY <1>1, <3>1, <3>3 DEF TypeOK
      <4> QED  BY <3>1, <3>3, <4>1, <1>1, <1>3 DEF Sound
    <3> QED  BY <3>2, <3>3
  <2> QED  BY <2>1, <2>2, <1>1 DEF TextsSound, Sound
<1>11. LoneProgress'
  <2> SUFFICES ASSUME NEW q \in Processes \ raced', pc'[q] = "apply"
               PROVE  LoneRun(q)'
    BY DEF LoneProgress
  <2>1. LoneRun(q)
    BY <1>1 DEF LoneProgress
  <2>2. q = p  BY <1>2, <2>1 DEF Running, LoneRun
  <2>3. Running' = Running /\ ~open'[q]  BY <1>1, <2>2 DEF Running, TypeOK
  <2>4. PICK places : places = empty' \cup mixed'  OBVIOUS
  <2>5. \A place : place \notin empty \cup mixed /\ place # Target(p) => place \notin places
    BY <1>1, <1>8, <2>4
  <2>6. file # "config" => Target(p) \notin places
    <3>1. Target(p) \in empty  BY <1>1, <1>2, <2>2, <2>1 DEF LoneProgress, LoneRun
    <3> QED  BY <1>1, <2>4, <3>1
  <2>7. ("spec" \in Pending(q) \/ Whole(Place("spec", args[q])))'
    <3>1. Place("spec", a) \notin places
      <4>1. CASE file = "spec"  BY <4>1, <1>5, <2>6
      <4>2. CASE file # "spec"
        <5>1. "spec" \notin Pending(p)  BY <1>3, <4>2
        <5>2. Place("spec", a) \notin empty \cup mixed
          BY <5>1, <2>1, <2>2 DEF Whole, a, LoneRun
        <5>3. "spec" \in Files  BY DEF Files
        <5>4. Place("spec", a)[1] = "spec" /\ Target(p)[1] = file
          BY <5>3, <1>3, <1>5, PlacesTold
        <5> QED  BY <5>2, <5>4, <4>2, <2>5
      <4> QED  BY <4>1, <4>2
    <3> QED  BY <3>1, <2>2, <2>4, <1>1 DEF Whole, a, Place, Spot
  <2>8. ("registry" \in Pending(q) \/ (Holds(registry, args[q]) /\ Whole(REGISTRY)))'
    <3>1. CASE "registry" \in Pending(p)'  BY <3>1, <2>2
    <3>2. CASE "registry" \notin Pending(p)'
      <4>1. REGISTRY \notin places
        <5>1. CASE file = "registry"
          BY <5>1, <1>3, <1>5, <2>6, PlacesTold
        <5>2. CASE file # "registry"
          <6>1. "registry" \notin Pending(p)  BY <1>3, <1>4, <3>2, <5>2
          <6>2. REGISTRY \notin empty \cup mixed  BY <6>1, <2>1, <2>2 DEF Whole, LoneRun
          <6>3. REGISTRY[1] = "registry" /\ Target(p)[1] = file
            BY <1>3, <1>5, PlacesTold
          <6> QED  BY <6>2, <6>3, <5>2, <2>5
        <5> QED  BY <5>1, <5>2
      <4>2. Holds(registry', a)
        <5>1. CASE file = "registry"  BY <5>1, <1>1, <2>1, <2>2 DEF a, LoneRun
        <5>2. CASE file # "registry"
          <6>1. "registry" \notin Pending(p)  BY <1>3, <1>4, <3>2, <5>2
          <6> QED  BY <6>1, <5>2, <1>1, <2>1, <2>2 DEF a, LoneRun
        <5> QED  BY <5>1, <5>2
      <4> QED  BY <4>1, <4>2, <2>2, <2>4, <1>1 DEF Whole, Holds, a, Spot
    <3> QED  BY <3>1, <3>2
  <2>9. ("config" \in Pending(q) \/ args[q].name \in config \cup OtherKeys)'
    BY <1>1, <1>3, <1>4, <2>1, <2>2 DEF LoneRun
  <2>10. ("evals" \in Pending(q) \/ (args[q].name \in evals /\ Whole(Place("evals", args[q]))))'
    <3>1. CASE "evals" \in Pending(p)'  BY <3>1, <2>2
    <3>2. CASE "evals" \notin Pending(p)' /\ file = "evals"
      <4>1. Place("evals", a) \notin places  BY <3>2, <1>5, <2>6
      <4>2. a.name \in evals
        BY <1>1, <2>1, <2>2, <3>2 DEF LoneRun, file, a
      <4> QED  BY <4>1, <4>2, <2>2, <2>4, <1>1 DEF Whole, a, Place
    <3>3. CASE "evals" \notin Pending(p)' /\ file # "evals"
      <4>1. "evals" \notin Pending(p)  BY <1>3, <1>4, <3>3
      <4>2. a.name \in evals /\ Place("evals", a) \notin empty \cup mixed
        BY <4>1, <2>1, <2>2 DEF Whole, a, LoneRun
      <4>3. "evals" \in Files  BY DEF Files
      <4>4. Place("evals", a)[1] = "evals" /\ Target(p)[1] = file
        BY <4>3, <1>3, <1>5, PlacesTold
      <4>5. Place("evals", a) \notin places  BY <4>2, <4>4, <3>3, <2>5
      <4> QED  BY <4>2, <4>5, <2>2, <2>4, <1>1 DEF Whole, a, Place
    <3> QED  BY <3>1, <3>2, <3>3
  <2> QED  BY <2>1, <2>3, <2>7, <2>8, <2>9, <2>10, <1>1 DEF Holds, LoneRun
<1>12. DoneIsKept'
  <2> SUFFICES ASSUME NEW q \in Processes \ raced'
               PROVE  pc'[q] # "failed" /\ (pc'[q] = "done" => Kept(q)')
    BY DEF DoneIsKept
  <2>1. pc[q] # "failed"  BY <1>1 DEF DoneIsKept
  <2>2. CASE pc[q] # "done"  BY <1>1, <2>1, <2>2
  <2>3. CASE pc[q] = "done"
    <3>1. Kept(q)
      BY <1>1, <2>3 DEF DoneIsKept
    <3>2. Place("spec", args[q]) # Target(p) /\ Place("evals", args[q]) # Target(p)
      BY <1>2, <1>3, <1>5, <3>1, PlacesDiffer DEF a, Kept
    <3>3. Whole(Place("spec", args[q]))' /\ Whole(Place("evals", args[q]))'
      BY <1>1, <1>8, <3>1, <3>2 DEF Whole, Place, Spot, Kept
    <3>4. Holds(registry', args[q]) /\ args[q].name \in config' \cup OtherKeys
      BY <1>1, <1>2, <3>1 DEF Kept
    <3>5. /\ UNCHANGED <<specs, evals, pc, args, draft>>
          /\ Spot(args[q])' = Spot(args[q])
      BY <1>1 DEF Spot
    <3> QED  BY <2>1, <2>3, <3>1, <3>3, <3>4, <3>5 DEF Holds, Kept
  <2> QED  BY <2>2, <2>3
<1>13. SpoiltIsTold'
  <2> DEFINE R == REGISTRY
  <2>1. R' = R  BY DEF REGISTRY, Place, NoAgent
  <2>2. ASSUME R \in empty'
        PROVE  \E q \in Processes : \/ pc'[q] = "apply" /\ open'[q] /\ Target(q)' = R
                                    \/ pc'[q] = "killed"
    <3>1. R \in empty /\ R # Target(p)  BY <1>1, <2>2
    <3>2. PICK q \in Processes : \/ pc[q] = "apply" /\ open[q] /\ Target(q) = R
                                 \/ pc[q] = "killed"
      BY <3>1 DEF SpoiltIsTold
    <3>3. CASE pc[q] = "killed"  BY <3>3, <1>1
    <3>4. CASE pc[q] = "apply" /\ open[q] /\ Target(q) = R
      <4>1. q # p  BY <3>1, <3>4
      <4>2. open'[q] /\ Target(q)' = R  BY <4>1, <3>4, <1>1, <1>4 DEF TypeOK
      <4> QED  BY <4>2, <3>4, <1>1
    <3> QED  BY <3>2, <3>3, <3>4
  <2>3. ASSUME R \in mixed'
        PROVE  \E q \in Processes : q \in raced'
    <3>1. CASE R \in mixed  BY <3>1, <1>1 DEF SpoiltIsTold
    <3>2. CASE R \notin mixed /\ p \in raced  BY <3>2, <1>1
    <3>3. CASE R \notin mixed /\ p \notin raced
      <4>1. Target(p) \in empty  BY <1>1, <1>2, <3>3 DEF LoneProgress, LoneRun
      <4>2. R \in kept  BY <1>1, <2>3, <3>3, <4>1
      <4>3. R = CONFIG  BY <4>2
      <4>4. REGISTRY[1] = "registry" /\ CONFIG[1] = "config"  BY <1>3, PlacesTold
      <4> QED  BY <4>3, <4>4
    <3> QED  BY <3>1, <3>2, <3>3
  <2> HIDE DEF R
  <2> QED  BY <2>1, <2>2, <2>3 DEF SpoiltIsTold, R
<1> QED  BY <1>9, <1>10, <1>11, <1>12, <1>13

LEMMA CheckStep ==
    ASSUME IInv, NEW p \in Processes, Check(p)
    PROVE  IInv'
<1> USE DEF IInv
<1>1. /\ pc[p] = "apply" /\ todo[p] = <<>>
      /\ pc' = [pc EXCEPT ![p] = IF ValidRegistry /\ Whole(Place("evals", args[p]))
                                 THEN "done" ELSE "failed"]
      /\ UNCHANGED <<files, args, draft, todo, open, raced, runs>>
  BY DEF Check
<1>2. Pending(p) = {} /\ pc'[p] \in {"done", "failed"}
  BY <1>1 DEF Pending, ToSet, TypeOK
<1>3. TypeOK'  BY <1>1 DEF TypeOK, files
<1>4. TextsSound'
  <2>1. \A q \in Processes : pc'[q] = "apply" => pc[q] = "apply"
    BY <1>1, <1>2 DEF TypeOK
  <2> QED  BY <1>1, <2>1 DEF TextsSound, files, Pending, Sound
<1>5. LoneProgress'
  <2> SUFFICES ASSUME NEW q \in Processes \ raced', pc'[q] = "apply"
               PROVE  LoneRun(q)'
    BY DEF LoneProgress
  <2>1. q # p /\ pc[q] = "apply"  BY <1>1, <1>2 DEF TypeOK
  <2>2. Running = {q}  BY <1>1, <2>1 DEF LoneProgress, LoneRun
  <2> QED  BY <1>1, <2>1, <2>2 DEF Running
<1>6. DoneIsKept'
  <2> SUFFICES ASSUME NEW q \in Processes \ raced'
               PROVE  pc'[q] # "failed" /\ (pc'[q] = "done" => Kept(q)')
    BY DEF DoneIsKept
  <2>1. CASE q = p
    <3>1. LoneRun(p)  BY <1>1, <2>1 DEF LoneProgress
    <3>2. ValidRegistry /\ Whole(Place("evals", args[p]))
      BY <3>1, <1>2 DEF LoneRun, TextsSound, Sound, ValidRegistry
    <3>3. pc'[p] = "done"  BY <1>1, <3>2 DEF TypeOK
    <3>4. \A r \in Processes : pc'[r] # "apply"
      BY <1>1, <1>2, <3>1 DEF LoneRun, Running, TypeOK
    <3>5. Spot(args[p]) \in specs  BY <1>1, <1>2 DEF TextsSound
    <3> QED
      BY <1>1, <1>2, <2>1, <3>1, <3>3, <3>4, <3>5 DEF LoneRun, Kept, files, Holds, Whole
  <2>2. CASE q # p
    <3>1. pc'[q] = pc[q] /\ pc[q] # "failed" /\ (pc[q] = "done" => Kept(q))
      BY <1>1, <2>2 DEF DoneIsKept, TypeOK
    <3>2. \A r \in Processes : pc'[r] = "apply" => pc[r] = "apply"
      BY <1>1, <1>2 DEF TypeOK
    <3> QED  BY <1>1, <3>1, <3>2 DEF Kept, files, Holds, Whole
  <2> QED  BY <2>1, <2>2
<1>7. SpoiltIsTold'
  <2>1. \A q \in Processes : open[q] => todo[q] # <<>>  BY DEF TypeOK
  <2>2. \A q \in Processes : q # p => pc'[q] = pc[q]  BY <1>1 DEF TypeOK
  <2> QED  BY <1>1, <2>1, <2>2 DEF SpoiltIsTold, files, Target
<1> QED  BY <1>3, <1>4, <1>5, <1>6, <1>7

LEMMA KillStep ==
    ASSUME IInv, NEW p \in Processes, Kill(p)
    PROVE  IInv'
<1> USE DEF IInv
<1>1. /\ pc[p] = "apply" /\ pc' = [pc EXCEPT ![p] = "killed"]
      /\ todo' = [todo EXCEPT ![p] = <<>>]
      /\ open' = [open EXCEPT ![p] = FALSE]
      /\ UNCHANGED <<files, args, draft, raced, runs>>
  BY DEF Kill
<1>2. /\ pc'[p] = "killed"
      /\ \A q \in Processes \ {p} : pc'[q] = pc[q] /\ todo'[q] = todo[q] /\ open'[q] = open[q]
  BY <1>1 DEF TypeOK
<1>3. TypeOK'
  <2>1. <<>> \in Seq(Files)  OBVIOUS
  <2> QED  BY <1>1, <2>1 DEF TypeOK, files
<1>4. TextsSound'
  <2>1. \A q \in Processes : pc'[q] = "apply" => q # p  BY <1>2
  <2> QED  BY <1>1, <1>2, <2>1 DEF TextsSound, files, Pending, Sound
<1>5. LoneProgress'
  <2> SUFFICES ASSUME NEW q \in Processes \ raced', pc'[q] = "apply"
               PROVE  LoneRun(q)'
    BY DEF LoneProgress
  <2>1. q # p /\ pc[q] = "apply"  BY <1>2
  <2>2. Running = {q}  BY <1>1, <2>1 DEF LoneProgress, LoneRun
  <2> QED  BY <1>1, <2>1, <2>2 DEF Running
<1>6. DoneIsKept'
  BY <1>1, <1>2 DEF DoneIsKept, Kept, files, Holds, Whole
<1>7. SpoiltIsTold'
  BY <1>1, <1>2 DEF SpoiltIsTold, files, Target
<1> QED  BY <1>3, <1>4, <1>5, <1>6, <1>7

\* The invariant holds in every state of every behaviour.
THEOREM Invariance == Spec => []IInv
<1>1. IInv /\ [Next]_vars => IInv'
  <2> SUFFICES ASSUME IInv, [Next]_vars PROVE IInv'
    OBVIOUS
  <2>1. ASSUME NEW p \in Processes, NEW a \in CommandLines, Build(p, a)  PROVE IInv'
    BY <2>1, BuildStep
  <2>2. ASSUME NEW p \in Processes, Empty(p)  PROVE IInv'
    BY <2>2, EmptyStep
  <2>3. ASSUME NEW p \in Processes, Fill(p)  PROVE IInv'
    BY <2>3, FillStep
  <2>4. ASSUME NEW p \in Processes, Check(p)  PROVE IInv'
    BY <2>4, CheckStep
  <2>5. ASSUME NEW p \in Processes, Kill(p)  PROVE IInv'
    BY <2>5, KillStep
  <2>6. CASE UNCHANGED vars
    <3> USE <2>6 DEF vars, files
    <3>1. TypeOK'  BY DEF IInv, TypeOK
    <3>2. TextsSound'  BY DEF IInv, TextsSound, Sound, Pending
    <3>3. LoneProgress'
      BY DEF IInv, LoneProgress, LoneRun, Running, Pending, Holds, Whole, Target
    <3>4. DoneIsKept'  BY DEF IInv, DoneIsKept, Kept, Holds, Whole
    <3>5. SpoiltIsTold'  BY DEF IInv, SpoiltIsTold, Target
    <3> QED  BY <3>1, <3>2, <3>3, <3>4, <3>5 DEF IInv
  <2> QED  BY <2>1, <2>2, <2>3, <2>4, <2>5, <2>6 DEF Next
<1> QED  BY InitIInv, <1>1, PTL DEF Spec

\* Every variable stays in its range.
THEOREM TypeCorrect == Spec => []TypeOK
<1>1. IInv => TypeOK  BY DEF IInv
<1> QED  BY Invariance, <1>1, PTL

\* A registry that can be read validates, has one entry for a name and no cycle,
\* whatever scaffolds were killed or overwrote each other; one that cannot is being
\* written, or was when a scaffold was killed, or several wrote it at once.
THEOREM RegistryStaysSound ==
    Spec => [](IF Whole(REGISTRY)
               THEN ValidRegistry /\ OneEntryEach(registry) /\ Acyclic(registry)
               ELSE Spoilt)
<1>1. ASSUME IInv
      PROVE  IF Whole(REGISTRY)
             THEN ValidRegistry /\ OneEntryEach(registry) /\ Acyclic(registry)
             ELSE Spoilt
  <2>1. CASE Whole(REGISTRY)
    BY <1>1, <2>1 DEF IInv, TextsSound, Sound, ValidRegistry
  <2>2. CASE ~Whole(REGISTRY)
    BY <1>1, <2>2 DEF IInv, SpoiltIsTold, Spoilt, Whole
  <2> QED  BY <2>1, <2>2
<1> QED  BY Invariance, <1>1, PTL

\* A scaffold that none overlapped does not fail, and leaves a complete agent.  No
\* later one takes the spec and the evals away, nor the entry, the edge and the
\* whitelist out of a registry and a configuration that are whole.
THEOREM AloneCompletes == Spec => []AloneIsComplete
<1>1. IInv => AloneIsComplete
  BY DEF IInv, DoneIsKept, Kept, AloneIsComplete
<1> QED  BY Invariance, <1>1, PTL

-----------------------------------------------------------------------------
\* Induction over the naturals, for a set rather than a predicate.
LEMMA NatSetInduction ==
    ASSUME NEW S, 0 \in S, \A n \in Nat : n \in S => n + 1 \in S
    PROVE  Nat \subseteq S
<1> SUFFICES ASSUME Nat \ S # {} PROVE FALSE
  OBVIOUS
<1>1. PICK R : R = OpToRel(<, Nat)  OBVIOUS
<1>2. IsWellFoundedOn(R, Nat)  BY <1>1, NatLessThanWellFounded
<1>3. \A x, y \in Nat : y < x => <<y, x>> \in R  BY <1>1 DEF OpToRel
<1>4. PICK T : T = Nat \ S  OBVIOUS
<1>5. T \subseteq Nat /\ T # {}  BY <1>4
<1>6. PICK n \in T : \A m \in T : ~(<<m, n>> \in R)
  BY <1>2, <1>5, WFMin
<1>7. n \in Nat /\ n \notin S /\ n # 0  BY <1>4, <1>6
<1>8. n - 1 \in Nat /\ n - 1 < n /\ (n - 1) + 1 = n  BY <1>7
<1>9. n - 1 \notin T  BY <1>3, <1>6, <1>7, <1>8
<1> QED  BY <1>4, <1>7, <1>8, <1>9

\* A set of naturals up to n that is not empty has its Max.
LEMMA MaxBounds ==
    ASSUME NEW n \in Nat, NEW S \in SUBSET (1..n), S # {}
    PROVE  Max(S) \in S /\ \A y \in S : y <= Max(S)
<1> DEFINE Below == {k \in Nat : (\E y \in S : k < y) \/ (\E x \in S : \A y \in S : x >= y)}
<1>1. 0 \in Below
  <2>1. PICK y \in S : TRUE  OBVIOUS
  <2>2. 0 < y  BY <2>1
  <2> QED  BY <2>1, <2>2
<1>2. ASSUME NEW k \in Nat, k \in Below PROVE k + 1 \in Below
  <2>1. CASE \E x \in S : \A y \in S : x >= y  BY <2>1
  <2>2. CASE \E y \in S : k < y
    <3>1. PICK y \in S : k < y  BY <2>2
    <3>2. CASE \E z \in S : k + 1 < z  BY <3>2
    <3>3. CASE \A z \in S : ~(k + 1 < z)
      <4>1. \A z \in S : y >= z  BY <3>1, <3>3
      <4> QED  BY <4>1
    <3> QED  BY <3>2, <3>3
  <2> QED  BY <1>2, <2>1, <2>2
<1> HIDE DEF Below
<1>3. n \in Below  BY <1>1, <1>2, NatSetInduction
<1>4. \E x \in S : \A y \in S : x >= y  BY <1>3 DEF Below
<1>5. Max(S) \in S /\ \A y \in S : Max(S) >= y  BY <1>4 DEF Max
<1> QED  BY <1>5


-----------------------------------------------------------------------------
(* Folds: FoldLeft is a function on the sets of places, the last taken last *)

\* What a set of places is without the last of them.
LEMMA LastRemoved ==
    ASSUME NEW n \in Nat, NEW s \in SUBSET (1..n)
    PROVE  /\ IsFiniteSet(s) /\ Cardinality(s) \in Nat
           /\ Cardinality(s) = 0 <=> s = {}
           /\ s # {} => /\ Max(s) \in 1..n
                        /\ s \ {Max(s)} \in SUBSET (1..n)
                        /\ Cardinality(s \ {Max(s)}) = Cardinality(s) - 1
<1>1. IsFiniteSet(s) /\ Cardinality(s) \in Nat
  <2>1. IsFiniteSet(1..n)  BY FS_Interval
  <2> QED  BY <2>1, FS_Subset, FS_CardinalityType
<1>2. Cardinality(s) = 0 <=> s = {}  BY <1>1, FS_EmptySet
<1>3. ASSUME s # {}
      PROVE  /\ Max(s) \in 1..n
             /\ s \ {Max(s)} \in SUBSET (1..n)
             /\ Cardinality(s \ {Max(s)}) = Cardinality(s) - 1
  <2>1. Max(s) \in s  BY <1>3, MaxBounds
  <2>2. Cardinality(s \ {Max(s)}) = Cardinality(s) - 1  BY <1>1, <2>1, FS_RemoveElement
  <2> QED  BY <2>1, <2>2
<1> QED  BY <1>1, <1>2, <1>3

\* g folds s by the step F, wherever the results before are in T.
Folds(g, T, F, s, base) ==
    /\ g[{}] = base
    /\ \A p \in SUBSET (1..Len(s)) :
           p # {} /\ g[p \ {Max(p)}] \in T => g[p] = F[<<g[p \ {Max(p)}], s[Max(p)]>>]

\* t holds the results after each of the elements, of which the fold g is the last.
Results(t, T, F, s, base, g) ==
    /\ t \in [0..Len(s) -> T] /\ t[0] = base
    /\ \A i \in 1..Len(s) : t[i] = F[<<t[i - 1], s[i]>>]
    /\ t[Len(s)] = g[1..Len(s)]

\* Such a function exists for any step F that stays within T.
LEMMA FoldExists ==
    ASSUME NEW T, NEW A, NEW F \in [T \X A -> T], NEW s \in Seq(A), NEW base \in T
    PROVE  \E g \in [SUBSET (1..Len(s)) -> T] : Folds(g, T, F, s, base)
<1>1. PICK n \in Nat : n = Len(s)  OBVIOUS
<1> DEFINE then(g, p) == F[<<g[p \ {Max(p)}], s[Max(p)]>>]
           UpTo(k) == {g \in [SUBSET (1..n) -> T] : \A p \in SUBSET (1..n) :
                          Cardinality(p) <= k => g[p] = IF p = {} THEN base ELSE then(g, p)}
           Ns == {k \in Nat : UpTo(k) # {}}
<1>2. 0 \in Ns
  <2>1. [p \in SUBSET (1..n) |-> base] \in [SUBSET (1..n) -> T]  OBVIOUS
  <2>2. ASSUME NEW p \in SUBSET (1..n), Cardinality(p) <= 0
        PROVE  p = {}
    <3>1. Cardinality(p) \in Nat /\ (Cardinality(p) = 0 => p = {})  BY LastRemoved
    <3> QED  BY <2>2, <3>1
  <2>3. [p \in SUBSET (1..n) |-> base] \in UpTo(0)  BY <2>1, <2>2
  <2> QED  BY <2>3
<1>3. ASSUME NEW k \in Nat, k \in Ns
      PROVE  k + 1 \in Ns
  <2>1. PICK g : g \in UpTo(k)  BY <1>3
  <2>2. /\ g \in [SUBSET (1..n) -> T]
        /\ \A p \in SUBSET (1..n) : Cardinality(p) <= k =>
               g[p] = IF p = {} THEN base ELSE then(g, p)
    BY <2>1
  <2> DEFINE h == [p \in SUBSET (1..n) |-> IF p = {} THEN base ELSE then(g, p)]
  <2>3. ASSUME NEW p \in SUBSET (1..n), p # {}
        PROVE  then(g, p) \in T
    <3>1. Max(p) \in 1..n /\ p \ {Max(p)} \in SUBSET (1..n)  BY <2>3, LastRemoved
    <3>2. g[p \ {Max(p)}] \in T /\ s[Max(p)] \in A  BY <1>1, <2>2, <3>1
    <3> QED  BY <3>2
  <2> HIDE DEF then
  <2>4. h \in [SUBSET (1..n) -> T]  BY <2>3
  <2>5. ASSUME NEW p \in SUBSET (1..n), Cardinality(p) <= k
        PROVE  h[p] = g[p]
    BY <2>2, <2>5
  <2>6. ASSUME NEW p \in SUBSET (1..n), Cardinality(p) <= k + 1, p # {}
        PROVE  h[p] = then(h, p)
    <3>1. /\ p \ {Max(p)} \in SUBSET (1..n) /\ Cardinality(p) \in Nat
          /\ Cardinality(p \ {Max(p)}) = Cardinality(p) - 1
      BY <2>6, LastRemoved
    <3>2. Cardinality(p) - 1 <= k  BY <2>6, <3>1
    <3>3. Cardinality(p \ {Max(p)}) <= k  BY <3>1, <3>2
    <3>4. h[p \ {Max(p)}] = g[p \ {Max(p)}]  BY <2>5, <3>1, <3>3
    <3>5. then(h, p) = then(g, p)  BY <3>4 DEF then
    <3> QED  BY <2>6, <3>5
  <2>7. h[{}] = base  OBVIOUS
  <2> HIDE DEF h
  <2>8. h \in UpTo(k + 1)  BY <2>4, <2>6, <2>7
  <2>9. UpTo(k + 1) # {}  BY <2>8
  <2> HIDE DEF UpTo
  <2> QED  BY <2>9
<1> HIDE DEF Ns
<1>4. n \in Ns  BY <1>2, <1>3, NatSetInduction
<1>5. PICK g : g \in UpTo(n)  BY <1>4 DEF Ns
<1>6. \A p \in SUBSET (1..n) : Cardinality(p) <= n
  <2>1. IsFiniteSet(1..n) /\ Cardinality(1..n) = n  BY FS_Interval
  <2> QED  BY <2>1, FS_Subset
<1>7. g \in [SUBSET (1..n) -> T]  BY <1>5
<1>8. \A p \in SUBSET (1..n) : g[p] = IF p = {} THEN base ELSE then(g, p)
  BY <1>5, <1>6
<1>9. g[{}] = base  BY <1>8
<1> QED  BY <1>1, <1>7, <1>8, <1>9 DEF Folds

\* What any such function, even one defined by a step that is not confined to T,
\* makes of the first places, of the first two, and so on.
LEMMA FoldRuns ==
    ASSUME NEW T, NEW A, NEW F \in [T \X A -> T], NEW s \in Seq(A), NEW base \in T,
           NEW g, Folds(g, T, F, s, base)
    PROVE  \E t : Results(t, T, F, s, base, g)
<1>1. PICK n \in Nat : n = Len(s)  OBVIOUS
<1> DEFINE t == [k \in 0..n |-> g[1..k]]
           Ns == {k \in Nat : k <= n => t[k] \in T}
<1>2. t[0] = base
  <2>1. 1..0 = {} /\ 0 \in 0..n  OBVIOUS
  <2>2. g[1..0] = base  BY <2>1 DEF Folds
  <2> QED  BY <2>1, <2>2
<1>3. ASSUME NEW k \in 1..n, t[k - 1] \in T
      PROVE  t[k] = F[<<t[k - 1], s[k]>>]
  <2>1. PICK p \in SUBSET (1..n) : p = 1..k  OBVIOUS
  <2>2. k \in p /\ \A i \in p : i <= k  BY <2>1
  <2>3. Max(p) \in p /\ \A i \in p : i <= Max(p)  BY <2>2, MaxBounds
  <2>4. Max(p) = k  BY <2>1, <2>2, <2>3
  <2>5. p \ {k} = 1..(k - 1)  BY <2>1
  <2>6. k - 1 \in 0..n /\ k \in 0..n  OBVIOUS
  <2>7. g[1..(k - 1)] \in T  BY <1>3, <2>6
  <2>8. g[p] = F[<<g[1..(k - 1)], s[k]>>]  BY <1>1, <2>2, <2>4, <2>5, <2>7 DEF Folds
  <2> QED  BY <2>1, <2>6, <2>8
<1> HIDE DEF t
<1>4. 0 \in Ns  BY <1>2
<1>5. ASSUME NEW k \in Nat, k \in Ns
      PROVE  k + 1 \in Ns
  <2>1. ASSUME k + 1 <= n
        PROVE  t[k + 1] \in T
    <3>1. k + 1 \in 1..n /\ (k + 1) - 1 = k /\ t[k] \in T  BY <1>5, <2>1
    <3>2. s[k + 1] \in A  BY <1>1, <3>1
    <3>3. t[k + 1] = F[<<t[k], s[k + 1]>>]  BY <1>3, <3>1
    <3> QED  BY <3>1, <3>2, <3>3
  <2> QED  BY <2>1
<1> HIDE DEF Ns
<1>6. Nat \subseteq Ns  BY <1>4, <1>5, NatSetInduction
<1>7. \A k \in 0..n : t[k] \in T  BY <1>6 DEF Ns
<1>8. t \in [0..n -> T]  BY <1>7 DEF t
<1>9. \A i \in 1..n : t[i] = F[<<t[i - 1], s[i]>>]
  <2> TAKE i \in 1..n
  <2>1. i - 1 \in 0..n  OBVIOUS
  <2> QED  BY <1>3, <1>7, <2>1
<1>10. t[n] = g[1..n]  BY DEF t
<1>11. Results(t, T, F, s, base, g)  BY <1>1, <1>2, <1>8, <1>9, <1>10 DEF Results
<1> QED  BY <1>11


-----------------------------------------------------------------------------
(* The ways of a crew                                                      *)

\* What a crew is: finitely many agents, and edges between them with no cycle.
Crew(R, edges) ==
    /\ IsFiniteSet(R) /\ Entry \in R
    /\ edges \in Seq(R \X R)
    /\ \A S \in SUBSET R : S # {} =>
           \E a \in S : \A edge \in ToSet(edges) : edge[2] = a => edge[1] \notin S

\* w leads over n agents from the entry to a.
Way(w, n, a, R, edges) ==
    /\ w \in [1..n -> R]
    /\ w[1] = Entry /\ w[n] = a
    /\ \A i \in 1..(n - 1) : <<w[i], w[i + 1]>> \in ToSet(edges)

\* A way meets no agent twice: every agent between would come after another of
\* them.
LEMMA WaysAreShort ==
    ASSUME NEW R, NEW edges, Crew(R, edges), NEW n \in Nat \ {0}, NEW a,
           NEW w, Way(w, n, a, R, edges)
    PROVE  n <= Cardinality(R)
<1>1. /\ IsFiniteSet(R)
      /\ w \in [1..n -> R] /\ \A i \in 1..(n - 1) : <<w[i], w[i + 1]>> \in ToSet(edges)
  BY DEF Crew, Way
<1>2. ASSUME NEW i \in 1..n, NEW j \in 1..n, i < j, w[i] = w[j]
      PROVE  FALSE
  <2>1. PICK S : S = {w[k] : k \in (i + 1)..j}  OBVIOUS
  <2>2. S \in SUBSET R /\ S # {}
    <3>1. \A k \in (i + 1)..j : w[k] \in R  BY <1>1, <1>2
    <3>2. j \in (i + 1)..j  BY <1>2
    <3> QED  BY <2>1, <3>1, <3>2
  <2>3. PICK b \in S : \A edge \in ToSet(edges) : edge[2] = b => edge[1] \notin S
    BY <2>2 DEF Crew
  <2>4. PICK k \in (i + 1)..j : b = w[k]  BY <2>1, <2>3
  <2>5. k - 1 \in 1..(n - 1) /\ (k - 1) + 1 = k  BY <1>2, <2>4
  <2>6. <<w[k - 1], w[k]>> \in ToSet(edges)  BY <1>1, <2>5
  <2>7. w[k - 1] \notin S  BY <2>3, <2>4, <2>6
  <2>8. CASE k = i + 1
    <3>1. w[k - 1] = w[j] /\ j \in (i + 1)..j  BY <1>2, <2>8
    <3> QED  BY <2>1, <2>7, <3>1
  <2>9. CASE k # i + 1
    <3>1. k - 1 \in (i + 1)..j  BY <1>2, <2>4, <2>9
    <3> QED  BY <2>1, <2>7, <3>1
  <2> QED  BY <2>8, <2>9
<1>3. w \in Injection(1..n, R)
  <2>1. \A i, j \in 1..n : w[i] = w[j] => i = j
    <3> SUFFICES ASSUME NEW i \in 1..n, NEW j \in 1..n, w[i] = w[j] PROVE i = j
      OBVIOUS
    <3>1. ~(i < j) /\ ~(j < i)  BY <1>2
    <3> QED  BY <3>1
  <2> QED  BY <1>1, <2>1 DEF Injection, IsInjective
<1>4. IsFiniteSet(1..n) /\ Cardinality(1..n) = n  BY FS_Interval
<1>5. Cardinality(1..n) <= Cardinality(R)  BY <1>1, <1>3, <1>4, FS_Injection
<1> QED  BY <1>4, <1>5

\* A way goes on along an edge.
LEMMA WayExtends ==
    ASSUME NEW R, NEW edges, NEW n \in Nat \ {0}, NEW a, NEW b \in R,
           NEW w, Way(w, n, a, R, edges), <<a, b>> \in ToSet(edges)
    PROVE  \E v : Way(v, n + 1, b, R, edges)
<1> DEFINE v == [i \in 1..(n + 1) |-> IF i = n + 1 THEN b ELSE w[i]]
<1>1. /\ w \in [1..n -> R] /\ w[1] = Entry /\ w[n] = a
      /\ \A i \in 1..(n - 1) : <<w[i], w[i + 1]>> \in ToSet(edges)
  BY DEF Way
<1>2. v \in [1..(n + 1) -> R]  BY <1>1
<1>3. v[1] = Entry /\ v[n + 1] = b  BY <1>1
<1>4. ASSUME NEW i \in 1..((n + 1) - 1)
      PROVE  <<v[i], v[i + 1]>> \in ToSet(edges)
  <2>1. CASE i = n  BY <1>1, <2>1
  <2>2. CASE i # n
    <3>1. i \in 1..(n - 1) /\ i # n + 1 /\ i + 1 # n + 1 /\ i \in 1..(n + 1) /\ i + 1 \in 1..(n + 1)
      BY <2>2
    <3>2. v[i] = w[i] /\ v[i + 1] = w[i + 1]  BY <3>1
    <3> QED  BY <1>1, <3>1, <3>2
  <2> QED  BY <2>1, <2>2
<1> HIDE DEF v
<1>5. Way(v, n + 1, b, R, edges)  BY <1>2, <1>3, <1>4 DEF Way
<1> QED  BY <1>5

\* The last edge of a way, and the way without it.
LEMMA WayShortens ==
    ASSUME NEW R, NEW edges, NEW n \in Nat \ {0}, NEW b,
           NEW w, Way(w, n + 1, b, R, edges)
    PROVE  /\ \E v : Way(v, n, w[n], R, edges)
           /\ <<w[n], b>> \in ToSet(edges) /\ w[n] \in R
<1> DEFINE v == [i \in 1..n |-> w[i]]
<1>1. /\ w \in [1..(n + 1) -> R] /\ w[1] = Entry /\ w[n + 1] = b
      /\ \A i \in 1..n : <<w[i], w[i + 1]>> \in ToSet(edges)
  <2>1. (n + 1) - 1 = n  OBVIOUS
  <2> QED  BY <2>1 DEF Way
<1>2. v \in [1..n -> R] /\ v[1] = Entry /\ v[n] = w[n]  BY <1>1
<1>3. \A i \in 1..(n - 1) : v[i] = w[i] /\ v[i + 1] = w[i + 1] /\ i \in 1..n
  OBVIOUS
<1> HIDE DEF v
<1>4. Way(v, n, w[n], R, edges)  BY <1>1, <1>2, <1>3 DEF Way
<1>5. n \in 1..n  OBVIOUS
<1> QED  BY <1>1, <1>4, <1>5

-----------------------------------------------------------------------------
(* The rounds of the feed collector                                        *)

\* Depths of some of the agents of R.
Maps(R) == UNION {[S -> Nat] : S \in SUBSET R}

\* Each depth is the length of a way.
Real(d, R, edges) ==
    /\ d \in Maps(R) /\ Entry \in DOMAIN d
    /\ \A a \in DOMAIN d : \E w : Way(w, d[a] + 1, a, R, edges)

\* e is d, or deeper.
Below(d, e) == DOMAIN d \subseteq DOMAIN e /\ \A a \in DOMAIN d : d[a] <= e[a]

\* The agent an edge leads to is deeper in e than the one it comes from is in d.
Deeper(d, e, edge) ==
    edge[1] \in DOMAIN d => edge[2] \in DOMAIN e /\ d[edge[1]] + 1 <= e[edge[2]]

LEMMA MapKinds ==
    ASSUME NEW R, NEW d \in Maps(R)
    PROVE  DOMAIN d \subseteq R /\ d \in [DOMAIN d -> Nat]
<1>1. PICK S \in SUBSET R : d \in [S -> Nat]  BY DEF Maps
<1> QED  BY <1>1

LEMMA FollowGrows ==
    ASSUME NEW R, NEW d \in Maps(R), NEW edge \in R \X R
    PROVE  /\ Follow(d, edge) \in Maps(R)
           /\ Below(d, Follow(d, edge))
           /\ Deeper(d, Follow(d, edge), edge)
<1>1. PICK from \in R, to \in R : edge[1] = from /\ edge[2] = to  OBVIOUS
<1>2. DOMAIN d \subseteq R /\ d \in [DOMAIN d -> Nat]  BY MapKinds
<1>3. CASE from \in DOMAIN d /\ (to \in DOMAIN d => d[to] <= d[from])
  <2> DEFINE e == [a \in DOMAIN d \cup {to} |-> IF a = to THEN d[from] + 1 ELSE d[a]]
  <2>1. Follow(d, edge) = e  BY <1>1, <1>3 DEF Follow
  <2>2. d[from] + 1 \in Nat  BY <1>2, <1>3
  <2>3. e \in [DOMAIN d \cup {to} -> Nat]  BY <1>2, <2>2
  <2>4. e \in Maps(R)
    <3>1. PICK S \in SUBSET R : S = DOMAIN d \cup {to}  BY <1>2
    <3> QED  BY <2>3, <3>1 DEF Maps
  <2>5. to \in DOMAIN e /\ e[to] = d[from] + 1  OBVIOUS
  <2>6. ASSUME NEW a \in DOMAIN d
        PROVE  a \in DOMAIN e /\ d[a] <= e[a]
    <3>1. CASE a = to  BY <1>2, <1>3, <2>5, <3>1
    <3>2. CASE a # to
      <4>1. e[a] = d[a] /\ d[a] \in Nat  BY <1>2, <3>2
      <4> QED  BY <4>1
    <3> QED  BY <3>1, <3>2
  <2> HIDE DEF e
  <2>7. d[from] + 1 <= e[to]  BY <2>2, <2>5
  <2> QED  BY <1>1, <2>1, <2>4, <2>5, <2>6, <2>7 DEF Below, Deeper
<1>4. CASE ~(from \in DOMAIN d /\ (to \in DOMAIN d => d[to] <= d[from]))
  <2>1. Follow(d, edge) = d  BY <1>1, <1>4 DEF Follow
  <2>2. \A a \in DOMAIN d : d[a] <= d[a]  BY <1>2
  <2>3. ASSUME from \in DOMAIN d
        PROVE  to \in DOMAIN d /\ d[from] + 1 <= d[to]
    <3>1. to \in DOMAIN d /\ ~(d[to] <= d[from])  BY <1>4, <2>3
    <3>2. d[to] \in Nat /\ d[from] \in Nat  BY <1>2, <2>3, <3>1
    <3> QED  BY <3>1, <3>2
  <2> QED  BY <1>1, <2>1, <2>2, <2>3 DEF Below, Deeper
<1> QED  BY <1>3, <1>4

LEMMA FollowIsReal ==
    ASSUME NEW R, NEW edges, Crew(R, edges), NEW d, Real(d, R, edges), NEW edge \in ToSet(edges)
    PROVE  Real(Follow(d, edge), R, edges)
<1>0. edge \in R \X R  BY DEF Crew, ToSet
<1>1. PICK from \in R, to \in R : edge[1] = from /\ edge[2] = to /\ edge = <<from, to>>
  BY <1>0
<1>2. d \in Maps(R) /\ DOMAIN d \subseteq R /\ d \in [DOMAIN d -> Nat]
  BY MapKinds DEF Real
<1>3. Follow(d, edge) \in Maps(R) /\ Below(d, Follow(d, edge))  BY <1>0, <1>2, FollowGrows
<1>4. Entry \in DOMAIN Follow(d, edge)  BY <1>3 DEF Real, Below
<1>5. CASE from \in DOMAIN d /\ (to \in DOMAIN d => d[to] <= d[from])
  <2> DEFINE e == [a \in DOMAIN d \cup {to} |-> IF a = to THEN d[from] + 1 ELSE d[a]]
  <2>1. Follow(d, edge) = e  BY <1>1, <1>5 DEF Follow
  <2>2. ASSUME NEW a \in DOMAIN e
        PROVE  \E w : Way(w, e[a] + 1, a, R, edges)
    <3>1. CASE a = to
      <4>1. PICK w : Way(w, d[from] + 1, from, R, edges)  BY <1>5 DEF Real
      <4>2. d[from] + 1 \in Nat \ {0}  BY <1>2, <1>5
      <4>3. \E v : Way(v, (d[from] + 1) + 1, to, R, edges)
        BY <1>1, <4>1, <4>2, WayExtends
      <4>4. e[to] = d[from] + 1  OBVIOUS
      <4> QED  BY <3>1, <4>3, <4>4
    <3>2. CASE a # to
      <4>1. e[a] = d[a] /\ a \in DOMAIN d  BY <3>2
      <4> QED  BY <4>1 DEF Real
    <3> QED  BY <3>1, <3>2
  <2> HIDE DEF e
  <2> QED  BY <1>3, <1>4, <2>1, <2>2 DEF Real
<1>6. CASE ~(from \in DOMAIN d /\ (to \in DOMAIN d => d[to] <= d[from]))
  <2>1. Follow(d, edge) = d  BY <1>1, <1>6 DEF Follow
  <2> QED  BY <2>1
<1> QED  BY <1>5, <1>6

\* A round goes over the edges, one after the other.
Round(t, R, edges, d) ==
    /\ t \in [0..Len(edges) -> Maps(R)] /\ t[0] = d
    /\ \A i \in 1..Len(edges) : t[i] = Follow(t[i - 1], edges[i])
    /\ t[Len(edges)] = Deepen(edges, d)

\* The equation of Deepen's fold.
FollowsAll(g, edges, d) ==
    g = [s \in SUBSET DOMAIN edges |->
            IF s = {} THEN d ELSE Follow(g[s \ {Max(s)}], edges[Max(s)])]

LEMMA DeepensInOrder ==
    ASSUME NEW R, NEW edges \in Seq(R \X R), NEW d \in Maps(R)
    PROVE  \E t : Round(t, R, edges, d)
<1>1. PICK n \in Nat : n = Len(edges) /\ DOMAIN edges = 1..n  OBVIOUS
<1>2. PICK T : T = Maps(R)  OBVIOUS
<1>3. PICK A : A = R \X R  OBVIOUS
<1>4. PICK F : F = [p \in T \X A |-> Follow(p[1], p[2])]  OBVIOUS
<1>5. /\ F \in [T \X A -> T]
      /\ \A m \in T, e \in A : F[<<m, e>>] = Follow(m, e)
  <2>1. \A m \in T, e \in A : Follow(m, e) \in T  BY <1>2, <1>3, FollowGrows
  <2> QED  BY <1>4, <2>1
<1>6. edges \in Seq(A) /\ d \in T  BY <1>2, <1>3
<1>7. \A p \in SUBSET (1..n) : p # {} => p \ {Max(p)} \in SUBSET (1..n) /\ edges[Max(p)] \in A
  <2> TAKE p \in SUBSET (1..n)
  <2>1. p \ {Max(p)} \in SUBSET (1..n)  OBVIOUS
  <2>2. p # {} => Max(p) \in 1..n  BY LastRemoved
  <2>3. \A i \in 1..n : edges[i] \in A  BY <1>1, <1>6
  <2> QED  BY <2>1, <2>2, <2>3
<1>8. \E g : FollowsAll(g, edges, d)
  <2>1. PICK g \in [SUBSET (1..Len(edges)) -> T] : Folds(g, T, F, edges, d)
    BY <1>5, <1>6, FoldExists
  <2>2. \A p \in SUBSET (1..n) :
            g[p] = IF p = {} THEN d ELSE Follow(g[p \ {Max(p)}], edges[Max(p)])
    BY <1>1, <1>5, <1>7, <2>1 DEF Folds
  <2>3. g = [p \in SUBSET (1..n) |-> g[p]]  BY <1>1
  <2>4. FollowsAll(g, edges, d)  BY <1>1, <2>2, <2>3 DEF FollowsAll
  <2> QED  BY <2>4
<1> DEFINE all == CHOOSE g : FollowsAll(g, edges, d)
<1>9. FollowsAll(all, edges, d)  BY <1>8
<1>10. Deepen(edges, d) = all[1..n]
  BY <1>1 DEF Deepen, FoldLeft, MapThenFoldSet, FollowsAll
<1>11. PICK g : g = all  OBVIOUS
<1> HIDE DEF all
<1>12. \A p \in SUBSET (1..n) :
           g[p] = IF p = {} THEN d ELSE Follow(g[p \ {Max(p)}], edges[Max(p)])
  BY <1>1, <1>9, <1>11 DEF FollowsAll
<1>13. g[{}] = d  BY <1>12
<1>14. Folds(g, T, F, edges, d)
  <2>1. \A p \in SUBSET (1..n) : p # {} /\ g[p \ {Max(p)}] \in T =>
            g[p] = F[<<g[p \ {Max(p)}], edges[Max(p)]>>]
    BY <1>5, <1>7, <1>12
  <2> QED  BY <1>1, <1>13, <2>1 DEF Folds
<1>15. PICK t : Results(t, T, F, edges, d, g)  BY <1>5, <1>6, <1>14, FoldRuns
<1>16. \A i \in 1..n : t[i] = Follow(t[i - 1], edges[i])
  <2> TAKE i \in 1..n
  <2>1. i - 1 \in 0..n  OBVIOUS
  <2>2. t[i - 1] \in T /\ edges[i] \in A  BY <1>1, <1>6, <1>15, <2>1 DEF Results
  <2> QED  BY <1>1, <1>5, <1>15, <2>2 DEF Results
<1>17. Round(t, R, edges, d)
  BY <1>1, <1>2, <1>10, <1>11, <1>15, <1>16 DEF Results, Round
<1> QED  BY <1>17

\* What one round does: depths stay lengths of ways, and no edge is forgotten.
LEMMA RoundDeepens ==
    ASSUME NEW R, NEW edges, Crew(R, edges), NEW d, Real(d, R, edges)
    PROVE  /\ Real(Deepen(edges, d), R, edges)
           /\ Below(d, Deepen(edges, d))
           /\ \A edge \in ToSet(edges) : Deeper(d, Deepen(edges, d), edge)
<1>1. edges \in Seq(R \X R) /\ d \in Maps(R)  BY DEF Crew, Real
<1>2. PICK n \in Nat : n = Len(edges) /\ DOMAIN edges = 1..n  BY <1>1
<1>3. PICK t : Round(t, R, edges, d)  BY <1>1, DeepensInOrder
<1>4. /\ t[0] = d /\ t[n] = Deepen(edges, d)
      /\ \A i \in 1..n : t[i] = Follow(t[i - 1], edges[i])
  BY <1>2, <1>3 DEF Round
<1> DEFINE Ns == {k \in Nat : k <= n =>
                     /\ Real(t[k], R, edges) /\ Below(d, t[k])
                     /\ \A j \in 1..k : Deeper(d, t[k], edges[j])}
<1>5. 0 \in Ns
  <2>1. 1..0 = {}  OBVIOUS
  <2>2. d \in [DOMAIN d -> Nat]  BY <1>1, MapKinds
  <2>3. Below(d, d)  BY <2>2 DEF Below
  <2> QED  BY <1>4, <2>1, <2>3
<1>6. ASSUME NEW k \in Nat, k \in Ns
      PROVE  k + 1 \in Ns
  <2> SUFFICES ASSUME k + 1 <= n
               PROVE  /\ Real(t[k + 1], R, edges) /\ Below(d, t[k + 1])
                      /\ \A j \in 1..(k + 1) : Deeper(d, t[k + 1], edges[j])
    OBVIOUS
  <2>1. k + 1 \in 1..n /\ (k + 1) - 1 = k /\ k <= n  OBVIOUS
  <2>2. /\ Real(t[k], R, edges) /\ Below(d, t[k])
        /\ \A j \in 1..k : Deeper(d, t[k], edges[j])
    BY <1>6, <2>1
  <2>3. PICK e \in ToSet(edges) : e = edges[k + 1]  BY <1>2, <2>1 DEF ToSet
  <2>4. e \in R \X R  BY <1>1, <1>2, <2>1, <2>3
  <2>5. t[k + 1] = Follow(t[k], e)  BY <1>4, <2>1, <2>3
  <2>6. PICK u : u = t[k]  OBVIOUS
  <2>7. PICK v : v = t[k + 1]  OBVIOUS
  <2>8. v = Follow(u, e) /\ Real(u, R, edges)  BY <2>2, <2>5, <2>6, <2>7
  <2>9. Real(v, R, edges)  BY <2>3, <2>8, FollowIsReal
  <2>10. u \in Maps(R) /\ v \in Maps(R)  BY <2>8, <2>9 DEF Real
  <2>11. Below(u, v) /\ Deeper(u, v, e)  BY <2>4, <2>8, <2>10, FollowGrows
  <2>12. /\ d \in [DOMAIN d -> Nat] /\ u \in [DOMAIN u -> Nat] /\ v \in [DOMAIN v -> Nat]
    BY <1>1, <2>10, MapKinds
  <2>13. Below(d, u)  BY <2>2, <2>6
  <2>14. Below(d, v)
    <3>1. DOMAIN d \subseteq DOMAIN u /\ DOMAIN u \subseteq DOMAIN v  BY <2>11, <2>13 DEF Below
    <3>2. ASSUME NEW a \in DOMAIN d
          PROVE  d[a] <= v[a]
      <4>1. d[a] <= u[a] /\ u[a] <= v[a]  BY <2>11, <2>13, <3>1 DEF Below
      <4>2. d[a] \in Nat /\ u[a] \in Nat /\ v[a] \in Nat  BY <2>12, <3>1
      <4> QED  BY <4>1, <4>2
    <3> QED  BY <3>1, <3>2 DEF Below
  <2>15. ASSUME NEW j \in 1..(k + 1)
         PROVE  Deeper(d, v, edges[j])
    <3> SUFFICES ASSUME edges[j][1] \in DOMAIN d
                 PROVE  edges[j][2] \in DOMAIN v /\ d[edges[j][1]] + 1 <= v[edges[j][2]]
      BY DEF Deeper
    <3>1. PICK a, b : a = edges[j][1] /\ b = edges[j][2]  OBVIOUS
    <3>2. a \in DOMAIN d /\ d[a] \in Nat  BY <2>12, <3>1
    <3>3. CASE j \in 1..k
      <4>1. b \in DOMAIN u /\ d[a] + 1 <= u[b]  BY <2>2, <2>6, <3>1, <3>2, <3>3 DEF Deeper
      <4>2. b \in DOMAIN v /\ u[b] <= v[b]  BY <2>11, <4>1 DEF Below
      <4>3. u[b] \in Nat /\ v[b] \in Nat  BY <2>12, <4>1, <4>2
      <4> QED  BY <3>1, <3>2, <4>1, <4>2, <4>3
    <3>4. CASE j = k + 1
      <4>1. a \in DOMAIN u /\ d[a] <= u[a]  BY <2>13, <3>2 DEF Below
      <4>2. b \in DOMAIN v /\ u[a] + 1 <= v[b]  BY <2>3, <2>11, <3>1, <3>4, <4>1 DEF Deeper
      <4>3. u[a] \in Nat /\ v[b] \in Nat  BY <2>12, <4>1, <4>2
      <4> QED  BY <3>1, <3>2, <4>1, <4>2, <4>3
    <3>5. j \in 1..k \/ j = k + 1  OBVIOUS
    <3> QED  BY <3>3, <3>4, <3>5
  <2> QED  BY <2>7, <2>9, <2>14, <2>15
<1> HIDE DEF Ns
<1>7. Nat \subseteq Ns  BY <1>5, <1>6, NatSetInduction
<1>8. n \in Ns /\ n <= n  BY <1>7
<1>9. PICK D : D = Deepen(edges, d)  OBVIOUS
<1>10. Real(D, R, edges) /\ Below(d, D) /\ \A j \in 1..n : Deeper(d, D, edges[j])
  BY <1>4, <1>8, <1>9 DEF Ns
<1>11. \A edge \in ToSet(edges) : Deeper(d, D, edge)  BY <1>2, <1>10 DEF ToSet
<1> QED  BY <1>9, <1>10, <1>11

\* A round that finds every edge leading deeper changes nothing.
LEMMA RoundSettles ==
    ASSUME NEW R, NEW edges \in Seq(R \X R), NEW d \in Maps(R),
           \A edge \in ToSet(edges) : Deeper(d, d, edge)
    PROVE  Deepen(edges, d) = d
<1>1. PICK n \in Nat : n = Len(edges) /\ DOMAIN edges = 1..n  OBVIOUS
<1>2. PICK t : Round(t, R, edges, d)  BY DeepensInOrder
<1>3. /\ t[0] = d /\ t[n] = Deepen(edges, d)
      /\ \A i \in 1..n : t[i] = Follow(t[i - 1], edges[i])
  BY <1>1, <1>2 DEF Round
<1>4. d \in [DOMAIN d -> Nat]  BY MapKinds
<1>5. ASSUME NEW i \in 1..n
      PROVE  Follow(d, edges[i]) = d
  <2>1. edges[i] \in ToSet(edges)  BY <1>1 DEF ToSet
  <2>2. PICK a, b : a = edges[i][1] /\ b = edges[i][2]  OBVIOUS
  <2>3. a \in DOMAIN d => b \in DOMAIN d /\ d[a] + 1 <= d[b]  BY <2>1, <2>2 DEF Deeper
  <2>4. ~(a \in DOMAIN d /\ (b \in DOMAIN d => d[b] <= d[a]))
    <3> SUFFICES ASSUME a \in DOMAIN d PROVE ~(b \in DOMAIN d => d[b] <= d[a])
      OBVIOUS
    <3>1. d[a] \in Nat /\ d[b] \in Nat  BY <1>4, <2>3
    <3> QED  BY <2>3, <3>1
  <2> QED  BY <2>2, <2>4 DEF Follow
<1> DEFINE Ns == {k \in Nat : k <= n => t[k] = d}
<1>6. 0 \in Ns  BY <1>3
<1>7. ASSUME NEW k \in Nat, k \in Ns
      PROVE  k + 1 \in Ns
  <2>1. ASSUME k + 1 <= n
        PROVE  t[k + 1] = d
    <3>1. k + 1 \in 1..n /\ (k + 1) - 1 = k /\ t[k] = d  BY <1>7, <2>1
    <3>2. t[k + 1] = Follow(t[k], edges[k + 1])  BY <1>3, <3>1
    <3> QED  BY <1>5, <3>1, <3>2
  <2> QED  BY <2>1
<1> HIDE DEF Ns
<1>8. n \in Ns  BY <1>6, <1>7, NatSetInduction
<1> QED  BY <1>3, <1>8 DEF Ns

\* The equation of Depths' rounds.
Rounds(r, edges, last) ==
    r = [n \in 0..last |-> IF n = 0 THEN [a \in {Entry} |-> 0] ELSE Deepen(edges, r[n - 1])]

LEMMA RoundsExist ==
    ASSUME NEW edges, NEW last \in Nat
    PROVE  \E r : Rounds(r, edges, last)
<1> DEFINE Ns == {k \in Nat : \E r : Rounds(r, edges, k)}
<1>1. 0 \in Ns
  <2> DEFINE r == [n \in 0..0 |-> [a \in {Entry} |-> 0]]
  <2>1. \A n \in 0..0 : n = 0  OBVIOUS
  <2>2. Rounds(r, edges, 0)  BY <2>1 DEF Rounds
  <2> QED  BY <2>2
<1>2. ASSUME NEW k \in Nat, k \in Ns
      PROVE  k + 1 \in Ns
  <2>1. PICK r : Rounds(r, edges, k)  BY <1>2
  <2> DEFINE more == [n \in 0..(k + 1) |-> IF n = k + 1 THEN Deepen(edges, r[k]) ELSE r[n]]
  <2>2. \A n \in 0..k : r[n] = IF n = 0 THEN [a \in {Entry} |-> 0] ELSE Deepen(edges, r[n - 1])
    BY <2>1 DEF Rounds
  <2>3. \A n \in 0..k : more[n] = r[n]  OBVIOUS
  <2>4. more[k + 1] = Deepen(edges, r[k])  OBVIOUS
  <2> DEFINE next(n) == IF n = 0 THEN [a \in {Entry} |-> 0] ELSE Deepen(edges, more[n - 1])
  <2>5. more = [n \in 0..(k + 1) |-> more[n]]  OBVIOUS
  <2> HIDE DEF more
  <2>6. ASSUME NEW n \in 0..(k + 1)
        PROVE  more[n] = next(n)
    <3>1. CASE n = k + 1
      <4>1. n # 0 /\ n - 1 = k /\ k \in 0..k  BY <3>1
      <4> QED  BY <2>3, <2>4, <3>1, <4>1
    <3>2. CASE n = 0
      <4>1. 0 \in 0..k  OBVIOUS
      <4> QED  BY <2>2, <2>3, <3>2, <4>1
    <3>3. CASE n # 0 /\ n # k + 1
      <4>1. n \in 0..k /\ n - 1 \in 0..k  BY <3>3
      <4> QED  BY <2>2, <2>3, <3>3, <4>1
    <3> QED  BY <3>1, <3>2, <3>3
  <2>7. Rounds(more, edges, k + 1)  BY <2>5, <2>6 DEF Rounds
  <2> QED  BY <2>7
<1> HIDE DEF Ns
<1>3. last \in Ns  BY <1>1, <1>2, NatSetInduction
<1> QED  BY <1>3 DEF Ns

\* After as many rounds as there are agents, every agent that a way leads to has
\* the length of a longest one.
LEMMA DepthsAreLongest ==
    ASSUME NEW reg, Crew(Registered(reg), reg.edges)
    PROVE  /\ Real(Depths(reg), Registered(reg), reg.edges)
           /\ \A n \in Nat \ {0} : \A a, w : Way(w, n, a, Registered(reg), reg.edges) =>
                  a \in DOMAIN Depths(reg) /\ n - 1 <= Depths(reg)[a]
<1>1. PICK R : R = Registered(reg)  OBVIOUS
<1>2. PICK edges : edges = reg.edges  OBVIOUS
<1>3. Crew(R, edges)  BY <1>1, <1>2
<1>4. PICK last \in Nat : last = Cardinality(R)  BY <1>3, FS_CardinalityType DEF Crew
<1> DEFINE round == CHOOSE r : Rounds(r, edges, last)
<1>5. Rounds(round, edges, last)  BY RoundsExist
<1>6. Depths(reg) = round[last]
  BY <1>1, <1>2, <1>4 DEF Depths, Rounds
<1>7. PICK r : r = round  OBVIOUS
<1> HIDE DEF round
<1>8. /\ r[0] = [a \in {Entry} |-> 0]
      /\ \A n \in 0..last : n # 0 => r[n] = Deepen(edges, r[n - 1])
  <2>1. \A n \in 0..last :
            r[n] = IF n = 0 THEN [a \in {Entry} |-> 0] ELSE Deepen(edges, r[n - 1])
    BY <1>5, <1>7 DEF Rounds
  <2>2. 0 \in 0..last  OBVIOUS
  <2> QED  BY <2>1, <2>2
<1> DEFINE Reaches(d, n) == \A k \in Nat \ {0} : \A a, w : Way(w, k, a, R, edges) /\ k <= n + 1 =>
                                a \in DOMAIN d /\ k - 1 <= d[a]
           Ns == {n \in Nat : n <= last => Real(r[n], R, edges) /\ Reaches(r[n], n)}
<1>9. 0 \in Ns
  <2>1. PICK d : d = [a \in {Entry} |-> 0]  OBVIOUS
  <2>2. d \in [{Entry} -> Nat] /\ DOMAIN d = {Entry} /\ d[Entry] = 0  BY <2>1
  <2>3. {Entry} \in SUBSET R  BY <1>3 DEF Crew
  <2>4. d \in Maps(R)  BY <2>2, <2>3 DEF Maps
  <2>5. \E w : Way(w, 1, Entry, R, edges)
    <3>1. PICK w : w = [i \in 1..1 |-> Entry]  OBVIOUS
    <3>2. w \in [1..1 -> R] /\ w[1] = Entry  BY <2>3, <3>1
    <3>3. 1..(1 - 1) = {}  OBVIOUS
    <3>4. Way(w, 1, Entry, R, edges)  BY <3>2, <3>3 DEF Way
    <3> QED  BY <3>4
  <2>6. Real(d, R, edges)
    <3>1. d[Entry] + 1 = 1  BY <2>2
    <3> QED  BY <2>2, <2>4, <2>5, <3>1 DEF Real
  <2>7. ASSUME NEW k \in Nat \ {0}, NEW a, NEW w, Way(w, k, a, R, edges), k <= 0 + 1
        PROVE  a \in DOMAIN d /\ k - 1 <= d[a]
    <3>1. k = 1  BY <2>7
    <3>2. a = Entry  BY <2>7, <3>1 DEF Way
    <3> QED  BY <2>2, <3>1, <3>2
  <2> QED  BY <1>8, <2>1, <2>6, <2>7
<1>10. ASSUME NEW n \in Nat, n \in Ns
       PROVE  n + 1 \in Ns
  <2> SUFFICES ASSUME n + 1 <= last
               PROVE  Real(r[n + 1], R, edges) /\ Reaches(r[n + 1], n + 1)
    OBVIOUS
  <2>1. n + 1 \in 0..last /\ n + 1 # 0 /\ (n + 1) - 1 = n /\ n <= last  OBVIOUS
  <2>2. PICK d : d = r[n]  OBVIOUS
  <2>3. PICK e : e = r[n + 1]  OBVIOUS
  <2>4. Real(d, R, edges) /\ Reaches(d, n)  BY <1>10, <2>1, <2>2
  <2>5. e = Deepen(edges, d)  BY <1>8, <2>1, <2>2, <2>3
  <2>6. /\ Real(e, R, edges) /\ Below(d, e)
        /\ \A edge \in ToSet(edges) : Deeper(d, e, edge)
    BY <1>3, <2>4, <2>5, RoundDeepens
  <2>7. d \in [DOMAIN d -> Nat] /\ e \in [DOMAIN e -> Nat]
    <3>1. d \in Maps(R) /\ e \in Maps(R)  BY <2>4, <2>6 DEF Real
    <3> QED  BY <3>1, MapKinds
  <2>8. ASSUME NEW k \in Nat \ {0}, NEW a, NEW w, Way(w, k, a, R, edges), k <= (n + 1) + 1
        PROVE  a \in DOMAIN e /\ k - 1 <= e[a]
    <3>1. CASE k = 1
      <4>1. a = Entry  BY <2>8, <3>1 DEF Way
      <4>2. a \in DOMAIN d  BY <2>4, <4>1 DEF Real
      <4>3. a \in DOMAIN e  BY <2>6, <4>2 DEF Below
      <4>4. e[a] \in Nat  BY <2>7, <4>3
      <4> QED  BY <3>1, <4>3, <4>4
    <3>2. CASE k # 1
      <4>1. PICK j \in Nat \ {0} : k = j + 1
        <5>1. k - 1 \in Nat \ {0} /\ k = (k - 1) + 1  BY <3>2
        <5> QED  BY <5>1
      <4>2. PICK b : b = w[j]  OBVIOUS
      <4>3. (\E v : Way(v, j, b, R, edges)) /\ <<b, a>> \in ToSet(edges)
        BY <2>8, <4>1, <4>2, WayShortens
      <4>4. PICK v : Way(v, j, b, R, edges)  BY <4>3
      <4>5. j <= n + 1  BY <2>8, <4>1
      <4>6. b \in DOMAIN d /\ j - 1 <= d[b]  BY <2>4, <4>4, <4>5
      <4>7. Deeper(d, e, <<b, a>>)  BY <2>6, <4>3
      <4>8. a \in DOMAIN e /\ d[b] + 1 <= e[a]  BY <4>6, <4>7 DEF Deeper
      <4>9. d[b] \in Nat /\ e[a] \in Nat  BY <2>7, <4>6, <4>8
      <4> QED  BY <4>1, <4>6, <4>8, <4>9
    <3> QED  BY <3>1, <3>2
  <2> QED  BY <2>3, <2>6, <2>8
<1> HIDE DEF Ns
<1>11. last \in Ns /\ last <= last  BY <1>9, <1>10, NatSetInduction
<1>12. PICK d : d = r[last]  OBVIOUS
<1>13. Real(d, R, edges) /\ Reaches(d, last)  BY <1>11, <1>12 DEF Ns
<1>14. ASSUME NEW n \in Nat \ {0}, NEW a, NEW w, Way(w, n, a, R, edges)
       PROVE  a \in DOMAIN d /\ n - 1 <= d[a]
  <2>1. n <= last  BY <1>3, <1>4, <1>14, WaysAreShort
  <2>2. n <= last + 1  BY <2>1
  <2> QED  BY <1>13, <1>14, <2>2
<1> QED  BY <1>1, <1>2, <1>6, <1>7, <1>12, <1>13, <1>14

LEMMA DepthsSettle ==
    ASSUME NEW reg, Crew(Registered(reg), reg.edges)
    PROVE  Deepen(reg.edges, Depths(reg)) = Depths(reg)
<1>1. PICK R : R = Registered(reg)  OBVIOUS
<1>2. PICK edges : edges = reg.edges  OBVIOUS
<1>3. PICK d : d = Depths(reg)  OBVIOUS
<1>4. /\ Crew(R, edges) /\ Real(d, R, edges)
      /\ \A n \in Nat \ {0} : \A a, w : Way(w, n, a, R, edges) => a \in DOMAIN d /\ n - 1 <= d[a]
  BY <1>1, <1>2, <1>3, DepthsAreLongest
<1>5. edges \in Seq(R \X R) /\ d \in Maps(R)  BY <1>4 DEF Crew, Real
<1>6. d \in [DOMAIN d -> Nat]  BY <1>5, MapKinds
<1>7. ASSUME NEW edge \in ToSet(edges)
      PROVE  Deeper(d, d, edge)
  <2>1. edge \in R \X R  BY <1>5 DEF ToSet
  <2>2. PICK a \in R, b \in R : edge[1] = a /\ edge[2] = b /\ edge = <<a, b>>  BY <2>1
  <2> SUFFICES ASSUME a \in DOMAIN d
               PROVE  b \in DOMAIN d /\ d[a] + 1 <= d[b]
    BY <2>2 DEF Deeper
  <2>3. PICK w : Way(w, d[a] + 1, a, R, edges)  BY <1>4 DEF Real
  <2>4. d[a] \in Nat /\ d[a] + 1 \in Nat \ {0}  BY <1>6
  <2>5. <<a, b>> \in ToSet(edges)  BY <2>2
  <2>6. PICK v : Way(v, (d[a] + 1) + 1, b, R, edges)  BY <2>3, <2>4, <2>5, WayExtends
  <2>7. (d[a] + 1) + 1 \in Nat \ {0} /\ ((d[a] + 1) + 1) - 1 = d[a] + 1  BY <2>4
  <2> QED  BY <1>4, <2>6, <2>7
<1>8. Deepen(edges, d) = d  BY <1>5, <1>7, RoundSettles
<1> QED  BY <1>2, <1>3, <1>8

\* A set of naturals up to n that is not empty has its Max, 0 or not.
LEMMA MaxIs ==
    ASSUME NEW n \in Nat, NEW S \in SUBSET (0..n), NEW m \in S, \A y \in S : y <= m
    PROVE  Max(S) = m
<1>1. \E x \in S : \A y \in S : x >= y
  <2>1. \A y \in S : m >= y  OBVIOUS
  <2> QED  BY <2>1
<1>2. Max(S) \in S /\ \A y \in S : Max(S) >= y  BY <1>1 DEF Max
<1>3. PICK x \in S : x = Max(S) /\ x >= m  BY <1>2
<1>4. x <= m /\ x \in Nat /\ m \in Nat  OBVIOUS
<1> QED  BY <1>3, <1>4

\* The equation of EndsOfWays.
Ends(r, edges, last) ==
    r = [n \in 0..last |-> IF n = 0 THEN {Entry} ELSE Along(edges, r[n - 1])]

LEMMA EndsExist ==
    ASSUME NEW edges, NEW last \in Nat
    PROVE  \E r : Ends(r, edges, last)
<1> DEFINE Ns == {k \in Nat : \E r : Ends(r, edges, k)}
<1>1. 0 \in Ns
  <2> DEFINE r == [n \in 0..0 |-> {Entry}]
  <2>1. \A n \in 0..0 : n = 0  OBVIOUS
  <2>2. Ends(r, edges, 0)  BY <2>1 DEF Ends
  <2> QED  BY <2>2
<1>2. ASSUME NEW k \in Nat, k \in Ns
      PROVE  k + 1 \in Ns
  <2>1. PICK r : Ends(r, edges, k)  BY <1>2
  <2> DEFINE more == [n \in 0..(k + 1) |-> IF n = k + 1 THEN Along(edges, r[k]) ELSE r[n]]
  <2>2. \A n \in 0..k : r[n] = IF n = 0 THEN {Entry} ELSE Along(edges, r[n - 1])
    BY <2>1 DEF Ends
  <2>3. \A n \in 0..k : more[n] = r[n]  OBVIOUS
  <2>4. more[k + 1] = Along(edges, r[k])  OBVIOUS
  <2> DEFINE next(n) == IF n = 0 THEN {Entry} ELSE Along(edges, more[n - 1])
  <2>5. more = [n \in 0..(k + 1) |-> more[n]]  OBVIOUS
  <2> HIDE DEF more
  <2>6. ASSUME NEW n \in 0..(k + 1)
        PROVE  more[n] = next(n)
    <3>1. CASE n = k + 1
      <4>1. n # 0 /\ n - 1 = k /\ k \in 0..k  BY <3>1
      <4> QED  BY <2>3, <2>4, <3>1, <4>1
    <3>2. CASE n = 0
      <4>1. 0 \in 0..k  OBVIOUS
      <4> QED  BY <2>2, <2>3, <3>2, <4>1
    <3>3. CASE n # 0 /\ n # k + 1
      <4>1. n \in 0..k /\ n - 1 \in 0..k  BY <3>3
      <4> QED  BY <2>2, <2>3, <3>3, <4>1
    <3> QED  BY <3>1, <3>2, <3>3
  <2>7. Ends(more, edges, k + 1)  BY <2>5, <2>6 DEF Ends
  <2> QED  BY <2>7
<1> HIDE DEF Ns
<1>3. last \in Ns  BY <1>1, <1>2, NatSetInduction
<1> QED  BY <1>3 DEF Ns

\* It gives what its name says.
LEMMA EndsAreTold ==
    ASSUME NEW reg, NEW R, NEW edges, NEW last \in Nat,
           R = Registered(reg), edges = reg.edges, last = Cardinality(R), Crew(R, edges)
    PROVE  /\ DOMAIN EndsOfWays(reg) = 0..last
           /\ \A n \in 0..last : \A a :
                  a \in EndsOfWays(reg)[n] <=> \E w : Way(w, n + 1, a, R, edges)
<1> DEFINE at == CHOOSE r : Ends(r, edges, last)
<1>1. Ends(at, edges, last)  BY EndsExist
<1>2. EndsOfWays(reg) = at  BY DEF EndsOfWays, Ends
<1>3. PICK r : r = at  OBVIOUS
<1> HIDE DEF at
<1>4. DOMAIN r = 0..last  BY <1>1, <1>3 DEF Ends
<1>5. /\ r[0] = {Entry}
      /\ \A n \in 0..last : n # 0 => r[n] = Along(edges, r[n - 1])
  <2>1. \A n \in 0..last : r[n] = IF n = 0 THEN {Entry} ELSE Along(edges, r[n - 1])
    BY <1>1, <1>3 DEF Ends
  <2>2. 0 \in 0..last  OBVIOUS
  <2> QED  BY <2>1, <2>2
<1> DEFINE Told(n) == \A a : a \in r[n] <=> \E w : Way(w, n + 1, a, R, edges)
           Ns == {n \in Nat : n <= last => Told(n)}
<1>6. 0 \in Ns
  <2>1. Entry \in R  BY DEF Crew
  <2>2. ASSUME NEW a, NEW w, Way(w, 1, a, R, edges)
        PROVE  a = Entry
    BY <2>2 DEF Way
  <2>3. \E w : Way(w, 1, Entry, R, edges)
    <3>1. PICK w : w = [i \in 1..1 |-> Entry]  OBVIOUS
    <3>2. w \in [1..1 -> R] /\ w[1] = Entry  BY <2>1, <3>1
    <3>3. 1..(1 - 1) = {}  OBVIOUS
    <3>4. Way(w, 1, Entry, R, edges)  BY <3>2, <3>3 DEF Way
    <3> QED  BY <3>4
  <2>4. 0 + 1 = 1  OBVIOUS
  <2> QED  BY <1>5, <2>2, <2>3, <2>4
<1>7. ASSUME NEW n \in Nat, n \in Ns
      PROVE  n + 1 \in Ns
  <2> SUFFICES ASSUME n + 1 <= last, NEW a
               PROVE  a \in r[n + 1] <=> \E w : Way(w, (n + 1) + 1, a, R, edges)
    OBVIOUS
  <2>1. n + 1 \in 0..last /\ n + 1 # 0 /\ (n + 1) - 1 = n /\ n <= last /\ n + 1 \in Nat \ {0}
    OBVIOUS
  <2>2. r[n + 1] = Along(edges, r[n])  BY <1>5, <2>1
  <2>3. \A b : b \in r[n] <=> \E w : Way(w, n + 1, b, R, edges)  BY <1>7, <2>1
  <2>4. ASSUME a \in r[n + 1]
        PROVE  \E w : Way(w, (n + 1) + 1, a, R, edges)
    <3>1. PICK edge \in ToSet(edges) : edge[1] \in r[n] /\ edge[2] = a
      BY <2>2, <2>4 DEF Along
    <3>2. edge \in R \X R  BY DEF Crew, ToSet
    <3>3. PICK b \in R : edge = <<b, a>> /\ a \in R /\ b \in r[n]  BY <3>1, <3>2
    <3>4. PICK w : Way(w, n + 1, b, R, edges)  BY <2>3, <3>3
    <3> QED  BY <2>1, <3>1, <3>3, <3>4, WayExtends
  <2>5. ASSUME NEW w, Way(w, (n + 1) + 1, a, R, edges)
        PROVE  a \in r[n + 1]
    <3>1. PICK b : b = w[n + 1]  OBVIOUS
    <3>2. (\E v : Way(v, n + 1, b, R, edges)) /\ <<b, a>> \in ToSet(edges)
      BY <2>1, <2>5, <3>1, WayShortens
    <3>3. b \in r[n]  BY <2>3, <3>2
    <3> QED  BY <2>2, <3>2, <3>3 DEF Along
  <2> QED  BY <2>4, <2>5
<1> HIDE DEF Ns
<1>8. Nat \subseteq Ns  BY <1>6, <1>7, NatSetInduction
<1>9. \A n \in 0..last : Told(n)  BY <1>8 DEF Ns
<1> QED  BY <1>2, <1>3, <1>4, <1>9

\* An agent's wave is the length of the longest way to it.
LEMMA WavesAreTold ==
    ASSUME NEW reg, Crew(Registered(reg), reg.edges)
    PROVE  Waves(reg) = LongestWays(reg)
<1>1. PICK R : R = Registered(reg)  OBVIOUS
<1>2. PICK edges : edges = reg.edges  OBVIOUS
<1>3. PICK d : d = Depths(reg)  OBVIOUS
<1>4. /\ Crew(R, edges) /\ Real(d, R, edges)
      /\ \A n \in Nat \ {0} : \A b, w : Way(w, n, b, R, edges) => b \in DOMAIN d /\ n - 1 <= d[b]
  BY <1>1, <1>2, <1>3, DepthsAreLongest
<1>5. PICK last \in Nat : last = Cardinality(R)  BY <1>4, FS_CardinalityType DEF Crew
<1>6. d \in [DOMAIN d -> Nat]
  <2>1. d \in Maps(R)  BY <1>4 DEF Real
  <2> QED  BY <2>1, MapKinds
<1>7. PICK ends : ends = EndsOfWays(reg)  OBVIOUS
<1>8. /\ DOMAIN ends = 0..last
      /\ \A n \in 0..last : \A a : a \in ends[n] <=> \E w : Way(w, n + 1, a, R, edges)
  BY <1>1, <1>2, <1>4, <1>5, <1>7, EndsAreTold
<1> DEFINE lengths(a) == {n \in DOMAIN ends : a \in ends[n]} \cup {0}
<1>9. ASSUME NEW a \in R
      PROVE  (IF a \in DOMAIN d THEN d[a] ELSE 0) = Max(lengths(a))
  <2>1. PICK L : L = lengths(a)  OBVIOUS
  <2>2. L \in SUBSET (0..last) /\ 0 \in L  BY <1>8, <2>1
  <2>3. ASSUME NEW n \in L, n # 0
        PROVE  a \in DOMAIN d /\ n <= d[a]
    <3>1. n \in 0..last /\ a \in ends[n]  BY <2>1, <2>3, <1>8
    <3>2. PICK w : Way(w, n + 1, a, R, edges)  BY <1>8, <3>1
    <3>3. n + 1 \in Nat \ {0} /\ (n + 1) - 1 = n  BY <3>1
    <3> QED  BY <1>4, <3>2, <3>3
  <2>4. CASE a \in DOMAIN d
    <3>1. PICK w : Way(w, d[a] + 1, a, R, edges)  BY <1>4, <2>4 DEF Real
    <3>2. d[a] \in Nat /\ d[a] + 1 \in Nat \ {0}  BY <1>6, <2>4
    <3>3. d[a] + 1 <= last  BY <1>4, <1>5, <3>1, <3>2, WaysAreShort
    <3>4. d[a] \in 0..last  BY <3>2, <3>3
    <3>5. d[a] \in L  BY <1>8, <2>1, <3>1, <3>4
    <3>6. \A n \in L : n <= d[a]
      <4> TAKE n \in L
      <4>1. CASE n = 0  BY <4>1, <3>2
      <4>2. CASE n # 0  BY <4>2, <2>3
      <4> QED  BY <4>1, <4>2
    <3>7. Max(L) = d[a]  BY <2>2, <3>5, <3>6, MaxIs
    <3> QED  BY <2>1, <2>4, <3>7
  <2>5. CASE a \notin DOMAIN d
    <3>1. \A n \in L : n <= 0  BY <2>3, <2>5
    <3>2. Max(L) = 0  BY <2>2, <3>1, MaxIs
    <3> QED  BY <2>1, <2>5, <3>2
  <2> QED  BY <2>4, <2>5
<1>10. Waves(reg) = [a \in R |-> IF a \in DOMAIN d THEN d[a] ELSE 0]
  BY <1>1, <1>3 DEF Waves
<1>11. LongestWays(reg) = [a \in R |-> Max(lengths(a))]
  BY <1>1, <1>7 DEF LongestWays
<1> HIDE DEF lengths
<1> QED  BY <1>9, <1>10, <1>11

-----------------------------------------------------------------------------
\* A registry is a file: it names finitely many agents.
FiniteCrew ==
    /\ IsFiniteSet(registry.agents)
    /\ \A p \in Processes : IsFiniteSet(draft[p].registry.agents)

LEMMA StaysFinite == TypeOK /\ FiniteCrew /\ [Next]_vars => FiniteCrew'
<1> SUFFICES ASSUME TypeOK, FiniteCrew, [Next]_vars
             PROVE  FiniteCrew'
  OBVIOUS
<1>1. draft \in [Processes ->
                    [registry : Registries, config : SUBSET Agents, tail : BOOLEAN]]
  BY DEF TypeOK
<1>2. ASSUME NEW p \in Processes, NEW a \in CommandLines, Build(p, a)
      PROVE  FiniteCrew'
  <2>1. PICK reg : reg = PatchRegistry(a)  OBVIOUS
  <2>2. /\ draft' = [draft EXCEPT ![p] = [registry |-> reg, config |-> config \cup {a.name},
                                          tail |-> CONFIG \in mixed]]
        /\ registry' = registry
    BY <1>2, <2>1 DEF Build, files
  <2>3. reg.agents = registry.agents \cup {Spot(a)}  BY <2>1 DEF PatchRegistry
  <2>4. IsFiniteSet(reg.agents)  BY <2>3, FS_AddElement DEF FiniteCrew
  <2>5. \A q \in Processes : draft'[q] = draft[q] \/ draft'[q].registry = reg
    BY <1>1, <2>2
  <2> QED  BY <2>2, <2>4, <2>5 DEF FiniteCrew
<1>3. ASSUME NEW p \in Processes, Fill(p)
      PROVE  FiniteCrew'
  <2>1. draft' = draft /\ (registry' = registry \/ registry' = draft[p].registry)
    BY <1>3 DEF Fill
  <2> QED  BY <2>1 DEF FiniteCrew
<1>4. ASSUME NEW p \in Processes, Empty(p) \/ Check(p) \/ Kill(p)
      PROVE  FiniteCrew'
  BY <1>4 DEF Empty, Check, Kill, files, FiniteCrew
<1>5. CASE UNCHANGED vars  BY <1>5 DEF vars, files, FiniteCrew
<1> QED  BY <1>2, <1>3, <1>4, <1>5 DEF Next

\* For any agents and scaffolds, whatever is killed or overwritten: the registry
\* validates and has no cycle, so that the feed collector's rounds over its edges
\* settle within as many as there are agents, on the longest way to each.
THEOREM WavesAreLongest == Spec => []RegistryHolds
<1>1. Init => FiniteCrew
  <2> SUFFICES ASSUME Init
               PROVE  FiniteCrew
    OBVIOUS
  <2>1. IsFiniteSet(registry.agents)  BY ScaffoldAssumption DEF Init
  <2>2. \A p \in Processes : draft[p].registry = registry  BY DEF Init
  <2> QED  BY <2>1, <2>2 DEF FiniteCrew
<1>2. IInv /\ FiniteCrew /\ [Next]_vars => FiniteCrew'  BY StaysFinite DEF IInv
<1>3. IInv /\ FiniteCrew => RegistryHolds
  <2> SUFFICES ASSUME IInv, FiniteCrew
               PROVE  RegistryHolds
    OBVIOUS
  <2>1. Resolves(registry) /\ OneEntryEach(registry) /\ Acyclic(registry)
    BY DEF IInv, TextsSound, Sound
  <2>2. PICK R : R = Registered(registry)  OBVIOUS
  <2>3. IsFiniteSet(R)
    <3>1. R = {entry[2] : entry \in registry.agents}  BY <2>2 DEF Registered
    <3>2. PICK f : f = [entry \in registry.agents |-> entry[2]]  OBVIOUS
    <3>3. f \in Surjection(registry.agents, R)
      BY <3>1, <3>2 DEF Surjection
    <3> QED  BY <3>3, FS_Surjection DEF FiniteCrew
  <2>4. registry.edges \in Seq(R \X R)
    <3>1. registry.edges \in Seq(Agents \X Agents)  BY DEF IInv, TypeOK, Registries
    <3>2. \A i \in 1..Len(registry.edges) : registry.edges[i] \in R \X R
      BY <2>1, <2>2, <3>1 DEF Resolves
    <3> QED  BY <3>1, <3>2
  <2>5. Crew(R, registry.edges)
    BY <2>1, <2>2, <2>3, <2>4 DEF Crew, Resolves, Acyclic
  <2>6. /\ Deepen(registry.edges, Depths(registry)) = Depths(registry)
        /\ Waves(registry) = LongestWays(registry)
    BY <2>2, <2>5, DepthsSettle, WavesAreTold
  <2>7. CASE Whole(REGISTRY)
    BY <2>6, <2>7 DEF IInv, TextsSound, Sound, ValidRegistry, RegistryHolds
  <2>8. CASE ~Whole(REGISTRY)
    BY <2>8 DEF IInv, SpoiltIsTold, Spoilt, Whole, RegistryHolds
  <2> QED  BY <2>7, <2>8
<1> QED  BY <1>1, <1>2, <1>3, Invariance, PTL DEF Spec
=============================================================================
