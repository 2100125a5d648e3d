------------------------------- MODULE Scaffold -------------------------------
(***************************************************************************)
(* scripts/new_agent.py adds an agent to the repository: it works out the  *)
(* new texts of the files from what it reads, writes them one after the    *)
(* other and runs scripts/validate.py.  A write empties the file and then  *)
(* fills it (write_text).  A scaffold may be killed between any two of     *)
(* these steps, and two of them may run at once.  The registry it leaves   *)
(* is what the feed collector lays its stations out from (runtime_feed.py, *)
(* stations_from_registry).                                                *)
(*                                                                         *)
(* One crew.  The reads of build_changes are one step.  A text goes to the *)
(* file in one piece.  The output schema is patched as the registry is and *)
(* left out.                                                               *)
(***************************************************************************)
EXTENDS Naturals, SequencesExt, FiniteSetsExt

CONSTANTS
    Agents,         \* the names of agents
    Entry,          \* the crew's entry agent
    NoCrew,         \* without --crew
    Roles,          \* a role is a directory under agents/
    Shipped,        \* the registries there may be before the first scaffold
    OtherKeys,      \* names that an indented key elsewhere in agent_config.yaml bears
    CommandLines,   \* the scaffolds' arguments
    Processes,
    MaxRuns         \* bound: scaffolds started

\* Without --after, the new agent comes after the entry.
Arguments == [name : Agents, role : Roles, after : Agents \cup {NoCrew}]
Registries == [agents : SUBSET (Roles \X Agents), edges : Seq(Agents \X Agents)]
Registered(reg) == {entry[2] : entry \in reg.agents}

\* A name has one entry.
OneEntryEach(reg) == \A x, y \in reg.agents : x[2] = y[2] => x = y

\* Entry and edges refer to agents of the registry.
Resolves(reg) ==
    /\ Entry \in Registered(reg)
    /\ \A i \in DOMAIN reg.edges : reg.edges[i] \in Registered(reg) \X Registered(reg)

\* There is no cycle: of any agents, one comes after none of them.
Acyclic(reg) ==
    \A S \in SUBSET Registered(reg) : S # {} =>
        \E a \in S : \A edge \in ToSet(reg.edges) : edge[2] = a => edge[1] \notin S

ASSUME ScaffoldAssumption ==
    /\ Entry \in Agents /\ NoCrew \notin Agents /\ Roles # {}
    /\ Shipped \subseteq Registries
    /\ \A reg \in Shipped : IsFiniteSet(reg.agents) /\ OneEntryEach(reg)
                            /\ Resolves(reg) /\ Acyclic(reg)
    /\ CommandLines \subseteq Arguments
    /\ MaxRuns \in Nat

VARIABLES
    specs,      \* agents/<role>/<name>.md that exist
    registry,   \* registry.json: its entries <<role, name>>, and the crew's edges
    config,     \* the agents agent_config.yaml has a whitelist for
    evals,      \* evals/<name>.json that exist
    empty,      \* the files that were emptied and not filled
    mixed,      \* the files that end with a piece of a longer text
    pc,         \* each process: "idle", "apply", "done", "failed" or "killed"
    args,       \* its command line
    draft,      \* the registry and the configuration it worked out
    todo,       \* the files it has yet to write
    open,       \* it has emptied the first of them
    raced,      \* history: processes that another one overlapped
    runs        \* scaffolds started

files == <<specs, registry, config, evals, empty, mixed>>
vars == <<files, pc, args, draft, todo, open, raced, runs>>

Files == {"spec", "registry", "config", "evals"}

\* The entry's command line, for processes that have had none.
NoAgent == [name |-> Entry, role |-> CHOOSE r \in Roles : TRUE, after |-> NoCrew]

\* agents/<role>/<name>.md, and the registry's entry that refers to it.
Spot(a) == <<a.role, a.name>>

\* What a scaffold's Change is written to.
Place(file, a) ==
    <<file, IF file = "spec" THEN Spot(a) ELSE IF file = "evals" THEN <<a.name>> ELSE <<>>>>
REGISTRY == Place("registry", NoAgent)
CONFIG == Place("config", NoAgent)

Whole(place) == place \notin empty \cup mixed

-----------------------------------------------------------------------------
(* stations_from_registry                                                  *)

\* An agent comes after every agent that hands to it.
Follow(depth, edge) ==
    LET from == edge[1]
        to == edge[2]
    IN IF from \in DOMAIN depth /\ (to \in DOMAIN depth => depth[to] <= depth[from])
       THEN [a \in DOMAIN depth \cup {to} |-> IF a = to THEN depth[from] + 1 ELSE depth[a]]
       ELSE depth

\* One round over the edges.
Deepen(edges, depth) == FoldLeft(Follow, depth, edges)

\* The rounds go on while one changes something; without a cycle there are at
\* most as many as agents.
Depths(reg) ==
    LET last == Cardinality(Registered(reg))
        round[n \in 0..last] ==
            IF n = 0 THEN [a \in {Entry} |-> 0] ELSE Deepen(reg.edges, round[n - 1])
    IN round[last]

\* An agent that the entry does not reach is in wave 0.
Waves(reg) ==
    LET depth == Depths(reg)
    IN [a \in Registered(reg) |-> IF a \in DOMAIN depth THEN depth[a] ELSE 0]

-----------------------------------------------------------------------------
(* validate.py                                                             *)

\* validate_registry: it can be read, every agent's file exists, every edge joins
\* known agents.
ValidRegistry ==
    /\ Whole(REGISTRY)
    /\ registry.agents \subseteq specs
    /\ Resolves(registry)

-----------------------------------------------------------------------------
(* new_agent.py                                                            *)

Init ==
    /\ registry \in Shipped
    /\ specs = registry.agents
    /\ config = Registered(registry) /\ evals = {}
    /\ empty = {} /\ mixed = {}
    /\ pc = [p \in Processes |-> "idle"]
    /\ args = [p \in Processes |-> NoAgent]
    /\ draft = [p \in Processes |-> [registry |-> registry, config |-> config, tail |-> FALSE]]
    /\ todo = [p \in Processes |-> <<>>]
    /\ open = [p \in Processes |-> FALSE]
    /\ raced = {} /\ runs = 0

\* The files it reads: the registry must be JSON, the configuration have its
\* blocks (a piece too many at its end does no harm).
Readable == Whole(REGISTRY) /\ CONFIG \notin empty

\* Fault: the name is only looked for among the specs.
MayAddUnread(a) ==
    /\ Spot(a) \notin specs /\ Readable
    /\ a.after # NoCrew => a.after \in Registered(registry) /\ registry.edges # <<>>

\* The spec must not exist, not even empty, the name not be taken, --after be an
\* agent, and the crew have an edge to put the new one before.
MayAdd(a) ==
    /\ Spot(a) \notin specs /\ Readable
    /\ a.name \notin Registered(registry)
    /\ a.after # NoCrew => a.after \in Registered(registry) /\ registry.edges # <<>>

\* patch_registry: the new edge comes first.
PatchRegistry(a) ==
    [agents |-> registry.agents \cup {Spot(a)},
     edges |-> IF a.after = NoCrew THEN registry.edges
               ELSE <<<<a.after, a.name>>>> \o registry.edges]

\* Fault: the configuration is only written for a crew.
FilesToWriteShort(a) ==
    IF a.name \in config \cup OtherKeys \/ a.after = NoCrew
    THEN <<"spec", "registry", "evals">>
    ELSE <<"spec", "registry", "config", "evals">>

\* The configuration is left alone when it knows the name, as whatever key.
FilesToWrite(a) ==
    IF a.name \in config \cup OtherKeys THEN <<"spec", "registry", "evals">>
    ELSE <<"spec", "registry", "config", "evals">>

Running == {p \in Processes : pc[p] = "apply"}

\* build_changes; a refused one has changed nothing.
Build(p, a) ==
    /\ pc[p] # "apply" /\ runs < MaxRuns
    /\ runs' = runs + 1
    /\ MayAdd(a)
    /\ args' = [args EXCEPT ![p] = a]
    /\ draft' = [draft EXCEPT ![p] = [registry |-> PatchRegistry(a),
                                      config |-> config \cup {a.name},
                                      tail |-> CONFIG \in mixed]]
    /\ todo' = [todo EXCEPT ![p] = FilesToWrite(a)]
    /\ pc' = [pc EXCEPT ![p] = "apply"]
    /\ raced' = IF Running = {} THEN raced \ {p} ELSE raced \cup Running \cup {p}
    /\ UNCHANGED <<files, open>>

\* The file a scaffold writes next.
Target(p) == Place(Head(todo[p]), args[p])

\* Change.apply: write_text opens the file, which empties or creates it ...
Empty(p) ==
    /\ pc[p] = "apply" /\ todo[p] # <<>> /\ ~open[p]
    /\ open' = [open EXCEPT ![p] = TRUE]
    /\ empty' = empty \cup {Target(p)} /\ mixed' = mixed \ {Target(p)}
    /\ specs' = IF Head(todo[p]) = "spec" THEN specs \cup {Spot(args[p])} ELSE specs
    /\ evals' = IF Head(todo[p]) = "evals" THEN evals \cup {args[p].name} ELSE evals
    /\ UNCHANGED <<registry, config, pc, args, draft, todo, raced, runs>>

\* ... and fills it from the start.  Where another one has filled it in between
\* with a longer text, the end of that stays.
Fill(p) ==
    LET is(file) == Head(todo[p]) = file
        kept == IF is("config") /\ draft[p].tail THEN {CONFIG} ELSE {}
    IN /\ open[p]
       /\ registry' = IF is("registry") THEN draft[p].registry ELSE registry
       /\ config' = IF is("config") THEN draft[p].config ELSE config
       /\ empty' = empty \ {Target(p)}
       /\ \/ mixed' = (mixed \ {Target(p)}) \cup kept
          \/ Target(p) \notin empty /\ mixed' = mixed \cup {Target(p)}
       /\ open' = [open EXCEPT ![p] = FALSE]
       /\ todo' = [todo EXCEPT ![p] = Tail(@)]
       /\ UNCHANGED <<specs, evals, pc, args, draft, raced, runs>>

\* The validators' exit codes, of the registry and of the eval set, are the
\* scaffold's.
Check(p) ==
    /\ pc[p] = "apply" /\ todo[p] = <<>>
    /\ pc' = [pc EXCEPT ![p] = IF ValidRegistry /\ Whole(Place("evals", args[p]))
                               THEN "done" ELSE "failed"]
    /\ UNCHANGED <<files, args, draft, todo, open, raced, runs>>

\* Fault: what was to be written is still to be written.
KillLate(p) ==
    /\ pc[p] = "apply"
    /\ pc' = [pc EXCEPT ![p] = "killed"]
    /\ open' = [open EXCEPT ![p] = FALSE]
    /\ UNCHANGED <<files, args, draft, todo, raced, runs>>

Kill(p) ==
    /\ pc[p] = "apply"
    /\ pc' = [pc EXCEPT ![p] = "killed"]
    /\ todo' = [todo EXCEPT ![p] = <<>>]
    /\ open' = [open EXCEPT ![p] = FALSE]
    /\ UNCHANGED <<files, args, draft, raced, runs>>

Next ==
    \E p \in Processes :
        \/ \E a \in CommandLines : Build(p, a)
        \/ Empty(p) \/ Fill(p) \/ Check(p) \/ Kill(p)

Spec == Init /\ [][Next]_vars

-----------------------------------------------------------------------------
(* Properties                                                              *)

\* Every variable stays in its range, and only a running scaffold has work and a
\* file open.
TypeOK ==
    /\ specs \subseteq Roles \X Agents
    /\ registry \in Registries
    /\ config \subseteq Agents /\ evals \subseteq Agents
    /\ empty \cup mixed \subseteq
           {Place(file, a) : file \in Files, a \in CommandLines \cup {NoAgent}}
    /\ pc \in [Processes -> {"idle", "apply", "done", "failed", "killed"}]
    /\ args \in [Processes -> CommandLines \cup {NoAgent}]
    /\ draft \in [Processes ->
                     [registry : Registries, config : SUBSET Agents, tail : BOOLEAN]]
    /\ todo \in [Processes -> Seq(Files)]
    /\ open \in [Processes -> BOOLEAN]
    /\ \A p \in Processes : /\ todo[p] # <<>> => pc[p] = "apply"
                            /\ open[p] => todo[p] # <<>>
    /\ raced \subseteq Processes /\ runs \in 0..MaxRuns

\* Where the edges from some agents lead.
Along(edges, from) == {edge[2] : edge \in {e \in ToSet(edges) : e[1] \in from}}

\* The agents that a way of n edges from the entry ends at.
EndsOfWays(reg) ==
    LET at[n \in 0..Cardinality(Registered(reg))] ==
            IF n = 0 THEN {Entry}
            ELSE LET before == at[n - 1] IN Along(reg.edges, before)
    IN at

LongestWays(reg) ==
    LET ends == EndsOfWays(reg)
    IN [a \in Registered(reg) |-> Max({n \in DOMAIN ends : a \in ends[n]} \cup {0})]

\* The registry can be read except while a scaffold writes it, and for good after
\* one was killed or several overlapped (no scaffold starts on it then).
Spoilt ==
    \/ \E p \in Processes : pc[p] = "apply" /\ open[p] /\ Target(p) = REGISTRY
    \/ \E p \in Processes : pc[p] = "killed" \/ p \in raced

\* Whatever was killed or overwritten, a registry that can be read validates (a
\* spec is there before its entry, an edge joins agents of the same text), and the
\* rounds of the feed collector settle on it, for its crew has no cycle: each
\* agent's wave is the length of the longest way to it.
RegistryHolds ==
    IF Whole(REGISTRY)
    THEN /\ ValidRegistry /\ OneEntryEach(registry) /\ Acyclic(registry)
         /\ LET depth == Depths(registry) IN Deepen(registry.edges, depth) = depth
         /\ Waves(registry) = LongestWays(registry)
    ELSE Spoilt

\* An agent is in a registry's text, with its edge.
Holds(reg, a) ==
    /\ Spot(a) \in reg.agents
    /\ a.after # NoCrew => <<a.after, a.name>> \in ToSet(reg.edges)

\* A scaffold that no other one overlapped ends with success unless it is killed,
\* and leaves a complete agent: its spec, its evals, its entry and edge, and its
\* whitelist unless its name was a key of something else.  Whatever runs, races or
\* is killed afterwards, the spec and the evals stay, and the entry, the edge and
\* the whitelist are in the registry and the configuration whenever these are
\* whole.  (One that was overlapped may find its entry overwritten; a killed one
\* leaves a spec that makes its second try be refused.)
AloneIsComplete ==
    \A p \in Processes \ raced :
        /\ pc[p] # "failed"
        /\ pc[p] = "done" =>
            /\ Spot(args[p]) \in specs /\ Whole(Place("spec", args[p]))
            /\ args[p].name \in evals /\ Whole(Place("evals", args[p]))
            /\ Whole(REGISTRY) => Holds(registry, args[p])
            /\ Whole(CONFIG) => args[p].name \in config \cup OtherKeys
=============================================================================
