------------------------------ MODULE Pipeline ------------------------------
(***************************************************************************)
(* DrosEngine::process of src/lib.rs: the weaver finds the terms of a      *)
(* text, the navigator collects the neighbours of the nodes found          *)
(* (src/navigator.rs) and the guard compiles the prompt (src/guard.rs).    *)
(*                                                                         *)
(* The prompt is a record of what each section lists; wording is left out. *)
(* Weights are integers, in units small enough for the decayed ones.       *)
(***************************************************************************)
EXTENDS Weaver

CONSTANTS
  Modes,   \* "vajra", "prajna" and any other string
  Decays   \* decay factors

ASSUME PipelineAssumption == Modes \subseteq STRING /\ Decays \subseteq Nat

VARIABLES
  stage,         \* idle, weaving, navigating, listing or done
  mode, decay,   \* arguments of process
  m, s,          \* the loops' match and synapse
  neighbor_map,  \* node id -> neighbour
  active,        \* active_neighbors
  core,          \* the core nodes listed so far; its elements are seen_core_ids
  prompt

callVars == <<mode, decay>>
navVars == <<m, s, neighbor_map, active>>
vars == <<weaverVars, stage, callVars, navVars, core, prompt>>

NoPrompt == [core |-> <<>>, neighbours |-> {}, contract |-> "none"]

Init ==
  /\ WeaverInit
  /\ stage = "idle"
  /\ mode = "none" /\ decay = 0
  /\ m = 1 /\ s = 1 /\ neighbor_map = EmptyMap /\ active = <<>>
  /\ core = <<>> /\ prompt = NoPrompt

\* DrosEngine::new
NewEngine ==
  /\ (\E mf \in Manifests : NewWeaver(mf)) \/ (\E n \in pending : InsertNode(n)) \/ TrieBuilt
  /\ UNCHANGED <<stage, callVars, navVars, core, prompt>>

Process(t, mo, d) ==
  /\ stage = "idle"
  /\ Weave(t)
  /\ stage' = "weaving"
  /\ mode' = mo /\ decay' = d
  /\ UNCHANGED <<navVars, core, prompt>>

WeaveOn ==
  /\ stage = "weaving"
  /\ WeaveStep
  /\ UNCHANGED <<stage, callVars, navVars, core, prompt>>

StartNavigating ==
  /\ stage = "weaving" /\ phase = "woven"
  /\ stage' = "navigating"
  /\ UNCHANGED <<weaverVars, callVars, navVars, core, prompt>>

-----------------------------------------------------------------------------
(* DrosNavigator::navigate. *)

core_node_ids == {x.node_id : x \in Range(matches)}

Synapses(k) == node_map[matches[k].node_id].synapses

\* Mutants: the target need not be a node; the last weight replaces the sum.
AnyTarget(t) == t \notin core_node_ids
LastWeight(t, w) == w

IsNeighbour(t) == t \notin core_node_ids /\ t \in DOMAIN node_map
AddedWeight(t, w) == neighbor_map[t].weight + w

Accumulate ==
  /\ stage = "navigating"
  /\ m <= Len(matches) /\ s <= Len(Synapses(m))
  /\ LET syn == Synapses(m)[s]
         t == syn.target
         w == syn.weight * decay
     IN  neighbor_map' =
           IF ~ IsNeighbour(t) THEN neighbor_map
           ELSE IF t \in DOMAIN neighbor_map
             THEN [neighbor_map EXCEPT ![t].weight = AddedWeight(t, w)]
             ELSE [x \in DOMAIN neighbor_map \cup {t} |->
                     IF x = t
                       THEN [node_id |-> t, relation |-> syn.relation,
                             source_node_id |-> matches[m].node_id, weight |-> w]
                       ELSE neighbor_map[x]]
  /\ s' = s + 1
  /\ UNCHANGED <<weaverVars, stage, callVars, m, active, core, prompt>>

NextMatch ==
  /\ stage = "navigating"
  /\ m <= Len(matches) /\ s > Len(Synapses(m))
  /\ m' = m + 1 /\ s' = 1
  /\ UNCHANGED <<weaverVars, stage, callVars, neighbor_map, active, core, prompt>>

Descending(list) ==
  \A k, l \in DOMAIN list : k < l => list[k].weight >= list[l].weight

\* into_values yields the entries in any order, and the sort is stable.
SortNeighbours ==
  /\ stage = "navigating" /\ m > Len(matches)
  /\ \E list \in SetToSeqs(Range(neighbor_map)) :
       Descending(list) /\ active' = list
  /\ stage' = "listing" /\ m' = 1
  /\ UNCHANGED <<weaverVars, callVars, s, neighbor_map, core, prompt>>

-----------------------------------------------------------------------------
(* DrosGuardVM::compile. *)

\* Mutant: every match is listed.
ListAgain(n) == Append(core, n)

Listed(n) == IF n \in Range(core) THEN core ELSE Append(core, n)

ListCore ==
  /\ stage = "listing" /\ m <= Len(matches)
  /\ core' = Listed(matches[m].node_id)
  /\ m' = m + 1
  /\ UNCHANGED <<weaverVars, stage, callVars, s, neighbor_map, active, prompt>>

\* The section of the neighbours: Option, a set of at most one list.
NeighbourSection == IF mode = "prajna" THEN {active} ELSE {}

Compile ==
  /\ stage = "listing" /\ m > Len(matches)
  /\ prompt' = [core       |-> core,
                neighbours |-> NeighbourSection,
                contract   |-> IF mode = "vajra" THEN "vajra" ELSE "prajna"]
  /\ stage' = "done"
  /\ UNCHANGED <<weaverVars, callVars, navVars, core>>

\* The caller has its DrosProcessResult.
Return ==
  /\ stage = "done"
  /\ stage' = "idle" /\ phase' = "idle"
  /\ text' = <<>> /\ matches' = <<>> /\ i' = 0 /\ j' = 0 /\ longest' = 0
  /\ mode' = "none" /\ decay' = 0
  /\ m' = 1 /\ s' = 1 /\ neighbor_map' = EmptyMap /\ active' = <<>>
  /\ core' = <<>> /\ prompt' = NoPrompt
  /\ UNCHANGED engineVars

\* What the thread inside process does next.
Step ==
  \/ WeaveOn \/ StartNavigating \/ Accumulate \/ NextMatch \/ SortNeighbours
  \/ ListCore \/ Compile \/ Return

Next ==
  \/ NewEngine
  \/ \E t \in Texts, mo \in Modes, d \in Decays : Process(t, mo, d)
  \/ Step

Spec == Init /\ [][Next]_vars

\* The thread that called process keeps running; nobody has to call.
FairSpec == Spec /\ WF_vars(Step)

-----------------------------------------------------------------------------
(***************************************************************************)
(* Properties.                                                             *)
(***************************************************************************)

ActiveNeighbor == [node_id : String, relation : STRING,
                   source_node_id : String, weight : Nat]

\* Types; every id the navigator and the guard hold is a node of the manifest,
\* so that no get_node of them is None.
TypeOK ==
  /\ WeaverTypeOK
  /\ stage \in {"idle", "weaving", "navigating", "listing", "done"}
  /\ stage \in {"navigating", "listing", "done"} => phase = "woven"
  /\ mode \in Modes \cup {"none"} /\ decay \in Nat
  /\ m \in 1 .. Len(matches) + 1 /\ s \in Nat \ {0}
  /\ DOMAIN neighbor_map \subseteq DOMAIN node_map
  /\ \A n \in DOMAIN neighbor_map : /\ neighbor_map[n] \in ActiveNeighbor
                                    /\ neighbor_map[n].node_id = n
  /\ active \in Seq(Range(neighbor_map))
  /\ core \in Seq(DOMAIN node_map)
  /\ prompt.core \in Seq(DOMAIN node_map)
  /\ prompt.neighbours \subseteq {active}
  /\ prompt.contract \in {"none", "vajra", "prajna"}

\* Where a neighbour is found: at match x[1], synapse x[2].
Places == UNION {{<<k, l>> : l \in DOMAIN Synapses(k)} : k \in DOMAIN matches}
SynapseAt(x) == Synapses(x[1])[x[2]]
Weights == [x \in Places |-> SynapseAt(x).weight]
Discoveries(t) == {x \in Places : SynapseAt(x).target = t}

First(places) ==
  CHOOSE x \in places :
    \A y \in places : x[1] < y[1] \/ (x[1] = y[1] /\ x[2] <= y[2])

\* The neighbours are the nodes a matched node points to and that no match
\* names; each weighs the decayed sum over every match that points to it, and
\* keeps the relation and the source of the first (lines 21-48).
ResonanceExact ==
  stage \in {"listing", "done"} =>
    /\ DOMAIN neighbor_map =
         {t \in DOMAIN node_map \ core_node_ids : Discoveries(t) # {}}
    /\ \A t \in DOMAIN neighbor_map :
         LET first == First(Discoveries(t))
         IN  /\ neighbor_map[t].weight =
                  decay * SumFunctionOnSet(Weights, Discoveries(t))
             /\ neighbor_map[t].relation = SynapseAt(first).relation
             /\ neighbor_map[t].source_node_id = matches[first[1]].node_id

FirstMatch(n) == Min({k \in DOMAIN matches : matches[k].node_id = n})

\* The prompt rests on the text: its core list is the matched nodes, once each
\* in the order of their first match; neighbours are listed in prajna mode
\* only, strongest first, none of them a core node, each with a relation that a
\* listed core node has to it.
PromptGrounded ==
  stage = "done" =>
    /\ Range(prompt.core) = core_node_ids
    /\ \A k, l \in DOMAIN prompt.core :
         k < l => FirstMatch(prompt.core[k]) < FirstMatch(prompt.core[l])
    /\ (prompt.neighbours # {}) <=> (mode = "prajna")
    /\ \A list \in prompt.neighbours, k \in 1 .. Len(active) :
         LET n == list[k]
         IN  /\ n.node_id \notin Range(prompt.core)
             /\ n.source_node_id \in Range(prompt.core)
             /\ \E syn \in Range(node_map[n.source_node_id].synapses) :
                  syn.target = n.node_id /\ syn.relation = n.relation
             /\ k > 1 => n.weight <= list[k - 1].weight
    /\ prompt.contract = "vajra" => prompt.neighbours = {}

\* Every call of process comes back with a prompt: none of the loops of lines
\* 74 and 97 (weaver), 21 (navigator) and 29 (guard) runs for ever.
ProcessReturns == (stage = "weaving") ~> (stage = "done")

=============================================================================
