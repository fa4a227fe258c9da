--------------------------- MODULE PipelineProofs ---------------------------
(***************************************************************************)
(* Proofs about DrosEngine::process, for every manifest, text, mode and    *)
(* decay: the weaver's part comes from WeaverProofs, and the navigator and *)
(* the guard start from matches that no longer change.                     *)
(***************************************************************************)
EXTENDS Pipeline, WeaverProofs

-----------------------------------------------------------------------------
(* The sum of a function over a finite set.  The library takes the elements  *)
(* out in an order of its own; the sum does not depend on it.                *)

\* Induction over numbers, for a set of them: its complement has no least one.
LEMMA AllNumbers ==
  ASSUME NEW T \in SUBSET Nat, 0 \in T, \A n \in T : n + 1 \in T
  PROVE  T = Nat
<1>. SUFFICES ASSUME Nat \ T # {} PROVE FALSE
  OBVIOUS
<1>1. PICK x \in Nat \ T : \A y \in Nat \ T : x <= y
  BY MinOf
<1>2. x - 1 \in T
  BY <1>1
<1>. QED BY <1>1, <1>2

Some(u) == CHOOSE x \in u : TRUE
Rest(u) == u \ {Some(u)}

\* g[u] is what a fold over u adds up.
Adds(W, S, g) ==
  \A u \in SUBSET S : g[u] = IF u = {} THEN 0 ELSE W[Some(u)] + g[Rest(u)]

\* g is the function that a fold over S is defined by.
Folding(W, S, g) ==
  g = [u \in SUBSET S |-> IF u = {} THEN 0 ELSE W[Some(u)] + g[Rest(u)]]

LEMMA Removing ==
  ASSUME NEW S, IsFiniteSet(S), NEW u \in SUBSET S
  PROVE  /\ IsFiniteSet(u) /\ Cardinality(u) \in Nat /\ (Cardinality(u) = 0 <=> u = {})
         /\ \A x \in u : u \ {x} \in SUBSET S /\ Cardinality(u \ {x}) = Cardinality(u) - 1
         /\ u # {} => Some(u) \in u
<1>1. IsFiniteSet(u)
  BY FS_Subset
<1>. QED BY <1>1, FS_CardinalityType, FS_EmptySet, FS_RemoveElement DEF Some

LEMMA AddingExists ==
  ASSUME NEW W, NEW S, IsFiniteSet(S)
  PROVE  \E g : Folding(W, S, g)
<1>. DEFINE Body(g, u) == IF u = {} THEN 0 ELSE W[Some(u)] + g[Rest(u)]
            Upto(g, n) == \A u \in SUBSET S : Cardinality(u) <= n => g[u] = Body(g, u)
            T == {n \in Nat : \E g : Upto(g, n)}
<1>1. 0 \in T
  <2>. DEFINE g == [u \in SUBSET S |-> 0]
  <2>1. Upto(g, 0)
    BY Removing
  <2>. QED BY <2>1
<1>2. ASSUME NEW n \in T PROVE n + 1 \in T
  <2>1. PICK g : Upto(g, n)
    BY <1>2
  <2>2. PICK h : h = [u \in SUBSET S |-> Body(g, u)]
    OBVIOUS
  <2>3. ASSUME NEW u \in SUBSET S, Cardinality(u) <= n PROVE h[u] = g[u]
    BY <2>1, <2>2, <2>3
  <2>4. ASSUME NEW u \in SUBSET S, Cardinality(u) <= n + 1 PROVE h[u] = Body(h, u)
    <3>1. CASE u = {}
      BY <2>2, <3>1
    <3>2. CASE u # {}
      <4>1. Rest(u) \in SUBSET S /\ Cardinality(Rest(u)) <= n
        BY <1>2, <2>4, <3>2, Removing DEF Rest
      <4>2. h[Rest(u)] = g[Rest(u)]
        BY <2>3, <4>1
      <4>. QED BY <2>2, <3>2, <4>2
    <3>. QED BY <3>1, <3>2
  <2>5. Upto(h, n + 1)
    BY <2>4
  <2>. QED BY <1>2, <2>5
<1>3. Cardinality(S) \in T
  <2>. HIDE DEF T
  <2>1. T = Nat
    <3>1. T \subseteq Nat
      BY DEF T
    <3>. QED BY <1>1, <1>2, <3>1, AllNumbers
  <2>. QED BY <2>1, Removing
<1>4. PICK g : Upto(g, Cardinality(S))
  BY <1>3
<1>5. ASSUME NEW u \in SUBSET S PROVE g[u] = Body(g, u)
  <2>1. Cardinality(u) <= Cardinality(S)
    BY FS_Subset
  <2>. QED BY <1>4, <2>1
<1>6. PICK h : h = [u \in SUBSET S |-> g[u]]
  OBVIOUS
<1>7. ASSUME NEW u \in SUBSET S PROVE h[u] = Body(h, u)
  <2>1. u # {} => Rest(u) \in SUBSET S
    BY DEF Rest
  <2>. QED BY <1>5, <1>6, <2>1
<1>8. h = [u \in SUBSET S |-> Body(h, u)]
  BY <1>6, <1>7
<1>. QED BY <1>8 DEF Folding

LEMMA SumAdds ==
  ASSUME NEW W, NEW S, IsFiniteSet(S)
  PROVE  \E g : Adds(W, S, g) /\ SumFunctionOnSet(W, S) = g[S]
<1>. DEFINE iter == CHOOSE g : Folding(W, S, g)
<1>1. Folding(W, S, iter)
  BY AddingExists
<1>2. SumFunctionOnSet(W, S) = iter[S]
  BY DEF SumFunctionOnSet, FoldFunctionOnSet, MapThenFoldSet, Folding, Some, Rest
<1>. HIDE DEF iter
<1>3. Adds(W, S, iter)
  BY <1>1 DEF Adds, Folding
<1>. QED BY <1>2, <1>3

\* Whichever element is taken out first, the sum is the same.
LEMMA AnyOrder ==
  ASSUME NEW W, NEW S, NEW g, IsFiniteSet(S), Adds(W, S, g), \A x \in S : W[x] \in Nat
  PROVE  \A u \in SUBSET S :
           g[u] \in Nat /\ \A x \in u : g[u \ {x}] \in Nat /\ g[u] = g[u \ {x}] + W[x]
<1>. DEFINE Fine(u) ==
              g[u] \in Nat /\ \A x \in u : g[u \ {x}] \in Nat /\ g[u] = g[u \ {x}] + W[x]
            T == {n \in Nat : \A u \in SUBSET S : Cardinality(u) = n => Fine(u)}
<1>1. 0 \in T
  <2>1. Fine({})
    BY DEF Adds
  <2>. QED BY <2>1, Removing
<1>2. ASSUME NEW n \in T PROVE n + 1 \in T
  <2>1. SUFFICES ASSUME NEW u \in SUBSET S, Cardinality(u) = n + 1 PROVE Fine(u)
    BY <1>2
  <2>2. n \in Nat /\ u # {}
    BY <1>2, <2>1, Removing
  <2>3. PICK c \in u : c = Some(u)
    BY <2>2, Removing
  <2>4. g[u] = W[c] + g[u \ {c}]
    BY <2>2, <2>3 DEF Adds, Rest
  <2>5. \A x \in u : u \ {x} \in SUBSET S /\ Cardinality(u \ {x}) = n
    <3>1. \A x \in u : u \ {x} \in SUBSET S /\ Cardinality(u \ {x}) = Cardinality(u) - 1
      BY Removing
    <3>. QED BY <2>1, <2>2, <3>1
  <2>6. \A x \in u : Fine(u \ {x})
    BY <1>2, <2>5
  <2>7. \A x \in u : W[x] \in Nat
    OBVIOUS
  <2>8. g[u] \in Nat
    <3>1. g[u \ {c}] \in Nat /\ W[c] \in Nat
      BY <2>6, <2>7
    <3>. QED BY <2>4, <3>1
  <2>9. ASSUME NEW x \in u, x # c PROVE g[u] = g[u \ {x}] + W[x]
    <3>1. (u \ {c}) \ {x} = (u \ {x}) \ {c}
      OBVIOUS
    <3>2. PICK r : r = (u \ {c}) \ {x}
      OBVIOUS
    <3>3. /\ g[u \ {c}] = g[r] + W[x]
          /\ g[u \ {x}] = g[r] + W[c]
      BY <2>6, <2>9, <3>1, <3>2
    <3>4. g[r] \in Nat
      BY <2>6, <2>9, <3>2
    <3>. QED BY <2>4, <2>7, <3>3, <3>4
  <2>10. g[u] = g[u \ {c}] + W[c]
    <3>1. g[u \ {c}] \in Nat /\ W[c] \in Nat
      BY <2>6, <2>7
    <3>. QED BY <2>4, <3>1
  <2>11. \A x \in u : g[u \ {x}] \in Nat
    BY <2>6
  <2>. QED BY <2>8, <2>9, <2>10, <2>11
<1>3. T = Nat
  <2>. HIDE DEF T
  <2>1. T \subseteq Nat
    BY DEF T
  <2>. QED BY <1>1, <1>2, <2>1, AllNumbers
<1>4. ASSUME NEW u \in SUBSET S PROVE Fine(u)
  <2>1. Cardinality(u) \in T
    BY <1>3, Removing
  <2>. QED BY <2>1
<1>. QED BY <1>4

\* A fold over a part of a set adds up what the fold over the whole does.
LEMMA SameSums ==
  ASSUME NEW W, NEW S, IsFiniteSet(S), NEW R \in SUBSET S,
         NEW g, Adds(W, S, g), NEW h, Adds(W, R, h)
  PROVE  h[R] = g[R]
<1>. DEFINE T == {n \in Nat : \A u \in SUBSET R : Cardinality(u) = n => h[u] = g[u]}
<1>1. 0 \in T
  BY Removing DEF Adds
<1>2. ASSUME NEW n \in T PROVE n + 1 \in T
  <2>1. SUFFICES ASSUME NEW u \in SUBSET R, Cardinality(u) = n + 1 PROVE h[u] = g[u]
    BY <1>2
  <2>2. u # {} /\ Rest(u) \in SUBSET R /\ Cardinality(Rest(u)) = n
    BY <1>2, <2>1, Removing DEF Rest
  <2>3. h[Rest(u)] = g[Rest(u)]
    BY <1>2, <2>2
  <2>. QED BY <2>2, <2>3 DEF Adds
<1>3. T = Nat
  <2>. HIDE DEF T
  <2>1. T \subseteq Nat
    BY DEF T
  <2>. QED BY <1>1, <1>2, <2>1, AllNumbers
<1>4. Cardinality(R) \in T
  BY <1>3, Removing
<1>. QED BY <1>4

LEMMA SumOfNone == ASSUME NEW W PROVE SumFunctionOnSet(W, {}) = 0
BY SumAdds, FS_EmptySet DEF Adds

LEMMA SumOfOneMore ==
  ASSUME NEW W, NEW S, IsFiniteSet(S), NEW x, x \notin S, \A y \in S \cup {x} : W[y] \in Nat
  PROVE  /\ SumFunctionOnSet(W, S) \in Nat
         /\ SumFunctionOnSet(W, S \cup {x}) = SumFunctionOnSet(W, S) + W[x]
<1>1. PICK R : R = S \cup {x}
  OBVIOUS
<1>2. IsFiniteSet(R) /\ S \in SUBSET R /\ R \ {x} = S /\ x \in R
  BY <1>1, FS_AddElement
<1>3. PICK g : Adds(W, R, g) /\ SumFunctionOnSet(W, R) = g[R]
  BY <1>2, SumAdds
<1>4. PICK h : Adds(W, S, h) /\ SumFunctionOnSet(W, S) = h[S]
  BY SumAdds
<1>5. h[S] = g[S]
  BY <1>2, <1>3, <1>4, SameSums
<1>6. g[S] \in Nat /\ g[R] = g[S] + W[x]
  <2>1. \A y \in R : W[y] \in Nat
    BY <1>1
  <2>2. \A u \in SUBSET R :
          g[u] \in Nat /\ \A y \in u : g[u \ {y}] \in Nat /\ g[u] = g[u \ {y}] + W[y]
    <3>. HIDE <1>1
    <3>1. IsFiniteSet(R) /\ Adds(W, R, g)
      BY <1>2, <1>3
    <3>. QED BY <2>1, <3>1, AnyOrder
  <2>3. R \in SUBSET R
    OBVIOUS
  <2>. QED BY <1>2, <2>2, <2>3
<1>. QED BY <1>1, <1>3, <1>4, <1>5, <1>6

-----------------------------------------------------------------------------
(* The invariant of the pipeline. *)

\* Each stage starts from what the one before has left, and with nothing of its own.
StagesOK ==
  /\ stage = "idle" => phase \in {"none", "building", "idle"}
  /\ stage = "weaving" => phase \in {"coordinates", "scanning", "woven"}
  /\ stage \in {"idle", "weaving"} => neighbor_map = EmptyMap /\ m = 1 /\ s = 1
  /\ stage \in {"idle", "weaving", "navigating"} => active = <<>> /\ core = <<>>
  /\ stage # "done" => prompt = NoPrompt
  /\ stage = "done" =>
       /\ m = Len(matches) + 1
       /\ prompt = [core       |-> core,
                    neighbours |-> NeighbourSection,
                    contract   |-> IF mode = "vajra" THEN "vajra" ELSE "prajna"]

\* A neighbour is no core node, and a core node has the relation to it.
Related(n) ==
  /\ n.node_id \notin core_node_ids
  /\ n.source_node_id \in core_node_ids
  /\ \E syn \in Range(node_map[n.source_node_id].synapses) :
       syn.target = n.node_id /\ syn.relation = n.relation
Grounded == \A n \in DOMAIN neighbor_map : Related(neighbor_map[n])

\* The guard has listed the nodes of the matches before m, in the order in which
\* they were first matched.
CoreOK ==
  stage \in {"listing", "done"} =>
    /\ Range(core) = {matches[k].node_id : k \in 1 .. m - 1}
    /\ \A k, l \in DOMAIN core : k < l => FirstMatch(core[k]) < FirstMatch(core[l])

\* The sort has something to sort: neighbours are found one at a time.
FewNeighbours == IsFiniteSet(DOMAIN neighbor_map)

Inv ==
  /\ WeaverInv
  /\ TypeOK /\ StagesOK
  /\ FewNeighbours /\ Grounded /\ Descending(active)
  /\ CoreOK

-----------------------------------------------------------------------------
(* Until the text is woven: the weaver works and the others have nothing. *)

Blank ==
  /\ stage \in {"idle", "weaving"}
  /\ stage = "idle" => phase \in {"none", "building", "idle"}
  /\ stage = "weaving" => phase \in {"coordinates", "scanning", "woven"}
  /\ mode \in Modes \cup {"none"} /\ decay \in Nat
  /\ neighbor_map = EmptyMap /\ m = 1 /\ s = 1 /\ active = <<>>
  /\ core = <<>> /\ prompt = NoPrompt

LEMMA BlankHolds == WeaverInv /\ Blank => Inv
<1>. SUFFICES ASSUME WeaverInv, Blank PROVE Inv
  OBVIOUS
<1>1. DOMAIN neighbor_map = {}
  BY DEF Blank, EmptyMap
<1>2. /\ active \in Seq(Range(neighbor_map)) /\ core \in Seq(DOMAIN node_map)
      /\ DOMAIN active = {} /\ prompt.core \in Seq(DOMAIN node_map)
      /\ prompt.neighbours = {} /\ prompt.contract = "none"
  BY EmptySeq DEF Blank, NoPrompt
<1>3. WeaverTypeOK /\ Len(matches) \in Nat
  BY LenProperties DEF WeaverInv, Shape, WeaverTypeOK
<1>4. TypeOK
  BY <1>1, <1>2, <1>3 DEF TypeOK, Blank
<1>5. StagesOK /\ CoreOK
  BY DEF Blank, StagesOK, CoreOK
<1>6. FewNeighbours /\ Grounded /\ Descending(active)
  BY <1>1, <1>2, FS_EmptySet DEF FewNeighbours, Grounded, Descending
<1>. QED BY <1>4, <1>5, <1>6 DEF Inv

LEMMA BlankHoldsNext == WeaverInv' /\ Blank' => Inv'
<1>1. (WeaverInv /\ Blank => Inv)'
  BY BlankHolds, PTL
<1>. QED BY <1>1

LEMMA InitHolds == Init => Inv
<1>1. WeaverInit => WeaverInv
  BY InitShape, NothingMatched DEF WeaverInit, Idle
<1>2. Init => Blank
  BY DEF Init, Blank, WeaverInit
<1>. QED BY <1>1, <1>2, BlankHolds DEF Init

LEMMA StillBlank ==
  ASSUME Inv, stage \in {"idle", "weaving"}
  PROVE  Blank
BY DEF Inv, TypeOK, StagesOK, Blank

LEMMA NewEngineHolds ==
  ASSUME Inv, NewEngine
  PROVE  Inv'
<1>1. phase \in {"none", "building"} /\ phase' \in {"building", "idle"}
  BY DEF NewEngine, NewWeaver, InsertNode, TrieBuilt
<1>2. stage = "idle"
  BY <1>1 DEF Inv, TypeOK, StagesOK
<1>3. WeaverInv'
  BY NewEngineKeeps DEF NewEngine, Inv
<1>4. Blank'
  BY <1>1, <1>2, StillBlank DEF NewEngine, Blank, callVars, navVars
<1>. QED BY <1>3, <1>4, BlankHoldsNext

LEMMA ProcessHolds ==
  ASSUME Inv, NEW t \in Texts, NEW mo \in Modes, NEW d \in Decays, Process(t, mo, d)
  PROVE  Inv'
<1>1. WeaverInv'
  BY WeaveKeeps DEF Process, Inv, WeaverInv
<1>2. Blank'
  BY StillBlank, PipelineAssumption DEF Process, Weave, Blank, navVars
<1>. QED BY <1>1, <1>2, BlankHoldsNext

LEMMA WeaveOnHolds ==
  ASSUME Inv, WeaveOn
  PROVE  Inv'
<1>1. WeaverInv'
  BY WeaveStepKeeps DEF WeaveOn, Inv
<1>2. phase' \in {"coordinates", "scanning", "woven"}
  BY DEF WeaveOn, WeaveStep, NextCoordinate, CoordinatesDone, Follow, EndRound, FinishWeave
<1>3. Blank'
  BY <1>2, StillBlank DEF WeaveOn, Blank, callVars, navVars
<1>. QED BY <1>1, <1>3, BlankHoldsNext

LEMMA ReturnHolds ==
  ASSUME Inv, Return
  PROVE  Inv'
<1>1. phase = "woven"
  BY DEF Inv, TypeOK, Return
<1>2. Shape'
  BY <1>1, ForgetShape DEF Inv, WeaverInv, Return
<1>3. WeaverInv'
  BY <1>2, NothingMatchedNext DEF Return, Idle
<1>4. Blank'
  BY DEF Return, Blank
<1>. QED BY <1>3, <1>4, BlankHoldsNext

-----------------------------------------------------------------------------
(* The navigator and the guard, once the text is woven. *)

\* What they read and do not change.
Reading == UNCHANGED <<weaverVars, callVars>>

LEMMA ReadingKeeps ==
  ASSUME Inv, Reading
  PROVE  /\ WeaverInv' /\ WeaverTypeOK'
         /\ UNCHANGED <<node_map, phase, matches, mode, decay>>
         /\ core_node_ids' = core_node_ids
         /\ \A k : Synapses(k)' = Synapses(k)
         /\ \A n : FirstMatch(n)' = FirstMatch(n)
         /\ \A n : Related(n)' <=> Related(n)
<1>1. WeaverInv'
  BY WovenKeeps DEF Inv, Reading
<1>2. WeaverTypeOK'
  BY <1>1 DEF WeaverInv, Shape
<1>3. UNCHANGED <<node_map, phase, matches, mode, decay>>
  BY DEF Reading, weaverVars, engineVars, weaveVars, callVars
<1>4. core_node_ids' = core_node_ids
  BY <1>3 DEF core_node_ids
<1>5. /\ \A k : Synapses(k)' = Synapses(k)
      /\ \A n : FirstMatch(n)' = FirstMatch(n)
      /\ \A n : Related(n)' <=> Related(n)
  BY <1>3, <1>4 DEF Synapses, FirstMatch, Related
<1>. QED BY <1>1, <1>2, <1>3, <1>4, <1>5

LEMMA MatchType ==
  ASSUME Inv, NEW k \in 1 .. Len(matches)
  PROVE  /\ matches[k].node_id \in DOMAIN node_map
         /\ matches[k].node_id \in core_node_ids
         /\ Synapses(k) \in Seq(Synapse)
<1>1. /\ matches \in Seq(DrosMatch) /\ NodeMap(node_map)
      /\ \A x \in Range(matches) : x.node_id \in DOMAIN node_map
  BY DEF Inv, TypeOK, WeaverTypeOK
<1>2. matches[k] \in Range(matches)
  BY <1>1, LenProperties DEF Range
<1>3. matches[k].node_id \in DOMAIN node_map
  BY <1>1, <1>2
<1>4. node_map[matches[k].node_id] \in DrosNode
  BY <1>1, <1>3 DEF NodeMap
<1>5. Synapses(k) \in Seq(Synapse)
  BY <1>4 DEF Synapses, DrosNode
<1>. QED BY <1>2, <1>3, <1>5 DEF core_node_ids

LEMMA StartHolds ==
  ASSUME Inv, StartNavigating
  PROVE  Inv'
<1>1. /\ stage = "weaving" /\ phase = "woven" /\ stage' = "navigating" /\ Reading
      /\ UNCHANGED <<m, s, neighbor_map, active, core, prompt>>
  BY DEF StartNavigating, Reading, navVars
<1>. USE <1>1, ReadingKeeps DEF Inv
<1>2. TypeOK'
  BY DEF TypeOK
<1>3. StagesOK'
  BY DEF StagesOK
<1>4. FewNeighbours' /\ Grounded' /\ Descending(active)' /\ CoreOK'
  BY DEF FewNeighbours, Grounded, Descending, CoreOK
<1>. QED BY <1>2, <1>3, <1>4

LEMMA AccumulateHolds ==
  ASSUME Inv, Accumulate
  PROVE  Inv'
<1>. DEFINE syn == Synapses(m)[s]
            t == syn.target
            w == syn.weight * decay
            new == [node_id |-> t, relation |-> syn.relation,
                    source_node_id |-> matches[m].node_id, weight |-> w]
<1>1. /\ stage = "navigating" /\ Reading
      /\ m <= Len(matches) /\ s <= Len(Synapses(m)) /\ s' = s + 1
      /\ UNCHANGED <<stage, m, active, core, prompt>>
      /\ neighbor_map' =
           IF ~ IsNeighbour(t) THEN neighbor_map
           ELSE IF t \in DOMAIN neighbor_map
             THEN [neighbor_map EXCEPT ![t].weight = AddedWeight(t, w)]
             ELSE [x \in DOMAIN neighbor_map \cup {t} |->
                     IF x = t THEN new ELSE neighbor_map[x]]
  BY DEF Accumulate, Reading
<1>2. m \in 1 .. Len(matches)
  BY <1>1, LenProperties DEF Inv, TypeOK, WeaverTypeOK
<1>3. syn \in Range(Synapses(m)) /\ syn \in Synapse
  <2>1. Synapses(m) \in Seq(Synapse)
    BY <1>2, MatchType
  <2>2. s \in 1 .. Len(Synapses(m))
    BY <1>1, <2>1, LenProperties DEF Inv, TypeOK
  <2>. QED BY <2>1, <2>2, LenProperties, ElementOfSeq DEF Range
<1>4. w \in Nat
  <2>1. syn.weight \in Nat /\ decay \in Nat
    BY <1>3 DEF Synapse, Inv, TypeOK
  <2>. QED BY <2>1
<1>5. t \in String /\ syn.relation \in STRING
  BY <1>3 DEF Synapse
<1>6. /\ new \in ActiveNeighbor /\ new.node_id = t /\ new.relation = syn.relation
      /\ new.source_node_id = matches[m].node_id
  <2>1. matches[m].node_id \in String
    BY <1>2, MatchType DEF Inv, TypeOK, WeaverTypeOK, NodeMap
  <2>. QED BY <1>4, <1>5, <2>1 DEF ActiveNeighbor
<1>7. IsNeighbour(t) => Related(new)
  <2>1. matches[m].node_id \in core_node_ids
    BY <1>2, MatchType
  <2>2. syn \in Range(node_map[new.source_node_id].synapses)
    BY <1>3, <1>6 DEF Synapses
  <2>. QED BY <1>6, <2>1, <2>2 DEF Related, IsNeighbour
<1>. HIDE DEF syn, w, new
<1>8. \A n \in DOMAIN neighbor_map :
        /\ neighbor_map[n] \in ActiveNeighbor /\ neighbor_map[n].node_id = n
        /\ Related(neighbor_map[n])
  BY DEF Inv, TypeOK, Grounded
<1>9. ASSUME IsNeighbour(t), t \in DOMAIN neighbor_map
      PROVE  /\ DOMAIN neighbor_map' = DOMAIN neighbor_map
             /\ \A n \in DOMAIN neighbor_map' :
                  /\ neighbor_map'[n] \in ActiveNeighbor /\ neighbor_map'[n].node_id = n
                  /\ Related(neighbor_map'[n])
  <2>1. neighbor_map' = [neighbor_map EXCEPT ![t] = [@ EXCEPT !.weight = AddedWeight(t, w)]]
    BY <1>1, <1>9
  <2>2. AddedWeight(t, w) \in Nat
    <3>1. neighbor_map[t].weight \in Nat
      BY <1>8, <1>9 DEF ActiveNeighbor
    <3>. QED BY <1>4, <3>1 DEF AddedWeight
  <2>3. ASSUME NEW n \in DOMAIN neighbor_map
        PROVE  /\ neighbor_map'[n] \in ActiveNeighbor /\ neighbor_map'[n].node_id = n
               /\ Related(neighbor_map'[n])
    <3>1. CASE n # t
      BY <1>8, <2>1, <3>1
    <3>2. CASE n = t
      <4>. DEFINE old == neighbor_map[t]
      <4>1. old \in ActiveNeighbor /\ old.node_id = t /\ Related(old)
        BY <1>8, <1>9
      <4>2. neighbor_map'[n] = [old EXCEPT !.weight = AddedWeight(t, w)]
        BY <1>9, <2>1, <3>2
      <4>. HIDE DEF old
      <4>3. /\ neighbor_map'[n] \in ActiveNeighbor
            /\ neighbor_map'[n].node_id = old.node_id
            /\ neighbor_map'[n].relation = old.relation
            /\ neighbor_map'[n].source_node_id = old.source_node_id
        BY <2>2, <4>1, <4>2 DEF ActiveNeighbor
      <4>. QED BY <3>2, <4>1, <4>3 DEF Related
    <3>. QED BY <3>1, <3>2
  <2>. QED BY <2>1, <2>3
<1>10. ASSUME IsNeighbour(t), t \notin DOMAIN neighbor_map
       PROVE  /\ DOMAIN neighbor_map' = DOMAIN neighbor_map \cup {t}
              /\ \A n \in DOMAIN neighbor_map' :
                   /\ neighbor_map'[n] \in ActiveNeighbor /\ neighbor_map'[n].node_id = n
                   /\ Related(neighbor_map'[n])
  BY <1>1, <1>6, <1>7, <1>8, <1>10
<1>11. /\ DOMAIN neighbor_map' = DOMAIN neighbor_map \cup (IF IsNeighbour(t) THEN {t} ELSE {})
       /\ \A n \in DOMAIN neighbor_map' :
            /\ neighbor_map'[n] \in ActiveNeighbor /\ neighbor_map'[n].node_id = n
            /\ Related(neighbor_map'[n])
  <2>1. CASE ~ IsNeighbour(t)
    <3>1. neighbor_map' = neighbor_map
      BY <1>1, <2>1
    <3>. QED BY <1>8, <2>1, <3>1
  <2>2. CASE IsNeighbour(t) /\ t \in DOMAIN neighbor_map
    BY <1>9, <2>2
  <2>3. CASE IsNeighbour(t) /\ t \notin DOMAIN neighbor_map
    BY <1>10, <2>3
  <2>. QED BY <2>1, <2>2, <2>3
<1>. HIDE DEF t
<1>12. active = <<>>
  BY <1>1 DEF Inv, StagesOK
<1>13. TypeOK'
  <2>1. DOMAIN neighbor_map' \subseteq DOMAIN node_map
    BY <1>11 DEF IsNeighbour, Inv, TypeOK
  <2>2. active' \in Seq(Range(neighbor_map'))
    BY <1>1, <1>12, EmptySeq
  <2>3. s' \in Nat \ {0}
    BY <1>1 DEF Inv, TypeOK
  <2>4. /\ WeaverTypeOK' /\ UNCHANGED <<stage, phase, matches, node_map, mode, decay, m, active, core, prompt>>
    BY <1>1, ReadingKeeps
  <2>. QED BY <1>11, <2>1, <2>2, <2>3, <2>4 DEF Inv, TypeOK
<1>14. FewNeighbours'
  BY <1>11, FS_AddElement DEF Inv, FewNeighbours
<1>15. Grounded'
  BY <1>1, <1>11, ReadingKeeps DEF Grounded
<1>16. StagesOK' /\ Descending(active)' /\ CoreOK'
  BY <1>1, ReadingKeeps DEF Inv, StagesOK, Descending, CoreOK
<1>. QED BY <1>1, <1>13, <1>14, <1>15, <1>16, ReadingKeeps DEF Inv

LEMMA NextMatchHolds ==
  ASSUME Inv, NextMatch
  PROVE  Inv'
<1>1. /\ stage = "navigating" /\ Reading /\ m <= Len(matches) /\ m' = m + 1 /\ s' = 1
      /\ UNCHANGED <<stage, neighbor_map, active, core, prompt>>
  BY DEF NextMatch, Reading
<1>. USE <1>1, ReadingKeeps DEF Inv
<1>2. m' \in 1 .. Len(matches') + 1
  BY LenProperties DEF TypeOK, WeaverTypeOK
<1>3. TypeOK'
  BY <1>2 DEF TypeOK
<1>4. StagesOK'
  BY DEF StagesOK
<1>5. FewNeighbours' /\ Grounded' /\ Descending(active)' /\ CoreOK'
  BY DEF FewNeighbours, Grounded, Descending, CoreOK
<1>. QED BY <1>3, <1>4, <1>5

LEMMA NeighboursFinite ==
  ASSUME FewNeighbours
  PROVE  IsFiniteSet(Range(neighbor_map))
<1>. DEFINE f == [n \in DOMAIN neighbor_map |-> neighbor_map[n]]
<1>1. f \in Surjection(DOMAIN neighbor_map, Range(neighbor_map))
  BY DEF Surjection, Range
<1>. QED BY <1>1, FS_Surjection DEF FewNeighbours

LEMMA SortHolds ==
  ASSUME Inv, SortNeighbours
  PROVE  Inv'
<1>1. /\ stage = "navigating" /\ Reading /\ stage' = "listing" /\ m' = 1
      /\ active' \in SetToSeqs(Range(neighbor_map)) /\ Descending(active')
      /\ UNCHANGED <<s, neighbor_map, core, prompt>>
  BY DEF SortNeighbours, Reading
<1>. USE <1>1, ReadingKeeps DEF Inv
<1>2. core = <<>> /\ prompt = NoPrompt
  BY DEF StagesOK
<1>3. active' \in Seq(Range(neighbor_map))
  <2>. DEFINE S == Range(neighbor_map)
  <2>1. Cardinality(S) \in Nat
    BY NeighboursFinite, FS_CardinalityType
  <2>2. active' \in [1 .. Cardinality(S) -> S]
    BY DEF SetToSeqs
  <2>. HIDE DEF S
  <2>3. active' \in Seq(S)
    BY <2>1, <2>2, SeqDef
  <2>. QED BY <2>3 DEF S
<1>4. TypeOK'
  <2>1. m' \in 1 .. Len(matches') + 1
    BY LenProperties DEF TypeOK, WeaverTypeOK
  <2>2. prompt'.neighbours = {} /\ prompt'.core = prompt.core /\ prompt'.contract = prompt.contract
    BY <1>2 DEF NoPrompt
  <2>. QED BY <1>3, <2>1, <2>2 DEF TypeOK
<1>5. StagesOK'
  BY <1>2 DEF StagesOK
<1>6. FewNeighbours' /\ Grounded' /\ Descending(active)'
  BY DEF FewNeighbours, Grounded
<1>7. CoreOK'
  BY <1>2 DEF CoreOK, Range
<1>. QED BY <1>4, <1>5, <1>6, <1>7

\* The node of match m is new to the list exactly if no earlier match names it, and
\* then m is where it is matched first.
LEMMA FirstMatchOf ==
  ASSUME Inv, NEW k \in 1 .. Len(matches)
  PROVE  FirstMatch(matches[k].node_id) <= k /\ FirstMatch(matches[k].node_id) \in Nat
<1>. DEFINE K == {l \in DOMAIN matches : matches[l].node_id = matches[k].node_id}
<1>1. k \in K /\ K \in SUBSET Nat
  BY LenProperties DEF Inv, TypeOK, WeaverTypeOK
<1>2. Min(K) \in K /\ \A y \in K : Min(K) <= y
  BY <1>1, MinOf
<1>3. FirstMatch(matches[k].node_id) = Min(K)
  BY DEF FirstMatch
<1>. HIDE DEF K
<1>. QED BY <1>1, <1>2, <1>3

LEMMA FirstMatchIs ==
  ASSUME Inv, NEW k \in 1 .. Len(matches),
         \A l \in 1 .. k - 1 : matches[l].node_id # matches[k].node_id
  PROVE  FirstMatch(matches[k].node_id) = k
<1>. DEFINE K == {l \in DOMAIN matches : matches[l].node_id = matches[k].node_id}
<1>1. Len(matches) \in Nat /\ DOMAIN matches = 1 .. Len(matches)
  BY LenProperties DEF Inv, TypeOK, WeaverTypeOK
<1>2. k \in K /\ K \in SUBSET Int /\ \A y \in K : k <= y
  BY <1>1
<1>3. Min(K) = k
  BY <1>2, MinIs
<1>. QED BY <1>3 DEF FirstMatch

LEMMA ListHolds ==
  ASSUME Inv, ListCore
  PROVE  Inv'
<1>. DEFINE n == matches[m].node_id
<1>1. /\ stage = "listing" /\ Reading /\ m <= Len(matches) /\ m' = m + 1
      /\ core' = IF n \in Range(core) THEN core ELSE Append(core, n)
      /\ UNCHANGED <<stage, s, neighbor_map, active, prompt>>
  BY DEF ListCore, Listed, Reading
<1>. USE <1>1, ReadingKeeps DEF Inv
<1>2. m \in 1 .. Len(matches) /\ Len(matches) \in Nat /\ m + 1 \in 1 .. Len(matches) + 1
  BY LenProperties DEF TypeOK, WeaverTypeOK
<1>3. n \in DOMAIN node_map
  BY <1>2, MatchType
<1>. HIDE DEF n
<1>4. core \in Seq(DOMAIN node_map)
  BY DEF TypeOK
<1>5. /\ core' \in Seq(DOMAIN node_map)
      /\ Range(core') = Range(core) \cup {n}
  <2>1. CASE n \in Range(core)
    BY <1>4, <2>1
  <2>2. CASE n \notin Range(core)
    <3>1. core' = Append(core, n)
      BY <2>2
    <3>2. /\ Append(core, n) \in Seq(DOMAIN node_map)
          /\ Range(Append(core, n)) = Range(core) \cup {n}
      BY ONLY <1>3, <1>4, AppendRange
    <3>. QED BY <3>1, <3>2
  <2>. QED BY <2>1, <2>2
<1>6. prompt = NoPrompt
  BY DEF StagesOK
<1>7. TypeOK'
  BY <1>2, <1>5 DEF TypeOK
<1>8. StagesOK' /\ FewNeighbours' /\ Grounded' /\ Descending(active)'
  BY <1>6 DEF StagesOK, FewNeighbours, Grounded, Descending
<1>9. CoreOK'
  <2>1. Range(core) = {matches[k].node_id : k \in 1 .. m - 1}
    BY DEF CoreOK
  <2>2. Range(core') = {matches[k].node_id : k \in 1 .. m}
    <3>1. \A k \in 1 .. m : k \in 1 .. m - 1 \/ k = m
      BY <1>2
    <3>2. 1 .. m - 1 \subseteq 1 .. m /\ m \in 1 .. m
      BY <1>2
    <3>. QED BY <1>5, <2>1, <3>1, <3>2 DEF n
  <2>3. \A k, l \in DOMAIN core : k < l => FirstMatch(core[k]) < FirstMatch(core[l])
    BY DEF CoreOK
  <2>4. \A k, l \in DOMAIN core' : k < l => FirstMatch(core'[k]) < FirstMatch(core'[l])
    <3>1. CASE n \in Range(core)
      BY <2>3, <3>1
    <3>2. CASE n \notin Range(core)
      <4>1. /\ DOMAIN core = 1 .. Len(core) /\ Len(core) \in Nat
            /\ DOMAIN core' = 1 .. Len(core) + 1
            /\ \A k \in DOMAIN core : core'[k] = core[k]
            /\ core'[Len(core) + 1] = n
        BY <1>3, <1>4, <3>2, AppendRange
      <4>2. FirstMatch(n) = m
        <5>1. \A l \in 1 .. m - 1 : matches[l].node_id # n
          BY <2>1, <3>2
        <5>. QED BY <1>2, <5>1, FirstMatchIs DEF n
      <4>3. ASSUME NEW k \in DOMAIN core PROVE FirstMatch(core[k]) < m
        <5>1. PICK l \in 1 .. m - 1 : core[k] = matches[l].node_id
          BY <2>1 DEF Range
        <5>2. l \in 1 .. Len(matches) /\ l < m
          BY <1>2
        <5>3. FirstMatch(core[k]) <= l /\ FirstMatch(core[k]) \in Nat
          BY <5>1, <5>2, FirstMatchOf
        <5>. QED BY <1>2, <5>2, <5>3
      <4>4. ASSUME NEW k \in DOMAIN core', NEW l \in DOMAIN core', k < l
            PROVE  FirstMatch(core'[k]) < FirstMatch(core'[l])
        <5>1. k \in DOMAIN core
          BY <4>1, <4>4
        <5>2. CASE l \in DOMAIN core
          BY <2>3, <4>1, <4>4, <5>1, <5>2
        <5>3. CASE l = Len(core) + 1
          BY <4>1, <4>2, <4>3, <5>1, <5>3
        <5>. QED BY <4>1, <5>2, <5>3
      <4>. QED BY <4>4
    <3>. QED BY <3>1, <3>2
  <2>5. m' - 1 = m
    BY <1>2
  <2>. QED BY <2>2, <2>4, <2>5 DEF CoreOK
<1>. QED BY <1>7, <1>8, <1>9

LEMMA CompileHolds ==
  ASSUME Inv, Compile
  PROVE  Inv'
<1>1. /\ stage = "listing" /\ Reading /\ m > Len(matches) /\ stage' = "done"
      /\ prompt' = [core       |-> core,
                    neighbours |-> NeighbourSection,
                    contract   |-> IF mode = "vajra" THEN "vajra" ELSE "prajna"]
      /\ UNCHANGED <<m, s, neighbor_map, active, core>>
  BY DEF Compile, Reading, navVars
<1>. USE <1>1, ReadingKeeps DEF Inv
<1>2. m = Len(matches) + 1
  BY LenProperties DEF TypeOK, WeaverTypeOK
<1>3. NeighbourSection' = NeighbourSection /\ NeighbourSection \subseteq {active}
  BY DEF NeighbourSection
<1>4. TypeOK'
  <2>1. prompt'.core = core /\ prompt'.neighbours \subseteq {active}
        /\ prompt'.contract \in {"vajra", "prajna"}
    BY <1>3
  <2>. QED BY <2>1 DEF TypeOK
<1>5. StagesOK'
  BY <1>2, <1>3 DEF StagesOK
<1>6. FewNeighbours' /\ Grounded' /\ Descending(active)' /\ CoreOK'
  BY DEF FewNeighbours, Grounded, Descending, CoreOK
<1>. QED BY <1>4, <1>5, <1>6

LEMMA StutterHolds ==
  ASSUME Inv, UNCHANGED vars
  PROVE  Inv'
<1>1. Reading /\ UNCHANGED <<stage, m, s, neighbor_map, active, core, prompt>>
  BY DEF vars, Reading, navVars
<1>. USE <1>1, ReadingKeeps DEF Inv
<1>2. NeighbourSection' = NeighbourSection
  BY DEF NeighbourSection
<1>3. TypeOK'
  BY DEF TypeOK
<1>4. StagesOK'
  BY <1>2 DEF StagesOK
<1>5. FewNeighbours' /\ Grounded' /\ Descending(active)' /\ CoreOK'
  BY DEF FewNeighbours, Grounded, Descending, CoreOK
<1>. QED BY <1>3, <1>4, <1>5

LEMMA NextHolds == Inv /\ [Next]_vars => Inv'
<1>1. ASSUME Inv, Step PROVE Inv'
  BY <1>1, WeaveOnHolds, StartHolds, AccumulateHolds, NextMatchHolds, SortHolds, ListHolds,
     CompileHolds, ReturnHolds DEF Step
<1>. QED BY <1>1, NewEngineHolds, ProcessHolds, StutterHolds DEF Next

LEMMA Invariance == Spec => []Inv
BY InitHolds, NextHolds, PTL DEF Spec

-----------------------------------------------------------------------------
(* What the navigator adds up. *)

\* The navigator has read the places before its indices: it knows the neighbours
\* found there, with the sum of what points to them and the first to do so.
Passed == {x \in Places : x[1] < m \/ (x[1] = m /\ x[2] < s)}
Found(t) == {x \in Passed : SynapseAt(x).target = t}
IsFirst(x, places) ==
  x \in places /\ \A y \in places : x[1] < y[1] \/ (x[1] = y[1] /\ x[2] <= y[2])
Resonant(n, places) ==
  /\ n.weight = decay * SumFunctionOnSet(Weights, places)
  /\ \E x \in Places : /\ IsFirst(x, places)
                       /\ n.relation = SynapseAt(x).relation
                       /\ n.source_node_id = matches[x[1]].node_id
FoundSoFar ==
  stage = "navigating" =>
    /\ IsFiniteSet(Passed)
    /\ DOMAIN neighbor_map = {t \in DOMAIN node_map \ core_node_ids : Found(t) # {}}
    /\ \A t \in DOMAIN neighbor_map : Resonant(neighbor_map[t], Found(t))

Resonance == FoundSoFar /\ ResonanceExact

LEMMA PlaceIs ==
  ASSUME Inv
  PROVE  /\ \A x \in Places : /\ x[1] \in 1 .. Len(matches) /\ x[2] \in 1 .. Len(Synapses(x[1]))
                              /\ x = <<x[1], x[2]>> /\ x[1] \in Nat /\ x[2] \in Nat
                              /\ SynapseAt(x) \in Synapse
         /\ \A k \in 1 .. Len(matches) : \A l \in 1 .. Len(Synapses(k)) : <<k, l>> \in Places
         /\ m \in Nat /\ s \in Nat /\ decay \in Nat /\ Len(matches) \in Nat
         /\ m >= 1 /\ s >= 1 /\ m <= Len(matches) + 1
<1>1. matches \in Seq(DrosMatch) /\ DOMAIN matches = 1 .. Len(matches) /\ Len(matches) \in Nat
  BY LenProperties DEF Inv, TypeOK, WeaverTypeOK
<1>2. ASSUME NEW k \in 1 .. Len(matches)
      PROVE  /\ DOMAIN Synapses(k) = 1 .. Len(Synapses(k)) /\ Len(Synapses(k)) \in Nat
             /\ \A l \in 1 .. Len(Synapses(k)) : Synapses(k)[l] \in Synapse
  BY MatchType, LenProperties, ElementOfSeq
<1>3. ASSUME NEW x \in Places
      PROVE  /\ x[1] \in 1 .. Len(matches) /\ x[2] \in 1 .. Len(Synapses(x[1]))
             /\ x = <<x[1], x[2]>> /\ SynapseAt(x) \in Synapse
  <2>1. PICK k \in DOMAIN matches : \E l \in DOMAIN Synapses(k) : x = <<k, l>>
    BY DEF Places
  <2>2. PICK l \in DOMAIN Synapses(k) : x = <<k, l>>
    BY <2>1
  <2>3. x[1] = k /\ x[2] = l
    BY <2>2
  <2>. QED BY <1>1, <1>2, <2>2, <2>3 DEF SynapseAt
<1>4. ASSUME NEW k \in 1 .. Len(matches), NEW l \in 1 .. Len(Synapses(k))
      PROVE  <<k, l>> \in Places
  BY <1>1, <1>2 DEF Places
<1>5. \A x \in Places : x[1] \in Nat /\ x[2] \in Nat
  BY <1>1, <1>2, <1>3
<1>6. /\ m \in Nat /\ s \in Nat /\ decay \in Nat
      /\ m >= 1 /\ s >= 1 /\ m <= Len(matches) + 1
  BY <1>1 DEF Inv, TypeOK
<1>. QED BY <1>1, <1>3, <1>4, <1>5, <1>6

LEMMA WeightIs ==
  ASSUME Inv
  PROVE  \A x \in Places : Weights[x] = SynapseAt(x).weight /\ Weights[x] \in Nat
BY PlaceIs DEF Weights, Synapse

\* The places are those of the matches and the manifest, which stay as they are.
LEMMA PlacesStay ==
  ASSUME Inv, Reading
  PROVE  /\ UNCHANGED <<Places, Weights, matches, node_map, core_node_ids, decay>>
         /\ \A x : SynapseAt(x)' = SynapseAt(x)
         /\ \A t : Discoveries(t)' = Discoveries(t)
<1>1. /\ UNCHANGED <<matches, node_map, decay>> /\ core_node_ids' = core_node_ids
      /\ \A k : Synapses(k)' = Synapses(k)
  BY ReadingKeeps
<1>2. Places' = Places /\ \A x : SynapseAt(x)' = SynapseAt(x)
  BY <1>1 DEF Places, SynapseAt
<1>3. Weights' = Weights /\ \A t : Discoveries(t)' = Discoveries(t)
  BY <1>2 DEF Weights, Discoveries
<1>. QED BY <1>1, <1>2, <1>3

\* The sort comes when every place has been read.
LEMMA AllPassed ==
  ASSUME Inv, m > Len(matches)
  PROVE  Passed = Places /\ \A t : Found(t) = Discoveries(t)
BY PlaceIs DEF Passed, Found, Discoveries

LEMMA FirstIs ==
  ASSUME Inv, NEW P \in SUBSET Places, NEW x \in Places, IsFirst(x, P)
  PROVE  First(P) = x
<1>1. ASSUME NEW y \in Places, IsFirst(y, P) PROVE y = x
  <2>1. x[1] = y[1] /\ x[2] = y[2]
    BY <1>1, PlaceIs DEF IsFirst
  <2>. QED BY <1>1, <2>1, PlaceIs
<1>2. First(P) = CHOOSE y \in P : \A z \in P : y[1] < z[1] \/ (y[1] = z[1] /\ y[2] <= z[2])
  BY DEF First
<1>. QED BY <1>1, <1>2 DEF IsFirst

LEMMA StartResonance ==
  ASSUME Inv, StartNavigating
  PROVE  Resonance'
<1>1. /\ stage = "weaving" /\ stage' = "navigating" /\ Reading
      /\ UNCHANGED <<m, s, neighbor_map>>
  BY DEF StartNavigating, Reading, navVars
<1>2. m = 1 /\ s = 1 /\ DOMAIN neighbor_map = {}
  BY <1>1 DEF Inv, StagesOK, EmptyMap
<1>3. Passed = {}
  BY <1>2, PlaceIs DEF Passed
<1>4. Passed' = {} /\ \A t : Found(t)' = {}
  BY <1>1, <1>3, PlacesStay DEF Passed, Found
<1>5. FoundSoFar'
  BY <1>1, <1>2, <1>4, FS_EmptySet DEF FoundSoFar
<1>. QED BY <1>1, <1>5 DEF Resonance, ResonanceExact

LEMMA AccumulateResonance ==
  ASSUME Inv, Resonance, Accumulate
  PROVE  Resonance'
<1>1. /\ stage = "navigating" /\ Reading /\ stage' = stage /\ m' = m /\ s' = s + 1
      /\ m <= Len(matches) /\ s <= Len(Synapses(m))
  BY DEF Accumulate, Reading
<1>2. PICK p \in Places : p = <<m, s>>
  <2>1. m \in 1 .. Len(matches) /\ s \in 1 .. Len(Synapses(m))
    <3>1. Len(Synapses(m)) \in Nat
      BY <1>1, MatchType, LenProperties, PlaceIs
    <3>. QED BY <1>1, <3>1, PlaceIs
  <2>. QED BY <2>1, PlaceIs
<1>3. p[1] = m /\ p[2] = s /\ SynapseAt(p) = Synapses(m)[s]
  BY <1>2 DEF SynapseAt
<1>4. PICK t, w : t = SynapseAt(p).target /\ w = SynapseAt(p).weight * decay
  OBVIOUS
<1>5. neighbor_map' =
        IF ~ IsNeighbour(t) THEN neighbor_map
        ELSE IF t \in DOMAIN neighbor_map
          THEN [neighbor_map EXCEPT ![t].weight = AddedWeight(t, w)]
          ELSE [x \in DOMAIN neighbor_map \cup {t} |->
                  IF x = t
                    THEN [node_id |-> t, relation |-> SynapseAt(p).relation,
                          source_node_id |-> matches[m].node_id, weight |-> w]
                    ELSE neighbor_map[x]]
  BY <1>3, <1>4 DEF Accumulate
<1>6. /\ IsFiniteSet(Passed)
      /\ DOMAIN neighbor_map = {n \in DOMAIN node_map \ core_node_ids : Found(n) # {}}
      /\ \A n \in DOMAIN neighbor_map : Resonant(neighbor_map[n], Found(n))
  BY <1>1 DEF Resonance, FoundSoFar
<1>7. p \notin Passed /\ \A y \in Passed : y[1] < p[1] \/ (y[1] = p[1] /\ y[2] < p[2])
  BY <1>3, PlaceIs DEF Passed
<1>8. Passed' = Passed \cup {p}
  <2>1. Passed' = {x \in Places : x[1] < m \/ (x[1] = m /\ x[2] < s + 1)}
    BY <1>1, PlacesStay DEF Passed
  <2>2. ASSUME NEW x \in Places
        PROVE  (x[1] = m /\ x[2] < s + 1) <=> (x[1] = m /\ x[2] < s) \/ x = p
    BY <1>2, <1>3, PlaceIs
  <2>. QED BY <2>1, <2>2 DEF Passed
<1>9. \A n : Found(n)' = IF n = t THEN Found(n) \cup {p} ELSE Found(n)
  <2>1. \A n : Found(n)' = {x \in Passed' : SynapseAt(x).target = n}
    BY <1>1, PlacesStay DEF Found
  <2>. QED BY <1>4, <1>8, <2>1 DEF Found
<1>10. \A n : Found(n) \in SUBSET Places /\ Found(n) \subseteq Passed /\ IsFiniteSet(Found(n))
  BY <1>6, FS_Subset DEF Found, Passed
<1>11. /\ SumFunctionOnSet(Weights, Found(t)) \in Nat
       /\ decay * SumFunctionOnSet(Weights, Found(t) \cup {p}) =
            decay * SumFunctionOnSet(Weights, Found(t)) + w
  <2>1. PICK P : P = Found(t)
    OBVIOUS
  <2>2. IsFiniteSet(P) /\ p \notin P /\ \A y \in P \cup {p} : Weights[y] \in Nat
    BY <1>7, <1>10, <2>1, WeightIs
  <2>3. /\ SumFunctionOnSet(Weights, P) \in Nat
        /\ SumFunctionOnSet(Weights, P \cup {p}) = SumFunctionOnSet(Weights, P) + Weights[p]
    BY <2>2, SumOfOneMore
  <2>4. w = Weights[p] * decay /\ Weights[p] \in Nat /\ decay \in Nat
    BY <1>4, WeightIs, PlaceIs
  <2>5. \A a, b, c \in Nat : c * (a + b) = c * a + b * c
    OBVIOUS
  <2>. QED BY <2>1, <2>3, <2>4, <2>5
<1>12. IsFirst(p, {p})
  BY <1>3, PlaceIs DEF IsFirst
<1>13. \A n : \A x \in Places : IsFirst(x, Found(n)) => IsFirst(x, Found(n) \cup {p})
  <2>. SUFFICES ASSUME NEW x \in Places, NEW n, IsFirst(x, Found(n))
                PROVE  IsFirst(x, Found(n) \cup {p})
    OBVIOUS
  <2>1. x \in Passed
    BY <1>10 DEF IsFirst
  <2>. QED BY <1>7, <2>1, PlaceIs DEF IsFirst
<1>14. IsFiniteSet(Passed')
  BY <1>6, <1>8, FS_AddElement
<1>15. \A n \in DOMAIN neighbor_map : n \in DOMAIN node_map \ core_node_ids /\ Found(n) # {}
  BY <1>6
<1>16. IsNeighbour(t) <=> t \in DOMAIN node_map \ core_node_ids
  BY DEF IsNeighbour
<1>17. DOMAIN neighbor_map' = {n \in DOMAIN node_map \ core_node_ids : Found(n)' # {}}
  <2>1. DOMAIN neighbor_map' = DOMAIN neighbor_map \cup (IF IsNeighbour(t) THEN {t} ELSE {})
    BY <1>5
  <2>. QED BY <1>6, <1>9, <1>16, <2>1
<1>18. ASSUME NEW n \in DOMAIN neighbor_map' PROVE Resonant(neighbor_map'[n], Found(n)')
  <2>1. CASE n # t
    <3>1. n \in DOMAIN neighbor_map /\ neighbor_map'[n] = neighbor_map[n]
      BY <1>5, <1>18, <2>1
    <3>. QED BY <1>6, <1>9, <2>1, <3>1
  <2>2. CASE n = t /\ t \in DOMAIN neighbor_map
    <3>1. PICK old \in ActiveNeighbor : old = neighbor_map[t]
      BY <2>2 DEF Inv, TypeOK
    <3>2. neighbor_map'[n] = [old EXCEPT !.weight = old.weight + w]
      BY <1>5, <1>15, <1>16, <2>2, <3>1 DEF AddedWeight
    <3>3. /\ neighbor_map'[n].weight = old.weight + w
          /\ neighbor_map'[n].relation = old.relation
          /\ neighbor_map'[n].source_node_id = old.source_node_id
      BY <3>1, <3>2 DEF ActiveNeighbor
    <3>4. Resonant(old, Found(t))
      BY <1>6, <2>2, <3>1
    <3>5. neighbor_map'[n].weight = decay * SumFunctionOnSet(Weights, Found(t) \cup {p})
      BY <1>11, <3>3, <3>4 DEF Resonant
    <3>. QED BY <1>9, <1>13, <2>2, <3>3, <3>4, <3>5 DEF Resonant
  <2>3. CASE n = t /\ t \notin DOMAIN neighbor_map
    <3>1. IsNeighbour(t)
      BY <1>5, <1>18, <2>3
    <3>2. Found(t) = {} /\ Found(n)' = {p}
      BY <1>6, <1>9, <1>16, <2>3, <3>1
    <3>3. neighbor_map'[n] = [node_id |-> t, relation |-> SynapseAt(p).relation,
                              source_node_id |-> matches[m].node_id, weight |-> w]
      BY <1>5, <2>3, <3>1
    <3>4. SumFunctionOnSet(Weights, Found(t)) = 0 /\ Found(t) \cup {p} = {p}
      BY <3>2, SumOfNone
    <3>5. decay * SumFunctionOnSet(Weights, {p}) = w
      <4>1. decay * 0 = 0 /\ w \in Nat
        <5>1. SynapseAt(p).weight \in Nat /\ decay \in Nat
          BY PlaceIs, WeightIs
        <5>. QED BY <1>4, <5>1
      <4>2. PICK a, b : /\ a = SumFunctionOnSet(Weights, {p})
                        /\ b = SumFunctionOnSet(Weights, Found(t))
        OBVIOUS
      <4>3. decay * a = decay * b + w /\ b = 0
        BY <1>11, <3>4, <4>2
      <4>. QED BY <4>1, <4>2, <4>3
    <3>6. /\ neighbor_map'[n].weight = w
          /\ neighbor_map'[n].relation = SynapseAt(p).relation
          /\ neighbor_map'[n].source_node_id = matches[p[1]].node_id
      BY <1>3, <3>3
    <3>. QED BY <1>12, <3>2, <3>5, <3>6 DEF Resonant
  <2>. QED BY <2>1, <2>2, <2>3
<1>19. FoundSoFar'
  <2>1. \A n \in DOMAIN neighbor_map' : Resonant(neighbor_map[n], Found(n))'
    BY <1>1, <1>18, PlacesStay DEF Resonant, IsFirst
  <2>. QED BY <1>1, <1>14, <1>17, <2>1, PlacesStay DEF FoundSoFar
<1>. QED BY <1>1, <1>19 DEF Resonance, ResonanceExact

LEMMA NextMatchResonance ==
  ASSUME Inv, Resonance, NextMatch
  PROVE  Resonance'
<1>1. /\ stage = "navigating" /\ Reading /\ m' = m + 1 /\ s' = 1 /\ s > Len(Synapses(m))
      /\ UNCHANGED <<stage, neighbor_map>>
  BY DEF NextMatch, Reading
<1>2. Passed' = Passed
  <2>1. Passed' = {x \in Places : x[1] < m + 1 \/ (x[1] = m + 1 /\ x[2] < 1)}
    BY <1>1, PlacesStay DEF Passed
  <2>2. ASSUME NEW x \in Places
        PROVE  (x[1] < m + 1 \/ (x[1] = m + 1 /\ x[2] < 1)) <=>
                 (x[1] < m \/ (x[1] = m /\ x[2] < s))
    <3>1. x[1] = m => x[2] < s
      BY <1>1, PlaceIs
    <3>2. ~ (x[2] < 1)
      BY PlaceIs
    <3>. QED BY <3>1, <3>2, PlaceIs
  <2>. QED BY <2>1, <2>2 DEF Passed
<1>3. \A t : Found(t)' = Found(t)
  BY <1>1, <1>2, PlacesStay DEF Found
<1>4. FoundSoFar'
  BY <1>1, <1>2, <1>3, PlacesStay DEF Resonance, FoundSoFar, Resonant, IsFirst
<1>. QED BY <1>1, <1>4 DEF Resonance, ResonanceExact

\* What ResonanceExact says does not change once the neighbours are collected.
Collected ==
  /\ DOMAIN neighbor_map = {t \in DOMAIN node_map \ core_node_ids : Discoveries(t) # {}}
  /\ \A t \in DOMAIN neighbor_map : Resonant(neighbor_map[t], Discoveries(t))

LEMMA CollectedIsExact ==
  ASSUME Inv, Collected
  PROVE  ResonanceExact
<1>. SUFFICES ASSUME NEW t \in DOMAIN neighbor_map
              PROVE  /\ neighbor_map[t].weight =
                          decay * SumFunctionOnSet(Weights, Discoveries(t))
                     /\ neighbor_map[t].relation = SynapseAt(First(Discoveries(t))).relation
                     /\ neighbor_map[t].source_node_id =
                          matches[First(Discoveries(t))[1]].node_id
  BY DEF ResonanceExact, Collected
<1>1. PICK x \in Places : /\ IsFirst(x, Discoveries(t))
                          /\ neighbor_map[t].relation = SynapseAt(x).relation
                          /\ neighbor_map[t].source_node_id = matches[x[1]].node_id
  BY DEF Collected, Resonant
<1>2. Discoveries(t) \in SUBSET Places
  BY DEF Discoveries
<1>3. First(Discoveries(t)) = x
  BY <1>1, <1>2, FirstIs
<1>. QED BY <1>1, <1>3 DEF Collected, Resonant

LEMMA SortResonance ==
  ASSUME Inv, Resonance, SortNeighbours
  PROVE  Resonance'
<1>1. /\ stage = "navigating" /\ stage' = "listing" /\ Reading /\ m > Len(matches)
      /\ UNCHANGED neighbor_map
  BY DEF SortNeighbours, Reading
<1>2. Collected
  BY <1>1, AllPassed DEF Resonance, FoundSoFar, Collected
<1>3. Collected'
  BY <1>1, <1>2, PlacesStay DEF Collected, Resonant, IsFirst
<1>4. Inv'
  BY SortHolds
<1>5. (Inv /\ Collected => ResonanceExact)'
  BY CollectedIsExact, PTL
<1>. QED BY <1>1, <1>3, <1>4, <1>5 DEF Resonance, FoundSoFar

LEMMA GuardResonance ==
  ASSUME Inv, Resonance, ListCore \/ Compile
  PROVE  Resonance'
<1>1. /\ stage = "listing" /\ stage' \in {"listing", "done"} /\ Reading
      /\ UNCHANGED neighbor_map
  BY DEF ListCore, Compile, Reading, navVars
<1>2. \A t : First(Discoveries(t))' = First(Discoveries(t))
  BY <1>1, PlacesStay DEF First
<1>. QED BY <1>1, <1>2, PlacesStay DEF Resonance, FoundSoFar, ResonanceExact

LEMMA NextResonance == Inv /\ Resonance /\ [Next]_vars => Resonance'
<1>. SUFFICES ASSUME Inv, Resonance, [Next]_vars PROVE Resonance'
  OBVIOUS
<1>1. stage' \in {"idle", "weaving"} => Resonance'
  BY DEF Resonance, FoundSoFar, ResonanceExact
<1>2. CASE NewEngine \/ WeaveOn \/ Return \/ \E t \in Texts, mo \in Modes, d \in Decays : Process(t, mo, d)
  <2>1. stage' \in {"idle", "weaving"} \/ NewEngine
    BY <1>2 DEF WeaveOn, Return, Process
  <2>2. NewEngine => stage' = "idle"
    <3>1. ASSUME NewEngine PROVE stage = "idle" /\ stage' = stage
      <4>1. phase \in {"none", "building"}
        BY <3>1 DEF NewEngine, NewWeaver, InsertNode, TrieBuilt
      <4>. QED BY <3>1, <4>1 DEF NewEngine, Inv, TypeOK, StagesOK
    <3>. QED BY <3>1
  <2>. QED BY <1>1, <2>1, <2>2
<1>3. CASE UNCHANGED vars
  <2>1. Reading /\ UNCHANGED <<stage, m, s, neighbor_map>>
    BY <1>3 DEF vars, Reading, navVars
  <2>2. Passed' = Passed /\ \A t : Found(t)' = Found(t)
    BY <2>1, PlacesStay DEF Passed, Found
  <2>3. \A t : First(Discoveries(t))' = First(Discoveries(t))
    BY <2>1, PlacesStay DEF First
  <2>4. FoundSoFar'
    BY <2>1, <2>2, PlacesStay DEF Resonance, FoundSoFar, Resonant, IsFirst
  <2>5. ResonanceExact'
    <3>1. /\ UNCHANGED <<Weights, matches, node_map, core_node_ids, decay>>
          /\ \A x : SynapseAt(x)' = SynapseAt(x)
          /\ \A t : Discoveries(t)' = Discoveries(t)
      BY <2>1, PlacesStay
    <3>2. ResonanceExact
      BY DEF Resonance
    <3>. QED BY <2>1, <2>3, <3>1, <3>2 DEF ResonanceExact
  <2>. QED BY <2>4, <2>5 DEF Resonance
<1>. QED BY <1>2, <1>3, StartResonance, AccumulateResonance, NextMatchResonance,
         SortResonance, GuardResonance DEF Next, Step

\* The neighbours are those the matched nodes point to, with the decayed sum over all
\* that point to them and the relation and source of the first: the accumulation of
\* lines 21-48 of navigator.rs adds every synapse once, in whatever order of the sum.
THEOREM ResonanceIsExact == Spec => []ResonanceExact
<1>1. Init => Resonance
  BY DEF Init, Resonance, FoundSoFar, ResonanceExact
<1>2. Resonance => ResonanceExact
  BY DEF Resonance
<1>. QED BY <1>1, <1>2, Invariance, NextResonance, PTL DEF Spec

-----------------------------------------------------------------------------
(* The results. *)

\* Types: no cursor leaves the text, no index leaves the matches, and every id the
\* navigator and the guard look up is a node of the manifest.
THEOREM TypeCorrect == Spec => []TypeOK
<1>1. Inv => TypeOK
  BY DEF Inv
<1>. QED BY <1>1, Invariance, PTL

\* The scan of lines 97-128 of weaver.rs reports, at every position no earlier match
\* covers, the longest term of the manifest that starts there.
THEOREM LongestTermsAreFound == Spec => []LeftmostLongest
<1>1. Inv => LeftmostLongest
  BY DEF Inv, WeaverInv
<1>. QED BY <1>1, Invariance, PTL

\* Every match of the scan names a node that has the matched text as a term, in
\* whatever order build_trie met the nodes.
THEOREM MatchesAreOwned == Spec => []MatchNamesOwner
<1>1. Inv => MatchNamesOwner
  BY DEF Inv, WeaverInv
<1>. QED BY <1>1, Invariance, PTL

\* The coordinate search of lines 73-90 reports exactly the whole words that are
\* the coordinate of a node, in the order of the text and before any term.
THEOREM CoordinatesAreExact == Spec => []CoordinatesExact
<1>1. Inv => CoordinatesExact
  BY DEF Inv, WeaverInv
<1>. QED BY <1>1, Invariance, PTL

\* What guard.rs prints of the list is what the list holds.
LEMMA ActiveType ==
  ASSUME Inv, NEW k \in 1 .. Len(active)
  PROVE  active[k] \in Range(neighbor_map) /\ Related(active[k])
<1>1. active \in Seq(Range(neighbor_map))
  BY DEF Inv, TypeOK
<1>2. active[k] \in Range(neighbor_map)
  BY <1>1, ElementOfSeq
<1>3. PICK n \in DOMAIN neighbor_map : active[k] = neighbor_map[n]
  BY <1>2 DEF Range
<1>. QED BY <1>2, <1>3 DEF Inv, Grounded

\* The prompt rests on the text: it lists the matched nodes once each, in the order
\* of their first match, and in prajna mode only the neighbours, strongest first,
\* each with a relation that a listed node has to it.
THEOREM PromptIsGrounded == Spec => []PromptGrounded
<1>1. ASSUME Inv, stage = "done" PROVE PromptGrounded
  <2>. USE <1>1 DEF Inv
  <2>1. /\ m = Len(matches) + 1 /\ prompt.core = core /\ prompt.neighbours = NeighbourSection
        /\ prompt.contract = IF mode = "vajra" THEN "vajra" ELSE "prajna"
    BY DEF StagesOK
  <2>2. Len(matches) \in Nat /\ DOMAIN matches = 1 .. Len(matches)
    BY LenProperties DEF TypeOK, WeaverTypeOK
  <2>3. Range(core) = core_node_ids
    <3>1. Range(core) = {matches[k].node_id : k \in 1 .. m - 1}
      BY DEF CoreOK
    <3>2. m - 1 = Len(matches)
      BY <2>1, <2>2
    <3>. QED BY <2>2, <3>1, <3>2 DEF core_node_ids, Range
  <2>4. \A k, l \in DOMAIN core : k < l => FirstMatch(core[k]) < FirstMatch(core[l])
    BY DEF CoreOK
  <2>5. (NeighbourSection # {}) <=> (mode = "prajna")
    BY DEF NeighbourSection
  <2>6. ASSUME NEW list \in prompt.neighbours, NEW k \in 1 .. Len(active)
        PROVE  /\ list[k].node_id \notin Range(core)
               /\ list[k].source_node_id \in Range(core)
               /\ \E syn \in Range(node_map[list[k].source_node_id].synapses) :
                    syn.target = list[k].node_id /\ syn.relation = list[k].relation
               /\ k > 1 => list[k].weight <= list[k - 1].weight
    <3>1. list = active
      BY <2>1, <2>6 DEF NeighbourSection
    <3>2. Related(active[k])
      BY <2>6, ActiveType
    <3>3. ASSUME k > 1 PROVE active[k].weight <= active[k - 1].weight
      <4>1. active \in Seq(Range(neighbor_map))
        BY DEF TypeOK
      <4>2. DOMAIN active = 1 .. Len(active) /\ Len(active) \in Nat
        BY <4>1, LenProperties
      <4>3. k - 1 \in 1 .. Len(active) /\ k - 1 < k
        BY <2>6, <3>3, <4>2
      <4>4. active[k - 1].weight >= active[k].weight
        BY <2>6, <4>2, <4>3 DEF Descending
      <4>5. active[k].weight \in Nat /\ active[k - 1].weight \in Nat
        <5>1. active[k] \in Range(neighbor_map) /\ active[k - 1] \in Range(neighbor_map)
          BY <2>6, <4>3, ActiveType
        <5>2. \A x \in Range(neighbor_map) : x.weight \in Nat
          BY DEF Range, TypeOK, ActiveNeighbor
        <5>. QED BY <5>1, <5>2
      <4>. QED BY <4>4, <4>5
    <3>. QED BY <2>3, <3>1, <3>2, <3>3 DEF Related
  <2>7. prompt.contract = "vajra" => prompt.neighbours = {}
    BY <2>1 DEF NeighbourSection
  <2>. QED BY <2>1, <2>3, <2>4, <2>5, <2>6, <2>7 DEF PromptGrounded
<1>2. Inv => PromptGrounded
  BY <1>1 DEF PromptGrounded
<1>. QED BY <1>2, Invariance, PTL

=============================================================================
