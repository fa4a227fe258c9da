------------------------------- MODULE Weaver -------------------------------
(***************************************************************************)
(* The text matcher of src/weaver.rs: a trie of the manifest's terms, the  *)
(* search for T-coordinates and the longest-match scan.  Each loop takes   *)
(* one step per round.                                                     *)
(*                                                                         *)
(* The trie is the function from the words it holds to their node ids: a   *)
(* path of characters exists exactly if it is the prefix of some word.     *)
(* Texts, words and node ids are sequences of characters; positions count  *)
(* characters from 0, as the fields of a DrosMatch do.                     *)
(***************************************************************************)
EXTENDS Integers, Sequences, SequencesExt

CONSTANTS
  Char,
  Space,        \* what str::trim removes
  WordChar,     \* \w of the regular expression; Chinese characters are in it
  Coordinates,  \* the strings of the shape T\d{4}[A-Za-z]?
  Manifests,    \* manifest.nodes: id -> node
  Texts

String == Seq(Char)
Synapse == [target : String, relation : STRING, weight : Nat]

\* Of a DrosNode its terms and synapses; the weights and the definition are
\* never read, or only printed.
DrosNode == [canonical : String, aliases : Seq(String), synapses : Seq(Synapse)]
NodeMap(m) == DOMAIN m \subseteq String /\ \A n \in DOMAIN m : m[n] \in DrosNode

ASSUME WeaverAssumption ==
  /\ Space \subseteq Char /\ WordChar \subseteq Char
  /\ Coordinates \subseteq Seq(WordChar) \ {<<>>}
  /\ Texts \subseteq String
  /\ \A m \in Manifests : NodeMap(m)

VARIABLES
  node_map,
  trie,      \* word -> node id
  pending,   \* nodes whose words are not inserted yet
  phase,     \* none, building, idle, coordinates, scanning or woven
  text,      \* the argument of weave
  matches,   \* its result
  i, j,      \* the scan's cursors; i is also where the search for coordinates is
  longest    \* longest_match_length, 0 while there is no match

engineVars == <<node_map, trie, pending>>
weaveVars == <<text, matches, i, j, longest>>
weaverVars == <<engineVars, phase, weaveVars>>

Slice(from, to) == SubSeq(text, from + 1, to)

\* A match of the trie carries no score, here 0; matched_text is Slice(from, to).
DrosMatch == [node_id : String, start_index : Nat, end_index : Nat, score : {0, 40}]
Match(n, from, to, score) ==
  [node_id |-> n, start_index |-> from, end_index |-> to, score |-> score]

EmptyMap == [x \in {} |-> x]

WeaverInit ==
  /\ node_map = EmptyMap /\ trie = EmptyMap /\ pending = {}
  /\ phase = "none"
  /\ text = <<>> /\ matches = <<>> /\ i = 0 /\ j = 0 /\ longest = 0

-----------------------------------------------------------------------------
(* DrosWeaver::new. *)

NewWeaver(m) ==
  /\ phase = "none"
  /\ phase' = "building"
  /\ node_map' = m /\ pending' = DOMAIN m
  /\ UNCHANGED <<trie, weaveVars>>

Trim(w) ==
  LET kept == {k \in DOMAIN w : w[k] \notin Space}
  IN  IF kept = {} THEN <<>> ELSE SubSeq(w, Min(kept), Max(kept))

\* The words insert keeps of a node: trimmed, and none that is then empty.
Words(n) ==
  {Trim(w) : w \in {node_map[n].canonical} \cup Range(node_map[n].aliases)} \ {<<>>}

\* Mutant: the words are not trimmed.
InsertUntrimmed(n) ==
  LET words == {node_map[n].canonical} \cup Range(node_map[n].aliases)
  IN  [w \in DOMAIN trie \cup words |-> IF w \in words THEN n ELSE trie[w]]

Inserted(n) ==
  [w \in DOMAIN trie \cup Words(n) |-> IF w \in Words(n) THEN n ELSE trie[w]]

\* build_trie goes through a HashMap: the nodes come in any order.
InsertNode(n) ==
  /\ phase = "building"
  /\ n \in pending
  /\ trie' = Inserted(n)
  /\ pending' = pending \ {n}
  /\ UNCHANGED <<node_map, phase, weaveVars>>

TrieBuilt ==
  /\ phase = "building" /\ pending = {}
  /\ phase' = "idle"
  /\ UNCHANGED <<engineVars, weaveVars>>

-----------------------------------------------------------------------------
(* weave. *)

Weave(t) ==
  /\ phase = "idle"
  /\ phase' = "coordinates"
  /\ text' = t /\ matches' = <<>> /\ i' = 0 /\ j' = 0 /\ longest' = 0
  /\ UNCHANGED engineVars

IsWordChar(k) == k \in DOMAIN text /\ text[k] \in WordChar

\* Mutant: the expression without its two \b.
Anywhere(a, b) == Slice(a, b) \in Coordinates

\* \b before a and after b, the two ends of a string of word characters.
CoordinateAt(a, b) ==
  Slice(a, b) \in Coordinates /\ ~ IsWordChar(a) /\ ~ IsWordChar(b + 1)

Spans == {s \in (0 .. Len(text)) \X (0 .. Len(text)) : s[1] < s[2]}

\* One round over captures_iter.
NextCoordinate ==
  /\ phase = "coordinates"
  /\ \E s \in Spans :
       LET a == s[1] b == s[2]
       IN  /\ i <= a /\ CoordinateAt(a, b)
           /\ \A r \in Spans : i <= r[1] /\ r[1] < a => ~ CoordinateAt(r[1], r[2])
           /\ i' = b
           /\ matches' = IF Slice(a, b) \in DOMAIN node_map
                           THEN Append(matches, Match(Slice(a, b), a, b, 40))
                           ELSE matches
  /\ UNCHANGED <<engineVars, phase, text, j, longest>>

CoordinatesDone ==
  /\ phase = "coordinates"
  /\ ~ \E s \in Spans : i <= s[1] /\ CoordinateAt(s[1], s[2])
  /\ phase' = "scanning" /\ i' = 0
  /\ UNCHANGED <<engineVars, text, matches, j, longest>>

\* current.children.get(&chars[j]) is Some
HasChild == j < Len(text) /\ \E w \in DOMAIN trie : IsPrefix(Slice(i, j + 1), w)

Follow ==
  /\ phase = "scanning" /\ i < Len(text)
  /\ HasChild
  /\ j' = j + 1
  /\ longest' = IF Slice(i, j + 1) \in DOMAIN trie THEN j + 1 - i ELSE longest
  /\ UNCHANGED <<engineVars, phase, text, matches, i>>

\* Mutants: the scan goes on where the walk left the trie; it goes on behind the
\* match, also when there is none.
AfterWalk == IF j > i THEN j ELSE i + 1
BehindMatch == i + longest

AfterMatch == IF longest > 0 THEN i + longest ELSE i + 1

EndRound ==
  /\ phase = "scanning" /\ i < Len(text)
  /\ ~ HasChild
  /\ matches' = IF longest > 0
                  THEN LET to == i + longest
                       IN  Append(matches, Match(trie[Slice(i, to)], i, to, 0))
                  ELSE matches
  /\ i' = AfterMatch /\ j' = AfterMatch
  /\ longest' = 0
  /\ UNCHANGED <<engineVars, phase, text>>

FinishWeave ==
  /\ phase = "scanning" /\ i >= Len(text)
  /\ phase' = "woven"
  /\ UNCHANGED <<engineVars, weaveVars>>

WeaveStep ==
  NextCoordinate \/ CoordinatesDone \/ Follow \/ EndRound \/ FinishWeave

-----------------------------------------------------------------------------
(***************************************************************************)
(* Properties.                                                             *)
(***************************************************************************)

\* Types; the cursors stay inside the text and every match spans characters of
\* it, so that no index of line 103 and no slice of line 116 is out of range.
WeaverTypeOK ==
  /\ NodeMap(node_map) /\ pending \subseteq DOMAIN node_map
  /\ DOMAIN trie \subseteq String \ {<<>>}
  /\ \A w \in DOMAIN trie : trie[w] \in DOMAIN node_map
  /\ phase \in {"none", "building", "idle", "coordinates", "scanning", "woven"}
  /\ text \in String
  /\ matches \in Seq(DrosMatch)
  /\ \A m \in Range(matches) : /\ m.node_id \in DOMAIN node_map
                               /\ m.start_index < m.end_index
                               /\ m.end_index <= Len(text)
  /\ 0 <= i /\ i <= Len(text)
  /\ phase = "coordinates" \/ (i <= j /\ j <= Len(text))
  /\ longest \in Nat /\ i + longest <= Len(text)

ScanMatches == {m \in Range(matches) : m.score = 0}
CoordinateMatches == {m \in Range(matches) : m.score = 40}

\* What the manifest says of a stretch of the text: the nodes it is a term of.
Owners(from, to) == {n \in DOMAIN node_map : Slice(from, to) \in Words(n)}
TermsAt(p) == {to \in p + 1 .. Len(text) : Owners(p, to) # {}}
Inside(p) == \E m \in ScanMatches : m.start_index < p /\ p < m.end_index

\* Longest match first: behind the cursor, a position that no earlier match
\* covers starts a match exactly if a term of the manifest starts there, and
\* then the match is the longest such term (lines 97-128).
LeftmostLongest ==
  phase \in {"scanning", "woven"} =>
    \A p \in 0 .. i - 1 :
      {m.end_index : m \in {x \in ScanMatches : x.start_index = p}} =
        IF Inside(p) \/ TermsAt(p) = {} THEN {} ELSE {Max(TermsAt(p))}

\* A match names a node that has the matched text as a term: with a term that
\* only one node has, the answer does not depend on the order in which the
\* HashMap of lines 40-45 yielded the nodes.
MatchNamesOwner ==
  \A m \in ScanMatches : m.node_id \in Owners(m.start_index, m.end_index)

\* The coordinate matches are exactly the runs of word characters that are the
\* id of a node, each reported once and in text order, before any term.
CoordinatesExact ==
  phase \in {"scanning", "woven"} =>
    /\ {<<m.start_index, m.end_index>> : m \in CoordinateMatches} =
         {s \in Spans : /\ \A k \in s[1] + 1 .. s[2] : IsWordChar(k)
                        /\ ~ IsWordChar(s[1]) /\ ~ IsWordChar(s[2] + 1)
                        /\ Slice(s[1], s[2]) \in Coordinates \cap DOMAIN node_map}
    /\ \A k \in DOMAIN matches, l \in DOMAIN matches :
         k < l /\ matches[l].score = 40 =>
           matches[k].score = 40 /\ matches[k].end_index <= matches[l].start_index

=============================================================================
