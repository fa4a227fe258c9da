---------------------------- MODULE WeaverProofs ----------------------------
(***************************************************************************)
(* Proofs about the weaver, for every alphabet, manifest and text: what    *)
(* each of its steps keeps.  PipelineProofs puts them together for         *)
(* DrosEngine::process.                                                    *)
(***************************************************************************)
EXTENDS Weaver, SequenceTheorems, FiniteSetTheorems, WellFoundedInduction, TLAPS

-----------------------------------------------------------------------------
(* Least and greatest numbers. *)

LEMMA MinOf ==
  ASSUME NEW S \in SUBSET Nat, S # {}
  PROVE  Min(S) \in S /\ \A y \in S : Min(S) <= y
<1>. DEFINE R == OpToRel(<, Nat)
<1>1. PICK x \in S : \A y \in S : ~ (<<y, x>> \in R)
  BY WFMin, NatLessThanWellFounded
<1>2. \A y \in S : x <= y
  <2>. SUFFICES ASSUME NEW y \in S, y < x PROVE FALSE
    OBVIOUS
  <2>1. <<y, x>> \in R
    BY DEF OpToRel
  <2>. QED BY <1>1, <2>1
<1>. QED BY <1>2 DEF Min

LEMMA MaxOf ==
  ASSUME NEW n \in Nat, NEW S \in SUBSET (0 .. n), S # {}
  PROVE  Max(S) \in S /\ \A y \in S : Max(S) >= y
<1>. DEFINE T == {n - x : x \in S}
<1>1. T \in SUBSET Nat /\ T # {}
  OBVIOUS
<1>2. PICK x \in S : Min(T) = n - x
  BY <1>1, MinOf
<1>3. \A y \in S : x >= y
  <2>. SUFFICES ASSUME NEW y \in S PROVE x >= y
    OBVIOUS
  <2>1. Min(T) <= n - y
    BY <1>1, MinOf
  <2>. QED BY <1>2, <2>1
<1>. QED BY <1>3 DEF Max

LEMMA MaxIs ==
  ASSUME NEW S \in SUBSET Int, NEW x \in S, \A y \in S : y <= x
  PROVE  Max(S) = x
<1>. DEFINE z == Max(S)
<1>1. z \in S /\ \A y \in S : z >= y
  BY DEF Max
<1>. HIDE DEF z
<1>2. z \in Int /\ x \in Int
  BY <1>1
<1>3. z >= x /\ z <= x
  BY <1>1
<1>4. z = x
  BY <1>2, <1>3
<1>. QED BY <1>4 DEF z

LEMMA MinIs ==
  ASSUME NEW S \in SUBSET Int, NEW x \in S, \A y \in S : x <= y
  PROVE  Min(S) = x
<1>. DEFINE z == Min(S)
<1>1. z \in S /\ \A y \in S : z <= y
  BY DEF Min
<1>. HIDE DEF z
<1>2. z \in Int /\ x \in Int
  BY <1>1
<1>3. z >= x /\ z <= x
  BY <1>1
<1>4. z = x
  BY <1>2, <1>3
<1>. QED BY <1>4 DEF z

-----------------------------------------------------------------------------
(* Slices of the text and words of the manifest. *)

LEMMA SliceType ==
  ASSUME text \in String, NEW a \in 0 .. Len(text), NEW b \in a .. Len(text)
  PROVE  /\ Slice(a, b) \in String /\ Len(Slice(a, b)) = b - a
         /\ \A k \in 1 .. b - a : Slice(a, b)[k] = text[a + k]
<1>1. Len(text) \in Nat /\ \A k \in a + 1 .. b : text[k] \in Char
  BY LenProperties, ElementOfSeq DEF String
<1>2. /\ SubSeq(text, a + 1, b) \in Seq(Char)
      /\ Len(SubSeq(text, a + 1, b)) = IF a + 1 <= b THEN b - (a + 1) + 1 ELSE 0
      /\ \A k \in 1 .. b - (a + 1) + 1 : SubSeq(text, a + 1, b)[k] = text[a + 1 + k - 1]
  BY <1>1, SubSeqProperties
<1>3. \A k \in 1 .. b - a : k \in 1 .. b - (a + 1) + 1 /\ a + 1 + k - 1 = a + k
  BY <1>1
<1>. QED BY <1>1, <1>2, <1>3 DEF Slice, String

\* Trimming a string leaves a string.
LEMMA TrimType ==
  ASSUME NEW w \in String
  PROVE  Trim(w) \in String
<1>. DEFINE kept == {k \in DOMAIN w : w[k] \notin Space}
<1>1. Len(w) \in Nat /\ DOMAIN w = 1 .. Len(w) /\ \A k \in 1 .. Len(w) : w[k] \in Char
  BY LenProperties, ElementOfSeq DEF String
<1>2. CASE kept = {}
  BY <1>2, EmptySeq DEF Trim, String
<1>3. CASE kept # {}
  <2>1. kept \in SUBSET (0 .. Len(w)) /\ kept \in SUBSET Nat /\ \A k \in kept : 1 <= k
    BY <1>1
  <2>2. Min(kept) \in kept /\ Max(kept) \in kept
    BY <1>1, <1>3, <2>1, MinOf, MaxOf
  <2>. HIDE DEF kept
  <2>3. Min(kept) \in Nat /\ 1 <= Min(kept) /\ Max(kept) \in 0 .. Len(w)
    BY <2>1, <2>2
  <2>4. \A k \in Min(kept) .. Max(kept) : w[k] \in Char
    BY <1>1, <2>3
  <2>5. SubSeq(w, Min(kept), Max(kept)) \in Seq(Char)
    BY <2>3, <2>4, SubSeqProperties
  <2>. QED BY <1>3, <2>5 DEF Trim, String, kept
<1>. QED BY <1>2, <1>3

\* The words of a node are strings, and none is empty.
LEMMA WordsType ==
  ASSUME NodeMap(node_map), NEW n \in DOMAIN node_map
  PROVE  n \in String /\ Words(n) \subseteq String \ {<<>>}
<1>1. node_map[n] \in DrosNode /\ n \in String
  BY DEF NodeMap
<1>2. node_map[n].canonical \in String /\ node_map[n].aliases \in Seq(String)
  BY <1>1 DEF DrosNode
<1>3. Range(node_map[n].aliases) \subseteq String
  BY <1>2, LenProperties, ElementOfSeq DEF Range
<1>. QED BY <1>1, <1>2, <1>3, TrimType DEF Words

\* Two texts that share a slice from the same place share its beginnings.
LEMMA SlicePrefix ==
  ASSUME text \in String, NEW a \in 0 .. Len(text),
         NEW b \in a .. Len(text), NEW c \in b .. Len(text)
  PROVE  IsPrefix(Slice(a, b), Slice(a, c))
<1>1. Len(text) \in Nat
  BY LenProperties DEF String
<1>2. b \in a .. Len(text) /\ c \in a .. Len(text)
  BY <1>1
<1>3. Slice(a, b) \in String /\ Len(Slice(a, b)) = b - a
      /\ \A k \in 1 .. b - a : Slice(a, b)[k] = text[a + k]
  BY <1>2, SliceType
<1>4. Slice(a, c) \in String /\ Len(Slice(a, c)) = c - a
      /\ \A k \in 1 .. c - a : Slice(a, c)[k] = text[a + k]
  BY <1>2, SliceType
<1>5. \A k \in 1 .. b - a : Slice(a, c)[k] = Slice(a, b)[k]
  BY <1>1, <1>3, <1>4
<1>6. SubSeq(Slice(a, b), 1, b - a) = Slice(a, b)
  BY <1>3, SubSeqFull DEF String
<1>7. /\ SubSeq(Slice(a, c), 1, b - a) \in String
      /\ Len(SubSeq(Slice(a, c), 1, b - a)) = b - a
      /\ \A k \in 1 .. b - a : SubSeq(Slice(a, c), 1, b - a)[k] = Slice(a, c)[k]
  <2>1. \A k \in 1 .. b - a : Slice(a, c)[k] \in Char
    BY <1>3, <1>5, ElementOfSeq DEF String
  <2>. DEFINE n == b - a
  <2>2. n \in Nat /\ \A k \in 1 .. n : Slice(a, c)[k] \in Char
    BY <1>1, <2>1
  <2>. HIDE DEF n
  <2>3. /\ SubSeq(Slice(a, c), 1, n) \in Seq(Char)
        /\ Len(SubSeq(Slice(a, c), 1, n)) = n
        /\ \A k \in 1 .. n : SubSeq(Slice(a, c), 1, n)[k] = Slice(a, c)[k]
    BY <2>2, SubSeqProperties
  <2>. QED BY <2>3 DEF n, String
<1>8. SubSeq(Slice(a, c), 1, b - a) = Slice(a, b)
  BY <1>3, <1>5, <1>7, SeqEqual DEF String
<1>. QED BY <1>1, <1>3, <1>4, <1>6, <1>8 DEF IsPrefix

-----------------------------------------------------------------------------
(* The invariant. *)

\* The trie holds the words of the nodes inserted so far, each under a node that
\* has it.
TrieExact ==
  /\ \A w \in DOMAIN trie : trie[w] \in DOMAIN node_map \ pending /\ w \in Words(trie[w])
  /\ \A n \in DOMAIN node_map \ pending : Words(n) \subseteq DOMAIN trie
  /\ phase = "none" => DOMAIN node_map = {}
  /\ phase \notin {"none", "building"} => pending = {}

CursorsOK ==
  /\ i \in Nat /\ j \in Nat
  /\ phase \in {"none", "building", "idle", "coordinates"} => j = 0 /\ longest = 0
  /\ phase \in {"none", "building", "idle"} => i = 0 /\ matches = <<>>

\* The search for coordinates has found those before the cursor, in text order;
\* none lies across it.
KnownCoordinate(s) == CoordinateAt(s[1], s[2]) /\ Slice(s[1], s[2]) \in DOMAIN node_map
LookedUp ==
  phase = "coordinates" =>
    /\ \A m \in Range(matches) : m.score = 40
    /\ {<<m.start_index, m.end_index>> : m \in Range(matches)} =
         {s \in Spans : s[2] <= i /\ KnownCoordinate(s)}
    /\ \A s \in Spans : CoordinateAt(s[1], s[2]) => s[2] <= i \/ i <= s[1]
    /\ \A k, l \in DOMAIN matches : k < l => matches[k].end_index <= matches[l].start_index

\* The walk has passed every word that starts at i and ends by j, and remembers
\* the longest.
WalkOK ==
  phase = "scanning" =>
    /\ longest > 0 => i + longest <= j /\ Slice(i, i + longest) \in DOMAIN trie
    /\ \A to \in i + 1 .. j : Slice(i, to) \in DOMAIN trie => to <= i + longest

\* The scan's matches lie behind its cursor.
BehindCursor == \A m \in ScanMatches : m.end_index <= i

Shape == WeaverTypeOK /\ TrieExact /\ CursorsOK
WeaverInv ==
  /\ Shape
  /\ LookedUp /\ CoordinatesExact
  /\ WalkOK /\ BehindCursor /\ LeftmostLongest /\ MatchNamesOwner

-----------------------------------------------------------------------------
(* Before a text is given: DrosWeaver::new. *)

\* With nothing matched only the shape matters.
Idle == phase \in {"none", "building", "idle"}

LEMMA NothingMatched == Shape /\ Idle => WeaverInv
<1>. SUFFICES ASSUME Shape, Idle PROVE WeaverInv
  OBVIOUS
<1>1. ScanMatches = {}
  BY DEF Shape, CursorsOK, ScanMatches, Range, Idle
<1>. QED
  BY <1>1 DEF WeaverInv, LookedUp, CoordinatesExact, WalkOK, BehindCursor, LeftmostLongest,
              MatchNamesOwner, Idle

LEMMA NothingMatchedNext == Shape' /\ Idle' => WeaverInv'
<1>1. (Shape /\ Idle => WeaverInv)'
  BY NothingMatched, PTL
<1>. QED BY <1>1

LEMMA InitShape == WeaverInit => Shape
<1>. SUFFICES ASSUME WeaverInit PROVE Shape
  OBVIOUS
<1>1. /\ node_map = EmptyMap /\ trie = EmptyMap /\ pending = {} /\ phase = "none"
      /\ text = <<>> /\ matches = <<>> /\ i = 0 /\ j = 0 /\ longest = 0
  BY DEF WeaverInit
<1>2. DOMAIN EmptyMap = {}
  BY DEF EmptyMap
<1>3. NodeMap(node_map)
  BY <1>1, <1>2 DEF NodeMap
<1>4. /\ text \in String /\ Len(text) = 0 /\ matches \in Seq(DrosMatch) /\ Range(matches) = {}
  BY <1>1, EmptySeq DEF String, Range
<1>5. WeaverTypeOK
  BY <1>1, <1>2, <1>3, <1>4 DEF WeaverTypeOK
<1>6. TrieExact /\ CursorsOK
  BY <1>1, <1>2 DEF TrieExact, CursorsOK
<1>. QED BY <1>5, <1>6 DEF Shape

LEMMA NewShape ==
  ASSUME Shape, NEW mf \in Manifests, NewWeaver(mf)
  PROVE  Shape' /\ phase' = "building"
<1>. USE DEF Shape
<1>1. /\ phase = "none" /\ phase' = "building" /\ node_map' = mf /\ pending' = DOMAIN mf
      /\ UNCHANGED <<trie, text, matches, i, j, longest>>
  BY DEF NewWeaver, weaveVars
<1>2. NodeMap(mf)
  BY WeaverAssumption
<1>3. i = 0 /\ j = 0 /\ longest = 0 /\ matches = <<>> /\ Range(matches) = {}
  BY <1>1 DEF CursorsOK, Range
<1>4. DOMAIN trie = {}
  BY <1>1 DEF TrieExact
<1>5. WeaverTypeOK'
  BY <1>1, <1>2, <1>3, <1>4 DEF WeaverTypeOK
<1>6. TrieExact' /\ CursorsOK'
  BY <1>1, <1>3, <1>4 DEF TrieExact, CursorsOK
<1>. QED BY <1>1, <1>5, <1>6

\* A node's words go into the trie under its id; a word that another node has put
\* there before now belongs to this one.
LEMMA InsertShape ==
  ASSUME Shape, NEW n \in pending, InsertNode(n)
  PROVE  Shape' /\ phase' = "building"
<1>. USE DEF Shape
<1>1. /\ phase = "building" /\ phase' = "building"
      /\ trie' = Inserted(n) /\ pending' = pending \ {n}
      /\ UNCHANGED <<node_map, text, matches, i, j, longest>>
  BY DEF InsertNode, weaveVars
<1>2. n \in DOMAIN node_map /\ Words(n) \subseteq String \ {<<>>}
  BY WordsType DEF WeaverTypeOK
<1>3. \A x : Words(x)' = Words(x)
  BY <1>1 DEF Words
<1>4. /\ DOMAIN trie' = DOMAIN trie \cup Words(n)
      /\ \A w \in Words(n) : trie'[w] = n
      /\ \A w \in DOMAIN trie \ Words(n) : trie'[w] = trie[w]
  BY <1>1 DEF Inserted
<1>5. \A w \in DOMAIN trie' : w \in Words(n) \/ w \in DOMAIN trie \ Words(n)
  BY <1>4
<1>6. WeaverTypeOK'
  BY <1>1, <1>2, <1>4, <1>5 DEF WeaverTypeOK
<1>7. TrieExact'
  <2>1. \A w \in DOMAIN trie' :
          trie'[w] \in DOMAIN node_map \ pending' /\ w \in Words(trie'[w])
    BY <1>1, <1>2, <1>4, <1>5 DEF TrieExact
  <2>2. \A x \in DOMAIN node_map \ pending' : Words(x) \subseteq DOMAIN trie'
    BY <1>1, <1>4 DEF TrieExact
  <2>. QED BY <1>1, <1>3, <2>1, <2>2 DEF TrieExact, Words
<1>8. CursorsOK'
  BY <1>1 DEF CursorsOK
<1>. QED BY <1>1, <1>6, <1>7, <1>8

LEMMA BuiltShape ==
  ASSUME Shape, TrieBuilt
  PROVE  Shape' /\ phase' = "idle"
<1>1. /\ phase = "building" /\ pending = {} /\ phase' = "idle"
      /\ UNCHANGED <<node_map, trie, pending, text, matches, i, j, longest>>
  BY DEF TrieBuilt, engineVars, weaveVars
<1>. QED BY <1>1 DEF Shape, WeaverTypeOK, TrieExact, CursorsOK, Words, NodeMap

\* Between two calls of weave nothing of the last one is left.
LEMMA ForgetShape ==
  ASSUME Shape, phase = "woven", phase' = "idle", UNCHANGED engineVars,
         text' = <<>>, matches' = <<>>, i' = 0, j' = 0, longest' = 0
  PROVE  Shape'
<1>1. UNCHANGED <<node_map, trie, pending>> /\ Range(matches') = {} /\ Len(text') = 0
      /\ text' \in String /\ matches' \in Seq(DrosMatch)
  BY EmptySeq DEF engineVars, Range, String
<1>2. WeaverTypeOK'
  BY <1>1 DEF Shape, WeaverTypeOK, NodeMap
<1>3. TrieExact' /\ CursorsOK'
  BY <1>1 DEF Shape, TrieExact, CursorsOK, Words
<1>. QED BY <1>2, <1>3 DEF Shape

-----------------------------------------------------------------------------
(* The search for coordinates. *)

LEMMA WeaveKeeps ==
  ASSUME Shape, NEW t \in Texts, Weave(t)
  PROVE  WeaverInv'
<1>1. /\ phase = "idle" /\ phase' = "coordinates"
      /\ text' = t /\ matches' = <<>> /\ i' = 0 /\ j' = 0 /\ longest' = 0
      /\ UNCHANGED <<node_map, trie, pending>>
  BY DEF Weave, engineVars
<1>2. /\ t \in String /\ Len(t) \in Nat /\ matches' \in Seq(DrosMatch)
      /\ Range(matches') = {} /\ DOMAIN matches' = {}
  BY <1>1, WeaverAssumption, EmptySeq, LenProperties DEF String, Range
<1>3. WeaverTypeOK'
  BY <1>1, <1>2 DEF Shape, WeaverTypeOK, NodeMap
<1>4. TrieExact' /\ CursorsOK'
  BY <1>1 DEF Shape, TrieExact, CursorsOK, Words
<1>5. LookedUp'
  <2>1. \A s \in Spans' : 0 <= s[1] /\ s[1] < s[2] /\ ~ s[2] <= 0
    BY <1>1, <1>2 DEF Spans
  <2>. QED BY <1>1, <1>2, <2>1 DEF LookedUp
<1>6. ScanMatches' = {}
  BY <1>2 DEF ScanMatches
<1>. QED
  BY <1>1, <1>3, <1>4, <1>5, <1>6 DEF Shape, WeaverInv, CoordinatesExact, WalkOK, BehindCursor,
     LeftmostLongest, MatchNamesOwner

LEMMA SpanType ==
  ASSUME text \in String, NEW s \in Spans
  PROVE  /\ s = <<s[1], s[2]>> /\ s[1] \in Nat /\ s[2] \in Nat /\ s[1] < s[2]
         /\ s[1] \in 0 .. Len(text) /\ s[2] \in s[1] .. Len(text) /\ Len(text) \in Nat
BY LenProperties DEF Spans, String

\* A coordinate is a run of word characters.
LEMMA CoordinateWord ==
  ASSUME text \in String, NEW s \in Spans, Slice(s[1], s[2]) \in Coordinates
  PROVE  \A k \in s[1] + 1 .. s[2] : IsWordChar(k)
<1>. SUFFICES ASSUME NEW k \in s[1] + 1 .. s[2] PROVE IsWordChar(k)
  OBVIOUS
<1>1. Slice(s[1], s[2]) \in Seq(WordChar)
  BY WeaverAssumption
<1>2. /\ Len(Slice(s[1], s[2])) = s[2] - s[1]
      /\ \A n \in 1 .. s[2] - s[1] : Slice(s[1], s[2])[n] = text[s[1] + n]
  BY SpanType, SliceType
<1>3. k - s[1] \in 1 .. s[2] - s[1] /\ s[1] + (k - s[1]) = k /\ k \in 1 .. Len(text)
  BY SpanType
<1>4. text[k] \in WordChar
  BY <1>1, <1>2, <1>3, ElementOfSeq
<1>. QED BY <1>3, <1>4, LenProperties DEF IsWordChar, String

\* Two coordinates of a text are one or lie apart: word boundaries admit no other.
LEMMA CoordinatesApart ==
  ASSUME text \in String, NEW s \in Spans, NEW r \in Spans,
         CoordinateAt(s[1], s[2]), CoordinateAt(r[1], r[2])
  PROVE  s = r \/ s[2] <= r[1] \/ r[2] <= s[1]
<1>1. /\ \A k \in s[1] + 1 .. s[2] : IsWordChar(k)
      /\ \A k \in r[1] + 1 .. r[2] : IsWordChar(k)
      /\ ~ IsWordChar(s[1]) /\ ~ IsWordChar(s[2] + 1)
      /\ ~ IsWordChar(r[1]) /\ ~ IsWordChar(r[2] + 1)
  BY CoordinateWord DEF CoordinateAt
<1>2. /\ s = <<s[1], s[2]>> /\ s[1] \in Nat /\ s[2] \in Nat /\ s[1] < s[2]
      /\ r = <<r[1], r[2]>> /\ r[1] \in Nat /\ r[2] \in Nat /\ r[1] < r[2]
  BY SpanType
<1>3. ASSUME s[1] < r[2], r[1] < s[2] PROVE s[1] = r[1] /\ s[2] = r[2]
  <2>1. ~ s[1] < r[1]
    BY <1>1, <1>2, <1>3
  <2>2. ~ r[1] < s[1]
    BY <1>1, <1>2, <1>3
  <2>3. ~ s[2] < r[2]
    BY <1>1, <1>2, <1>3
  <2>4. ~ r[2] < s[2]
    BY <1>1, <1>2, <1>3
  <2>. QED BY <1>2, <2>1, <2>2, <2>3, <2>4
<1>4. s[1] = r[1] /\ s[2] = r[2] => s = r
  BY <1>2
<1>. QED BY <1>2, <1>3, <1>4

LEMMA AppendRange ==
  ASSUME NEW S, NEW q \in Seq(S), NEW e \in S
  PROVE  /\ Append(q, e) \in Seq(S) /\ Range(Append(q, e)) = Range(q) \cup {e}
         /\ Len(q) \in Nat /\ DOMAIN q = 1 .. Len(q)
         /\ DOMAIN Append(q, e) = 1 .. Len(q) + 1
         /\ \A k \in DOMAIN q : Append(q, e)[k] = q[k]
         /\ Append(q, e)[Len(q) + 1] = e
<1>1. /\ Append(q, e) \in Seq(S) /\ Len(Append(q, e)) = Len(q) + 1
      /\ \A k \in 1 .. Len(q) : Append(q, e)[k] = q[k]
      /\ Append(q, e)[Len(q) + 1] = e
  BY AppendProperties
<1>2. /\ Len(q) \in Nat /\ DOMAIN q = 1 .. Len(q)
      /\ DOMAIN Append(q, e) = 1 .. Len(q) + 1
  BY <1>1, LenProperties
<1>3. 1 .. Len(q) + 1 = (1 .. Len(q)) \cup {Len(q) + 1}
  BY <1>2
<1>4. Range(Append(q, e)) = Range(q) \cup {e}
  BY <1>1, <1>2, <1>3 DEF Range
<1>. QED BY <1>1, <1>2, <1>4

\* A new match at the end of the list.
LEMMA NewMatch ==
  ASSUME Shape, NEW n \in DOMAIN node_map, NEW a \in Nat, NEW b \in Nat, NEW score \in {0, 40}
  PROVE  /\ Match(n, a, b, score) \in DrosMatch
         /\ Match(n, a, b, score).node_id = n
         /\ Match(n, a, b, score).start_index = a
         /\ Match(n, a, b, score).end_index = b
         /\ Match(n, a, b, score).score = score
<1>1. n \in String
  BY DEF Shape, WeaverTypeOK, NodeMap
<1>. QED BY <1>1 DEF Match, DrosMatch

\* One round: the first coordinate behind the cursor is the next in the text.
LEMMA CoordinateKeeps ==
  ASSUME WeaverInv, NextCoordinate
  PROVE  WeaverInv'
<1>. USE DEF WeaverInv, Shape
<1>1. /\ phase = "coordinates" /\ j = 0 /\ longest = 0 /\ j' = 0 /\ longest' = 0
      /\ i \in Nat /\ text \in String /\ Len(text) \in Nat /\ matches \in Seq(DrosMatch)
      /\ UNCHANGED <<node_map, trie, pending, phase, text>>
  BY LenProperties DEF NextCoordinate, engineVars, CursorsOK, WeaverTypeOK, String
<1>2. PICK s \in Spans :
        /\ i <= s[1] /\ CoordinateAt(s[1], s[2])
        /\ \A r \in Spans : i <= r[1] /\ r[1] < s[1] => ~ CoordinateAt(r[1], r[2])
        /\ i' = s[2]
        /\ matches' = IF Slice(s[1], s[2]) \in DOMAIN node_map
                        THEN Append(matches, Match(Slice(s[1], s[2]), s[1], s[2], 40))
                        ELSE matches
  BY DEF NextCoordinate
<1>3. /\ s = <<s[1], s[2]>> /\ s[1] \in Nat /\ s[2] \in Nat /\ s[1] < s[2] /\ s[2] <= Len(text)
  BY <1>1, SpanType
<1>4. \A r \in Spans : r[1] \in Nat /\ r[2] \in Nat /\ r[1] < r[2]
  BY <1>1, SpanType
<1>. DEFINE new == Match(Slice(s[1], s[2]), s[1], s[2], 40)
            known == Slice(s[1], s[2]) \in DOMAIN node_map
<1>5. known => /\ new \in DrosMatch /\ new.node_id = Slice(s[1], s[2])
               /\ new.start_index = s[1] /\ new.end_index = s[2] /\ new.score = 40
  BY <1>3, NewMatch
<1>6. matches' = IF known THEN Append(matches, new) ELSE matches
  BY <1>2
<1>. HIDE DEF new, known
<1>7. /\ matches' \in Seq(DrosMatch)
      /\ Range(matches') = Range(matches) \cup (IF known THEN {new} ELSE {})
  BY <1>1, <1>5, <1>6, AppendRange
<1>8. WeaverTypeOK'
  <2>1. \A m \in Range(matches') : /\ m.node_id \in DOMAIN node_map
                                   /\ m.start_index < m.end_index
                                   /\ m.end_index <= Len(text)
    <3>1. known => new.node_id \in DOMAIN node_map
      BY <1>5 DEF known
    <3>. QED BY <1>3, <1>5, <1>7, <3>1 DEF WeaverTypeOK
  <2>. QED BY <1>1, <1>2, <1>3, <1>7, <2>1 DEF WeaverTypeOK, NodeMap
<1>9. TrieExact' /\ CursorsOK'
  BY <1>1, <1>2, <1>3 DEF TrieExact, CursorsOK, Words
<1>10. Spans' = Spans /\ \A r : KnownCoordinate(r)' <=> KnownCoordinate(r)
  BY <1>1 DEF Spans, KnownCoordinate, CoordinateAt, Slice, IsWordChar
<1>11. ASSUME NEW r \in Spans, CoordinateAt(r[1], r[2])
       PROVE  r = s \/ r[2] <= i \/ s[2] <= r[1]
  <2>1. r[2] <= i \/ i <= r[1]
    BY <1>1, <1>11 DEF LookedUp
  <2>2. i <= r[1] => s[1] <= r[1]
    BY <1>2, <1>3, <1>4, <1>11
  <2>3. s = r \/ s[2] <= r[1] \/ r[2] <= s[1]
    BY <1>1, <1>2, <1>11, CoordinatesApart
  <2>. QED BY <1>3, <1>4, <2>1, <2>2, <2>3
<1>12. ASSUME NEW r \in Spans
       PROVE  r[2] <= s[2] /\ KnownCoordinate(r) <=>
                (r[2] <= i /\ KnownCoordinate(r)) \/ (r = s /\ known)
  <2>1. KnownCoordinate(s) <=> known
    BY <1>2 DEF KnownCoordinate, known
  <2>2. KnownCoordinate(r) => CoordinateAt(r[1], r[2])
    BY DEF KnownCoordinate
  <2>. QED BY <1>1, <1>2, <1>3, <1>4, <1>11, <2>1, <2>2
<1>13. LookedUp'
  <2>1. \A m \in Range(matches') : m.score = 40
    BY <1>1, <1>5, <1>7 DEF LookedUp
  <2>2. {<<m.start_index, m.end_index>> : m \in Range(matches')} =
          {<<m.start_index, m.end_index>> : m \in Range(matches)} \cup (IF known THEN {s} ELSE {})
    BY <1>3, <1>5, <1>7
  <2>3. {<<m.start_index, m.end_index>> : m \in Range(matches)} =
          {r \in Spans : r[2] <= i /\ KnownCoordinate(r)}
    BY <1>1 DEF LookedUp
  <2>4. {r \in Spans : r[2] <= s[2] /\ KnownCoordinate(r)} =
          {r \in Spans : r[2] <= i /\ KnownCoordinate(r)} \cup (IF known THEN {s} ELSE {})
    BY <1>12
  <2>5. \A r \in Spans : CoordinateAt(r[1], r[2]) => r[2] <= s[2] \/ s[2] <= r[1]
    BY <1>1, <1>2, <1>3, <1>4, <1>11
  <2>6. \A k, l \in DOMAIN matches' : k < l => matches'[k].end_index <= matches'[l].start_index
    <3>1. ASSUME NEW m \in Range(matches) PROVE m.end_index <= i
      <4>1. PICK r \in Spans : r[2] <= i /\ r = <<m.start_index, m.end_index>>
        BY <2>3
      <4>. QED BY <4>1
    <3>2. \A k, l \in DOMAIN matches : k < l => matches[k].end_index <= matches[l].start_index
      BY <1>1 DEF LookedUp
    <3>3. CASE known
      <4>1. /\ DOMAIN matches = 1 .. Len(matches) /\ Len(matches) \in Nat
            /\ DOMAIN matches' = 1 .. Len(matches) + 1
            /\ \A k \in DOMAIN matches : matches'[k] = matches[k]
            /\ matches'[Len(matches) + 1] = new
        BY <1>1, <1>5, <1>6, <3>3, AppendRange
      <4>2. \A k \in DOMAIN matches : matches[k].end_index \in Nat
        <5>1. \A k \in DOMAIN matches : matches[k] \in DrosMatch
          BY <1>1, <4>1, ElementOfSeq
        <5>. QED BY <5>1 DEF DrosMatch
      <4>3. \A k \in DOMAIN matches : matches[k].end_index <= s[1]
        BY <1>1, <1>2, <1>3, <3>1, <4>2, SMTT(20) DEF Range
      <4>. QED BY <1>5, <3>2, <3>3, <4>1, <4>3
    <3>4. CASE ~ known
      BY <1>6, <3>2, <3>4
    <3>. QED BY <3>3, <3>4
  <2>7. \A r : CoordinateAt(r[1], r[2])' <=> CoordinateAt(r[1], r[2])
    BY <1>1 DEF CoordinateAt, Slice, IsWordChar
  <2>8. {r \in Spans : r[2] <= i /\ KnownCoordinate(r)}' = {r \in Spans : r[2] <= s[2] /\ KnownCoordinate(r)}
    BY <1>2, <1>10
  <2>. QED BY <1>1, <1>2, <1>10, <2>1, <2>2, <2>3, <2>4, <2>5, <2>6, <2>7, <2>8 DEF LookedUp
<1>14. ScanMatches' = {}
  BY <1>1, <1>5, <1>7 DEF ScanMatches, LookedUp
<1>. QED
  BY <1>1, <1>8, <1>9, <1>13, <1>14 DEF CoordinatesExact, WalkOK, BehindCursor, LeftmostLongest,
     MatchNamesOwner

\* No coordinate is left: those found are all there are.
LEMMA CoordinatesEnd ==
  ASSUME WeaverInv, CoordinatesDone
  PROVE  WeaverInv'
<1>. USE DEF WeaverInv, Shape
<1>1. /\ phase = "coordinates" /\ phase' = "scanning" /\ j = 0 /\ longest = 0 /\ i' = 0
      /\ i \in Nat /\ text \in String /\ Len(text) \in Nat /\ matches \in Seq(DrosMatch)
      /\ UNCHANGED <<node_map, trie, pending, text, matches, j, longest>>
      /\ \A s \in Spans : i <= s[1] => ~ CoordinateAt(s[1], s[2])
  BY LenProperties DEF CoordinatesDone, engineVars, CursorsOK, WeaverTypeOK, String
<1>2. WeaverTypeOK'
  BY <1>1 DEF WeaverTypeOK, NodeMap
<1>3. TrieExact' /\ CursorsOK'
  BY <1>1 DEF TrieExact, CursorsOK, Words
<1>4. ScanMatches = {} /\ CoordinateMatches = Range(matches)
  BY <1>1 DEF ScanMatches, CoordinateMatches, LookedUp
<1>5. ASSUME NEW s \in Spans
      PROVE  (s[2] <= i /\ KnownCoordinate(s)) <=>
               /\ \A k \in s[1] + 1 .. s[2] : IsWordChar(k)
               /\ ~ IsWordChar(s[1]) /\ ~ IsWordChar(s[2] + 1)
               /\ Slice(s[1], s[2]) \in Coordinates \cap DOMAIN node_map
  <2>1. CoordinateAt(s[1], s[2]) => s[2] <= i
    BY <1>1 DEF LookedUp
  <2>2. Slice(s[1], s[2]) \in Coordinates => \A k \in s[1] + 1 .. s[2] : IsWordChar(k)
    BY <1>1, CoordinateWord
  <2>. QED BY <2>1, <2>2 DEF KnownCoordinate, CoordinateAt
<1>6. /\ {<<m.start_index, m.end_index>> : m \in CoordinateMatches} =
           {s \in Spans : s[2] <= i /\ KnownCoordinate(s)}
      /\ \A k, l \in DOMAIN matches : k < l => matches[k].end_index <= matches[l].start_index
  BY <1>1, <1>4 DEF LookedUp
<1>7. \A k \in DOMAIN matches : matches[k].score = 40
  BY <1>1 DEF LookedUp, Range
<1>8. /\ {<<m.start_index, m.end_index>> : m \in CoordinateMatches} =
           {s \in Spans : /\ \A k \in s[1] + 1 .. s[2] : IsWordChar(k)
                          /\ ~ IsWordChar(s[1]) /\ ~ IsWordChar(s[2] + 1)
                          /\ Slice(s[1], s[2]) \in Coordinates \cap DOMAIN node_map}
  BY <1>5, <1>6
<1>9. CoordinatesExact'
  <2>1. /\ Spans' = Spans /\ CoordinateMatches' = CoordinateMatches
        /\ \A k : IsWordChar(k)' <=> IsWordChar(k)
        /\ \A a, b : Slice(a, b)' = Slice(a, b)
    BY <1>1 DEF Spans, CoordinateMatches, IsWordChar, Slice
  <2>. QED BY <1>1, <1>6, <1>7, <1>8, <2>1 DEF CoordinatesExact
<1>10. ScanMatches' = {}
  BY <1>1, <1>4 DEF ScanMatches
<1>. QED
  BY <1>1, <1>2, <1>3, <1>9, <1>10 DEF LookedUp, WalkOK, BehindCursor, LeftmostLongest, MatchNamesOwner

-----------------------------------------------------------------------------
(* The longest-match scan. *)

\* With the trie built, a stretch of the text is a word of it exactly if some node
\* has it as a term.
LEMMA OwnedIsInTrie ==
  ASSUME TrieExact, phase \notin {"none", "building"}, NEW a, NEW b
  PROVE  /\ Owners(a, b) # {} <=> Slice(a, b) \in DOMAIN trie
         /\ Slice(a, b) \in DOMAIN trie => trie[Slice(a, b)] \in Owners(a, b)
BY DEF TrieExact, Owners

\* What the properties of the matches read, apart from the matches.
LEMMA SameText ==
  ASSUME UNCHANGED <<text, node_map>>
  PROVE  /\ \A a, b : Slice(a, b)' = Slice(a, b) /\ Owners(a, b)' = Owners(a, b)
         /\ \A p : TermsAt(p)' = TermsAt(p)
         /\ Spans' = Spans
         /\ \A k : IsWordChar(k)' <=> IsWordChar(k)
<1>1. /\ \A a, b : Slice(a, b)' = Slice(a, b) /\ Owners(a, b)' = Owners(a, b)
      /\ Spans' = Spans
      /\ \A k : IsWordChar(k)' <=> IsWordChar(k)
  BY DEF Slice, Owners, Words, Spans, IsWordChar
<1>. QED BY <1>1 DEF TermsAt

\* Steps that change no match and not the cursor keep what is known of the matches.
LEMMA MatchesStay ==
  ASSUME WeaverInv, phase = "scanning", phase' \in {"scanning", "woven"},
         UNCHANGED <<text, node_map, matches, i>>
  PROVE  (LookedUp /\ CoordinatesExact /\ BehindCursor /\ LeftmostLongest /\ MatchNamesOwner)'
<1>. USE SameText DEF WeaverInv
<1>1. /\ ScanMatches' = ScanMatches /\ CoordinateMatches' = CoordinateMatches
      /\ \A p : Inside(p)' <=> Inside(p)
  BY DEF ScanMatches, CoordinateMatches, Inside
<1>2. CoordinatesExact'
  BY <1>1 DEF CoordinatesExact
<1>3. BehindCursor' /\ MatchNamesOwner' /\ LookedUp'
  BY <1>1 DEF BehindCursor, MatchNamesOwner, LookedUp
<1>4. LeftmostLongest'
  BY <1>1 DEF LeftmostLongest
<1>. QED BY <1>2, <1>3, <1>4

LEMMA FollowKeeps ==
  ASSUME WeaverInv, Follow
  PROVE  WeaverInv'
<1>. USE DEF WeaverInv, Shape
<1>1. /\ phase = "scanning" /\ phase' = "scanning" /\ i < Len(text)
      /\ j' = j + 1 /\ j < Len(text)
      /\ longest' = IF Slice(i, j + 1) \in DOMAIN trie THEN j + 1 - i ELSE longest
      /\ i \in Nat /\ j \in Nat /\ i <= j /\ longest \in Nat /\ Len(text) \in Nat
      /\ UNCHANGED <<node_map, trie, pending, text, matches, i>>
  BY LenProperties DEF Follow, HasChild, engineVars, CursorsOK, WeaverTypeOK, String
<1>2. WeaverTypeOK'
  BY <1>1 DEF WeaverTypeOK, NodeMap
<1>3. TrieExact' /\ CursorsOK'
  BY <1>1 DEF TrieExact, CursorsOK, Words
<1>4. WalkOK'
  <2>1. \A to \in i + 1 .. j + 1 : to \in i + 1 .. j \/ to = j + 1
    BY <1>1
  <2>2. /\ longest' > 0 => i + longest' <= j + 1 /\ Slice(i, i + longest') \in DOMAIN trie
        /\ \A to \in i + 1 .. j + 1 : Slice(i, to) \in DOMAIN trie => to <= i + longest'
    <3>1. CASE Slice(i, j + 1) \in DOMAIN trie
      <4>1. longest' = j + 1 - i /\ i + longest' = j + 1
        BY <1>1, <3>1
      <4>. QED BY <1>1, <3>1, <4>1
    <3>2. CASE Slice(i, j + 1) \notin DOMAIN trie
      BY <1>1, <2>1, <3>2 DEF WalkOK
    <3>. QED BY <3>1, <3>2
  <2>3. \A a, b : Slice(a, b)' = Slice(a, b)
    BY <1>1, SameText
  <2>. QED BY <1>1, <2>2, <2>3 DEF WalkOK
<1>. QED BY <1>1, <1>2, <1>3, <1>4, MatchesStay

LEMMA FinishKeeps ==
  ASSUME WeaverInv, FinishWeave
  PROVE  WeaverInv'
<1>. USE DEF WeaverInv, Shape
<1>1. /\ phase = "scanning" /\ phase' = "woven"
      /\ UNCHANGED <<node_map, trie, pending, text, matches, i, j, longest>>
  BY DEF FinishWeave, engineVars, weaveVars
<1>2. WeaverTypeOK' /\ TrieExact' /\ CursorsOK' /\ WalkOK'
  BY <1>1 DEF WeaverTypeOK, NodeMap, TrieExact, CursorsOK, Words, WalkOK
<1>. QED BY <1>1, <1>2, MatchesStay

\* Where the walk ends, the longest word passed is the longest term that starts at
\* the cursor: a longer one would begin with a child of the node left.
LEMMA LongestTerm ==
  ASSUME WeaverInv, phase = "scanning", i < Len(text), ~ HasChild
  PROVE  /\ longest = 0 => TermsAt(i) = {}
         /\ longest > 0 => TermsAt(i) # {} /\ Max(TermsAt(i)) = i + longest
<1>. USE DEF WeaverInv, Shape
<1>1. /\ text \in String /\ Len(text) \in Nat /\ i \in Nat /\ j \in Nat /\ longest \in Nat
      /\ i <= j /\ j <= Len(text)
  BY LenProperties DEF CursorsOK, WeaverTypeOK, String
<1>2. \A to \in TermsAt(i) : to \in i + 1 .. Len(text) /\ Slice(i, to) \in DOMAIN trie
  BY OwnedIsInTrie DEF TermsAt
<1>3. ASSUME NEW to \in TermsAt(i) PROVE to <= i + longest
  <2>1. CASE to <= j
    BY <1>1, <1>2, <2>1 DEF WalkOK
  <2>2. CASE to > j
    <3>1. j < Len(text) /\ i \in 0 .. Len(text) /\ j + 1 \in i .. Len(text) /\ to \in j + 1 .. Len(text)
      BY <1>1, <1>2, <2>2
    <3>2. IsPrefix(Slice(i, j + 1), Slice(i, to))
      BY <1>1, <3>1, SlicePrefix
    <3>. QED BY <1>2, <3>1, <3>2 DEF HasChild
  <2>. QED BY <1>1, <1>2, <2>1, <2>2
<1>4. ASSUME longest > 0 PROVE TermsAt(i) # {} /\ Max(TermsAt(i)) = i + longest
  <2>1. Slice(i, i + longest) \in DOMAIN trie /\ i + longest \in i + 1 .. Len(text)
    BY <1>1, <1>4 DEF WalkOK
  <2>2. i + longest \in TermsAt(i)
    BY <2>1, OwnedIsInTrie DEF TermsAt
  <2>3. TermsAt(i) \in SUBSET Int
    BY <1>1 DEF TermsAt
  <2>. QED BY <1>3, <2>2, <2>3, MaxIs
<1>5. ASSUME longest = 0 PROVE TermsAt(i) = {}
  BY <1>1, <1>2, <1>3, <1>5
<1>. QED BY <1>4, <1>5

LEMMA EndRoundKeeps ==
  ASSUME WeaverInv, EndRound
  PROVE  WeaverInv'
<1>. USE DEF WeaverInv, Shape
<1>. DEFINE to == i + longest
            found == longest > 0
            new == Match(trie[Slice(i, to)], i, to, 0)
<1>1. /\ phase = "scanning" /\ phase' = "scanning" /\ i < Len(text) /\ ~ HasChild
      /\ matches' = IF found THEN Append(matches, new) ELSE matches
      /\ i' = IF found THEN to ELSE i + 1
      /\ j' = i' /\ longest' = 0
      /\ text \in String /\ Len(text) \in Nat /\ matches \in Seq(DrosMatch)
      /\ i \in Nat /\ j \in Nat /\ longest \in Nat /\ i <= j /\ j <= Len(text) /\ to <= Len(text)
      /\ UNCHANGED <<node_map, trie, pending, text>>
  BY LenProperties DEF EndRound, AfterMatch, engineVars, CursorsOK, WeaverTypeOK, String
<1>2. /\ ~ found => TermsAt(i) = {}
      /\ found => TermsAt(i) # {} /\ Max(TermsAt(i)) = to
  BY <1>1, LongestTerm
<1>3. found => Slice(i, to) \in DOMAIN trie
  BY <1>1 DEF WalkOK
<1>4. found => trie[Slice(i, to)] \in Owners(i, to) /\ trie[Slice(i, to)] \in DOMAIN node_map
  BY <1>1, <1>3, OwnedIsInTrie DEF Owners
<1>5. to \in Nat /\ (found => i < to) /\ i' \in Nat /\ i < i' /\ i' <= Len(text)
  BY <1>1
<1>6. found => /\ new \in DrosMatch /\ new.node_id = trie[Slice(i, to)]
               /\ new.start_index = i /\ new.end_index = to /\ new.score = 0
  BY <1>1, <1>4, <1>5, NewMatch
<1>. HIDE DEF to, found, new
<1>7. /\ matches' \in Seq(DrosMatch)
      /\ Range(matches') = Range(matches) \cup (IF found THEN {new} ELSE {})
  BY <1>1, <1>6, AppendRange
<1>8. /\ ScanMatches' = ScanMatches \cup (IF found THEN {new} ELSE {})
      /\ CoordinateMatches' = CoordinateMatches
  BY <1>6, <1>7 DEF ScanMatches, CoordinateMatches
<1>9. \A m \in ScanMatches :
        m.start_index \in Nat /\ m.end_index \in Nat /\ m.start_index < m.end_index /\ m.end_index <= i
  <2>1. \A m \in ScanMatches : m \in Range(matches) /\ m \in DrosMatch
    BY <1>1, LenProperties, ElementOfSeq DEF ScanMatches, Range
  <2>. QED BY <2>1 DEF WeaverTypeOK, BehindCursor, DrosMatch
<1>10. WeaverTypeOK'
  <2>1. \A m \in Range(matches') : /\ m.node_id \in DOMAIN node_map
                                   /\ m.start_index < m.end_index
                                   /\ m.end_index <= Len(text)
    BY <1>1, <1>4, <1>5, <1>6, <1>7 DEF WeaverTypeOK, to
  <2>. QED BY <1>1, <1>5, <1>7, <2>1 DEF WeaverTypeOK, NodeMap
<1>11. TrieExact' /\ CursorsOK' /\ WalkOK' /\ LookedUp'
  BY <1>1, <1>5 DEF TrieExact, CursorsOK, Words, WalkOK, LookedUp
<1>12. BehindCursor'
  BY <1>1, <1>5, <1>6, <1>8, <1>9 DEF BehindCursor
<1>13. /\ \A a, b : Owners(a, b)' = Owners(a, b)
       /\ \A p : TermsAt(p)' = TermsAt(p)
       /\ \A a, b : Slice(a, b)' = Slice(a, b)
       /\ Spans' = Spans /\ \A k : IsWordChar(k)' <=> IsWordChar(k)
  BY <1>1, SameText
<1>14. MatchNamesOwner'
  <2>1. \A m \in ScanMatches' : m.node_id \in Owners(m.start_index, m.end_index)
    BY <1>4, <1>6, <1>8 DEF MatchNamesOwner
  <2>. QED BY <1>13, <2>1 DEF MatchNamesOwner
<1>15. LeftmostLongest'
  <2>. SUFFICES ASSUME NEW p \in 0 .. i' - 1
                PROVE  {m.end_index : m \in {x \in ScanMatches' : x.start_index = p}} =
                         IF Inside(p)' \/ TermsAt(p) = {} THEN {} ELSE {Max(TermsAt(p))}
    BY <1>13 DEF LeftmostLongest
  <2>1. CASE p < i
    <3>1. Inside(p)' <=> Inside(p)
      BY <1>1, <1>6, <1>8, <2>1 DEF Inside
    <3>2. {x \in ScanMatches' : x.start_index = p} = {x \in ScanMatches : x.start_index = p}
      BY <1>1, <1>6, <1>8, <2>1
    <3>3. p \in 0 .. i - 1
      BY <1>1, <2>1
    <3>. QED BY <1>1, <3>1, <3>2, <3>3 DEF LeftmostLongest
  <2>2. CASE p = i
    <3>1. ~ Inside(p)'
      BY <1>1, <1>6, <1>8, <1>9, <2>2 DEF Inside
    <3>2. {x \in ScanMatches' : x.start_index = p} = IF found THEN {new} ELSE {}
      BY <1>1, <1>6, <1>8, <1>9, <2>2
    <3>. QED BY <1>2, <1>6, <2>2, <3>1, <3>2
  <2>3. CASE p > i
    <3>1. found /\ p < to
      BY <1>1, <1>5, <2>3
    <3>2. Inside(p)'
      BY <1>6, <1>8, <2>3, <3>1 DEF Inside
    <3>3. {x \in ScanMatches' : x.start_index = p} = {}
      BY <1>1, <1>6, <1>8, <1>9, <2>3
    <3>. QED BY <3>2, <3>3
  <2>4. p < i \/ p = i \/ p > i
    BY <1>1, <1>5
  <2>. QED BY <2>1, <2>2, <2>3, <2>4
<1>16. CoordinatesExact'
  <2>1. ASSUME NEW k \in DOMAIN matches', NEW l \in DOMAIN matches', k < l, matches'[l].score = 40
        PROVE  matches'[k].score = 40 /\ matches'[k].end_index <= matches'[l].start_index
    <3>1. CASE found
      <4>1. /\ DOMAIN matches = 1 .. Len(matches) /\ Len(matches) \in Nat
            /\ DOMAIN matches' = 1 .. Len(matches) + 1
            /\ \A n \in DOMAIN matches : matches'[n] = matches[n]
            /\ matches'[Len(matches) + 1] = new
        BY <1>1, <1>6, <3>1, AppendRange
      <4>2. l # Len(matches) + 1
        BY <1>6, <2>1, <3>1, <4>1
      <4>3. k \in DOMAIN matches /\ l \in DOMAIN matches
        BY <2>1, <4>1, <4>2
      <4>. QED BY <1>1, <2>1, <4>1, <4>3 DEF CoordinatesExact
    <3>2. CASE ~ found
      BY <1>1, <2>1, <3>2 DEF CoordinatesExact
    <3>. QED BY <3>1, <3>2
  <2>. QED BY <1>1, <1>8, <1>13, <2>1 DEF CoordinatesExact
<1>. QED BY <1>10, <1>11, <1>12, <1>14, <1>15, <1>16

LEMMA WeaveStepKeeps == WeaverInv /\ WeaveStep => WeaverInv'
BY CoordinateKeeps, CoordinatesEnd, FollowKeeps, EndRoundKeeps, FinishKeeps DEF WeaveStep

LEMMA NewEngineKeeps ==
  ASSUME WeaverInv,
         \/ \E mf \in Manifests : NewWeaver(mf)
         \/ \E n \in pending : InsertNode(n)
         \/ TrieBuilt
  PROVE  WeaverInv'
BY NewShape, InsertShape, BuiltShape, NothingMatchedNext DEF WeaverInv, Idle

\* The matches stay as they are while the navigator and the guard read them.
LEMMA WovenKeeps ==
  ASSUME WeaverInv, UNCHANGED weaverVars
  PROVE  WeaverInv'
<1>. USE DEF WeaverInv, Shape
<1>1. UNCHANGED <<node_map, trie, pending, phase, text, matches, i, j, longest>>
  BY DEF weaverVars, engineVars, weaveVars
<1>2. WeaverTypeOK' /\ TrieExact' /\ CursorsOK'
  BY <1>1 DEF WeaverTypeOK, NodeMap, TrieExact, CursorsOK, Words
<1>3. /\ ScanMatches' = ScanMatches /\ CoordinateMatches' = CoordinateMatches
      /\ \A p : Inside(p)' <=> Inside(p)
  BY <1>1 DEF ScanMatches, CoordinateMatches, Inside
<1>4. /\ \A a, b : Slice(a, b)' = Slice(a, b) /\ Owners(a, b)' = Owners(a, b)
      /\ \A p : TermsAt(p)' = TermsAt(p)
      /\ Spans' = Spans
      /\ \A k : IsWordChar(k)' <=> IsWordChar(k)
  BY <1>1, SameText
<1>5. WalkOK' /\ BehindCursor' /\ LeftmostLongest' /\ MatchNamesOwner'
  BY <1>1, <1>3, <1>4 DEF WalkOK, BehindCursor, LeftmostLongest, MatchNamesOwner
<1>6. CoordinatesExact'
  BY <1>1, <1>3, <1>4 DEF CoordinatesExact
<1>7. LookedUp'
  BY <1>1, <1>4 DEF LookedUp, KnownCoordinate, CoordinateAt
<1>. QED BY <1>2, <1>5, <1>6, <1>7

=============================================================================
