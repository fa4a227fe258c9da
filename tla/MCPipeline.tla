----------------------------- MODULE MCPipeline -----------------------------
EXTENDS Pipeline

\* Characters: the T and the digit of a coordinate, which has one digit here
\* in place of four; letters; a blank and a comma, which end words.
Letters == {"T", "A", "x", "y"}
Chars == Letters \cup {"1", " ", ","}
T1 == <<"T", "1">>
T1A == <<"T", "1", "A">>
T1x == <<"T", "1", "x">>
SmallCoordinates == {T1} \cup {Append(T1, c) : c \in Letters}

x == <<"x">>  y == <<"y">>  xy == x \o y  xyx == xy \o x
sp == <<" ">>  comma == <<",">>

Node(canonical, aliases, synapses) ==
  [canonical |-> canonical, aliases |-> aliases, synapses |-> synapses]
Syn(t, r, w) == [target |-> t, relation |-> r, weight |-> w]

\* A word inside another, words to trim, terms of two nodes, a node's id as a
\* term of another; synapses to oneself, to core nodes, to no node, twice to
\* one node, and of equal weight.
NestedWords ==
  T1  :> Node(xyx, <<x>>, <<Syn(T1A, "eq", 1), Syn(T1x, "on", 2)>>) @@
  T1A :> Node(sp \o y \o sp, <<sp, xy>>, <<Syn(T1x, "of", 3), Syn(T1A, "eq", 1)>>) @@
  T1x :> Node(y \o x, <<>>, <<Syn(x, "no", 1), Syn(T1A, "eq", 0)>>)
SharedTerms ==
  T1  :> Node(x, <<xy>>, <<Syn(T1x, "eq", 1), Syn(T1A, "eq", 1)>>) @@
  T1A :> Node(x, <<T1>>, <<Syn(T1x, "on", 2), Syn(T1x, "eq", 1)>>) @@
  T1x :> Node(y \o y \o x, <<y, y \o sp \o y>>, <<Syn(T1, "on", 1)>>)
NoTerms == x :> Node(sp, <<>>, <<Syn(T1, "eq", 1)>>) @@ T1 :> Node(x, <<>>, <<>>)

SmallManifests == {NestedWords, SharedTerms, NoTerms}

\* Every text of up to four of these characters, and texts with coordinates at
\* either end, next to a letter, next to each other, and with a longer one.
SmallTexts ==
  UNION {[1 .. n -> {"x", "y", " "}] : n \in 0 .. 4} \cup
  {T1, x \o T1, T1 \o comma \o x, T1A \o sp \o T1, T1 \o sp \o T1, x \o comma \o T1x,
   T1 \o xy, T1 \o y \o x, T1A \o x, sp \o T1A \o comma \o xyx, T1 \o sp \o T1x}

=============================================================================
