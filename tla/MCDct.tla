------------------------------- MODULE MCDct -------------------------------
EXTENDS Dct

\* Texts below, at and above the width of 2, with and without zero bytes.
Texts == {<<>>, <<1>>, <<1, 0>>, <<0, 1>>, <<1, 1, 0>>}
Rules == {[text |-> t, attr_offset |-> a, effect |-> 1] : t \in Texts, a \in 0 .. 2}
           \cup {[text |-> t, attr_offset |-> 0, effect |-> 0] : t \in Texts}
SmallPolicies == {<<>>} \cup {<<r>> : r \in Rules} \cup {<<r, s>> : r, s \in Rules}

SmallResources == {<<>>, <<1>>, <<0, 1>>, <<1, 0, 1>>, <<1, 1, 1>>}

\* One claim as the C interface passes it, and more than fit the block of 3
\* bytes or the table of 3 claims.
SmallPairLists ==
  {<< <<1>> >>, << <<1>>, <<0>> >>, << <<>>, <<1, 0>> >>,
   << <<1>>, <<0, 1, 1>>, <<1>> >>, << <<0>>, <<1>>, <<>>, <<1>> >>}
SmallValues == {<<>>, <<1>>, <<1, 0>>}

=============================================================================
