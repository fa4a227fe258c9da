-------------------------------- MODULE Dct --------------------------------
(***************************************************************************)
(* One decision of the DCT engine: ClaimsTable::from_pairs packs the       *)
(* caller's claims into one block of memory (src/dct.rs), match_prefix     *)
(* finds the first rule whose prefix the resource has, on the AVX-512 or   *)
(* the scalar path (src/simd_engine.rs), and DctEngine::decide then checks *)
(* the claim the rule asks for.  Each loop takes one step per round.       *)
(*                                                                         *)
(* The sizes are constants: Width is the 64 bytes of an AlignedBuf,        *)
(* MaxData and MaxClaims the 4096 bytes and 64 entries of a ClaimsTable.   *)
(* A 64-bit mask is the set of its one bits.                               *)
(***************************************************************************)
EXTENDS Integers, Sequences

CONSTANTS
  Width, MaxData, MaxClaims,
  Byte,       \* byte values
  Policies,   \* rule lists to load: sequences of [text, attr_offset, effect]
  Resources,  \* request resources: byte strings
  PairLists,  \* claim lists: sequences of byte strings, the pairs' values
  Values      \* dynamic values: byte strings

ASSUME DctAssumption ==
  /\ Width \in Nat \ {0} /\ MaxData \in Nat /\ MaxClaims \in Nat
  /\ 0 \in Byte
  /\ Policies \subseteq Seq([text : Seq(Byte), attr_offset : Nat, effect : Nat])
  /\ Resources \subseteq Seq(Byte)
  /\ PairLists \subseteq Seq(Seq(Byte))
  /\ Values \subseteq Seq(Byte)

Bits == 0 .. Width - 1
AlignedBuf == [data : [Bits -> Byte], len : 0 .. Width]
PrefixRule == [prefix : AlignedBuf, attr_offset : Nat, effect : Nat]

VARIABLES
  policy,       \* the rules as the compiler wrote them
  rules,        \* the rules as the engine holds them
  initialized,
  avx512_supported,
  phase,        \* where the decision is: idle, packing, matching, verifying, done
  resource,     \* arguments of the call under way
  pairs,
  dynamic_value, \* Option: a set of at most one value
  data, offsets, lengths, \* the ClaimsTable: num_claims = Len(offsets)
  at,           \* the rule to compare next
  decision

engineVars == <<policy, rules, initialized, avx512_supported>>
callVars == <<resource, pairs, dynamic_value>>
claimVars == <<data, offsets, lengths>>
vars == <<engineVars, phase, callVars, claimVars, at, decision>>

Smaller(m, n) == IF m <= n THEN m ELSE n
Take(s, n) == SubSeq(s, 1, Smaller(Len(s), n))

load_from(src) ==
  [data |-> [b \in Bits |-> IF b < Len(src) THEN src[b + 1] ELSE 0],
   len  |-> Smaller(Len(src), Width)]

Init ==
  /\ policy = <<>> /\ rules = <<>> /\ initialized = FALSE
  /\ avx512_supported \in BOOLEAN
  /\ phase = "idle"
  /\ resource = <<>> /\ pairs = <<>> /\ dynamic_value = {}
  /\ data = <<>> /\ offsets = <<>> /\ lengths = <<>>
  /\ at = 1 /\ decision = "Deny"

-----------------------------------------------------------------------------
(* Calls. *)

\* DctEngine::load_rules takes the engine exclusively: no decision is under way.
LoadRules(p) ==
  /\ phase = "idle"
  /\ policy' = p
  /\ rules' = [k \in 1 .. Len(p) |-> [prefix      |-> load_from(p[k].text),
                                      attr_offset |-> p[k].attr_offset,
                                      effect      |-> p[k].effect]]
  /\ initialized' = TRUE
  /\ UNCHANGED <<avx512_supported, phase, callVars, claimVars, at, decision>>

Decide(r, ps, dv) ==
  /\ phase = "idle"
  /\ phase' = "packing"
  /\ resource' = r /\ pairs' = ps /\ dynamic_value' = dv
  /\ UNCHANGED <<engineVars, claimVars, at, decision>>

Finish(d) ==
  /\ phase' = "done"
  /\ decision' = d
  /\ UNCHANGED <<engineVars, callVars, claimVars, at>>

\* The caller has its answer, and the call's stack frame is gone.
Return ==
  /\ phase = "done"
  /\ phase' = "idle"
  /\ resource' = <<>> /\ pairs' = <<>> /\ dynamic_value' = {}
  /\ data' = <<>> /\ offsets' = <<>> /\ lengths' = <<>>
  /\ at' = 1 /\ decision' = "Deny"
  /\ UNCHANGED engineVars

-----------------------------------------------------------------------------
(* ClaimsTable. *)

NumClaims == Len(offsets)

\* Mutants: no bound at the end of the block; an offset that ignores the cursor.
WholeLength(v) == Len(v)
StartOfBlock(v) == 0

SafeLength(v) == Smaller(Len(v), MaxData - Len(data))
StartOfCopy(v) == Len(data)

\* One round of the loop of from_pairs; the cursor is Len(data).
PackPair ==
  /\ phase = "packing"
  /\ NumClaims < Smaller(Len(pairs), MaxClaims)
  /\ LET v == pairs[NumClaims + 1]
     IN  /\ data' = data \o SubSeq(v, 1, SafeLength(v))
         /\ offsets' = Append(offsets, StartOfCopy(v))
         /\ lengths' = Append(lengths, SafeLength(v))
  /\ UNCHANGED <<engineVars, phase, callVars, at, decision>>

StartMatching ==
  /\ phase = "packing"
  /\ NumClaims = Smaller(Len(pairs), MaxClaims)
  /\ phase' = "matching"
  /\ UNCHANGED <<engineVars, callVars, claimVars, at, decision>>

HasClaim(idx) == idx < NumClaims /\ offsets[idx + 1] + lengths[idx + 1] <= MaxData

\* Some(slice) of get_claim, where HasClaim(idx).
get_claim(idx) ==
  SubSeq(data, offsets[idx + 1] + 1, offsets[idx + 1] + lengths[idx + 1])

-----------------------------------------------------------------------------
(* SimdPrefixEngine. *)

\* Mutant: no case for 64, where the shift wraps to none in a release build.
ShiftAlways(len) == 0 .. (len % Width) - 1

prefix_mask(len) == IF len >= Width THEN Bits ELSE 0 .. len - 1

eq_mask(prefix, request) == {b \in Bits : prefix.data[b] = request.data[b]}

compare_prefix_avx512(prefix, request) ==
  eq_mask(prefix, request) \cap prefix_mask(prefix.len) = prefix_mask(prefix.len)

compare_prefix_scalar(prefix, request) ==
  \A b \in 0 .. prefix.len - 1 : prefix.data[b] = request.data[b]

compare_prefix(prefix, request) ==
  /\ prefix.len # 0
  /\ request.len >= prefix.len
  /\ IF avx512_supported
       THEN compare_prefix_avx512(prefix, request)
       ELSE compare_prefix_scalar(prefix, request)

RuleMatches == compare_prefix(rules[at].prefix, load_from(resource))

CompareRule ==
  /\ phase = "matching"
  /\ initialized /\ at <= Len(rules)
  /\ IF RuleMatches
       THEN phase' = "verifying" /\ UNCHANGED at
       ELSE at' = at + 1 /\ UNCHANGED phase
  /\ UNCHANGED <<engineVars, callVars, claimVars, decision>>

NoRuleMatches ==
  /\ phase = "matching"
  /\ ~ initialized \/ at > Len(rules)
  /\ Finish("Deny")

-----------------------------------------------------------------------------
(* The end of DctEngine::decide. *)

\* Mutant: zip stops at the shorter slice and nobody compares the lengths.
EqualSoFar(a, b) == \A k \in 1 .. Smaller(Len(a), Len(b)) : a[k] = b[k]

constant_time_eq(a, b) == Len(a) = Len(b) /\ \A k \in 1 .. Len(a) : a[k] = b[k]

ClaimProven(rule) ==
  rule.attr_offset > 0 =>
    /\ HasClaim(rule.attr_offset)
    /\ \E v \in dynamic_value : constant_time_eq(get_claim(rule.attr_offset), v)

Verify ==
  /\ phase = "verifying"
  /\ LET rule == rules[at]
     IN  Finish(IF ClaimProven(rule) /\ rule.effect = 1 THEN "Allow" ELSE "Deny")

Next ==
  \/ \E p \in Policies : LoadRules(p)
  \/ \E r \in Resources, ps \in PairLists :
       Decide(r, ps, {}) \/ \E v \in Values : Decide(r, ps, {v})
  \/ PackPair \/ StartMatching \/ CompareRule \/ NoRuleMatches \/ Verify
  \/ Return

Spec == Init /\ [][Next]_vars

-----------------------------------------------------------------------------
(***************************************************************************)
(* Properties.                                                             *)
(***************************************************************************)

\* Types; the claims never outgrow their block.
TypeOK ==
  /\ policy \in Seq([text : Seq(Byte), attr_offset : Nat, effect : Nat])
  /\ rules \in Seq(PrefixRule)
  /\ initialized \in BOOLEAN /\ avx512_supported \in BOOLEAN
  /\ phase \in {"idle", "packing", "matching", "verifying", "done"}
  /\ resource \in Seq(Byte) /\ pairs \in Seq(Seq(Byte))
  /\ dynamic_value \in SUBSET Seq(Byte)
  /\ data \in Seq(Byte) /\ Len(data) <= MaxData
  /\ offsets \in Seq(Nat) /\ lengths \in Seq(Nat) /\ Len(lengths) = Len(offsets)
  /\ at \in Nat \ {0}
  /\ decision \in {"Allow", "Deny"}

\* Whatever the prefix, the resource and their zero padding, both code paths
\* give one answer: a policy means the same on every CPU.
PathsAgree ==
  phase = "matching" /\ at <= Len(rules) =>
    LET prefix == rules[at].prefix
        request == load_from(resource)
    IN  compare_prefix_avx512(prefix, request) <=> compare_prefix_scalar(prefix, request)

\* A packed claim is the value it was packed from, cut short only when the
\* block is full: no claim reads a byte of its neighbours.
ClaimsKept ==
  \A k \in 1 .. NumClaims :
    /\ HasClaim(k - 1)
    /\ \/ get_claim(k - 1) = pairs[k]
       \/ /\ Len(data) = MaxData
          /\ get_claim(k - 1) = Take(pairs[k], lengths[k])

\* The policy as written: the first rule decides whose text, up to 64 bytes of
\* it, the resource starts with.
HasPrefix(text) == text # <<>> /\ Len(text) <= Len(resource)
                     /\ \A k \in 1 .. Len(text) : text[k] = resource[k]
Applies(k) == HasPrefix(Take(policy[k].text, Width))
Deciding(k) == Applies(k) /\ \A j \in 1 .. k - 1 : ~ Applies(j)

\* An answer is Allow exactly when the first rule that applies allows, and its
\* claim, if it asks for one, is the dynamic value; before any rules are
\* loaded it is Deny.
DecisionFollowsPolicy ==
  phase = "done" =>
    (decision = "Allow" <=>
       \E k \in 1 .. Len(policy) :
         /\ Deciding(k)
         /\ policy[k].effect = 1
         /\ ClaimProven(policy[k]))

\* An Allow under a rule that asks for a claim shows that the caller's value is
\* the one of that claim, unless the claim was cut short by a full block.
AllowProvesClaim ==
  phase = "done" /\ decision = "Allow" =>
    \E k \in 1 .. Len(policy) :
      /\ Deciding(k)
      /\ LET c == policy[k].attr_offset
         IN  c > 0 => /\ c < Len(pairs)
                      /\ \/ pairs[c + 1] \in dynamic_value
                         \/ lengths[c + 1] < Len(pairs[c + 1])

=============================================================================
