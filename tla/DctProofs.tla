----------------------------- MODULE DctProofs -----------------------------
(***************************************************************************)
(* Proofs about a DCT decision, for every buffer width, table size, policy *)
(* and request.                                                            *)
(***************************************************************************)
EXTENDS Dct, SequenceTheorems, TLAPS

\* The engine holds each rule of the policy, its prefix cut to the width.
RulesKept ==
  /\ Len(rules) = Len(policy)
  /\ \A k \in 1 .. Len(policy) :
       /\ rules[k].prefix = load_from(policy[k].text)
       /\ rules[k].attr_offset = policy[k].attr_offset
       /\ rules[k].effect = policy[k].effect

\* No rule behind the loop applies; the one being verified does.
Searched ==
  /\ phase \in {"idle", "packing"} => at = 1
  /\ phase = "matching" => \A j \in 1 .. Len(policy) : j < at => ~ Applies(j)
  /\ phase = "verifying" => at \in 1 .. Len(policy) /\ Deciding(at)
  /\ ~ initialized => policy = <<>>

IInv == TypeOK /\ RulesKept /\ Searched /\ DecisionFollowsPolicy

-----------------------------------------------------------------------------
(* Prefixes and buffers. *)

LEMMA WidthType == Width \in Nat \ {0} /\ MaxData \in Nat /\ MaxClaims \in Nat /\ 0 \in Byte
BY DctAssumption

LEMMA TakeProperties ==
  ASSUME NEW S, NEW s \in Seq(S), NEW n \in Nat
  PROVE  /\ Take(s, n) \in Seq(S)
         /\ Len(Take(s, n)) = Smaller(Len(s), n)
         /\ \A k \in 1 .. Len(Take(s, n)) : Take(s, n)[k] = s[k]
<1>. DEFINE m == Smaller(Len(s), n)
<1>1. m \in 0 .. Len(s)
  BY LenProperties DEF Smaller
<1>2. \A k \in 1 .. m : s[k] \in S
  BY <1>1, ElementOfSeq, LenProperties
<1>. HIDE DEF m
<1>3. /\ SubSeq(s, 1, m) \in Seq(S)
      /\ Len(SubSeq(s, 1, m)) = IF 1 <= m THEN m - 1 + 1 ELSE 0
      /\ \A k \in 1 .. m - 1 + 1 : SubSeq(s, 1, m)[k] = s[1 + k - 1]
  BY <1>1, <1>2, SubSeqProperties, LenProperties
<1>4. Len(SubSeq(s, 1, m)) = m
  BY <1>1, <1>3, LenProperties
<1>5. \A k \in 1 .. m : SubSeq(s, 1, m)[k] = s[k]
  BY <1>1, <1>3, LenProperties
<1>. QED BY <1>3, <1>4, <1>5 DEF Take, m

LEMMA BufferType ==
  ASSUME NEW s \in Seq(Byte)
  PROVE  /\ load_from(s) \in AlignedBuf
         /\ load_from(s).len = Smaller(Len(s), Width)
         /\ \A b \in Bits : load_from(s).data[b] = IF b < Len(s) THEN s[b + 1] ELSE 0
<1>1. Len(s) \in Nat
  BY LenProperties
<1>2. \A b \in Bits : b < Len(s) => s[b + 1] \in Byte
  BY <1>1, ElementOfSeq, WidthType DEF Bits
<1>3. Smaller(Len(s), Width) \in 0 .. Width
  BY <1>1, WidthType DEF Smaller
<1>. QED BY <1>2, <1>3, WidthType DEF load_from, AlignedBuf

\* One answer on every CPU: equality under the mask is equality of the first
\* prefix.len bytes.
LEMMA PathsAgreeOn ==
  ASSUME NEW p \in AlignedBuf, NEW r \in AlignedBuf
  PROVE  compare_prefix_avx512(p, r) <=> compare_prefix_scalar(p, r)
<1>1. prefix_mask(p.len) = 0 .. p.len - 1 /\ 0 .. p.len - 1 \subseteq Bits
  BY WidthType DEF prefix_mask, Bits, AlignedBuf
<1>. QED BY <1>1 DEF compare_prefix_avx512, compare_prefix_scalar, eq_mask

\* The engine's comparison of buffers is the prefix relation of the texts, cut
\* to the width: zero padding never makes or breaks a match.
LEMMA CompareIsHasPrefix ==
  ASSUME NEW t \in Seq(Byte), resource \in Seq(Byte)
  PROVE  compare_prefix(load_from(t), load_from(resource)) <=> HasPrefix(Take(t, Width))
<1>. DEFINE p == load_from(t)
            r == load_from(resource)
            u == Take(t, Width)
<1>1. /\ p \in AlignedBuf /\ p.len = Smaller(Len(t), Width)
      /\ \A b \in Bits : p.data[b] = IF b < Len(t) THEN t[b + 1] ELSE 0
  BY BufferType
<1>2. /\ r \in AlignedBuf /\ r.len = Smaller(Len(resource), Width)
      /\ \A b \in Bits : r.data[b] = IF b < Len(resource) THEN resource[b + 1] ELSE 0
  BY BufferType
<1>3. /\ u \in Seq(Byte) /\ Len(u) = Smaller(Len(t), Width)
      /\ \A k \in 1 .. Len(u) : u[k] = t[k]
  BY TakeProperties, WidthType
<1>4. Len(t) \in Nat /\ Len(resource) \in Nat /\ Len(u) \in Nat
  BY <1>3, LenProperties
<1>5. u = <<>> <=> p.len = 0
  BY <1>1, <1>3, EmptySeq
<1>. HIDE DEF p, r, u
<1>6. r.len >= p.len <=> Len(u) <= Len(resource)
  BY <1>1, <1>2, <1>3, <1>4, WidthType DEF Smaller
<1>7. ASSUME Len(u) <= Len(resource)
      PROVE  compare_prefix_scalar(p, r) <=> \A k \in 1 .. Len(u) : u[k] = resource[k]
  <2>1. Len(u) <= Width /\ Len(u) <= Len(t) /\ p.len = Len(u)
    BY <1>1, <1>3, <1>4, WidthType DEF Smaller
  <2>2. \A b \in 0 .. Len(u) - 1 :
          p.data[b] = t[b + 1] /\ r.data[b] = resource[b + 1] /\ u[b + 1] = t[b + 1]
    <3> TAKE b \in 0 .. Len(u) - 1
    <3>1. b \in Bits /\ b < Len(t) /\ b < Len(resource) /\ b + 1 \in 1 .. Len(u)
      BY <1>4, <1>7, <2>1, WidthType DEF Bits
    <3>. QED BY <3>1, <1>1, <1>2, <1>3
  <2>3. compare_prefix_scalar(p, r) <=> \A b \in 0 .. Len(u) - 1 : u[b + 1] = resource[b + 1]
    BY <2>1, <2>2 DEF compare_prefix_scalar
  <2>4. ASSUME \A b \in 0 .. Len(u) - 1 : u[b + 1] = resource[b + 1], NEW k \in 1 .. Len(u)
        PROVE  u[k] = resource[k]
    <3>1. k - 1 \in 0 .. Len(u) - 1 /\ (k - 1) + 1 = k
      BY <1>4
    <3>2. u[(k - 1) + 1] = resource[(k - 1) + 1]
      BY <2>4, <3>1
    <3>. QED BY <3>1, <3>2
  <2>5. ASSUME \A k \in 1 .. Len(u) : u[k] = resource[k], NEW b \in 0 .. Len(u) - 1
        PROVE  u[b + 1] = resource[b + 1]
    BY <1>4, <2>5
  <2>. QED BY <2>3, <2>4, <2>5
<1>8. compare_prefix_avx512(p, r) <=> compare_prefix_scalar(p, r)
  BY <1>1, <1>2, PathsAgreeOn
<1>9. compare_prefix(p, r) <=> p.len # 0 /\ r.len >= p.len /\ compare_prefix_scalar(p, r)
  BY <1>8 DEF compare_prefix
<1>. QED BY <1>5, <1>6, <1>7, <1>9 DEF HasPrefix, p, r, u


-----------------------------------------------------------------------------
(* The engine's state and the search. *)

Record == [text : Seq(Byte), attr_offset : Nat, effect : Nat]

LEMMA InitHolds == Init => IInv
<1> SUFFICES ASSUME Init PROVE IInv
  OBVIOUS
<1>1. policy = <<>> /\ rules = <<>> /\ Len(policy) = 0 /\ Len(rules) = 0
  BY EmptySeq DEF Init
<1>2. /\ policy \in Seq([text : Seq(Byte), attr_offset : Nat, effect : Nat])
      /\ rules \in Seq(PrefixRule)
      /\ resource \in Seq(Byte) /\ pairs \in Seq(Seq(Byte))
      /\ data \in Seq(Byte) /\ Len(data) = 0
      /\ offsets \in Seq(Nat) /\ lengths \in Seq(Nat) /\ Len(lengths) = Len(offsets)
  BY EmptySeq DEF Init
<1>3. dynamic_value \in SUBSET Seq(Byte)
  BY DEF Init
<1>4. initialized \in BOOLEAN /\ avx512_supported \in BOOLEAN
  BY Zenon DEF Init
<1>6. phase = "idle" /\ at \in Nat \ {0} /\ decision = "Deny"
  BY DEF Init
<1>5. TypeOK
  BY <1>2, <1>3, <1>4, <1>6, WidthType DEF TypeOK
<1>. QED BY <1>1, <1>5 DEF Init, IInv, RulesKept, Searched, DecisionFollowsPolicy

LEMMA LoadRulesKeeps ==
  ASSUME NEW p \in Policies
  PROVE  IInv /\ LoadRules(p) => IInv'
<1> SUFFICES ASSUME IInv, LoadRules(p) PROVE IInv'
  OBVIOUS
<1>1. p \in Seq(Record)
  BY DctAssumption DEF Record
<1>2. Len(p) \in Nat /\ \A k \in 1 .. Len(p) : p[k] \in Record
  BY <1>1, LenProperties, ElementOfSeq
<1>. DEFINE rule(k) == [prefix      |-> load_from(p[k].text),
                        attr_offset |-> p[k].attr_offset,
                        effect      |-> p[k].effect]
<1>3. rules' = [k \in 1 .. Len(p) |-> rule(k)] /\ policy' = p /\ initialized'
  BY DEF LoadRules
<1>4. \A k \in 1 .. Len(p) : rule(k) \in PrefixRule
  <2> TAKE k \in 1 .. Len(p)
  <2>1. p[k].text \in Seq(Byte) /\ p[k].attr_offset \in Nat /\ p[k].effect \in Nat
    BY <1>2 DEF Record
  <2>. QED BY <2>1, BufferType DEF PrefixRule
<1>5. rules' \in Seq(PrefixRule)
  <2>. HIDE DEF rule
  <2>1. [k \in 1 .. Len(p) |-> rule(k)] \in Seq(PrefixRule)
    BY <1>2, <1>4, IsASeq
  <2>. QED BY <1>3, <2>1
<1>6. Len(rules') = Len(p)
  BY <1>2, <1>3, <1>5, LenProperties
<1>7. UNCHANGED <<avx512_supported, phase, resource, pairs, dynamic_value, data,
                  offsets, lengths, at, decision>> /\ phase = "idle"
  BY DEF LoadRules, callVars, claimVars
<1>8. TypeOK'
  BY <1>1, <1>3, <1>5, <1>7 DEF IInv, TypeOK, Record
<1>9. RulesKept'
  BY <1>3, <1>6 DEF RulesKept
<1>10. (Searched /\ DecisionFollowsPolicy)'
  BY <1>3, <1>7 DEF IInv, Searched, DecisionFollowsPolicy
<1>. QED BY <1>8, <1>9, <1>10 DEF IInv

LEMMA DecideKeeps ==
  ASSUME NEW r \in Resources, NEW ps \in PairLists, NEW dv \in SUBSET Values
  PROVE  IInv /\ Decide(r, ps, dv) => IInv'
<1> SUFFICES ASSUME IInv, Decide(r, ps, dv) PROVE IInv'
  OBVIOUS
<1>1. r \in Seq(Byte) /\ ps \in Seq(Seq(Byte)) /\ dv \in SUBSET Seq(Byte)
  BY DctAssumption
<1>2. TypeOK'
  BY <1>1 DEF IInv, TypeOK, Decide, engineVars, claimVars
<1>. QED BY <1>2 DEF IInv, Decide, engineVars, claimVars, RulesKept, Searched,
             DecisionFollowsPolicy

LEMMA ReturnKeeps == IInv /\ Return => IInv'
<1> SUFFICES ASSUME IInv, Return PROVE IInv'
  OBVIOUS
<1>1. /\ resource' \in Seq(Byte) /\ pairs' \in Seq(Seq(Byte))
      /\ data' \in Seq(Byte) /\ Len(data') = 0
      /\ offsets' \in Seq(Nat) /\ lengths' \in Seq(Nat) /\ Len(lengths') = Len(offsets')
  BY EmptySeq DEF Return
<1>2. dynamic_value' \in SUBSET Seq(Byte)
  BY DEF Return
<1>3. TypeOK'
  BY <1>1, <1>2, WidthType DEF IInv, TypeOK, Return, engineVars
<1>. QED BY <1>3 DEF IInv, Return, engineVars, RulesKept, Searched,
             DecisionFollowsPolicy

\* The comparison of the loop's rule asks whether that rule applies.
LEMMA RuleMatchesIsApplies ==
  ASSUME IInv, at \in 1 .. Len(policy)
  PROVE  RuleMatches <=> Applies(at)
<1>1. policy[at].text \in Seq(Byte) /\ resource \in Seq(Byte)
  <2>1. policy \in Seq(Record)
    BY DEF IInv, TypeOK, Record
  <2>2. policy[at] \in Record
    BY <2>1, ElementOfSeq
  <2>. QED BY <2>2 DEF Record, IInv, TypeOK
<1>2. rules[at].prefix = load_from(policy[at].text)
  BY DEF IInv, RulesKept
<1>. QED BY <1>1, <1>2, CompareIsHasPrefix DEF RuleMatches, Applies

LEMMA CompareRuleKeeps == IInv /\ CompareRule => IInv'
<1> SUFFICES ASSUME IInv, CompareRule PROVE IInv'
  OBVIOUS
<1>0. /\ phase = "matching" /\ at \in 1 .. Len(policy)
      /\ UNCHANGED <<policy, rules, initialized, avx512_supported, resource, pairs,
                     dynamic_value, data, offsets, lengths, decision>>
  <2>1. at \in Nat \ {0} /\ at <= Len(policy) /\ Len(policy) \in Nat
    BY LenProperties DEF CompareRule, IInv, TypeOK, RulesKept
  <2>. QED BY <2>1 DEF CompareRule, engineVars, callVars, claimVars
<1>1. CASE RuleMatches
  <2>1. phase' = "verifying" /\ at' = at
    BY <1>1 DEF CompareRule
  <2>2. Deciding(at)
    <3>1. Applies(at)
      BY <1>0, <1>1, RuleMatchesIsApplies
    <3>2. \A j \in 1 .. at - 1 : j \in 1 .. Len(policy) /\ j < at
      BY <1>0
    <3>. QED BY <1>0, <3>1, <3>2 DEF Deciding, IInv, Searched
  <2>3. Deciding(at)'
    BY <1>0, <2>1, <2>2 DEF Deciding, Applies, HasPrefix
  <2>4. (TypeOK /\ RulesKept)'
    BY <1>0, <2>1 DEF IInv, TypeOK, RulesKept
  <2>5. (Searched /\ DecisionFollowsPolicy)'
    BY <1>0, <2>1, <2>3 DEF IInv, Searched, DecisionFollowsPolicy
  <2>. QED BY <2>4, <2>5 DEF IInv
<1>2. CASE ~ RuleMatches
  <2>1. phase' = phase /\ at' = at + 1
    BY <1>2 DEF CompareRule
  <2>2. ~ Applies(at)
    BY <1>0, <1>2, RuleMatchesIsApplies
  <2>3. \A j \in 1 .. Len(policy) : j < at + 1 => ~ Applies(j)
    <3> SUFFICES ASSUME NEW j \in 1 .. Len(policy), j < at + 1 PROVE ~ Applies(j)
      OBVIOUS
    <3>1. j = at \/ j < at
      BY <1>0
    <3>. QED BY <3>1, <1>0, <2>2 DEF IInv, Searched
  <2>4. \A j \in 1 .. Len(policy') : j < at' => ~ Applies(j)'
    BY <1>0, <2>1, <2>3 DEF Applies, HasPrefix
  <2>5. (TypeOK /\ RulesKept)'
    BY <1>0, <2>1 DEF IInv, TypeOK, RulesKept
  <2>6. (Searched /\ DecisionFollowsPolicy)'
    BY <1>0, <2>1, <2>4 DEF IInv, Searched, DecisionFollowsPolicy
  <2>. QED BY <2>5, <2>6 DEF IInv
<1>. QED BY <1>1, <1>2

-----------------------------------------------------------------------------
(* The answer. *)

LEMMA ClaimProvenForBoth ==
  ASSUME IInv, NEW k \in 1 .. Len(policy)
  PROVE  /\ ClaimProven(rules[k]) <=> ClaimProven(policy[k])
         /\ rules[k].effect = policy[k].effect
BY DEF IInv, RulesKept, ClaimProven

LEMMA OneDecides ==
  ASSUME Len(policy) \in Nat, NEW j \in 1 .. Len(policy), NEW k \in 1 .. Len(policy),
         Deciding(j), Deciding(k)
  PROVE  j = k
<1>1. CASE j < k
  BY <1>1 DEF Deciding
<1>2. CASE k < j
  BY <1>2 DEF Deciding
<1>. QED BY <1>1, <1>2

\* What any step that ends the search must show.
LEMMA FinishKeeps ==
  ASSUME IInv, NEW d \in {"Allow", "Deny"}, Finish(d),
         d = "Allow" <=> \E k \in 1 .. Len(policy) :
                           Deciding(k) /\ policy[k].effect = 1 /\ ClaimProven(policy[k])
  PROVE  IInv'
<1>1. /\ phase' = "done" /\ decision' = d
      /\ UNCHANGED <<policy, rules, initialized, avx512_supported, resource, pairs,
                     dynamic_value, data, offsets, lengths, at>>
  BY DEF Finish, engineVars, callVars, claimVars
<1>2. (TypeOK /\ RulesKept /\ Searched)'
  BY <1>1 DEF IInv, TypeOK, RulesKept, Searched
<1>3. \A k : /\ Deciding(k)' <=> Deciding(k)
             /\ ClaimProven(policy[k])' <=> ClaimProven(policy[k])
  BY <1>1 DEF Deciding, Applies, HasPrefix, ClaimProven, HasClaim, NumClaims, get_claim
<1>4. DecisionFollowsPolicy'
  BY <1>1, <1>3 DEF DecisionFollowsPolicy
<1>. QED BY <1>2, <1>4 DEF IInv

LEMMA NoRuleMatchesKeeps == IInv /\ NoRuleMatches => IInv'
<1> SUFFICES ASSUME IInv, NoRuleMatches PROVE IInv'
  OBVIOUS
<1>1. \A k \in 1 .. Len(policy) : ~ Deciding(k)
  <2>0. Len(policy) \in Nat /\ at \in Nat
    BY LenProperties DEF IInv, TypeOK
  <2>1. CASE ~ initialized
    BY <2>1, EmptySeq DEF IInv, Searched
  <2>2. CASE at > Len(policy)
    <3>1. \A k \in 1 .. Len(policy) : k < at
      BY <2>0, <2>2
    <3>. QED BY <3>1 DEF IInv, Searched, NoRuleMatches, Deciding
  <2>. QED BY <2>1, <2>2 DEF NoRuleMatches, IInv, RulesKept
<1>2. Finish("Deny")
  BY DEF NoRuleMatches
<1>. QED BY <1>1, <1>2, FinishKeeps

LEMMA VerifyKeeps == IInv /\ Verify => IInv'
<1> SUFFICES ASSUME IInv, Verify PROVE IInv'
  OBVIOUS
<1>. DEFINE d == IF ClaimProven(rules[at]) /\ rules[at].effect = 1 THEN "Allow" ELSE "Deny"
<1>1. at \in 1 .. Len(policy) /\ Deciding(at) /\ Finish(d) /\ d \in {"Allow", "Deny"}
  BY DEF IInv, Searched, Verify
<1>2. d = "Allow" <=> ClaimProven(policy[at]) /\ policy[at].effect = 1
  BY <1>1, ClaimProvenForBoth
<1>3. Len(policy) \in Nat
  BY LenProperties DEF IInv, TypeOK
<1>4. \A k \in 1 .. Len(policy) : Deciding(k) => k = at
  BY <1>1, <1>3, OneDecides
<1>5. d = "Allow" <=> \E k \in 1 .. Len(policy) :
                        Deciding(k) /\ policy[k].effect = 1 /\ ClaimProven(policy[k])
  BY <1>1, <1>2, <1>4
<1>. HIDE DEF d
<1>. QED BY <1>1, <1>5, FinishKeeps

-----------------------------------------------------------------------------
(* Claims. *)

LEMMA StartMatchingKeeps == IInv /\ StartMatching => IInv'
<1> SUFFICES ASSUME IInv, StartMatching PROVE IInv'
  OBVIOUS
<1>1. /\ phase = "packing" /\ phase' = "matching" /\ at = 1
      /\ UNCHANGED <<policy, rules, initialized, avx512_supported, resource, pairs,
                     dynamic_value, data, offsets, lengths, at, decision>>
  BY DEF StartMatching, IInv, Searched, engineVars, callVars, claimVars
<1>2. \A j \in 1 .. Len(policy) : ~ (j < 1)
  BY LenProperties DEF IInv, TypeOK
<1>3. (TypeOK /\ RulesKept)'
  BY <1>1 DEF IInv, TypeOK, RulesKept
<1>4. (Searched /\ DecisionFollowsPolicy)'
  BY <1>1, <1>2 DEF IInv, Searched, DecisionFollowsPolicy
<1>. QED BY <1>3, <1>4 DEF IInv

\* What one round of the packing loop does.
LEMMA PackPairDoes ==
  ASSUME IInv, PackPair
  PROVE  LET n == Len(offsets) + 1
             v == pairs[n]
             m == SafeLength(v)
         IN  /\ n \in 1 .. Len(pairs) /\ v \in Seq(Byte)
             /\ m \in 0 .. Len(v) /\ Len(data) + m <= MaxData
             /\ m = Len(v) \/ Len(data) + m = MaxData
             /\ SubSeq(v, 1, m) \in Seq(Byte) /\ Len(SubSeq(v, 1, m)) = m
             /\ data' = data \o SubSeq(v, 1, m) /\ data' \in Seq(Byte)
             /\ Len(data') = Len(data) + m
             /\ offsets' \in Seq(Nat) /\ Len(offsets') = n
             /\ lengths' \in Seq(Nat) /\ Len(lengths') = n
             /\ \A k \in 1 .. n - 1 : offsets'[k] = offsets[k] /\ lengths'[k] = lengths[k]
             /\ offsets'[n] = Len(data) /\ lengths'[n] = m
<1>. DEFINE n == Len(offsets) + 1
            v == pairs[n]
            m == SafeLength(v)
<1>1. /\ data \in Seq(Byte) /\ Len(data) <= MaxData /\ Len(data) \in Nat
      /\ offsets \in Seq(Nat) /\ lengths \in Seq(Nat) /\ Len(lengths) = Len(offsets)
      /\ Len(offsets) \in Nat /\ pairs \in Seq(Seq(Byte)) /\ Len(pairs) \in Nat
  BY LenProperties DEF IInv, TypeOK
<1>2. n \in 1 .. Len(pairs)
  BY <1>1, WidthType DEF PackPair, NumClaims, Smaller
<1>3. v \in Seq(Byte) /\ Len(v) \in Nat
  BY <1>1, <1>2, ElementOfSeq, LenProperties
<1>. HIDE DEF n, v
<1>4. /\ m \in 0 .. Len(v) /\ m \in Nat /\ Len(data) + m <= MaxData
      /\ m = Len(v) \/ Len(data) + m = MaxData
  BY <1>1, <1>3, WidthType DEF SafeLength, Smaller
<1>. HIDE DEF m
<1>5. SubSeq(v, 1, m) \in Seq(Byte) /\ Len(SubSeq(v, 1, m)) = m
  <2>1. \A k \in 1 .. m : v[k] \in Byte
    BY <1>3, <1>4, ElementOfSeq
  <2>2. /\ SubSeq(v, 1, m) \in Seq(Byte)
        /\ Len(SubSeq(v, 1, m)) = IF 1 <= m THEN m - 1 + 1 ELSE 0
    BY <2>1, <1>4, SubSeqProperties
  <2>. QED BY <2>2, <1>4
<1>6. /\ data' = data \o SubSeq(v, 1, m)
      /\ offsets' = Append(offsets, Len(data)) /\ lengths' = Append(lengths, m)
  BY DEF PackPair, NumClaims, StartOfCopy, n, v, m
<1>7. data' \in Seq(Byte) /\ Len(data') = Len(data) + m
  BY <1>1, <1>5, <1>6, ConcatProperties
<1>8. /\ offsets' \in Seq(Nat) /\ Len(offsets') = n /\ offsets'[n] = Len(data)
      /\ \A k \in 1 .. n - 1 : offsets'[k] = offsets[k]
  BY <1>1, <1>6, AppendProperties DEF n
<1>9. /\ lengths' \in Seq(Nat) /\ Len(lengths') = n /\ lengths'[n] = m
      /\ \A k \in 1 .. n - 1 : lengths'[k] = lengths[k]
  BY <1>1, <1>4, <1>6, AppendProperties DEF n
<1>. QED BY <1>2, <1>3, <1>4, <1>5, <1>6, <1>7, <1>8, <1>9 DEF n, v, m

LEMMA PackPairKeeps == IInv /\ PackPair => IInv'
<1> SUFFICES ASSUME IInv, PackPair PROVE IInv'
  OBVIOUS
<1>1. /\ data' \in Seq(Byte) /\ Len(data') <= MaxData
      /\ offsets' \in Seq(Nat) /\ lengths' \in Seq(Nat) /\ Len(lengths') = Len(offsets')
  BY PackPairDoes
<1>2. /\ phase = "packing"
      /\ UNCHANGED <<policy, rules, initialized, avx512_supported, phase, resource,
                     pairs, dynamic_value, at, decision>>
  BY DEF PackPair, engineVars, callVars
<1>3. TypeOK'
  BY <1>1, <1>2 DEF IInv, TypeOK
<1>. QED BY <1>2, <1>3 DEF IInv, RulesKept, Searched, DecisionFollowsPolicy

-----------------------------------------------------------------------------
LEMMA NextKeeps == IInv /\ [Next]_vars => IInv'
<1> SUFFICES ASSUME IInv, [Next]_vars PROVE IInv'
  OBVIOUS
<1>1. CASE UNCHANGED vars
  <2>1. UNCHANGED <<policy, rules, initialized, avx512_supported, phase, resource,
                    pairs, dynamic_value, data, offsets, lengths, at, decision>>
    BY <1>1 DEF vars, engineVars, callVars, claimVars
  <2>2. \A k : /\ Deciding(k)' <=> Deciding(k)
               /\ Applies(k)' <=> Applies(k)
               /\ ClaimProven(policy[k])' <=> ClaimProven(policy[k])
    BY <2>1 DEF Deciding, Applies, HasPrefix, ClaimProven, HasClaim, NumClaims, get_claim
  <2>3. (TypeOK /\ RulesKept)'
    BY <2>1 DEF IInv, TypeOK, RulesKept
  <2>4. (Searched /\ DecisionFollowsPolicy)'
    BY <2>1, <2>2 DEF IInv, Searched, DecisionFollowsPolicy
  <2>. QED BY <2>3, <2>4 DEF IInv
<1>2. CASE \E p \in Policies : LoadRules(p)
  BY <1>2, LoadRulesKeeps
<1>3. CASE \E r \in Resources, ps \in PairLists :
             Decide(r, ps, {}) \/ \E v \in Values : Decide(r, ps, {v})
  <2>1. {} \in SUBSET Values /\ \A v \in Values : {v} \in SUBSET Values
    OBVIOUS
  <2>. QED BY <1>3, <2>1, DecideKeeps
<1>. QED BY <1>1, <1>2, <1>3, PackPairKeeps, StartMatchingKeeps, CompareRuleKeeps,
            NoRuleMatchesKeeps, VerifyKeeps, ReturnKeeps DEF Next

LEMMA Invariance == Spec => []IInv
BY InitHolds, NextKeeps, PTL DEF Spec

\* Rules, claims and requests keep their types, and the claims stay inside their
\* block, however many pairs of whatever size are packed.
THEOREM TypeCorrect == Spec => []TypeOK
<1>1. IInv => TypeOK
  BY DEF IInv
<1>. QED BY <1>1, Invariance, PTL

\* The decision is the one the policy as written asks for, for every policy,
\* request and set of claims, on every CPU.
THEOREM DecisionIsPolicy == Spec => []DecisionFollowsPolicy
<1>1. IInv => DecisionFollowsPolicy
  BY DEF IInv
<1>. QED BY <1>1, Invariance, PTL

\* The AVX-512 path and the scalar path never differ.
THEOREM PathsAlwaysAgree == Spec => []PathsAgree
<1>1. IInv => PathsAgree
  <2> SUFFICES ASSUME IInv, phase = "matching", at <= Len(rules)
               PROVE  compare_prefix_avx512(rules[at].prefix, load_from(resource))
                        <=> compare_prefix_scalar(rules[at].prefix, load_from(resource))
    BY DEF PathsAgree
  <2>1. rules \in Seq(PrefixRule) /\ at \in 1 .. Len(rules) /\ resource \in Seq(Byte)
    BY LenProperties DEF IInv, TypeOK
  <2>2. rules[at] \in PrefixRule
    BY <2>1, ElementOfSeq
  <2>3. rules[at].prefix \in AlignedBuf
    BY <2>2 DEF PrefixRule
  <2>. QED BY <2>1, <2>3, BufferType, PathsAgreeOn
<1>. QED BY <1>1, InitHolds, NextKeeps, PTL DEF Spec

-----------------------------------------------------------------------------
(* Packed claims keep their values. *)

\* Slice k is the first lengths[k] bytes of value k, and lies in what has been
\* written; a short slice means that the block is full.
Slice(k) ==
  /\ offsets[k] + lengths[k] <= Len(data)
  /\ lengths[k] <= Len(pairs[k])
  /\ SubSeq(data, offsets[k] + 1, offsets[k] + lengths[k]) = SubSeq(pairs[k], 1, lengths[k])
  /\ lengths[k] = Len(pairs[k]) \/ Len(data) = MaxData

Packed ==
  /\ Len(offsets) <= Len(pairs)
  /\ phase = "idle" => Len(offsets) = 0
  /\ \A k \in 1 .. Len(offsets) : Slice(k)

\* What follows a slice does not change it.
LEMMA OldSliceKept ==
  ASSUME NEW s \in Seq(Byte), NEW t \in Seq(Byte), NEW o \in Nat, NEW l \in Nat,
         o + l <= Len(s)
  PROVE  SubSeq(s \o t, o + 1, o + l) = SubSeq(s, o + 1, o + l)
<1>0. Len(s) \in Nat
  BY LenProperties
<1>1. CASE l = 0
  <2>1. /\ SubSeq(s \o t, o + 1, o + l) = <<>>
        /\ SubSeq(s, o + 1, o + l) = <<>>
    BY <1>1, SubSeqEmpty
  <2>. QED BY <2>1
<1>2. CASE l # 0
  <2>1. o + 1 \in 1 .. Len(s) /\ o + l \in 1 .. Len(s)
    BY <1>0, <1>2
  <2>. QED BY <2>1, SubSeqOfConcat1
<1>. QED BY <1>1, <1>2

\* A slice that starts where the block ended is what was appended.
LEMMA NewSliceKept ==
  ASSUME NEW s \in Seq(Byte), NEW t \in Seq(Byte)
  PROVE  SubSeq(s \o t, Len(s) + 1, Len(s) + Len(t)) = t
<1>0. Len(s) \in Nat /\ Len(t) \in Nat
  BY LenProperties
<1>1. CASE Len(t) = 0
  <2>1. SubSeq(s \o t, Len(s) + 1, Len(s) + Len(t)) = <<>>
    BY <1>0, <1>1, SubSeqEmpty
  <2>2. t = <<>>
    BY <1>1, EmptySeq
  <2>. QED BY <2>1, <2>2
<1>2. CASE Len(t) # 0
  <2>1. /\ Len(s) + 1 \in Len(s) + 1 .. Len(s) + Len(t)
        /\ Len(s) + Len(t) \in Len(s) + 1 .. Len(s) + Len(t)
    BY <1>0, <1>2
  <2>2. SubSeq(s \o t, Len(s) + 1, Len(s) + Len(t))
          = SubSeq(t, Len(s) + 1 - Len(s), Len(s) + Len(t) - Len(s))
    BY <2>1, SubSeqOfConcat2
  <2>3. Len(s) + 1 - Len(s) = 1 /\ Len(s) + Len(t) - Len(s) = Len(t)
    BY <1>0
  <2>. QED BY <2>2, <2>3, SubSeqFull
<1>. QED BY <1>1, <1>2

LEMMA PackPairPacks == IInv /\ Packed /\ PackPair => Packed'
<1> SUFFICES ASSUME IInv, Packed, PackPair PROVE Packed'
  OBVIOUS
<1>. DEFINE n == Len(offsets) + 1
            v == pairs[n]
            m == SafeLength(v)
<1>1. /\ n \in 1 .. Len(pairs) /\ v \in Seq(Byte)
      /\ m \in 0 .. Len(v) /\ Len(data) + m <= MaxData
      /\ m = Len(v) \/ Len(data) + m = MaxData
      /\ SubSeq(v, 1, m) \in Seq(Byte) /\ Len(SubSeq(v, 1, m)) = m
      /\ data' = data \o SubSeq(v, 1, m)
      /\ Len(data') = Len(data) + m
      /\ Len(offsets') = n /\ Len(lengths') = n
      /\ \A k \in 1 .. n - 1 : offsets'[k] = offsets[k] /\ lengths'[k] = lengths[k]
      /\ offsets'[n] = Len(data) /\ lengths'[n] = m
  BY PackPairDoes
<1>2. /\ data \in Seq(Byte) /\ Len(data) \in Nat /\ Len(data) <= MaxData
      /\ Len(offsets) \in Nat /\ n - 1 = Len(offsets) /\ n \in Nat
      /\ offsets \in Seq(Nat) /\ lengths \in Seq(Nat) /\ Len(lengths) = Len(offsets)
      /\ pairs' = pairs /\ phase' = "packing" /\ MaxData \in Nat
  BY LenProperties, WidthType DEF IInv, TypeOK, PackPair, callVars
<1>3. Len(v) \in Nat /\ m \in Nat /\ m <= Len(v) /\ Len(pairs) \in Nat
  BY <1>1, LenProperties DEF IInv, TypeOK
<1>4. v = pairs[n]
  OBVIOUS
<1>. HIDE DEF m, v, n
<1>5. ASSUME NEW k \in 1 .. Len(offsets) PROVE Slice(k)'
  <2>1. Slice(k) /\ offsets[k] \in Nat /\ lengths[k] \in Nat
    BY <1>2, ElementOfSeq DEF Packed
  <2>2. offsets'[k] = offsets[k] /\ lengths'[k] = lengths[k]
    BY <1>1, <1>2
  <2>3. /\ offsets[k] + lengths[k] <= Len(data)
        /\ lengths[k] <= Len(pairs[k])
        /\ SubSeq(data, offsets[k] + 1, offsets[k] + lengths[k]) = SubSeq(pairs[k], 1, lengths[k])
        /\ lengths[k] = Len(pairs[k]) \/ Len(data) = MaxData
    BY <2>1 DEF Slice
  <2>4. SubSeq(data', offsets[k] + 1, offsets[k] + lengths[k])
          = SubSeq(data, offsets[k] + 1, offsets[k] + lengths[k])
    <3>. DEFINE t == SubSeq(v, 1, m)
    <3>1. data' = data \o t /\ t \in Seq(Byte)
      BY <1>1
    <3>2. data \in Seq(Byte)
      BY <1>2
    <3>. HIDE DEF t
    <3>3. SubSeq(data \o t, offsets[k] + 1, offsets[k] + lengths[k])
            = SubSeq(data, offsets[k] + 1, offsets[k] + lengths[k])
      BY <2>1, <2>3, <3>1, <3>2, OldSliceKept
    <3>. QED BY <3>1, <3>3
  <2>5. Len(data) <= Len(data') /\ (Len(data) = MaxData => Len(data') = MaxData)
    <3>1. Len(data') = Len(data) + m /\ Len(data) + m <= MaxData
      BY <1>1
    <3>. QED BY <3>1, <1>2, <1>3, SMTT(20)
  <2>6. offsets[k] + lengths[k] <= Len(data')
    <3>. DEFINE end == offsets[k] + lengths[k]
    <3>1. end \in Nat /\ end <= Len(data)
      BY <2>1, <2>3, SMTT(20)
    <3>2. Len(data') \in Nat
      BY <1>1, <1>2, <1>3
    <3>. HIDE DEF end
    <3>3. end <= Len(data')
      BY <1>2, <2>5, <3>1, <3>2
    <3>. QED BY <3>3 DEF end
  <2>. QED BY <1>2, <2>2, <2>3, <2>4, <2>5, <2>6 DEF Slice
<1>6. ASSUME NEW k, k = n PROVE Slice(k)'
  <2>1. SubSeq(data', Len(data) + 1, Len(data) + m) = SubSeq(v, 1, m)
    BY <1>1, <1>2, NewSliceKept
  <2>2. Len(data) + m <= Len(data')
    BY <1>1, <1>2, <1>3
  <2>3. m = Len(v) \/ Len(data') = MaxData
    BY <1>1
  <2>4. offsets'[k] = Len(data) /\ lengths'[k] = m /\ pairs'[k] = v
    BY <1>1, <1>2, <1>4, <1>6
  <2>. QED BY <1>2, <1>3, <2>1, <2>2, <2>3, <2>4 DEF Slice
<1>7. \A k \in 1 .. Len(offsets') : k = n \/ k \in 1 .. Len(offsets)
  BY <1>1, <1>2
<1>8. \A k \in 1 .. Len(offsets') : Slice(k)'
  BY <1>5, <1>6, <1>7
<1>9. Len(offsets') <= Len(pairs')
  BY <1>1, <1>2, <1>3
<1>. QED BY <1>2, <1>8, <1>9 DEF Packed

LEMMA PackedKept == IInv /\ Packed /\ [Next]_vars => Packed'
<1> SUFFICES ASSUME IInv, Packed, [Next]_vars PROVE Packed'
  OBVIOUS
<1>1. CASE UNCHANGED <<pairs, data, offsets, lengths>> /\ phase' # "idle"
  <2>1. \A k : Slice(k)' <=> Slice(k)
    BY <1>1 DEF Slice
  <2>. QED BY <1>1, <2>1 DEF Packed
<1>2. CASE UNCHANGED <<pairs, data, offsets, lengths, phase>>
  <2>1. \A k : Slice(k)' <=> Slice(k)
    BY <1>2 DEF Slice
  <2>. QED BY <1>2, <2>1 DEF Packed
<1>3. ASSUME NEW r \in Resources, NEW ps \in PairLists, NEW dv \in SUBSET Values,
             Decide(r, ps, dv)
      PROVE  Packed'
  <2>1. ps \in Seq(Seq(Byte)) /\ pairs' = ps /\ phase' = "packing"
    BY <1>3, DctAssumption DEF Decide
  <2>2. Len(offsets) = 0 /\ offsets' = offsets
    BY <1>3 DEF Packed, Decide, claimVars
  <2>3. Len(ps) \in Nat
    BY <2>1, LenProperties
  <2>. QED BY <2>1, <2>2, <2>3 DEF Packed
<1>4. CASE Return
  <2>1. Len(offsets') = 0 /\ Len(pairs') = 0
    BY <1>4, EmptySeq DEF Return
  <2>. QED BY <2>1 DEF Packed
<1>5. ASSUME NEW p \in Policies, LoadRules(p) PROVE Packed'
  BY <1>2, <1>5 DEF LoadRules, callVars, claimVars
<1>6. CASE StartMatching
  BY <1>1, <1>6 DEF StartMatching, callVars, claimVars
<1>7. CASE CompareRule
  BY <1>1, <1>2, <1>7 DEF CompareRule, callVars, claimVars
<1>8. CASE NoRuleMatches
  BY <1>1, <1>8 DEF NoRuleMatches, Finish, callVars, claimVars
<1>9. CASE Verify
  BY <1>1, <1>9 DEF Verify, Finish, callVars, claimVars
<1>10. CASE UNCHANGED vars
  BY <1>2, <1>10 DEF vars, callVars, claimVars
<1>11. {} \in SUBSET Values /\ \A x \in Values : {x} \in SUBSET Values
  OBVIOUS
<1>12. CASE \E r \in Resources, ps \in PairLists :
              Decide(r, ps, {}) \/ \E x \in Values : Decide(r, ps, {x})
  BY <1>3, <1>11, <1>12
<1>. QED BY <1>4, <1>5, <1>6, <1>7, <1>8, <1>9, <1>10, <1>12, PackPairPacks DEF Next

LEMMA InitPacked == Init => Packed
<1> SUFFICES ASSUME Init PROVE Packed
  OBVIOUS
<1>1. Len(offsets) = 0 /\ Len(pairs) = 0
  BY EmptySeq DEF Init
<1>. QED BY <1>1 DEF Packed

LEMMA ClaimOfSlice ==
  ASSUME IInv, Packed, NEW k \in 1 .. Len(offsets)
  PROVE  /\ HasClaim(k - 1) /\ k <= Len(pairs)
         /\ get_claim(k - 1) = SubSeq(pairs[k], 1, lengths[k])
         /\ pairs[k] \in Seq(Byte) /\ lengths[k] \in Nat /\ lengths[k] <= Len(pairs[k])
         /\ lengths[k] = Len(pairs[k]) => get_claim(k - 1) = pairs[k]
         /\ lengths[k] = Len(pairs[k]) \/ Len(data) = MaxData
<1>1. /\ Len(offsets) \in Nat /\ Len(offsets) <= Len(pairs) /\ Len(pairs) \in Nat
      /\ Len(data) \in Nat /\ Len(data) <= MaxData /\ MaxData \in Nat
      /\ offsets \in Seq(Nat) /\ lengths \in Seq(Nat) /\ Len(lengths) = Len(offsets)
      /\ pairs \in Seq(Seq(Byte))
  BY LenProperties, WidthType DEF IInv, TypeOK, Packed
<1>2. k \in Nat /\ (k - 1) + 1 = k /\ k - 1 < Len(offsets) /\ k \in 1 .. Len(pairs)
  BY <1>1
<1>3. /\ offsets[k] \in Nat /\ lengths[k] \in Nat /\ pairs[k] \in Seq(Byte)
      /\ Slice(k)
  BY <1>1, <1>2, ElementOfSeq DEF Packed
<1>4. HasClaim(k - 1)
  <2>1. offsets[(k - 1) + 1] = offsets[k] /\ lengths[(k - 1) + 1] = lengths[k]
    BY <1>2
  <2>2. offsets[k] + lengths[k] <= Len(data)
    BY <1>3 DEF Slice
  <2>3. offsets[k] + lengths[k] <= MaxData
    BY <1>1, <1>3, <2>2, SMTT(20)
  <2>. QED BY <1>2, <2>1, <2>3 DEF HasClaim, NumClaims
<1>5. get_claim(k - 1) = SubSeq(pairs[k], 1, lengths[k])
  BY <1>2, <1>3 DEF get_claim, Slice
<1>6. SubSeq(pairs[k], 1, Len(pairs[k])) = pairs[k]
  BY <1>3, SubSeqFull
<1>7. k <= Len(pairs)
  BY <1>1, <1>2
<1>8. /\ lengths[k] <= Len(pairs[k])
      /\ lengths[k] = Len(pairs[k]) \/ Len(data) = MaxData
  BY <1>3 DEF Slice
<1>9. lengths[k] = Len(pairs[k]) => get_claim(k - 1) = pairs[k]
  BY <1>5, <1>6
<1>. QED BY <1>3, <1>4, <1>5, <1>7, <1>8, <1>9

LEMMA PackedKeepsClaims == IInv /\ Packed => ClaimsKept
<1> SUFFICES ASSUME IInv, Packed, NEW k \in 1 .. Len(offsets)
             PROVE  /\ HasClaim(k - 1)
                    /\ \/ get_claim(k - 1) = pairs[k]
                       \/ /\ Len(data) = MaxData
                          /\ get_claim(k - 1) = Take(pairs[k], lengths[k])
  BY DEF ClaimsKept, NumClaims
<1>1. Smaller(Len(pairs[k]), lengths[k]) = lengths[k]
  BY ClaimOfSlice, LenProperties DEF Smaller
<1>. QED BY <1>1, ClaimOfSlice DEF Take

LEMMA AllowedIsProven == IInv /\ Packed => AllowProvesClaim
<1> SUFFICES ASSUME IInv, Packed, phase = "done", decision = "Allow"
             PROVE  \E k \in 1 .. Len(policy) :
                      /\ Deciding(k)
                      /\ LET c == policy[k].attr_offset
                         IN  c > 0 => /\ c < Len(pairs)
                                      /\ \/ pairs[c + 1] \in dynamic_value
                                         \/ lengths[c + 1] < Len(pairs[c + 1])
  BY DEF AllowProvesClaim
<1>1. PICK k \in 1 .. Len(policy) : Deciding(k) /\ ClaimProven(policy[k])
  BY DEF IInv, DecisionFollowsPolicy
<1>. DEFINE c == policy[k].attr_offset
<1>2. c \in Nat
  <2>1. policy \in Seq(Record)
    BY DEF IInv, TypeOK, Record
  <2>2. policy[k] \in Record
    BY <2>1, ElementOfSeq
  <2>. QED BY <2>2 DEF Record
<1>. HIDE DEF c
<1>3. ASSUME c > 0
      PROVE  c < Len(pairs) /\ (pairs[c + 1] \in dynamic_value \/ lengths[c + 1] < Len(pairs[c + 1]))
  <2>1. HasClaim(c) /\ \E x \in dynamic_value : constant_time_eq(get_claim(c), x)
    BY <1>1, <1>3 DEF ClaimProven, c
  <2>2. PICK x \in dynamic_value : constant_time_eq(get_claim(c), x)
    BY <2>1
  <2>3. c + 1 \in 1 .. Len(offsets) /\ (c + 1) - 1 = c
    BY <1>2, <2>1, LenProperties DEF HasClaim, NumClaims, IInv, TypeOK
  <2>4. /\ c + 1 <= Len(pairs) /\ Len(pairs) \in Nat
        /\ pairs[c + 1] \in Seq(Byte)
        /\ lengths[c + 1] \in Nat /\ lengths[c + 1] <= Len(pairs[c + 1])
        /\ lengths[c + 1] = Len(pairs[c + 1]) => get_claim(c) = pairs[c + 1]
    BY <2>3, ClaimOfSlice, LenProperties DEF IInv, TypeOK
  <2>5. ASSUME lengths[c + 1] = Len(pairs[c + 1]) PROVE pairs[c + 1] = x
    <3>1. x \in Seq(Byte)
      BY DEF IInv, TypeOK
    <3>2. /\ Len(pairs[c + 1]) = Len(x)
          /\ \A j \in 1 .. Len(pairs[c + 1]) : pairs[c + 1][j] = x[j]
      BY <2>2, <2>4, <2>5 DEF constant_time_eq
    <3>. QED BY <2>4, <3>1, <3>2, SeqEqual
  <2>6. lengths[c + 1] = Len(pairs[c + 1]) \/ lengths[c + 1] < Len(pairs[c + 1])
    BY <2>4, LenProperties
  <2>. QED BY <1>2, <2>4, <2>5, <2>6
<1>. QED BY <1>1, <1>3 DEF c

LEMMA PackedInvariance == Spec => [](IInv /\ Packed)
<1>1. Init => IInv /\ Packed
  BY InitHolds, InitPacked
<1>2. IInv /\ Packed /\ [Next]_vars => (IInv /\ Packed)'
  BY NextKeeps, PackedKept
<1>. QED BY <1>1, <1>2, PTL DEF Spec

\* A packed claim keeps its value: no later claim overwrites it, and it is cut
\* short only by a full block.
THEOREM ClaimsAreKept == Spec => []ClaimsKept
<1>1. IInv /\ Packed => ClaimsKept
  BY PackedKeepsClaims
<1>. QED BY <1>1, PackedInvariance, PTL

\* An Allow under a rule that asks for a claim proves that claim.
THEOREM ClaimsAreProven == Spec => []AllowProvesClaim
<1>1. IInv /\ Packed => AllowProvesClaim
  BY AllowedIsProven
<1>. QED BY <1>1, PackedInvariance, PTL

=============================================================================
