# Verification of dros-core-rs

TLA+ models of the DROS core (`src/`), checked with TLC, with every safety
property that a passing run checks proved with TLAPS. Line numbers refer to the
sources under `src/src/`.

## The system

dros-core-rs is a library, loaded into a host process (Go or Python) through a C
interface. Host threads ask it for access decisions; every decision leaves an
audit record that one host thread drains. It runs under a seccomp filter that it
installs itself. Beside this runtime it holds an older text pipeline that
matches a text against a manifest of terms and compiles a prompt.

| Component | Source | State | Operations |
|---|---|---|---|
| Audit ring | `audit_ring.rs` | 4096 slots of a generation number and a record, `head`, `tail` | `new`, `push` (any thread), `pop` (one thread) |
| C interface | `ffi.rs` | statics `DROS_ENGINE` (atomic pointer to the runtime), `AUDIT_LOSS_COUNTER`, `LAST_ERROR` | `init`, `reload`, `decide`, `decide_explain`, `audit_pop`, queries, `free` |
| DCT engine | `dct.rs` | rules; per call a claims table | `load_rules`, `from_pairs`, `get_claim`, `decide` |
| Prefix engine | `simd_engine.rs` | rules cut to 64 bytes, `initialized`, CPU flag | `load_rules`, `match_prefix` (AVX-512 and scalar) |
| Seccomp armour | `syscall_hardener.rs` 298-514 | kernel state of a thread: `no_new_privs`, filter | `vajra_init_seccomp`, the BPF table |
| Direct syscalls, speculation helpers | `syscall_hardener.rs` | none | clock, memfd, write; index masking |
| Weaver | `weaver.rs`, `types.rs` | trie and node map, fixed after `new` | `new` (inserts words), `weave` |
| Navigator | `navigator.rs` | node map; per call the neighbours found so far | `navigate` |
| Guard | `guard.rs` | node map; per call the core nodes listed so far | `compile` |
| Pipeline | `lib.rs` | the three above | `DrosEngine::new`, `process` |

How they interact: `init` installs the armour and stores a runtime (a DCT engine
and an audit ring); `reload` builds another and swaps the pointer; a decision
loads the pointer once, evaluates the engine it found and pushes into the ring
it found, also when a reload has meanwhile retired both; `audit_pop` loads the
pointer and pops from the ring it found. A push that fails raises the loss
counter. In the pipeline `process` hands the weaver's matches to the
navigator and both lists to the guard.

What is hard here: the interleavings of lock-free `push` and `pop`, the memory
orders they ask for and their wrapping counters; reloads under decisions;
two-step checks (`init`, `set_last_error`); partial failure of the two `prctl`
calls; the limits of ring, buffers and table; jump offsets kept by hand; the
cursors of the longest-match scan; results that depend on the order of a
`HashMap`. There is no persistence and no messaging: nothing survives the
process, so there is no crash recovery to model. `PROJECT.json` lists the
hazards one by one, each at its line.

What makes each part correct:

- ring: no overlapping plain access to a slot, records delivered whole, once, in
  claim order, overflow only when full, pushes return, accepted records arrive;
- C interface: every answered decision is recorded once or counted as lost;
  records come out in the order of the decisions, where calls did not overlap;
  reloads never leave decisions without an engine; a failed `init` publishes
  nothing; the last error is never older than the failure reported;
- armour: exactly the listed system calls pass, and arming never skips a step;
- DCT: the answer is the one the policy as written asks for, on every CPU, and a
  claim is read as it was packed;
- pipeline: matches are the leftmost longest terms and the whole coordinates,
  each names a node that has the term, neighbours carry the sum of what points
  to them, and the prompt lists nothing that the text does not lead to.

## Modules

| Module | Models | Notes |
|---|---|---|
| `AuditLog` | what the ring promises | abstract: `Reserve`, `Seal`, `Take` |
| `AuditRing` | `audit_ring.rs` | one action per atomic or plain access of `push` and `pop` |
| `AuditRingProofs` | | proofs about `AuditRing` |
| `WeakRing` | `audit_ring.rs` | the same code under release/acquire order and with wrapping counters; refines `AuditLog` too |
| `WeakRingProofs` | | proofs about `WeakRing` |
| `RingArithmetic` | | lemmas about `%` that both rings' proofs use |
| `Runtime` | `ffi.rs` | one action per access to shared state |
| `RuntimeProofs` | | proofs about `Runtime` |
| `Seccomp` | `vajra_init_seccomp`, the BPF program | the kernel's side is external |
| `SeccompProofs` | | proofs about `Seccomp` |
| `Dct` | `dct.rs`, `simd_engine.rs` | one action per loop round of a decision |
| `DctProofs` | | proofs about `Dct` |
| `Weaver` | `weaver.rs`, `types.rs` | one action per loop round of `new` and `weave` |
| `WeaverProofs` | | what each step of the weaver keeps |
| `Pipeline` | `navigator.rs`, `guard.rs`, `lib.rs` | extends `Weaver`; one action per loop round |
| `PipelineProofs` | | proofs about `Pipeline`, and through it `Weaver` |
| `MC*` | | constants for TLC; `MCSeccomp` holds the table as it stands in the source, `MCPipelineTwice` asks one engine twice |

**AuditRing.** `ppc` and `cpc` are the program counters of threads in `push` and
`pop`; `phead`, `ctail`, `crec` their locals; `seq`, `data`, `head`, `tail` the
fields. `log` and `taken` are history: what was claimed and what was handed out.
The sign of `diff` (lines 121, 167) is the comparison of `seq` with the local
position. The failure of the weak CAS is always possible, so that spurious
failures are covered. Atomic accesses take effect in one total order, and
positions are natural numbers; `WeakRing` drops both simplifications.

**WeakRing.** The same steps of `push` and `pop` for one consumer, over a memory
in which loads may be stale. `written[s]` is the modification order of a slot's
`seq`, and `know[t]` what thread `t` has seen: how far along each `seq` and
`head`, and which plain accesses happened before. A load takes any value not
older than that; a Release store carries `know` along and the Acquire load that
reads it joins it; Relaxed accesses of `head` move only the view of `head`. A
CAS that succeeds reads the last `head`. New stores go to the end of the
modification order, which is right because whoever stores a `seq` has seen its
last store: that is not assumed but checked (`StorersSeeLast`). Positions are
naturals of which the code sees the value modulo `Word`, and `Diff` is the
wrapping difference of the two casts of line 121 and 167. Wrapping additions and
subtractions are those of a release build; a debug build would panic at the top
of the word. `Starts` lets a behaviour begin with a ring that was filled and
emptied up to just below the wrap. The assumption `Word > 2 * (MaxPushes +
Capacity)` says that no producer sleeps for half a word of pushes: with 2^63 of
them the sign of the difference would lie. One thing differs from the total
order: `push` may refuse on a `seq` the consumer has just overwritten, so that
`RejectOnlyWhenFull` is checked for `AuditRing` only, and what is left of it
here is `RefusedByOlder`.

**Runtime.** The ring of runtime `e` is `log[e]`, `sealed[e]`, `popped[e]`: the
abstract log that `AuditRing` and `WeakRing` implement, with one draining
thread; its steps are those of that log by definition. `preceding` is history:
for each decision those answered before it was asked for, which no step reads.
Host threads run `Step`: `init` goes through check, two prctls and store, with
failure possible at either prctl; `reload` stores; a decision loads the pointer,
refuses bad arguments where the code does, reserves and seals a position or
counts a loss. `set_last_error` is split at the `OnceLock`. A decision is a number; what
it says is the subject of `Dct`. `decide` and `decide_explain` take the same
steps on shared state and are one set of actions; the difference in what they
answer is listed under the hazards.

**Seccomp.** Instruction 0 is `Load`, instructions 1 to N are `Compare`, N + 1
is `Kill`, N + 2 is one of the outcomes of the allowed call. `Enter` is the
kernel entry. Either prctl may fail: the first one also because the code leaves
its fifth argument to chance.

**Dct.** A 64-bit mask is the set of its bits. `policy` keeps the rules as
written, `rules` as the engine holds them, which is what lets the properties
speak of the text and the code of the buffers. The sizes 64, 4096 and 64 are the
constants `Width`, `MaxData` and `MaxClaims`.

**Weaver.** Texts, terms and ids are sequences of characters, as `Vec<char>` is
in the code, and positions count characters. The trie is the function from the
words it holds to node ids: a path of characters exists exactly if it begins a
word. `InsertNode` inserts the words of one node; that the nodes come from a
`HashMap` is the choice among `pending` ones, and a word of two nodes goes to
the one inserted last. `WordChar` is `\w`, `Coordinates` the strings of the
shape `T\d{4}[A-Za-z]?`, `CoordinateAt` the match between two `\b`. `Follow` is
a round of the inner loop, `EndRound` the end of one of the outer loop. A node
is keyed by its `id`: the manifest file is a map from ids to nodes that repeat
their id, and they are taken to agree.

**Pipeline.** `Accumulate` is a round of the navigator's inner loop, on
`neighbor_map`. `SortNeighbours` takes the entries out in any order and sorts
them by weight alone, so that equal weights may come out either way. The
prompt is the record of what its sections list: core nodes, the neighbours if there is
such a section, and which contract. Weights are integers in units small enough
for the decayed ones, without the rounding of `f64`.

## What is checked

| Run | Instance | Shows |
|---|---|---|
| `ring` | 2 producers, 1 consumer, 2 slots, 2 kinds of record, 4 pushes | race freedom, order, real overflow, growing generations, refinement of `AuditLog`, the inductive invariant; `PushReturns`, `AcceptedIsDelivered` |
| `weak_ring` | 3 producers, 1 consumer, 2 slots, 5 pushes, `Word` 16, from 0 and from 14, symmetry | the same code with stale loads and wrapping counters: accesses ordered by happens-before, one order of stores, refusals by older generations only, refinement of `AuditLog` |
| `ring_two_consumers` | 1 producer, 2 consumers | violated: two threads in `pop` race with a producer |
| `runtime_safety` | 2 threads, rings of 2, 2 runtimes, 4 decisions, symmetry | exact loss counter, no gap, failed inits, error reports |
| `runtime_liveness` | the same, 3 decisions, no bad arguments, no symmetry | `CallsReturn`, `EvidenceDrains`, and the order in which `audit_pop` hands decisions out |
| `runtime_reload_loss` | 2 decisions | violated: undrained records vanish with a reload, uncounted |
| `runtime_unarmoured` | 1 thread | violated: `reload` alone puts an engine in service without a filter |
| `runtime_init_race` | 2 threads | violated: two inits both succeed |
| `seccomp` | the real table; 2 threads; every listed number, its neighbours, and numbers the source names as forbidden | the filter is exact and arming is ordered |
| `dct` | width 2, block of 3 bytes, 3 claims, policies of at most 2 rules, both paths | the decision is the policy's, paths agree, claims kept and proven |
| `pipeline` | 3 manifests, every text of up to 4 of 3 characters and 11 texts with coordinates, 3 modes, 2 decay factors | leftmost longest matches, right owners, exact coordinates and resonance, grounded prompt, `ProcessReturns` |
| `pipeline_asked_twice` | one manifest with a tie, one text | violated: equal weights come out in either order |

Bounds, and why they are enough. The ring of two slots with four pushes uses
every slot in two generations, fills, and lets one producer stall while the
other goes a whole lap; the proofs cover every size. `MaxPushes` bounds calls of
`push`. In `weak_ring` a third producer and a fifth push let two of them hold
stale heads at once, and from 14 the counters wrap at 16 in the middle of every
behaviour, with `seq`, `head` and `tail` on both sides of it.
`MaxRuntimes = 2` allows an init and a reload, two reloads or two racing inits;
`MaxDecisions = 4` with rings of 2 allows both threads to overflow one ring and
decisions to straddle a reload. `runtime_safety` leaves the history `preceding`
out of its view, because none of its properties reads more of it than its type.
`runtime_liveness` keeps it: three decisions are enough for one that is
overtaken, one recorded behind a reload and one that is lost; requests that are
refused leave no record and are not in it. Width 2 has prefixes below, at and
above the width; the block and the table are both overrun by one of the claim
lists. The manifests of `pipeline` hold a word inside another and one that begins
another, words to trim, a term of two nodes, an id that is a term of another
node, synapses to the node itself, to core nodes, to no node, twice to one node
and of equal weight, and a node without terms; one digit stands for the four of a
coordinate. The mutants are a further test of the bounds: every property of a
passing run fails for at least one plausible bug in a modelled definition, within
the same bounds.

Fairness. In `AuditRing` every thread inside `push` keeps running (weak fairness
of `PushStep`, which promises no more than an operating system does), the
consumer keeps polling, and a weak CAS that is enabled again and again is not
refused for ever (strong fairness of `Claim`: spurious failures do not go on for
ever). Nobody has to call `push`. `PushReturns` holds because the number of
pushes is bounded: with other producers pushing without end the loop of one
producer may never win, so `push` is lock-free and not wait-free, whatever the
comment on line 106 says. In `Runtime` threads inside a call keep running and
the draining thread keeps polling; `arc_swap` loads and stores are steps that
always complete. In `Pipeline` the thread inside `process` keeps running (weak
fairness of `Step`); nobody has to call. `WeakRing`, `Seccomp` and `Dct` state no
fairness.

`CHECK_DEADLOCK FALSE` is set for `Runtime` (hosts may stop calling, and the
bounds end it) and `Seccomp` (a killed process stops). In `AuditRing`
and `WeakRing` the consumer polls for ever; in `Dct` and `Pipeline` calls follow
each other without end.

### Disagreements found

1. `pop` is a safe method of a type declared `Sync` and is exported without a
   lock, but is correct for one consumer only (`ring_two_consumers`).
2. A reload drops undrained records, and records of decisions still under way,
   without counting them (`runtime_reload_loss`).
3. `reload` before `init` answers decisions without the seccomp filter, and
   keeps a later `init` from installing it (`runtime_unarmoured`).
4. Two concurrent inits can both return `DROS_OK` (`runtime_init_race`).
5. Neighbours of equal weight come out in the order of a `HashMap` that differs
   from call to call, and the prompt with them, where `README.md` line 20 of the
   sources promises a deterministic engine (`pipeline_asked_twice`).

## What is proved

All proofs are checked by TLAPS down to the leaves. Each inductive invariant was
checked with TLC, on the instances above, before it was proved.

| Component | Proved for every value of the constants | Only model-checked |
|---|---|---|
| `AuditRing` | every safety property and the refinement of `AuditLog` | `PushReturns`, `AcceptedIsDelivered` |
| `WeakRing` | every property and the refinement of `AuditLog` | |
| `Runtime` | every safety property | `CallsReturn`, `EvidenceDrains` |
| `Seccomp` | every property | |
| `Dct` | every property | |
| `Weaver`, `Pipeline` | every safety property | `ProcessReturns` |

**AuditRingProofs**, from `AuditRingAssumption` (at least two slots) and, but for
`TypeCorrect`, one consumer. `TypeOK` alone is inductive. The other properties
rest on `IInv`: positions from `Len(taken)` to `head` are held, those from there
to `Len(taken) + Capacity` are free, with the generation number of each slot
fixed by the state of its position (`FreeOK`, `HeldOK`); each owner's position is
held and it is its only owner (`OwnersOK`, `OneOwner`); a producer about to CAS
with a current head has a free slot before it (`WaitersOK`); and the consumer's
locals are current (`ConsumerOK`). `ClaimsAreOwned` reads off it that a claimed
position is published or has exactly the producer that will publish it. Neither
race freedom nor delivery order is inductive without these: that a plain write is
safe follows from who owns the slot, which follows from the history of its
number. `RingImplementsLog` maps
`Claim` to `Reserve`, `Publish` to `Seal`, `Release` to `Take` and every other
step to a stutter.

**WeakRingProofs**, from `WeakRingAssumption` (at least two slots, a word that the
capacity divides, and no sleep of half a word), for any set of producers. The
invariant `Inv` has three layers.

- What is known is closed (`ViewsOK`): a thread or a store that has seen a store
  has seen all accesses which that store carried, and nothing it knows lies in
  the future. The stores of a slot grow and stay within a lap of `head`
  (`StoresOK`).
- The *last* stores of the slots form the window of a ring without stale reads:
  this is `IInv` of `AuditRingProofs` again, read off `Last(s)` where that one
  reads `seq[s]`.
- Whoever holds a slot, between its claim and its release, has seen the slot's
  last store and every access to its record (`HoldersKnow`); what was done to a
  slot in nobody's hands left with its last store (`FreeSlotsTell`).

The third layer is what happens-before needs, and it does not stand without the
second. The step that carries the argument is the CAS (`ClaimFinds`): the
producer has seen, maybe long ago, a `seq` that equals its position, and the CAS
shows that the position is still `head`; as the stores of a slot grow and only
the store of the last generation fits, what it has seen is the last store, the
slot is free and the load that saw it has taught the producer all that came
before. So the Relaxed accesses of `head` are enough. `CallsOK` bounds the claims
by the calls of `push`, which keeps two counters less than half a word apart, so
that the sign the code branches on is that of the positions (`DiffIs`).
`RefusalsAreReal` and `RingImplementsLog` follow.

**RuntimeProofs**, from `RuntimeAssumption`, for any finite set of threads. Five
layers, each proved from those before it: `Control` says where threads are in
their calls, that `DROS_ENGINE` is the last runtime stored, and that the bound on
runtimes leaves room for the stores under way; `Reports` that a thread which saw
`LAST_ERROR` empty has heard of whoever fills it; `Rings` where each decision is:
in one thread, or at one position of one ring, sealed once answered
(`CarriersOK`, `HoldersOK`, `EntriesOK`, `PushedOnce`); `CountExact` that the
counter is the number of answered decisions that are nowhere; and `InOrder` which
decisions stand before which. `AccountIsExact` needs all but the second and the
last: a decision that overtakes a reload is found in the retired ring, and a
failed push is counted once because its decision was in no ring before. The threads are finite in the model only for this counting.

`TrailIsInOrder` says that of two decisions, one answered before the other was
asked for, `audit_pop` never hands the later one out first. It needs both ends of
the ring. A decision on its way has loaded a runtime no older than those of the
decisions before it (`GuardsInOrder`), so it is reserved in a later ring or behind
them in the same one (`EntriesInOrder`); and `audit_pop`, whose own runtime may be
retired while it is inside, never returns to a ring once a later one has been
touched (`DrainsForward`). What a reload leaves behind is lost (finding 2), but
never comes out late: handing out the leftovers of retired rings, the obvious
repair of that loss, breaks this order, and is the mutant of the property.

**SeccompProofs**, from `SeccompAssumption`: compare `i` of `N` jumps `N - i + 1`
on a match and 0 otherwise, the rule in the comment above the table. TLC
evaluates the assumption for the real table. The invariant adds that a running
filter holds the number called with and that every compare behind it failed, and
that `no_new_privs` is set before the filter is bound. `TypeCorrect` is that the
machine never leaves its program.

**DctProofs**, from `DctAssumption` (types and a positive width). First the
buffer comparison is shown to be the prefix relation of the texts cut to the
width, on both paths, whatever the zero padding. The invariant for
`DecisionIsPolicy` is that no rule behind the loop applies. `ClaimsAreKept` and
`ClaimsAreProven` add `Packed`: each claim's slice of the block is the start of
its value, whole or cut at the end of the block.

**WeaverProofs, PipelineProofs**, from `WeaverAssumption` (coordinates are
non-empty words; texts and manifests are of their types) and
`PipelineAssumption`. The invariant of the weaver has a part for each of its
loops. While it is built, the trie holds exactly the words of the nodes inserted
so far, each under a node that has it (`TrieExact`): that is all a trie built in
unknown order promises, and all `MatchesAreOwned` needs. The coordinate search
has found those before its cursor and no coordinate lies across it (`LookedUp`),
because two coordinates between word boundaries never overlap. The walk has
passed every word that starts at the cursor and ends by `j`, and remembers the
longest (`WalkOK`); when the trie has no longer path, that is the longest term,
and where it found none no term starts. Earlier matches lie behind the cursor
(`BehindCursor`), so that a round adds to what `LeftmostLongest` speaks of and
takes nothing back. `LeftmostLongest`, `CoordinatesExact` and `MatchNamesOwner`
are stated so that they hold in the middle of a scan, and are conjuncts of the
invariant themselves. The pipeline adds that a stage starts with nothing of its
own (`StagesOK`), that each neighbour has a core node with its relation to it
(`Grounded`), and that the guard has listed the nodes of the matches before its
index in the order of their first match (`CoreOK`); `PromptIsGrounded` is what
these say when the prompt is compiled.

`ResonanceIsExact` rests on `FoundSoFar`: the places the navigator has read are
those before its two indices, and each neighbour carries the sum over the places
read that point to it, with the relation and the source of the first of them. The
sum of the community modules takes the elements of a set out in an order of its
own. That it gains the weight of a place that is added, whatever the order
(`SumOfOneMore`), is an induction over the size of sets. The library's induction
theorems take an operator, which the provers cannot instantiate; the induction is
over a *set* of numbers instead, whose complement would have a least member
(`AllNumbers`).

Only model-checked: liveness (`PushReturns`, `AcceptedIsDelivered`,
`CallsReturn`, `EvidenceDrains`, `ProcessReturns`), which is out of reach of the
prover's backends, as is ENABLED; and the runs that find a violation, which are examples
by nature. No module uses recursive operators.

## Not modelled, and why

- The tie between a dynamic value and the resource. `dct.rs` lines 12-35 promise
  that the tenant in the path is compared with the claim; the code compares the
  claim with a value the caller hands over beside the path, and never looks for
  that value in the path (line 155, and the test at line 221, leave it to the
  caller). `DecisionFollowsPolicy` takes over the code's own test of the claim
  (`ClaimProven`); `AllowProvesClaim` says independently of it that an allowed
  value is the packed claim, but nothing says that it is the one in the path.
- Other architectures in the filter. The BPF program loads the number of the
  call only and never the architecture that stands beside it in the kernel's
  record, so the models have one numbering, x86-64, and say nothing of a call
  made through another one.
- Direct system calls: single I/O calls without state.
- Speculation helpers: they concern the processor below the program's semantics.
- The queries of the C interface (`version`, `health`, `last_error`,
  `audit_loss_count`), `free`, JSON and record fields: no shared state changes.
- The mock in `decide_explain` (lines 291-293), which also allows when the URI
  contains the tenant's name: one disjunct, by its own comment for a demo.
- Panics: no modelled step panics; with `panic = "abort"` one would end the
  process.
- Rounding of `f64` weights, and weights that do not compare (`NaN`), which the
  sort takes for equal.
- The wording of the prompt, and a node's definition and weights, which are
  printed or never read.
- Load buffering: `WeakRing` takes the steps of a thread in program order. Every
  store of the ring is controlled by the loads before it, so it is not issued
  before they have their values.

## Plan

1. Done: inventory; `AuditLog`, `AuditRing` with proofs; `Runtime`; `Seccomp`
   and `Dct` with proofs.
2. Done: `Weaver` and `Pipeline`; `WeakRing` with release/acquire order and
   wrapping counters; the order of the audit trail across reloads.
3. Done: proofs of every safety property that a run checks, and of every
   refinement of `AuditLog`.
4. Then: that `WeakRing` keeps what `AuditRing` promises beyond the log
   (`ClaimHasOwner`); and abstract specifications of `Dct` and `Seccomp` that
   answer in one step, with the loops as their refinements.
