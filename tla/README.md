# Confidior engine: TLA+ models, checks and proofs

Confidior grades evidence about a workload in a trusted execution environment.
Adapters turn quotes and provenance documents into an *evidence graph*; the
engine appraises the graph (assurance level, residual risk, a 0-100 score, a
letter), signs the result as a bundle, may anchor the bundle's digest in the
Rekor transparency log, and lets a third party inspect the anchor.

This directory models the part of the program that decides something: what
counts as bound, fresh, mitigated, in scope, anchored and verified. Paths below
are relative to the repository; `src/core/...` there is `src/src/core/...` in
`PROJECT.json`.

- [1. Inventory](#1-inventory)
- [2. Modules](#2-modules)
- [3. Runs](#3-runs)
- [4. Proofs](#4-proofs)
- [5. Where code and documents disagree](#5-where-code-and-documents-disagree)
- [6. Not modelled](#6-not-modelled)
- [7. Plan](#7-plan)

## 1. Inventory

| Component | State | Operations | What makes it correct |
|---|---|---|---|
| Evidence graph (`core/taxonomy.py`, `core/binding.py`) | nodes by id in insertion order, edges in order, the challenge issued | add_node, add_edge, subgraph, to_dict/from_dict, has_verified_cross_platform_binding | only quotes that answered this verifier's challenge bind; more edges take no binding back |
| Freshness, evidence class, provenance (`core/freshness.py`, `core/residual.py`, `verify/iac.py`) | none; read the graph and the clock | compute_temporal_freshness, weakest_evidence_class, compute_provenance_dimension | labels follow the weakest node |
| Attacks and scopes (`core/attacks.py`, `core/threat_scope.py`, `core/residual.py`) | the curated attack database | get_unmitigated_attacks, _attacks_in_threat_model, residual risk | a wider scope is never safer; nothing vanishes between counted, excluded and mitigated |
| TCB status (`core/tcb.py`, `tools/tcb_lookup.py`) | reference database, 24 h cache of the vendor feed | resolve_tcb_status, load_current_tcb_reference | newer firmware never hurts; each quote is judged by its own version |
| Scoring (`core/scoring.py`) | none | compute_numeric_score | absent dimensions are neutral; the party graded cannot choose its own yardstick |
| Assurance (`core/assurance.py`) | none; reads clock and databases twice | compute_assurance_level | the level is earned; label and number agree |
| Operator key (`export/dsse.py`) | the key file | load_or_create_keypair | one key per file, reused for ever |
| Signing and anchoring (`export/dsse.py`, `export/rekor.py`, `cli/main.py`) | the bundle, its file | sign_bundle, anchor_to_rekor, to_dict, _anchor_state | the anchor is of the signed bytes; "verified" is never a missing half |
| Inspection (`cli/inspect.py`, `core/notes.py`) | none; two requests to the log | run_inspect | exit 0 takes both halves |
| Merkle proofs (`core/merkle.py`) | loop variables | root_from_inclusion_proof, verify_inclusion_proof | exactly the log's own leaves at their own indices are accepted |
| TCB lookup (`tools/tcb_lookup.py`) | a cache of the vendor's feed by platform and FMSPC | fetch_current_tcb, clear_cache | an answer is the vendor's, for that configuration, and recent |
| Trust root and notes (`core/trust.py`, `core/notes.py`) | the operator's file of pinned keys | load_trust_root, key, verify, verify_checkpoint | unknown is not valid; more keys never revoke |
| SCITT receipts (`export/scitt.py`) | none | encode_signed_statement, extract_receipts, verify_receipt, verify_as_leaf | unjudged is not verified; both records of one leaf agree |
| Archaeology database and CVE sync (`tools/`) | a SQLite file | seed, sync, map, apply | curated facts survive a sync |
| Policy (`core/policy.py`) | the policy file | load_policy, evaluate, policy_conformance | decision and conformance agree |
| Identity and storage of bundles (`core/identity.py`, `core/taxonomy.py`) | the bundle's file | derivation_references, policy_hash, to_dict, from_dict | what is stored verifies; references name what was used |
| Badges (`export/badge.py`, `export/display.py`) | an SVG file | compute_badge_commitment, generate_badge_svg, verify_badge | a badge matches its own bundle and no other |
| Web application (`web/app.py`) | the directory of files, the list of evaluations in memory | run_submit, index, run_verify, run_verify_badge, restart | what is listed is served |
| Measurement, adapters, compliance | see section 6 | | |

How they interact. `verify` calls the adapters, builds the graph, sets the
challenge (`cli/main.py:900-903`), evaluates the policy, then
`create_signed_bundle` appraises (`compute_assurance_level`, which calls
`compute_numeric_score` at its end), signs, and anchors; the bundle is saved and
the anchor's state printed. The databases are SQLite files and the key is a JSON
file, both shared with other processes without a lock. The log and the vendor
feed are services.

What is hard here:

- *Two readings of one thing.* The clock, the reference database and the attack
  set are each read more than once in one appraisal.
- *Three-valued checks.* Verified, rejected, not judged; several places fold the
  three into two.
- *Order.* The first edge, the first quote, the first node win; the nodes are a
  dict and the subgraph goes through a set.
- *A log that is someone else's.* It answers late, partly or not at all, and signs
  heads at its own pace.
- *A file without a lock.* Check, truncate, write, chmod are four steps. The web
  application writes two files and then lists them; two command-line runs write to
  one directory; bundle ids repeat within a second.
- *Signatures over a rebuilt document.* A bundle is signed as `to_dict` writes it,
  loaded by `from_dict`, and written again to be verified.
- *Keys that change.* A log or a service rotates its key under the same id; one
  trust root judges two encodings of signatures.
- *A cache in front of a service that fails.* Silence and failures are stored too.
- *Arithmetic with consequences.* Rounding, rescaling, caps, ragged trees, version
  tuples of different length.

`PROJECT.json` lists each such hazard at its line with the properties that would
notice it going wrong.

## 2. Modules

```
Evidence ── EvidenceGraph ── MCEvidenceGraph
   │             └───────────────────────┐
   └── AttackScope ── Scoring ── Grading ┴─ Evidence_proofs
                                    └────── MCGrading
AttackRecords ── MCAttackRecords, AttackRecords_proofs
KeyStore ── MCKeyStore, KeyStore_proofs
InclusionCheck ┬─ AnchorCheck ── RekorAnchor ── MCRekorAnchor, RekorAnchor_proofs
               └─ TrustRoot ── Audit ── MCAudit, Audit_proofs
TcbFeed ◁── TcbLookup ── MCTcbLookup, TcbLookup_proofs
RegoPolicy ─────┐
EvidenceBundle ─┴─ Portal ── MCPortal, Portal_proofs
MerkleTree ── MerkleProof ── MCMerkleProof, MerkleProof_proofs
```

A line is EXTENDS, `◁──` is refinement: TcbLookup implements TcbFeed.

No module declares a RECURSIVE operator. An operator called "mutated form of X" in
a comment is X as a plausible mistake would have it; it is used only to see that
the properties about X notice.

### Evidence, EvidenceGraph

A graph is a record `[nodes, edges, challenge]`. `nodes` is a sequence, because a
Python dict iterates in insertion order and `FirstQuote`, `SharedValue` and the
provenance chain all stop at the first match. A node keeps the fields a verdict
reads. `Blank` stands for a string that strips to nothing: `_binding_value` maps it
to None, and `_cmd_verify` can set it as a challenge.

`EvidenceGraph` has one action per operation: `AddNode` (a re-used id keeps its
place, as a dict key does), `AddEdge`, `SetChallenge`, `Subgraph` (nodes may come
back in any order, because the comprehension runs over a set of ids; the challenge
is dropped).

### AttackScope, Scoring

Pure operators. An attack is a record; its coverage is in percent. A version is
`[fmt, comps]`, the encoding and the tuple the code parses it to: `PatchedBySvn`
compares tuples as Python does (a longer tuple wins a tie; an opaque string against
numbers raises a TypeError that is caught, so it is unpatched), while
`ResolveTcbStatus` refuses versions of different encoding or length. An attack
counts once per platform of the graph, so sets of pairs are kept. A scope is
`[kind, name, positions, categories]`, a preset or what `LoadThreatScope` makes of a
file; `ScopeIdentity` is what a verdict records it by, its hash being what it hashes.

`Score` works in exact fractions: the threat dimension `20 * 20 / (20 + penalty)` is
carried as its penalty, and `RoundHalfEven` is Python's `round` on a fraction. This
equals the program's floating-point result except possibly at a tie: a penalty of
100 with weight 15 gives 2.5 exactly, and the float may fall on either side.

### Grading

One appraisal in two steps, because the program reads the world twice: `Judge`
derives level, risk, prose and freshness label (`core/assurance.py:158-257`),
`ScoreEvidence` the number (258-294). `Tick` and `UpdateReference` (another process
writes the reference database) may come between. `RefuseEvidence` is the early
return for evidence without a platform. `request` holds the caller's arguments.
Prose is left out except for the facts it states: `TemporalLines` is what each line
of the temporal summary says of each quote. The branch of `compute_numeric_score`
for graphs without quotes (199-216) cannot be reached from
`compute_assurance_level`, which has returned by then, and is left out. The policy's
outcome (`Conformances`) and the feed's answer (`Feeds`, constant during one
appraisal because of its cache) are inputs.

### AttackRecords

The database behind the appraisal, as the programs that share it see it. `Seed` is
`insert_attack` (INSERT OR REPLACE: a row that is there is replaced, mark and thresholds
with it), which the seeding scripts, `build_attack_db.py`, the NVD sync and
`fetch_tee_cves.py` call once per attack with a commit each; `MarkPatched` and
`InsertTcb` are the other two writers. A job is one `attacks sync` (`Fetch`, one
`InsertNew` per new CVE) or one `attacks map-cve-tcb`, and both end with the mapping:
`ReadMappings` is the join, `ReadThresholds` the second query, `Commit` the updates,
which are one transaction. `TcbLag` is `check_tcb_lag`, the other join of the two
tables, which `measure --check-tcb` reports as "up to date" when it is empty
(`cli/main.py:406-451`); a record it cannot compare with is passed over, as the `except
TypeError` does, and a leading `>=` is stripped (`Bare`). Nothing holds a lock across
the three, so anything may happen between them; a job that fails on a locked database or
is killed is `Killed`. What it has read is dropped when it ends. The join has no ORDER
BY, so of several records that fix an attack `Mappings` lets any be first. `Reference`
is `load_current_tcb_reference` as its one caller uses it, without a product family;
`date` 0 is a missing release date, which sorts before all others. A version is a number
that stands for the tuple `_parse_svn` makes of it, or one of the `Opaque`, which are
compared as strings; comparing tuples is AttackScope's matter.

### KeyStore

`load_or_create_keypair` by several processes: `FindsFile`/`Generates` are the two
outcomes of the existence check, `Reads` the load, `Opens` the truncation that
`write_text` begins with, `Writes` the write, `Restricts` the chmod (which may
fail). `Killed` and `CutShort` end a process between any two. Key documents have one
length, so of two writers the later one's document is whole.

### InclusionCheck, AnchorCheck, RekorAnchor

`InclusionCheck` is `verify_inclusion_proof`, for both the programs that use it. Hashes
are symbolic: the root of a tree is the sequence of its leaves. A proof has an index,
the tree its path belongs to and a stated root; a path whose length does not fit the
stated size has no tree, and a root that is no digest is None. `Recomputed` puts the
body in the leaf's place, or is None where the loop gives up; which proofs rebuild
which root in the program is what `MerkleProof` is about. The two are compared as they
are, so a proof spoilt in both counts as checked, as it does in the code.
`AnchorCheck` adds `VerifyCheckpoint` and the verdict `AnchorState`.

In `RekorAnchor` each run of `verify` signs, submits, receives an answer or gives
up, fetches a checkpoint, saves and reports. A digest is `<<bundle, signatures in
the bytes>>`, so that anchoring the wrong serialisation would show. The log
integrates a submission at any later time, also after the run gave up or died, may
leave out the body or the proof, and may answer with another position's proof or one
that cannot be read.
Rekor's size limit is left out: it can not be reached by the entries this program
posts. `AnswerRaises` is an answer that ends the run by itself, an empty object or one
without an index or a time: the StopIteration or KeyError passes the handler of
RekorError, and the signed bundle is not saved. `Save` is one step: a run killed inside
the write leaves a file that does not parse, which no component here reads.

### TrustRoot, Audit

The third party. `TrustRoot` is pure: pinned keys (`Key` takes the first entry of an
id, as `TrustRoot.key` does; `Usable` says whether the listed algorithm fits the
key), the verification of a signed note of several lines (`VerifyNote` tries every
pinned key of a line's name whose key id agrees) and of a receipt
(`VerifyReceipt`, with its three-valued halves). A signature is `[by, over,
encoding]`, so that a signature in the other encoding does not verify.

In `Audit` one service registers leaves, signs its tree head as a note, issues
receipts and may change its key; the operator's trust root file is absent, malformed
or a list that grows by `Pin`, which may also list a key with the
wrong algorithm, or a witness. `InspectEntry` and `InspectCheckpoint` are the two
requests of `run_inspect`, with everything else in between; the exit code of a
traceback, which the second parse of a malformed checkpoint and a malformed trust
root cause, is one of its own. A receipt is `Delivered` as it was issued, or with
its header, payload, signature or proof changed.

### TcbFeed, TcbLookup

`TcbFeed` is what a lookup promises: the reference it answers was the vendor's own
for that configuration less than `Ttl` before the question. `TcbLookup` is the
code: `AskHit`, `AskSilent` and `AskMiss` are the three ways through
`fetch_current_tcb`, a miss waits for `Respond` and then stores what
`ParseIntelTcbInfo` makes of the document (`Complete`), under the time at which it
was asked. A document that does not have the expected shape raises out of the call
and is not cached (`Raise`); a failed request is a None that is. `clear_cache` may
come at any time. The refinement maps the raw documents on record to what they are
parsed to.

### RegoPolicy, EvidenceBundle, Portal

`RegoPolicy` starts where the Rego interpreter ends: a module gives each rule a
value on the evidence and on an empty input. `LoadPolicy` keeps the rules that are
defined on the empty input, `Evaluate` splits them into passed, failed and not
evaluated, `Decision` and `PolicyConformance` derive their results separately, as the
code does. `PolicyHash` is what identity.py hashes: of each rule its id, its
expression (its name) and its description.

`EvidenceBundle` is storage. `Keys` says which keys `to_dict` writes in each section
and `Default` what a missing one is read as; `FromDict(ToDict(b))` is the round trip
that `SignatureState` verifies a stored bundle through. `BadgeCommitment` and the
badge's own attributes are here; the picture is not.

`Portal` composes them around files. One web application handles a request at a
time: `Submit` (judge, appraise, sign), `WriteBadge`, `WriteBundle`, `List`; between
any two it may be killed (`Restart`), in a write too, which leaves a file
`Truncated`, and the list is lost with the process. `Runs` are command-line runs
that write `evidence_bundle.json` and `badge.svg` to one directory. A second may
pass or not, so ids repeat. `VerifyPage`, `BadgePage` and `VerifyBadgeExitCode` read
what lies there. `Assurance` keeps what storage and badge depend on, the appraisal
itself being Grading's matter.

### MerkleTree, MerkleProof

`MerkleTree` is RFC 9162's tree and audit path as recursive functions of the number
of leaves, each value a function of the first leaf (and of the leaf asked for), the
log's side, and `leaf_hash`/`node_hash` with their prefixes, over symbolic hashes (no two
inputs collide). `MerkleProof` is the checker, one action per step of the loop:
`JoinLeft`/`JoinRight` consume a sibling, `StripZero`/`Ascend` are the inner loop,
`Reject`, `PathTooLong` and `Finish` with `sn # 0` are its three ways to return
None, `Unjudged` and `Compare` are `verify_inclusion_proof` around it.

## 3. Runs

| Run | Distinct states | Shows |
|---|---|---|
| EvidenceGraph | 13 680 | Over every order of building and cutting down: a bound graph has two witnesses; further edges never revoke it |
| EvidenceGraph_order | violation | A replayed pair whose edge comes first hides the pair that answered the challenge |
| Grading | 108 160 | Level 4 is earned; scopes order risk and score; a custom scope buys nothing; an absent policy counts as one kept in proportion; every attack is accounted for; the recorded scope gives the grade again; the number is not fresher than the label; newer firmware never hurts |
| AttackRecords | 235 663 (up to symmetry) | However seeding, marking, sync and mapping interleave: a threshold has a source, is lost only to a race, and is found again; what is reported up to date is below no mapped threshold it can be compared with, and the liveness check does not call it expired |
| KeyStore | 467 (up to symmetry) | A settled store stays; a key is lost, or a load refused, only to a race or a kill in the write |
| MerkleProof | 461 902 | Honest proofs are accepted, with the true size nothing else is, and an interior node never; the loops end |
| RekorAnchor | 787 696 | Anchors are of the signed bytes; "verified" had both halves; the file says what was printed; every run ends |
| TcbLookup | 620 216 | The cached lookup implements the abstract promise of the feed |
| Audit | 74 205 (up to symmetry) | A covering checkpoint proves the entry; a verified receipt was issued; note and receipt of one leaf agree; pinning never revokes |
| Audit_undecoded | violation | `inspect` exits 0 on a proof that rebuilt nothing, because its stated root was no digest either |
| Portal | 268 733 (up to symmetry) | What is stored verifies, a badge matches its own bundle only, what is listed is served, decision and conformance agree |
| Portal_policy | violation | Two policies that compute a rule differently have one version |

The invariants `TypeOK` are proved (section 4) and not run; EvidenceGraph's is
`GraphOK`, which is both.

Bounds, and why they are enough:

- *EvidenceGraph*: two platforms, two quotes of each, one of them re-ingested
  without a challenge, three edges (`MaxNodes` 4, `MaxEdges` 3). Binding reads one
  edge and two nodes at a time; a wrong verdict needs one answering pair and one
  distracting pair.
- *Grading*: two kinds of request. Twelve undated graphs, one for each branch of the
  level and of the binding, one of them with a platform that has no version; four
  databases that between them have every cost, every kind of fix, mitigated,
  unclassified and platform-bound attacks; all four presets and five scope files, of
  which three have one name and two mean the same; every profile, policy, feed and
  configured reference, though not all at once. And four dated graphs under one scope,
  a clock of eight readings (`Horizon` 7) over times to live of 2 and 5, so that
  evidence passes FRESH, AGING and STALE between the two halves. The clock runs only
  where the graph holds a date, as nothing else reads it (`Tick`); four versions of
  two encodings, of which the reference of either versioned platform may be any, at any
  moment.
- *AttackRecords*: a curated attack on two platforms, seeded with and without a
  threshold, and the feed's attack of the same CVE; five TCB records, among them two
  current ones of each platform, one of them written with a leading `>=` and one a
  name without a number, and an expired
  one, of which two are inserted (`MaxTcb`); two jobs, which may both sync, both map,
  or one of each, dry or not. A lost update needs one job and one writer, a wiped row
  two inserters; a third job repeats what the second does. The symmetry is over the
  jobs, either of which may sync or map.
- *KeyStore*: three processes: the creator, its rival, and a later reader. The
  symmetry is over processes and keys, which nothing orders; the properties are
  invariants and action properties.
- *MerkleProof*: trees of one to seven leaves, which have every combination of
  complete and ragged levels up to three levels; every index and stated size
  around the true ones; every path whole, cut at either end, extended, with one
  sibling replaced or undecodable.
- *RekorAnchor*: two runs and a log of two (`MaxLog`), with another submitter's entry
  and a log too full for both. A proof is missing, unreadable, of either position, or
  spoilt in both its path and its root (`ProofsOf`); where the body is missing it is
  missing or right (`Answers`).
- *TcbLookup*: two TDX configurations and a quote without an FMSPC, which goes the way
  of the platforms that have no live source, each with its own cache entry; documents
  that fall in different branches of the parser, a malformed one and a failing
  service; a time to live of two ticks
  in a horizon of three, so that an entry expires and is filled again while a call is
  under way; one change of the feed (`MaxChanges`), at any moment.
- *Audit*: a log of two leaves (`MaxLog`), one receipt (`MaxReceipts`), two keys of the
  service and a witness, two pins (`MaxPins`) out of every right and wrong one. A
  rotation needs two keys, a disagreement one leaf, a checkpoint that is too old or
  new enough two sizes. The symmetry is over the leaves' digests.
  After an inspection has ended nothing more happens (`Watched`), since the log only
  grows under it. The run does not follow receipts and an inspection side by side
  (`OneAtATime`, a constraint), since an inspection reads none; the proofs make no use
  of that.
- *Portal*: two seconds (`Horizon` 1), two signed bundles (`MaxSigned`) by the web
  application, the two runs, or both, one line of the front page (`Shown`); five
  policies, which between them have rules of every outcome, of every severity that
  weighs differently, and two that differ in their text only, and no policy file; two
  quotes and two anchors. A mix-up needs two bundles.

Deadlock is checked in EvidenceGraph, whose graph can always be cut down, in
AttackRecords, whose database can always be seeded, and in Portal, whose application
can always be restarted. The others model programs that end, or reach a bound.

Fairness. `RekorAnchor`'s `FairSpec` is weak fairness of each run's own steps: a run
is a sequential program and each of its requests has a timeout
(`export/rekor.py:36`, `48`), so one of them stays enabled until it ends. The log
is owed nothing: it may never integrate or answer. `MerkleProof`'s is weak fairness
of its next step: one call in a running process. No other module states liveness.

## 4. Proofs

TLAPS proves these for every value of the constants.

| Theorem | States | Argument |
|---|---|---|
| Evidence_proofs: GraphTypeCorrect, BindingIsWitnessed, AddedEdgesSound | `GraphOK`, `BoundIsWitnessed`, `AddedEdgesKeepBinding` | `GraphOK` (one place for each id, edges between nodes of the graph) is inductive, and it is what makes the node an edge names the only one with that id. `Bound` reads the first binding edge, and an edge appended behind it is never the first |
| Evidence_proofs: TypeCorrect, ScoreNotFresher, DistributedTrustSound, WiderScopeSound | `TypeOK`, `ScoreNeverFresherThanLabel`, `DistributedTrustIsEarned`, `WiderScopeNeverLowersRisk` | The invariant ties the draft to the request and to an instant no later than now (`DraftInv`), and the verdict to the draft (`VerdictInv`). The rest are lemmas on operators: freshness falls with time, the first binding edge is a witness, residual risk is monotone in the attacks and scope is monotone in its sets |
| Evidence_proofs: AttacksAccountedFor, GradeReproduced | `EveryAttackAccountedFor`, `RecordedScopeReproducesTheGrade` | `RecordInv` adds to the invariant what the verdict records of its request. An attack that is not counted fails one of the two conditions of a pair; scopes of one identity have the same sets, and the score reads nothing else of them |
| Evidence_proofs: WiderPresetScoresNoHigher, CustomScopeIsCapped | `WiderPresetNeverRaisesTotal`, `CustomScopeNeverBuysPoints` | More pairs, no less penalty: sums of naturals over finite sets are monotone (`SumMonotone`). No less penalty, no more points: `ScoreOrder` carries that through three roundings, of which it uses only that `2n - d <= 2dR <= 2n + d` (`RoundingBounds`) |
| Evidence_proofs: AbsentPolicyNeutral | `AbsentPolicyIsNeutral` | The subscores are summed by name (`AlwaysSum`); the rescaled total and the one with the proportional share differ by what their three roundings may |
| Evidence_proofs: NewerFirmwareSound | `NewerFirmwareNeverHurts` | The order on version tuples is transitive (`LexTransitive`), so an attack patched at the old version is patched at the new; everything else the score reads of the restated graph is as it was (`RestatedReadsSame`) |
| AttackRecords_proofs: TypeCorrect, ThresholdHasSourceHolds, UpToDateMeetsThresholdsHolds, LostOnlyToARace | `TypeOK`, `ThresholdHasSource`, `UpToDateMeetsThresholds`, `ThresholdLostOnlyToARace` | A source is never taken away (`SourcesStay`: seeds are constant, TCB records only added), so what a job carries between its read and its write keeps one for as long as it likes (`MappingsSourced`, `ThresholdsSourced`); the row it writes takes each threshold from one of the two (`UpdatedRow`). A source that is not a seed is a current record, which the lag report reads too: what is not behind it and compares with it is at least the threshold |
| AttackRecords_proofs: MappingSettlesHolds, UpToDateIsNotExpiredHolds, ReferenceFollowsTheDateHolds | `MappingSettles`, `UpToDateIsNotExpired`; and that a record becomes the reference only if it is the first or newer, which says what `load_current_tcb_reference` does and not what the data file says of it (section 5) | The join has a row for every mapped platform and the update skips none that has no threshold. The record with the greatest date is found by least counterexample, so the reference after an insertion is either the inserted one or the one before. The reference is a current record, so the lag report reads it where its CVE is known |
| KeyStore_proofs: TypeCorrect, KeySettlesHolds, RefusedOnlyMidWriteHolds, LostOnlyToARaceHolds | `TypeOK` and the three properties of the run | `IInv`: a creator holds a key, a reader found a file, a truncated file has an owner at or killed in the write, and what `LostOnlyToARace` says holds from the write on (it is not inductive from "created" alone) |
| RekorAnchor_proofs: TypeCorrect, CoversSignedBytes, VerifiedSound, CoveringCheckpointSound, SurvivesSaving | `TypeOK`, `AnchorCoversSignedBytes`, `VerifiedHasBothHalves`, `CoveringCheckpointProves`, `AnchorSurvivesSaving` | `IInv`: the log is append-only, so an anchor that was true when the log answered stays true (`AnchorInv`: the index has the digest, the proof's root is a prefix of the log); the file is the written form of a bundle that no longer changes (`FileInv`); the report was computed from that bundle (`ReportInv`). A stated root that decodes is matched only by one that was rebuilt, and what was rebuilt has the body at the index (`RebuiltHasBody`); nothing is claimed of a root that does not decode. Two prefixes of one log, of which the longer has the digest's index, agree on it. `WrittenKeepsState` shows that dropping the body without proof and checkpoint cannot change the verdict |
| MerkleProof_proofs: TypeCorrect | `TypeOK` | Halving keeps `fn <= sn`, and an index that is being stripped is not 0 |
| MerkleProof_proofs: HonestIsAccepted, OnlyHonestIsAccepted, NoneIsWrongLength | `HonestProofRebuilds`, `TrueSizeProvesIndex`, `NoneMeansWrongLength` | RFC 9162 splits the tree from the top, the loop climbs it level by level. Pairing the leaves of a tree halves its split (`SplitOfPairs`), so the tree over the pairs is the same tree (`TreeOfPairs`) and a path in it is the leaf's path less its first sibling (`PathOfPairs`), at every level and in trees of any size. `ClimbInv`: the hash rebuilt so far is the node's exactly when the leaf and the siblings used are the log's (`Rebuilt`); after a left join, whose zeros are stripped only afterwards, this holds of the hash before the join |
| MerkleProof_proofs: AcceptedIsALeaf | `AcceptedLeafIsALeaf` | A rebuilt hash that is a subtree's was rebuilt from a leaf under it (`FromALeaf`): a join whose hash is a subtree's joined the hashes of its two halves, and a leaf's hash is no node's |
| TcbLookup_proofs: TypeCorrect, PromiseKept | `TypeOK`, `KeepsThePromise` | The refinement: `IInv` says that every cache entry and every response under way is backed by a pair on record of the same configuration, no older than the stamp (`Backed`); each step is then a Tick, a Publish, an Answer or a stutter of TcbFeed |
| Audit_proofs: TypeCorrect, VerifiedReceiptSound, PinningSound | `TypeOK`, `VerifiedReceiptIsIssued`, `PinningNeverRevokes` | Receipts on record are of a prefix of the log (the log is append-only) and signed by a key the service has had; appending a pin leaves the first entry of every id, and so every receipt's verdict, as it was, and keeps the witness of a verified note |
| Audit_proofs: LaterCheckpointSound, RecordsAgree | `LaterCheckpointProves`, `BothRecordsAgree` | What an inspection holds between its two requests was the log's, and the log has only grown since; exit 0 places the body where the stated root decodes (`RebuiltHasBody`); the note and the receipt sign prefixes of one log under keys the service has had, and under unambiguous pins the two key lookups find the same key |
| Portal_proofs: TypeCorrect, ListedIsServed | `TypeOK`, `ListedEvaluationIsServed` | `IInv` speaks of the whole list, not of the lines shown: the files under a listed id are those of the same or a later submission of that id, the handler's own files are written in order, and a kill inside a write empties the list with the process |
| Portal_proofs: StoredVerifies, BadgesAreBound, DecisionsAgree | `StoredBundleVerifies`, `BadgeBindsItsBundle`, `DecisionMatchesConformance` | `FilesInv`: a file is absent, cut short, or one that was written whole for a signed bundle. What is signed has one of two forms (`SignedForm`), and such a bundle comes back from `FromDict(ToDict(b))` as it was but for its log entry (`BundleRoundTrip`). A badge's commitment determines the signature it names, and a signature the bundle (`SignatureDetermines`). The rules of a policy fall into three disjoint parts, weights add up over them (`SumUnion`) and none is 0 |

Sums over sets are folds, hence recursive functions over the subsets. What is needed
of them (that there is such a function, that the order of picking does not matter,
that it is monotone and additive) is proved by least counterexample on the cardinality
(`SumExists`, `SumInsert`, `SumMonotone`, `SumUnion`), since `Nat` has least elements;
this takes no induction theorem with an operator. The Merkle tree and its paths are
treated alike: the recursive functions exist and are what their equations say
(`BothExist`, `LogIsTree`), and what holds of the trees of every size is refuted at
the smallest one where it would not.

Assumptions are those stated in the modules, and TLC evaluates each of them on the
runs' instances:

- None, Blank and the other marks are none of the values they are told apart from, and
  bounds are naturals (all modules). A signature, an assurance or an outcome of a
  policy is never None (`NothingAssumption`, `OutcomesAreSomething`).
- Graphs are well formed records, as `EvidenceGraph.add_node` makes them
  (`GraphsWellFormed`, `GraphsAreRecords`).
- Versions parse to tuples of naturals (`VersionsAreNumbers`, `_parse_svn`); dates are
  ordered like naturals (`TcbDates`).
- An attack has a file of its own name (`NamesIdentifyAttacks`); databases, platforms
  and the rules of a policy are finite; coverage is a number of percent.
- A preset asked for by name is one of the engine's, a profile one of the known ones
  (`PresetsAreTheEngines`, `ProfilesAreKnown`): the code looks both up in a table.
- A conformance is a share of a positive weight (`ConformancesAreShares`):
  `load_policy` refuses a policy without rules and no severity weighs 0.
- The service has keys, and a receipt's header names the service or nothing
  (`ServiceHasKeys`, `ReceiptsNameTheService`).
- A claim's index and sizes are integers, its path is a sequence, the log's tree is
  not empty (`ClaimsAreProofs`).

Only model-checked: liveness (`EveryRunReports`, `Terminates`), which needs ENABLED.
Every other property of a passing run is proved.

## 5. Where code and documents disagree

With a run that shows it (`findings` in PROJECT.json):

- `core/binding.py:91-92` decides at the first edge whose quotes agree. A pair that
  answered the issued challenge is not found behind a replayed pair, although the
  docstring (51) promises True when two quotes attest the same session.
- `export/rekor.py:96` compares what was rebuilt with what was stated. A path that does
  not fit the tree rebuilds None, a `rootHash` that is no digest decodes to None, and
  the two are equal: the proof counts as True, and with any checkpoint the log signed,
  of an empty tree even, `inspect` exits 0 and `_anchor_state` says "verified". The
  docstrings say that None "is not the same as a proof that evaluated to the wrong
  root" (`core/merkle.py`) and that "Not checked" is not "verified" (71).
  `VerifiedHasBothHalves`, `CoveringCheckpointProves` and `LaterCheckpointProves` say
  what holds where the stated root decodes.
- `core/identity.py:157-165` hashes of each rule its id, its expression, which is its
  name, and its description, not the text of the module. Two policies whose rules
  compute something else under the same names have one hash, although the docstring
  (152-154) says that a policy edited after the run cannot be passed off as the one
  behind the verdict. The inlined rules are no more than that (267-276).

Visible in a single definition, so that no run is needed:

- `core/threat_scope.py:250-266`: the description of a preset lists the categories of
  its layer set, "everything needed to reconstruct the scope", but a preset gates on
  positions alone (`InScope`; `core/residual.py:100-105`). A scope file written from
  that description can count fewer attacks than the preset; only the identity is safe
  to go by (`RecordedScopeReproducesTheGrade`).
- `tools/cve_tcb_mapper.py:183-185` skips a record whose version does not compare with
  the quoted one, so that `measure --check-tcb` prints "TCB: up to date, no known
  unpatched CVEs" (`cli/main.py:436-437`), while the appraisal counts the attack as
  unpatched (`PatchedBySvn`). `UpToDateMeetsThresholds` is about versions that compare.
- `core/residual.py:211` prints one status per platform, that of the first quote,
  beside each quote's own version (`TemporalLines`), where the comment at 189 says
  "is the quoted TCB current".
- `core/tcb.py:203` takes the newest current record of the platform (`Reference`);
  `data/tcb/amd-current.yaml:10-11` says that the liveness check takes the highest.
  With that file's data the newest is Genoa's 0.0.28.0 while Milan's is 0.0.29.0,
  and no caller passes the product family.
- `tools/cve_tcb_mapper.py:110`: "human-curated wins" holds of thresholds that were
  in the row when the mapping read it. One entered between the read and the write
  is set back (`ThresholdLostOnlyToARace` states what does hold).
- `core/taxonomy.py:496`: `subgraph` does not pass the challenge on, so a subgraph
  judges any two agreeing quotes bound; the comment at 454-459 says a binding counts
  only for this challenge. Only tests call `subgraph`.
- `core/residual.py:326-329`: an attack that is neither cheap, unmitigable nor in
  need of a redesign leaves a MEDIUM or HIGH tier alone, while `docs/GRADING.md:147`
  says that any other applicable attack escalates one tier.
- `export/dsse.py:66` and `85`: two first runs both create; the second replaces the
  key the first reported, and "subsequent runs" (`README.md:37`) reuse the second's.
  `LostOnlyToARace` and `KeySettles` state what does hold.
- `cli/inspect.py:87`: exit 0 and "This entry is in a tree the log signed", beside a
  checkpoint smaller than the entry's index. The same holds of "verified" in
  `_anchor_state` (`cli/main.py:1022`). `CoveringCheckpointProves` and
  `LaterCheckpointProves` state what does hold.
- `export/dsse.py:233-236`: an answer without an index or a time raises a KeyError, an
  empty one a StopIteration (`export/rekor.py:247`); neither is the RekorError of 220,
  so the run ends in a traceback and the signed bundle is not saved (`AnswerRaises`),
  where the docstring (191) says "Fails soft: if Rekor submission errors".
- `cli/inspect.py:84`: a checkpoint that is not a signed note makes
  `parse_checkpoint` raise, so `inspect` ends with a traceback where its docstring
  (46-47) says an unverifiable anchor exits 2.

- `tools/tcb_lookup.py:112-116`: with no level that is up to date the highest of any
  status is taken for the current one, where the docstring speaks of the highest that
  is UpToDate. A document of an unexpected shape raises (163 is outside the try),
  where every other failure is a cached None.
- `export/scitt.py:427-444`: the algorithm of the receipt's header overrides the one
  the operator listed for the key (`VerifyWithAlg`), while `core/trust.py` takes the
  operator's list as what is accepted.
- `export/scitt.py:243-249`: `verify_as_leaf` reports the anchor's inclusion without
  comparing the Rekor entry's body with the leaf it is asked about (`AnchorResult`).
- `core/policy.py:53-54`: a rule that is undefined on an empty graph is dropped when
  the policy is loaded, `allow` among them: the decision can be ALLOW although
  `allow` is not true (`LoadPolicy`).
- `web/app.py:454-508`: for a bundle without a signature `expired` and `ttl_hours`
  are never assigned, so the page fails, although the template has a branch for it
  (`templates/verify_result.html:58-63`). Every bundle in Portal is signed.
- `tools/cve_sync.py:150-209`: `find_affected_bundles` lists every bundle that parses.
- `core/attacks.py:242-253`: the snapshot of the attack database hashes names and
  patched marks only.

Also worth knowing: a bundle id has a resolution of one second (`export/dsse.py:314`),
so two submissions of one second share their files; a bundle stored by an older
schema loads, but is written back with more keys and so reads as "invalid"; after a
rotation under one key id receipts of the new key are rejected (the first entry
wins) while notes of it verify (all are tried); a note that only a pinned witness
signed counts as verified. TCB records of several product families share a platform and a
CVE, and the mapping takes whichever row comes first; thresholds in the database are
not what the appraisal compares with, which reads `data/attacks.json`.

`treeSize` is taken from the answer and never compared with the
checkpoint's. With a wrong stated size a leaf is accepted at a wrong index (leaf 2
of a tree of 3 as index 1 of 2), which is why `TrueSizeProvesIndex` assumes the true
size and `AcceptedLeafIsALeaf` does not speak of the index.

## 6. Not modelled

- *Measurement registry* (`export/measurement.py`): one file, written once by one
  command and read as a whole.
- *Quote adapters* (`ingest/adapters`): parsers of binary formats without state.
- *Display* (`export/display.py`) but for the dimensions of a badge, the layout of the
  badge and of the report: rendering.
- *Web application*: the measure page and the archaeology page, which render what
  another component returns; the template's text.
- *Serialisation of the graph* (`EvidenceGraph.to_dict`, `from_dict`): no program stores
  a graph and judges it after reading it back; a bundle stores verdicts, and its round
  trip is in EvidenceBundle.
- *Compliance mapping* (`compliance/c5.py`): a table of rules.
- *`scripts/fetch_tee_cves.py`*: the HTTP side of the CVE feed; what it inserts is
  in AttackRecords.
- `find_affected_bundles`: a reader of the directory of bundles. Loading of
  `data/attacks.json`, and the risk statement of `core/attacks.py:273` that nothing
  calls.
- Signatures and hashes are ideal: a signature verifies for what was signed and
  hashes do not collide. Versions with components that are not numbers occur in
  AttackRecords only.

## 7. Plan

Done: the appraisal (Evidence, EvidenceGraph, AttackScope, Scoring, Grading), the
archaeology database, the key store, anchoring, Merkle proofs, the TCB lookup with its
abstract promise, the auditor with trust root, notes and receipts, and the web
application with policies, storage and badges, and the proofs of section 4.

Next, in this order:

1. An abstract specification of anchoring (a digest is submitted, at most once
   present, reported) that RekorAnchor implements, and one for the key file (an
   atomic register) that KeyStore implements when runs do not overlap.
2. The application's other pages and `find_affected_bundles` over the files of Portal.

To read a run: `tlc -config <run>.cfg <module>`, the module being the one
`PROJECT.json` names for the run. To check the proofs: `tlapm <module>_proofs.tla`.
