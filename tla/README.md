# TLA+ models of photon

This directory holds TLA+ models of the photon indexer's sources under `src/src/`, their TLC configurations and TLAPS proofs.

## The system and its parts

| Part | Source | Module(s) | Status |
|---|---|---|---|
| Transaction scanner `parse_transaction` | `ingester/parser/mod.rs` 26-83 | `InstructionScanner` (refines `ParserSpec`) | modelled, proved |
| Event assembler `parse_public_transaction_event`, `extract_path_updates` | `ingester/parser/mod.rs` 85-187 | `EventAssembler`, `AssemblerCall` | modelled, proved |
| `StateUpdate::merge`, `merge_updates` | not among the sources (spec.md §5) | `StateUpdate` | modelled from the spec |
| `TransactionInfo` and the borsh decoders | not among the sources (spec.md §3, §6) | `TransactionInfo` | partly (the decoders are abstracted) |
| photon binary `main` | `main.rs` | `PhotonMain`, `BlockStream` | modelled |
| snapshot server `main` | `snapshot/server/main.rs` | `SnapshotServer`, `BlockStream` | modelled |
| migrations | `migration/mod.rs` | (the `RunMigrations` step) | not modelled: a static list |
| indexing loop, block fetchers, API, snapshot creation | not among the sources | environment actions only | not modelled |

How the parts interact:

- The photon binary sets up a database, chooses `last_indexed_slot` and spawns the indexing loop. The loop hands each fetched transaction to `parse_transaction`, which calls `parse_public_transaction_event` once per trigger and merges the resulting `StateUpdate`s.
- The binary starts the JSON-RPC API, waits for ctrl-c, aborts the indexer, stops the API and returns.
- The snapshot server is a second binary with the same shape: a resume slot, a snapshotter task, an HTTP server task, and the same shutdown.

## Modules

- **TransactionInfo**, **StateUpdate**: data.
  - Pubkeys, trees, nodes, accounts and hashes are model values.
  - An instruction's data is represented by what the two decoders make of it: a decoded value, or `DecodeFail`.
  - `MergeUpdates` is the left fold of `Merge`, written as a recursive function so that it can be used in proofs.
- **EventAssembler**: `parse_public_transaction_event` as an operator.
  - The steps come in the code's order: the input loop (with the panic of an out-of-range `pubkey_array` index), the output-count check, the zipped output loop, then the path expansion.
  - `Iterator::zip` is `ZipLen`, which stops at the shorter side.
  - `flat_map` is SequencesExt's `FlattenSeq`.
- **AssemblerCall**: one call of `parse_public_transaction_event` on a changelog list from `ChangelogsInputs` and an event from `EventInputs`, with the properties section 4.3 states of its result.
- **InstructionScanner**: `parse_transaction` one loop iteration per step.
  - `group` and `index` are the two loop cursors; `stateUpdates` and `logged` are the code's two locals; `result` is the returned `Result`.
  - Actions:
    - `ScanInstruction`: an instruction that is no trigger;
    - `HandleTrigger`: decode, assemble, then push or return the error;
    - `NextGroup`: the outer loop moves to the next group;
    - `Finish`: `Ok(merge_updates(..))`.
  - The assembler is the constant operator `Assemble`. `MCInstructionScanner` substitutes `EventAssembler`'s `ParsePublicTransactionEvent` for it.
- **ParserReference**, **ParserSpec**: what the parser must compute, written from spec.md alone.
  - Triggers are a set of positions ordered lexicographically, and results are concatenated in that order.
  - `ParserSpec` returns the whole result in one step.
  - `EventInRange` is invariant I2: every input account's `merkle_tree_pubkey_index` is inside `pubkey_array`.
- **BlockStream**: the chain abstracted to the set of slots that hold a block.
  - `FirstStreamed(l)` is the first block after `l`. This is the convention the snapshot server logs: "Starting from slot last_indexed_slot + 1".
  - `ParentSlot` is what `fetch_block_parent_slot` returns.
- **PhotonMain**: `main` of `main.rs`.
  - `pc` is main's position, one value per await or branch.
  - Main's steps, in order:
    - `SetupDatabaseConnection`: `parse_db_type`; `unwrap` of the connection; the temporary database file is removed and recreated, each step an `unwrap` that may panic;
    - `RunMigrations`: only for the temporary database; its `unwrap` may panic (`MigrationsFail`);
    - `SkipIndexer` or `FetchLastIndexedSlot`;
    - `SpawnIndexer`: waits for the RPC node's genesis hash, because the `unwrap_or` argument is evaluated eagerly;
    - `StartApiServer`: its `unwrap` may panic;
    - `ShutdownSignal` or `SignalListenError`;
    - `AbortIndexer`, `JoinIndexer`, `StopApi`;
    - `ExitMain`: the `stopped()` future is spawned and dropped with the runtime.
  - The indexer task, the API server and the RPC node are environment actions: `IndexerCancelled`, `IndexerPanics`, `ApiServerStopped`, `RpcRecovers`.
- **SnapshotServer**: `main` of `snapshot/server/main.rs`.
  - Main's steps: `CreateSnapshotDir`, `SelectLastIndexedSlot` (parent slot / network start / last file) or `ListSnapshotFilesFails` (the `unwrap` of the listing), `SpawnTasks`, `Signal`, then abort and `expect_err`-join of both tasks.
  - Environment actions: `HandleRequest` (the routing of `handle_request`), `ServerEnds` (the bind panic, or a serve error that the task logs before returning normally), `SnapshotterPanics` and `TaskCancelled`.
  - The `/download` response (`stream_bytes`) is the variable `download`: the byte stream, a cursor into it, the bytes sent and the body's state.
    - `HandleRequest` for `/download` answers 200 at once and starts the body.
    - `SendByte` forwards a byte read; `StreamError` forwards a read error, which cuts the body off; `EndOfBody` ends it when the stream is exhausted.
    - `ConnectionDropped`: hyper runs each connection in a task of its own, so aborting the server task leaves a download running until main returns and the `#[tokio::main]` runtime drops it. No line of the sources shows this teardown; the map points at `main`'s runtime attribute.
    - No property reads `download`: whether hyper cuts a body off at an `Err` item is library behaviour that `StreamError` takes as given, so the model cannot tell a truncated body from a whole one.
    - One client connection is modelled: it sends its next request when the last response has ended.
- **MC\*** modules give the constants small values for TLC.
- **\*Proofs** modules (`InstructionScannerProofs`, `BlockStreamProofs`, `PhotonMainProofs`, `SnapshotServerProofs`, `ParserReferenceProofs`, `EventAssemblerProofs`, `AssemblerCallProofs`) and `ScannerRefinement` hold the TLAPS theorems and lemmas; see Proofs below.

## Runs

| Run | Checks | Expect | Shows |
|---|---|---|---|
| `assembler_matches_spec` | `AssemblyMatchesSpec` | pass | On events whose hashes pair up and whose input indices are in range, the assembler returns exactly spec §4.3's result. Out-of-range events are generated too; the property excludes them, since `malformed_index_panics` shows they panic. |
| `malformed_index_panics` | `MalformedRejected` | violation | On an event whose hashes pair up with its accounts, so that the zip reaches every input account, an out-of-range `merkle_tree_pubkey_index` panics (mod.rs:114) instead of returning `MalformedEvent` (P5). An account without a hash is dropped by the zip and never indexed; that is the case of `missing_hash_drops_output`, not of this run. |
| `missing_hash_drops_output` | `OutputPerPathUpdate` | violation | Fewer output hashes than output accounts silently drop outputs from an Ok update (mod.rs:132-135). |
| `scanner_implements_spec` | `TypeOK`, `ScanCorrect`, `ImplementsParserSpec` | pass | The loop-level scanner keeps exactly the passed triggers' updates, aborts at the first failing trigger, and refines `ParserSpec`. |
| `photon_lifecycle` | `SchemaBeforeUse`, `ShutdownCompletes` | pass | The temporary database is migrated before use; shutdown terminates whether the indexer task panics before, during or after its abort. |
| `photon_api_not_awaited` | `ApiStoppedOnExit` | violation | main returns before the API server has stopped (main.rs:300-303), against its comment. |
| `photon_start_slot_waits_for_rpc` | `StartSlotNeedsNoRpc` | violation | With `--start-slot` given, startup still waits forever for the RPC node's genesis hash. |
| `photon_start_slot_skipped` | `StartSlotStreamedFirst` | violation | photon's `last_indexed_slot` is one higher than the snapshot server's convention, so the stream starts one block late. |
| `snapshot_server_lifecycle` | `SnapshotterStartsRight`, `ShutdownCompletes` | pass | The snapshotter resumes at the right block; shutdown terminates whichever task ends first and in whatever order. |
| `snapshot_server_shutdown_panics` | `ShutdownNeverPanics` | violation | A server task that ended after a serve error makes `expect_err` panic at ctrl-c. |

Each property of a passing run has a mutant in PROJECT.json: a plausible fault in a mapped definition that TLC catches. Examples are a level counted from one, a pushed `Result`, a cursor not reset, a dropped account check, a skipped migration, a join without abort, and the start slot used instead of its parent.

### Refinement

`InstructionScanner` instantiates `ParserSpec` with `res <- result` (`Abs`). `MCInstructionScanner` checks `ImplementsParserSpec`, which is `Abs!Init /\ [][Abs!Parse]_<<tx, result>>`, and `ScannerRefinement` proves it for every value of the constants.

Every scanner step but `Finish`, and every error return, is a stutter or the single `Parse` step. The weak fairness of `ParserSpec` is not checked: the scanner's loops run over finite vectors, so it would hold by the shape of the model's cursors and say nothing about the code.

### Bounds and why they suffice

- **Scanner.** The run uses:
  - single groups of up to 4 instructions over every kind of instruction: the emitter with and without the noop account, another program that lists the noop account, and noops carrying each payload;
  - single groups of up to 6 instructions, and pairs of groups of up to 3, over the instructions that make triggers.

  The assembler is the real `EventAssembler`. A changelog with two path updates paired with an event with one output gives `MalformedEvent`. Together these cover:
  - triggers at the first, middle and last legal positions of a group;
  - two triggers in one group and across groups;
  - overlapping noop runs;
  - decode failures of either payload;
  - failures before and after a successful trigger.

  These are the cases the guard `len - index > 2`, the account check and the `?` returns distinguish. The run has 121,388 distinct states.
- **Assembler.** The model uses:
  - up to two changelog events, with paths of length 0, 1 and 2;
  - up to two input accounts, with indices 0 and 1 against pubkey arrays of length 1 and 2 (both kinds of array in `assembler_matches_spec`, only the short ones in `malformed_index_panics`);
  - hash lists of every prefix length.

  This gives every relation between the zipped lengths: shorter, equal and longer.
- **Binaries.** Blocks are {1,2,3,5,9}; slot 4 and slots 6-8 are skipped. This gives a start slot whose parent is not the slot before it.
  - photon: one `--start-slot` value and one existing database slot, plus every combination of flags and database URL kinds.
  - Snapshot server: an empty snapshot listing, and listings of one and of two files.
  - Snapshot byte streams: an empty one, one of two bytes, and one whose second read fails before a third byte. This gives an error after data was sent, and data after the error.

### Fairness

- Main and the tasks the tokio runtime has ready get weak fairness: `MainStep`, `IndexerCancelled`, `TaskCancelled` and `ApiServerStopped`. The runtime keeps polling ready futures, and an aborted task is cancelled at its next await.
- The ctrl-c signal, panics, serve errors, requests and the RPC node's recovery get no fairness. They are outside the program.
- The steps of a `/download` body get no fairness either, because the client reads at its own pace. No liveness is claimed for downloads.
- The scanner is a loop on one thread, so `WF_vars(Next)`.
- `CHECK_DEADLOCK FALSE` is set in every config, because each modelled program really stops:
  - the parser returns;
  - the assembler is a single call;
  - the binaries exit or panic.

## Proofs (TLAPS)

`InstructionScannerProofs` proves, for every value of the constants that satisfies `AssembleTypeAssumption` and `TxInputsAssumption`:

- **`TypeCorrect`**: `Spec => []TypeOK`. It rests on these lemmas:
  - `MergeUpdates` returns a `StateUpdateT`. This is shown through `FiniteNatInductiveDef` and a least-counterexample argument with `WFMin`.
  - `TriggerOutcome` returns an `OutcomeT`.
- **`ScanCorrectness`**: `Spec => []ScanCorrect`.
  - The inductive invariant is `IInv == TypeOK /\ ScanCorrect`. `ScanCorrect` alone is not inductive: the step proofs need the cursor ranges and sequence types of `TypeOK`.
  - The step proof takes each action in turn:
    - `ScanInstruction` and `NextGroup` pass no trigger (`ScannedSame`);
    - a successful `HandleTrigger` adds the trigger ranked last (`RankAddLast`, `PushKeepsUpdates`);
    - an error return names a trigger before which all triggers succeeded;
    - `Finish` finds every trigger scanned.
  - It rests on these lemmas: `Before` is irreflexive; ranks are within `1..Cardinality`; the positions form a finite set.

`ParserReferenceProofs` proves facts about the reference's operators, for sequences and sets of any size:

- `InLexOrderEnumerates` and `IncreasingOntoIsInLexOrder`: `InLexOrder(S)` lists a finite set of positions in increasing lexicographic order, its `r`-th member has `r - 1` predecessors, and it is the only increasing listing of `S`.
- `ConcatenationAppend`: `Concatenation` of the first `k` sequences is that of the first `k - 1` followed by the `k`-th. The proof shows that appending the `k`-th sequence's positions to the listing of the first `k - 1` keeps it increasing and onto (`AppendPositionsIncreasing`), so it is the lexicographic listing.
- `MergeUpdatesConcatenation`: `merge_updates` concatenates its updates field by field, in order. The proof is by induction on the fold's index, with `ConcatenationAppend` as the step.
- The inductions are least-counterexample arguments (`WFMin` on `<` over `Nat`), so no induction theorem with an operator parameter is needed.

`EventAssemblerProofs` proves **`AssemblerMatchesReference`**: for every changelog list and every event whose hashes pair up with its accounts and whose input indices are inside `pubkey_array`, `ParsePublicTransactionEvent` equals `SpecAssemble`.

- The proof shows that no zip shortens a list, that the panic branch is unreachable, and that the only error left is the output-count check on both sides.
- `FlattenSeqIsConcatenation`: `flat_map` (SequencesExt's `FlattenSeq`) is the ordered concatenation.

`AssemblerCallProofs` proves **`AssemblyMatchesSpecHolds`**: `Spec => []AssemblyMatchesSpec` for any input sets satisfying `InputsAssumption`. The inductive invariant `CallInv` says the inputs stay put and the outcome is pending or the call's result.

`ScannerRefinement` proves the refinement of `ParserSpec`, step by step:

- **`ImplementsParserSpecHolds`**: `Spec => ImplementsParserSpec`. It has two hypotheses:
  - `AssemblerMeetsSpec`: `Assemble` returns `SpecAssemble`'s result on well-formed, in-range events;
  - `EventsWellFormed`: every decodable event is of that kind. This is what `MCWellFormedAssumption` states of the model's payloads.
  - The initial states map to `Abs!Init`.
  - Every step keeps `tx`. A step that changes `result` starts from `Pending`, and `ResultIsSpecParse` shows that a returned result equals `SpecParse(tx)`. So every step is `Abs!Parse` or a stutter.
  - `ResultIsSpecParse` follows from the scan invariant `IInv` of `InstructionScannerProofs`.
    - The scanner's triggers are the reference's (`TriggersAgree`), and each trigger's outcome is `TriggerResult` (`OutcomeAgree`).
    - The trigger of rank `r` is the `r`-th of `InLexOrder`, so the first failing trigger is the least failing place.
    - An error carries no update.
    - `merge_updates` of `stateUpdates` is the concatenation `SpecParse` takes.
  - The instance `Abs` has its own copy of every `ParserReference` operator. The lemmas `Abs*` show each copy equal to the original, from the leaves up to `SpecParse`.
- **`ParserImplementsParserSpec`**: the same refinement with `parse_public_transaction_event` as the assembler. Here `AssemblerMeetsSpec` is discharged by `AssemblerMatchesReference`. What remains assumed is that the decoders return values of their types (`DecodersTyped`) and that the events are well formed and in range. Outside that range the code panics where the spec says `MalformedEvent` (run `malformed_index_panics`), so the refinement cannot hold there.

`PhotonMainProofs` proves, for every value of the constants that satisfies `ConstantsAssumption`:

- **`TypeCorrect`**: `Spec => []TypeOK`.
- **`SchemaBeforeUseHolds`**: `Spec => []SchemaBeforeUse`.
  - The inductive invariant adds two facts about main's position. While `pc` is `setup` or `migrate`, neither the indexer nor the API server exists. Once main is past them, or once anything has been started, the temporary database has been migrated. A panic in the temporary database's setup or in the migration stops main with nothing started.
  - `SchemaBeforeUse` alone is not inductive. It says nothing of the state just before `SpawnIndexer`, whose step must find `migrated` already set.
- **`DocumentedStartSkipped`**: for every chain, once the indexer runs with a `--start-slot` or a database's last indexed slot, and some block follows the documented start slot, `FirstStreamed(lastIndexedSlot) > DocumentedStart`. So a block at the documented start is never indexed. This is the `photon_start_slot_skipped` finding for every value of the constants.
  - The invariant conjunct it needs: once the indexer is spawned, `lastIndexedSlot` is `LastIndexedSlot(args.startSlot, dbResult, net)`. For this to be inductive, the indexer must not exist while main is still at `indexer` or `genesis`, where `dbResult` may change.
  - It rests on `FirstStreamedAfter` of `BlockStreamProofs`: if some block follows slot `l`, the first streamed block is a block after `l`.

`SnapshotServerProofs` proves, for every chain (`BlocksAssumption`: a finite set of naturals) and every choice of constants satisfying `ConstantsAssumption`:

- **`TypeCorrect`**: `Spec => []TypeOK`.
- **`ResumesRight`**: `Spec => []SnapshotterStartsRight`. `ConstantsAssumption` asks two things of the constants:
  - every start slot has a block below it, so `fetch_block_parent_slot` has an answer;
  - a snapshot listing is in slot order. main.rs:192 takes `last()` as the newest snapshot, and `get_snapshot_files_with_slots` is not among the sources, so this order is assumed, not checked.
- The inductive invariant is `IInv`, shared by the theorems. From `SelectLastIndexedSlot` on, `lastIndexedSlot` is the slot that step chooses (`Chosen`).
- The lemmas it rests on:
  - from `BlockStreamProofs`, which both binaries' proofs share: `NatSetHasLeast` (a nonempty set of naturals has a least element, by `WFMin`), `MinIsLeast` and `MaxIsGreatest` (`Min` and `Max` are characterised by their least or greatest element), and `FirstStreamedAfter`;
  - `ParentFacts`: the parent is the greatest block below the start slot;
  - `FirstAfterParent`: the first block after the parent is the start slot;
  - `LastIsGreatest`: the last file of a sorted listing has the greatest end slot.

What stays with TLC:

- The liveness properties (both `ShutdownCompletes`). TLAPS cannot reason about `ENABLED` and fairness here.
- The refinement for transactions with events whose hashes do not pair up. The spec states its properties only for well-formed events, and the code's zips then drop entries (run `missing_hash_drops_output`).
- The violations, which TLC finds in the models; they are counterexamples, not theorems.

## Not modelled

- The byte-level borsh decoding, and the layouts of `ChangelogEvent` and `PublicTransactionEvent` beyond the fields the parser reads.
- The indexing loop and the block fetchers (not among the sources). Only their task states and the stream's start convention are modelled.
- A task ending normally. `continously_index_new_blocks` and `update_snapshot` are not among the sources; the model takes them never to return, so the `Ok` join after which `expect_err` would panic (main.rs:288-290, snapshot server main.rs:218-220) is not reached for these two tasks. The HTTP server task, whose code is in the sources, does end normally (`ServerEnds`), and `snapshot_server_shutdown_panics` shows the panic that follows.
- The order of `get_snapshot_files_with_slots`'s listing and the existence of a block below each start slot: both are assumed (`ConstantsAssumption`), so `SnapshotterStartsRight` cannot catch a listing out of slot order.
- The API handlers, snapshot creation and the contents of the `/download` stream.
- Logging and metrics setup.
- `migration/mod.rs`, which is a static list.
