# TLA+ models of the PyPTO IR pass infrastructure

This directory holds TLA+ models of PyPTO's IR transformation core, together with the
TLC configurations that check them. The models are written from the C++ sources under
`src/` and, where the code is not in this repository, from `spec.md`. Those definitions
are marked `spec_modelled` in `PROJECT.json`.

## The system

PyPTO compiles programs through an immutable, typed IR. A `Program` is a map of
`Function`s. A function's body is a sequence of statements: `AssignStmt`, `EvalStmt` and
`ReturnStmt`, plus nested control flow before flattening. Expressions are `Var`s,
`Call`s, constants, and binary or unary scalar arithmetic. A `Call`'s op is either a
registered op (`tensor.add`, `block.load`, ...) or a `GlobalVar` naming a function.
`Var` identity is by pointer: two Vars may share a name and still be distinct (spec I5).

A pass maps a program to a program. Each pass declares the IR properties it needs,
produces and invalidates (`pass_properties.h`). A `PassPipeline` runs passes in order,
and each `IRProperty` has a `PropertyVerifier`.

The parts, and how they interact:

| Part | Source | Interacts with |
|---|---|---|
| ConvertTensorToBlockOps pass | `src/src/ir/transforms/convert_tensor_to_block_ops_pass.cpp` | Reads the OpConversionRegistry and builds calls through the OpRegistry. It produces IncoreBlockOps, which its own verifier checks. |
| IncoreBlockOps verifier | same file, lines 531-592 | Reads the OpRegistry categories and the OpConversionRegistry. |
| OpConversionRegistry | `src/src/ir/transforms/op_conversion_registry.cpp`, end of `passes.h` | A process-wide singleton holding the 13 default `RegisterSimple` rules. `RegisterSimple`, `RegisterCustom` and the `REGISTER_OP_CONVERSION` static initialiser add or override a rule. The pass reads it through `Lookup` and the IncoreBlockOps verifier through `HasConversion`, each when it runs. |
| Pass properties | `src/include/pypto/ir/transforms/pass_properties.h` | The required, produced and invalidated tags the pipeline tracks. |
| Pass, PassPipeline, VerificationMode | `passes.h`, `docs/dev/08-pass_manager.md` | Run passes in order and verify properties. |
| Identity pass | `src/src/ir/transforms/identity_pass.cpp` | A test pass that renames every function. |
| Structural equality and hash | `structural_comparison.h`, `docs/dev/01-structural_comparison.md` | Alpha-equivalence of IR through bidirectional Var maps. |
| IRVerifier | `structural_comparison.h` (verifier part) | Named rules: add, enable, disable. Only the declaration is in the repository. |
| IRSerializer | `src/include/pypto/ir/serialization/serializer.h` | Writes a node with a reference table keyed by pointer. Its output must deserialize with the same pointer sharing (spec 215). Only the header is in the repository. |
| Printer, Python bindings, codegen docs | the remaining files | Pure formatting or glue. Only the printer's header is in the repository. |

### ConvertTensorToBlockOps in detail

The pass has two phases. In phase 1 the pass lambda loops over the program's functions.
Each `InCore` function goes through `TransformIncoreFunction`:

1. Each `TensorType` parameter `p` gets `p_tile = block.load(p, ...)`.
2. Each body statement is processed in turn:
   - an assignment of a call to an op with a registered conversion becomes `v_tile = <block op>(substituted args)`;
   - every other assignment is kept, with its Vars substituted. When the substitution changed its value, it is bound to a fresh Var of the same name;
   - every other statement passes through unchanged.
3. Each return value that became a tile gets a new parameter `out_k` and `out_k = block.store(tile, ..., out_k)`, and the function returns the store result instead.

The pass records how many outputs each kernel gained and the rewritten kernel.

In phase 2, `UpdateCallSites` rewrites every non-InCore function. Before each assignment
that calls a kernel which gained `n > 0` outputs, it emits `n` buffers
`out_i = tensor.create(...)`. It then passes those buffers as extra arguments and binds
the result to a fresh Var of the kernel's new return type.

Both helpers key their substitution maps by Var name, not by pointer.

## Modules

- **`IR.tla`**: the IR as records, and the IR invariants a pass must preserve.
  - Types, expressions and statements are records. A `Var` carries its pointer (`id`) and its `name`.
  - Shapes, dtypes, offsets, kwargs and spans are abstracted away. No property tells two shapes apart.
  - The IR invariants of spec §3.5 are `FunctionWellTyped`, `FunctionInSSA` and `CallMatches`.
  - `Put` is the name-keyed `unordered_map` insertion, which overwrites an existing key.
- **`ConvertTensorToBlockOps.tla`**: the pass and its verifier.
  - State: `prog` (the input program), `phase`, `idx` (the function the current loop visits), `added` (`incore_added_outputs`), `transformed` (`transformed_incore_funcs`), `funcs1` and `funcs2` (`functions_phase1/2`), `nextId` (the next fresh Var pointer) and `err` (why the pass aborted).
  - Actions: `Phase1Step` is one iteration of the phase-1 loop, which runs the whole of `TransformIncoreFunction`. `EndPhase1` starts the phase-2 loop. `Phase2Step` is one iteration of that loop, which runs the whole of `UpdateCallSites`. `Finish` builds the new `Program`.
  - Inside a helper, each per-statement loop is a `FoldLeft` over an accumulator. The accumulator holds the loop's locals: `new_stmts`, the map, `return_stmt`, `new_params`, `num_added_outputs` and so on. There is one operator per branch of the loop: `LoadParam`, `KeepAssign`, `ConvertAssign`, `StoreReturn`, `KeepCallSite` and `RewriteCall`.
  - `SubstituteExpr` is recursive. It leaves BinaryExpr alone and only checks its operands (`SubstituteOk`), exactly as the code does.
  - Every `INTERNAL_CHECK`, and a `TypeMismatch` raised by `OpRegistry::Create`, ends the run in phase `"aborted"` with the reason in `err`.
  - `IncoreBlockOpsDiagnostics` is the set of diagnostics the verifier reports.
  - `ConvertProgram` is the same pass lambda as one function of the program: two recursive loops (`Phase1Loop`, `Phase2Loop`) over the same per-function operators. The pipeline calls it.
- **`Passes.tla`**: the passes and property verifiers the pipeline uses.
  - `PassPropertyTable` is every constant of `pass_properties.h`.
  - `RunPass` runs `Identity` (`CreateFunctionPass` of `IdentityFunction`) or `ConvertTensorToBlockOps` (the functional `ConvertProgram`).
  - `VerifierOk(q, P)` is "the verifier of q reports no Error on P", for TypeChecked (I2-I4), SSAForm (I6), SplitIncoreOrch (no IfStmt in an InCore body) and IncoreBlockOps (the pass's own verifier).
- **`PassPipeline.tla`**: `PassPipeline` of `passes.h`.
  - State: `passes`, `mode`, `initial` (the three members), the `input`, and Run's locals `current`, `state` (the tracked property set) and `next`.
  - Actions: `AddPass`, `SetVerificationMode`, `SetInitialProperties`, `Run` (Run's step 1), and one action per outcome of one loop iteration: `RequiredFails` (2a), `CallPass` with `PassRaises`, `ProducedFails` or `PassDone` (2b-2d), and `Return` (3).
  - The loop follows spec 4.8, because `PassPipeline::Run` is declared in `passes.h` but implemented outside this repository.
  - The constructor is not in the repository either. A new pipeline has mode `None`, as the class comment's usage implies: it runs with tracking only, then enables verification.
- **`RunPasses.tla`**: `PassManager.run_passes` of `docs/dev/08-pass_manager.md`, the composition `Pass3(Pass2(Pass1(program)))`, which may raise when verification is asked for. `PassPipeline` refines it (`ImplementsRunPasses`).
- **`StructuralEqual.tla`**: `structural_equal`, `structural_hash` and `assert_structural_equal` of `structural_comparison.h`, following the algorithm of `docs/dev/01-structural_comparison.md`.
  - Nodes are records with their pointer `ptr`: `Var`, `ConstInt`, `Add`, `AssignStmt`, `SeqStmts` and `Function`. `Fields(kind)` is `GetFieldDescriptors`: each field is an IgnoreField (a Function's name), a UsualField or a DefField (`AssignStmt.var`, `Function.params`).
  - `Equal` is the doc's `Equal` (pointer fast path, TypeName, Var dispatch, fields). `EqualVar` keeps `lhs_to_rhs_var_map_` and `rhs_to_lhs_var_map_`, threaded through the whole traversal in the record `s`. `VisitField` forces auto-mapping on inside a DefField.
  - The hash traversal is not in the repository. It follows spec 4.5: `hash_combine` (the doc's Boost formula, at `HashBits` = 16 bits because TLC's integers are 32-bit) over the TypeName and each non-ignored field. A Var hashes its type under auto-mapping, and otherwise a per-program identity number, here the order in which the traversal first meets it.
  - State: the pair compared, the flag, and the results of the three calls. `Compare` makes the three calls.
  - `AlphaEquivalent` is the reference: some type-preserving bijection between the Vars of the two sides renames one into the other (`Bijection` of the community module `Functions`).
- **`OpConversionRegistry.tla`**: `conversions_` as a map from op name to rule. A simple rule is the block op it creates; a custom rule is a `ConversionFunc` that returns one call of a block op.
  - `Defaults` is the constructor's 13 `RegisterSimple` calls, folded in order. `Init` is the singleton as `GetInstance` first builds it.
  - `RegisterSimple` and `RegisterCustom` overwrite an existing rule (`Register`, override semantics).
  - `Lookup` returns the rule or `NoRule` (nullptr), and `HasConversion` tests the key. `LookupTable` and `HasConversionTable` are what the pass and the verifier see of the registry.
- **`PipelineRegistry.tla`**: the registry composed with `PassPipeline`.
  - State: `conversions`, the pipeline's variables, and `startup`, true while the process is still registering.
  - Actions: `StartupWrite` (a `RegisterSimple` or `RegisterCustom` call, as `REGISTER_OP_CONVERSION` or a caller makes), `EndStartup`, and `PipelineStep`, one step of the pipeline.
  - `LateWrite` is the same registration after startup, which the code does not refuse. `LateSpec` adds it to `Next`, and the `registry_late_write` run uses it.
  - The pipeline is `INSTANCE PassPipeline` with its pass instantiated on `PassView` (the registry through `Lookup`) and its verifiers on `VerifierView` (through `HasConversion`). Both views are taken from the registry's current contents at each step.
- **`Serialization.tla`**: `IRSerializer` over the nodes of `StructuralEqual.tla`.
  - `Ser` is the header's mechanism. A node met for the first time gets the next index in the reference table, keyed by its pointer, and is written with every field in descriptor order, IgnoreFields included. A later occurrence is written as a reference to that index. The MessagePack encoding is left out.
  - `Des` is the deserializer the spec's contract implies: it builds a node after its fields, gives it a fresh pointer and records it under its index. A reference returns the recorded node.
  - `Paths`, `At` and `Label` are the reference: a node's subtrees by position.
- **`MCPipelinePrograms.tla`**: the input programs shared by `MCPassPipeline` and `MCPipelineRegistry`.
- **`MCPassPipeline.tla`**, **`MCPipelineRegistry.tla`**, **`MCStructuralEqual.tla`**: the instances (see Runs).
- **`MCConvertTensorToBlockOps.tla`**: the input programs. Every input satisfies the pass's precondition, which an `ASSUME` checks: flat bodies, a trailing return, well-typed, SSA and matching calls.

Two operators give meaning to a program, and the semantic property is stated with them:
- `Denote` evaluates an expression symbolically. Function calls are inlined. `block.load` and `block.store` mean the tensor they read or write, and a block op means the tensor op it came from.
- `Apply` evaluates a whole function.

## Runs

| Run | cfg | Expect | What it shows |
|---|---|---|---|
| `core` | `MCConvertTensorToBlockOps.cfg` | pass | On all 427 inputs, the pass either stops with TypeMismatch, or its output has all of the properties below. |
| `name_collision` | `MCNameCollision.cfg` | violation of `SemanticsPreserved` | Two Vars named `t` in one kernel: a later read of the first gets the second's tile. |
| `scalar_binary` | `MCScalarBinary.cfg` | violation of `NoInternalCheckFailure` | `k = tensor.dim(a); j = k + s` trips the BinaryExpr INTERNAL_CHECK (line 123). |
| `eval_tensor_op` | `MCEvalTensorOp.cfg` | violation of `IncoreBlockOpsHolds` | An `EvalStmt(tensor.add(...))` in a kernel survives the pass, and the pass's own verifier rejects the output. |
| `call_site_not_top_level` | `MCCallSiteNotTopLevel.cfg` | violation of `CallSitesMatch` | A kernel call that is not the value of a top-level `AssignStmt` is not rewritten: an `EvalStmt` calling the kernel, or an assignment inside an `IfStmt` of `main` (the `TODO(#229)` at line 330). Either keeps the old arity after the kernel gained out parameters. `SplitIncoreOrch` flattens only InCore bodies, so the pass's declared precondition does not exclude these inputs. |
| `pipeline` | `MCPassPipeline.cfg` | pass | `ImplementsRunPasses`: over Identity and ConvertTensorToBlockOps, up to 3 passes, every mode and every initial property set that holds, Run returns exactly what `run_passes` returns. It raises only when verification is on or a pass raised. |
| `registry_tracked_sound` | `MCPipelineRegistry.cfg` | pass | `RegistryTrackedSound`: startup registers any of a new rule for `tensor.matmul` and an override of `tensor.add` (simple or custom), in any order. Then every property a pipeline of up to 3 ConvertTensorToBlockOps passes tracks holds on the program it reaches. The pass and the verifier agree on the table because both read the registry when they run. |
| `identity_tracked` | `MCIdentityTracked.cfg` | violation of `TrackedSound` | Identity renames `f` to `f_identity` but `main` still calls `f`. The pipeline keeps `TypeChecked` tracked, because Identity declares nothing invalidated. |
| `registry_late_write` | `MCPipelineLateWrite.cfg` | violation of `RegistryTrackedSound` | `LateSpec` also lets `RegisterSimple` and `RegisterCustom` run after startup, as the code allows. IncoreBlockOps is set as an initial property of a kernel that calls `tensor.matmul`, and Run starts. A later `RegisterSimple("tensor.matmul", "block.matmul")` makes the IncoreBlockOps verifier report that call. The pipeline still tracks IncoreBlockOps as holding. Spec 197 forbids such writes while a pipeline runs, and spec 282 says they are currently allowed. |
| `structural_equal` | `MCStructuralEqual.cfg` | pass | `AutoMappingIsAlphaEquivalence`: with auto-mapping, `structural_equal` of two separately built nodes holds exactly when a type-preserving bijection of their Vars renames one into the other. `HashAgreesWithEqual`: nodes that compare equal hash equal, in both modes. `RoundTripPreservesSharing`: deserializing what `Serialize` writes gives back each node with the same shape, and two of its subtrees are pointer-equal exactly when they were before. |
| `structural_fast_path` | `MCStructuralFastPath.cfg` | violation of `AutoMappingIsAlphaEquivalence` | `x + x` equals `x + y` under auto-mapping when `x` is the same Var on both sides. The pointer fast path returns before `EqualVar`, so `x` never enters the maps and `y` is then mapped freely. The doc (line 547) and spec 8 say the mapping is always bijective. |

Properties of the `core` run:
- **`SemanticsPreserved`**: every output function, given the original parameters, computes what the input function computed. This is what a wrong entry in a name-keyed map breaks.
- **`CallSitesMatch`**: every function call in the output has one argument of the right type per callee parameter, added buffers included, and the callee's new result type. This relates phase 1 (new signatures) to phase 2 (call sites).
- **`OutputWellTyped`**: every Var is read after its definition, every Var has its value's type, and every function returns its declared types. This covers the placement and typing of loads, creates and stores.
- **`IncoreBlockOpsHolds`**: the verifier of the property the pass declares produced reports nothing.
- **`NoInternalCheckFailure`**: on a well-formed input, only `TypeMismatch` (a user-level error of `OpRegistry::Create`) may stop the pass.

Each property has a mutant in `PROJECT.json`: a plausible bug that TLC catches with that
property. The mutants are:
- a dropped TensorType guard in `LoadParam`;
- a kept assignment that is not remapped;
- the original op emitted in place of the conversion;
- buffers created but not passed;
- buffers created after the call;
- a kept pass result that is not stored in `current` (pipeline);
- `EqualVar` without the reverse-map check, and a hash that folds in IgnoreFields (StructuralEqual);
- a pass that keeps the registry as it was when the singleton was built (`LookupAtConstruction`);
- a serializer that never consults its reference table (`SerNoRefTable`).

### Inputs and bounds

Each input is one kernel `f` with a caller `main`, or two kernels `f` and `g` chained by `main`.

A kernel has:
- one or two statements, built from a converted op (`tensor.add`), an unconverted TensorOp (`tensor.matmul`), an alias, scalar arithmetic, or an op from a tensor to a scalar;
- one or two return values: tensors, scalars or parameters.

`main` takes one of these forms:
- a single call;
- a call followed by a tensor op on its result;
- two chained calls to the same kernel, so a rewritten result is passed back in.

The chained programs appear with `main` both before and after the kernels in the
function order. These bounds reach the following cases:
- 0, 1 and 2 added outputs, including a tuple result;
- scalar parameters that are not loaded;
- a return of a parameter directly;
- an unconverted op reading a tile, which carries a stale Tensor result type and makes a later conversion abort with TypeMismatch;
- several rewritten calls in one caller.

Fresh Var pointers start at 100, above every input Var.

The pass has no fairness and no liveness property. It is a terminating sequential loop
over a finite program, and every behaviour ends in `done` or `aborted` within
2·|functions|+2 steps. Deadlock checking is therefore off: stopping there is the program's
normal end.

### Pipeline bounds

`MCPassPipeline` has these inputs:
- single InCore kernels, one with a type mismatch;
- flat kernel-plus-`main` programs;
- one program whose kernel contains an `IfStmt`, so that SplitIncoreOrch fails and the Before check raises.

Up to 3 passes reach, in one run:
- a pass applied to its own output;
- Identity before and after ConvertTensorToBlockOps;
- every iteration outcome.

No fairness is assumed and no liveness property is checked. `Run` is a range-for over `passes_` in which every iteration raises or moves to the next pass, so it ends by its shape, and a termination property would say nothing about the code. `AddPass` has no bound in the code; `MaxPasses` bounds the model only.

Deadlock checking is off for the pipeline runs, because a returned or raised Run is the end of a behaviour.

`MCStructuralEqual` compares about 15000 pairs, each in both modes:
- **Sides:** each side has three Vars, two ScalarType and one TensorType. The left side uses pointers 1-3 and the right side 41-43, so the sides share no pointer, as when two programs are built separately. Every other node has its own pointer, derived from its contents (an `ASSUME` checks that within a side one pointer is one node). Sharing within a side is real: an assignment `v = v`, a parameter used in the body, or a sequence of the same statement twice. The round trip needs exactly this.
- **Pairs:** each pair takes both sides from the same category:
  - expressions: a Var, `ConstInt` 0 or 1, or an `Add` of two Vars;
  - one assignment;
  - two-statement sequences of Var-to-Var copies, where the second may use the first's definition;
  - one-parameter functions named 1 or 2.
- **Why this is enough:** these reach every branch of `EqualVar` (a type mismatch, the forward map, the reverse map and a new pair) and DefField forcing under both flags. They also include names that the comparison ignores and the hash must ignore.

`MCStructuralFastPath` has one pair that shares a Var.

`MCPipelineRegistry` starts from the 13 defaults. `TensorOps` is their ops plus `tensor.matmul`. The startup writes are a new rule for `tensor.matmul` (which `MismatchKernel` calls) and an override of `tensor.add` (which every kernel calls), each simple or custom. Inputs are the split programs of `MCPipelinePrograms` and a kernel that only calls `tensor.matmul`, with up to 3 ConvertTensorToBlockOps passes in any mode. This reaches a registry whose converted set differs from the defaults, and one whose rule for an op differs.

## What is not modelled, and why

- **Structural equality, node kinds:** only the node kinds listed under `StructuralEqual.tla` are modelled. The other kinds (`ForStmt`, `IfStmt`, `Call` and the rest) add descriptors of the same three field kinds, and no new control flow. Types are compared as values: a Var's type holds no Var in the modelled IR.
- **Structural equality, shared Vars and the hash:** with auto-mapping off, `Seq[a = 0; c = b]` and `Seq[b = 0; c' = b]`, with `b` shared, compare equal. `b` is free on one side and bound on the other. A per-program numbering of Vars, as spec 4.5 describes the hash, would give them different hashes. The hash traversal is not in the repository, so this is recorded as a hazard and not as a finding.
- **Concurrent registry writes.** A write that runs at the same time as a `Lookup` is a data race on an `unordered_map`, and is not modelled. A write that comes between pipeline steps is modelled as `LateWrite`, and `registry_late_write` shows its effect. `Spec` keeps the discipline that spec 197 and 274 ask of callers.
- **Custom rules with a prologue.** A custom rule is modelled as one call of a block op. A rule that returns prologue statements has a body outside this repository.
- **Out of scope:**
  - nested control flow in *InCore* bodies (`TODO(#229)`), because the pass requires flat bodies. Nested call sites in orchestration code are modelled (`call_site_not_top_level`).
  - prologue statements of custom conversions. No default rule has any.
  - `UnaryExpr`, `MakeTuple` and `TupleGetItemExpr`. They behave in `SubstituteExpr` like BinaryExpr and Call, which are modelled.
  - shapes, offsets, dtypes and kwargs, and so the op type rules behind `OpRegistry::Create`. The stale Call type at line 91 therefore shows only as a TypeMismatch abort.
  - the verifiers of NoNestedCalls, NormalizedStmtStructure, FlattenedSingleStmt and HasMemRefs, and the passes that produce them. Their implementations are not in this repository.
  - `GetPassNames` and `GenerateReport`. They only read state.
- **Serializer encoding.** MessagePack bytes, `SerializeToFile` and `msgpack.cmake` are encoding, I/O and build glue. Only the reference-table mechanism and the sharing contract are modelled.
- **IRVerifier.** Only its declaration is in the repository. The header comments fix two behaviours: `AddRule` skips a name already present, and rules are enabled and disabled by name. A model would only restate them. The property verifiers it runs are modelled in `Passes.tla`.
- **Not modelled at all:** the printer, the Python bindings and the codegen documentation. Only the printer's header (the `Precedence` enum and the function declarations) is in the repository, so there is no printing code to translate. The bindings and docs are glue.

## Plan

1. **CSE use of structural_hash and structural_equal** (doc lines 397-416) as a dedup table over the modelled nodes.
2. **Larger pipeline instances**, for example two kernels with Identity between two conversions.
