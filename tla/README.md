# TLA+ models of the landscaper installation pipeline

This directory has TLA+ specifications of the parts of the landscaper
(`src/`) with state, concurrency or protocol behaviour. It also has the TLC
configurations that check them. `PROJECT.json` lists every component, run,
mutant, source mapping, finding and hazard. This file explains them.

## 1. The system (inventory)

| Part | Source | State | Operations | Interacts with |
|---|---|---|---|---|
| DeployItem timeout controller | `pkg/landscaper/controllers/deployitem/controller.go` | the DeployItem's phase, LastError reason, LastReconcileTime, reconcile-timestamp and abort-timestamp annotations, plus the controller-runtime work-queue entry and RequeueAfter timer | `Reconcile`, `detectPickupTimeouts`, `detectAbortingTimeouts`, `detectProgressingTimeouts` | the landscaper (sets the reconcile annotation), deployers (pick up, finish, abort), the API server (status and metadata writes are separate) |
| Execution orchestrator | `pkg/landscaper/installations/template/templater_blueprint.go`, `options.go` | the template context's `imports`, accumulated bindings, errors, exports, deploy items, subinstallations | `TemplateImportExecutions`, `TemplateSubinstallationExecutions`, `TemplateDeployExecutions`, `TemplateExportExecutions`, `execute`, `getState`, `storeState`, `GetTemplateFromBlueprint` | state store (persistent between reconciles), template engines, `imports.ImportOperation.Ensure` (the caller of the import pass) |
| Template engines | `templating/spiff/spifftemplate.go`, `templating/gotemplate/gotemplate.go`, `installations/template/templater_basic.go` | the per-execution include counter (GoTemplate, module `GoTemplate`) | `Execute` (state handling for nil, empty and stored state), `include` | orchestrator |
| Legacy templater | `installations/executions/template/template.go`, `template_new.go`, `options.go` | see Not modelled | see Not modelled | `pkg/utils/landscaper/blueprint.go` (the deploy and subinstallation passes of `RenderBlueprint`) |
| Import constructor | `installations/imports/constructor.go` | the output import map | `Construct`, `constructImports` (recursive over conditional imports), `templateDataMappings` | data/target/CD providers, schema validation |
| Import operation | `installations/imports/operation.go` | installation imports and ValidateImports condition | `Ensure` | orchestrator |
| Blueprint rendering | `pkg/utils/landscaper/blueprint.go` | none (pure) | `RenderBlueprintDeployItems` (target resolution), `ValidateImports`, `MergeImports` | orchestrator |
| Deployer management | `pkg/deployermanagement/controller/controller.go` | Environment and DeployerRegistration finalizers and deletion timestamps, deployer installations per pair, host targets | `EnvironmentController.Reconcile`, `DeployerRegistrationController.Reconcile` (`InstallationController` is not modelled, see section 5) | each other (concurrently), `DeployerManagement.Reconcile/Delete` (outside `src/`) |
| Manifest deployer | `pkg/deployer/manifest/ensure.go` | DeployItem phase, managed-resource record, finalizer, objects in the target cluster | `Reconcile`, `CheckResourcesReady`, `Delete` | target cluster, DeployItem status |
| Container deployer | `pkg/deployer/container/reconciler_deployitem.go` | none of its own | delegation; `Abort` only logs | the timeout controller's abort request |

Hard behaviours the code is exposed to:
- interleavings of the three DeployItem writers;
- status-only versus metadata-only writes;
- timers that may fire late;
- a reconcile that reads one version of the object and writes another;
- state persisted between passes while a pass may fail half way;
- swallowed errors;
- recursion over conditional imports;
- parallel deletes that fail in part;
- a finalizer removed while a concurrent reconcile recreates a dependent.

## 2. Modules

### DeployItemTimeout (+ MCDeployItemTimeout)

This module models one DeployItem, the timeout controller and the two actors
that share the object with it.

- `di` holds the stored object. Timestamps are held as **ages**: the seconds
  since the timestamp was set, saturating at `Cap`. `Cap` exceeds every timeout
  plus `Margin`, so every comparison the code makes gives the same answer on the
  saturated age.
- `queued` is the work-queue entry.
- `requeueIn` is the earliest pending `RequeueAfter`. The controller-runtime
  delaying queue keeps the earliest timer per item, which is why `MinRequeue`
  combines them.

**Reconcile.** `Reconcile` is the whole of `controller.Reconcile`.
- `ReconcileOutcome` chains the three checks exactly as the code does, through
  `AfterAborting` and `AfterProgressing`. The pickup check comes first and
  returns after a status write. The aborting check returns after a status write,
  otherwise it writes annotations. Then the progressing check runs.
- `Persist` applies what the API server keeps: `Status().Update` stores the
  phase and reason only, and `Update` stores the annotations only.
- A successful write raises a watch event, which queues the item again.
- `ReconcileFails` is the same reconcile with a failing write (a conflict or an
  API error). It persists nothing and leaves the item queued: the rate-limited
  retry.

**Other controller actions.**
- `TimerFires`: a due timer hands the item to the queue.
- `Resync`: the informer's periodic resync.
- `Tick`: one second passes. It is disabled while a timer is due, so a timer
  fires within its second.

**Environment.** The landscaper and the deployers are outside `src/` (except
the manifest deployer's finish step), so their actions are modelled from the
spec's annotation contract. They are bounded by `MaxEnvSteps`:
- `LandscaperRequestReconcile`
- `DeployerPickup`
- `DeployerFinish`
- `DeployerAbort`
- `EditAnnotation`: a user overwrites the reconcile or abort timestamp
  annotation (the annotations in `Edits`) with a value that does not parse.

**Unparsable annotations.** `Unparsable` is a timestamp annotation that
`GetTimestampAnnotation` rejects. The pickup check, for an item it has not
failed, and the aborting check, for an item not in a final phase, return
`ParseError`. `Reconcile` then returns the error before any later check: it
writes nothing and the item stays queued, which is the rate-limited retry. The
clock does not age such an annotation, and only the landscaper or a deployer
replaces it. The branches that return before the parse (already failed by that
timeout, annotation absent) do not read it.

### DeployItemTimeoutSpec (abstract specification)

This module states what the timeout controller promises (spec 4.6), with no
work queue, timers, conflicting writes or requeue arithmetic. Its only
variable is `item`, the DeployItem. The controller makes four decisions on
it, each allowed only once the relevant age reached its timeout:
- `FailPickup` fails an item whose reconcile request was not picked up;
- `FailAborting` fails an item whose abort request was not honoured, and may
  remove the abort annotation in the same step;
- `RequestAbort` and `RestampAbort` ask a deployer to abort an item that has
  been progressing longer than its timeout (spec 4.6 step 3 stamps it again);
- `ClearAbort` removes the annotation of an item failed by the aborting
  timeout.
`World` is the landscaper, the deployer, a user corrupting a timestamp
annotation, and the clock, as in the detailed module. A decision needs every
annotation the code parses on the way to it (`PickupReadable`, `Stamped`). An
unparsable reconcile annotation therefore blocks all four decisions, and an
unparsable abort annotation blocks the aborting failure and the re-stamp. The first three decisions are weakly fair.

`DeployItemTimeout` instantiates it with `item <- di` and checks
`TimeoutSpecRefined == Abstract!Spec`. The mapping is the identity on the
DeployItem: `queued` and `requeueIn` are hidden. A reconcile whose write
changes nothing the abstract spec sees is a stuttering step. The fairness of
the abstract decisions follows from the weakly fair `Reconcile`, `TimerFires`
and `Tick` and the requeue chain `PickupCheckScheduled` checks.

### BlueprintTemplater (+ MCBlueprintTemplater)

This module models the execution orchestrator and the state store.

**State.**
- `store` maps a state key `<<prefix, name>>` to an opaque state. The key is
  `prefix+name` in the code. The prefixes all have the same length and differ,
  so the concatenation is injective and the pair is faithful.
- A state is modelled as the generation of its generated content, plus the kind
  and name of the execution that wrote it.
- `nextGen` numbers fresh generations.
- `pass` is the running call of one of the four `Template*Executions`
  functions. It holds the template context's `imports` (`ctx`), the accumulated
  bindings and errors, the export map (key ↦ position of the writer), and
  a history field that the properties use: each execution's output.

**Actions.**
- `StartPass` chooses a kind and up to `MaxExecs` executions. Each execution has
  a name, a type (including an unknown one) and a template source (inline,
  file, or none). `opts.TemplateContext` may fail (`StartStatus`): the pass
  then ends in error before its first execution. The context's `imports` is
  the installation's imports (`ContextImports`).
- `ExecuteFailsEarly` covers errors before the engine runs: an unknown type, no
  template, or an unreadable file.
- `Step` is one loop iteration: `execute()` (get the state, run the engine,
  store the state) followed by the kind's merge.
- `EndPass` returns the pass result to the caller.

**Nondeterminism.** The step chooses among these outcomes:
- Get succeeds, or fails with an error that is swallowed.
- The template declares state, or does not.
- The engine fails, or succeeds.
- Store fails, or succeeds.
- The import bindings are nil or a (possibly empty) map.
- The import execution reports errors, or does not.

**Engine state handling.** `NewState` follows the engines' contract:
- nil state data means no state handling, except that Spiff still determines a
  state from the template's state fields;
- empty state data means the first run, and the template's state is generated
  fresh;
- stored state data is kept.

### ImportConstructor (+ MCImportConstructor)

This module models `Constructor.Construct`: `templateDataMappings`, then
`constructImports`. `constructImports` walks the Blueprint's import
definitions in order. It recurses into the conditional imports of every
satisfied Data import.

**State.**
- `top` and `cond` hold the definition tree: the import list, and each node's
  conditional imports.
- `node` holds each definition's type and `required` flag (nil, true or false),
  and what the providers fetched for it. For a Data import this includes the
  installation's `ImportDataMappings` entry of that name: absent, a spiff
  template rendering to a valid or an invalid value, or one that fails
  (`Broken`).
- `execs` holds the installation's `ImportDataExecutions`: a list of outputs,
  each no mapping, `Broken`, or a mapping of names to valid or invalid values.
- `result` is the returned map or error.

A provided value is abstracted to what the checks look at:
- whether a data value validates against its schema;
- whether a target parses, and its `spec.type`;
- whether a target list is a list, and its element types;
- whether a descriptor parses.

**Definitions.**
- `ConstructDef` is one iteration of the loop, one CASE arm per type branch.
- `ConstructList` is the loop with its early return.
- `MergeConditional` is the merge of a recursive call's map into its parent's
  map.
- `Init` enumerates every tree shape of up to three definitions and every
  provider content.
- `Construct` is the single step. It returns `DataMappingFailed` when
  `templateDataMappings` fails.

**templateDataMappings.**
- `TemplateValues` is the fetched values: data objects, targets, target lists
  and component descriptors (`MappedInputs`). Descriptor lists are dropped.
- `ExecContext` is the names an execution's template finds under `imports`.
  The context holds `templateValues` itself, not a copy.
- `RunDataExecutions` is the execution loop. A mapping is written into both
  `templateValues` and `values`, and an execution error ends the function.
- `SpiffMappings` is the `ImportDataMappings` loop, and its results override
  the executions'. Go's map order does not matter here: each key is written
  once, and the templates read `templateValues`, which this loop does not
  change.
- `TemplateDataMappings` returns `ok`, `inst` (the copy taken before the
  first execution), `values` (the templated mappings `constructImports`
  receives, `Mappings`) and `saw`.

**Reference.** The reference (`Reference`) is spec section 4.3, stated
independently over the whole tree:
- the definitions are visited in pre-order;
- a definition is evaluated iff every ancestor is a satisfied Data import;
- the first failing evaluated definition decides the error;
- otherwise the result holds the provided values of the evaluated definitions.

The templated mapping the reference prefers (`SpecMapping`) is stated from spec
4.3 step 1 and spec 2. Spec 2 says the context accumulates the data mappings as
they run:
- an `ImportDataMappings` entry wins over every execution;
- a later execution wins over an earlier one;
- execution `i` sees the fetched values and the names mapped by executions
  before it (`SpecSaw`).

Two points come from the code, not from the spec: which fetched values are
read, and that any read or render failure stops `Construct`.

Blueprint validation (outside `src/`) guarantees that names are unique across
the tree, so the shapes use unique names.

### DeployerManagement (+ MCDeployerManagement)

This module models the Environment and DeployerRegistration controllers. They
keep one deployer installation per (registration, environment) pair, and each
sets `LandscaperDMFinalizer` on its objects, so that the pair's installations
are deleted before the object goes away.

**State.**
- `env` and `reg` are the API server's objects. Each has a lifecycle (absent,
  live, deleting, gone) and carries the finalizer or not.
- `inst` holds the installations, by pair.
- `target` holds the Environments whose host Target exists.
- `envQueue` and `regQueue` are the work queues.
- `envCtl` and `regCtl` are the running reconciles, one per controller. Each
  holds the object read by the Get (`snap`), the listed counterparts still to
  do (`todo`), and whether a fan-out delete failed (`errs`).

**Actions.** Each controller has one worker, so a reconcile is a sequence of
atomic API calls:
- `EnvGet` and `RegGet`;
- `EnvEnsure` and `RegEnsure`: the finalizer Update, which conflicts when the
  object changed since the Get. For Environments this step also includes the
  Target. For registrations it also includes the List;
- `EnvDelete` and `RegDelete`: one goroutine of the deletion fan-out, in any
  order;
- `EnvRemoveFinalizer` and `RegRemoveFinalizer`: after `wg.Wait()`;
- `EnvReconcile` and `RegReconcile`: one `dm.Reconcile` of the loop.

Every call may fail, and the error is retried. `dm.Reconcile` and `dm.Delete`
are outside `src/`. They are modelled as create-or-update and delete of the
pair's installation.

**Environment actions.** Users create and delete objects. An object without
finalizers is removed at once. The informers resync.

### ManifestDeployer (+ MCManifestDeployer)

This module models `Manifest.Reconcile`, `CheckResourcesReady` and
`Manifest.Delete` (`pkg/deployer/manifest/ensure.go`) for one DeployItem.

**State.**
- `di` is the stored DeployItem: its lifecycle, its phase, and the recorded
  `ManagedResources`.
- `cluster` holds the target-cluster objects: absent, present, or terminating.
- `mem` is the running reconcile: the DeployItem it read, and what Apply did.

**Actions.**
- `Apply` applies any subset of the non-ignored manifests. A proper subset is
  an Apply error.
- `Finish` is the rest of Reconcile plus the deployer library's status write.
  The write conflicts when the DeployItem changed since it was read.
- `Crash` loses the in-memory state between the two.
- `Delete` is the whole of `Manifest.Delete`, including the policy skip, the
  NotFound handling and the finalizer removal.
- `RequestDeletion` and `Vanish` are the environment: the user, and the target
  cluster finishing a deletion.

### BlueprintRender (+ MCBlueprintRender)

This module models `RenderBlueprint` in `pkg/utils/landscaper/blueprint.go`, the
renderer behind the command-line tooling. It is a pure computation: `Init`
enumerates every input and the single action `Render` computes the outcome.
- `given` holds the `BlueprintRenderArgs` fields that decide which imports
  are read: whether `Imports` is set, the values path (none, readable,
  unreadable), and whether `example/imports.yaml` exists. `ValuesPath` is
  `Default`: without caller imports and without a path, the example file is
  used if it exists. An unreadable values file ends the render (`ReadError`).
- `file` is the values file and `args` the caller's `args.Imports` (all
  `Missing` when `Imports` is nil). `MergeImports` merges the two: the
  caller's value wins.
- `ValidateImports` checks each declared import. A missing value is an error
  only when it is required. A target must be an object of the declared
  targetType. A target list must be a `[]interface{}` whose elements are all
  valid targets. A component descriptor must be an object, a component
  descriptor list a `[]interface{}` of objects, and an unknown import type
  is an error.
- `ResolveTarget` is the target branch of `RenderBlueprintDeployItems`. It
  covers an index reference into a target list, a reference to a target
  import, a literal name, and an empty reference. A deploy item whose
  template gave it no target (`ref = Missing`, a nil `elem.Target`) yields
  `Panic`: the code reads `elem.Target.Name` before any check.
- After the deploy items, `RenderBlueprintSubInstallations` can fail (the
  subinstallations cannot be read, templated, or their blueprint found):
  `Render` then ends in `SubError`. The installations it builds are data.
- A value is abstracted to the Go type the code asserts on. A YAML values file
  yields lists as `[]interface{}` ("ifaces"). Only a Go caller can pass a
  `[]map[string]interface{}` ("maps").
- `SpecResolve` is the reference: spec section 4.5, where a target list is any
  list.

### ImportOperation (+ MCImportOperation)

This module EXTENDS BlueprintTemplater with `ImportOperation.Ensure`
(`installations/imports/operation.go`), the caller of the import pass. An
import pass now ends with `Ensure` instead of `EndPass`; the other kinds still
end with `EndPass` (`EndOtherPass`).
- `instImports` is `inst.Imports` as Ensure leaves it. Each reconcile builds it
  afresh from the constructed imports, `OrigImports`.
- `cond` is the ValidateImports condition. It is kept between reconciles.
- `returned` is Ensure's result.

`Ensure` is the whole function. A templating error sets the condition to
"Unable to template executions" and returns before merging. Otherwise every
binding is merged, and validation errors set the condition with the joined
message and are returned. A clean pass returns nil and leaves the condition
alone. The condition helpers are outside `src/`: a condition of the same type
is replaced.

A GoTemplate execution with an inline template runs the go template engine
of `GoTemplate` through `GT == INSTANCE GoTemplate`: `StartGoTemplate` is
`Templater.TemplateExecution` making a fresh `TemplateExecution`,
`GoTemplateRuns` is a step of it, and `ExecuteStep` is `execute()` once the
engine returned. An error of the go template (a failed include) is the
engine's error, so the pass ends in error; a rendered template may still fail
later (decoding the result, storing the state), as in `Step`.

### GoTemplate

`TemplateExecution` of `templating/gotemplate/gotemplate.go`, one execution
with its `include` function. `te` is the execution: `includedNames` (total,
with 0 for an absent key; `include` treats both alike), the stack of include
calls in progress (the nested `te.Execute` frames), the number of calls, the
name called last, and the status. A template body is abstracted to the
include calls it makes, chosen from `IncludeNames`.
- `Include(n)` is the whole of `include`: a count above `RecursionMaxNums`
  fails before the increment; a name that is no file of the blueprint fails
  after the increment and without the decrement; a file that is not a JSON
  string fails in `te.Execute`'s `json.Unmarshal`, and the decrement follows.
- `IncludeReturn` is an included template rendered: its name is decremented.
- `TemplateFails` is an error of the template text; `ExecuteDone` is the
  top-level template rendered.
- `Fail` ends the execution: a go template stops at the first function that
  returns an error, and every include frame on the way out decrements its
  name.

`include` reads the file raw and hands it to `Execute`, which first
`json.Unmarshal`s it into a string: an included file renders only if its
content is a JSON-encoded string. The model keeps that (`JsonFiles`).

## 3. Runs

| Run | Config | Expect | What it shows |
|---|---|---|---|
| timeout_pass | `MCDeployItemTimeout.cfg` | pass | While a pickup is pending, the item is always queued or has a timer that fires no later than `Margin` after the pickup deadline (`PickupCheckScheduled`). Every timeout is eventually acted on (`TimeoutsActedOn`): an unpicked reconcile request ends in a PickupTimeout, and a progressing item whose timeout elapses is asked to abort, unless it finishes first or an unparsable reconcile annotation stops the checks. The detailed module implements `DeployItemTimeoutSpec` (`TimeoutSpecRefined`), corrupt annotations included. An unparsable reconcile annotation on an item not failed by the pickup timeout keeps it in the work queue, because the parse error is returned and retried, not read as "no request" (`UnparsableAnnotationRetried`). |
| timeout_abortcleanup | `MCDeployItemTimeout_abortcleanup.cfg` | violation | `AbortAnnotationCleared` fails: after an aborting timeout, a pending reconcile annotation lets the pickup check overwrite the reason before the cleanup runs. The abort annotation then stays forever. |
| templater_pass | `MCImportOperation.cfg` | pass | Import errors stop the batch and the bindings of every execution that ran are returned (`ImportErrorsStopBatch`). Exports are last-write-wins (`ExportLastWriteWins`). `Ensure` fails exactly on a templating error or on validation errors, with a condition carrying the stopping execution's errors and with the bindings of every execution that ran in the installation's imports; a clean pass leaves the condition as it was (`EnsureReportsImportPass`). This holds with failing Gets, engines, stores and template sources. In every go template execution, however includes nest, return and repeat, the count per name equals the include calls of it in progress (`IncludeCountsTrackNesting`), and the recursion error comes from exactly the include that would nest a name `RecursionMaxNums + 2` deep (`IncludeRecursionBound`). |
| templater_importctx | `..._ImportContextComplete.cfg` | violation | The second import execution no longer sees the installation's imports once the first returned bindings, even an empty map. |
| templater_state | `..._StateRoundTrip.cfg` | violation | `StateRoundTrip` fails. TLC's shortest trace: a failed Get is swallowed, and a Spiff execution's fresh state replaces the stored state. With Get never failing, the violation is a deploy execution that reads and overwrites the state a same-named subinstallation execution stored. |
| constructor_reference | `MCImportConstructor.cfg` | pass | For every tree of up to three definitions and two levels, every provider content and four lists of data-mapping executions, `Construct` returns exactly the spec 4.3 result (`ConstructMatchesReference`). Its data-mapping stage shares the context with `templateValues`: each execution sees the mappings before it, `ImportDataMappings` win over executions, and `instImports` keeps the fetched values (`DataMappingsMatchReference`). The reference computes `instImports` and the `GetData` calls the way the code does, so neither property checks whether mappings leak into `instImports` or whether an unused import may fail `Construct` (constructor.go:237). |
| dm_pass | `MCDeployerManagement.cfg` | pass | Once both controllers are idle, every live pair has its installation and every live Environment its Target (`ConvergedInstallations`). Every requested deletion ends with the object removed (`DeletionCompletes`). Whenever an Environment and a registration are both live, their installation is eventually created unless one of them is deleted first (`InstallationsEventuallyCreated`): settling is reached, not only correct when reached. `TypeOK` is not checked by this run, since the Go types already rule out a typing error. |
| dm_orphan | `MCDeployerManagement_orphan.cfg` | violation | Both finalizers are set. The registration controller recreates the pair's installation of a listed, deleting Environment after the Environment's fan-out and before its finalizer is removed. With the pass run's start (objects created during the run), the shortest violation is instead an Environment deleted before its finalizer was added. |
| manifest_pass | `MCManifestDeployer.cfg` | pass | The finalizer is removed only when every recorded managed object is absent from the cluster (`FinalizerRemovedAfterObjectsGone`). Every requested deletion completes (`DeletionCompletes`). |
| render_pass | `MCBlueprintRender.cfg` | pass | Whatever the values file and the caller provide, a rendered DeployItem's target object has the declared targetType (`ResolvedTargetHasDeclaredType`). Once the imports validate, literal and target-import references resolve as spec 4.5 says, from the caller's value over the file's (`SingleTargetResolution`). |
| render_resolution | `MCBlueprintRender_resolution.cfg` | violation | `TargetResolution` fails. TLC's shortest trace is a deploy item with no target: the renderer panics instead of failing with "empty target reference". With the target kept non-nil, the violation is a target list from the values file that passes validation, after which the index reference `0` into it fails with "invalid target spec". |
| manifest_leak | `MCManifestDeployer_leak.cfg` | violation | The deployer crashes between Apply and the status write, and the DeployItem is then deleted. Delete sees no ManagedResources, removes the finalizer, and the applied objects stay in the cluster. |

Every property of a passing run has a mutant in `PROJECT.json`. A mutant is a
plausible bug in one mapped definition, for example:
- a requeue one second late, or no requeue at all;
- elapsed time added instead of subtracted;
- errors checked before merging bindings;
- first-write-wins merging;
- storing empty state;
- a nil `required` treated as optional;
- only the first target-list element type-checked;
- the data object preferred over the templated mapping;
- conditional imports nested under their parent;
- an error swallowed without a requeue;
- the deletion timestamp never tested;
- the installation name's components swapped;
- ignored manifests applied;
- a terminating object taken as gone, or NotFound never recognised;
- the values file winning over the caller's imports, the target type not
  compared, or the empty-reference check dropped.

TLC finds each mutant's property violated.

### Bounds

**DeployItemTimeout.** `PickupTimeout = AbortingTimeout = 2`,
`DefaultTimeout = 3`, item timeouts `{none, 0, 2}`, `Margin = 1`,
`MaxEnvSteps = 3`.
- The timeouts differ from each other and from the margin, so the minimum of
  two requeues is exercised.
- An item timeout of 0 disables the progressing check per item.
- Three environment steps are enough for request, pickup and a new request
  (which the cleanup finding needs), or for request, pickup and finish or
  abort.
- Time itself is unbounded through saturation.
- Either annotation may be corrupted (`Edits = {"rts", "ats"}`), within the same
  three environment steps. The abort-cleanup run sets `Edits` to the empty set,
  so its counterexample shows the cleanup finding alone.

**BlueprintTemplater.** Two names, three types (one unknown), three sources,
one original import, one binding key, one export key, two executions per pass,
two passes, two state generations.
- Two executions are needed for any ordering question: context visibility, the
  error stop, last-write-wins.
- Two passes are needed for state that persists across reconciles (collision,
  regeneration).
- Two names distinguish own from foreign state.
- `templater_pass` runs these bounds through `MCImportOperation`, so every
  import pass ends in `Ensure`: with two executions an import pass can end in
  a templating error, in errors of the first or the second execution, or
  clean, with and without bindings.
- Go templates: `RecursionMaxNums = 1` stands for the code's 100; the
  boundary is the same, one count above the bound, and `MaxIncludes = 3`
  reaches it (f inside f inside f), as well as three sibling includes of f,
  which a count that is not decremented would reject. `g` is a file that is
  not a JSON string and `h` is no file, so each error path of `include` is
  taken (793,759 states, about 1.5 minutes).

**ImportConstructor.** There are five tree shapes: one definition, two
siblings, a parent with one child, a parent with a child and a sibling, and a
chain of three. Every definition type is allowed, including an unknown one, as
is every `required` value. Two target types are used, and the target lists are
empty, homogeneous, or mixed, with the second element of the wrong type.
- The sibling after a subtree is what separates a merge into the parent's map
  from a nested one, and a depth-first order from a breadth-first one.
- The mixed list separates checking every element from checking the first.
- This gives 245,025 initial states, each checked against the reference.

**DeployerManagement.**
- The pass run has one Environment and two registrations, one of which exists
  (converged) from the start, and one failing call.
- Two registrations give the fan-out two deletes to interleave and a key that
  resyncs can requeue forever, which is what the per-key fairness is about.
- The creation of the Environment and of the second registration races each
  other's reconciles.
- The violation run starts converged, with one Environment, one registration
  and no failures, to show that the orphan needs no missing finalizer.

**ManifestDeployer.** There are four objects: two under ManagePolicy, one
KeepPolicy and one IgnorePolicy. There is one crash.
- Two managed objects allow a partial Apply, and a Delete that finds one
  object gone and one not.
- The kept and ignored objects exercise the skip.

**BlueprintRender.** There is one import name and three target objects, two
of the declared type and one not. Lists have up to two elements, and indexes
run from -1 to 2.
- Every combination of definition (undeclared, or any of the six types,
  required or not), render arguments, file value, caller value and reference
  is enumerated: 1,898,590 states.
- One name is enough: `ValidateImports` treats each definition on its own, and
  a reference names a single import.

### Fairness

`Reconcile`, `TimerFires` and `Tick` are weakly fair:
- controller-runtime workers keep taking queued items;
- the delaying queue hands over due items;
- time passes.

These are not fair, because nothing in the code makes them happen:
- failing writes, resyncs and the environment actors;
- in particular the deployer, which need never honour an abort. The container
  deployer's `Abort` only logs.

The deployer-management controllers' steps are weakly fair, because each
worker keeps taking its queue. Each key's Get is strongly fair, because the
work queue is FIFO: a key queued again is handed out after the keys before it,
however often resyncs requeue others. Failures are bounded by `MaxFailures`.
Users and resyncs are not fair.

In ManifestDeployer, `Finish`, `Delete` and the cluster's `Vanish` are weakly
fair: the deployer keeps reconciling a deleting item, and the cluster finishes
deletions. `Apply` needs no fairness for the deletion property. Crashes and
the deletion request are not fair.

The templater runs have no liveness properties. A pass is a synchronous call.
Their configurations disable deadlock checking, because after the last bounded
pass the system is idle, waiting for a caller.

## 4. Findings

1. **Abort annotation cleanup lost** (controller.go:115, 200). The cleanup
   keyed on the AbortingTimeout reason is defeated by the pickup check, so the
   abort annotation remains.
2. **Import context replaced** (templater_blueprint.go:108; the same code is at
   template_new.go:125). The nil test is on the wrong
   variable.
3. **Swallowed Get error** (templater_blueprint.go:73). Stateful Spiff
   templates regenerate their state after a transient store error.
4. **Orphaned deployer installations** (deployermanagement controller.go:207,
   124). A reconcile loops over a List taken before it, without checking the
   listed objects. The other kind's finalizer removal does not wait for it. An
   installation can be created for a pair whose Environment is already gone,
   and nothing ever deletes it.
5. **Objects leaked by deletion** (manifest ensure.go:80, 155). Applied
   objects are recorded only by the status write after Apply. A crash, or a
   conflict with a deletion request, loses the record. Delete then removes the
   finalizer without deleting anything.

6. **Target lists can never be referenced** (blueprint.go:257). Resolution
   asserts `[]map[string]interface{}`, but validation (line 465) accepts only
   `[]interface{}`, the type YAML decoding produces. A value passes exactly one
   of the two checks, so every index reference fails.
7. **Nil target dereferenced** (blueprint.go:241). The ObjectReference is built
   from `elem.Target.Name` before the reference is inspected. A deploy
   execution that gives an item no target makes the renderer panic, where spec
   4.5 says "empty target reference".

The abort timestamp is re-stamped by every reconcile past the progressing
timeout (controller.go:266). Spec section 4.6 step 3 describes the same
behaviour. No run checks that the aborting timeout still fires: the
abstract specification allows the re-stamp at any time, so a deadline that
is moved forever refines it too, and `TimeoutsActedOn` asks only that the
abort be requested.

8. **Subinstallation and deploy state shared** (templater_blueprint.go:138).
   Subinstallation executions pass the state prefix `deploy`, as deploy
   executions do. A deploy execution is handed the state a same-named
   subinstallation execution stored, and overwrites it. Spec section 2 says
   the prefix distinguishes the two kinds.

A further observation is not checked by a run: a successful `Ensure` never
sets the ValidateImports condition back (operation.go:63). A False condition
from an earlier reconcile stays unless the caller, which is outside `src/`,
resets it.

## 5. Not modelled

- `InstallationController` (deployermanagement controller.go:238-261). It
  only calls `dm.CleanupInstallation`, which is outside `src/`, on
  installations that are being deleted. The model removes a pair's
  installation in one step, so it has nothing to clean up.
- Template rendering itself (string processing).
- The package `installations/executions/template`, as a module of its
  own. `blueprint.go` imports it (line 27) and calls `template.New(...)` in
  `RenderBlueprintDeployItems` (:228) and `RenderBlueprintSubInstallations`
  (:342); `BlueprintRender` abstracts those passes to the items or error
  they return. The package holds two `Templater`s: the older one of
  `template.go` (`New(templaters...)` and the four `Template...Executions`
  methods, without state handling) and the one of `template_new.go`, which
  declares the same names again and is the one `blueprint.go`'s calls fit.
  As given, the package does not compile: the names are declared twice,
  and `NewMemoryStateHandler` and `GenericStateHandler` are not declared in
  `src/`. `template_new.go` is `templater_blueprint.go` with two changes:
  - the unknown-type check moved in front of the template lookup;
  - the context built by this package's `options.go`, whose
    `BlueprintExecutionOptions` has no imports at all.
  The state handling and the import-pass bug of the live copy (findings 2, 3
  and 8) are the same at `template_new.go:82-84`, `:125` and `:162`;
  `template.go:85` tests the nil `imports` the same way.
- The template context of `installations/template/options.go`, beyond the
  `imports` key: the serialized component descriptors and blueprint
  reference, and the export flattening. No property tells these data apart.
  The flattening writes every export at the top level after `cd`,
  `components`, `blueprint`, `imports` and `values`, so an export with one of
  these names replaces that key for the export executions (`options.go:165`).
  The spec asks for the flattening and is silent on collisions, so this is
  listed as a hazard without a property.
- In `blueprint.go`: the Data schema check (jsonschema, outside `src/`), the
  reading of the component descriptor and the blueprint, and the objects
  `RenderBlueprintSubInstallations` builds. Import definitions are assumed to
  have `Required` defaulted by the blueprint loader, which is outside `src/`.
- The GoTemplate template functions other than `include` (the sprig and
  landscaper function maps): they are data transformations.
- Schema validation internals.
- Component-descriptor codecs.
- Generated conversions and API types.
- Command options, tests, mocks and test utilities.

These have no state changes, or are data formatting that no property here
distinguishes.
