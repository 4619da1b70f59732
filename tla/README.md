# A TLA+ development for suffiks

Suffiks is a Kubernetes operator. Users write an `Application`; the operator
renders a Deployment and a Service from it and lets *extensions* add to them.
An extension is a gRPC service or a WASI module, registered by an `Extension`
object whose JSON schema is merged into the CRD of the kinds it targets.

This directory models the parts of the operator that decide something under
concurrency and failure, checks them with TLC on small instances, and proves
the most important results with TLAPS for every value of the constants.
`PROJECT.json` is the index: components, runs, mutants, the map from
definitions to source lines, findings, hazards and theorems.

## 1. Inventory

| Component | Source | State it keeps | Operations | Module |
|---|---|---|---|---|
| Application reconciler | `internal/controller/reconciler.go`, `application_reconciler.go` | none of its own: the object, its finalizer and status at the API server, the Deployment, the Service | `Reconcile`: finalizer, delete, `IsModified`, sync, apply, status | `AppReconciler` |
| Extension controller | `internal/controller/ext_controller.go` | per call: `Changeset`, `Result.Extensions`, `errs` | `Sync`, `Delete`, `DeleteExtension`, `Default`, `Validate` | `AppReconciler` (as calls), `SyncFanout`, `FanOut`, `Admission` |
| Changeset | `internal/extension/changeset.go` | lists, labels and annotations, one combined merge patch | `Add`, `AddMergePatch`, `Apply` | `SyncFanout` |
| WASI runner | `internal/waruntime/runner.go`, `errors.go` | two channels per `Sync`; requests and validation errors of a call | host functions, `Recv`, the goroutine of `Sync`, calls of the guest | `WasiStream`, `WasiCalls`, `ExtensionTest` |
| Extension reconciler | `internal/controller/extension_controller.go` | the CRDs of the cluster | `Reconcile`, `RefreshCRD` | `ExtensionRegistry` |
| Extension manager | `internal/extension/ext_manager.go` | map of extensions, one generator per kind | `Add`, `Remove`, reads | `ExtensionRegistry` |
| Schema generator | `internal/specgen/generate_spec.go` | schema, applied schemas | `Add`, `Remove` | `ExtensionRegistry` |
| Extension webhook | `pkg/api/suffiks/v1/extension_webhook.go` | none | validation | `ExtensionRegistry` (guards of the users) |
| Application webhooks | `internal/controller/reconciler_webhook.go` | none | `Default`, `validate` | `Admission` |
| WASI controller | `internal/waruntime/controller.go`, `internal/extension/wasi_extension.go` | loaded modules and versions, the shared field `instance` | `Load`, `NewRunner`, calls | `WasiCalls` |
| Documentation server | `internal/docparser/`, `cmd/suffiks/main.go` | store of pages | `convert`, `Parse`, `Store`, `GetAll`, the loop `updateDocs` | `DocTree`, `Docs` |
| Extension SDK | `extension/`, `extension/example/`, `extension/protogen/` | the server; the resources of the extension in the cluster | `Serve`, `Sync`, `Delete`, `Default`, `Validate`, `Documentation` | `ExtensionServer`, `Docs`, `Admission` |
| `extgen wasi` | `cmd/extgen/wasi/` | images in a registry; a fake cluster per file of tests | `publish`, `test` | `Docs`, `ExtensionTest` |
| `extgen`, generated clients and messages, tracing | `cmd/extgen/main.go`, `pkg/client/` ... | none that the operator decides on | | not modelled |

**How they interact.** controller-runtime calls each `Reconcile` with one worker
per kind, from a work queue that is fed by informers. Informers copy API objects
into caches that lag behind the server; writes of the custom resources carry a
`resourceVersion` and are refused when it is old. The Application reconciler
calls `ExtensionController.Sync`, which starts a goroutine per registered
extension; a gRPC extension answers with a gRPC stream, a WASI extension with
the two channels of `WasiStream`; all goroutines add to one `Changeset`, which
is then applied to the Deployment. The Extension reconciler changes the set of
registered extensions and the schemas of the CRDs while Applications are being
reconciled. A goroutine asks every registered extension for its pages every three
minutes and stores them; whoever asks the documentation server gets the merged pages
of all. Behind the SDK an extension handles the calls of the operator and keeps
resources of its own in the cluster. `extgen wasi test` runs a WASI extension with
the operator's own `ExtensionManager` and `ExtensionController`.

**What is hard.**
* Reconcile reads stale copies and decides to delete, to overwrite or to do
  nothing on the strength of a hash in the status.
* Every call may fail, also after it had its effect, and the process may die
  between any two; then everything depends on what was stored already.
* `Owns` is empty: nothing but a write of the Application wakes its reconciler,
  so an error that is not returned is an error that is never repaired.
* Goroutines share a slice of errors without a lock.
* All calls of a WASI object write and read one field, `instance`, without a lock.
* Defaults of several extensions are merged in the order in which goroutines end,
  while extensions are registered and removed.
* `select` between a buffered message or error and a closed channel is a coin toss: a
  WASI guest that fails may be taken for one that is through.
* The schema generator changes nested maps in place, in random order, and may
  fail half-way.
* A write of an extension may arrive after its process, or the operator that asked
  for it, has died and another call is under way.
* Requests for the documentation merge and sort categories under a lock for readers.
* `convert` keeps its place in the tree by going up once for every node left.

**What makes each part correct.** The workload never outlives the finalizer; the
status hash is never ahead of what is deployed and synced; no wake-up is lost;
deletion completes; an extension that was called is eventually told to delete.
What is admitted was shown, with its defaults, to every validating extension.
A call of a WASI extension works on its own request. No response that the stream of an
extension gives is lost, reordered or replaced by an older one, and a stream that ends with
an error is never taken for one that does not. (What is between a WASI guest and its stream
does lose a last message, or an error; section 3 has what follows.) A stream ends, in order.
The schema of a kind covers the base and what is applied, and has no other field; every
extension ends up served; none is called after it is gone; the operator starts. The pages served are those of one
release of each extension, each once, and follow the releases. An extension that
has answered `Sync` has done it, a server that stops finishes what it has, and a
guest is never told of a deletion that did not happen. A file of tests passes when
its tests are met.

`PROJECT.json` lists the hazards at the lines where they bite, each with the
properties that would catch it.

## 2. The modules

### `AppReconciler` - one Application

State: the object at the API server (`app`), the versions on the watch stream
(`inflight`), the informer's copy (`cache`), Deployment and Service with their
informers' copies, what each extension last applied (`ext`), the registered
extensions, the work queue (`queued`) and the `Reconcile` call under way
(`rec`: program counter, the copy it read, the extensions still to be called).
`seen`, `spent`, `rec.kept` (the extensions that are put back in the list because
their `Delete` failed) and `unnoticed` (those that failed without `Reconcile` being told,
until they succeed) are history and budget; no action of the operator reads them.

One action per call that `Reconcile` makes: `Start` (Get and the early returns),
`AddFinalizer`, `DeleteDeployment`, `DeleteService`, `ExtDelete`/`ExtDeleted`,
`RemoveFinalizer`, `CheckModified`, `ExtSync`/`ExtSynced`, `DeleteOld`/
`OldDeleted`, `ApplyService`, `ApplyDeployment`, `WriteStatus`. Between any two
of them users create, edit and delete, caches catch up, replicas roll out,
somebody drops the Deployment or the Service, extensions come and go, and the
process restarts. A failing call either had its effect or not, and an extension may fail
unnoticed in two ways: an extension of the set `Wasi` fails in `Sync`, and the end of its
stream overtakes the error (`runner.go:191`); and one that refuses in the `Error` of its
`DeleteResponse`, which the caller drops (`ext_controller.go:103`). Both are calls in
`Faulty`, so that their failure counts against `MaxFaults`. Properties about what extensions
have applied leave out those in `unnoticed`, and only these.

Abstractions. A *content* is everything a user controls; the code looks at three
functions of it: hash (without annotations), port and the root keys set in the
spec. The fields that `newDeployment` renders are one value, the content. The
order of the list `Status.Extensions` is left out: a list in another order
makes one more status update. The API server, informers and queue are external and modelled from
how the code uses them.

### `SyncFanout` and `FanOut` - one call of `Sync`

`SyncFanout` is the detailed one: goroutines that receive a stream (`script`),
`Changeset.Add` under its lock, the unlocked `errs = append(errs, err)` as a
load and a store, `wg.Wait`, and `Apply`. `FanOut` says what callers rely on:
the call returns when all extensions have finished, with an error exactly when
one failed. `RefinesFanOut` is checked as a property.

Abstractions. Container-like responses are list entries; labels and annotations
set a path; a merge patch sets or removes one path; a patch that is not JSON is
a flag. A goroutine's append that races another's is modelled as the lost
update; tearing of the slice header is not.

### `WasiStream` - one stream of a WASI extension

The goroutine that runs the guest (`producer`), the channel with room for one
message (`buf`), the errors channel, `close` of both, and `Recv` with every
choice that `select` has. `Reuse` is the guest that goes on writing to the
memory that `mergePatch` passed on; `Stop` is `runExtension` returning after a
response that `Changeset.Add` refuses.

### `Admission` - one admission request after the other

A request (`req`) passes the mutating webhook (`Receive`, `DefaultCall` per
goroutine, `DefaultDone`) and the validating one (`StartValidate`, `ValidateCall`,
`ValidateDone`); a deletion passes the second only. `responses` is in the order
in which goroutines took the lock, `registered` changes at any time, and the API
server may give up at any time. `due` and `said` are history.

A spec is a function from root keys to values. An answer to `Default` is a merge
patch of the whole object: one under `spec`, as the WASI extension of the tests
sends it, or one with the keys of the spec at the top level, as the SDK encodes
it, which has no effect on the decoded object (`SpecPatch`). Extensions answer
arbitrarily: what a validation says does not depend on what it is shown.

### `WasiCalls` - the calls of one WASI extension

State: the modules loaded so far, of which `waruntime.Controller` has the last; the
`WASI` objects, one per `Add`, and the field `instance` of each; one runner per
call, with its module, its host module, its two requests and its validation
errors; and the calls. `NewRunner`, the write of `instance`, its read, `Sync`'s
early assignment of the request and `Runner.instance` are steps of their own;
between any two of them others go on and `AddWASI` replaces the module. The guest
may read the request, access resources, complain and return, in any order.
wazero is external: a second host module of one name in a runtime is refused, and
so is a module that has been closed. Different images are different binaries.
The worker of the reconciler has one call at a time; that the goroutine of a
`Sync` can outlive it is in `WasiStream` only. `wanted` is history: what `AddWASI` was
called with, of which `Load` ignores what comes with a known tag; `since` and `asked` are how
much of `loads` and `wanted` there was when a call began.

### `ExtensionRegistry` - all Extensions

State: the Extension objects, watch streams and caches; the schemas in the CRDs;
the generator of each kind (`schema`, `applied`); the map of extensions
(`registered`); the process (`mode`, `listed`), the worker (`rec`, `todo`) and
the queue. Actions: one per call of `Reconcile` (`Start`, `AddFinalizer`,
`AddExtension`, `UpdateCRD`, `WriteStatus`, `RemoveExtension`,
`RemoveFinalizer`), the boot (`BootList`, `BootAdd`, `BootCRD`, `BootDone`) with
the panic of `main`, `Restart`, and the users behind the webhook. `clashed` is
history: an add has met a field of another extension. What such an add leaves in
the maps is no longer exact, so `SchemaExact` and `QuiescentServed` are about the
behaviours before it, and `SchemaCovers` about all.

A schema is a set of paths of any length, each in an object of the same schema, and a path
is an object in all schemas or in none. `GenRemove` takes away what is not an object, and
`Pruned` the objects without properties, at the top only: those that are emptied further
down stay, with the object at the top around them. `PartialAdds` is the set of what an `add` that
fails may leave in the maps, for every order of iteration.

### `DocTree` and `Docs` - the documentation

`DocTree` is `convert`: the nodes of a syntax tree, each with its depth, in the
order in which goldmark enters them, become tokens with their parents
(`Visit`: `Leave` for each node that ends, then `Enter`), and `Fix` takes the text
of a text with tokens below. `Renders` says what the tokens of a tree should be,
without the walk: one per node but for texts in a row, under the token of the node
above, with all words in order. `IsPage` is what goldmark makes of a page: texts and
fenced code are leaves, a block of text has the words of its children only, and inline
texts are not its siblings. `MCDocs` compares the two for every such tree with up
to five nodes of known kinds (`ConvertRenders`, evaluated with the run).

`Docs` has the authors (`served`, `image`), the Extension objects (`wanted`), the
worker of the extension reconciler as far as pages are concerned (`Fetch`,
`Register`, `Deregister`), the store (`docs`) and the goroutine `updateDocs` (`All`
and `AllReturns`, between which the map is read; `Documentation` and `ParseAndStore`
per extension; `Select`, `Timer`, `CtxDone`). `GetAll` answers a request in one step,
for it holds the lock; `reply` is what it returned. `Remove` of the manager deletes from the map without
the lock that `All` holds: while `All` is under way the extension may or may not be
in its result, or the runtime ends the process (`NewProcess`).

Abstractions. A page begins as front matter and syntax tree; a text is a sequence
of words, the attributes of a node one value, slugs are left out. All pages of a
release change at once: `oras.Copy` moves the tag last, and `Serve` reads the files
before it listens.

### `ExtensionServer` - an extension under the SDK

For one Application: the revision the user wrote and the one whose hash is in the status or
whose finalizer is gone (`want`, `done`), whether the status lists the extension
(`listed`), what the worker is going to write (`result`), the calls in flight with the place where each handler is, the
server (`Boot`, `Stop`, `Drained`, and its death at any time), and the Ingress of
the example extension with its `resourceVersion`. `Accept`, `DecodeObject`,
`Default`, `Validate`, `Get` and `Write` are the steps of a handler. When a process
dies, a write that was sent is "lost": it may still arrive (`Arrive`), before or
after those of later calls. Of the operator there is one turn of `Reconcile` with regard to this
extension: `Reconcile` up to the call, `Outcome` what it makes of the answer, `Record` the
write of the status or of the finalizer. A failing `Sync`, and a failing `Delete` for an
Application that is being deleted, end the turn, and another one follows. A failing `Delete`
because the extension is not used any more is logged; the extension stays in the list, the
status is written, and nothing is tried again (`reconciler.go:138`). Its reads are up to date and
the finalizer is there, for stale copies are in `AppReconciler`. `Validate` of an extension that reads the owner panics for a
deletion, which is the end of the process.

### `ExtensionTest` - `extgen wasi test`

One file of tests against one extension, from `Load` to the verdict. The extension
is that of `internal/waruntime/testdata/as`: `Complains`, `Defaulted` and the four
steps of `Sync` and `Delete` that call host functions are its code; `HostCall`,
`toClientError` and `NotAllowed` are the host's. Contents of specs and of Ingresses
are members of a small set. `seen` is history: what came of each test, and the
cluster it left. `Faults` is what a cluster may answer besides; a fake one adds
nothing.

### `*Proofs`

The theorems about the module of the same name, each in a module that EXTENDS it and
`TLAPS`; section 4 says what they prove. `WasiCallsProofs` EXTENDS `WasiStream` as well,
whose specification therefore has names of its own (`StreamSpec`, `StreamTypeOK`).

### `MC*`

Values for the constants, described in each module. The `.cfg` files only assign
constants and choose specification and properties.

## 3. Runs

| Run | Result | What it shows |
|---|---|---|
| `app_safety` | holds | with a failing call, a dropped workload, a rollout and churn of extensions: no workload outlives the finalizer; the hash is written only for the Deployment it describes, and the extensions whose failure was reported |
| `app_live` | holds | with a failing call and a restart: nothing left to do means gone or converged, if no edit is reverted; always-on extensions are told of deletions; convergence, deletion, and the deletion of listed extensions that are in use no more; the inductive invariant of the proofs |
| `app_retry` | violated | a failing `Delete` of one extension is never tried again |
| `sync_fanout` | holds | refinement of `FanOut`: an error is returned exactly when the stream of one extension ended with one; nothing lost, last word wins, bad patches caught, list of extensions complete |
| `admission` | holds | what is stored was checked with its defaults by every validating extension; last default wins; exact answers |
| `wasi_calls` | holds | guests of the reconciler see their own request only; no mixed-up validation errors; module never older than at the start of the call; permissions lag behind only by edits that left the tag alone |
| `wasi_stream` | holds | end of stream, genuine errors, both ends terminate |
| `reg_safety` | holds | schemas exact but for emptied objects, and everything served, until two extensions clash; no field taken away even then; no ghosts within a process; with stale caches, a failure and a restart |
| `reg_restart` | holds | without clashes the operator starts, and serves every extension in the end |
| `docs` | holds | pages served once each, in order, rendered as their files say; one release at a time in the store; the store follows the releases |
| `sdk` | holds | when the status says so the rules are set, though writes arrive late; a stop cuts no call; in the end the operator is through with the last spec, or the deletion |
| `ext_test` | holds | a file of tests passes exactly if its tests are met; no deletion is acknowledged that did not happen |

The violated run is a disagreement between the code and a message of it, which
`PROJECT.json` quotes; `ListedUnusedIsDeleted` holds in `app_live`, without
failures of that one call and for extensions that the status lists.

**Observations.** The modules also state properties that the code does not have
and that no run lists. Each is refuted by adding it to the cfg named here, with
the change given:

| Property | How TLC refutes it | Behaviour |
|---|---|---|
| `QuiescentConverged` | `AppRetry.cfg` with `AllowRevert = TRUE`, `MaxWrites = 3`, `MaxFaults = 0` | an edit whose status update conflicts, and its revert: the status has the hash of the content again, and the edit stays deployed (`application_reconciler.go:179`) |
| `UnusedIsDeleted` | `AppRetry.cfg` with `MaxFaults = 0` | a status update that conflicts with the edit that takes an extension out of the spec loses the list of extensions; the extension is never told to delete (`reconciler.go:155`), although `docs/extensions/overview/01_overview.md:27` says so |
| `GoneMeansDeleted` | `AppRetry.cfg` with `MaxFaults = 0` | `Delete` calls the extensions that the last spec selects (`ext_controller.go:105`), not those in `Status.Extensions` |
| `ListedMeansSynced` | `AppSafety.cfg` with `MaxChurn = 2`, `MaxDrops = 0`, `MaxRollouts = 0` | an extension that is not registered when `Sync` chooses whom to call, and registered again before `DeleteExtension`, is told to delete; when that fails it is put back in the list (`reconciler.go:136`) of a content that it never got. The comment at `ext_controller.go:45` says "Extensions contains the name of extensions that were ran during the operation" |
| `FailureMeansNoHash` | `AppSafety.cfg` | the end of the stream of a WASI guest overtakes its error (`runner.go:191`), `runExtension` returns nil (`ext_controller.go:413`), and the hash is written although the guest has applied nothing |
| `QuiescentSynced` | `AppLive.cfg` | ... and as the hash is up to date, nothing calls that extension again |
| `RefusalHoldsBack` | `AppLive.cfg` | an extension that refuses in its `DeleteResponse` does not keep the finalizer (`ext_controller.go:103`) |
| `AllErrorsReported` | `SyncFanout.cfg` | the unlocked append at `ext_controller.go:377` loses errors |
| `EnvReachesWorkload` | `SyncFanout.cfg` | `Changeset.Apply` ignores the lists that `Add` collects (`changeset.go:112`) |
| `NullRemoves` | `SyncFanout.cfg` | `Apply` decodes the patched JSON into the same Deployment, in which what a null removed is still there (`changeset.go:126`) |
| `DefaultsStored` | `Admission.cfg` | the SDK answers `Default` with the bare spec (`extension/server.go:142`), the caller merges it into the top level of the object; `docs/extensions/overview/01_overview.md:34` says "`Default` should be used to modify the stored spec" |
| `ValidatesUsedOnly` | `Admission.cfg` | every validating extension is asked, used or not (`ext_controller.go:271`); `01_overview.md:38` says "whenever the extension is used by a kind spec" |
| `OwnRequest` | `WasiCalls.cfg` | a `Sync` that runs into the runner of a webhook replaces its request before it fails (`runner.go:217`): that guest defaults or validates another object |
| `NoCollision` | `WasiCalls.cfg` | calls that read `instance` after another one wrote it fail on its runner (`wasi_extension.go:76`) |
| `PermissionsCurrent` | `WasiCalls.cfg` | `Load` ignores new permissions under a known tag (`controller.go:75`) |
| `PatchIntact` | `WasiStream.cfg` | `mergePatch` sends a view of the guest's memory (`runner.go:361`) |
| `AllReceived` | `WasiStream.cfg` | `Sync` closes both channels with the last message still in the buffer, and `select` may take the closed one (`runner.go:191`); `internal/waruntime/test_test.go:148` expects the only message of a guest |
| `FailureSeen` | `WasiStream.cfg` | the same with the error of the guest: `Recv` may see the end of the stream and never the error (`runner.go:191`, `229`) |
| `NeverGhost` | `RegRestart.cfg` | `RefreshCRD` registers extensions that have no finalizer yet (`extension_controller.go:154`) |
| `OperatorStarts` | `RegRestart.cfg` with `Specs = {"hosts", "stolen", "users"}`, `SpecsOf <- Fields` | `RefreshCRD` returns the clash that `Reconcile` skips, and `main` panics on every start (`extension_controller.go:154`) |
| `ActiveMeansServed` | `RegSafety.cfg` | a clash is skipped, and the status becomes Active (`extension_controller.go:83`) |
| `CRDExact` | `RegSafety.cfg` | the deletion branch does not write the CRDs (`extension_controller.go:125`) |
| `NothingLeftOver` | `RegSafety.cfg` | an object below the top that a removal has emptied stays, and with it the object at the top (`generate_spec.go:164`): `db` and `db.conn`, after an extension with `db.conn.host` is gone |
| `SchemaExact`, `QuiescentServed` | `RegSafety.cfg` with `Specs = {"hosts", "free"}`, `SpecsOf <- Open` | reconciling one extension prunes the empty object of another (`generate_spec.go:166`) |
| `TargetsExact` | `RegSafety.cfg` with `Specs = {"hosts", "wide", "users"}`, `SpecsOf <- Narrow`, `TargetsOf <- MCTargetsOf` | `Add` and `Remove` visit the targets of the present spec only (`ext_manager.go:94`) |
| `GonePagesGone` | `Docs.cfg` | nothing removes the pages of an extension that is gone (`main.go:272`; `Controller.Remove` has no caller) |
| `DocsOfModule` | `Docs.cfg` | after a second `publish` of one tag the pages are new and the module is the old one (`controller.go:75`) |
| `GroupsOnce` | `Docs.cfg` | two extensions with a group of one name have two groups in the category (`docparser/controller.go:75`) |
| `NothingCutOff` | `Docs.cfg` with `PagesOf <- OnePage` | a node of a kind that `convert` does not know, as emphasis, makes no token but is left like one that does: the texts after it land one level too high, and at the top the walk stops (`parser.go:19`) |
| `RoutedForGood` | `Sdk.cfg` | a `Delete` of the Ingress that arrives after its caller has died removes what a later `Sync` made; the delete carries no precondition (`ingress.go:120`) |
| `DeletedStaysGone` | `Sdk.cfg` | a `Create` that arrives late makes an Ingress for an Application that is gone (`ingress.go:100`) |
| `UnusedInTheEnd` | `Sdk.cfg` | a `Delete` of an extension that is not used any more fails: it stays listed, and is not tried again (`reconciler.go:139`) |
| `WebhooksHarmless` | `Sdk.cfg` | the validation of a deletion has no owner (`extension/server.go:177`); `Owner.Name` dereferences nil, and the server ends |
| `EveryPartMet` | `ExtTest.cfg` | a test with two parts runs the first only (`test_model.go:54`) |
| `TypeHasDefault` | `ExtTest.cfg` | an empty type is refused (`test_model.go:79`); the comment at `test_model.go:25` says 'Defaults to "create"' |
| `FixturePasses` | `ExtTest.cfg` | a test that expects the label of `Sync` fails when the stream loses it, as in `AllReceived` |
| `RefusalIsError` | `ExtTest.cfg` | the `Error` of a `DeleteResponse` is dropped (`ext_controller.go:103`) |
| `DeleteAcknowledged` | `ExtTest.cfg` with `Faults = {"connection refused"}` | an error without an API status becomes 0, which `deleteResource` also answers for success (`errors.go:80`) |

Deadlock is not checked: with the budgets used up, and in the real system when
no user acts, nothing is left to do. The states in which the system may stop
are what `QuiescentConverged` and `QuiescentServed` are about.

**Bounds.** Two writes are a creation and an edit or a recreation, three a revert (deletions
are not counted for Applications); one fault can hit any call, before or after its effect; one
restart can hit any point. One change of the registrations (`app_safety`) takes
an extension away between any two calls of `Reconcile`; with a second one, which brings it back,
`HashMeansSynced` was checked apart from the runs, without drops and rollouts. `FewContents` has a content that selects the optional
extension and has a port, and one that does neither; `MCContents` adds a second
port and a content that differs in an annotation only. Two extensions, one
optional and one always on, are the two kinds that `ShouldRun` tells apart. In
`SyncFanout` two streams of up to three responses meet on one path in every
order, and two failing goroutines race on `errs` next to one that is not selected. In `Admission` two
defaulting extensions meet on one key, two validating ones see overlapping keys, and two requests are a
creation and an update or a deletion, or two attempts at creating. In `WasiCalls` three calls are two that share a runner and one more, and two
calls of `AddWASI` are a new tag, or new permissions under the same one. Five messages fill the channel of one
repeatedly. Two extensions and two kinds give every half-way failure of `Add`.
In `Docs` one server, one image and the operator's own pages meet in one category and
one group; one release and two registrations or removals can come at any point of
the loop. In `ExtensionServer` the extension is used, misconfigured, not used and used
again, and the Application is deleted; webhooks are shown one spec (`Shown`); two slots hold a call and one left behind by a dead process, or a webhook; two
ends are those of operator and server. In `ExtensionTest` files are all
sequences of up to three tests out of eighteen, in which the Ingress of one Application
is created, updated, kept and deleted, and what is expected is right or wrong. In `RegSafety.cfg` two extensions move between
a field of their own in a shared object, at the top or one level down, and a field of the other's.

**Fairness.** Weak fairness of the worker, of each informer and of the boot:
controller-runtime runs its worker while the queue is not empty, watch streams
deliver, and Kubernetes restarts a container that ended. Go schedules every
goroutine that can run; a guest's function and a stream are assumed to end. `updateDocs`
runs, and the worker does not stop within `Add`. Handlers of the SDK run, a server that
ended is started again, and a write on its way arrives or never will. `Admission` and
`ExtensionTest` assume no fairness. Users,
failures, restarts, drops and rollouts are never assumed to happen, and the
bounds say that they stop, which is what a liveness property of a reconciler
needs: convergence after the last disturbance.

**Mutants.** Each property of a passing run has a mutant: a definition next to the
original, marked as such, that differs by a plausible mistake, under which TLC finds
the property violated.

**Types.** `TypeOK` is proved for `AppReconciler`, `WasiStream` (`StreamTypeOK`),
`ExtensionRegistry` and `ExtensionServer`; the invariants of `SyncFanout`, `WasiCalls`,
`ExtensionTest`, `Admission` and `Docs` contain the types that their proofs need. For the other
modules that state a `TypeOK` it can be added to the cfg, and holds there.

## 4. Proofs

For all values of the constants that satisfy the named assumptions, and for behaviours of
`Spec`, without fairness. The assumptions are the types of the constants
(`ContentAssumption`, `BoundAssumption`, `StreamAssumption`, `AdmissionAssumption`,
`CallsAssumption`, `RegistryAssumption`, `ScriptAssumption`, `ServerAssumption`,
`TestAssumption`, `DocsAssumption`), that markers like `None` are not values (`NoneAssumption`), and
`SchemaAssumption`: a property of a schema lies at the top, or in an object of the same
schema. Nothing is assumed on sizes. Five theorems about the registry and two about the
reconciler have a hypothesis, named with them below;
`MCExtensionRegistry` and `MCAppReconciler` have TLC evaluate those on constants.

The installed provers cannot use the library's induction theorems, which take an operator.
What loops compute is proved nevertheless, for all lengths: the loops are recursive functions,
and induction is a statement about sets of numbers (`Induction`), which follows from the
theorem of the library that a well-founded order has minimal elements. `Recursion` gives a
recursive function its equations. Both are at the head of the proofs that need them.

Each invariant was checked with TLC on the instance of a run before it was proved. A proof
has a lemma per action or group of actions, and under it a step for each conjunct that the
action can disturb.

### `AppReconcilerProofs`

**`TypeCorrect`**, **`InductiveInvariant`** (`IndInv`), **`NoOrphans`**. `NoOrphanWorkload` is not
inductive: `ApplyDeployment` creates a Deployment on the word of a stale copy, and
`RemoveFinalizer` drops the object on the word of another. `IndInv` adds why that is safe:
* `CopiesOrdered`: the call's copy is not newer than the cache's, the cache's not
  newer than the server's, and copies of one `resourceVersion` are equal. Hence an
  update that is not refused is of the object as it is.
* `FinalizerHeld`: who holds a copy with the finalizer and without a deletion
  timestamp knows that the object is there with its finalizer, since one worker
  alone removes it, and only from a copy that is being deleted. So creating is safe.
* `BranchFacts`: in the deletion branch Deployment and Service are gone by the time
  the finalizer is removed, and at the status update the Deployment is the
  content's, or missing, or the hash does not change.
* `CopiesWellFormed`: copies of existing objects have a content.

**`HashHonest`** (`HashMeansDeployed`): by `BranchFacts` the only step that changes the hash
to another than `NoHash` has the Deployment in place.

**`HashSynced`** (`HashMeansSynced`): `SyncedInv` follows the two loops of `Reconcile`. Whoever
has been run has the content that was read, or is in `unnoticed`, and is not among those to be
deleted. So it is of every WASI extension that is listed in a status with a hash that what it
has applied is at that hash, or its last failure was overtaken by the end of its stream; of
the others it is without the alternative. An attempt
to prove it of every listed extension failed at `OldDeleted`, and TLC then found the behaviour
of `ListedMeansSynced` above; `kept` names the exception.

**`GoneIsDeleted`** (`GoneMeansAlwaysDeleted`): `DeletedInv` says that an object without the
finalizer has nothing at an always-on extension that has not refused unnoticed, and that the deletion branch gets past the
extensions only when all have answered. Hypothesis: always-on extensions stay registered
(`[](Always \subseteq registered)`), for one that is unregistered is not called.

**`NothingLeftUndone`** (`QuiescentConverged`), under `Calm`: no edit goes back to an earlier
content, nobody drops the workload, registrations do not change, and contents with one hash
have one port and one set of root keys (`HashTells`; both are in the spec, which is hashed,
and a collision of hashes is left out). Without the first three the code does not converge,
as the observations say or because `Owns` is empty. Failing calls, restarts and rollouts are all
allowed. Four invariants together are inductive (`ConvergenceInv`):
* `CopiesInv`: once the status has the hash of the content, no copy about has another: the
  write was not refused, and the user does not go back. The cache has the server's version,
  or that version is on its way.
* `RunInv`: what a call has put in place by the time it writes the status.
* `WorkInv`: what the status says is so.
* `WakeInv`: the object is queued, on its way, being worked on in its present version, or
  there is nothing to do.

### `ExtensionRegistryProofs`

**`FieldsStayApart`**, **`NothingIsTaken`** (`SchemaCovers`), **`NothingIsLeft`** (`SchemaExact`), from
**`SchemaInvariant`**. They need each other: a removal takes no field of another's because fields
have one owner, and an add finds a clash because what is applied is in the schema. The lemmas
on `GenRemove`, `PartialAdds` and `Pruned` are about one schema; `KindInv` about one kind.
The lemmas `RemoveKeeps` and `RemoveLeaves` say what a removal keeps of a schema
and what it may leave of one that is taken away: objects below the top and those that hold
them. Schemas are of any depth; `SchemaAssumption` only says that they are trees.
Hypothesis: `ObjectsHaveProperties`, no schema has an object without properties at the top. The base
schemas of the repository are so; for an extension that has one the property fails, as
`SchemaExact` with `Open` shows above.

**`RegisteredIsHeld`**, **`GoneIsNotCalled`** (`NoGhost`), **`QuietMeansServed`** (`QuiescentServed`), from
**`RegistryInvariant`**: copies are ordered by `resourceVersion` (`CopiesOrdered`, here over the
queue of versions in flight); `WorkerInv` says what the worker knows at each of its calls;
`HeldInv` that until a restart a copy that invites `Add` is of an object that has the finalizer,
so a stale copy cannot bring an extension back; `ServedInv`, like `WakeInv`, that an extension
which is in no queue and not being worked on is served. The last needs `SchemaInv` and has its
hypothesis, since a CRD of which another extension took a field would not be repaired.

### `SyncFanoutProofs`

Any extensions, streams of any length, and every interleaving. **`SyncInvariant`** is `SyncInv`
(`ErrorsInv`: an append to `errs` may be lost, but only to another that is there instead;
`BadPatchInv`, `NotedInv`, `OutcomeInv`), `EntriesInv` (each list of the changeset, restricted to
one extension, corresponds to what that extension has sent so far, in its order) and `WordsInv`
(the value of a path is the last word so far of one of those who spoke). From it
**`FailureIsReported`**, **`ExtensionsNoted`**, **`BadPatchStops`**, **`EntriesArrive`** (`NoResponseLost`)
and **`LastWordStands`**. **`ImplementsFanOut`**: `AbstractStart` and `AbstractStep` show that every
step of `SyncFanout` is one of `FanOut` or a stutter, with `ErrorsInv` for `Return`.
`NoResponseLost` and `LastWordWins` are stated by correspondences of positions and sets
of last positions instead of filtered sequences, which says the same and needs no recursion.

### `WasiCallsProofs`

Any calls and modules. **`CallsInvariant`**: `WayInv` (where a call is and whose runner it may
have), `WorkersAlone` (no two calls of the reconciler are ever on one runner, since they follow
each other and each has written the field itself), `RunnerInv` (a runner has one guest at
most, and the errors of that one) and `GuestInv`. From it **`NeverOlder`** (`FreshModule`),
**`VerdictsApart`** (`VerdictOwn`) and **`RequestsKeptApart`** (`ReadsOwnRequest`).

**`TagsPermissions`** (`PermissionsOfTag`): `TagInv` says of each module that a call under way may
end up with, that the Extension asked for it, and kept its tag from then to some time since the
call began. It holds for the module that is loaded because `Load` passes over a known tag
only, and for newer ones because their permissions come with them; by `FreshModule` a call ends
up with no older one, whoever made its runner.

For `WasiStream`, in the same module: **`StreamInvariant`**, **`InOrderHolds`**,
**`EndOfStreamHolds`**, for guests with any number of messages. `StreamInv` relates the counters
of both ends to the one place in the channel, and the phase of the goroutine to what is closed.

### `AdmissionProofs`

Any extensions and defaults. **`PhaseInvariant`**: what each phase of a request has established.
Nothing was validated before the defaults were in, no error is left over from one webhook to
the other, and who was due runs or has answered about the object as it is to be stored. From it
**`AdmittedChecked`** and **`VerdictsExact`**.

**`LastDefaultsWin`** (`LastDefaultWins`), from **`DefaultsInvariant`**: until the defaults are in,
the object is what the user sent, and from then on it is that under the combined patch. By the
lemma `LastMentionStays`, an induction over the responses, the combined patch has for each key
what the last response says that mentions the key.

### `ExtensionServerProofs`

Any number of slots, revisions, deaths and failures. **`ServerInvariant`**: `CallsInv` (what is
asked by whom, and how far a call may be), `Routed` (when the answer is in or its status is written, and no `Delete` is
on its way, the Ingress has the rules, and each create or update still under way, lost ones
included, is refused or changes nothing). From it **`AnsweredStands`** and **`StopCutsNothing`**.
`Cut` and `Arrive` had a `CASE` with overlapping guards, of which TLC takes the first and the
logic any: they are alternatives one after the other now.

### `DocsProofs`

Any extensions, releases, files, categories and groups, and any order of the map. **`StoreInvariant`**:
whatever is on its way to the store is of one release (`PagesInv`), what is stored is of a release,
and the operator's own pages stay (`StoreInv`).

The rest is about what the loops of `Parse`, `Merge` and the sorts do with pages, counted:
`Total` is the number of pages in a list of categories that satisfy a condition, and every step
of a loop changes it by what the step adds. The lemmas build on each other: insertion sort
(`Inserted`, `Sorting`: it permutes and orders), sums (`SumInserted`, `SumConcat`), flattening
(`Flattening`, `FlatElements`), one page more (`PageAdded`), all of them (`AllParsed`), one category
merged and all (`MergedOne`, `AllMerged`), copies (`AllCopied`). From these
* **`PagesKept`** (`ParseKeepsPages`): no file of a release gets lost in `Parse`; with it
  **`StoredIsOneRelease`** (`OneRelease`);
* **`PagesServedOnce`** (`ServedOnce`): a request gets each page of each stored name once, under
  its category and group, the categories and groups by weight and the pages of a group by weight;
* **`ServedPagesRender`** (`PagesRender`): what is served of a page renders its file, with
  **`ConvertRendersPages`**: for any page whose nodes `convert` knows, of any length and depth, its
  tokens are those that `Renders` describes. The induction is over the walk (`Walked`): the heads so
  far are the nodes that have a token (`HeadsTo`), each token is under that of the node above its
  own (`TokensTo`), and the words in the tokens are those that were read (`TextsTo`). `Climb` shows that the
  callbacks for the nodes left end at the token over the next node, and `Before` that `lastChild`
  is a text exactly if the next node continues it. This last fails without `IsPage`, if a
  text comes after a block of text: the token of a block is a text as well.

### `ExtensionTestProofs`

Files of any length with any tests. **`TestsAsExpected`** is `TestsInv`: a test that has not been
judged is the next one, and those before it were met, each by the cluster that it left; while a
guest runs its test is the one at hand, and while its results are looked up (`LookedUp`) all those
looked up so far were found. It contains what **`VerdictExact`** (`FileVerdictExact`) states. `Judged`
and `Noted` are what a test says at its end, `OfGuest`, `OfReturn` and `OfLookup` the steps.

### Only model-checked

* Liveness: `EventuallyConverged`, `DeletionCompletes`, `ListedUnusedIsDeleted`, `StreamEnds`,
  `GoroutineEnds`, `EventuallyServed`, `OperatorStarts`, `DocsFollow`, `SyncedInTheEnd`. Fairness is
  out of reach of the prover.
* `DeleteAcknowledged`, which is about the answers of the fake cluster: of any other it is
  false, as section 3 shows.

All other properties of the runs are stated by theorems, some under the hypotheses named above.

## 5. Not modelled

* The JSON form of an Application (known and unknown fields in one object) and the
  extraction of the root keys: data; the model has their result, `KeysOf`.
* The check of a WASI image in the webhook: a download; downloads appear as calls that
  fail.
* gRPC connections: nothing decides on them.
* Servers that neither answer nor fail. Where the caller has no deadline, as `updateDocs` at
  `main.go:273`, one such server stops it for good, and `DocsFollow` is about servers that fail.
* `job_reconciler.go`: commented out. The kind Work exists as a target.
* goldmark and the block parser for admonitions: from text to a syntax tree. That
  `convert` joins the words at a soft line break without a space is below the words of
  the model.
* `cmd/extgen/main.go`, which writes an Extension object from Go types; tracing;
  protobuf encoding, deep copies, clients, informers and listers, which are generated
  and make up more than half of the lines.
* Several replicas of the operator: leader election is not in the code's hands.

## 6. Plan

1. Theorems: that the fan-outs of `Admission` implement `FanOut`; which image a stored page is
   from, under concurrent registration.
2. `QuiescentConverged` with changing registrations, as far as the code has it: an extension
   that was registered and not changed since the last reconcile.
3. Composition: `ExtensionRegistry` with `AppReconciler`, in which `Churn` is the
   registry's own actions.
