# A TLA+ model of the Azure App Configuration Kubernetes Provider

The provider is a Kubernetes controller. For every `AzureAppConfigurationProvider`
object it fetches key-values, feature flags and Key Vault references from an Azure
App Configuration store and keeps a ConfigMap and a set of Secrets equal to them. This
directory holds TLA+ modules translated from the Go code, TLC configurations that check
them on small instances, and TLAPS proofs of what holds for every instance.

## 1. Inventory

Paths are relative to `src/`.

| Component | State it keeps | Operations | Interacts with |
|---|---|---|---|
| Reconcile loop (`internal/controller/appconfigurationprovider_controller.go`) | `ProvidersReconcileState`: per provider the generation, annotations, resource version of the ConfigMap, ETags, metadata of the Secrets, next refresh times, client manager | `Reconcile`, `createOrUpdateConfigMap`, `createOrUpdateSecrets`, `expelRemovedSecrets`, `logAndSetFailStatus`, status patch | API server, informer cache, processor, work queue |
| Refresh processor (`internal/controller/processor.go`) | `RefreshOptions` and the settings of one reconcile | `PopulateSettings`, `shouldReconcile`, three refreshes, `Finish`, `calculateRequeueAfterInterval` | loader, the state above |
| Event handlers (`internal/controller/event_handler.go`) | none | `Update`, `Delete`, `newEventFilter` | informer cache, work queue |
| Validation (`internal/controller/utils.go`) | none | `verifyObject` and its parts, comparisons before a write | reconcile loop |
| Setting loader (`internal/loader/configuration_setting_loader.go`) | settings under construction | `CreateTargetSettings`, `Refresh*Settings`, `Check*`, `processSettings`, `ResolveSecretReferences`, `ExecuteFailoverPolicy` | client manager, Key Vault |
| Settings clients (`internal/loader/settings_client.go`) | none | page, ETag, sentinel and snapshot requests | App Configuration |
| Client manager (`internal/loader/configuration_client_manager.go`) | clients, their back-off, times of the last lookups, last successful endpoint | `GetClients`, `RefreshClients`, `DiscoverFallbackClients` | DNS, setting loader |
| Key Vault resolver (`internal/loader/keyvault_reference_resolver.go`) | client per vault | `Resolve` | Key Vault |
| Typed settings (`internal/loader/typed_setting.go`, `tree.go`, `internal/jsonc`) | none | conversion to JSON, YAML, properties | loader |
| Request tracing, API types, `cmd/main.go`, mocks | none | declarations, headers, wiring | |

Only one worker reconciles a given provider at a time, but a reconcile is a long sequence
of remote calls. What makes it hard is everything that happens between two of them:
the store and the vault change, users edit, delete or create targets, the spec changes,
the provider is deleted and created again, the garbage collector deletes objects, a call
fails, a replica lags, the informer cache is old, settings panic while they are built, the
process restarts. The state that survives from one reconcile to the next is written
piecemeal on the way (versions after each write, ETags at the end, refresh times in the
middle), and each piece decides what the next reconcile leaves out.

What makes the components correct:

* reconcile loop and processor: once the world is quiet the targets hold the current
  contents and the status says so; recorded ETags never run ahead of the recorded
  ConfigMap; settings come from the endpoint of the spec; no Secret mixes two versions of
  its references or is forgotten before it is gone; foreign objects are left alone; every
  feature is looked at within its interval and the vault is not asked too often;
* event handlers: an edit of a target is noticed, the controller's own writes are not,
  although both arrive late and through a cache;
* validation: what it accepts, the code behind it can handle;
* loader and settings clients: a check that finds no change is right, also over several
  pages, filters and replicas; the last selector wins; references resolve all or nothing;
* client manager: each request tries each available client at most once and gives up only
  when none is left, back-off is honoured, lookups are spaced, requests recover;
* typed settings: a document has every value at its place.

The hazards behind these are listed, with their source lines and the properties that
would catch them, in `PROJECT.json`.

## 2. Modules

| Module | What it is |
|---|---|
| `Reconciler` | one provider, its targets, the stores, the vault, the controller's state, queue and running reconcile |
| `ReconcilerProofs` | theorems about `Reconciler`: types and ETags |
| `ReconcilerTargetsProofs` | theorems about `Reconciler`: ownership, Secrets, endpoint |
| `CachedTarget` | the ConfigMap, the informer cache behind which the reconcile reads it, and the event handler |
| `Validation` | `verifyObject`, and the pointers the code behind it follows |
| `RefreshSchedule` | refresh times, requeues and the clock, on specs that `Validation` accepts |
| `TypedSettings` | the tree and the hierarchical documents, and their reference definition |
| `SettingLoader` | filters, pages, ETags, failover, classification, resolution and secret refresh, on top of `TypedSettings` |
| `FailoverPolicy` | abstract specification of a request to App Configuration |
| `ClientManager` | clients, back-off, discovery, load balancing and failover; implements `FailoverPolicy` |
| `ClientManagerProofs`, `CachedTargetProofs`, `RefreshScheduleProofs`, `SettingLoaderProofs` | theorems about the module of that name |
| `FreshnessProofs` | the theorem about `Fresh`, on top of `RefreshScheduleProofs` |
| `LeastNumber` | a nonempty set of natural numbers has a least one; the proofs' substitute for induction |
| `MC...` | instances of the modules for TLC |

`Reconciler` is the composition: reconcile loop, processor, event handlers and the remote
services act on one state there. Each of the other state machines takes one thing that
`Reconciler` abstracts and models it in full: what is behind a read (`CachedTarget`), behind
"a refresh time has passed" (`RefreshSchedule`), behind `valid` (`Validation`), behind "fetch"
and "check" (`SettingLoader`), and behind "a call fails" (`ClientManager`).

### Reconciler

A reconcile is the record `job` together with the stage `pc`. The stages are the
places between two remote calls, so everything outside the controller may act there:

| `pc` | Next step | Code |
|---|---|---|
| `idle` | `ReconcileNotFound`, `GetProviderFails`, `ReconcileRunning`, `ReconcileInvalid`, `ReconcileConflict`, `ClientManagerFails`, `ReconcileStart` | `Reconcile` up to `PopulateSettings` |
| `keyValues`, `sentinel`, `flags` | `CreateKeyValueSettings`, `InitializeSentinels`, `GetFeatureFlagSettings` | `CreateTargetSettings` |
| `ffRefresh`, `kvRefresh`, `kvFetch`, `secretRefresh` | `Process...Refresh`, `RefreshKeyValueSettings` | the three refreshes |
| `configMap`, `verify`, `secrets` | `CreateOrUpdateConfigMap`, `VerifySecrets`, `CreateOrUpdateSecret`, `ExpelSecret`, `Finish` | writes of the targets |
| `patch` | `PatchStatus` | the deferred status patch |

The variables: `store` and `vault` (versions of what Azure holds), `prov`, `cm`, `sec`,
`rev` (the API server), `rs` (the `ReconciliationState`), `queue` and `delayed` (the work
queue and its delayed additions), `left` (what remains of the budget of outside events).

Abstractions, all of data:

* Contents are versions. A content is the endpoint it came from and a version number, and
  an ETag is the content it was issued for. A fetch of all pages of all selectors is one
  step, and so is a check followed by a feature flag fetch; `SettingLoader` takes them apart.
* All data a Secret holds comes from Key Vault references without a version. The target
  Secret always exists; each TLS reference adds one more Secret, whose name is never the
  target's.
* One sentinel; it may be missing at first and is not deleted.
* Refresh times are the set `armed` of those still ahead; `Tick` lets one pass. A delayed
  requeue fires at any time. `RefreshSchedule` has the times.
* A failure is one of a budget of `fault`s at any remote call, with the code's reaction.
  `GetSettingsFails` has no special case for argument errors and status 429: `errors.Is`
  compares with a fresh pointer, and the failover policy formats a 429 with `%v`, so the
  two branches of `requeueWhenGetSettingsFailed` are never taken.
* The data of a target are what the comparison before a write looks at: all keys, or the
  document of a JSON or YAML target. An edit changes the data or leaves them as they are
  (a label, a key beside the document), with a new resource version either way. A ConfigMap
  whose `Data` is nil, which is always written, is one with other data.
* Reads see the API server; `CachedTarget` has the cache.
* `verifyObject` is the field `valid` of a spec; `Validation` has its rules.
* A provider without a `ReconciliationState` is in `NewState` (generations start at 1, so 0
  serves as -1).
* Labels, which are queued on change but do not make `shouldReconcile` true, are left out.

### CachedTarget

`server` is the ConfigMap in the API server, `stream` its later states on their way to the
informer, `cache` the informer's copy. `WatchEvent` takes one change in, `Relist` all of them
as one event, and `Enqueues` is the handler. `Reconcile` reads `cache` at its start and again
inside `CreateOrUpdate`; the write reaches the API server, which refuses one based on an old
version or a create of something that exists. `ShouldWrite` compares the copy read at the
start with what was fetched: the data, and unless the ConfigMap is `typed` (JSON or YAML) also
whether there is any key beside them (`extra`). Without a difference `SkipWrite` records the
version of that copy. The store may go back to an earlier
content (`Contents` is a set, not a counter), because comparisons of data cannot tell the
difference. One target and page ETags suffice for this question; the rest of the state is in
`Reconciler`.

### Validation and RefreshSchedule

A spec is a record of the fields that checks look at. An optional field is `None` or a value;
URLs, UUIDs and durations are reduced to what the checks distinguish (a URL that does not even
parse, a text that is not a duration). Labels are sequences over the escape, the two reserved
characters and one more. `VerifyObject` and its parts are the rules in the code's order of
fields. The `...DereferencesNil` operators say which accepted-or-not specs would make
`NewConfigurationClientManager`, `CreateTokenCredential`, `SelectorSettingsClient`,
`createSecretClients` and `RefreshFeatureFlagSettings` follow a nil pointer.

`RefreshSchedule` runs a provider with such a spec against a clock. `next` holds the three
refresh times, relative to now, `wake` the delayed addition to the work queue (which keeps the
earlier of two, as `AddAfter` does), `elapsed` the time since the `CurrentTime` of the running
reconcile. `age` is the time since the last look at what each feature has in the targets and
`vaultAge` the time since the vault last answered because of the interval; both are read by
properties only. Contents are left out: whether a check finds a change is open. A refresh that
needs a fetch does check and fetch in one step, with one failure for both. The writes of the
targets are one step, which may fail before or after the ConfigMap's version is recorded.

### SettingLoader and TypedSettings

An entry is a key with label and tags; a store is, per client, what each entry holds. The job
goes through the stages `list` (one page per step, filter after filter), `check` (one page per
step, filters in any order, since the code iterates over a map), `resolve` (Secrets one by one, their
references concurrently) and `publish`. A page ETag is the page itself. `ExecuteFailoverPolicy`
is reduced to a fixed order of clients; a call that fails starts again at the next one, whose
content may lag until `Replicate`, or ends the request. The ETag of an empty page is recorded or
not, which depends on whether the client library leaves `Settings` nil. `selectors` are normalised, deduplicated and listed in order;
`ProcessSettings` trims keys, replaces snapshot references, and sorts settings into the ConfigMap,
the target Secret and TLS Secrets. All that can be wrong with a reference (no value, a bad type
tag, no `spec.secret`, an identifier that cannot be parsed) is `ProcessSettingsFails`, out of the
budget of faults: an error that stays is not modelled. `StartSecretRefresh` to `PublishSecrets` are the secret
refresh of the processor. What `PublishLoad` puts in the targets in one step is written by
`Reconciler` step by step.

`TypedSettings` has `Tree.insert` and `Tree.unflatten` over paths. A JSON value is the function
from the paths of its leaves to these. `FaithfulDocument` compares the result with a reference
that knows no tree: each value at its full path, siblings numbered from 0 without a gap
being an array.

### ClientManager and FailoverPolicy

The static client and the discovered replicas are endpoints, each with a back-off that
counts down and a count of failures. `ExecuteFailoverPolicy` is `StartRequest` (with
discovery, selection and rotation), `CallSucceeds`, `CallFails` and `AllFailed`. A request that
finds no client goes from `StartRequest` to `AllFailed` at once: both returns call
`RefreshClients`, whose guard is evaluated there. Time may pass between any two steps. SRV lookups are instantaneous, return
distinct hosts, and may fail at any time. `FailoverPolicy` knows nothing of order, time,
rotation and lookups; `ImplementsPolicy` states that `ClientManager` implements it under
`untried <- ToSet(calls)` and `ready <- Ready`.

## 3. Runs

Outside events are bounded by `Budget`; everything the controller itself does is not.
Each run gives a budget to the kinds of event its question is about, because any two kinds
multiply the states.

| Run | Checks | What happens in it |
|---|---|---|
| `Refresh` | `TagsSound`, `Converges`, `TouchArrives` | refresh by page ETags with feature flags, or by a sentinel touched twice; a change of the key-values, an edit or deletion, a fault |
| `Secrets` | `NoMixedSecret`, `Converges` | target and TLS Secret, a change of the references, a rotation, two faults, a restart |
| `Moving` | `FetchesFromSpecEndpoint`, `MetadataTracked`, `ForgottenIsGone`, `Converges` | two spec changes that move the endpoint and rename the target Secret, drop the secret section or make the spec invalid, one edit or deletion, a fault |
| `Ownership` | `OwnershipRespected` | deletion and re-creation of the provider, garbage collection, a foreign object, an annotation, a reference without `spec.secret`, a panic |
| `Failover` | `TypeOK`, `BackoffHonoured`, `LookupsSpaced`, `LoadSpread`, `ImplementsPolicy`, `Recovers` | requests with load balancing over a primary and up to two replicas |
| `Cache` | `NothingEditedAtRest`, `CacheConverges` | with and without refresh, ConfigMap typed or not: two changes of the store between two contents, and one each of edit, deletion, annotation, relist, fault and restart |
| `Loading` | `SecretsComplete`, `DocumentsFaithful`, `CheckSound`, `NoChangeOverlooked`, `LoadConverges` | seven entries in pages of two, five selections with labels, tags, snapshots and a duplicate, a primary and a replica; two changes of the store, a rotation, a fault |
| `Schedule` | `AcceptedNeverPanics`, `OneLabelPerFilter`, `Fresh`, `VaultSpared` | several hundred specs; for those with refresh a change of the spec, an edit and a fault |

Why the bounds are enough:

* One provider and one or two Secrets suffice: providers share nothing but the map of
  states, and the loops over Secrets treat each name alike. One fault at each possible point
  is enough to separate any two pieces of the state; `Secrets` has two, for the second to hit
  the retry. Two changes of a content are enough to be overtaken once.
* In `Failover` the back-off (2 up to 8, with a jitter of a quarter) overlaps both intervals (2
  and 6), and four failures bring one client to the maximum or all three into back-off at
  once. Without load balancing the requests differ only in that `Order` changes nothing, which
  it also does here before the first success and whenever the last successful client is last
  or missing.
* In `Cache` two contents and two changes let the store return to the content an old copy has,
  which is where a skipped write is wrong. The one edit changes the data or adds a key.
* In `Loading` the first selection lists three entries without label on two pages, so that the
  changes empty a page, fill a new one, or move an entry from one to the other while the
  listing is between them; the prefix that is trimmed makes two entries collide; the snapshot
  holds an older value of a listed key and a reference to itself. No entry has a label at first,
  so that the selection without selectors is wholly checked until one appears. Documents are all sequences of up
  to three out of twelve settings, in every order, with indices, twins ("1" and "01"), gaps, keys
  above others, and JSON scalars, objects and empty objects.
* In `Schedule` the unit is the second, the minute is 3 of them, and intervals of 1, 2, 3 and 5,
  reconciles of up to 1 and a retry after 2 make refresh times fall before, on and after each
  other and the requeue. Label filters are all sequences of up to three characters.

Deadlock is checked except where the system may stop: in `Moving` (an invalid spec is
not requeued), in `Ownership` (a provider without any refresh, one that is gone, or one
whose status is stuck in `Running`) and in `Cache` (no refresh, nothing queued).

Fairness. The liveness properties of `Reconciler` assume that the worker goes on with a
reconcile it can go on with, that a delayed requeue fires, that refresh times pass and that
the garbage collector runs; those of `CachedTarget` that the worker goes on, requeues fire
and the watch delivers. All are weak fairness, and each is provided by the work queue, the
clock or Kubernetes. In `SettingLoader` the worker goes on and replicas catch up (weak
fairness), and a check and a secret refresh are started again and again although other
calls come between (strong fairness): both refresh times keep falling due, which is what
`Fresh` shows in `Schedule`. Nothing is assumed of users and stores: what they may do is finite
because their budgets are. `Recovers` assumes that requests keep coming (refresh is
periodic), every call returns (the HTTP client has timeouts) and time passes; calls fail
finitely often. `Schedule` needs no fairness: `Fresh` is a bound.

`Converges` is checked where the code can be expected to converge. It is not claimed after
a panic, after a provider was re-created while its state survived, with foreign objects in
the way, or for specs without refresh: there a Secret whose write failed stays as it is (the
next section says why), and a status patch that failed is not repeated.

### Where the code and its documentation disagree

Each of these runs checks one statement of the repository and TLC finds a behaviour of
the code against it.

| Run | Statement | What happens |
|---|---|---|
| `SentinelLost` | touching the sentinel refreshes the ConfigMap | `CreateTargetSettings` reads the key-values first and the sentinel second; a touch in between is recorded as known, and the key-values it announces are not fetched |
| `StaleSecret` | phase Complete means a complete sync | the ConfigMap version is recorded before the Secret write fails; without refresh the retry finds nothing to do and reports Complete |
| `StuckRunning` | phase Running means that a reconcile is running | a panic while settings are built leaves the deferred patch to store Running; all later reconciles exit |
| `TypedSecretLost` | a secret refresh works with references of several versions | the document of a typed Secret is one key, which the refresh replaces by a document of the unversioned references only |

### What else the models show

These follow from the models, and are where the properties had to be stated with care; no
run is about them alone.

Providers and targets:

* The client manager is keyed by the generation. A provider deleted and created again with
  another endpoint between two reconciles has generation 1 again and is served by the
  clients of the old endpoint. `FetchesFromSpecEndpoint` is checked without re-creation.
* A provider re-created while its state survives, followed by a partly failed reconcile and
  a secret refresh, violates `MetadataTracked`, that is, reaches a nil dereference in
  `createOrUpdateSecrets`. The property is checked without re-creation.
* Secrets can be left behind. When `spec.secret` is removed, `Reconcile` collects nothing and
  empties the record at its start (lines 183-184), so that the call of `expelRemovedSecrets`
  which line 265 makes for just this case has nothing to expel; a Secret written by a reconcile
  that fails before `Finish` is in no record if the spec then changes back; and a restart loses
  the record. `ForgottenIsGone` states what does hold: no step of a reconcile of a spec with a
  secret section forgets a recorded Secret unless it is gone or somebody else's.
* Beside the document of a JSON or YAML ConfigMap a key that a user adds stays: the comparison
  looks at the document only, the write is skipped, and the version of the changed object is
  recorded as known. `NothingEditedAtRest` says so for typed ConfigMaps, and for the others
  that nothing of the user's stays.
* An object that somebody else creates between the ownership check and the write or the
  delete is overwritten or deleted, since neither `CreateOrUpdate` nor `Delete` looks at the owner
  again. `OwnershipRespected` states what the code does guarantee.
* `logAndSetFailStatus` turns an error into a warning when the targets exist, but with
  `spec.secret` set its condition asks for no Secret to be known: a failed refresh of a
  provider whose ConfigMap and Secret both exist ends in phase Failed.
* A relist that merges a write of the controller with a user's edit delivers one event with
  a new `LastReconcileTime`, which the handler drops. Without refresh the edit stays until
  something else queues the provider, hence the condition of `NothingEditedAtRest`.

Times:

* A refresh time of the secrets that is still ahead survives a change of the spec, so a
  shortened interval takes effect only after the old one has passed (`Longest` in `Fresh`).
* Refresh times move before the targets are written. A failed write of resolved secrets is
  not repeated by the retry but waits for the next interval (the last term of `Fresh`).
* The minimal interval protects Key Vault from questions it has answered, not from those that
  failed: a resolution that fails leaves the refresh time where it is and is repeated by the
  retry after 30 seconds, all its references included. `VaultSpared` counts every question, but
  from the last one that was answered. A full reconcile asks regardless of the interval.

Loading:

* Without selectors the loader asks for all keys with any label, but the check asks for
  entries without label only: a new entry with a label is not noticed, and one that
  was loaded makes each check find a difference. This is the
  condition `Checked` of `CheckSound` and `LoadConverges`, and `AllChecked` of
  `NoChangeOverlooked`.
* If the ETag of an empty page is not recorded, a filter that selects nothing is loaded again at
  each check, since a page is then always one too many.
* Plain values and references with the same key do not override each other: one is in
  the ConfigMap, the other in the Secret.
* A snapshot that is created later is not noticed, and a snapshot reference is looked up
  with one client, without failover.
* Duplicate sentinels are compared by the pointer to their label, so that they are found only
  where the label is absent.
* An empty `auth` object is accepted, but `CreateTokenCredential` then returns neither a
  credential nor an error: it has no last case for it, and the default credential is for an
  absent `auth` only. The client is made with a nil credential;
  what the SDK does with that is outside the models.

Documents:

* Keys that are above others, or that a JSON value also defines, make the document depend on
  the iteration order of a map. An empty JSON object or array becomes null.
* Segments such as "1" and "01" under the same parent make `unflatten` panic.
* `createTypedSettings` parses a JSON value with comments a second time without them, but
  discards the result, so that the value stays a text.
* The order of lines in a properties document is random, so that an unchanged document may
  be written again.

## 4. Proofs

All theorems hold for every value of the constants that satisfies the assumptions of the
modules; no bound of the runs remains. TLC evaluates the assumptions in each run.

| Module | Assumptions |
|---|---|
| `Reconciler` | specs are records of the given shape, the target of a spec is not the name of a TLS reference, `None` is distinct from everything it stands in for, budgets are natural numbers |
| `ClientManager` | finitely many replicas, none of them the primary; positive intervals, and a back-off that reaches its maximum |
| `CachedTarget` | the initial content is one, the user's edit is none, `None` is no object |
| `Validation`, `RefreshSchedule` | the minimal intervals are ordered, a retry waits, specs have the API types, a user moves between finitely many of them, `None` is no number |
| `SettingLoader` | pages are not empty, entries and clients are sequences, there is a client |

### Reconciler

* `TypeCorrect`: `Spec => []TypeOK`. `TypeOK` alone is not inductive, since steps use
  fields that exist only in their stage: the data of the ConfigMap read at the start, the
  provider of the job, the endpoint of the client manager. `StageOK` says what each stage
  has established: for example, a refresh runs only when the ConfigMap was found, as
  `shouldReconcile` is true for a missing one. `TypeInv == TypeOK /\ StageOK` is inductive.
* `TagsAreSound`: `Spec => []TagsSound`. The ETags of the state and the resource version of
  the ConfigMap are recorded at different moments of a reconcile. `TagInv` adds: tags in
  use were issued by the store (`TagsIssued`), so that a later fetch from it is not behind
  them; a resource version is given once and identifies its data (`Versions`); and the
  settings under construction cover both the tags in the state and those `Finish` will
  adopt (`Built`). There is a lemma for each action, and frame lemmas for the steps that
  leave tags and ConfigMap alone. The theorem covers faults, panics, restarts, edits,
  foreign objects and re-creation at any point, and any references to start with.
* `OwnershipIsRespected` and `ForgottenSecretsAreGone`: the action properties
  `OwnershipRespected` and `ForgottenIsGone` (for specs with a secret section). `OwnerInv` says that what the running reconcile
  read is its own (`ReadsOwned`: a conflict ends the reconcile), and that a recorded Secret
  which the reconcile did not find, and has not written since, is still gone or somebody
  else's (`UntrackedGone`): nobody but the controller sets its own uid as owner.
* `SpecEndpointIsRead` (`FetchesFromSpecEndpoint`) and `MetadataIsTracked`
  (`MetadataTracked`), from `SpecInv`: generations tell specs apart, for the provider, the
  state and the running reconcile (`GenerationsTell`); so a client manager kept under the
  current generation is one of the current spec (`ClientCurrent`), and the target Secret of
  a recorded generation has metadata (`TargetTracked`, `JobTracked`).
* `NoSecretIsMixed` (`NoMixedSecret`), from `MixInv`: a resource version of a Secret
  identifies its data (`SecretVersions`), metadata that have the version of a Secret name the
  references it was written for (`KnowsReferences`), and so does what a reconcile read or
  built (`JobReferences`). A refresh therefore merges into data of the same references.

The last three have the hypothesis `Budget["create"] = 0`: the provider of `Init` may be
edited, deleted and collected, but not created a second time. The code needs it. A provider
that is created again has generation 1 again, and if the state survived, `GenerationsTell`
is false and the properties fail (section 3). All other theorems allow re-creation.

The proofs describe a step by what it does to the few variables an invariant is about, one
description per kind of step, and show that each action has one of the descriptions; the
invariant is then shown from the description.

### ClientManager

* `TypeCorrect` (with the statement that a request lists no client twice),
  `BackoffIsHonoured`, `LookupsAreSpaced` and `LoadIsSpread`, from `Inv == TypeOK /\
  BackoffHonoured`. The work is in the operators: the loop of `GetClients` keeps exactly the
  ready clients, once each (`KeptElements`); the three reversals of `rotate` keep the elements
  and repeat none (`RotateElements`, `RotateOnce`); with load balancing the last successful
  client is not the first unless it is the only one (`OrderElements`).
* `PolicyImplemented`: `Spec => ImplementsPolicy`, the refinement of `FailoverPolicy`. There is
  one lemma per action, which names the step of the abstract specification it is.

### CachedTarget

* `TypeCorrect` and `NoEditSurvives` (`NothingEditedAtRest`): of a typed ConfigMap the statement
  is about the document, of an untyped one about all keys. `IndInv` says: a resource version
  names one state among all those still held anywhere (`VersionsUnique`); the recorded version
  is not that of an edited state (`RecordedGood`), which is what makes `shouldReconcile` see
  an edit; the stream ends in the API server's state, and each edit and deletion on it will
  queue the provider when it arrives (`StreamTells`); and unless a relist merged changes, the
  cache is good when nothing is left to do, or as good as what the running reconcile read
  (`NothingMissed`).

### Validation and RefreshSchedule

* `AcceptedSpecsNeverPanic` (`AcceptedNeverPanics`): for every spec of the API types, by cases
  of `VerifyObject` for each of the places that follow a pointer, and `Accepted`, which says
  that every job works on a spec that was verified.
* `FiltersStandForOneLabel` (`OneLabelPerFilter`): for label filters of any length. From a
  reserved character the proof goes back over the escapes before it; the scan visits the
  first of them or the one after it (`ScanVisits`), and alternates from there (`ScanRun`).
* `KeyVaultIsSpared` (`VaultSpared`): `VaultInv` says that a refresh time which is set falls at
  least a minute after the start of the last reconcile that Key Vault answered because of the
  interval (`TimesApart`), that a spec in force has its refresh time set (`TimeSet`), and that a
  job which may still ask may do so (`JobMayAsk`). Success of the question plays no part.
* `TargetsAreFresh` (`Fresh`), in `FreshnessProofs`. The bound adds the longest interval, a
  second (the least requeue interval), two reconciles (the one that starts just before a refresh
  time, and the one that then looks) and a cost per fault of the budget. It is not inductive,
  because it says nothing of when the next look comes. `FreshInv` does. Between reconciles
  (`Waiting`) the age of a feature plus the time to its refresh is bounded, and the provider is
  queued or wakes no later than that; during one (`Looking`) a feature that was not due keeps
  the tighter bound, since the running reconcile will not look at it. Both allow for the faults
  so far (`Allowance`), which is what makes a failed step preserve them. `Armed` says that a
  spec in force has its refresh times set, so that nothing waits for a time that is not there;
  `Bounded` that a refresh time is at most an interval ahead, for the secrets the interval of
  some earlier spec; `Looks` that a reconcile past the refresh of a due feature has looked at it.
  The step that needs most is `Finish`: `calculateRequeueAfterInterval` takes the earliest of the
  refresh times, some of which have passed while the reconcile ran (`RequeueInterval`).
  TLC checked `FreshInv` as an invariant of `Schedule` before it was proved.

### SettingLoader

* `SecretsAreComplete` (`SecretsComplete`), with the hypothesis `SecretType = "default"`. For
  typed Secrets the statement is false (run `TypedSecretLost`). `CompleteInv` says that the
  Secrets taken so far are resolved whole, that each reference of the current one is
  resolved, still open, or the call has failed (`ResolvedWhole`), and that a refresh resolves
  references of Secrets that are known (`RefreshesKnown`).
* `ChecksOverlookNothing` (`NoChangeOverlooked`): a check that ends without a change compared
  everything: the pages recorded for each filter hold exactly the settings that the client has
  for it, if all of these are checked (`AllChecked`: the filter has a label, or what it selects
  has none; `CheckedIsSelected`). The check never sees the whole listing; it asks for a page behind the last entry of the
  page before. `ListingRight` says that a listing has exactly the selected entries, in order, and
  `PageRight` that a page has those up to its last entry, or all if no page follows. `CheckedSoFar`
  then says that filters which are done are unchanged, and that the pages of the current one hold
  what the client has up to the entry reached, as long as the client's content stayed the same
  (`job.stable`). At the last page `SameNumberOfPages` turns this into the whole.
  `CheckSound` has the same premise and adds what the folds made of the pages.

### How, and what the proofs changed

Recursive functions (`Kept`, the scan of a label, a listing) are shown to exist and to unfold,
and facts about them are proved by a least counterexample (`LeastNumber`); so is the greatest
element of a finite set of intervals (`FiniteMaximum`).

The proofs made some definitions precise. `FailoverPolicy!Start` had an expression that parsed
differently from what it meant. `VaultSpared`, stated for the moments at which the vault is
asked, depends on how long reconciles take; the code guarantees the distance from the start of the
reconcile that was answered to the start of the next that asks. Three definitions (`CheckPage`, `WithSetting`, `ReconcileStart` of
`RefreshSchedule`) had a `CASE` whose guards overlapped. TLC takes the first that holds, as the
code does, but TLA+ leaves the choice open; their guards now exclude each other. `Listed` is a
recursive function, because the prover knows nothing of `SelectSeq`.

### Model-checked only

* Liveness: `Converges`, `TouchArrives`, `Recovers`, `CacheConverges`, `LoadConverges`. The prover
  has no rule for fairness.
* `DocumentsFaithful` and `CheckSound`: what folds over settings, filters and children compute
  for inputs of any length needs induction over data with an operator parameter. Of `CheckSound`
  the part without folds is proved (`ChecksOverlookNothing`).

## 5. What is left

Every safety property of the passing runs other than these two is proved for all values of the
constants, under the hypotheses named above. What remains open: a property of the Secrets that a
provider leaves behind when its secret section is removed; a statement of `Fresh` in terms of the faults that occurred
instead of their budget (`FreshInv` has it, the property keeps the simpler bound), and the converse
of `NoChangeOverlooked`, that a check does not report a change where there is none.

## 6. Not modelled

* The goroutine of an SRV lookup: after a timeout nobody receives from its unbuffered channels
  and it never ends. It holds no state that another part reads, and nothing in the repository
  says how many there may be.
* The phase of a failed reconcile (`logAndSetFailStatus`) is modelled, but no property is about
  it: it has no effect on later reconciles.
* Text: the comment stripper (its result is discarded), the formats of JSON, YAML and properties,
  identifiers of Key Vault secrets, connection strings, the telemetry metadata of feature flags.
* Certificates and PEM data of TLS Secrets; secrets without a value.
* Credentials and SDK clients beyond the pointers they follow; request tracing, which builds a
  header; API declarations and generated code; process wiring, mocks, deployment files.
