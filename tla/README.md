# Verification of provider-dynatrace-iam

TLA+ models of the Crossplane provider in this repository, the TLC runs that
check them on small instances, and TLAPS proofs of what holds for instances of
every size. Paths below are relative to the repository.

## 1. The system

The provider is one Go process. It watches Kubernetes objects ("managed
resources") and makes a Dynatrace account agree with them. Most of the resource
kinds are driven by Terraform through generated code (upjet); one kind,
CostCenter, has a hand-written controller. Everything exists twice, for
cluster-scoped and for namespaced objects. There are no tests in the repository,
which is why the parts below are worth modelling.

| Component | Source | State | Operations | Interacts with |
| --- | --- | --- | --- | --- |
| CostCenter controllers | `internal/controller/{cluster,namespaced}/iam/costcenter/controller.go` | the object at the API server, the informer cache's copy, the reconcile's own copy, the account's cost centers | Connect, Observe, Create, Delete (Update is unreachable) | crossplane-runtime's reconciler, API server, account |
| Provider config resolution | `internal/clients/dynatrace.go` | a usage per resource | resolveLegacy, resolveModern, tracking | config controllers, every reconcile |
| Provider config controllers | `internal/controller/*/providerconfig/config.go` | finalizers of configs | protect, count usages, release | usages |
| Import initializer | `config/initializer.go` | the external name of a group or policy boundary | Initialize, the two lookups, paging, credentials | reconciler, account, configs |
| Terraform-based controllers | `internal/controller/*/*/*/zz_controller.go` | the object, Terraform's state, an operation that goes on after its reconcile | Setup, the callback provider | API server, account, references |
| Reference resolution, merged parameters | `apis/*/iam/v1alpha1/zz_generated.resolvers.go`, `zz_*_terraformed.go` | resolved names in the spec | ResolveReferences, GetMergedParameters, LateInitialize | groups, policies, boundaries |
| SafeStart gate and main | `cmd/provider/main.go` 214-264, `zz_setup.go`, `SetupGated` | which kinds are present, which controllers run | permission check, register, release | every controller |
| Interpolation escaper | `config/provider.go` 91-135 | none (a pure conversion) | Convert | every Terraform call |
| Provider configuration, API types | `config/external_name.go`, `config/*/config.go`, `zz_*_types.go` | none (tables) | | code generator, every controller |
| Deep copies, accessors | `zz_generated.deepcopy.go`, `zz_generated.managed.go` | none | | |
| Generator, features, packaging, CI | `cmd/generator`, `internal/features`, `package`, `.github` | none | | |

What is hard about it, and what makes each part correct:

* **CostCenter.** A reconcile is a sequence of reads and writes over a network,
  and works on a cached copy that may be old. POST may succeed and its answer be
  lost; the update of the external name may conflict or fail; the provider may
  stop in between. Correct: a cost center the account confirmed is never
  forgotten, an abandoned creation is never resumed, a DELETE names what was
  observed, a resource is created, reported and deleted in the end.
* **Configs.** A resource reads its config and records its use in two calls,
  while the config's controller counts the users and removes the finalizer in
  two others. The import initializer
  reads config and credentials on its own as well. Correct: a config that is in use is
  not released, what a reference stands for serves if all who read it accept it, and
  nobody waits for ever.
* **Import.** A lookup reads page after page while the account changes, and
  while Terraform is still making the item an earlier reconcile asked for.
  Correct: a resource is tied to an item of its own name only, a lookup
  misses an item only if the listing shifted under it, nothing a resource made
  is left behind when it goes, every resource is served in the end.
* **Terraform-based resources.** A reference is resolved in one write and used
  much later; a creation counts as a success before it has begun; its external
  name is saved by a later reconcile. Correct: no item is orphaned, no request lacks what
  is required, what a user has set is never changed, the item agrees with the
  spec in the end, references follow what they stand for.
* **SafeStart.** CRDs come, go and come back while set-ups run in goroutines.
  Correct: one controller per name, none before its kinds are there, a kind that
  is missing does not stop the others, all that can run does in the end, over restarts.
* **Escaper.** Correct: no interpolation in a value that is sent is evaluated, the
  meaning of nothing else changes, converting again changes nothing. Terraform's
  directives (`%{`) and the keys of maps are not its business: it leaves them as they are.

`PROJECT.json` lists every hazard with its line and the properties that cover it.

## 2. Modules

| Module | Models |
| --- | --- |
| `CostCenter` | the CostCenter controller, the reconciler around it, API server, cache and account |
| `CostCenterPromise` | what it promises: an abstract specification that `CostCenter` implements |
| `ProviderConfigs` | resolution of configs by all three kinds of resource, usages, config controllers |
| `Import` | the import initializer in the reconcile of a group or boundary, the operations it begins, and the account |
| `Terraformed` | the life of any other Terraform-based resource: references, parameters, reconcile, operations |
| `TerraformedPromise` | what that promises: an abstract specification that `Terraformed` implements |
| `Parameters` | merge, late initialization and admission of parameters; extended by `Terraformed` |
| `SafeStart` | permission check, registration, gate, CRD watcher, manager, end and restart of the process |
| `Registry` | the table of all set-ups: what each gates on, builds and drives; used by `SafeStart`'s instance |
| `Kinds` | the table of all Terraform-based kinds, extends `Registry`; used by `Terraformed`'s instance |
| `Escaper` | the escaper and how Terraform reads its result |
| `MC_*` | the instances for TLC |
| `CostCenterProofs`, `CostCenterPromiseProofs`, `ProviderConfigsProofs`, `ImportProofs`, `TerraformedProofs`, `TerraformedPromiseProofs`, `SafeStartProofs`, `EscaperProofs` | theorems and proofs |

Every mutant (an operator commented "Mutant of ...") stands before the
definition it replaces. No specification uses it; it is there to show
that a property notices the mistake.

### 2.1 CostCenter and CostCenterPromise

`api[c]` is the object at the API server: phase (`absent`, `live`, `deleting`),
finalizer, external-name annotation, the annotation of a pending or failed
creation, spec and status. `cache[c]` is the informer's copy with `cacheFresh`
(is it the latest version?), `work[c]` the copy the reconcile has in memory with
`workFresh`, `found[c]` the match of Observe, `store` the account. `pc[c]` is
the step the reconcile is at. An update from a copy that is not the latest
version is a conflict, as the API server's resourceVersion makes it one.

Observe, Create and Delete of `controller.go` are actions, split where the code
writes to the API server or to the account: Create is `CreateStored`,
`CreateConflict` ("already been stored"), `CreateLost` or `CreateFails`, then
`SaveName` (lines 219-223), then `RecordOutcome` (the reconciler's record). The
steps before and after them (default of the external name, refusal of an
incomplete creation, finalizer, announcement, status) are crossplane-runtime's,
modelled from how `Setup` configures it. That `Setup` passes no initializers
leaves the runtime's default, which sets the external name to `metadata.name`:
`NamesDefaulted = TRUE` is the program as it is, FALSE exercises the code that
handles an empty name (`getTargetKey`'s fallback and `syncExternalName`). `NoKey` in a
spec is a key that is nil, which Create refuses (`CreateKeyless`); a key that is given as
`""`, which Create would POST and `getTargetKey` takes for no key, is left out.

`claimed` and `made` are history variables: the keys whose POST was confirmed to
Create, and the keys its POSTs have made.

`CostCenterPromise` knows no copies, annotations or reconciles: a resource is
absent, live or deleting, and holds at most one cost center. It announces a
creation only while it holds nothing, does not remove what it holds while it
lives, and goes only when it holds nothing, or under the policy Orphan.
`PromiseKept` in `CostCenter` is the refinement: what a resource holds is what it
has claimed and the account still has; every step of the controller is a
step of the promise or changes nothing there.

### 2.2 ProviderConfigs

`config[k]` is a config's phase and finalizer, `credentials[k]` who accepts the
credentials it stands for, `unused[k]` what its controller found when it last
counted, `managed[m]` a resource with its reference, its finalizer and whether it
has an external name (`named`), `usage[m]` the config its usage object names,
`step` and `got` its reconcile. `Resolve` is the Get of `resolveLegacy` and
`resolveModern`, `Track` the Track and then the extraction of the credentials
(`Extract`), which the code makes in this order: a resource whose client cannot be
built has its usage all the same. `Manage` is the rest of the reconcile.
`Flavour` tells how a resource finds its config: `"terraformed"` through
`TerraformSetupBuilder`, `"imported"` after the initializer's own lookup,
`"costcenter"` through the CostCenter's Connect, which records no usage.
`bound` (the config the resource last turned to for its client) and `held` (the users
counted when a deletion was requested) are history variables.

Credentials are told apart by who accepts them (`Readers`). The set-up of a client
takes what any source gives, if it is a JSON object; the initializer
(`Initialized`) takes only the source `Secret`, with account and client ids in it
(`initializer.go:78-80,158-171`), and reads nothing once there is an external name
(`initializer.go:39`). That name comes from its lookup or from a creation, which
`Import` models; here it is a choice in `Manage`. `CreateConfig` and
`EditCredentials` give a config any of the credentials the constant `Credentials`
allows it; a change between the Get and the extraction counts at once. The CostCenter's
Connect extracts and unmarshals as the set-up does, and accepts the same.

So the two readers of an imported resource do not agree on what a usable config is.
`EveryReferenceServes` promises a connection only if the config named is there and
all who have to read it accept its credentials (`Servable`): for an imported
resource without an external name the initializer as well. What the exception hides
is what `configs_unserved` shows, see section 6.

A reconcile may read a config, and record its use after the config has been
released. The model has this race. `InUseStays` promises a config only to the
resources that used it when its deletion was requested, and rests on an assumption
about the runtime: the config controller counts the usages there are at the API
server (`FindUnused`). The manager's client, which it is set up with, lists from an
informer cache; a usage recorded before the deletion was requested that this cache still
lacks when the controller counts would be missed.

### 2.3 Import

An item's UUID is its position in `named`, the names of all items ever made;
`account` is the listing order of those that exist. `Lookup` is one request: the
groups at once, the boundaries one page per step, so that the account may change
between two pages; `paged` says which, once for a behaviour. `found[r]` is the
external name in memory. It is persisted with the finalizer, the announcement
and the record of a creation. Later it reaches the API server only if some other
update is made, which is a choice in `Adopt`. A resource of a kind with this
initializer has an empty external name until it is found or created, because
`external_name.go` gives it `IdentifierFromProvider`. The initializer also runs
for resources being deleted, and before the check of incomplete creations.

The generated controller gives upjet a callback provider (`zz_controller.go`),
so creation and deletion are operations that go on after the reconcile that began
them. `op[r]` is the one that is running, `tf[r]` the item Terraform's state
knows; `State(r)` is what Connect observes: `tf` or else the name just found.
`Create` begins an operation, and `Record` notes a success whatever comes of it.
The operation ends in `CreateStored`, `CreateRefused`, `CreateLost` (the item is
made, the answer is an error) or `Deleted`; a reconcile that connects meanwhile waits
(`Wait`), but its initializer has run. `Restart` ends the operations and loses `tf`.

External assumptions: the listing is in the order of creation; a POST of a name
that is taken is refused (the "400 Bad Request" of `initializer.go:24`); a page
past the end is empty. `present`, `shifted`, `overtaken` and `made` are history
variables: the item of the name that has been there since the lookup began, has
one been removed since then, has the account changed since the lookup that led
to the running creation began, and what the resource's POSTs have made. An object
of the same name is created anew only after the reconcile of the old one has
stopped: its writes would be rejected anyway.

`NothingLeftBehind` has three exceptions, each a state in which the code really
does leave an item: one was removed during the lookup, the item was made and
answered after the lookup had begun, or an external name had been recorded before.

### 2.4 Terraformed, TerraformedPromise, Parameters and Kinds

A resource has a `kind`: some fields, which of them are required, which have a
reference in `spec.forProvider` or `spec.initProvider` and with which policy, and
whether the two places are merged (`merge`, upjet's feature for management
policies). `Resolve` is one turn of `ResolveReferences`: the next field in the
generated order is looked up, in the copy alone, and a target without an external
name ends the reconcile. `Resolved` writes the values. `age[i]` is what has become of the
resource field `i` refers to: it comes, gets its external name, goes, and comes back under another.

`GetMergedParameters`, `LateInitialize` and `Admitted` (the validation rules) are
in `Parameters`: a value is `Unset`, `Zero` (`""` or `false`) or one of `Texts`,
since this is all that mergo and the late initializer tell apart. `Announce`,
`Create`, `Record`, `Save`, `Update`, `Delete`, `Finalize` and `Conflict` are
crossplane-runtime's reconcile; `FinishApply`, `FinishDestroy`, `Fail`, `MadeUnknown`
are Terraform's operations. `fresh` says whether a write of the whole object
would be accepted.

`TerraformedPromise` knows no copies, steps or parameters, only the phase of the
resource, what has become of the creation it announced, the operation that is due,
and three sets of items: those in the account, those the resource knows, and those
it has saved. `NoOrphans` says nothing once an answer or a state is lost; the promise
goes on: each announcement makes one item at most, nothing is begun while an
operation is due or a creation has no outcome, only a resource being deleted removes
its item, it goes only when it knows none, and a restart makes it forget
only what it has not saved. `PromiseKept` in `Terraformed` is the refinement: the
item that is known is the one Terraform's state has, or else the one of the external
name; a creation is abandoned once the reconcile that announced it has ended without
recording it. The copies that the reconcile works on, `fresh`, the step it is at and
the references stutter.

`Kinds` is a table: for every type, its fields, what is required and what has a reference,
from `zz_*_types.go`; what the methods of `zz_*_terraformed.go` answer; and the
configuration in `config/`. `MC_Terraformed` takes its kinds from it, and has TLC
evaluate that the table and the configuration agree (`GeneratedFromConfig`): every
resource has a kind in either scope, with the group, references and initializer it is
configured with, and a set-up that drives it.

### 2.5 SafeStart and Registry

`crd[k]` is a kind's CRD, `allowed` the verbs the provider has on CRDs, `proc`
the phase of the process, `verb` the verb `canWatchCRD` asks about, `gated`
whether main chose `SetupGated`, `next` the set-up main is at, `job[r]` the
controller a set-up builds next, `satisfied` the kinds the gate holds for
established, `added` and `synced` the controllers handed to the manager and
those that run. `Register`, `Call` and `Return` are the loops of `zz_setup.go`;
`Build` is one `Setup...` with the manager, under a name that must be free in the
process. Behind the gate its error is logged (`failed`), otherwise main
ends. A controller whose kinds cannot be listed times out, and the process ends with it (`Exit`),
which loses everything but the cluster (`world`); `Boot` is the restart. `seen` is a history
variable: what the gate has been told.

`Registry` lists the 28 set-ups of `zz_setup.go` and the two of CostCenter, with the
names of their 31 controllers.

### 2.6 Escaper

A text is a sequence of `Characters`, of which `$`, `%`, `{` and NUL matter, and the
parameters a tree of texts, lists and maps: `Trees(texts)[d]` holds the values that are nested at most `d` deep. Nothing in
the code bounds the nesting of a value, but every value has one; `Depth` is a bound
on that of the inputs. A field a map lacks is `Other`, as is every value the
escaper passes on (its `default` branch). The keys of maps (`Fields`) are texts too, some
of which users give; `escapeMap` copies them as they are (`provider.go:107-109`), and
`MapTexts` does so.

`EscapeHCLString` makes the three replacements of `escapeHCLString` with
`Replaced` for `strings.ReplaceAll`, `EscapeValue` descends as `escapeValue` and
`escapeMap` do (`MapTexts`). `Read` is the reading of a template by Terraform, from
left to right, with four rules: `${` is evaluated, `$${` is its escape, `%{` is a directive,
`%%{` the escape of one. What is between the braces is not told apart. `Literally` is the same
reading without the rule for interpolations, and so what the conversion is for:
`InterpolationsReadLiterally` says that what is sent reads as what was given reads
`Literally`. `escapeHCLString` (`provider.go:130-135`) touches neither `%{` nor `%%{`, so a
directive in a value is evaluated, and so is whatever a key holds; the properties are about
interpolations in values and promise no more. Both replacing and reading are a `Rewriting`: of the rules at most one
matches the left end of a text, and what it leaves is rewritten in turn. The
recursions are functions on texts and on depths, not RECURSIVE operators, so
that they can be proved about. Whether upjet passes a text through such a
reading is outside this repository.

## 3. Runs

Users, other clients of the account, failed calls and restarts are bounded by
`MaxEdits` and `MaxFaults`. Reconciles and operations are not bounded. The bounds
let a failure happen at every step, with changes before or after it. Deadlock is
not checked where an instance without objects is at rest (`CHECK_DEADLOCK FALSE`).

| Run | Instance | Shows |
| --- | --- | --- |
| `costcenter_live` | one resource set up as in the program, two keys, two values, four specs, 2 failures, 2 changes | the bookkeeping of copies and claims, claims not forgotten, abandoned creations stay so, the refinement of `CostCenterPromise`, convergence, completion of deletions |
| `costcenter_unnamed` | no default name, four specs with one Create refuses, 2 failures, 3 changes | types, DELETE is addressed, the same bookkeeping without the default |
| `costcenter_value`, `costcenter_orphan` | | violated, see section 6 |
| `configs_use` | an imported cluster-scoped and a namespaced resource, three kinds of config, the cluster-scoped one with credentials that both readers, the set-up alone or neither accepts, 1 failure, 4 changes | the accounting of users, a used config is not released, references serve where all readers accept the config, deletions complete |
| `configs_costcenter`, `configs_unserved` | | violated, see section 6 |
| `import_twins` | two boundaries of one name, pages of one item, four items, 2 failures, 4 changes | what ties, misses, refuses and remains |
| `import_live` | a group, or a boundary in pages of one; two items of other names; 2 failures, 3 changes | served in the end, deletion completes, lookups end |
| `terraformed_life` | all sorts of one-field kinds, merged or not, and two kinds with two references; two names per target, two texts; 1 failure, 3 or 2 changes | types, no orphans, whole requests, set values stay, the refinement of `TerraformedPromise`, convergence, references follow, deletions complete |
| `safestart_live` | three set-ups, one of them of two controllers behind three kinds, all five of their kinds, any installed at first; 1 failure, 3 changes | types, the gate, free names, only lost kinds stop, all that can run does |
| `escaper_texts` | all texts of up to 6 characters of four sorts, in parameters of three shapes, nested up to 3 deep, under keys of which one is an interpolation | interpolations in values are not evaluated and read literally, idempotent |

Why the bounds are enough:

* Pages of one item are the hardest case: every removal moves an item over a page
  boundary. In `import_twins` a resource of one name competes with its twin, with
  other clients and with its own running operation. The twins are alike, so
  `SYMMETRY Alike` is sound; that run checks no liveness.
* In `import_live` at most five items are ever named, so `MaxItems = 6` never stops a
  POST; in `terraformed_life` an item is made at most once per change and fault, which
  `MaxItems = 4` admits. A bound that was reached would disable the operation, and with
  it the fairness that has it end.
* Fields of a kind without references do not depend on one another, so that one
  field stands for them: required or not, able to be zero or not, merged or not.
  With references the order matters, and two fields show it: resolved first or
  second, in one place or the other, kept or followed. TLC evaluates that these
  one-field kinds are exactly those of the provider's types.
* Six characters hold two escapes, an escape and a directive's escape, or any run of dollars before a brace that
  overlaps another. NUL is a character, but of no input; the theorems are about texts of
  any length and values of any depth.
* A second CostCenter of the same key appears to the first as another client of
  the account, which `OutOfBand` is, so one resource shows what two would; the
  theorems are about any number.
* The instance of `SafeStart` has the set-up with the most kinds and two controllers,
  and two plain ones; the other rows only repeat these. What the theorems assume of the set-ups
  (`DistinctNames`, `GatesCover`) TLC evaluates for all of them (`ProviderSetups`).

**Fairness.** Nothing is assumed of users, other clients, failures or restarts;
since they are bounded, the liveness properties say what happens once they have
come to an end. Weak fairness is assumed of what the code's scheduling drives:

* each resource's reconcile, everywhere: the work queues of controller-runtime
  retry what failed, and every resource is polled;
* the cache's synchronisation in `CostCenter`: watches deliver;
* the garbage collector and the config controllers in `ProviderConfigs`;
* Terraform's operations (`Operate`) in `Import` and `Terraformed`: upjet runs
  them in a goroutine with a deadline;
* in `SafeStart`: main goes on and the kubelet restarts it (`Main`), each goroutine of
  the gate gets its turn (`Build`), caches sync or time out (`Sync`, `Timeout`, `SyncWatcher`,
  `WatcherTimeout`), the watcher reports each kind (`WatchCRD`).

In `CostCenter` two resources that share a key may livelock a deletion, so
liveness is checked for one resource.

## 4. Proofs

Checked by tlapm, for any constants that satisfy the modules' assumptions.

* **`CostCenterProofs`**: `TypeCorrect`, `BookkeepingHolds`, `ClaimsAreRemembered`,
  `DeletesAreAddressed`, `AbandonedIsFinal`. That claims are remembered is not
  inductive: whether an update may change an object depends on what its copy is
  a copy of. `Bookkeeping` adds this: a copy that counts as the latest version
  differs from the object only in what its reconcile is about to write
  (`CopiesTrack`), the match is what the copy is named after (`MatchNamed`),
  a creation under way is announced on an object that cannot vanish
  (`Announced`), and claims are in the account and known to the copy
  (`ClaimsKnown`). Both passing runs of `CostCenter` check it too.
* **`CostCenterPromiseProofs`**: `PromiseHolds`, the refinement, step by step. It
  needs more than `Bookkeeping`: an object may go and come back while a reconcile
  of the old one still has its copy. `IncarnationsHold` says that a copy of an earlier
  incarnation never reaches what the new one holds.
* **`ProviderConfigsProofs`**: `TypeCorrect`, `UsersAreAccounted`,
  `UsedConfigsStay`. The invariant `Accounted` relates users, usages and the
  controller's count. `UsedConfigsStay` assumes that no resource is a
  CostCenter. Without that assumption it is false, and the run `configs_costcenter` shows it. That
  usages are counted at the API server is an assumption of the model (section 2.2).
* **`ImportProofs`**: `TypeCorrect`, `TiesAreByName`, `QuietLookupsFind`,
  `RefusalsAreOvertaken`, `NothingIsLeftBehind`, for any page size and any number
  of resources. That a quiet lookup finds needs the position of the item: while the
  lookup goes on and nothing was removed, the item is listed behind the pages
  already read (`BehindAndQuiet`). That a refused POST was overtaken needs that a creation is
  announced with the name in memory on an object the finalizer protects, and that
  an account which has an item of the name while it runs has changed since the
  lookup (`Running`). That nothing is left behind needs that Terraform knows of
  nothing while an item is made, and afterwards that no other item of the resource
  is listed (`Owned`), and that a lookup without removals leads to listed items (`Seen`).
* **`TerraformedProofs`**: `TypeCorrect`, `NothingOrphaned`, `WhatIsSetStays`,
  `RequestsAreWhole`, for any kinds. No item is orphaned because the copy has the
  object's external name, a resource without a finalizer has nothing anywhere, and
  an apply that would make an item finds none in the object's name
  (`Bookkeeping`). What is set stays because the copy has it until somebody else
  writes, and what references are kept also after that (`Copied`). Requests are
  whole because the references before the position are resolved, and what is
  admitted and resolved stays so on its way through the copy, the operation and the
  item (`Whole`).
* **`TerraformedPromiseProofs`**: `PromiseHolds`, the refinement, step by step, for any
  kinds and bounds. `Bookkeeping` ties items to the object; the refinement also
  needs what a reconcile may rely on although others write to the object
  (`LedgerHolds`): a step before the announcement has no creation under way, one after it
  has an object that is still there, a copy that counts as the latest has the
  object's phase, and an item of an external name that Terraform's state has
  replaced is gone, so that a restart cannot bring another item back than the one
  that was saved.
* **`SafeStartProofs`**: `TypeCorrect`, `GateIsKept`; `NamesStayFree`, for set-ups
  with `DistinctNames`; `LostKindsStop`, for set-ups with `GatesCover`.
  `ProviderSetups` shows that the provider's set-ups have both, so the two hold of the
  program as it is built.
* **`EscaperProofs`**: `NoInterpolationEvaluatedHolds`, `InterpolationsReadLiterallyHolds`,
  `ConvertedOnceHolds`, for texts of any length and parameters of any depth, if no
  value that is given holds a NUL. `NulReadsAsInterpolation` shows that this is
  needed, and `DirectivesAreEvaluated` that the first two cannot say more: a directive is
  sent as it is, and evaluated. The library's induction theorems take a predicate, which tlapm 1.4.5 cannot
  instantiate; `NatSets` and `TextSets` are induction over a set instead, proved from the
  well-foundedness of the naturals. `Recursion` proves with them that the function the
  recursion of `Rewriting` describes exists, and `TreesIs` and `MapTextsIs` do so for the
  other two. Then the conversion is taken apart by the left end of a text: an escape
  stays (`EscapeOfEscape`), an interpolation becomes an escape
  (`EscapeOfInterpolation`), any other character stays (`EscapeOfOther`,
  `EscapeOfDirective`), because
  putting escapes aside makes no brace begin a text (`AsideBrace`). Of the four marks
  Terraform knows no two begin the same text (`MarksDiffer`), so each reading takes a
  text apart by the one it begins with, if any (`RulesOf`). What it reads
  follows by induction on the length (`ConvertedTexts`, `Conversions`): the case that
  needs an invariant is a dollar or a percent sign before a converted text
  (`OtherCases`), which is no new mark because no converted text begins with an
  interpolation, and one begins with a brace or a directive only if the original did. `MapTypes` and `MapTwice` carry texts over to parameters, by induction on their depth.

Only model-checked: all liveness (fairness and ENABLED are beyond the prover).

## 5. Not modelled

* Deep copies (`zz_generated.deepcopy.go`, a third of the source) and the
  accessors of `zz_generated.managed.go` and `zz_generated.managedlist.go`. They
  copy, get and set field by field; every model takes a copy for a value of its own.
* `Update` of the CostCenter controller: Observe never asks for it.
* The grace period after a creation, and a human's removal of the annotation of
  a pending creation.
* Management policies other than the default, and pausing.
* Several replicas: leader election is off by default, and one active process is assumed.
* What credentials hold, beyond who accepts them, and their copying into Terraform's
  configuration (where the names differ: the initializer reads `dt_account_id` as well as
  `iam_account_id`, the set-up only the latter); OAuth, metrics, logging, webhooks.
* In `Terraformed`: blocks count as one field, a list of references as one
  reference, a selector as a reference; that a list loses its references when it
  is empty is left out.
* Upjet, Terraform and crossplane-runtime themselves: what they do is modelled
  from how the code here configures and uses them, and marked external.
* The code generator, features, packaging, examples and CI: not part of the running program.

## 6. Where code and documents disagree

| Run | Disagreement |
| --- | --- |
| `costcenter_value` | `costcenter_types.go:43` calls the spec the desired state; the value of an existing cost center is never corrected, because Observe reports every match as up to date |
| `costcenter_orphan` | under the deletion policy Delete, a lost answer to POST and then a deletion leave the cost center behind |
| `configs_costcenter` | a config goes while a CostCenter uses it, because its Connect records no usage |
| `configs_unserved` | three causes in one behaviour: a namespaced CostCenter's reference to a ClusterProviderConfig, the CRD's default, is read as a ProviderConfig; the initializer of a namespaced resource looks its config up without a namespace; and that of a cluster-scoped one refuses credentials of a source other than `Secret`, which `types.go:19` allows and the set-up accepts. None of the three resources is ever served |

More are visible in the models without a run of their own:

* a CostCenter with its key in `initProvider` alone is admitted by the validation
  rule and refused by Create at every reconcile (`CreateKeyless`);
* an item that took the name of a removed one is never looked up, because an
  external name is recorded, and POST is refused for ever (`Stale`, which `Served` excepts);
* a NUL in a text is sent as an escape (`NulReadsAsInterpolation`);
* a directive in a value (`DirectivesAreEvaluated`), and an interpolation or a directive in a
  key of a map that users give, are sent unescaped and left to Terraform;
* the comment at `zz_group_terraformed.go:102` says that nothing already set is
  overwritten by the merge; mergo takes `""` and `false` for not set
  (`GetMergedParameters`, and the exception in `Converges`);
* `zz_policyboundary_types.go:63` says that fields of `initProvider` are not updated
  after the creation; such a field is copied to `forProvider` by late initialization as
  soon as it is observed, and enforced from then on (`LateInitialize`, `Outdated`).

## 7. Plan

Done: all modules of section 2, the two refinements, and the proofs of section 4. Left, in this order:

1. A composition of `Import` and `Terraformed`: the external name a binding
   resolves is that of a group which is itself being imported.
2. Deletion with two CostCenters of one key, under the scheduling of the work queue.
3. Management policies other than the default.
