# TLA+ verification of crossplane-update-tester

`update-tester` checks that a Crossplane provider's controller really updates,
converges, recovers and round-trips its resources.  It does so from the outside:
it patches a live resource, waits for the controller, and reads conditions,
observed values, events and logs.  What is hard to test in it is therefore not
one function's result but the interplay of a test loop, a controller, an event
pipeline that lags and drops, and goroutines that share a limiter.

## Inventory

| Component | State | Operations | Interacts with |
|---|---|---|---|
| Batch (`batch.go`, `adaptive.go`, `throttle.go`) | limit, active, wait set, throttle events; the streak of 429s | Acquire, Release, Throttle, Observe, the 429 callback, RunBatch | one RunTests per target; every HTTP response of the shared client set |
| RunTests (`runner.go`) | results, attempts since reset, event baseline, reset-failed flag, snapshot | pre-run count, reset, skip, no-op, patch, wait, poll, evidence, snapshot | controller, event list, the two assertion components |
| assert-unchanged (`assert_unchanged.go`) | baselines, violated fields | read baselines, check | RunTests' snapshots |
| clear assertions (`clear_assert.go`) | pending, consumed, unproven credits | trigger resolution by route, check, account | validate's cell report, RunTests' snapshots |
| Reconcile handshake (`runner.go`, `converge.go`) | none of its own | clear conditions, nudge, wait Ready, wait Synced | the controller's status writes |
| Converge (`converge.go`) | baseline (snapshot, events, generation, pod), restarts | arm, wait, assert, re-arm | controller pod, events, logs |
| Converge-all (`convergeall.go`) | baselines and results per target | arm all, one sleep, assert all | Converge |
| Resolve-recover (`resolve.go`) | none of its own; leaves the resource paused or nameless between calls | pause, strip external-name, clear, unpause, wait, count creates | controller, event list |
| Rotation (`roundtrip/rotation.go`, `main.go`) | seed, cursors, sticky failures, on disk | Load, Select, PromoteFailure, Save | invocations of roundtrip-verify, one after another |
| Round trip (`roundtrip/roundtrip.go`, `denominator.go`, ...) | none (pure) | classify the live object's fields, judge the manifest's waivers | manifest, CRD, live object |
| Clear cells (`roundtrip/containerclear.go`, `ineligible.go`) | none (pure) | coverage of a CRD's containers, eligibility, credits | RunTests, validators |
| Manifest (`manifest/manifest.go`) | none (pure) | accept or refuse an annotation | everything |
| Validators (`validator/*.go`, `main.go`) | the struct parser's position | parse Go structs, seven offline checks, the verdict of validate | manifest, clear cells |
| Hook (`hook/hook.go`, `main.go`) | none | derive the manifest and the steps, run them in order | the other commands |
| Differ, residual, CLI, kube client, sidecar, fake server | none worth the name | pure functions, I/O | everything |

Hard behaviours, each listed with its line in `PROJECT.json` under `hazards`:
two 429 callbacks that halve from one reading; goroutines parked while the limit
shrinks; event counts that lag, are dropped, or belong to an earlier entry;
restarts that fail; API calls that fail half-way through an entry; credits and
drifts attributed to the wrong entry, or lost because a field could not be read;
controllers that restart during an observation, or whose log is drowned by others'; a handshake in which the order of two patches decides whether a
wait ever ends; a job killed while a resource is paused; a state file cut in the middle of
its save; offline checks whose verdict must agree with what the cluster does hours later.

## Modules

| Module | Models | Role |
|---|---|---|
| `AdaptiveLimiter` | `adaptive.go` | component: the shrinking semaphore |
| `ThrottleTracker` | `throttle.go` | component: the streak of 429s |
| `Batch` | `batch.go` | composes the two with one goroutine per target |
| `BoundedPool` | what RunBatch promises | abstract specification, implemented by `Batch` |
| `BatchProofs` | | theorems about `Batch` |
| `RunTests` | the loop of `runner.go`, `assert_unchanged.go`, `clear_assert.go`, the verdict of `main.go` | component, with the controller and the event pipeline as environment |
| `RunTestsProofs` | | theorems about `RunTests` |
| `MCRunTests` | | instances for TLC |
| `Reconcile` | `applyPatchAndReconcile`, `reconcileOnce`, `nudgeAndReconcile`, `waitSynced` | component, with the managed reconciler as environment |
| `ReconcileProofs` | | theorems about `Reconcile` |
| `Converge` | `converge.go` on one resource | component, with the controller, its pods, events and log as environment |
| `ConvergeProofs` | | theorems about `Converge` |
| `ConvergeAll` | `convergeall.go` | many targets, one sleep; what happens to one target is left open |
| `Observation` | what a convergence check promises of one resource | abstract specification, implemented by `Converge` and, for each target, by `ConvergeAll` |
| `ConvergeAllProofs` | | theorems about `ConvergeAll` |
| `MCConvergeAll` | | instances for TLC |
| `ResolveRecover` | `resolve.go` | component, with a controller that may create a duplicate as environment |
| `Hook` | `hookSteps`, `hookStepArgs`, `cmdHook` of `main.go` | the sequence of subcommands around `ResolveRecover`, killed and started again |
| `HookProofs` | | theorems about `Hook`, `ResolveRecover` and `HookManifest` |
| `HookManifest` | `hook/hook.go` | which manifest a hook tests |
| `Rotation` | `rotation.go`, `cmdRoundtripVerify` | component: the saved rotation state over many invocations |
| `MCRotation` | | instances for TLC |
| `RoundTrip` | `roundtrip.go`, `cell.go`, `immutable.go`, `denominator.go`, `waiverbucket.go` | the report on one manifest, as a function of what the command reads |
| `RoundTripProofs` | | theorems about `Rotation` and `RoundTrip` |
| `MCRoundTrip` | | instances for TLC |
| `Manifest` | `manifest.go`; merge patch and comparison of `runner.go` | operators: which annotations are accepted, what an entry does |
| `ClearCells` | `containerclear.go`, `ineligible.go` | operators: which container leaves can be cleared, and which are |
| `Validate` | `validator/*.go`, `cmdValidate` | the verdict of validate, judged by what a run does with the same entries |
| `ValidateProofs` | | theorems about `Validate`, `ClearCells` and `Manifest` |
| `MCValidate` | | instances for TLC |

`ClearCells` extends `Manifest`, `Validate` extends both, `Hook` extends `ResolveRecover`.

Operators introduced by a comment that begins "Seeded fault" are variants of the
definition that follows them.  No specification uses them: `PROJECT.json` names,
for each property, the variant under which TLC must find that property violated.

### Batch

Every method of the limiter runs under `l.mu`, so each is one action; `cond.Wait`
enrols the caller before it unlocks, so "find the pool full and park" is one action
too, and a woken caller tests the limit again.  `Observe` counts under `t.mu` and
calls back after unlocking, with the streak it read under the lock; the callback
reads the limit and throttles in two critical sections.  Those four points are
separate actions (`Respond`, `Ignore`/`ReadLimit`, `Halve`), so a callback can be
stale in both its streak and its limit.  `pc` follows each goroutine from
`Acquire` through the deferred `Release` and `wg.Done`.  The work of a target is a
sequence of HTTP responses, each a 429 or not.

| Run | Question | Bounds |
|---|---|---|
| `batch` | Is every slot counted, every reduction a halving that was paid for, nobody stranded, the summary final?  Does every target run, and is the batch a bounded pool? | three targets, ceiling 4 (which halves to 2 and to 1), five responses |

A fourth and a fifth 429 in a row call the handler again, so five responses are room for
three callbacks at once, all stale in their limit, and for one whose streak a success has
ended; the ceiling of 4 lets all targets in, so that the limit can
fall below the number in flight, to 2 and to 1.  `MaxAnswers` bounds the responses and
nothing else.  The targets are interchangeable but no symmetry is declared: it is
unsound for the liveness properties.  `InitialCeilingHolds` (never more in flight than
asked for) follows from the refinement of `BoundedPool` and is not checked separately.

Fairness.  Weak fairness of each goroutine's steps other than receiving one more
response: the Go scheduler runs every runnable goroutine, and a target's field
tests end because each of their waits has a deadline.  No fairness is assumed
of responses, and no strong fairness of Acquire: the slots suffice for all.

### RunTests

One action per call whose outcome matters: counting, restarting, patching, waiting,
polling, re-counting, taking the snapshot, accounting; `pc` names the position in
`RunTests` and `runFieldTest`.  A `TestResult` is the set of its flags.  `Account` is
everything the loop does after `runFieldTest`, on whatever snapshot that handed
back: after an early return it is the previous entry's.

The two checks read each field through `readSnapshotField`, which fails where the way to
it leads through something that is no object (`Unreadable`).  Such a field is passed over,
the first failure becomes the entry's error if it has none (`ReadFails`), and the credits of
the entry's field are consumed all the same.  `Route` gives for each credited
representative the route validate credited it by; `Lenders` are the entries whose patch
clears it by that route (the `clear:` list of a sibling, an empty container in
its `withValues:`, a null or an empty container above it), and `triggerFieldFor` is the field
of the first of them.

External to `src/`, and modelled by what the code relies on: the controller
(`Update`, `UpdateFails`, `NoUpdate`), the rollout (`Restarted`) and the event pipeline
(`Emit`, `EventListed`): a process records at most `Burst` events for an object and
drops the rest; an accepted event may be listed later; a restart restores the
burst and may lose what was queued.  The backend normalises values, so that an
entry's `expect` can already be observed while its `value` differs from the spec.
The evidence window is assumed to outlast the lag of the event list
(`NotEvidenced` needs `inflight = 0`), and the burst not to refill during a run.

Faults are switched per configuration: `api` (any call to the API server fails),
`count`, `restart`, `update` (Update() fails and is retried), `refuse` (the controller
sees no difference), `backend` (it drops a patched field or loses another).

| Run | Question | Bounds |
|---|---|---|
| `run_tests` | Does a clean verdict prove that Update() carried every tested entry, whatever fails?  Are credits and drifts checked on the right snapshot and all accounted for? | an entry whose value the backend normalises, a skipped one and a lender that clears the container of a credited field; every fault, also fields that become unreadable; ceiling 1 and burst 2, so that each entry after the first needs a reset; no-op and missing-field starts |
| `run_tests_burst` | Is a trusted NOT-EVIDENCED true, is there headroom before each patch, is each restart earned?  Does a clean run prove a credit whose field has two entries? | one event in flight, so that ceiling - 1 + lag < burst as with 20 and 25; the documented idiom of two entries for one field, the value first, the clear second |
| `two_entries` | (violated) is a credit refuted only by the entry that claims it? | two entries for one field, the second of which empties a list; no fault |
| `late_event` | (violated) does a growing count prove this entry's Update()? | one late event |

### Reconcile

`RunTests` takes for granted (`Reconciled`) that a wait ends only after this patch's
update.  `Reconcile` is where that is checked: the runner's five calls, twice, against
a managed reconciler that reads the object, may late-initialise (a new generation),
updates or fails to, and writes the status; `pass.stale` says that somebody wrote the
object since it was read, in which case its write conflicts and is repeated.  The
controller is woken by changes of the spec and of annotations, not of the status:
hence the order clear, nudge, wait.

| Run | Question | Bounds |
|---|---|---|
| `reconcile` | Has the patched value reached the backend when the first wait ends, and does `atProvider` show it after the second?  Does the handshake end by the wake-ups it causes? | two failing updates and two late initialisations, so that each may precede or follow the other in one handshake |

Fairness: the runner goes on when it can (it polls), the controller works off its
queue (`Woken`) and ends what it began (`Working`).  `PollTick` has none, so that no
wait can rely on the provider's poll interval, and `Fail` has none, so that
`HandshakeEnds` is about the handshake and not about its failures.

### Converge

The runner's calls in order: the gates of `convergeArm`, `recordConvergeBaseline` (two
calls, `ArmedAt` after the second), the sleep, and `convergeAssertAttempt`: identity,
outcome (three calls), log.  The controller goes on between any two of them.  Every
wait has a deadline and may end without what it waits for.  A re-arm (`Rearm`) starts
again at the first gate with the old notes.

What is observed is only ever compared with the baseline, so `changed` records which
part differs from it; what a reconcile writes to `atProvider` may or may not be what
the baseline has.  Time passes only while a window is open: `elapsed` and the age of
the log's last Update() line are counted from `ArmedAt`.  The controller reconciles at
least once in a poll interval (`Tick` waits for it).  External: the managed reconciler,
the event pipeline (an event is listed, listed late, or dropped), rollouts (`Replace`:
a new pod name) and container restarts (`RestartInPlace`: the same one).  A started
process may act once on every resource (`starting`), and a pod ages past the settle
threshold only after that burst.  `Providers` says which kinds of provider and cluster
a run considers, by their `Trait`s; one of them is chosen at the start.  Two traits are
about what surrounds the controller: `crowded` (other pods match the selector by which the log
is read; `ProviderLogs` may then return their lines without the controller's own, whose
stream it skips when it fails) and `declared` (the manifest declares ready conditions of its own:
`GetObject` judges by them, while `waitReady` waits for Ready and nothing else).  After the
verdict nothing is modelled.  `causes` and `unseen` are history variables, read by
properties only.

| Run | Question | Bounds |
|---|---|---|
| `converge` | Is a reported loop real, is a looping controller noticed, is every restart told, is the promise of `Observation` kept? | two ticks to a poll interval, hence a window of three; a sound controller and a looping one without a Synced condition, both rolled out at any time; a looping one that is killed, its events listed late; a sound one under declared conditions |

`LoopIsNoticed` is about a controller that logs with `--debug` and has the log's selector to
itself; in a crowd the code does not keep it (`LoopIsNoticedInACrowd`, below).
`LoopIsReal` excuses `unseen` restarts, those in the same pod and those after the
identity was compared; without them it is about everything else that could be mistaken
for a loop.  `LoopIsNoticed` excuses them as well, because a restart loses the log.  No
run combines a sound controller with late events, for the reason given below under
"Counterexamples".  No fairness is assumed here: every call and wait of the runner may end in an
error or at its deadline, and `KeepsPromise` bounds the re-arms.

### ConvergeAll

A goroutine per target and phase, of which `limit` hold a slot.  `convergeArm` takes any
time and ends in a baseline, an early verdict or an error.  `Barrier` is
`convergeAllDeadline`: the latest `ArmedAt` plus the longest wait, as the time left.
`Restarted`, `Rearm` and `FreshWait` are `convergeAssertAttempt`, during which the
goroutine keeps its slot.  What decides between the outcomes is in `Converge`; here
every outcome is possible.

`Observation` counts only up to the window, and so does the refinement: `Watched` cuts
a target's elapsed time at its own wait.

| Run | Question | Bounds |
|---|---|---|
| `converge_all` | One outcome per target?  Is each judged on a baseline at least its own wait old?  Does RunConvergeAll return? | three targets with waits of 1, 2 and 3 ticks (the longest wait need not be the last armed), two slots, one restart each |

Fairness: `RunConvergeAll`'s own steps, each goroutine, and time.  Weak fairness of a
goroutine suffices for its slot, since each target needs one only once per phase.

### ResolveRecover and Hook

The calls of `RunResolveRecover` in their order (`Then`), each of which may fail and end it
(`CallFails`), against a controller that reads the object, works on that copy, and finds,
creates, observes or skips; a write from a copy that somebody else has made stale is refused
(`Conflict`).  Clearing the external name makes the controller search; what it finds may be
the original, an object it created before, or one of another type.  Create events are
recorded, then listed (`EventListed`).  The provider's poll interval never elapses, so a wait
must be ended by what the runner itself triggers.

`Hook` runs the steps of `hookSteps` one after the other.  Converge, the prefix check and the
tests only read or patch the spec and are one step each, which passes or fails; a job may be
killed at any step, also inside resolve-recover, and the hook started again on what it left.

| Run | Question | Bounds |
|---|---|---|
| `hook` | Did a passed recovery leave one object?  Do the tests never meet a paused or nameless resource, is what is left over always told, does the resumed resource become Ready? | three invocations: one that is killed or fails, a second that does so on what the first left, a third that passes; any schedule of the controller; with and without prefix and converge |

Fairness: the runner's calls, the controller and the event pipeline each go on; failures and
kills have none.  `EventsLate = FALSE` is an assumption about the cluster: an event is listed
before the resource it belongs to is Ready again.  With `TRUE` the count, which is read once,
misses a duplicate (see below).

### Rotation

One invocation of `roundtrip-verify` is `Load`, then `Report` or `SkipManifest` for each
manifest, then `Save`, `SaveFails` (a warning only) or, without any report, nothing.
`CrashInSave` is the point between truncating and writing in `os.WriteFile`; the next
`LoadRotationState` refuses such a file, until somebody removes it.  Objects change between
invocations.  Two invocations at once are not modelled.  `PromoteFailure` is exported and
tested but no command calls it yet; the model calls it where a caller would have to.

| Run | Question | Bounds |
|---|---|---|
| `rotation` | Is every member of a cell chosen in turn, is a saved promotion never lost? | two manifests that differ in their scope; cells of 3, 5 and 17 members (a budget of 2 to 6, so that cursors wrap within a cell and a cell shrinks under its cursor), a gap in the member list; two seeds |

`Target` is the number of runs after which `RepresentativesPerRun` promises that all were
chosen; `idle` counts the saved runs that left a member out while its cell stayed the same.

### RoundTrip

The state is what the command reads: CRD files, spec, mirror and the manifest's skips; a
step is somebody's edit of it, and the report a function of it.  A JSON object is the
function from its scalar paths to values.

| Run | Question | Bounds |
|---|---|---|
| `roundtrip` | Is every accepted waiver earned, and none by deleting a field? | three sets of CRD files (an unserved first version with a marked parent, a marked leaf, none); a leaf, a nested object and a field of the mirror only; scalars, lists, {}, null |

### Manifest, ClearCells, Validate

`Manifest` and `ClearCells` are pure.  `Validate` puts them under the command and judges its
verdict: an author edits the manifest, and what `cmdValidate` says of an entry is compared with what
`buildMergePatch`, the API server's RFC 7386 merge and `compareFieldValue` make of it on a
provider that is right (`Mirror`).  The Go types file is a sequence of lines that are already
classified, walked with the parser's brace counting; the CEL rules of a CRD are given as
guards.  Facts of the code kept on purpose: of several entries for a field the last one
decides its own credit (`selfByField`); an entry that is absent from the manifest is
ineligible only while its cell is uncovered; and an error of the coverage is printed but not a
failure.

The run's no-op guard reads a field from the spec and, where the spec holds nothing,
from atProvider (`readCurrentValue`): `Backend` is what a right provider shows of the fields
nobody sets.  A value in `Manifest` is a tree whose scalars are the literals `number` and `bool`,
or strings; with keys to ignore, the comparison decodes what it reads, which a bare string does
not survive (`Decodes`).  `clearedFields` is keyed by the parameter type of the normalizer, as in
`scanClearingFuncs`.  `TypeAt` follows lists and objects but, like `asObjects`, no list in a list.
`--types-file` (`TypesFile`) names the file of the Parameters in place of `FindTypesFile`; the
siblings it is searched with are the directory's.

`FindingsAreReal` leaves out two kinds of echoed member: those the entry ignores, because
the check does not look at `ignoreMapKeys` (`serverecho.go:319-330`), and those that the type
which holds the status lacks (`EchoedAndShown`; `MCValidateEcho.cfg` below shows why).  Its right
provider fills in what its normalizers say, which is also what the check reads: of the echoed
members the property tells that the walk finds them where the comparison meets them, not that
a normalizer tells the truth.  Surviving members are not its subject, `CleanManifestPasses` is
where one overlooked shows.  A reported no-op whose value is null is left out: the guard reads
what atProvider shows instead.
`CleanManifestPasses` speaks of the entries validate judges: undotted, first to touch their
field, expecting their own value, with no null in it, ignoring no keys of another shape,
merging no object inside an object (`survivingSiblingKeys` compares one level of members only),
and not repeating what the backend shows of a field the manifest leaves to it
(`RepeatsDefault`; `MCValidateAbsent.cfg` below).

| Run | Question | Bounds |
|---|---|---|
| `validate` | Does a manifest that validate passes pass on a right provider, and is what validate reports real?  Is a credited clear a removal, and is a credit kept?  Does the parser return what is declared? | up to two of 22 entries, which between them use every kind of value, clear, with and ignore and two kinds of skip; edits of three fields of the example; two layouts of the types in one or two files; no controller directory, or one whose two normalizers clear members of two structs; a backend that fills in one field |

Two entries suffice for the relations the checks look at (an entry and the one that touched
its field before, a clear and the entry that contradicts it); `MaxEntries` bounds nothing else.

`CHECK_DEADLOCK FALSE` in every run of a program that ends; `roundtrip` and `validate`, whose
edits never do, check for deadlock.

| Run | Distinct states |
|---|---|
| `rotation` | 252,876 |
| `roundtrip` | 9,232 |
| `validate` | 24,336 |
| `hook` | 3,974 |

## What the violated runs show

1. `late_event`: an event of the previous entry that is listed after the next
   entry's baseline was read evidences an entry that was never updated.
2. `two_entries`: with the documented idiom of a value entry and a second entry for the same
   field that carries `clear:` or `withValues:` (`README.md:1066-1068`), the list is
   checked after the value entry already, and reported as refuted by an entry that never claimed
   it (`clear_assert.go:41-43`).  A clean verdict stays sound: `CleanRunProvesCredits` holds for
   such manifests too.

### Counterexamples that are not runs

These configurations are kept to be run by hand; each violates the property it names.

- `MCRunTestsPreExisting.cfg`: a count below the ceiling at the start becomes the baseline,
  but those events were spent from the burst of the same process.  With 19 of them and
  a ceiling of 20, up to 38 events fall on a burst of 25 before the first reset.
- `MCRunTestsDrift.cfg`: an entry that fails after its patch leaves the drift it caused to
  be reported under the next entry's name.
- `MCConvergeKilled.cfg`: the pod's identity is its name; a container killed for memory
  restarts under it, and the updates of its start are reported as a loop.  With the trait
  "rolled out" instead of "killed" it is violated too: the identity is compared
  before the outcome is read.  With the trait "late events" for the sound controller
  `LoopIsReal` is violated: log lines are anchored to `ArmedAt`, events are not.
- `MCConvergeGeneration.cfg`: the generation is read two gates before the snapshot; a late
  initialisation in between makes a stable resource "not in steady state".
- `MCConvergeCrowd.cfg`: `countUpdateLogCalls` reads the log of every pod under a bare selector
  (`converge.go:866`) and `ProviderLogs` skips a stream that fails (`kube.go:797-805`): the
  lines of another provider's pod make a log that has none of the looping controller's look
  silent, and the resource is called stable without a note.
- `MCHookLateEvent.cfg`: with an event that is listed after Ready, a recovery passes although
  the controller created a duplicate and the resource points to it.
- `MCRoundTripBuckets.cfg`: `ClassifyWaivers` asks for a row before it asks whether the waiver
  is disproved, so the bucket of a field without a row disagrees with the denominator, on purpose, although
  the function's own comment rules that out.
- `MCValidateEcho.cfg`: the walk for server-echoed members says of itself that it never reports
  a false positive by construction (`serverecho.go:339-345`).  When an object's own type has no
  `<elem>Observation`, the walk falls back to the struct of the Parameters side, although the kind's
  Observation may give the field another, narrower type; it then reports a member that the
  status cannot hold, and the entry would have passed.
- `MCValidateWolf.cfg`: `CheckMergePatchSiblings` reports a member as surviving although an
  earlier entry's `clear:` removed the whole object.
- `MCValidateAbsent.cfg`: `CheckGuaranteedNoOp` takes a field that the manifest does not set for one
  that no patch can repeat (`guaranteednoop.go:55-58`), but the run reads it from atProvider: an
  entry with the backend's default is a no-op that validate lets pass.
- `MCValidateNullary.cfg`: `tryEnterStruct` does not count the closing brace of its own line, so
  that the struct after `type Empty struct{}` is taken for its body, although a nullary struct is
  "a real, resolvable declaration with zero members" (`validator.go:394-396`).

## Proofs

`BatchProofs` is checked by TLAPS for every set of targets, every initial ceiling
and every bound, from the assumptions `InitialAssumption` (the ceiling is an integer)
and `BoundsAssumption` (finitely many targets).

- `CountedAlways`: type correctness and `ActiveCountsHolders`, proved together because
  `Release` keeps `active` a natural number only as long as it counts the holders.
- `LimiterInvAlways` strengthens it with three facts: a limit read by a callback is
  never below the current limit (so half of it is either exactly half the current
  limit or no smaller than it, in which case `Throttle` refuses), the chain of
  reductions ends in the current limit, and parked callers face a full pool.
  `HalvingChainAlways`, `NoLostWakeupAlways`, `InitialCeilingAlways` and
  `NeverGrowsBackAlways` follow from it.
- `ReductionsAreSustainedAlways` adds `PaidFor`: each reduction made, and each callback that
  can still make one, has a run of three 429s of its own among the responses the tracker
  serialised, so a stale callback spends its own run or none.
- `SummaryIsFinalAlways`: once every goroutine is done none can write again.
- `BatchImplementsPool`: initial states map to initial states and each step to
  `Start`, `Finish`, `Shrink` or a stutter of `BoundedPool`.

`RunTestsProofs` covers every manifest, ceiling, burst and set of faults, from `RunTestsAssumption`.
`Typed` is type correctness; on it rest four families of theorems.
- Credits.  `Credits` says which credits of the fields seen so far are judged, lost to a failed
  entry, still pending or given up; `CreditAccountingAlways` is its last phase, with no hypothesis
  about what can be read.  `Judged` adds that an entry which is neither a no-op nor failed has
  the snapshot of its own patch, and that a clean run checks each representative there after
  every entry of its trigger field, its lender among them: `CleanRunProvesCreditsAlways` needs
  no hypothesis about how many entries a field has.
- Drift.  `Watched`: a field that moved under a patch is missing from the mirror, or from the snapshot
  that is compared next, or the verdict is spoiled already (a failed entry, a reported drift).
  `CleanRunSawNoDriftAlways` holds under every fault.
- Evidence.  `Exercised`: with `MaxLag = 0` the count grows after the entry's baseline only by the
  entry's own Update().  `CleanRunExercisedUpdateAlways` thus holds exactly up to the
  late event that run `late_event` shows.
- Headroom.  `Spent` bounds what the process has spent of its burst since its start by what was
  recorded or is on its way since the loop's baseline, and what was there before the run.
  With `CallsSucceed` (counting and patching do not fail; restarts and updates may) and `MarginCovers`
  (ceiling + lag + earlier events <= burst; 20 + 5 = 25 for the shipped defaults, without earlier
  events) the burst is never dry at a patch, and a trusted NOT-EVIDENCED is true.
  `MCRunTestsPreExisting.cfg` has no such margin.  `RestartsAreEarnedAlways` needs `MaxLag < Ceiling`:
  as many unlisted events as the ceiling would by themselves look like a spent burst.

`ConvergeProofs` covers every set of providers and every poll interval.
- `RestartsAreToldAlways`: `Told` is its conclusion at every point of the program, not only at the
  verdict.
- `KeepsPromiseAlways`, the refinement of `Observation`, goes step by step with `Course`, which
  ties the position in the program to the window: it is whole before anything is compared.
- `LoopIsNoticedAlways`, for a controller whose log nobody else's lines can hide: `Polled` bounds how long an undisturbed looping controller can have been
  silent.  Its hypothesis `PollInterval > 1` says that a tick is finer than a poll
  interval; with a single tick the half by which the window is longer than the interval, and
  with it the poll that must fall inside, rounds to nothing.
- `LoopIsRealAlways`: for a sound controller `Calm` says that nothing is owed when a baseline is
  taken, and `Quiet` that without a cause no signal appears in the window.  It is proved for
  `Accountable` providers; both kinds it leaves out, killed containers and late events,
  are the counterexamples of `MCConvergeKilled.cfg`.

`ReconcileProofs` covers any number of failing updates and late initialisations
(`ReconcileAssumption`).  `IInv` adds to type correctness what a pass in progress can
have read (`PassInv`), what conditions can be seen before the first nudge and after a
clear (`BeforeInv`, `CondsInv`), and, the heart of it, what a status at the current
generation says of the backend in each round (`RoundOneInv`, `RoundTwoInv`): the waits
end on such a status, so `FirstRoundUpdatesAlways` and `ReturnedIsFreshAlways` need
just those parts.

`ConvergeAllProofs` covers every set of targets, waits, concurrency and number of
restarts (`ConvergeAllAssumption`; time is counted up to `MaxElapsed`, which no wait
exceeds).  `IInv` says of each target, phase by phase, which of baseline, result and
error it has; in the sleep, that what has elapsed and what is left of the timer add up
to its own wait (`SleepInv`); and that whoever is about to be judged has waited
(`AssertInv`).
- `OneOutcomeAlways` is its last phase.
- `KeepsPromisesAlways` shows, for each target, that the steps of its own goroutine are
  steps of `Observation` or stutter (`OwnPromise`), that others' goroutines and
  RunConvergeAll itself stutter, and that time is `Pass` until the target's own window
  is over and a stutter afterwards.

`HookProofs` covers any number of invocations, failures and kills (the bound `MaxHooks` is
never used).  `TypeOK` is inductive.  `HandOver` says, at every point of the sequence, whether
the resource is in one piece: resolve-recover is at the head of what is left while it is at work,
the tests come after it, and where it is no longer to come the resource is whole, because it
passed or was never in the sequence.  `RunFindsItWholeAlways` and `LeftoverIsToldAlways` are
parts of it.  `Evidence` ties the two signals to the backend: an object has an event, listed or
on its way, and Ready after the conditions were cleared means none is on its way.
`PassedIsRecoveredAlways` follows, from `EventsLate = FALSE`.  `FlagsAreAccepted` compares
`hookStepArgs` with the parsers for every command and environment.

About `HookManifest`, for any files and directories: `OneManifestPerSlug` and
`WorkingSlugKeepsItsTarget`.

`RoundTripProofs`, about `Rotation`, covers any number of fields, manifests, seeds and changes of the objects.
- `StickyIsChosenAlways` needs no hypothesis: `Kept` says that whatever was promoted and saved is
  sticky in the state in memory and in the one on disk, and that without a file nothing was; a cut
  file is neither, and no invocation goes on from it.
- `EveryMemberInTurnAlways` is arithmetic.  A cursor that advances by the budget modulo the size
  of its cell covers every place of the seeded order within `Target` steps; `Due` says of each
  member how many saved runs it may still be left out, in terms of its distance from
  the cursor, and `Turn` that this holds for the state on disk, in memory, and for cells that
  were not visited.  The lemmas are about division (`RepresentativesPerRun` times
  `Target` covers the cell), about the ranks of members in a finite set, and about `Select` and
  `CreditCells`.  Its hypothesis `OneManifestPerScope` is the contract `stateKey` documents
  (`rotation.go:111`: the scope must identify the manifest); two manifests that shared a scope
  would advance each other's cursors.

About `RoundTrip` it covers every set of CRD files, schema, object and mirror.  The report is a function
of the state, so `WaiverIsEarnedAlways` needs of the history only that the skips are known ones;
the work is in `LeafRows` and `LeafDisproved`, which say what row DiffReport has for a path and
which verdict that means.  `DeletingEarnsNothingAlways` adds `ObjectIsPaths` (objects hold
sequences of names, from `CrdAssumption`) and `DeletedOrKept`: deleting a declared field takes
the whole of another leaf's value or none of it, because two prefixes of one path are prefixes of
each other.  An absent value disproves prose and write-only alike; an unchanged one changes nothing.

`ValidateProofs` covers every schema, set of Go files, controller and example object, every
manifest and every history of edits, from `ValidateAssumption`: what the author writes are JSON
values (trees below objects and lists) at paths of names.  The invariant is small: the manifest
is a sequence of entries (`ManifestIsEntries`), and in the example object nothing is there
without what it is below (`Closed`, which `setAtPath` keeps).  The work is in the lemmas about
`ValueAt`, `setAtPath`, `buildMergePatch`, `MergePatch` and `compareFieldValue`: what is at a path
after a patch, and what it takes for a value to match.
- `CreditIsKeptAlways`: a new entry can only add routes that cover a leaf (`CoversGrows`), it leaves
  the disposition of other fields alone (`DispositionKept`), and a cell with a covered leaf makes
  its other leaves eligible (`CoveredCellIsEligible`), so a credit never depends on such an
  entry's absence.
- `CreditIsRealAlways` takes the five routes one by one (`CoveredIsRemoved`): each puts into the
  patch of an entry that runs a null, a null member or an empty list at the leaf, above it, or
  below it, where `Full` has a value (`FullFacts`).
- `FindingsAreRealAlways`: `Before` is the object that an entry meets (`BeforeDef`; its values are
  shown to exist by well-founded induction on the number of entries), and the first entry that
  touches a field finds it as the author left it (`FirstTouchFindsIt`), which makes a
  reported no-op of a value that is not null one.  If a mirrored value matched, it would hold all that is expected and no more
  than ignored members besides (`MatchAgrees`); each of the three findings names a member that
  contradicts this (`UnobservableIsReal`, `IncompleteIsReal`, `EchoIsReal`).
- `CleanManifestPassesAlways` is the converse: the field after the patch is the value and, under
  ignored names only, what was there (`FieldAfter`, `OnlyIgnoredSurvive`); without findings the
  provider shows all of it (`ExpectedIsShown`) and adds nothing but ignored members
  (`RestIsIgnored`), so the comparison succeeds (`CleanMatches`).  That the entry is no no-op
  takes two cases: the spec holds the field, and the check has compared it; or it does not, and
  `RepeatsDefault` is excluded.

Only model-checked:
- liveness, which is beyond TLAPS: `EveryTargetRuns`, `HandshakeEnds`, `AllReturn`, `ReadyComes`, and
  the fairness of `PoolSpec`, whose safety part is `BatchImplementsPool`;
- `ParsedIsDeclared`, the one safety property of a passing run without a theorem.  It compares
  `ParseStructFields`, a fold over the lines of a file, with what each declaration in the
  instance's files is given to hold: a proof would be an induction over those lines, for
  which there is no definition of "declares" but a second parser.

`TypeOK` of the components other than `ConvergeAll` is proved and is no property of a run.

## Plan

1. Batch, Reconcile, ConvergeAll, Hook with ResolveRecover (done: modelled, checked, proved).
2. RunTests, Converge, Rotation, RoundTrip (done: modelled, checked, and every safety property of a
   passing run proved).
3. Manifest, ClearCells, Validate (done: modelled, checked, and every safety property but
   `ParsedIsDeclared` proved).
4. Two runners of a batch that share one controller Deployment and its restarts.

## Not modelled

- YAML decoding, the sidecar file and the directives of a manifest; argument parsing; printing.
- The regular expressions by which a line of Go source is classified, the Go syntax tree of a
  controller file, the text of CEL rules: all are given decoded.
- The Kubernetes client: its calls are actions of the other modules, where they may fail.
- The differ and the residual findings: reports on which nobody decides; so are the advisory
  round-trip lines of the converge-all summary.
- Events that expire after an hour; two invocations of roundtrip-verify at once; the restart
  of a Deployment that two targets of a batch share, which needs two instances of RunTests.
- The sidecar, the fake server and the smoke test, which are outside the tool.
