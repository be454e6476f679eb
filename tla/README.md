# guardrail-mini in TLA+

TLA+ models of guardrail-mini, a FastAPI service that evaluates text against
guardrail policies for projects identified by bearer API keys. Each module is
translated from the Python source, named at its top; TLC checks every module on
small instances, and TLAPS proves the theorems of the `*Proofs` modules for all
values of the constants. `PROJECT.json` maps each definition to its source lines.

## 1. The system

| Part | Source | State | Operations |
|---|---|---|---|
| Request pipeline | `main.py`, `api/middleware.py`, `api/auth.py`, `api/routes/` | one request: its body, response and counters | observe, limit the body, route, parse, authenticate, validate, handle, count |
| API keys | `auth/keys.py`, `api/routes/api_keys.py`, `scripts/create_api_key.py` | table `api_keys`; per worker a bounded TTL cache (OrderedDict and lock) | authenticate, create, revoke, invalidate |
| Rate limiter | `auth/rate_limit.py` | per worker a bounded OrderedDict of fixed windows | check |
| Policy engine | `core/policy_engine.py` | registered policies, metrics | evaluate, aggregate |
| Policies | `policies/` | loaded classifiers | score a text, threshold it |
| Artifact publication | `scripts/upload_models_to_minio.py`, `models/artifact_store.py` | bucket, objects, `model_versions` | ensure bucket, upload, register |
| Artifact cache | `models/artifact_store.py`, `models/registry.py`, `models/artifacts.py` | a cache volume | resolve, validate, download, install, load |
| ONNX cache | `models/onnx_runtime.py` | a cache directory | export, replace, open a session |
| Model preparation | `models/compose_setup.py`, `scripts/download_model.py`, `scripts/download_prompt_injection_model.py` | a volume with the model directories and their manifests | wait for MinIO, download what is missing, upload |
| Lifespan, settings, database, logging | `main.py`, `core/config.py`, `db/`, `observability/` | `app.state` | start, stop |
| Deployment | `docker-compose.yml` | which containers run | start model-init and the API, restart the API |
| Other scripts, monitoring | `scripts/`, `monitoring/` | none shared | straight-line |

A request enters the request middleware, then the body limit, then FastAPI. The
authentication dependency calls the authenticator of its worker, which reads
PostgreSQL on a cache miss; the handler spends a slot of the rate limiter and
calls the policy engine. Handlers are synchronous, so Starlette runs them in
threads: the cache and the limiter are shared by concurrent requests, and each
API process has its own. The model-init container downloads the pinned models to
its volume and runs the upload script on them; the script can also be run by
hand, with any files. Its runs and the startup of every API process meet in the
bucket, in `model_versions` and on the cache volumes. Compose starts the API
after model-init has succeeded once; an API that is already there is restarted
at any time, also while the stack is brought up anew.

What is hard, and at which line, is listed under `hazards` in `PROJECT.json`:
clock readings taken before a lock, a revoke against an authentication in
flight, negative caching, eviction from full maps, check-then-act on the bucket
and the cache directory, crashes between two renames, a download that breaks
off, a wait against its deadline, a startup during a publication, error paths
that must count once.

## 2. Modules

| Module | Models | Checked by | Proofs |
|---|---|---|---|
| `ApiKeyAuth` | key table, authenticator caches, worker threads, revocation | `api_key_*` | `ApiKeyAuthProofs` |
| `RateLimit` | `ProjectRateLimiter.check` with concurrent callers | `rate_limit_*` | `RateLimitProofs` |
| `PolicyDecision` | abstract: what an evaluation promises | as property of the next | |
| `PolicyEngine` | `PolicyRegistry.evaluate`, aggregation, metrics | `policy_engine_evaluate` | `PolicyEngineProofs` |
| `RequestPipeline` | one request through all layers of the application | `request_pipeline_*` | `RequestPipelineProofs` |
| `Artifacts` | the models, their builds, the bucket's objects and the table | with the next two | |
| `ArtifactPublish` | runs of the upload script against bucket and registry | `artifact_publish_replace`, `model_delivery` | `ArtifactPublishProofs` |
| `ModelSetup` | the model-init container, around a run of the upload script | `model_delivery` | `ModelDeliveryProofs` |
| `ArtifactCache` | startups that bring the registered models into the cache and load them | `artifact_cache_startups`, `model_delivery` | `ArtifactCacheProofs` |
| `ModelRelease` | abstract: what the registry promises | as property of the next | |
| `ModelDelivery` | composition of `ModelSetup` (and with it `ArtifactPublish`) and `ArtifactCache` | `model_delivery` | `ModelDeliveryProofs` |
| `OnnxCache` | startups that export and reuse a derived graph | `onnx_cache_shared` | `OnnxCacheProofs` |

`MC*` modules give the constants of a module values for TLC and nothing else.
Definitions whose comment starts with "Mutant:" are changed versions of the
operator that follows them; no specification uses them. `PROJECT.json` pairs
each property with a mutant that TLC must find to violate it, which shows the
property would notice such a bug.

**ApiKeyAuth.** Raw key, hash and row id are one value. The steps of a thread
are the pieces of `authenticate()` between which another thread can run: read
the clock (`Begin`), look up under the lock (`CacheHit`, `CacheReject`,
`CacheExpire`, `CacheMiss`), run the query (`SelectRow`, `DatabaseFails`), end
the session and stamp the entry (`StampEntry`), insert under the lock, prune and
evict (`Remember`), answer (`Respond`). `Revoke` is the commit and `Invalidate`
the later removal from the worker's own cache; `RevokeUnacknowledged` commits
but reports failure. `Restart` empties the cache of a worker. Monotonic and wall
time advance together in `Tick`; `MaxTime` and `MaxLag` (how long the commit
after a SELECT may be outstanding, zero for a commit that takes no time) bound it. The history variables `revokedAt`,
`readAt`, `revokedIn` and `begun` record what the properties refer to and guard
nothing but `Tick`. `Keep` is `SelectSeq` as a recursive function, since the
provers cannot expand the operator of `Sequences`.

**RateLimit.** `Begin` reads the clock outside the lock; the four branches under
the lock are `OpenWindow`/`OpenEvicting` (new project, with or without room),
`Renew`, `Consume` and `Refuse`. The demo limiter is another instance of the
same class. `MaxLag` bounds the ticks between the reading and the lock.
`recent`, `promise` and `latest` are history.

**PolicyEngine** implements **PolicyDecision**: `KeepsContract` is
`Contract!Spec`, with the engine's `reply` as the abstract answer and its loop
position, results and counters hidden. A score is any value up to `MaxScore`, so
that it can lie below, at and above each threshold; the registry's error order,
skipping of repeated IDs and both aggregation strategies are as in the code. An
error is that of the first ID that cannot run (`Causes`).
Over HTTP only part of it is reachable (all policies are enabled and a request
names at least one); the module models the class.

**RequestPipeline** follows the order of the layers: `CheckLength` and `Receive`
(body limit), `Disconnect`, `Route`, `Parse`, `Authenticate`, `Validate`, the
handlers, `Complete` (the `finally` block). Key verdicts, limiter verdicts and
policy outcomes are nondeterministic here, since they are modelled in their own
modules; `app = "bare"` is the application served without its lifespan, as some
tests do. How a server delivers a body (`Chunks`) and how Starlette answers a
path without a route (`Route`) are external: a body of announced length ends at
that length, and Starlette's own `HTTPException` is not the FastAPI subclass the
handler in `main.py` is registered for.

**ArtifactPublish.** A run of the script publishes its build of every model, one
object at a time: `HeadObject` decides, `PutObject` writes later and
unconditionally; `SelectRow` and `InsertRow` are the registration transaction. A
`Build` is a whole local directory; its manifest digest determines its files.
`Work` is what the script does by itself, `Break` how it ends otherwise: stopped
anywhere, or with the acknowledgement of a write lost that took effect. Runs may
overlap and be started again with other files. `mixed` records that runs with
different bytes have overlapped. An upload of a killed process that reaches the
server afterwards is not modelled.

**ModelSetup** extends `ArtifactPublish` by the container that runs the script.
`TestDeadline`, `ProbeSucceeds`, `ProbeFails` and `PauseEnds` are the loop of
`wait_for_minio()`, in seconds of a clock that only the wait reads (`clock`); a
probe takes at most `Timeout`, the rest of the loop takes no time. The 3 seconds
of the code limit each wait on the socket; that a whole probe of the health
endpoint fits in them is an assumption (a server that sends its answer in pieces
could hold it longer). `upSince` is the second from which MinIO answers every
probe: errors of a server that is only ready now and then come before it. An
answer other than 2xx is an exception of `urlopen()` like the others.
`CheckManifest` is the `is_file()` test of `main()`, `FetchFile`, `OpenManifest`
and `WriteManifest` the download script: files move into place one by one, and
`write_text()` truncates before it writes, so that a manifest on the volume is
`"none"`, `"torn"` or `"whole"`. `Launch` starts the upload script as a child,
`Upload` is a step of it; before the first object of a model the script verifies
the directory, which fails on a torn manifest. `BreakOff` ends the container at
any point, `MaxFaults` times; `Up` starts it again. The download scripts write
to a fixed directory which the settings name too; that they may be configured
apart is not modelled.

**ArtifactCache.** A startup walks `MODEL_ARTIFACTS` twice (`at`): it resolves
every model, then verifies and loads one after the other, and serves when all
are loaded. The processes that share the volume (`sharers`, one or two) start
with any leftover of an earlier startup and any bucket content. `rmtree()` lists
the directory, removes entry by entry and removes the directory; another process
may rename a fresh directory into place meanwhile, and an `rmtree()` that holds
the old one goes on in it (`detached`). Loading reads file by file, as the
PyTorch runtime does; verification hashes file by file too, and is one step here
because behind a hashed file come only removals and verified directories.
`StartupFails` is any error from outside, `Crash` the end of the process.

**ModelDelivery** extends `ModelSetup` and `ArtifactCache`, which share the bucket
and the table of `Artifacts`; a step of one leaves the variables of the other
alone. `present` says which of the actors
a deployment has. It implements **ModelRelease** (`KeepsRelease`): the
registered checksum of a model is written once, and a process in state
`"serving"` serves exactly the registered builds, `"Bad"` standing for memory
that is no build at all.

**OnnxCache.** The two files of the cached export are replaced one after the
other; a process may fail or stop between any two steps. The directory is named
after the source manifest and library versions, so that every graph exported
into it is equivalent and only whole or partial matters.

## 3. What each run checks

| Run | Instance | Shows |
|---|---|---|
| `api_key_workers` | 2 workers with a thread each, 1 key that may expire, TTL 2 | no false rejection, bounded stale acceptance, no expired key from the cache |
| `api_key_projects` | 1 worker with 2 threads, up to 2 keys issued for 2 projects, a forged token, cache of 1 | the right principal, the cache bound, immediate clean revokes, revokes stay in the project |
| `api_key_revoke_race` | 1 worker with 2 threads, 2 keys | **violated**: `docs/AUTHENTICATION.md:66` |
| `rate_limit_windows` | 1 project, 2 threads, limit 2, window of 2 s in half seconds | sliding bound, Retry-After |
| `rate_limit_eviction` | 3 projects in a map of 2 | map bound, eviction order, independence |
| `policy_engine_evaluate` | 3 registered and 1 unknown ID, up to 3 asked | contract with the order of errors, metrics, termination |
| `request_pipeline_answers` | limit of 3 bytes, messages of up to 2 | whole bodies, one count, no unearned work |
| `request_pipeline_unmatched` | as before | **violated**: `docs/architecture/inference-path.md:27` |
| `model_delivery` | 2 models of 2 files, 2 builds, an API process that meets 2 runs by hand, or the container; 2 faults, 1 crash | what is registered is complete, final and servable; the wait; the API ends up serving |
| `artifact_publish_replace` | 1 model | **violated**: `docs/MODEL_REGISTRY.md:67` |
| `artifact_cache_startups` | 1 or 2 processes, 2 builds, 2 crashes | served bytes are registered, recovery |
| `onnx_cache_shared` | 3 processes, 2 failures | metadata vouches, all serve |

The bounds are the smallest at which the hazards occur. Two threads are enough
for every race on one lock, since each critical section is atomic and a race
involves one reader and one writer; a third project is needed to evict one of
two; a cache of one entry evicts on the second key; two builds that differ in one
file and share another distinguish every mixture; a limit of three bytes with
messages of up to two has bodies below, at and above the limit in one, two and
three messages. In `model_delivery` two models make a publication and a startup
that are half way, two files (the manifest sorts first, as in the code) a model
that is half uploaded; a third actor in either deployment adds no new pair that
meets and does not fit the time TLC has. Two faults let the container break off
while it downloads and again while it uploads, and a wait of 8 seconds, with
probes of up to 3 and pauses of 2 as in the code, has the deadline fall into a
probe, into a pause and at the end of either. `artifact_cache_startups` has one model: two
startups disturb each other in the directory of one model at a time, and the
walk over two is in `model_delivery`. Clocks stop at `MaxTime`, which leaves room for a whole TTL
and its lag after an early revoke, or for two windows after an early admission. Deadlock is checked for
`PolicyEngine`, `RequestPipeline`, `ArtifactPublish` and `ModelDelivery`; the
others really stop, at their time bound or when every process serves. Symmetry
is used for threads, projects and keys, in safety runs only.

Four documented statements do not hold. A run of its own shows the first, the
third and the fourth; the second is `RevokedWithinTTL`, which TLC finds violated,
in 17 states, when it takes the place of the invariants in `ApiKeyAuthWorkers.cfg`:

* *A revoke removes the cached key immediately in the worker handling it.* An
  authentication that selected the row before the revoke committed inserts it
  again after the removal. `CleanRevokeIsImmediate` and `StaleAcceptanceBounded`
  say what is true instead.
* *Revocation in another worker can take up to the TTL to take effect*
  (the repository's `README.md:128`, `docs/INTERVIEW_GUIDE.md:22` and
  `docs/DECISIONS.md:90`). It can take longer: the deadline of an entry
  (`keys.py:153`) counts from after the commit of the authentication, whose SELECT
  may precede the revoke. `StaleAcceptanceBounded` is the bound that holds, the
  TTL plus `MaxLag`, and passes where the documented one fails.
  `DocumentedWithoutLag` proves that the documented one holds with commits that
  take no time, so that nothing else prolongs it.
* *The upload refuses to replace an object with different bytes.* It does unless
  another run uploads between its head request and its upload (`NothingReplaced`
  proves that this takes an overlap).
  `RegisteredIsStored` is what remains then, `RegisteredIsPublished` what holds
  as long as overlapping runs carry the same bytes.
* *FastAPI errors use stable structured responses with the request ID.* A path
  no route matches is answered by Starlette itself.

Consequences of the code no run is spent on. When the limiter's map is full, a
project is evicted with its window running and starts afresh. A container that
stops inside `write_text()` leaves a manifest that `compose_setup.py` takes for a
finished download and that the upload refuses, on this and every later start,
until someone deletes it. No document says that a start recovers from this, and
no property here forbids it: `PreparedOrTorn` says that it is the only way an
earlier run can spoil a later one, and `Delivered` promises nothing once the
container has broken off before the models are registered.

## 4. Fairness

`PolicyEngine` has weak fairness of its step: a loop over a finite list whose
calls return or raise. `ArtifactCache` and `OnnxCache` have weak fairness per
process: the scheduler runs it, and `docker-compose.yml` restarts the API when
it exits (`restart: unless-stopped`); crashes and failures are bounded, so that
each system is eventually left in peace. `RecoversAlone` is stated for one
process per volume: two that start together may fail each other's rename again
and again, and nothing in the repository promises otherwise. `ModelDelivery` has
weak fairness of each API process and of the steps of a container that has been
started (`Setup`). It has none of `Up`, since model-init is not restarted and
nothing says when the stack is brought up, none of scripts run by hand, and none
of `MinioReady`: a MinIO that never comes ends the wait at its deadline, which
`Delivered` allows for. Compose holds a new API back until model-init has
succeeded; the model lets it start at any time, as a restarted one does, so that
`Delivered` does not lean on that order. The other modules
state safety only and assume nothing.

## 5. What is proved

For every value of the constants that meets the assumptions of the modules: every
invariant and action property the passing runs check, and both refinements.

* `ApiKeyAuthProofs`: all properties of `ApiKeyAuth`. The invariant adds to the
  types what an entry and a running thread know: that every cached or found
  principal is that of the row, that a cached rejection can only be of a forged,
  expired or revoked key (rows are immutable but for the revocation, and keys are
  cached only once they exist), and that each deadline lies at most TTL and
  MaxLag after a moment at which the row was seen active. `StaleAcceptanceCorrect`
  gives the bound for requests and for the copies in the caches (`CopiesEnd`). `CacheBounded` is
  inductive with `Fits`: every operation on the OrderedDict keeps its order
  without repetitions and equal, as a set, to the entries that are there.
* `RateLimitProofs`: all properties of `RateLimit`. One invariant relates the map
  and its order and each outstanding promise to the window it was computed from;
  `OrderedInv` says that the order is that of the last admissions, which eviction
  relies on. `SlidingBound` alone says nothing of how the recent admissions arose
  and is not inductive: `ThreeWindows` splits them among the window that is open
  and the two before it, each of at most `Limit` and each within its ages, and
  `LagInv` bounds how old a reading can be. `SlidingCorrect` assumes that
  `MaxLag` is at most a window and that the projects are finite: a thread that
  waits for the lock longer than that could open windows from ever older
  readings.
* `PolicyEngineProofs`: types, the metrics, and the refinement of
  `PolicyDecision`. The invariant says that the results are those of the named,
  enabled policies in the prefix the loop has passed, each with the action its
  score earns; the aggregate over that list is then the abstract
  verdict over the set, and an error that of the first ID behind the prefix.
* `RequestPipelineProofs`: all four properties. The invariant says what each
  stage knows of the request it was handed (`StageInv`), that the buffer equals
  what was sent (`BodyInv`), that nothing is counted before the end and exactly
  one answer after it (`ReplyInv`), and that no slot is spent early (`WorkInv`).
* `OnnxCacheProofs`: types, `MetadataVouches`, `SessionOpens`. The invariant says
  that what an exporter is about to move into place is whole (`DraftInv`), and that
  a graph appears whole and never goes away, so that a process which has seen one
  may rely on it at every later step (`GraphInv`).
* `ArtifactPublishProofs`: types, `RegisteredIsStored`, `RegisteredIsPublished`,
  `OutcomesAreTrue`, and `NothingReplaced`, which says when the replacement that
  `artifact_publish_replace` finds is impossible. Of every run the invariant says
  that the objects behind its position exist (`StoreInv`) and, until runs are
  mixed, that they carry its bytes (`PureInv`).
* `ArtifactCacheProofs`: types, `LoadedIsRegistered`, `ServedIsCached`. The
  invariant follows the bytes. A cache directory holds files of the registered
  build, damaged ones or none (`DirectoryInv`); only a verified copy of that build
  is renamed into place (`StagingInv`); behind a directory once verified come only
  removals and verified directories, so that what is read after the check is of the
  registered build or missing (`ReadInv`); memory holds nothing else and is whole
  for the models a process is done with (`MemoryInv`, `LoadedInv`). `CachedInv`
  adds, for a process that is alone, which directories are valid at each step.
* `ModelDeliveryProofs`: first that the deployment is an instance of
  `ArtifactPublish` (`RunsTheUpload`, `DeliveryPublishes`), so that the
  invariant of the uploads carries over, and that the cache's invariant survives
  a registry that is being written. From these follow types, `PreparedOrTorn` and
  `WaitIsFair` (with `SetupInv`: the clock against the deadline, the moment MinIO
  came up, the volume against its manifests) and the refinement of `ModelRelease`.
  `RegisteredCanBeServed` proves `RegisteredIsServable` for one API process per
  volume (`Alone`), as in the run: two that start together do fail each other.
  Its invariant says that this process finds in its directory what it has seen
  there (`SoleInv`) and that, until runs are mixed, what it has downloaded is what
  the bucket still holds (`FreshInv`).

The invariants were first checked by TLC on the instances of the runs. Recursive
functions (the running sums of `RecentAdmits`, `Keep`) are reasoned about by an
induction over sets of numbers, which rests on the library's `WFMin`; its
induction theorems that take an operator cannot be used.

Only model-checked: the liveness properties `Answered`, `RecoversAlone`, `AllServe`
and `Delivered`, which rest on fairness and enabledness and are outside the
prover's reach.

## 6. Not modelled

Scoring (tokenizers, ONNX and PyTorch inference, recognizers) is numeric code;
a score is an arbitrary value. Log lines, response layouts, request IDs, the
demo page, migrations, benchmark and developer scripts, the image and monitoring
have no state that concurrent steps could disturb; `prepare_cloudrun_cache.py`
runs while an image is built, before anything shares its output. The teardown of
the lifespan runs after the server has drained its requests. `ArtifactCache` is
not composed with `OnnxCache`: with the ONNX runtime (`toxicity.py:118`, the default
of `docker-compose.yml`) a startup reads the weights from the cache volume only to
export them, and once a graph is there serves from the graph. The listing of API
keys, of policies, `/live` and `/metrics` only read.

## 7. Plan

The core came first: authentication, rate limiting, policy evaluation, then the
request pipeline and the three storage protocols, then their composition with
the preparation of the models (`ModelDelivery`), then the proofs, module by
module. What remains, the most useful first:

1. An abstract key lease that `ApiKeyAuth` refines: for each worker and key the
   last moment at which it may still be accepted. It would state
   `StaleAcceptanceBounded` and `CleanRevokeIsImmediate` as one specification.
2. A lemma for the startups that share a volume, saying which pairs of steps make
   one fail the other (`RecoversAlone` is stated for one process only).
3. What `NothingReplaced` needs of `mixed` could be weakened to runs that overlap
   on the same object.
