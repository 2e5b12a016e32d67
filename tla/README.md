# FuseKit in TLA+

Specifications, model-checking runs and machine-checked proofs for FuseKit
(`src/fusekit`). Four parts of the program are modelled, those in which several
processes, providers and people act on shared state, and where what goes wrong
needs several steps of several actors:

* the **hosted managed run**: a job that is created in the browser, paid
  through Stripe, dispatched to a worker service, run, proven, and rolled back or
  detonated on request;
* the **gates**: the runner and the control room around `gates.json` and the vault;
* the **cloud launch**: provisioning an OCI workspace, running setup on it, bringing
  its bundle home, replacing the worker in a drill, and detonating;
* the **provider setup**: an apply over GitHub, Vercel and Cloudflare, its
  verification and API fallback, its retries, and the rollback of its receipt.

Paths below are relative to the repository; `hosted/x.py` is
`src/fusekit/hosted/x.py`.

## The system

| Component | State it keeps | Operations | Talks to |
|---|---|---|---|
| Hosted job record (`hosted/job.py`) | status, payment receipt, steps of one job | build, payment receipt, advance (start, stop, rollback, detonate), claim, proof | pure functions used by server and worker |
| Hosted server (`hosted/server.py`), job store (`hosted/job_store.py`), billing (`hosted/billing.py`) | a per-process job cache, one JSON snapshot per job, two artifacts per job | create, read, protected actions, checkout, payment return, webhook, worker claim, worker proof | Stripe, dispatch receiver, workers, browser |
| Dispatch receiver (`hosted/worker_dispatch.py`) | one marker file per origin, job and action | verify envelope, reserve, spawn, answer | called by the server, spawns workers |
| Worker (`hosted/worker_client.py`, `hosted/worker.py`) | the job's workspace | claim, prepare, launch, accept, prove; maintenance | calls the server back |
| Intake (`hosted/launcher.py`, `github_app.py`, `session.py`) | signed state tokens only | GitHub installation, plan page | GitHub; ends in creating a job |
| Operator tools (`hosted/verify.py`, `host_posture.py`, `stripe_*.py`, ...) | none | read-only checks, reports | the deployed system |
| Gates and control room (`runner/gates.py`, `runner/control_room/`) | `gates.json`, wake events | wait, open, capture, resume, pass, fail | runner and a person's browser |
| Vault (`vault/`) | an encrypted bundle, a session file | open, put, save, session create and unlock | every part that needs a secret |
| Runner (`runner/job.py`, `loop.py`, `run_state.py`, `remote.py`, `worker_replacement.py`) | job steps, checkpoints, run state files | run, resume, retrieve, replace the worker | OCI, gates, providers |
| Run record (`runner/run_record.py`) | `run_record.json`, derived from the artifacts | aggregate, contracts | detonation preflight, reports |
| OCI lanes (`runner/oci*.py`, `cloud_shell.py`) | cloud resources | create, run, retrieve, terminate | OCI |
| Detonation (`detonation/`) | receipts | preflight, remove worker and scratch | run record, file system |
| Providers (`providers/`) | nothing here; resources at the provider | setup recipes, verification, rollback calls | GitHub, Vercel, Cloudflare, Resend |
| Rollback (`rollback.py`) | none; reads the receipt | undo the receipt's actions | providers |
| CLI (`cli.py`, `commands/`) | the vault, receipt, reports it writes | launch, apply, setup, rollback, detonate | all of the above |
| Policy, approvals, planner, scanner, manifest, audit | an approvals list, an append-only log | decide, record | CLI and runner |
| Spine, capabilities, harness, LLM | none of their own | browser steps, reports | external services |

What makes each part hard, and what makes it correct:

* **Server.** Reads a snapshot, calls out, writes the whole snapshot back with no
  version check; the cache is written before the store; the dispatch happens
  before the new status is durable; two lists of statuses (payment gate and
  action guard) must agree. Correct: no work before payment, no completion
  without evidence, artifacts that stay true.
* **Receiver.** Create, write, spawn and answer are separate steps, each may be
  the last one. Correct: at most one worker per job and action, for the paid
  binding that was reserved, and receipts that tell the truth.
* **Whole hosted run.** Answers are lost, workers die or start late, requests
  overtake each other. Correct: a worker works only on a paid and started job, a
  started job hears from its worker, a maintenance request is honoured.
* **Gates.** Two processes load, change and save one file with no lock, and the
  vault likewise. Correct: nothing is called captured or passed that is not, one
  wake per round, a captured token is picked up, an approval is heard.
* **Launch.** Ten resources are created and deleted one by one; calls are refused,
  lose their answer, or take for ever; the drill destroys the worker that holds the
  run. Correct: receipts are true, what cannot be restored is not destroyed, nothing
  is left running, evidence of a failure survives a retry.
* **Setup.** The same recipes run again after a pause, in a fallback and in a
  retry, over resources that may already be there, while the user captures tokens.
  Correct: what was created is recorded, the user's own resources survive, rollback
  undoes what it says, downstream providers wait.

## Modules

| Module | Models | Correspondence |
|---|---|---|
| `HostedJob` | `hosted/job.py` | one operator per function on the frozen dataclass, its `ValueError` guard as `Can...` |
| `HostedServer` | `hosted/server.py`, `hosted/job_store.py`, payments | one action per handler up to its first effect (`Receive`), then the rest of the same handler step by step (`Continue`) |
| `HostedDeployment` | the server as deployed: over a store, or with jobs in signed tokens | chooses the deployment; without a store each handler of `HostedServer` again, on the job a token brings back |
| `JobLifecycle` | what the server promises of a job | abstract specification: status graph and payment, one operation at a time |
| `WorkerDispatch` | `hosted/worker_dispatch.py` | one action per system call that can be the last one |
| `SpawnOnce` | what the receivers together promise | abstract specification: a key is reserved once and its worker spawned at most once |
| `HostedRun` | server + receiver + workers | conjoins actions of `HostedServer` and of an `INSTANCE` of `WorkerDispatch`, adds the worker client |
| `GateService` | `runner/gates.py` | one operator per method on the gate records |
| `ControlRoom` | runner and control room around `gates.json` and the vault | every load and every save is a step; a handler thread per click |
| `DurableFile` | what a save promises | abstract specification: a save replaces the file whole or not at all |
| `AtomicWrite` | `_atomic_write_private` in `vault/bundle.py`, `vault/session.py` and `runner/gates.py` | one action per system call; refines `DurableFile` until two saves through one temporary name overlap |
| `OciWorkspace` | `OciProvisioner` in `runner/oci_live.py` | one action per provider call of provision and detonate |
| `RunRecord` | `runner/run_record.py`, `detonation/preflight.py`, `runner/worker_replacement.py` | the record as a function of the survivor files, and the checks on it |
| `ArtifactBundle` | the retrieval in `runner/remote.py` | one action per rename of the swap |
| `CloudLaunch` | the OCI launch and `runner detonate` in `cli.py` | composes the three above into one process that may die at any step |
| `Providers` | the clients in `providers/` | one operator per call: what it leaves at the provider |
| `ProviderSetup` | `providers/automation.py` and `_apply_loaded_manifest` in `cli.py` | one action per recipe, per verified provider, per file written |
| `Rollback` | `rollback.py` | one action per native rollback call; composes with `ProviderSetup` |
| `MCHostedServer`, `MCDispatch`, `MCHostedRun`, `MCControlRoom`, `MCLaunch`, `MCSetup` | instances | constants, settings, symmetry, views |
| `HostedServerProofs`, `WorkerDispatchProofs` | theorems about server and receiver | TLAPS |
| `HostedRunProofs`, `HostedDeploymentProofs` | theorems about the hosted run and the deployments | TLAPS; both build on `HostedServerProofs`, as their modules build on `HostedServer` |
| `ControlRoomProofs`, `AtomicWriteProofs` | theorems about gates and vault | TLAPS |
| `CloudLaunchProofs` | theorems about the launch | TLAPS |
| `SetupProofs` | theorems about the setup and its rollback | TLAPS |

**A server request.** WSGI handles one request per process at a time. `req[p]`
holds the operation, the job, the new snapshot and the phase: `dispatch` (waiting
for the receiver), `remember` (before `_remember_hosted_job`), `artifact` (before
the managed-start or webhook artifact). A request that only reads, or that a guard
rejects, is one step, `_hosted_job_response`, since all it may change is the cache.
`LongLived` chooses between the two ways the server is deployed: `application`
rebuilds its settings, cache included, on every request (gunicorn), while `main`
and `hosted_application` keep one settings object (a systemd service).
A failed `put` leaves the cache ahead of the store, as in the code; one that raises after
the file was replaced (the `chmod` that follows) stores the snapshot and is answered like a
failed one (`Remember` with `answered` false). A put is one step because the store writes a
temporary file and renames it. The model is of a server with a dispatch URL; one without
(`server.py:3601-3614`) answers `dispatched: False`, remembers the job all the same and
writes no artifact, and has no receiver and no workers to say anything about.

**Deployments and tokens.** `deployment` fixes which processes run and whether they
share a store. With one, a token is given out only for a job that was put, so every
request finds its job in the store and the token adds nothing. Without one
(`FUSEKIT_HOSTED_JOB_STORE_DIR` empty) the job is what the token says, unless the memory
of the process still has it (`Found`, `_hosted_job_api_response`). `tokens` is
the set of valid tokens somebody holds: nearly every answer adds one, presenting one
does not use it up, and it goes only when it is a day old or lost (`Expire`). A job
token opens the routes of the job, a payment token, made before the checkout with the
job as it then was, only the return from Stripe. The envelope to the receiver carries
a job token too, also when the answer to the customer never comes. Stripe's webhook
brings no token: it can change only a job its process remembers.

**Data kept and left out of the hosted run.** A job is its lane, status, payment
status and step statuses. A payment receipt is the payment status it implies: the
code accepts no other combination (`hosted_job_payment_status`). A worker proof is
the set of evidence keys it reports true, whether all required artifacts are listed
and whether the BYO bundle is complete. Texts, hashes, signatures,
control tokens and HTML are left out. A request with a bad token or signature is a rejected request.

**Receiver and workers.** A marker is absent, created but not written (`Partial`),
or the binding it carries. `WriteFails` covers an `OSError` before, during and after
the write. A binding is the tuple of public labels a control plane signs; in
`HostedRun` it is the payment status, the only label of it that changes. There is
one worker per job and action, because `OneSpawn` is an invariant of the receiver,
proved for any number of them. A worker is unborn, spawned, inside an HTTP call
(`calling`, `posting`), running its commands, about to report, or gone. Any HTTP
answer but success ends it, as in `worker_client.py`. What a launch leaves in the
workspace is a choice from `Outcomes`; a maintenance command succeeds or fails. Two
history variables observe the server and steer nothing: `owed` is the evidence that
the latest maintenance request has not been shown yet, `asked` the actions whose
request was remembered.

**The control room.** `file` is `gates.json`, `vault` the vault on disk; the runner
and each handler hold the copy they loaded. Approval gates are satisfied by their own
status, or by a user who answers at the terminal; token gates by the vault on disk, the
environment, or a hidden prompt; pack gates by the copy of the vault an apply opened when
it began and saves when it ends. The runner holds a whole copy of the vault three times,
and saves it back each time: from its start over bootstrap and the capture of the LLM key
(`LaunchOpen`, `LaunchSave`, `cli.py:1323-1331`), again after every restart; to store a
token (`TokenOpen`, `_authorize_provider`, `cli.py:1280-1290`); and during an apply. A gate
whose token was typed passes before the token is checked and stored, as in the code: a
short token ends the launch with the gate passed (`ShortToken`), and the next launch asks
again because it goes by the vault, not by the status. The control room, though, refuses
captures for a gate that passed. A launch asks for no token the environment or the vault
has (`_has_provider_token`); the branch of `_await_provider_token` that reads the
environment once more is reached only from `fusekit authorize`. A scenario fixes which
gates the launch needs, how many handlers act, whose loads and saves may overlap with
whose (the runner's with a handler's, of `gates.json` or of the vault; the handlers' with
each other), who may die, what the environment holds and whether somebody sits at the
terminal. The gate for the LLM key (`_capture_llm`), the `input()` of the DNS approval
inside an apply and the status `failed` (nothing calls `fail_gate`) are left out.

**Saving a private file.** The temporary file's name has the process id in it in
`vault/bundle.py` and `vault/session.py`, and is fixed in `runner/gates.py`. So the threads
of the control room share a name when they save the vault, and everybody shares one when
they save the gates. `TempOf` maps a writer to its name and says nothing about who shares
one; `clashed` records that two saves through one name overlapped. From there on a mixed
file can be published, and `ImplementsDurableFile` and `Readable` claim nothing.

**The launch.** `cloud` is what exists at OCI, `ids` what the program knows of: an
answer may be lost after the provider did the work. `deleted` and `failed` are the two
kinds of keys in the dictionary `detonate` returns. The run record is not a variable
but a function of the files it is built from (`build_run_record`). `setting` fixes, for
a behaviour, which troubles may happen, the options of the launch, and whether the
preflights judge, or find everything in order as the stand-in of the command's tests
does; without that choice `SafeLaunchSucceeds` being violated would hide what lies
behind the preflights. The network security group is made by two calls (`_create_nsg`), and
its id is known to the program only after both: a refusal of the second leaves a group the
program does not know (`Unnoted`). A remote command that times out raises what no handler of
the launch catches (`subprocess.TimeoutExpired`; `cli.py:2307` and `2467` name
`FuseKitError`): `RemoteTimesOut` and `DetonationTimesOut` end the command as a crash does.

**The setup.** `cloud` is what the providers have: for each resource, whether it is
the user's or FuseKit's. A provider call succeeds, is refused, is refused although
it was carried out (`half`), or ends the process (`dies`: a timeout while waiting
for the answer is an `OSError` that is neither `URLError` nor `FuseKitError`, so no
handler writes the artifacts). A Vercel variable is replaced by creating the new one and
deleting the old (`put_env`, `vercel.py:77-88`), so a call that raises between leaves two of
the same name (`"both"`), and the recipe records nothing (`ReplacementStops`); a rollback
that deletes by name may likewise delete one and be refused the other (`DeletesOne`). The
DNS recipe reads back what it applied and fails when that read is refused
(`ReadBackRefused`). `ap` is the apply's memory: its copy of the vault,
its receipt, the gate it paused at. The receipt is redacted as in `audit.py`, which
also removes the name of a GitHub secret. The vault on disk is overwritten by the
apply's copy, and by a capture's. `history` steers nothing: it records what the
properties make an exception for.

## Runs

| Run | Instance | Shows |
|---|---|---|
| `server` | over a store: one process, one long-lived process, two processes; without a store: a process that forgets and one that remembers; 1 job, put failures and crashes | `MoneyBeforeWork`, `EnvelopesPaid`, `CompleteMeansProven`, `TokensTrue`, `MaintenanceFollowsStart` in all deployments; `OneProcessArtifact`: `ArtifactMeansStarted` with one process |
| `dispatch_faults` | 3 receivers, 1 key, 2 paid bindings and an unpaid one, every fault, or none | `OneSpawn`, `BoundToReservation`; `ImplementsSpawnOnce` (the receivers refine `SpawnOnce`, which implies `ReceiptMeansSpawned`); without a fault `AcceptedGetsWorker` |
| `run_faults` | 1 process, 1 receiver, 3 workers, every fault, or none | `WorkersPaid`, `WorkMeansStarted`, `WorkRequested`; `ImplementsLifecycle` (the stored job refines `JobLifecycle`); without a fault `StartedGetsProof` |
| `run_request` | no fault | **violated**: `RequestHonoured` |
| `run_rollback` | no fault, fair | **violated**: `RollbackAnswered` |
| `room_gates` | 7 scenarios of approval, token and pack gates; the vault file with 3 writers, two of which share a temporary name | `CapturedInVault`, `ResumeComplete`, `PassedEarned`, `PassedStays`, `OneWakePerRound`, `TokenPickedUp`; `ImplementsDurableFile` |
| `room_approval` | one approval gate, one handler | **violated**: `ApprovalHeard` |
| `launch` | 3 workspaces, 15 settings of troubles and options, 2 troubles | `ReceiptMeansGone`, `RefusedLeavesNothing`, `RestorableBeforeDestroyed`, `GreenMeansDetonated`, `NothingLeftBehind`, `BundleKept`, `FailedStaysFailed`, `LaunchEnds` |
| `launch_safe` | one launch whose checks are safe, no trouble | **violated**: `SafeLaunchSucceeds` |
| `setup` | 6 apps, 2 sets of tokens, 2 troubles, any number of applies, 1 rollback | `KeyBacked`, `RecordedOnce`, `TheirsKept`, `RollbackUndoes`, `DownstreamWaits` |
| `setup_rollback` | a new Vercel project and DNS, no trouble | **violated**: `DnsRestored` |
| `setup_retry` | a deploy key and DNS, one refused call, fair | **violated**: `SetupConverges` |

**Bounds of the hosted run.** Handlers touch one job each and share nothing between
jobs but the process that runs them, so one job shows every interaction; a process
busy with another job is one that takes no step. Two processes are enough for one
write to overtake another; three receivers let one create a marker, one find it
partial and one find it written. `MaxSpawns = 2` makes a second spawn possible, and
the theorem `AtMostOneWorker` holds for every bound. `MCPayloads` has one payload per
shape a worker reports (waiting at gates, no recording, full, files missing, BYO
bundle incomplete, the maintenance proofs); the deployments other than the single
process use two of them, enough to reach and leave every status. `deployment` is
fixed in the initial state, so that one run covers the five. `MaxTokens = 2` lets an old
token meet a new one, or a payment token a job token; tokens expire at any time, so
every pair of pasts is reached, and `TokensStayTrue` holds for every bound. `ProcSymmetry` is
sound because the two gunicorn processes are interchangeable and no liveness is
checked there. `RunView` identifies states of `HostedRun` that differ only in
variables no guard and no property of these runs reads (job steps, artifacts,
envelopes and receipts already sent).

**Bounds of the gates.** One handler is enough for the races with the runner; two for
the steps of two clicks between each other's. The scenario with two handlers has serial
loads and saves. The seven scenarios: overlapping saves of `gates.json`; a launch that
is restarted, with its save of the vault at the start; an apply with two handlers and
deaths; an authorization followed by an apply, once with the token in the environment; a
user who approves, and one who types a token, at the terminal. Two copies of the vault
that overlap lose what was put in between although the gate says captured, be it two
captures, or a capture and any of the runner's three copies. That is what the code does
(hazards in `PROJECT.json`), and `VaultShared` excludes it from what `CapturedInVault`,
`ResumeComplete`, `PassedEarned` and `TokenPickedUp` promise; with both
`"runner"` and `"vault"`, or with `"handlers"`, among a scenario's overlaps the first two
fail without it. `TokenPickedUp`
also excludes a prompt, at which the runner may wait for ever, and a runner that may
die. `MaxDeaths = 1`: a second death adds a restart from files, which the first has
shown. Three writers, two names and the inodes of `RoomGates.cfg` let two saves share a
name while a third has its own, and a temporary file, the file and the previous file
exist together.

**Bounds of the launch.** Three workspaces: the original, the drill's replacement,
and one for a retried launch. `MaxTroubles = 2` allows a failure in the handling of
another; each setting names the kinds that may meet, since all kinds at once only add
pairs whose parts do not interact.

**Bounds of the setup.** The six apps cover each provider, with and without runtime
values, with resources of the user's and without, with and without a control room.
One deploy key, one secret, one variable and one record stand for lists, since the
loops over them have no state. Applies are unbounded (`applies` saturates at 2);
`MaxTroubles = 2` is one failure in the handling of another. One rollback: a second
one finds the same receipt.

**Deadlock checking** is off where the system may stop: a system whose jobs, gates or
commands are finished.

**Fairness.** In the hosted run, `FairSpec` and `Fairness` assume that a handler
that took a request goes on, that the call to the receiver is made, and that worker
commands end (a launch waits for people at provider gates, who are assumed to
appear). Strong fairness on `WorkerCalls` says that a worker's connection in the
listen queue is accepted eventually although others arrive meanwhile. Nothing is
assumed of browsers, of Stripe, or of faults; the liveness properties are about
behaviours without faults, because a worker that dies is replaced by nobody.
`SuiteSpec` assumes that the runner and a handler that began go on; a person clicks
or not. `FairLaunch` assumes that the running process goes on (`CliStep`, the calls of
`Cloud`, the renames of `Swap`) and that the provider works on while it waits
(`Release`); `LaunchEnds` needs no more, because every retry loop of the code is
bounded. `MCFairSpec` of `MCSetup` assumes that the command goes on and that a user who
is not done finishes gates and runs FuseKit again: with less, a setup that nobody
repeats would refute `SetupConverges`.

**Why one process for some properties.** With two server processes the store has lost
updates: a late write of one request undoes another's, and `ImplementsLifecycle`,
`ArtifactMeansStarted` and `WorkMeansStarted` fail. The repository starts one
(`Procfile`, gunicorn's default) and promises nothing for more, so the hazard
is recorded in `PROJECT.json` and the three properties are claimed for one
process. The payment and completion properties need no such restriction.
Likewise `ImplementsLifecycle`, `WorkRequested` and `WorkMeansStarted` are claimed for a
store that is the truth: with a surviving cache and failing puts, one later put carries
two operations at once (see `FaithfulCaches` below).

**Exceptions the setup properties name.** `RecordedOnce` and `RollbackUndoes` are
claimed for the first apply (`applies = 1`): a second one writes a new receipt, in
which the project counts as found, the deploy key has no id and FuseKit's own record is
the one to restore. They exclude applies that ended without artifacts and calls whose
refusal was not true (`tainted`). `KeyBacked` excludes a capture that was open while an
apply saved the vault (`overlapped`): it puts the older vault back. `DownstreamWaits`
excludes a gate that an earlier apply left waiting, because `_pending_provider_gate`
finds that one first. `RollbackUndoes` also asks that the apply proposed its DNS record
once (`ProposedOnce`): proposed twice, the second entry's previous record is the first
one's, and an undo in the order of the receipt restores FuseKit's own record. Each
exception is what the code does, and is a hazard in `PROJECT.json` where no document
promises otherwise.

`RecordedOnce` says of the Vercel variable only that one which is FuseKit's alone is
recorded: after a replacement that stopped between its two calls there are two, the receipt
names none, and no rollback takes FuseKit's away. `RollbackUndoes` leaves that variable out
as well, and says nothing of the value a replaced variable of the user had, which nothing
keeps. With a GitHub secret in the receipt no rollback returns at all, because `redact`
takes the secret's name away (`audit.py:32`), so there `RollbackUndoes` claims nothing.

**Exceptions the launch names.** `RefusedLeavesNothing` and `NothingLeftBehind` except the
security group whose second call was refused, with the network it keeps in use (`Unnoted`),
and `NothingLeftBehind` a launch that a timeout of a remote command ended. Both are what the
code does, and hazards in `PROJECT.json`. `FailedStaysFailed` allows one way back: `runner
detonate` marks the job on file (`cli.py:1913-1917`), so a manual detonation that fails
and is then repeated with success clears a failure that was the detonation's own. Such a
job is `waiting` again and a later launch with the same files may take it up
(`_launch_job_can_resume`). The proof showed this: the step that saves a manual
detonation's job does not keep the property. `MCLaunch` has a setting in which it happens.

## Disagreements found

* `RequestHonoured`: `apply_hosted_worker_proof` derives the evidence a
  maintenance request needs from the status it then overwrites with
  `proof_submitted`. A later proof of the start worker, which may still claim,
  completes the job without the rollback evidence README.md:297-300 requires.
* `RollbackAnswered`: the dispatch marker of a job and action is never released. If
  the first rollback worker found the job moved on, or could not complete its proof,
  a second rollback request gets an accepted duplicate receipt, no worker, and the
  job stays `rollback_requested` for ever.
* `ApprovalHeard`: the runner checks an approval gate and then records it as waiting
  (`cli.py:3376`), which turns an approval recorded in between into a resurfaced gate.
  The user has to approve again.
* `SafeLaunchSucceeds`: the detonation preflight asks the run record for
  `detonation_safe`, for `workspace_detonation.json` and for a drill proof without extra
  fields; the first is set only by a preflight that passed, the second is written by
  the detonation it guards, and the drill writes the extra fields. A safe launch
  fails.
* `DnsRestored`: rollback follows the order of the receipt. A project FuseKit created
  is deleted first, its variables are asked for next, that call fails, and DNS is never
  restored.
* `SetupConverges`: the deploy key's private half is saved before GitHub has the public
  half, and its presence in the vault is taken for both. After one refused call no
  apply succeeds again.

## Proofs

`HostedServerProofs` proves of the server over its store, for every set of jobs, processes
and payloads, both cache lifetimes and every set of faults:

* `TypeCorrect`: `Spec => []TypeOK`.
* `PaidBeforeStarted`, `PaidBeforeDispatched`, `ProvenWhenComplete`:
  `MoneyBeforeWork`, `EnvelopesPaid`, `CompleteMeansProven`.

`MoneyBeforeWork` is not inductive: it constrains snapshots that are already
started, while the step that starts one looks only at its payment status. The
invariant `IInv` says of every snapshot, wherever it is held (store, cache, request),
that it is `Sound`: "paid" in the snapshot means paid at Stripe, started and managed
means paid at Stripe, complete means proven. Each operation of `HostedJob` maps a
sound job to a sound job under its guard (`PaymentIsSound`, `AdvanceIsSound`, ...);
`AdvanceIsFunded` is where the gate's list and the action guard's list are
compared. `AcceptIsSound` and `SoundContinue` then move snapshots between request,
cache and store, and because Stripe never takes a payment back
(`StripeMonotone`), stale copies stay sound: that is why no lost update can break it.

`HostedDeploymentProofs` proves the same of every deployment, any number of them and
any bound on the tokens, and what only a deployment without a store puts in question:

* `DeployedTypeCorrect`, `DeployedPaidBeforeStarted`, `DeployedPaidBeforeDispatched`,
  `DeployedProvenWhenComplete`.
* `TokensStayTrue` (`TokensTrue`). A token is a copy nobody can take back, so the
  invariant must speak only of facts that are never taken back either: `TokensSound`
  says of a token's snapshot that it is `Sound`, like those of store, cache and request.
  A request that presents a token starts from a sound job, and the lemmas about the
  operations of `HostedJob` carry it into the request, the memory and the next token.
* `StartedBeforeMaintenance` (`MaintenanceFollowsStart`). The envelopes alone do not
  carry it: `StartsRecorded` says of every managed copy, tokens included, that it is
  past its start only if a start was dispatched. A dispatch is never forgotten, so the
  copies that fall back behind the start do not matter, and those that do not fall back
  keep their evidence.
* `ArtifactTrueAlone` (`OneProcessArtifact`). The proof of `ArtifactTrue` needs of its
  hypothesis only that nobody else is between reading and writing (`Alone`); a deployment
  keeps the processes it does not run idle with empty memories (`OthersQuiet`), and one
  without a store writes no artifact.

The proof is split as the steps are: steps over a store reuse the lemmas of
`HostedServerProofs`, which are about one action and not about `Next`; steps without one
leave the store empty.

`WorkerDispatchProofs` proves, for any number of receivers, keys and bindings:
`DispatchTypeCorrect`, `AtMostOneWorker`, `BoundReservation`, `ReceiptVouches` and
`SpawnOnceKept`. The inductive
invariant says who *holds* a reservation (the receiver that created the marker, until
it answers): at most one receiver per key, no worker while it is between marker
and spawn, and the marker carries its binding once written. It needs
`MarkerAssumption`, that an unwritten marker is not mistaken for a binding.
`SpawnOnceKept` is the refinement `ImplementsSpawnOnce`: the abstract reservation is the
written marker, so the write is its step, the `Popen` the abstract spawn, an accepted answer the
moment a receipt vouches, and every other step a stutter, the creation of the file included. A
marker whose creator died before the write reserves nothing, and nobody else ever will.

`AtomicWriteProofs` proves, for any number of writers, names, contents and inodes, and
whoever shares a name with whom, `WriteTypeCorrect`, `SaveRefines`
(`ImplementsDurableFile`: the rename is the one step that maps to a commit, every other step
to a stutter or an abort, up to the step in which two saves through one name overlap) and
`SaveReadable` (until then a reader of the path finds one whole save). The inductive
invariant, `UnlessClashed`, is that as long as no saves clashed each name has an inode of
its own, distinct from the target's, that a writer's descriptor is its name's inode, empty
until it is written and whole afterwards, and that the target is whole. It assumes nothing
about names.

`SetupProofs` proves, for every set of apps, tokens captured before, kinds of trouble and
bounds on troubles and rollbacks:

* `TypeCorrect`: `Spec => []TypeOKRollback`.
* `KeysBacked`: `KeyBacked`. The invariant `KeyHeld` says of everyone who may write the
  vault next (the apply's copy, the capture's copy) that it has the private half of a
  key that either receipt, the one on disk or the one in memory, names; where a capture
  was open during a save the promise ends, and with it the claim.
* `TheirsSurvive`: `TheirsKept`. The invariant `Respected` says that every recorded
  action, in the receipts and in what is left of a running rollback, can be undone
  without touching what is the user's: a project that was there is never recorded as
  created, and a proposal found the user's record, with the user's content or after
  the approval. Stale receipts stay harmless, because what they say of the user's
  resources never becomes false.
* `DownstreamSpared`: `DownstreamWaits`, an action property. `GatePlace` says that an apply
  which found no gate waiting takes its own gate for the active one, if any, and that a
  fallback is never at a provider after the active one (`Deferred` has passed those by);
  `OnlyHere` says that a recipe changes nothing but the part of its own provider.

The step lemmas reduce to one: `ApplyStep` says what every step of an apply does but the
two that write its artifacts, and `CallWorks` shows it of a provider call whatever becomes
of it, so that a recipe's lemma only says what the call leaves and what is recorded.
`Proposed` is needed for types: a `PUT` of a record that is not there would have none.
The proofs assume what `AppsAssumption`, `TokensAssumption` and `BoundsAssumption` of
`Rollback` say of the constants, and `NoRecordAssumption` of `Providers`.

Its second half is about what the receipt says: `ReceiptNamesAll`
(`RecordedOnce`) and `RollbackRestores` (`RollbackUndoes`). The invariant `TracedInv`
speaks of the first apply and a provider that tells the truth: what FuseKit has at the
providers is `Traced` in what is recorded so far, in the apply's memory while it runs and
on disk after; while a rollback runs, whatever is left at the providers is still among the
entries to undo (`Left`), and when it is done nothing is. The DNS half needs
`ProposedOnce`. What keeps a variable beside the user's
(`"both"`) out of the way is `Whole`: the `put_env` that left the two raised, so the first
apply is on its way to its artifacts or over, and no recipe of it ever starts from two
variables and makes of them one that is FuseKit's and unrecorded. In the rollback,
`OneDeleted` shows that a deletion which stops half way also ends the rollback, which then
claims nothing.

`HostedServerProofs` also proves what one server process over a store promises:

* `ArtifactTrue`: under `OneProcess`, `ArtifactMeansStarted`, whatever caches and faults.
* `LifecycleKept`: under `OneProcess` and `FaithfulCaches`, `Spec => ImplementsLifecycle`:
  the stored jobs and what was charged refine `JobLifecycle`. The relation `Edge` says
  what an operation makes of the job it looked up; `LifecycleInv` says that a request not
  yet remembered is an edge from the job that is still in the store
  (`OperationsPending`), that a managed job knows what Stripe charged
  (`ManagedCharged`), and that a cached snapshot is the stored one (`CacheFresh`). Each
  put is then one step of the abstract specification, every other step a stutter.

`FaithfulCaches` is `LongLived = {} \/ "store" \notin Faults`. It is needed, not
convenient: a cache that outlives its request takes the new snapshot before the put
(`_remember_hosted_job`), a failing put leaves it there, and the next operation builds on
a job that was never durable. With one long-lived process and failing puts TLC finds
`WorkRequested`, `WorkMeansStarted` and `ImplementsLifecycle` violated.

`HostedRunProofs` is about the composition, for any number of processes, receivers, jobs
and workers:

* `RunTypeCorrect` (`TypeOKRun`) and `NoUnpaidWorker` (`WorkersPaid`), without any
  hypothesis. `RunInv` is the server's `IInv`, the receivers' invariant taken from an
  `INSTANCE` of `WorkerDispatchProofs`, and the two facts that tie them: an envelope
  that reaches a receiver was sent by the server, so it is paid, and only what a worker
  can do is sent. The theorems of the parts are used, not proved again.
* `WorkIsRequested` (`WorkRequested`), under `FaithfulCaches`, for any number of
  processes: every snapshot a process can look up `Asks` only for actions some request
  asked for, so a worker that reads one and goes to work was asked for.
* `WorkIsStarted` (`WorkMeansStarted`), under `OneProcess` and `FaithfulCaches`: a start in
  the store stays there, because what is about to be stored was derived from it.
* `SpawnOnceKeptInRun`: the receivers still implement `SpawnOnce` when the server, its
  timeouts and the workers drive them.
* `LifecycleKeptInRun` (`ImplementsLifecycle`), under the same: no step of a receiver or
  of a worker moves a durable job but through a request of the server.

`ControlRoomProofs` proves, for any gates, targets, handlers, scenarios and number of
deaths: `RoomTyped`, `CapturedReachedVault`, `ResumeHasAll`, `PassedIsEarned`, `WokenOnce`,
`PassedForGood` (`TypeOK`, `CapturedInVault`, `ResumeComplete`, `PassedEarned`,
`OneWakePerRound`, `PassedStays`). A property of the file is not inductive, since any save
may put an older copy back. `RoomInv` therefore says of every copy in flight what it says
of the file: it is `Honest`, what it calls captured is in the vault, what it calls
resumed or passed was earned. These are facts that vault and user never take back, so
stale copies stay honest; the vault itself must not be put back, hence `VaultShared`: each of
the runner's three copies (`Holding`) is then still the vault on disk, or more, when it is
saved. A token typed at the prompt is in nobody's vault when its gate passes, so what a
status may promise is that the user typed it (`typed`), and what a launch promises of the
gates behind it (`done`) is the vault's or the environment's. `Exclusion` says who
may be between a load and a save at once; in a serial scenario it makes every copy about
to be saved the present file (`CopiesFresh`), which is what `WokenOnce` and
`PassedForGood` need.

`CloudLaunchProofs` proves every safety property of the `launch` run, for any number of
workspaces (numbered from 1), any settings and any number of troubles:

* `LaunchTypeCorrect`, `ReceiptIsTrue`, `DrillIsRestorable`, `GreenIsGone` from `LaunchInv`:
  the call in progress is the running process's own; the newest workspace is the last
  one asked for, so an old receipt is about a workspace nothing creates in any more and
  stays true; what a running detonation reports deleted is gone, and the dependencies
  (a subnet cannot be deleted under an instance, nor a network under a subnet) carry
  that to resources the program lost sight of; the files in a bundle are whole sets; the
  job on file is the process's own.
* `FailedForGood` (an action property) from the same invariant.
* `BundleSurvives` from `Kept`: without an interruption there is a bundle in its place or,
  while its place is empty, in the backup; after one there is one to come back to.
* `RefusalUndoes` from `RefusedInv`: without lost answers and slow or failing deletions, the
  program knows all it made but an unnoted security group (`Undoable`), an undo deletes each resource after what depends
  on it (`Unwound`), and a workspace not asked for yet is untouched.
* `LaunchCleansUp` from `QuietInv`: while nothing but refusals and a failing setup happened, a
  workspace between creation and detonation is intact (`Standing`), a detonation step by
  step finds and reports each resource (`Falling`), so its report is complete and the
  workspace empty (`Fallen`); every way a launch ends goes through one.

Each of these invariants was checked by TLC before it was proved: `LaunchInv`, `Kept`,
`RefusedInv` and `QuietInv` with three workspaces, all kinds of trouble at once and from
two up to four of them, more than the `launch` run mixes. What the proofs taught about
the program is named above: the manual detonation's way back, the overlapping captures
and the long-lived cache with a failing store.

The proofs assume nothing but the modules' named assumptions on their constants and, where
said, `OneProcess` and `FaithfulCaches`. `NoJobAssumption` (no job and no status is the
value for an absent job) and `WorkspacesAssumption` (finitely many workspaces, numbered
without a gap) were stated for them.

**Only model-checked.** The liveness properties (`AcceptedGetsWorker`, `StartedGetsProof`,
`TokenPickedUp`, `LaunchEnds`), which with fairness and `ENABLED` are out of the prover's
reach; and the properties that are violated. Every invariant, every action property and
every refinement a passing run checks is also proved.

## Not modelled

* The receiver without a state directory (an in-process set); production readiness
  refuses it. Workers and receivers are composed only with a server over a store.
* Intake, operator tools, reports and the acceptance harness, the rendering of the
  control room, browser automation and the LLM helpers: sequential, stateless, or
  pure input and output. The run record's other sections and the preflight's checks of
  shapes aggregate artifacts and decide nothing about the order of steps.
* Vault sessions and cryptography, policy and approvals (pure decisions on a manifest).
* Resend, the inferred repair of provider pages, `--allow-incomplete` in the setup, and
  the Cloud Shell lane.

`PROJECT.json` gives the reason for each component.

## Known behaviours outside the properties

Two facts met while modelling decide nothing about the order of steps and are recorded here:
nothing in the repository produces the key `rollback.post_verification` that
`hosted/worker.py:350` looks for, and `audit.py:32` redacts the name of a GitHub secret, so
that a receipt with one cannot be rolled back.

## Plan

1. Checkpoints and the loop of the remote worker.
2. Resend in the setup, whose records feed Cloudflare and whose key feeds Vercel.
3. `VaultSession` (expiry, saves under a session) and `Policy` (approvals before apply).
4. The gate of the LLM key and the DNS approval inside an apply.
