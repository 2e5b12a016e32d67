----------------------------- MODULE CloudLaunch -----------------------------
(***************************************************************************)
(* A launch on the OCI runner (_cmd_cloud_runner_launch in cli.py) and the *)
(* manual `runner detonate`: provision a workspace, run setup on it,       *)
(* retrieve its bundle, exercise the replacement of the worker, pass the   *)
(* preflight, and detonate.                                                *)
(*                                                                         *)
(* One process runs at a time; it may die at any step, and the next one    *)
(* starts from the files.  cli is the process, files what it left on disk  *)
(* besides the bundle.  The cloud goes on while the process waits.         *)
(***************************************************************************)
EXTENDS ArtifactBundle

CONSTANT Settings  \* what a behaviour may be: see Setting

(* The troubles it may have, the options of its launches, what the setup   *)
(* verifies, and whether the preflights judge or, as the stand-in of the   *)
(* command's tests does, find everything in order.                         *)
Setting == [allowed: SUBSET TroubleKinds, noDetonate: BOOLEAN, allowIncomplete: BOOLEAN,
            verification: Verifications, trusted: BOOLEAN]

ASSUME SettingsAssumption == Settings \subseteq Setting

VARIABLES
  setting,   \* fixed for the behaviour
  cli,       \* the running process
  files,     \* the vault, job.json, oci_workspace.json, run_state.json, the receipt
  launched   \* workspaces ever asked for

launchVars == <<setting, cli, files, launched, ociVars, bundleVars>>

StepNames == {"setup", "verify", "replace", "detonate"}

JobState == [id: Workspaces \cup {0},
             steps: [StepNames -> {"absent", "pending", "running", "done", "skipped", "failed"}]]

create(n) == [id |-> n, steps |-> [s \in StepNames |-> IF s = "replace" THEN "absent"
                                                       ELSE "pending"]]

NoJob == create(0)

FailedSteps(j) == {s \in StepNames : j.steps[s] = "failed"}

HasFailed(j) == FailedSteps(j) # {}

IsActive(j) ==
  ~HasFailed(j) /\ \E s \in StepNames : j.steps[s] \notin {"done", "skipped", "absent"}

mark(j, s, status) == [j EXCEPT !.steps[s] = status]

Reasons == {"none", "setup_failed", "verify_failed", "success", "drill", "drill_failed", "manual"}

Stopped == [phase |-> "down", why |-> "none", ws |-> 0, replacement |-> 0, mine |-> {},
            job |-> NoJob, vault |-> {}, outcome |-> "none"]

TypeOKLaunch ==
  /\ TypeOKOci /\ TypeOKBundle
  /\ setting \in Settings /\ allowed = setting.allowed
  /\ cli \in [phase: {"down", "provision", "save_vault", "record", "remote", "extract", "retrieved",
                      "drill", "drill_save", "ssh", "cloud", "reported", "restore", "resumed",
                      "preflight", "attach", "save"},
              why: Reasons, ws: Workspaces \cup {0}, replacement: Workspaces \cup {0},
              mine: SUBSET Workspaces, job: JobState, vault: SUBSET Workspaces,
              outcome: {"none", "green", "retained", "failed", "crashed"}]
  /\ files \in [vault: SUBSET Workspaces, ws: Workspaces \cup {0}, job: JobState, safe: BOOLEAN,
                detonated: BOOLEAN, receipt: [ws: Workspaces \cup {0}, complete: BOOLEAN]]
  /\ launched \in Workspaces \cup {0}

InitLaunch ==
  /\ InitOci /\ InitBundle
  /\ setting \in Settings /\ allowed = setting.allowed
  /\ cli = Stopped
  /\ files = [vault |-> {}, ws |-> 0, job |-> NoJob, safe |-> FALSE, detonated |-> FALSE,
              receipt |-> [ws |-> 0, complete |-> FALSE]]
  /\ launched = 0

Rigid == UNCHANGED <<setting, allowed>>

Ends(outcome) == cli' = [Stopped EXCEPT !.outcome = outcome, !.mine = cli.mine]

(* The process's own steps: what they leave alone, by what they change.    *)
OwnOnly   == UNCHANGED <<launched, ociVars, bundleVars>>
FilesOnly == UNCHANGED <<setting>> /\ OwnOnly
CliOnly   == UNCHANGED <<setting, files>> /\ OwnOnly

CallEnds == call' = NoCall("none", 0) /\ UNCHANGED <<cloud, ids, deleted, failed, troubles>>

-----------------------------------------------------------------------------
(* Provisioning.                                                           *)

(* Mutant: a failed attempt is resumed too.                                *)
resume_any(j) == j # NoJob /\ (HasFailed(j) \/ IsActive(j))

_launch_job_can_resume(j) == j # NoJob /\ IsActive(j)

_load_or_create_launch_job ==
  IF _launch_job_can_resume(files.job) THEN files.job ELSE create(launched + 1)

(* A resumed job provisions a new workspace too.  A launch with its drill  *)
(* needs two.                                                              *)
Launch ==
  /\ cli.phase = "down" /\ launched + 2 \in Workspaces
  /\ LET job == _load_or_create_launch_job IN
       /\ cli' = [Stopped EXCEPT !.phase = "provision", !.job = job, !.vault = files.vault,
                                 !.mine = {launched + 1}]
       /\ files' = [files EXCEPT !.job = job]
  /\ launched' = launched + 1
  /\ provision(launched + 1)
  /\ Rigid /\ UNCHANGED bundleVars

Provisioned ==
  /\ cli.phase = "provision" /\ call.op = "provisioned"
  /\ cli' = [cli EXCEPT !.phase = "save_vault", !.ws = call.ws, !.vault = @ \cup {call.ws}]
  /\ CallEnds
  /\ Rigid /\ UNCHANGED <<files, launched, bundleVars>>

ProvisionRefused ==
  /\ cli.phase = "provision" /\ call.op = "refused"
  /\ Ends("failed")
  /\ CallEnds
  /\ Rigid /\ UNCHANGED <<files, launched, bundleVars>>

SaveVault ==
  /\ cli.phase = "save_vault"
  /\ files' = [files EXCEPT !.vault = cli.vault]
  /\ cli' = [cli EXCEPT !.phase = "record"]
  /\ FilesOnly

RecordWorkspace ==
  /\ cli.phase = "record"
  /\ LET job == mark(cli.job, "setup", "running") IN
       /\ cli' = [cli EXCEPT !.phase = "remote", !.job = job]
       /\ files' = [files EXCEPT !.ws = cli.ws, !.job = job]
  /\ FilesOnly

-----------------------------------------------------------------------------
(* Setup on the worker.                                                    *)

PreflightTakes(b, withDrill) == setting.trusted \/ run_detonation_preflight(b, withDrill)

(* The worker's own launch has the same options: it fails when its checks  *)
(* did, or when it would detonate its scratch state and its preflight      *)
(* refuses; one that passes is marked safe.                                *)
WorkerDetonates ==
  setting.verification = "safe" /\ ~setting.noDetonate /\ ~setting.allowIncomplete

WorkerFails ==
  \/ setting.verification = "failed" /\ ~setting.allowIncomplete
  \/ WorkerDetonates /\ ~PreflightTakes(WorkerBundle("safe", FALSE), FALSE)

(* Mutant: whatever was retrieved will do.                                 *)
bundle_unchecked(b) == b \in Bundle

_validate_artifact_bundle(b) == RequiredSurvivors \subseteq b.files

DetonateFor(reason, job) == cli' = [cli EXCEPT !.phase = "ssh", !.why = reason, !.job = job]

(* A launch that keeps its workspace still saves the job; then it raises.  *)
Keeps(job, outcome) ==
  /\ Ends(outcome)
  /\ files' = [files EXCEPT !.job = mark(job, "detonate", "skipped")]

(* Mutant: a failed setup leaves its workspace.                            *)
fail_and_keep == Keeps(mark(cli.job, "setup", "failed"), "failed")

SetupFails ==
  LET job == mark(cli.job, "setup", "failed") IN
    IF setting.noDetonate THEN Keeps(job, "failed")
    ELSE DetonateFor("setup_failed", job) /\ UNCHANGED files

RemoteSetupFails ==
  /\ cli.phase = "remote"
  /\ \/ WorkerFails /\ UNCHANGED troubles
     \/ Trouble("remote")
  /\ SetupFails
  /\ Rigid /\ UNCHANGED <<launched, cloud, ids, call, deleted, failed, bundleVars>>

(* A command that times out raises an error the launch does not catch: it  *)
(* ends, and the workspace stays.                                          *)
RemoteTimesOut ==
  /\ cli.phase = "remote" /\ Trouble("timeout")
  /\ Ends("failed")
  /\ Rigid /\ UNCHANGED <<files, launched, cloud, ids, call, deleted, failed, bundleVars>>

(* What is retrieved may lack a file.                                      *)
execute_remote_setup ==
  /\ cli.phase = "remote" /\ ~WorkerFails
  /\ \E lost \in {{}, {"gates"}} :
       LET whole == WorkerBundle(setting.verification, WorkerDetonates)
           b     == [whole EXCEPT !.files = @ \ lost]
       IN /\ IF lost = {} THEN UNCHANGED troubles ELSE Trouble("remote")
          /\ \/ /\ _validate_artifact_bundle(b)
                /\ _replace_existing_artifact_bundle(b)
                /\ cli' = [cli EXCEPT !.phase = "extract"]
                /\ UNCHANGED <<files, dir, backup, kept>>
             \/ /\ ~_validate_artifact_bundle(b)
                /\ SetupFails
                /\ UNCHANGED bundleVars
  /\ Rigid /\ UNCHANGED <<launched, cloud, ids, call, deleted, failed>>

SwapFinished ==
  swap' = [swap EXCEPT !.phase = "idle"] /\ UNCHANGED <<dir, backup, kept, ociVars, launched, setting>>

Retrieved ==
  /\ cli.phase = "extract" /\ swap.phase = "replaced"
  /\ cli' = [cli EXCEPT !.phase = "retrieved", !.job = mark(@, "setup", "done")]
  /\ SwapFinished /\ UNCHANGED files

RetrievalFails ==
  /\ cli.phase = "extract" /\ swap.phase = "failed"
  /\ SetupFails
  /\ SwapFinished

VerificationFailed ==
  /\ cli.phase = "retrieved" /\ dir.verification = "failed"
  /\ LET job == mark(cli.job, "verify", "failed") IN
       IF setting.noDetonate THEN Keeps(job, "failed")
       ELSE DetonateFor("verify_failed", job) /\ UNCHANGED files
  /\ FilesOnly

Retains ==
  /\ cli.phase = "retrieved"
  /\ \/ dir.verification = "waiting"
     \/ dir.verification = "safe" /\ setting.noDetonate
  /\ Keeps(mark(cli.job, "verify", IF dir.verification = "safe" THEN "done" ELSE "pending"),
           "retained")
  /\ FilesOnly

-----------------------------------------------------------------------------
(* The worker replacement drill.                                           *)

_worker_replacement_drill_path_passed == ~worker_replacement_drill_failures(dir.drill)

(* The worker leaves a pending proof, but the file is asked.               *)
_run_oci_worker_replacement_drill ==
  /\ cli.phase = "retrieved" /\ dir.verification = "safe" /\ ~setting.noDetonate
  /\ LET verified == mark(cli.job, "verify", "done")
         job      == mark(verified, "replace", "running")
     IN IF _worker_replacement_drill_path_passed
        THEN /\ cli' = [cli EXCEPT !.phase = "preflight", !.job = verified]
             /\ UNCHANGED <<files, launched, ociVars>>
        ELSE /\ cli' = [cli EXCEPT !.phase = "drill", !.job = job, !.mine = @ \cup {launched + 1}]
             /\ files' = [files EXCEPT !.job = job]
             /\ launched' = launched + 1
             /\ provision(launched + 1)
  /\ Rigid /\ UNCHANGED bundleVars

DrillEndsBadly ==
  /\ Ends("failed")
  /\ files' = [files EXCEPT !.job = mark(cli.job, "replace", "failed")]

DrillRefused ==
  /\ cli.phase = "drill" /\ call.op = "refused"
  /\ DrillEndsBadly
  /\ CallEnds
  /\ Rigid /\ UNCHANGED <<launched, bundleVars>>

(* Mutant: the original goes before its replacement is on record.          *)
detonate_unsaved ==
  /\ cli.phase = "drill" /\ call.op = "provisioned"
  /\ cli' = [cli EXCEPT !.phase = "ssh", !.why = "drill", !.replacement = call.ws,
                        !.vault = @ \cup {call.ws}]
  /\ CallEnds
  /\ Rigid /\ UNCHANGED <<files, launched, bundleVars>>

DrillProvisioned ==
  /\ cli.phase = "drill" /\ call.op = "provisioned"
  /\ cli' = [cli EXCEPT !.phase = "drill_save", !.replacement = call.ws,
                        !.vault = @ \cup {call.ws}]
  /\ CallEnds
  /\ Rigid /\ UNCHANGED <<files, launched, bundleVars>>

DrillSave ==
  /\ cli.phase = "drill_save"
  /\ files' = [files EXCEPT !.vault = cli.vault]
  /\ DetonateFor("drill", cli.job)
  /\ FilesOnly

(* The durable state is put on the replacement, and the proof of it in the *)
(* bundle.                                                                 *)
execute_worker_replacement_drill ==
  /\ cli.phase = "restore"
  /\ WORKER_REPLACEMENT_SOURCE_IDS \subseteq dir.files
  /\ dir' = write_run_record([dir EXCEPT !.drill = "extended"])
  /\ LET job == mark(cli.job, "replace", "done") IN
       /\ cli' = [cli EXCEPT !.phase = "resumed", !.job = job, !.ws = cli.replacement]
       /\ files' = [files EXCEPT !.job = job]
  /\ Rigid /\ UNCHANGED <<launched, ociVars, backup, swap, kept>>

RestoreFails ==
  /\ cli.phase = "restore"
  /\ IF WORKER_REPLACEMENT_SOURCE_IDS \subseteq dir.files
     THEN \E kind \in {"ssh", "remote", "timeout"} : Trouble(kind) ELSE UNCHANGED troubles
  /\ DetonateFor("drill_failed", cli.job)
  /\ UNCHANGED <<setting, files, launched, cloud, ids, call, deleted, failed, allowed, bundleVars>>

RecordReplacement ==
  /\ cli.phase = "resumed"
  /\ files' = [files EXCEPT !.ws = cli.ws]
  /\ cli' = [cli EXCEPT !.phase = "preflight"]
  /\ FilesOnly

_run_remote_detonation_preflight ==
  /\ cli.phase = "preflight"
  /\ IF PreflightTakes(dir, TRUE)
     THEN /\ files' = [files EXCEPT !.safe = TRUE]
          /\ DetonateFor("success", cli.job)
     ELSE UNCHANGED files /\ Ends("failed")
  /\ FilesOnly

-----------------------------------------------------------------------------
(* Detonation, for whatever reason.                                        *)

Doomed == IF cli.why = "drill_failed" THEN cli.replacement ELSE cli.ws

CloudSide == Network \cup {"instance", "boot_volume", "ephemeral_public_ip"}

_workspace_detonation_complete ==
  failed = {} /\ CloudSide \cup {"remote_worker"} \subseteq deleted

(* Over ssh, as long as there is a worker; then the cloud's side, whatever *)
(* came of it.                                                             *)
detonate_remote_worker ==
  /\ cli.phase = "ssh"
  /\ \/ /\ "instance" \in cloud[Doomed]
        /\ deleted' = {"remote_worker"} /\ failed' = {}
        /\ UNCHANGED troubles
     \/ /\ IF "instance" \in cloud[Doomed] THEN Trouble("ssh") ELSE UNCHANGED troubles
        /\ deleted' = {} /\ failed' = {"remote_worker"}
  /\ cli' = [cli EXCEPT !.phase = "cloud"]
  /\ call' = NoCall("detonate", Doomed)
  /\ Rigid /\ UNCHANGED <<files, launched, cloud, ids, bundleVars>>

(* A command that times out is not caught here either: the cloud's side is *)
(* never asked.  The drill takes it for its own failure.                   *)
DetonationTimesOut ==
  /\ cli.phase = "ssh" /\ "instance" \in cloud[Doomed] /\ Trouble("timeout")
  /\ IF cli.why = "drill" THEN DetonateFor("drill_failed", cli.job) ELSE Ends("failed")
  /\ Rigid /\ UNCHANGED <<files, launched, cloud, ids, call, deleted, failed, bundleVars>>

(* A torn down workspace proves that the worker is gone.                   *)
_mark_remote_worker_detonated_by_workspace_teardown ==
  /\ cli.phase = "cloud" /\ call.op = "detonated"
  /\ IF failed \subseteq {"remote_worker"} /\ CloudSide \subseteq deleted
     THEN deleted' = deleted \cup {"remote_worker"} /\ failed' = {}
     ELSE UNCHANGED <<deleted, failed>>
  /\ cli' = [cli EXCEPT !.phase = "reported"]
  /\ call' = NoCall("none", 0)
  /\ Rigid /\ UNCHANGED <<files, launched, cloud, ids, troubles, bundleVars>>

(* An error the detonation lets through ends the process without a         *)
(* receipt; the drill takes it for its own failure.                        *)
DetonationRaises ==
  /\ cli.phase = "cloud" /\ call.op = "raised"
  /\ IF cli.why = "drill" THEN DetonateFor("drill_failed", cli.job) ELSE Ends("failed")
  /\ CallEnds
  /\ Rigid /\ UNCHANGED <<files, launched, bundleVars>>

(* Mutant: the drill goes on with what is left of the original.            *)
drill_trusts ==
  /\ cli.phase = "reported" /\ cli.why = "drill"
  /\ cli' = [cli EXCEPT !.phase = "restore"]
  /\ CliOnly

DrillJudges ==
  /\ cli.phase = "reported" /\ cli.why = "drill"
  /\ IF _workspace_detonation_complete THEN cli' = [cli EXCEPT !.phase = "restore"]
     ELSE DetonateFor("drill_failed", cli.job)
  /\ CliOnly

DrillFailed ==
  /\ cli.phase = "reported" /\ cli.why = "drill_failed"
  /\ DrillEndsBadly
  /\ FilesOnly

(* Mutant: a status the job does not know.                                 *)
mark_incomplete(complete) == IF complete THEN "done" ELSE "incomplete"

DetonationStatus(complete) == IF complete THEN "done" ELSE "failed"

(* A manual detonation records it only if there is a job, and does not     *)
(* mark the run state.                                                     *)
_record_workspace_detonation ==
  /\ cli.phase = "reported" /\ cli.why \notin {"drill", "drill_failed"}
  /\ IF cli.why = "manual" /\ cli.job = NoJob THEN Ends("none") /\ UNCHANGED files
     ELSE LET complete == _workspace_detonation_complete IN
       /\ cli' = [cli EXCEPT
            !.phase = IF cli.why \in {"verify_failed", "success"} THEN "attach" ELSE "save",
            !.job = mark(@, "detonate", DetonationStatus(complete))]
       /\ files' = [files EXCEPT !.receipt = [ws |-> cli.ws, complete |-> complete],
                                 !.detonated = @ \/ (complete /\ cli.why # "manual")]
  /\ FilesOnly

_copy_workspace_detonation_to_remote_artifacts ==
  /\ cli.phase = "attach"
  /\ dir' = write_run_record(
       [dir EXCEPT !.files = @ \cup {"workspace_detonation"}, !.safe = files.safe,
                   !.detonated = files.detonated,
                   !.receipt = IF files.receipt.complete THEN "complete" ELSE "incomplete"])
  /\ cli' = [cli EXCEPT !.phase = "save"]
  /\ UNCHANGED <<setting, files, launched, ociVars, backup, swap, kept>>

SaveJob ==
  /\ cli.phase = "save"
  /\ files' = [files EXCEPT !.job = cli.job]
  /\ Ends(IF cli.why = "manual" THEN "none"
          ELSE IF cli.why = "success" /\ files.receipt.complete THEN "green" ELSE "failed")
  /\ FilesOnly

latest_workspace_from_vault == CHOOSE w \in files.vault : \A v \in files.vault : v <= w

(* The vault's last workspace, or else the recorded one, whose worker is   *)
(* not asked.                                                              *)
_cmd_runner_detonate ==
  /\ cli.phase = "down"
  /\ LET run == [Stopped EXCEPT !.why = "manual", !.job = files.job]
         ws  == IF files.vault # {} THEN latest_workspace_from_vault ELSE files.ws
     IN \/ /\ files.vault # {}
           /\ cli' = [run EXCEPT !.phase = "ssh", !.ws = ws]
           /\ UNCHANGED <<call, deleted, failed>>
        \/ /\ files.vault = {} /\ ws # 0
           /\ cli' = [run EXCEPT !.phase = "cloud", !.ws = ws]
           /\ call' = NoCall("detonate", ws) /\ deleted' = {} /\ failed' = {}
        \/ /\ files.vault = {} /\ ws = 0
           /\ cli' = [run EXCEPT !.phase = "reported"]
           /\ deleted' = {} /\ failed' = {"workspace"}
           /\ UNCHANGED call
  /\ UNCHANGED <<setting, allowed, files, launched, cloud, ids, troubles, bundleVars>>

-----------------------------------------------------------------------------
(* The encrypted vault is gone when the next process looks for it.         *)
VaultLost ==
  /\ cli.phase = "down" /\ files.vault # {} /\ Trouble("vault")
  /\ files' = [files EXCEPT !.vault = {}]
  /\ Rigid /\ UNCHANGED <<cli, launched, cloud, ids, call, deleted, failed, bundleVars>>

Crash ==
  /\ cli.phase # "down" /\ Trouble("crash")
  /\ Ends("crashed")
  /\ call' = NoCall("none", 0)
  /\ SwapEnds("idle")
  /\ Rigid /\ UNCHANGED <<files, launched, cloud, ids, deleted, failed, dir, backup, kept>>

Cloud == OciStep /\ Rigid /\ UNCHANGED <<cli, files, launched, bundleVars>>

Release(w) == CloudReleases(w) /\ Rigid /\ UNCHANGED <<cli, files, launched, bundleVars>>

Swap ==
  SwapStep /\ Rigid /\ UNCHANGED <<cli, files, launched, cloud, ids, call, deleted, failed>>

CliStep ==
  \/ Provisioned \/ ProvisionRefused \/ SaveVault \/ RecordWorkspace
  \/ RemoteSetupFails \/ RemoteTimesOut \/ execute_remote_setup \/ Retrieved \/ RetrievalFails
  \/ VerificationFailed \/ Retains
  \/ _run_oci_worker_replacement_drill \/ DrillRefused \/ DrillProvisioned
  \/ DrillSave \/ execute_worker_replacement_drill \/ RestoreFails \/ RecordReplacement
  \/ _run_remote_detonation_preflight
  \/ detonate_remote_worker \/ DetonationTimesOut \/ _mark_remote_worker_detonated_by_workspace_teardown
  \/ DetonationRaises \/ DrillJudges \/ DrillFailed \/ _record_workspace_detonation
  \/ _copy_workspace_detonation_to_remote_artifacts \/ SaveJob

NextLaunch ==
  \/ Launch \/ _cmd_runner_detonate \/ CliStep \/ Cloud \/ Swap
  \/ Crash \/ VaultLost
  \/ \E w \in Workspaces : Release(w)

SpecLaunch == InitLaunch /\ [][NextLaunch]_launchVars

(* A process that runs goes on, the provider too; nobody has to start one. *)
FairLaunch ==
  /\ SpecLaunch
  /\ WF_launchVars(CliStep) /\ WF_launchVars(Cloud) /\ WF_launchVars(Swap)
  /\ \A w \in Workspaces : WF_launchVars(Release(w))

-----------------------------------------------------------------------------
(* A complete receipt is true: nothing of its workspace is left at the     *)
(* provider, though every call may have failed or timed out.               *)
ReceiptMeansGone ==
  files.receipt.complete => cloud[files.receipt.ws] = {}

(* A security group whose rules were refused is in no list of ids; it      *)
(* stays when its provision is undone, and with it the network it is in.   *)
Unnoted(w) ==
  IF "network_security_group" \in cloud[w] \ ids[w] THEN {"vcn", "network_security_group"} ELSE {}

(* A provision that is refused has undone itself, in the order the         *)
(* resources depend on each other, up to a security group without rules.   *)
RefusedLeavesNothing ==
  call.op = "refused" /\ ~Had({"lost", "delete", "slow"}) => cloud[call.ws] \subseteq Unnoted(call.ws)

(* The drill destroys the original only when its replacement is up and on  *)
(* record, and the bundle can restore it.                                  *)
RestorableBeforeDestroyed ==
  cli.why = "drill" =>
    /\ cli.replacement \in files.vault
    /\ "instance" \in cloud[cli.replacement]
    /\ WORKER_REPLACEMENT_SOURCE_IDS \subseteq dir.files

(* A launch that reports success has left none of its workspaces behind,   *)
(* the original no more than the replacement.                              *)
GreenMeansDetonated ==
  cli.outcome = "green" => \A w \in cli.mine : cloud[w] = {}

(* A launch that is not told to keep its workspace and meets no fault but  *)
(* refused calls and a failing setup leaves nothing behind, however it     *)
(* ends.  The exceptions are a drill that gets no replacement, a security  *)
(* group without rules, and whatever a command that times out cuts off.    *)
NothingLeftBehind ==
  \/ cli.phase # "down" \/ cli.outcome \notin {"green", "failed"}
  \/ setting.noDetonate \/ ~setting.trusted \/ Had(TroubleKinds \ {"refused", "remote"})
  \/ Had({"refused"}) /\ files.job.steps["replace"] = "failed"
  \/ \A w \in cli.mine : cloud[w] \subseteq Unnoted(w)

Interruptions ==
  Cardinality({i \in DOMAIN troubles : troubles[i] \in {"crash", "rename_new", "rename_old"}})

(* A bundle once retrieved survives the retrieval of the next one, through *)
(* a crash or a failing rename of the new one.                             *)
BundleKept ==
  kept /\ Interruptions <= 1 /\ ~Had({"rename_old"})
    => dir # NoBundle \/ backup # NoBundle \/ swap.staged # NoBundle

(* A launch that failed is evidence: its job is never taken up again, the  *)
(* next launch has a job of its own (docs/implementation-plan.md:526).     *)
(* The one way back is by hand: `runner detonate` marks the job on file,   *)
(* and a detonation that failed and then succeeds clears the failure.      *)
FailedStaysFailed ==
  [][HasFailed(files.job) /\ files'.job # files.job
       => \/ files'.job.id # files.job.id \/ ~IsActive(files'.job)
          \/ cli.why = "manual" /\ FailedSteps(files.job) = {"detonate"}]_launchVars

(* Every launch and every detonation ends, whatever the provider refuses.  *)
LaunchEnds == cli.phase # "down" ~> cli.phase = "down"

(* What the command is for: with everything in order, a launch whose       *)
(* checks are safe succeeds.                                               *)
SafeLaunchSucceeds ==
  setting.verification = "safe" /\ ~setting.noDetonate /\ ~setting.allowIncomplete /\ troubles = <<>>
    => cli.outcome # "failed"

=============================================================================
