------------------------------ MODULE RunRecord ------------------------------
(***************************************************************************)
(* The survivor bundle of a run, the run record built from it              *)
(* (runner/run_record.py) and the preflight that reads both before a       *)
(* worker is destroyed (detonation/preflight.py).                          *)
(*                                                                         *)
(* A bundle is what the .fusekit directory says; the run record in it is a *)
(* snapshot, taken whenever it was last written.  What neither changes in  *)
(* a launch nor differs between launches (playbooks, strategies, gates,    *)
(* texts, redaction) is taken to be in order.                              *)
(***************************************************************************)
EXTENDS Naturals

WORKER_REPLACEMENT_SOURCE_IDS ==
  {"encrypted_vault", "job_state", "run_state", "checkpoints", "gates", "gate_events",
   "provider_strategies", "llm_contract", "runner_readiness"}

DURABLE_STATE_SOURCES ==
  WORKER_REPLACEMENT_SOURCE_IDS \cup
  {"worker_replacement_drill", "setup_receipt", "verification_report", "rollback_plan",
   "workspace_detonation", "run_record"}

(* What must be in a bundle before its worker is detonated: all but the    *)
(* receipt of that detonation.                                             *)
RequiredSurvivors == DURABLE_STATE_SOURCES \ {"workspace_detonation"}

Verifications == {"safe", "waiting", "failed"}

(* The drill proof a launch writes has fields beyond those of the contract.*)
DrillProofs == {"pending", "extended"}

Receipts == {"none", "incomplete", "complete"}

Checks == {"durable_state", "worker_replacement", "detonation", "errors_empty"}

Record == [sources: SUBSET DURABLE_STATE_SOURCES, drill: DrillProofs \cup {"absent"},
           safe: BOOLEAN, preflightSafe: BOOLEAN, contract: SUBSET Checks]

Bundle == [files: SUBSET DURABLE_STATE_SOURCES, verification: Verifications, drill: DrillProofs,
           safe: BOOLEAN, detonated: BOOLEAN, receipt: Receipts, failedStep: BOOLEAN,
           record: Record]

worker_replacement_drill_failures(drill) == drill # "passed"

(* A proof with unexpected fields is left out of the record.               *)
_worker_replacement_drill_summary(drill) == IF drill = "extended" THEN "absent" ELSE drill

ResumeReady(sources) == WORKER_REPLACEMENT_SOURCE_IDS \subseteq sources

_recording_durable_state_ready(sources) == ResumeReady(sources) /\ DURABLE_STATE_SOURCES \subseteq sources

_recording_worker_replacement_ready(drill, sources) ==
  drill = "passed" /\ ResumeReady(sources)

_recording_detonation_ready(preflightSafe, b) ==
  preflightSafe /\ b.detonated /\ b.receipt = "complete"

(* The checks that hold but for detonation; a failed step or an incomplete *)
(* receipt is an error.                                                    *)
ChecksBefore(b, sources) ==
  (IF _recording_durable_state_ready(sources) THEN {"durable_state"} ELSE {})
  \cup (IF _recording_worker_replacement_ready(_worker_replacement_drill_summary(b.drill), sources)
        THEN {"worker_replacement"} ELSE {})
  \cup (IF b.failedStep \/ b.receipt = "incomplete" THEN {} ELSE {"errors_empty"})

(* preflight_safe is aligned with the checks after the contract was drawn  *)
(* up, and the contract is drawn up again.                                 *)
build_run_record(b) ==
  LET sources == b.files \cup {"run_record"}
      before  == ChecksBefore(b, sources)
      aligned == b.safe /\ before = Checks \ {"detonation"}
  IN [sources |-> sources, drill |-> _worker_replacement_drill_summary(b.drill), safe |-> b.safe,
      preflightSafe |-> aligned,
      contract |-> before \cup (IF _recording_detonation_ready(aligned, b)
                                THEN {"detonation"} ELSE {})]

write_run_record(b) == [b EXCEPT !.record = build_run_record(b)]

-----------------------------------------------------------------------------
(* The preflight.                                                          *)

_durable_state_preflight(r) == ResumeReady(r.sources) /\ r.sources = DURABLE_STATE_SOURCES

_recording_contract_preflight(r) == Checks \ {"detonation"} \subseteq r.contract

_run_record_preflight(r) ==
  /\ r.drill # "absent"
  /\ ~worker_replacement_drill_failures(r.drill)
  /\ r.safe
  /\ _durable_state_preflight(r)
  /\ r.preflightSafe
  /\ _recording_contract_preflight(r)

(* run_detonation_preflight; the drill's proof is read too when its path   *)
(* is given.                                                               *)
run_detonation_preflight(b, withDrill) ==
  /\ RequiredSurvivors \subseteq b.files
  /\ b.verification = "safe"
  /\ _run_record_preflight(b.record)
  /\ withDrill => ~worker_replacement_drill_failures(b.drill)

(* The bundle a launch leaves on the worker, without the file a faulty     *)
(* retrieval lacks.                                                        *)
WorkerBundle(verification, safe) ==
  LET b == [files |-> RequiredSurvivors, verification |-> verification, drill |-> "pending",
            safe |-> safe, detonated |-> FALSE, receipt |-> "none", failedStep |-> FALSE]
  IN [files |-> b.files, verification |-> verification, drill |-> "pending", safe |-> safe,
      detonated |-> FALSE, receipt |-> "none", failedStep |-> FALSE,
      record |-> build_run_record(b)]

=============================================================================
