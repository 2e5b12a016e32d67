--------------------------- MODULE MCHostedServer ---------------------------
(* Instances of HostedDeployment small enough for TLC. *)
EXTENDS HostedDeployment, TLC

Proof(evidence) == [evidence |-> evidence, artifacts |-> TRUE, byo |-> TRUE]

(* One payload per shape the worker reports: a run that waits for gates, a  *)
(* run without recording, a full run, a full run with files missing or the  *)
(* BYO bundle incomplete, and the maintenance proofs.                       *)
MCPayloads ==
  {Proof({"run_record"}),
   Proof(ProofKeys \ {"recording"}),
   Proof(ProofKeys),
   [Proof(ProofKeys) EXCEPT !.artifacts = FALSE],
   [Proof(ProofKeys) EXCEPT !.byo = FALSE],
   Proof(ProofKeys \cup {"rollback_execution_receipt"}),
   Proof(ProofKeys \cup RollbackKeys),
   Proof(ProofKeys \cup DetonationKeys)}

(* Enough to reach and leave every status when two processes interleave.   *)
MCFewPayloads == {Proof(ProofKeys), Proof(ProofKeys \cup DetonationKeys)}

CONSTANTS p1, p2, p3

MCProcs     == {p1, p2, p3}
MCLongLived == {p3}

Shared == {p1, p2}

(* Over a store: one gunicorn process, the systemd service, two gunicorn   *)
(* processes.  Without one: a process that forgets every request, and one  *)
(* that remembers them.                                                    *)
MCDeployments ==
  {[procs |-> {p1}, durable |-> TRUE, payloads |-> MCPayloads]} \cup
  [procs: {{p3}, Shared}, durable: {TRUE}, payloads: {MCFewPayloads}] \cup
  [procs: {{p1}, {p3}}, durable: {FALSE}, payloads: {MCFewPayloads}]

ProcSymmetry == Permutations(Shared)

=============================================================================
