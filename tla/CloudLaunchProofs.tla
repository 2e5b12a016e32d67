-------------------------- MODULE CloudLaunchProofs --------------------------
(***************************************************************************)
(* Proofs about CloudLaunch, for any number of workspaces, any settings    *)
(* and any troubles, however many.                                         *)
(***************************************************************************)
EXTENDS CloudLaunch, SequenceTheorems, FiniteSetTheorems, TLAPS

-----------------------------------------------------------------------------
(* The inductive invariant, in parts.                                      *)

(* The call in progress is the process's own.                              *)
CallFits ==
  /\ cli.phase \in {"provision", "drill"} =>
       call.op \in {"create", "undo", "provisioned", "refused"} /\ call.ws = launched
  /\ cli.phase = "cloud" =>
       call.op \in {"detonate", "detonated", "raised"} /\ call.ws = Doomed
  /\ cli.phase \notin {"provision", "drill", "cloud"} => call.op = "none"

Early == {"save_vault", "record", "remote", "extract", "retrieved"}

Detonating == {"ssh", "cloud", "reported"}

(* The original is about to go, or is gone, for its replacement.           *)
Drilling ==
  \/ cli.phase \in {"drill", "drill_save"}
  \/ cli.why = "drill" /\ cli.phase \in Detonating \cup {"restore"}

(* Why a process is in a phase.                                            *)
WhyFits ==
  /\ cli.phase # "down" => cli.outcome = "none"
  /\ cli.phase \in {"down", "provision", "drill", "drill_save"} \cup Early => cli.why = "none"
  /\ cli.phase \in {"restore", "resumed"} => cli.why = "drill"
  /\ cli.phase = "preflight" => cli.why \in {"none", "drill"}
  /\ cli.phase \in Detonating => cli.why # "none"
  /\ cli.phase = "attach" => cli.why \in {"verify_failed", "success"}
  /\ cli.phase = "save" => cli.why \in {"setup_failed", "verify_failed", "success", "manual"}

(* The process's workspaces: the newest is the last that was asked for.    *)
Fleet ==
  /\ cli.phase \in {"provision"} \cup Early =>
       cli.mine = {launched} /\ launched \in Workspaces /\ launched + 1 \in Workspaces
  /\ cli.phase \in Early => cli.ws = launched
  /\ Drilling => /\ cli.mine = {cli.ws, launched} /\ launched \in Workspaces
                 /\ cli.ws \in Workspaces /\ cli.ws < launched
  /\ cli.phase = "drill_save" \/ cli.why \in {"drill", "drill_failed"} =>
       cli.replacement = launched /\ launched \in Workspaces
  /\ cli.phase \in {"resumed", "preflight"} \/ cli.why \in {"setup_failed", "verify_failed", "success"} =>
       /\ cli.ws \in Workspaces
       /\ \A w \in cli.mine \ {cli.ws} : cloud[w] = {}
  /\ cli.phase \in {"ssh", "cloud", "attach", "save"} \/ cli.why = "drill_failed" =>
       cli.ws \in Workspaces \/ (cli.why = "manual" /\ cli.phase = "save")

(* Nothing is ever asked for that is older than what is on file.           *)
Past ==
  /\ cli.ws <= launched /\ cli.mine \subseteq 1..launched
  /\ cli.vault \subseteq 1..launched /\ files.vault \subseteq 1..launched
  /\ files.ws <= launched /\ files.receipt.ws <= launched /\ files.job.id <= launched
  /\ cli.job.id <= launched
  /\ cli.phase \in {"provision", "drill"} => files.receipt.ws < launched

(* The vault has a last workspace.                                         *)
HasLatest(vault) == vault # {} => \E w \in vault : \A v \in vault : v <= w

(* What a detonation reports as deleted is gone.                           *)
Gone(reported, resources) ==
  /\ reported \cap (Network \cup {"instance", "boot_volume"}) \cap resources = {}
  /\ "subnet" \in reported => {"vnic", "unconfirmed_instance"} \cap resources = {}

ReportTrue ==
  /\ call.op \in {"undo", "detonate", "detonated"} => Gone(deleted, cloud[call.ws])
  /\ cli.phase = "reported" => IF Doomed = 0 THEN failed # {} ELSE Gone(deleted, cloud[Doomed])
  /\ cli.phase = "restore" => cloud[cli.ws] = {}

(* A workspace that is up has its instance.                                *)
InstanceUp ==
  /\ call.op = "create" /\ call.at > 8 => "instance" \in cloud[call.ws]
  /\ call.op = "provisioned" => "instance" \in cloud[call.ws]
  /\ cli.phase = "drill_save" => "instance" \in cloud[cli.replacement]

ReceiptFits ==
  /\ cli.phase \in {"attach", "save"} => files.receipt.ws = cli.ws
  /\ cli.phase = "drill_save" => cli.replacement \in cli.vault
  /\ files.receipt.complete => files.receipt.ws \in Workspaces

Whole(b) == b \in Bundle /\ RequiredSurvivors \subseteq b.files

(* The bundle on disk, once retrieved, and the one that replaces it.       *)
BundleFits ==
  /\ cli.phase = "extract" <=> swap.phase # "idle"
  /\ swap.phase \in {"clear", "move", "place"} => Whole(swap.staged)
  /\ swap.phase \in {"remove", "replaced"} => Whole(dir)
  /\ \/ cli.phase \in {"retrieved", "drill", "drill_save", "restore", "resumed", "preflight"}
     \/ cli.why \in {"verify_failed", "success", "drill", "drill_failed"}
     => Whole(dir)

(* The job on file is the one the process works on, and has not failed     *)
(* while a launch runs.                                                    *)
JobFits ==
  /\ cli.phase # "down" /\ cli.why # "manual" => ~HasFailed(files.job)
  /\ \/ cli.phase \notin {"down"} \cup Detonating \cup {"attach", "save"}
     \/ cli.why = "drill"
     => ~HasFailed(cli.job)
  /\ cli.why = "manual" /\ cli.phase # "down" =>
       IF cli.phase = "save"
       THEN \E status \in {"done", "failed"} : cli.job = mark(files.job, "detonate", status)
       ELSE cli.job = files.job

LaunchInv ==
  /\ TypeOKLaunch /\ CallFits /\ WhyFits /\ Fleet /\ Past
  /\ HasLatest(files.vault) /\ HasLatest(cli.vault)
  /\ ReportTrue /\ InstanceUp /\ ReceiptFits /\ BundleFits /\ JobFits
  /\ ReceiptMeansGone /\ RestorableBeforeDestroyed /\ GreenMeansDetonated

-----------------------------------------------------------------------------
(* What a call of the provisioner may change.                              *)

LEMMA NatWorkspaces ==
  /\ Workspaces \subseteq Nat \ {0}
  /\ \A w \in Workspaces : \A v \in 1..w : v \in Workspaces
  BY WorkspacesAssumption

LEMMA CreateAt ==
  ASSUME TypeOKOci
  PROVE  /\ Creating # "none" => call.op = "create" /\ call.at \in 1..9
         /\ Creating = "instance" <=> call.op = "create" /\ call.at = 8
         /\ Creating = "address" <=> call.op = "create" /\ call.at = 9
  BY DEF TypeOKOci, Creating, Step, CreateSteps

LEMMA DeleteAt ==
  ASSUME TypeOKOci
  PROVE  Deleting # "none" => call.op \in {"undo", "detonate"} /\ call.at \in 1..10
  BY DEF TypeOKOci, Deleting, Step, DeleteSteps

LEMMA TroubleTyped ==
  ASSUME TypeOKOci, NEW kind \in TroubleKinds, Trouble(kind)
  PROVE  /\ troubles' \in UNION {[1..n -> TroubleKinds] : n \in 0..MaxTroubles}
         /\ Len(troubles) \in Nat /\ troubles \in [1..Len(troubles) -> TroubleKinds]
         /\ troubles' \in [1..Len(troubles) + 1 -> TroubleKinds]
         /\ \A i \in 1..Len(troubles) : troubles'[i] = troubles[i]
         /\ troubles'[Len(troubles) + 1] = kind
         /\ kind \in allowed
  <1>1. PICK n \in 0..MaxTroubles : troubles \in [1..n -> TroubleKinds]
    BY DEF TypeOKOci
  <1>2. n \in Nat /\ MaxTroubles \in Nat
    BY <1>1, TroublesAssumption
  <1>3. troubles \in Seq(TroubleKinds) /\ Len(troubles) = n
    BY <1>1, <1>2
  <1>4. n < MaxTroubles /\ troubles' = Append(troubles, kind) /\ kind \in allowed
    BY <1>3 DEF Trouble
  <1>5. /\ Append(troubles, kind) \in Seq(TroubleKinds) /\ Len(Append(troubles, kind)) = n + 1
        /\ \A i \in 1..n : Append(troubles, kind)[i] = troubles[i]
        /\ Append(troubles, kind)[n + 1] = kind
    BY <1>3, AppendProperties
  <1>6. Append(troubles, kind) \in [1..n + 1 -> TroubleKinds]
    BY <1>5, LenProperties
  <1>7. n + 1 \in 0..MaxTroubles
    BY <1>2, <1>4
  <1>8. [1..n + 1 -> TroubleKinds] \in {[1..m -> TroubleKinds] : m \in 0..MaxTroubles}
    BY <1>7
  <1> QED
    BY <1>1, <1>2, <1>3, <1>4, <1>5, <1>6, <1>8

(* A step of the provisioner goes on with its call, and concerns the       *)
(* workspace of its call only, to which a creation adds and from which a   *)
(* deletion takes away.                                                    *)
Onwards ==
  /\ call'.ws = call.ws
  /\ \/ call.op = "create" /\ call'.op \in {"create", "provisioned", "undo"}
     \/ call.op = "undo" /\ call'.op \in {"undo", "refused"}
     \/ call.op = "detonate" /\ call'.op \in {"detonate", "detonated", "raised"}

CloudGoes ==
  \A w \in Workspaces :
    /\ w # call.ws => cloud'[w] = cloud[w]
    /\ call.op # "create" => cloud'[w] \subseteq cloud[w]
    /\ call.op = "create" => cloud[w] \subseteq cloud'[w]

TroublesTyped == troubles' \in UNION {[1..n -> TroubleKinds] : n \in 0..MaxTroubles}

LEMMA TroubleOrNot ==
  ASSUME TypeOKOci,
         troubles' = troubles \/ \E kind \in TroubleKinds : Trouble(kind)
  PROVE  TroublesTyped
  <1>1. CASE troubles' = troubles
    BY <1>1 DEF TypeOKOci, TroublesTyped
  <1>2. ASSUME NEW kind \in TroubleKinds, Trouble(kind) PROVE TroublesTyped
    BY <1>2, TroubleTyped DEF TroublesTyped
  <1> QED
    BY <1>1, <1>2

LEMMA OciTroubles ==
  ASSUME TypeOKOci, OciStep
  PROVE  TroublesTyped
  <1>1. {"refused", "lost", "delete", "slow"} \subseteq TroubleKinds
    BY DEF TroubleKinds
  <1>2. troubles' = troubles \/ \E kind \in TroubleKinds : Trouble(kind)
    BY <1>1 DEF OciStep, Create, _create_nsg, _launch_instance, _launch_with_capacity_fallback, _public_ip,
       CreateFails, _instance_boot_volume_ids, _terminate_instance,
       _wait_for_instance_network_release, _wait_for_boot_volume_deletion, _delete_oci_resource,
       Deleted, CreateNext
  <1> QED
    BY <1>2, TroubleOrNot

LEMMA Added ==
  ASSUME TypeOKOci, NEW made \in SUBSET Resources, call.op = "create",
         cloud' = [cloud EXCEPT ![call.ws] = @ \cup made]
  PROVE  cloud' \in [Workspaces -> SUBSET Resources] /\ CloudGoes
  BY DEF TypeOKOci, CloudGoes

LEMMA Removed ==
  ASSUME TypeOKOci, NEW gone, call.op # "create",
         cloud' = [cloud EXCEPT ![call.ws] = @ \ gone]
  PROVE  cloud' \in [Workspaces -> SUBSET Resources] /\ CloudGoes
  BY DEF TypeOKOci, CloudGoes

LEMMA CloudStays ==
  ASSUME TypeOKOci, UNCHANGED cloud
  PROVE  cloud' \in [Workspaces -> SUBSET Resources] /\ CloudGoes
  BY DEF TypeOKOci, CloudGoes

CallTyped ==
  call \in [op: {"create", "undo", "detonate", "none", "provisioned", "refused", "detonated",
                 "raised"},
            ws: Workspaces \cup {0}, at: 1..11, bootKnown: BOOLEAN]

LEMMA OciTyped ==
  ASSUME TypeOKOci
  PROVE
    /\ cloud \in [Workspaces -> SUBSET Resources]
    /\ ids \in [Workspaces -> SUBSET (Network \cup {"instance"})]
    /\ CallTyped
    /\ deleted \subseteq Reports /\ failed \subseteq Reports
    /\ allowed \subseteq TroubleKinds
    /\ troubles \in UNION {[1..n -> TroubleKinds] : n \in 0..MaxTroubles}
  <1>1. Len(DeleteSteps) + 1 = 11
    BY DEF DeleteSteps
  <1> QED
    BY <1>1 DEF TypeOKOci, CallTyped

LEMMA OciTypedNext ==
  ASSUME cloud' \in [Workspaces -> SUBSET Resources],
         ids' \in [Workspaces -> SUBSET (Network \cup {"instance"})],
         CallTyped', deleted' \subseteq Reports, failed' \subseteq Reports,
         allowed' \subseteq TroubleKinds, TroublesTyped
  PROVE  TypeOKOci'
  <1>1. Len(DeleteSteps) + 1 = 11
    BY DEF DeleteSteps
  <1> QED
    BY <1>1 DEF TypeOKOci, CallTyped, TroublesTyped

LEMMA CallMoves ==
  ASSUME CallTyped, NEW at \in 1..11, NEW op \in {"create", "undo", "detonate"},
         NEW known \in BOOLEAN,
         \/ call' = [call EXCEPT !.op = op, !.at = at]
         \/ op = call.op /\ call' = [call EXCEPT !.at = at]
         \/ op = call.op /\ call' = [call EXCEPT !.at = at, !.bootKnown = known]
  PROVE  CallTyped' /\ call'.ws = call.ws /\ call'.op = op
  BY DEF CallTyped

LEMMA CreateEffect ==
  ASSUME TypeOKOci, TroublesTyped, UNCHANGED allowed,
         \/ Create \/ _create_nsg \/ _launch_instance \/ _launch_with_capacity_fallback
         \/ _public_ip \/ CreateFails
  PROVE  TypeOKOci' /\ Onwards /\ CloudGoes
  <1>1. ASSUME NEW made \in SUBSET Resources, NEW known \in SUBSET (Network \cup {"instance"}),
               call.op = "create", call.at \in 1..9, CreateNext(made, known)
        PROVE  TypeOKOci' /\ Onwards /\ CloudGoes
    <2>1. cloud' \in [Workspaces -> SUBSET Resources] /\ CloudGoes
      BY <1>1, Added DEF CreateNext
    <2>2. CallTyped' /\ Onwards
      BY <1>1, OciTyped DEF CreateNext, CallTyped, Onwards
    <2>3. ids' \in [Workspaces -> SUBSET (Network \cup {"instance"})]
      BY <1>1, OciTyped DEF CreateNext
    <2> QED
      BY <1>1, <2>1, <2>2, <2>3, OciTyped, OciTypedNext DEF CreateNext
  <1>2. CASE Create
    <2>1. Creating # "none" /\ {Creating} \subseteq Network
      BY <1>2 DEF Create, Network
    <2> QED
      BY <1>1, <1>2, <2>1, CreateAt DEF Create, Resources
  <1>7. CASE _create_nsg
    <2>1. Creating # "none"
      BY <1>7 DEF _create_nsg
    <2> QED
      BY <1>1, <1>7, <2>1, CreateAt DEF _create_nsg, Resources, Network
  <1>3. CASE _launch_instance
    BY <1>1, <1>3, CreateAt DEF _launch_instance, Resources
  <1>4. CASE _launch_with_capacity_fallback
    <2>1. call.op = "create" /\ UNCHANGED <<cloud, ids, call, deleted, failed>> /\ CallTyped
      BY <1>4, CreateAt, OciTyped DEF _launch_with_capacity_fallback
    <2>2. CallTyped' /\ Onwards
      BY <2>1 DEF CallTyped, Onwards
    <2> QED
      BY <2>1, <2>2, CloudStays, OciTyped, OciTypedNext
  <1>5. CASE _public_ip
    <2>1. call.op = "create" /\ call' = NoCall("provisioned", call.ws) /\ CallTyped
      BY <1>5, CreateAt, OciTyped DEF _public_ip
    <2>2. CallTyped' /\ Onwards
      BY <2>1 DEF CallTyped, Onwards, NoCall
    <2> QED
      BY <1>5, <2>2, CloudStays, OciTyped, OciTypedNext DEF _public_ip
  <1>6. CASE CreateFails
    <2>1. /\ call.op = "create" /\ call' = [call EXCEPT !.op = "undo", !.at = 1]
          /\ deleted' = {} /\ failed' = {} /\ ids' = ids /\ CallTyped
      BY <1>6, CreateAt, OciTyped DEF CreateFails
    <2>2. cloud' \in [Workspaces -> SUBSET Resources] /\ CloudGoes
      <3>1. CASE UNCHANGED cloud
        BY <3>1, CloudStays
      <3>2. CASE cloud' # cloud
        <4>1. /\ Creating # "none" /\ Creating # "address"
              /\ cloud' = [cloud EXCEPT ![call.ws] =
                            @ \cup CASE Creating = "instance"  -> {"unconfirmed_instance"}
                                      [] Creating = "nsg_rules" -> {}
                                      [] OTHER                  -> {Creating}]
          BY <1>6, <3>2 DEF CreateFails
        <4>2. Creating \in Network \cup {"instance", "nsg_rules"}
          BY <4>1, CreateAt DEF Creating, Step, CreateSteps, Network
        <4>3. (CASE Creating = "instance"  -> {"unconfirmed_instance"}
                 [] Creating = "nsg_rules" -> {}
                 [] OTHER                  -> {Creating}) \in SUBSET Resources
          BY <4>2 DEF Resources
        <4> QED
          BY <2>1, <4>1, <4>3, Added
      <3> QED
        BY <3>1, <3>2
    <2>3. CallTyped' /\ call'.ws = call.ws /\ call'.op = "undo"
      <3>1. 1 \in 1..11 /\ "undo" \in {"create", "undo", "detonate"} /\ TRUE \in BOOLEAN
        OBVIOUS
      <3> QED
        BY <2>1, <3>1, CallMoves
    <2>4. Onwards
      BY <2>1, <2>3 DEF Onwards
    <2> QED
      BY <2>1, <2>2, <2>3, <2>4, OciTyped, OciTypedNext
  <1> QED
    BY <1>2, <1>3, <1>4, <1>5, <1>6, <1>7

(* How a call of detonate may go on.                                       *)
LEMMA DeleteCall ==
  ASSUME TypeOKOci, Deleting # "none",
         \/ Goto(call.at + 1)
         \/ Goto(AfterInstance)
         \/ call' = [call EXCEPT !.at = @ + 1, !.bootKnown = TRUE]
         \/ call' = NoCall(IF call.op = "undo" THEN "refused" ELSE "raised", call.ws)
  PROVE  CallTyped' /\ Onwards
  <1>1. call.op \in {"undo", "detonate"} /\ call.at \in 1..10 /\ CallTyped
    BY DeleteAt, OciTyped
  <1>2. ASSUME NEW at \in 1..11, Goto(at) PROVE CallTyped' /\ Onwards
    <2>1. CallTyped' /\ call'.ws = call.ws /\ call'.op = call.op
      BY <1>1, <1>2, CallMoves DEF Goto
    <2> QED
      BY <1>1, <2>1 DEF Onwards
  <1>3. CASE call' = [call EXCEPT !.at = @ + 1, !.bootKnown = TRUE]
    <2>1. call.at + 1 \in 1..11
      BY <1>1
    <2>2. CallTyped' /\ call'.ws = call.ws /\ call'.op = call.op
      BY <1>1, <1>3, <2>1, CallMoves
    <2> QED
      BY <1>1, <2>2 DEF Onwards
  <1>4. CASE call' = NoCall(IF call.op = "undo" THEN "refused" ELSE "raised", call.ws)
    BY <1>1, <1>4 DEF CallTyped, Onwards, NoCall
  <1> QED
    BY <1>1, <1>2, <1>3, <1>4 DEF Goto, AfterInstance

LEMMA DeleteEffect ==
  ASSUME TypeOKOci, TroublesTyped, UNCHANGED allowed,
         \/ _instance_boot_volume_ids \/ _terminate_instance \/ _wait_for_instance_network_release
         \/ _wait_for_boot_volume_deletion \/ _delete_oci_resource \/ Deleted
  PROVE  TypeOKOci' /\ Onwards /\ CloudGoes
  <1>0. {"instance", "boot_volume", "ephemeral_public_ip"} \cup Network \subseteq Reports
    BY DEF Reports
  <1>1. ASSUME Deleting # "none", UNCHANGED ids, CallTyped' /\ Onwards,
               cloud' = cloud \/ \E gone : cloud' = [cloud EXCEPT ![call.ws] = @ \ gone],
               \E good, bad \in SUBSET Reports : Told(good, bad)
        PROVE  TypeOKOci' /\ Onwards /\ CloudGoes
    <2>1. cloud' \in [Workspaces -> SUBSET Resources] /\ CloudGoes
      BY <1>1, CloudStays, Removed, DeleteAt
    <2>2. deleted' \subseteq Reports /\ failed' \subseteq Reports
      BY <1>1, OciTyped DEF Told
    <2> QED
      BY <1>1, <2>1, <2>2, OciTyped, OciTypedNext
  <1>2. CASE _instance_boot_volume_ids
    BY <1>0, <1>1, <1>2, DeleteCall DEF _instance_boot_volume_ids
  <1>3. CASE _terminate_instance
    BY <1>0, <1>1, <1>3, DeleteCall DEF _terminate_instance
  <1>4. CASE _wait_for_instance_network_release
    BY <1>0, <1>1, <1>4, DeleteCall DEF _wait_for_instance_network_release, Address
  <1>5. CASE _wait_for_boot_volume_deletion
    BY <1>0, <1>1, <1>5, DeleteCall DEF _wait_for_boot_volume_deletion
  <1>6. CASE _delete_oci_resource
    <2>1. Deleting # "none" /\ {Deleting} \subseteq Reports
      BY <1>0, <1>6 DEF _delete_oci_resource, Network
    <2> QED
      BY <1>1, <1>6, <2>1, DeleteCall DEF _delete_oci_resource
  <1>7. CASE Deleted
    <2>1. CallTyped
      BY OciTyped
    <2>2. CallTyped' /\ Onwards
      BY <1>7, <2>1 DEF Deleted, CallTyped, Onwards, NoCall
    <2> QED
      BY <1>7, <2>2, CloudStays, OciTyped, OciTypedNext DEF Deleted
  <1> QED
    BY <1>2, <1>3, <1>4, <1>5, <1>6, <1>7

LEMMA OciEffect ==
  ASSUME TypeOKOci, OciStep, UNCHANGED allowed
  PROVE  TypeOKOci' /\ Onwards /\ CloudGoes
  BY OciTroubles, CreateEffect, DeleteEffect DEF OciStep

(* What the detonation reports as deleted stays true while it goes on.     *)
LEMMA OciReports ==
  ASSUME TypeOKOci, OciStep, call.ws \in Workspaces,
         call.op \in {"undo", "detonate"} => Gone(deleted, cloud[call.ws]),
         call'.op \in {"undo", "detonate", "detonated"}
  PROVE  Gone(deleted', cloud'[call.ws])
  <1> DEFINE w == call.ws
  <1>1. cloud \in [Workspaces -> SUBSET Resources] /\ deleted \subseteq Reports
    BY OciTyped
  <1>2. ASSUME Deleting # "none", NEW gone, Gone(deleted, cloud[w]),
               cloud' = cloud \/ cloud' = [cloud EXCEPT ![w] = @ \ gone],
               NEW good, deleted' = deleted \cup good,
               good \subseteq {"ephemeral_public_ip"} \/ Gone(good, cloud'[w])
        PROVE  Gone(deleted', cloud'[w])
    <2>1. cloud'[w] \subseteq cloud[w]
      BY <1>1, <1>2
    <2>2. Gone(deleted, cloud'[w])
      BY <1>2, <2>1 DEF Gone
    <2>3. Gone(good, cloud'[w])
      BY <1>2 DEF Gone, Network
    <2> QED
      BY <1>2, <2>2, <2>3 DEF Gone
  <1>3. CASE \/ Create \/ _create_nsg \/ _launch_instance \/ _launch_with_capacity_fallback
             \/ _public_ip
    <2>1. CallTyped /\ (call' = [call EXCEPT !.at = @ + 1] \/ call' = call
                        \/ call' = NoCall("provisioned", w))
      BY <1>3, OciTyped DEF Create, _create_nsg, _launch_instance, _launch_with_capacity_fallback,
         _public_ip, CreateNext
    <2>2. Creating # "none"
      BY <1>3 DEF Create, _create_nsg, _launch_instance, _launch_with_capacity_fallback, _public_ip,
         Network
    <2>3. call'.op = call.op \/ call'.op = "provisioned"
      BY <2>1 DEF CallTyped, NoCall
    <2> QED
      BY <2>2, <2>3, CreateAt
  <1>4. CASE CreateFails
    BY <1>4 DEF CreateFails, Gone
  <1>5. Deleting # "none" => Gone(deleted, cloud[w])
    BY DeleteAt
  <1>6. CASE _instance_boot_volume_ids
    <2>1. cloud' = cloud /\ Deleting # "none" /\ deleted' = deleted \cup {}
      BY <1>6 DEF _instance_boot_volume_ids, Told
    <2> QED
      BY <1>2, <1>5, <2>1
  <1>7. CASE _terminate_instance
    <2>1. Deleting # "none"
      BY <1>7 DEF _terminate_instance
    <2>2. CASE /\ cloud' = [cloud EXCEPT ![w] = @ \ {"instance"}]
               /\ deleted' = deleted \cup {"instance"}
      <3>1. Gone({"instance"}, cloud'[w])
        BY <1>1, <2>2 DEF Gone, Network
      <3> QED
        BY <1>2, <1>5, <2>1, <2>2, <3>1
    <2>3. CASE /\ \E gone \in {{}, {"instance"}} : cloud' = [cloud EXCEPT ![w] = @ \ gone]
               /\ deleted' = deleted \cup {}
      BY <1>2, <1>5, <2>1, <2>3
    <2> QED
      BY <1>7, <2>2, <2>3 DEF _terminate_instance, Told
  <1>8. CASE _wait_for_instance_network_release
    <2>1. /\ cloud' = cloud /\ Deleting # "none"
          /\ \E good \in SUBSET {"ephemeral_public_ip"} : deleted' = deleted \cup good
      BY <1>8 DEF _wait_for_instance_network_release, Told, Address
    <2> QED
      BY <1>2, <1>5, <2>1
  <1>9. CASE _wait_for_boot_volume_deletion
    <2>1. cloud' = cloud /\ Deleting # "none"
      BY <1>9 DEF _wait_for_boot_volume_deletion
    <2>2. CASE deleted' = deleted \cup {}
      BY <1>2, <1>5, <2>1, <2>2
    <2>3. CASE ~Has("boot_volume") /\ deleted' = deleted \cup {"boot_volume"}
      <3>1. Gone({"boot_volume"}, cloud'[w])
        BY <2>1, <2>3 DEF Has, Gone, Network
      <3> QED
        BY <1>2, <1>5, <2>1, <2>3, <3>1
    <2> QED
      BY <1>9, <2>2, <2>3 DEF _wait_for_boot_volume_deletion, Told
  <1>10. CASE _delete_oci_resource
    <2>1. Deleting # "none" /\ Deleting \in Network
      BY <1>10 DEF _delete_oci_resource, Network
    <2>2. CASE /\ \E gone \in {{}, {Deleting}} : cloud' = [cloud EXCEPT ![w] = @ \ gone]
               /\ deleted' = deleted \cup {}
      BY <1>2, <1>5, <2>1, <2>2
    <2>3. CASE /\ ~Blocked(Deleting)
               /\ cloud' = [cloud EXCEPT ![w] = @ \ {Deleting}]
               /\ deleted' = deleted \cup {Deleting}
      <3>1. Deleting = "subnet" => {"vnic", "unconfirmed_instance"} \cap cloud[w] = {}
        BY <2>3 DEF Blocked, Dependents
      <3>2. cloud'[w] = cloud[w] \ {Deleting}
        BY <1>1, <2>3
      <3>3. Gone({Deleting}, cloud'[w])
        BY <3>1, <3>2 DEF Gone
      <3> QED
        BY <1>2, <1>5, <2>1, <2>3, <3>3
    <2>4. CASE cloud' = cloud /\ deleted' = deleted \cup {}
      BY <1>2, <1>5, <2>1, <2>4
    <2> QED
      BY <1>10, <2>2, <2>3, <2>4 DEF _delete_oci_resource, Told
  <1>11. CASE Deleted
    BY <1>11 DEF Deleted
  <1> QED
    BY <1>3, <1>4, <1>6, <1>7, <1>8, <1>9, <1>10, <1>11 DEF OciStep

(* A worker that is provisioned has its instance.                          *)
LEMMA OciInstance ==
  ASSUME TypeOKOci, OciStep, UNCHANGED allowed, call.ws \in Workspaces,
         call.op = "create" /\ call.at > 8 => "instance" \in cloud[call.ws]
  PROVE  /\ call'.op = "create" /\ call'.at > 8 => "instance" \in cloud'[call.ws]
         /\ call'.op = "provisioned" => "instance" \in cloud'[call.ws]
  <1>1. cloud \in [Workspaces -> SUBSET Resources] /\ CallTyped
    BY OciTyped
  <1>2. CASE Create \/ _create_nsg
    <2>1. call.op = "create" /\ call.at # 8 /\ call' = [call EXCEPT !.at = @ + 1]
      BY <1>2, CreateAt DEF Create, _create_nsg, CreateNext, Network
    <2>2. call'.op = "create" /\ call'.at = call.at + 1
      BY <1>1, <2>1 DEF CallTyped
    <2>3. cloud[call.ws] \subseteq cloud'[call.ws]
      BY <1>1, <1>2 DEF Create, _create_nsg, CreateNext
    <2> QED
      BY <1>1, <2>1, <2>2, <2>3 DEF CallTyped
  <1>3. CASE _launch_instance
    <2>1. "instance" \in cloud'[call.ws]
      BY <1>1, <1>3 DEF _launch_instance, CreateNext
    <2> QED
      BY <2>1
  <1>4. CASE _launch_with_capacity_fallback
    <2>1. call.op = "create" /\ call.at = 8 /\ UNCHANGED call
      BY <1>4, CreateAt DEF _launch_with_capacity_fallback
    <2> QED
      BY <2>1
  <1>5. CASE _public_ip
    <2>1. call.op = "create" /\ call.at = 9 /\ UNCHANGED cloud /\ call'.op = "provisioned"
      BY <1>5, CreateAt DEF _public_ip, NoCall
    <2> QED
      BY <2>1
  <1>6. CASE CreateFails
    <2>1. call'.op = "undo"
      BY <1>1, <1>6 DEF CreateFails, CallTyped
    <2> QED
      BY <2>1
  <1>7. CASE \/ _instance_boot_volume_ids \/ _terminate_instance
             \/ _wait_for_instance_network_release \/ _wait_for_boot_volume_deletion
             \/ _delete_oci_resource
    <2>1. Deleting # "none"
      BY <1>7 DEF _instance_boot_volume_ids, _terminate_instance,
         _wait_for_instance_network_release, _wait_for_boot_volume_deletion,
         _delete_oci_resource, Network
    <2>2. call.op \in {"undo", "detonate"}
      BY <2>1, DeleteAt
    <2>3. call'.op \notin {"create", "provisioned"}
      BY <2>2, OciEffect DEF Onwards
    <2> QED
      BY <2>3
  <1>8. CASE Deleted
    BY <1>8 DEF Deleted, NoCall
  <1> QED
    BY <1>2, <1>3, <1>4, <1>5, <1>6, <1>7, <1>8 DEF OciStep

-----------------------------------------------------------------------------
(* Bundles.                                                                *)

LEMMA RecordTyped ==
  ASSUME NEW b, b.files \subseteq DURABLE_STATE_SOURCES, b.drill \in DrillProofs, b.safe \in BOOLEAN
  PROVE  build_run_record(b) \in Record
  <1> DEFINE sources == b.files \cup {"run_record"}
             before  == ChecksBefore(b, sources)
             aligned == b.safe /\ before = Checks \ {"detonation"}
  <1>1. sources \subseteq DURABLE_STATE_SOURCES
    BY DEF DURABLE_STATE_SOURCES
  <1>2. before \subseteq Checks
    BY DEF ChecksBefore, Checks
  <1>3. _worker_replacement_drill_summary(b.drill) \in DrillProofs \cup {"absent"}
    BY DEF _worker_replacement_drill_summary
  <1>4. aligned \in BOOLEAN
    BY DEF Checks
  <1>5. before \cup (IF _recording_detonation_ready(aligned, b) THEN {"detonation"} ELSE {})
          \subseteq Checks
    BY <1>2 DEF Checks
  <1> HIDE DEF sources, before, aligned
  <1>6. [sources |-> sources, drill |-> _worker_replacement_drill_summary(b.drill),
         safe |-> b.safe, preflightSafe |-> aligned,
         contract |-> before \cup (IF _recording_detonation_ready(aligned, b)
                                   THEN {"detonation"} ELSE {})] \in Record
    BY <1>1, <1>3, <1>4, <1>5 DEF Record
  <1> QED
    BY <1>6 DEF build_run_record, sources, before, aligned

LEMMA WrittenTyped ==
  ASSUME NEW b \in Bundle
  PROVE  write_run_record(b) \in Bundle /\ write_run_record(b).files = b.files
  <1>1. build_run_record(b) \in Record
    BY RecordTyped DEF Bundle
  <1> QED
    BY <1>1 DEF write_run_record, Bundle

LEMMA WorkerBundleTyped ==
  ASSUME NEW verification \in Verifications, NEW safe \in BOOLEAN
  PROVE  /\ WorkerBundle(verification, safe) \in Bundle
         /\ WorkerBundle(verification, safe).files = RequiredSurvivors
  <1> DEFINE b == [files |-> RequiredSurvivors, verification |-> verification,
                   drill |-> "pending", safe |-> safe, detonated |-> FALSE,
                   receipt |-> "none", failedStep |-> FALSE]
  <1>1. /\ RequiredSurvivors \subseteq DURABLE_STATE_SOURCES
        /\ "pending" \in DrillProofs /\ "none" \in Receipts
    BY DEF RequiredSurvivors, DrillProofs, Receipts
  <1>2. build_run_record(b) \in Record
    BY <1>1, RecordTyped
  <1> QED
    BY <1>1, <1>2 DEF WorkerBundle, Bundle

LEMMA WholeIsBundle ==
  ASSUME NEW b, Whole(b)
  PROVE  b \in Bundle /\ b # NoBundle /\ WORKER_REPLACEMENT_SOURCE_IDS \subseteq b.files
  BY DEF Whole, NoBundle, RequiredSurvivors, DURABLE_STATE_SOURCES, WORKER_REPLACEMENT_SOURCE_IDS

SwapFits ==
  /\ swap.phase \in {"clear", "move", "place"} => Whole(swap.staged)
  /\ swap.phase \in {"remove", "replaced"} => Whole(dir)

SwapPhases == {"idle", "clear", "move", "place", "restore", "remove", "fail", "replaced", "failed"}

LEMMA SwapMoves ==
  ASSUME TypeOKBundle, NEW phase \in SwapPhases, SwapTo(phase) \/ SwapEnds(phase)
  PROVE  /\ swap' \in [phase: SwapPhases, staged: Bundle \cup {NoBundle}]
         /\ swap'.phase = phase
  BY DEF TypeOKBundle, SwapPhases, SwapTo, SwapEnds

LEMMA SwapEffect ==
  ASSUME TypeOKBundle, SwapFits, SwapStep
  PROVE  /\ TypeOKBundle' /\ SwapFits'
         /\ swap.phase # "idle" /\ swap'.phase # "idle"
         /\ troubles' = troubles \/ \E kind \in TroubleKinds : Trouble(kind)
  <1> USE DEF SwapPhases
  <1>0. {"rename_new", "rename_old"} \subseteq TroubleKinds
    BY DEF TroubleKinds
  <1>1. CASE ClearBackup
    BY <1>1, SwapMoves DEF ClearBackup, TypeOKBundle, SwapFits, SwapTo
  <1>2. CASE MoveAway
    BY <1>2, SwapMoves DEF MoveAway, TypeOKBundle, SwapFits, SwapTo
  <1>3. CASE MoveAwayFails
    BY <1>0, <1>3, SwapMoves DEF MoveAwayFails, TypeOKBundle, SwapFits, SwapTo
  <1>4. CASE Place
    BY <1>4 DEF Place, TypeOKBundle, SwapFits
  <1>5. CASE PlaceFails
    BY <1>0, <1>5, SwapMoves DEF PlaceFails, TypeOKBundle, SwapFits, SwapTo
  <1>6. CASE Restore
    BY <1>6, SwapMoves DEF Restore, TypeOKBundle, SwapFits, SwapTo
  <1>7. CASE RemoveBackup
    BY <1>7, SwapMoves DEF RemoveBackup, TypeOKBundle, SwapFits, SwapEnds
  <1> QED
    BY <1>1, <1>2, <1>3, <1>4, <1>5, <1>6, <1>7 DEF SwapStep

-----------------------------------------------------------------------------
(* Steps.                                                                  *)

CliPhases == {"down", "provision", "save_vault", "record", "remote", "extract", "retrieved",
              "drill", "drill_save", "ssh", "cloud", "reported", "restore", "resumed",
              "preflight", "attach", "save"}

Outcomes == {"none", "green", "retained", "failed", "crashed"}

CliType == [phase: CliPhases, why: Reasons, ws: Workspaces \cup {0},
            replacement: Workspaces \cup {0}, mine: SUBSET Workspaces, job: JobState,
            vault: SUBSET Workspaces, outcome: Outcomes]

FilesType == [vault: SUBSET Workspaces, ws: Workspaces \cup {0}, job: JobState, safe: BOOLEAN,
              detonated: BOOLEAN, receipt: [ws: Workspaces \cup {0}, complete: BOOLEAN]]

LEMMA LaunchTyped ==
  ASSUME TypeOKLaunch
  PROVE  /\ TypeOKOci /\ TypeOKBundle /\ cli \in CliType /\ files \in FilesType
         /\ setting \in Settings /\ allowed = setting.allowed /\ launched \in Workspaces \cup {0}
         /\ launched \in Nat
  BY NatWorkspaces DEF TypeOKLaunch, CliType, CliPhases, Outcomes, FilesType

LEMMA Numbers ==
  ASSUME TypeOKLaunch
  PROVE  /\ files.ws \in Nat /\ files.receipt.ws \in Nat /\ files.job.id \in Nat
         /\ cli.ws \in Nat /\ cli.replacement \in Nat /\ cli.job.id \in Nat /\ launched \in Nat
  <1>1. Workspaces \cup {0} \subseteq Nat
    BY NatWorkspaces
  <1>2. /\ files.ws \in Workspaces \cup {0} /\ files.receipt.ws \in Workspaces \cup {0}
        /\ cli.ws \in Workspaces \cup {0} /\ cli.replacement \in Workspaces \cup {0}
        /\ launched \in Workspaces \cup {0}
    BY LaunchTyped DEF FilesType, CliType
  <1>3. files.job.id \in Workspaces \cup {0} /\ cli.job.id \in Workspaces \cup {0}
    BY LaunchTyped DEF FilesType, CliType, JobState
  <1> QED
    BY <1>1, <1>2, <1>3

LEMMA LaunchTypedNext ==
  ASSUME TypeOKOci', TypeOKBundle', cli' \in CliType, files' \in FilesType,
         setting' \in Settings, allowed' = setting'.allowed, launched' \in Workspaces \cup {0}
  PROVE  TypeOKLaunch'
  BY DEF TypeOKLaunch, CliType, CliPhases, Outcomes, FilesType

LEMMA OciStays ==
  ASSUME TypeOKOci, UNCHANGED <<cloud, ids, call, deleted, failed, allowed, troubles>>
  PROVE  TypeOKOci'
  BY OciTyped, OciTypedNext DEF CallTyped, TroublesTyped

(* The process starts a call, or leaves one.                               *)
LEMMA OciCalled ==
  ASSUME TypeOKOci, TroublesTyped, UNCHANGED <<cloud, ids, allowed>>,
         call' = call \/ \E op \in {"create", "detonate", "none"}, w \in Workspaces \cup {0} :
                           call' = NoCall(op, w),
         deleted' \subseteq Reports, failed' \subseteq Reports
  PROVE  TypeOKOci'
  <1>1. CASE call' = call
    BY <1>1, OciTyped, OciTypedNext DEF CallTyped
  <1>2. ASSUME NEW op \in {"create", "detonate", "none"}, NEW w \in Workspaces \cup {0},
               call' = NoCall(op, w)
        PROVE  TypeOKOci'
    <2>1. CallTyped'
      BY <1>2 DEF CallTyped, NoCall
    <2> QED
      BY <2>1, OciTyped, OciTypedNext
  <1> QED
    BY <1>1, <1>2

LEMMA BundleStays ==
  ASSUME TypeOKBundle, UNCHANGED bundleVars
  PROVE  TypeOKBundle'
  BY DEF TypeOKBundle, bundleVars

(* Jobs. *)
LEMMA MarkTyped ==
  ASSUME NEW j \in JobState, NEW s \in StepNames,
         NEW status \in {"absent", "pending", "running", "done", "skipped", "failed"}
  PROVE  /\ mark(j, s, status) \in JobState /\ mark(j, s, status).id = j.id
         /\ FailedSteps(mark(j, s, status)) =
              IF status = "failed" THEN FailedSteps(j) \cup {s} ELSE FailedSteps(j) \ {s}
  BY DEF JobState, mark, FailedSteps

LEMMA CreateTyped ==
  ASSUME NEW n \in Workspaces \cup {0}
  PROVE  create(n) \in JobState /\ create(n).id = n /\ ~HasFailed(create(n))
  BY DEF JobState, create, HasFailed, FailedSteps

(* The newest workspace is the last of a vault.                            *)
LEMMA LatestAdded ==
  ASSUME NEW vault \in SUBSET Workspaces, HasLatest(vault), NEW w \in Workspaces
  PROVE  HasLatest(vault \cup {w})
  <1>1. CASE vault = {}
    BY <1>1, NatWorkspaces DEF HasLatest
  <1>2. ASSUME NEW m \in vault, \A v \in vault : v <= m
        PROVE  HasLatest(vault \cup {w})
    <2>1. CASE m <= w
      <3>1. \A v \in vault \cup {w} : v <= w
        BY <1>2, <2>1, NatWorkspaces
      <3> QED
        BY <3>1 DEF HasLatest
    <2>2. CASE ~(m <= w)
      <3>1. \A v \in vault \cup {w} : v <= m
        BY <1>2, <2>2, NatWorkspaces
      <3> QED
        BY <3>1 DEF HasLatest
    <2> QED
      BY <2>1, <2>2
  <1> QED
    BY <1>1, <1>2 DEF HasLatest

LEMMA LatestInVault ==
  ASSUME HasLatest(files.vault), files.vault # {}
  PROVE  latest_workspace_from_vault \in files.vault
  BY DEF HasLatest, latest_workspace_from_vault

(* A complete report that is true leaves nothing.                          *)
LEMMA CompleteIsGone ==
  ASSUME NEW resources \in SUBSET Resources, Gone(deleted, resources),
         _workspace_detonation_complete
  PROVE  resources = {}
  BY DEF Gone, _workspace_detonation_complete, CloudSide, Resources, Network

-----------------------------------------------------------------------------
(* The process ends.                                                       *)
LEMMA EndStep ==
  ASSUME LaunchInv, cli.phase # "down", NEW o \in Outcomes, Ends(o),
         o = "green" => \A w \in cli.mine : cloud[w] = {},
         call' = NoCall("none", 0) \/ (call.op = "none" /\ UNCHANGED call),
         TroublesTyped, UNCHANGED <<setting, launched, cloud, ids, allowed, deleted, failed>>,
         UNCHANGED <<dir, backup, kept>>,
         SwapEnds("idle") \/ (swap.phase = "idle" /\ UNCHANGED swap)
           \/ swap' = [swap EXCEPT !.phase = "idle"],
         files' = files \/ \E job \in JobState : job.id <= launched
                                                  /\ files' = [files EXCEPT !.job = job]
  PROVE  LaunchInv'
  <1> USE DEF LaunchInv
  <1>1. /\ cli' \in CliType /\ cli'.phase = "down" /\ cli'.why = "none" /\ cli'.outcome = o
        /\ cli'.mine = cli.mine /\ cli'.vault = {} /\ cli'.ws = 0 /\ cli'.replacement = 0
        /\ cli'.job = NoJob
    BY LaunchTyped, CreateTyped DEF Ends, Stopped, CliType, CliPhases, Reasons, NoJob
  <1>2. /\ files' \in FilesType /\ files'.vault = files.vault /\ files'.ws = files.ws
        /\ files'.receipt = files.receipt /\ files'.job.id <= launched
    BY LaunchTyped DEF FilesType, Past
  <1>3. swap' \in [phase: SwapPhases, staged: Bundle \cup {NoBundle}] /\ swap'.phase = "idle"
    BY LaunchTyped DEF TypeOKBundle, SwapEnds, SwapPhases
  <1>4. call'.op = "none"
    BY DEF NoCall
  <1>5. TypeOKLaunch'
    <2>1. TypeOKBundle'
      BY <1>3, LaunchTyped DEF TypeOKBundle, SwapPhases
    <2>2. TypeOKOci'
      BY OciCalled, LaunchTyped, OciTyped
    <2> QED
      BY <1>1, <1>2, <2>1, <2>2, LaunchTyped, LaunchTypedNext
  <1>6. CallFits' /\ WhyFits'
    BY <1>1, <1>4 DEF CallFits, WhyFits, Detonating
  <1>7. Fleet'
    BY <1>1 DEF Fleet, Early, Drilling, Detonating
  <1>8. Past' /\ HasLatest(files.vault)' /\ HasLatest(cli.vault)'
    BY <1>1, <1>2, LaunchTyped DEF Past, HasLatest, NoJob, create
  <1>9. ReportTrue' /\ InstanceUp' /\ ReceiptFits'
    BY <1>1, <1>2, <1>4 DEF ReportTrue, InstanceUp, ReceiptFits
  <1>10. BundleFits' /\ JobFits'
    BY <1>1, <1>3 DEF BundleFits, JobFits, Detonating
  <1>11. ReceiptMeansGone' /\ RestorableBeforeDestroyed' /\ GreenMeansDetonated'
    BY <1>1, <1>2 DEF ReceiptMeansGone, RestorableBeforeDestroyed, GreenMeansDetonated
  <1> QED
    BY <1>5, <1>6, <1>7, <1>8, <1>9, <1>10, <1>11

(* The process turns to a detonation.                                      *)
LEMMA DetonateStep ==
  ASSUME LaunchInv, cli.phase # "down",
         NEW reason \in {"setup_failed", "verify_failed", "success", "drill", "drill_failed"},
         NEW job \in JobState, DetonateFor(reason, job),
         job.id <= launched, cli.ws \in Workspaces, ~HasFailed(files.job),
         reason \in {"drill", "drill_failed"} =>
           cli.replacement = launched /\ launched \in Workspaces,
         reason = "drill" =>
           /\ Drilling /\ ~HasFailed(job)
           /\ cli.replacement \in cli.vault /\ "instance" \in cloud[cli.replacement]
           /\ files' = [files EXCEPT !.vault = cli.vault],
         reason \in {"setup_failed", "verify_failed", "success"} =>
           \A w \in cli.mine \ {cli.ws} : cloud[w] = {},
         reason # "setup_failed" => Whole(dir),
         reason # "drill" => files' = files \/ files' = [files EXCEPT !.safe = TRUE],
         call' = NoCall("none", 0) \/ (call.op = "none" /\ UNCHANGED call),
         TroublesTyped, UNCHANGED <<setting, launched, cloud, ids, allowed, deleted, failed>>,
         UNCHANGED <<dir, backup, kept>>,
         (swap.phase = "idle" /\ UNCHANGED swap) \/ swap' = [swap EXCEPT !.phase = "idle"],
         cli.outcome # "green"
  PROVE  LaunchInv'
  <1> USE DEF LaunchInv
  <1>1. /\ cli' \in CliType /\ cli'.phase = "ssh" /\ cli'.why = reason
        /\ cli'.outcome = cli.outcome /\ cli'.mine = cli.mine /\ cli'.vault = cli.vault
        /\ cli'.ws = cli.ws /\ cli'.replacement = cli.replacement /\ cli'.job = job
    BY LaunchTyped DEF DetonateFor, CliType, CliPhases, Reasons
  <1>2. /\ files' \in FilesType /\ files'.ws = files.ws /\ files'.job = files.job
        /\ files'.receipt = files.receipt
        /\ files'.vault = IF reason = "drill" THEN cli.vault ELSE files.vault
    BY LaunchTyped DEF FilesType, CliType
  <1>3. swap' \in [phase: SwapPhases, staged: Bundle \cup {NoBundle}] /\ swap'.phase = "idle"
    BY LaunchTyped DEF TypeOKBundle, SwapPhases
  <1>4. call'.op = "none"
    BY DEF NoCall
  <1>5. TypeOKLaunch'
    <2>1. TypeOKBundle'
      BY <1>3, LaunchTyped DEF TypeOKBundle, SwapPhases
    <2>2. TypeOKOci'
      BY OciCalled, LaunchTyped, OciTyped
    <2> QED
      BY <1>1, <1>2, <2>1, <2>2, LaunchTyped, LaunchTypedNext
  <1>6. CallFits' /\ WhyFits'
    BY <1>1, <1>4 DEF CallFits, WhyFits, Detonating, Early
  <1>7. Fleet'
    <2>1. reason = "drill" => cli.mine = {cli.ws, launched} /\ cli.ws < launched
      BY DEF Fleet
    <2> QED
      BY <1>1, <2>1 DEF Fleet, Early, Drilling, Detonating
  <1>8. Past' /\ HasLatest(files.vault)' /\ HasLatest(cli.vault)'
    BY <1>1, <1>2 DEF Past, HasLatest
  <1>9. ReportTrue' /\ InstanceUp' /\ ReceiptFits'
    BY <1>1, <1>2, <1>4 DEF ReportTrue, InstanceUp, ReceiptFits
  <1>10. BundleFits' /\ JobFits'
    BY <1>1, <1>2, <1>3 DEF BundleFits, JobFits, Detonating
  <1>11. ReceiptMeansGone' /\ RestorableBeforeDestroyed' /\ GreenMeansDetonated'
    BY <1>1, <1>2, WholeIsBundle
    DEF ReceiptMeansGone, RestorableBeforeDestroyed, GreenMeansDetonated
  <1> QED
    BY <1>5, <1>6, <1>7, <1>8, <1>9, <1>10, <1>11

LEMMA StayingTroubles ==
  ASSUME TypeOKOci, UNCHANGED troubles
  PROVE  TroublesTyped
  BY OciTyped DEF TroublesTyped

(* A setup that fails ends in a kept workspace or in its detonation.       *)
LEMMA SetupFailsStep ==
  ASSUME LaunchInv, cli.phase \in {"remote", "extract"}, SetupFails,
         TroublesTyped, UNCHANGED <<setting, launched, cloud, ids, call, allowed, deleted, failed>>,
         UNCHANGED <<dir, backup, kept>>,
         (swap.phase = "idle" /\ UNCHANGED swap) \/ swap' = [swap EXCEPT !.phase = "idle"]
  PROVE  LaunchInv'
  <1> DEFINE job == mark(cli.job, "setup", "failed")
  <1>1. cli \in CliType /\ cli.job \in JobState /\ {"setup", "detonate"} \subseteq StepNames
    BY LaunchTyped DEF LaunchInv, CliType, StepNames
  <1>2. job \in JobState /\ job.id = cli.job.id
    BY <1>1, MarkTyped
  <1>3. mark(job, "detonate", "skipped") \in JobState /\ mark(job, "detonate", "skipped").id = job.id
    BY <1>1, <1>2, MarkTyped
  <1>4. call.op = "none" /\ cli.job.id <= launched /\ cli.outcome = "none" /\ ~HasFailed(files.job)
    BY DEF LaunchInv, CallFits, Past, WhyFits, JobFits, Early
  <1>5. cli.ws \in Workspaces /\ cli.mine \ {cli.ws} = {}
    BY DEF LaunchInv, Fleet, Early
  <1>6. CASE Keeps(job, "failed")
    BY <1>1, <1>2, <1>3, <1>4, <1>6, EndStep DEF Keeps, Outcomes
  <1>7. CASE DetonateFor("setup_failed", job) /\ UNCHANGED files
    BY <1>1, <1>2, <1>4, <1>5, <1>7, DetonateStep
  <1> QED
    BY <1>6, <1>7 DEF SetupFails

LEMMA RemoteSetupFailsStep ==
  ASSUME LaunchInv, RemoteSetupFails
  PROVE  LaunchInv'
  <1>1. TroublesTyped
    BY LaunchTyped, TroubleOrNot DEF LaunchInv, RemoteSetupFails, TroubleKinds
  <1>2. swap.phase = "idle"
    BY DEF RemoteSetupFails, LaunchInv, BundleFits
  <1> QED
    BY <1>1, <1>2, SetupFailsStep DEF RemoteSetupFails, Rigid, bundleVars

LEMMA RemoteTimesOutStep ==
  ASSUME LaunchInv, RemoteTimesOut
  PROVE  LaunchInv'
  <1>1. TroublesTyped
    BY LaunchTyped, TroubleOrNot DEF LaunchInv, RemoteTimesOut, TroubleKinds
  <1>2. swap.phase = "idle" /\ call.op = "none"
    BY DEF RemoteTimesOut, LaunchInv, BundleFits, CallFits
  <1> QED
    BY <1>1, <1>2, EndStep DEF RemoteTimesOut, Rigid, bundleVars, Outcomes

LEMMA RetrievalFailsStep ==
  ASSUME LaunchInv, RetrievalFails
  PROVE  LaunchInv'
  <1>1. UNCHANGED <<setting, launched, cloud, ids, call, deleted, failed, allowed, troubles, dir,
                    backup, kept>>
    BY DEF RetrievalFails, SwapFinished, ociVars
  <1>2. TroublesTyped
    BY <1>1, LaunchTyped, StayingTroubles DEF LaunchInv
  <1> QED
    BY <1>1, <1>2, SetupFailsStep DEF RetrievalFails, SwapFinished

(* Steps that only the process and its files take part in.                 *)
LEMMA OwnStep ==
  ASSUME LaunchInv, OwnOnly
  PROVE  /\ UNCHANGED <<launched, cloud, ids, call, deleted, failed, allowed, troubles, dir, backup,
                        swap, kept>>
         /\ TroublesTyped /\ TypeOKOci' /\ TypeOKBundle'
  BY LaunchTyped, StayingTroubles, OciStays, BundleStays DEF LaunchInv, OwnOnly, ociVars, bundleVars

LEMMA VerificationFailedStep ==
  ASSUME LaunchInv, VerificationFailed
  PROVE  LaunchInv'
  <1> DEFINE job == mark(cli.job, "verify", "failed")
  <1>0. FilesOnly
    BY DEF VerificationFailed
  <1>1. cli.phase = "retrieved" /\ cli.job \in JobState /\ {"verify", "detonate"} \subseteq StepNames
    BY LaunchTyped DEF LaunchInv, CliType, StepNames, VerificationFailed
  <1>2. job \in JobState /\ job.id = cli.job.id
    BY <1>1, MarkTyped
  <1>3. mark(job, "detonate", "skipped") \in JobState /\ mark(job, "detonate", "skipped").id = job.id
    BY <1>1, <1>2, MarkTyped
  <1>4. call.op = "none" /\ cli.job.id <= launched /\ cli.outcome = "none" /\ ~HasFailed(files.job)
    BY <1>1 DEF LaunchInv, CallFits, Past, WhyFits, JobFits, Early
  <1>5. cli.ws \in Workspaces /\ cli.mine \ {cli.ws} = {} /\ swap.phase = "idle" /\ Whole(dir)
    BY <1>1 DEF LaunchInv, Fleet, Early, BundleFits
  <1>6. /\ UNCHANGED <<setting, launched, cloud, ids, call, deleted, failed, allowed, dir, backup,
                       swap, kept>>
        /\ TroublesTyped
    BY <1>0, OwnStep DEF FilesOnly
  <1>7. CASE Keeps(job, "failed")
    BY <1>1, <1>2, <1>3, <1>4, <1>5, <1>6, <1>7, EndStep DEF Keeps, Outcomes
  <1>8. CASE DetonateFor("verify_failed", job) /\ UNCHANGED files
    BY <1>1, <1>2, <1>4, <1>5, <1>6, <1>8, DetonateStep
  <1> QED
    BY <1>7, <1>8 DEF VerificationFailed

LEMMA RetainsStep ==
  ASSUME LaunchInv, Retains
  PROVE  LaunchInv'
  <1>0. FilesOnly
    BY DEF Retains
  <1>1. cli.phase = "retrieved" /\ cli.job \in JobState /\ {"verify", "detonate"} \subseteq StepNames
    BY LaunchTyped DEF LaunchInv, CliType, StepNames, Retains
  <1>2. PICK status \in {"done", "pending"} : Keeps(mark(cli.job, "verify", status), "retained")
    BY DEF Retains
  <1> DEFINE job == mark(cli.job, "verify", status)
  <1>3. job \in JobState /\ job.id = cli.job.id
    <2>1. CASE status = "done"
      BY <1>1, <2>1, MarkTyped
    <2>2. CASE status = "pending"
      BY <1>1, <2>2, MarkTyped
    <2> QED
      BY <2>1, <2>2
  <1>4. mark(job, "detonate", "skipped") \in JobState /\ mark(job, "detonate", "skipped").id = job.id
    BY <1>1, <1>3, MarkTyped
  <1>5. call.op = "none" /\ cli.job.id <= launched /\ swap.phase = "idle"
    BY <1>1 DEF LaunchInv, CallFits, Past, BundleFits
  <1>6. /\ UNCHANGED <<setting, launched, cloud, ids, call, deleted, failed, allowed, dir, backup,
                       swap, kept>>
        /\ TroublesTyped
    BY <1>0, OwnStep DEF FilesOnly
  <1> QED
    BY <1>1, <1>2, <1>3, <1>4, <1>5, <1>6, EndStep DEF Keeps, Outcomes

LEMMA CallEndsStep ==
  ASSUME LaunchInv, CallEnds, UNCHANGED allowed
  PROVE  /\ TypeOKOci' /\ TroublesTyped /\ call' = NoCall("none", 0) /\ call'.op = "none"
         /\ UNCHANGED <<cloud, ids, deleted, failed, troubles>>
  <1>1. call' = NoCall("none", 0) /\ UNCHANGED <<cloud, ids, deleted, failed, troubles>>
    BY DEF CallEnds
  <1>2. TypeOKOci /\ TroublesTyped
    BY <1>1, LaunchTyped, StayingTroubles DEF LaunchInv
  <1> QED
    BY <1>1, <1>2, OciTyped, OciCalled DEF NoCall

LEMMA ProvisionRefusedStep ==
  ASSUME LaunchInv, ProvisionRefused
  PROVE  LaunchInv'
  <1>1. /\ cli.phase = "provision" /\ Ends("failed")
        /\ UNCHANGED <<files, setting, launched, allowed, dir, backup, swap, kept>>
    BY DEF ProvisionRefused, Rigid, bundleVars
  <1>2. TroublesTyped /\ call' = NoCall("none", 0) /\ UNCHANGED <<cloud, ids, deleted, failed>>
    BY <1>1, CallEndsStep DEF ProvisionRefused
  <1>3. swap.phase = "idle"
    BY <1>1 DEF LaunchInv, BundleFits
  <1> QED
    BY <1>1, <1>2, <1>3, EndStep DEF Outcomes

(* A drill that gets no replacement, or that its original's detonation     *)
(* ends, is recorded as failed.                                            *)
LEMMA DrillEndsBadlyStep ==
  ASSUME LaunchInv, cli.phase \in {"drill", "reported"}, DrillEndsBadly,
         call' = NoCall("none", 0) \/ (call.op = "none" /\ UNCHANGED call),
         TroublesTyped, UNCHANGED <<setting, launched, cloud, ids, allowed, deleted, failed>>,
         UNCHANGED <<dir, backup, swap, kept>>
  PROVE  LaunchInv'
  <1>1. cli.job \in JobState /\ "replace" \in StepNames
    BY LaunchTyped DEF LaunchInv, CliType, StepNames
  <1>2. /\ mark(cli.job, "replace", "failed") \in JobState
        /\ mark(cli.job, "replace", "failed").id <= launched
    BY <1>1, MarkTyped DEF LaunchInv, Past
  <1>3. swap.phase = "idle"
    BY DEF LaunchInv, BundleFits
  <1> QED
    BY <1>2, <1>3, EndStep DEF DrillEndsBadly, Outcomes

LEMMA DrillRefusedStep ==
  ASSUME LaunchInv, DrillRefused
  PROVE  LaunchInv'
  <1>1. /\ cli.phase = "drill" /\ DrillEndsBadly
        /\ UNCHANGED <<setting, launched, allowed, dir, backup, swap, kept>>
    BY DEF DrillRefused, Rigid, bundleVars
  <1>2. TroublesTyped /\ call' = NoCall("none", 0) /\ UNCHANGED <<cloud, ids, deleted, failed>>
    BY <1>1, CallEndsStep DEF DrillRefused
  <1> QED
    BY <1>1, <1>2, DrillEndsBadlyStep

LEMMA DrillFailedStep ==
  ASSUME LaunchInv, DrillFailed
  PROVE  LaunchInv'
  <1>1. cli.phase = "reported" /\ DrillEndsBadly /\ FilesOnly /\ call.op = "none"
    BY DEF DrillFailed, LaunchInv, CallFits
  <1>2. /\ UNCHANGED <<setting, launched, cloud, ids, call, deleted, failed, allowed, dir, backup,
                       swap, kept>>
        /\ TroublesTyped
    BY <1>1, OwnStep DEF FilesOnly
  <1> QED
    BY <1>1, <1>2, DrillEndsBadlyStep

(* The drill's detonation of the original did not go well: the replacement *)
(* goes too.                                                               *)
LEMMA DrillFailsStep ==
  ASSUME LaunchInv, cli.why = "drill", cli.phase \in {"ssh", "cloud", "reported", "restore"},
         DetonateFor("drill_failed", cli.job),
         call' = NoCall("none", 0) \/ (call.op = "none" /\ UNCHANGED call),
         TroublesTyped,
         UNCHANGED <<setting, files, launched, cloud, ids, allowed, deleted, failed>>,
         UNCHANGED <<dir, backup, swap, kept>>
  PROVE  LaunchInv'
  <1>1. cli.job \in JobState /\ cli.job.id <= launched
    BY LaunchTyped DEF LaunchInv, CliType, Past
  <1>2. Drilling
    BY DEF Drilling, Detonating
  <1>3. cli.ws \in Workspaces /\ cli.replacement = launched /\ launched \in Workspaces
    BY <1>2 DEF LaunchInv, Fleet
  <1>4. swap.phase = "idle" /\ Whole(dir) /\ ~HasFailed(files.job) /\ cli.outcome = "none"
    BY DEF LaunchInv, BundleFits, JobFits, WhyFits
  <1> QED
    BY <1>1, <1>3, <1>4, DetonateStep

LEMMA DetonationRaisesStep ==
  ASSUME LaunchInv, DetonationRaises
  PROVE  LaunchInv'
  <1>1. /\ cli.phase = "cloud"
        /\ UNCHANGED <<files, setting, launched, allowed, dir, backup, swap, kept>>
    BY DEF DetonationRaises, Rigid, bundleVars
  <1>2. TroublesTyped /\ call' = NoCall("none", 0) /\ UNCHANGED <<cloud, ids, deleted, failed>>
    BY <1>1, CallEndsStep DEF DetonationRaises
  <1>3. CASE cli.why = "drill"
    BY <1>1, <1>2, <1>3, DrillFailsStep DEF DetonationRaises
  <1>4. CASE cli.why # "drill"
    <2>1. swap.phase = "idle"
      BY <1>1 DEF LaunchInv, BundleFits
    <2> QED
      BY <1>1, <1>2, <1>4, <2>1, EndStep DEF DetonationRaises, Outcomes
  <1> QED
    BY <1>3, <1>4

LEMMA DetonationTimesOutStep ==
  ASSUME LaunchInv, DetonationTimesOut
  PROVE  LaunchInv'
  <1>1. /\ cli.phase = "ssh"
        /\ UNCHANGED <<files, setting, launched, allowed, cloud, ids, call, deleted, failed>>
        /\ UNCHANGED <<dir, backup, swap, kept>>
    BY DEF DetonationTimesOut, Rigid, bundleVars
  <1>2. TroublesTyped
    BY LaunchTyped, TroubleOrNot DEF LaunchInv, DetonationTimesOut, TroubleKinds
  <1>3. swap.phase = "idle" /\ call.op = "none"
    BY <1>1 DEF LaunchInv, BundleFits, CallFits
  <1>4. CASE cli.why = "drill"
    BY <1>1, <1>2, <1>3, <1>4, DrillFailsStep DEF DetonationTimesOut
  <1>5. CASE cli.why # "drill"
    BY <1>1, <1>2, <1>3, <1>5, EndStep DEF DetonationTimesOut, Outcomes
  <1> QED
    BY <1>4, <1>5

LEMMA RestoreFailsStep ==
  ASSUME LaunchInv, RestoreFails
  PROVE  LaunchInv'
  <1>1. /\ cli.phase = "restore" /\ DetonateFor("drill_failed", cli.job)
        /\ UNCHANGED <<setting, files, launched, cloud, ids, call, deleted, failed, allowed>>
        /\ UNCHANGED <<dir, backup, swap, kept>>
    BY DEF RestoreFails, bundleVars
  <1>2. TroublesTyped
    <2>1. UNCHANGED troubles \/ \E kind \in {"ssh", "remote", "timeout"} : Trouble(kind)
      BY DEF RestoreFails
    <2> QED
      BY <2>1, LaunchTyped, TroubleOrNot DEF LaunchInv, TroubleKinds
  <1>3. cli.why = "drill" /\ call.op = "none"
    BY <1>1 DEF LaunchInv, WhyFits, CallFits
  <1> QED
    BY <1>1, <1>2, <1>3, DrillFailsStep

LEMMA DrillSaveStep ==
  ASSUME LaunchInv, DrillSave
  PROVE  LaunchInv'
  <1>1. /\ cli.phase = "drill_save" /\ files' = [files EXCEPT !.vault = cli.vault]
        /\ DetonateFor("drill", cli.job) /\ FilesOnly
    BY DEF DrillSave
  <1>2. /\ UNCHANGED <<setting, launched, cloud, ids, call, deleted, failed, allowed, dir, backup,
                       swap, kept>>
        /\ TroublesTyped
    BY <1>1, OwnStep DEF FilesOnly
  <1>3. cli.job \in JobState /\ cli.job.id <= launched
    BY LaunchTyped DEF LaunchInv, CliType, Past
  <1>4. Drilling
    BY <1>1 DEF Drilling
  <1>5. cli.ws \in Workspaces /\ cli.replacement = launched /\ launched \in Workspaces
    BY <1>1, <1>4 DEF LaunchInv, Fleet
  <1>6. /\ swap.phase = "idle" /\ Whole(dir) /\ cli.outcome = "none" /\ call.op = "none"
        /\ ~HasFailed(files.job) /\ ~HasFailed(cli.job)
    BY <1>1 DEF LaunchInv, BundleFits, JobFits, WhyFits, CallFits, Detonating, Early
  <1>7. cli.replacement \in cli.vault /\ "instance" \in cloud[cli.replacement]
    BY <1>1 DEF LaunchInv, ReceiptFits, InstanceUp
  <1> QED
    BY <1>1, <1>2, <1>3, <1>4, <1>5, <1>6, <1>7, DetonateStep

LEMMA PreflightStep ==
  ASSUME LaunchInv, _run_remote_detonation_preflight
  PROVE  LaunchInv'
  <1>1. cli.phase = "preflight" /\ FilesOnly
    BY DEF _run_remote_detonation_preflight
  <1>2. /\ UNCHANGED <<setting, launched, cloud, ids, call, deleted, failed, allowed, dir, backup,
                       swap, kept>>
        /\ TroublesTyped
    BY <1>1, OwnStep DEF FilesOnly
  <1>3. cli.job \in JobState /\ cli.job.id <= launched
    BY LaunchTyped DEF LaunchInv, CliType, Past
  <1>4. cli.ws \in Workspaces /\ \A w \in cli.mine \ {cli.ws} : cloud[w] = {}
    BY <1>1 DEF LaunchInv, Fleet
  <1>5. /\ swap.phase = "idle" /\ Whole(dir) /\ cli.outcome = "none" /\ call.op = "none"
        /\ ~HasFailed(files.job)
    BY <1>1 DEF LaunchInv, BundleFits, JobFits, WhyFits, CallFits
  <1>6. CASE files' = [files EXCEPT !.safe = TRUE] /\ DetonateFor("success", cli.job)
    BY <1>1, <1>2, <1>3, <1>4, <1>5, <1>6, DetonateStep
  <1>7. CASE UNCHANGED files /\ Ends("failed")
    BY <1>1, <1>2, <1>5, <1>7, EndStep DEF Outcomes
  <1> QED
    BY <1>6, <1>7 DEF _run_remote_detonation_preflight

LEMMA SaveJobStep ==
  ASSUME LaunchInv, SaveJob
  PROVE  LaunchInv'
  <1>1. /\ cli.phase = "save" /\ files' = [files EXCEPT !.job = cli.job] /\ FilesOnly
        /\ Ends(IF cli.why = "manual" THEN "none"
                ELSE IF cli.why = "success" /\ files.receipt.complete THEN "green" ELSE "failed")
    BY DEF SaveJob
  <1>2. /\ UNCHANGED <<setting, launched, cloud, ids, call, deleted, failed, allowed, dir, backup,
                       swap, kept>>
        /\ TroublesTyped
    BY <1>1, OwnStep DEF FilesOnly
  <1>3. cli.job \in JobState /\ cli.job.id <= launched
    BY LaunchTyped DEF LaunchInv, CliType, Past
  <1>4. swap.phase = "idle" /\ call.op = "none"
    BY <1>1 DEF LaunchInv, BundleFits, CallFits
  <1>5. cli.why = "success" /\ files.receipt.complete => \A w \in cli.mine : cloud[w] = {}
    BY <1>1 DEF LaunchInv, Fleet, ReceiptFits, ReceiptMeansGone
  <1> QED
    BY <1>1, <1>2, <1>3, <1>4, <1>5, EndStep DEF Outcomes

LEMMA CrashStep ==
  ASSUME LaunchInv, Crash
  PROVE  LaunchInv'
  <1>1. TroublesTyped
    BY LaunchTyped, TroubleOrNot DEF LaunchInv, Crash, TroubleKinds
  <1> QED
    BY <1>1, EndStep DEF Crash, Rigid, Outcomes

LEMMA SaveVaultStep ==
  ASSUME LaunchInv, SaveVault
  PROVE  LaunchInv'
  <1> USE DEF LaunchInv
  <1>1. /\ cli.phase = "save_vault" /\ files' = [files EXCEPT !.vault = cli.vault]
        /\ cli' = [cli EXCEPT !.phase = "record"] /\ FilesOnly
    BY DEF SaveVault
  <1>2. /\ UNCHANGED <<setting, launched, cloud, ids, call, deleted, failed, allowed, dir, backup,
                       swap, kept>>
        /\ TypeOKOci' /\ TypeOKBundle'
    BY <1>1, OwnStep DEF FilesOnly
  <1>3. cli' \in CliType /\ files' \in FilesType
    BY <1>1, LaunchTyped DEF CliType, CliPhases, FilesType
  <1>4. TypeOKLaunch'
    BY <1>2, <1>3, LaunchTyped, LaunchTypedNext
  <1>5. CallFits' /\ WhyFits'
    BY <1>1, <1>2, LaunchTyped DEF CallFits, WhyFits, CliType, Early, Detonating
  <1>6. Fleet'
    BY <1>1, <1>2, LaunchTyped DEF Fleet, WhyFits, CliType, Early, Drilling, Detonating
  <1>7. Past' /\ HasLatest(files.vault)' /\ HasLatest(cli.vault)'
    BY <1>1, <1>2, LaunchTyped DEF Past, HasLatest, CliType, FilesType
  <1>8. ReportTrue' /\ InstanceUp' /\ ReceiptFits'
    BY <1>1, <1>2, LaunchTyped
    DEF CallFits, ReportTrue, InstanceUp, ReceiptFits, CliType, FilesType
  <1>9. BundleFits' /\ JobFits'
    BY <1>1, <1>2, LaunchTyped DEF BundleFits, WhyFits, JobFits, CliType, FilesType, Early, Detonating
  <1>10. ReceiptMeansGone' /\ RestorableBeforeDestroyed' /\ GreenMeansDetonated'
    BY <1>1, <1>2, LaunchTyped DEF ReceiptMeansGone, RestorableBeforeDestroyed,
       GreenMeansDetonated, WhyFits, CliType, FilesType, Early
  <1> QED
    BY <1>4, <1>5, <1>6, <1>7, <1>8, <1>9, <1>10

LEMMA RecordWorkspaceStep ==
  ASSUME LaunchInv, RecordWorkspace
  PROVE  LaunchInv'
  <1> USE DEF LaunchInv
  <1> DEFINE job == mark(cli.job, "setup", "running")
  <1>1. /\ cli.phase = "record" /\ files' = [files EXCEPT !.ws = cli.ws, !.job = job]
        /\ cli' = [cli EXCEPT !.phase = "remote", !.job = job] /\ FilesOnly
    BY DEF RecordWorkspace
  <1>2. /\ UNCHANGED <<setting, launched, cloud, ids, call, deleted, failed, allowed, dir, backup,
                       swap, kept>>
        /\ TypeOKOci' /\ TypeOKBundle'
    BY <1>1, OwnStep DEF FilesOnly
  <1>3. /\ job \in JobState /\ job.id = cli.job.id
        /\ ~HasFailed(cli.job) => ~HasFailed(job)
    BY LaunchTyped, MarkTyped DEF CliType, StepNames, HasFailed
  <1> HIDE DEF job
  <1>4. cli' \in CliType /\ files' \in FilesType
    BY <1>1, <1>3, LaunchTyped DEF CliType, CliPhases, FilesType
  <1>5. TypeOKLaunch'
    BY <1>2, <1>4, LaunchTyped, LaunchTypedNext
  <1>6. CallFits' /\ WhyFits'
    BY <1>1, <1>2, LaunchTyped DEF CallFits, WhyFits, CliType, Early, Detonating
  <1>7. Fleet'
    BY <1>1, <1>2, LaunchTyped DEF Fleet, WhyFits, CliType, Early, Drilling, Detonating
  <1>8. Past' /\ HasLatest(files.vault)' /\ HasLatest(cli.vault)'
    BY <1>1, <1>2, <1>3, LaunchTyped DEF Past, HasLatest, CliType, FilesType
  <1>9. ReportTrue' /\ InstanceUp' /\ ReceiptFits'
    BY <1>1, <1>2, LaunchTyped
    DEF CallFits, ReportTrue, InstanceUp, ReceiptFits, CliType, FilesType
  <1>10. BundleFits'
    BY <1>1, <1>2, LaunchTyped DEF BundleFits, WhyFits, CliType, Early, Detonating
  <1>11. JobFits'
    BY <1>1, <1>3, LaunchTyped DEF WhyFits, JobFits, CliType, FilesType, Early, Detonating
  <1>12. ReceiptMeansGone' /\ RestorableBeforeDestroyed' /\ GreenMeansDetonated'
    BY <1>1, <1>2, LaunchTyped DEF ReceiptMeansGone, RestorableBeforeDestroyed,
       GreenMeansDetonated, WhyFits, CliType, FilesType, Early
  <1> QED
    BY <1>5, <1>6, <1>7, <1>8, <1>9, <1>10, <1>11, <1>12

LEMMA RecordReplacementStep ==
  ASSUME LaunchInv, RecordReplacement
  PROVE  LaunchInv'
  <1> USE DEF LaunchInv
  <1>1. /\ cli.phase = "resumed" /\ files' = [files EXCEPT !.ws = cli.ws]
        /\ cli' = [cli EXCEPT !.phase = "preflight"] /\ FilesOnly
    BY DEF RecordReplacement
  <1>2. /\ UNCHANGED <<setting, launched, cloud, ids, call, deleted, failed, allowed, dir, backup,
                       swap, kept>>
        /\ TypeOKOci' /\ TypeOKBundle'
    BY <1>1, OwnStep DEF FilesOnly
  <1>3. cli' \in CliType /\ files' \in FilesType
    BY <1>1, LaunchTyped DEF CliType, CliPhases, FilesType
  <1>4. TypeOKLaunch'
    BY <1>2, <1>3, LaunchTyped, LaunchTypedNext
  <1>5. CallFits' /\ WhyFits'
    BY <1>1, <1>2, LaunchTyped DEF CallFits, WhyFits, CliType, Early, Detonating
  <1>6. Fleet'
    BY <1>1, <1>2, LaunchTyped DEF Fleet, WhyFits, CliType, Early, Drilling, Detonating
  <1>7. Past' /\ HasLatest(files.vault)' /\ HasLatest(cli.vault)'
    BY <1>1, <1>2, LaunchTyped DEF Past, HasLatest, CliType, FilesType
  <1>8. ReportTrue' /\ InstanceUp' /\ ReceiptFits'
    BY <1>1, <1>2, LaunchTyped
    DEF CallFits, ReportTrue, InstanceUp, ReceiptFits, CliType, FilesType
  <1>9. BundleFits' /\ JobFits'
    BY <1>1, <1>2, LaunchTyped DEF BundleFits, WhyFits, JobFits, CliType, FilesType, Early, Detonating
  <1>10. ReceiptMeansGone' /\ RestorableBeforeDestroyed' /\ GreenMeansDetonated'
    BY <1>1, <1>2, LaunchTyped DEF ReceiptMeansGone, RestorableBeforeDestroyed,
       GreenMeansDetonated, WhyFits, CliType, FilesType, Early
  <1> QED
    BY <1>4, <1>5, <1>6, <1>7, <1>8, <1>9, <1>10

LEMMA LaunchStep ==
  ASSUME LaunchInv, Launch
  PROVE  LaunchInv'
  <1> USE DEF LaunchInv
  <1> DEFINE job == _load_or_create_launch_job
  <1>1. /\ cli.phase = "down" /\ launched + 2 \in Workspaces /\ launched' = launched + 1
        /\ cli' = [Stopped EXCEPT !.phase = "provision", !.job = job, !.vault = files.vault,
                                  !.mine = {launched + 1}]
        /\ files' = [files EXCEPT !.job = job] /\ provision(launched + 1)
        /\ UNCHANGED <<setting, allowed, dir, backup, swap, kept>>
    BY DEF Launch, Rigid, bundleVars
  <1>2. launched \in Nat /\ launched + 1 \in 1..(launched + 2) /\ launched + 1 \in Workspaces
    BY <1>1, LaunchTyped, NatWorkspaces
  <1>3. job \in JobState /\ job.id <= launched + 1 /\ ~HasFailed(job)
    <2>1. files.job \in JobState /\ files.job.id <= launched /\ files.job.id \in Nat
      BY LaunchTyped, Numbers DEF FilesType, Past
    <2>2. CASE _launch_job_can_resume(files.job)
      BY <1>2, <2>1, <2>2 DEF _load_or_create_launch_job, _launch_job_can_resume, IsActive
    <2>3. CASE ~_launch_job_can_resume(files.job)
      BY <1>2, <2>3, CreateTyped DEF _load_or_create_launch_job
    <2> QED
      BY <2>2, <2>3
  <1> HIDE DEF job
  <1>4. /\ call' = NoCall("create", launched + 1)
        /\ UNCHANGED <<cloud, ids, deleted, failed, troubles>>
    BY <1>1 DEF provision, NoCall
  <1>5. call'.op = "create" /\ call'.ws = launched + 1 /\ call'.at = 1
    BY <1>4 DEF NoCall
  <1>6. /\ cli' \in CliType /\ cli'.phase = "provision" /\ cli'.why = "none" /\ cli'.ws = 0
        /\ cli'.replacement = 0 /\ cli'.mine = {launched + 1} /\ cli'.job = job
        /\ cli'.vault = files.vault /\ cli'.outcome = "none"
    BY <1>1, <1>2, <1>3, LaunchTyped DEF Stopped, CliType, CliPhases, Outcomes, Reasons, FilesType
  <1>7. /\ files' \in FilesType /\ files'.job = job /\ files'.vault = files.vault
        /\ files'.ws = files.ws /\ files'.receipt = files.receipt
    BY <1>1, <1>3, LaunchTyped DEF FilesType
  <1>8. TypeOKLaunch'
    <2>1. TypeOKOci'
      BY <1>1, <1>2, <1>4, LaunchTyped, OciTyped, StayingTroubles, OciCalled
    <2>2. TypeOKBundle'
      BY <1>1, LaunchTyped, BundleStays DEF bundleVars
    <2> QED
      BY <1>1, <1>2, <1>6, <1>7, <2>1, <2>2, LaunchTyped, LaunchTypedNext
  <1>9. CallFits' /\ WhyFits'
    BY <1>1, <1>5, <1>6 DEF CallFits, WhyFits, Early, Detonating
  <1>10. Fleet'
    BY <1>1, <1>2, <1>6 DEF Fleet, Early, Drilling, Detonating
  <1>11. Past'
    <2>1. /\ files.ws \in Nat /\ files.receipt.ws \in Nat /\ files.ws <= launched
          /\ files.receipt.ws <= launched /\ files.vault \subseteq 1..launched
      BY Numbers DEF Past
    <2>2. 1..launched \subseteq 1..launched' /\ launched + 1 \in 1..launched'
      BY <1>1, <1>2
    <2> QED
      BY <1>1, <1>2, <1>3, <1>6, <1>7, <2>1, <2>2 DEF Past
  <1>12. HasLatest(files.vault)' /\ HasLatest(cli.vault)'
    BY <1>6, <1>7 DEF HasLatest
  <1>13. ReportTrue' /\ InstanceUp' /\ ReceiptFits'
    BY <1>5, <1>6, <1>7 DEF ReportTrue, InstanceUp, ReceiptFits
  <1>14. BundleFits' /\ JobFits'
    BY <1>1, <1>3, <1>6, <1>7 DEF BundleFits, JobFits, Detonating
  <1>15. ReceiptMeansGone' /\ RestorableBeforeDestroyed' /\ GreenMeansDetonated'
    BY <1>4, <1>6, <1>7 DEF ReceiptMeansGone, RestorableBeforeDestroyed, GreenMeansDetonated
  <1> QED
    BY <1>8, <1>9, <1>10, <1>11, <1>12, <1>13, <1>14, <1>15

LEMMA ProvisionedStep ==
  ASSUME LaunchInv, Provisioned
  PROVE  LaunchInv'
  <1> USE DEF LaunchInv
  <1>1. /\ cli.phase = "provision" /\ call.op = "provisioned"
        /\ cli' = [cli EXCEPT !.phase = "save_vault", !.ws = call.ws, !.vault = @ \cup {call.ws}]
        /\ UNCHANGED <<files, setting, launched, allowed, dir, backup, swap, kept>>
    BY DEF Provisioned, Rigid, bundleVars
  <1>2. /\ TypeOKOci' /\ call'.op = "none"
        /\ UNCHANGED <<cloud, ids, deleted, failed, troubles>>
    BY <1>1, CallEndsStep DEF Provisioned
  <1>3. /\ call.ws = launched /\ launched \in Workspaces /\ launched + 1 \in Workspaces
        /\ cli.mine = {launched} /\ cli.why = "none" /\ launched \in Nat
    BY <1>1, LaunchTyped DEF CallFits, Fleet, WhyFits
  <1>4. /\ cli' \in CliType /\ cli'.phase = "save_vault" /\ cli'.why = "none" /\ cli'.ws = launched
        /\ cli'.replacement = cli.replacement /\ cli'.mine = {launched} /\ cli'.job = cli.job
        /\ cli'.vault = cli.vault \cup {launched} /\ cli'.outcome = cli.outcome
    BY <1>1, <1>3, LaunchTyped DEF CliType, CliPhases
  <1>5. TypeOKLaunch'
    <2>1. TypeOKBundle'
      BY <1>1, LaunchTyped, BundleStays DEF bundleVars
    <2> QED
      BY <1>1, <1>2, <1>4, <2>1, LaunchTyped, LaunchTypedNext
  <1>6. CallFits' /\ WhyFits'
    BY <1>1, <1>2, <1>4 DEF CallFits, WhyFits, Early, Detonating
  <1>7. Fleet'
    BY <1>1, <1>3, <1>4 DEF Fleet, Early, Drilling, Detonating
  <1>8. Past'
    BY <1>1, <1>3, <1>4 DEF Past
  <1>9. HasLatest(files.vault)' /\ HasLatest(cli.vault)'
    BY <1>1, <1>3, <1>4, LaunchTyped, LatestAdded DEF CliType
  <1>10. ReportTrue' /\ InstanceUp' /\ ReceiptFits'
    BY <1>1, <1>2, <1>4 DEF ReportTrue, InstanceUp, ReceiptFits
  <1>11. BundleFits' /\ JobFits'
    BY <1>1, <1>4 DEF BundleFits, JobFits, Detonating
  <1>12. ReceiptMeansGone' /\ RestorableBeforeDestroyed' /\ GreenMeansDetonated'
    BY <1>1, <1>2, <1>4 DEF ReceiptMeansGone, RestorableBeforeDestroyed, GreenMeansDetonated, WhyFits
  <1> QED
    BY <1>5, <1>6, <1>7, <1>8, <1>9, <1>10, <1>11, <1>12

LEMMA DrillProvisionedStep ==
  ASSUME LaunchInv, DrillProvisioned
  PROVE  LaunchInv'
  <1> USE DEF LaunchInv
  <1>1. /\ cli.phase = "drill" /\ call.op = "provisioned"
        /\ cli' = [cli EXCEPT !.phase = "drill_save", !.replacement = call.ws,
                              !.vault = @ \cup {call.ws}]
        /\ UNCHANGED <<files, setting, launched, allowed, dir, backup, swap, kept>>
    BY DEF DrillProvisioned, Rigid, bundleVars
  <1>2. /\ TypeOKOci' /\ call'.op = "none"
        /\ UNCHANGED <<cloud, ids, deleted, failed, troubles>>
    BY <1>1, CallEndsStep DEF DrillProvisioned
  <1>3. /\ call.ws = launched /\ launched \in Workspaces /\ cli.ws \in Workspaces
        /\ cli.ws < launched
        /\ cli.mine = {cli.ws, launched} /\ cli.why = "none" /\ launched \in Nat
    BY <1>1, LaunchTyped DEF CallFits, Fleet, WhyFits, Drilling
  <1>4. /\ cli' \in CliType /\ cli'.phase = "drill_save" /\ cli'.why = "none" /\ cli'.ws = cli.ws
        /\ cli'.replacement = launched /\ cli'.mine = cli.mine /\ cli'.job = cli.job
        /\ cli'.vault = cli.vault \cup {launched} /\ cli'.outcome = cli.outcome
    BY <1>1, <1>3, LaunchTyped DEF CliType, CliPhases
  <1>5. TypeOKLaunch'
    <2>1. TypeOKBundle'
      BY <1>1, LaunchTyped, BundleStays DEF bundleVars
    <2> QED
      BY <1>1, <1>2, <1>4, <2>1, LaunchTyped, LaunchTypedNext
  <1>6. CallFits' /\ WhyFits'
    BY <1>1, <1>2, <1>4 DEF CallFits, WhyFits, Early, Detonating
  <1>7. Fleet'
    BY <1>1, <1>3, <1>4 DEF Fleet, Early, Drilling, Detonating
  <1>8. Past'
    BY <1>1, <1>3, <1>4 DEF Past
  <1>9. HasLatest(files.vault)' /\ HasLatest(cli.vault)'
    BY <1>1, <1>3, <1>4, LaunchTyped, LatestAdded DEF CliType
  <1>10. ReportTrue' /\ InstanceUp' /\ ReceiptFits'
    BY <1>1, <1>2, <1>3, <1>4 DEF ReportTrue, InstanceUp, ReceiptFits
  <1>11. BundleFits' /\ JobFits'
    BY <1>1, <1>4 DEF BundleFits, JobFits, Detonating
  <1>12. ReceiptMeansGone' /\ RestorableBeforeDestroyed' /\ GreenMeansDetonated'
    BY <1>1, <1>2, <1>4 DEF ReceiptMeansGone, RestorableBeforeDestroyed, GreenMeansDetonated, WhyFits
  <1> QED
    BY <1>5, <1>6, <1>7, <1>8, <1>9, <1>10, <1>11, <1>12

LEMMA DrillStep ==
  ASSUME LaunchInv, _run_oci_worker_replacement_drill
  PROVE  LaunchInv'
  <1> USE DEF LaunchInv
  <1> DEFINE verified == mark(cli.job, "verify", "done")
             job      == mark(verified, "replace", "running")
  <1>1. cli.phase = "retrieved" /\ UNCHANGED <<setting, allowed, dir, backup, swap, kept>>
    BY DEF _run_oci_worker_replacement_drill, Rigid, bundleVars
  <1>2. /\ \/ /\ cli' = [cli EXCEPT !.phase = "preflight", !.job = verified]
              /\ UNCHANGED <<files, launched, ociVars>>
           \/ /\ cli' = [cli EXCEPT !.phase = "drill", !.job = job, !.mine = @ \cup {launched + 1}]
              /\ files' = [files EXCEPT !.job = job]
              /\ launched' = launched + 1
              /\ provision(launched + 1)
    BY DEF _run_oci_worker_replacement_drill
  <1>3. /\ verified \in JobState /\ verified.id = cli.job.id /\ ~HasFailed(verified)
        /\ job \in JobState /\ job.id = cli.job.id /\ ~HasFailed(job)
    <2>1. cli.job \in JobState /\ {"verify", "replace"} \subseteq StepNames /\ ~HasFailed(cli.job)
      <3>1. cli.job \in JobState /\ {"verify", "replace"} \subseteq StepNames
        BY LaunchTyped DEF CliType, StepNames
      <3>2. ~HasFailed(cli.job)
        BY <1>1 DEF JobFits, Detonating
      <3> QED
        BY <3>1, <3>2
    <2>2. verified \in JobState /\ verified.id = cli.job.id
          /\ FailedSteps(verified) = FailedSteps(cli.job) \ {"verify"}
      BY <2>1, MarkTyped
    <2>3. job \in JobState /\ job.id = verified.id
          /\ FailedSteps(job) = FailedSteps(verified) \ {"replace"}
      BY <2>1, <2>2, MarkTyped
    <2> QED
      BY <2>1, <2>2, <2>3 DEF HasFailed
  <1> HIDE DEF verified, job
  <1>4. /\ cli.mine = {launched} /\ launched \in Workspaces /\ launched + 1 \in Workspaces
        /\ cli.ws = launched /\ cli.why = "none" /\ launched \in Nat /\ call.op = "none"
        /\ cli.job.id <= launched /\ swap.phase = "idle" /\ Whole(dir)
    BY <1>1, Numbers DEF Fleet, Early, WhyFits, CallFits, Past, BundleFits
  <1>5. TypeOKBundle'
    BY <1>1, LaunchTyped, BundleStays DEF bundleVars
  <1>6. CASE /\ cli' = [cli EXCEPT !.phase = "preflight", !.job = verified]
             /\ UNCHANGED <<files, launched, ociVars>>
    <2>1. /\ cli' \in CliType /\ cli'.phase = "preflight" /\ cli'.why = "none"
          /\ cli'.ws = launched /\ cli'.replacement = cli.replacement /\ cli'.mine = cli.mine
          /\ cli'.job = verified /\ cli'.vault = cli.vault /\ cli'.outcome = cli.outcome
      BY <1>3, <1>4, <1>6, LaunchTyped DEF CliType, CliPhases
    <2>2. UNCHANGED <<files, launched, cloud, ids, call, deleted, failed, troubles>>
      BY <1>6 DEF ociVars
    <2>3. TypeOKLaunch'
      BY <1>1, <1>5, <2>1, <2>2, LaunchTyped, OciStays, LaunchTypedNext
    <2>4. CallFits' /\ WhyFits'
      BY <1>1, <1>4, <2>1, <2>2 DEF CallFits, WhyFits, Early, Detonating
    <2>5. Fleet'
      BY <1>4, <2>1, <2>2 DEF Fleet, Early, Drilling, Detonating
    <2>6. Past' /\ HasLatest(files.vault)' /\ HasLatest(cli.vault)'
      BY <1>3, <1>4, <2>1, <2>2 DEF Past, HasLatest
    <2>7. ReportTrue' /\ InstanceUp' /\ ReceiptFits'
      BY <1>4, <2>1, <2>2 DEF ReportTrue, InstanceUp, ReceiptFits
    <2>8. BundleFits' /\ JobFits'
      BY <1>1, <1>3, <1>4, <2>1, <2>2 DEF BundleFits, JobFits, Detonating
    <2>9. ReceiptMeansGone' /\ RestorableBeforeDestroyed' /\ GreenMeansDetonated'
      BY <1>1, <2>1, <2>2 DEF ReceiptMeansGone, RestorableBeforeDestroyed, GreenMeansDetonated,
         WhyFits
    <2> QED
      BY <2>3, <2>4, <2>5, <2>6, <2>7, <2>8, <2>9
  <1>7. CASE /\ cli' = [cli EXCEPT !.phase = "drill", !.job = job, !.mine = @ \cup {launched + 1}]
             /\ files' = [files EXCEPT !.job = job]
             /\ launched' = launched + 1
             /\ provision(launched + 1)
    <2>1. /\ cli' \in CliType /\ cli'.phase = "drill" /\ cli'.why = "none"
          /\ cli'.ws = launched /\ cli'.replacement = cli.replacement
          /\ cli'.mine = {launched, launched + 1}
          /\ cli'.job = job /\ cli'.vault = cli.vault /\ cli'.outcome = cli.outcome
      BY <1>3, <1>4, <1>7, LaunchTyped DEF CliType, CliPhases
    <2>2. /\ files' \in FilesType /\ files'.job = job /\ files'.vault = files.vault
          /\ files'.ws = files.ws /\ files'.receipt = files.receipt
      BY <1>3, <1>7, LaunchTyped DEF FilesType
    <2>3. /\ call' = NoCall("create", launched + 1)
          /\ UNCHANGED <<cloud, ids, deleted, failed, troubles>>
      BY <1>7 DEF provision, NoCall
    <2>4. call'.op = "create" /\ call'.ws = launched + 1 /\ call'.at = 1
      BY <2>3 DEF NoCall
    <2>5. TypeOKLaunch'
      <3>1. TypeOKOci'
        BY <1>1, <1>4, <2>3, LaunchTyped, OciTyped, StayingTroubles, OciCalled
      <3> QED
        BY <1>1, <1>4, <1>5, <1>7, <2>1, <2>2, <3>1, LaunchTyped, LaunchTypedNext
    <2>6. CallFits' /\ WhyFits'
      BY <1>1, <1>7, <2>1, <2>4 DEF CallFits, WhyFits, Early, Detonating
    <2>7. Fleet'
      BY <1>4, <1>7, <2>1 DEF Fleet, Early, Drilling, Detonating
    <2>8. Past'
      <3>1. /\ files.ws \in Nat /\ files.receipt.ws \in Nat /\ files.ws <= launched
            /\ files.receipt.ws <= launched /\ files.vault \subseteq 1..launched
            /\ cli.vault \subseteq 1..launched /\ cli.job.id \in Nat
        BY Numbers DEF Past
      <3>2. 1..launched \subseteq 1..launched' /\ {launched, launched + 1} \subseteq 1..launched'
        BY <1>4, <1>7, NatWorkspaces
      <3> QED
        BY <1>3, <1>4, <1>7, <2>1, <2>2, <3>1, <3>2 DEF Past
    <2>9. HasLatest(files.vault)' /\ HasLatest(cli.vault)'
      BY <2>1, <2>2 DEF HasLatest
    <2>10. ReportTrue' /\ InstanceUp' /\ ReceiptFits'
      BY <2>1, <2>2, <2>4 DEF ReportTrue, InstanceUp, ReceiptFits
    <2>11. BundleFits' /\ JobFits'
      BY <1>1, <1>3, <1>4, <2>1, <2>2 DEF BundleFits, JobFits, Detonating
    <2>12. ReceiptMeansGone' /\ RestorableBeforeDestroyed' /\ GreenMeansDetonated'
      BY <1>1, <2>1, <2>2, <2>3 DEF ReceiptMeansGone, RestorableBeforeDestroyed,
         GreenMeansDetonated, WhyFits
    <2> QED
      BY <2>5, <2>6, <2>7, <2>8, <2>9, <2>10, <2>11, <2>12
  <1> QED
    BY <1>2, <1>6, <1>7

LEMMA RestoreStep ==
  ASSUME LaunchInv, execute_worker_replacement_drill
  PROVE  LaunchInv'
  <1> USE DEF LaunchInv
  <1> DEFINE job == mark(cli.job, "replace", "done")
  <1>1. /\ cli.phase = "restore" /\ dir' = write_run_record([dir EXCEPT !.drill = "extended"])
        /\ cli' = [cli EXCEPT !.phase = "resumed", !.job = job, !.ws = cli.replacement]
        /\ files' = [files EXCEPT !.job = job]
        /\ UNCHANGED <<setting, launched, cloud, ids, call, deleted, failed, allowed, troubles,
                       backup, swap, kept>>
    BY DEF execute_worker_replacement_drill, Rigid, ociVars
  <1>2. cli.why = "drill" /\ Drilling /\ call.op = "none" /\ swap.phase = "idle" /\ Whole(dir)
    BY <1>1 DEF WhyFits, Drilling, CallFits, BundleFits
  <1>3. job \in JobState /\ job.id = cli.job.id /\ ~HasFailed(job)
    <2>1. cli.job \in JobState /\ "replace" \in StepNames /\ ~HasFailed(cli.job)
      BY <1>2, LaunchTyped DEF CliType, StepNames, JobFits
    <2> QED
      BY <2>1, MarkTyped DEF HasFailed
  <1> HIDE DEF job
  <1>4. /\ cli.mine = {cli.ws, launched} /\ launched \in Workspaces /\ cli.ws \in Workspaces
        /\ cli.ws < launched /\ cli.replacement = launched /\ cloud[cli.ws] = {}
        /\ launched \in Nat /\ cli.job.id <= launched /\ cli.outcome = "none"
    BY <1>1, <1>2, Numbers DEF Fleet, ReportTrue, Past, WhyFits
  <1>5. Whole(dir')
    <2>1. [dir EXCEPT !.drill = "extended"] \in Bundle
          /\ [dir EXCEPT !.drill = "extended"].files = dir.files
      BY <1>2, WholeIsBundle DEF Bundle, DrillProofs
    <2> QED
      BY <1>1, <1>2, <2>1, WrittenTyped DEF Whole
  <1>6. /\ cli' \in CliType /\ cli'.phase = "resumed" /\ cli'.why = "drill"
        /\ cli'.ws = launched /\ cli'.replacement = launched /\ cli'.mine = cli.mine
        /\ cli'.job = job /\ cli'.vault = cli.vault /\ cli'.outcome = cli.outcome
    BY <1>1, <1>2, <1>3, <1>4, LaunchTyped DEF CliType, CliPhases
  <1>7. /\ files' \in FilesType /\ files'.job = job /\ files'.vault = files.vault
        /\ files'.ws = files.ws /\ files'.receipt = files.receipt
    BY <1>1, <1>3, LaunchTyped DEF FilesType
  <1>8. TypeOKLaunch'
    <2>1. TypeOKBundle'
      BY <1>1, <1>5, LaunchTyped DEF TypeOKBundle, Whole
    <2> QED
      BY <1>1, <1>6, <1>7, <2>1, LaunchTyped, OciStays, LaunchTypedNext
  <1>9. CallFits' /\ WhyFits'
    BY <1>1, <1>2, <1>4, <1>6 DEF CallFits, WhyFits, Early, Detonating
  <1>10. Fleet'
    BY <1>1, <1>4, <1>6 DEF Fleet, Early, Drilling, Detonating
  <1>11. Past' /\ HasLatest(files.vault)' /\ HasLatest(cli.vault)'
    BY <1>1, <1>3, <1>4, <1>6, <1>7 DEF Past, HasLatest
  <1>12. ReportTrue' /\ InstanceUp' /\ ReceiptFits'
    BY <1>1, <1>2, <1>6, <1>7 DEF ReportTrue, InstanceUp, ReceiptFits
  <1>13. BundleFits' /\ JobFits'
    BY <1>1, <1>2, <1>3, <1>5, <1>6, <1>7 DEF BundleFits, JobFits, Detonating
  <1>14. ReceiptMeansGone' /\ RestorableBeforeDestroyed' /\ GreenMeansDetonated'
    <2>1. WORKER_REPLACEMENT_SOURCE_IDS \subseteq dir'.files
      BY <1>5, WholeIsBundle
    <2> QED
      BY <1>1, <1>2, <1>4, <1>6, <1>7, <2>1 DEF ReceiptMeansGone, RestorableBeforeDestroyed,
         GreenMeansDetonated
  <1> QED
    BY <1>8, <1>9, <1>10, <1>11, <1>12, <1>13, <1>14

LEMMA RemoteSetupStep ==
  ASSUME LaunchInv, execute_remote_setup
  PROVE  LaunchInv'
  <1>1. PICK lost \in {{}, {"gates"}} :
          LET whole == WorkerBundle(setting.verification, WorkerDetonates)
              b     == [whole EXCEPT !.files = @ \ lost]
          IN /\ IF lost = {} THEN UNCHANGED troubles ELSE Trouble("remote")
             /\ \/ /\ _validate_artifact_bundle(b)
                   /\ _replace_existing_artifact_bundle(b)
                   /\ cli' = [cli EXCEPT !.phase = "extract"]
                   /\ UNCHANGED <<files, dir, backup, kept>>
                \/ /\ ~_validate_artifact_bundle(b)
                   /\ SetupFails
                   /\ UNCHANGED bundleVars
    BY DEF execute_remote_setup
  <1> DEFINE whole == WorkerBundle(setting.verification, WorkerDetonates)
             b     == [whole EXCEPT !.files = @ \ lost]
  <1>2. /\ cli.phase = "remote" /\ swap.phase = "idle" /\ call.op = "none" /\ cli.why = "none"
        /\ UNCHANGED <<setting, allowed, launched, cloud, ids, call, deleted, failed>>
    BY DEF execute_remote_setup, Rigid, LaunchInv, BundleFits, CallFits, WhyFits, Early
  <1>3. TroublesTyped
    <2>1. UNCHANGED troubles \/ Trouble("remote")
      BY <1>1
    <2> QED
      BY <2>1, LaunchTyped, TroubleOrNot DEF LaunchInv, TroubleKinds
  <1>4. CASE SetupFails /\ UNCHANGED bundleVars
    BY <1>2, <1>3, <1>4, SetupFailsStep DEF bundleVars
  <1>5. b \in Bundle
    <2>1. setting.verification \in Verifications
      BY LaunchTyped, SettingsAssumption DEF LaunchInv, Setting
    <2>2. WorkerDetonates \in BOOLEAN
      BY LaunchTyped, SettingsAssumption DEF LaunchInv, Setting, WorkerDetonates
    <2>3. whole \in Bundle
      BY <2>1, <2>2, WorkerBundleTyped
    <2> QED
      BY <2>3 DEF Bundle
  <1>6. CASE /\ _validate_artifact_bundle(b)
             /\ _replace_existing_artifact_bundle(b)
             /\ cli' = [cli EXCEPT !.phase = "extract"]
             /\ UNCHANGED <<files, dir, backup, kept>>
    <2> HIDE DEF b
    <2> USE DEF LaunchInv
    <2>1. Whole(b) /\ swap' = [phase |-> "clear", staged |-> b]
      BY <1>5, <1>6 DEF Whole, _validate_artifact_bundle, _replace_existing_artifact_bundle
    <2>2. /\ cli' \in CliType /\ cli'.phase = "extract" /\ cli'.why = "none" /\ cli'.ws = cli.ws
          /\ cli'.replacement = cli.replacement /\ cli'.mine = cli.mine /\ cli'.job = cli.job
          /\ cli'.vault = cli.vault /\ cli'.outcome = cli.outcome
      BY <1>2, <1>6, LaunchTyped DEF CliType, CliPhases
    <2>3. TypeOKLaunch'
      <3>1. TypeOKBundle'
        BY <1>5, <1>6, <2>1, LaunchTyped DEF TypeOKBundle
      <3>2. TypeOKOci'
        BY <1>2, <1>3, LaunchTyped, OciTyped, OciCalled
      <3> QED
        BY <1>2, <1>6, <2>2, <3>1, <3>2, LaunchTyped, LaunchTypedNext
    <2>4. CallFits' /\ WhyFits'
      BY <1>2, <2>2 DEF CallFits, WhyFits, Early, Detonating
    <2>5. Fleet'
      BY <1>2, <2>2 DEF Fleet, Early, Drilling, Detonating
    <2>6. Past' /\ HasLatest(files.vault)' /\ HasLatest(cli.vault)'
      BY <1>2, <1>6, <2>2 DEF Past, HasLatest
    <2>7. ReportTrue' /\ InstanceUp' /\ ReceiptFits'
      BY <1>2, <1>6, <2>2 DEF ReportTrue, InstanceUp, ReceiptFits
    <2>8. BundleFits' /\ JobFits'
      BY <1>2, <1>6, <2>1, <2>2 DEF BundleFits, JobFits, Detonating
    <2>9. ReceiptMeansGone' /\ RestorableBeforeDestroyed' /\ GreenMeansDetonated'
      BY <1>2, <1>6, <2>2 DEF ReceiptMeansGone, RestorableBeforeDestroyed, GreenMeansDetonated,
         WhyFits
    <2> QED
      BY <2>3, <2>4, <2>5, <2>6, <2>7, <2>8, <2>9
  <1> QED
    BY <1>1, <1>4, <1>6

LEMMA RetrievedStep ==
  ASSUME LaunchInv, Retrieved
  PROVE  LaunchInv'
  <1> USE DEF LaunchInv
  <1> DEFINE job == mark(cli.job, "setup", "done")
  <1>1. /\ cli.phase = "extract" /\ swap.phase = "replaced"
        /\ cli' = [cli EXCEPT !.phase = "retrieved", !.job = job]
        /\ swap' = [swap EXCEPT !.phase = "idle"]
        /\ UNCHANGED <<setting, files, launched, cloud, ids, call, deleted, failed, allowed,
                       troubles, dir, backup, kept>>
    BY DEF Retrieved, SwapFinished, ociVars
  <1>2. cli.why = "none" /\ call.op = "none" /\ Whole(dir)
    BY <1>1 DEF WhyFits, Early, CallFits, BundleFits
  <1>3. job \in JobState /\ job.id = cli.job.id /\ ~HasFailed(job)
    <2>1. cli.job \in JobState /\ "setup" \in StepNames
      BY LaunchTyped DEF CliType, StepNames
    <2>2. ~HasFailed(cli.job)
      BY <1>1 DEF JobFits, Detonating
    <2> QED
      BY <2>1, <2>2, MarkTyped DEF HasFailed
  <1> HIDE DEF job
  <1>4. /\ cli' \in CliType /\ cli'.phase = "retrieved" /\ cli'.why = "none" /\ cli'.ws = cli.ws
        /\ cli'.replacement = cli.replacement /\ cli'.mine = cli.mine /\ cli'.job = job
        /\ cli'.vault = cli.vault /\ cli'.outcome = cli.outcome
    BY <1>1, <1>2, <1>3, LaunchTyped DEF CliType, CliPhases
  <1>5. swap' \in [phase: SwapPhases, staged: Bundle \cup {NoBundle}] /\ swap'.phase = "idle"
    BY <1>1, LaunchTyped DEF TypeOKBundle, SwapPhases
  <1>6. TypeOKLaunch'
    <2>1. TypeOKBundle'
      BY <1>1, <1>5, LaunchTyped DEF TypeOKBundle, SwapPhases
    <2> QED
      BY <1>1, <1>4, <2>1, LaunchTyped, OciStays, LaunchTypedNext
  <1>7. CallFits' /\ WhyFits'
    BY <1>1, <1>2, <1>4 DEF CallFits, WhyFits, Early, Detonating
  <1>8. Fleet'
    BY <1>1, <1>4 DEF Fleet, Early, Drilling, Detonating
  <1>9. Past' /\ HasLatest(files.vault)' /\ HasLatest(cli.vault)'
    BY <1>1, <1>3, <1>4 DEF Past, HasLatest
  <1>10. ReportTrue' /\ InstanceUp' /\ ReceiptFits'
    BY <1>1, <1>2, <1>4 DEF ReportTrue, InstanceUp, ReceiptFits
  <1>11. BundleFits' /\ JobFits'
    BY <1>1, <1>2, <1>3, <1>4, <1>5 DEF BundleFits, JobFits, Detonating
  <1>12. ReceiptMeansGone' /\ RestorableBeforeDestroyed' /\ GreenMeansDetonated'
    BY <1>1, <1>2, <1>4 DEF ReceiptMeansGone, RestorableBeforeDestroyed, GreenMeansDetonated, WhyFits
  <1> QED
    BY <1>6, <1>7, <1>8, <1>9, <1>10, <1>11, <1>12

LEMMA DrillJudgesStep ==
  ASSUME LaunchInv, DrillJudges
  PROVE  LaunchInv'
  <1> USE DEF LaunchInv
  <1>1. /\ cli.phase = "reported" /\ cli.why = "drill"
        /\ UNCHANGED <<setting, files, launched, cloud, ids, call, deleted, failed, allowed,
                       dir, backup, swap, kept>>
        /\ TroublesTyped /\ TypeOKOci' /\ TypeOKBundle'
    BY OwnStep DEF DrillJudges, CliOnly
  <1>2. Drilling /\ call.op = "none" /\ cli.ws \in Workspaces
    BY <1>1 DEF Drilling, Detonating, CallFits, Fleet
  <1>3. CASE DetonateFor("drill_failed", cli.job)
    BY <1>1, <1>2, <1>3, DrillFailsStep
  <1>4. CASE _workspace_detonation_complete /\ cli' = [cli EXCEPT !.phase = "restore"]
    <2>1. cloud[cli.ws] = {}
      <3>1. Gone(deleted, cloud[cli.ws])
        BY <1>1, <1>2, NatWorkspaces DEF ReportTrue, Doomed
      <3>2. cloud[cli.ws] \in SUBSET Resources
        BY <1>2, LaunchTyped, OciTyped
      <3> QED
        BY <1>4, <3>1, <3>2, CompleteIsGone
    <2>2. /\ cli' \in CliType /\ cli'.phase = "restore" /\ cli'.why = "drill" /\ cli'.ws = cli.ws
          /\ cli'.replacement = cli.replacement /\ cli'.mine = cli.mine /\ cli'.job = cli.job
          /\ cli'.vault = cli.vault /\ cli'.outcome = cli.outcome
      BY <1>1, <1>4, LaunchTyped DEF CliType, CliPhases
    <2>3. TypeOKLaunch'
      BY <1>1, <2>2, LaunchTyped, LaunchTypedNext
    <2>4. CallFits' /\ WhyFits'
      BY <1>1, <1>2, <2>2 DEF CallFits, WhyFits, Early, Detonating
    <2>5. Fleet'
      BY <1>1, <1>2, <2>2 DEF Fleet, Early, Drilling, Detonating
    <2>6. Past' /\ HasLatest(files.vault)' /\ HasLatest(cli.vault)'
      BY <1>1, <2>2 DEF Past, HasLatest
    <2>7. ReportTrue' /\ InstanceUp' /\ ReceiptFits'
      BY <1>1, <1>2, <2>1, <2>2 DEF ReportTrue, InstanceUp, ReceiptFits
    <2>8. BundleFits' /\ JobFits'
      BY <1>1, <2>2 DEF BundleFits, JobFits, Detonating
    <2>9. ReceiptMeansGone' /\ RestorableBeforeDestroyed' /\ GreenMeansDetonated'
      BY <1>1, <2>2 DEF ReceiptMeansGone, RestorableBeforeDestroyed, GreenMeansDetonated
    <2> QED
      BY <2>3, <2>4, <2>5, <2>6, <2>7, <2>8, <2>9
  <1> QED
    BY <1>3, <1>4 DEF DrillJudges

LEMMA SshStep ==
  ASSUME LaunchInv, detonate_remote_worker
  PROVE  LaunchInv'
  <1> USE DEF LaunchInv
  <1>1. /\ cli.phase = "ssh" /\ cli' = [cli EXCEPT !.phase = "cloud"]
        /\ call' = NoCall("detonate", Doomed)
        /\ deleted' \subseteq {"remote_worker"} /\ failed' \subseteq {"remote_worker"}
        /\ UNCHANGED <<setting, allowed, files, launched, cloud, ids, dir, backup, swap, kept>>
    BY DEF detonate_remote_worker, Rigid, bundleVars
  <1>2. TroublesTyped
    <2>1. UNCHANGED troubles \/ Trouble("ssh")
      BY DEF detonate_remote_worker
    <2> QED
      BY <2>1, LaunchTyped, TroubleOrNot DEF TroubleKinds
  <1>3. cli.why # "none" /\ Doomed \in Workspaces /\ call.op = "none"
    BY <1>1 DEF WhyFits, Detonating, Fleet, Doomed, CallFits
  <1>4. call'.op = "detonate" /\ call'.ws = Doomed
    BY <1>1 DEF NoCall
  <1>5. /\ cli' \in CliType /\ cli'.phase = "cloud" /\ cli'.why = cli.why /\ cli'.ws = cli.ws
        /\ cli'.replacement = cli.replacement /\ cli'.mine = cli.mine /\ cli'.job = cli.job
        /\ cli'.vault = cli.vault /\ cli'.outcome = cli.outcome
    BY <1>1, LaunchTyped DEF CliType, CliPhases
  <1>6. TypeOKLaunch'
    <2>1. TypeOKOci'
      BY <1>1, <1>2, <1>3, LaunchTyped, OciCalled DEF Reports
    <2>2. TypeOKBundle'
      BY <1>1, LaunchTyped, BundleStays DEF bundleVars
    <2> QED
      BY <1>1, <1>5, <2>1, <2>2, LaunchTyped, LaunchTypedNext
  <1>7. CallFits' /\ WhyFits'
    BY <1>1, <1>3, <1>4, <1>5 DEF CallFits, WhyFits, Early, Detonating, Doomed
  <1>8. Fleet'
    BY <1>1, <1>3, <1>5 DEF Fleet, Early, Drilling, Detonating, Doomed
  <1>9. Past' /\ HasLatest(files.vault)' /\ HasLatest(cli.vault)'
    BY <1>1, <1>5 DEF Past, HasLatest
  <1>10. ReportTrue' /\ InstanceUp' /\ ReceiptFits'
    <2>1. Gone(deleted', cloud[Doomed])
      BY <1>1 DEF Gone, Network
    <2> QED
      BY <1>1, <1>4, <1>5, <2>1 DEF ReportTrue, InstanceUp, ReceiptFits
  <1>11. BundleFits' /\ JobFits'
    BY <1>1, <1>5 DEF BundleFits, JobFits, Detonating
  <1>12. ReceiptMeansGone' /\ RestorableBeforeDestroyed' /\ GreenMeansDetonated'
    BY <1>1, <1>5 DEF ReceiptMeansGone, RestorableBeforeDestroyed, GreenMeansDetonated
  <1> QED
    BY <1>6, <1>7, <1>8, <1>9, <1>10, <1>11, <1>12

LEMMA ReportedStep ==
  ASSUME LaunchInv, _mark_remote_worker_detonated_by_workspace_teardown
  PROVE  LaunchInv'
  <1> USE DEF LaunchInv
  <1>1. /\ cli.phase = "cloud" /\ call.op = "detonated" /\ call' = NoCall("none", 0)
        /\ cli' = [cli EXCEPT !.phase = "reported"]
        /\ UNCHANGED <<setting, allowed, files, launched, cloud, ids, troubles>>
        /\ UNCHANGED <<dir, backup, swap, kept>>
        /\ deleted' = deleted \/ deleted' = deleted \cup {"remote_worker"}
        /\ failed' = failed \/ failed' = {}
    BY DEF _mark_remote_worker_detonated_by_workspace_teardown, Rigid, bundleVars
  <1>2. Doomed \in Workspaces /\ Doomed # 0 /\ cli.why # "none" /\ call.ws = Doomed
    BY <1>1, NatWorkspaces DEF WhyFits, Detonating, Fleet, Doomed, CallFits
  <1>3. call'.op = "none"
    BY <1>1 DEF NoCall
  <1>4. /\ cli' \in CliType /\ cli'.phase = "reported" /\ cli'.why = cli.why /\ cli'.ws = cli.ws
        /\ cli'.replacement = cli.replacement /\ cli'.mine = cli.mine /\ cli'.job = cli.job
        /\ cli'.vault = cli.vault /\ cli'.outcome = cli.outcome
    BY <1>1, LaunchTyped DEF CliType, CliPhases
  <1>5. TypeOKLaunch'
    <2>1. deleted' \subseteq Reports /\ failed' \subseteq Reports
      BY <1>1, LaunchTyped, OciTyped DEF Reports
    <2>2. TypeOKOci'
      BY <1>1, <2>1, LaunchTyped, StayingTroubles, OciCalled
    <2>3. TypeOKBundle'
      BY <1>1, LaunchTyped, BundleStays DEF bundleVars
    <2> QED
      BY <1>1, <1>4, <2>2, <2>3, LaunchTyped, LaunchTypedNext
  <1>6. CallFits' /\ WhyFits'
    BY <1>1, <1>2, <1>3, <1>4 DEF CallFits, WhyFits, Early, Detonating
  <1>7. Fleet'
    BY <1>1, <1>4 DEF Fleet, Early, Drilling, Detonating
  <1>8. Past' /\ HasLatest(files.vault)' /\ HasLatest(cli.vault)'
    BY <1>1, <1>4 DEF Past, HasLatest
  <1>9. ReportTrue' /\ InstanceUp' /\ ReceiptFits'
    <2>1. Gone(deleted', cloud[Doomed])
      BY <1>1, <1>2 DEF ReportTrue, Gone, Network
    <2>2. Doomed' = Doomed
      BY <1>4 DEF Doomed
    <2> QED
      BY <1>1, <1>2, <1>3, <1>4, <2>1, <2>2 DEF ReportTrue, InstanceUp, ReceiptFits
  <1>10. BundleFits' /\ JobFits'
    BY <1>1, <1>4 DEF BundleFits, JobFits, Detonating
  <1>11. ReceiptMeansGone' /\ RestorableBeforeDestroyed' /\ GreenMeansDetonated'
    BY <1>1, <1>4 DEF ReceiptMeansGone, RestorableBeforeDestroyed, GreenMeansDetonated
  <1> QED
    BY <1>5, <1>6, <1>7, <1>8, <1>9, <1>10, <1>11

LEMMA RecordStep ==
  ASSUME LaunchInv, _record_workspace_detonation
  PROVE  LaunchInv'
  <1> USE DEF LaunchInv
  <1> DEFINE complete == _workspace_detonation_complete
             job      == mark(cli.job, "detonate", DetonationStatus(complete))
             next     == IF cli.why \in {"verify_failed", "success"} THEN "attach" ELSE "save"
  <1>1. /\ cli.phase = "reported" /\ cli.why \notin {"drill", "drill_failed"} /\ FilesOnly
        /\ UNCHANGED <<setting, launched, cloud, ids, call, deleted, failed, allowed,
                       dir, backup, swap, kept>>
        /\ TroublesTyped /\ TypeOKOci' /\ TypeOKBundle'
    BY OwnStep DEF _record_workspace_detonation, FilesOnly
  <1>2. cli.why \in {"setup_failed", "verify_failed", "success", "manual"} /\ Doomed = cli.ws
        /\ call.op = "none" /\ swap.phase = "idle" /\ cli.outcome = "none"
    BY <1>1, LaunchTyped
    DEF WhyFits, Detonating, Reasons, Doomed, CallFits, BundleFits, CliType
  <1>3. CASE Ends("none") /\ UNCHANGED files
    BY <1>1, <1>2, <1>3, EndStep DEF Outcomes
  <1>4. CASE /\ cli' = [cli EXCEPT !.phase = next, !.job = job]
             /\ files' = [files EXCEPT !.receipt = [ws |-> cli.ws, complete |-> complete],
                                       !.detonated = @ \/ (complete /\ cli.why # "manual")]
    <2>1. /\ complete \in BOOLEAN /\ DetonationStatus(complete) \in {"done", "failed"}
          /\ cli.ws \in Workspaces \cup {0}
      BY LaunchTyped DEF _workspace_detonation_complete, DetonationStatus, CliType
    <2>2. job \in JobState /\ job.id = cli.job.id
      <3>1. cli.job \in JobState /\ "detonate" \in StepNames
        BY LaunchTyped DEF CliType, StepNames
      <3> DEFINE status == DetonationStatus(complete)
      <3>2. status \in {"absent", "pending", "running", "done", "skipped", "failed"}
        BY <2>1
      <3> HIDE DEF status
      <3>3. mark(cli.job, "detonate", status) \in JobState
            /\ mark(cli.job, "detonate", status).id = cli.job.id
        BY <3>1, <3>2 DEF JobState, mark
      <3> QED
        BY <3>3 DEF status
    <2>3. complete => cli.ws \in Workspaces /\ cloud[cli.ws] = {}
      <3>1. ASSUME complete PROVE cli.ws \in Workspaces /\ Gone(deleted, cloud[cli.ws])
        BY <1>1, <1>2, <2>1, <3>1 DEF ReportTrue, _workspace_detonation_complete
      <3>2. cli.ws \in Workspaces => cloud[cli.ws] \in SUBSET Resources
        BY LaunchTyped, OciTyped
      <3> QED
        BY <3>1, <3>2, CompleteIsGone
    <2>4. cli.why = "manual" => job = mark(files.job, "detonate", DetonationStatus(complete))
      BY <1>1 DEF JobFits
    <2> HIDE DEF complete, job
    <2>5. /\ cli' \in CliType /\ cli'.phase = next /\ cli'.why = cli.why /\ cli'.ws = cli.ws
          /\ cli'.replacement = cli.replacement /\ cli'.mine = cli.mine /\ cli'.job = job
          /\ cli'.vault = cli.vault /\ cli'.outcome = cli.outcome
      BY <1>4, <2>2, LaunchTyped DEF CliType, CliPhases
    <2>6. /\ files' \in FilesType /\ files'.job = files.job /\ files'.vault = files.vault
          /\ files'.ws = files.ws /\ files'.receipt = [ws |-> cli.ws, complete |-> complete]
      BY <1>4, <2>1, LaunchTyped DEF FilesType
    <2>7. TypeOKLaunch'
      BY <1>1, <2>5, <2>6, LaunchTyped, LaunchTypedNext
    <2>8. CallFits' /\ WhyFits'
      BY <1>1, <1>2, <2>5 DEF CallFits, WhyFits, Early, Detonating
    <2>9. Fleet'
      BY <1>1, <1>2, <2>1, <2>5 DEF Fleet, Early, Drilling, Detonating
    <2>10. Past' /\ HasLatest(files.vault)' /\ HasLatest(cli.vault)'
      BY <1>1, <2>2, <2>5, <2>6 DEF Past, HasLatest
    <2>11. ReportTrue' /\ InstanceUp' /\ ReceiptFits'
      BY <1>1, <1>2, <2>3, <2>5, <2>6 DEF ReportTrue, InstanceUp, ReceiptFits
    <2>12. BundleFits'
      BY <1>1, <1>2, <2>5 DEF BundleFits
    <2>13. JobFits'
      BY <1>1, <1>2, <2>1, <2>4, <2>5, <2>6 DEF JobFits, Detonating
    <2>14. ReceiptMeansGone' /\ RestorableBeforeDestroyed' /\ GreenMeansDetonated'
      BY <1>1, <1>2, <2>3, <2>5, <2>6 DEF ReceiptMeansGone, RestorableBeforeDestroyed,
         GreenMeansDetonated
    <2> QED
      BY <2>7, <2>8, <2>9, <2>10, <2>11, <2>12, <2>13, <2>14
  <1> QED
    BY <1>3, <1>4 DEF _record_workspace_detonation

LEMMA CopyStep ==
  ASSUME LaunchInv, _copy_workspace_detonation_to_remote_artifacts
  PROVE  LaunchInv'
  <1> USE DEF LaunchInv
  <1> DEFINE b == [dir EXCEPT !.files = @ \cup {"workspace_detonation"}, !.safe = files.safe,
                              !.detonated = files.detonated,
                              !.receipt = IF files.receipt.complete THEN "complete"
                                          ELSE "incomplete"]
  <1>1. /\ cli.phase = "attach" /\ cli' = [cli EXCEPT !.phase = "save"]
        /\ dir' = write_run_record(b)
        /\ UNCHANGED <<setting, files, launched, cloud, ids, call, deleted, failed, allowed,
                       troubles, backup, swap, kept>>
    BY DEF _copy_workspace_detonation_to_remote_artifacts, ociVars
  <1>2. /\ cli.why \in {"verify_failed", "success"} /\ Whole(dir) /\ call.op = "none"
        /\ swap.phase = "idle"
    BY <1>1 DEF WhyFits, BundleFits, CallFits
  <1>3. Whole(dir')
    <2>1. b \in Bundle /\ dir.files \subseteq b.files
      <3>1. dir \in Bundle
        BY <1>2 DEF Whole
      <3>2. /\ files.safe \in BOOLEAN /\ files.detonated \in BOOLEAN
            /\ "workspace_detonation" \in DURABLE_STATE_SOURCES
            /\ {"complete", "incomplete"} \subseteq Receipts
        BY LaunchTyped DEF FilesType, DURABLE_STATE_SOURCES, Receipts
      <3> QED
        BY <3>1, <3>2 DEF Bundle
    <2> QED
      BY <1>1, <1>2, <2>1, WrittenTyped DEF Whole
  <1>4. /\ cli' \in CliType /\ cli'.phase = "save" /\ cli'.why = cli.why /\ cli'.ws = cli.ws
        /\ cli'.replacement = cli.replacement /\ cli'.mine = cli.mine /\ cli'.job = cli.job
        /\ cli'.vault = cli.vault /\ cli'.outcome = cli.outcome
    BY <1>1, LaunchTyped DEF CliType, CliPhases
  <1>5. TypeOKLaunch'
    <2>1. TypeOKBundle'
      BY <1>1, <1>3, LaunchTyped DEF TypeOKBundle, Whole
    <2> QED
      BY <1>1, <1>4, <2>1, LaunchTyped, OciStays, LaunchTypedNext
  <1>6. CallFits' /\ WhyFits'
    BY <1>1, <1>2, <1>4 DEF CallFits, WhyFits, Early, Detonating
  <1>7. Fleet'
    BY <1>1, <1>2, <1>4 DEF Fleet, Early, Drilling, Detonating
  <1>8. Past' /\ HasLatest(files.vault)' /\ HasLatest(cli.vault)'
    BY <1>1, <1>4 DEF Past, HasLatest
  <1>9. ReportTrue' /\ InstanceUp' /\ ReceiptFits'
    BY <1>1, <1>2, <1>4 DEF ReportTrue, InstanceUp, ReceiptFits
  <1>10. BundleFits' /\ JobFits'
    BY <1>1, <1>2, <1>3, <1>4 DEF BundleFits, JobFits, Detonating
  <1>11. ReceiptMeansGone' /\ RestorableBeforeDestroyed' /\ GreenMeansDetonated'
    BY <1>1, <1>2, <1>4 DEF ReceiptMeansGone, RestorableBeforeDestroyed, GreenMeansDetonated
  <1> QED
    BY <1>5, <1>6, <1>7, <1>8, <1>9, <1>10, <1>11

LEMMA ManualStep ==
  ASSUME LaunchInv, _cmd_runner_detonate
  PROVE  LaunchInv'
  <1> USE DEF LaunchInv
  <1>1. /\ cli.phase = "down" /\ call.op = "none" /\ swap.phase = "idle"
        /\ UNCHANGED <<setting, allowed, files, launched, cloud, ids, troubles>>
        /\ UNCHANGED <<dir, backup, swap, kept>>
    BY DEF _cmd_runner_detonate, bundleVars, CallFits, BundleFits
  <1>2. PICK phase \in {"ssh", "cloud", "reported"}, ws \in Workspaces \cup {0} :
          /\ cli' = [phase |-> phase, why |-> "manual", ws |-> ws, replacement |-> 0, mine |-> {},
                     job |-> files.job, vault |-> {}, outcome |-> "none"]
          /\ ws <= launched
          /\ phase = "ssh" => ws \in Workspaces /\ UNCHANGED <<call, deleted, failed>>
          /\ phase = "cloud" =>
               /\ ws \in Workspaces
               /\ call' = NoCall("detonate", ws) /\ deleted' = {} /\ failed' = {}
          /\ phase = "reported" =>
               ws = 0 /\ deleted' = {} /\ failed' = {"workspace"} /\ UNCHANGED call
    <2>1. /\ files.vault # {} => /\ latest_workspace_from_vault \in Workspaces
                                 /\ latest_workspace_from_vault <= launched
      <3>1. files.vault \subseteq Workspaces /\ files.vault \subseteq 1..launched
        BY LaunchTyped DEF FilesType, Past
      <3> QED
        BY <3>1, LatestInVault, Numbers
    <2>2. files.ws \in Workspaces \cup {0} /\ files.ws <= launched /\ launched \in Nat
      BY LaunchTyped DEF FilesType, Past
    <2>3. CASE /\ files.vault # {}
               /\ cli' = [[Stopped EXCEPT !.why = "manual", !.job = files.job]
                            EXCEPT !.phase = "ssh", !.ws = latest_workspace_from_vault]
               /\ UNCHANGED <<call, deleted, failed>>
      BY <2>1, <2>3 DEF Stopped
    <2>4. CASE /\ files.vault = {} /\ files.ws # 0
               /\ cli' = [[Stopped EXCEPT !.why = "manual", !.job = files.job]
                            EXCEPT !.phase = "cloud", !.ws = files.ws]
               /\ call' = NoCall("detonate", files.ws) /\ deleted' = {} /\ failed' = {}
      BY <2>2, <2>4 DEF Stopped
    <2>5. CASE /\ files.vault = {} /\ files.ws = 0
               /\ cli' = [[Stopped EXCEPT !.why = "manual", !.job = files.job]
                            EXCEPT !.phase = "reported"]
               /\ deleted' = {} /\ failed' = {"workspace"}
               /\ UNCHANGED call
      BY <2>2, <2>5 DEF Stopped
    <2> QED
      BY <2>3, <2>4, <2>5 DEF _cmd_runner_detonate
  <1>3. /\ cli' \in CliType /\ cli'.phase = phase /\ cli'.why = "manual" /\ cli'.ws = ws
        /\ cli'.replacement = 0 /\ cli'.mine = {} /\ cli'.job = files.job /\ cli'.vault = {}
        /\ cli'.outcome = "none"
    BY <1>2, LaunchTyped DEF CliType, CliPhases, Reasons, Outcomes, FilesType
  <1>4. /\ phase = "cloud" => call'.op = "detonate" /\ call'.ws = ws
        /\ phase # "cloud" => call'.op = "none"
    BY <1>1, <1>2 DEF NoCall
  <1>5. TypeOKLaunch'
    <2>1. /\ deleted' \subseteq Reports /\ failed' \subseteq Reports
          /\ call' = call \/ call' = NoCall("detonate", ws)
      BY <1>2, LaunchTyped, OciTyped DEF Reports
    <2>2. TypeOKOci'
      BY <1>1, <2>1, LaunchTyped, StayingTroubles, OciCalled
    <2>3. TypeOKBundle'
      BY <1>1, LaunchTyped, BundleStays DEF bundleVars
    <2> QED
      BY <1>1, <1>3, <2>2, <2>3, LaunchTyped, LaunchTypedNext
  <1>6. CallFits' /\ WhyFits'
    BY <1>3, <1>4 DEF CallFits, WhyFits, Early, Detonating, Doomed
  <1>7. Fleet'
    BY <1>2, <1>3 DEF Fleet, Early, Drilling, Detonating
  <1>8. Past' /\ HasLatest(files.vault)' /\ HasLatest(cli.vault)'
    BY <1>1, <1>2, <1>3 DEF Past, HasLatest
  <1>9. ReportTrue' /\ InstanceUp' /\ ReceiptFits'
    <2>1. phase = "cloud" => Gone(deleted', cloud[ws])
      BY <1>2 DEF Gone
    <2> QED
      BY <1>1, <1>2, <1>3, <1>4, <2>1 DEF ReportTrue, InstanceUp, ReceiptFits, Doomed
  <1>10. BundleFits' /\ JobFits'
    BY <1>1, <1>3 DEF BundleFits, JobFits, Detonating
  <1>11. ReceiptMeansGone' /\ RestorableBeforeDestroyed' /\ GreenMeansDetonated'
    BY <1>1, <1>3 DEF ReceiptMeansGone, RestorableBeforeDestroyed, GreenMeansDetonated
  <1> QED
    BY <1>5, <1>6, <1>7, <1>8, <1>9, <1>10, <1>11

LEMMA VaultLostStep ==
  ASSUME LaunchInv, VaultLost
  PROVE  LaunchInv'
  <1> USE DEF LaunchInv
  <1>1. /\ cli.phase = "down" /\ files' = [files EXCEPT !.vault = {}]
        /\ UNCHANGED <<setting, allowed, cli, launched, cloud, ids, call, deleted, failed>>
        /\ UNCHANGED <<dir, backup, swap, kept>>
    BY DEF VaultLost, Rigid, bundleVars
  <1>2. TroublesTyped
    BY LaunchTyped, TroubleOrNot DEF VaultLost, TroubleKinds
  <1>3. /\ files' \in FilesType /\ files'.job = files.job /\ files'.vault = {}
        /\ files'.ws = files.ws /\ files'.receipt = files.receipt
    BY <1>1, LaunchTyped DEF FilesType
  <1>4. TypeOKLaunch'
    <2>1. TypeOKOci'
      BY <1>1, <1>2, LaunchTyped, OciTyped, OciCalled
    <2>2. TypeOKBundle'
      BY <1>1, LaunchTyped, BundleStays DEF bundleVars
    <2> QED
      BY <1>1, <1>3, <2>1, <2>2, LaunchTyped, LaunchTypedNext
  <1>5. CallFits' /\ WhyFits' /\ Fleet'
    BY <1>1 DEF CallFits, WhyFits, Fleet, Doomed, Drilling
  <1>6. Past' /\ HasLatest(files.vault)' /\ HasLatest(cli.vault)'
    BY <1>1, <1>3 DEF Past, HasLatest
  <1>7. ReportTrue' /\ InstanceUp' /\ ReceiptFits'
    BY <1>1, <1>3 DEF ReportTrue, InstanceUp, ReceiptFits
  <1>8. BundleFits' /\ JobFits'
    BY <1>1, <1>3 DEF BundleFits, JobFits
  <1>9. ReceiptMeansGone' /\ RestorableBeforeDestroyed' /\ GreenMeansDetonated'
    BY <1>1, <1>3 DEF ReceiptMeansGone, RestorableBeforeDestroyed, GreenMeansDetonated, WhyFits
  <1> QED
    BY <1>4, <1>5, <1>6, <1>7, <1>8, <1>9

-----------------------------------------------------------------------------
(* The cloud and the disk go on.                                           *)

(* A step that takes resources away, or adds to the newest workspace while *)
(* its process waits for it.                                               *)
LEMMA CloudKeeps ==
  ASSUME LaunchInv, UNCHANGED <<setting, allowed, cli, files, launched, dir, backup, swap, kept>>,
         TypeOKOci',
         \A w \in Workspaces :
           \/ cloud'[w] \subseteq cloud[w]
           \/ cli.phase \in {"provision", "drill"} /\ w = launched /\ cloud[w] \subseteq cloud'[w],
         \A w \in Workspaces :
           "instance" \in cloud[w] /\ "instance" \notin cloud'[w] =>
             call.op \in {"undo", "detonate"} /\ w = call.ws,
         CallFits', ReportTrue', InstanceUp'
  PROVE  LaunchInv'
  <1> USE DEF LaunchInv
  <1>1. TypeOKLaunch'
    BY LaunchTyped, BundleStays, LaunchTypedNext DEF bundleVars
  <1>2. WhyFits' /\ Past' /\ HasLatest(files.vault)' /\ HasLatest(cli.vault)'
    BY DEF WhyFits, Past, HasLatest
  <1>3. ReceiptFits' /\ BundleFits' /\ JobFits'
    BY DEF ReceiptFits, BundleFits, JobFits
  <1>4. \A w \in Workspaces : cloud[w] = {} /\ cloud'[w] # {} =>
          cli.phase \in {"provision", "drill"} /\ w = launched
    OBVIOUS
  <1>5. Fleet'
    <2>1. /\ cli.phase \in {"resumed", "preflight"}
             \/ cli.why \in {"setup_failed", "verify_failed", "success"}
          => \A w \in cli.mine \ {cli.ws} : cloud'[w] = {}
      <3>1. cli.mine \subseteq Workspaces
        BY LaunchTyped DEF CliType
      <3> QED
        BY <1>4, <3>1 DEF Fleet, WhyFits
    <2> QED
      BY <2>1 DEF Fleet, Drilling
  <1>6. ReceiptMeansGone'
    <2>1. files.receipt.complete =>
            files.receipt.ws \in Workspaces /\ cloud[files.receipt.ws] = {}
      BY DEF ReceiptFits, ReceiptMeansGone
    <2>2. cli.phase \in {"provision", "drill"} => files.receipt.ws # launched
      BY Numbers DEF Past
    <2> QED
      BY <1>4, <2>1, <2>2 DEF ReceiptMeansGone
  <1>7. RestorableBeforeDestroyed'
    <2>1. CASE cli.why = "drill"
      <3>1. /\ cli.replacement = launched /\ launched \in Workspaces
            /\ "instance" \in cloud[cli.replacement]
        BY <2>1 DEF Fleet, RestorableBeforeDestroyed
      <3>2. call.op \in {"undo", "detonate"} => call.ws # launched
        <4>1. CASE cli.phase \in Detonating
          <5>1. Drilling /\ cli.ws < launched /\ Doomed = cli.ws
            BY <2>1, <4>1 DEF Drilling, Fleet, Doomed
          <5> QED
            BY <4>1, <5>1, Numbers DEF CallFits, Detonating
        <4>2. CASE cli.phase \notin Detonating
          BY <2>1, <4>2 DEF CallFits, WhyFits, Detonating
        <4> QED
          BY <4>1, <4>2
      <3> QED
        BY <2>1, <3>1, <3>2 DEF RestorableBeforeDestroyed
    <2> QED
      BY <2>1 DEF RestorableBeforeDestroyed
  <1>8. GreenMeansDetonated'
    <2>1. cli.outcome = "green" => cli.phase = "down" /\ \A w \in cli.mine : cloud[w] = {}
      BY DEF GreenMeansDetonated, WhyFits
    <2>2. cli.mine \subseteq Workspaces
      BY LaunchTyped DEF CliType
    <2> QED
      BY <1>4, <2>1, <2>2 DEF GreenMeansDetonated
  <1> QED
    BY <1>1, <1>2, <1>3, <1>5, <1>6, <1>7, <1>8

LEMMA CalledWorkspace ==
  ASSUME LaunchInv, call.op \in {"create", "undo", "detonate"}
  PROVE  /\ call.ws \in Workspaces
         /\ call.op = "create" => cli.phase \in {"provision", "drill"} /\ call.ws = launched
         /\ call.op = "undo" => cli.phase \in {"provision", "drill"} /\ call.ws = launched
         /\ call.op = "detonate" => cli.phase = "cloud" /\ call.ws = Doomed
  <1>1. /\ cli.phase \in {"provision", "drill", "cloud"}
        /\ call.op = "detonate" => cli.phase = "cloud" /\ call.ws = Doomed
        /\ call.op # "detonate" => cli.phase \in {"provision", "drill"} /\ call.ws = launched
    BY DEF LaunchInv, CallFits
  <1>2. cli.phase \in {"provision", "drill"} => launched \in Workspaces
    BY DEF LaunchInv, Fleet, Drilling
  <1>3. cli.phase = "cloud" => Doomed \in Workspaces
    BY DEF LaunchInv, Fleet, Doomed
  <1> QED
    BY <1>1, <1>2, <1>3

LEMMA OciAlive ==
  ASSUME OciStep, TypeOKOci
  PROVE  call.op \in {"create", "undo", "detonate"}
  BY CreateAt, DeleteAt DEF OciStep, Create, _create_nsg, _launch_instance, _launch_with_capacity_fallback,
     _public_ip, CreateFails, _instance_boot_volume_ids, _terminate_instance,
     _wait_for_instance_network_release, _wait_for_boot_volume_deletion, _delete_oci_resource,
     Deleted, Network

LEMMA CloudStep ==
  ASSUME LaunchInv, Cloud
  PROVE  LaunchInv'
  <1>1. /\ OciStep
        /\ UNCHANGED <<setting, allowed, cli, files, launched, dir, backup, swap, kept>>
    BY DEF Cloud, Rigid, bundleVars
  <1>2. TypeOKOci /\ TypeOKOci' /\ Onwards /\ CloudGoes
    BY <1>1, LaunchTyped, OciEffect DEF LaunchInv
  <1>3. call.op \in {"create", "undo", "detonate"} /\ call.ws \in Workspaces
    BY <1>1, <1>2, OciAlive, CalledWorkspace
  <1>4. CallFits'
    BY <1>1, <1>2, <1>3, CalledWorkspace DEF LaunchInv, CallFits, Onwards, Doomed
  <1>5. ReportTrue'
    <2>1. call'.op \in {"undo", "detonate", "detonated"} => Gone(deleted', cloud'[call'.ws])
      BY <1>1, <1>2, <1>3, OciReports DEF LaunchInv, ReportTrue, Onwards
    <2>2. cli.phase \notin {"reported", "restore"}
      BY <1>3, CalledWorkspace
    <2> QED
      BY <1>1, <2>1, <2>2 DEF ReportTrue
  <1>6. InstanceUp'
    <2>1. /\ call'.op = "create" /\ call'.at > 8 => "instance" \in cloud'[call.ws]
          /\ call'.op = "provisioned" => "instance" \in cloud'[call.ws]
      BY <1>1, <1>2, <1>3, OciInstance DEF LaunchInv, InstanceUp
    <2>2. cli.phase # "drill_save"
      BY <1>3, CalledWorkspace
    <2> QED
      BY <1>1, <1>2, <2>1, <2>2 DEF InstanceUp, Onwards
  <1>7. ASSUME NEW w \in Workspaces
        PROVE  /\ \/ cloud'[w] \subseteq cloud[w]
                  \/ cli.phase \in {"provision", "drill"} /\ w = launched
                     /\ cloud[w] \subseteq cloud'[w]
               /\ "instance" \in cloud[w] /\ "instance" \notin cloud'[w] =>
                    call.op \in {"undo", "detonate"} /\ w = call.ws
    BY <1>2, <1>3, CalledWorkspace DEF CloudGoes
  <1> QED
    BY <1>1, <1>2, <1>4, <1>5, <1>6, <1>7, CloudKeeps

LEMMA ReleaseStep ==
  ASSUME LaunchInv, NEW w \in Workspaces, Release(w)
  PROVE  LaunchInv'
  <1>1. /\ CloudReleases(w)
        /\ UNCHANGED <<setting, allowed, cli, files, launched, dir, backup, swap, kept>>
        /\ UNCHANGED <<ids, call, deleted, failed, troubles>>
    BY DEF Release, Rigid, bundleVars, CloudReleases
  <1>2. PICK r \in {"vnic", "boot_volume"} : cloud' = [cloud EXCEPT ![w] = @ \ {r}]
    BY <1>1 DEF CloudReleases
  <1>3. TypeOKOci
    BY LaunchTyped DEF LaunchInv
  <1>4. /\ cloud' \in [Workspaces -> SUBSET Resources]
        /\ \A v \in Workspaces : /\ cloud'[v] \subseteq cloud[v]
                                 /\ "instance" \in cloud[v] => "instance" \in cloud'[v]
    BY <1>2, <1>3, OciTyped
  <1>5. TypeOKOci'
    BY <1>1, <1>3, <1>4, OciTyped, OciTypedNext DEF CallTyped, TroublesTyped
  <1>6. CallFits'
    BY <1>1 DEF LaunchInv, CallFits, Doomed
  <1>7. ReportTrue'
    <2>1. ASSUME NEW v \in Workspaces, Gone(deleted, cloud[v])
          PROVE  Gone(deleted, cloud'[v])
      BY <1>4, <2>1 DEF Gone
    <2>2. call.op \in {"undo", "detonate", "detonated"} => call.ws \in Workspaces
      BY CalledWorkspace DEF LaunchInv, CallFits, Fleet, Doomed
    <2>3. Doomed \in Workspaces \cup {0}
      BY LaunchTyped DEF LaunchInv, CliType, Doomed
    <2>4. cli.phase = "restore" => cli.ws \in Workspaces
      BY DEF LaunchInv, WhyFits, Fleet, Drilling
    <2> QED
      BY <1>1, <1>4, <2>1, <2>2, <2>3, <2>4 DEF LaunchInv, ReportTrue, Doomed
  <1>8. InstanceUp'
    <2>1. call.op \in {"create", "provisioned"} => call.ws \in Workspaces
      BY CalledWorkspace DEF LaunchInv, CallFits, Fleet, Drilling
    <2>2. cli.phase = "drill_save" => cli.replacement \in Workspaces
      BY DEF LaunchInv, Fleet
    <2> QED
      BY <1>1, <1>4, <2>1, <2>2 DEF LaunchInv, InstanceUp
  <1> QED
    BY <1>1, <1>4, <1>5, <1>6, <1>7, <1>8, CloudKeeps

LEMMA SwapsStep ==
  ASSUME LaunchInv, Swap
  PROVE  LaunchInv'
  <1> USE DEF LaunchInv
  <1>1. /\ SwapStep
        /\ UNCHANGED <<setting, allowed, cli, files, launched, cloud, ids, call, deleted, failed>>
    BY DEF Swap, Rigid
  <1>2. SwapFits
    BY DEF BundleFits, SwapFits
  <1>3. /\ TypeOKBundle' /\ SwapFits' /\ swap.phase # "idle" /\ swap'.phase # "idle"
        /\ troubles' = troubles \/ \E kind \in TroubleKinds : Trouble(kind)
    BY <1>1, <1>2, LaunchTyped, SwapEffect
  <1>4. cli.phase = "extract" /\ cli.why = "none"
    BY <1>3 DEF BundleFits, WhyFits, Early
  <1>5. TypeOKLaunch'
    <2>1. TypeOKOci'
      BY <1>1, <1>3, LaunchTyped, TroubleOrNot, OciTyped, OciCalled
    <2> QED
      BY <1>1, <1>3, <2>1, LaunchTyped, LaunchTypedNext
  <1>6. CallFits' /\ WhyFits' /\ Fleet'
    BY <1>1 DEF CallFits, WhyFits, Fleet, Doomed, Drilling
  <1>7. Past' /\ HasLatest(files.vault)' /\ HasLatest(cli.vault)'
    BY <1>1 DEF Past, HasLatest
  <1>8. ReportTrue' /\ InstanceUp' /\ ReceiptFits'
    BY <1>1 DEF ReportTrue, InstanceUp, ReceiptFits, Doomed
  <1>9. BundleFits' /\ JobFits'
    BY <1>1, <1>3, <1>4 DEF BundleFits, SwapFits, JobFits
  <1>10. ReceiptMeansGone' /\ RestorableBeforeDestroyed' /\ GreenMeansDetonated'
    BY <1>1, <1>4 DEF ReceiptMeansGone, RestorableBeforeDestroyed, GreenMeansDetonated
  <1> QED
    BY <1>5, <1>6, <1>7, <1>8, <1>9, <1>10

-----------------------------------------------------------------------------
(* The theorems.                                                           *)

LEMMA LaunchInvInit ==
  ASSUME InitLaunch
  PROVE  LaunchInv
  <1> USE DEF InitLaunch, InitOci, InitBundle
  <1>1. /\ cli = Stopped /\ files.job = NoJob /\ NoJob \in JobState /\ NoJob.id = 0
        /\ cli \in CliType /\ files \in FilesType
    BY CreateTyped DEF Stopped, CliType, CliPhases, Reasons, Outcomes, FilesType, NoJob
  <1>2. TypeOKOci
    <2>1. troubles \in [1..0 -> TroubleKinds] /\ 0 \in 0..MaxTroubles
      BY TroublesAssumption
    <2>2. troubles \in UNION {[1..n -> TroubleKinds] : n \in 0..MaxTroubles}
      BY <2>1
    <2>3. call \in [op: {"create", "undo", "detonate", "none", "provisioned", "refused",
                         "detonated", "raised"},
                    ws: Workspaces \cup {0}, at: 1..Len(DeleteSteps) + 1, bootKnown: BOOLEAN]
      BY DEF NoCall, DeleteSteps
    <2> QED
      BY <2>2, <2>3 DEF TypeOKOci
  <1>3. TypeOKBundle
    BY DEF TypeOKBundle
  <1>4. TypeOKLaunch
    BY <1>1, <1>2, <1>3 DEF TypeOKLaunch, CliType, CliPhases, Outcomes, FilesType
  <1>5. CallFits /\ WhyFits /\ Fleet
    BY DEF CallFits, WhyFits, Fleet, Stopped, NoCall, Early, Detonating, Drilling
  <1>6. Past /\ HasLatest(files.vault) /\ HasLatest(cli.vault)
    BY <1>1 DEF Past, HasLatest, Stopped
  <1>7. ReportTrue /\ InstanceUp /\ ReceiptFits
    BY DEF ReportTrue, InstanceUp, ReceiptFits, Stopped, NoCall
  <1>8. BundleFits /\ JobFits
    BY DEF BundleFits, JobFits, Stopped, Detonating
  <1>9. ReceiptMeansGone /\ RestorableBeforeDestroyed /\ GreenMeansDetonated
    BY DEF ReceiptMeansGone, RestorableBeforeDestroyed, GreenMeansDetonated, Stopped
  <1> QED
    BY <1>4, <1>5, <1>6, <1>7, <1>8, <1>9 DEF LaunchInv

LEMMA LaunchInvStutters ==
  ASSUME LaunchInv, UNCHANGED launchVars
  PROVE  LaunchInv'
  <1>1. UNCHANGED <<setting, cli, files, launched, cloud, ids, call, deleted, failed, allowed,
                    troubles, dir, backup, swap, kept>>
    BY DEF launchVars, ociVars, bundleVars
  <1>2. TypeOKLaunch'
    BY <1>1, LaunchTyped, OciStays, BundleStays, LaunchTypedNext DEF LaunchInv, bundleVars
  <1>3. (CallFits /\ WhyFits /\ Fleet /\ Past)'
    BY <1>1 DEF LaunchInv, CallFits, WhyFits, Fleet, Past, Doomed, Drilling
  <1>4. (HasLatest(files.vault) /\ HasLatest(cli.vault) /\ ReportTrue /\ InstanceUp /\ ReceiptFits)'
    BY <1>1 DEF LaunchInv, HasLatest, ReportTrue, InstanceUp, ReceiptFits, Doomed
  <1>5. (BundleFits /\ JobFits /\ ReceiptMeansGone)'
    BY <1>1 DEF LaunchInv, BundleFits, JobFits, ReceiptMeansGone
  <1>6. (RestorableBeforeDestroyed /\ GreenMeansDetonated)'
    BY <1>1 DEF LaunchInv, RestorableBeforeDestroyed, GreenMeansDetonated
  <1> QED
    BY <1>2, <1>3, <1>4, <1>5, <1>6 DEF LaunchInv

LEMMA CliStepKeeps ==
  ASSUME LaunchInv, CliStep
  PROVE  LaunchInv'
  BY ProvisionedStep, ProvisionRefusedStep, SaveVaultStep, RecordWorkspaceStep,
     RemoteSetupFailsStep, RemoteTimesOutStep, RemoteSetupStep, RetrievedStep, RetrievalFailsStep,
     VerificationFailedStep, RetainsStep, DrillStep, DrillRefusedStep, DrillProvisionedStep,
     DrillSaveStep, RestoreStep, RestoreFailsStep, RecordReplacementStep, PreflightStep, SshStep,
     DetonationTimesOutStep, ReportedStep, DetonationRaisesStep, DrillJudgesStep, DrillFailedStep, RecordStep, CopyStep,
     SaveJobStep
  DEF CliStep

LEMMA LaunchInvNext ==
  ASSUME LaunchInv, [NextLaunch]_launchVars
  PROVE  LaunchInv'
  <1>1. CASE UNCHANGED launchVars
    BY <1>1, LaunchInvStutters
  <1>2. CASE NextLaunch
    BY <1>2, LaunchStep, ManualStep, CliStepKeeps, CloudStep, SwapsStep, CrashStep, VaultLostStep,
       ReleaseStep
    DEF NextLaunch
  <1> QED
    BY <1>1, <1>2

LEMMA LaunchInvariant == SpecLaunch => []LaunchInv
  <1>1. InitLaunch => LaunchInv
    BY LaunchInvInit
  <1>2. LaunchInv /\ [NextLaunch]_launchVars => LaunchInv'
    BY LaunchInvNext
  <1> QED
    BY <1>1, <1>2, PTL DEF SpecLaunch

(* Every variable has its type: in particular every provision is for a     *)
(* workspace that may exist, and the vault's last workspace is one.        *)
THEOREM LaunchTypeCorrect == SpecLaunch => []TypeOKLaunch
  <1>1. LaunchInv => TypeOKLaunch
    BY DEF LaunchInv
  <1> QED
    BY <1>1, LaunchInvariant, PTL

(* A complete receipt of a detonation is true, whatever calls failed, were *)
(* lost or timed out before it (_record_workspace_detonation in cli.py).   *)
THEOREM ReceiptIsTrue == SpecLaunch => []ReceiptMeansGone
  <1>1. LaunchInv => ReceiptMeansGone
    BY DEF LaunchInv
  <1> QED
    BY <1>1, LaunchInvariant, PTL

(* The drill destroys the original only when its replacement is up and in  *)
(* the vault and the bundle can restore it                                 *)
(* (_run_oci_worker_replacement_drill).                                    *)
THEOREM DrillIsRestorable == SpecLaunch => []RestorableBeforeDestroyed
  <1>1. LaunchInv => RestorableBeforeDestroyed
    BY DEF LaunchInv
  <1> QED
    BY <1>1, LaunchInvariant, PTL

(* A launch that reports success has left no workspace of its own behind.  *)
THEOREM GreenIsGone == SpecLaunch => []GreenMeansDetonated
  <1>1. LaunchInv => GreenMeansDetonated
    BY DEF LaunchInv
  <1> QED
    BY <1>1, LaunchInvariant, PTL

(* A failed job changes on file only when the next launch begins its own,  *)
(* or when a manual detonation records its outcome in it.                  *)
LEMMA FailedJobChanges ==
  ASSUME LaunchInv, NextLaunch, HasFailed(files.job), files'.job # files.job
  PROVE  Launch \/ (SaveJob /\ cli.why = "manual")
  <1> USE DEF LaunchInv
  <1>1. cli.phase = "down" \/ cli.why = "manual"
    BY DEF JobFits
  <1>2. cli.phase \in {"down", "ssh", "cloud", "reported", "attach", "save"}
    BY <1>1, LaunchTyped DEF WhyFits, Early, CliType, CliPhases
  <1>3. ~_cmd_runner_detonate /\ ~Cloud /\ ~Swap /\ ~Crash /\ \A w \in Workspaces : ~Release(w)
    BY DEF _cmd_runner_detonate, Cloud, Swap, Crash, Release
  <1>4. ~VaultLost
    BY LaunchTyped DEF VaultLost, FilesType
  <1>5. ASSUME CliStep PROVE SaveJob /\ cli.why = "manual"
    <2>1. ~Provisioned /\ ~ProvisionRefused /\ ~SaveVault /\ ~RecordWorkspace /\ ~RemoteSetupFails
          /\ ~RemoteTimesOut /\ ~execute_remote_setup /\ ~Retrieved /\ ~RetrievalFails
          /\ ~VerificationFailed /\ ~Retains
      BY <1>2 DEF Provisioned, ProvisionRefused, SaveVault, RecordWorkspace, RemoteSetupFails,
         RemoteTimesOut, execute_remote_setup, Retrieved, RetrievalFails, VerificationFailed, Retains
    <2>2. ~_run_oci_worker_replacement_drill /\ ~DrillRefused /\ ~DrillProvisioned /\ ~DrillSave
          /\ ~execute_worker_replacement_drill /\ ~RestoreFails /\ ~RecordReplacement
          /\ ~_run_remote_detonation_preflight
      BY <1>2 DEF _run_oci_worker_replacement_drill, DrillRefused, DrillProvisioned, DrillSave,
         execute_worker_replacement_drill, RestoreFails, RecordReplacement,
         _run_remote_detonation_preflight
    <2>3. ~detonate_remote_worker /\ ~_mark_remote_worker_detonated_by_workspace_teardown
          /\ ~DetonationRaises /\ ~_copy_workspace_detonation_to_remote_artifacts /\ ~DrillJudges
          /\ ~DetonationTimesOut
      BY DEF detonate_remote_worker, DetonationTimesOut, _mark_remote_worker_detonated_by_workspace_teardown,
         DetonationRaises, _copy_workspace_detonation_to_remote_artifacts, DrillJudges, CliOnly
    <2>4. ~DrillFailed
      BY <1>1 DEF DrillFailed
    <2>5. ~_record_workspace_detonation
      BY LaunchTyped DEF _record_workspace_detonation, FilesType
    <2>6. SaveJob
      BY <1>5, <2>1, <2>2, <2>3, <2>4, <2>5 DEF CliStep
    <2> QED
      BY <1>1, <2>6 DEF SaveJob
  <1> QED
    BY <1>3, <1>4, <1>5 DEF NextLaunch

(* A job that failed is not taken up again by a launch: only the manual    *)
(* detonation whose failure was all that failed may be repeated in it      *)
(* (_launch_job_can_resume in cli.py).                                     *)
THEOREM FailedForGood == SpecLaunch => FailedStaysFailed
  <1> DEFINE Stays ==
        HasFailed(files.job) /\ files'.job # files.job
          => \/ files'.job.id # files.job.id \/ ~IsActive(files'.job)
             \/ cli.why = "manual" /\ FailedSteps(files.job) = {"detonate"}
  <1>1. ASSUME LaunchInv, NextLaunch, HasFailed(files.job), files'.job # files.job
        PROVE  Stays
    <2> USE DEF LaunchInv
    <2>1. CASE Launch
      <3>1. ~_launch_job_can_resume(files.job)
        BY <1>1 DEF _launch_job_can_resume, IsActive
      <3>2. launched + 1 \in Workspaces
        <4>1. launched + 2 \in Workspaces
          BY <2>1 DEF Launch
        <4>2. launched + 1 \in 1..(launched + 2)
          BY <1>1, Numbers
        <4> QED
          BY <4>1, <4>2, NatWorkspaces
      <3>3. files'.job = create(launched + 1)
        BY <1>1, <2>1, <3>1, LaunchTyped DEF Launch, _load_or_create_launch_job, FilesType
      <3>4. files.job.id <= launched /\ files.job.id \in Nat /\ launched \in Nat
        BY <1>1, Numbers DEF Past
      <3> QED
        BY <3>2, <3>3, <3>4, CreateTyped
    <2>2. CASE SaveJob /\ cli.why = "manual"
      <3>1. cli.phase = "save" /\ files'.job = cli.job
        BY <1>1, <2>2, LaunchTyped DEF SaveJob, FilesType
      <3>2. PICK status \in {"done", "failed"} : cli.job = mark(files.job, "detonate", status)
        BY <1>1, <2>2, <3>1 DEF JobFits
      <3>3. files.job \in JobState /\ "detonate" \in StepNames
        BY <1>1, LaunchTyped DEF FilesType, StepNames
      <3>4. CASE status = "failed"
        <4>1. FailedSteps(files'.job) = FailedSteps(files.job) \cup {"detonate"}
          BY <3>1, <3>2, <3>3, <3>4, MarkTyped
        <4> QED
          BY <4>1 DEF IsActive, HasFailed
      <3>5. CASE status = "done"
        <4>0. FailedSteps(mark(files.job, "detonate", "done")) = FailedSteps(files.job) \ {"detonate"}
          BY <3>3, MarkTyped
        <4>1. FailedSteps(files'.job) = FailedSteps(files.job) \ {"detonate"}
          BY <3>1, <3>2, <3>5, <4>0
        <4>2. FailedSteps(files.job) # {}
          BY <1>1 DEF HasFailed
        <4>3. FailedSteps(files'.job) # {} \/ FailedSteps(files.job) = {"detonate"}
          BY <4>1, <4>2
        <4> QED
          BY <2>2, <4>3 DEF IsActive, HasFailed
      <3> QED
        BY <3>2, <3>4, <3>5
    <2> QED
      BY <1>1, <2>1, <2>2, FailedJobChanges
  <1>2. LaunchInv /\ [NextLaunch]_launchVars => [Stays]_launchVars
    BY <1>1
  <1>3. SpecLaunch => [][Stays]_launchVars
    BY <1>2, LaunchInvariant, PTL DEF SpecLaunch
  <1> QED
    BY <1>3 DEF FailedStaysFailed

-----------------------------------------------------------------------------
(* The bundle on disk.                                                     *)

(* A step has at most one trouble, which is counted.                       *)
Troubled == troubles' = troubles \/ \E kind \in TroubleKinds : Trouble(kind)

Interrupting == {"crash", "rename_new", "rename_old"}

LEMMA TroubleIsHad ==
  ASSUME TypeOKOci, NEW kind \in TroubleKinds, Trouble(kind), NEW kinds
  PROVE  Had(kinds)' <=> Had(kinds) \/ kind \in kinds
  <1>1. PICK n \in 0..MaxTroubles : troubles \in [1..n -> TroubleKinds]
    BY DEF TypeOKOci
  <1>2. n \in Nat /\ DOMAIN troubles = 1..n /\ Len(troubles) = n
    BY <1>1, TroublesAssumption
  <1>3. DOMAIN troubles' = 1..n + 1 /\ troubles'[n + 1] = kind
        /\ \A i \in 1..n : troubles'[i] = troubles[i]
    BY <1>2, TroubleTyped
  <1>4. 1..n + 1 = 1..n \cup {n + 1}
    BY <1>2
  <1> QED
    BY <1>2, <1>3, <1>4 DEF Had

LEMMA HadStays ==
  ASSUME UNCHANGED troubles, NEW kinds
  PROVE  Had(kinds)' <=> Had(kinds)
  BY DEF Had

LEMMA HadGrows ==
  ASSUME TypeOKOci, Troubled, NEW kinds, Had(kinds)
  PROVE  Had(kinds)'
  <1>1. ASSUME NEW kind \in TroubleKinds, Trouble(kind) PROVE Had(kinds)'
    BY <1>1, TroubleIsHad
  <1> QED
    BY <1>1, HadStays DEF Troubled

LEMMA InterruptionsCounted ==
  ASSUME TypeOKOci, NEW kind \in TroubleKinds, Trouble(kind)
  PROVE  /\ Interruptions \in Nat
         /\ Interruptions' = IF kind \in Interrupting THEN Interruptions + 1 ELSE Interruptions
  <1> DEFINE S == {i \in DOMAIN troubles : troubles[i] \in Interrupting}
             T == {i \in DOMAIN troubles' : troubles'[i] \in Interrupting}
  <1>1. PICK n \in 0..MaxTroubles : troubles \in [1..n -> TroubleKinds]
    BY DEF TypeOKOci
  <1>2. n \in Nat /\ DOMAIN troubles = 1..n /\ Len(troubles) = n
    BY <1>1, TroublesAssumption
  <1>3. DOMAIN troubles' = 1..n + 1 /\ troubles'[n + 1] = kind
        /\ \A i \in 1..n : troubles'[i] = troubles[i]
    BY <1>2, TroubleTyped
  <1>4. 1..n + 1 = 1..n \cup {n + 1} /\ n + 1 \notin 1..n
    BY <1>2
  <1>5. T = (IF kind \in Interrupting THEN S \cup {n + 1} ELSE S) /\ n + 1 \notin S
    BY <1>2, <1>3, <1>4
  <1>6. IsFiniteSet(S)
    <2>1. IsFiniteSet(1..n) /\ S \subseteq 1..n
      BY <1>2, FS_Interval
    <2> QED
      BY <2>1, FS_Subset
  <1>7. Cardinality(S) \in Nat /\ Cardinality(S \cup {n + 1}) = Cardinality(S) + 1
    BY <1>5, <1>6, FS_CardinalityType, FS_AddElement
  <1>8. Interruptions = Cardinality(S) /\ Interruptions' = Cardinality(T)
    BY DEF Interruptions, Interrupting
  <1> QED
    BY <1>5, <1>7, <1>8

LEMMA InterruptionsStay ==
  ASSUME UNCHANGED troubles
  PROVE  Interruptions' = Interruptions
  BY DEF Interruptions

(* What a step may do to the bundle.                                       *)
SwapLeft ==
  /\ UNCHANGED <<dir, backup, kept>> /\ swap'.phase = "idle"
  /\ \/ UNCHANGED troubles /\ swap.phase \in {"replaced", "failed"}
     \/ Trouble("crash")

SwapBegun ==
  /\ UNCHANGED <<dir, backup, kept>> /\ Troubled
  /\ swap.phase = "idle" /\ swap'.phase = "clear"

Rewritten ==
  /\ UNCHANGED <<backup, swap, kept>> /\ UNCHANGED troubles
  /\ swap.phase = "idle" /\ dir' # NoBundle

LEMMA BundleFlow ==
  ASSUME LaunchInv, NextLaunch
  PROVE  (UNCHANGED bundleVars /\ Troubled) \/ SwapStep \/ SwapLeft \/ SwapBegun \/ Rewritten
  <1> USE DEF LaunchInv
  <1>0. {"remote", "ssh", "timeout", "vault", "crash"} \subseteq TroubleKinds
    BY DEF TroubleKinds
  <1>1. CASE Launch
    BY <1>1 DEF Launch, provision, Troubled
  <1>2. CASE _cmd_runner_detonate
    BY <1>2 DEF _cmd_runner_detonate, Troubled
  <1>3. CASE Cloud
    <2>1. {"refused", "lost", "delete", "slow"} \subseteq TroubleKinds
      BY DEF TroubleKinds
    <2>2. Troubled
      BY <1>3, <2>1 DEF Troubled, Cloud, OciStep, Create, _create_nsg, _launch_instance,
         _launch_with_capacity_fallback, _public_ip, CreateFails, _instance_boot_volume_ids,
         _terminate_instance, _wait_for_instance_network_release, _wait_for_boot_volume_deletion,
         _delete_oci_resource, Deleted, CreateNext
    <2> QED
      BY <1>3, <2>2 DEF Cloud
  <1>4. CASE Swap
    BY <1>4 DEF Swap
  <1>5. CASE Crash
    BY <1>5 DEF Crash, SwapLeft, SwapEnds
  <1>6. CASE VaultLost
    BY <1>0, <1>6 DEF VaultLost, Troubled
  <1>7. CASE \E w \in Workspaces : Release(w)
    BY <1>7 DEF Release, CloudReleases, Troubled
  <1>8. CASE CliStep
    <2>1. CASE Provisioned \/ ProvisionRefused \/ DrillRefused \/ DrillProvisioned \/ DetonationRaises
      BY <2>1 DEF Provisioned, ProvisionRefused, DrillRefused, DrillProvisioned, DetonationRaises,
         CallEnds, Troubled
    <2>2. CASE SaveVault \/ RecordWorkspace \/ VerificationFailed \/ Retains \/ DrillSave
               \/ RecordReplacement \/ _run_remote_detonation_preflight \/ DrillFailed
               \/ _record_workspace_detonation \/ SaveJob \/ DrillJudges
      <3>1. OwnOnly
        BY <2>2 DEF SaveVault, RecordWorkspace, VerificationFailed, Retains, DrillSave,
           RecordReplacement, _run_remote_detonation_preflight, DrillFailed,
           _record_workspace_detonation, SaveJob, DrillJudges, FilesOnly, CliOnly
      <3> QED
        BY <3>1 DEF OwnOnly, ociVars, Troubled
    <2>3. CASE RemoteSetupFails \/ RestoreFails \/ RemoteTimesOut \/ DetonationTimesOut
      BY <1>0, <2>3 DEF RemoteSetupFails, RestoreFails, RemoteTimesOut, DetonationTimesOut, Troubled
    <2>4. CASE execute_remote_setup
      <3>1. troubles' = troubles \/ Trouble("remote")
        BY <2>4 DEF execute_remote_setup
      <3>2. swap.phase = "idle"
        BY <2>4 DEF execute_remote_setup, BundleFits
      <3>3. UNCHANGED bundleVars \/ (UNCHANGED <<dir, backup, kept>> /\ swap'.phase = "clear")
        BY <2>4 DEF execute_remote_setup, _replace_existing_artifact_bundle
      <3> QED
        BY <1>0, <3>1, <3>2, <3>3 DEF Troubled, SwapBegun
    <2>5. CASE Retrieved \/ RetrievalFails
      <3>1. swap \in [phase: SwapPhases, staged: Bundle \cup {NoBundle}]
        BY DEF TypeOKLaunch, TypeOKBundle, SwapPhases
      <3> QED
        BY <2>5, <3>1 DEF Retrieved, RetrievalFails, SwapFinished, SwapLeft, ociVars
    <2>6. CASE _run_oci_worker_replacement_drill
      BY <2>6 DEF _run_oci_worker_replacement_drill, provision, ociVars, Troubled
    <2>7. CASE execute_worker_replacement_drill
      <3>1. Whole(dir) /\ swap.phase = "idle"
        BY <2>7 DEF execute_worker_replacement_drill, BundleFits
      <3>2. LaunchInv'
        BY <2>7, RestoreStep
      <3>3. cli'.phase = "resumed"
        BY <2>7, LaunchTyped DEF execute_worker_replacement_drill, CliType
      <3>4. Whole(dir')
        BY <3>2, <3>3 DEF BundleFits
      <3> QED
        BY <2>7, <3>1, <3>4, WholeIsBundle
        DEF execute_worker_replacement_drill, Rewritten, ociVars
    <2>8. CASE detonate_remote_worker
      BY <1>0, <2>8 DEF detonate_remote_worker, Troubled
    <2>9. CASE _mark_remote_worker_detonated_by_workspace_teardown
      BY <2>9 DEF _mark_remote_worker_detonated_by_workspace_teardown, Troubled
    <2>10. CASE _copy_workspace_detonation_to_remote_artifacts
      <3>1. swap.phase = "idle" /\ LaunchInv'
        BY <2>10, CopyStep DEF _copy_workspace_detonation_to_remote_artifacts, BundleFits
      <3>2. cli.why \in {"verify_failed", "success"} /\ cli' = [cli EXCEPT !.phase = "save"]
        BY <2>10 DEF _copy_workspace_detonation_to_remote_artifacts, WhyFits
      <3>3. Whole(dir')
        BY <3>1, <3>2, LaunchTyped DEF BundleFits, CliType
      <3> QED
        BY <2>10, <3>1, <3>3, WholeIsBundle
        DEF _copy_workspace_detonation_to_remote_artifacts, Rewritten, ociVars
    <2> QED
      BY <1>8, <2>1, <2>2, <2>3, <2>4, <2>5, <2>6, <2>7, <2>8, <2>9, <2>10 DEF CliStep
  <1> QED
    BY <1>1, <1>2, <1>3, <1>4, <1>5, <1>6, <1>7, <1>8 DEF NextLaunch

(* Without an interruption there is a bundle in its place, or in the       *)
(* backup while its place is empty; after one there still is one to come   *)
(* back to.                                                                *)
Kept ==
  kept /\ ~Had({"rename_old"}) =>
    /\ Interruptions = 0 =>
         IF swap.phase \in {"place", "restore"} THEN backup # NoBundle ELSE dir # NoBundle
    /\ Interruptions = 1 =>
         /\ swap.phase = "idle" => dir # NoBundle \/ backup # NoBundle
         /\ swap.phase = "restore" => backup # NoBundle
         /\ swap.phase \in {"fail", "failed"} => dir # NoBundle

LEMMA KeptSwaps ==
  ASSUME LaunchInv, Kept, SwapStep
  PROVE  Kept'
  <1> USE DEF LaunchInv
  <1>0. /\ "rename_old" \in TroubleKinds /\ "rename_new" \in TroubleKinds
        /\ TypeOKOci /\ TypeOKBundle
    BY DEF TroubleKinds, TypeOKLaunch
  <1>1. /\ swap.phase \in {"clear", "move", "place"} => swap.staged # NoBundle
        /\ swap.phase \in {"remove", "replaced"} => dir # NoBundle
    BY WholeIsBundle DEF BundleFits
  <1>2. ASSUME UNCHANGED troubles
        PROVE  Interruptions' = Interruptions /\ (Had({"rename_old"})' <=> Had({"rename_old"}))
    <2>1. Interruptions' = Interruptions
      BY <1>2, InterruptionsStay
    <2>2. Had({"rename_old"})' <=> Had({"rename_old"})
      BY <1>2, HadStays
    <2> QED
      BY <2>1, <2>2
  <1>3. CASE ClearBackup
    BY <1>1, <1>2, <1>3, <1>0 DEF Kept, ClearBackup, SwapTo, TypeOKBundle
  <1>4. CASE MoveAway
    BY <1>1, <1>2, <1>4, <1>0 DEF Kept, MoveAway, SwapTo, TypeOKBundle
  <1>5. CASE MoveAwayFails
    <2>1. Had({"rename_old"})'
      BY <1>0, <1>5, TroubleIsHad DEF MoveAwayFails
    <2> QED
      BY <2>1 DEF Kept
  <1>6. CASE Place
    BY <1>1, <1>2, <1>6, <1>0 DEF Kept, Place, TypeOKBundle
  <1>7. CASE PlaceFails
    <2>1. Trouble("rename_new")
      BY <1>7 DEF PlaceFails
    <2>2. Interruptions \in Nat /\ Interruptions' = Interruptions + 1
      BY <1>0, <2>1, InterruptionsCounted DEF Interrupting
    <2>3. Had({"rename_old"})' <=> Had({"rename_old"})
      BY <1>0, <2>1, TroubleIsHad
    <2> QED
      BY <1>1, <2>2, <2>3, <1>7, <1>0 DEF Kept, PlaceFails, SwapTo, TypeOKBundle
  <1>8. CASE Restore
    BY <1>1, <1>2, <1>8, <1>0 DEF Kept, Restore, SwapTo, TypeOKBundle
  <1>9. CASE RemoveBackup
    BY <1>1, <1>2, <1>9, <1>0 DEF Kept, RemoveBackup, SwapEnds, TypeOKBundle
  <1> QED
    BY <1>3, <1>4, <1>5, <1>6, <1>7, <1>8, <1>9 DEF SwapStep

LEMMA KeptNext ==
  ASSUME LaunchInv, Kept, [NextLaunch]_launchVars
  PROVE  Kept'
  <1> USE DEF LaunchInv
  <1>0. TypeOKOci /\ "crash" \in TroubleKinds /\ "rename_old" \notin {"crash"}
    BY DEF TroubleKinds, TypeOKLaunch
  <1>1. swap.phase = "replaced" => dir # NoBundle
    BY WholeIsBundle DEF BundleFits
  <1>2. ASSUME Troubled, UNCHANGED <<kept, backup, swap>>, UNCHANGED dir \/ (swap.phase = "idle" /\ dir' # NoBundle)
        PROVE  Kept'
    <2>1. CASE UNCHANGED troubles
      BY <1>2, <2>1, InterruptionsStay, HadStays DEF Kept
    <2>2. ASSUME NEW kind \in TroubleKinds, Trouble(kind) PROVE Kept'
      <3>1. /\ Interruptions \in Nat
            /\ Interruptions' = IF kind \in Interrupting THEN Interruptions + 1 ELSE Interruptions
        BY <1>0, <2>2, InterruptionsCounted
      <3>2. Had({"rename_old"}) => Had({"rename_old"})'
        BY <1>0, <1>2, HadGrows
      <3> QED
        BY <1>2, <3>1, <3>2 DEF Kept
    <2> QED
      BY <1>2, <2>1, <2>2 DEF Troubled
  <1>3. CASE UNCHANGED launchVars
    BY <1>2, <1>3 DEF launchVars, ociVars, bundleVars, Troubled
  <1>4. CASE UNCHANGED bundleVars /\ Troubled
    BY <1>2, <1>4 DEF bundleVars
  <1>5. CASE SwapStep
    BY <1>5, KeptSwaps
  <1>6. CASE SwapLeft
    <2>1. CASE UNCHANGED troubles /\ swap.phase \in {"replaced", "failed"}
      BY <1>1, <1>6, <2>1, InterruptionsStay, HadStays DEF SwapLeft, Kept
    <2>2. CASE Trouble("crash")
      <3>1. Interruptions \in Nat /\ Interruptions' = Interruptions + 1
        BY <1>0, <2>2, InterruptionsCounted DEF Interrupting
      <3>2. Had({"rename_old"})' <=> Had({"rename_old"})
        BY <1>0, <2>2, TroubleIsHad
      <3> QED
        BY <1>6, <3>1, <3>2 DEF SwapLeft, Kept
    <2> QED
      BY <1>6, <2>1, <2>2 DEF SwapLeft
  <1>7. CASE SwapBegun
    <2>1. CASE UNCHANGED troubles
      BY <1>7, <2>1, InterruptionsStay, HadStays DEF SwapBegun, Kept
    <2>2. ASSUME NEW kind \in TroubleKinds, Trouble(kind) PROVE Kept'
      <3>1. /\ Interruptions \in Nat
            /\ Interruptions' = IF kind \in Interrupting THEN Interruptions + 1 ELSE Interruptions
        BY <1>0, <2>2, InterruptionsCounted
      <3>2. Had({"rename_old"}) => Had({"rename_old"})'
        BY <1>0, <1>7, HadGrows DEF SwapBegun
      <3> QED
        BY <1>7, <3>1, <3>2 DEF SwapBegun, Kept
    <2> QED
      BY <1>7, <2>1, <2>2 DEF SwapBegun, Troubled
  <1>8. CASE Rewritten
    BY <1>2, <1>8 DEF Rewritten, Troubled
  <1> QED
    BY <1>3, <1>4, <1>5, <1>6, <1>7, <1>8, BundleFlow

(* A bundle once retrieved survives the retrieval of the next one, whether *)
(* a process dies or the rename of the new one fails                       *)
(* (_replace_existing_artifact_bundle in runner/remote.py).                *)
THEOREM BundleSurvives == SpecLaunch => []BundleKept
  <1>1. InitLaunch => Kept
    BY DEF InitLaunch, InitBundle, Kept
  <1>2. LaunchInv /\ Kept /\ [NextLaunch]_launchVars => Kept'
    BY KeptNext
  <1>3. LaunchInv /\ Kept => BundleKept
    <2> SUFFICES ASSUME LaunchInv, Kept PROVE BundleKept
      OBVIOUS
    <2>1. /\ swap.phase \in {"clear", "move", "place"} => swap.staged # NoBundle
          /\ swap.phase \in {"remove", "replaced"} => dir # NoBundle
      BY WholeIsBundle DEF LaunchInv, BundleFits
    <2>2. Interruptions \in Nat /\ swap.phase \in SwapPhases
      <3>1. PICK n \in 0..MaxTroubles : troubles \in [1..n -> TroubleKinds]
        BY DEF LaunchInv, TypeOKLaunch, TypeOKOci
      <3>2. n \in Nat /\ DOMAIN troubles = 1..n
        BY <3>1, TroublesAssumption
      <3>3. IsFiniteSet(1..n) /\ {i \in DOMAIN troubles : troubles[i] \in Interrupting} \subseteq 1..n
        BY <3>2, FS_Interval
      <3>4. Interruptions \in Nat
        BY <3>3, FS_Subset, FS_CardinalityType DEF Interruptions, Interrupting
      <3> QED
        BY <3>4 DEF LaunchInv, TypeOKLaunch, TypeOKBundle, SwapPhases
    <2> QED
      BY <2>1, <2>2 DEF BundleKept, Kept, SwapPhases
  <1> QED
    BY <1>1, <1>2, <1>3, LaunchInvariant, PTL DEF SpecLaunch

-----------------------------------------------------------------------------
(* A provision that is refused.                                            *)

Faultless == ~Had({"lost", "delete", "slow"})

(* A workspace nobody asked for yet is empty.                              *)
Untouched == \A w \in Workspaces : w > launched => cloud[w] = {} /\ ids[w] = {}

(* A security group without rules: its id was never noted.                 *)
Orphaned(c, known) == "network_security_group" \in c \ known

(* What is deleted already when a deletion without a fault comes to a step.*)
Unwound(at, c, known) ==
  /\ at = 1 => "instance" \in c \/ {"vnic", "boot_volume"} \cap c = {}
  /\ at = 2 => "instance" \in c
  /\ at > 2 => "instance" \notin c
  /\ at > 3 => "vnic" \notin c
  /\ at > 4 => "boot_volume" \notin c
  /\ at > 5 => "subnet" \notin c
  /\ at > 6 => "route_table" \notin c
  /\ at > 7 => "internet_gateway" \notin c
  /\ at > 8 => "network_security_group" \notin c \/ Orphaned(c, known)
  /\ at > 9 => "security_list" \notin c
  /\ at > 10 => "vcn" \notin c \/ Orphaned(c, known)

(* The program knows what it made, but for that security group.            *)
Undoable ==
  Faultless /\ call.op \in {"create", "undo"} =>
    LET c == cloud[call.ws]  known == ids[call.ws] IN
      /\ c \cap (Network \cup {"instance"}) \subseteq known \cup {"network_security_group"}
      /\ "unconfirmed_instance" \notin c
      /\ call.op = "create" => ("instance" \in known => "instance" \in c) /\ Unwound(1, c, known)
      /\ call.op = "undo" =>
           /\ call.at = 1 => ("instance" \in known => "instance" \in c)
           /\ call.at \in {2, 3, 4} => call.bootKnown
           /\ Unwound(call.at, c, known)

RefusedInv == Untouched /\ Undoable /\ RefusedLeavesNothing

LEMMA DeletesAt ==
  ASSUME TypeOKOci, call.op \in {"undo", "detonate"}
  PROVE  /\ call.at \in 1..11
         /\ call.at = 1 <=> Deleting = "boot_volumes"
         /\ call.at = 2 <=> Deleting = "terminate"
         /\ call.at = 3 <=> Deleting = "release"
         /\ call.at = 4 <=> Deleting = "boot_wait"
         /\ call.at = 5 <=> Deleting = "subnet"
         /\ call.at = 6 <=> Deleting = "route_table"
         /\ call.at = 7 <=> Deleting = "internet_gateway"
         /\ call.at = 8 <=> Deleting = "network_security_group"
         /\ call.at = 9 <=> Deleting = "security_list"
         /\ call.at = 10 <=> Deleting = "vcn"
         /\ call.at = 11 <=> Deleting = "none"
  <1>1. call.at \in 1..11
    BY OciTyped DEF CallTyped
  <1>2. Deleting = IF call.at <= 10 THEN DeleteSteps[call.at] ELSE "none"
    BY DEF Deleting, Step, DeleteSteps
  <1>3. /\ DeleteSteps[1] = "boot_volumes" /\ DeleteSteps[2] = "terminate"
        /\ DeleteSteps[3] = "release" /\ DeleteSteps[4] = "boot_wait" /\ DeleteSteps[5] = "subnet"
        /\ DeleteSteps[6] = "route_table" /\ DeleteSteps[7] = "internet_gateway"
        /\ DeleteSteps[8] = "network_security_group" /\ DeleteSteps[9] = "security_list"
        /\ DeleteSteps[10] = "vcn"
    BY DEF DeleteSteps
  <1> QED
    BY <1>1, <1>2, <1>3

LEMMA OciTroubled ==
  ASSUME OciStep
  PROVE  Troubled
  <1>1. {"refused", "lost", "delete", "slow"} \subseteq TroubleKinds
    BY DEF TroubleKinds
  <1> QED
    BY <1>1 DEF Troubled, OciStep, Create, _create_nsg, _launch_instance,
       _launch_with_capacity_fallback, _public_ip, CreateFails, _instance_boot_volume_ids, _terminate_instance,
       _wait_for_instance_network_release, _wait_for_boot_volume_deletion, _delete_oci_resource,
       Deleted, CreateNext

(* What is known of a workspace grows while it is created, and stays.      *)
LEMMA OciKnown ==
  ASSUME TypeOKOci, OciStep
  PROVE  /\ call.op # "create" => ids' = ids
         /\ \A w \in Workspaces : w # call.ws => ids'[w] = ids[w]
  <1>1. CASE Create \/ _create_nsg \/ _launch_instance
    BY <1>1, OciTyped, CreateAt DEF Create, _create_nsg, _launch_instance, CreateNext, Network
  <1>2. CASE ids' = ids
    BY <1>2
  <1> QED
    BY <1>1, <1>2 DEF OciStep, _launch_with_capacity_fallback, _public_ip,
       CreateFails, _instance_boot_volume_ids, _terminate_instance,
       _wait_for_instance_network_release, _wait_for_boot_volume_deletion, _delete_oci_resource,
       Deleted

LEMMA FaultIsHad ==
  ASSUME TypeOKOci, NEW kind \in {"lost", "delete", "slow"}, Trouble(kind)
  PROVE  ~Faultless'
  <1>1. kind \in TroubleKinds
    BY DEF TroubleKinds
  <1> QED
    BY <1>1, TroubleIsHad DEF Faultless

LEMMA FaultlessBefore ==
  ASSUME TypeOKOci, Troubled, Faultless'
  PROVE  Faultless
  BY HadGrows DEF Faultless

LEMMA UndoableMade ==
  ASSUME TypeOKOci, UNCHANGED allowed, Undoable, OciStep, call.op = "create",
         call.ws \in Workspaces
  PROVE  Undoable'
  <1> SUFFICES ASSUME Faultless', call'.op \in {"create", "undo"} PROVE Undoable'
    BY DEF Undoable
  <1> DEFINE w == call.ws
  <1>0. /\ Faultless /\ CallTyped /\ call'.ws = w
        /\ cloud \in [Workspaces -> SUBSET Resources]
        /\ ids \in [Workspaces -> SUBSET (Network \cup {"instance"})]
    BY OciTroubled, FaultlessBefore, OciTyped, OciEffect DEF Onwards
  <1>1. /\ cloud[w] \cap (Network \cup {"instance"}) \subseteq ids[w] \cup {"network_security_group"}
        /\ "unconfirmed_instance" \notin cloud[w]
        /\ "instance" \in ids[w] => "instance" \in cloud[w]
        /\ "instance" \in cloud[w] \/ {"vnic", "boot_volume"} \cap cloud[w] = {}
    BY <1>0 DEF Undoable, Unwound
  <1>2. Deleting = "none"
    BY DEF Deleting, Step
  <1>3. CASE Create \/ _create_nsg \/ _launch_instance
    <2>1. \/ /\ Creating \in Network
             /\ cloud'[w] = cloud[w] \cup {Creating} /\ ids'[w] = ids[w] \cup {Creating}
          \/ cloud'[w] = cloud[w] \cup {"network_security_group"} /\ ids'[w] = ids[w]
          \/ cloud'[w] = cloud[w] /\ ids'[w] = ids[w] \cup {"network_security_group"}
          \/ /\ cloud'[w] = cloud[w] \cup {"instance", "vnic", "boot_volume"}
             /\ ids'[w] = ids[w] \cup {"instance"}
      BY <1>0, <1>3 DEF Create, _create_nsg, _launch_instance, CreateNext
    <2>2. call'.op = "create"
      BY <1>0, <1>3 DEF Create, _create_nsg, _launch_instance, CreateNext, CallTyped
    <2> QED
      BY <1>0, <1>1, <2>1, <2>2 DEF Undoable, Unwound, Network
  <1>4. CASE _launch_with_capacity_fallback
    BY <1>0, <1>4 DEF _launch_with_capacity_fallback, Undoable
  <1>5. CASE CreateFails
    <2>1. UNCHANGED <<cloud, ids>> /\ call'.op = "undo" /\ call'.at = 1
      BY <1>0, <1>5, FaultIsHad DEF CreateFails, CallTyped
    <2> QED
      BY <1>0, <1>1, <2>1 DEF Undoable, Unwound
  <1>6. CASE _public_ip
    BY <1>6 DEF _public_ip, NoCall
  <1>7. CASE \/ _instance_boot_volume_ids \/ _terminate_instance
             \/ _wait_for_instance_network_release \/ _wait_for_boot_volume_deletion
             \/ _delete_oci_resource \/ Deleted
    BY <1>2, <1>7 DEF _instance_boot_volume_ids, _terminate_instance,
       _wait_for_instance_network_release, _wait_for_boot_volume_deletion,
       _delete_oci_resource, Network, Deleted
  <1> QED
    BY <1>3, <1>4, <1>5, <1>6, <1>7 DEF OciStep

(* Without a fault an undo deletes all there is, each resource after what  *)
(* depends on it.                                                          *)
LEMMA UndoableUndone ==
  ASSUME TypeOKOci, UNCHANGED allowed, Undoable, OciStep, call.op = "undo", call.ws \in Workspaces
  PROVE  Undoable' /\ RefusedLeavesNothing'
  <1> SUFFICES ASSUME Faultless'
               PROVE  /\ Undoable'
                      /\ call'.op = "refused" => cloud'[call.ws] \subseteq Unnoted(call.ws)'
    <2>1. call'.ws = call.ws
      BY OciEffect DEF Onwards
    <2> QED
      BY <2>1 DEF Undoable, RefusedLeavesNothing, Faultless, Unnoted
  <1> DEFINE w == call.ws
             c == cloud[w]
             known == ids[w]
  <1>0. /\ Faultless /\ CallTyped /\ call'.ws = w
        /\ cloud \in [Workspaces -> SUBSET Resources] /\ c \subseteq Resources
        /\ ids \in [Workspaces -> SUBSET (Network \cup {"instance"})]
        /\ ids' = ids
    BY OciTroubled, FaultlessBefore, OciTyped, OciEffect, OciKnown DEF Onwards
  <1>1. /\ c \cap (Network \cup {"instance"}) \subseteq known \cup {"network_security_group"}
        /\ "unconfirmed_instance" \notin c
        /\ call.at = 1 => ("instance" \in ids[w] => "instance" \in c)
        /\ call.at \in {2, 3, 4} => call.bootKnown
        /\ Unwound(call.at, c, known)
    BY <1>0 DEF Undoable
  <1>2. /\ ~Trouble("lost") /\ ~Trouble("delete") /\ ~Trouble("slow")
    BY FaultIsHad
  <1>3. Creating = "none"
    BY DEF Creating, Step
  <1>4. CASE \/ Create \/ _create_nsg \/ _launch_instance \/ _launch_with_capacity_fallback
             \/ _public_ip \/ CreateFails
    BY <1>3, <1>4 DEF Create, _create_nsg, _launch_instance, _launch_with_capacity_fallback, _public_ip,
       CreateFails, Network
  <1>5. CASE _instance_boot_volume_ids
    <2>0. call.at = 1 /\ cloud' = cloud /\ ("instance" \in ids[w] <=> "instance" \in c)
      BY <1>0, <1>1, <1>5, DeletesAt DEF _instance_boot_volume_ids
    <2>1. /\ call.at = 1 /\ cloud' = cloud
          /\ \/ "instance" \notin c /\ call'.at = 5
             \/ "instance" \in c /\ call'.at = 2 /\ call'.bootKnown
          /\ call'.op = "undo"
      <3>1. CASE "instance" \notin c
        <4>1. call' = [call EXCEPT !.at = 5]
          BY <1>5, <2>0, <3>1 DEF _instance_boot_volume_ids, Goto, AfterInstance
        <4> QED
          BY <1>0, <2>0, <3>1, <4>1 DEF CallTyped
      <3>2. CASE "instance" \in c
        <4>1. call' = [call EXCEPT !.at = @ + 1, !.bootKnown = TRUE]
          BY <1>2, <1>5, <2>0, <3>2 DEF _instance_boot_volume_ids, Has
        <4> QED
          BY <1>0, <2>0, <3>2, <4>1 DEF CallTyped
      <3> QED
        BY <3>1, <3>2
    <2>2. Unwound(call'.at, c, known)
      BY <1>1, <2>1 DEF Unwound
    <2> QED
      BY <1>0, <1>1, <2>1, <2>2 DEF Undoable
  <1>6. CASE _terminate_instance
    <2>1. call.at = 2
      BY <1>6, DeletesAt DEF _terminate_instance
    <2>2. "instance" \in c
      BY <1>1, <2>1 DEF Unwound
    <2>3. /\ cloud'[w] = c \ {"instance"} /\ call'.at = 3 /\ call'.op = "undo"
          /\ call'.bootKnown = call.bootKnown
      BY <1>0, <1>2, <1>6, <2>1, <2>2 DEF _terminate_instance, Goto, Has, CallTyped
    <2>4. Unwound(3, cloud'[w], known)
      BY <1>1, <2>3 DEF Unwound
    <2> QED
      BY <1>0, <1>1, <2>1, <2>3, <2>4 DEF Undoable
  <1>7. CASE _wait_for_instance_network_release
    <2>1. /\ call.at = 3 /\ cloud' = cloud /\ "vnic" \notin c
          /\ call'.at = 4 /\ call'.op = "undo" /\ call'.bootKnown = call.bootKnown
      BY <1>0, <1>2, <1>7, DeletesAt DEF _wait_for_instance_network_release, Goto, Has, CallTyped
    <2>2. Unwound(4, c, known)
      BY <1>1, <2>1 DEF Unwound
    <2> QED
      BY <1>0, <1>1, <2>1, <2>2 DEF Undoable
  <1>8. CASE _wait_for_boot_volume_deletion
    <2>1. /\ call.at = 4 /\ cloud' = cloud /\ "boot_volume" \notin c
          /\ call'.at = 5 /\ call'.op = "undo"
      BY <1>0, <1>1, <1>2, <1>8, DeletesAt
      DEF _wait_for_boot_volume_deletion, Goto, Has, CallTyped
    <2>2. Unwound(5, c, known)
      BY <1>1, <2>1 DEF Unwound
    <2> QED
      BY <1>0, <1>1, <2>1, <2>2 DEF Undoable
  <1>9. CASE _delete_oci_resource
    <2>1. Deleting \in Network /\ call.at \in 5..10
      BY <1>9, DeletesAt DEF _delete_oci_resource, Network
    <2>2. Has(Deleting) => ~Blocked(Deleting) \/ (Deleting = "vcn" /\ Orphaned(c, known))
      <3>1. c \cap Dependents(Deleting) = {} \/ (Deleting = "vcn" /\ Orphaned(c, known))
        BY <1>1, <2>1, DeletesAt DEF Unwound, Dependents, Network
      <3> QED
        BY <3>1 DEF Blocked
    <2>3. \/ cloud'[w] = c \ {Deleting}
          \/ /\ Deleting \in {"vcn", "network_security_group"} /\ Orphaned(c, known)
             /\ cloud'[w] = c
      BY <1>0, <1>1, <1>2, <1>9, <2>1, <2>2 DEF _delete_oci_resource, Has, Orphaned
    <2>4. call'.at = call.at + 1 /\ call'.op = "undo" /\ call'.at \in 6..11
      BY <1>0, <1>9, <2>1 DEF _delete_oci_resource, Goto, CallTyped
    <2>5. Unwound(call'.at, cloud'[w], known)
      BY <1>1, <2>1, <2>3, <2>4, DeletesAt DEF Unwound, Orphaned
    <2> QED
      BY <1>0, <1>1, <2>3, <2>4, <2>5 DEF Undoable
  <1>10. CASE Deleted
    <2>1. call.at = 11 /\ cloud' = cloud /\ call'.op = "refused"
      BY <1>0, <1>10 DEF Deleted, NoCall, CallTyped, DeleteSteps
    <2>2. c \subseteq IF Orphaned(c, known) THEN {"vcn", "network_security_group"} ELSE {}
      BY <1>0, <1>1, <2>1 DEF Unwound, Resources, Network
    <2> QED
      BY <1>0, <2>1, <2>2 DEF Undoable, Unnoted, Orphaned
  <1> QED
    BY <1>4, <1>5, <1>6, <1>7, <1>8, <1>9, <1>10 DEF OciStep

(* What a step may do to the cloud.                                        *)
CallLeft ==
  /\ UNCHANGED <<cloud, ids, launched>>
  /\ call' = call \/ call'.op \in {"none", "detonate"}

CallBegun ==
  /\ UNCHANGED <<cloud, ids>>
  /\ launched' = launched + 1 /\ launched' \in Workspaces
  /\ call'.op = "create" /\ call'.ws = launched' /\ call'.at = 1

OciMoves ==
  /\ OciStep /\ UNCHANGED <<allowed, launched, cli>>
  /\ call.ws \in Workspaces /\ call.ws <= launched
  /\ call.op = "create" => call.ws = launched

LEMMA CallFlow ==
  ASSUME LaunchInv, [NextLaunch]_launchVars
  PROVE  /\ Troubled
         /\ \/ CallLeft \/ CallBegun \/ OciMoves
            \/ UNCHANGED launched /\ \E w \in Workspaces : CloudReleases(w)
  <1> USE DEF LaunchInv
  <1>0. TypeOKOci /\ TypeOKBundle /\ SwapFits /\ "crash" \in TroubleKinds
    BY DEF TypeOKLaunch, BundleFits, SwapFits, TroubleKinds
  <1>1. Troubled
    <2>1. CASE UNCHANGED launchVars
      BY <2>1 DEF launchVars, ociVars, Troubled
    <2>2. CASE SwapStep
      BY <1>0, <2>2, SwapEffect DEF Troubled
    <2>3. CASE SwapLeft \/ SwapBegun \/ Rewritten
      BY <1>0, <2>3 DEF SwapLeft, SwapBegun, Rewritten, Troubled
    <2> QED
      BY <2>1, <2>2, <2>3, BundleFlow
  <1> SUFFICES \/ CallLeft \/ CallBegun \/ OciMoves
               \/ UNCHANGED launched /\ \E w \in Workspaces : CloudReleases(w)
    BY <1>1
  <1>2. CASE UNCHANGED launchVars
    BY <1>2 DEF launchVars, ociVars, CallLeft
  <1>3. CASE Launch
    <2>1. launched + 1 \in Workspaces
      <3>1. launched \in Nat /\ launched + 2 \in Workspaces
        BY <1>3, LaunchTyped DEF Launch
      <3>2. launched + 1 \in 1..(launched + 2)
        BY <3>1
      <3> QED
        BY <3>1, <3>2, NatWorkspaces
    <2> QED
      BY <1>3, <2>1 DEF Launch, provision, NoCall, CallBegun
  <1>4. CASE _run_oci_worker_replacement_drill
    <2>1. CASE UNCHANGED <<files, launched, ociVars>>
      BY <2>1 DEF ociVars, CallLeft
    <2>2. CASE launched' = launched + 1 /\ provision(launched + 1)
      <3>1. launched' \in Workspaces
        BY <1>4, DrillStep, <2>2, LaunchTyped DEF provision, TypeOKLaunch
      <3> QED
        BY <2>2, <3>1 DEF provision, NoCall, CallBegun
    <2> QED
      BY <1>4, <2>1, <2>2 DEF _run_oci_worker_replacement_drill
  <1>5. CASE Cloud
    <2>1. call.op \in {"create", "undo", "detonate"}
      BY <1>0, <1>5, OciEffect DEF Cloud, Rigid, Onwards
    <2>2. call.ws \in Workspaces
      BY <2>1, CalledWorkspace
    <2>3. call.op = "create" => call.ws = launched
      BY DEF CallFits
    <2>4. call.ws <= launched
      <3>1. CASE cli.phase \in {"provision", "drill"}
        BY <3>1, Numbers DEF CallFits
      <3>2. CASE cli.phase = "cloud"
        <4>1. cli.why = "drill_failed" => cli.replacement = launched
          BY DEF Fleet
        <4> QED
          BY <3>2, <4>1, Numbers DEF CallFits, Doomed, Past
      <3> QED
        BY <2>1, <3>1, <3>2 DEF CallFits
    <2> QED
      BY <1>5, <2>2, <2>3, <2>4 DEF Cloud, Rigid, OciMoves
  <1>6. CASE \E w \in Workspaces : Release(w)
    BY <1>6 DEF Release
  <1>7. CASE _cmd_runner_detonate \/ Swap \/ Crash \/ VaultLost
    BY <1>7 DEF _cmd_runner_detonate, Swap, Crash, VaultLost, NoCall, CallLeft
  <1>8. CASE CliStep
    <2>1. CASE Provisioned \/ ProvisionRefused \/ DrillRefused \/ DrillProvisioned \/ DetonationRaises
      BY <2>1 DEF Provisioned, ProvisionRefused, DrillRefused, DrillProvisioned, DetonationRaises,
         CallEnds, NoCall, CallLeft
    <2>2. CASE SaveVault \/ RecordWorkspace \/ VerificationFailed \/ Retains \/ DrillSave
               \/ RecordReplacement \/ _run_remote_detonation_preflight \/ DrillFailed
               \/ _record_workspace_detonation \/ SaveJob \/ DrillJudges
      <3>1. OwnOnly
        BY <2>2 DEF SaveVault, RecordWorkspace, VerificationFailed, Retains, DrillSave,
           RecordReplacement, _run_remote_detonation_preflight, DrillFailed,
           _record_workspace_detonation, SaveJob, DrillJudges, FilesOnly, CliOnly
      <3> QED
        BY <3>1 DEF OwnOnly, ociVars, CallLeft
    <2>3. CASE \/ RemoteSetupFails \/ RemoteTimesOut \/ DetonationTimesOut \/ RestoreFails
               \/ execute_remote_setup
      BY <2>3 DEF RemoteSetupFails, RemoteTimesOut, DetonationTimesOut, RestoreFails,
         execute_remote_setup, CallLeft
    <2>4. CASE \/ Retrieved \/ RetrievalFails \/ execute_worker_replacement_drill
               \/ _copy_workspace_detonation_to_remote_artifacts
      BY <2>4 DEF Retrieved, RetrievalFails, SwapFinished, execute_worker_replacement_drill,
         _copy_workspace_detonation_to_remote_artifacts, ociVars, CallLeft
    <2>5. CASE \/ detonate_remote_worker
               \/ _mark_remote_worker_detonated_by_workspace_teardown
      BY <2>5 DEF detonate_remote_worker, _mark_remote_worker_detonated_by_workspace_teardown,
         NoCall, CallLeft
    <2> QED
      BY <1>4, <1>8, <2>1, <2>2, <2>3, <2>4, <2>5 DEF CliStep
  <1> QED
    BY <1>1, <1>2, <1>3, <1>5, <1>6, <1>7, <1>8 DEF NextLaunch

LEMMA RefusedInvNext ==
  ASSUME LaunchInv, RefusedInv, [NextLaunch]_launchVars
  PROVE  RefusedInv'
  <1>0. /\ TypeOKOci /\ launched \in Nat /\ Workspaces \subseteq Nat
        /\ cloud \in [Workspaces -> SUBSET Resources]
        /\ ids \in [Workspaces -> SUBSET (Network \cup {"instance"})]
        /\ Untouched /\ Undoable /\ RefusedLeavesNothing /\ Troubled
    BY CallFlow, LaunchTyped, OciTyped, NatWorkspaces DEF LaunchInv, RefusedInv
  <1>1. Faultless' => Faultless
    BY <1>0, FaultlessBefore
  <1>2. CASE CallLeft
    <2>1. Untouched'
      BY <1>0, <1>2 DEF CallLeft, Untouched
    <2>2. CASE call' = call
      BY <1>0, <1>1, <1>2, <2>1, <2>2
      DEF CallLeft, RefusedInv, Undoable, RefusedLeavesNothing, Faultless, Unnoted
    <2>3. CASE call'.op \in {"none", "detonate"}
      BY <2>1, <2>3 DEF RefusedInv, Undoable, RefusedLeavesNothing
    <2> QED
      BY <1>2, <2>2, <2>3 DEF CallLeft
  <1>3. CASE CallBegun
    <2>1. Untouched'
      BY <1>0, <1>3 DEF CallBegun, Untouched
    <2>2. cloud'[call'.ws] = {} /\ ids'[call'.ws] = {}
      BY <1>0, <1>3 DEF CallBegun, Untouched
    <2>3. Undoable' /\ RefusedLeavesNothing'
      BY <1>3, <2>2 DEF CallBegun, Undoable, Unwound, RefusedLeavesNothing
    <2> QED
      BY <2>1, <2>3 DEF RefusedInv
  <1>4. CASE OciMoves
    <2>0. OciStep /\ UNCHANGED <<allowed, launched>> /\ call.ws \in Workspaces /\ call.ws <= launched
      BY <1>4 DEF OciMoves
    <2>1. Onwards /\ CloudGoes
      BY <1>0, <2>0, OciEffect
    <2>2. Untouched'
      <3> SUFFICES ASSUME NEW w \in Workspaces, w > launched
                   PROVE  cloud'[w] = {} /\ ids'[w] = {}
        BY <2>0 DEF Untouched
      <3>1. w # call.ws
        BY <1>0, <2>0
      <3> QED
        BY <1>0, <2>0, <2>1, <3>1, OciKnown DEF CloudGoes, Untouched
    <2>3. CASE call.op = "create"
      BY <1>0, <2>0, <2>1, <2>2, <2>3, UndoableMade DEF RefusedInv, RefusedLeavesNothing, Onwards
    <2>4. CASE call.op = "undo"
      BY <1>0, <2>0, <2>2, <2>4, UndoableUndone DEF RefusedInv
    <2>5. CASE call.op = "detonate"
      BY <2>1, <2>2, <2>5 DEF RefusedInv, RefusedLeavesNothing, Undoable, Onwards
    <2> QED
      BY <2>1, <2>3, <2>4, <2>5 DEF Onwards
  <1>5. CASE UNCHANGED launched /\ \E w \in Workspaces : CloudReleases(w)
    <2>1. PICK w \in Workspaces : CloudReleases(w)
      BY <1>5
    <2>2. PICK r \in {"vnic", "boot_volume"} \cap cloud[w] : cloud' = [cloud EXCEPT ![w] = @ \ {r}]
      BY <2>1 DEF CloudReleases
    <2>3. /\ "instance" \notin cloud[w] /\ UNCHANGED <<ids, call, troubles>>
          /\ cloud'[w] = cloud[w] \ {r} /\ \A v \in Workspaces : v # w => cloud'[v] = cloud[v]
      BY <1>0, <2>1, <2>2 DEF CloudReleases
    <2>4. Untouched'
      BY <1>0, <1>5, <2>2, <2>3 DEF Untouched
    <2>5. call.op \in {"create", "undo", "refused"} => call.ws \in Workspaces
      <3>1. call.op \in {"create", "undo", "detonate"} => call.ws \in Workspaces
        BY CalledWorkspace
      <3>2. call.op = "refused" => call.ws \in Workspaces
        BY DEF LaunchInv, CallFits, Fleet, Drilling
      <3> QED
        BY <3>1, <3>2
    <2>6. Undoable'
      <3> SUFFICES ASSUME Faultless', call'.op \in {"create", "undo"}
                   PROVE  Undoable'
        BY DEF Undoable
      <3>1. CASE call.ws = w
        <4>0. r # "network_security_group"
          BY <2>2
        <4>1. \A at \in 1..11 : Unwound(at, cloud[w], ids[w]) => Unwound(at, cloud'[w], ids[w])
          BY <2>3, <4>0 DEF Unwound, Orphaned
        <4>2. r \notin Network \cup {"instance"}
          BY <2>2 DEF Network
        <4>3. call.at \in 1..11
          BY <1>0, OciTyped DEF CallTyped
        <4> QED
          BY <1>0, <1>1, <2>3, <3>1, <4>1, <4>2, <4>3 DEF Undoable
      <3>2. CASE call.ws # w
        BY <1>0, <1>1, <2>3, <2>5, <3>2 DEF Undoable
      <3> QED
        BY <3>1, <3>2
    <2>7. RefusedLeavesNothing'
      BY <1>0, <1>1, <2>2, <2>3, <2>5 DEF RefusedLeavesNothing, Faultless, Unnoted
    <2> QED
      BY <2>4, <2>6, <2>7 DEF RefusedInv
  <1> QED
    BY <1>2, <1>3, <1>4, <1>5, CallFlow

(* A provision that is refused has undone itself, if its own calls were    *)
(* answered, up to a security group whose rules were refused and the       *)
(* network that one is in (provision in runner/oci_live.py).               *)
THEOREM RefusalUndoes == SpecLaunch => []RefusedLeavesNothing
  <1>1. InitLaunch => RefusedInv
    BY DEF InitLaunch, InitOci, NoCall, RefusedInv, Untouched, Undoable, RefusedLeavesNothing
  <1>2. LaunchInv /\ RefusedInv /\ [NextLaunch]_launchVars => RefusedInv'
    BY RefusedInvNext
  <1>3. RefusedInv => RefusedLeavesNothing
    BY DEF RefusedInv
  <1> QED
    BY <1>1, <1>2, <1>3, LaunchInvariant, PTL DEF SpecLaunch

-----------------------------------------------------------------------------
(* A launch whose only troubles are refusals and a failing setup.          *)

Quiet == ~Had(TroubleKinds \ {"refused", "remote"})

Intact(w) ==
  /\ Resources \ {"unconfirmed_instance"} \subseteq cloud[w]
  /\ "unconfirmed_instance" \notin cloud[w]
  /\ Network \cup {"instance"} \subseteq ids[w]

(* What exists, and is known, when a provision comes to a step.            *)
Wound(at, c, known) ==
  /\ at > 1 => "vcn" \in c \cap known
  /\ at > 2 => "internet_gateway" \in c \cap known
  /\ at > 3 => "route_table" \in c \cap known
  /\ at > 4 => "security_list" \in c \cap known
  /\ at > 5 => "network_security_group" \in c
  /\ at > 6 => "network_security_group" \in known
  /\ at > 7 => "subnet" \in c \cap known
  /\ at > 8 => {"instance", "vnic", "boot_volume"} \subseteq c /\ "instance" \in known

Making ==
  call.op = "create" =>
    Wound(call.at, cloud[call.ws], ids[call.ws]) /\ "unconfirmed_instance" \notin cloud[call.ws]

(* What is still there, and what is reported, when a detonation of an      *)
(* intact workspace comes to a step.                                       *)
Remains(at, c) ==
  /\ at <= 2 => "instance" \in c
  /\ at <= 5 => "subnet" \in c
  /\ at <= 6 => "route_table" \in c
  /\ at <= 7 => "internet_gateway" \in c
  /\ at <= 8 => "network_security_group" \in c
  /\ at <= 9 => "security_list" \in c
  /\ at <= 10 => "vcn" \in c

Reported(at, reported) ==
  /\ at > 2 => "instance" \in reported
  /\ at > 3 => "ephemeral_public_ip" \in reported
  /\ at > 4 => "boot_volume" \in reported
  /\ at > 5 => "subnet" \in reported
  /\ at > 6 => "route_table" \in reported
  /\ at > 7 => "internet_gateway" \in reported
  /\ at > 8 => "network_security_group" \in reported
  /\ at > 9 => "security_list" \in reported
  /\ at > 10 => "vcn" \in reported

Falling ==
  call.op = "detonate" /\ cli.why # "manual" =>
    /\ Unwound(call.at, cloud[call.ws], ids[call.ws]) /\ Remains(call.at, cloud[call.ws])
    /\ Reported(call.at, deleted) /\ "remote_worker" \in deleted /\ failed = {}
    /\ "unconfirmed_instance" \notin cloud[call.ws]
    /\ Network \cup {"instance"} \subseteq ids[call.ws]
    /\ call.at \in {2, 3, 4} => call.bootKnown

Standing ==
  /\ call.op = "provisioned" => Intact(call.ws)
  /\ cli.phase \in Early \cup {"drill", "drill_save", "resumed", "preflight"} => Intact(cli.ws)
  /\ cli.phase = "ssh" /\ cli.why # "manual" => Intact(Doomed)
  /\ cli.phase = "drill_save" \/ (cli.why = "drill" /\ cli.phase \in Detonating \cup {"restore"})
     => Intact(cli.replacement)

Fallen ==
  /\ cli.phase = "reported" /\ cli.why # "manual" => _workspace_detonation_complete
  /\ cli.phase = "cloud" /\ cli.why # "manual" /\ call.op # "detonate"
     => call.op = "detonated" /\ _workspace_detonation_complete
  /\ cli.phase \in {"attach", "save"} /\ cli.why # "manual" => cloud[cli.ws] = {}
  /\ cli.why = "drill_failed" => cloud[cli.ws] = {} /\ cli.mine = {cli.ws, cli.replacement}
  /\ call.op \in {"undo", "refused"} => Had({"refused"})
  /\ cli.why = "manual" => cli.mine = {}

QuietInv == (Quiet => Making /\ Falling /\ Standing /\ Fallen) /\ NothingLeftBehind

LEMMA LoudIsHad ==
  ASSUME TypeOKOci, NEW kind \in TroubleKinds \ {"refused", "remote"}, Trouble(kind)
  PROVE  ~Quiet'
  BY TroubleIsHad DEF Quiet

LEMMA QuietBefore ==
  ASSUME TypeOKOci, Troubled, Quiet'
  PROVE  Quiet
  BY HadGrows DEF Quiet

LEMMA QuietIsFaultless ==
  ASSUME Quiet
  PROVE  Faultless
  BY DEF Quiet, Faultless, Had, TroubleKinds

LEMMA CreatesAt ==
  ASSUME TypeOKOci, call.op = "create", Creating # "none"
  PROVE  /\ call.at = 1 <=> Creating = "vcn"
         /\ call.at = 2 <=> Creating = "internet_gateway"
         /\ call.at = 3 <=> Creating = "route_table"
         /\ call.at = 4 <=> Creating = "security_list"
         /\ call.at = 5 <=> Creating = "network_security_group"
         /\ call.at = 6 <=> Creating = "nsg_rules"
         /\ call.at = 7 <=> Creating = "subnet"
         /\ call.at = 8 <=> Creating = "instance"
         /\ call.at = 9 <=> Creating = "address"
  <1>1. call.at \in 1..9
    BY CreateAt
  <1>2. Creating = CreateSteps[call.at]
    BY <1>1 DEF Creating, Step, CreateSteps
  <1>3. /\ CreateSteps[1] = "vcn" /\ CreateSteps[2] = "internet_gateway"
        /\ CreateSteps[3] = "route_table" /\ CreateSteps[4] = "security_list"
        /\ CreateSteps[5] = "network_security_group" /\ CreateSteps[6] = "nsg_rules"
        /\ CreateSteps[7] = "subnet" /\ CreateSteps[8] = "instance"
        /\ CreateSteps[9] = "address"
    BY DEF CreateSteps
  <1> QED
    BY <1>1, <1>2, <1>3

(* A provision makes everything there is, or is refused.                   *)
LEMMA MakingOn ==
  ASSUME TypeOKOci, UNCHANGED allowed, OciStep, call.op = "create", call.ws \in Workspaces,
         Making, Quiet'
  PROVE  /\ Making'
         /\ call'.op = "provisioned" => Intact(call.ws)'
         /\ call'.op \in {"undo", "refused"} => Had({"refused"})'
  <1> DEFINE w == call.ws
  <1>0. /\ CallTyped /\ call'.ws = w
        /\ cloud \in [Workspaces -> SUBSET Resources]
        /\ ids \in [Workspaces -> SUBSET (Network \cup {"instance"})]
    BY OciTyped, OciEffect DEF Onwards
  <1>1. Wound(call.at, cloud[w], ids[w]) /\ "unconfirmed_instance" \notin cloud[w]
    BY DEF Making
  <1>2. Deleting = "none"
    BY DEF Deleting, Step
  <1>3. CASE Create \/ _create_nsg \/ _launch_instance
    <2>0. /\ Creating # "none" /\ call' = [call EXCEPT !.at = @ + 1]
          /\ \/ /\ Creating \in Network \ {"network_security_group"}
                /\ cloud'[w] = cloud[w] \cup {Creating} /\ ids'[w] = ids[w] \cup {Creating}
             \/ /\ Creating = "network_security_group"
                /\ cloud'[w] = cloud[w] \cup {Creating} /\ ids'[w] = ids[w]
             \/ /\ Creating = "nsg_rules" /\ cloud'[w] = cloud[w]
                /\ ids'[w] = ids[w] \cup {"network_security_group"}
             \/ /\ Creating = "instance"
                /\ cloud'[w] = cloud[w] \cup {"instance", "vnic", "boot_volume"}
                /\ ids'[w] = ids[w] \cup {"instance"}
      BY <1>0, <1>3 DEF Create, _create_nsg, _launch_instance, CreateNext, Network
    <2>1. call.at \in 1..8 /\ call'.at = call.at + 1 /\ call'.op = "create"
      <3>1. call.at \in 1..9 /\ call.at # 9
        BY <2>0, CreateAt, CreatesAt DEF Network
      <3> QED
        BY <1>0, <2>0, <3>1 DEF CallTyped
    <2>2. Wound(call'.at, cloud'[w], ids'[w])
      BY <1>1, <2>0, <2>1, CreatesAt DEF Wound, Network
    <2>3. "unconfirmed_instance" \notin cloud'[w]
      BY <1>1, <2>0 DEF Network
    <2> QED
      BY <1>0, <2>1, <2>2, <2>3 DEF Making
  <1>4. CASE _launch_with_capacity_fallback
    BY <1>4 DEF _launch_with_capacity_fallback, Making
  <1>5. CASE CreateFails
    <2>1. Trouble("refused") \/ Trouble("lost")
      BY <1>5 DEF CreateFails
    <2>2. {"refused", "lost"} \subseteq TroubleKinds
      BY DEF TroubleKinds
    <2>3. Had({"refused"})'
      BY <2>1, <2>2, LoudIsHad, TroubleIsHad
    <2>4. call'.op = "undo"
      BY <1>0, <1>5 DEF CreateFails, CallTyped
    <2> QED
      BY <2>3, <2>4 DEF Making
  <1>6. CASE _public_ip
    <2>1. call'.op = "provisioned" /\ UNCHANGED <<cloud, ids>> /\ call.at = 9
      BY <1>6, CreateAt DEF _public_ip, NoCall
    <2>2. Intact(w)'
      BY <1>0, <1>1, <2>1 DEF Intact, Wound, Resources, Network
    <2> QED
      BY <2>1, <2>2 DEF Making
  <1>7. CASE \/ _instance_boot_volume_ids \/ _terminate_instance
             \/ _wait_for_instance_network_release \/ _wait_for_boot_volume_deletion
             \/ _delete_oci_resource \/ Deleted
    BY <1>2, <1>7 DEF _instance_boot_volume_ids, _terminate_instance,
       _wait_for_instance_network_release, _wait_for_boot_volume_deletion,
       _delete_oci_resource, Network, Deleted
  <1> QED
    BY <1>3, <1>4, <1>5, <1>6, <1>7 DEF OciStep

(* A detonation without a fault deletes and reports everything.            *)
LEMMA FallingOn ==
  ASSUME TypeOKOci, UNCHANGED <<allowed, cli>>, OciStep, call.op = "detonate",
         call.ws \in Workspaces, cli.why # "manual", Falling, Quiet'
  PROVE  /\ Falling'
         /\ call'.op # "detonate" => call'.op = "detonated" /\ _workspace_detonation_complete'
  <1> DEFINE w == call.ws
             c == cloud[w]
  <1>0. /\ CallTyped /\ call'.ws = w /\ ids' = ids /\ cli' = cli
        /\ cloud \in [Workspaces -> SUBSET Resources] /\ c \subseteq Resources
        /\ ids \in [Workspaces -> SUBSET (Network \cup {"instance"})]
    BY OciTyped, OciEffect, OciKnown DEF Onwards
  <1>1. /\ Unwound(call.at, c, ids[w]) /\ Remains(call.at, c) /\ Reported(call.at, deleted)
        /\ "remote_worker" \in deleted /\ failed = {} /\ "unconfirmed_instance" \notin c
        /\ Network \cup {"instance"} \subseteq ids[w]
        /\ call.at \in {2, 3, 4} => call.bootKnown
    BY DEF Falling
  <1>2. ~Trouble("delete") /\ ~Trouble("slow")
    BY LoudIsHad DEF TroubleKinds
  <1>3. Creating = "none"
    BY DEF Creating, Step
  <1>4. CASE \/ Create \/ _create_nsg \/ _launch_instance \/ _launch_with_capacity_fallback
             \/ _public_ip \/ CreateFails
    BY <1>3, <1>4 DEF Create, _create_nsg, _launch_instance, _launch_with_capacity_fallback, _public_ip,
       CreateFails, Network
  <1>5. ASSUME Unwound(call'.at, cloud'[w], ids[w]), Remains(call'.at, cloud'[w]),
               Reported(call'.at, deleted'), deleted \subseteq deleted', failed' = {},
               cloud'[w] \subseteq c, call'.at \in {2, 3, 4} => call'.bootKnown, call'.op = "detonate"
        PROVE  Falling'
    BY <1>0, <1>1, <1>5 DEF Falling
  <1>6. CASE _instance_boot_volume_ids
    <2>1. call.at = 1 /\ "instance" \in ids[w] /\ "instance" \in c
      BY <1>1, <1>6, DeletesAt DEF _instance_boot_volume_ids, Remains
    <2>2. /\ call' = [call EXCEPT !.at = @ + 1, !.bootKnown = TRUE] /\ Told({}, {}) /\ cloud' = cloud
      BY <1>2, <1>6, <2>1 DEF _instance_boot_volume_ids, Has
    <2>3. call'.at = 2 /\ call'.bootKnown /\ call'.op = "detonate" /\ deleted' = deleted /\ failed' = {}
      BY <1>0, <1>1, <2>1, <2>2 DEF CallTyped, Told
    <2>4. Unwound(2, c, ids[w]) /\ Remains(2, c) /\ Reported(2, deleted)
      BY <1>1, <2>1 DEF Unwound, Remains, Reported
    <2> QED
      BY <1>5, <2>2, <2>3, <2>4
  <1>7. CASE _terminate_instance
    <2>1. call.at = 2
      BY <1>7, DeletesAt DEF _terminate_instance
    <2>2. "instance" \in c
      BY <1>1, <2>1 DEF Remains
    <2>3. /\ cloud'[w] = c \ {"instance"} /\ call'.at = 3 /\ call'.op = "detonate"
          /\ call'.bootKnown /\ Told({"instance"}, {})
      BY <1>0, <1>1, <1>2, <1>7, <2>1, <2>2 DEF _terminate_instance, Goto, Has, CallTyped
    <2>4. deleted' = deleted \cup {"instance"} /\ failed' = {}
      BY <1>1, <2>3 DEF Told
    <2>5. Unwound(3, cloud'[w], ids[w]) /\ Remains(3, cloud'[w]) /\ Reported(3, deleted')
      BY <1>1, <2>1, <2>3, <2>4 DEF Unwound, Remains, Reported
    <2> QED
      BY <1>5, <2>3, <2>4, <2>5
  <1>8. CASE _wait_for_instance_network_release
    <2>1. /\ call.at = 3 /\ cloud' = cloud /\ "vnic" \notin c /\ Told(Address, {})
          /\ call'.at = 4 /\ call'.op = "detonate" /\ call'.bootKnown
      BY <1>0, <1>1, <1>2, <1>8, DeletesAt
      DEF _wait_for_instance_network_release, Goto, Has, CallTyped
    <2>2. deleted' = deleted \cup {"ephemeral_public_ip"} /\ failed' = {}
      BY <1>1, <2>1 DEF Told, Address
    <2>3. Unwound(4, c, ids[w]) /\ Remains(4, c) /\ Reported(4, deleted')
      BY <1>1, <2>1, <2>2 DEF Unwound, Remains, Reported
    <2> QED
      BY <1>5, <2>1, <2>2, <2>3
  <1>9. CASE _wait_for_boot_volume_deletion
    <2>0. call.at = 4 /\ call.bootKnown
      BY <1>1, <1>9, DeletesAt DEF _wait_for_boot_volume_deletion
    <2>1. /\ call.at = 4 /\ cloud' = cloud /\ "boot_volume" \notin c /\ Told({"boot_volume"}, {})
          /\ call'.at = 5 /\ call'.op = "detonate"
      <3>1. ~Has("boot_volume") /\ Goto(5) /\ Told({"boot_volume"}, {}) /\ cloud' = cloud
        BY <1>2, <1>9, <2>0 DEF _wait_for_boot_volume_deletion
      <3> QED
        BY <1>0, <2>0, <3>1 DEF Goto, Has, CallTyped
    <2>2. deleted' = deleted \cup {"boot_volume"} /\ failed' = {}
      BY <1>1, <2>1 DEF Told
    <2>3. Unwound(5, c, ids[w]) /\ Remains(5, c) /\ Reported(5, deleted')
      BY <1>1, <2>1, <2>2 DEF Unwound, Remains, Reported
    <2> QED
      BY <1>5, <2>1, <2>2, <2>3
  <1>10. CASE _delete_oci_resource
    <2>1. Deleting \in Network /\ call.at \in 5..10
      BY <1>10, DeletesAt DEF _delete_oci_resource, Network
    <2>2. Deleting \in c /\ Deleting \in ids[w]
      BY <1>1, <2>1, DeletesAt DEF Remains
    <2>3. ~Blocked(Deleting)
      <3>1. c \cap Dependents(Deleting) = {}
        BY <1>1, <2>1, DeletesAt DEF Unwound, Dependents, Network, Orphaned
      <3> QED
        BY <3>1 DEF Blocked
    <2>4. cloud'[w] = c \ {Deleting} /\ Told({Deleting}, {})
      BY <1>0, <1>2, <1>10, <2>2, <2>3 DEF _delete_oci_resource, Has
    <2>5. deleted' = deleted \cup {Deleting} /\ failed' = {}
      BY <1>1, <2>4 DEF Told
    <2>6. call'.at = call.at + 1 /\ call'.op = "detonate" /\ call'.at \in 6..11
      BY <1>0, <1>10, <2>1 DEF _delete_oci_resource, Goto, CallTyped
    <2>7. Unwound(call'.at, cloud'[w], ids[w])
      BY <1>1, <2>1, <2>4, <2>6, DeletesAt DEF Unwound, Orphaned, Network
    <2>8. Remains(call'.at, cloud'[w])
      BY <1>1, <2>1, <2>4, <2>6, DeletesAt DEF Remains
    <2>9. Reported(call'.at, deleted')
      BY <1>1, <2>1, <2>5, <2>6, DeletesAt DEF Reported
    <2> QED
      BY <1>5, <2>4, <2>5, <2>6, <2>7, <2>8, <2>9
  <1>11. CASE Deleted
    <2>1. call.at = 11 /\ UNCHANGED <<cloud, deleted, failed>> /\ call'.op = "detonated"
      BY <1>0, <1>11 DEF Deleted, NoCall, CallTyped, DeleteSteps
    <2>2. _workspace_detonation_complete'
      BY <1>1, <2>1 DEF Reported, _workspace_detonation_complete, CloudSide, Network
    <2> QED
      BY <2>1, <2>2 DEF Falling
  <1> QED
    BY <1>4, <1>6, <1>7, <1>8, <1>9, <1>10, <1>11 DEF OciStep

(* While the provider works, and when it releases what it took.            *)
LEMMA QuietCloud ==
  ASSUME LaunchInv, QuietInv, Cloud
  PROVE  QuietInv'
  <1>0. /\ TypeOKOci /\ OciStep /\ UNCHANGED <<allowed, cli, files, setting, launched>>
        /\ call.op \in {"create", "undo", "detonate"} /\ call.ws \in Workspaces
        /\ call.op \in {"create", "undo"} => cli.phase \in {"provision", "drill"} /\ call.ws = launched
        /\ call.op = "detonate" => cli.phase = "cloud" /\ call.ws = Doomed
    <2>1. TypeOKOci /\ OciStep /\ UNCHANGED <<allowed, cli, files, setting, launched>>
      BY DEF LaunchInv, TypeOKLaunch, Cloud, Rigid
    <2>2. call.op \in {"create", "undo", "detonate"}
      BY <2>1, OciEffect DEF Onwards
    <2> QED
      BY <2>1, <2>2, CalledWorkspace
  <1>1. NothingLeftBehind'
    BY <1>0 DEF NothingLeftBehind
  <1> SUFFICES ASSUME Quiet'
               PROVE  Making' /\ Falling' /\ Standing' /\ Fallen'
    BY <1>1 DEF QuietInv
  <1>2. Making /\ Falling /\ Standing /\ Fallen
    BY <1>0, OciTroubled, QuietBefore DEF QuietInv
  <1>3. /\ Onwards /\ CloudGoes /\ call'.ws = call.ws
        /\ call.op # "create" => ids' = ids
        /\ \A w \in Workspaces : w # call.ws => ids'[w] = ids[w] /\ cloud'[w] = cloud[w]
    BY <1>0, OciEffect, OciKnown DEF Onwards, CloudGoes
  <1>4. ASSUME NEW w \in Workspaces, w # call.ws, Intact(w)
        PROVE  cloud'[w] = cloud[w] /\ ids'[w] = ids[w]
    BY <1>3, <1>4
  <1>5. CASE call.op \in {"create", "undo"}
    <2>1. cli.why = "none" /\ cli.phase \in {"provision", "drill"}
      BY <1>0, <1>5 DEF LaunchInv, WhyFits
    <2>2. cli.phase = "drill" => cli.ws \in Workspaces /\ cli.ws # call.ws
      BY <1>0, <1>5, Numbers DEF LaunchInv, Fleet, Drilling
    <2>3. call'.op \in {"create", "provisioned", "undo", "refused"}
      BY <1>3, <1>5 DEF Onwards
    <2>4. Making' /\ (call'.op = "provisioned" => Intact(call.ws)')
          /\ (call'.op \in {"undo", "refused"} => Had({"refused"})')
      <3>1. CASE call.op = "create"
        BY <1>0, <1>2, <3>1, MakingOn
      <3>2. CASE call.op = "undo"
        <4>1. Had({"refused"})
          BY <1>2, <3>2 DEF Fallen
        <4>2. call'.op \in {"undo", "refused"}
          BY <1>3, <3>2 DEF Onwards
        <4> QED
          BY <1>0, <4>1, <4>2, OciTroubled, HadGrows DEF Making
      <3> QED
        BY <1>5, <3>1, <3>2
    <2>5. cli.phase = "drill" => Intact(cli.ws)'
      BY <1>0, <1>2, <1>3, <2>2 DEF Standing, Intact
    <2>6. Falling'
      BY <2>3 DEF Falling
    <2>7. Standing'
      BY <1>0, <2>1, <2>4, <2>5 DEF Standing, Early
    <2>8. Fallen'
      BY <1>0, <2>1, <2>4 DEF Fallen
    <2> QED
      BY <2>4, <2>6, <2>7, <2>8
  <1>6. CASE call.op = "detonate"
    <2>1. cli.phase = "cloud" /\ call.ws = Doomed /\ call'.op \in {"detonate", "detonated", "raised"}
      BY <1>0, <1>3, <1>6 DEF Onwards
    <2>2. Making'
      BY <2>1 DEF Making
    <2>3. cli.why # "manual" =>
            Falling' /\ (call'.op # "detonate" => call'.op = "detonated" /\ _workspace_detonation_complete')
      BY <1>0, <1>2, <1>6, FallingOn
    <2>4. Falling'
      BY <1>0, <2>3 DEF Falling
    <2>5. cli.why = "drill" => Intact(cli.replacement)'
      <3> SUFFICES ASSUME cli.why = "drill" PROVE Intact(cli.replacement)'
        OBVIOUS
      <3>1. Drilling /\ Intact(cli.replacement)
        BY <1>2, <2>1 DEF Drilling, Detonating, Standing
      <3>2. cli.replacement \in Workspaces /\ cli.replacement # call.ws
        BY <2>1, <3>1, Numbers DEF LaunchInv, Fleet, Doomed
      <3> QED
        BY <1>0, <1>3, <3>1, <3>2 DEF Intact
    <2>6. Standing'
      BY <1>0, <2>1, <2>5 DEF Standing, Early
    <2>7. cli.why = "drill_failed" => cloud'[cli.ws] = {} /\ cli.mine = {cli.ws, cli.replacement}
      <3>1. cli.why = "drill_failed" => cli.ws \in Workspaces
        BY DEF LaunchInv, Fleet
      <3>2. \A w \in Workspaces : cloud'[w] \subseteq cloud[w]
        BY <1>3, <1>6 DEF CloudGoes
      <3> QED
        BY <1>2, <3>1, <3>2 DEF Fallen
    <2>8. Fallen'
      <3>1. cli.why = "manual" => cli.mine = {}
        BY <1>2 DEF Fallen
      <3> QED
        BY <1>0, <2>1, <2>3, <2>7, <3>1 DEF Fallen
    <2> QED
      BY <2>2, <2>4, <2>6, <2>8
  <1> QED
    BY <1>0, <1>5, <1>6

LEMMA QuietRelease ==
  ASSUME LaunchInv, QuietInv, NEW w \in Workspaces, Release(w)
  PROVE  QuietInv'
  <1>0. /\ cloud \in [Workspaces -> SUBSET Resources]
        /\ UNCHANGED <<cli, files, setting, launched, ids, call, deleted, failed, troubles>>
    BY OciTyped DEF LaunchInv, TypeOKLaunch, Release, CloudReleases, Rigid
  <1>1. PICK r \in {"vnic", "boot_volume"} : cloud' = [cloud EXCEPT ![w] = @ \ {r}]
    BY DEF Release, CloudReleases
  <1>2. /\ "instance" \notin cloud[w] /\ cloud'[w] = cloud[w] \ {r}
        /\ \A v \in Workspaces : v # w => cloud'[v] = cloud[v]
    BY <1>0, <1>1 DEF Release, CloudReleases
  <1>3. \A v \in Workspaces : cloud'[v] \subseteq cloud[v]
    BY <1>2
  <1>4. NothingLeftBehind'
    <2>1. cli.mine \subseteq Workspaces
      BY LaunchTyped DEF LaunchInv, CliType
    <2>2. Had(TroubleKinds \ {"refused", "remote"})' <=> Had(TroubleKinds \ {"refused", "remote"})
      BY <1>0, HadStays
    <2>3. Had({"refused"})' <=> Had({"refused"})
      BY <1>0, HadStays
    <2>4. \A v \in Workspaces : Unnoted(v)' = Unnoted(v)
      BY <1>0, <1>1, <1>2 DEF Unnoted
    <2> QED
      BY <1>0, <1>3, <2>1, <2>2, <2>3, <2>4 DEF QuietInv, NothingLeftBehind
  <1> SUFFICES ASSUME Quiet'
               PROVE  Making' /\ Falling' /\ Standing' /\ Fallen'
    BY <1>4 DEF QuietInv
  <1>5. Making /\ Falling /\ Standing /\ Fallen
    BY <1>0, HadStays DEF QuietInv, Quiet
  <1>6. \A v \in Workspaces : Intact(v) => cloud'[v] = cloud[v] /\ ids'[v] = ids[v]
    BY <1>0, <1>2 DEF Intact, Resources
  <1>7. call.op \in {"create", "undo", "detonate"} => call.ws \in Workspaces
    BY CalledWorkspace
  <1>8. Making'
    <2> SUFFICES ASSUME call.op = "create" PROVE Making'
      BY <1>0 DEF Making
    <2>1. CASE call.ws = w
      <3>1. Wound(call.at, cloud[w], ids[w]) /\ "unconfirmed_instance" \notin cloud[w]
        BY <1>5, <2>1 DEF Making
      <3>2. Wound(call.at, cloud'[w], ids[w])
        BY <1>2, <3>1 DEF Wound
      <3> QED
        BY <1>0, <1>2, <2>1, <3>1, <3>2 DEF Making
    <2>2. CASE call.ws # w
      BY <1>0, <1>2, <1>5, <1>7, <2>2 DEF Making
    <2> QED
      BY <2>1, <2>2
  <1>9. Falling'
    <2> SUFFICES ASSUME call.op = "detonate", cli.why # "manual" PROVE Falling'
      BY <1>0 DEF Falling
    <2>1. CASE call.ws = w
      <3>1. Unwound(call.at, cloud[w], ids[w]) /\ Remains(call.at, cloud[w])
        BY <1>5, <2>1 DEF Falling
      <3>2. Unwound(call.at, cloud'[w], ids[w])
        BY <1>1, <1>2, <3>1 DEF Unwound, Orphaned
      <3>3. Remains(call.at, cloud'[w])
        BY <1>2, <3>1 DEF Remains
      <3> QED
        BY <1>0, <1>2, <1>5, <2>1, <3>2, <3>3 DEF Falling
    <2>2. CASE call.ws # w
      BY <1>0, <1>2, <1>5, <1>7, <2>2 DEF Falling
    <2> QED
      BY <2>1, <2>2
  <1>10. Standing'
    <2>1. call.op = "provisioned" => call.ws \in Workspaces
      BY DEF LaunchInv, CallFits, Fleet, Drilling
    <2>2. cli.phase \in Early \cup {"drill", "drill_save", "resumed", "preflight"} => cli.ws \in Workspaces
      BY DEF LaunchInv, Fleet, Drilling
    <2>3. cli.phase = "ssh" => Doomed \in Workspaces
      BY DEF LaunchInv, Fleet, Doomed
    <2>4. cli.phase = "drill_save" \/ cli.why = "drill" => cli.replacement \in Workspaces
      BY DEF LaunchInv, Fleet
    <2> QED
      BY <1>0, <1>5, <1>6, <2>1, <2>2, <2>3, <2>4 DEF Standing, Intact, Doomed
  <1>11. Fallen'
    <2>1. cli.phase \in {"attach", "save"} /\ cli.why # "manual" => cli.ws \in Workspaces
      BY DEF LaunchInv, Fleet
    <2>2. cli.why = "drill_failed" => cli.ws \in Workspaces
      BY DEF LaunchInv, Fleet
    <2>3. Had({"refused"})' <=> Had({"refused"})
      BY <1>0, HadStays
    <2>4. _workspace_detonation_complete' <=> _workspace_detonation_complete
      BY <1>0 DEF _workspace_detonation_complete
    <2> QED
      BY <1>0, <1>3, <1>5, <2>1, <2>2, <2>3, <2>4 DEF Fallen
  <1> QED
    BY <1>8, <1>9, <1>10, <1>11

(* A step that leaves no call behind and does not end the process.         *)
LEMMA QuietGoesOn ==
  ASSUME call'.op \notin {"create", "detonate"}, cli'.phase # "down", Quiet' => Standing' /\ Fallen'
  PROVE  QuietInv'
  BY DEF QuietInv, Making, Falling, NothingLeftBehind

(* One that ends it.                                                       *)
LEMMA QuietEnds ==
  ASSUME LaunchInv', cli'.phase = "down",
         \/ cli'.outcome \notin {"green", "failed"}
         \/ setting'.noDetonate \/ ~setting'.trusted \/ ~Quiet'
         \/ Had({"refused"})' /\ files'.job.steps["replace"] = "failed"
         \/ \A w \in cli'.mine : cloud'[w] \subseteq Unnoted(w)'
  PROVE  QuietInv'
  <1>1. call'.op = "none" /\ cli'.why = "none"
    BY DEF LaunchInv, CallFits, WhyFits
  <1>2. NothingLeftBehind'
    BY DEF NothingLeftBehind, Quiet
  <1> QED
    BY <1>1, <1>2 DEF QuietInv, Making, Falling, Standing, Fallen, Early, Detonating

Setup ==
  \/ Provisioned \/ SaveVault \/ RecordWorkspace \/ RemoteSetupFails \/ execute_remote_setup
  \/ Retrieved \/ RetrievalFails \/ VerificationFailed \/ Retains \/ ProvisionRefused
  \/ RemoteTimesOut

LEMMA QuietSetup ==
  ASSUME LaunchInv, LaunchInv', RefusedInv, QuietInv, Troubled, Setup
  PROVE  QuietInv'
  <1>0. /\ cli \in CliType /\ TypeOKOci /\ (Quiet' => Quiet /\ Faultless)
        /\ cli.phase \in Early => call.op = "none" /\ cli.why = "none"
    BY LaunchTyped, QuietBefore, QuietIsFaultless DEF LaunchInv, CallFits, WhyFits, Early
  <1>1. Quiet' => Standing /\ Fallen
    BY <1>0 DEF QuietInv
  <1>2. ASSUME UNCHANGED <<cloud, ids, setting>>, call'.op = "none", cli.phase \in Early,
               \E job \in {cli.job, mark(cli.job, "setup", "failed"), mark(cli.job, "verify", "failed")},
                  why \in {"setup_failed", "verify_failed"} : DetonateFor(why, job)
        PROVE  QuietInv'
    <2>1. /\ cli'.phase = "ssh" /\ cli'.why \in {"setup_failed", "verify_failed"}
          /\ cli'.ws = cli.ws
      BY <1>0, <1>2 DEF DetonateFor, CliType
    <2>2. Quiet' => Intact(cli.ws)
      BY <1>1, <1>2 DEF Standing
    <2> QED
      BY <1>2, <2>1, <2>2, QuietGoesOn DEF Standing, Fallen, Early, Doomed, Intact
  <1>3. ASSUME UNCHANGED setting, setting.noDetonate, \E outcome \in Outcomes : Ends(outcome)
        PROVE  QuietInv'
    <2>1. cli'.phase = "down"
      BY <1>3 DEF Ends, Stopped
    <2> QED
      BY <1>3, <2>1, QuietEnds
  <1>4. ASSUME UNCHANGED <<cloud, ids, setting>>, call'.op = "none", cli.phase \in Early, SetupFails
        PROVE  QuietInv'
    BY <1>2, <1>3, <1>4 DEF SetupFails, Keeps, Outcomes
  <1>5. ASSUME UNCHANGED <<cloud, ids>>, call'.op = "none", cli.phase \in Early, cli'.phase \in Early,
               cli'.ws = cli.ws, cli'.why = "none"
        PROVE  QuietInv'
    BY <1>1, <1>5, QuietGoesOn DEF Standing, Fallen, Early, Detonating, Intact
  <1>6. CASE Provisioned
    <2>1. /\ UNCHANGED <<cloud, ids>> /\ call'.op = "none" /\ call.op = "provisioned"
          /\ cli'.phase = "save_vault" /\ cli'.ws = call.ws
      BY <1>0, <1>6 DEF Provisioned, CallEnds, NoCall, CliType
    <2>2. cli'.why = "none"
      BY <2>1 DEF LaunchInv, WhyFits, Early
    <2> QED
      BY <1>1, <2>1, <2>2, QuietGoesOn DEF Standing, Fallen, Early, Detonating, Intact
  <1>7. CASE SaveVault \/ RecordWorkspace
    <2>1. /\ UNCHANGED <<cloud, ids, call>> /\ cli.phase \in Early /\ cli'.phase \in Early
          /\ cli'.ws = cli.ws /\ cli'.why = cli.why
      BY <1>0, <1>7 DEF SaveVault, RecordWorkspace, FilesOnly, OwnOnly, ociVars, CliType, Early
    <2> QED
      BY <1>0, <1>5, <2>1
  <1>8. CASE RemoteSetupFails
    BY <1>0, <1>4, <1>8 DEF RemoteSetupFails, Rigid, Early
  <1>9. CASE execute_remote_setup
    <2>1. /\ UNCHANGED <<cloud, ids, call, setting>> /\ cli.phase = "remote"
          /\ cli' = [cli EXCEPT !.phase = "extract"] \/ SetupFails
      BY <1>9 DEF execute_remote_setup, Rigid
    <2>2. CASE cli' = [cli EXCEPT !.phase = "extract"]
      BY <1>0, <1>5, <2>1, <2>2 DEF Early, CliType
    <2> QED
      BY <1>0, <1>4, <2>1, <2>2 DEF Early
  <1>10. CASE Retrieved
    <2>1. /\ UNCHANGED <<cloud, ids, call>> /\ cli.phase = "extract" /\ cli'.phase = "retrieved"
          /\ cli'.ws = cli.ws /\ cli'.why = cli.why
      BY <1>0, <1>10 DEF Retrieved, SwapFinished, ociVars, CliType
    <2> QED
      BY <1>0, <1>5, <2>1 DEF Early
  <1>11. CASE RetrievalFails
    BY <1>0, <1>4, <1>11 DEF RetrievalFails, SwapFinished, ociVars, Early
  <1>12. CASE VerificationFailed
    BY <1>0, <1>2, <1>3, <1>12
    DEF VerificationFailed, Keeps, FilesOnly, OwnOnly, ociVars, Outcomes, Early
  <1>13. CASE Retains
    <2>1. cli'.phase = "down" /\ cli'.outcome = "retained"
      BY <1>13 DEF Retains, Keeps, Ends, Stopped
    <2> QED
      BY <2>1, QuietEnds
  <1>14. CASE ProvisionRefused
    <2>1. /\ cli'.phase = "down" /\ cli'.mine = cli.mine /\ UNCHANGED <<cloud, ids>>
          /\ cli.phase = "provision" /\ call.op = "refused"
      BY <1>14 DEF ProvisionRefused, Ends, Stopped, CallEnds
    <2>2. cli.mine = {call.ws}
      BY <2>1 DEF LaunchInv, CallFits, Fleet
    <2>3. Quiet' => cloud[call.ws] \subseteq Unnoted(call.ws)
      BY <1>0, <2>1 DEF RefusedInv, RefusedLeavesNothing, Faultless
    <2>4. Quiet' => \A w \in cli'.mine : cloud'[w] \subseteq Unnoted(w)'
      BY <2>1, <2>2, <2>3 DEF Unnoted
    <2> QED
      BY <2>1, <2>4, QuietEnds
  <1>15. CASE RemoteTimesOut
    <2>1. Trouble("timeout") /\ cli'.phase = "down"
      BY <1>15 DEF RemoteTimesOut, Ends, Stopped
    <2>2. ~Quiet'
      BY <1>0, <2>1, LoudIsHad DEF TroubleKinds
    <2> QED
      BY <2>1, <2>2, QuietEnds
  <1> QED
    BY <1>6, <1>7, <1>8, <1>9, <1>10, <1>11, <1>12, <1>13, <1>14, <1>15 DEF Setup

Replacing ==
  \/ _run_oci_worker_replacement_drill \/ DrillRefused \/ DrillProvisioned \/ DrillSave
  \/ execute_worker_replacement_drill \/ RestoreFails \/ RecordReplacement
  \/ _run_remote_detonation_preflight

LEMMA QuietReplacing ==
  ASSUME LaunchInv, LaunchInv', RefusedInv, QuietInv, Troubled, Replacing
  PROVE  QuietInv'
  <1>0. /\ cli \in CliType /\ TypeOKOci /\ (Quiet' => Quiet)
        /\ cli.phase \notin {"provision", "drill", "cloud"} => call.op = "none"
        /\ cli.phase \in Early \cup {"drill", "drill_save"} => cli.why = "none"
        /\ cli.phase \in {"restore", "resumed"} => cli.why = "drill"
    BY LaunchTyped, QuietBefore DEF LaunchInv, CallFits, WhyFits
  <1>1. Quiet' => Making /\ Standing /\ Fallen
    BY <1>0 DEF QuietInv
  <1>2. CASE _run_oci_worker_replacement_drill
    <2>1. /\ cli.phase = "retrieved" /\ UNCHANGED <<cloud, ids>> /\ cli'.ws = cli.ws
          /\ cli'.why = cli.why
          /\ \/ cli'.phase = "preflight" /\ UNCHANGED <<call, launched>>
             \/ /\ cli'.phase = "drill" /\ call' = NoCall("create", launched + 1)
                /\ launched' = launched + 1
      BY <1>0, <1>2
      DEF _run_oci_worker_replacement_drill, provision, NoCall, ociVars, CliType
    <2>2. cli.why = "none" /\ (Quiet' => Intact(cli.ws))
      BY <1>0, <1>1, <2>1 DEF Standing, Early
    <2>3. CASE cli'.phase = "preflight" /\ UNCHANGED call
      BY <1>0, <2>1, <2>2, <2>3, QuietGoesOn DEF Standing, Fallen, Early, Detonating, Intact
    <2>4. CASE /\ cli'.phase = "drill" /\ call' = NoCall("create", launched + 1)
               /\ launched' = launched + 1
      <3>1. call'.op = "create" /\ call'.ws = launched + 1 /\ call'.at = 1
        BY <2>4 DEF NoCall
      <3>2. cloud[launched + 1] = {}
        <4>1. launched \in Nat
          BY Numbers DEF LaunchInv
        <4>2. launched' \in Workspaces \cup {0}
          BY DEF LaunchInv, TypeOKLaunch
        <4>3. launched + 1 \in Workspaces /\ launched + 1 > launched
          BY <2>4, <4>1, <4>2
        <4> QED
          BY <4>3 DEF RefusedInv, Untouched
      <3>3. Making'
        BY <2>1, <3>1, <3>2 DEF Making, Wound
      <3> QED
        BY <2>1, <2>2, <2>4, <3>1, <3>3
        DEF QuietInv, NothingLeftBehind, Falling, Standing, Fallen, Early, Detonating, Intact
    <2> QED
      BY <2>1, <2>3, <2>4
  <1>3. CASE DrillRefused
    <2>1. /\ cli'.phase = "down" /\ UNCHANGED troubles /\ call.op = "refused"
          /\ files' = [files EXCEPT !.job = mark(cli.job, "replace", "failed")]
      BY <1>3 DEF DrillRefused, DrillEndsBadly, Ends, Stopped, CallEnds
    <2>2. files'.job.steps["replace"] = "failed"
      <3>1. cli.job \in JobState /\ "replace" \in StepNames
        BY <1>0 DEF CliType, StepNames
      <3>2. mark(cli.job, "replace", "failed").steps["replace"] = "failed"
        BY <3>1 DEF JobState, mark
      <3>3. files'.job = mark(cli.job, "replace", "failed")
        BY <2>1, LaunchTyped DEF LaunchInv, FilesType
      <3> QED
        BY <3>2, <3>3
    <2>3. Quiet' => Had({"refused"})'
      BY <1>1, <2>1, HadStays DEF Fallen
    <2> QED
      BY <2>1, <2>2, <2>3, QuietEnds
  <1>4. CASE DrillProvisioned
    <2>1. /\ cli.phase = "drill" /\ call.op = "provisioned" /\ UNCHANGED <<cloud, ids>>
          /\ call'.op = "none" /\ cli'.phase = "drill_save" /\ cli'.replacement = call.ws
          /\ cli'.ws = cli.ws /\ cli'.why = cli.why
      BY <1>0, <1>4 DEF DrillProvisioned, CallEnds, NoCall, CliType
    <2> QED
      BY <1>0, <1>1, <2>1, QuietGoesOn DEF Standing, Fallen, Early, Detonating, Intact
  <1>5. CASE DrillSave
    <2>1. /\ cli.phase = "drill_save" /\ UNCHANGED <<cloud, ids, call>>
          /\ cli'.phase = "ssh" /\ cli'.why = "drill" /\ cli'.ws = cli.ws
          /\ cli'.replacement = cli.replacement
      BY <1>0, <1>5 DEF DrillSave, DetonateFor, FilesOnly, OwnOnly, ociVars, CliType
    <2> QED
      BY <1>0, <1>1, <2>1, QuietGoesOn DEF Standing, Fallen, Early, Detonating, Intact, Doomed
  <1>6. CASE execute_worker_replacement_drill
    <2>1. /\ cli.phase = "restore" /\ UNCHANGED <<cloud, ids, call>>
          /\ cli'.phase = "resumed" /\ cli'.why = "drill" /\ cli'.ws = cli.replacement
      BY <1>0, <1>6 DEF execute_worker_replacement_drill, ociVars, CliType
    <2> QED
      BY <1>0, <1>1, <2>1, QuietGoesOn DEF Standing, Fallen, Early, Detonating, Intact
  <1>7. CASE RestoreFails
    <2>1. /\ cli.phase = "restore" /\ UNCHANGED <<cloud, ids, call>>
          /\ cli'.phase = "ssh" /\ cli'.why = "drill_failed" /\ cli'.ws = cli.ws
          /\ cli'.replacement = cli.replacement /\ cli'.mine = cli.mine
      BY <1>0, <1>7 DEF RestoreFails, DetonateFor, CliType
    <2>2. cloud[cli.ws] = {} /\ cli.mine = {cli.ws, cli.replacement}
      <3>1. Drilling
        BY <1>0, <2>1 DEF Drilling
      <3> QED
        BY <1>0, <2>1, <3>1 DEF LaunchInv, ReportTrue, Fleet
    <2> QED
      BY <1>0, <1>1, <2>1, <2>2, QuietGoesOn DEF Standing, Fallen, Early, Detonating, Intact, Doomed
  <1>8. CASE RecordReplacement
    <2>1. /\ cli.phase = "resumed" /\ UNCHANGED <<cloud, ids, call>>
          /\ cli'.phase = "preflight" /\ cli'.why = cli.why /\ cli'.ws = cli.ws
      BY <1>0, <1>8 DEF RecordReplacement, FilesOnly, OwnOnly, ociVars, CliType
    <2> QED
      BY <1>0, <1>1, <2>1, QuietGoesOn DEF Standing, Fallen, Early, Detonating, Intact
  <1>9. CASE _run_remote_detonation_preflight
    <2>1. cli.phase = "preflight" /\ UNCHANGED <<cloud, ids, call, setting>>
      BY <1>9 DEF _run_remote_detonation_preflight, FilesOnly, OwnOnly, ociVars
    <2>2. CASE DetonateFor("success", cli.job)
      <3>1. cli'.phase = "ssh" /\ cli'.why = "success" /\ cli'.ws = cli.ws
        BY <1>0, <2>2 DEF DetonateFor, CliType
      <3> QED
        BY <1>0, <1>1, <2>1, <3>1, QuietGoesOn
        DEF Standing, Fallen, Early, Detonating, Intact, Doomed
    <2>3. CASE ~PreflightTakes(dir, TRUE) /\ Ends("failed")
      <3>1. cli'.phase = "down" /\ ~setting.trusted
        BY <2>3 DEF Ends, Stopped, PreflightTakes
      <3> QED
        BY <2>1, <3>1, QuietEnds
    <2> QED
      BY <1>9, <2>2, <2>3 DEF _run_remote_detonation_preflight
  <1> QED
    BY <1>2, <1>3, <1>4, <1>5, <1>6, <1>7, <1>8, <1>9 DEF Replacing

Destroying ==
  \/ detonate_remote_worker \/ _mark_remote_worker_detonated_by_workspace_teardown
  \/ DetonationRaises \/ DrillJudges \/ DrillFailed \/ _record_workspace_detonation
  \/ _copy_workspace_detonation_to_remote_artifacts \/ SaveJob \/ DetonationTimesOut

LEMMA QuietDestroying ==
  ASSUME LaunchInv, LaunchInv', QuietInv, Troubled, Destroying
  PROVE  QuietInv'
  <1>0. /\ cli \in CliType /\ TypeOKOci /\ (Quiet' => Quiet)
        /\ cli.phase \notin {"provision", "drill", "cloud"} => call.op = "none"
        /\ cli.phase = "cloud" => call.op \in {"detonate", "detonated", "raised"}
    BY LaunchTyped, QuietBefore DEF LaunchInv, CallFits
  <1>1. Quiet' => Standing /\ Fallen
    BY <1>0 DEF QuietInv
  <1>2. CASE detonate_remote_worker
    <2>1. /\ cli.phase = "ssh" /\ UNCHANGED <<cloud, ids>> /\ call' = NoCall("detonate", Doomed)
          /\ cli'.phase = "cloud" /\ cli'.why = cli.why /\ cli'.ws = cli.ws
          /\ cli'.replacement = cli.replacement /\ cli'.mine = cli.mine
      BY <1>0, <1>2 DEF detonate_remote_worker, CliType
    <2>2. call'.op = "detonate" /\ call'.ws = Doomed /\ call'.at = 1
      BY <2>1 DEF NoCall
    <2>3. Quiet' /\ cli.why # "manual" => Intact(Doomed)
      BY <1>1, <2>1 DEF Standing
    <2>4. ~Quiet' \/ ~Trouble("ssh")
      BY <1>0, LoudIsHad DEF TroubleKinds
    <2>5. Quiet' /\ cli.why # "manual" => deleted' = {"remote_worker"} /\ failed' = {}
      BY <1>2, <2>3, <2>4 DEF detonate_remote_worker, Intact, Resources
    <2>6. Quiet' => Falling'
      <3> SUFFICES ASSUME Quiet', cli.why # "manual" PROVE Falling'
        BY <2>1 DEF Falling
      <3>1. Unwound(1, cloud[Doomed], ids[Doomed]) /\ Remains(1, cloud[Doomed]) /\ Reported(1, deleted')
        BY <2>3 DEF Intact, Unwound, Remains, Reported, Resources, Network
      <3> QED
        BY <2>1, <2>2, <2>3, <2>5, <3>1 DEF Falling, Intact
    <2>7. Quiet' => Standing' /\ Fallen'
      BY <1>1, <2>1, <2>2 DEF Standing, Fallen, Early, Detonating, Intact
    <2> QED
      BY <2>1, <2>2, <2>6, <2>7 DEF QuietInv, NothingLeftBehind, Making
  <1>3. CASE _mark_remote_worker_detonated_by_workspace_teardown
    <2>1. /\ cli.phase = "cloud" /\ call.op = "detonated" /\ call'.op = "none"
          /\ UNCHANGED <<cloud, ids>>
          /\ cli'.phase = "reported" /\ cli'.why = cli.why /\ cli'.ws = cli.ws
          /\ cli'.replacement = cli.replacement /\ cli'.mine = cli.mine
      BY <1>0, <1>3 DEF _mark_remote_worker_detonated_by_workspace_teardown, NoCall, CliType
    <2>2. _workspace_detonation_complete => _workspace_detonation_complete'
      BY <1>3
      DEF _mark_remote_worker_detonated_by_workspace_teardown, _workspace_detonation_complete
    <2> QED
      BY <1>1, <2>1, <2>2, QuietGoesOn DEF Standing, Fallen, Early, Detonating, Intact
  <1>4. CASE DetonationRaises
    <2>1. cli.phase = "cloud" /\ call.op = "raised" /\ UNCHANGED <<cloud, ids, troubles>>
          /\ call'.op = "none"
      BY <1>4 DEF DetonationRaises, CallEnds, NoCall
    <2>2. Quiet' => cli.why = "manual"
      BY <1>1, <2>1 DEF Fallen
    <2>3. CASE DetonateFor("drill_failed", cli.job) /\ cli.why = "drill"
      BY <1>0, <2>1, <2>2, <2>3, QuietGoesOn DEF DetonateFor, CliType
    <2>4. CASE Ends("failed")
      <3>1. cli'.phase = "down" /\ cli'.mine = cli.mine
        BY <2>4 DEF Ends, Stopped
      <3>2. Quiet' => cli.mine = {}
        BY <1>1, <2>2 DEF Fallen
      <3> QED
        BY <3>1, <3>2, QuietEnds
    <2> QED
      BY <1>4, <2>3, <2>4 DEF DetonationRaises
  <1>5. CASE DrillJudges
    <2>1. /\ cli.phase = "reported" /\ cli.why = "drill" /\ UNCHANGED <<cloud, ids, call>>
      BY <1>5 DEF DrillJudges, CliOnly, OwnOnly, ociVars
    <2>2. CASE cli' = [cli EXCEPT !.phase = "restore"]
      <3>1. cli'.phase = "restore" /\ cli'.why = "drill" /\ cli'.replacement = cli.replacement
        BY <1>0, <2>1, <2>2 DEF CliType
      <3> QED
        BY <1>0, <1>1, <2>1, <3>1, QuietGoesOn DEF Standing, Fallen, Early, Detonating, Intact
    <2>3. CASE ~_workspace_detonation_complete /\ DetonateFor("drill_failed", cli.job)
      <3>1. ~Quiet'
        BY <1>1, <2>1, <2>3 DEF Fallen
      <3>2. cli'.phase = "ssh"
        BY <1>0, <2>3 DEF DetonateFor, CliType
      <3> QED
        BY <1>0, <2>1, <3>1, <3>2, QuietGoesOn
    <2> QED
      BY <1>5, <2>2, <2>3 DEF DrillJudges
  <1>6. CASE DrillFailed
    <2>1. /\ cli.phase = "reported" /\ cli.why = "drill_failed" /\ UNCHANGED cloud
          /\ cli'.phase = "down" /\ cli'.mine = cli.mine
      BY <1>6 DEF DrillFailed, DrillEndsBadly, Ends, Stopped, FilesOnly, OwnOnly, ociVars
    <2>2. Quiet' => cloud[cli.ws] = {} /\ cli.mine = {cli.ws, cli.replacement}
                    /\ _workspace_detonation_complete
      BY <1>1, <2>1 DEF Fallen
    <2>3. cli.replacement \in Workspaces /\ Gone(deleted, cloud[cli.replacement])
      BY <2>1, NatWorkspaces DEF LaunchInv, Fleet, ReportTrue, Doomed
    <2>4. cloud[cli.replacement] \in SUBSET Resources
      BY <1>0, <2>3, OciTyped
    <2>5. Quiet' => cloud[cli.replacement] = {}
      BY <2>2, <2>3, <2>4, CompleteIsGone
    <2> QED
      BY <2>1, <2>2, <2>5, QuietEnds
  <1>7. CASE _record_workspace_detonation
    <2>1. /\ cli.phase = "reported" /\ cli.why \notin {"drill", "drill_failed"}
          /\ UNCHANGED <<cloud, ids, call, setting>>
      BY <1>7 DEF _record_workspace_detonation, FilesOnly, OwnOnly, ociVars
    <2>2. CASE Ends("none")
      <3>1. cli'.phase = "down" /\ cli'.outcome = "none"
        BY <2>2 DEF Ends, Stopped
      <3> QED
        BY <3>1, QuietEnds
    <2>3. CASE /\ cli'.phase \in {"attach", "save"} /\ cli'.why = cli.why /\ cli'.ws = cli.ws
               /\ cli'.mine = cli.mine
      <3>1. ASSUME Quiet', cli.why # "manual" PROVE cloud[cli.ws] = {}
        <4>1. _workspace_detonation_complete
          BY <1>1, <2>1, <3>1 DEF Fallen
        <4>2. Doomed = cli.ws /\ cli.ws # 0 /\ cli.ws \in Workspaces
          <5>1. cli.why \in {"setup_failed", "verify_failed", "success"}
            BY <1>0, <2>1, <3>1 DEF CliType, Reasons, LaunchInv, WhyFits, Detonating
          <5> QED
            BY <2>1, <5>1, NatWorkspaces DEF Doomed, LaunchInv, Fleet
        <4>3. Gone(deleted, cloud[cli.ws]) /\ cloud[cli.ws] \in SUBSET Resources
          BY <1>0, <2>1, <4>2, OciTyped DEF LaunchInv, ReportTrue
        <4> QED
          BY <4>1, <4>3, CompleteIsGone
      <3>2. call'.op = "none" /\ (Quiet' /\ cli.why = "manual" => cli.mine = {})
        BY <1>0, <1>1, <2>1 DEF Fallen
      <3>3. Standing'
        BY <2>1, <2>3, <3>2 DEF Standing, Early, Detonating
      <3>4. Quiet' => Fallen'
        BY <2>1, <2>3, <3>1, <3>2 DEF Fallen
      <3> QED
        BY <2>3, <3>2, <3>3, <3>4, QuietGoesOn
    <2>4. CASE cli' = [cli EXCEPT
                  !.phase = IF cli.why \in {"verify_failed", "success"} THEN "attach" ELSE "save",
                  !.job = mark(@, "detonate", DetonationStatus(_workspace_detonation_complete))]
      BY <1>0, <2>3, <2>4 DEF CliType
    <2> QED
      BY <1>7, <2>2, <2>4 DEF _record_workspace_detonation
  <1>8. CASE _copy_workspace_detonation_to_remote_artifacts
    <2>1. /\ cli.phase = "attach" /\ UNCHANGED <<cloud, ids, call>> /\ cli'.phase = "save"
          /\ cli'.why = cli.why /\ cli'.ws = cli.ws
      BY <1>0, <1>8 DEF _copy_workspace_detonation_to_remote_artifacts, ociVars, CliType
    <2>2. cli.why \in {"verify_failed", "success"}
      BY <2>1 DEF LaunchInv, WhyFits
    <2> QED
      BY <1>0, <1>1, <2>1, <2>2, QuietGoesOn DEF Standing, Fallen, Early, Detonating
  <1>9. CASE SaveJob
    <2>1. /\ cli.phase = "save" /\ UNCHANGED cloud /\ cli'.phase = "down" /\ cli'.mine = cli.mine
          /\ cli.why = "manual" => cli'.outcome = "none"
      BY <1>9 DEF SaveJob, Ends, Stopped, FilesOnly, OwnOnly, ociVars
    <2>2. cli.why # "manual" => cli.why \in {"setup_failed", "verify_failed", "success"}
      BY <2>1 DEF LaunchInv, WhyFits
    <2>3. Quiet' /\ cli.why # "manual" => \A w \in cli.mine : cloud[w] = {}
      BY <1>1, <2>1, <2>2 DEF Fallen, LaunchInv, Fleet
    <2> QED
      BY <2>1, <2>3, QuietEnds
  <1>10. CASE DetonationTimesOut
    <2>1. ~Quiet'
      BY <1>0, <1>10, LoudIsHad DEF DetonationTimesOut, TroubleKinds
    <2>2. cli.phase = "ssh" /\ call'.op = "none"
      BY <1>0, <1>10 DEF DetonationTimesOut
    <2>3. CASE DetonateFor("drill_failed", cli.job)
      <3>1. cli'.phase = "ssh"
        BY <1>0, <2>3 DEF DetonateFor, CliType
      <3> QED
        BY <2>1, <2>2, <3>1, QuietGoesOn
    <2>4. CASE Ends("failed")
      <3>1. cli'.phase = "down"
        BY <2>4 DEF Ends, Stopped
      <3> QED
        BY <2>1, <3>1, QuietEnds
    <2> QED
      BY <1>10, <2>3, <2>4 DEF DetonationTimesOut
  <1> QED
    BY <1>2, <1>3, <1>4, <1>5, <1>6, <1>7, <1>8, <1>9, <1>10 DEF Destroying

LEMMA QuietInvNext ==
  ASSUME LaunchInv, RefusedInv, QuietInv, [NextLaunch]_launchVars
  PROVE  QuietInv'
  <1>0. /\ LaunchInv' /\ Troubled /\ cli \in CliType /\ TypeOKOci /\ (Quiet' => Quiet)
        /\ cli.phase \notin {"provision", "drill", "cloud"} => call.op = "none"
        /\ cli.phase \in {"down", "extract"} => cli.why = "none"
    BY LaunchInvNext, CallFlow, LaunchTyped, QuietBefore DEF LaunchInv, CallFits, WhyFits, Early
  <1>1. CASE UNCHANGED launchVars
    <2>1. UNCHANGED <<setting, cli, files, cloud, ids, call, deleted, failed, troubles>>
      BY <1>1 DEF launchVars, ociVars
    <2>2. NothingLeftBehind' <=> NothingLeftBehind
      BY <2>1 DEF NothingLeftBehind, Had, Unnoted
    <2>3. (Making' <=> Making) /\ (Falling' <=> Falling) /\ (Quiet' <=> Quiet)
      BY <2>1 DEF Making, Falling, Quiet, Had
    <2>4. (Standing' <=> Standing) /\ (Fallen' <=> Fallen)
      BY <2>1 DEF Standing, Intact, Doomed, Fallen, _workspace_detonation_complete, Had
    <2> QED
      BY <2>2, <2>3, <2>4 DEF QuietInv
  <1>2. CASE Launch
    <2>1. /\ cli'.phase = "provision" /\ call'.op = "create" /\ call'.ws = launched + 1
          /\ call'.at = 1 /\ UNCHANGED <<cloud, ids>> /\ launched' = launched + 1
      BY <1>2 DEF Launch, provision, NoCall, Stopped
    <2>2. cloud[launched + 1] = {}
      <3>1. launched \in Nat
        BY Numbers DEF LaunchInv
      <3>2. launched' \in Workspaces \cup {0}
        BY <1>0 DEF LaunchInv, TypeOKLaunch
      <3>3. launched + 1 \in Workspaces /\ launched + 1 > launched
        BY <2>1, <3>1, <3>2
      <3> QED
        BY <3>3 DEF RefusedInv, Untouched
    <2>3. cli'.why = "none"
      BY <1>0, <2>1 DEF LaunchInv, WhyFits
    <2> QED
      BY <2>1, <2>2, <2>3
      DEF QuietInv, NothingLeftBehind, Making, Wound, Falling, Standing, Fallen, Early, Detonating
  <1>3. CASE _cmd_runner_detonate
    <2>1. /\ cli.phase = "down" /\ cli'.why = "manual" /\ cli'.mine = {}
          /\ cli'.phase \in {"ssh", "cloud", "reported"}
          /\ call' = call \/ call' = NoCall("detonate", files.ws)
      BY <1>3 DEF _cmd_runner_detonate, Stopped
    <2>2. call'.op \in {"none", "detonate"}
      BY <1>0, <2>1 DEF NoCall
    <2> QED
      BY <2>1, <2>2
      DEF QuietInv, NothingLeftBehind, Making, Falling, Standing, Fallen, Early, Detonating
  <1>4. CASE Swap
    <2>1. cli.phase = "extract" /\ UNCHANGED <<cli, cloud, ids, call>>
      <3>1. swap.phase # "idle"
        BY <1>4 DEF Swap, SwapStep, ClearBackup, MoveAway, MoveAwayFails, Place, PlaceFails,
           Restore, RemoveBackup
      <3> QED
        BY <1>4, <3>1 DEF Swap, LaunchInv, BundleFits
    <2>2. Quiet' => Intact(cli.ws)
      BY <1>0, <2>1 DEF QuietInv, Standing, Early
    <2> QED
      BY <1>0, <2>1, <2>2, QuietGoesOn DEF Standing, Fallen, Early, Detonating, Intact
  <1>5. CASE Crash
    <2>1. cli'.phase = "down" /\ cli'.outcome = "crashed"
      BY <1>5 DEF Crash, Ends, Stopped
    <2> QED
      BY <1>0, <2>1, QuietEnds
  <1>6. CASE VaultLost
    <2>1. ~Quiet'
      BY <1>0, <1>6, LoudIsHad DEF VaultLost, TroubleKinds
    <2>2. cli'.phase = "down"
      BY <1>6 DEF VaultLost
    <2> QED
      BY <1>0, <2>1, <2>2, QuietEnds
  <1>7. CASE CliStep
    BY <1>0, <1>7, QuietSetup, QuietReplacing, QuietDestroying
    DEF CliStep, Setup, Replacing, Destroying
  <1> QED
    BY <1>1, <1>2, <1>3, <1>4, <1>5, <1>6, <1>7, QuietCloud, QuietRelease DEF NextLaunch

(* A launch that meets no fault but refusals of capacity and a failing     *)
(* setup takes down all its workspaces, unless it is told to keep them or  *)
(* its drill gets no replacement; a security group whose rules were        *)
(* refused stays with its network (_cmd_cloud_runner_launch in cli.py).    *)
THEOREM LaunchCleansUp == SpecLaunch => []NothingLeftBehind
  <1>1. InitLaunch => RefusedInv /\ QuietInv
    BY DEF InitLaunch, InitOci, NoCall, Stopped, RefusedInv, Untouched, Undoable,
       RefusedLeavesNothing, QuietInv, Making, Falling, Standing, Fallen, Early, Detonating,
       NothingLeftBehind
  <1>2. LaunchInv /\ RefusedInv /\ [NextLaunch]_launchVars => RefusedInv'
    BY RefusedInvNext
  <1>3. LaunchInv /\ RefusedInv /\ QuietInv /\ [NextLaunch]_launchVars => QuietInv'
    BY QuietInvNext
  <1>4. QuietInv => NothingLeftBehind
    BY DEF QuietInv
  <1> QED
    BY <1>1, <1>2, <1>3, <1>4, LaunchInvariant, PTL DEF SpecLaunch

=============================================================================
