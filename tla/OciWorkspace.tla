---------------------------- MODULE OciWorkspace ----------------------------
(***************************************************************************)
(* OciProvisioner (runner/oci_live.py): the cloud resources of a           *)
(* workspace, created one call after another by provision and deleted one  *)
(* after another by detonate.  A failed provision deletes what it made.    *)
(*                                                                         *)
(* cloud is what exists at the provider, ids what the program knows of: an *)
(* answer may be lost after the provider did the work.  What the program   *)
(* is told is in deleted and failed, the two kinds of keys of the          *)
(* dictionary detonate returns.                                            *)
(***************************************************************************)
EXTENDS Naturals, Sequences, FiniteSets

CONSTANTS
  Workspaces,  \* the workspaces of all launches, numbered in order
  MaxTroubles  \* bound on what goes wrong in a behaviour

ASSUME WorkspacesAssumption ==
  /\ Workspaces \subseteq Nat \ {0} /\ IsFiniteSet(Workspaces)
  /\ \A w \in Workspaces : 1..w \subseteq Workspaces
ASSUME TroublesAssumption   == MaxTroubles \in Nat

CreateSteps ==
  <<"vcn", "internet_gateway", "route_table", "security_list", "network_security_group",
    "nsg_rules", "subnet", "instance", "address">>

(* Mutant: the subnet goes after what it uses.                             *)
NetworkOrder == <<"route_table", "internet_gateway", "network_security_group",
                  "security_list", "subnet", "vcn">>
subnet_last == <<"boot_volumes", "terminate", "release", "boot_wait">> \o NetworkOrder

DeleteSteps ==
  <<"boot_volumes", "terminate", "release", "boot_wait",
    "subnet", "route_table", "internet_gateway", "network_security_group", "security_list", "vcn">>

AfterInstance == 5   \* where the network's deletion begins

Network == {"vcn", "internet_gateway", "route_table", "security_list",
            "network_security_group", "subnet"}

(* An instance comes with a network card and a boot volume; one whose      *)
(* launch was not confirmed is one the program has no id for.              *)
Resources == Network \cup {"instance", "vnic", "boot_volume", "unconfirmed_instance"}

(* What has to be gone before a resource can be deleted.                   *)
Dependents(r) ==
  CASE r = "vcn"              -> Network \ {"vcn"}
    [] r = "internet_gateway" -> {"route_table"}
    [] r \in {"route_table", "security_list"} -> {"subnet"}
    [] r = "network_security_group" -> {"vnic"}
    [] r = "subnet" -> {"vnic", "unconfirmed_instance"}
    [] OTHER -> {}

TroubleKinds == {"refused", "lost", "delete", "slow", "ssh", "remote", "timeout",
                 "rename_old", "rename_new", "vault", "crash"}

VARIABLES
  cloud,    \* the resources each workspace has at the provider
  ids,      \* the keys of its resource_ids
  call,     \* the provision or detonate call in progress
  deleted, failed,  \* what the last detonate reports
  allowed,  \* the troubles a behaviour may have, fixed
  troubles  \* those it had, in order

ociVars == <<cloud, ids, call, deleted, failed, allowed, troubles>>

NoCall(outcome, w) == [op |-> outcome, ws |-> w, at |-> 1, bootKnown |-> FALSE]

Reports == Network \cup {"instance", "boot_volume", "ephemeral_public_ip", "remote_worker",
                         "workspace"}

TypeOKOci ==
  /\ cloud \in [Workspaces -> SUBSET Resources]
  /\ ids \in [Workspaces -> SUBSET (Network \cup {"instance"})]
  /\ call \in [op: {"create", "undo", "detonate", "none", "provisioned", "refused", "detonated",
                    "raised"},
               ws: Workspaces \cup {0}, at: 1..Len(DeleteSteps) + 1, bootKnown: BOOLEAN]
  /\ deleted \subseteq Reports /\ failed \subseteq Reports
  /\ allowed \subseteq TroubleKinds
  /\ troubles \in UNION {[1..n -> TroubleKinds] : n \in 0..MaxTroubles}

InitOci ==
  /\ cloud = [w \in Workspaces |-> {}]
  /\ ids = [w \in Workspaces |-> {}]
  /\ call = NoCall("none", 0)
  /\ deleted = {} /\ failed = {}
  /\ allowed \in SUBSET TroubleKinds
  /\ troubles = <<>>

Trouble(kind) ==
  /\ kind \in allowed /\ Len(troubles) < MaxTroubles
  /\ troubles' = Append(troubles, kind)

Had(kinds) == \E i \in DOMAIN troubles : troubles[i] \in kinds

Calling == call.op \in {"create", "undo", "detonate"}

Step(op, steps) == IF call.op = op /\ call.at <= Len(steps) THEN steps[call.at] ELSE "none"

Creating == Step("create", CreateSteps)

Deleting == IF call.op = "undo" THEN Step("undo", DeleteSteps) ELSE Step("detonate", DeleteSteps)

-----------------------------------------------------------------------------
(* provision                                                               *)

provision(w) ==
  /\ call' = [NoCall("create", w) EXCEPT !.at = 1]
  /\ UNCHANGED <<cloud, ids, deleted, failed, troubles>>

CreateNext(made, known) ==
  /\ cloud' = [cloud EXCEPT ![call.ws] = @ \cup made]
  /\ ids' = [ids EXCEPT ![call.ws] = @ \cup known]
  /\ call' = [call EXCEPT !.at = @ + 1]
  /\ UNCHANGED <<deleted, failed, troubles>>

Create ==
  /\ Creating \in Network \ {"network_security_group"}
  /\ CreateNext({Creating}, {Creating})

(* The security group gets its rules by a call of its own, and only then   *)
(* its id is noted.                                                        *)
_create_nsg ==
  \/ Creating = "network_security_group" /\ CreateNext({"network_security_group"}, {})
  \/ Creating = "nsg_rules" /\ CreateNext({}, {"network_security_group"})

_launch_instance ==
  /\ Creating = "instance"
  /\ CreateNext({"instance", "vnic", "boot_volume"}, {"instance"})

(* No capacity, or not visible yet: the next shape or domain is tried.     *)
_launch_with_capacity_fallback ==
  /\ Creating = "instance"
  /\ Trouble("refused")
  /\ UNCHANGED <<cloud, ids, call, deleted, failed>>

_public_ip ==
  /\ Creating = "address"
  /\ call' = NoCall("provisioned", call.ws)
  /\ UNCHANGED <<cloud, ids, deleted, failed, troubles>>

(* A call fails, with its work done or not, and provision undoes its own.  *)
CreateFails ==
  /\ Creating # "none"
  /\ \/ Trouble("refused") /\ UNCHANGED cloud
     \/ /\ Creating # "address" /\ Trouble("lost")
        /\ cloud' = [cloud EXCEPT ![call.ws] =
                       @ \cup CASE Creating = "instance"  -> {"unconfirmed_instance"}
                                 [] Creating = "nsg_rules" -> {}
                                 [] OTHER                  -> {Creating}]
  /\ call' = [call EXCEPT !.op = "undo", !.at = 1]
  /\ deleted' = {} /\ failed' = {}
  /\ UNCHANGED ids

-----------------------------------------------------------------------------
(* detonate                                                                *)

detonate(w) ==
  /\ call' = NoCall("detonate", w)
  /\ UNCHANGED <<cloud, ids, troubles>>

Has(r) == r \in cloud[call.ws]

Told(good, bad) ==
  /\ deleted' = deleted \cup good
  /\ failed' = failed \cup bad

Goto(at) == call' = [call EXCEPT !.at = at]

(* The boot volume is asked for while the instance still has it attached.  *)
_instance_boot_volume_ids ==
  /\ Deleting = "boot_volumes"
  /\ \/ /\ "instance" \notin ids[call.ws]
        /\ Goto(AfterInstance) /\ Told({}, {})
        /\ UNCHANGED troubles
     \/ /\ "instance" \in ids[call.ws] /\ Has("instance")
        /\ call' = [call EXCEPT !.at = @ + 1, !.bootKnown = TRUE]
        /\ Told({}, {})
        /\ UNCHANGED troubles
     \/ /\ "instance" \in ids[call.ws]
        /\ IF Has("instance") THEN Trouble("delete") ELSE UNCHANGED troubles
        /\ Goto(call.at + 1) /\ Told({}, {"boot_volume"})
  /\ UNCHANGED <<cloud, ids>>

(* An instance that is gone already is terminated again or not found.      *)
_terminate_instance ==
  /\ Deleting = "terminate"
  /\ \/ /\ cloud' = [cloud EXCEPT ![call.ws] = @ \ {"instance"}]
        /\ Goto(call.at + 1) /\ Told({"instance"}, {})
        /\ UNCHANGED troubles
     \/ /\ IF Has("instance") THEN Trouble("delete") ELSE UNCHANGED troubles
        /\ \E gone \in {{}, {"instance"}} : cloud' = [cloud EXCEPT ![call.ws] = @ \ gone]
        /\ Goto(AfterInstance) /\ Told({}, {"instance"})
  /\ UNCHANGED ids

(* The provider takes its time after the termination.                      *)
CloudReleases(w) ==
  /\ "instance" \notin cloud[w]
  /\ \E r \in {"vnic", "boot_volume"} \cap cloud[w] : cloud' = [cloud EXCEPT ![w] = @ \ {r}]
  /\ UNCHANGED <<ids, call, deleted, failed, troubles>>

(* A workspace that has no address yet reports none.                       *)
Address == IF call.op = "undo" THEN {} ELSE {"ephemeral_public_ip"}

(* The wait for the network card gives up silently, or raises.             *)
_wait_for_instance_network_release ==
  /\ Deleting = "release"
  /\ \/ ~Has("vnic") /\ Goto(call.at + 1) /\ Told(Address, {}) /\ UNCHANGED troubles
     \/ Trouble("slow") /\ Goto(call.at + 1) /\ Told(Address, {})
     \/ Trouble("slow") /\ Goto(AfterInstance) /\ Told({}, {"instance"})
  /\ UNCHANGED <<cloud, ids>>

(* Mutant: a wait that timed out counts as a deletion.                     *)
boot_timeout_passes ==
  /\ Deleting = "boot_wait"
  /\ IF Has("boot_volume") THEN Trouble("slow") ELSE UNCHANGED troubles
  /\ Goto(call.at + 1) /\ Told({"boot_volume"}, {})
  /\ UNCHANGED <<cloud, ids>>

(* The wait for the boot volume gives up, or raises an error nobody        *)
(* catches.                                                                *)
_wait_for_boot_volume_deletion ==
  /\ Deleting = "boot_wait"
  /\ \/ ~call.bootKnown /\ Goto(call.at + 1) /\ Told({}, {"boot_volume"}) /\ UNCHANGED troubles
     \/ /\ call.bootKnown /\ ~Has("boot_volume")
        /\ Goto(call.at + 1) /\ Told({"boot_volume"}, {})
        /\ UNCHANGED troubles
     \/ /\ call.bootKnown /\ Trouble("slow")
        /\ \/ Goto(call.at + 1)
           \/ call' = NoCall(IF call.op = "undo" THEN "refused" ELSE "raised", call.ws)
        /\ Told({}, {"boot_volume"})
  /\ UNCHANGED <<cloud, ids>>

Blocked(r) == cloud[call.ws] \cap Dependents(r) # {}

(* Mutant: the deletion is retried for as long as the provider refuses.    *)
retry_for_ever ==
  /\ Deleting \in Network
  /\ IF Deleting \in ids[call.ws] /\ Blocked(Deleting)
     THEN UNCHANGED <<cloud, call, deleted, failed>>
     ELSE /\ Told({Deleting}, {})
          /\ cloud' = [cloud EXCEPT ![call.ws] = @ \ {Deleting}]
          /\ Goto(call.at + 1)
  /\ UNCHANGED <<ids, troubles>>

(* Six attempts while the provider answers that the resource is in use; a  *)
(* resource that is gone already is an error.                              *)
_delete_oci_resource ==
  /\ Deleting \in Network
  /\ \/ Deleting \notin ids[call.ws] /\ Told({}, {}) /\ UNCHANGED <<cloud, troubles>>
     \/ /\ Deleting \in ids[call.ws] /\ Has(Deleting) /\ ~Blocked(Deleting)
        /\ cloud' = [cloud EXCEPT ![call.ws] = @ \ {Deleting}]
        /\ Told({Deleting}, {})
        /\ UNCHANGED troubles
     \/ /\ Deleting \in ids[call.ws] /\ (Blocked(Deleting) \/ ~Has(Deleting))
        /\ Told({}, {Deleting})
        /\ UNCHANGED <<cloud, troubles>>
     \/ /\ Deleting \in ids[call.ws] /\ Has(Deleting) /\ ~Blocked(Deleting)
        /\ Trouble("delete")
        /\ \E gone \in {{}, {Deleting}} : cloud' = [cloud EXCEPT ![call.ws] = @ \ gone]
        /\ Told({}, {Deleting})
  /\ Goto(call.at + 1)
  /\ UNCHANGED ids

Deleted ==
  /\ call.op \in {"undo", "detonate"} /\ call.at > Len(DeleteSteps)
  /\ call' = NoCall(IF call.op = "undo" THEN "refused" ELSE "detonated", call.ws)
  /\ UNCHANGED <<cloud, ids, deleted, failed, troubles>>

OciStep ==
  \/ Create \/ _create_nsg \/ _launch_instance \/ _launch_with_capacity_fallback \/ _public_ip \/ CreateFails
  \/ _instance_boot_volume_ids \/ _terminate_instance \/ _wait_for_instance_network_release
  \/ _wait_for_boot_volume_deletion \/ _delete_oci_resource \/ Deleted

=============================================================================
