------------------------------ MODULE Providers ------------------------------
(* What the providers keep for one app: the FuseKit deploy keys and one       *)
(* Actions secret of its repository at GitHub, its Vercel project with one     *)
(* environment variable, and its record in the zone at Cloudflare.             *)
(* A resource is the user's own ("theirs") or was put there by FuseKit; two    *)
(* variables may have the name the manifest gives ("both").                    *)
EXTENDS Naturals

CONSTANT NoRecord

VARIABLE cloud

Owners     == {"none", "theirs", "ours"}
Variables  == Owners \cup {"both"}
DnsRecords == [id : Nat, content : {"theirs", "ours"}]

ASSUME NoRecordAssumption == NoRecord \notin DnsRecords

TypeOKCloud ==
  cloud \in [keys : SUBSET Nat, secret : BOOLEAN, project : Owners, env : Variables,
             zone : DnsRecords \cup {NoRecord}, next : Nat]

(* The accounts before FuseKit: nothing, or a project and a record in use.     *)
Accounts(project, zone) ==
  [keys |-> {}, secret |-> FALSE, project |-> project,
   env |-> IF project = "theirs" THEN "theirs" ELSE "none",
   zone |-> IF zone THEN [id |-> 1, content |-> "theirs"] ELSE NoRecord,
   next |-> 2]

-----------------------------------------------------------------------------
(* The calls, as what they leave at the provider.                             *)

add_deploy_key  == [cloud EXCEPT !.keys = @ \cup {cloud.next}, !.next = @ + 1]
put_repo_secret == [cloud EXCEPT !.secret = TRUE]
ensure_project  == [cloud EXCEPT !.project = IF @ = "none" THEN "ours" ELSE @]
put_env         == [cloud EXCEPT !.env = "ours"]

(* What a put_env that raises may leave: the new variable is created before   *)
(* the old ones are deleted, or after where its name was taken, and they are   *)
(* deleted one by one.                                                         *)
put_env_left ==
  {[cloud EXCEPT !.env = left] :
     left \in CASE cloud.env = "theirs" -> {"theirs", "none", "both"}
                [] cloud.env = "both"   -> Variables
                [] OTHER                -> {cloud.env, "none"}}

(* PUT of the record the proposal found, or POST of a new one.                *)
apply(existing) ==
  IF existing # NoRecord
  THEN [cloud EXCEPT !.zone.content = "ours"]
  ELSE [cloud EXCEPT !.zone = [id |-> cloud.next, content |-> "ours"], !.next = @ + 1]

delete_deploy_key(id) == [cloud EXCEPT !.keys = @ \ {id}]
delete_repo_secret    == [cloud EXCEPT !.secret = FALSE]
delete_env_by_key     == [cloud EXCEPT !.env = "none"]
delete_project        == [cloud EXCEPT !.project = "none", !.env = "none"]

(* A proposal that found no record deletes the one there is now; the others   *)
(* put the content back they found.                                           *)
rollback_proposal(existing) ==
  IF existing = NoRecord
  THEN [cloud EXCEPT !.zone = NoRecord]
  ELSE [cloud EXCEPT !.zone.content = existing.content]

HasRecord(id) == cloud.zone # NoRecord /\ cloud.zone.id = id

=============================================================================
