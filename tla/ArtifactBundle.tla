--------------------------- MODULE ArtifactBundle ---------------------------
(***************************************************************************)
(* The retrieved bundle on the local disk (_replace_existing_artifact_     *)
(* bundle in runner/remote.py): the old directory is moved to a backup,    *)
(* the staged one is moved in its place, and the backup is removed.  An    *)
(* error removes the directory and moves the backup back.                  *)
(***************************************************************************)
EXTENDS OciWorkspace, RunRecord

VARIABLES
  dir,     \* .fusekit of the retrieved artifacts
  backup,  \* .fusekit.previous
  swap,    \* the replacement in progress
  kept     \* some bundle was retrieved once

bundleVars == <<dir, backup, swap, kept>>

NoBundle == [files |-> {}]

TypeOKBundle ==
  /\ dir \in Bundle \cup {NoBundle}
  /\ backup \in Bundle \cup {NoBundle}
  /\ swap \in [phase: {"idle", "clear", "move", "place", "restore", "remove", "fail", "replaced",
                       "failed"},
               staged: Bundle \cup {NoBundle}]
  /\ kept \in BOOLEAN

InitBundle ==
  /\ dir = NoBundle /\ backup = NoBundle
  /\ swap = [phase |-> "idle", staged |-> NoBundle]
  /\ kept = FALSE

SwapTo(phase) == swap' = [swap EXCEPT !.phase = phase]

SwapEnds(phase) == swap' = [phase |-> phase, staged |-> NoBundle]

_replace_existing_artifact_bundle(b) == swap' = [phase |-> "clear", staged |-> b]

ClearBackup ==
  /\ swap.phase = "clear"
  /\ backup' = NoBundle
  /\ SwapTo(IF dir = NoBundle THEN "place" ELSE "move")
  /\ UNCHANGED <<dir, kept, troubles>>

(* Mutant: the old bundle is removed and not moved.                        *)
remove_old ==
  /\ swap.phase = "move"
  /\ dir' = NoBundle
  /\ SwapTo("place")
  /\ UNCHANGED <<backup, kept, troubles>>

MoveAway ==
  /\ swap.phase = "move"
  /\ backup' = dir /\ dir' = NoBundle
  /\ SwapTo("place")
  /\ UNCHANGED <<kept, troubles>>

(* The handler of a failed move removes the directory that did not move.   *)
MoveAwayFails ==
  /\ swap.phase = "move"
  /\ Trouble("rename_old")
  /\ dir' = NoBundle
  /\ SwapTo("fail")
  /\ UNCHANGED <<backup, kept>>

Place ==
  /\ swap.phase = "place"
  /\ dir' = swap.staged /\ kept' = TRUE
  /\ swap' = [phase |-> "remove", staged |-> NoBundle]
  /\ UNCHANGED <<backup, troubles>>

PlaceFails ==
  /\ swap.phase = "place"
  /\ Trouble("rename_new")
  /\ SwapTo(IF backup = NoBundle THEN "fail" ELSE "restore")
  /\ UNCHANGED <<dir, backup, kept>>

Restore ==
  /\ swap.phase = "restore"
  /\ dir' = backup /\ backup' = NoBundle
  /\ SwapTo("fail")
  /\ UNCHANGED <<kept, troubles>>

RemoveBackup ==
  /\ swap.phase \in {"remove", "fail"}
  /\ backup' = NoBundle
  /\ SwapEnds(IF swap.phase = "remove" THEN "replaced" ELSE "failed")
  /\ UNCHANGED <<dir, kept, troubles>>

SwapStep ==
  \/ ClearBackup \/ MoveAway \/ MoveAwayFails \/ Place \/ PlaceFails \/ Restore \/ RemoveBackup

=============================================================================
