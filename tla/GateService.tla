---------------------------- MODULE GateService ----------------------------
(***************************************************************************)
(* Human gates (runner/gates.py).  A gate asks a human for an approval, or *)
(* for secrets (its capture targets), and is kept as a record of           *)
(* gates.json.  The operators are what the methods of GateService do to    *)
(* one record; loading and saving the file is in ControlRoom.  The status  *)
(* "failed" is left out: nothing in the repository calls fail_gate.        *)
(***************************************************************************)
CONSTANTS
  Gates,     \* gate ids
  Targets,   \* environment names a capture can store
  TargetsOf  \* the capture targets of each gate

ASSUME TargetsAssumption == TargetsOf \in [Gates -> SUBSET Targets]

GateStatus == {"waiting", "resurfaced", "resume_requested", "passed"}

Absent == [status |-> "absent", captured |-> {}, opened |-> FALSE, woken |-> FALSE]

(* opened: its page was opened; woken: the last wake event was the request *)
(* to resume, not a capture.                                               *)
GateRecord ==
  [status: GateStatus, captured: SUBSET Targets, opened: BOOLEAN, woken: BOOLEAN] \cup {Absent}

Waiting(record) == record.status \in {"waiting", "resurfaced"}

(* A gate surfaces.  What was captured for an attempt that resumed is      *)
(* forgotten: the attempt failed, so the values are to be captured again.  *)
wait(record) ==
  CASE record = Absent -> [record EXCEPT !.status = "waiting"]
    [] record.status = "passed" -> record
    [] record.status = "resume_requested" ->
         [record EXCEPT !.status = "resurfaced", !.captured = {}]
    [] OTHER -> [record EXCEPT !.status = "resurfaced"]

(* Mutant: a status readers do not know.                                  *)
pass_as_done(record) == [record EXCEPT !.status = "done"]

pass_gate(record) == [record EXCEPT !.status = "passed"]

(* A resume that was requested already is answered with its old event.     *)
Resuming(record) == record.status = "resume_requested" /\ record.woken

request_resume(record) ==
  IF Resuming(record) THEN record
  ELSE [record EXCEPT !.status = "resume_requested", !.woken = TRUE]

mark_opened(record) == [record EXCEPT !.opened = TRUE]

mark_captured(record, x) == [record EXCEPT !.captured = @ \cup {x}, !.woken = FALSE]

=============================================================================
