------------------------------ MODULE MCLaunch ------------------------------
(***************************************************************************)
(* CloudLaunch for TLC: the settings of its behaviours.                    *)
(***************************************************************************)
EXTENDS CloudLaunch

With(kinds, verification, trusted) ==
  [allowed |-> kinds, noDetonate |-> FALSE, allowIncomplete |-> FALSE,
   verification |-> verification, trusted |-> trusted]

Retained(verification) == [With({"slow"}, verification, TRUE) EXCEPT !.noDetonate = TRUE]

Incomplete(verification) ==
  [With({"ssh"}, verification, FALSE) EXCEPT !.allowIncomplete = TRUE]

(* A launch that goes well up to its faults, at the provider, at the       *)
(* worker, on the disk; one whose workspace is kept; ones that fail.       *)
MCSettings ==
  { With({"refused", "remote"}, "safe", TRUE),
    With({"lost", "refused"}, "safe", TRUE),
    With({"delete", "slow"}, "safe", TRUE),
    With({"ssh", "slow"}, "safe", TRUE),
    With({"timeout"}, "safe", TRUE),
    With({"crash", "rename_new"}, "safe", TRUE),
    With({"rename_old", "vault"}, "waiting", TRUE),
    With({"crash", "remote"}, "waiting", TRUE),
    With({"slow"}, "waiting", TRUE),
    With({"slow"}, "failed", FALSE),
    With({"slow"}, "safe", FALSE),
    Retained("safe"), Retained("failed"),
    Incomplete("safe"), Incomplete("failed") }

Ordinary == {With({}, "safe", FALSE)}

=============================================================================
