---------------------------- MODULE DurableFile ----------------------------
(***************************************************************************)
(* What the private files of a run (gates.json, the vault, sessions, run   *)
(* state) promise their readers: the file holds, whole, the content of one *)
(* of the saves made so far, and a save that fails leaves it as it was.    *)
(***************************************************************************)
CONSTANTS Writers, Contents, NoFile

VARIABLES
  content,  \* what a reader finds
  pending   \* the content each writer is saving, NoFile when it saves none

fileVars == <<content, pending>>

Init ==
  /\ content = NoFile
  /\ pending = [w \in Writers |-> NoFile]

Begin(w, c) ==
  /\ pending[w] = NoFile
  /\ pending' = [pending EXCEPT ![w] = c]
  /\ UNCHANGED content

Commit(w) ==
  /\ pending[w] # NoFile
  /\ content' = pending[w]
  /\ pending' = [pending EXCEPT ![w] = NoFile]

Abort(w) ==
  /\ pending[w] # NoFile
  /\ pending' = [pending EXCEPT ![w] = NoFile]
  /\ UNCHANGED content

Next == \E w \in Writers : (\E c \in Contents : Begin(w, c)) \/ Commit(w) \/ Abort(w)

Spec == Init /\ [][Next]_fileVars

=============================================================================
