---------------------------- MODULE AtomicWrite ----------------------------
(***************************************************************************)
(* _atomic_write_private: a file is saved by writing a temporary file      *)
(* beside it and renaming that over it.  The helper exists in two forms.   *)
(* vault/bundle.py and vault/session.py put the process id in the name of  *)
(* the temporary file, so that the threads of one process share it, as the *)
(* handlers of the control room do; runner/gates.py uses one fixed name,   *)
(* so that all processes and threads that save gates share it.  TempOf is  *)
(* the name each writer uses, and writers may share it.                    *)
(*                                                                         *)
(* Names and inodes are kept apart: a writer goes on writing through its   *)
(* descriptor whatever happens to the name it opened.                      *)
(***************************************************************************)
EXTENDS FiniteSets

CONSTANTS
  Writers,   \* processes or threads that save the file
  Contents,  \* contents a save may have
  Temps,     \* names of temporary files
  TempOf,    \* the name each writer uses
  Inodes,    \* files on the disk
  WriteFaults,    \* which of "disk" (a write fails) and "crash" may happen
  NoFile, Empty, Torn

ASSUME TempOfAssumption == TempOf \in [Writers -> Temps]
ASSUME ContentAssumption == NoFile \notin Contents /\ Empty \notin Contents
                            /\ Torn \notin Contents
ASSUME InodeAssumption  == NoFile \notin Inodes
ASSUME WriteFaultsAssumption == WriteFaults \subseteq {"disk", "crash"}

VARIABLES
  target,  \* the inode the saved file's name points to
  temp,    \* the inode each temporary name points to
  data,    \* what is in each inode
  saves,   \* the save each writer is doing
  clashed  \* two saves through one temporary name have overlapped

writeVars == <<target, temp, data, saves, clashed>>

NotSaving == [phase |-> "idle"]

Save == [phase: {"opened", "written"}, content: Contents, fd: Inodes]

TypeOKWrite ==
  /\ target \in Inodes \cup {NoFile}
  /\ temp \in [Temps -> Inodes \cup {NoFile}]
  /\ data \in [Inodes -> Contents \cup {Empty, Torn}]
  /\ saves \in [Writers -> Save \cup {NotSaving}]
  /\ clashed \in BOOLEAN

InitWrite ==
  /\ target = NoFile
  /\ temp = [n \in Temps |-> NoFile]
  /\ data = [i \in Inodes |-> Empty]
  /\ saves = [w \in Writers |-> NotSaving]
  /\ clashed = FALSE

Unused(i) ==
  /\ i # target
  /\ \A n \in Temps : temp[n] # i
  /\ \A w \in Writers : saves[w] # NotSaving => saves[w].fd # i

(* Which of the unused inodes a new file gets makes no difference.         *)
NewInode == CHOOSE i \in Inodes : Unused(i)

(* Somebody else is between opening the name of w and renaming it.         *)
InUse(w) == \E v \in Writers : v # w /\ TempOf[v] = TempOf[w] /\ saves[v] # NotSaving

(* open(O_CREAT | O_TRUNC): the inode the name points to, or a new one.    *)
OpenTemp(w, c) ==
  /\ saves[w] = NotSaving
  /\ \E i \in Inodes :
       /\ IF temp[TempOf[w]] = NoFile THEN Unused(i) /\ i = NewInode ELSE i = temp[TempOf[w]]
       /\ temp' = [temp EXCEPT ![TempOf[w]] = i]
       /\ data' = [data EXCEPT ![i] = Empty]
       /\ saves' = [saves EXCEPT ![w] = [phase |-> "opened", content |-> c, fd |-> i]]
  /\ clashed' = (clashed \/ InUse(w))
  /\ UNCHANGED target

(* The content goes in from the start of the file; over something longer   *)
(* it leaves a tail behind.                                                *)
WriteContent(w) ==
  /\ saves[w].phase = "opened"
  /\ \E d \in {saves[w].content} \cup (IF data[saves[w].fd] = Empty THEN {} ELSE {Torn}) :
       data' = [data EXCEPT ![saves[w].fd] = d]
  /\ saves' = [saves EXCEPT ![w].phase = "written"]
  /\ UNCHANGED <<target, temp, clashed>>

(* Mutants: the rename comes before the content is flushed; a failed       *)
(* write is renamed all the same.                                          *)
rename_before_flush(w) ==
  /\ saves[w].phase = "opened"
  /\ target' = temp[TempOf[w]]
  /\ temp' = [temp EXCEPT ![TempOf[w]] = NoFile]
  /\ saves' = [saves EXCEPT ![w] = NotSaving]
  /\ UNCHANGED <<data, clashed>>
finally_rename(w) ==
  /\ "disk" \in WriteFaults
  /\ saves[w].phase = "opened"
  /\ data' = [data EXCEPT ![saves[w].fd] = Torn]
  /\ target' = temp[TempOf[w]]
  /\ temp' = [temp EXCEPT ![TempOf[w]] = NoFile]
  /\ saves' = [saves EXCEPT ![w] = NotSaving]
  /\ UNCHANGED clashed

(* The write fails part way: the handler unlinks the name and raises.      *)
WriteFails(w) ==
  /\ "disk" \in WriteFaults
  /\ saves[w].phase = "opened"
  /\ \E d \in {data[saves[w].fd], Torn} : data' = [data EXCEPT ![saves[w].fd] = d]
  /\ temp' = [temp EXCEPT ![TempOf[w]] = NoFile]
  /\ saves' = [saves EXCEPT ![w] = NotSaving]
  /\ UNCHANGED <<target, clashed>>

(* os.replace; the name may be gone when another writer renamed it.        *)
Replace(w) ==
  /\ saves[w].phase = "written"
  /\ target' = IF temp[TempOf[w]] = NoFile THEN target ELSE temp[TempOf[w]]
  /\ temp' = [temp EXCEPT ![TempOf[w]] = NoFile]
  /\ saves' = [saves EXCEPT ![w] = NotSaving]
  /\ UNCHANGED <<data, clashed>>

WriterDies(w) ==
  /\ "crash" \in WriteFaults
  /\ saves[w] # NotSaving
  /\ saves' = [saves EXCEPT ![w] = NotSaving]
  /\ UNCHANGED <<target, temp, data, clashed>>

NextWrite ==
  \E w \in Writers :
    \/ \E c \in Contents : OpenTemp(w, c)
    \/ WriteContent(w) \/ WriteFails(w) \/ Replace(w) \/ WriterDies(w)

SpecWrite == InitWrite /\ [][NextWrite]_writeVars

-----------------------------------------------------------------------------

Found == IF target = NoFile THEN NoFile ELSE data[target]

Saving == [w \in Writers |-> IF saves[w] = NotSaving THEN NoFile ELSE saves[w].content]

Durable == INSTANCE DurableFile WITH content <- Found, pending <- Saving

(* A save is one atomic step of DurableFile, whatever fails, up to the     *)
(* step in which two saves through one temporary name overlap.             *)
ImplementsDurableFile ==
  Durable!Init /\ [][clashed' \/ Durable!Next]_<<Found, Saving>>

(* Up to there a reader of the file finds a whole content ("atomic         *)
(* write"), or no file.                                                    *)
Readable == ~clashed => Found \in Contents \cup {NoFile}

=============================================================================
