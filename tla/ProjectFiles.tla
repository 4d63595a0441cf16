---------------------------- MODULE ProjectFiles ----------------------------
(***************************************************************************)
(* The files of one project of the code workspace, as far as the tools     *)
(* that share them can tell them apart: the edits its working tree holds   *)
(* and the user its files belong to.  An edit is what one call of a tool   *)
(* made of a file, its deletion included; a later one may leave nothing of *)
(* it.  Projects share no files, so one is enough.                         *)
(***************************************************************************)
EXTENDS Integers

CONSTANTS
  Turns,    \* the turns of the agent that are under way, one tool each
  MaxEdits  \* bound on the changes of the working tree

ASSUME FilesAssumption == MaxEdits \in Nat \ {0}

VARIABLES
  present,  \* the directory of the project exists
  work,     \* the edits the working tree holds
  made,     \* how many there ever were
  undone,   \* history: those it was made to lose: overwritten, deleted, discarded
  owner     \* "bot", or "sandbox" after the chown

files == <<present, work, made, undone, owner>>

Edits == 1..MaxEdits
Made  == 1..made

FilesTypeOK ==
  /\ present \in BOOLEAN
  /\ made \in 0..MaxEdits
  /\ work \subseteq Made /\ undone \subseteq Made \ work
  /\ owner \in {"bot", "sandbox"}

(* Nothing yet, or a project that was worked on before. *)
FilesInit ==
  /\ \/ present = FALSE /\ made = 0 /\ work = {}
     \/ present = TRUE /\ made = 1 /\ work \in {{}, {1}}
  /\ undone = {} /\ owner = "bot"

(* write_code replaces a whole file, edit_code a part of one, delete_code  *)
(* takes it away; the formatter and a generated file do the same: one more *)
(* edit, and any of those before it may be gone. *)
Change ==
  /\ present /\ made < MaxEdits
  /\ made' = made + 1
  /\ \E over \in SUBSET work :
       work' = (work \ over) \union {made'} /\ undone' = undone \union over
  /\ UNCHANGED <<present, owner>>
=============================================================================
