---------------------------- MODULE ServerFiles ----------------------------
(***************************************************************************)
(* server/files.py: write_file, delete_file and create_directory, with the *)
(* backup the first two take.  None of them awaits anything, so each is a  *)
(* step; a full disk may stop it anywhere.  A backup is named by the name  *)
(* of the file, without its directory, and by the second.                  *)
(*                                                                         *)
(* Of a content only its version is kept: every write is a new one.        *)
(***************************************************************************)
EXTENDS Integers

CONSTANTS
  Paths,        \* files inside ALLOWED_PATHS
  FileName,     \* the last component of a path
  Existing,     \* the paths that are a file at first
  MaxVersions,  \* bound on the contents that are ever written
  MaxSecond     \* bound on the clock

ASSUME FilesAssumption ==
  /\ FileName \in [Paths -> STRING] /\ Existing \subseteq Paths
  /\ MaxVersions \in Nat \ {0} /\ MaxSecond \in Nat

VARIABLES
  disk,     \* what is at a path: a version, or one of the three below
  backups,  \* BACKUP_DIR
  second,   \* the clock
  version,  \* the versions written so far
  taken,    \* history: how often a backup of a name was begun
  gone,     \* history: the contents a tool has replaced, cut or removed, and
            \* the name its backup was given
  deleted   \* history: how many files a tool has removed

storage == <<disk, backups, second, version, taken, gone, deleted>>

Absent == 0
Cut    == -1  \* what a write that failed leaves
Folder == -2

Whole(content) == content > 0

BackupNames == {FileName[p] : p \in Paths} \X (0..MaxSecond)

FilesTypeOK ==
  /\ disk \in [Paths -> -2..MaxVersions]
  /\ backups \in [BackupNames -> -2..MaxVersions]
  /\ second \in 0..MaxSecond /\ version \in 0..MaxVersions
  /\ taken \in [BackupNames -> Nat] /\ deleted \in Nat
  /\ gone \subseteq [content : 1..MaxVersions, backup : BackupNames]

FilesInit ==
  /\ disk = [p \in Paths |-> IF p \in Existing THEN 1 ELSE Absent]
  /\ version = 1 /\ second = 0
  /\ backups = [n \in BackupNames |-> Absent]
  /\ taken = [n \in BackupNames |-> 0]
  /\ gone = {} /\ deleted = 0

-----------------------------------------------------------------------------

BackupName(p) == <<FileName[p], second>>

(* backup_file: nothing is copied of a file that is new.  A backup of the  *)
(* same name is overwritten. *)
Save(p, copy) ==
  IF disk[p] = Absent THEN UNCHANGED <<backups, taken>>
  ELSE /\ backups' = [backups EXCEPT ![BackupName(p)] = copy]
       /\ taken' = [taken EXCEPT ![BackupName(p)] = @ + 1]

Put(p, content) ==
  /\ disk' = [disk EXCEPT ![p] = content]
  /\ gone' = IF Whole(disk[p]) /\ content # disk[p]
             THEN gone \union {[content |-> disk[p], backup |-> BackupName(p)]}
             ELSE gone

(* The copy stops half way, and the tool with it. *)
BackupFails(p) ==
  /\ disk[p] # Absent
  /\ Save(p, Cut)
  /\ UNCHANGED <<disk, gone>>

(* Bug: the backup is taken of what was written. *)
WriteThenSave(p) ==
  /\ disk[p] # Folder /\ version < MaxVersions
  /\ version' = version + 1
  /\ Save(p, version + 1) /\ Put(p, version + 1)
  /\ UNCHANGED <<second, deleted>>

(* Once the backup is taken the write may fail before the file is opened,  *)
(* and after it. *)
WriteFile(p) ==
  /\ disk[p] # Folder /\ version < MaxVersions
  /\ version' = version + 1
  /\ \/ BackupFails(p)
     \/ /\ Save(p, disk[p])
        /\ \E content \in {disk[p], Cut, version + 1} : Put(p, content)
  /\ UNCHANGED <<second, deleted>>

DeleteFile(p) ==
  /\ disk[p] \notin {Absent, Folder}
  /\ \/ BackupFails(p) /\ UNCHANGED deleted
     \/ Save(p, disk[p]) /\ Put(p, disk[p]) /\ UNCHANGED deleted
     \/ Save(p, disk[p]) /\ Put(p, Absent) /\ deleted' = deleted + 1
  /\ UNCHANGED <<second, version>>

(* A directory that exists is left alone, a file is an error. *)
CreateDirectory(p) ==
  /\ disk[p] = Absent
  /\ disk' = [disk EXCEPT ![p] = Folder]
  /\ UNCHANGED <<backups, second, version, taken, gone, deleted>>

(* Anybody else who writes files on the server. *)
EditOutside(p) ==
  /\ disk[p] # Folder /\ version < MaxVersions
  /\ version' = version + 1
  /\ disk' = [disk EXCEPT ![p] = version + 1]
  /\ UNCHANGED <<backups, second, taken, gone, deleted>>

NextSecond ==
  /\ second < MaxSecond
  /\ second' = second + 1
  /\ UNCHANGED <<disk, backups, version, taken, gone, deleted>>

-----------------------------------------------------------------------------
(* Properties                                                              *)

(* Whatever a tool has replaced, cut short or removed can be found in its  *)
(* backup, however the tool failed; unless a file of the same name was     *)
(* backed up twice in the same second (files.py:60-62). *)
LossNeedsCollision ==
  \A g \in gone : backups[g.backup] = g.content \/ taken[g.backup] > 1

(* README.md:188: a backup is taken before the change.  Once taken it is   *)
(* there. *)
BackupsStay ==
  [][\A n \in BackupNames : Whole(backups[n]) => backups'[n] = backups[n]]_backups
=============================================================================
