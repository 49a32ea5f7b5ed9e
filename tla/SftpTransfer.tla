---------------------------- MODULE SftpTransfer ----------------------------
(***************************************************************************)
(* How an SFTP transfer replaces its target (sftp.rs), file-system call by *)
(* file-system call: the bytes go to a `.part` file next to the target; an *)
(* existing target is first renamed to a backup, then the `.part` takes    *)
(* its place. Any call may fail, the operator may cancel, transfers of     *)
(* other sessions and other programs use the same directory, and the       *)
(* program may be killed between any two calls. A call to the server may   *)
(* fail although it took effect, when its answer is lost.                  *)
(*                                                                         *)
(* An upload works on the remote file system through the SFTP server,      *)
(* whose rename refuses an existing name (OpenSSH); a download works on    *)
(* the local one, whose rename replaces it and whose hard link does not.   *)
(* The names of `.part` and backup carry the fresh id of their transfer,   *)
(* so the code's checks that they are free succeed.                        *)
(***************************************************************************)
EXTENDS Naturals, FiniteSets

CONSTANTS
  Transfers,   \* transfers with one and the same target file
  Sessions,    \* SSH sessions that may run them
  Absent,      \* no file of that name
  Old,         \* the content of the target before the first transfer
  Other,       \* the content another program writes under that name
  MaxFaults    \* calls that may fail in all

Partial == "partial"   \* the content of a file whose copy is under way

ASSUME TransferAssumption ==
  /\ Absent # Old /\ Absent # Other /\ Old # Other
  /\ Partial \notin {Absent, Old, Other}
  /\ Transfers \cap {Absent, Old, Other, Partial} = {}
  /\ MaxFaults \in Nat

VARIABLES
  upload,     \* the target is remote, the transfers are uploads
  session,    \* transfer -> the session that runs it
  overwrite,  \* transfers whose operator agreed to overwrite the target
  target,     \* what is under the target's name
  part,       \* transfer -> its .part file
  backup,     \* transfer -> its backup file
  pc,         \* transfer -> the call it makes next
  existing,   \* transfer -> it saw a target
  cancelled,  \* transfers whose cancel flag is set
  installed,  \* transfers whose content was put under the target's name
  faults      \* calls that failed

request == <<upload, session, overwrite>>
files   == <<target, part, backup>>
local   == <<pc, existing>>
vars == <<request, files, local, cancelled, installed, faults>>
----
Whole    == {Old, Other} \cup Transfers  \* transfer t stands for all its bytes
Contents == Whole \cup {Absent, Partial}
Steps    == {"idle", "lstat", "create", "open", "copy", "drop", "link", "unlink",
             "checkBackup", "retire", "install", "dropThenRestore", "restore",
             "dropBackup"}
Ends     == {"ok", "failed"}

Active(t)   == pc[t] \notin {"idle"} \cup Ends
Goto(t, p)  == pc' = [pc EXCEPT ![t] = p]
Finished(t) == pc[t] \in Ends

Works == UNCHANGED faults
Fails == faults < MaxFaults /\ faults' = faults + 1

\* The call has taken effect: it returns ok, or the answer of the server is lost
\* with the connection and the call returns an error all the same.
Effect(t, ok, error) ==
  \/ Works /\ Goto(t, ok)
  \/ upload /\ Fails /\ Goto(t, error)
----
(* session_loop *)

\* Mutant: the registry compares ids only.
RegisterAny(t) ==
  /\ pc[t] = "idle"
  /\ Goto(t, "lstat")
  /\ UNCHANGED <<request, files, existing, cancelled, installed, faults>>

\* register_transfer: a session runs no two transfers with the same target.
Register(t) ==
  /\ pc[t] = "idle"
  /\ IF \E u \in Transfers : Active(u) /\ session[u] = session[t]
     THEN Goto(t, "failed") ELSE Goto(t, "lstat")
  /\ UNCHANGED <<request, files, existing, cancelled, installed, faults>>

\* SftpCancel, or the close of the session.
Cancel(t) ==
  /\ Active(t)
  /\ t \notin cancelled
  /\ cancelled' = cancelled \cup {t}
  /\ UNCHANGED <<request, files, local, installed, faults>>
----
(* upload and download, up to the complete `.part` file. *)

\* An existing target is a conflict unless the operator agreed to overwrite it.
Lstat(t) ==
  /\ pc[t] = "lstat"
  /\ \/ /\ Works
        /\ existing' = [existing EXCEPT ![t] = target # Absent]
        /\ Goto(t, IF existing'[t] /\ t \notin overwrite THEN "failed" ELSE "create")
     \/ /\ Fails
        /\ Goto(t, "failed")
        /\ UNCHANGED existing
  /\ UNCHANGED <<request, files, cancelled, installed>>

\* An upload has opened its source before, a download opens it after.
Create(t) ==
  /\ pc[t] = "create"
  /\ \/ /\ Effect(t, IF upload THEN "copy" ELSE "open", "failed")
        /\ part' = [part EXCEPT ![t] = Partial]
     \/ /\ Fails
        /\ Goto(t, "failed")
        /\ UNCHANGED part
  /\ UNCHANGED <<request, target, backup, existing, cancelled, installed>>

OpenRemote(t) ==
  /\ pc[t] = "open"
  /\ \/ Works /\ Goto(t, "copy")
     \/ Fails /\ Goto(t, "failed")
  /\ UNCHANGED <<request, files, existing, cancelled, installed>>

\* Mutant: a cancelled copy is taken for a complete one.
CopyWhatThereIs(t) ==
  /\ pc[t] = "copy"
  /\ Works
  /\ part' = IF t \in cancelled THEN part ELSE [part EXCEPT ![t] = t]
  /\ Goto(t, IF existing[t] THEN "checkBackup" ELSE "link")
  /\ UNCHANGED <<request, target, backup, existing, cancelled, installed>>

\* The copy loop, which looks at the cancel flag before each chunk.
Copy(t) ==
  /\ pc[t] = "copy"
  /\ \/ /\ Works
        /\ part' = [part EXCEPT ![t] = t]
        /\ Goto(t, IF existing[t] THEN "checkBackup" ELSE "link")
     \/ /\ (t \in cancelled /\ Works) \/ Fails
        /\ Goto(t, "drop")
        /\ UNCHANGED part
  /\ UNCHANGED <<request, target, backup, existing, cancelled, installed>>

\* `let _ = remove_file(temporary)`
RemovePart(t, next) ==
  /\ \/ Effect(t, next, next) /\ part' = [part EXCEPT ![t] = Absent]
     \/ Fails /\ Goto(t, next) /\ UNCHANGED part
  /\ UNCHANGED <<request, target, backup, existing, cancelled, installed>>

DropPart(t) == pc[t] = "drop" /\ RemovePart(t, "failed")
----
(* replace_remote_file and replace_local_file. *)

\* A rename may not replace a file on the server.
CanRename == upload => target = Absent

Install(t) ==
  /\ target' = part[t]
  /\ installed' = installed \cup {t}

\* Mutant: a download is put in place by a rename.
RenameIntoPlace(t) ==
  /\ pc[t] = "link"
  /\ \/ /\ CanRename
        /\ Effect(t, "ok", "drop")
        /\ Install(t)
        /\ part' = [part EXCEPT ![t] = Absent]
     \/ /\ (~CanRename /\ Works) \/ Fails
        /\ Goto(t, "drop")
        /\ UNCHANGED <<target, part, installed>>
  /\ UNCHANGED <<request, backup, existing, cancelled>>

\* No target was seen: a rename that refuses, or a hard link, which refuses too.
PlaceNew(t) ==
  /\ pc[t] = "link"
  /\ \/ /\ target = Absent
        /\ Effect(t, IF upload THEN "ok" ELSE "unlink", "drop")
        /\ Install(t)
        /\ part' = IF upload THEN [part EXCEPT ![t] = Absent] ELSE part
     \/ /\ (target # Absent /\ Works) \/ Fails
        /\ Goto(t, "drop")
        /\ UNCHANGED <<target, part, installed>>
  /\ UNCHANGED <<request, backup, existing, cancelled>>

\* The second name of the linked file.
Unlink(t) ==
  /\ pc[t] = "unlink"
  /\ \/ /\ Works
        /\ part' = [part EXCEPT ![t] = Absent]
        /\ Goto(t, "ok")
     \/ /\ Fails
        /\ Goto(t, "failed")
        /\ UNCHANGED part
  /\ UNCHANGED <<request, target, backup, existing, cancelled, installed>>

\* The name of the backup is looked up; `?` leaves at once when that fails.
CheckBackup(t) ==
  /\ pc[t] = "checkBackup"
  /\ \/ Works /\ Goto(t, "retire")
     \/ Fails /\ Goto(t, "failed")
  /\ UNCHANGED <<request, files, existing, cancelled, installed>>

\* Mutant: the target is removed to make room for the new file.
RemoveTarget(t) ==
  /\ pc[t] = "retire"
  /\ \/ /\ target # Absent
        /\ Effect(t, "install", "drop")
        /\ target' = Absent
     \/ /\ (target = Absent /\ Works) \/ Fails
        /\ Goto(t, "drop")
        /\ UNCHANGED target
  /\ UNCHANGED <<request, part, backup, existing, cancelled, installed>>

Retire(t) ==
  /\ pc[t] = "retire"
  /\ \/ /\ target # Absent
        /\ Effect(t, "install", "drop")
        /\ backup' = [backup EXCEPT ![t] = target]
        /\ target' = Absent
     \/ /\ (target = Absent /\ Works) \/ Fails
        /\ Goto(t, "drop")
        /\ UNCHANGED <<target, backup>>
  /\ UNCHANGED <<request, part, existing, cancelled, installed>>

Replace(t) ==
  /\ pc[t] = "install"
  /\ \/ /\ CanRename
        /\ Effect(t, "dropBackup", "dropThenRestore")
        /\ Install(t)
        /\ part' = [part EXCEPT ![t] = Absent]
     \/ /\ (~CanRename /\ Works) \/ Fails
        /\ Goto(t, "dropThenRestore")
        /\ UNCHANGED <<target, part, installed>>
  /\ UNCHANGED <<request, backup, existing, cancelled>>

DropThenRestore(t) == pc[t] = "dropThenRestore" /\ RemovePart(t, "restore")

\* Mutant: the backup is left where it is.
LeaveBackup(t) ==
  /\ pc[t] = "restore"
  /\ Works
  /\ Goto(t, "failed")
  /\ UNCHANGED <<request, files, existing, cancelled, installed>>

\* Whether or not the restore works, the transfer has failed; when it does not,
\* the error names the backup.
Restore(t) ==
  /\ pc[t] = "restore"
  /\ \/ /\ CanRename
        /\ Effect(t, "failed", "failed")
        /\ target' = backup[t]
        /\ backup' = [backup EXCEPT ![t] = Absent]
     \/ /\ (~CanRename /\ Works) \/ Fails
        /\ Goto(t, "failed")
        /\ UNCHANGED <<target, backup>>
  /\ UNCHANGED <<request, part, existing, cancelled, installed>>

DropBackup(t) ==
  /\ pc[t] = "dropBackup"
  /\ \/ /\ Effect(t, "ok", "failed")
        /\ backup' = [backup EXCEPT ![t] = Absent]
     \/ /\ Fails
        /\ Goto(t, "failed")
        /\ UNCHANGED backup
  /\ UNCHANGED <<request, target, part, existing, cancelled, installed>>

\* Another program creates a file under the free name.
OtherProgram ==
  /\ target = Absent
  /\ target' = Other
  /\ UNCHANGED <<request, part, backup, local, cancelled, installed, faults>>
----
Init ==
  /\ upload \in BOOLEAN
  /\ session \in [Transfers -> Sessions]
  /\ overwrite \in SUBSET Transfers
  /\ target \in {Absent, Old}
  /\ part = [t \in Transfers |-> Absent]
  /\ backup = [t \in Transfers |-> Absent]
  /\ pc = [t \in Transfers |-> "idle"]
  /\ existing = [t \in Transfers |-> FALSE]
  /\ cancelled = {}
  /\ installed = {}
  /\ faults = 0

Step(t) ==
  \/ Register(t)
  \/ Lstat(t)
  \/ Create(t)
  \/ OpenRemote(t)
  \/ Copy(t)
  \/ DropPart(t)
  \/ PlaceNew(t)
  \/ Unlink(t)
  \/ CheckBackup(t)
  \/ Retire(t)
  \/ Replace(t)
  \/ DropThenRestore(t)
  \/ Restore(t)
  \/ DropBackup(t)

Next ==
  \/ \E t \in Transfers : Step(t) \/ Cancel(t)
  \/ OtherProgram

Spec == Init /\ [][Next]_vars
----
TypeOK ==
  /\ upload \in BOOLEAN
  /\ session \in [Transfers -> Sessions]
  /\ overwrite \subseteq Transfers
  /\ target \in Contents
  /\ part \in [Transfers -> Contents]
  /\ backup \in [Transfers -> Contents]
  /\ pc \in [Transfers -> Steps \cup Ends]
  /\ existing \in [Transfers -> BOOLEAN]
  /\ cancelled \subseteq Transfers
  /\ installed \subseteq Transfers
  /\ faults \in 0 .. MaxFaults
  /\ \A t \in Transfers :
       pc[t] \in {"link", "checkBackup", "retire", "install"} => part[t] = t

\* Nobody who opens the target finds a part of a file, whenever the transfer is
\* cut off: "we never write to the target directly" (docs/SFTP.md).
TargetIsWhole == target \in Whole \cup {Absent}

OldIsThere == target = Old \/ \E t \in Transfers : backup[t] = Old

\* The transfers do not race for the target: one session runs them ("so that
\* backups do not compete", docs/SFTP.md), or the server refuses to replace.
NoRace == upload \/ \A t, u \in Transfers : session[t] = session[u]

\* The file that was there before stays on disk, as target or as a backup, until
\* a transfer whose operator agreed to overwrite it has put its own file in
\* place: in every state, so also when the program dies there. (Downloads of
\* two sessions to one local file may lose it: each restores its own backup over
\* what the other restored.)
OldFileIsKept ==
  [][NoRace /\ OldIsThere /\ ~OldIsThere' => installed' \cap overwrite # {}]_vars

\* A transfer that was not allowed to overwrite replaces no file, not even one
\* that appeared after it had looked.
UnconfirmedReplacesNothing ==
  [][\A t \in installed' \ installed : t \notin overwrite => target = Absent]_vars

\* A transfer that ends without a failing call leaves no `.part` file, and a
\* replacement that failed puts the file it had set aside back: a backup is left
\* only when the way back is blocked as well, by a second failing call or by a
\* file that the server will not replace.
LeavesNothingBehind ==
  \A t \in Transfers :
    Finished(t) =>
      /\ faults = 0 => part[t] = Absent
      /\ backup[t] # Absent => t \in installed \/ faults >= 2 \/ upload

\* "A failure before the file is put in place removes the `.part`"
\* (docs/SFTP.md), here of a download, whenever removing it does not itself fail.
FailureRemovesPart ==
  \A t \in Transfers :
    ~upload /\ pc[t] = "failed" /\ t \notin installed /\ faults <= 1
      => part[t] = Absent
=============================================================================
