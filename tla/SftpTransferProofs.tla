------------------------- MODULE SftpTransferProofs -------------------------
(***************************************************************************)
(* Proofs about SftpTransfer, for any number of transfers, sessions and    *)
(* failing calls: the target is never a part of a file, nothing is         *)
(* replaced without the operator's word, and the old file is kept.         *)
(***************************************************************************)
EXTENDS SftpTransfer, TLAPS

Replacing == {"checkBackup", "retire", "install", "dropThenRestore", "restore",
              "dropBackup"}
LookedUp  == Steps \ {"idle", "lstat"}

\* A backup was a target once, and a transfer makes its own just before it puts
\* its file in place.
BackupsAreWhole ==
  \A t \in Transfers :
    /\ backup[t] # Partial
    /\ pc[t] \in {"idle", "lstat", "create", "open", "copy", "link", "checkBackup",
                 "retire"}
         => backup[t] = Absent

\* Who goes on although it saw a target was allowed to overwrite it.
Confirmed ==
  \A t \in Transfers :
    /\ pc[t] \in LookedUp /\ existing[t] => t \in overwrite
    /\ pc[t] \in Replacing => existing[t]
    /\ pc[t] = "dropBackup" => t \in installed

\* A session runs one transfer to the target at a time, so a download that has
\* set the old file aside does not find it back under its name.
Alone ==
  ~upload /\ NoRace =>
    /\ \A t, u \in Transfers : Active(t) /\ Active(u) => t = u
    /\ \A t \in Transfers :
         pc[t] \in {"install", "dropThenRestore", "restore"} => target # Old

\* The first part of IInv; Alone rests on it.
Sound == TypeOK /\ TargetIsWhole /\ BackupsAreWhole /\ Confirmed

IInv == Sound /\ Alone

USE TransferAssumption

----
(* The initial states and the steps of one transfer, one by one. *)

LEMMA InitSound == Init => Sound
  BY DEF Init, Sound, TypeOK, TargetIsWhole, BackupsAreWhole, Confirmed,
     Whole, Contents, Partial, Steps, Ends, LookedUp, Replacing

\* Cancels, other programs and stutters disturb nothing that Sound speaks of.
LEMMA OthersKeepSound ==
  ASSUME Sound,
         \/ UNCHANGED vars
         \/ OtherProgram
         \/ \E t \in Transfers : Cancel(t)
  PROVE  Sound'
  BY DEF Sound, TypeOK, TargetIsWhole, BackupsAreWhole, Confirmed, Active, Whole,
     Contents, Partial, Steps, Ends, LookedUp, Replacing, OtherProgram, Cancel,
     vars, request, files, local

\* The calls up to the complete `.part` file.
LEMMA CopyKeepsSound ==
  ASSUME Sound, NEW t \in Transfers,
         \/ Register(t)
         \/ Lstat(t)
         \/ Create(t)
         \/ OpenRemote(t)
         \/ Copy(t)
         \/ DropPart(t)
  PROVE  Sound'
<1>. USE DEF Sound, TypeOK, TargetIsWhole, BackupsAreWhole, Confirmed,
       Whole, Contents, Partial, Steps, Ends, LookedUp, Replacing, Goto, Works,
       Fails, Effect, request, files, local
<1>1. CASE Register(t) BY <1>1 DEF Register
<1>2. CASE Lstat(t)
  <2>1. CASE Fails BY <2>1, <1>2 DEF Lstat
  <2>2. CASE Works
    <3>1. existing' = [existing EXCEPT ![t] = target # Absent] BY <1>2, <2>2 DEF Lstat
    <3>2. existing'[t] /\ t \notin overwrite => pc' = [pc EXCEPT ![t] = "failed"]
      BY <1>2, <2>2 DEF Lstat
    <3>. QED BY <1>2, <2>2, <3>1, <3>2 DEF Lstat
  <2>. QED BY <2>1, <2>2, <1>2 DEF Lstat
<1>3. CASE Create(t)
  <2>1. TypeOK' BY <1>3 DEF Create
  <2>2. TargetIsWhole' BY <1>3 DEF Create
  <2>3. BackupsAreWhole' BY <1>3 DEF Create
  <2>4. Confirmed' BY <1>3 DEF Create
  <2>. QED BY <2>1, <2>2, <2>3, <2>4
<1>4. CASE OpenRemote(t) BY <1>4 DEF OpenRemote
<1>5. CASE Copy(t)
  <2>1. TypeOK' BY <1>5 DEF Copy
  <2>2. TargetIsWhole' BY <1>5 DEF Copy
  <2>3. BackupsAreWhole' BY <1>5 DEF Copy
  <2>4. Confirmed' BY <1>5 DEF Copy
  <2>. QED BY <2>1, <2>2, <2>3, <2>4
<1>6. CASE DropPart(t) BY <1>6 DEF DropPart, RemovePart
<1>. QED BY <1>1, <1>2, <1>3, <1>4, <1>5, <1>6

\* The calls that put the file in place.
LEMMA ReplacementKeepsSound ==
  ASSUME Sound, NEW t \in Transfers,
         \/ PlaceNew(t)
         \/ Unlink(t)
         \/ CheckBackup(t)
         \/ Retire(t)
         \/ Replace(t)
         \/ DropThenRestore(t)
         \/ Restore(t)
         \/ DropBackup(t)
  PROVE  Sound'
<1>. USE DEF Sound, TypeOK, TargetIsWhole, BackupsAreWhole, Confirmed,
       Whole, Contents, Partial, Steps, Ends, LookedUp, Replacing, Goto, Works,
       Fails, Effect, Install, CanRename, request, files, local
<1>1. CASE PlaceNew(t) BY <1>1 DEF PlaceNew
<1>2. CASE Unlink(t) BY <1>2 DEF Unlink
<1>3. CASE CheckBackup(t) BY <1>3 DEF CheckBackup
<1>4. CASE Retire(t)
  <2>1. TypeOK' BY <1>4 DEF Retire
  <2>2. TargetIsWhole' BY <1>4 DEF Retire
  <2>3. BackupsAreWhole' BY <1>4 DEF Retire
  <2>4. Confirmed' BY <1>4 DEF Retire
  <2>. QED BY <2>1, <2>2, <2>3, <2>4
<1>5. CASE Replace(t) BY <1>5 DEF Replace
<1>6. CASE DropThenRestore(t) BY <1>6 DEF DropThenRestore, RemovePart
<1>7. CASE Restore(t) BY <1>7 DEF Restore
<1>8. CASE DropBackup(t) BY <1>8 DEF DropBackup
<1>. QED BY <1>1, <1>2, <1>3, <1>4, <1>5, <1>6, <1>7, <1>8

\* Only Register makes a transfer active, and only when its session runs none;
\* only Restore brings the old file back, and then it is over.
LEMMA StepKeepsAlone ==
  ASSUME Sound, Alone, ~upload, NoRace, NEW t \in Transfers, Step(t)
  PROVE  Alone'
<1>. USE DEF Active, Goto, Works, Fails, Effect, Install, CanRename, request, files,
       Steps, Ends
<1>. DEFINE AfterRetire == {"install", "dropThenRestore", "restore"}
<1>1. upload' = upload /\ session' = session /\ pc \in [Transfers -> Steps \cup Ends]
  BY DEF Step, Register, Lstat, Create, OpenRemote, Copy, DropPart, RemovePart,
     PlaceNew, Unlink, CheckBackup, Retire, Replace, DropThenRestore, Restore,
     DropBackup, Sound, TypeOK
<1>2. \A u, v \in Transfers : Active(u) /\ Active(v) => u = v
  BY DEF Alone
<1>3. \A u \in Transfers : pc[u] \in AfterRetire => target # Old
  BY DEF Alone
<1>4. SUFFICES /\ \A u, v \in Transfers : Active(u)' /\ Active(v)' => u = v
               /\ \A u \in Transfers : pc'[u] \in AfterRetire => target' # Old
  BY <1>1 DEF Alone, NoRace
<1>5. CASE Register(t)
  BY <1>1, <1>2, <1>3, <1>5 DEF Register, NoRace
<1>6. CASE \/ Lstat(t) \/ Create(t) \/ OpenRemote(t) \/ Copy(t) \/ DropPart(t)
           \/ Unlink(t) \/ CheckBackup(t) \/ DropThenRestore(t) \/ DropBackup(t)
  <2>1. /\ Active(t)
        /\ target' = target
        /\ \A u \in Transfers \ {t} : pc'[u] = pc[u]
        /\ pc'[t] \in AfterRetire => pc[t] \in AfterRetire
    BY <1>1, <1>6 DEF Lstat, Create, OpenRemote, Copy, DropPart, RemovePart, Unlink,
       CheckBackup, DropThenRestore, DropBackup
  <2>. QED BY <1>2, <1>3, <2>1
<1>7. CASE PlaceNew(t) \/ Retire(t) \/ Replace(t)
  <2>1. /\ Active(t)
        /\ target' # target => target' # Old
        /\ \A u \in Transfers \ {t} : pc'[u] = pc[u]
        /\ pc'[t] \in AfterRetire => pc[t] \in AfterRetire \/ target' = Absent
    BY <1>1, <1>7 DEF PlaceNew, Retire, Replace, Sound, TypeOK
  <2>. QED BY <1>2, <1>3, <2>1
<1>8. CASE Restore(t)
  <2>1. /\ Active(t)
        /\ \A u \in Transfers \ {t} : pc'[u] = pc[u]
        /\ pc'[t] = "failed"
    BY <1>1, <1>8 DEF Restore
  <2>. QED BY <1>2, <2>1
<1>. QED BY <1>5, <1>6, <1>7, <1>8 DEF Step

LEMMA InitAlone == Init => Alone
  BY DEF Init, Alone, Active, Steps, Ends

\* The inductive invariant holds of every behaviour.
THEOREM Inductive == Spec => []IInv
<1>1. Init => IInv
  BY InitSound, InitAlone DEF IInv
<1>2. IInv /\ [Next]_vars => IInv'
  <2>. SUFFICES ASSUME IInv, [Next]_vars PROVE IInv'
    OBVIOUS
  <2>1. Sound /\ Alone
    BY DEF IInv
  <2>2. ASSUME NEW t \in Transfers, Step(t) PROVE IInv'
    <3>1. Sound'
      BY <2>1, <2>2, CopyKeepsSound, ReplacementKeepsSound DEF Step
    <3>2. CASE ~upload /\ NoRace
      BY <2>1, <2>2, <3>1, <3>2, StepKeepsAlone DEF IInv
    <3>3. CASE upload \/ ~NoRace
      <4>1. upload' = upload /\ session' = session
        BY <2>2 DEF Step, Register, Lstat, Create, OpenRemote, Copy, DropPart,
           RemovePart, PlaceNew, Unlink, CheckBackup, Retire, Replace,
           DropThenRestore, Restore, DropBackup, request
      <4>. QED BY <3>1, <3>3, <4>1 DEF IInv, Alone, NoRace
    <3>. QED BY <3>2, <3>3
  <2>3. CASE UNCHANGED vars \/ OtherProgram \/ \E t \in Transfers : Cancel(t)
    <3>1. Sound'
      BY <2>1, <2>3, OthersKeepSound
    <3>2. /\ upload' = upload /\ session' = session /\ pc' = pc
          /\ target' = target \/ target' = Other
      BY <2>3 DEF OtherProgram, Cancel, vars, request, files, local
    <3>. QED BY <2>1, <3>1, <3>2 DEF IInv, Alone, NoRace, Active
  <2>. QED BY <2>2, <2>3 DEF Next
<1>. QED BY <1>1, <1>2, PTL DEF Spec

\* Types, with what is in a `.part` file that is about to be put in place.
THEOREM TypeCorrect == Spec => []TypeOK
<1>1. IInv => TypeOK BY DEF IInv, Sound
<1>. QED BY <1>1, Inductive, PTL

\* Whoever opens the target finds a whole file, wherever the transfers, their
\* failures and their cancels stand (replace_remote_file, replace_local_file).
THEOREM NeverAPart == Spec => []TargetIsWhole
<1>1. IInv => TargetIsWhole BY DEF IInv, Sound
<1>. QED BY <1>1, Inductive, PTL

\* A transfer comes to be installed in PlaceNew, which refuses an existing name,
\* or in Replace, which only a confirmed transfer reaches.
LEMMA InstallsAreConfirmed ==
  ASSUME Sound, [Next]_vars, NEW t \in installed' \ installed, t \notin overwrite
  PROVE  target = Absent
<1>1. PICK u \in Transfers : installed' = installed \cup {u} /\ (PlaceNew(u) \/ Replace(u))
  BY DEF Next, Step, Register, Lstat, Create, OpenRemote, Copy, DropPart, RemovePart,
     PlaceNew, Unlink, CheckBackup, Retire, Replace, DropThenRestore, Restore,
     DropBackup, Cancel, OtherProgram, Install, vars
<1>2. t = u
  BY <1>1
<1>3. pc[u] # "install"
  BY <1>2 DEF Sound, Confirmed, LookedUp, Replacing, Steps
<1>. QED BY <1>1, <1>3 DEF PlaceNew, Replace

\* Without the operator's word nothing is replaced, not even a file that came
\* after the transfer had looked.
THEOREM NoSilentReplace == Spec => UnconfirmedReplacesNothing
<1>1. IInv /\ [Next]_vars
        => [\A t \in installed' \ installed : t \notin overwrite => target = Absent]_vars
  BY InstallsAreConfirmed DEF IInv
<1>. QED BY <1>1, Inductive, PTL DEF Spec, UnconfirmedReplacesNothing

\* The step that takes the old file from its last name has been preceded by a
\* confirmed installation.
LEMMA StepKeepsOldFile ==
  ASSUME IInv, NoRace, OldIsThere, ~OldIsThere', [Next]_vars
  PROVE  installed' \cap overwrite # {}
<1>. USE DEF Sound, TypeOK, Goto, Works, Fails, Effect, files
<1>1. Sound /\ Alone
  BY DEF IInv
<1>2. PICK t \in Transfers : Step(t)
  <2>1. ~UNCHANGED vars /\ ~OtherProgram /\ \A t \in Transfers : ~Cancel(t)
    BY DEF OldIsThere, OtherProgram, Cancel, vars
  <2>. QED BY <2>1 DEF Next
<1>3. target' # target \/ backup' # backup
  BY DEF OldIsThere
<1>4. CASE PlaceNew(t)
  BY <1>1, <1>4 DEF PlaceNew, OldIsThere
<1>5. CASE Retire(t)
  <2>1. backup[t] = Absent
    BY <1>1, <1>5 DEF Retire, BackupsAreWhole
  <2>. QED BY <1>1, <1>5, <2>1 DEF Retire, OldIsThere
<1>6. CASE Replace(t)
  <2>1. t \in overwrite
    BY <1>1, <1>6 DEF Replace, Confirmed, LookedUp, Replacing, Steps
  <2>2. CASE target' = target
    BY <1>3, <1>6, <2>2 DEF Replace
  <2>3. CASE t \in installed'
    BY <2>1, <2>3
  <2>. QED BY <1>6, <2>2, <2>3 DEF Replace, Install
<1>7. CASE Restore(t)
  <2>1. target # Old
    <3>1. CASE upload BY <1>3, <1>7, <3>1 DEF Restore, CanRename
    <3>2. CASE ~upload BY <1>1, <1>7, <3>2 DEF Restore, Alone
    <3>. QED BY <3>1, <3>2
  <2>. QED BY <1>1, <1>7, <2>1 DEF Restore, OldIsThere
<1>8. CASE DropBackup(t)
  <2>1. t \in overwrite /\ t \in installed
    BY <1>1, <1>8 DEF DropBackup, Confirmed, LookedUp, Replacing, Steps
  <2>. QED BY <1>8, <2>1 DEF DropBackup
<1>9. CASE \/ Register(t) \/ Lstat(t) \/ Create(t) \/ OpenRemote(t) \/ Copy(t)
           \/ DropPart(t) \/ Unlink(t) \/ CheckBackup(t) \/ DropThenRestore(t)
  BY <1>3, <1>9 DEF Register, Lstat, Create, OpenRemote, Copy, DropPart, RemovePart,
     Unlink, CheckBackup, DropThenRestore
<1>. QED BY <1>2, <1>4, <1>5, <1>6, <1>7, <1>8, <1>9 DEF Step

\* The old file stays on disk until a confirmed one has replaced it, whichever
\* calls fail and wherever the program dies.
THEOREM OldFileSurvives == Spec => OldFileIsKept
<1>1. IInv /\ [Next]_vars
        => [NoRace /\ OldIsThere /\ ~OldIsThere' => installed' \cap overwrite # {}]_vars
  BY StepKeepsOldFile
<1>. QED BY <1>1, Inductive, PTL DEF Spec, OldFileIsKept
----
(* What the transfers leave on disk. *)

\* Calls before which, when none has failed, a transfer has no `.part` file.
WithoutPart == {"idle", "lstat", "create", "restore", "dropBackup"} \cup Ends

\* Files are only left where a call has failed: the `.part` file by one, the
\* backup of a download by two, that which sent it back and that which failed on
\* the way.
Tidy ==
  /\ faults = 0 => \A t \in Transfers : pc[t] \in WithoutPart => part[t] = Absent
  /\ ~upload =>
       \A t \in Transfers :
         /\ pc[t] \in {"drop", "unlink"} => backup[t] = Absent
         /\ pc[t] \in {"dropThenRestore", "restore"} => faults >= 1
         /\ pc[t] \in Ends /\ backup[t] # Absent => t \in installed \/ faults >= 2

LEMMA InitTidy == Init => Tidy
  BY DEF Init, Tidy, WithoutPart, Steps, Ends

LEMMA CopyKeepsTidy ==
  ASSUME Sound, Tidy, NEW t \in Transfers,
         \/ Register(t)
         \/ Lstat(t)
         \/ Create(t)
         \/ OpenRemote(t)
         \/ Copy(t)
         \/ DropPart(t)
  PROVE  Tidy'
<1>. USE DEF Sound, TypeOK, BackupsAreWhole, Tidy, WithoutPart, Steps, Ends, Goto,
       Works, Fails, Effect, request, files, local
<1>1. CASE Register(t) BY <1>1 DEF Register
<1>2. CASE Lstat(t)
  <2>1. /\ UNCHANGED <<upload, part, backup, installed>>
        /\ faults' \in {faults, faults + 1}
        /\ \E p \in {"failed", "create"} : pc' = [pc EXCEPT ![t] = p]
        /\ pc[t] = "lstat"
    BY <1>2 DEF Lstat
  <2>. QED BY <2>1
<1>3. CASE Create(t) BY <1>3 DEF Create
<1>4. CASE OpenRemote(t) BY <1>4 DEF OpenRemote
<1>5. CASE Copy(t) BY <1>5 DEF Copy
<1>6. CASE DropPart(t) BY <1>6 DEF DropPart, RemovePart
<1>. QED BY <1>1, <1>2, <1>3, <1>4, <1>5, <1>6

LEMMA ReplacementKeepsTidy ==
  ASSUME Sound, Tidy, NEW t \in Transfers,
         \/ PlaceNew(t)
         \/ Unlink(t)
         \/ CheckBackup(t)
         \/ Retire(t)
         \/ Replace(t)
         \/ DropThenRestore(t)
         \/ Restore(t)
         \/ DropBackup(t)
  PROVE  Tidy'
<1>. USE DEF Sound, TypeOK, BackupsAreWhole, Tidy, WithoutPart, Steps, Ends, Goto,
       Works, Fails, Effect, Install, CanRename, request, files, local
<1>1. CASE PlaceNew(t) BY <1>1 DEF PlaceNew
<1>2. CASE Unlink(t) BY <1>2 DEF Unlink
<1>3. CASE CheckBackup(t) BY <1>3 DEF CheckBackup
<1>4. CASE Retire(t) BY <1>4 DEF Retire
<1>5. CASE Replace(t) BY <1>5 DEF Replace
<1>6. CASE DropThenRestore(t) BY <1>6 DEF DropThenRestore, RemovePart
<1>7. CASE Restore(t) BY <1>7 DEF Restore
<1>8. CASE DropBackup(t)
  <2>1. t \in installed
    BY <1>8 DEF DropBackup, Confirmed
  <2>. QED BY <1>8, <2>1 DEF DropBackup
<1>. QED BY <1>1, <1>2, <1>3, <1>4, <1>5, <1>6, <1>7, <1>8

\* A transfer that ends without a failing call leaves no `.part` file; a download
\* that did not put its file in place leaves a backup only after a second
\* failing call.
THEOREM LittleIsLeft == Spec => []LeavesNothingBehind
<1>1. Init => Tidy
  BY InitTidy
<1>2. IInv /\ Tidy /\ [Next]_vars => Tidy'
  <2>. SUFFICES ASSUME IInv, Tidy, [Next]_vars PROVE Tidy'
    OBVIOUS
  <2>1. Sound
    BY DEF IInv
  <2>2. ASSUME NEW t \in Transfers, Step(t) PROVE Tidy'
    BY <2>1, <2>2, CopyKeepsTidy, ReplacementKeepsTidy DEF Step
  <2>3. CASE UNCHANGED vars \/ OtherProgram \/ \E t \in Transfers : Cancel(t)
    <3>1. UNCHANGED <<upload, part, backup, pc, installed, faults>>
      BY <2>3 DEF OtherProgram, Cancel, vars, request, files, local
    <3>. QED BY <3>1 DEF Tidy
  <2>. QED BY <2>2, <2>3 DEF Next
<1>3. Tidy => LeavesNothingBehind
  BY DEF Tidy, LeavesNothingBehind, Finished, WithoutPart
<1>. QED BY <1>1, <1>2, <1>3, Inductive, PTL DEF Spec
=============================================================================
