------------------------ MODULE LocalTerminalProofs ------------------------
(***************************************************************************)
(* Proofs about LocalTerminal, for any number of sessions and any bounds:  *)
(* the registry holds exactly the sessions whose task is under way, and a  *)
(* task that has left it has left no shell behind.                         *)
(***************************************************************************)
EXTENDS LocalTerminal, FiniteSetTheorems, TLAPS

\* The registry names the tasks that are neither to come nor over.
RegistryIsTasks ==
  /\ IsFiniteSet(registry)
  /\ \A s \in Sessions : s \in registry <=> task[s] \notin {"absent", "gone"}

\* A shell exists from Spawn on; its exit is waited for once Start has run.
ShellsHaveTasks ==
  \A s \in Sessions :
    /\ task[s] \in {"absent", "starting"} => shell[s] = "none" /\ writer[s] = "none"
    /\ task[s] = "spawned" => writer[s] = "none"
    /\ Feeding(s) => writer[s] # "none"

\* What NoShellOutlivesItsSession says of tasks that are gone, of every task
\* that has come out of `run`.
EndsWithoutShell ==
  \A s \in Sessions :
    task[s] \in {"ended", "gone"} =>
      \/ shell[s] \in {"none", "reaped"}
      \/ "wedged" \in nature[s]
      \/ writer[s] = "none"

IInv == TypeOK /\ RegistryIsTasks /\ ShellsHaveTasks /\ EndsWithoutShell

USE LocalAssumption

----
LEMMA InitIInv == Init => IInv
<1>. SUFFICES ASSUME Init PROVE IInv
  OBVIOUS
<1>1. IsFiniteSet({}) /\ Cardinality({}) = 0
  BY FS_EmptySet
<1>. QED BY <1>1 DEF Init, IInv, TypeOK, RegistryIsTasks, ShellsHaveTasks,
  EndsWithoutShell, Feeding, Tasks, Reasons, Shells, Jobs, Sweeps, Traits

\* terminate_shell, wherever the loop calls it from.
LEMMA TerminateKeepsIInv ==
  ASSUME IInv, NEW s \in Sessions, task[s] \in {"select", "sending"},
         NEW why \in Reasons, NEW rest \in Seq(LocalCommands), Len(rest) <= CommandCap,
         Terminate(s, why, rest), UNCHANGED <<registry, threads, requests, exit>>
  PROVE  IInv'
<1>. USE DEF IInv, TypeOK, RegistryIsTasks, ShellsHaveTasks, EndsWithoutShell,
       Feeding, To, End, Tasks, Reasons, Shells, Jobs, LocalCommands, Traits,
       threads, processes, exit, HungUp
<1>1. CASE shell[s] = "reaped"
  <2>1. /\ task' = [task EXCEPT ![s] = "ended"]
        /\ reason' = [reason EXCEPT ![s] = why]
        /\ commands' = [commands EXCEPT ![s] = <<>>]
        /\ UNCHANGED processes
    BY <1>1 DEF Terminate
  <2>. QED BY <1>1, <2>1
<1>2. CASE shell[s] # "reaped"
  <2>1. task' = [task EXCEPT ![s] = "hangup"] /\ HangUpGroup(s) /\ nature' = nature
    BY <1>2 DEF Terminate
  <2>2. \A u \in Sessions :
          /\ shell'[u] \in {"none", "reaped"} <=> shell[u] \in {"none", "reaped"}
          /\ shell'[u] = "none" <=> shell[u] = "none"
    BY <2>1 DEF HangUpGroup
  <2>3. /\ reason' = [reason EXCEPT ![s] = why]
        /\ commands' = [commands EXCEPT ![s] = rest]
    BY <1>2 DEF Terminate
  <2>4. shell' \in [Sessions -> Shells] /\ job' \in [Sessions -> Jobs]
    BY <2>1 DEF HangUpGroup
  <2>5. TypeOK' BY <2>1, <2>3, <2>4
  <2>. QED BY <1>2, <2>1, <2>2, <2>5
<1>. QED BY <1>1, <1>2

\* The steps that a task takes between its registration and its end, and what
\* they do to the other sessions.
LEMMA TaskKeepsIInv ==
  ASSUME IInv, NEW s \in Sessions,
         SetUp(s) \/ Loop(s) \/ HangupHeeded(s) \/ GraceOver(s) \/ ReapLimit(s)
  PROVE  IInv'
<1>. USE DEF IInv, TypeOK, RegistryIsTasks, ShellsHaveTasks, EndsWithoutShell,
       Feeding, At, To, End, Tasks, Reasons, Shells, Jobs, LocalCommands, Traits,
       sessions, threads, processes, exit, HungUp
<1>1. CASE StartFails(s) BY <1>1 DEF StartFails
<1>2. CASE Spawn(s) BY <1>2 DEF Spawn
<1>3. CASE ThreadFails(s) BY <1>3 DEF ThreadFails, Killed
<1>4. CASE Abandon(s) BY <1>4 DEF Abandon, HangUpGroup
<1>5. CASE Start(s) BY <1>5 DEF Start
<1>6. CASE SeeExit(s) BY <1>6 DEF SeeExit
<1>7. CASE TakeInput(s) BY <1>7 DEF TakeInput, Take
<1>8. CASE PassInput(s) BY <1>8 DEF PassInput
<1>9. CASE PassFails(s) BY <1>9, TerminateKeepsIInv DEF PassFails
<1>10. CASE Resize(s)
  <2>1. commands[s] # <<>> /\ Tail(commands[s]) \in Seq(LocalCommands)
        /\ Len(Tail(commands[s])) <= CommandCap /\ task[s] = "select"
    BY <1>10 DEF Resize, Take
  <2>2. CASE Terminate(s, "failed", Tail(commands[s]))
    BY <1>10, <2>1, <2>2, TerminateKeepsIInv DEF Resize
  <2>3. CASE /\ commands' = [commands EXCEPT ![s] = Tail(@)]
             /\ UNCHANGED <<task, reason, processes>>
    BY <1>10, <2>1, <2>3 DEF Resize
  <2>. QED BY <1>10, <2>2, <2>3 DEF Resize
<1>11. CASE TakeClose(s)
  <2>1. commands[s] # <<>> /\ Tail(commands[s]) \in Seq(LocalCommands)
        /\ Len(Tail(commands[s])) <= CommandCap /\ task[s] = "select"
    BY <1>11 DEF TakeClose, Take
  <2>. QED BY <1>11, <2>1, TerminateKeepsIInv DEF TakeClose
<1>12. CASE HangupHeeded(s) BY <1>12 DEF HangupHeeded
<1>13. CASE GraceOver(s) BY <1>13 DEF GraceOver, Killed
<1>14. CASE ReapLimit(s) BY <1>14 DEF ReapLimit
<1>15. CASE WaitEnds(s) BY <1>15 DEF WaitEnds
<1>. QED BY <1>1, <1>2, <1>3, <1>4, <1>5, <1>6, <1>7, <1>8, <1>9, <1>10, <1>11,
  <1>12, <1>13, <1>14, <1>15 DEF SetUp, Loop

\* Registration and removal change the registry.
LEMMA RegistryKeepsIInv ==
  ASSUME IInv, NEW s \in Sessions, Connect(s) \/ Leave(s)
  PROVE  IInv'
<1>. USE DEF IInv, TypeOK, RegistryIsTasks, ShellsHaveTasks, EndsWithoutShell,
       Feeding, At, To, Tasks, threads, processes, exit
<1>1. CASE Connect(s)
  <2>1. s \notin registry
    BY <1>1 DEF Connect
  <2>2. /\ IsFiniteSet(registry')
        /\ Cardinality(registry') = Cardinality(registry) + 1
    BY <1>1, <2>1, FS_AddElement DEF Connect
  <2>3. Cardinality(registry') <= MaxTerminals
    BY <1>1, <2>2, FS_CardinalityType DEF Connect
  <2>. QED BY <1>1, <2>2, <2>3 DEF Connect
<1>2. CASE Leave(s)
  <2>1. /\ IsFiniteSet(registry')
        /\ Cardinality(registry') <= Cardinality(registry)
        /\ Cardinality(registry') \in Nat /\ Cardinality(registry) \in Nat
    BY <1>2, FS_RemoveElement, FS_Subset, FS_CardinalityType DEF Leave
  <2>. QED BY <1>2, <2>1 DEF Leave
<1>. QED BY <1>1, <1>2

\* The writer's thread never comes into being or disappears by itself.
LEMMA WriterKeepsIInv ==
  ASSUME IInv, NEW s \in Sessions, Writer(s)
  PROVE  IInv'
<1>1. /\ UNCHANGED <<sessions, commands, processes, requests, exit>>
      /\ writer' \in [Sessions -> {"none", "waiting", "writing", "over"}]
      /\ queued' \in [Sessions -> 0 .. WriterCap]
      /\ \A u \in Sessions : writer'[u] = "none" <=> writer[u] = "none"
  <2>1. CASE WriterTakes(s) BY <2>1 DEF WriterTakes, IInv, TypeOK
  <2>2. CASE WriterEnds(s)
    <3>1. \E to \in {"waiting", "over"}, n \in {queued[s], 0} :
            /\ writer' = [writer EXCEPT ![s] = to]
            /\ queued' = [queued EXCEPT ![s] = n]
      BY <2>2 DEF WriterEnds, IInv, TypeOK
    <3>2. writer[s] # "none" /\ UNCHANGED <<sessions, commands, processes, requests, exit>>
      BY <2>2 DEF WriterEnds
    <3>. QED BY <3>1, <3>2 DEF IInv, TypeOK
  <2>. QED BY <2>1, <2>2 DEF Writer
<1>. QED BY <1>1 DEF IInv, TypeOK, RegistryIsTasks, ShellsHaveTasks, EndsWithoutShell,
  Feeding, sessions, processes, exit

\* A job is nobody's business but the types'; a shell never comes to life again
\* and is never forgotten once waited for.
LEMMA ProcessesKeepIInv ==
  ASSUME IInv, NEW s \in Sessions,
         StartJob(s) \/ ShellDies(s) \/ JobDies(s) \/ Reap(s)
  PROVE  IInv'
<1>1. /\ UNCHANGED <<sessions, commands, threads, nature, requests, exit>>
      /\ job' \in [Sessions -> Jobs]
  BY DEF StartJob, ShellDies, JobDies, Reap, IInv, TypeOK, Jobs, HungUp, processes
<1>2. /\ shell' \in [Sessions -> Shells]
      /\ \A u \in Sessions : /\ shell'[u] = "none" <=> shell[u] = "none"
                             /\ shell[u] = "reaped" => shell'[u] = "reaped"
  BY DEF StartJob, ShellDies, JobDies, Reap, IInv, TypeOK, Shells
<1>. QED BY <1>1, <1>2 DEF IInv, TypeOK, RegistryIsTasks, ShellsHaveTasks,
  EndsWithoutShell, Feeding, sessions, threads, exit

LEMMA RequestKeepsIInv ==
  ASSUME IInv, NEW s \in Sessions, NEW c \in LocalCommands, Request(s, c)
  PROVE  IInv'
  BY DEF IInv, TypeOK, RegistryIsTasks, ShellsHaveTasks, EndsWithoutShell, Feeding,
     Request, Room, sessions, threads, processes, exit

\* The sweep asks, waits and ends; its end hangs up what is left.
LEMMA SweepKeepsIInv ==
  ASSUME IInv, BeginSweep \/ Sweeping
  PROVE  IInv'
<1>. USE DEF IInv, TypeOK, RegistryIsTasks, ShellsHaveTasks, EndsWithoutShell, Feeding,
       sessions, threads, processes, exit
<1>1. CASE BeginSweep \/ BeginWait BY <1>1 DEF BeginSweep, BeginWait, Sweeps
<1>2. ASSUME NEW s \in Sessions, Ask(s) PROVE IInv'
  BY <1>2 DEF Ask, Room, LocalCommands
<1>3. ASSUME NEW how \in {"emptied", "timeout"}, Exit(how) PROVE IInv'
  <2>1. shell' \in [Sessions -> Shells] /\ job' \in [Sessions -> Jobs]
    BY <1>3 DEF Exit, HungUp, Shells, Jobs
  <2>2. \A u \in Sessions :
          /\ shell'[u] = "none" <=> shell[u] = "none"
          /\ shell'[u] = "reaped" <=> shell[u] = "reaped"
    BY <1>3 DEF Exit, HungUp
  <2>. QED BY <1>3, <2>1, <2>2 DEF Exit, Sweeps
<1>. QED BY <1>1, <1>2, <1>3 DEF Sweeping, SeeEmptied, GiveUp

\* The inductive invariant holds of every behaviour.
THEOREM Inductive == Spec => []IInv
<1>1. Init => IInv
  BY InitIInv
<1>2. IInv /\ [Next]_vars => IInv'
  <2>. SUFFICES ASSUME IInv, [Next]_vars PROVE IInv'
    OBVIOUS
  <2>1. CASE UNCHANGED vars
    BY <2>1 DEF IInv, TypeOK, RegistryIsTasks, ShellsHaveTasks, EndsWithoutShell,
       Feeding, vars, sessions, threads, processes, exit
  <2>2. ASSUME NEW s \in Sessions, Connect(s) \/ Task(s) PROVE IInv'
    BY <2>2, TaskKeepsIInv, RegistryKeepsIInv DEF Task, Closing
  <2>. QED BY <2>1, <2>2, WriterKeepsIInv, ProcessesKeepIInv, RequestKeepsIInv,
    SweepKeepsIInv DEF Next
<1>. QED BY <1>1, <1>2, PTL DEF Spec

\* Types, with the bounds of the registry and of both queues.
THEOREM TypeCorrect == Spec => []TypeOK
<1>1. IInv => TypeOK BY DEF IInv
<1>. QED BY <1>1, Inductive, PTL

\* On every way out of `run`, and with any number of shells at once, a session
\* leaves the registry only after its shell has been waited for (run,
\* terminate_shell), the two named exceptions aside.
THEOREM NoShellLeftBehind == Spec => []NoShellOutlivesItsSession
<1>1. IInv => NoShellOutlivesItsSession
  BY DEF IInv, EndsWithoutShell, NoShellOutlivesItsSession
<1>. QED BY <1>1, Inductive, PTL

\* An emptied registry, which ends the exit sweep early, means that no task is
\* under way (close_all_terminals).
THEOREM EmptiedMeansNoTask ==
  Spec => [](registry = {} => \A s \in Sessions : task[s] \in {"absent", "gone"})
<1>1. IInv => (registry = {} => \A s \in Sessions : task[s] \in {"absent", "gone"})
  BY DEF IInv, RegistryIsTasks
<1>. QED BY <1>1, Inductive, PTL
=============================================================================
