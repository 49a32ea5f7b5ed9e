--------------------------- MODULE LocalTerminal ---------------------------
(***************************************************************************)
(* Local shell sessions (local_terminal.rs) with the registry they live in *)
(* and the sweep that closes every terminal when the program exits         *)
(* (lib.rs, transport.rs).                                                 *)
(*                                                                         *)
(* A session is a task that waits for its shell and for commands, a thread *)
(* that writes input to the PTY, and another that waits for the shell to   *)
(* exit. A close hangs up the shell's process group and, after a grace,    *)
(* kills it. The shell and the job it runs are processes of their own:     *)
(* they may exit by themselves, ignore a hang-up or read no input.         *)
(***************************************************************************)
EXTENDS Naturals, Sequences, FiniteSets

CONSTANTS
  Sessions,      \* session ids
  Natures,       \* the sets of traits that a shell may have
  MaxTerminals,  \* MAX_ACTIVE_TERMINALS
  CommandCap,    \* TERMINAL_COMMAND_QUEUE_CAPACITY
  WriterCap,     \* PTY_WRITE_QUEUE_CAPACITY
  MaxRequests    \* inputs and resizes the UI sends in all

\* deaf: reads no input. defiant: ignores a hang-up, and so does its job.
\* badjob: only its job ignores it. wedged: cannot die for as long as the model
\* looks, as a process in an uninterruptible wait.
Traits == {"deaf", "defiant", "badjob", "wedged"}

ASSUME LocalAssumption ==
  /\ Natures \subseteq SUBSET Traits
  /\ MaxTerminals \in Nat \ {0}
  /\ CommandCap \in Nat \ {0}
  /\ WriterCap \in Nat \ {0}
  /\ MaxRequests \in Nat

VARIABLES
  registry,  \* AppState.terminals: the sessions that can be reached
  task,      \* where each session's task is
  reason,    \* the CloseReason it will announce
  commands,  \* the LocalCommands in its channel
  writer,    \* its writer thread
  queued,    \* inputs in the writer's channel
  nature,    \* the traits of its shell
  shell,     \* the shell process
  job,       \* the job in the shell's process group
  requests,  \* inputs and resizes sent so far
  sweep,     \* close_all_terminals
  toAsk      \* sessions the sweep has still to ask

sessions  == <<registry, task, reason>>
threads   == <<writer, queued>>
processes == <<nature, shell, job>>
exit      == <<sweep, toAsk>>
vars == <<sessions, commands, threads, processes, requests, exit>>
----
Tasks == {"absent", "starting", "spawned", "reaping", "select", "sending",
          "hangup", "killing", "ended", "gone"}
LocalCommands == {"input", "resize", "close"}
Reasons == {"none", "local", "remote", "failed"}
Shells  == {"none", "alive", "dying", "dead", "reaped"}
Jobs    == {"none", "alive", "dying", "dead"}
Sweeps  == {"off", "asking", "waiting", "emptied", "timeout"}

Running == sweep \notin {"emptied", "timeout"}
At(s, where) == Running /\ task[s] = where
To(s, where) == task' = [task EXCEPT ![s] = where]

Live(p) == p \in {"alive", "dying"}
\* Who does not ignore a hang-up starts to die of it; nobody ignores a kill.
HungUp(p, defies) == IF p = "alive" /\ ~defies THEN "dying" ELSE p
Killed(p) == HungUp(p, FALSE)
ShellDefies(s) == "defiant" \in nature[s]
JobDefies(s)   == nature[s] \cap {"defiant", "badjob"} # {}
HangUpGroup(s) ==
  /\ shell' = [shell EXCEPT ![s] = HungUp(@, ShellDefies(s))]
  /\ job' = [job EXCEPT ![s] = HungUp(@, JobDefies(s))]

\* The receiver of the commands lives while `run` does, the sender of the
\* writer's channel while its loop does.
Receiving(s) == task[s] \notin {"absent", "ended", "gone"}
Feeding(s)   == task[s] \in {"select", "sending"}
Room(s) == Len(commands[s]) < CommandCap
----
(* A session's start: connect_local_session, then `run` up to its loop. *)

Connect(s) ==
  /\ At(s, "absent")
  /\ Cardinality(registry) < MaxTerminals
  /\ registry' = registry \cup {s}
  /\ To(s, "starting")
  /\ UNCHANGED <<reason, commands, threads, processes, requests, exit>>

End(s, why) ==
  /\ To(s, "ended")
  /\ reason' = [reason EXCEPT ![s] = why]
  /\ commands' = [commands EXCEPT ![s] = <<>>]

\* The profile, the log, the PTY or the shell itself cannot be had.
StartFails(s) ==
  /\ At(s, "starting")
  /\ End(s, "failed")
  /\ UNCHANGED <<registry, threads, processes, requests, exit>>

Spawn(s) ==
  /\ At(s, "starting")
  /\ To(s, "spawned")
  /\ \E n \in Natures : nature' = [nature EXCEPT ![s] = n]
  /\ shell' = [shell EXCEPT ![s] = "alive"]
  /\ UNCHANGED <<registry, reason, commands, threads, job, requests, exit>>

\* A thread cannot be started: the shell is killed, and waited for without a
\* limit. Nothing else is polled meanwhile.
ThreadFails(s) ==
  /\ At(s, "spawned")
  /\ To(s, "reaping")
  /\ shell' = [shell EXCEPT ![s] = Killed(@)]
  /\ UNCHANGED <<registry, reason, commands, threads, nature, job, requests, exit>>

WaitEnds(s) ==
  /\ At(s, "reaping")
  /\ shell[s] = "dead"
  /\ shell' = [shell EXCEPT ![s] = "reaped"]
  /\ End(s, "failed")
  /\ UNCHANGED <<registry, threads, nature, job, requests, exit>>

\* try_clone_reader or take_writer fails: `?` drops the PTY and the child, and
\* nobody kills the shell or waits for it.
Abandon(s) ==
  /\ At(s, "spawned")
  /\ HangUpGroup(s)
  /\ End(s, "failed")
  /\ UNCHANGED <<registry, threads, nature, requests, exit>>

Start(s) ==
  /\ At(s, "spawned")
  /\ To(s, "select")
  /\ writer' = [writer EXCEPT ![s] = "waiting"]
  /\ UNCHANGED <<registry, reason, commands, queued, processes, requests, exit>>
----
(* The loop of `run`. *)

SeeExit(s) ==
  /\ At(s, "select")
  /\ shell[s] = "reaped"
  /\ End(s, "remote")
  /\ UNCHANGED <<registry, threads, processes, requests, exit>>

\* terminate_shell: nothing to do for a shell that has been waited for. `rest`
\* stays in the channel until `run` returns.
Terminate(s, why, rest) ==
  \/ /\ shell[s] = "reaped"
     /\ End(s, why)
     /\ UNCHANGED processes
  \/ /\ shell[s] # "reaped"
     /\ To(s, "hangup")
     /\ reason' = [reason EXCEPT ![s] = why]
     /\ commands' = [commands EXCEPT ![s] = rest]
     /\ HangUpGroup(s)
     /\ UNCHANGED nature

Take(s, c) == At(s, "select") /\ commands[s] # <<>> /\ Head(commands[s]) = c

\* The input waits inside the select arm for room in the writer's queue.
TakeInput(s) ==
  /\ Take(s, "input")
  /\ To(s, "sending")
  /\ commands' = [commands EXCEPT ![s] = Tail(@)]
  /\ UNCHANGED <<registry, reason, threads, processes, requests, exit>>

PassInputUnbounded(s) ==
  /\ At(s, "sending")
  /\ writer[s] # "over"
  /\ queued' = [queued EXCEPT ![s] = @ + 1]
  /\ To(s, "select")
  /\ UNCHANGED <<registry, reason, commands, writer, processes, requests, exit>>

PassInput(s) ==
  /\ At(s, "sending")
  /\ writer[s] # "over"
  /\ queued[s] < WriterCap
  /\ queued' = [queued EXCEPT ![s] = @ + 1]
  /\ To(s, "select")
  /\ UNCHANGED <<registry, reason, commands, writer, processes, requests, exit>>

PassFails(s) ==
  /\ At(s, "sending")
  /\ writer[s] = "over"
  /\ Terminate(s, "failed", commands[s])
  /\ UNCHANGED <<registry, threads, requests, exit>>

Resize(s) ==
  /\ Take(s, "resize")
  /\ \/ /\ commands' = [commands EXCEPT ![s] = Tail(@)]
        /\ UNCHANGED <<task, reason, processes>>
     \/ Terminate(s, "failed", Tail(commands[s]))
  /\ UNCHANGED <<registry, threads, requests, exit>>

TakeClose(s) ==
  /\ Take(s, "close")
  /\ Terminate(s, "local", Tail(commands[s]))
  /\ UNCHANGED <<registry, threads, requests, exit>>

\* The shell was waited for within the grace: the group is not killed.
HangupHeeded(s) ==
  /\ At(s, "hangup") \/ At(s, "killing")
  /\ shell[s] = "reaped"
  /\ End(s, reason[s])
  /\ UNCHANGED <<registry, threads, processes, requests, exit>>

\* The mutants of GraceOver, ReapLimit and Ask: a grace after which nothing is
\* killed, a wait without its limit, a close without its 500 ms.
GraceOnly(s) ==
  /\ At(s, "hangup")
  /\ End(s, reason[s])
  /\ UNCHANGED <<registry, threads, processes, requests, exit>>

NoReapLimit(s) == At(s, "killing") /\ FALSE /\ UNCHANGED vars

\* SHELL_EXIT_GRACE: two seconds, in which a shell may also just be slow.
GraceOver(s) ==
  /\ At(s, "hangup")
  /\ shell[s] # "reaped"
  /\ To(s, "killing")
  /\ shell' = [shell EXCEPT ![s] = Killed(@)]
  /\ job' = [job EXCEPT ![s] = Killed(@)]
  /\ UNCHANGED <<registry, reason, commands, threads, nature, requests, exit>>

\* SHELL_REAP_LIMIT: five seconds, enough for every process that can die.
ReapLimit(s) ==
  /\ At(s, "killing")
  /\ "wedged" \in nature[s]
  /\ shell[s] # "reaped"
  /\ End(s, reason[s])
  /\ UNCHANGED <<registry, threads, processes, requests, exit>>

\* Closed is sent, then the session leaves the registry.
Leave(s) ==
  /\ At(s, "ended")
  /\ To(s, "gone")
  /\ registry' = registry \ {s}
  /\ UNCHANGED <<reason, commands, threads, processes, requests, exit>>
----
(* The writer thread and the processes. *)

WriterTakes(s) ==
  /\ Running
  /\ writer[s] = "waiting"
  /\ queued[s] > 0
  /\ queued' = [queued EXCEPT ![s] = @ - 1]
  /\ writer' = [writer EXCEPT ![s] = "writing"]
  /\ UNCHANGED <<sessions, commands, processes, requests, exit>>

\* A write ends when the input is read, or fails once nobody has the terminal
\* open any more. A thread without work ends with the loop.
WriterEnds(s) ==
  /\ Running
  /\ \/ /\ writer[s] = "writing"
        /\ Live(shell[s]) \/ Live(job[s])
        /\ "deaf" \notin nature[s]
        /\ writer' = [writer EXCEPT ![s] = "waiting"]
        /\ UNCHANGED queued
     \/ /\ writer[s] = "writing"
        /\ ~Live(shell[s]) /\ ~Live(job[s])
        /\ writer' = [writer EXCEPT ![s] = "over"]
        /\ queued' = [queued EXCEPT ![s] = 0]
     \/ /\ writer[s] = "waiting"
        /\ queued[s] = 0
        /\ ~Feeding(s)
        /\ writer' = [writer EXCEPT ![s] = "over"]
        /\ UNCHANGED queued
  /\ UNCHANGED <<sessions, commands, processes, requests, exit>>

StartJob(s) ==
  /\ shell[s] = "alive"
  /\ job[s] = "none"
  /\ Feeding(s)
  /\ job' = [job EXCEPT ![s] = "alive"]
  /\ UNCHANGED <<sessions, commands, threads, nature, shell, requests, exit>>

\* A shell that exits takes its terminal with it: its job is hung up.
ShellDies(s) ==
  /\ \/ shell[s] = "alive"
     \/ shell[s] = "dying" /\ "wedged" \notin nature[s]
  /\ shell' = [shell EXCEPT ![s] = "dead"]
  /\ job' = [job EXCEPT ![s] = HungUp(@, JobDefies(s))]
  /\ UNCHANGED <<sessions, commands, threads, nature, requests, exit>>

JobDies(s) ==
  /\ Live(job[s])
  /\ job' = [job EXCEPT ![s] = "dead"]
  /\ UNCHANGED <<sessions, commands, threads, nature, shell, requests, exit>>

\* The blocking wait of exit_task, which a started session has.
Reap(s) ==
  /\ Running
  /\ writer[s] # "none"
  /\ shell[s] = "dead"
  /\ shell' = [shell EXCEPT ![s] = "reaped"]
  /\ UNCHANGED <<sessions, commands, threads, nature, job, requests, exit>>
----
(* The UI and the end of the program. *)

\* session_input, session_resize, close_session: the control is looked up, and
\* the call waits for room in the channel.
Request(s, c) ==
  /\ Running
  /\ s \in registry
  /\ Receiving(s) /\ Room(s)
  /\ c = "close" \/ requests < MaxRequests
  /\ requests' = IF c = "close" THEN requests ELSE requests + 1
  /\ commands' = [commands EXCEPT ![s] = Append(@, c)]
  /\ UNCHANGED <<sessions, threads, processes, exit>>

\* RunEvent::Exit: the controls of the moment are copied.
BeginSweep ==
  /\ sweep = "off"
  /\ sweep' = "asking"
  /\ toAsk' = registry
  /\ UNCHANGED <<sessions, commands, threads, processes, requests>>

AskPatiently(s) ==
  /\ sweep = "asking"
  /\ s \in toAsk
  /\ Receiving(s) => Room(s)
  /\ toAsk' = toAsk \ {s}
  /\ commands' = [commands EXCEPT ![s] = IF Receiving(s) THEN Append(@, "close") ELSE @]
  /\ UNCHANGED <<sessions, threads, processes, requests, sweep>>

\* A close is sent or cannot be, or its 500 ms pass before the task makes room.
Ask(s) ==
  /\ sweep = "asking"
  /\ s \in toAsk
  /\ toAsk' = toAsk \ {s}
  /\ commands' = [commands EXCEPT ![s] =
                    IF Receiving(s) /\ Room(s) THEN Append(@, "close") ELSE @]
  /\ UNCHANGED <<sessions, threads, processes, requests, sweep>>

BeginWait ==
  /\ sweep = "asking"
  /\ toAsk = {}
  /\ sweep' = "waiting"
  /\ UNCHANGED <<sessions, commands, threads, processes, requests, toAsk>>

\* The program is over: the terminals close and hang up what is left.
Exit(how) ==
  /\ sweep = "waiting"
  /\ sweep' = how
  /\ shell' = [s \in Sessions |-> HungUp(shell[s], ShellDefies(s))]
  /\ job' = [s \in Sessions |-> HungUp(job[s], JobDefies(s))]
  /\ UNCHANGED <<sessions, commands, threads, nature, requests, toAsk>>

\* close_all_terminals finds no terminal, or gives up after SHUTDOWN_GRACE.
SeeEmptied == registry = {} /\ Exit("emptied")
GiveUp     == registry # {} /\ Exit("timeout")
----
SetUp(s) ==
  \/ StartFails(s) \/ Spawn(s) \/ ThreadFails(s) \/ WaitEnds(s)
  \/ Abandon(s) \/ Start(s)
Loop(s) ==
  \/ SeeExit(s) \/ TakeInput(s) \/ PassInput(s) \/ PassFails(s)
  \/ Resize(s) \/ TakeClose(s)
Closing(s) == HangupHeeded(s) \/ GraceOver(s) \/ ReapLimit(s) \/ Leave(s)
Task(s)   == SetUp(s) \/ Loop(s) \/ Closing(s)
Writer(s) == WriterTakes(s) \/ WriterEnds(s)
Sweeping  == (\E s \in Sessions : Ask(s)) \/ BeginWait \/ SeeEmptied \/ GiveUp

Init ==
  /\ registry = {}
  /\ task = [s \in Sessions |-> "absent"]
  /\ reason = [s \in Sessions |-> "none"]
  /\ commands = [s \in Sessions |-> <<>>]
  /\ writer = [s \in Sessions |-> "none"]
  /\ queued = [s \in Sessions |-> 0]
  /\ nature = [s \in Sessions |-> {}]
  /\ shell = [s \in Sessions |-> "none"]
  /\ job = [s \in Sessions |-> "none"]
  /\ requests = 0
  /\ sweep = "off"
  /\ toAsk = {}

Next ==
  \/ \E s \in Sessions :
       \/ Connect(s) \/ Task(s) \/ Writer(s)
       \/ StartJob(s) \/ ShellDies(s) \/ JobDies(s) \/ Reap(s)
       \/ \E c \in LocalCommands : Request(s, c)
  \/ BeginSweep \/ Sweeping

\* The runtime polls every task and its timers, the threads run, a process that
\* was told to die dies, and the program's end is not held up by the UI. That a
\* shell reads, or exits by itself, is not assumed.
Fairness ==
  /\ \A s \in Sessions :
       /\ WF_vars(Task(s))
       /\ WF_vars(Writer(s))
       /\ WF_vars(ShellDies(s) /\ shell[s] = "dying")
       /\ WF_vars(Reap(s))
  /\ WF_vars(Sweeping)

Spec == Init /\ [][Next]_vars /\ Fairness
----
TypeOK ==
  /\ registry \subseteq Sessions
  /\ Cardinality(registry) <= MaxTerminals
  /\ task \in [Sessions -> Tasks]
  /\ reason \in [Sessions -> Reasons]
  /\ commands \in [Sessions -> Seq(LocalCommands)]
  /\ \A s \in Sessions : Len(commands[s]) <= CommandCap
  /\ writer \in [Sessions -> {"none", "waiting", "writing", "over"}]
  /\ queued \in [Sessions -> 0 .. WriterCap]
  /\ nature \in [Sessions -> SUBSET Traits]
  /\ shell \in [Sessions -> Shells]
  /\ job \in [Sessions -> Jobs]
  /\ requests \in 0 .. MaxRequests
  /\ sweep \in Sweeps
  /\ toAsk \subseteq Sessions

\* A session whose shell was started leaves the registry only when that shell
\* has been waited for, on every way out of `run`: a close, an exit, a failing
\* resize or write. The two ways that cannot promise it are named: a shell that
\* a kill does not end within the limit, and one abandoned before its threads
\* were started.
NoShellOutlivesItsSession ==
  \A s \in Sessions :
    task[s] = "gone" =>
      \/ shell[s] \in {"none", "reaped"}
      \/ "wedged" \in nature[s]
      \/ writer[s] = "none"

\* A close taken into a session's queue ends it, whatever its shell ignores,
\* unless the loop is held by an input that a deaf program does not read, or a
\* set-up that has failed by a shell that no kill ends.
Asked(s) == \E i \in DOMAIN commands[s] : commands[s][i] = "close"
Stuck(s) ==
  \/ task[s] = "sending" /\ "deaf" \in nature[s] /\ queued[s] = WriterCap
  \/ task[s] = "reaping" /\ "wedged" \in nature[s] /\ shell[s] = "dying"
CloseIsServed ==
  \A s \in Sessions : Asked(s) ~> (s \notin registry \/ Stuck(s) \/ ~Running)

\* The end of the program is never held up: the sweep comes to an end with
\* sessions that do not take their close, and with sessions that register late.
SweepEnds == (sweep = "asking") ~> ~Running

\* A job that ignores the hang-up is killed after the grace: terminate_shell ends
\* with nobody of the group left who was not at least told to die.
HangupLeavesNoJob ==
  [][\A s \in Sessions :
       (task[s] \in {"hangup", "killing"} /\ task'[s] = "ended") =>
         job'[s] # "alive"]_vars
=============================================================================
