----------------------------- MODULE SoakDriver -----------------------------
(***************************************************************************)
(* The headless soak driver (reliability.rs): it opens one SSH session     *)
(* after the other, sends heartbeats to its shell, closes it at the        *)
(* deadline, and counts what it saw. The sessions are the ones of          *)
(* SessionLifecycle, which SshSession implements.                          *)
(*                                                                         *)
(* A heartbeat is its sequence number. The driver's events and commands go *)
(* through two channels; a send that waits for room is awaited inside an   *)
(* arm of the loop, which sees nothing else meanwhile. When the session's  *)
(* task is joined, the events still in the channel are lost.               *)
(***************************************************************************)
EXTENDS Naturals, Sequences, FiniteSets

CONSTANTS
  MaxConnections,  \* sessions opened in all
  MaxBeats,        \* heartbeats sent in all
  MaxRetries,      \* MAX_AUTO_RETRIES
  CommandCap       \* capacity of the command channel

ASSUME SoakAssumption ==
  /\ {MaxConnections, MaxBeats, MaxRetries} \subseteq Nat
  /\ CommandCap \in Nat \ {0}

Connections == 1 .. MaxConnections
Beats == 1 .. MaxBeats

VARIABLES
  stage, outcome,  \* of the sessions, see SessionLifecycle
  conn,            \* the number of the current session
  told,            \* it has taken its Close
  stalled,         \* it waits for the peer to open the window
  shell,           \* heartbeats its shell has still to answer
  asked,           \* its shell has sent its query
  commands,        \* the channel to the session
  events,          \* the channel from the session
  phase,           \* top of the loop, in a connection, or over
  late,            \* the soak's deadline has passed
  ready, closing,  \* of the connection
  waiting,         \* what it waits to send
  sequence,        \* the last heartbeat
  inflight,        \* heartbeats without an answer
  unanswered,      \* heartbeats timed out since the last answer
  acknowledged,    \* every heartbeat ever answered
  attempt, lost,   \* automatic retries so far; an outage goes on
  report           \* the counters

session == <<stage, outcome, told, stalled, shell, asked>>
soak    == <<conn, phase, attempt, lost>>
beats   == <<sequence, inflight, unanswered, acknowledged>>
local   == <<ready, closing, waiting>>
vars == <<session, commands, events, soak, late, local, beats, report>>

L == INSTANCE SessionLifecycle WITH Sessions <- Connections
----
Counters ==
  {"ready", "reconnects", "exhausted", "unexpected",
   "sent", "acknowledged", "missed", "duplicates", "dropped"}
\* The report with `by` added to a counter.
Count(r, counter, by) == [r EXCEPT ![counter] = @ + by]

Open == phase = "open"
Runs == Open /\ stage[conn] \in {"setup", "ready"}

\* What a channel carries: a heartbeat or its answer, or something unnumbered.
Message(kind, n) == [kind |-> kind, number |-> n]
Signal(kind) == Message(kind, 0)
Messages(kinds) ==
  {Signal(kind) : kind \in kinds} \cup {Message("beat", b) : b \in Beats}
Emit(event) == events' = Append(events, event)
----
(* The session: ssh::run, its shell and the link. *)

BecomesReady ==
  /\ Runs
  /\ L!ReachShell(conn)
  /\ Emit(Signal("ready"))
  /\ UNCHANGED <<told, stalled, shell, asked, commands, soak, late, local, beats, report>>

\* Nothing is taken before the shell is reached, nor while a write to it waits
\* for its window.
TakesCommand ==
  /\ Runs /\ stage[conn] = "ready"
  /\ ~told /\ ~stalled
  /\ commands # <<>>
  /\ commands' = Tail(commands)
  /\ \/ /\ Head(commands).kind = "close"
        /\ told' = TRUE
        /\ UNCHANGED <<stalled, shell>>
     \/ /\ Head(commands).kind \in {"reply", "beat"}
        /\ stalled' \in BOOLEAN
        /\ shell' = IF Head(commands).kind = "beat"
                      THEN Append(shell, Head(commands).number) ELSE shell
        /\ UNCHANGED told
  /\ UNCHANGED <<stage, outcome, asked, events, soak, late, local, beats, report>>

WindowOpens ==
  /\ Runs /\ stalled
  /\ stalled' = FALSE
  /\ UNCHANGED <<stage, outcome, told, shell, asked, commands, events, soak, late, local, beats, report>>

\* Output of the shell: the answer to a heartbeat, or a query of its terminal.
Speaks == Runs /\ stage[conn] = "ready" /\ ~told /\ ~stalled
Answers ==
  /\ Speaks
  /\ shell # <<>>
  /\ shell' = Tail(shell)
  /\ Emit(Message("beat", Head(shell)))
  /\ UNCHANGED <<stage, outcome, told, stalled, asked, commands, soak, late, local, beats, report>>

Asks ==
  /\ Speaks
  /\ ~asked
  /\ asked' = TRUE
  /\ Emit(Signal("query"))
  /\ UNCHANGED <<stage, outcome, told, stalled, shell, commands, soak, late, local, beats, report>>

\* It fails to reach the shell, loses it, or ends of its Close.
Ends ==
  /\ Runs
  /\ L!End(conn)
  /\ outcome'[conn].reason = "local" => told
  /\ commands' = <<>>
  /\ shell' = <<>>
  /\ UNCHANGED <<told, stalled, asked, events, soak, late, local, beats, report>>
----
(* run_connection. *)

\* The mutant of Connect: the heartbeats of each connection count from one.
ConnectCountingAnew ==
  /\ phase = "top" /\ ~late
  /\ conn < MaxConnections
  /\ conn' = conn + 1
  /\ L!Register(conn + 1)
  /\ phase' = "open"
  /\ told' = FALSE /\ stalled' = FALSE /\ asked' = FALSE /\ shell' = <<>>
  /\ commands' = <<>> /\ events' = <<>>
  /\ ready' = FALSE /\ closing' = FALSE /\ waiting' = "none"
  /\ inflight' = {} /\ unanswered' = 0 /\ sequence' = 0
  /\ UNCHANGED <<attempt, lost, late, acknowledged, report>>

Connect ==
  /\ phase = "top" /\ ~late
  /\ conn < MaxConnections
  /\ conn' = conn + 1
  /\ L!Register(conn + 1)
  /\ phase' = "open"
  /\ told' = FALSE /\ stalled' = FALSE /\ asked' = FALSE /\ shell' = <<>>
  /\ commands' = <<>> /\ events' = <<>>
  /\ ready' = FALSE /\ closing' = FALSE /\ waiting' = "none"
  /\ inflight' = {} /\ unanswered' = 0
  /\ UNCHANGED <<attempt, lost, late, sequence, acknowledged, report>>

AtSelect == Open /\ waiting = "none"
Recv(event) == AtSelect /\ ~closing /\ events # <<>> /\ Head(events) = event

RecvReady ==
  /\ Recv(Signal("ready"))
  /\ events' = Tail(events)
  /\ ready' = TRUE
  /\ report' = Count(Count(report, "ready", 1), "reconnects", IF lost THEN 1 ELSE 0)
  /\ UNCHANGED <<session, commands, soak, late, closing, waiting, beats>>

RecvQuery ==
  /\ Recv(Signal("query"))
  /\ events' = Tail(events)
  /\ waiting' = "reply"
  /\ UNCHANGED <<session, commands, soak, late, ready, closing, beats, report>>

\* An answer that came after its timeout is remembered and counted nowhere.
RecvAnswer(b) ==
  /\ Recv(Message("beat", b))
  /\ events' = Tail(events)
  /\ acknowledged' = acknowledged \cup {b}
  /\ inflight' = IF b \in acknowledged THEN inflight ELSE inflight \ {b}
  /\ LET inTime == b \notin acknowledged /\ b \in inflight
     IN /\ unanswered' = IF inTime THEN 0 ELSE unanswered
        /\ report' = IF b \in acknowledged THEN Count(report, "duplicates", 1)
                     ELSE IF inTime
                       THEN Count(Count(report, "acknowledged", 1), "missed", unanswered)
                       ELSE report
  /\ UNCHANGED <<session, commands, soak, late, local, sequence>>

\* The mutant of CloseAtDeadline: a deadline that is only noticed when idle.
CloseWhenIdle ==
  /\ AtSelect /\ ~closing
  /\ late /\ inflight = {}
  /\ closing' = TRUE
  /\ waiting' = "close"
  /\ UNCHANGED <<session, commands, events, soak, late, ready, beats, report>>

\* The soak's deadline, or READY_TIMEOUT.
CloseAtDeadline ==
  /\ AtSelect /\ ~closing
  /\ late \/ ~ready
  /\ closing' = TRUE
  /\ waiting' = "close"
  /\ UNCHANGED <<session, commands, events, soak, late, ready, beats, report>>

\* Heartbeats up to number `old` have timed out.
Beat(old) ==
  /\ AtSelect /\ ~closing
  /\ ready /\ ~late
  /\ sequence < MaxBeats
  /\ old \in 0 .. sequence
  /\ inflight' = {b \in inflight : b > old}
  /\ unanswered' = unanswered + Cardinality(inflight \ inflight')
  /\ sequence' = sequence + 1
  /\ waiting' = "beat"
  /\ UNCHANGED <<session, commands, events, soak, late, ready, closing, acknowledged, report>>

Send ==
  /\ Runs
  /\ waiting # "none"
  /\ Len(commands) < CommandCap
  /\ commands' = Append(commands, Message(waiting, IF waiting = "beat" THEN sequence ELSE 0))
  /\ waiting' = "none"
  /\ \/ /\ waiting = "beat"
        /\ inflight' = inflight \cup {sequence}
        /\ report' = Count(report, "sent", 1)
     \/ /\ waiting # "beat"
        /\ UNCHANGED <<inflight, report>>
  /\ UNCHANGED <<session, events, soak, late, ready, closing, sequence, unanswered, acknowledged>>

\* The receiver is gone: nothing was sent, the number is not used again.
SendFails ==
  /\ Open /\ stage[conn] = "ended"
  /\ waiting # "none"
  /\ waiting' = "none"
  /\ UNCHANGED <<session, commands, events, soak, late, ready, closing, beats, report>>
----
(* run_soak. *)

TransportLike(end) ==
  end.reason \in {"transport", "failed"} /\ end.cause \in {"timeout", "network"}

\* The mutant of should_auto_retry: one retry more than the budget.
OneRetryMore(end, n, reconnecting) ==
  /\ n <= MaxRetries + 1
  /\ \/ end.reason = "transport"
     \/ end.reason = "failed" /\ reconnecting /\ end.cause \in {"timeout", "network"}

should_auto_retry(end, n, reconnecting) ==
  /\ n <= MaxRetries
  /\ \/ end.reason = "transport"
     \/ end.reason = "failed" /\ reconnecting /\ end.cause \in {"timeout", "network"}

\* The mutant of Settle: what was in flight is counted on a lost link only.
SettleLossOnly(end) ==
  IF end.reason = "transport"
  THEN Count(report, "dropped", Cardinality(inflight) + unanswered)
  ELSE Count(report, "missed", unanswered)

\* What the end of a connection makes of its heartbeats.
Settle(end) ==
  LET settled == Count(report, "dropped", Cardinality(inflight))
  IN IF end.reason = "transport" THEN Count(settled, "dropped", unanswered)
     ELSE Count(settled, "missed", unanswered)

\* The session's task is joined: the counters are settled, and the loop decides
\* how to go on. The sleep before the next attempt is its top.
Join ==
  /\ AtSelect
  /\ stage[conn] = "ended"
  /\ L!Announce(conn)
  /\ LET end     == outcome[conn]
         before  == IF ready THEN 0 ELSE attempt
         retries == should_auto_retry(end, before + 1,
                      before > 0 \/ (ready /\ end.reason = "transport"))
         settled == Settle(end)
     IN IF late
        THEN /\ phase' = "over"
             /\ attempt' = before
             /\ lost' = (lost /\ ~ready)
             /\ report' = settled
        ELSE /\ phase' = "top"
             /\ lost' = TransportLike(end)
             /\ attempt' = IF retries THEN before + 1 ELSE 0
             /\ report' = IF retries THEN settled
                          ELSE Count(settled,
                                 IF TransportLike(end) THEN "exhausted" ELSE "unexpected", 1)
  /\ inflight' = {} /\ unanswered' = 0 /\ events' = <<>>
  /\ UNCHANGED <<told, stalled, shell, asked, conn, commands, late, local, sequence, acknowledged>>

Finish ==
  /\ phase = "top" /\ late
  /\ phase' = "over"
  /\ UNCHANGED <<session, commands, events, conn, attempt, lost, late, local, beats, report>>

Deadline ==
  /\ ~late
  /\ late' = TRUE
  /\ UNCHANGED <<session, commands, events, soak, local, beats, report>>
----
Driver ==
  \/ Connect \/ RecvReady \/ RecvQuery \/ (\E b \in Beats : RecvAnswer(b))
  \/ CloseAtDeadline \/ (\E old \in 0 .. MaxBeats : Beat(old))
  \/ Send \/ SendFails \/ Join \/ Finish
Peer == BecomesReady \/ WindowOpens \/ Answers \/ Asks \/ Ends

Init ==
  /\ L!Init
  /\ conn = 0 /\ told = FALSE /\ stalled = FALSE /\ shell = <<>> /\ asked = FALSE
  /\ commands = <<>> /\ events = <<>>
  /\ phase = "top" /\ late = FALSE
  /\ ready = FALSE /\ closing = FALSE /\ waiting = "none"
  /\ sequence = 0 /\ inflight = {} /\ unanswered = 0 /\ acknowledged = {}
  /\ attempt = 0 /\ lost = FALSE
  /\ report = [counter \in Counters |-> 0]

Next == Driver \/ Peer \/ TakesCommand \/ Deadline

\* Both tasks are polled, time passes, and a session that has taken its Close
\* ends. That a server answers the requests of the set-up, which have no timer,
\* that a shell answers, a window opens again or a shell is lost is not assumed.
Fairness ==
  /\ WF_vars(Driver) /\ WF_vars(TakesCommand) /\ WF_vars(Deadline)
  /\ WF_vars(Ends /\ told)

Spec == Init /\ [][Next]_vars /\ Fairness
----
TypeOK ==
  /\ stage \in [Connections -> L!Stages]
  /\ outcome \in [Connections -> {L!NoOutcome} \cup L!SetupOutcomes \cup L!ShellOutcomes]
  /\ conn \in 0 .. MaxConnections
  /\ {told, stalled, asked, late, ready, closing, lost} \subseteq BOOLEAN
  /\ shell \in Seq(Beats)
  /\ commands \in Seq(Messages({"close", "reply"})) /\ Len(commands) <= CommandCap
  /\ events \in Seq(Messages({"ready", "query"}))
  /\ phase \in {"top", "open", "over"}
  /\ waiting \in {"none", "beat", "reply", "close"}
  /\ sequence \in 0 .. MaxBeats
  /\ inflight \subseteq Beats /\ acknowledged \subseteq Beats
  /\ unanswered \in 0 .. MaxBeats
  /\ attempt \in 0 .. MaxRetries
  /\ report \in [Counters -> Nat]

\* Every heartbeat that was sent is counted exactly once, as acknowledged, missed
\* or dropped, or is still open; and since no heartbeat is sent twice, no answer
\* is ever taken for a replayed one.
HeartbeatsAddUp ==
  /\ report["sent"] = report["acknowledged"] + report["missed"] + report["dropped"]
                        + Cardinality(inflight) + unanswered
  /\ report["duplicates"] = 0

\* A session in set-up takes no command, the driver's Close included.
InSetup == Runs /\ stage[conn] = "setup"

\* The soak ends after its deadline, with a heartbeat waiting for room, a shell
\* that never answers, or a session that ends at the same moment, unless its
\* session waits for ever for a window to open or for a server in its set-up.
SoakEnds == late ~> (phase = "over" \/ []stalled \/ []InSetup)

\* What the fields of the report say of themselves, and what does not hold: a
\* budget that was counted as exhausted had been spent; a shell counted as a
\* reconnect followed an earlier one; a heartbeat counted as dropped was dropped
\* by a transport loss.
BudgetWasSpent ==
  [][report'["exhausted"] # report["exhausted"] => attempt >= MaxRetries]_vars
ReconnectsFollowShells == report["reconnects"] > 0 => report["reconnects"] < report["ready"]
DroppedByALoss ==
  [][report'["dropped"] # report["dropped"] => outcome[conn].reason = "transport"]_vars
=============================================================================
