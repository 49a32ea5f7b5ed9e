---------------------------- MODULE TerminalTab ----------------------------
(***************************************************************************)
(* One terminal tab of the UI (main.ts, reconnect.ts) above the backend    *)
(* sessions it opens one after the other: connect, typed input, automatic  *)
(* reconnect, close. The sessions behave as SessionLifecycle promises; the *)
(* tab reaches them by `invoke` and hears of them by an event channel, and *)
(* either may be overtaken by the other, by a timer or by the operator.    *)
(*                                                                         *)
(* The tab is an SSH tab; a local one differs in never retrying by itself. *)
(***************************************************************************)
EXTENDS Naturals, Sequences

CONSTANTS
  MaxConnections,  \* connections the tab may open in all
  MaxInput,        \* pieces of input the operator may type in all
  Backlog,         \* MAX_TERMINAL_INPUT_BACKLOG_BYTES, in pieces
  MaxRetries       \* MAX_AUTO_RETRIES

ASSUME TabAssumption ==
  /\ MaxConnections \in Nat
  /\ MaxInput \in Nat
  /\ Backlog \in Nat
  /\ MaxRetries \in Nat

Connections == 1 .. MaxConnections
None == 0

VARIABLES
  stage, outcome,  \* the backend's sessions (SessionLifecycle)
  asked,      \* connections the backend was asked to close
  closes,     \* close_session invokes on their way
  connects,   \* connection -> its connect invoke
  events,     \* connection -> events on their way to the UI
  open,       \* the tab exists
  current,    \* SessionUi.connectionId
  opened,     \* connections the tab has opened so far
  state,      \* SessionUi.state
  attempt,    \* SessionUi.retryAttempt
  timer,      \* retryTimer is armed
  buffer,     \* inputBuffer, for the connection that armed inputTimer
  chain,      \* pieces on inputChain, the head first
  sending,    \* the head of the chain is on its way to the backend
  typed,      \* connection -> pieces of input accepted for it
  pieces,     \* pieces of input accepted in all
  received,   \* connection -> pieces its shell got
  autos,      \* automatic connects since the last shell or operator's connect
  hadShell    \* a shell was reached since the operator's last connect

service == <<stage, outcome>>
invokes == <<asked, closes, connects>>
ui      == <<open, current, opened, state, attempt, timer>>
input   == <<buffer, chain, sending, typed, pieces, received>>
history == <<autos, hadShell>>
vars    == <<service, invokes, events, ui, input, history>>

Service == INSTANCE SessionLifecycle WITH Sessions <- Connections

Event(kind, o) == [kind |-> kind, outcome |-> o]
Ready     == Event("ready", Service!NoOutcome)
Closed(o) == Event("closed", o)
\* What the UI makes of a connect invoke that fails: closed, `failed`, no cause.
Refused   == Service!Outcome("failed", "none")

\* What one chunk of chunkTerminalInput carries, typed into one connection.
Piece == [conn : Connections, n : 1 .. MaxInput]

\* isCurrentConnection and canQueueTerminalInput
Current(c) == current = c
CanType    == current # None /\ state = "connected"

Registered(c) == stage[c] \in {"setup", "ready", "ended", "announced"}
----
(* The backend. *)

\* register_terminal, or its refusal: too many terminals are open.
ConnectArrives(c) ==
  /\ connects[c] = "sent"
  /\ \/ /\ Service!Register(c)
        /\ connects' = [connects EXCEPT ![c] = "ok"]
     \/ /\ connects' = [connects EXCEPT ![c] = "refused"]
        /\ UNCHANGED service
  /\ UNCHANGED <<asked, closes, events, ui, input, history>>

ReachShell(c) ==
  /\ Service!ReachShell(c)
  /\ events' = [events EXCEPT ![c] = Append(@, Ready)]
  /\ UNCHANGED <<invokes, ui, input, history>>

SessionEnds(c) ==
  /\ Service!End(c)
  /\ UNCHANGED <<invokes, events, ui, input, history>>

Announce(c) ==
  /\ Service!Announce(c)
  /\ events' = [events EXCEPT ![c] = Append(@, Closed(outcome[c]))]
  /\ UNCHANGED <<invokes, ui, input, history>>

Unregister(c) ==
  /\ Service!Unregister(c)
  /\ UNCHANGED <<invokes, events, ui, input, history>>

\* close_session: a session that is not registered is not found.
CloseArrives(c) ==
  /\ c \in closes
  /\ closes' = closes \ {c}
  /\ asked' = IF Registered(c) THEN asked \cup {c} ELSE asked
  /\ UNCHANGED <<service, connects, events, ui, input, history>>

\* session_input: the piece reaches the shell, or the session is gone.
InputArrives ==
  /\ sending
  /\ sending' = FALSE
  /\ chain' = Tail(chain)
  /\ LET p == Head(chain) IN
     received' = IF stage[p.conn] = "ready"
                 THEN [received EXCEPT ![p.conn] = Append(@, p.n)]
                 ELSE received
  /\ UNCHANGED <<service, invokes, events, ui, buffer, typed, pieces, history>>
----
(* startSession *)

\* Mutant: the retry timer outlives what it was armed for.
LeaveRetryTimer == UNCHANGED timer

ClearRetryTimers == timer' = FALSE

Connecting(c) ==
  /\ current' = c
  /\ opened' = c
  /\ state' = "connecting"
  /\ connects' = [connects EXCEPT ![c] = "sent"]

CanStart ==
  /\ open
  /\ state \notin {"connecting", "connected"}
  /\ opened < MaxConnections

\* The operator connects: the count of retries starts again.
Start ==
  /\ CanStart
  /\ Connecting(opened + 1)
  /\ attempt' = 0
  /\ ClearRetryTimers
  /\ autos' = 0
  /\ hadShell' = FALSE
  /\ UNCHANGED <<service, asked, closes, events, open, input>>

\* The retry timer fires.
Retry ==
  /\ timer
  /\ CanStart
  /\ Connecting(opened + 1)
  /\ timer' = FALSE
  /\ autos' = autos + 1
  /\ UNCHANGED <<service, asked, closes, events, open, attempt, input, hadShell>>

\* The route or the log directory is gone when the operator connects, or when
\* the timer fires: nothing is opened. The count of retries is reset only when
\* the operator asked, and only once the log is settled.
StartRefused ==
  /\ open
  /\ state \notin {"connecting", "connected"}
  /\ \/ attempt' = 0 /\ timer' = FALSE
     \/ timer /\ timer' = FALSE /\ attempt' = attempt
  /\ UNCHANGED <<service, invokes, events, open, current, opened, state, input,
                 history>>

CancelRetry ==
  /\ timer
  /\ ClearRetryTimers
  /\ attempt' = 0
  /\ UNCHANGED <<service, invokes, events, open, current, opened, state, input,
                 history>>
----
(* handleSessionEvent *)

\* Mutant: a failed attempt is retried whether or not a shell was lost.
RetriesAnyFailure(o, n, reconnecting) ==
  /\ n <= MaxRetries
  /\ \/ o.reason = "transport"
     \/ o.reason = "failed" /\ o.cause \in {"timeout", "network"}

\* Mutant: the bound is compared with the retries made, not with the next one.
RetriesOnceMore(o, n, reconnecting) ==
  /\ n <= MaxRetries + 1
  /\ \/ o.reason = "transport"
     \/ /\ reconnecting
        /\ o.reason = "failed"
        /\ o.cause \in {"timeout", "network"}

ShouldAutoRetry(o, n, reconnecting) ==
  /\ n <= MaxRetries
  /\ \/ o.reason = "transport"
     \/ /\ reconnecting
        /\ o.reason = "failed"
        /\ o.cause \in {"timeout", "network"}

\* Mutant: what was typed into the lost shell stays in the buffer.
KeepPendingInput == UNCHANGED buffer

DiscardPendingInput == buffer' = <<>>

\* The `closed` event of the current connection.
Close(o) ==
  /\ state' = "closed"
  /\ current' = None
  /\ DiscardPendingInput
  /\ timer' = ShouldAutoRetry(o, attempt + 1, attempt > 0)
  /\ attempt' = IF timer' THEN attempt + 1 ELSE attempt
  /\ UNCHANGED <<open, opened, chain, sending, typed, pieces, received, history>>

\* `ready`: the session is connected and the count of retries starts again.
Connected ==
  /\ state' = "connected"
  /\ attempt' = 0
  /\ autos' = 0
  /\ hadShell' = TRUE
  /\ UNCHANGED <<open, current, opened, timer, input>>

HandleEvent(c) ==
  /\ events[c] # <<>>
  /\ events' = [events EXCEPT ![c] = Tail(@)]
  /\ \/ ~Current(c) /\ UNCHANGED <<ui, input, history>>
     \/ Current(c) /\ Head(events[c]) = Ready /\ Connected
     \/ /\ Current(c)
        /\ Head(events[c]).kind = "closed"
        /\ Close(Head(events[c]).outcome)
  /\ UNCHANGED <<service, invokes>>

\* Mutant: a connection that was registered too late is left alone.
ConnectReturnsSilently(c) ==
  /\ connects[c] \in {"ok", "refused"}
  /\ connects' = [connects EXCEPT ![c] = "done"]
  /\ \/ /\ connects[c] = "ok"
        /\ UNCHANGED <<closes, ui, input, history>>
     \/ /\ connects[c] = "refused" /\ Current(c)
        /\ Close(Refused)
        /\ UNCHANGED closes
     \/ /\ connects[c] = "refused" /\ ~Current(c)
        /\ UNCHANGED <<closes, ui, input, history>>
  /\ UNCHANGED <<service, asked, events>>

\* The connect invoke resolves. A tab closed or reconnected meanwhile asks again
\* for a close that may not have found the session; a refusal is turned into the
\* events of a session that failed.
ConnectReturns(c) ==
  /\ connects[c] \in {"ok", "refused"}
  /\ connects' = [connects EXCEPT ![c] = "done"]
  /\ \/ /\ connects[c] = "ok"
        /\ closes' = IF Current(c) THEN closes ELSE closes \cup {c}
        /\ UNCHANGED <<ui, input, history>>
     \/ /\ connects[c] = "refused" /\ Current(c)
        /\ Close(Refused)
        /\ UNCHANGED closes
     \/ /\ connects[c] = "refused" /\ ~Current(c)
        /\ UNCHANGED <<closes, ui, input, history>>
  /\ UNCHANGED <<service, asked, events>>

\* closeSession
CloseTab ==
  /\ open
  /\ open' = FALSE
  /\ current' = None
  /\ state' = "closed"
  /\ closes' = IF current # None /\ state \in {"connecting", "connected"}
               THEN closes \cup {current} ELSE closes
  /\ ClearRetryTimers
  /\ DiscardPendingInput
  /\ UNCHANGED <<service, asked, connects, events, opened, attempt, chain, sending,
                 typed, pieces, received, history>>
----
(* queueInput: a 4 ms buffer, then a chain of invokes, one at a time. *)

Pending == Len(buffer) + Len(chain)

\* The timer of the buffer belongs to the connection that was typed into first.
Type ==
  LET c == current IN
  /\ CanType
  /\ pieces < MaxInput
  /\ pieces' = pieces + 1
  /\ Pending < Backlog
  /\ typed' = [typed EXCEPT ![c] = @ + 1]
  /\ buffer' = Append(buffer,
       [conn |-> IF buffer = <<>> THEN c ELSE buffer[1].conn, n |-> typed[c] + 1])
  /\ UNCHANGED <<service, invokes, events, ui, chain, sending, received, history>>

FlushInput ==
  /\ buffer # <<>>
  /\ chain' = chain \o buffer
  /\ buffer' = <<>>
  /\ UNCHANGED <<service, invokes, events, ui, sending, typed, pieces, received, history>>

\* The next piece of the chain: sent to the connection it was typed into, or
\* dropped when that is not the tab's connection any more.
SendPiece ==
  /\ chain # <<>>
  /\ ~sending
  /\ \/ /\ Current(Head(chain).conn) /\ CanType
        /\ sending' = TRUE
        /\ UNCHANGED chain
     \/ /\ ~(Current(Head(chain).conn) /\ CanType)
        /\ chain' = Tail(chain)
        /\ UNCHANGED sending
  /\ UNCHANGED <<service, invokes, events, ui, buffer, typed, pieces, received, history>>
----
Init ==
  /\ Service!Init
  /\ asked = {}
  /\ closes = {}
  /\ connects = [c \in Connections |-> "none"]
  /\ events = [c \in Connections |-> <<>>]
  /\ open = TRUE
  /\ current = None
  /\ opened = 0
  /\ state = "idle"
  /\ attempt = 0
  /\ timer = FALSE
  /\ buffer = <<>>
  /\ chain = <<>>
  /\ sending = FALSE
  /\ typed = [c \in Connections |-> 0]
  /\ pieces = 0
  /\ received = [c \in Connections |-> <<>>]
  /\ autos = 0
  /\ hadShell = FALSE

InvokeStep(c) ==
  \/ ConnectArrives(c)
  \/ ConnectReturns(c)
  \/ CloseArrives(c)

InputStep == FlushInput \/ SendPiece \/ InputArrives

Next ==
  \/ \E c \in Connections :
       \/ InvokeStep(c)
       \/ ReachShell(c)
       \/ SessionEnds(c)
       \/ Announce(c)
       \/ Unregister(c)
       \/ HandleEvent(c)
  \/ Start
  \/ Retry
  \/ StartRefused
  \/ CancelRetry
  \/ CloseTab
  \/ Type
  \/ InputStep

Spec == Init /\ [][Next]_vars
----
TypeOK ==
  /\ stage \in [Connections -> Service!Stages]
  /\ asked \subseteq 1 .. opened
  /\ closes \subseteq 1 .. opened
  /\ connects \in [Connections -> {"none", "sent", "ok", "refused", "done"}]
  /\ open \in BOOLEAN
  /\ opened \in 0 .. MaxConnections
  /\ current \in {None, opened}
  /\ state \in {"idle", "connecting", "connected", "closed"}
  /\ current # None <=> state \in {"connecting", "connected"}
  /\ attempt \in 0 .. MaxRetries
  /\ timer \in BOOLEAN
  /\ timer => open /\ state = "closed"
  /\ buffer \in Seq(Piece)
  /\ chain \in Seq(Piece)
  /\ sending \in BOOLEAN
  /\ sending => chain # <<>>
  /\ pieces \in 0 .. MaxInput
  /\ typed \in [Connections -> 0 .. pieces]
  /\ received \in [Connections -> Seq(1 .. MaxInput)]

UpTo(n) == [i \in 1 .. n |-> i]

\* The pieces the UI still holds, in line, and the places of those typed into c.
Waiting == chain \o buffer
Held(c) == {i \in DOMAIN Waiting : Waiting[i].conn = c}

\* A shell gets what was typed into it, once, in order, and nothing typed into
\* another; and while it lives, nothing accepted for it is lost.
InputReachesItsShell ==
  \A c \in Connections :
    /\ received[c] = UpTo(Len(received[c]))
    /\ Current(c) /\ state = "connected" /\ stage[c] = "ready" =>
         /\ {Waiting[i].n : i \in Held(c)} = Len(received[c]) + 1 .. typed[c]
         /\ \A i, j \in Held(c) : i < j => Waiting[i].n < Waiting[j].n

\* Between two shells, or two decisions of the operator, the tab connects by
\* itself at most MAX_AUTO_RETRIES times.
RetriesAreBounded == autos <= MaxRetries

\* "A first connection that fails, or any config / host-key / authentication
\* refusal, never retries by itself" (shouldAutoRetry): the tab reconnects by
\* itself only when a shell was reached since the operator last connected.
RetryOnlyAfterAShell == timer => hadShell

\* No session runs without a tab: one that is live and is not its tab's current
\* connection has been asked to close, or is about to be.
NoOrphanSession ==
  \A c \in Connections :
    stage[c] \in {"setup", "ready"} /\ ~Current(c)
      => c \in asked \cup closes \/ connects[c] = "ok"
=============================================================================
