--------------------------- MODULE SecurePrompts ---------------------------
(***************************************************************************)
(* The host-key and authentication dialogs of the UI (main.ts,             *)
(* prompt-queue.ts) above several connections that ask at once.            *)
(*                                                                         *)
(* A connection's task asks, by an event, and waits; the UI keeps the      *)
(* prompts of all tabs in two PromptQueues and shows one dialog at a time; *)
(* an answer is an `invoke`, whose result reaches the UI as a later step,  *)
(* after any other event. Everything the UI does in one JavaScript task is *)
(* one action.                                                             *)
(***************************************************************************)
EXTENDS Naturals, Sequences, FiniteSets

CONSTANTS
  Tabs,
  MaxConnections,  \* connections the tabs may start in all
  MaxPrompts,      \* prompts the connections may issue in all
  MaxCalls         \* answers that may be under way at once

ASSUME PromptAssumption ==
  /\ MaxConnections \in Nat
  /\ MaxPrompts \in Nat
  /\ MaxCalls \in Nat

Connections == 1 .. MaxConnections
Prompts     == 1 .. MaxPrompts
Nothing     == 0

VARIABLES
  open,      \* tabs the operator has not closed
  current,   \* tab -> SessionUi.connectionId
  started,   \* the tab of each connection, in the order they were started
  ended,     \* connections whose task has returned
  awaited,   \* connection -> the prompt its task waits for
  prompts,   \* every prompt issued: its connection and its kind
  events,    \* connection -> events on their way to the UI
  screen,    \* hostKeyPrompts and authPrompts
  calls      \* answers under way

vars == <<open, current, started, ended, awaited, prompts, events, screen,
          calls>>

backend == <<ended, awaited, prompts>>
tabs    == <<open, current, started>>

Closed     == 0  \* the `closed` event; the others carry a prompt
Kinds      == {"unknown", "changed", "auth"}
Prompt     == [conn : Connections, kind : Kinds]
PromptQueue == [active : Prompts \cup {Nothing}, pending : Seq(Prompts)]
Screen     == [host : PromptQueue, auth : PromptQueue]
Empty      == [active |-> Nothing, pending |-> <<>>]
Call       == [prompt : Prompts, try : 1 .. MaxCalls,
               state : {"sent", "ok", "failed"}]

Tab(p) == started[prompts[p].conn]
----
(* class PromptQueue *)

Enqueue(q, p) == [q EXCEPT !.pending = Append(@, p)]

ActivateNext(q) ==
  IF q.active = Nothing /\ q.pending # <<>>
  THEN [active |-> Head(q.pending), pending |-> Tail(q.pending)]
  ELSE q

Finished(q) == [q EXCEPT !.active = Nothing]

\* How many of the positions K come no later than i.
Place(K, i) == Cardinality({j \in K : j <= i})

\* discardPending: what is left of s keeps its order.
Without(s, drop) ==
  LET kept == {i \in DOMAIN s : s[i] \notin drop}
  IN [n \in 1 .. Cardinality(kept) |-> s[CHOOSE i \in kept : Place(kept, i) = n]]

Discard(q, drop) ==
  [active  |-> IF q.active \in drop THEN Nothing ELSE q.active,
   pending |-> Without(q.pending, drop)]

\* Mutant: the dialog of the other queue is not looked at.
ShowNextOver(s) ==
  IF s.host.active = Nothing /\ s.host.pending # <<>>
  THEN [s EXCEPT !.host = ActivateNext(@)]
  ELSE [s EXCEPT !.auth = ActivateNext(@)]

\* showNextSecurePrompt: one dialog at a time, host keys first.
ShowNext(s) ==
  IF s.host.active # Nothing \/ s.auth.active # Nothing THEN s
  ELSE IF s.host.pending # <<>> THEN [s EXCEPT !.host = ActivateNext(@)]
  ELSE [s EXCEPT !.auth = ActivateNext(@)]

\* Mutant: every prompt is taken for one about a host key.
ShowAsHostKey(s, p) == ShowNext([s EXCEPT !.host = Enqueue(@, p)])

\* enqueueHostKeyPrompt, enqueueAuthPrompt
Show(s, p) ==
  ShowNext(IF prompts[p].kind = "auth"
           THEN [s EXCEPT !.auth = Enqueue(@, p)]
           ELSE [s EXCEPT !.host = Enqueue(@, p)])

\* A dialog that is discarded makes room for the next one.
Discarded(s, which, drop) ==
  LET d == [s EXCEPT ![which] = Discard(@, drop)] IN
  IF d[which].active # s[which].active THEN ShowNext(d) ELSE d

\* Mutant: the warning goes with the connection it refused.
DiscardAll(s, t, preserveChanged) ==
  LET all == {p \in DOMAIN prompts : Tab(p) = t} IN
  Discarded(Discarded(s, "host", all), "auth", all)

\* discardHostKeyPrompts, then discardAuthPrompts.
DiscardOf(s, t, preserveChanged) ==
  LET all  == {p \in DOMAIN prompts : Tab(p) = t}
      kept == {p \in all : preserveChanged /\ prompts[p].kind = "changed"}
  IN Discarded(Discarded(s, "host", all \ kept), "auth", all)
----
(* The connections. *)

\* startSession, once its invoke has registered the connection.
Start(t) ==
  /\ t \in open
  /\ current[t] = Nothing
  /\ Len(started) < MaxConnections
  /\ started' = Append(started, t)
  /\ current' = [current EXCEPT ![t] = Len(started) + 1]
  /\ UNCHANGED <<open, backend, events, screen, calls>>

Live(c) == c \in DOMAIN started /\ c \notin ended

Issue(c, kind) ==
  /\ Live(c)
  /\ awaited[c] = Nothing
  /\ Len(prompts) < MaxPrompts
  /\ prompts' = Append(prompts, [conn |-> c, kind |-> kind])

\* HostVerifier::prompt and auth_prompt, then the wait for the answer.
Ask(c, kind) ==
  /\ Issue(c, kind)
  /\ awaited' = [awaited EXCEPT ![c] = Len(prompts) + 1]
  /\ events' = [events EXCEPT ![c] = Append(@, Len(prompts) + 1)]
  /\ UNCHANGED <<ended, tabs, screen, calls>>

\* A changed key is shown and refused.
WarnChanged(c) ==
  /\ Issue(c, "changed")
  /\ ended' = ended \cup {c}
  /\ events' = [events EXCEPT ![c] = @ \o <<Len(prompts) + 1, Closed>>]
  /\ UNCHANGED <<awaited, tabs, screen, calls>>

\* The task ends for any other reason, a time-out of the prompt included.
End(c) ==
  /\ Live(c)
  /\ ended' = ended \cup {c}
  /\ awaited' = [awaited EXCEPT ![c] = Nothing]
  /\ events' = [events EXCEPT ![c] = Append(@, Closed)]
  /\ UNCHANGED <<prompts, tabs, screen, calls>>
----
(* The UI: handleSessionEvent. *)

\* Mutant: isCurrentConnection is not asked.
DeliverAny(c) ==
  /\ events[c] # <<>>
  /\ events' = [events EXCEPT ![c] = Tail(@)]
  /\ LET e == Head(events[c])
         t == started[c] IN
     \/ /\ e = Closed
        /\ current' = [current EXCEPT ![t] = Nothing]
        /\ screen' = DiscardOf(screen, t, TRUE)
     \/ /\ e # Closed
        /\ screen' = Show(screen, e)
        /\ UNCHANGED current
  /\ UNCHANGED <<open, started, backend, calls>>

\* Events of a connection the tab no longer has are dropped.
Deliver(c) ==
  /\ events[c] # <<>>
  /\ events' = [events EXCEPT ![c] = Tail(@)]
  /\ LET e == Head(events[c])
         t == started[c] IN
     \/ /\ current[t] # c
        /\ UNCHANGED <<current, screen>>
     \/ /\ current[t] = c
        /\ e = Closed
        /\ current' = [current EXCEPT ![t] = Nothing]
        /\ screen' = DiscardOf(screen, t, TRUE)
     \/ /\ current[t] = c
        /\ e # Closed
        /\ screen' = Show(screen, e)
        /\ UNCHANGED current
  /\ UNCHANGED <<open, started, backend, calls>>

\* closeSession
CloseTab(t) ==
  /\ t \in open
  /\ open' = open \ {t}
  /\ current' = [current EXCEPT ![t] = Nothing]
  /\ screen' = DiscardOf(screen, t, FALSE)
  /\ UNCHANGED <<started, backend, events, calls>>
----
(* The UI: answers. A button is disabled while its answer is under way, but *)
(* Escape is not: it answers the same prompt again.                         *)

Invoke(p) ==
  \E n \in 1 .. MaxCalls :
    /\ \A call \in calls : call.try # n
    /\ calls' = calls \cup {[prompt |-> p, try |-> n, state |-> "sent"]}

AnswerHostKey ==
  /\ screen.host.active # Nothing
  /\ prompts[screen.host.active].kind = "unknown"
  /\ Invoke(screen.host.active)
  /\ UNCHANGED <<tabs, backend, events, screen>>

\* A changed-key warning has nothing to answer.
DismissChanged ==
  /\ screen.host.active # Nothing
  /\ prompts[screen.host.active].kind = "changed"
  /\ screen' = ShowNext([screen EXCEPT !.host = Finished(@)])
  /\ UNCHANGED <<tabs, backend, events, calls>>

SubmitAuth ==
  /\ screen.auth.active # Nothing
  /\ Invoke(screen.auth.active)
  /\ UNCHANGED <<tabs, backend, events, screen>>

Advance(call, state) ==
  calls' = (calls \ {call}) \cup {[call EXCEPT !.state = state]}

\* The answer reaches the connection, which takes it only for the prompt it
\* waits for, or fails because the connection has ended.
Receive(call) ==
  LET c == prompts[call.prompt].conn IN
  /\ call.state = "sent"
  /\ \/ /\ c \notin ended
        /\ Advance(call, "ok")
        /\ awaited' = [awaited EXCEPT
             ![c] = IF @ = call.prompt THEN Nothing ELSE @]
     \/ /\ c \in ended
        /\ Advance(call, "failed")
        /\ UNCHANGED awaited
  /\ UNCHANGED <<tabs, ended, prompts, events, screen>>

\* The invoke resolves: the dialog on screen is taken for the answered one.
HostKeyAnswered(call) ==
  /\ call.state # "sent"
  /\ prompts[call.prompt].kind = "unknown"
  /\ calls' = calls \ {call}
  /\ screen' = ShowNext([screen EXCEPT !.host = Finished(@)])
  /\ UNCHANGED <<tabs, backend, events>>

\* An auth dialog stays up for another try when its answer could not be sent.
AuthAnswered(call) ==
  /\ call.state # "sent"
  /\ prompts[call.prompt].kind = "auth"
  /\ calls' = calls \ {call}
  /\ screen' = IF call.state = "ok"
               THEN ShowNext([screen EXCEPT !.auth = Finished(@)])
               ELSE screen
  /\ UNCHANGED <<tabs, backend, events>>
----
Init ==
  /\ open = Tabs
  /\ current = [t \in Tabs |-> Nothing]
  /\ started = <<>>
  /\ ended = {}
  /\ awaited = [c \in Connections |-> Nothing]
  /\ prompts = <<>>
  /\ events = [c \in Connections |-> <<>>]
  /\ screen = [host |-> Empty, auth |-> Empty]
  /\ calls = {}

BackendStep(c) ==
  \/ \E kind \in {"unknown", "auth"} : Ask(c, kind)
  \/ WarnChanged(c)
  \/ End(c)

CallStep(call) ==
  \/ Receive(call)
  \/ HostKeyAnswered(call)
  \/ AuthAnswered(call)

Next ==
  \/ \E t \in Tabs : Start(t) \/ CloseTab(t)
  \/ \E c \in Connections : BackendStep(c) \/ Deliver(c)
  \/ AnswerHostKey
  \/ DismissChanged
  \/ SubmitAuth
  \/ \E call \in calls : CallStep(call)

Spec == Init /\ [][Next]_vars
----
Held(q)  == ({q.active} \ {Nothing}) \cup {q.pending[i] : i \in DOMAIN q.pending}
Shown    == {screen.host.active, screen.auth.active} \ {Nothing}
OnScreen == Held(screen.host) \cup Held(screen.auth)

TypeOK ==
  /\ open \subseteq Tabs
  /\ current \in [Tabs -> Connections \cup {Nothing}]
  /\ started \in Seq(Tabs)
  /\ ended \subseteq DOMAIN started
  /\ awaited \in [Connections -> Prompts \cup {Nothing}]
  /\ prompts \in Seq(Prompt)
  /\ events \in [Connections -> Seq(Prompts \cup {Closed})]
  /\ screen \in Screen
  /\ \A p \in Held(screen.host) : prompts[p].kind # "auth"
  /\ \A p \in Held(screen.auth) : prompts[p].kind = "auth"
  /\ calls \subseteq Call


\* One secure dialog at a time, and whoever discards, dismisses or answers one
\* brings up the next: no prompt waits in a queue behind an empty screen.
OneDialogAndNoneForgotten ==
  /\ Nothing \in {screen.host.active, screen.auth.active}
  /\ Shown = {} => OnScreen = {}

\* "never leave an actionable prompt targeting a dead connection" (main.ts, the
\* closed event): whatever can still be answered, on screen or queued, was asked
\* by the connection its tab has now.
ActionablePromptsAreCurrent ==
  \A p \in OnScreen :
    prompts[p].kind # "changed" => current[Tab(p)] = prompts[p].conn

\* A changed-key warning explains a refusal, so the end of the refused connection
\* never takes it away unseen: while its tab is open, a warning leaves the queues
\* only from the dialog that shows it.
WarningsAreSeen ==
  [][\A p \in OnScreen :
       /\ prompts[p].kind = "changed"
       /\ p \notin OnScreen'
       => \/ p = screen.host.active
          \/ Tab(p) \notin open']_screen

\* Each prompt is kept for the operator until it is answered: a prompt that its
\* connection waits for, and that the UI of its tab has received, is on screen,
\* queued, or has an answer under way.
AwaitedPromptIsKept ==
  \A c \in DOMAIN started :
    LET p == awaited[c] IN
    p # Nothing /\ current[started[c]] = c
      => \/ \E i \in DOMAIN events[c] : events[c][i] = p
         \/ p \in OnScreen
         \/ \E call \in calls : call.prompt = p
=============================================================================
