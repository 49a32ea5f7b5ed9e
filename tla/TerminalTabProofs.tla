------------------------- MODULE TerminalTabProofs -------------------------
(***************************************************************************)
(* Proofs about TerminalTab, for any number of connections, retries and    *)
(* pieces of input: the tab redials by itself no more often than allowed   *)
(* and only after a shell, no session runs without its tab, and what is    *)
(* typed into a shell reaches it, once and in order.                       *)
(***************************************************************************)
EXTENDS TerminalTab, SequenceTheorems, TLAPS

Outcomes == {Service!NoOutcome} \cup Service!SetupOutcomes \cup Service!ShellOutcomes
Events   == [kind : {"ready", "closed"}, outcome : Outcomes]

\* The types these proofs need: the sessions, the invokes and the tab.
SessionTypes ==
  /\ stage \in [Connections -> Service!Stages]
  /\ outcome \in [Connections -> Outcomes]
  /\ events \in [Connections -> Seq(Events)]
  /\ connects \in [Connections -> {"none", "sent", "ok", "refused", "done"}]

TabTypes ==
  /\ opened \in 0 .. MaxConnections
  /\ current \in {None, opened}
  /\ current # None <=> state \in {"connecting", "connected"}
  /\ attempt \in 0 .. MaxRetries
  /\ timer \in BOOLEAN
  /\ timer => current = None
  /\ autos \in Nat
  /\ hadShell \in BOOLEAN

\* A session is registered by its connect invoke, and speaks only afterwards; a
\* connection not opened yet has neither. `closed` is the last it says.
InOrder ==
  \A c \in Connections :
    /\ c > opened => connects[c] = "none"
    /\ connects[c] \in {"none", "sent", "refused"} => stage[c] = "absent"
    /\ stage[c] \in {"absent", "setup"} => events[c] = <<>>
    /\ \A i \in DOMAIN events[c] :
         events[c][i].kind = "closed" => stage[c] \in {"announced", "gone"}

\* Whoever ends as a lost shell does has said `ready` before, and the tab has
\* heard it before it hears of the end.
LossAfterShell ==
  \A c \in Connections :
    Current(c) /\ ~hadShell =>
      /\ stage[c] = "ready" \/ (stage[c] = "ended" /\ outcome[c].reason = "transport")
           => \E j \in DOMAIN events[c] : events[c][j].kind = "ready"
      /\ \A i \in DOMAIN events[c] :
           events[c][i].kind = "closed" /\ events[c][i].outcome.reason = "transport"
             => \E j \in 1 .. i - 1 : events[c][j].kind = "ready"

\* An attempt is counted before it is made, from a shell on.
Counted ==
  /\ autos <= MaxRetries
  /\ current # None => autos <= attempt
  /\ timer => autos < attempt
  /\ attempt > 0 => hadShell

IInv ==
  SessionTypes /\ TabTypes /\ InOrder /\ LossAfterShell /\ Counted /\ NoOrphanSession

USE TabAssumption

----
LEMMA InitIInv == Init => IInv
<1>. SUFFICES ASSUME Init PROVE IInv
  OBVIOUS
<1>1. SessionTypes
  <2>1. stage \in [Connections -> Service!Stages] /\ outcome \in [Connections -> Outcomes]
    BY DEF Init, Service!Init, Service!Stages, Outcomes
  <2>2. <<>> \in Seq(Events)
    OBVIOUS
  <2>. QED BY <2>1, <2>2 DEF Init, SessionTypes
<1>2. TabTypes /\ Counted
  <2>1. /\ opened = 0 /\ current = None /\ state = "idle" /\ attempt = 0 /\ autos = 0
        /\ timer = FALSE /\ hadShell = FALSE
    BY DEF Init
  <2>2. attempt \in 0 .. MaxRetries /\ opened \in 0 .. MaxConnections /\ autos \in Nat
    BY <2>1
  <2>3. TabTypes BY <2>1, <2>2 DEF TabTypes
  <2>4. Counted BY <2>1 DEF Counted
  <2>. QED BY <2>3, <2>4
<1>3. InOrder /\ LossAfterShell /\ NoOrphanSession
  BY DEF Init, InOrder, LossAfterShell, NoOrphanSession, Connections, None, Current,
     Service!Init
<1>. QED BY <1>1, <1>2, <1>3 DEF IInv

\* A session's own steps; only Announce speaks of its end.
LEMMA ServiceKeepsIInv ==
  ASSUME IInv, NEW c \in Connections,
         ReachShell(c) \/ SessionEnds(c) \/ Announce(c) \/ Unregister(c)
  PROVE  IInv'
<1>. USE DEF IInv, SessionTypes, InOrder, Service!To, Service!Stages
<1>1. /\ UNCHANGED <<invokes, ui, history>>
      /\ \A d \in Connections \ {c} :
           stage'[d] = stage[d] /\ outcome'[d] = outcome[d] /\ events'[d] = events[d]
  BY DEF ReachShell, SessionEnds, Announce, Unregister, Service!ReachShell,
     Service!End, Service!Announce, Service!Unregister
<1>2. TabTypes' /\ Counted'
  BY <1>1 DEF TabTypes, Counted, ui, history
<1>3. CASE ReachShell(c)
  <2>0. Ready \in Events
    BY DEF Ready, Event, Events, Outcomes
  <2>1. /\ events[c] = <<>>
        /\ events' = [events EXCEPT ![c] = Append(@, Ready)]
        /\ events'[c] = Append(<<>>, Ready)
    BY <1>3 DEF ReachShell, Service!ReachShell
  <2>2. stage[c] = "setup" /\ stage' = [stage EXCEPT ![c] = "ready"] /\ outcome' = outcome
    BY <1>3 DEF ReachShell, Service!ReachShell
  <2>3. SessionTypes'
    BY <1>1, <2>0, <2>1, <2>2 DEF invokes
  <2>4. InOrder'
    BY <1>1, <2>1, <2>2 DEF invokes, ui, Ready, Event
  <2>5. LossAfterShell'
    <3>1. DOMAIN events'[c] = 1 .. 1 /\ events'[c][1] = Ready /\ Ready.kind = "ready"
      <4>1. /\ Append(<<>>, Ready)[1] = Ready /\ Len(Append(<<>>, Ready)) = 1
            /\ DOMAIN Append(<<>>, Ready) = 1 .. 1
        BY <2>0
      <4>. QED BY <2>1, <4>1 DEF Ready, Event
    <3>2. /\ \E j \in DOMAIN events'[c] : events'[c][j].kind = "ready"
          /\ \A i \in DOMAIN events'[c] : events'[c][i].kind = "ready"
      BY <3>1
    <3>3. current' = current /\ hadShell' = hadShell
      BY <1>1 DEF ui, history
    <3>4. ASSUME NEW d \in Connections, d # c
          PROVE  stage'[d] = stage[d] /\ outcome'[d] = outcome[d] /\ events'[d] = events[d]
      BY <1>1, <3>4
    <3>5. \A i \in DOMAIN events'[c] : events'[c][i].kind # "closed"
      BY <3>2
    <3>. SUFFICES ASSUME NEW d \in Connections, current = d, ~hadShell
         PROVE  /\ stage'[d] = "ready" \/ (stage'[d] = "ended" /\ outcome'[d].reason = "transport")
                     => \E j \in DOMAIN events'[d] : events'[d][j].kind = "ready"
                /\ \A i \in DOMAIN events'[d] :
                     events'[d][i].kind = "closed" /\ events'[d][i].outcome.reason = "transport"
                       => \E j \in 1 .. i - 1 : events'[d][j].kind = "ready"
      BY <3>3 DEF LossAfterShell, Current
    <3>6. CASE d = c
      BY <3>2, <3>5, <3>6
    <3>7. CASE d # c
      <4>1. stage'[d] = stage[d] /\ outcome'[d] = outcome[d] /\ events'[d] = events[d]
        BY <3>4, <3>7
      <4>2. /\ stage[d] = "ready" \/ (stage[d] = "ended" /\ outcome[d].reason = "transport")
                 => \E j \in DOMAIN events[d] : events[d][j].kind = "ready"
            /\ \A i \in DOMAIN events[d] :
                 events[d][i].kind = "closed" /\ events[d][i].outcome.reason = "transport"
                   => \E j \in 1 .. i - 1 : events[d][j].kind = "ready"
        BY DEF LossAfterShell, Current
      <4>. QED BY <4>1, <4>2
    <3>. QED BY <3>6, <3>7
  <2>6. NoOrphanSession'
    BY <1>1, <2>2 DEF NoOrphanSession, Current, invokes, ui
  <2>. QED BY <1>2, <2>3, <2>4, <2>5, <2>6
<1>4. CASE SessionEnds(c)
  <2>1. /\ stage' = [stage EXCEPT ![c] = "ended"]
        /\ events' = events
        /\ \/ stage[c] = "setup" /\ outcome'[c] \in Service!SetupOutcomes
           \/ stage[c] = "ready" /\ outcome'[c] \in Service!ShellOutcomes
    BY <1>4 DEF SessionEnds, Service!End
  <2>2. outcome' \in [Connections -> Outcomes]
    BY <1>4 DEF SessionEnds, Service!End, Outcomes
  <2>3. stage[c] = "setup" => outcome'[c].reason # "transport"
    BY <2>1 DEF Service!SetupOutcomes, Service!ShellOutcomes, Service!Outcome
  <2>4. LossAfterShell'
    BY <1>1, <2>1, <2>3 DEF LossAfterShell, Current, ui, history
  <2>5. InOrder' /\ NoOrphanSession'
    BY <1>1, <2>1 DEF NoOrphanSession, Current, invokes, ui
  <2>. QED BY <1>1, <1>2, <2>1, <2>2, <2>4, <2>5 DEF invokes
<1>5. CASE Announce(c)
  <2>1. /\ stage[c] = "ended" /\ stage' = [stage EXCEPT ![c] = "announced"]
        /\ events' = [events EXCEPT ![c] = Append(@, Closed(outcome[c]))]
        /\ outcome' = [outcome EXCEPT ![c] = Service!NoOutcome]
        /\ Closed(outcome[c]) \in Events
    BY <1>5 DEF Announce, Service!Announce, Closed, Event, Events
  <2>2. /\ events'[c] = Append(events[c], Closed(outcome[c]))
        /\ DOMAIN events'[c] = 1 .. Len(events[c]) + 1
        /\ \A i \in DOMAIN events[c] : events'[c][i] = events[c][i]
        /\ DOMAIN events[c] = 1 .. Len(events[c]) /\ Len(events[c]) \in Nat
        /\ events'[c][Len(events[c]) + 1] = Closed(outcome[c])
    BY <2>1
  <2>3. SessionTypes'
    BY <1>1, <2>1 DEF invokes, Outcomes
  <2>4. InOrder' /\ NoOrphanSession'
    BY <1>1, <2>1 DEF NoOrphanSession, Current, invokes, ui
  <2>5. ASSUME Current(c)', ~hadShell'
        PROVE  \A i \in DOMAIN events'[c] :
                 events'[c][i].kind = "closed" /\ events'[c][i].outcome.reason = "transport"
                   => \E j \in 1 .. i - 1 : events'[c][j].kind = "ready"
    <3>. SUFFICES ASSUME NEW i \in DOMAIN events'[c], events'[c][i].kind = "closed",
                         events'[c][i].outcome.reason = "transport"
                  PROVE  \E j \in 1 .. i - 1 : events'[c][j].kind = "ready"
      OBVIOUS
    <3>0. Current(c) /\ ~hadShell
      BY <1>1, <2>5 DEF Current, ui, history
    <3>1. CASE i \in DOMAIN events[c]
      <4>0. events[c][i].kind = "closed" /\ events[c][i].outcome.reason = "transport"
        BY <2>2, <3>1
      <4>a. \E j \in 1 .. i - 1 : events[c][j].kind = "ready"
        BY ONLY <3>0, <3>1, <4>0, LossAfterShell, c \in Connections DEF LossAfterShell
      <4>1. PICK j \in 1 .. i - 1 : events[c][j].kind = "ready"
        BY <4>a
      <4>2. j \in DOMAIN events[c]
        BY <2>2, <3>1
      <4>. QED BY <2>2, <4>1, <4>2
    <3>2. CASE i = Len(events[c]) + 1
      <4>1. outcome[c].reason = "transport"
        BY <2>2, <3>2 DEF Closed, Event
      <4>2. PICK j \in DOMAIN events[c] : events[c][j].kind = "ready"
        BY <2>1, <3>0, <4>1 DEF LossAfterShell
      <4>. QED BY <2>2, <3>2, <4>2
    <3>3. i \in DOMAIN events[c] \/ i = Len(events[c]) + 1
      BY <2>2
    <3>. QED BY <3>1, <3>2, <3>3
  <2>6. LossAfterShell'
    <3>1. stage'[c] = "announced"
      BY <2>1
    <3>2. \A d \in Connections \ {c} :
            stage'[d] = stage[d] /\ outcome'[d] = outcome[d] /\ events'[d] = events[d]
      BY <1>1
    <3>3. current' = current /\ hadShell' = hadShell
      BY <1>1 DEF ui, history
    <3>. QED BY ONLY <2>5, <3>1, <3>2, <3>3, LossAfterShell DEF LossAfterShell, Current
  <2>. QED BY <1>2, <2>3, <2>4, <2>6
<1>6. CASE Unregister(c)
  <2>1. /\ stage[c] = "announced" /\ stage' = [stage EXCEPT ![c] = "gone"]
        /\ events' = events /\ outcome' = outcome
    BY <1>6 DEF Unregister, Service!Unregister
  <2>2. InOrder' /\ NoOrphanSession' /\ SessionTypes'
    BY <1>1, <2>1 DEF NoOrphanSession, Current, invokes, ui
  <2>3. LossAfterShell'
    BY <1>1, <2>1 DEF LossAfterShell, Current, ui, history
  <2>. QED BY <1>2, <2>2, <2>3
<1>. QED BY <1>3, <1>4, <1>5, <1>6

\* The tab's `closed` ends what it is connected to; it retries only where the
\* policy allows it, after a shell.
LEMMA CloseCounts ==
  ASSUME TabTypes, Counted, NEW o \in Outcomes, current # None, Close(o),
         o.reason = "transport" => hadShell
  PROVE  TabTypes' /\ Counted' /\ current' = None /\ UNCHANGED <<opened, history>>
<1>1. /\ current' = None /\ state' = "closed"
      /\ timer' = ShouldAutoRetry(o, attempt + 1, attempt > 0)
      /\ attempt' = IF timer' THEN attempt + 1 ELSE attempt
      /\ UNCHANGED <<opened, history>>
  BY DEF Close
<1>2. timer' \in BOOLEAN
  BY <1>1 DEF ShouldAutoRetry
<1>3. timer' => attempt + 1 <= MaxRetries /\ (o.reason = "transport" \/ attempt > 0)
  BY <1>1 DEF ShouldAutoRetry
<1>4. TabTypes'
  BY <1>1, <1>2, <1>3 DEF TabTypes, history
<1>5. Counted'
  BY <1>1, <1>2, <1>3 DEF TabTypes, Counted, history
<1>. QED BY <1>1, <1>4, <1>5

\* The events, and the failing connect that the tab takes for one.
LEMMA EventsKeepIInv ==
  ASSUME IInv, NEW c \in Connections, HandleEvent(c) \/ ConnectReturns(c)
  PROVE  IInv'
<1>. USE DEF IInv, Current
<1>0. stage' = stage /\ outcome' = outcome
  BY DEF HandleEvent, ConnectReturns, service
<1>1. CASE HandleEvent(c)
  <2>. DEFINE e == Head(events[c])
  <2>1. /\ events[c] # <<>>
        /\ events' = [events EXCEPT ![c] = Tail(@)]
        /\ UNCHANGED invokes
    BY <1>1 DEF HandleEvent
  <2>2. /\ e \in Events /\ e = events[c][1] /\ 1 \in DOMAIN events[c]
        /\ events'[c] = Tail(events[c]) /\ Tail(events[c]) \in Seq(Events)
        /\ Len(events[c]) \in Nat \ {0}
        /\ DOMAIN events[c] = 1 .. Len(events[c])
        /\ DOMAIN events'[c] = 1 .. Len(events[c]) - 1
        /\ \A i \in DOMAIN events'[c] : events'[c][i] = events[c][i + 1]
    BY <2>1 DEF SessionTypes
  <2>3. SessionTypes' /\ \A d \in Connections \ {c} : events'[d] = events[d]
    BY <1>0, <2>1, <2>2 DEF SessionTypes, invokes
  <2>4. opened' = opened => InOrder'
    <3>1. stage[c] \notin {"absent", "setup"}
      BY <2>1 DEF InOrder
    <3>. QED BY <1>0, <2>1, <2>2, <2>3, <3>1 DEF InOrder, invokes
  <2>5. CASE ~Current(c) /\ UNCHANGED <<ui, input, history>>
    <3>1. TabTypes' /\ Counted' /\ InOrder'
      BY <2>4, <2>5 DEF TabTypes, Counted, ui, history
    <3>2. LossAfterShell' /\ NoOrphanSession'
      BY <1>0, <2>1, <2>3, <2>5 DEF LossAfterShell, NoOrphanSession, ui, history, invokes
    <3>. QED BY <2>3, <3>1, <3>2
  <2>6. CASE Current(c) /\ Connected
    <3>1. TabTypes' /\ Counted'
      BY <2>6 DEF Connected, TabTypes, Counted, Connections, None
    <3>2. LossAfterShell'
      BY <2>6 DEF Connected, LossAfterShell
    <3>3. NoOrphanSession' /\ InOrder'
      BY <1>0, <2>1, <2>4, <2>6 DEF Connected, NoOrphanSession, invokes
    <3>. QED BY <2>3, <3>1, <3>2, <3>3
  <2>7. CASE Current(c) /\ e.kind = "closed" /\ Close(e.outcome)
    <3>1. /\ e.outcome \in Outcomes /\ current # None
          /\ e.outcome.reason = "transport" => hadShell
      BY <2>2, <2>7 DEF Events, LossAfterShell, Connections, None
    <3>2. TabTypes' /\ Counted' /\ current' = None /\ UNCHANGED <<opened, history>>
      BY <2>7, <3>1, CloseCounts
    <3>3. stage[c] \notin {"setup", "ready"}
      BY <2>2, <2>7 DEF InOrder
    <3>4. LossAfterShell' /\ NoOrphanSession' /\ InOrder'
      BY <1>0, <2>1, <2>4, <2>7, <3>2, <3>3
      DEF LossAfterShell, NoOrphanSession, Connections, None, invokes, TabTypes
    <3>. QED BY <2>3, <3>2, <3>4
  <2>. QED BY <1>1, <2>5, <2>6, <2>7 DEF HandleEvent
<1>2. CASE ConnectReturns(c)
  <2>1. /\ connects[c] \in {"ok", "refused"}
        /\ connects' = [connects EXCEPT ![c] = "done"]
        /\ UNCHANGED <<asked, events>>
    BY <1>2 DEF ConnectReturns
  <2>2. SessionTypes' /\ (opened' = opened => InOrder')
    BY <1>0, <2>1 DEF SessionTypes, InOrder
  <2>3. CASE connects[c] = "refused" /\ Current(c) /\ Close(Refused) /\ UNCHANGED closes
    <3>1. Refused \in Outcomes /\ current # None /\ Refused.reason # "transport"
      BY <2>3 DEF Refused, Outcomes, Service!SetupOutcomes, Service!Outcome, Connections, None
    <3>2. TabTypes' /\ Counted' /\ current' = None /\ UNCHANGED <<opened, history>>
      BY <2>3, <3>1, CloseCounts
    <3>3. stage[c] = "absent"
      BY <2>3 DEF InOrder
    <3>4. LossAfterShell' /\ NoOrphanSession'
      BY <1>0, <2>1, <2>3, <3>2, <3>3
      DEF LossAfterShell, NoOrphanSession, Connections, None, SessionTypes, TabTypes
    <3>. QED BY <2>2, <3>2, <3>4
  <2>4. CASE /\ UNCHANGED <<ui, input, history>>
             /\ \/ /\ connects[c] = "ok"
                   /\ closes' = IF Current(c) THEN closes ELSE closes \cup {c}
                \/ connects[c] = "refused" /\ UNCHANGED closes
    <3>1. TabTypes' /\ Counted' /\ InOrder'
      BY <2>2, <2>4 DEF TabTypes, Counted, ui, history
    <3>2. LossAfterShell'
      BY <1>0, <2>1, <2>4 DEF LossAfterShell, ui, history
    <3>3. NoOrphanSession'
      BY <1>0, <2>1, <2>4 DEF NoOrphanSession, InOrder, SessionTypes, ui
    <3>. QED BY <2>2, <3>1, <3>2, <3>3
  <2>. QED BY <1>2, <2>3, <2>4 DEF ConnectReturns
<1>. QED BY <1>1, <1>2

\* The invokes on their way to the backend.
LEMMA InvokesKeepIInv ==
  ASSUME IInv, NEW c \in Connections, ConnectArrives(c) \/ CloseArrives(c)
  PROVE  IInv'
<1>. USE DEF IInv, Current, ui, history
<1>1. UNCHANGED <<events, ui, history>>
  BY DEF ConnectArrives, CloseArrives
<1>2. TabTypes' /\ Counted'
  BY <1>1 DEF TabTypes, Counted
<1>3. CASE ConnectArrives(c)
  <2>1. /\ connects[c] = "sent" /\ outcome' = outcome
        /\ UNCHANGED <<asked, closes>>
        /\ \/ /\ stage' = [stage EXCEPT ![c] = "setup"]
              /\ connects' = [connects EXCEPT ![c] = "ok"]
           \/ stage' = stage /\ connects' = [connects EXCEPT ![c] = "refused"]
    BY <1>3 DEF ConnectArrives, Service!Register, Service!To, service
  <2>2. stage[c] = "absent" /\ c <= opened
    BY <2>1 DEF InOrder, TabTypes, Connections
  <2>3. SessionTypes' /\ InOrder'
    BY <1>1, <2>1, <2>2 DEF SessionTypes, InOrder, Service!Stages
  <2>4. LossAfterShell'
    <3>1. \A d \in Connections : stage'[d] = stage[d] \/ stage'[d] = "setup"
      BY <2>1, <2>2 DEF SessionTypes
    <3>. QED BY <1>1, <2>1, <3>1 DEF LossAfterShell
  <2>5. NoOrphanSession'
    BY <1>1, <2>1, <2>2 DEF NoOrphanSession, SessionTypes
  <2>. QED BY <1>2, <2>3, <2>4, <2>5
<1>4. CASE CloseArrives(c)
  <2>1. UNCHANGED <<service, connects>>
    BY <1>4 DEF CloseArrives
  <2>2. SessionTypes' /\ InOrder' /\ LossAfterShell'
    BY <1>1, <2>1 DEF SessionTypes, InOrder, LossAfterShell, service
  <2>3. NoOrphanSession'
    BY <1>1, <1>4, <2>1 DEF CloseArrives, Registered, NoOrphanSession, service
  <2>. QED BY <1>2, <2>2, <2>3
<1>. QED BY <1>3, <1>4

\* What the operator and the retry timer start or end.
LEMMA OperatorKeepsIInv ==
  ASSUME IInv, Start \/ Retry \/ StartRefused \/ CancelRetry \/ CloseTab
  PROVE  IInv'
<1>. USE DEF IInv, Current, Connections, None
<1>1. UNCHANGED <<service, asked, events>>
  BY DEF Start, Retry, StartRefused, CancelRetry, CloseTab, invokes
<1>2. CASE Start \/ Retry
  <2>1. /\ opened + 1 \in Connections /\ opened < MaxConnections
        /\ current = None
        /\ current' = opened + 1 /\ opened' = opened + 1
        /\ state' = "connecting" /\ timer' = FALSE
        /\ connects' = [connects EXCEPT ![opened + 1] = "sent"]
        /\ UNCHANGED closes
    BY <1>2 DEF Start, Retry, CanStart, Connecting, ClearRetryTimers, TabTypes
  <2>2. \/ attempt' = 0 /\ autos' = 0 /\ hadShell' = FALSE
        \/ timer /\ attempt' = attempt /\ autos' = autos + 1 /\ hadShell' = hadShell
    BY <1>2 DEF Start, Retry
  <2>3. connects[opened + 1] = "none" /\ stage[opened + 1] = "absent"
        /\ events[opened + 1] = <<>>
    BY <2>1 DEF InOrder, TabTypes
  <2>4. TabTypes' /\ Counted'
    <3>1. TabTypes'
      <4>1. /\ attempt' \in 0 .. MaxRetries /\ opened' \in 0 .. MaxConnections
            /\ current' \in {None, opened'} /\ current' # None /\ autos' \in Nat
        BY <2>1, <2>2 DEF TabTypes
      <4>2. hadShell' \in BOOLEAN BY <2>2 DEF TabTypes
      <4>. QED BY <2>1, <4>1, <4>2 DEF TabTypes
    <3>2. Counted'
      <4>1. CASE attempt' = 0 /\ autos' = 0 BY <2>1, <4>1 DEF Counted
      <4>2. CASE timer /\ attempt' = attempt /\ autos' = autos + 1 /\ hadShell' = hadShell
        BY <2>1, <4>2 DEF TabTypes, Counted
      <4>. QED BY <2>2, <4>1, <4>2
    <3>. QED BY <3>1, <3>2
  <2>5. SessionTypes' /\ InOrder'
    <3>1. \A c \in Connections : c > opened' => c > opened /\ c # opened + 1
      BY <2>1 DEF TabTypes
    <3>. QED BY <1>1, <2>1, <2>3, <3>1 DEF SessionTypes, InOrder, service
  <2>6. LossAfterShell'
    BY <1>1, <2>1, <2>3 DEF LossAfterShell, service
  <2>7. NoOrphanSession'
    BY <1>1, <2>1, <2>3 DEF NoOrphanSession, SessionTypes, service
  <2>. QED BY <2>4, <2>5, <2>6, <2>7
<1>3. CASE StartRefused \/ CancelRetry
  <2>1. /\ UNCHANGED <<invokes, current, opened, state, history>>
        /\ timer' = FALSE /\ attempt' \in {attempt, 0}
        /\ current = None
    BY <1>3 DEF StartRefused, CancelRetry, ClearRetryTimers, TabTypes
  <2>2. TabTypes' /\ Counted'
    <3>1. TabTypes'
      <4>1. attempt' \in 0 .. MaxRetries BY <2>1 DEF TabTypes
      <4>. QED BY <2>1, <4>1 DEF TabTypes, history
    <3>2. Counted' BY <2>1 DEF Counted, TabTypes, history
    <3>. QED BY <3>1, <3>2
  <2>3. SessionTypes' /\ InOrder' /\ LossAfterShell' /\ NoOrphanSession'
    BY <1>1, <2>1 DEF SessionTypes, InOrder, LossAfterShell, NoOrphanSession, service,
       invokes, history
  <2>. QED BY <2>2, <2>3
<1>4. CASE CloseTab
  <2>1. /\ current' = None /\ state' = "closed" /\ timer' = FALSE
        /\ closes' = IF current # None THEN closes \cup {current} ELSE closes
        /\ UNCHANGED <<connects, opened, attempt, history>>
    BY <1>4 DEF CloseTab, ClearRetryTimers, TabTypes
  <2>2. TabTypes' /\ Counted'
    BY <2>1 DEF TabTypes, Counted, history
  <2>3. SessionTypes' /\ InOrder' /\ LossAfterShell' /\ NoOrphanSession'
    BY <1>1, <2>1 DEF SessionTypes, InOrder, LossAfterShell, NoOrphanSession, service,
       history
  <2>. QED BY <2>2, <2>3
<1>. QED BY <1>2, <1>3, <1>4

\* Typing and the chain of input touch none of it.
LEMMA InputKeepsIInv ==
  ASSUME IInv, Type \/ InputStep \/ UNCHANGED vars
  PROVE  IInv'
<1>1. UNCHANGED <<service, invokes, events, ui, history>>
  BY DEF Type, InputStep, FlushInput, SendPiece, InputArrives, vars
<1>. QED BY <1>1 DEF IInv, SessionTypes, TabTypes, InOrder, LossAfterShell, Counted,
  NoOrphanSession, Current, service, invokes, ui, history

\* The inductive invariant holds of every behaviour.
THEOREM Inductive == Spec => []IInv
<1>1. Init => IInv
  BY InitIInv
<1>2. IInv /\ [Next]_vars => IInv'
  BY ServiceKeepsIInv, EventsKeepIInv, InvokesKeepIInv, OperatorKeepsIInv,
     InputKeepsIInv DEF Next, InvokeStep
<1>. QED BY <1>1, <1>2, PTL DEF Spec

\* The tab dials by itself at most MAX_AUTO_RETRIES times between two shells,
\* two clicks, or one of each (shouldAutoRetry, scheduleReconnect).
THEOREM BoundedRetries == Spec => []RetriesAreBounded
<1>1. IInv => RetriesAreBounded BY DEF IInv, Counted, RetriesAreBounded
<1>. QED BY <1>1, Inductive, PTL

\* An armed retry timer means that a shell was reached since the operator's last
\* connect, however the events, the timer and the clicks interleave.
THEOREM RetriesFollowAShell == Spec => []RetryOnlyAfterAShell
<1>1. IInv => RetryOnlyAfterAShell
  BY DEF IInv, Counted, TabTypes, RetryOnlyAfterAShell
<1>. QED BY <1>1, Inductive, PTL

\* A live session that is not its tab's has been asked to close, or will be.
THEOREM NoOrphans == Spec => []NoOrphanSession
<1>1. IInv => NoOrphanSession BY DEF IInv
<1>. QED BY <1>1, Inductive, PTL
----
(* The input: what was typed into a connection reaches its shell. *)

\* The types of TypeOK that the tab's connection does not need.
InputTypes ==
  /\ asked \subseteq 1 .. opened
  /\ closes \subseteq 1 .. opened
  /\ open \in BOOLEAN
  /\ current # None => open
  /\ state \in {"idle", "connecting", "connected", "closed"}
  /\ timer => open /\ state = "closed"
  /\ buffer \in Seq(Piece)
  /\ chain \in Seq(Piece)
  /\ sending \in BOOLEAN
  /\ sending => chain # <<>>
  /\ pieces \in 0 .. MaxInput
  /\ typed \in [Connections -> 0 .. pieces]
  /\ received \in [Connections -> Seq(1 .. MaxInput)]

\* The pieces lo + 1 .. hi of c stand in line w, once each and in order.
Line(w, c, lo, hi) ==
  /\ lo <= hi
  /\ \A i \in DOMAIN w : w[i].conn = c => w[i].n \in lo + 1 .. hi
  /\ \A n \in lo + 1 .. hi : \E i \in DOMAIN w : w[i].conn = c /\ w[i].n = n
  /\ \A i, j \in DOMAIN w :
       w[i].conn = c /\ w[j].conn = c /\ i < j => w[i].n < w[j].n

\* The tab accepts input only for a connection that has, or had, its shell, and
\* the buffer holds nothing typed into an earlier one.
BufferIsCurrent ==
  /\ CanType => stage[current] \notin {"absent", "setup"}
  /\ buffer # <<>> => CanType /\ \A i \in DOMAIN buffer : buffer[i].conn = current

\* Nothing was typed into a connection that is not ready yet.
NothingTypedYet ==
  /\ \A i \in DOMAIN chain : stage[chain[i].conn] \notin {"absent", "setup"}
  /\ \A c \in Connections :
       c > opened \/ (Current(c) /\ state = "connecting") =>
         /\ typed[c] = 0
         /\ received[c] = <<>>
         /\ \A i \in DOMAIN chain : chain[i].conn # c

GotInOrder == \A c \in Connections : \A i \in DOMAIN received[c] : received[c][i] = i

LineIsComplete ==
  CanType /\ stage[current] = "ready" =>
    Line(Waiting, current, Len(received[current]), typed[current])

\* A piece on its way is the next its shell shall get, also when the tab has
\* turned to another connection meanwhile.
HeadIsNext ==
  sending /\ stage[chain[1].conn] = "ready" =>
    chain[1].n = Len(received[chain[1].conn]) + 1

InputInv ==
  /\ InputTypes
  /\ BufferIsCurrent
  /\ NothingTypedYet
  /\ GotInOrder
  /\ LineIsComplete
  /\ HeadIsNext

LEMMA AppendKeeps ==
  ASSUME NEW S, NEW q \in Seq(S), NEW x \in S
  PROVE  /\ Append(q, x) \in Seq(S)
         /\ Len(Append(q, x)) = Len(q) + 1
         /\ \A i \in 1 .. Len(q) : Append(q, x)[i] = q[i]
         /\ Append(q, x)[Len(q) + 1] = x
         /\ Len(q) \in Nat /\ DOMAIN q = 1 .. Len(q) /\ DOMAIN Append(q, x) = 1 .. Len(q) + 1
BY AppendProperties, LenProperties

\* The head of a line is its first place, the tail the places after it.
LEMMA TailIs ==
  ASSUME NEW S, NEW w \in Seq(S), w # <<>>
  PROVE  /\ Head(w) = w[1] /\ w[1] \in S /\ Tail(w) \in Seq(S)
         /\ Len(w) \in Nat \ {0} /\ DOMAIN w = 1 .. Len(w)
         /\ Len(Tail(w)) = Len(w) - 1 /\ DOMAIN Tail(w) = 1 .. Len(w) - 1
         /\ \A i \in DOMAIN Tail(w) : Tail(w)[i] = w[i + 1]
<1>1. Tail(w) \in Seq(S) /\ Len(Tail(w)) = Len(w) - 1
      /\ \A i \in 1 .. Len(Tail(w)) : Tail(w)[i] = w[i + 1]
  BY HeadTailProperties
<1>2. Len(w) \in Nat \ {0} /\ DOMAIN w = 1 .. Len(w) /\ DOMAIN Tail(w) = 1 .. Len(Tail(w))
  BY <1>1, LenProperties, EmptySeq
<1>3. w[1] \in S
  BY <1>2, ElementOfSeq
<1>. QED  BY <1>1, <1>2, <1>3

\* The line of the chain and the buffer loses its head and grows at its end.
LEMMA WaitingFacts ==
  ASSUME NEW a \in Seq(Piece), NEW b \in Seq(Piece)
  PROVE  /\ a \o b \in Seq(Piece) /\ a \o <<>> = a
         /\ \A i \in DOMAIN a : i \in DOMAIN (a \o b) /\ (a \o b)[i] = a[i]
         /\ \A i \in DOMAIN (a \o b) : \/ i \in DOMAIN a /\ (a \o b)[i] = a[i]
                                       \/ \E j \in DOMAIN b : (a \o b)[i] = b[j]
         /\ a # <<>> => /\ a \o b # <<>>
                        /\ Tail(a \o b) = Tail(a) \o b
                        /\ (a \o b)[1] = a[1]
         /\ \A p \in Piece : a \o Append(b, p) = Append(a \o b, p)
<1>1. /\ a \o b \in Seq(Piece) /\ Len(a \o b) = Len(a) + Len(b)
      /\ \A i \in 1 .. Len(a) + Len(b) : (a \o b)[i] = IF i <= Len(a) THEN a[i] ELSE b[i - Len(a)]
      /\ a \o <<>> = a
  BY ConcatProperties, ConcatEmptySeq
<1>2. /\ Len(a) \in Nat /\ Len(b) \in Nat /\ DOMAIN a = 1 .. Len(a) /\ DOMAIN b = 1 .. Len(b)
      /\ DOMAIN (a \o b) = 1 .. Len(a) + Len(b)
  BY <1>1, LenProperties
<1>3. ASSUME NEW i \in DOMAIN (a \o b)
      PROVE  \/ i \in DOMAIN a /\ (a \o b)[i] = a[i]
             \/ \E j \in DOMAIN b : (a \o b)[i] = b[j]
  <2>1. CASE i <= Len(a)
    BY <2>1, <1>1, <1>2
  <2>2. CASE ~(i <= Len(a))
    <3>1. i - Len(a) \in DOMAIN b /\ (a \o b)[i] = b[i - Len(a)]
      BY <2>2, <1>1, <1>2
    <3>. QED  BY <3>1
  <2>. QED  BY <2>1, <2>2
<1>4. ASSUME a # <<>>
      PROVE  a \o b # <<>> /\ Tail(a \o b) = Tail(a) \o b /\ (a \o b)[1] = a[1]
  <2>1. Len(a) \in Nat \ {0}
    BY <1>4, EmptySeq
  <2>2. a \o b # <<>>
    BY <2>1, <1>1, <1>2, EmptySeq
  <2>. PICK l, r : l = Tail(a \o b) /\ r = Tail(a) \o b
    OBVIOUS
  <2>3. /\ l \in Seq(Piece) /\ Len(l) = Len(a) + Len(b) - 1
        /\ \A i \in 1 .. Len(l) : l[i] = (a \o b)[i + 1]
    BY <2>2, <1>1, HeadTailProperties
  <2>4. /\ Tail(a) \in Seq(Piece) /\ Len(Tail(a)) = Len(a) - 1
        /\ \A i \in 1 .. Len(a) - 1 : Tail(a)[i] = a[i + 1]
    BY <1>4, HeadTailProperties
  <2>5. /\ r \in Seq(Piece) /\ Len(r) = Len(a) - 1 + Len(b)
        /\ \A i \in 1 .. Len(a) - 1 + Len(b) :
             r[i] = IF i <= Len(a) - 1 THEN Tail(a)[i] ELSE b[i - (Len(a) - 1)]
    BY <2>4, ConcatProperties
  <2>6. ASSUME NEW i \in 1 .. Len(l) PROVE l[i] = r[i]
    <3>1. i \in Nat /\ i + 1 \in 1 .. Len(a) + Len(b) /\ l[i] = (a \o b)[i + 1]
      BY <2>3, <2>1, <1>2
    <3>2. CASE i <= Len(a) - 1
      <4>1. l[i] = a[i + 1] /\ r[i] = Tail(a)[i] /\ Tail(a)[i] = a[i + 1]
        BY <3>1, <3>2, <2>1, <2>3, <2>4, <2>5, <1>1, <1>2
      <4>. QED  BY <4>1
    <3>3. CASE ~(i <= Len(a) - 1)
      <4>1. l[i] = b[(i + 1) - Len(a)] /\ r[i] = b[i - (Len(a) - 1)]
        BY <3>1, <3>3, <2>1, <2>3, <2>5, <1>1, <1>2
      <4>2. (i + 1) - Len(a) = i - (Len(a) - 1)
        BY <3>1, <2>1
      <4>. QED  BY <4>1, <4>2
    <3>. QED  BY <3>2, <3>3
  <2>7. l = r
    BY <2>3, <2>5, <2>6, <2>1, <1>2, SeqEqual
  <2>. QED  BY <2>1, <2>2, <2>7, <1>1, <1>2
<1>5. ASSUME NEW p \in Piece PROVE a \o Append(b, p) = Append(a \o b, p)
  <2>. PICK l, r, bp : bp = Append(b, p) /\ l = a \o bp /\ r = Append(a \o b, p)
    OBVIOUS
  <2>1. /\ bp \in Seq(Piece) /\ Len(bp) = Len(b) + 1 /\ bp[Len(b) + 1] = p
        /\ \A i \in 1 .. Len(b) : bp[i] = b[i]
    BY AppendKeeps
  <2>2. /\ l \in Seq(Piece) /\ Len(l) = Len(a) + Len(b) + 1
        /\ \A i \in 1 .. Len(a) + Len(b) + 1 : l[i] = IF i <= Len(a) THEN a[i] ELSE bp[i - Len(a)]
    BY <2>1, <1>2, ConcatProperties
  <2>3. /\ r \in Seq(Piece) /\ Len(r) = Len(a) + Len(b) + 1 /\ r[Len(a) + Len(b) + 1] = p
        /\ \A i \in 1 .. Len(a) + Len(b) : r[i] = (a \o b)[i]
    BY <1>1, AppendKeeps
  <2>4. ASSUME NEW i \in 1 .. Len(l) PROVE l[i] = r[i]
    <3>1. CASE i <= Len(a)
      BY <3>1, <2>2, <2>3, <1>1, <1>2
    <3>2. CASE ~(i <= Len(a)) /\ i <= Len(a) + Len(b)
      <4>1. i - Len(a) \in 1 .. Len(b)
        BY <3>2, <2>2, <1>2
      <4>. QED  BY <3>2, <4>1, <2>1, <2>2, <2>3, <1>1, <1>2
    <3>3. CASE i = Len(a) + Len(b) + 1
      <4>1. i - Len(a) = Len(b) + 1 /\ ~(i <= Len(a))
        BY <3>3, <1>2
      <4>. QED  BY <3>3, <4>1, <2>1, <2>2, <2>3
    <3>. QED  BY <3>1, <3>2, <3>3, <2>2, <1>2
  <2>. QED  BY <2>2, <2>3, <2>4, SeqEqual
<1>. QED  BY <1>1, <1>2, <1>3, <1>4, <1>5

\* A piece typed at the end, with the next number.
LEMMA LineGrows ==
  ASSUME NEW w \in Seq(Piece), NEW p \in Piece, NEW c, NEW lo \in Nat, NEW hi \in Nat,
         p.conn = c, p.n = hi + 1, Line(w, c, lo, hi)
  PROVE  Line(Append(w, p), c, lo, hi + 1)
<1>. PICK v, k : v = Append(w, p) /\ k = Len(w)
  OBVIOUS
<1>1. /\ k \in Nat /\ DOMAIN w = 1 .. k /\ DOMAIN v = 1 .. k + 1 /\ v[k + 1] = p
      /\ \A i \in 1 .. k : v[i] = w[i]
  BY AppendKeeps
<1>2. \A i \in DOMAIN v : (i \in DOMAIN w /\ v[i] = w[i]) \/ (i = k + 1 /\ v[i] = p)
  BY <1>1
<1>3. \A i \in DOMAIN v : v[i].conn = c => v[i].n \in lo + 1 .. hi + 1
  BY <1>2 DEF Line
<1>4. ASSUME NEW n \in lo + 1 .. hi + 1
      PROVE  \E i \in DOMAIN v : v[i].conn = c /\ v[i].n = n
  <2>1. CASE n = hi + 1
    <3>1. k + 1 \in DOMAIN v
      BY <1>1
    <3>. QED  BY <2>1, <3>1, <1>1
  <2>2. CASE n # hi + 1
    <3>1. n \in lo + 1 .. hi
      BY <2>2
    <3>2. PICK i \in DOMAIN w : w[i].conn = c /\ w[i].n = n
      BY <3>1 DEF Line
    <3>3. i \in DOMAIN v /\ v[i] = w[i]
      BY <1>1
    <3>. QED  BY <3>2, <3>3
  <2>. QED  BY <2>1, <2>2
<1>5. ASSUME NEW i \in DOMAIN v, NEW j \in DOMAIN v, v[i].conn = c, v[j].conn = c, i < j
      PROVE  v[i].n < v[j].n
  <2>1. i \in DOMAIN w /\ v[i] = w[i]
    BY <1>1, <1>5
  <2>2. CASE j \in DOMAIN w /\ v[j] = w[j]
    BY <2>1, <2>2, <1>5 DEF Line
  <2>3. CASE j = k + 1 /\ v[j] = p
    <3>1. w[i].n \in lo + 1 .. hi
      BY <2>1, <1>5 DEF Line
    <3>. QED  BY <2>1, <2>3, <3>1
  <2>. QED  BY <2>2, <2>3, <1>2
<1>6. lo <= hi + 1
  BY DEF Line
<1>. QED  BY <1>3, <1>4, <1>5, <1>6 DEF Line

\* The head is the first of its connection, and the rest follows it.
LEMMA LineHead ==
  ASSUME NEW w \in Seq(Piece), NEW lo \in Nat, NEW hi \in Nat, w # <<>>,
         NEW c, Line(w, c, lo, hi)
  PROVE  /\ w[1].conn = c => w[1].n = lo + 1 /\ Line(Tail(w), c, lo + 1, hi)
         /\ w[1].conn # c => Line(Tail(w), c, lo, hi)
<1>. PICK v, k : v = Tail(w) /\ k = Len(w)
  OBVIOUS
<1>1. /\ k \in Nat \ {0} /\ DOMAIN w = 1 .. k /\ DOMAIN v = 1 .. k - 1
      /\ \A i \in DOMAIN v : v[i] = w[i + 1]
  BY TailIs
<1>2. \A i \in DOMAIN v : i + 1 \in DOMAIN w /\ i \in Nat /\ 1 < i + 1
  BY <1>1
<1>3. \A i \in DOMAIN w : i = 1 \/ (i - 1 \in DOMAIN v /\ v[i - 1] = w[i])
  <2>1. ASSUME NEW i \in DOMAIN w, i # 1 PROVE i - 1 \in DOMAIN v /\ (i - 1) + 1 = i
    BY <1>1, <2>1
  <2>. QED  BY <2>1, <1>1
<1>4. 1 \in DOMAIN w
  BY <1>1
<1>5. ASSUME w[1].conn = c PROVE w[1].n = lo + 1
  <2>1. w[1].n \in lo + 1 .. hi
    BY <1>4, <1>5 DEF Line
  <2>2. lo + 1 \in lo + 1 .. hi
    BY <2>1
  <2>3. PICK i \in DOMAIN w : w[i].conn = c /\ w[i].n = lo + 1
    BY <2>2 DEF Line
  <2>4. i = 1 \/ w[1].n < w[i].n
    BY <1>1, <1>4, <1>5, <2>3 DEF Line
  <2>. QED  BY <2>1, <2>3, <2>4
<1>6. \A i, j \in DOMAIN v : v[i].conn = c /\ v[j].conn = c /\ i < j => v[i].n < v[j].n
  <2>1. ASSUME NEW i \in DOMAIN v, NEW j \in DOMAIN v, v[i].conn = c, v[j].conn = c, i < j
        PROVE  v[i].n < v[j].n
    <3>. PICK i1, j1 : i1 = i + 1 /\ j1 = j + 1
      OBVIOUS
    <3>1. i1 \in DOMAIN w /\ j1 \in DOMAIN w /\ i1 < j1 /\ v[i] = w[i1] /\ v[j] = w[j1]
      BY <1>1, <1>2, <2>1
    <3>. QED  BY <3>1, <2>1 DEF Line
  <2>. QED  BY <2>1
<1>7. ASSUME NEW i \in DOMAIN v, v[i].conn = c
      PROVE  /\ v[i].n \in lo + 1 .. hi
             /\ w[1].conn = c => v[i].n # lo + 1
  <2>. PICK i1 : i1 = i + 1
    OBVIOUS
  <2>1. i1 \in DOMAIN w /\ 1 < i1 /\ v[i] = w[i1]
    BY <1>1, <1>2
  <2>2. w[i1].n \in lo + 1 .. hi /\ (w[1].conn = c => w[1].n < w[i1].n /\ w[1].n \in lo + 1 .. hi)
    BY <1>4, <1>7, <2>1 DEF Line
  <2>. QED  BY <2>1, <2>2
<1>8. ASSUME NEW n \in lo + 1 .. hi, w[1].conn = c => n # lo + 1
      PROVE  \E i \in DOMAIN v : v[i].conn = c /\ v[i].n = n
  <2>1. PICK i \in DOMAIN w : w[i].conn = c /\ w[i].n = n
    BY DEF Line
  <2>2. i # 1
    BY <2>1, <1>5, <1>8
  <2>. QED  BY <2>1, <2>2, <1>3
<1>9. ASSUME w[1].conn = c PROVE Line(v, c, lo + 1, hi)
  <2>1. \A i \in DOMAIN v : v[i].conn = c => v[i].n \in (lo + 1) + 1 .. hi
    BY <1>7, <1>9
  <2>2. \A n \in (lo + 1) + 1 .. hi : n \in lo + 1 .. hi /\ n # lo + 1
    OBVIOUS
  <2>3. \A n \in (lo + 1) + 1 .. hi : \E i \in DOMAIN v : v[i].conn = c /\ v[i].n = n
    BY <2>2, <1>8
  <2>4. lo + 1 <= hi
    BY <1>4, <1>9 DEF Line
  <2>. QED  BY <2>1, <2>3, <2>4, <1>6 DEF Line
<1>10. ASSUME w[1].conn # c PROVE Line(v, c, lo, hi)
  BY <1>6, <1>7, <1>8, <1>10 DEF Line
<1>. QED  BY <1>5, <1>9, <1>10
----
LEMMA InitInputInv == Init => InputInv
<1>. SUFFICES ASSUME Init PROVE InputInv
  OBVIOUS
<1>. USE DEF Init
<1>1. <<>> \in Seq(Piece) /\ <<>> \in Seq(1 .. MaxInput) /\ DOMAIN <<>> = {}
  BY EmptySeq
<1>2. /\ pieces \in 0 .. MaxInput /\ typed \in [Connections -> 0 .. pieces]
      /\ received \in [Connections -> Seq(1 .. MaxInput)]
  BY <1>1
<1>3. InputTypes
  <2>1. /\ asked = {} /\ closes = {} /\ open = TRUE /\ current = None /\ state = "idle"
        /\ timer = FALSE /\ buffer = <<>> /\ chain = <<>> /\ sending = FALSE
    OBVIOUS
  <2>. QED  BY <1>1, <1>2, <2>1 DEF InputTypes
<1>4. ~CanType
  BY DEF CanType
<1>5. \A c \in Connections : typed[c] = 0 /\ received[c] = <<>>
  OBVIOUS
<1>. QED
  BY <1>1, <1>3, <1>4, <1>5 DEF InputInv, BufferIsCurrent, NothingTypedYet, GotInOrder,
     LineIsComplete, HeadIsNext

LEMMA PieceIs ==
  ASSUME NEW w \in Seq(Piece), NEW i \in DOMAIN w
  PROVE  w[i] \in Piece /\ w[i].conn \in Connections /\ w[i].n \in 1 .. MaxInput
<1>1. w[i] \in Piece
  BY LenProperties, ElementOfSeq
<1>. QED  BY <1>1 DEF Piece

\* A step that leaves the tab's connection and its input alone: a session goes on.
LEMMA SessionGoesOn ==
  ASSUME InputInv, InputTypes', UNCHANGED <<current, opened, state, input>>,
         TabTypes,
         \A c \in Connections :
           /\ stage'[c] = "ready" => stage[c] \in {"setup", "ready"}
           /\ stage[c] \notin {"absent", "setup"} => stage'[c] \notin {"absent", "setup"}
  PROVE  InputInv'
<1>1. /\ current' = current /\ opened' = opened /\ state' = state /\ buffer' = buffer
      /\ chain' = chain /\ sending' = sending /\ typed' = typed /\ received' = received
  BY DEF input
<1>2. InputTypes /\ BufferIsCurrent /\ NothingTypedYet /\ GotInOrder /\ LineIsComplete /\ HeadIsNext
  BY DEF InputInv
<1>3. CanType' = CanType /\ (CanType => current \in Connections)
  BY <1>1 DEF CanType, TabTypes, Connections, None
<1>4. \A i \in DOMAIN chain : chain[i].conn \in Connections
  BY <1>2, PieceIs DEF InputTypes
<1>5. BufferIsCurrent'
  BY <1>1, <1>2, <1>3 DEF BufferIsCurrent
<1>6. NothingTypedYet'
  BY <1>1, <1>2, <1>4 DEF NothingTypedYet, Current
<1>7. GotInOrder'
  BY <1>1, <1>2 DEF GotInOrder
<1>8. LineIsComplete'
  BY <1>1, <1>2, <1>3 DEF LineIsComplete, BufferIsCurrent, Waiting, Line
<1>9. HeadIsNext'
  <2>1. ASSUME sending, stage'[chain[1].conn] = "ready"
        PROVE  chain[1].n = Len(received[chain[1].conn]) + 1
    <3>1. 1 \in DOMAIN chain
      BY <1>2, <2>1, LenProperties, EmptySeq DEF InputTypes
    <3>. QED  BY <3>1, <2>1, <1>2, <1>4 DEF NothingTypedYet, HeadIsNext
  <2>. QED  BY <2>1, <1>1 DEF HeadIsNext
<1>. QED  BY <1>5, <1>6, <1>7, <1>8, <1>9 DEF InputInv

LEMMA ServiceKeepsInput ==
  ASSUME IInv, InputInv, NEW c \in Connections,
         \/ ReachShell(c) \/ SessionEnds(c) \/ Announce(c) \/ Unregister(c)
         \/ ConnectArrives(c) \/ CloseArrives(c)
  PROVE  InputInv'
<1>1. /\ UNCHANGED <<ui, input>> /\ closes' \subseteq closes /\ asked' \subseteq asked \cup closes
  BY DEF ReachShell, SessionEnds, Announce, Unregister, ConnectArrives, CloseArrives, invokes
<1>2. InputTypes'
  BY <1>1 DEF InputInv, InputTypes, ui, input
<1>3. \A d \in Connections :
        /\ stage'[d] = "ready" => stage[d] \in {"setup", "ready"}
        /\ stage[d] \notin {"absent", "setup"} => stage'[d] \notin {"absent", "setup"}
  <2>1. stage \in [Connections -> Service!Stages]
    BY DEF IInv, SessionTypes
  <2>2. CASE ReachShell(c)
    BY <2>1, <2>2 DEF ReachShell, Service!ReachShell, Service!To
  <2>3. CASE SessionEnds(c)
    BY <2>1, <2>3 DEF SessionEnds, Service!End, Service!To
  <2>4. CASE Announce(c)
    BY <2>1, <2>4 DEF Announce, Service!Announce, Service!To
  <2>5. CASE Unregister(c)
    BY <2>1, <2>5 DEF Unregister, Service!Unregister, Service!To
  <2>6. CASE ConnectArrives(c)
    BY <2>1, <2>6 DEF ConnectArrives, Service!Register, Service!To, service
  <2>7. CASE CloseArrives(c)
    BY <2>7 DEF CloseArrives, service
  <2>. QED  BY <2>2, <2>3, <2>4, <2>5, <2>6, <2>7
<1>4. TabTypes /\ UNCHANGED <<current, opened, state, input>>
  BY <1>1 DEF IInv, ui
<1>. QED  BY <1>2, <1>3, <1>4, SessionGoesOn

\* The tab lets go of its connection: the buffer is dropped, the chain drains.
LEMMA LettingGoKeepsInput ==
  ASSUME IInv, InputInv, InputTypes', stage' = stage, opened' = opened, current' = None,
         state' = "closed", buffer' = <<>>,
         UNCHANGED <<chain, sending, typed, received>>
  PROVE  InputInv'
<1>1. InputTypes /\ BufferIsCurrent /\ NothingTypedYet /\ GotInOrder /\ HeadIsNext
  BY DEF InputInv
<1>2. ~CanType'
  BY DEF CanType
<1>3. BufferIsCurrent' /\ LineIsComplete'
  BY <1>2 DEF BufferIsCurrent, LineIsComplete
<1>4. NothingTypedYet' /\ GotInOrder' /\ HeadIsNext'
  BY <1>1 DEF NothingTypedYet, GotInOrder, HeadIsNext, Current
<1>. QED  BY <1>3, <1>4 DEF InputInv

LEMMA EventsKeepInput ==
  ASSUME IInv, InputInv, NEW c \in Connections, HandleEvent(c) \/ ConnectReturns(c)
  PROVE  InputInv'
<1>1. /\ InputTypes /\ BufferIsCurrent /\ NothingTypedYet /\ GotInOrder /\ LineIsComplete
      /\ HeadIsNext /\ TabTypes /\ InOrder /\ SessionTypes
  BY DEF IInv, InputInv
<1>2. stage' = stage /\ asked' = asked
  BY DEF HandleEvent, ConnectReturns, service, invokes
<1>3. closes' \subseteq 1 .. opened
  <2>1. CASE HandleEvent(c)
    BY <2>1, <1>1 DEF HandleEvent, invokes, InputTypes
  <2>2. CASE ConnectReturns(c)
    <3>1. connects[c] = "ok" => c \in 1 .. opened
      BY <1>1 DEF InOrder, TabTypes, Connections
    <3>. QED  BY <2>2, <3>1, <1>1 DEF ConnectReturns, InputTypes
  <2>. QED  BY <2>1, <2>2
<1>4. CASE UNCHANGED <<ui, input>>
  <2>1. InputTypes'
    BY <1>1, <1>2, <1>3, <1>4 DEF InputTypes, ui, input
  <2>. QED  BY <1>1, <1>2, <1>4, <2>1, SessionGoesOn DEF ui
<1>5. ASSUME NEW o, Current(c), Close(o)
      PROVE  InputInv'
  <2>1. /\ state' = "closed" /\ current' = None /\ buffer' = <<>> /\ timer' \in BOOLEAN
        /\ open' = open /\ opened' = opened /\ chain' = chain /\ sending' = sending
        /\ typed' = typed /\ pieces' = pieces /\ received' = received
    BY <1>5 DEF Close, DiscardPendingInput, ShouldAutoRetry
  <2>2. open
    BY <1>1, <1>5 DEF Current, InputTypes, Connections, None
  <2>3. InputTypes'
    BY <1>1, <1>2, <1>3, <2>1, <2>2, EmptySeq DEF InputTypes
  <2>. QED  BY <1>2, <2>1, <2>3, LettingGoKeepsInput
<1>6. CASE HandleEvent(c) /\ Current(c) /\ Connected
  <2>1. /\ state' = "connected" /\ open' = open /\ current' = current /\ opened' = opened
        /\ timer' = timer /\ UNCHANGED input /\ closes' = closes
        /\ stage[c] \notin {"absent", "setup"} /\ current = c /\ current # None
    BY <1>1, <1>6 DEF Connected, HandleEvent, InOrder, Current, Connections, None, invokes
  <2>2. /\ buffer' = buffer /\ chain' = chain /\ sending' = sending /\ typed' = typed
        /\ received' = received /\ pieces' = pieces
    BY <2>1 DEF input
  <2>3. ~timer
    BY <1>1, <2>1 DEF TabTypes
  <2>4. InputTypes'
    BY <1>1, <1>2, <2>1, <2>2, <2>3 DEF InputTypes
  <2>5. BufferIsCurrent'
    BY <1>1, <1>2, <2>1, <2>2 DEF BufferIsCurrent, CanType
  <2>6. NothingTypedYet' /\ GotInOrder' /\ HeadIsNext'
    BY <1>1, <1>2, <2>1, <2>2 DEF NothingTypedYet, GotInOrder, HeadIsNext, Current
  <2>7. LineIsComplete'
    <3>1. CASE state = "connected"
      BY <3>1, <1>1, <1>2, <2>1, <2>2 DEF LineIsComplete, CanType, Waiting, Line
    <3>2. CASE state = "connecting"
      <4>1. buffer = <<>> /\ typed[c] = 0 /\ received[c] = <<>>
            /\ \A i \in DOMAIN chain : chain[i].conn # c
        BY <3>2, <1>1, <2>1 DEF BufferIsCurrent, CanType, NothingTypedYet, Current
      <4>2. Waiting = chain
        BY <4>1, <1>1, ConcatEmptySeq DEF Waiting, InputTypes
      <4>3. Len(received[c]) = 0
        BY <4>1, EmptySeq
      <4>4. Line(chain, c, 0, 0)
        BY <4>1 DEF Line
      <4>. QED  BY <1>2, <2>1, <2>2, <4>1, <4>2, <4>3, <4>4 DEF LineIsComplete, Waiting
    <3>. QED  BY <3>1, <3>2, <1>1, <2>1 DEF TabTypes
  <2>. QED  BY <2>4, <2>5, <2>6, <2>7 DEF InputInv
<1>. QED  BY <1>4, <1>5, <1>6 DEF HandleEvent, ConnectReturns

LEMMA OperatorKeepsInput ==
  ASSUME IInv, InputInv, Start \/ Retry \/ StartRefused \/ CancelRetry \/ CloseTab
  PROVE  InputInv'
<1>1. /\ InputTypes /\ BufferIsCurrent /\ NothingTypedYet /\ GotInOrder /\ LineIsComplete
      /\ HeadIsNext /\ TabTypes
  BY DEF IInv, InputInv
<1>2. stage' = stage /\ asked' = asked
  BY DEF Start, Retry, StartRefused, CancelRetry, CloseTab, service, invokes
<1>3. CASE Start \/ Retry
  <2>1. /\ open /\ open' = open /\ current = None /\ opened + 1 \in Connections
        /\ current' = opened + 1 /\ opened' = opened + 1 /\ state' = "connecting"
        /\ timer' = FALSE /\ closes' = closes /\ UNCHANGED input
    BY <1>1, <1>3 DEF Start, Retry, CanStart, Connecting, ClearRetryTimers, TabTypes, Connections
  <2>2. /\ buffer' = buffer /\ chain' = chain /\ sending' = sending /\ typed' = typed
        /\ received' = received /\ pieces' = pieces
    BY <2>1 DEF input
  <2>3. 1 .. opened \subseteq 1 .. opened'
    BY <1>1, <2>1 DEF TabTypes
  <2>4. InputTypes'
    BY <1>1, <1>2, <2>1, <2>2, <2>3 DEF InputTypes
  <2>5. buffer = <<>> /\ ~CanType'
    BY <1>1, <2>1 DEF BufferIsCurrent, CanType
  <2>6. BufferIsCurrent' /\ LineIsComplete'
    BY <2>2, <2>5 DEF BufferIsCurrent, LineIsComplete
  <2>7. NothingTypedYet'
    <3>1. ASSUME NEW c \in Connections, c > opened' \/ current' = c PROVE c > opened
      BY <1>1, <2>1, <3>1 DEF TabTypes, Connections
    <3>. QED  BY <3>1, <1>1, <1>2, <2>2 DEF NothingTypedYet, Current
  <2>8. GotInOrder' /\ HeadIsNext'
    BY <1>1, <1>2, <2>2 DEF GotInOrder, HeadIsNext
  <2>. QED  BY <2>4, <2>6, <2>7, <2>8 DEF InputInv
<1>4. CASE StartRefused \/ CancelRetry
  <2>1. /\ UNCHANGED <<invokes, current, opened, state, input, open>> /\ timer' = FALSE
    BY <1>4 DEF StartRefused, CancelRetry, ClearRetryTimers
  <2>2. InputTypes'
    BY <1>1, <2>1 DEF InputTypes, invokes, input
  <2>. QED  BY <1>1, <1>2, <2>1, <2>2, SessionGoesOn
<1>5. CASE CloseTab
  <2>1. /\ state' = "closed" /\ current' = None /\ buffer' = <<>> /\ timer' = FALSE
        /\ open' = FALSE /\ opened' = opened /\ chain' = chain /\ sending' = sending
        /\ typed' = typed /\ pieces' = pieces /\ received' = received
        /\ closes' = IF current # None /\ state \in {"connecting", "connected"}
                     THEN closes \cup {current} ELSE closes
    BY <1>5 DEF CloseTab, DiscardPendingInput, ClearRetryTimers
  <2>2. closes' \subseteq 1 .. opened
    BY <1>1, <2>1 DEF InputTypes, TabTypes, None
  <2>3. InputTypes'
    BY <1>1, <1>2, <2>1, <2>2, EmptySeq DEF InputTypes
  <2>. QED  BY <1>2, <2>1, <2>3, LettingGoKeepsInput
<1>. QED  BY <1>3, <1>4, <1>5
----
LEMMA TypeKeepsInput ==
  ASSUME IInv, InputInv, Type
  PROVE  InputInv'
<1>1. /\ InputTypes /\ BufferIsCurrent /\ NothingTypedYet /\ GotInOrder /\ LineIsComplete
      /\ HeadIsNext /\ TabTypes
  BY DEF IInv, InputInv
<1>. PICK c, p : /\ c = current
                 /\ p = [conn |-> IF buffer = <<>> THEN c ELSE buffer[1].conn, n |-> typed[c] + 1]
  OBVIOUS
<1>2. /\ CanType /\ pieces < MaxInput /\ pieces' = pieces + 1
      /\ typed' = [typed EXCEPT ![c] = @ + 1] /\ buffer' = Append(buffer, p)
      /\ stage' = stage /\ asked' = asked /\ closes' = closes /\ open' = open
      /\ current' = current /\ opened' = opened /\ state' = state /\ timer' = timer
      /\ chain' = chain /\ sending' = sending /\ received' = received
  BY DEF Type, service, invokes, ui
<1>3. c \in Connections /\ c = opened /\ state = "connected" /\ current = c
  BY <1>1, <1>2 DEF CanType, TabTypes, Connections, None
<1>4. p = [conn |-> c, n |-> typed[c] + 1]
  <2>1. buffer # <<>> => 1 \in DOMAIN buffer
    BY <1>1, LenProperties, EmptySeq DEF InputTypes
  <2>. QED  BY <1>1, <2>1 DEF BufferIsCurrent
<1>5. typed[c] \in Nat /\ typed[c] + 1 \in 1 .. MaxInput /\ typed[c] + 1 <= pieces + 1
  BY <1>1, <1>2, <1>3 DEF InputTypes
<1>6. p \in Piece /\ p.conn = c /\ p.n = typed[c] + 1
  BY <1>3, <1>4, <1>5 DEF Piece
<1>7. /\ Append(buffer, p) \in Seq(Piece) /\ DOMAIN Append(buffer, p) = 1 .. Len(buffer) + 1
      /\ \A i \in 1 .. Len(buffer) : Append(buffer, p)[i] = buffer[i]
      /\ Append(buffer, p)[Len(buffer) + 1] = p
      /\ Len(buffer) \in Nat /\ DOMAIN buffer = 1 .. Len(buffer)
  BY <1>1, <1>6, AppendKeeps DEF InputTypes
<1>8. InputTypes'
  <2>1. typed \in [Connections -> 0 .. pieces] /\ pieces \in 0 .. MaxInput
    BY <1>1 DEF InputTypes
  <2>2. 0 .. pieces \subseteq 0 .. pieces + 1 /\ typed[c] + 1 \in 0 .. pieces + 1
    BY <1>5, <2>1
  <2>3. [typed EXCEPT ![c] = @ + 1] \in [Connections -> 0 .. pieces + 1]
    BY <2>1, <2>2
  <2>4. typed' \in [Connections -> 0 .. pieces'] /\ pieces' \in 0 .. MaxInput
    BY <1>2, <2>1, <2>3
  <2>. QED  BY <1>1, <1>2, <1>7, <2>4 DEF InputTypes
<1>9. BufferIsCurrent'
  <2>1. CanType'
    BY <1>2 DEF CanType
  <2>2. ASSUME NEW i \in DOMAIN Append(buffer, p)
        PROVE  Append(buffer, p)[i].conn = c
    <3>1. CASE i \in 1 .. Len(buffer)
      <4>1. buffer # <<>>
        BY <3>1, EmptySeq
      <4>. QED  BY <3>1, <4>1, <1>1, <1>3, <1>7 DEF BufferIsCurrent
    <3>2. CASE i = Len(buffer) + 1
      BY <3>2, <1>6, <1>7
    <3>. QED  BY <3>1, <3>2, <1>7
  <2>. QED  BY <2>1, <2>2, <1>1, <1>2, <1>3 DEF BufferIsCurrent
<1>10. NothingTypedYet'
  <2>1. ASSUME NEW d \in Connections, d > opened \/ (current = d /\ state = "connecting")
        PROVE  d # c
    BY <1>1, <1>3, <2>1 DEF TabTypes
  <2>. QED  BY <2>1, <1>1, <1>2 DEF NothingTypedYet, Current, InputTypes
<1>11. GotInOrder' /\ HeadIsNext'
  BY <1>1, <1>2 DEF GotInOrder, HeadIsNext
<1>12. LineIsComplete'
  <2>1. ASSUME stage[c] = "ready"
        PROVE  Line(chain \o Append(buffer, p), c, Len(received[c]), typed[c] + 1)
    <3>1. Line(Waiting, c, Len(received[c]), typed[c])
      BY <2>1, <1>1, <1>2, <1>3 DEF LineIsComplete
    <3>2. Waiting \in Seq(Piece) /\ chain \o Append(buffer, p) = Append(Waiting, p)
      BY <1>1, <1>6, WaitingFacts DEF Waiting, InputTypes
    <3>3. Len(received[c]) \in Nat
      BY <1>1, <1>3, LenProperties DEF InputTypes
    <3>. QED  BY <3>1, <3>2, <3>3, <1>5, <1>6, LineGrows
  <2>2. typed'[c] = typed[c] + 1
    BY <1>1, <1>2, <1>3 DEF InputTypes
  <2>. QED  BY <2>1, <2>2, <1>2, <1>3 DEF LineIsComplete, Waiting
<1>. QED  BY <1>8, <1>9, <1>10, <1>11, <1>12 DEF InputInv

LEMMA FlushKeepsInput ==
  ASSUME IInv, InputInv, FlushInput
  PROVE  InputInv'
<1>1. /\ InputTypes /\ BufferIsCurrent /\ NothingTypedYet /\ GotInOrder /\ LineIsComplete
      /\ HeadIsNext /\ TabTypes
  BY DEF IInv, InputInv
<1>2. /\ buffer # <<>> /\ chain' = chain \o buffer /\ buffer' = <<>>
      /\ stage' = stage /\ asked' = asked /\ closes' = closes /\ open' = open
      /\ current' = current /\ opened' = opened /\ state' = state /\ timer' = timer
      /\ typed' = typed /\ pieces' = pieces /\ sending' = sending /\ received' = received
  BY DEF FlushInput, service, invokes, ui
<1>3. /\ chain \in Seq(Piece) /\ buffer \in Seq(Piece)
      /\ chain' \in Seq(Piece) /\ chain' \o <<>> = chain' /\ <<>> \in Seq(Piece)
      /\ \A i \in DOMAIN chain' : \/ i \in DOMAIN chain /\ chain'[i] = chain[i]
                                  \/ \E j \in DOMAIN buffer : chain'[i] = buffer[j]
      /\ chain # <<>> => chain' # <<>> /\ chain'[1] = chain[1]
  BY <1>1, <1>2, WaitingFacts, EmptySeq DEF InputTypes
<1>4. CanType /\ \A j \in DOMAIN buffer : buffer[j].conn = current
  BY <1>1, <1>2 DEF BufferIsCurrent
<1>5. InputTypes'
  BY <1>1, <1>2, <1>3 DEF InputTypes
<1>6. BufferIsCurrent'
  BY <1>1, <1>2 DEF BufferIsCurrent, CanType
<1>7. NothingTypedYet'
  <2>1. stage[current] \notin {"absent", "setup"} /\ current = opened /\ opened \in Nat
        /\ state = "connected"
    BY <1>1, <1>4 DEF BufferIsCurrent, CanType, TabTypes
  <2>2. \A i \in DOMAIN chain' :
          (i \in DOMAIN chain /\ chain'[i] = chain[i]) \/ chain'[i].conn = current
    BY <1>3, <1>4
  <2>3. \A i \in DOMAIN chain' : stage[chain'[i].conn] \notin {"absent", "setup"}
    BY <2>1, <2>2, <1>1 DEF NothingTypedYet
  <2>4. ASSUME NEW d \in Connections, d > opened \/ (current = d /\ state = "connecting")
        PROVE  typed[d] = 0 /\ received[d] = <<>> /\ \A i \in DOMAIN chain' : chain'[i].conn # d
    <3>1. d # current
      BY <2>1, <2>4 DEF Connections
    <3>. QED  BY <3>1, <2>2, <2>4, <1>1 DEF NothingTypedYet, Current
  <2>. QED  BY <2>3, <2>4, <1>2 DEF NothingTypedYet, Current
<1>8. GotInOrder' /\ HeadIsNext'
  BY <1>1, <1>2, <1>3 DEF GotInOrder, HeadIsNext, InputTypes
<1>9. LineIsComplete'
  <2>1. Waiting' = Waiting
    BY <1>2, <1>3 DEF Waiting
  <2>. QED  BY <2>1, <1>1, <1>2 DEF LineIsComplete, CanType, Line
<1>. QED  BY <1>5, <1>6, <1>7, <1>8, <1>9 DEF InputInv

\* A piece leaves the head of the chain, whatever becomes of it.
LEMMA TailKeepsInput ==
  ASSUME IInv, InputInv, chain # <<>>, chain' = Tail(chain)
  PROVE  /\ chain[1] \in Piece /\ chain[1].conn \in Connections
         /\ stage[chain[1].conn] \notin {"absent", "setup"}
         /\ Head(chain) = chain[1] /\ chain' \in Seq(Piece)
         /\ \A i \in DOMAIN chain' : chain'[i].conn \in {chain[j].conn : j \in DOMAIN chain}
         /\ Waiting \in Seq(Piece) /\ Waiting # <<>> /\ Waiting[1] = chain[1]
         /\ Tail(chain) \o buffer = Tail(Waiting)
<1>1. chain \in Seq(Piece) /\ buffer \in Seq(Piece) /\ NothingTypedYet
  BY DEF InputInv, InputTypes
<1>2. /\ Head(chain) = chain[1] /\ Tail(chain) \in Seq(Piece) /\ 1 \in DOMAIN chain
      /\ \A i \in DOMAIN Tail(chain) : i + 1 \in DOMAIN chain /\ Tail(chain)[i] = chain[i + 1]
  BY <1>1, TailIs
<1>3. chain[1] \in Piece /\ chain[1].conn \in Connections
  BY <1>1, <1>2, PieceIs
<1>4. \A i \in DOMAIN chain' : chain'[i].conn \in {chain[j].conn : j \in DOMAIN chain}
  BY <1>2
<1>5. /\ Waiting \in Seq(Piece) /\ Waiting # <<>> /\ Waiting[1] = chain[1]
      /\ Tail(chain) \o buffer = Tail(Waiting)
  BY <1>1, WaitingFacts DEF Waiting
<1>. QED  BY <1>1, <1>2, <1>3, <1>4, <1>5 DEF NothingTypedYet

\* A piece is sent to its connection, or dropped: the tab has let go of that one.
LEMMA SendKeepsInput ==
  ASSUME IInv, InputInv, SendPiece
  PROVE  InputInv'
<1>1. /\ InputTypes /\ BufferIsCurrent /\ NothingTypedYet /\ GotInOrder /\ LineIsComplete
      /\ HeadIsNext /\ TabTypes
  BY DEF IInv, InputInv
<1>. PICK p : p = chain[1]
  OBVIOUS
<1>2. /\ chain # <<>> /\ Head(chain) = p /\ p.conn \in Connections /\ p.n \in 1 .. MaxInput
      /\ stage[p.conn] \notin {"absent", "setup"}
      /\ Waiting \in Seq(Piece) /\ Waiting # <<>> /\ Waiting[1] = p
  <2>1. chain # <<>> /\ 1 \in DOMAIN chain
    BY <1>1, TailIs DEF SendPiece, InputTypes
  <2>2. p \in Piece /\ p.conn \in Connections /\ p.n \in 1 .. MaxInput
    BY <2>1, <1>1, PieceIs DEF InputTypes
  <2>3. chain \in Seq(Piece) /\ buffer \in Seq(Piece)
    BY <1>1 DEF InputTypes
  <2>. QED  BY <2>1, <2>2, <2>3, <1>1, TailIs, WaitingFacts DEF NothingTypedYet, Waiting
<1>3. /\ ~sending /\ buffer' = buffer /\ typed' = typed /\ pieces' = pieces
      /\ received' = received /\ stage' = stage /\ asked' = asked /\ closes' = closes
      /\ open' = open /\ current' = current /\ opened' = opened /\ state' = state
      /\ timer' = timer
  BY DEF SendPiece, service, invokes, ui
<1>4. CASE Current(p.conn) /\ CanType /\ sending' = TRUE /\ chain' = chain
  <2>1. HeadIsNext'
    <3>1. ASSUME stage[p.conn] = "ready" PROVE p.n = Len(received[p.conn]) + 1
      <4>1. Line(Waiting, p.conn, Len(received[p.conn]), typed[p.conn])
        BY <1>1, <1>4, <3>1 DEF LineIsComplete, Current
      <4>2. Len(received[p.conn]) \in Nat /\ typed[p.conn] \in Nat
        BY <1>1, <1>2, LenProperties DEF InputTypes
      <4>. QED  BY <1>2, <4>1, <4>2, LineHead
    <3>. QED  BY <3>1, <1>3, <1>4 DEF HeadIsNext
  <2>2. InputTypes'
    BY <1>1, <1>2, <1>3, <1>4 DEF InputTypes
  <2>3. BufferIsCurrent' /\ NothingTypedYet' /\ GotInOrder'
    BY <1>1, <1>3, <1>4 DEF BufferIsCurrent, CanType, NothingTypedYet, Current, GotInOrder
  <2>4. LineIsComplete'
    BY <1>1, <1>3, <1>4 DEF LineIsComplete, CanType, Waiting, Line
  <2>. QED  BY <2>1, <2>2, <2>3, <2>4 DEF InputInv
<1>5. CASE ~(Current(p.conn) /\ CanType) /\ chain' = Tail(chain) /\ sending' = sending
  <2>1. /\ chain' \in Seq(Piece) /\ Tail(chain) \o buffer = Tail(Waiting)
        /\ \A i \in DOMAIN chain' : chain'[i].conn \in {chain[j].conn : j \in DOMAIN chain}
    BY <1>2, <1>5, TailKeepsInput
  <2>2. InputTypes'
    BY <1>1, <1>3, <1>5, <2>1 DEF InputTypes
  <2>3. BufferIsCurrent' /\ GotInOrder' /\ HeadIsNext'
    BY <1>1, <1>3, <1>5 DEF BufferIsCurrent, CanType, GotInOrder, HeadIsNext
  <2>4. NothingTypedYet'
    BY <1>1, <1>3, <2>1 DEF NothingTypedYet, Current
  <2>5. LineIsComplete'
    <3>1. ASSUME CanType, stage[current] = "ready"
          PROVE  Line(Tail(Waiting), current, Len(received[current]), typed[current])
      <4>1. p.conn # current /\ current \in Connections
        BY <1>1, <1>5, <3>1 DEF Current, CanType, TabTypes, Connections, None
      <4>2. Len(received[current]) \in Nat /\ typed[current] \in Nat
        BY <1>1, <4>1, LenProperties DEF InputTypes
      <4>3. Line(Waiting, current, Len(received[current]), typed[current])
        BY <1>1, <3>1 DEF LineIsComplete
      <4>. QED  BY <1>2, <4>1, <4>2, <4>3, LineHead
    <3>2. Waiting' = Tail(Waiting)
      BY <1>3, <1>5, <2>1 DEF Waiting
    <3>. QED  BY <3>1, <3>2, <1>3 DEF LineIsComplete, CanType
  <2>. QED  BY <2>2, <2>3, <2>4, <2>5 DEF InputInv
<1>. QED  BY <1>2, <1>4, <1>5 DEF SendPiece

\* The head of the chain reaches the backend: its shell gets the next piece, or
\* is gone.
LEMMA ArrivalKeepsInput ==
  ASSUME IInv, InputInv, InputArrives
  PROVE  InputInv'
<1>1. /\ InputTypes /\ BufferIsCurrent /\ NothingTypedYet /\ GotInOrder /\ LineIsComplete
      /\ HeadIsNext /\ TabTypes
  BY DEF IInv, InputInv
<1>. PICK p, d : p = chain[1] /\ d = p.conn
  OBVIOUS
<1>2. /\ sending /\ chain # <<>> /\ chain' = Tail(chain) /\ sending' = FALSE
      /\ buffer' = buffer /\ typed' = typed /\ pieces' = pieces /\ stage' = stage
      /\ asked' = asked /\ closes' = closes /\ open' = open /\ current' = current
      /\ opened' = opened /\ state' = state /\ timer' = timer
  BY <1>1 DEF InputArrives, InputTypes, service, invokes, ui
<1>3. /\ Head(chain) = p /\ d \in Connections /\ stage[d] \notin {"absent", "setup"}
      /\ chain' \in Seq(Piece) /\ Tail(chain) \o buffer = Tail(Waiting)
      /\ Waiting \in Seq(Piece) /\ Waiting # <<>> /\ Waiting[1] = p
      /\ \A i \in DOMAIN chain' : chain'[i].conn \in {chain[j].conn : j \in DOMAIN chain}
  BY <1>2, TailKeepsInput
<1>4. 1 \in DOMAIN chain /\ p.n \in 1 .. MaxInput
  <2>1. chain \in Seq(Piece) /\ 1 \in DOMAIN chain
    BY <1>1, <1>2, TailIs DEF InputTypes
  <2>. QED  BY <2>1, PieceIs
<1>5. received \in [Connections -> Seq(1 .. MaxInput)] /\ typed \in [Connections -> Nat]
      /\ \A c \in Connections : Len(received[c]) \in Nat
  BY <1>1, LenProperties DEF InputTypes
<1>6. \/ /\ stage[d] = "ready"
         /\ received' = [received EXCEPT ![d] = Append(@, p.n)]
      \/ stage[d] # "ready" /\ received' = received
  BY <1>3 DEF InputArrives
<1>7. ASSUME stage[d] = "ready"
      PROVE  /\ received'[d] = Append(received[d], p.n)
             /\ p.n = Len(received[d]) + 1
             /\ received'[d] \in Seq(1 .. MaxInput)
             /\ Len(received'[d]) = Len(received[d]) + 1
             /\ \A i \in DOMAIN received'[d] : received'[d][i] = i
  <2>. PICK q, v : q = received[d] /\ v = Append(q, p.n)
    OBVIOUS
  <2>1. received'[d] = v /\ q \in Seq(1 .. MaxInput)
    BY <1>3, <1>5, <1>6, <1>7
  <2>2. p.n = Len(q) + 1 /\ \A i \in DOMAIN q : q[i] = i
    BY <1>1, <1>2, <1>3, <1>7 DEF HeadIsNext, GotInOrder
  <2>3. /\ v \in Seq(1 .. MaxInput) /\ Len(v) = Len(q) + 1
        /\ \A i \in 1 .. Len(q) : v[i] = q[i]
        /\ v[Len(q) + 1] = p.n
        /\ Len(q) \in Nat /\ DOMAIN q = 1 .. Len(q) /\ DOMAIN v = 1 .. Len(q) + 1
    BY <2>1, <1>4, AppendKeeps
  <2>4. \A i \in DOMAIN v : v[i] = i
    BY <2>2, <2>3
  <2>. QED  BY <2>1, <2>2, <2>3, <2>4
<1>8. \A c \in Connections : c # d \/ stage[d] # "ready" => received'[c] = received[c]
  BY <1>5, <1>6
<1>9. InputTypes'
  <2>1. received' \in [Connections -> Seq(1 .. MaxInput)]
    BY <1>5, <1>6, <1>7
  <2>. QED  BY <2>1, <1>1, <1>2, <1>3 DEF InputTypes
<1>10. BufferIsCurrent' /\ HeadIsNext'
  BY <1>1, <1>2 DEF BufferIsCurrent, CanType, HeadIsNext
<1>11. GotInOrder'
  BY <1>1, <1>3, <1>7, <1>8 DEF GotInOrder
<1>12. NothingTypedYet'
  <2>1. \A i \in DOMAIN chain' : stage[chain'[i].conn] \notin {"absent", "setup"}
    BY <1>1, <1>3 DEF NothingTypedYet
  <2>2. ASSUME NEW c \in Connections, c > opened \/ (Current(c) /\ state = "connecting")
        PROVE  /\ typed[c] = 0 /\ received'[c] = <<>>
               /\ \A i \in DOMAIN chain' : chain'[i].conn # c
    <3>1. typed[c] = 0 /\ received[c] = <<>> /\ \A i \in DOMAIN chain : chain[i].conn # c
      BY <1>1, <2>2 DEF NothingTypedYet
    <3>2. d # c
      BY <3>1, <1>4
    <3>. QED  BY <3>1, <3>2, <1>3, <1>8
  <2>. QED  BY <2>1, <2>2, <1>2 DEF NothingTypedYet, Current
<1>13. LineIsComplete'
  <2>1. ASSUME CanType, stage[current] = "ready"
        PROVE  Line(Tail(Waiting), current, Len(received'[current]), typed[current])
    <3>1. current \in Connections
      BY <1>1, <2>1 DEF CanType, TabTypes, Connections, None
    <3>2. Line(Waiting, current, Len(received[current]), typed[current])
      BY <1>1, <2>1 DEF LineIsComplete
    <3>3. Len(received[current]) \in Nat /\ typed[current] \in Nat
      BY <3>1, <1>5
    <3>4. CASE d = current
      <4>. PICK lo, hi : lo = Len(received[current]) /\ hi = typed[current]
        OBVIOUS
      <4>1. Line(Waiting, current, lo, hi) /\ lo \in Nat /\ hi \in Nat
        BY <3>2, <3>3
      <4>2. Waiting[1].conn = current
        BY <3>4, <1>3
      <4>3. Line(Tail(Waiting), current, lo + 1, hi)
        BY <4>1, <4>2, <1>3, LineHead
      <4>4. Len(received'[current]) = lo + 1
        BY <3>4, <2>1, <1>7
      <4>. QED  BY <4>3, <4>4
    <3>5. CASE d # current
      BY <3>1, <3>2, <3>3, <3>5, <1>3, <1>8, LineHead
    <3>. QED  BY <3>4, <3>5
  <2>2. Waiting' = Tail(Waiting)
    BY <1>2, <1>3 DEF Waiting
  <2>. QED  BY <2>1, <2>2, <1>2 DEF LineIsComplete, CanType
<1>. QED  BY <1>9, <1>10, <1>11, <1>12, <1>13 DEF InputInv

LEMMA NextKeepsInput == IInv /\ InputInv /\ [Next]_vars => InputInv'
<1>. SUFFICES ASSUME IInv, InputInv, [Next]_vars PROVE InputInv'
  OBVIOUS
<1>1. CASE UNCHANGED vars
  <2>1. UNCHANGED <<asked, closes, open, timer, stage, current, opened, state, input>>
    BY <1>1 DEF vars, service, invokes, ui
  <2>2. InputTypes' /\ TabTypes
    BY <2>1 DEF InputInv, InputTypes, input, IInv
  <2>. QED  BY <2>1, <2>2, SessionGoesOn
<1>2. ASSUME NEW c \in Connections, InvokeStep(c) PROVE InputInv'
  BY <1>2, ServiceKeepsInput, EventsKeepInput DEF InvokeStep
<1>3. ASSUME NEW c \in Connections,
             \/ ReachShell(c) \/ SessionEnds(c) \/ Announce(c) \/ Unregister(c)
             \/ HandleEvent(c)
      PROVE  InputInv'
  BY <1>3, ServiceKeepsInput, EventsKeepInput
<1>4. CASE Start \/ Retry \/ StartRefused \/ CancelRetry \/ CloseTab
  BY <1>4, OperatorKeepsInput
<1>5. CASE Type
  BY <1>5, TypeKeepsInput
<1>6. CASE InputStep
  BY <1>6, FlushKeepsInput, SendKeepsInput, ArrivalKeepsInput DEF InputStep
<1>. QED  BY <1>1, <1>2, <1>3, <1>4, <1>5, <1>6 DEF Next

\* The invariant of the input holds of every state the tab can reach.
THEOREM InputInductive == Spec => []InputInv
<1>1. Init => InputInv
  BY InitInputInv
<1>2. IInv /\ InputInv /\ [Next]_vars => InputInv'
  BY NextKeepsInput
<1>. QED  BY <1>1, <1>2, Inductive, PTL DEF Spec

\* Every variable of the tab keeps its type, whatever the order of the events.
THEOREM TypeCorrect == Spec => []TypeOK
<1>1. IInv /\ InputInv => TypeOK
  <2>. SUFFICES ASSUME IInv, InputInv PROVE TypeOK
    OBVIOUS
  <2>1. SessionTypes /\ TabTypes /\ InputTypes
    BY DEF IInv, InputInv
  <2>. QED  BY <2>1 DEF TypeOK, SessionTypes, TabTypes, InputTypes
<1>. QED  BY <1>1, Inductive, InputInductive, PTL

\* What is typed into a shell reaches that shell, once and in order, and while
\* the shell lives nothing that was accepted is lost.
THEOREM InputCorrect == Spec => []InputReachesItsShell
<1>1. IInv /\ InputInv => InputReachesItsShell
  <2>. SUFFICES ASSUME IInv, InputInv, NEW c \in Connections
                PROVE  /\ received[c] = UpTo(Len(received[c]))
                       /\ Current(c) /\ state = "connected" /\ stage[c] = "ready" =>
                            /\ {Waiting[i].n : i \in Held(c)} = Len(received[c]) + 1 .. typed[c]
                            /\ \A i, j \in Held(c) : i < j => Waiting[i].n < Waiting[j].n
    BY DEF InputReachesItsShell
  <2>1. InputTypes /\ GotInOrder /\ LineIsComplete
    BY DEF InputInv
  <2>2. received[c] = UpTo(Len(received[c]))
    <3>. PICK q : q = received[c]
      OBVIOUS
    <3>1. q \in Seq(1 .. MaxInput) /\ \A i \in DOMAIN q : q[i] = i
      BY <2>1 DEF InputTypes, GotInOrder
    <3>2. Len(q) \in Nat /\ DOMAIN q = 1 .. Len(q) /\ q \in [1 .. Len(q) -> 1 .. MaxInput]
      BY <3>1, LenProperties
    <3>3. q = [i \in 1 .. Len(q) |-> i]
      BY <3>1, <3>2
    <3>. QED  BY <3>3 DEF UpTo
  <2>3. ASSUME Current(c), state = "connected", stage[c] = "ready"
        PROVE  /\ {Waiting[i].n : i \in Held(c)} = Len(received[c]) + 1 .. typed[c]
               /\ \A i, j \in Held(c) : i < j => Waiting[i].n < Waiting[j].n
    <3>. PICK lo, hi : lo = Len(received[c]) /\ hi = typed[c]
      OBVIOUS
    <3>1. Line(Waiting, c, lo, hi)
      BY <2>1, <2>3 DEF LineIsComplete, CanType, Current, Connections, None
    <3>2. \A i \in Held(c) : i \in DOMAIN Waiting /\ Waiting[i].conn = c
      BY DEF Held
    <3>3. \A i \in DOMAIN Waiting : Waiting[i].conn = c => i \in Held(c)
      BY DEF Held
    <3>4. {Waiting[i].n : i \in Held(c)} = lo + 1 .. hi
      BY <3>1, <3>2, <3>3 DEF Line
    <3>5. \A i, j \in Held(c) : i < j => Waiting[i].n < Waiting[j].n
      BY <3>1, <3>2 DEF Line
    <3>. QED  BY <3>4, <3>5
  <2>. QED  BY <2>2, <2>3
<1>. QED  BY <1>1, Inductive, InputInductive, PTL
=============================================================================
