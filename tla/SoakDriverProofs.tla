-------------------------- MODULE SoakDriverProofs --------------------------
(***************************************************************************)
(* Proofs about SoakDriver, for any number of connections, heartbeats and  *)
(* retries and any capacity: every heartbeat is counted once, and none is  *)
(* ever taken for a replayed one.                                          *)
(***************************************************************************)
EXTENDS SoakDriver, FiniteSetTheorems, SequenceTheorems, TLAPS

\* The types, by what they are about.
Requests == Messages({"close", "reply"})
Events   == Messages({"ready", "query"})
Outcomes == {L!NoOutcome} \cup L!SetupOutcomes \cup L!ShellOutcomes

SessionTypes ==
  /\ stage \in [Connections -> L!Stages]
  /\ outcome \in [Connections -> Outcomes]
  /\ conn \in 0 .. MaxConnections
  /\ phase \in {"top", "open", "over"}
  /\ Open => conn \in Connections

FlagTypes ==
  /\ told \in BOOLEAN /\ stalled \in BOOLEAN /\ asked \in BOOLEAN
  /\ late \in BOOLEAN /\ ready \in BOOLEAN /\ closing \in BOOLEAN /\ lost \in BOOLEAN

ChannelTypes ==
  /\ shell \in Seq(Beats)
  /\ commands \in Seq(Requests) /\ Len(commands) <= CommandCap
  /\ events \in Seq(Events)

\* A heartbeat under way to the channel has the last number, which is in flight
\* only once it is sent; and the numbers are enough for those without an answer.
CountTypes ==
  /\ waiting \in {"none", "beat", "reply", "close"}
  /\ sequence \in 0 .. MaxBeats
  /\ inflight \subseteq 1 .. sequence
  /\ waiting = "beat" => sequence \in Beats /\ sequence \notin inflight
  /\ acknowledged \subseteq Beats
  /\ unanswered \in Nat
  /\ unanswered + Cardinality(inflight) + (IF waiting = "beat" THEN 1 ELSE 0) <= sequence
  /\ attempt \in 0 .. MaxRetries
  /\ report \in [Counters -> Nat]

Types == SessionTypes /\ FlagTypes /\ ChannelTypes /\ CountTypes

USE SoakAssumption

----
(* Where the heartbeats are. *)

Numbers(channel) ==
  {channel[i].number : i \in {j \in DOMAIN channel : channel[j].kind = "beat"}}
Typed == {shell[i] : i \in DOMAIN shell}
Pending == IF waiting = "beat" THEN {sequence} ELSE {}
Below(A, B) == \A a \in A, b \in B : a < b

PartsInOrder(A, E, T, C, P) ==
  /\ Below(A, E \cup T \cup C \cup P)
  /\ Below(E, T \cup C \cup P)
  /\ Below(T, C \cup P)
  /\ Below(C, P)

Rising(channel) ==
  \A i, j \in DOMAIN channel :
    (i < j /\ channel[i].kind = "beat" /\ channel[j].kind = "beat") =>
      channel[i].number < channel[j].number

\* The heartbeats are a pipeline: what waits to be sent, what is in the command
\* channel, what the shell has to answer and what is in the event channel are in
\* order of their numbers, and all of them come after every one acknowledged.
Pipeline ==
  /\ Rising(events) /\ Rising(commands)
  /\ \A i, j \in DOMAIN shell : i < j => shell[i] < shell[j]
  /\ PartsInOrder(acknowledged, Numbers(events), Typed, Numbers(commands), Pending)
  /\ acknowledged \cup Numbers(events) \cup Typed \cup Numbers(commands)
       \subseteq 1 .. sequence
----
(* Channels. *)

\* A message from either end of a channel is a heartbeat only with its number.
LEMMA MessageFacts ==
  /\ \A m \in Requests \cup Events : m.kind = "beat" => m.number \in Beats
  /\ \A b \in Beats : Message("beat", b) \in Requests /\ Message("beat", b) \in Events
  /\ \A b : Message("beat", b).kind = "beat" /\ Message("beat", b).number = b
  /\ Signal("close") \in Requests /\ Signal("reply") \in Requests
  /\ Signal("ready") \in Events /\ Signal("query") \in Events
  /\ \A k : Signal(k).kind = k
<1>1. (\A k, n : Message(k, n).kind = k /\ Message(k, n).number = n)
      /\ \A k : Signal(k).kind = k
  BY DEF Message, Signal
<1>2. /\ \A m \in Requests : (\E k \in {"close", "reply"} : m = Signal(k))
                            \/ \E b \in Beats : m = Message("beat", b)
      /\ \A m \in Events : (\E k \in {"ready", "query"} : m = Signal(k))
                          \/ \E b \in Beats : m = Message("beat", b)
  BY DEF Requests, Events, Messages
<1>3. \A m \in Requests \cup Events : m.kind = "beat" => m.number \in Beats
  <2>1. ASSUME NEW m \in Requests, m.kind = "beat" PROVE m.number \in Beats
    <3>1. \A k \in {"close", "reply"} : m # Signal(k)
      BY <1>1, <2>1
    <3>. QED BY <1>1, <1>2, <3>1
  <2>2. ASSUME NEW m \in Events, m.kind = "beat" PROVE m.number \in Beats
    <3>1. \A k \in {"ready", "query"} : m # Signal(k)
      BY <1>1, <2>2
    <3>. QED BY <1>1, <1>2, <3>1
  <2>. QED BY <2>1, <2>2
<1>4. \A b \in Beats : Message("beat", b) \in Requests /\ Message("beat", b) \in Events
  BY DEF Requests, Events, Messages
<1>5. /\ Signal("close") \in Requests /\ Signal("reply") \in Requests
      /\ Signal("ready") \in Events /\ Signal("query") \in Events
  BY DEF Requests, Events, Messages
<1>. QED BY <1>1, <1>3, <1>4, <1>5

\* A message that comes after every heartbeat of the channel.
LEMMA AppendNumbers ==
  ASSUME NEW M, NEW channel \in Seq(M), NEW m \in M, Rising(channel),
         m.kind = "beat" => Below(Numbers(channel), {m.number})
  PROVE  /\ Append(channel, m) \in Seq(M) /\ Rising(Append(channel, m))
         /\ Numbers(Append(channel, m)) =
              Numbers(channel) \cup (IF m.kind = "beat" THEN {m.number} ELSE {})
<1>1. /\ Append(channel, m) \in Seq(M)
      /\ Len(channel) \in Nat /\ DOMAIN channel = 1 .. Len(channel)
      /\ DOMAIN Append(channel, m) = 1 .. Len(channel) + 1
      /\ \A i \in 1 .. Len(channel) : Append(channel, m)[i] = channel[i]
      /\ Append(channel, m)[Len(channel) + 1] = m
  BY AppendProperties, LenProperties
<1>2. \A i \in DOMAIN channel : channel[i].kind = "beat" => channel[i].number \in Numbers(channel)
  BY DEF Numbers
<1>3. Rising(Append(channel, m))
  <2>. SUFFICES ASSUME NEW i \in 1 .. Len(channel) + 1, NEW j \in 1 .. Len(channel) + 1, i < j,
                       Append(channel, m)[i].kind = "beat", Append(channel, m)[j].kind = "beat"
                PROVE  Append(channel, m)[i].number < Append(channel, m)[j].number
    BY <1>1 DEF Rising
  <2>1. i \in 1 .. Len(channel)
    BY <1>1
  <2>2. CASE j = Len(channel) + 1
    BY <1>1, <1>2, <2>1, <2>2 DEF Below
  <2>3. CASE j \in 1 .. Len(channel)
    BY <1>1, <2>1, <2>3 DEF Rising
  <2>. QED BY <1>1, <2>2, <2>3
<1>4. ASSUME NEW x
      PROVE  x \in Numbers(Append(channel, m)) <=>
               x \in Numbers(channel) \/ (m.kind = "beat" /\ x = m.number)
  <2>1. \A i \in 1 .. Len(channel) + 1 : i \in 1 .. Len(channel) \/ i = Len(channel) + 1
    BY <1>1
  <2>2. 1 .. Len(channel) \subseteq 1 .. Len(channel) + 1
        /\ Len(channel) + 1 \in 1 .. Len(channel) + 1
    BY <1>1
  <2>3. x \in Numbers(Append(channel, m)) <=>
          \E i \in 1 .. Len(channel) + 1 :
            Append(channel, m)[i].kind = "beat" /\ x = Append(channel, m)[i].number
    BY <1>1 DEF Numbers
  <2>4. x \in Numbers(channel) <=>
          \E i \in 1 .. Len(channel) : channel[i].kind = "beat" /\ x = channel[i].number
    BY <1>1 DEF Numbers
  <2>. QED BY <1>1, <2>1, <2>2, <2>3, <2>4
<1>. QED BY <1>1, <1>3, <1>4

\* The first message taken from a channel.
LEMMA TailNumbers ==
  ASSUME NEW M, NEW channel \in Seq(M), channel # <<>>, Rising(channel)
  PROVE  /\ Head(channel) \in M /\ Tail(channel) \in Seq(M) /\ Rising(Tail(channel))
         /\ Len(Tail(channel)) = Len(channel) - 1
         /\ Numbers(Tail(channel)) \subseteq Numbers(channel)
         /\ Head(channel).kind = "beat" =>
              Head(channel).number \in Numbers(channel)
              /\ Below({Head(channel).number}, Numbers(Tail(channel)))
<1>1. /\ Head(channel) \in M /\ Tail(channel) \in Seq(M)
      /\ Len(Tail(channel)) = Len(channel) - 1
      /\ \A i \in 1 .. Len(Tail(channel)) : Tail(channel)[i] = channel[i + 1]
      /\ Len(channel) \in Nat \ {0} /\ DOMAIN channel = 1 .. Len(channel)
      /\ DOMAIN Tail(channel) = 1 .. Len(Tail(channel))
      /\ Head(channel) = channel[1]
  <2>1. Head(channel) = channel[1]
    OBVIOUS
  <2>. QED BY <2>1, HeadTailProperties, LenProperties, EmptySeq
<1>2. \A i \in 1 .. Len(Tail(channel)) : i + 1 \in 1 .. Len(channel) /\ 1 < i + 1
  BY <1>1
<1>3. 1 \in 1 .. Len(channel)
  BY <1>1
<1>4. Rising(Tail(channel))
  <2>. SUFFICES ASSUME NEW i \in 1 .. Len(Tail(channel)), NEW j \in 1 .. Len(Tail(channel)),
                       i < j, Tail(channel)[i].kind = "beat", Tail(channel)[j].kind = "beat"
                PROVE  Tail(channel)[i].number < Tail(channel)[j].number
    BY <1>1 DEF Rising
  <2>1. i + 1 < j + 1
    OBVIOUS
  <2>. QED BY <1>1, <1>2, <2>1 DEF Rising
<1>5. ASSUME NEW x \in Numbers(Tail(channel))
      PROVE  \E i \in 2 .. Len(channel) : channel[i].kind = "beat" /\ x = channel[i].number
  <2>1. PICK i \in 1 .. Len(Tail(channel)) :
          Tail(channel)[i].kind = "beat" /\ x = Tail(channel)[i].number
    BY <1>1 DEF Numbers
  <2>2. i + 1 \in 2 .. Len(channel)
    BY <1>1
  <2>. QED BY <1>1, <2>1, <2>2
<1>6. \A i \in 2 .. Len(channel) : i \in DOMAIN channel /\ 1 < i
  BY <1>1
<1>7. Numbers(Tail(channel)) \subseteq Numbers(channel)
  BY <1>5, <1>6 DEF Numbers
<1>8. Head(channel).kind = "beat" =>
        Head(channel).number \in Numbers(channel)
        /\ Below({Head(channel).number}, Numbers(Tail(channel)))
  BY <1>1, <1>3, <1>5, <1>6 DEF Numbers, Rising, Below
<1>. QED BY <1>1, <1>4, <1>7, <1>8

\* The same of the heartbeats that the shell has to answer.
LEMMA AppendTyped ==
  ASSUME NEW b \in Beats, shell \in Seq(Beats), shell' = Append(shell, b),
         \A i, j \in DOMAIN shell : i < j => shell[i] < shell[j], Below(Typed, {b})
  PROVE  /\ shell' \in Seq(Beats) /\ Typed' = Typed \cup {b}
         /\ \A i, j \in DOMAIN shell' : i < j => shell'[i] < shell'[j]
<1>1. /\ shell' \in Seq(Beats)
      /\ Len(shell) \in Nat /\ DOMAIN shell = 1 .. Len(shell)
      /\ DOMAIN shell' = 1 .. Len(shell) + 1
      /\ \A i \in 1 .. Len(shell) : shell'[i] = shell[i]
      /\ shell'[Len(shell) + 1] = b
  BY AppendProperties, LenProperties
<1>2. \A i \in 1 .. Len(shell) + 1 : i \in 1 .. Len(shell) \/ i = Len(shell) + 1
  BY <1>1
<1>3. 1 .. Len(shell) \subseteq 1 .. Len(shell) + 1
      /\ Len(shell) + 1 \in 1 .. Len(shell) + 1
  BY <1>1
<1>4. ASSUME NEW i \in 1 .. Len(shell) + 1, NEW j \in 1 .. Len(shell) + 1, i < j
      PROVE  shell'[i] < shell'[j]
  <2>1. i \in 1 .. Len(shell)
    BY <1>1, <1>4
  <2>2. CASE j = Len(shell) + 1
    BY <1>1, <2>1, <2>2 DEF Below, Typed
  <2>3. CASE j \in 1 .. Len(shell)
    BY <1>1, <1>4, <2>1, <2>3
  <2>. QED BY <1>2, <2>2, <2>3
<1>5. Typed' = Typed \cup {b}
  BY <1>1, <1>2, <1>3 DEF Typed
<1>. QED BY <1>1, <1>4, <1>5

LEMMA TailTyped ==
  ASSUME shell \in Seq(Beats), shell # <<>>, shell' = Tail(shell),
         \A i, j \in DOMAIN shell : i < j => shell[i] < shell[j]
  PROVE  /\ Head(shell) \in Beats /\ shell' \in Seq(Beats)
         /\ Typed' \subseteq Typed /\ Head(shell) \in Typed /\ Below({Head(shell)}, Typed')
         /\ \A i, j \in DOMAIN shell' : i < j => shell'[i] < shell'[j]
<1>1. /\ Head(shell) \in Beats /\ shell' \in Seq(Beats)
      /\ Len(shell') = Len(shell) - 1
      /\ \A i \in 1 .. Len(shell') : shell'[i] = shell[i + 1]
      /\ Len(shell) \in Nat \ {0} /\ DOMAIN shell = 1 .. Len(shell)
      /\ DOMAIN shell' = 1 .. Len(shell')
      /\ Head(shell) = shell[1]
  <2>1. Head(shell) = shell[1]
    OBVIOUS
  <2>. QED BY <2>1, HeadTailProperties, LenProperties, EmptySeq
<1>2. \A i \in 1 .. Len(shell') : i + 1 \in 1 .. Len(shell) /\ 1 < i + 1
  BY <1>1
<1>3. 1 \in 1 .. Len(shell)
  BY <1>1
<1>4. \A i, j \in DOMAIN shell' : i < j => shell'[i] < shell'[j]
  <2>1. ASSUME NEW i \in 1 .. Len(shell'), NEW j \in 1 .. Len(shell'), i < j
        PROVE  shell'[i] < shell'[j]
    <3>1. i + 1 < j + 1
      BY <2>1
    <3>. QED BY <1>1, <1>2, <3>1
  <2>. QED BY <1>1, <2>1
<1>5. \A x \in Typed' : \E i \in 1 .. Len(shell) : 1 < i /\ x = shell[i]
  BY <1>1, <1>2 DEF Typed
<1>6. Typed' \subseteq Typed /\ Head(shell) \in Typed /\ Below({Head(shell)}, Typed')
  BY <1>1, <1>3, <1>5 DEF Typed, Below
<1>. QED BY <1>1, <1>4, <1>6

LEMMA Emptied ==
  /\ Numbers(<<>>) = {} /\ Rising(<<>>) /\ \A M : <<>> \in Seq(M) /\ Len(<<>>) = 0
  /\ shell = <<>> => Typed = {}
<1>1. DOMAIN <<>> = {}
  OBVIOUS
<1>. QED BY <1>1, EmptySeq DEF Numbers, Rising, Typed

----
(* Types. *)

LEMMA InitTypes == Init => Types
<1>. SUFFICES ASSUME Init PROVE Types
  OBVIOUS
<1>1. SessionTypes
  BY DEF Init, SessionTypes, L!Init, L!Stages, Outcomes, Open
<1>2. FlagTypes
  BY DEF Init, FlagTypes
<1>3. ChannelTypes
  BY Emptied DEF Init, ChannelTypes
<1>4. CountTypes
  BY FS_EmptySet DEF Init, CountTypes
<1>. QED BY <1>1, <1>2, <1>3, <1>4 DEF Types

LEMMA StepSessionTypes ==
  ASSUME SessionTypes, [Next]_vars
  PROVE  SessionTypes'
<1>1. CASE Connect
  BY <1>1 DEF Connect, SessionTypes, Open, Connections, L!Register, L!To, L!Stages
<1>2. CASE BecomesReady
  BY <1>2 DEF BecomesReady, SessionTypes, Open, L!ReachShell, L!To, L!Stages, soak
<1>3. CASE Ends
  <2>1. \E o \in Outcomes : outcome' = [outcome EXCEPT ![conn] = o]
    BY <1>3 DEF Ends, L!End, Outcomes
  <2>2. outcome' \in [Connections -> Outcomes]
    BY <2>1 DEF SessionTypes
  <2>. QED BY <1>3, <2>2 DEF Ends, SessionTypes, Open, L!End, L!To, L!Stages, soak
<1>4. CASE Join
  <2>1. outcome' = [outcome EXCEPT ![conn] = L!NoOutcome] /\ L!NoOutcome \in Outcomes
    BY <1>4 DEF Join, L!Announce, Outcomes
  <2>2. outcome' \in [Connections -> Outcomes]
    BY <2>1 DEF SessionTypes
  <2>3. stage' \in [Connections -> L!Stages]
    BY <1>4 DEF Join, L!Announce, L!To, L!Stages, SessionTypes
  <2>4. phase' \in {"top", "over"} /\ conn' = conn
    BY <1>4 DEF Join
  <2>. QED BY <2>2, <2>3, <2>4 DEF SessionTypes, Open
<1>5. CASE Finish
  BY <1>5 DEF Finish, SessionTypes, Open, session
<1>6. CASE ~(Connect \/ BecomesReady \/ Ends \/ Join \/ Finish)
  <2>1. UNCHANGED <<stage, outcome, conn, phase>>
    BY <1>6 DEF Next, Driver, Peer, vars, session, soak, RecvReady, RecvQuery, RecvAnswer,
                CloseAtDeadline, Beat, Send, SendFails, WindowOpens, Answers, Asks,
                TakesCommand, Deadline
  <2>. QED BY <2>1 DEF SessionTypes, Open
<1>. QED BY <1>1, <1>2, <1>3, <1>4, <1>5, <1>6

LEMMA StepFlagTypes ==
  ASSUME SessionTypes, FlagTypes, [Next]_vars
  PROVE  FlagTypes'
<1>1. CASE Join
  <2>1. UNCHANGED <<told, stalled, asked, late, ready, closing>> /\ lost' \in BOOLEAN
    BY <1>1 DEF Join, local, TransportLike
  <2>. QED BY <2>1 DEF FlagTypes
<1>2. CASE ~Join
  BY <1>2 DEF FlagTypes, Next, Driver, Peer, vars, session, soak, local, Connect, RecvReady,
              RecvQuery, RecvAnswer, CloseAtDeadline, Beat, Send, SendFails, Finish,
              BecomesReady, WindowOpens, Answers, Asks, Ends, TakesCommand, Deadline
<1>. QED BY <1>1, <1>2
----
(* The pipeline. *)

PipelineTypes == ChannelTypes /\ Pipeline

\* What a step may do to the parts: heartbeats leave, or the first of one part
\* becomes the last of the part before it.
LEMMA PartsMayShrink ==
  ASSUME NEW A, NEW E, NEW T, NEW C, NEW P, NEW E2, NEW T2, NEW C2, NEW P2,
         PartsInOrder(A, E, T, C, P),
         E2 \subseteq E, T2 \subseteq T, C2 \subseteq C, P2 \subseteq P
  PROVE  PartsInOrder(A, E2, T2, C2, P2)
BY DEF PartsInOrder, Below

LEMMA FirstMovesOn ==
  ASSUME NEW A, NEW E, NEW T, NEW C, NEW P, NEW b,
         PartsInOrder(A, E, T, C, P)
  PROVE  /\ \A R \in SUBSET E : b \in E /\ Below({b}, R) => PartsInOrder(A \cup {b}, R, T, C, P)
         /\ \A R \in SUBSET T : b \in T /\ Below({b}, R) => PartsInOrder(A, E \cup {b}, R, C, P)
         /\ \A R \in SUBSET C : b \in C /\ Below({b}, R) => PartsInOrder(A, E, T \cup {b}, R, P)
         /\ P = {b} => PartsInOrder(A, E, T, C \cup {b}, {})
<1>1. ASSUME NEW R \in SUBSET E, b \in E, Below({b}, R)
      PROVE  PartsInOrder(A \cup {b}, R, T, C, P)
  BY <1>1 DEF PartsInOrder, Below
<1>2. ASSUME NEW R \in SUBSET T, b \in T, Below({b}, R)
      PROVE  PartsInOrder(A, E \cup {b}, R, C, P)
  BY <1>2 DEF PartsInOrder, Below
<1>3. ASSUME NEW R \in SUBSET C, b \in C, Below({b}, R)
      PROVE  PartsInOrder(A, E, T \cup {b}, R, P)
  BY <1>3 DEF PartsInOrder, Below
<1>4. ASSUME P = {b} PROVE PartsInOrder(A, E, T, C \cup {b}, {})
  BY <1>4 DEF PartsInOrder, Below
<1>. QED BY <1>1, <1>2, <1>3, <1>4

LEMMA InitPipeline == Init => Pipeline
BY Emptied DEF Init, Pipeline, PartsInOrder, Below, Pending

\* The steps of the session.
LEMMA SessionPipeline ==
  ASSUME Types, Pipeline, BecomesReady \/ TakesCommand \/ WindowOpens \/ Answers \/ Asks \/ Ends
  PROVE  PipelineTypes'
<1>1. /\ acknowledged' = acknowledged /\ sequence' = sequence
      /\ waiting' = waiting /\ Pending' = Pending
  BY DEF BecomesReady, TakesCommand, WindowOpens, Answers, Asks, Ends, beats, local, Pending
<1>2. /\ shell \in Seq(Beats) /\ commands \in Seq(Requests) /\ events \in Seq(Events)
      /\ Len(commands) \in Nat /\ Len(commands) <= CommandCap
  BY LenProperties DEF Types, ChannelTypes
<1>3. /\ Rising(events) /\ Rising(commands)
      /\ \A i, j \in DOMAIN shell : i < j => shell[i] < shell[j]
      /\ PartsInOrder(acknowledged, Numbers(events), Typed, Numbers(commands), Pending)
      /\ acknowledged \cup Numbers(events) \cup Typed \cup Numbers(commands) \subseteq 1 .. sequence
  BY DEF Pipeline
<1>. SUFFICES /\ shell' \in Seq(Beats) /\ commands' \in Seq(Requests) /\ events' \in Seq(Events)
              /\ Len(commands') <= CommandCap
              /\ Rising(events') /\ Rising(commands')
              /\ \A i, j \in DOMAIN shell' : i < j => shell'[i] < shell'[j]
              /\ PartsInOrder(acknowledged, Numbers(events'), Typed', Numbers(commands'), Pending)
              /\ acknowledged \cup Numbers(events') \cup Typed' \cup Numbers(commands')
                   \subseteq 1 .. sequence
  BY <1>1 DEF PipelineTypes, ChannelTypes, Pipeline
<1>4. ASSUME NEW kind \in {"ready", "query"}, events' = Append(events, Signal(kind)),
             UNCHANGED <<shell, commands>>
      PROVE  /\ events' \in Seq(Events) /\ Rising(events') /\ Numbers(events') = Numbers(events)
             /\ Typed' = Typed
  <2>1. Signal(kind) \in Events /\ Signal(kind).kind # "beat"
    BY MessageFacts, kind \in {"ready", "query"}
  <2>2. Typed' = Typed
    BY <1>4 DEF Typed
  <2>3. PICK m : m = Signal(kind)
    OBVIOUS
  <2>4. /\ Append(events, m) \in Seq(Events) /\ Rising(Append(events, m))
        /\ Numbers(Append(events, m)) =
             Numbers(events) \cup (IF m.kind = "beat" THEN {m.number} ELSE {})
    <3>1. events \in Seq(Events) /\ Rising(events) /\ m \in Events /\ m.kind # "beat"
      BY <1>2, <1>3, <2>1, <2>3
    <3>. QED BY ONLY <3>1, AppendNumbers
  <2>5. m.kind # "beat"
    BY <2>1, <2>3
  <2>. QED BY <1>4, <2>2, <2>3, <2>4, <2>5
<1>5. CASE BecomesReady
  <2>1. events' = Append(events, Signal("ready")) /\ UNCHANGED <<shell, commands>>
    BY <1>5 DEF BecomesReady, Emit
  <2>. QED BY <1>2, <1>3, <1>4, <2>1
<1>6. CASE Asks
  <2>1. events' = Append(events, Signal("query")) /\ UNCHANGED <<shell, commands>>
    BY <1>6 DEF Asks, Emit
  <2>. QED BY <1>2, <1>3, <1>4, <2>1
<1>7. CASE WindowOpens
  <2>1. UNCHANGED <<shell, commands, events>>
    BY <1>7 DEF WindowOpens
  <2>2. Typed' = Typed
    BY <2>1 DEF Typed
  <2>. QED BY <1>2, <1>3, <2>1, <2>2
<1>8. CASE Ends
  <2>1. commands' = <<>> /\ shell' = <<>> /\ events' = events
    BY <1>8 DEF Ends
  <2>2. Typed' = {} /\ Numbers(commands') = {} /\ Len(commands') = 0
        /\ \A M : <<>> \in Seq(M)
    BY <2>1, Emptied DEF Typed
  <2>3. PartsInOrder(acknowledged, Numbers(events'), Typed', Numbers(commands'), Pending)
    BY <1>3, <2>1, <2>2, PartsMayShrink
  <2>4. Rising(commands') /\ \A i, j \in DOMAIN shell' : i < j => shell'[i] < shell'[j]
    BY <2>1, Emptied
  <2>5. acknowledged \cup Numbers(events') \cup Typed' \cup Numbers(commands') \subseteq 1 .. sequence
    BY <1>3, <2>1, <2>2
  <2>. QED BY <1>2, <1>3, <2>1, <2>2, <2>3, <2>4, <2>5
<1>9. CASE Answers
  <2>1. shell # <<>> /\ shell' = Tail(shell) /\ commands' = commands
        /\ events' = Append(events, Message("beat", Head(shell)))
    BY <1>9 DEF Answers, Emit
  <2>2. /\ Head(shell) \in Beats /\ shell' \in Seq(Beats)
        /\ Typed' \subseteq Typed /\ Head(shell) \in Typed /\ Below({Head(shell)}, Typed')
        /\ \A i, j \in DOMAIN shell' : i < j => shell'[i] < shell'[j]
    BY <1>2, <1>3, <2>1, TailTyped
  <2>3. PICK b : b = Head(shell)
    OBVIOUS
  <2>4. PICK m : m = Message("beat", b)
    OBVIOUS
  <2>5. m \in Events /\ m.kind = "beat" /\ m.number = b
    BY <2>2, <2>3, <2>4, MessageFacts
  <2>6. Below(Numbers(events), {m.number})
    BY <1>3, <2>2, <2>3, <2>5 DEF PartsInOrder, Below
  <2>7. /\ events' \in Seq(Events) /\ Rising(events')
        /\ Numbers(events') = Numbers(events) \cup {b}
    BY <1>2, <1>3, <2>1, <2>3, <2>4, <2>5, <2>6, AppendNumbers
  <2>8. PartsInOrder(acknowledged, Numbers(events'), Typed', Numbers(commands'), Pending)
    <3>1. /\ b \in Typed /\ Below({b}, Typed') /\ Typed' \in SUBSET Typed
          /\ commands' = commands
      BY <2>1, <2>2, <2>3
    <3>2. PartsInOrder(acknowledged, Numbers(events) \cup {b}, Typed', Numbers(commands), Pending)
      BY ONLY <1>3, <3>1, FirstMovesOn
    <3>. QED BY <2>7, <3>1, <3>2
  <2>9. acknowledged \cup Numbers(events') \cup Typed' \cup Numbers(commands') \subseteq 1 .. sequence
    BY <1>3, <2>1, <2>2, <2>3, <2>7
  <2>. QED BY <1>2, <1>3, <2>1, <2>2, <2>7, <2>8, <2>9
<1>10. CASE TakesCommand
  <2>1. commands # <<>> /\ commands' = Tail(commands) /\ events' = events
        /\ (shell' = shell
            \/ (Head(commands).kind = "beat" /\ shell' = Append(shell, Head(commands).number)))
    BY <1>10 DEF TakesCommand
  <2>2. /\ Head(commands) \in Requests /\ commands' \in Seq(Requests) /\ Rising(commands')
        /\ Len(commands') = Len(commands) - 1
        /\ Numbers(commands') \subseteq Numbers(commands)
        /\ Head(commands).kind = "beat" =>
             Head(commands).number \in Numbers(commands)
             /\ Below({Head(commands).number}, Numbers(commands'))
    BY <1>2, <1>3, <2>1, TailNumbers
  <2>3. Len(commands') <= CommandCap
    BY <1>2, <2>2
  <2>4. CASE shell' = shell
    <3>1. Typed' = Typed
      BY <2>4 DEF Typed
    <3>2. PartsInOrder(acknowledged, Numbers(events'), Typed', Numbers(commands'), Pending)
      BY <1>3, <2>1, <2>2, <3>1, PartsMayShrink
    <3>. QED BY <1>2, <1>3, <2>1, <2>2, <2>3, <2>4, <3>1, <3>2
  <2>5. CASE Head(commands).kind = "beat" /\ shell' = Append(shell, Head(commands).number)
    <3>1. PICK b : b = Head(commands).number
      OBVIOUS
    <3>2. b \in Beats /\ b \in Numbers(commands) /\ Below({b}, Numbers(commands'))
      BY <2>2, <2>5, <3>1, MessageFacts
    <3>3. Below(Typed, {b})
      BY <1>3, <3>2 DEF PartsInOrder, Below
    <3>4. /\ shell' \in Seq(Beats) /\ Typed' = Typed \cup {b}
          /\ \A i, j \in DOMAIN shell' : i < j => shell'[i] < shell'[j]
      BY <1>2, <1>3, <2>5, <3>1, <3>2, <3>3, AppendTyped
    <3>5. PartsInOrder(acknowledged, Numbers(events'), Typed', Numbers(commands'), Pending)
      BY <1>3, <2>1, <2>2, <3>2, <3>4, FirstMovesOn
    <3>6. acknowledged \cup Numbers(events') \cup Typed' \cup Numbers(commands') \subseteq 1 .. sequence
      BY <1>3, <2>1, <2>2, <3>2, <3>4
    <3>. QED BY <1>2, <1>3, <2>1, <2>2, <2>3, <3>4, <3>5, <3>6
  <2>. QED BY <2>1, <2>4, <2>5
<1>. QED BY <1>5, <1>6, <1>7, <1>8, <1>9, <1>10

\* The steps of the driver.
LEMMA DriverPipeline ==
  ASSUME Types, Pipeline, Driver
  PROVE  PipelineTypes'
<1>1. /\ shell \in Seq(Beats) /\ commands \in Seq(Requests) /\ events \in Seq(Events)
      /\ Len(commands) \in Nat /\ Len(commands) <= CommandCap
      /\ sequence \in Nat /\ CommandCap \in Nat
      /\ (waiting = "beat" => sequence \in Beats)
  BY LenProperties DEF Types, ChannelTypes, CountTypes
<1>2. /\ Rising(events) /\ Rising(commands)
      /\ \A i, j \in DOMAIN shell : i < j => shell[i] < shell[j]
      /\ PartsInOrder(acknowledged, Numbers(events), Typed, Numbers(commands), Pending)
      /\ acknowledged \cup Numbers(events) \cup Typed \cup Numbers(commands) \subseteq 1 .. sequence
  BY DEF Pipeline
<1>. SUFFICES /\ shell' \in Seq(Beats) /\ commands' \in Seq(Requests) /\ events' \in Seq(Events)
              /\ Len(commands') <= CommandCap
              /\ Rising(events') /\ Rising(commands')
              /\ \A i, j \in DOMAIN shell' : i < j => shell'[i] < shell'[j]
              /\ PartsInOrder(acknowledged', Numbers(events'), Typed', Numbers(commands'), Pending')
              /\ acknowledged' \cup Numbers(events') \cup Typed' \cup Numbers(commands')
                   \subseteq 1 .. sequence'
  BY DEF PipelineTypes, ChannelTypes, Pipeline
<1>3. CASE Connect
  <2>1. /\ commands' = <<>> /\ shell' = <<>> /\ events' = <<>>
        /\ acknowledged' = acknowledged /\ sequence' = sequence /\ waiting' = "none"
    BY <1>3 DEF Connect
  <2>2. /\ Typed' = {} /\ Pending' = {} /\ Numbers(commands') = {} /\ Numbers(events') = {}
        /\ Len(commands') = 0 /\ \A M : <<>> \in Seq(M)
    BY <2>1, Emptied DEF Typed, Pending
  <2>3. PartsInOrder(acknowledged', Numbers(events'), Typed', Numbers(commands'), Pending')
    BY <1>2, <2>1, <2>2, PartsMayShrink
  <2>4. /\ Rising(commands') /\ Rising(events')
        /\ \A i, j \in DOMAIN shell' : i < j => shell'[i] < shell'[j]
    BY <2>1, Emptied
  <2>5. acknowledged' \cup Numbers(events') \cup Typed' \cup Numbers(commands') \subseteq 1 .. sequence'
    BY <1>2, <2>1, <2>2
  <2>. QED BY <1>1, <2>1, <2>2, <2>3, <2>4, <2>5
<1>4. ASSUME events # <<>>, events' = Tail(events), UNCHANGED <<shell, commands, sequence>>,
             Pending' \subseteq Pending, acknowledged' = acknowledged
      PROVE  /\ events' \in Seq(Events) /\ Rising(events')
             /\ PartsInOrder(acknowledged', Numbers(events'), Typed', Numbers(commands'), Pending')
             /\ acknowledged' \cup Numbers(events') \cup Typed' \cup Numbers(commands')
                  \subseteq 1 .. sequence'
  <2>1. /\ events' \in Seq(Events) /\ Rising(events')
        /\ Numbers(events') \subseteq Numbers(events)
    BY <1>1, <1>2, <1>4, TailNumbers
  <2>2. Typed' = Typed
    BY <1>4 DEF Typed
  <2>3. PartsInOrder(acknowledged', Numbers(events'), Typed', Numbers(commands'), Pending')
    BY <1>2, <1>4, <2>1, <2>2, PartsMayShrink
  <2>. QED BY <1>2, <1>4, <2>1, <2>2, <2>3
<1>5. CASE RecvReady \/ RecvQuery
  <2>1. /\ events # <<>> /\ events' = Tail(events) /\ UNCHANGED <<shell, commands, sequence>>
        /\ waiting' # "beat" /\ acknowledged' = acknowledged
    BY <1>5 DEF RecvReady, RecvQuery, Recv, AtSelect, session, beats
  <2>2. Pending' \subseteq Pending
    BY <2>1 DEF Pending
  <2>. QED BY <1>1, <1>2, <1>4, <2>1, <2>2
<1>6. ASSUME NEW b \in Beats, RecvAnswer(b)
      PROVE  /\ events' \in Seq(Events) /\ Rising(events') /\ UNCHANGED <<shell, commands>>
             /\ PartsInOrder(acknowledged', Numbers(events'), Typed', Numbers(commands'), Pending')
             /\ acknowledged' \cup Numbers(events') \cup Typed' \cup Numbers(commands')
                  \subseteq 1 .. sequence'
  <2>1. /\ events # <<>> /\ Head(events) = Message("beat", b) /\ events' = Tail(events)
        /\ acknowledged' = acknowledged \cup {b}
        /\ UNCHANGED <<shell, commands, sequence, waiting>>
    BY <1>6 DEF RecvAnswer, Recv, session, local
  <2>2. Head(events).kind = "beat" /\ Head(events).number = b
    BY <2>1, MessageFacts
  <2>3. /\ events' \in Seq(Events) /\ Rising(events')
        /\ Numbers(events') \in SUBSET Numbers(events)
        /\ b \in Numbers(events) /\ Below({b}, Numbers(events'))
    BY <1>1, <1>2, <2>1, <2>2, TailNumbers
  <2>4. Typed' = Typed /\ Pending' = Pending /\ commands' = commands
    BY <2>1 DEF Typed, Pending
  <2>5. PartsInOrder(acknowledged \cup {b}, Numbers(events'), Typed, Numbers(commands), Pending)
    BY ONLY <1>2, <2>3, FirstMovesOn
  <2>6. acknowledged' \cup Numbers(events') \cup Typed' \cup Numbers(commands') \subseteq 1 .. sequence'
    BY <1>2, <2>1, <2>3, <2>4
  <2>. QED BY <2>1, <2>3, <2>4, <2>5, <2>6
<1>7. CASE CloseAtDeadline \/ SendFails \/ Finish
  <2>1. /\ UNCHANGED <<shell, commands, events, sequence, acknowledged>>
        /\ waiting' = waiting \/ waiting' # "beat"
    BY <1>7 DEF CloseAtDeadline, SendFails, Finish, session, beats, local
  <2>2. Typed' = Typed /\ Pending' \subseteq Pending
    BY <2>1 DEF Typed, Pending
  <2>3. PartsInOrder(acknowledged', Numbers(events'), Typed', Numbers(commands'), Pending')
    BY <1>2, <2>1, <2>2, PartsMayShrink
  <2>. QED BY <1>1, <1>2, <2>1, <2>2, <2>3
<1>8. ASSUME NEW old \in 0 .. MaxBeats, Beat(old)
      PROVE  /\ UNCHANGED <<shell, commands, events>>
             /\ PartsInOrder(acknowledged', Numbers(events'), Typed', Numbers(commands'), Pending')
             /\ acknowledged' \cup Numbers(events') \cup Typed' \cup Numbers(commands')
                  \subseteq 1 .. sequence'
  <2>1. /\ UNCHANGED <<shell, commands, events, acknowledged>>
        /\ sequence' = sequence + 1 /\ waiting' = "beat"
    BY <1>8 DEF Beat, session
  <2>2. Typed' = Typed /\ Pending' = {sequence + 1}
    BY <2>1 DEF Typed, Pending
  <2>3. \A x \in 1 .. sequence : x < sequence + 1 /\ x \in 1 .. sequence + 1
    BY <1>1
  <2>4. PartsInOrder(acknowledged', Numbers(events'), Typed', Numbers(commands'), Pending')
    BY <1>2, <2>1, <2>2, <2>3 DEF PartsInOrder, Below
  <2>5. acknowledged' \cup Numbers(events') \cup Typed' \cup Numbers(commands') \subseteq 1 .. sequence'
    BY <1>2, <2>1, <2>2, <2>3
  <2>. QED BY <2>1, <2>4, <2>5
<1>9. CASE Send
  <2>1. /\ waiting # "none" /\ waiting' = "none" /\ Len(commands) < CommandCap
        /\ commands' = Append(commands, Message(waiting, IF waiting = "beat" THEN sequence ELSE 0))
        /\ UNCHANGED <<shell, events, sequence, acknowledged>>
    BY <1>9 DEF Send, session
  <2>2. Typed' = Typed /\ Pending' = {}
    BY <2>1 DEF Typed, Pending
  <2>3. Len(commands') <= CommandCap
    <3>1. \A M, m : Len(Append(commands, m)) = Len(commands) + 1
      <4>1. ASSUME NEW m PROVE Len(Append(commands, m)) = Len(commands) + 1
        BY <1>1
      <4>. QED BY <4>1
    <3>. QED BY <1>1, <2>1, <3>1
  <2>4. PICK m : m = Message(waiting, IF waiting = "beat" THEN sequence ELSE 0)
    OBVIOUS
  <2>5. CASE waiting = "beat"
    <3>1. /\ m \in Requests /\ m.kind = "beat" /\ m.number = sequence
          /\ commands' = Append(commands, m) /\ Pending = {sequence}
      BY <1>1, <2>1, <2>4, <2>5, MessageFacts DEF Pending
    <3>2. Below(Numbers(commands), {m.number})
      BY <1>2, <3>1 DEF PartsInOrder
    <3>3. /\ commands' \in Seq(Requests) /\ Rising(commands')
          /\ Numbers(commands') = Numbers(commands) \cup {sequence}
      BY ONLY <1>1, <1>2, <3>1, <3>2, AppendNumbers
    <3>4. PartsInOrder(acknowledged, Numbers(events), Typed, Numbers(commands) \cup {sequence}, {})
      BY ONLY <1>2, <3>1, FirstMovesOn
    <3>5. sequence \in 1 .. sequence
      BY <1>1, <2>5 DEF Beats
    <3>. QED BY <1>1, <1>2, <2>1, <2>2, <2>3, <3>3, <3>4, <3>5
  <2>6. CASE waiting # "beat"
    <3>1. waiting \in {"reply", "close"} /\ Pending = {}
      BY <2>1, <2>6 DEF Types, CountTypes, Pending
    <3>2. m = Signal(waiting)
      BY <2>4, <2>6 DEF Signal
    <3>3. m \in Requests /\ m.kind # "beat" /\ commands' = Append(commands, m)
      BY <2>1, <2>4, <3>1, <3>2, MessageFacts
    <3>4. /\ commands' \in Seq(Requests) /\ Rising(commands')
          /\ Numbers(commands') = Numbers(commands)
      <4>1. m.kind = "beat" => Below(Numbers(commands), {m.number})
        BY <3>3
      <4>2. /\ Append(commands, m) \in Seq(Requests) /\ Rising(Append(commands, m))
            /\ Numbers(Append(commands, m)) =
                 Numbers(commands) \cup (IF m.kind = "beat" THEN {m.number} ELSE {})
        BY ONLY <1>1, <1>2, <3>3, <4>1, AppendNumbers
      <4>. QED BY <3>3, <4>2
    <3>. QED BY <1>1, <1>2, <2>1, <2>2, <2>3, <3>1, <3>4
  <2>. QED BY <2>5, <2>6
<1>10. CASE Join
  <2>1. /\ events' = <<>> /\ UNCHANGED <<shell, commands, sequence, acknowledged, waiting>>
    BY <1>10 DEF Join, local
  <2>2. /\ Typed' = Typed /\ Pending' = Pending /\ Numbers(events') = {} /\ Rising(events')
        /\ \A M : <<>> \in Seq(M)
    BY <2>1, Emptied DEF Typed, Pending
  <2>3. PartsInOrder(acknowledged', Numbers(events'), Typed', Numbers(commands'), Pending')
    BY <1>2, <2>1, <2>2, PartsMayShrink
  <2>. QED BY <1>1, <1>2, <2>1, <2>2, <2>3
<1>. QED BY <1>1, <1>2, <1>3, <1>5, <1>6, <1>7, <1>8, <1>9, <1>10 DEF Driver

LEMMA StepPipeline ==
  ASSUME Types, Pipeline, [Next]_vars
  PROVE  PipelineTypes'
<1>1. CASE Driver
  BY <1>1, DriverPipeline
<1>2. CASE Peer \/ TakesCommand
  BY <1>2, SessionPipeline DEF Peer
<1>3. CASE Deadline \/ UNCHANGED vars
  <2>1. UNCHANGED <<shell, commands, events, acknowledged, sequence, waiting>>
    BY <1>3 DEF Deadline, vars, session, beats, local
  <2>2. Typed' = Typed /\ Pending' = Pending
    BY <2>1 DEF Typed, Pending
  <2>3. Pipeline'
    BY <2>1, <2>2 DEF Pipeline
  <2>4. ChannelTypes'
    BY <2>1 DEF Types, ChannelTypes
  <2>. QED BY <2>3, <2>4 DEF PipelineTypes
<1>. QED BY <1>1, <1>2, <1>3 DEF Next
----
(* Counts. *)

LEMMA CountFacts ==
  ASSUME NEW r \in [Counters -> Nat], NEW c \in Counters, NEW by \in Nat
  PROVE  /\ Count(r, c, by) \in [Counters -> Nat]
         /\ Count(r, c, by)[c] = r[c] + by
         /\ \A d \in Counters : d # c => Count(r, c, by)[d] = r[d]
<1>1. r[c] \in Nat /\ r[c] + by \in Nat
  OBVIOUS
<1>. QED BY <1>1 DEF Count

\* What the report says of the heartbeats.
Settled(r) == r["acknowledged"] + r["missed"] + r["dropped"]

LEMMA SettledFacts ==
  ASSUME NEW r \in [Counters -> Nat], NEW by \in Nat
  PROVE  /\ Settled(r) \in Nat /\ r["sent"] \in Nat /\ r["duplicates"] \in Nat
         /\ \A c \in {"acknowledged", "missed", "dropped"} :
              /\ Count(r, c, by) \in [Counters -> Nat]
              /\ Settled(Count(r, c, by)) = Settled(r) + by
              /\ Count(r, c, by)["sent"] = r["sent"]
              /\ Count(r, c, by)["duplicates"] = r["duplicates"]
         /\ \A c \in {"ready", "reconnects", "exhausted", "unexpected"} :
              /\ Count(r, c, by) \in [Counters -> Nat]
              /\ Settled(Count(r, c, by)) = Settled(r)
              /\ Count(r, c, by)["sent"] = r["sent"]
              /\ Count(r, c, by)["duplicates"] = r["duplicates"]
<1>1. /\ r["acknowledged"] \in Nat /\ r["missed"] \in Nat /\ r["dropped"] \in Nat
      /\ r["sent"] \in Nat /\ r["duplicates"] \in Nat
      /\ {"acknowledged", "missed", "dropped", "ready", "reconnects", "exhausted",
          "unexpected", "sent", "duplicates"} \subseteq Counters
  BY DEF Counters
<1>2. ASSUME NEW c \in {"acknowledged", "missed", "dropped"}
      PROVE  /\ Count(r, c, by) \in [Counters -> Nat]
             /\ Settled(Count(r, c, by)) = Settled(r) + by
             /\ Count(r, c, by)["sent"] = r["sent"]
             /\ Count(r, c, by)["duplicates"] = r["duplicates"]
  <2>1. c \in Counters
    BY <1>1
  <2>2. PICK q : q = Count(r, c, by)
    OBVIOUS
  <2>3. /\ q \in [Counters -> Nat] /\ q[c] = r[c] + by
        /\ \A d \in Counters : d # c => q[d] = r[d]
    BY ONLY <2>1, <2>2, CountFacts, r \in [Counters -> Nat], by \in Nat
  <2>4. Settled(q) = Settled(r) + by
    <3>1. CASE c = "acknowledged"
      BY <1>1, <2>3, <3>1 DEF Settled
    <3>2. CASE c = "missed"
      BY <1>1, <2>3, <3>2 DEF Settled
    <3>3. CASE c = "dropped"
      BY <1>1, <2>3, <3>3 DEF Settled
    <3>. QED BY <3>1, <3>2, <3>3
  <2>. QED BY <1>1, <2>2, <2>3, <2>4
<1>3. ASSUME NEW c \in {"ready", "reconnects", "exhausted", "unexpected"}
      PROVE  /\ Count(r, c, by) \in [Counters -> Nat]
             /\ Settled(Count(r, c, by)) = Settled(r)
             /\ Count(r, c, by)["sent"] = r["sent"]
             /\ Count(r, c, by)["duplicates"] = r["duplicates"]
  <2>1. c \in Counters
    BY <1>1
  <2>2. PICK q : q = Count(r, c, by)
    OBVIOUS
  <2>3. /\ q \in [Counters -> Nat]
        /\ \A d \in Counters : d # c => q[d] = r[d]
    BY ONLY <2>1, <2>2, CountFacts, r \in [Counters -> Nat], by \in Nat
  <2>. QED BY <1>1, <2>2, <2>3 DEF Settled
<1>. QED BY <1>1, <1>2, <1>3 DEF Settled

LEMMA InflightFacts ==
  ASSUME CountTypes
  PROVE  /\ IsFiniteSet(inflight) /\ Cardinality(inflight) \in Nat
         /\ unanswered \in Nat /\ sequence \in Nat
         /\ \A S \in SUBSET inflight : IsFiniteSet(S) /\ Cardinality(S) \in Nat
<1>1. sequence \in Nat /\ inflight \in SUBSET (1 .. sequence) /\ unanswered \in Nat
  BY DEF CountTypes
<1>2. IsFiniteSet(1 .. sequence)
  BY <1>1, FS_Interval
<1>3. IsFiniteSet(inflight)
  BY <1>1, <1>2, FS_Subset
<1>. QED BY <1>1, <1>3, FS_Subset, FS_CardinalityType

\* Every heartbeat is counted or still open, and none twice.
Accounts ==
  /\ report["sent"] = Settled(report) + Cardinality(inflight) + unanswered
  /\ report["duplicates"] = 0

\* A connection that is over has no heartbeat open.
Closed == ~Open => inflight = {} /\ unanswered = 0

\* The part of the counts that a step changes.
Ledger == /\ CountTypes /\ Accounts

LEMMA LedgerAnswer ==
  ASSUME Types, Pipeline, Accounts, NEW b \in Beats, RecvAnswer(b)
  PROVE  Ledger'
<1>1. /\ b \notin acknowledged
      /\ acknowledged \subseteq Beats
  <2>1. events # <<>> /\ Head(events) = Message("beat", b)
    BY DEF RecvAnswer, Recv
  <2>2. events \in Seq(Events) /\ Rising(events) /\ Below(acknowledged, Numbers(events))
    BY DEF Types, ChannelTypes, Pipeline, PartsInOrder, Below
  <2>3. b \in Numbers(events)
    BY <2>1, <2>2, TailNumbers, MessageFacts
  <2>4. b \in acknowledged => b < b
    BY <2>2, <2>3 DEF Below
  <2>5. ~(b < b)
    BY DEF Beats
  <2>. QED BY <2>4, <2>5 DEF Types, CountTypes
<1>2. /\ acknowledged' = acknowledged \cup {b}
      /\ inflight' = inflight \ {b}
      /\ unanswered' = (IF b \in inflight THEN 0 ELSE unanswered)
      /\ report' = (IF b \in inflight
                      THEN Count(Count(report, "acknowledged", 1), "missed", unanswered)
                      ELSE report)
      /\ UNCHANGED <<sequence, waiting, attempt>>
  BY <1>1 DEF RecvAnswer, local, soak
<1>3. /\ IsFiniteSet(inflight) /\ Cardinality(inflight) \in Nat
      /\ unanswered \in Nat /\ sequence \in Nat
      /\ report \in [Counters -> Nat] /\ inflight \subseteq 1 .. sequence
      /\ waiting = "beat" => sequence \in Beats /\ sequence \notin inflight
      /\ waiting \in {"none", "beat", "reply", "close"}
      /\ sequence \in 0 .. MaxBeats /\ attempt \in 0 .. MaxRetries
  BY InflightFacts DEF Types, CountTypes
<1>4. PICK k : k = (IF waiting = "beat" THEN 1 ELSE 0)
  OBVIOUS
<1>5. k \in Nat /\ unanswered + Cardinality(inflight) + k <= sequence
  BY <1>4 DEF Types, CountTypes
<1>6. PICK new : new = inflight'
  OBVIOUS
<1>7. /\ Cardinality(new) = (IF b \in inflight THEN Cardinality(inflight) - 1 ELSE Cardinality(inflight))
      /\ Cardinality(new) \in Nat /\ new \subseteq inflight
  BY <1>2, <1>3, <1>6, FS_RemoveElement, FS_CardinalityType
<1>8. /\ report' \in [Counters -> Nat]
      /\ Settled(report') = (IF b \in inflight THEN Settled(report) + 1 + unanswered ELSE Settled(report))
      /\ report'["sent"] = report["sent"] /\ report'["duplicates"] = report["duplicates"]
      /\ Settled(report) \in Nat
  <2>1. PICK r1 : r1 = Count(report, "acknowledged", 1)
    OBVIOUS
  <2>2. /\ r1 \in [Counters -> Nat] /\ Settled(r1) = Settled(report) + 1
        /\ r1["sent"] = report["sent"] /\ r1["duplicates"] = report["duplicates"]
        /\ Settled(report) \in Nat
    BY <1>3, <2>1, SettledFacts
  <2>3. PICK r2 : r2 = Count(r1, "missed", unanswered)
    OBVIOUS
  <2>4. /\ r2 \in [Counters -> Nat] /\ Settled(r2) = Settled(r1) + unanswered
        /\ r2["sent"] = r1["sent"] /\ r2["duplicates"] = r1["duplicates"]
    BY <1>3, <2>2, <2>3, SettledFacts
  <2>. QED BY <1>2, <1>3, <2>1, <2>2, <2>3, <2>4
<1>9. unanswered' \in Nat /\ unanswered' + Cardinality(new) + k <= sequence
  BY <1>2, <1>3, <1>5, <1>7
<1>10. report'["sent"] = Settled(report') + Cardinality(new) + unanswered'
  BY <1>2, <1>3, <1>7, <1>8 DEF Accounts
<1>11. CountTypes'
  BY <1>1, <1>2, <1>3, <1>4, <1>6, <1>7, <1>8, <1>9 DEF CountTypes
<1>. QED BY <1>6, <1>8, <1>10, <1>11 DEF Ledger, Accounts

\* The heartbeats that time out are no longer in flight, and one more waits to be sent.
LEMMA LedgerBeat ==
  ASSUME Types, Accounts, NEW old \in 0 .. MaxBeats, Beat(old)
  PROVE  Ledger'
<1>1. /\ inflight' = {b \in inflight : b > old}
      /\ unanswered' = unanswered + Cardinality(inflight \ inflight')
      /\ sequence' = sequence + 1 /\ waiting' = "beat" /\ waiting = "none"
      /\ sequence < MaxBeats
      /\ UNCHANGED <<acknowledged, report, attempt>>
  BY DEF Beat, AtSelect, soak
<1>2. PICK kept : kept = inflight'
  OBVIOUS
<1>3. PICK gone : gone = inflight \ kept
  OBVIOUS
<1>4. kept \in SUBSET inflight /\ gone \in SUBSET inflight
  BY <1>1, <1>2, <1>3
<1>5. /\ sequence \in Nat /\ unanswered \in Nat /\ inflight \subseteq 1 .. sequence
      /\ Cardinality(inflight) \in Nat /\ Cardinality(kept) \in Nat /\ Cardinality(gone) \in Nat
      /\ unanswered + Cardinality(inflight) <= sequence
      /\ acknowledged \subseteq Beats /\ attempt \in 0 .. MaxRetries
      /\ report \in [Counters -> Nat]
  BY <1>1, <1>4, InflightFacts DEF Types, CountTypes
<1>6. Cardinality(gone) = Cardinality(inflight) - Cardinality(kept)
  <2>1. PICK both : both = inflight \cap kept
    OBVIOUS
  <2>2. both = kept
    BY <1>4, <2>1
  <2>3. IsFiniteSet(inflight)
    BY InflightFacts DEF Types
  <2>4. Cardinality(gone) = Cardinality(inflight) - Cardinality(both)
    BY <1>3, <2>1, <2>3, FS_Difference
  <2>. QED BY <2>2, <2>4
<1>7. unanswered' = unanswered + Cardinality(gone)
  BY <1>1, <1>2, <1>3
<1>8. unanswered' \in Nat /\ unanswered' + Cardinality(kept) + 1 <= sequence + 1
  BY <1>5, <1>6, <1>7
<1>9. sequence + 1 \in 0 .. MaxBeats /\ sequence + 1 \in Beats /\ sequence + 1 \notin kept
      /\ kept \subseteq 1 .. sequence + 1
  BY <1>1, <1>4, <1>5 DEF Beats
<1>10. CountTypes'
  BY <1>1, <1>2, <1>5, <1>8, <1>9 DEF CountTypes
<1>11. /\ Settled(report) \in Nat
       /\ report["sent"] = Settled(report) + Cardinality(inflight) + unanswered
       /\ report["duplicates"] = 0
  BY <1>5, SettledFacts DEF Accounts
<1>12. Settled(report) + Cardinality(kept) + (unanswered + Cardinality(gone))
         = Settled(report) + Cardinality(inflight) + unanswered
  BY <1>5, <1>6, <1>11
<1>. QED BY <1>1, <1>2, <1>7, <1>10, <1>11, <1>12 DEF Ledger, Accounts

LEMMA LedgerSend ==
  ASSUME Types, Accounts, Send
  PROVE  Ledger'
<1>1. /\ waiting' = "none"
      /\ UNCHANGED <<sequence, unanswered, acknowledged, attempt>>
      /\ \/ /\ waiting = "beat"
            /\ inflight' = inflight \cup {sequence}
            /\ report' = Count(report, "sent", 1)
         \/ /\ waiting # "beat"
            /\ UNCHANGED <<inflight, report>>
  BY DEF Send, soak
<1>2. /\ IsFiniteSet(inflight) /\ Cardinality(inflight) \in Nat
      /\ unanswered \in Nat /\ sequence \in Nat
      /\ report \in [Counters -> Nat] /\ inflight \subseteq 1 .. sequence
      /\ sequence \in 0 .. MaxBeats /\ attempt \in 0 .. MaxRetries
      /\ acknowledged \subseteq Beats
  BY InflightFacts DEF Types, CountTypes
<1>3. CASE waiting = "beat"
  <2>1. sequence \in Beats /\ sequence \notin inflight
        /\ unanswered + Cardinality(inflight) + 1 <= sequence
    BY <1>3 DEF Types, CountTypes
  <2>2. PICK new : new = inflight'
    OBVIOUS
  <2>3. new = inflight \cup {sequence} /\ report' = Count(report, "sent", 1)
    BY <1>1, <1>3, <2>2
  <2>4. Cardinality(new) = Cardinality(inflight) + 1
    BY <1>2, <2>1, <2>3, FS_AddElement
  <2>5. new \subseteq 1 .. sequence
    BY <1>2, <2>1, <2>3 DEF Beats
  <2>6. /\ report' \in [Counters -> Nat] /\ report'["sent"] = report["sent"] + 1
        /\ report'["duplicates"] = report["duplicates"]
        /\ report'["acknowledged"] = report["acknowledged"]
        /\ report'["missed"] = report["missed"] /\ report'["dropped"] = report["dropped"]
    <3>1. {"sent", "duplicates", "acknowledged", "missed", "dropped"} \subseteq Counters
      BY DEF Counters
    <3>2. PICK r : r = report
      OBVIOUS
    <3>3. r \in [Counters -> Nat] /\ 1 \in Nat /\ "sent" \in Counters
      BY <1>2, <3>1, <3>2
    <3>4. /\ Count(r, "sent", 1) \in [Counters -> Nat] /\ Count(r, "sent", 1)["sent"] = r["sent"] + 1
          /\ \A d \in Counters : d # "sent" => Count(r, "sent", 1)[d] = r[d]
      BY ONLY <3>3, CountFacts
    <3>. QED BY <2>3, <3>1, <3>2, <3>4
  <2>7. Settled(report') = Settled(report) /\ Settled(report) \in Nat
    BY <1>2, <2>6, SettledFacts DEF Settled
  <2>8. CountTypes'
    BY <1>1, <1>2, <2>1, <2>2, <2>4, <2>5, <2>6 DEF CountTypes
  <2>9. report'["sent"] = Settled(report') + Cardinality(new) + unanswered
    BY <1>2, <2>4, <2>6, <2>7 DEF Accounts
  <2>. QED BY <1>1, <2>2, <2>6, <2>8, <2>9 DEF Ledger, Accounts
<1>4. CASE waiting # "beat"
  <2>1. UNCHANGED <<sequence, unanswered, acknowledged, attempt, inflight, report>>
    BY <1>1, <1>4
  <2>2. unanswered + Cardinality(inflight) + 0 <= sequence
    BY <1>4 DEF Types, CountTypes
  <2>3. CountTypes'
    BY <1>1, <1>2, <2>1, <2>2 DEF CountTypes
  <2>. QED BY <2>1, <2>3 DEF Ledger, Accounts
<1>. QED BY <1>3, <1>4

\* When a connection is joined, everything still open is counted.
LEMMA LedgerJoin ==
  ASSUME Types, Accounts, Join
  PROVE  Ledger'
<1>1. /\ inflight' = {} /\ unanswered' = 0
      /\ UNCHANGED <<waiting, sequence, acknowledged>>
      /\ waiting = "none"
  BY DEF Join, local, AtSelect
<1>2. /\ Cardinality(inflight) \in Nat
      /\ unanswered \in Nat /\ sequence \in Nat
      /\ report \in [Counters -> Nat]
      /\ sequence \in 0 .. MaxBeats /\ attempt \in 0 .. MaxRetries
      /\ acknowledged \subseteq Beats
  BY InflightFacts DEF Types, CountTypes
<1>3. PICK end : end = outcome[conn]
  OBVIOUS
<1>4. PICK settled : settled = Settle(end)
  OBVIOUS
<1>5. /\ settled \in [Counters -> Nat]
      /\ Settled(settled) = Settled(report) + Cardinality(inflight) + unanswered
      /\ settled["sent"] = report["sent"] /\ settled["duplicates"] = report["duplicates"]
  <2>1. PICK r1 : r1 = Count(report, "dropped", Cardinality(inflight))
    OBVIOUS
  <2>2. /\ r1 \in [Counters -> Nat] /\ Settled(r1) = Settled(report) + Cardinality(inflight)
        /\ r1["sent"] = report["sent"] /\ r1["duplicates"] = report["duplicates"]
    BY <1>2, <2>1, SettledFacts
  <2>3. PICK c \in {"dropped", "missed"} : settled = Count(r1, c, unanswered)
    BY <1>4, <2>1 DEF Settle
  <2>4. /\ settled \in [Counters -> Nat] /\ Settled(settled) = Settled(r1) + unanswered
        /\ settled["sent"] = r1["sent"] /\ settled["duplicates"] = r1["duplicates"]
    BY <1>2, <2>2, <2>3, SettledFacts
  <2>. QED BY <2>2, <2>4
<1>6. \/ report' = settled
      \/ report' = Count(settled, "exhausted", 1)
      \/ report' = Count(settled, "unexpected", 1)
  <2>1. CASE late
    BY <1>3, <1>4, <2>1 DEF Join
  <2>2. CASE ~late
    <3>1. PICK r \in BOOLEAN :
            report' = (IF r THEN settled
                       ELSE Count(settled, IF TransportLike(end) THEN "exhausted" ELSE "unexpected", 1))
      <4>1. \E r \in BOOLEAN :
              /\ r = should_auto_retry(end, (IF ready THEN 0 ELSE attempt) + 1,
                       (IF ready THEN 0 ELSE attempt) > 0 \/ (ready /\ end.reason = "transport"))
              /\ report' = (IF r THEN settled
                       ELSE Count(settled, IF TransportLike(end) THEN "exhausted" ELSE "unexpected", 1))
        BY <1>3, <1>4, <2>2 DEF Join, should_auto_retry
      <4>. QED BY <4>1
    <3>. QED BY <3>1
  <2>. QED BY <2>1, <2>2
<1>7. /\ report' \in [Counters -> Nat] /\ Settled(report') = Settled(settled)
      /\ report'["sent"] = settled["sent"] /\ report'["duplicates"] = settled["duplicates"]
  <2>1. /\ settled \in [Counters -> Nat] /\ 1 \in Nat
    BY <1>5
  <2>2. \A c \in {"ready", "reconnects", "exhausted", "unexpected"} :
          /\ Count(settled, c, 1) \in [Counters -> Nat]
          /\ Settled(Count(settled, c, 1)) = Settled(settled)
          /\ Count(settled, c, 1)["sent"] = settled["sent"]
          /\ Count(settled, c, 1)["duplicates"] = settled["duplicates"]
    BY ONLY <2>1, SettledFacts
  <2>. QED BY <1>5, <1>6, <2>2
<1>8. attempt' \in 0 .. MaxRetries
  <2>1. PICK before : before = (IF ready THEN 0 ELSE attempt)
    OBVIOUS
  <2>2. before \in 0 .. MaxRetries
    BY <1>2, <2>1
  <2>3. attempt' = before \/ attempt' = 0 \/ (before + 1 <= MaxRetries /\ attempt' = before + 1)
    BY <2>1 DEF Join, should_auto_retry
  <2>. QED BY <2>2, <2>3
<1>9. Cardinality(inflight') = 0
  BY <1>1, FS_EmptySet
<1>10. CountTypes'
  BY <1>1, <1>2, <1>7, <1>8, <1>9 DEF CountTypes
<1>11. Settled(report') \in Nat /\ Settled(report) \in Nat
  BY <1>2, <1>7, SettledFacts
<1>12. report'["sent"] = Settled(report') + 0 + 0
  BY <1>2, <1>5, <1>7, <1>11 DEF Accounts
<1>. QED BY <1>1, <1>5, <1>7, <1>9, <1>10, <1>12 DEF Ledger, Accounts

LEMMA StepLedger ==
  ASSUME Types, Pipeline, Accounts, Closed, [Next]_vars
  PROVE  Ledger'
<1>1. ASSUME UNCHANGED <<sequence, unanswered, acknowledged, attempt, inflight, report>>,
             waiting' # "beat" \/ waiting' = waiting,
             waiting' \in {"none", "beat", "reply", "close"}
      PROVE  Ledger'
  <2>1. /\ Cardinality(inflight) \in Nat /\ unanswered \in Nat /\ sequence \in Nat
    BY InflightFacts DEF Types
  <2>2. waiting' # "beat" => unanswered + Cardinality(inflight) + 0 <= sequence
    <3>1. unanswered + Cardinality(inflight) + 0 <= sequence
          \/ unanswered + Cardinality(inflight) + 1 <= sequence
      BY DEF Types, CountTypes
    <3>. QED BY <2>1, <3>1
  <2>3. CountTypes'
    BY <1>1, <2>1, <2>2 DEF Types, CountTypes
  <2>. QED BY <1>1, <2>3 DEF Ledger, Accounts
<1>2. waiting \in {"none", "beat", "reply", "close"}
  BY DEF Types, CountTypes
<1>3. CASE \E b \in Beats : RecvAnswer(b)
  BY <1>3, LedgerAnswer
<1>4. CASE \E old \in 0 .. MaxBeats : Beat(old)
  BY <1>4, LedgerBeat
<1>5. CASE Send
  BY <1>5, LedgerSend
<1>6. CASE Join
  BY <1>6, LedgerJoin
<1>7. CASE Connect
  <2>1. /\ inflight' = {} /\ unanswered' = 0 /\ waiting' = "none"
        /\ UNCHANGED <<sequence, acknowledged, attempt, report>> /\ ~Open
    BY <1>7 DEF Connect, Open
  <2>2. inflight = {} /\ unanswered = 0
    BY <2>1 DEF Closed
  <2>. QED BY <1>1, <2>1, <2>2
<1>8. CASE RecvReady
  <2>1. PICK by \in {0, 1} :
          report' = Count(Count(report, "ready", 1), "reconnects", by)
    BY <1>8 DEF RecvReady
  <2>2. UNCHANGED <<sequence, unanswered, acknowledged, attempt, inflight, waiting>>
    BY <1>8 DEF RecvReady, beats, soak
  <2>3. PICK r : r = Count(report, "ready", 1)
    OBVIOUS
  <2>4. /\ r \in [Counters -> Nat] /\ Settled(r) = Settled(report)
        /\ r["sent"] = report["sent"] /\ r["duplicates"] = report["duplicates"]
    <3>1. report \in [Counters -> Nat]
      BY DEF Types, CountTypes
    <3>. QED BY ONLY <2>3, <3>1, SettledFacts
  <2>5. /\ report' \in [Counters -> Nat] /\ Settled(report') = Settled(r)
        /\ report'["sent"] = r["sent"] /\ report'["duplicates"] = r["duplicates"]
    <3>1. PICK q : q = Count(r, "reconnects", by)
      OBVIOUS
    <3>2. by \in Nat /\ report' = q
      BY <2>1, <2>3, <3>1
    <3>3. /\ q \in [Counters -> Nat] /\ Settled(q) = Settled(r)
          /\ q["sent"] = r["sent"] /\ q["duplicates"] = r["duplicates"]
      BY ONLY <2>4, <3>1, <3>2, SettledFacts
    <3>. QED BY <3>2, <3>3
  <2>6. CountTypes'
    BY <2>2, <2>5 DEF Types, CountTypes
  <2>7. Accounts'
    BY <2>2, <2>4, <2>5 DEF Accounts
  <2>. QED BY <2>6, <2>7 DEF Ledger
<1>9. CASE ~(\/ \E b \in Beats : RecvAnswer(b)
             \/ \E old \in 0 .. MaxBeats : Beat(old)
             \/ Send \/ Join \/ Connect \/ RecvReady)
  <2>1. /\ UNCHANGED <<sequence, unanswered, acknowledged, attempt, inflight, report>>
        /\ waiting' = waiting \/ waiting' \in {"none", "reply", "close"}
    BY <1>9 DEF Next, Driver, Peer, vars, session, soak, beats, local, RecvQuery, CloseAtDeadline,
                SendFails, Finish, BecomesReady, WindowOpens, Answers, Asks, Ends,
                TakesCommand, Deadline
  <2>2. /\ waiting' # "beat" \/ waiting' = waiting
        /\ waiting' \in {"none", "beat", "reply", "close"}
    BY <1>2, <2>1
  <2>. QED BY <1>1, <2>1, <2>2
<1>. QED BY <1>3, <1>4, <1>5, <1>6, <1>7, <1>8, <1>9

LEMMA StepClosed ==
  ASSUME Closed, [Next]_vars
  PROVE  Closed'
<1>1. CASE Join
  BY <1>1 DEF Join, Closed
<1>2. CASE Connect
  BY <1>2 DEF Connect, Closed, Open
<1>3. CASE \E b \in Beats : RecvAnswer(b)
  BY <1>3 DEF RecvAnswer, Recv, AtSelect, Closed, Open, soak
<1>4. CASE \E old \in 0 .. MaxBeats : Beat(old)
  BY <1>4 DEF Beat, AtSelect, Closed, Open, soak
<1>5. CASE Send
  BY <1>5 DEF Send, Runs, Closed, Open, soak
<1>6. CASE Finish
  BY <1>6 DEF Finish, Closed, Open, beats
<1>7. CASE ~(\/ \E b \in Beats : RecvAnswer(b)
             \/ \E old \in 0 .. MaxBeats : Beat(old)
             \/ Send \/ Join \/ Connect \/ Finish)
  <2>1. UNCHANGED <<phase, inflight, unanswered>>
    BY <1>7 DEF Next, Driver, Peer, vars, session, soak, beats, local, RecvQuery, RecvReady,
                CloseAtDeadline, SendFails, BecomesReady, WindowOpens, Answers, Asks, Ends,
                TakesCommand, Deadline
  <2>. QED BY <2>1 DEF Closed, Open
<1>. QED BY <1>1, <1>2, <1>3, <1>4, <1>5, <1>6, <1>7

----
(* The theorems. *)

\* The inductive invariant.
SoakInv == Types /\ Pipeline /\ Accounts /\ Closed

LEMMA InitSoakInv == Init => SoakInv
<1>. SUFFICES ASSUME Init PROVE SoakInv
  OBVIOUS
<1>1. Accounts
  BY FS_EmptySet DEF Init, Accounts, Settled, Counters
<1>2. Closed
  BY DEF Init, Closed
<1>. QED BY <1>1, <1>2, InitTypes, InitPipeline DEF SoakInv

LEMMA StepSoakInv == SoakInv /\ [Next]_vars => SoakInv'
<1>. SUFFICES ASSUME SoakInv, [Next]_vars PROVE SoakInv'
  OBVIOUS
<1>1. Types /\ Pipeline /\ Accounts /\ Closed /\ SessionTypes /\ FlagTypes
  BY DEF SoakInv, Types
<1>2. SessionTypes' /\ FlagTypes'
  BY <1>1, StepSessionTypes, StepFlagTypes
<1>3. ChannelTypes' /\ Pipeline'
  BY <1>1, StepPipeline DEF PipelineTypes
<1>4. CountTypes' /\ Accounts'
  BY <1>1, StepLedger DEF Ledger
<1>5. Closed'
  BY <1>1, StepClosed
<1>. QED BY <1>2, <1>3, <1>4, <1>5 DEF SoakInv, Types

\* The command channel stays within its capacity, no heartbeat is in flight that the
\* driver has not numbered, and no retry is counted beyond the budget.
THEOREM TypeCorrect == Spec => []TypeOK
<1>1. SoakInv => TypeOK
  <2>. SUFFICES ASSUME SoakInv PROVE TypeOK
    OBVIOUS
  <2>1. /\ unanswered \in Nat /\ sequence \in 0 .. MaxBeats /\ inflight \subseteq 1 .. sequence
        /\ Cardinality(inflight) \in Nat /\ unanswered <= sequence
    <3>1. /\ unanswered \in Nat /\ sequence \in Nat /\ Cardinality(inflight) \in Nat
      BY InflightFacts DEF SoakInv, Types
    <3>2. PICK k \in {0, 1} : unanswered + Cardinality(inflight) + k <= sequence
      BY DEF SoakInv, Types, CountTypes
    <3>. QED BY <3>1, <3>2 DEF SoakInv, Types, CountTypes
  <2>2. unanswered \in 0 .. MaxBeats /\ inflight \subseteq Beats
    BY <2>1 DEF Beats
  <2>3. {told, stalled, asked, late, ready, closing, lost} \subseteq BOOLEAN
    BY DEF SoakInv, Types, FlagTypes
  <2>. QED BY <2>1, <2>2, <2>3
           DEF SoakInv, Types, SessionTypes, ChannelTypes, CountTypes, TypeOK, Requests, Events, Outcomes
<1>. QED BY <1>1, InitSoakInv, StepSoakInv, PTL DEF Spec

\* The heartbeats add up at every moment, and none is ever counted as a replayed one,
\* however many sessions the soak opens and however its timeouts race with answers.
THEOREM CountsCorrect == Spec => []HeartbeatsAddUp
<1>1. SoakInv => HeartbeatsAddUp
  BY DEF SoakInv, Accounts, Settled, HeartbeatsAddUp
<1>. QED BY <1>1, InitSoakInv, StepSoakInv, PTL DEF Spec
=============================================================================
