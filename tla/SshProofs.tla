----------------------------- MODULE SshProofs -----------------------------
(***************************************************************************)
(* Proofs about SshSession, for any number of sessions, hosts, keys and    *)
(* hops: types are correct, every hop a session authenticated to was       *)
(* trusted, known_hosts stays unambiguous, a lost session blames a hop     *)
(* that failed by itself, and SshSession implements SessionLifecycle.      *)
(*                                                                         *)
(* Then about SshConfig, which makes the routes: for any files, lines and  *)
(* hosts, what a host gets of the blocks is what the lines say, the chain  *)
(* of a route is what the jumps of its hosts make of it, and both come to  *)
(* an end.                                                                 *)
(***************************************************************************)
EXTENDS SshSession, SshConfig, FiniteSetTheorems, SequenceTheorems, TLAPS

(* Phases before the first hop or after the run; phases with an accepted hop. *)
Outside == {"idle", "prepare", "finish", "closed", "gone"}
Inside  == {"auth", "askAuth", "tunnel", "open", "loop", "writing", "lost"}

\* How far the task is: its hop, and one accepted key per hop verified so far.
Progress(s) ==
  /\ pc[s] \in Outside => hop[s] = 0 /\ accepted[s] = <<>>
  /\ pc[s] \in Setup => /\ hop[s] \in 1 .. Len(Route[s])
                        /\ Len(accepted[s]) = hop[s] - 1
  /\ pc[s] \in Inside => /\ hop[s] \in 1 .. Len(Route[s])
                         /\ Len(accepted[s]) = hop[s]
  /\ pc[s] = "tunnel" => hop[s] < Len(Route[s])

\* A waiting verifier knows its own prompt, and saves only once approved.
OwnPrompt(s) ==
  /\ pc[s] \in {"check", "ask", "save"} => key[s] \in Keys
  /\ pc[s] \in {"ask", "save"} =>
       /\ request[s] \in DOMAIN asked
       /\ asked[request[s]] = [session |-> s, hop |-> hop[s], key |-> key[s],
                               status |-> "unknown"]
  /\ pc[s] = "save" => request[s] \in approved

\* A trust decision on its way to the task is one the operator gave.
GenuineAnswers(s) ==
  \A i \in DOMAIN queue["host"][s] :
    LET m == queue["host"][s][i] IN m.body # "reject" => m.request \in approved

TrustedHop(s, h) ==
  LET a == accepted[s][h] IN
  IF a.by = 0
  THEN <<Route[s][h], a.key>> \in knownHosts
  ELSE /\ a.by \in approved
       /\ asked[a.by] = [session |-> s, hop |-> h, key |-> a.key,
                         status |-> "unknown"]

SessionInv(s) ==
  /\ Progress(s)
  /\ OwnPrompt(s)
  /\ GenuineAnswers(s)
  /\ \A h \in DOMAIN accepted[s] : TrustedHop(s, h)

IInv == TypeOK /\ \A s \in Sessions : SessionInv(s)

\* What a step of another session leaves of this one.
Untouched(s) ==
  /\ pc'[s] = pc[s]
  /\ hop'[s] = hop[s]
  /\ key'[s] = key[s]
  /\ request'[s] = request[s]
  /\ accepted'[s] = accepted[s]
  /\ queue'["host"][s] = queue["host"][s]

\* The shared state only grows: prompts keep their ids, entries stay.
Grows ==
  /\ \A r \in DOMAIN asked : r \in DOMAIN asked' /\ asked'[r] = asked[r]
  /\ approved \subseteq approved'
  /\ knownHosts \subseteq knownHosts'
----
\* Appending to a history keeps its elements at their places.
LEMMA AppendKeeps ==
  ASSUME NEW S, NEW q \in Seq(S), NEW x \in S
  PROVE  /\ Append(q, x) \in Seq(S)
         /\ Len(Append(q, x)) = Len(q) + 1
         /\ DOMAIN q \subseteq DOMAIN Append(q, x)
         /\ \A i \in DOMAIN q : Append(q, x)[i] = q[i]
         /\ DOMAIN Append(q, x) = DOMAIN q \cup {Len(q) + 1}
         /\ Append(q, x)[Len(q) + 1] = x
  BY AppendProperties

LEMMA InitIInv == Init => IInv
<1>. SUFFICES ASSUME Init PROVE IInv
  OBVIOUS
<1>1. TypeOK
  <2>1. /\ link \in [Sessions -> [Hops -> {"none", "up", "dying", "dead"}]]
        /\ why \in [Sessions -> [Hops -> Faults \cup {"none"}]]
    BY DEF Init, NoLinks
  <2>2. queue \in [Channels -> [Sessions -> Seq(Message)]]
    BY DEF Init
  <2>3. end \in [Sessions -> SessionEnd]
    BY SessionAssumption
    DEF Init, SessionEnd, NotEnded, End, Reasons, Causes, Faults
  <2>. QED
    BY <2>1, <2>2, <2>3, SessionAssumption DEF Init, TypeOK, Phases
<1>2. ASSUME NEW s \in Sessions
      PROVE  SessionInv(s)
  BY <1>2 DEF Init, SessionInv, Progress, OwnPrompt, GenuineAnswers,
              TrustedHop, Outside, Inside, Setup, Channels
<1>. QED
  BY <1>1, <1>2 DEF IInv

\* A session no step touches keeps its invariant while the shared state grows.
LEMMA OthersKept ==
  ASSUME TypeOK, NEW t \in Sessions, SessionInv(t), Untouched(t), Grows
  PROVE  SessionInv(t)'
<1>1. Progress(t)'
  BY DEF SessionInv, Progress, Untouched
<1>2. OwnPrompt(t)'
  BY DEF SessionInv, OwnPrompt, Untouched, Grows
<1>3. GenuineAnswers(t)'
  BY DEF SessionInv, GenuineAnswers, Untouched, Grows
<1>4. ASSUME NEW h \in DOMAIN accepted'[t]
      PROVE  TrustedHop(t, h)'
  <2>1. TrustedHop(t, h) /\ accepted'[t][h] = accepted[t][h]
    BY <1>4 DEF SessionInv, Untouched
  <2>2. accepted[t][h].by \in approved => accepted[t][h].by \in DOMAIN asked
    BY DEF TypeOK
  <2>. QED
    BY <2>1, <2>2 DEF TrustedHop, Grows
<1>. QED
  BY <1>1, <1>2, <1>3, <1>4 DEF SessionInv

\* A step of session s keeps the invariant if it keeps s's own part of it.
LEMMA StepKeeps ==
  ASSUME IInv, NEW s \in Sessions, TypeOK', Grows,
         \A t \in Sessions \ {s} : Untouched(t), SessionInv(s)'
  PROVE  IInv'
<1>1. ASSUME NEW t \in Sessions, t # s
      PROVE  SessionInv(t)'
  BY <1>1, OthersKept DEF IInv
<1>. QED
  BY <1>1 DEF IInv

\* The steps that leave what the prompts, answers and entries say alone.
SameFacts ==
  /\ asked' = asked
  /\ approved' = approved
  /\ knownHosts' = knownHosts

LEMMA SameFactsGrow == ASSUME TypeOK, SameFacts PROVE Grows
  BY DEF SameFacts, Grows

LEMMA FinishKeeps ==
  ASSUME IInv, NEW s \in Sessions, Running(s), NEW e \in SessionEnd,
         Finish(s, e), refused' \subseteq Sessions,
         knownHosts \subseteq knownHosts', knownHosts' \subseteq Hosts \X Keys,
         \/ asked' = asked
         \/ hop[s] \in Hops /\ key[s] \in Keys /\ Prompt(s, "changed")
  PROVE  IInv'
<1>. DEFINE shown == [session |-> s, hop |-> hop[s], key |-> key[s],
                      status |-> "changed"]
<1>1. asked' \in Seq(HostKeyPrompt)
  <2>1. CASE asked' = asked
    BY <2>1 DEF IInv, TypeOK
  <2>2. CASE hop[s] \in Hops /\ key[s] \in Keys /\ Prompt(s, "changed")
    <3>1. shown \in HostKeyPrompt
      BY <2>2 DEF HostKeyPrompt
    <3>. QED
      BY <3>1, <2>2, AppendKeeps DEF IInv, TypeOK, Prompt
  <2>. QED
    BY <2>1, <2>2
<1>2. /\ DOMAIN asked \subseteq DOMAIN asked'
      /\ \A r \in DOMAIN asked : asked'[r] = asked[r]
  <2>1. CASE asked' = asked
    BY <2>1
  <2>2. CASE hop[s] \in Hops /\ key[s] \in Keys /\ Prompt(s, "changed")
    <3>1. shown \in HostKeyPrompt
      BY <2>2 DEF HostKeyPrompt
    <3>. QED
      BY <3>1, <2>2, AppendKeeps DEF IInv, TypeOK, Prompt
  <2>. QED
    BY <2>1, <2>2
<1>3. Grows
  BY <1>2 DEF Grows, Finish
<1>4. TypeOK'
  <2>1. queue' \in [Channels -> [Sessions -> Seq(Message)]]
    <3>1. \A ch \in Channels :
            [queue[ch] EXCEPT ![s] = <<>>] \in [Sessions -> Seq(Message)]
      BY DEF IInv, TypeOK
    <3>. QED
      BY <3>1 DEF Finish
  <2>2. registry' = {t \in Sessions : pc'[t] \notin {"idle", "gone"}}
    BY DEF IInv, TypeOK, Finish, Goto, Running
  <2>3. accepted' \in [Sessions -> Seq(Acceptance)]
    BY DEF IInv, TypeOK, Finish
  <2>4. /\ link' \in [Sessions -> [Hops -> {"none", "up", "dying", "dead"}]]
        /\ why' \in [Sessions -> [Hops -> Faults \cup {"none"}]]
    BY DEF IInv, TypeOK, Finish, NoLinks
  <2>5. pc' \in [Sessions -> Phases]
    BY DEF IInv, TypeOK, Finish, Goto, Phases
  <2>6. /\ hop' \in [Sessions -> 0 .. MaxHops]
        /\ record' \in [Sessions -> 0 .. MaxHops]
        /\ request' \in [Sessions -> Nat]
    BY SessionAssumption DEF IInv, TypeOK, Finish
  <2>7. /\ key' \in [Sessions -> Keys \cup {NoKey}]
        /\ end' \in [Sessions -> SessionEnd]
        /\ root' \in [Sessions -> SUBSET Hops]
        /\ closing' \in [Sessions -> SUBSET Channels]
        /\ authAsked' \in Seq(Sessions)
    BY DEF IInv, TypeOK, Finish
  <2>8. approved' \subseteq DOMAIN asked'
    BY <1>2 DEF IInv, TypeOK, Finish
  <2>. QED
    BY <1>1, <2>1, <2>2, <2>3, <2>4, <2>5, <2>6, <2>7, <2>8 DEF TypeOK
<1>5. SessionInv(s)'
  BY DEF IInv, TypeOK, SessionInv, Progress, OwnPrompt, GenuineAnswers, Finish,
         Goto, Outside, Inside, Setup, Channels
<1>6. \A t \in Sessions \ {s} : Untouched(t)
  BY DEF IInv, TypeOK, Untouched, Finish, Goto, Channels
<1>. QED
  BY <1>3, <1>4, <1>5, <1>6, StepKeeps

LEMMA EndTypes ==
  ASSUME NEW r \in Reasons, NEW c \in Causes, NEW h \in 0 .. MaxHops
  PROVE  End(r, c, h) \in SessionEnd
  BY DEF End, SessionEnd

LEMMA NoHop == 0 \in 0 .. MaxHops
  BY SessionAssumption

\* A failed run, whatever it is blamed on.
LEMMA FailKeeps ==
  ASSUME IInv, NEW s \in Sessions, Running(s), NEW c \in Causes,
         NEW h \in 0 .. MaxHops, Fail(s, c, h), refused' \subseteq Sessions,
         knownHosts \subseteq knownHosts', knownHosts' \subseteq Hosts \X Keys,
         \/ asked' = asked
         \/ hop[s] \in Hops /\ key[s] \in Keys /\ Prompt(s, "changed")
  PROVE  IInv'
<1>. DEFINE e == End("failed", c, IF c = "none" THEN 0 ELSE h)
<1>1. e \in SessionEnd
  BY EndTypes, SessionAssumption DEF Reasons
<1>2. Finish(s, e)
  BY DEF Fail
<1>. QED
  BY <1>1, <1>2, FinishKeeps

LEMMA RefuseKeeps ==
  ASSUME IInv, NEW s \in Sessions, Running(s), NEW c \in Causes, Refuse(s, c),
         knownHosts' = knownHosts,
         \/ asked' = asked
         \/ hop[s] \in Hops /\ key[s] \in Keys /\ Prompt(s, "changed")
  PROVE  IInv'
<1>1. /\ hop[s] \in 0 .. MaxHops
      /\ refused' \subseteq Sessions
      /\ knownHosts' \subseteq Hosts \X Keys
  BY DEF IInv, TypeOK, Refuse
<1>. QED
  BY <1>1, FailKeeps DEF Refuse

LEMMA BreakKeeps ==
  ASSUME IInv, NEW s \in Sessions, Running(s), NEW c \in Causes,
         NEW h \in 0 .. MaxHops, Break(s, c, h)
  PROVE  IInv'
<1>1. /\ refused' \subseteq Sessions
      /\ knownHosts' = knownHosts
      /\ knownHosts' \subseteq Hosts \X Keys
      /\ asked' = asked
  BY DEF IInv, TypeOK, Break
<1>. QED
  BY <1>1, FailKeeps DEF Break

\* What a session that is setting a hop up knows of itself.
LEMMA SetupFacts ==
  ASSUME IInv, NEW s \in Sessions, pc[s] \in Setup
  PROVE  /\ Running(s)
         /\ hop[s] \in 1 .. Len(Route[s])
         /\ hop[s] \in Hops
         /\ hop[s] \in 0 .. MaxHops
         /\ Len(Route[s]) \in Nat
         /\ Route[s][hop[s]] \in Hosts
         /\ Len(accepted[s]) = hop[s] - 1
         /\ pc[s] # "connect" => key[s] \in Keys
<1>1. /\ hop[s] \in 1 .. Len(Route[s])
      /\ Len(accepted[s]) = hop[s] - 1
      /\ pc[s] # "connect" => key[s] \in Keys
  BY DEF IInv, SessionInv, Progress, OwnPrompt, Setup
<1>2. /\ Route[s] \in Seq(Hosts)
      /\ Len(Route[s]) \in 1 .. MaxHops
      /\ MaxHops \in Nat
  BY SessionAssumption DEF Hops
<1>3. Running(s)
  BY DEF Running, Setup
<1>. QED
  BY <1>1, <1>2, <1>3 DEF Hops

\* Taking a message leaves messages that were there before.
LEMMA ReceiveKeeps ==
  ASSUME TypeOK, NEW s \in Sessions, NEW ch \in Channels,
         queue[ch][s] # <<>>, Receive(s, ch)
  PROVE  /\ queue' \in [Channels -> [Sessions -> Seq(Message)]]
         /\ \A t \in Sessions \ {s} : queue'["host"][t] = queue["host"][t]
         /\ \A i \in DOMAIN queue'["host"][s] :
              \E j \in DOMAIN queue["host"][s] :
                queue'["host"][s][i] = queue["host"][s][j]
<1>. DEFINE q == queue[ch][s]
<1>1. q \in Seq(Message) /\ q # <<>>
  BY DEF TypeOK
<1>2. /\ Tail(q) \in Seq(Message)
      /\ \A i \in DOMAIN Tail(q) : i + 1 \in DOMAIN q /\ Tail(q)[i] = q[i + 1]
  BY <1>1
<1>3. queue' = [queue EXCEPT ![ch][s] = Tail(q)]
  BY DEF Receive
<1>4. queue' \in [Channels -> [Sessions -> Seq(Message)]]
  BY <1>2, <1>3 DEF TypeOK
<1>5. \A t \in Sessions \ {s} : queue'["host"][t] = queue["host"][t]
  BY <1>3 DEF TypeOK, Channels
<1>6. CASE ch = "host"
  <2>1. queue'["host"][s] = Tail(q)
    BY <1>3, <1>6 DEF TypeOK, Channels
  <2>. QED
    BY <1>2, <1>4, <1>5, <1>6, <2>1
<1>7. CASE ch # "host"
  <2>1. queue'["host"][s] = queue["host"][s]
    BY <1>3, <1>7 DEF TypeOK, Channels
  <2>. QED
    BY <1>4, <1>5, <2>1
<1>. QED
  BY <1>6, <1>7

\* Sending adds one message, at the end of one session's channel.
LEMMA SendKeeps ==
  ASSUME TypeOK, NEW s \in Sessions, NEW ch \in Channels, NEW m \in Message,
         Send(s, ch, m)
  PROVE  /\ queue' \in [Channels -> [Sessions -> Seq(Message)]]
         /\ \A t \in Sessions \ {s} : queue'["host"][t] = queue["host"][t]
         /\ \A i \in DOMAIN queue'["host"][s] :
              \/ ch = "host" /\ queue'["host"][s][i] = m
              \/ /\ i \in DOMAIN queue["host"][s]
                 /\ queue'["host"][s][i] = queue["host"][s][i]
<1>. DEFINE q == queue[ch][s]
<1>1. q \in Seq(Message)
  BY DEF TypeOK
<1>2. /\ Append(q, m) \in Seq(Message)
      /\ \A i \in DOMAIN q : Append(q, m)[i] = q[i]
      /\ DOMAIN Append(q, m) = DOMAIN q \cup {Len(q) + 1}
      /\ Append(q, m)[Len(q) + 1] = m
  BY <1>1, AppendKeeps
<1>3. queue' = [queue EXCEPT ![ch][s] = Append(q, m)]
  BY DEF Send
<1>4. queue' \in [Channels -> [Sessions -> Seq(Message)]]
  BY <1>2, <1>3 DEF TypeOK
<1>5. \A t \in Sessions \ {s} : queue'["host"][t] = queue["host"][t]
  BY <1>3 DEF TypeOK, Channels
<1>6. CASE ch = "host"
  <2>1. queue'["host"][s] = Append(q, m)
    BY <1>3, <1>6 DEF TypeOK, Channels
  <2>. QED
    BY <1>2, <1>4, <1>5, <1>6, <2>1
<1>7. CASE ch # "host"
  <2>1. queue'["host"][s] = queue["host"][s]
    BY <1>3, <1>7 DEF TypeOK, Channels
  <2>. QED
    BY <1>4, <1>5, <2>1
<1>. QED
  BY <1>6, <1>7

\* A key let through on the word of known_hosts or of an approved own prompt.
LEMMA AcceptKeeps ==
  ASSUME IInv, NEW s \in Sessions, pc[s] \in {"check", "ask", "save"},
         NEW r \in Nat, Accept(s, r),
         \/ r = 0 /\ <<Host(s), key[s]>> \in knownHosts'
         \/ r = request[s] /\ r # 0 /\ r \in approved /\ pc[s] \in {"ask", "save"},
         queue' = queue \/ (queue["host"][s] # <<>> /\ Receive(s, "host")),
         knownHosts \subseteq knownHosts', knownHosts' \subseteq Hosts \X Keys
  PROVE  IInv'
<1>. DEFINE a == [key |-> key[s], by |-> r]
<1>1. /\ Running(s)
      /\ hop[s] \in 1 .. Len(Route[s])
      /\ hop[s] \in Hops
      /\ Len(accepted[s]) = hop[s] - 1
      /\ key[s] \in Keys
  BY SetupFacts DEF Setup
<1>2. /\ accepted[s] \in Seq(Acceptance)
      /\ a \in Acceptance
      /\ accepted'[s] = Append(accepted[s], a)
  BY <1>1 DEF IInv, TypeOK, Acceptance, Accept
<1>3. /\ accepted'[s] \in Seq(Acceptance)
      /\ Len(accepted'[s]) = hop[s]
      /\ \A i \in DOMAIN accepted[s] : accepted'[s][i] = accepted[s][i]
      /\ DOMAIN accepted'[s] = DOMAIN accepted[s] \cup {hop[s]}
      /\ accepted'[s][hop[s]] = a
  <2>1. Len(accepted[s]) + 1 = hop[s]
    BY <1>1 DEF Hops
  <2>. QED
    BY <1>2, <2>1, AppendKeeps
<1>4. /\ queue' \in [Channels -> [Sessions -> Seq(Message)]]
      /\ \A t \in Sessions \ {s} : queue'["host"][t] = queue["host"][t]
      /\ \A i \in DOMAIN queue'["host"][s] :
           \E j \in DOMAIN queue["host"][s] :
             queue'["host"][s][i] = queue["host"][s][j]
  <2>1. CASE queue' = queue
    BY <2>1 DEF IInv, TypeOK
  <2>2. CASE queue["host"][s] # <<>> /\ Receive(s, "host")
    BY <2>2, ReceiveKeeps DEF IInv, Channels
  <2>. QED
    BY <2>1, <2>2
<1>5. /\ asked' = asked
      /\ approved' = approved
      /\ authAsked' = authAsked
      /\ hop' = hop
      /\ key' = key
  BY DEF Accept, uiVars
<1>6. TypeOK'
  <2>1. pc' \in [Sessions -> Phases]
    BY DEF IInv, TypeOK, Accept, Goto, Phases
  <2>2. registry' = {t \in Sessions : pc'[t] \notin {"idle", "gone"}}
    BY <1>1 DEF IInv, TypeOK, Accept, Goto, Running
  <2>3. accepted' \in [Sessions -> Seq(Acceptance)]
    BY <1>2, <1>3 DEF IInv, TypeOK, Accept
  <2>4. request' \in [Sessions -> Nat]
    BY DEF IInv, TypeOK, Accept
  <2>5. link' \in [Sessions -> [Hops -> {"none", "up", "dying", "dead"}]]
    BY <1>1 DEF IInv, TypeOK, Accept
  <2>6. /\ end' = end
        /\ closing' = closing
        /\ refused' = refused
        /\ why' = why
        /\ record' = record
        /\ root' = root
    BY DEF Accept
  <2>. QED
    BY <1>4, <1>5, <2>1, <2>2, <2>3, <2>4, <2>5, <2>6 DEF IInv, TypeOK
<1>7. SessionInv(s)'
  <2>1. Progress(s)'
    <3>1. pc'[s] = "auth"
      BY DEF IInv, TypeOK, Accept, Goto
    <3>. QED
      BY <3>1, <1>1, <1>3, <1>5 DEF Progress, Outside, Inside, Setup
  <2>2. OwnPrompt(s)'
    BY DEF IInv, TypeOK, OwnPrompt, Accept, Goto
  <2>3. GenuineAnswers(s)'
    BY <1>4, <1>5 DEF IInv, SessionInv, GenuineAnswers
  <2>4. ASSUME NEW h \in DOMAIN accepted[s]
        PROVE  TrustedHop(s, h)'
    BY <2>4, <1>3, <1>5 DEF IInv, SessionInv, TrustedHop
  <2>5. TrustedHop(s, hop[s])'
    <3>1. CASE r = 0 /\ <<Host(s), key[s]>> \in knownHosts'
      BY <3>1, <1>3, <1>5 DEF TrustedHop, Host
    <3>2. CASE r = request[s] /\ r # 0 /\ r \in approved
               /\ pc[s] \in {"ask", "save"}
      <4>1. asked[r] = [session |-> s, hop |-> hop[s], key |-> key[s],
                        status |-> "unknown"]
        BY <3>2 DEF IInv, SessionInv, OwnPrompt
      <4>. QED
        BY <3>2, <4>1, <1>3, <1>5 DEF TrustedHop
    <3>. QED
      BY <3>1, <3>2
  <2>. QED
    BY <2>1, <2>2, <2>3, <2>4, <2>5, <1>3, <1>5 DEF SessionInv
<1>8. \A t \in Sessions \ {s} : Untouched(t)
  BY <1>4, <1>5 DEF IInv, TypeOK, Untouched, Accept, Goto
<1>9. Grows
  BY <1>5 DEF Grows
<1>. QED
  BY <1>6, <1>7, <1>8, <1>9, StepKeeps
----
\* One hop: connection, host key and saving.
LEMMA HandshakeKeeps ==
  ASSUME IInv, NEW s \in Sessions, HandshakeStep(s)
  PROVE  IInv'
<1>1. ASSUME NEW k \in Keys, ServerKeyArrives(s, k)
      PROVE  IInv'
  <2>1. Running(s) /\ pc[s] = "connect"
    BY <1>1 DEF ServerKeyArrives, Running
  <2>2. TypeOK'
    BY <1>1, <2>1 DEF IInv, TypeOK, ServerKeyArrives, Goto, Phases, Setup,
                      Running, uiVars, linkVars
  <2>3. SessionInv(s)'
    BY <1>1, <2>1 DEF IInv, TypeOK, SessionInv, Progress, OwnPrompt,
       GenuineAnswers, TrustedHop, ServerKeyArrives, Goto, Setup, Outside,
       Inside, uiVars, linkVars
  <2>4. /\ \A t \in Sessions \ {s} : Untouched(t)
        /\ Grows
    BY <1>1, SameFactsGrow DEF IInv, TypeOK, Untouched, SameFacts,
       ServerKeyArrives, Goto, uiVars, linkVars
  <2>. QED
    BY <2>2, <2>3, <2>4, StepKeeps
<1>2. ASSUME CertificateRefused(s)
      PROVE  IInv'
  BY <1>2, RefuseKeeps DEF CertificateRefused, Running, Causes
<1>3. ASSUME NEW c \in {"timeout", "network", "none"}, HandshakeBreaks(s, c)
      PROVE  IInv'
  <2>1. Running(s) /\ hop[s] \in 0 .. MaxHops
    BY <1>3, SetupFacts DEF HandshakeBreaks, Setup
  <2>. QED
    BY <1>3, <2>1, BreakKeeps DEF HandshakeBreaks, Causes, Faults
<1>4. ASSUME HostKeyTrusted(s)
      PROVE  IInv'
  <2>1. <<Host(s), key[s]>> \in knownHosts
    BY <1>4 DEF HostKeyTrusted, Status
  <2>2. knownHosts' \subseteq Hosts \X Keys
    BY <1>4 DEF HostKeyTrusted, IInv, TypeOK
  <2>. QED
    BY <1>4, <2>1, <2>2, AcceptKeeps DEF HostKeyTrusted
<1>5. ASSUME HostKeyChanged(s)
      PROVE  IInv'
  <2>1. Running(s) /\ hop[s] \in Hops /\ key[s] \in Keys
    BY <1>5, SetupFacts DEF HostKeyChanged, Setup
  <2>. QED
    BY <1>5, <2>1, RefuseKeeps DEF HostKeyChanged, Causes
<1>7. ASSUME NEW c \in {"timeout", "network", "none"}, CheckFails(s, c)
      PROVE  IInv'
  BY <1>7, RefuseKeeps DEF CheckFails, Running, Causes, Faults
<1>8. ASSUME SaveHostKey(s)
      PROVE  IInv'
  <2>0. /\ Running(s) /\ Route[s][hop[s]] \in Hosts /\ key[s] \in Keys
        /\ request[s] \in DOMAIN asked
        /\ request[s] \in approved
        /\ pc[s] = "save"
    BY <1>8, SetupFacts DEF SaveHostKey, Setup, IInv, SessionInv, OwnPrompt
  <2>1. CASE Refuse(s, "none") /\ asked' = asked /\ knownHosts' = knownHosts
    BY <2>0, <2>1, RefuseKeeps DEF Causes
  <2>2. CASE /\ knownHosts' = knownHosts \cup {<<Host(s), key[s]>>}
             /\ Accept(s, request[s])
             /\ queue' = queue
    <3>1. request[s] \in Nat /\ request[s] # 0
      BY <2>0 DEF IInv, TypeOK
    <3>2. /\ knownHosts \subseteq knownHosts'
          /\ knownHosts' \subseteq Hosts \X Keys
      BY <2>0, <2>2 DEF IInv, TypeOK, Host
    <3>. QED
      BY <2>0, <2>2, <3>1, <3>2, AcceptKeeps
  <2>. QED
    BY <1>8, <2>1, <2>2 DEF SaveHostKey
<1>9. ASSUME NEW c \in {"timeout", "network", "none"}, SaveFails(s, c)
      PROVE  IInv'
  BY <1>9, RefuseKeeps DEF SaveFails, Running, Causes, Faults
<1>6. ASSUME HostKeyUnknown(s)
      PROVE  IInv'
  <2>. DEFINE shown == [session |-> s, hop |-> hop[s], key |-> key[s],
                        status |-> "unknown"]
  <2>1. /\ Running(s) /\ hop[s] \in 1 .. Len(Route[s]) /\ hop[s] \in Hops
        /\ key[s] \in Keys /\ pc[s] = "check"
        /\ Len(accepted[s]) = hop[s] - 1
    BY <1>6, SetupFacts DEF HostKeyUnknown, Setup
  <2>2. asked' = Append(asked, shown) /\ asked \in Seq(HostKeyPrompt)
        /\ shown \in HostKeyPrompt
    BY <1>6, <2>1 DEF HostKeyUnknown, Prompt, HostKeyPrompt, IInv, TypeOK
  <2>3. /\ asked' \in Seq(HostKeyPrompt)
        /\ Len(asked) \in Nat
        /\ \A i \in DOMAIN asked : asked'[i] = asked[i]
        /\ DOMAIN asked' = DOMAIN asked \cup {Len(asked) + 1}
        /\ asked'[Len(asked) + 1] = shown
    BY <2>2, AppendKeeps
  <2>4. Grows
    BY <1>6, <2>3 DEF Grows, HostKeyUnknown
  <2>5. TypeOK'
    <3>1. /\ pc' \in [Sessions -> Phases]
          /\ registry' = {t \in Sessions : pc'[t] \notin {"idle", "gone"}}
      BY <1>6, <2>1 DEF IInv, TypeOK, HostKeyUnknown, Goto, Phases, Setup, Running
    <3>2. request' \in [Sessions -> Nat]
      BY <1>6, <2>3 DEF IInv, TypeOK, HostKeyUnknown
    <3>3. approved' \subseteq DOMAIN asked'
      BY <1>6, <2>3 DEF IInv, TypeOK, HostKeyUnknown
    <3>. QED
      BY <1>6, <2>3, <3>1, <3>2, <3>3 DEF IInv, TypeOK, HostKeyUnknown, linkVars
  <2>6. SessionInv(s)'
    <3>1. /\ pc'[s] = "ask"
          /\ request'[s] = Len(asked) + 1
          /\ hop' = hop /\ key' = key /\ accepted' = accepted
          /\ queue' = queue /\ approved' = approved /\ knownHosts' = knownHosts
      BY <1>6 DEF IInv, TypeOK, HostKeyUnknown, Goto
    <3>2. Progress(s)' /\ OwnPrompt(s)' /\ GenuineAnswers(s)'
      BY <2>1, <2>3, <3>1 DEF IInv, SessionInv, Progress, OwnPrompt,
         GenuineAnswers, Outside, Inside, Setup
    <3>3. ASSUME NEW h \in DOMAIN accepted'[s]
          PROVE  TrustedHop(s, h)'
      BY <2>3, <3>1, <3>3 DEF IInv, TypeOK, SessionInv, TrustedHop
    <3>. QED
      BY <3>2, <3>3 DEF SessionInv
  <2>7. \A t \in Sessions \ {s} : Untouched(t)
    BY <1>6 DEF IInv, TypeOK, Untouched, HostKeyUnknown, Goto
  <2>. QED
    BY <2>4, <2>5, <2>6, <2>7, StepKeeps
<1>. QED
  BY <1>1, <1>2, <1>3, <1>4, <1>5, <1>6, <1>7, <1>8, <1>9 DEF HandshakeStep

LEMMA SetupTimeoutKeeps ==
  ASSUME IInv, NEW s \in Sessions, SetupTimeout(s)
  PROVE  IInv'
<1>1. /\ Running(s) /\ hop[s] \in 0 .. MaxHops
      /\ Route[s][hop[s]] \in Hosts
      /\ pc[s] = "save" => key[s] \in Keys
  BY SetupFacts DEF SetupTimeout
<1>2. /\ refused' \subseteq Sessions
      /\ asked' = asked
      /\ knownHosts \subseteq knownHosts'
      /\ knownHosts' \subseteq Hosts \X Keys
  BY <1>1 DEF SetupTimeout, IInv, TypeOK, Host
<1>. QED
  BY <1>1, <1>2, FailKeeps DEF SetupTimeout, Causes, Faults

\* A step that moves the task on without learning or forgetting anything: its
\* messages are at most fewer.
LEMMA QuietKeeps ==
  ASSUME IInv, NEW s \in Sessions, TypeOK', SameFacts, Progress(s)',
         OwnPrompt(s)', accepted' = accepted,
         \/ queue' = queue
         \/ \E ch \in Channels : queue[ch][s] # <<>> /\ Receive(s, ch),
         \A t \in Sessions \ {s} : /\ pc'[t] = pc[t]
                                   /\ hop'[t] = hop[t]
                                   /\ key'[t] = key[t]
                                   /\ request'[t] = request[t]
  PROVE  IInv'
<1>1. /\ \A t \in Sessions \ {s} : queue'["host"][t] = queue["host"][t]
      /\ \A i \in DOMAIN queue'["host"][s] :
           \E j \in DOMAIN queue["host"][s] :
             queue'["host"][s][i] = queue["host"][s][j]
  BY ReceiveKeeps DEF IInv
<1>2. GenuineAnswers(s)'
  BY <1>1 DEF IInv, SessionInv, GenuineAnswers, SameFacts
<1>3. \A h \in DOMAIN accepted'[s] : TrustedHop(s, h)'
  BY DEF IInv, SessionInv, TrustedHop, SameFacts
<1>4. SessionInv(s)'
  BY <1>2, <1>3 DEF SessionInv
<1>5. /\ Grows
      /\ \A t \in Sessions \ {s} : Untouched(t)
  BY <1>1, SameFactsGrow DEF IInv, Untouched
<1>. QED
  BY <1>4, <1>5, StepKeeps

LEMMA TakeHostAnswerKeeps ==
  ASSUME IInv, NEW s \in Sessions, TakeHostAnswer(s)
  PROVE  IInv'
<1>. DEFINE m == Head(queue["host"][s])
<1>1. /\ Running(s) /\ hop[s] \in 1 .. Len(Route[s]) /\ key[s] \in Keys
      /\ pc[s] = "ask"
      /\ queue["host"][s] # <<>>
      /\ Len(accepted[s]) = hop[s] - 1
      /\ request[s] \in DOMAIN asked
      /\ asked[request[s]] = [session |-> s, hop |-> hop[s], key |-> key[s],
                              status |-> "unknown"]
  BY SetupFacts DEF TakeHostAnswer, Setup, IInv, SessionInv, OwnPrompt
<1>2. request[s] \in Nat /\ request[s] # 0
  BY <1>1 DEF IInv, TypeOK
<1>3. /\ m = queue["host"][s][1]
      /\ 1 \in DOMAIN queue["host"][s]
  BY <1>1 DEF IInv, TypeOK, Channels
<1>4. m.body # "reject" => m.request \in approved
  BY <1>3 DEF IInv, SessionInv, GenuineAnswers
<1>5. Answers(m, request[s]) /\ m.body # "reject" => request[s] \in approved
  <2>1. 0 \notin approved
    BY DEF IInv, TypeOK
  <2>. QED
    BY <2>1, <1>4 DEF Answers
<1>6. CASE /\ Receive(s, "host")
           /\ UNCHANGED <<registry, pc, hop, key, request, accepted, end,
                          closing, uiVars, refused, knownHosts, linkVars>>
  <2>1. TypeOK'
    BY <1>6, <1>1, ReceiveKeeps DEF IInv, TypeOK, uiVars, linkVars, Channels
  <2>2. Progress(s)' /\ OwnPrompt(s)' /\ SameFacts
    BY <1>6 DEF IInv, SessionInv, Progress, OwnPrompt, SameFacts, uiVars
  <2>. QED
    BY <1>6, <1>1, <2>1, <2>2, QuietKeeps DEF Channels
<1>7. CASE Refuse(s, "none") /\ UNCHANGED <<asked, knownHosts>>
  BY <1>7, <1>1, RefuseKeeps DEF Causes
<1>8. CASE /\ Answers(m, request[s]) /\ m.body = "trust_once"
           /\ Receive(s, "host")
           /\ Accept(s, request[s])
           /\ knownHosts' = knownHosts
  <2>1. knownHosts' \subseteq Hosts \X Keys
    BY <1>8 DEF IInv, TypeOK
  <2>. QED
    BY <1>8, <1>1, <1>2, <1>5, <2>1, AcceptKeeps
<1>9. CASE /\ Answers(m, request[s]) /\ m.body = "trust_and_save"
           /\ Receive(s, "host")
           /\ Goto(s, "save")
           /\ UNCHANGED <<registry, hop, key, request, accepted, end, closing,
                          uiVars, refused, knownHosts, linkVars>>
  <2>1. pc' = [pc EXCEPT ![s] = "save"] /\ pc \in [Sessions -> Phases]
    BY <1>9 DEF Goto, IInv, TypeOK
  <2>2. /\ pc' \in [Sessions -> Phases]
        /\ registry' = {t \in Sessions : pc'[t] \notin {"idle", "gone"}}
    BY <1>9, <1>1, <2>1 DEF IInv, TypeOK, Phases, Setup, Running
  <2>3. TypeOK'
    BY <1>9, <1>1, <2>2, ReceiveKeeps
    DEF IInv, TypeOK, uiVars, linkVars, Channels
  <2>4. Progress(s)'
    BY <1>9, <1>1, <2>1 DEF Progress, Outside, Inside, Setup
  <2>5. OwnPrompt(s)'
    BY <1>9, <1>1, <1>5, <2>1 DEF OwnPrompt, uiVars
  <2>6. SameFacts
    BY <1>9 DEF SameFacts, uiVars
  <2>. QED
    BY <1>9, <1>1, <2>1, <2>3, <2>4, <2>5, <2>6, QuietKeeps DEF Channels
<1>. QED
  BY <1>6, <1>7, <1>8, <1>9 DEF TakeHostAnswer

\* A task that moves on within its life stays registered.
LEMMA GotoTypes ==
  ASSUME TypeOK, NEW s \in Sessions, pc[s] \notin {"idle", "gone"},
         NEW p \in Phases \ {"idle", "gone"}, Goto(s, p), registry' = registry
  PROVE  /\ pc' \in [Sessions -> Phases]
         /\ registry' = {t \in Sessions : pc'[t] \notin {"idle", "gone"}}
         /\ pc'[s] = p
         /\ \A t \in Sessions \ {s} : pc'[t] = pc[t]
  BY DEF TypeOK, Goto

LEMMA AuthKeeps ==
  ASSUME IInv, NEW s \in Sessions, AuthStep(s)
  PROVE  IInv'
<1>1. /\ pc[s] = "auth" /\ Running(s)
      /\ hop[s] \in 1 .. Len(Route[s])
      /\ hop[s] \in 0 .. MaxHops
      /\ Len(accepted[s]) = hop[s]
  <2>1. pc[s] = "auth" /\ Running(s)
    BY DEF AuthStep, AskAuth, AuthSucceeds, AuthRefused, AuthBreaks, Running
  <2>. QED
    BY <2>1 DEF IInv, TypeOK, SessionInv, Progress, Inside
<1>2. ASSUME AskAuth(s)
      PROVE  IInv'
  <2>1. /\ authAsked' \in Seq(Sessions)
        /\ Len(authAsked) + 1 \in Nat
    BY <1>2, AppendKeeps DEF AskAuth, IInv, TypeOK
  <2>2. /\ pc' \in [Sessions -> Phases]
        /\ registry' = {t \in Sessions : pc'[t] \notin {"idle", "gone"}}
        /\ pc'[s] = "askAuth"
        /\ \A t \in Sessions \ {s} : pc'[t] = pc[t]
    BY <1>1, <1>2, GotoTypes DEF AskAuth, IInv, Phases
  <2>3. TypeOK'
    BY <1>2, <2>1, <2>2 DEF AskAuth, IInv, TypeOK, linkVars
  <2>4. Progress(s)' /\ OwnPrompt(s)' /\ SameFacts
    BY <1>1, <1>2, <2>2
    DEF AskAuth, Progress, OwnPrompt, SameFacts, Outside, Inside, Setup
  <2>. QED
    BY <1>2, <2>2, <2>3, <2>4, QuietKeeps DEF AskAuth, IInv, TypeOK
<1>3. ASSUME AuthSucceeds(s)
      PROVE  IInv'
  <2>. DEFINE p == IF hop[s] < Len(Route[s]) THEN "tunnel" ELSE "open"
  <2>2. /\ pc' \in [Sessions -> Phases]
        /\ registry' = {t \in Sessions : pc'[t] \notin {"idle", "gone"}}
        /\ pc'[s] = p
        /\ \A t \in Sessions \ {s} : pc'[t] = pc[t]
    BY <1>1, <1>3, GotoTypes DEF AuthSucceeds, IInv, Phases
  <2>3. TypeOK'
    BY <1>3, <2>2 DEF AuthSucceeds, IInv, TypeOK, uiVars, linkVars
  <2>4. Progress(s)' /\ OwnPrompt(s)' /\ SameFacts
    BY <1>1, <1>3, <2>2 DEF AuthSucceeds, Progress, OwnPrompt, SameFacts,
       Outside, Inside, Setup, uiVars
  <2>. QED
    BY <1>3, <2>2, <2>3, <2>4, QuietKeeps DEF AuthSucceeds, IInv, TypeOK
<1>4. ASSUME AuthRefused(s)
      PROVE  IInv'
  BY <1>1, <1>4, RefuseKeeps DEF AuthRefused, Causes
<1>5. ASSUME NEW c \in {"timeout", "network", "none"}, AuthBreaks(s, c)
      PROVE  IInv'
  BY <1>1, <1>5, BreakKeeps DEF AuthBreaks, Causes, Faults
<1>. QED
  BY <1>2, <1>3, <1>4, <1>5 DEF AuthStep

LEMMA TakeAuthAnswerKeeps ==
  ASSUME IInv, NEW s \in Sessions, TakeAuthAnswer(s)
  PROVE  IInv'
<1>1. /\ pc[s] = "askAuth" /\ Running(s)
      /\ queue["auth"][s] # <<>>
      /\ hop[s] \in 1 .. Len(Route[s])
      /\ Len(accepted[s]) = hop[s]
  BY DEF TakeAuthAnswer, Running, IInv, TypeOK, SessionInv, Progress, Inside
<1>2. CASE /\ Receive(s, "auth")
           /\ UNCHANGED <<registry, pc, hop, key, request, accepted, end,
                          closing, uiVars, refused, knownHosts, linkVars>>
  <2>1. TypeOK'
    BY <1>2, <1>1, ReceiveKeeps DEF IInv, TypeOK, uiVars, linkVars, Channels
  <2>2. Progress(s)' /\ OwnPrompt(s)' /\ SameFacts
    BY <1>2 DEF IInv, SessionInv, Progress, OwnPrompt, SameFacts, uiVars
  <2>. QED
    BY <1>2, <1>1, <2>1, <2>2, QuietKeeps DEF Channels
<1>3. CASE Refuse(s, "none") /\ UNCHANGED <<asked, knownHosts>>
  BY <1>3, <1>1, RefuseKeeps DEF Causes
<1>4. CASE /\ Receive(s, "auth")
           /\ Goto(s, "auth")
           /\ request' = [request EXCEPT ![s] = 0]
           /\ UNCHANGED <<registry, hop, key, accepted, end, closing, uiVars,
                          refused, knownHosts, linkVars>>
  <2>2. /\ pc' \in [Sessions -> Phases]
        /\ registry' = {t \in Sessions : pc'[t] \notin {"idle", "gone"}}
        /\ pc'[s] = "auth"
        /\ \A t \in Sessions \ {s} : pc'[t] = pc[t]
    BY <1>1, <1>4, GotoTypes DEF IInv, Phases
  <2>3. request' \in [Sessions -> Nat]
    BY <1>4 DEF IInv, TypeOK
  <2>4. TypeOK'
    BY <1>1, <1>4, <2>2, <2>3, ReceiveKeeps
    DEF IInv, TypeOK, uiVars, linkVars, Channels
  <2>5. Progress(s)' /\ OwnPrompt(s)' /\ SameFacts
    BY <1>1, <1>4, <2>2
    DEF Progress, OwnPrompt, SameFacts, Outside, Inside, Setup, uiVars
  <2>. QED
    BY <1>1, <1>4, <2>2, <2>4, <2>5, QuietKeeps DEF IInv, TypeOK, Channels
<1>. QED
  BY <1>2, <1>3, <1>4 DEF TakeAuthAnswer

LEMMA RouteKeeps ==
  ASSUME IInv, NEW s \in Sessions, RouteStep(s)
  PROVE  IInv'
<1>0. /\ Len(Route[s]) \in 1 .. MaxHops
      /\ MaxHops \in Nat
  BY SessionAssumption DEF Hops
<1>1. ASSUME Prepare(s)
      PROVE  IInv'
  <2>1. /\ pc' \in [Sessions -> Phases]
        /\ registry' = {t \in Sessions : pc'[t] \notin {"idle", "gone"}}
        /\ pc'[s] = "connect"
        /\ \A t \in Sessions \ {s} : pc'[t] = pc[t]
    BY <1>1, GotoTypes DEF Prepare, IInv, Phases, Setup
  <2>5. hop' \in [Sessions -> 0 .. MaxHops]
    BY <1>0, <1>1 DEF Prepare, IInv, TypeOK
  <2>2. TypeOK'
    BY <1>1, <2>1, <2>5 DEF Prepare, IInv, TypeOK, uiVars, linkVars
  <2>3. hop'[s] = 1 /\ accepted'[s] = <<>>
    BY <1>1 DEF Prepare, IInv, TypeOK, SessionInv, Progress, Outside
  <2>4. Progress(s)' /\ OwnPrompt(s)' /\ SameFacts
    BY <1>0, <1>1, <2>1, <2>3 DEF Prepare, Progress, OwnPrompt, SameFacts,
       Outside, Inside, Setup, uiVars
  <2>. QED
    BY <1>1, <2>1, <2>2, <2>4, QuietKeeps DEF Prepare, IInv, TypeOK
<1>2. ASSUME PrepareFails(s)
      PROVE  IInv'
  BY <1>2, RefuseKeeps DEF PrepareFails, Running, Causes
<1>3. ASSUME OpenTunnel(s)
      PROVE  IInv'
  <2>1. /\ hop[s] \in 1 .. Len(Route[s])
        /\ hop[s] < Len(Route[s])
        /\ Len(accepted[s]) = hop[s]
    BY <1>3 DEF OpenTunnel, IInv, SessionInv, Progress, Inside
  <2>2. /\ pc' \in [Sessions -> Phases]
        /\ registry' = {t \in Sessions : pc'[t] \notin {"idle", "gone"}}
        /\ pc'[s] = "connect"
        /\ \A t \in Sessions \ {s} : pc'[t] = pc[t]
    BY <1>3, GotoTypes DEF OpenTunnel, IInv, Phases, Setup
  <2>3. hop' \in [Sessions -> 0 .. MaxHops] /\ hop'[s] = hop[s] + 1
    BY <1>0, <1>3, <2>1 DEF OpenTunnel, IInv, TypeOK
  <2>4. TypeOK'
    BY <1>3, <2>2, <2>3 DEF OpenTunnel, IInv, TypeOK, uiVars, linkVars
  <2>5. Progress(s)' /\ OwnPrompt(s)' /\ SameFacts
    BY <1>0, <1>3, <2>1, <2>2, <2>3 DEF OpenTunnel, Progress, OwnPrompt,
       SameFacts, Outside, Inside, Setup, uiVars
  <2>. QED
    BY <1>3, <2>2, <2>4, <2>5, QuietKeeps DEF OpenTunnel, IInv, TypeOK
<1>4. ASSUME NEW c \in {"timeout", "network"}, TunnelFails(s, c)
      PROVE  IInv'
  <2>1. /\ hop[s] \in 1 .. Len(Route[s]) /\ hop[s] < Len(Route[s])
        /\ Running(s)
    BY <1>4 DEF TunnelFails, IInv, SessionInv, Progress, Inside, Running
  <2>2. hop[s] + 1 \in 0 .. MaxHops
    BY <1>0, <2>1
  <2>. QED
    BY <1>4, <2>1, <2>2, BreakKeeps DEF TunnelFails, Causes, Faults
<1>5. ASSUME OpenShell(s)
      PROVE  IInv'
  <2>1. /\ pc' \in [Sessions -> Phases]
        /\ registry' = {t \in Sessions : pc'[t] \notin {"idle", "gone"}}
        /\ pc'[s] = "loop"
        /\ \A t \in Sessions \ {s} : pc'[t] = pc[t]
    BY <1>5, GotoTypes DEF OpenShell, IInv, Phases
  <2>2. TypeOK'
    BY <1>5, <2>1 DEF OpenShell, IInv, TypeOK, uiVars, linkVars
  <2>3. Progress(s)' /\ OwnPrompt(s)' /\ SameFacts
    BY <1>5, <2>1 DEF OpenShell, IInv, SessionInv, Progress, OwnPrompt,
       SameFacts, Outside, Inside, Setup, uiVars
  <2>. QED
    BY <1>5, <2>1, <2>2, <2>3, QuietKeeps DEF OpenShell
<1>6. ASSUME NEW c \in {"timeout", "network", "none"}, OpenFails(s, c)
      PROVE  IInv'
  BY <1>0, <1>6, BreakKeeps DEF OpenFails, Running, Causes, Faults
<1>. QED
  BY <1>1, <1>2, <1>3, <1>4, <1>5, <1>6 DEF RouteStep

LEMMA ShellKeeps ==
  ASSUME IInv, NEW s \in Sessions, ShellStep(s) \/ WriteDone(s)
  PROVE  IInv'
<1>0. Len(Route[s]) \in 0 .. MaxHops
  BY SessionAssumption DEF Hops
<1>1. ASSUME TakeInput(s)
      PROVE  IInv'
  <2>1. /\ pc' \in [Sessions -> Phases]
        /\ registry' = {t \in Sessions : pc'[t] \notin {"idle", "gone"}}
        /\ pc'[s] = "writing"
        /\ \A t \in Sessions \ {s} : pc'[t] = pc[t]
    BY <1>1, GotoTypes DEF TakeInput, IInv, Phases
  <2>2. TypeOK'
    BY <1>1, <2>1, ReceiveKeeps
    DEF TakeInput, IInv, TypeOK, uiVars, linkVars, Channels
  <2>3. Progress(s)' /\ OwnPrompt(s)' /\ SameFacts
    BY <1>1, <2>1 DEF TakeInput, IInv, SessionInv, Progress, OwnPrompt,
       SameFacts, Outside, Inside, Setup, uiVars
  <2>. QED
    BY <1>1, <2>1, <2>2, <2>3, QuietKeeps DEF TakeInput, Channels
<1>2. ASSUME TakeClose(s)
      PROVE  IInv'
  <2>1. End("local", "none", 0) \in SessionEnd
    BY NoHop, EndTypes DEF Reasons, Causes
  <2>. QED
    BY <1>2, <2>1, FinishKeeps DEF TakeClose, Running, IInv, TypeOK
<1>3. ASSUME ShellExits(s)
      PROVE  IInv'
  <2>1. End("remote", "shell_exit", Len(Route[s])) \in SessionEnd
    BY <1>0, EndTypes DEF Reasons, Causes
  <2>. QED
    BY <1>3, <2>1, FinishKeeps DEF ShellExits, Running, IInv, TypeOK
<1>4. ASSUME ChannelLost(s) \/ WriteDone(s)
      PROVE  IInv'
  <2>. DEFINE p == IF ChannelLost(s) THEN "lost" ELSE "loop"
  <2>1. /\ pc[s] \in {"loop", "writing"}
        /\ Goto(s, p)
        /\ p \in {"loop", "lost"}
        /\ UNCHANGED <<registry, hop, key, request, accepted, end, queue,
                       closing, uiVars, refused, knownHosts, linkVars>>
    BY <1>4 DEF ChannelLost, WriteDone
  <2>. HIDE DEF p
  <2>2. /\ pc' \in [Sessions -> Phases]
        /\ registry' = {t \in Sessions : pc'[t] \notin {"idle", "gone"}}
        /\ pc'[s] = p
        /\ \A t \in Sessions \ {s} : pc'[t] = pc[t]
    BY <2>1, GotoTypes DEF IInv, Phases
  <2>3. TypeOK'
    BY <2>1, <2>2 DEF IInv, TypeOK, uiVars, linkVars
  <2>4. Progress(s)' /\ OwnPrompt(s)' /\ SameFacts
    BY <2>1, <2>2 DEF IInv, SessionInv, Progress, OwnPrompt, SameFacts,
       Outside, Inside, Setup, uiVars
  <2>. QED
    BY <2>1, <2>2, <2>3, <2>4, QuietKeeps
<1>. QED
  BY <1>1, <1>2, <1>3, <1>4 DEF ShellStep

LEMMA EndKeeps ==
  ASSUME IInv, NEW s \in Sessions, EndStep(s)
  PROVE  IInv'
<1>1. ASSUME ResolveLoss(s)
      PROVE  IInv'
  <2>1. /\ record[s] \in 0 .. MaxHops
        /\ record[s] # 0 => why[s][record[s]] \in Causes
    BY SessionAssumption DEF IInv, TypeOK, Hops, Causes
  <2>2. LossEnd(s) \in SessionEnd
    <3>1. CASE record[s] = 0
      BY <2>1, <3>1, EndTypes DEF LossEnd, Reasons, Causes, Faults
    <3>2. CASE record[s] # 0 /\ why[s][record[s]] = "server_disconnect"
      BY <2>1, <3>2, EndTypes DEF LossEnd, Reasons
    <3>3. CASE record[s] # 0 /\ why[s][record[s]] # "server_disconnect"
      BY <2>1, <3>3, EndTypes DEF LossEnd, Reasons
    <3>. QED
      BY <3>1, <3>2, <3>3
  <2>. QED
    BY <1>1, <2>2, FinishKeeps DEF ResolveLoss, Running, IInv, TypeOK
<1>2. ASSUME EmitClosed(s)
      PROVE  IInv'
  <2>1. /\ pc' \in [Sessions -> Phases]
        /\ registry' = {t \in Sessions : pc'[t] \notin {"idle", "gone"}}
        /\ pc'[s] = "closed"
        /\ \A t \in Sessions \ {s} : pc'[t] = pc[t]
    BY <1>2, GotoTypes DEF EmitClosed, IInv, Phases
  <2>2. NotEnded \in SessionEnd
    BY NoHop, EndTypes DEF NotEnded, Reasons, Causes
  <2>3. TypeOK'
    BY <1>2, <2>1, <2>2 DEF EmitClosed, IInv, TypeOK, uiVars, linkVars
  <2>4. Progress(s)' /\ OwnPrompt(s)' /\ SameFacts
    BY <1>2, <2>1 DEF EmitClosed, IInv, SessionInv, Progress, OwnPrompt,
       SameFacts, Outside, Inside, Setup, uiVars
  <2>. QED
    BY <1>2, <2>1, <2>3, <2>4, QuietKeeps DEF EmitClosed
<1>3. ASSUME Unregister(s)
      PROVE  IInv'
  <2>1. /\ pc' \in [Sessions -> Phases]
        /\ pc'[s] = "gone"
        /\ \A t \in Sessions \ {s} : pc'[t] = pc[t]
        /\ registry' = registry \ {s}
    BY <1>3 DEF Unregister, Goto, IInv, TypeOK, Phases
  <2>2. registry' = {t \in Sessions : pc'[t] \notin {"idle", "gone"}}
    BY <2>1 DEF IInv, TypeOK
  <2>3. TypeOK'
    BY <1>3, <2>1, <2>2 DEF Unregister, IInv, TypeOK, uiVars, linkVars
  <2>4. Progress(s)' /\ OwnPrompt(s)' /\ SameFacts
    BY <1>3, <2>1 DEF Unregister, IInv, SessionInv, Progress, OwnPrompt,
       SameFacts, Outside, Inside, Setup, uiVars
  <2>. QED
    BY <1>3, <2>1, <2>3, <2>4, QuietKeeps DEF Unregister
<1>. QED
  BY <1>1, <1>2, <1>3 DEF EndStep

LEMMA LinkKeeps ==
  ASSUME IInv, NEW s \in Sessions, LinkStep(s)
  PROVE  IInv'
<1>1. PICK h \in Hops : \/ \E c \in Faults : LinkFails(s, h, c)
                        \/ ReportDisconnect(s, h)
                        \/ TunnelDrops(s, h)
  BY DEF LinkStep
<1>2. UNCHANGED linkOnly
  BY <1>1 DEF LinkFails, ReportDisconnect, TunnelDrops
<1>3. /\ link' \in [Sessions -> [Hops -> {"none", "up", "dying", "dead"}]]
      /\ why' \in [Sessions -> [Hops -> Faults \cup {"none"}]]
      /\ record' \in [Sessions -> 0 .. MaxHops]
      /\ root' \in [Sessions -> SUBSET Hops]
  <2>1. CASE \E c \in Faults : LinkFails(s, h, c)
    BY <2>1 DEF LinkFails, IInv, TypeOK
  <2>2. CASE ReportDisconnect(s, h)
    BY <2>2, SessionAssumption DEF ReportDisconnect, IInv, TypeOK, Hops
  <2>3. CASE TunnelDrops(s, h)
    BY <2>3 DEF TunnelDrops, IInv, TypeOK, Faults
  <2>. QED
    BY <1>1, <2>1, <2>2, <2>3
<1>4. TypeOK'
  BY <1>2, <1>3 DEF linkOnly, uiVars, IInv, TypeOK
<1>5. Progress(s)' /\ OwnPrompt(s)' /\ SameFacts
  BY <1>2 DEF linkOnly, uiVars, IInv, SessionInv, Progress, OwnPrompt, SameFacts
<1>. QED
  BY <1>2, <1>4, <1>5, QuietKeeps DEF linkOnly

LEMMA UiKeeps ==
  ASSUME IInv, NEW s \in Sessions, UiStep(s)
  PROVE  IInv'
<1>1. ASSUME Connect(s)
      PROVE  IInv'
  <2>1. /\ pc' \in [Sessions -> Phases]
        /\ pc'[s] = "prepare"
        /\ \A t \in Sessions \ {s} : pc'[t] = pc[t]
        /\ registry' = registry \cup {s}
    BY <1>1 DEF Connect, Goto, IInv, TypeOK, Phases
  <2>2. registry' = {t \in Sessions : pc'[t] \notin {"idle", "gone"}}
    BY <2>1 DEF IInv, TypeOK
  <2>3. TypeOK'
    BY <1>1, <2>1, <2>2 DEF Connect, IInv, TypeOK, uiVars, linkVars
  <2>4. Progress(s)' /\ OwnPrompt(s)' /\ SameFacts
    BY <1>1, <2>1 DEF Connect, IInv, SessionInv, Progress, OwnPrompt,
       SameFacts, Outside, Inside, Setup, uiVars
  <2>. QED
    BY <1>1, <2>1, <2>3, <2>4, QuietKeeps DEF Connect
<1>2. ASSUME RequestClose(s)
      PROVE  IInv'
  <2>1. TypeOK'
    BY <1>2 DEF RequestClose, uiOnly, uiVars, linkVars, IInv, TypeOK
  <2>2. Progress(s)' /\ OwnPrompt(s)' /\ SameFacts
    BY <1>2 DEF RequestClose, uiOnly, uiVars, IInv, SessionInv, Progress,
       OwnPrompt, SameFacts
  <2>. QED
    BY <1>2, <2>1, <2>2, QuietKeeps DEF RequestClose, uiOnly
<1>3. ASSUME NEW r \in DOMAIN asked,
             NEW d \in {"reject", "trust_once", "trust_and_save"},
             AnswerHostKey(s, r, d)
      PROVE  IInv'
  <2>1. Msg(r, d) \in Message /\ r \in Nat
    BY DEF Msg, Message, IInv, TypeOK
  <2>2. /\ queue' \in [Channels -> [Sessions -> Seq(Message)]]
        /\ \A t \in Sessions \ {s} : queue'["host"][t] = queue["host"][t]
        /\ \A i \in DOMAIN queue'["host"][s] :
             \/ queue'["host"][s][i] = Msg(r, d)
             \/ /\ i \in DOMAIN queue["host"][s]
                /\ queue'["host"][s][i] = queue["host"][s][i]
    BY <1>3, <2>1, SendKeeps DEF AnswerHostKey, IInv, Channels
  <2>3. /\ approved \subseteq approved'
        /\ approved' \subseteq DOMAIN asked
        /\ d # "reject" => r \in approved'
        /\ UNCHANGED <<uiOnly, closing, asked, authAsked>>
    BY <1>3 DEF AnswerHostKey, IInv, TypeOK
  <2>4. TypeOK'
    BY <2>2, <2>3 DEF uiOnly, linkVars, IInv, TypeOK
  <2>5. Grows /\ \A t \in Sessions \ {s} : Untouched(t)
    BY <2>2, <2>3 DEF uiOnly, Grows, Untouched
  <2>6. GenuineAnswers(s)'
    BY <2>2, <2>3 DEF GenuineAnswers, IInv, SessionInv, Msg
  <2>7. Progress(s)' /\ OwnPrompt(s)'
    BY <2>3 DEF uiOnly, IInv, SessionInv, Progress, OwnPrompt
  <2>8. \A h \in DOMAIN accepted'[s] : TrustedHop(s, h)'
    BY <2>3 DEF uiOnly, IInv, SessionInv, TrustedHop
  <2>. QED
    BY <2>4, <2>5, <2>6, <2>7, <2>8, StepKeeps DEF SessionInv
<1>4. ASSUME NEW ch \in {"auth", "command"}, NEW m \in Message,
             Send(s, ch, m), UNCHANGED <<uiOnly, closing, uiVars>>
      PROVE  IInv'
  <2>1. /\ queue' \in [Channels -> [Sessions -> Seq(Message)]]
        /\ queue'["host"][s] = queue["host"][s]
        /\ \A t \in Sessions \ {s} : queue'["host"][t] = queue["host"][t]
    BY <1>4, SendKeeps DEF Send, IInv, TypeOK, Channels
  <2>2. TypeOK'
    BY <1>4, <2>1 DEF uiOnly, uiVars, linkVars, IInv, TypeOK
  <2>3. SessionInv(s)'
    BY <1>4, <2>1 DEF uiOnly, uiVars, IInv, SessionInv, Progress, OwnPrompt,
       GenuineAnswers, TrustedHop
  <2>4. Grows /\ \A t \in Sessions \ {s} : Untouched(t)
    BY <1>4, <2>1 DEF uiOnly, uiVars, Grows, Untouched
  <2>. QED
    BY <2>2, <2>3, <2>4, StepKeeps
<1>5. ASSUME NEW r \in DOMAIN authAsked, NEW b \in {"responses", "cancelled"},
             AnswerAuth(s, r, b)
      PROVE  IInv'
  <2>1. Msg(r, b) \in Message
    BY SMTT(30) DEF Msg, Message, IInv, TypeOK
  <2>2. Send(s, "auth", Msg(r, b)) /\ UNCHANGED <<uiOnly, closing, uiVars>>
    BY <1>5 DEF AnswerAuth
  <2>. QED
    BY <1>4, <2>1, <2>2
<1>6. ASSUME SendInput(s)
      PROVE  IInv'
  <2>1. Msg(0, "input") \in Message
    BY DEF Msg, Message
  <2>2. Send(s, "command", Msg(0, "input")) /\ UNCHANGED <<uiOnly, closing, uiVars>>
    BY <1>6 DEF SendInput
  <2>. QED
    BY <1>4, <2>1, <2>2
<1>. QED
  BY <1>1, <1>2, <1>3, <1>5, <1>6 DEF UiStep

LEMMA CloseSendKeeps ==
  ASSUME IInv, NEW s \in Sessions, NEW ch \in Channels, CloseSend(s, ch)
  PROVE  IInv'
<1>1. /\ Shutdown[ch] \in Message
      /\ ch = "host" => Shutdown[ch].body = "reject"
  BY DEF Shutdown, Message, Msg, Channels
<1>2. /\ queue' \in [Channels -> [Sessions -> Seq(Message)]]
      /\ \A t \in Sessions \ {s} : queue'["host"][t] = queue["host"][t]
      /\ \A i \in DOMAIN queue'["host"][s] :
           \/ queue'["host"][s][i].body = "reject"
           \/ /\ i \in DOMAIN queue["host"][s]
              /\ queue'["host"][s][i] = queue["host"][s][i]
  <2>1. CASE Send(s, ch, Shutdown[ch])
    BY <1>1, <2>1, SendKeeps DEF IInv
  <2>2. CASE queue' = queue
    BY <2>2 DEF IInv, TypeOK
  <2>. QED
    BY <2>1, <2>2 DEF CloseSend
<1>3. UNCHANGED <<uiOnly, uiVars>> /\ closing' \in [Sessions -> SUBSET Channels]
  BY DEF CloseSend, IInv, TypeOK
<1>4. TypeOK'
  BY <1>2, <1>3 DEF uiOnly, uiVars, linkVars, IInv, TypeOK
<1>5. GenuineAnswers(s)'
  BY <1>2, <1>3 DEF uiVars, GenuineAnswers, IInv, SessionInv
<1>6. /\ Progress(s)' /\ OwnPrompt(s)'
      /\ \A h \in DOMAIN accepted'[s] : TrustedHop(s, h)'
  BY <1>3 DEF uiOnly, uiVars, IInv, SessionInv, Progress, OwnPrompt, TrustedHop
<1>7. Grows /\ \A t \in Sessions \ {s} : Untouched(t)
  BY <1>2, <1>3 DEF uiOnly, uiVars, Grows, Untouched
<1>. QED
  BY <1>4, <1>5, <1>6, <1>7, StepKeeps DEF SessionInv
----
LEMMA NextKeeps == ASSUME IInv, [Next]_vars PROVE IInv'
<1>1. CASE UNCHANGED vars
  <2>1. TypeOK'
    BY <1>1 DEF vars, uiVars, linkVars, IInv, TypeOK
  <2>2. ASSUME NEW s \in Sessions
        PROVE  SessionInv(s)'
    BY <1>1, <2>2 DEF vars, uiVars, IInv, SessionInv, Progress, OwnPrompt,
       GenuineAnswers, TrustedHop
  <2>. QED
    BY <2>1, <2>2 DEF IInv
<1>2. ASSUME NEW s \in Sessions, AuthPromptTimeout(s)
      PROVE  IInv'
  BY <1>2, RefuseKeeps DEF AuthPromptTimeout, Running, Causes
<1>. QED
  BY <1>1, <1>2, HandshakeKeeps, SetupTimeoutKeeps, TakeHostAnswerKeeps,
     AuthKeeps, TakeAuthAnswerKeeps, RouteKeeps, ShellKeeps, EndKeeps,
     LinkKeeps, UiKeeps, CloseSendKeeps
  DEF Next

\* The inductive invariant: whatever the sessions, hosts, keys and routes.
THEOREM Inductive == Spec => []IInv
<1>. QED
  BY InitIInv, NextKeeps, PTL DEF Spec

\* Every variable keeps its type, and the registry of AppState holds exactly
\* the sessions whose task was spawned and has not left it again.
THEOREM TypeCorrect == Spec => []TypeOK
<1>1. IInv => TypeOK
  BY DEF IInv
<1>. QED
  BY <1>1, Inductive, PTL

\* No stale, repeated or foreign answer ever lets a host in: each hop a session
\* authenticated to was let through by known_hosts, or by the operator's trust
\* in that very prompt, of that session, hop and key.
THEOREM HopsAreTrusted == Spec => []EveryHopTrusted
<1>1. IInv => EveryHopTrusted
  BY DEF IInv, SessionInv, TrustedHop, EveryHopTrusted
<1>. QED
  BY <1>1, Inductive, PTL
----
(* known_hosts. *)

\* Whatever the step, an entry is added only for a host without another key.
LEMMA EntriesAreChecked ==
  ASSUME [Next]_vars
  PROVE  \/ knownHosts' = knownHosts
         \/ \E s \in Sessions : /\ Status(s) # "changed"
                                /\ knownHosts' = knownHosts \cup {<<Host(s), key[s]>>}
<1>1. CASE UNCHANGED vars
  BY <1>1 DEF vars
<1>2. ASSUME NEW s \in Sessions, HandshakeStep(s)
      PROVE  \/ knownHosts' = knownHosts
             \/ /\ Status(s) # "changed"
                /\ knownHosts' = knownHosts \cup {<<Host(s), key[s]>>}
  BY <1>2 DEF HandshakeStep, ServerKeyArrives, CertificateRefused,
     HandshakeBreaks, Break, HostKeyTrusted, HostKeyChanged, HostKeyUnknown,
     CheckFails, SaveHostKey, SaveFails
<1>3. ASSUME NEW s \in Sessions, SetupTimeout(s)
      PROVE  \/ knownHosts' = knownHosts
             \/ /\ Status(s) # "changed"
                /\ knownHosts' = knownHosts \cup {<<Host(s), key[s]>>}
  BY <1>3 DEF SetupTimeout
<1>4. ASSUME NEW s \in Sessions,
             \/ TakeHostAnswer(s) \/ AuthStep(s) \/ TakeAuthAnswer(s)
             \/ AuthPromptTimeout(s) \/ RouteStep(s)
      PROVE  knownHosts' = knownHosts
  BY <1>4 DEF TakeHostAnswer, AuthStep, AskAuth, AuthSucceeds, AuthRefused,
     AuthBreaks, Break, TakeAuthAnswer, AuthPromptTimeout, RouteStep, Prepare,
     PrepareFails, OpenTunnel, TunnelFails, OpenShell, OpenFails
<1>5. ASSUME NEW s \in Sessions,
             \/ ShellStep(s) \/ WriteDone(s) \/ EndStep(s) \/ LinkStep(s)
             \/ UiStep(s) \/ \E ch \in Channels : CloseSend(s, ch)
      PROVE  knownHosts' = knownHosts
  BY <1>5 DEF ShellStep, TakeInput, TakeClose, ShellExits, ChannelLost,
     WriteDone, EndStep, ResolveLoss, EmitClosed, Unregister, LinkStep,
     LinkFails, ReportDisconnect, TunnelDrops, linkOnly, UiStep, Connect,
     RequestClose, AnswerHostKey, AnswerAuth, SendInput, CloseSend, uiOnly
<1>. QED
  BY <1>1, <1>2, <1>3, <1>4, <1>5 DEF Next

\* Concurrent saves keep known_hosts free of two keys for one host, if it was.
THEOREM KnownHostsUnambiguous ==
  ASSUME \A e, f \in KnownAtStart : e[1] = f[1] => e = f
  PROVE  Spec => []OneKeyPerHost
<1>1. Init => OneKeyPerHost
  BY DEF Init, OneKeyPerHost
<1>2. ASSUME IInv, OneKeyPerHost, [Next]_vars
      PROVE  OneKeyPerHost'
  <2>1. CASE knownHosts' = knownHosts
    BY <1>2, <2>1 DEF OneKeyPerHost
  <2>2. ASSUME NEW s \in Sessions, Status(s) # "changed",
               knownHosts' = knownHosts \cup {<<Host(s), key[s]>>}
        PROVE  OneKeyPerHost'
    <3>1. \/ <<Host(s), key[s]>> \in knownHosts
          \/ \A e \in knownHosts : e[1] # Host(s)
      BY <2>2 DEF Status
    <3>. QED
      BY <1>2, <2>2, <3>1 DEF OneKeyPerHost
  <2>. QED
    BY <1>2, <2>1, <2>2, EntriesAreChecked
<1>. QED
  BY <1>1, <1>2, Inductive, PTL DEF Spec
----
(* Which hop a loss is blamed on. *)

\* Only a hop that failed by itself is recorded; before a record exists, no
\* connection is dead and only such hops are dying.
LinkInv(s) ==
  /\ record[s] # 0 => record[s] \in root[s]
  /\ \A h \in Hops : link[s][h] = "dead" => record[s] # 0
  /\ \A h \in Hops : link[s][h] = "dying" /\ record[s] = 0 => h \in root[s]
  /\ pc[s] \in Inside => link[s][hop[s]] # "none"
  /\ pc[s] = "lost" => root[s] # {}

\* What LinkInv(t) reads is left alone.
SameLinks(t) ==
  /\ pc'[t] = pc[t]
  /\ hop'[t] = hop[t]
  /\ link'[t] = link[t]
  /\ record'[t] = record[t]
  /\ root'[t] = root[t]

\* What a step of session s owes.
LinksKept(s) ==
  /\ LinkInv(s)'
  /\ \A t \in Sessions \ {s} : SameLinks(t)

LEMMA FinishLinks ==
  ASSUME IInv, NEW s \in Sessions, NEW e, Finish(s, e)
  PROVE  LinksKept(s)
  BY DEF IInv, TypeOK, Finish, Goto, NoLinks, LinksKept, LinkInv, SameLinks,
         Inside

LEMMA FailLinks ==
  ASSUME IInv, NEW s \in Sessions, NEW c, NEW h,
         Fail(s, c, h) \/ Refuse(s, c) \/ Break(s, c, h)
  PROVE  LinksKept(s)
  BY FinishLinks DEF Fail, Refuse, Break

LEMMA AcceptLinks ==
  ASSUME IInv, NEW s \in Sessions, NEW r, pc[s] \in Setup, LinkInv(s), Accept(s, r)
  PROVE  LinksKept(s)
<1>1. hop[s] \in Hops
  BY SetupFacts
<1>. QED
  BY <1>1 DEF IInv, TypeOK, Accept, Goto, LinksKept, LinkInv, SameLinks, Inside

\* A step that leaves the connections alone and reaches no new hop.
LEMMA QuietLinks ==
  ASSUME IInv, NEW s \in Sessions, LinkInv(s), UNCHANGED linkVars,
         \/ UNCHANGED <<pc, hop>>
         \/ \E p \in Phases \ Inside :
              Goto(s, p) /\ \A t \in Sessions \ {s} : hop'[t] = hop[t]
         \/ \E p \in Inside \ {"lost"} :
              Goto(s, p) /\ pc[s] \in Inside /\ UNCHANGED hop
  PROVE  LinksKept(s)
  BY DEF IInv, TypeOK, Goto, linkVars, LinksKept, LinkInv, SameLinks, Inside

LEMMA HandshakeLinks ==
  ASSUME IInv, NEW s \in Sessions, LinkInv(s),
         HandshakeStep(s) \/ SetupTimeout(s) \/ TakeHostAnswer(s)
  PROVE  LinksKept(s)
<1>1. CASE (\E k \in Keys : ServerKeyArrives(s, k)) \/ HostKeyUnknown(s)
  BY <1>1, QuietLinks DEF ServerKeyArrives, HostKeyUnknown, Phases, Setup,
     Inside
<1>2. CASE \/ CertificateRefused(s) \/ HostKeyChanged(s) \/ SetupTimeout(s)
           \/ \E c \in {"timeout", "network", "none"} :
                HandshakeBreaks(s, c) \/ CheckFails(s, c) \/ SaveFails(s, c)
  BY <1>2, FailLinks DEF CertificateRefused, HostKeyChanged, CheckFails,
     SaveFails, SetupTimeout, HandshakeBreaks
<1>3. CASE HostKeyTrusted(s) \/ SaveHostKey(s)
  BY <1>3, AcceptLinks, FailLinks DEF HostKeyTrusted, SaveHostKey, Setup
<1>4. CASE TakeHostAnswer(s)
  <2>1. CASE Refuse(s, "none")
    BY <2>1, FailLinks
  <2>2. CASE Accept(s, request[s])
    BY <1>4, <2>2, AcceptLinks DEF TakeHostAnswer, Setup
  <2>3. CASE UNCHANGED <<hop, linkVars>> /\ (Goto(s, "save") \/ pc' = pc)
    BY <2>3, QuietLinks DEF Phases, Setup, Inside
  <2>. QED
    BY <1>4, <2>1, <2>2, <2>3 DEF TakeHostAnswer
<1>. QED
  BY <1>1, <1>2, <1>3, <1>4 DEF HandshakeStep

LEMMA AuthLinks ==
  ASSUME IInv, NEW s \in Sessions, LinkInv(s),
         AuthStep(s) \/ TakeAuthAnswer(s) \/ AuthPromptTimeout(s)
  PROVE  LinksKept(s)
<1>1. CASE AskAuth(s) \/ AuthSucceeds(s)
  BY <1>1, QuietLinks DEF AskAuth, AuthSucceeds, Inside
<1>2. CASE \/ AuthRefused(s) \/ AuthPromptTimeout(s)
           \/ \E c \in {"timeout", "network", "none"} : AuthBreaks(s, c)
  BY <1>2, FailLinks DEF AuthRefused, AuthPromptTimeout, AuthBreaks
<1>3. CASE TakeAuthAnswer(s)
  <2>1. CASE Refuse(s, "none")
    BY <2>1, FailLinks
  <2>2. CASE UNCHANGED <<hop, linkVars>> /\ (Goto(s, "auth") \/ pc' = pc)
    BY <1>3, <2>2, QuietLinks DEF TakeAuthAnswer, Inside
  <2>. QED
    BY <1>3, <2>1, <2>2 DEF TakeAuthAnswer
<1>. QED
  BY <1>1, <1>2, <1>3 DEF AuthStep

LEMMA RouteLinks ==
  ASSUME IInv, NEW s \in Sessions, LinkInv(s), RouteStep(s)
  PROVE  LinksKept(s)
<1>1. CASE Prepare(s) \/ OpenTunnel(s)
  <2>1. /\ Goto(s, "connect")
        /\ UNCHANGED linkVars
        /\ \A t \in Sessions \ {s} : hop'[t] = hop[t]
    BY <1>1 DEF Prepare, OpenTunnel, IInv, TypeOK
  <2>. QED
    BY <2>1, QuietLinks DEF Phases, Setup, Inside
<1>2. CASE OpenShell(s)
  BY <1>2, QuietLinks DEF OpenShell, Inside
<1>3. CASE \/ PrepareFails(s)
           \/ \E c \in {"timeout", "network"} : TunnelFails(s, c)
           \/ \E c \in {"timeout", "network", "none"} : OpenFails(s, c)
  BY <1>3, FailLinks DEF PrepareFails, TunnelFails, OpenFails
<1>. QED
  BY <1>1, <1>2, <1>3 DEF RouteStep

LEMMA ShellLinks ==
  ASSUME IInv, NEW s \in Sessions, LinkInv(s),
         ShellStep(s) \/ WriteDone(s) \/ EndStep(s)
  PROVE  LinksKept(s)
<1>1. CASE TakeInput(s) \/ WriteDone(s)
  BY <1>1, QuietLinks DEF TakeInput, WriteDone, Inside
<1>2. CASE TakeClose(s) \/ ShellExits(s) \/ ResolveLoss(s)
  BY <1>2, FinishLinks DEF TakeClose, ShellExits, ResolveLoss
<1>3. CASE EmitClosed(s) \/ Unregister(s)
  BY <1>3, QuietLinks DEF EmitClosed, Unregister, Phases, Inside
<1>4. CASE ChannelLost(s)
  <2>1. /\ pc[s] \in Inside
        /\ hop[s] \in Hops
        /\ link[s][hop[s]] \notin {"none", "up"}
    BY <1>4, SessionAssumption DEF ChannelLost, HopUp, LinkInv, Inside, IInv,
       TypeOK, SessionInv, Progress, Hops
  <2>2. link[s][hop[s]] \in {"dying", "dead"}
    BY <2>1 DEF IInv, TypeOK
  <2>3. root[s] # {}
    BY <2>1, <2>2 DEF LinkInv
  <2>. QED
    BY <1>4, <2>1, <2>3 DEF ChannelLost, Goto, IInv, TypeOK, linkVars,
       LinksKept, LinkInv, SameLinks, Inside
<1>. QED
  BY <1>1, <1>2, <1>3, <1>4 DEF ShellStep, EndStep

LEMMA ConnectionLinks ==
  ASSUME IInv, NEW s \in Sessions, LinkInv(s), LinkStep(s)
  PROVE  LinksKept(s)
<1>1. PICK h \in Hops : \/ \E c \in Faults : LinkFails(s, h, c)
                        \/ ReportDisconnect(s, h)
                        \/ TunnelDrops(s, h)
  BY DEF LinkStep
<1>2. /\ pc' = pc
      /\ hop' = hop
      /\ hop[s] \in 0 .. MaxHops
      /\ h \in Nat /\ h # 0
  BY <1>1 DEF LinkFails, ReportDisconnect, TunnelDrops, linkOnly, IInv, TypeOK,
     Hops
<1>3. \A t \in Sessions \ {s} : SameLinks(t)
  BY <1>1, <1>2 DEF LinkFails, ReportDisconnect, TunnelDrops, linkOnly, IInv,
     TypeOK, SameLinks
<1>4. CASE \E c \in Faults : LinkFails(s, h, c)
  <2>1. /\ link[s][h] = "up"
        /\ link'[s] = [link[s] EXCEPT ![h] = "dying"]
        /\ record'[s] = record[s]
        /\ root'[s] = root[s] \cup {h}
    BY <1>4 DEF LinkFails, IInv, TypeOK
  <2>2. link[s] \in [Hops -> {"none", "up", "dying", "dead"}]
    BY DEF IInv, TypeOK
  <2>3. LinkInv(s)'
    BY <1>2, <2>1, <2>2 DEF LinkInv
  <2>. QED
    BY <1>3, <2>3 DEF LinksKept
<1>5. CASE ReportDisconnect(s, h)
  <2>1. /\ link[s][h] = "dying"
        /\ link'[s] = [link[s] EXCEPT ![h] = "dead"]
        /\ record'[s] = IF record[s] = 0 THEN h ELSE record[s]
        /\ root'[s] = root[s]
    BY <1>5 DEF ReportDisconnect, IInv, TypeOK
  <2>2. link[s] \in [Hops -> {"none", "up", "dying", "dead"}]
    BY DEF IInv, TypeOK
  <2>3. LinkInv(s)'
    BY <1>2, <2>1, <2>2 DEF LinkInv
  <2>. QED
    BY <1>3, <2>3 DEF LinksKept
<1>6. CASE TunnelDrops(s, h)
  <2>1. /\ link[s][h - 1] = "dead"
        /\ h - 1 \in Hops
        /\ link[s][h] = "up"
        /\ link'[s] = [link[s] EXCEPT ![h] = "dying"]
        /\ record'[s] = record[s]
        /\ root'[s] = root[s]
    BY <1>6, SessionAssumption DEF TunnelDrops, IInv, TypeOK, Hops
  <2>2. link[s] \in [Hops -> {"none", "up", "dying", "dead"}]
    BY DEF IInv, TypeOK
  <2>3. LinkInv(s)'
    BY <1>2, <2>1, <2>2 DEF LinkInv
  <2>. QED
    BY <1>3, <2>3 DEF LinksKept
<1>. QED
  BY <1>1, <1>4, <1>5, <1>6

LEMMA UiLinks ==
  ASSUME IInv, NEW s \in Sessions, LinkInv(s),
         UiStep(s) \/ \E ch \in Channels : CloseSend(s, ch)
  PROVE  LinksKept(s)
<1>1. CASE Connect(s)
  BY <1>1, QuietLinks DEF Connect, Phases, Inside
<1>2. CASE ~Connect(s)
  <2>1. UNCHANGED <<pc, hop, linkVars>>
    BY <1>2 DEF UiStep, RequestClose, AnswerHostKey, AnswerAuth, SendInput,
       CloseSend, uiOnly
  <2>. QED
    BY <2>1, QuietLinks
<1>. QED
  BY <1>1, <1>2

LEMMA LinksInductive ==
  ASSUME IInv, \A s \in Sessions : LinkInv(s), [Next]_vars
  PROVE  \A s \in Sessions : LinkInv(s)'
<1>1. CASE UNCHANGED vars
  BY <1>1 DEF vars, linkVars, LinkInv
<1>2. ASSUME NEW s \in Sessions, LinksKept(s)
      PROVE  \A t \in Sessions : LinkInv(t)'
  BY <1>2 DEF LinksKept, SameLinks, LinkInv
<1>3. CASE Next
  <2>1. PICK s \in Sessions : LinksKept(s)
    BY <1>3, HandshakeLinks, AuthLinks, RouteLinks, ShellLinks, ConnectionLinks,
       UiLinks DEF Next
  <2>. QED
    BY <1>2, <2>1
<1>. QED
  BY <1>1, <1>3

\* An end that is not a loss: nothing to blame a connection for.
NoLoss(e) == e.reason \notin {"transport", "remote"} \/ e.cause = "shell_exit"

LEMMA OnlyResolvedLosses ==
  ASSUME IInv, NEW s \in Sessions, [Next]_vars, end'[s] # end[s]
  PROVE  NoLoss(end'[s]) \/ ResolveLoss(s)
<1>. DEFINE Kept(t) == \/ end' = end
                       \/ ResolveLoss(t)
                       \/ \E e : NoLoss(e) /\ end' = [end EXCEPT ![t] = e]
<1>1. ASSUME NEW t \in Sessions, NEW c, NEW h,
             Fail(t, c, h) \/ Refuse(t, c) \/ Break(t, c, h)
      PROVE  Kept(t)
  BY <1>1 DEF Fail, Refuse, Break, Finish, End, NoLoss
<1>2. ASSUME NEW t \in Sessions,
             HandshakeStep(t) \/ SetupTimeout(t) \/ TakeHostAnswer(t)
      PROVE  Kept(t)
  <2>1. CASE end' = end
    BY <2>1
  <2>2. CASE \E c, h : Fail(t, c, h) \/ Refuse(t, c) \/ Break(t, c, h)
    BY <1>1, <2>2
  <2>. HIDE DEF Kept
  <2>. QED
    BY <1>2, <2>1, <2>2 DEF HandshakeStep, ServerKeyArrives, CertificateRefused,
       HandshakeBreaks, HostKeyTrusted, HostKeyChanged, HostKeyUnknown,
       CheckFails, SaveHostKey, SaveFails, SetupTimeout, TakeHostAnswer, Accept
<1>3. ASSUME NEW t \in Sessions,
             \/ AuthStep(t) \/ TakeAuthAnswer(t) \/ AuthPromptTimeout(t)
             \/ RouteStep(t)
      PROVE  Kept(t)
  <2>1. CASE end' = end
    BY <2>1
  <2>2. CASE \E c, h : Fail(t, c, h) \/ Refuse(t, c) \/ Break(t, c, h)
    BY <1>1, <2>2
  <2>. HIDE DEF Kept
  <2>. QED
    BY <1>3, <2>1, <2>2 DEF AuthStep, AskAuth, AuthSucceeds, AuthRefused,
       AuthBreaks, TakeAuthAnswer, AuthPromptTimeout, RouteStep, Prepare,
       PrepareFails, OpenTunnel, TunnelFails, OpenShell, OpenFails
<1>4. ASSUME NEW t \in Sessions, ShellStep(t) \/ WriteDone(t) \/ EndStep(t)
      PROVE  Kept(t)
  <2>1. CASE TakeClose(t) \/ ShellExits(t)
    BY <2>1 DEF TakeClose, ShellExits, Finish, End, NoLoss
  <2>2. CASE EmitClosed(t)
    BY <2>2 DEF EmitClosed, NotEnded, End, NoLoss
  <2>. QED
    BY <1>4, <2>1, <2>2 DEF ShellStep, TakeInput, ChannelLost, WriteDone,
       EndStep, Unregister
<1>5. ASSUME NEW t \in Sessions,
             \/ LinkStep(t) \/ UiStep(t) \/ \E ch \in Channels : CloseSend(t, ch)
      PROVE  end' = end
  BY <1>5 DEF LinkStep, LinkFails, ReportDisconnect, TunnelDrops, linkOnly,
     UiStep, Connect, RequestClose, AnswerHostKey, AnswerAuth, SendInput,
     CloseSend, uiOnly
<1>6. CASE Next
  <2>1. PICK t \in Sessions : Kept(t)
    <3>. HIDE DEF Kept
    <3>1. \A t \in Sessions : end' = end => Kept(t)
      BY DEF Kept
    <3>. QED
      BY <1>2, <1>3, <1>4, <1>5, <1>6, <3>1 DEF Next
  <2>2. CASE t = s
    BY <2>1, <2>2 DEF IInv, TypeOK
  <2>3. CASE t # s
    BY <2>1, <2>3 DEF IInv, TypeOK, ResolveLoss, Finish
  <2>. QED
    BY <2>2, <2>3
<1>7. CASE UNCHANGED vars
  BY <1>7 DEF vars
<1>. QED
  BY <1>6, <1>7

\* A loss is never blamed on a hop that only lost the tunnel below it: with any
\* number of hops and whatever the order in which their tasks report, the hop
\* DisconnectLog names failed by itself, with the cause it is given.
THEOREM LossIsTheRootHops == Spec => LossNamesTheRootHop
<1>. DEFINE Links == \A s \in Sessions : LinkInv(s)
<1>1. Init => Links
  BY DEF Init, NoLinks, LinkInv, Inside
<1>2. IInv /\ Links /\ [Next]_vars => Links'
  BY LinksInductive
<1>3. ASSUME IInv, Links, [Next]_vars, NEW s \in Sessions,
             end'[s] # end[s], ~NoLoss(end'[s])
      PROVE  /\ root[s] # {}
             /\ end'[s].hop # 0 => /\ end'[s].hop \in root[s]
                                   /\ end'[s].cause = why[s][end'[s].hop]
  <2>1. ResolveLoss(s)
    BY <1>3, OnlyResolvedLosses
  <2>2. end'[s] = LossEnd(s) /\ pc[s] = "lost"
    BY <1>3, <2>1 DEF ResolveLoss, Finish, IInv, TypeOK
  <2>3. /\ root[s] # {}
        /\ record[s] # 0 => record[s] \in root[s]
    BY <1>3, <2>2 DEF LinkInv
  <2>4. /\ record[s] = 0 => LossEnd(s).hop = 0
        /\ record[s] # 0 => /\ LossEnd(s).hop = record[s]
                            /\ LossEnd(s).cause = why[s][record[s]]
    BY DEF LossEnd, End
  <2>. QED
    BY <2>2, <2>3, <2>4
<1>4. ASSUME IInv, Links, [Next]_vars
      PROVE  [\A s \in Sessions :
                LET e == end'[s] IN
                e # end[s] /\ e.cause # "shell_exit"
                  /\ e.reason \in {"transport", "remote"}
                => /\ root[s] # {}
                   /\ e.hop # 0 => e.hop \in root[s] /\ e.cause = why[s][e.hop]]_end
  BY <1>3, <1>4 DEF NoLoss
<1>. QED
  <2>. HIDE DEF Links
  <2>. QED
    BY <1>1, <1>2, <1>4, Inductive, PTL DEF Spec, LossNamesTheRootHop

----
(* SshSession implements SessionLifecycle: every step of the task, of its *)
(* connections and of the UI is one abstract step of one session, or none. *)

InSetup == Setup \cup {"prepare", "auth", "askAuth", "tunnel", "open"}
InShell == {"loop", "writing", "lost"}

\* A connection that failed by itself has a cause.
RootHasCause(s) == \A h \in root[s] : why[s][h] \in Faults

\* A step of s as the lifecycle sees it.
Stutters(s) == Stage(s)' = Stage(s) /\ end'[s] = end[s]
Moves(s, p, q) == Stage(s) = p /\ Stage(s)' = q
EndsSetup(s) ==
  /\ Moves(s, "setup", "ended")
  /\ end'[s].reason = "failed"
  /\ end'[s].cause \in {"none", "timeout", "network"}
EndsShell(s) ==
  /\ Moves(s, "ready", "ended")
  /\ Lifecycle!Outcome(end'[s].reason, end'[s].cause) \in Lifecycle!ShellOutcomes
Advances(s) ==
  \/ Stutters(s)
  \/ Moves(s, "absent", "setup") /\ end'[s] = end[s]
  \/ Moves(s, "setup", "ready") /\ end'[s] = end[s]
  \/ EndsSetup(s)
  \/ EndsShell(s)
  \/ Moves(s, "ended", "announced") /\ end'[s] = NotEnded
  \/ Moves(s, "announced", "gone") /\ end'[s] = end[s]

OnlyMoves(s) ==
  /\ Advances(s)
  /\ \A t \in Sessions \ {s} : pc'[t] = pc[t] /\ end'[t] = end[t]
----
\* The stage of a session is read off its program counter.
LEMMA StageOf ==
  ASSUME NEW s
  PROVE  /\ pc[s] = "idle" => Stage(s) = "absent"
         /\ pc[s] \in InSetup => Stage(s) = "setup"
         /\ pc[s] \in InShell => Stage(s) = "ready"
         /\ pc[s] = "finish" => Stage(s) = "ended"
         /\ pc[s] = "closed" => Stage(s) = "announced"
         /\ pc[s] = "gone" => Stage(s) = "gone"
  BY DEF Stage, InSetup, InShell, Setup

LEMMA StageAfter ==
  ASSUME NEW s
  PROVE  /\ pc'[s] = "idle" => Stage(s)' = "absent"
         /\ pc'[s] \in InSetup => Stage(s)' = "setup"
         /\ pc'[s] \in InShell => Stage(s)' = "ready"
         /\ pc'[s] = "finish" => Stage(s)' = "ended"
         /\ pc'[s] = "closed" => Stage(s)' = "announced"
         /\ pc'[s] = "gone" => Stage(s)' = "gone"
  BY DEF Stage, InSetup, InShell, Setup

\* A step of one session is a step of the lifecycle.
LEMMA StepMaps ==
  ASSUME TypeOK, NEW s \in Sessions, OnlyMoves(s)
  PROVE  [Lifecycle!Next]_(Lifecycle!vars)
<1>. DEFINE st(t) == Stage(t)
            out(t) == [reason |-> end[t].reason, cause |-> end[t].cause]
<1>1. \A t \in Sessions \ {s} : st(t)' = st(t) /\ out(t)' = out(t)
  BY DEF OnlyMoves, Stage
<1>2. [t \in Sessions |-> st(t)'] = [[t \in Sessions |-> st(t)] EXCEPT ![s] = st(s)']
  <2>. HIDE DEF st, out
  <2>. QED
    BY <1>1
<1>3. [t \in Sessions |-> out(t)'] =
        [[t \in Sessions |-> out(t)] EXCEPT ![s] = out(s)']
  <2>. HIDE DEF st, out
  <2>. QED
    BY <1>1
<1>4. end'[s] = end[s] => out(s)' = out(s)
  OBVIOUS
<1>5. end'[s] = end[s] => [t \in Sessions |-> out(t)'] = [t \in Sessions |-> out(t)]
  <2>. HIDE DEF out
  <2>. QED
    BY <1>1, <1>4
<1>6. CASE Stutters(s)
  <2>1. st(s)' = st(s)
    BY <1>6 DEF Stutters
  <2>2. [t \in Sessions |-> st(t)'] = [t \in Sessions |-> st(t)]
    <3>. HIDE DEF st, out
    <3>. QED
      BY <1>1, <2>1
  <2>3. UNCHANGED Lifecycle!vars
    BY <1>5, <1>6, <2>2 DEF Stutters, Lifecycle!vars
  <2>. QED
    BY <2>3
<1>7. CASE Moves(s, "absent", "setup") /\ end'[s] = end[s]
  <2>1. Lifecycle!Register(s)
    BY <1>2, <1>5, <1>7 DEF Moves, Lifecycle!Register, Lifecycle!To
  <2>. QED
    BY <2>1 DEF Lifecycle!Next
<1>8. CASE Moves(s, "setup", "ready") /\ end'[s] = end[s]
  <2>1. Lifecycle!ReachShell(s)
    BY <1>2, <1>5, <1>8 DEF Moves, Lifecycle!ReachShell, Lifecycle!To
  <2>. QED
    BY <2>1 DEF Lifecycle!Next
<1>9. CASE EndsSetup(s)
  <2>1. out(s)' \in Lifecycle!SetupOutcomes
    BY <1>9 DEF EndsSetup, Lifecycle!SetupOutcomes, Lifecycle!Outcome
  <2>2. Lifecycle!End(s)
    BY <1>2, <1>3, <1>9, <2>1 DEF EndsSetup, Moves, Lifecycle!End, Lifecycle!To
  <2>. QED
    BY <2>2 DEF Lifecycle!Next
<1>10. CASE EndsShell(s)
  <2>1. out(s)' \in Lifecycle!ShellOutcomes
    BY <1>10 DEF EndsShell, Lifecycle!Outcome
  <2>2. Lifecycle!End(s)
    BY <1>2, <1>3, <1>10, <2>1 DEF EndsShell, Moves, Lifecycle!End, Lifecycle!To
  <2>. QED
    BY <2>2 DEF Lifecycle!Next
<1>11. CASE Moves(s, "ended", "announced") /\ end'[s] = NotEnded
  <2>1. out(s)' = Lifecycle!NoOutcome
    BY <1>11 DEF NotEnded, End, Lifecycle!NoOutcome, Lifecycle!Outcome
  <2>2. Lifecycle!Announce(s)
    BY <1>2, <1>3, <1>11, <2>1 DEF Moves, Lifecycle!Announce, Lifecycle!To
  <2>. QED
    BY <2>2 DEF Lifecycle!Next
<1>12. CASE Moves(s, "announced", "gone") /\ end'[s] = end[s]
  <2>1. Lifecycle!Unregister(s)
    BY <1>2, <1>5, <1>12 DEF Moves, Lifecycle!Unregister, Lifecycle!To
  <2>. QED
    BY <2>1 DEF Lifecycle!Next
<1>. QED
  BY <1>6, <1>7, <1>8, <1>9, <1>10, <1>11, <1>12 DEF OnlyMoves, Advances

----
(* The steps of SshSession. *)

\* A step within a stage: the program counter stays in one group of phases.
LEMMA QuietMaps ==
  ASSUME TypeOK, NEW s \in Sessions, end' = end,
         \/ pc' = pc
         \/ \E p : Goto(s, p) /\ \/ pc[s] \in InSetup /\ p \in InSetup
                                 \/ pc[s] \in InShell /\ p \in InShell
  PROVE  OnlyMoves(s)
<1>1. \A t \in Sessions \ {s} : pc'[t] = pc[t] /\ end'[t] = end[t]
  BY DEF Goto, TypeOK
<1>2. CASE pc' = pc
  BY <1>1, <1>2 DEF OnlyMoves, Advances, Stutters, Stage
<1>3. CASE pc[s] \in InSetup /\ pc'[s] \in InSetup
  BY <1>1, <1>3, StageOf, StageAfter DEF OnlyMoves, Advances, Stutters
<1>4. CASE pc[s] \in InShell /\ pc'[s] \in InShell
  BY <1>1, <1>4, StageOf, StageAfter DEF OnlyMoves, Advances, Stutters
<1>. QED
  BY <1>2, <1>3, <1>4 DEF Goto, TypeOK

SetupCause == {"none", "timeout", "network"}

\* What fails before there is a shell ends as `failed`.
LEMMA FailMaps ==
  ASSUME TypeOK, NEW s \in Sessions, pc[s] \in InSetup,
         NEW c \in SetupCause, NEW h,
         Fail(s, c, h) \/ Refuse(s, c) \/ Break(s, c, h)
  PROVE  OnlyMoves(s)
<1>1. PICK g : Fail(s, c, g)
  BY DEF Refuse, Break
<1>2. /\ pc'[s] = "finish"
      /\ end'[s].reason = "failed"
      /\ end'[s].cause = c
      /\ \A t \in Sessions \ {s} : pc'[t] = pc[t] /\ end'[t] = end[t]
  BY <1>1 DEF Fail, Finish, End, Goto, TypeOK
<1>3. Moves(s, "setup", "ended")
  BY <1>2, StageOf, StageAfter DEF Moves
<1>. QED
  BY <1>2, <1>3 DEF OnlyMoves, Advances, EndsSetup, SetupCause

LEMMA HandshakeMaps ==
  ASSUME TypeOK, NEW s \in Sessions,
         HandshakeStep(s) \/ SetupTimeout(s) \/ TakeHostAnswer(s)
  PROVE  OnlyMoves(s)
<1>1. pc[s] \in InSetup
  BY DEF HandshakeStep, ServerKeyArrives, CertificateRefused, HandshakeBreaks,
     HostKeyTrusted, HostKeyChanged, HostKeyUnknown, CheckFails, SaveHostKey,
     SaveFails, SetupTimeout, TakeHostAnswer, InSetup, Setup
<1>2. CASE /\ end' = end
           /\ pc' = pc \/ \E p \in {"check", "ask", "save", "auth"} : Goto(s, p)
  BY <1>1, <1>2, QuietMaps DEF InSetup, Setup
<1>3. CASE \E c \in SetupCause : \E h : Fail(s, c, h) \/ Refuse(s, c) \/ Break(s, c, h)
  BY <1>1, <1>3, FailMaps
<1>4. CASE HandshakeStep(s)
  <2>1. CASE HostKeyTrusted(s) \/ HostKeyUnknown(s)
    BY <1>2, <2>1 DEF HostKeyTrusted, HostKeyUnknown, Accept
  <2>2. CASE CertificateRefused(s) \/ HostKeyChanged(s)
    BY <1>3, <2>2 DEF CertificateRefused, HostKeyChanged, SetupCause
  <2>3. ASSUME NEW c \in SetupCause,
               HandshakeBreaks(s, c) \/ CheckFails(s, c) \/ SaveFails(s, c)
        PROVE  OnlyMoves(s)
    BY <1>3, <2>3 DEF HandshakeBreaks, CheckFails, SaveFails
  <2>4. CASE SaveHostKey(s)
    BY <1>2, <1>3, <2>4 DEF SaveHostKey, Accept, SetupCause
  <2>5. ASSUME NEW k \in Keys, ServerKeyArrives(s, k)
        PROVE  OnlyMoves(s)
    BY <1>2, <2>5 DEF ServerKeyArrives
  <2>. QED
    BY <1>4, <2>1, <2>2, <2>3, <2>4, <2>5 DEF HandshakeStep, SetupCause
<1>5. CASE SetupTimeout(s)
  BY <1>3, <1>5 DEF SetupTimeout, SetupCause
<1>6. CASE TakeHostAnswer(s)
  BY <1>2, <1>3, <1>6 DEF TakeHostAnswer, Accept, SetupCause
<1>. QED
  BY <1>4, <1>5, <1>6

LEMMA AuthMaps ==
  ASSUME TypeOK, NEW s \in Sessions,
         AuthStep(s) \/ TakeAuthAnswer(s) \/ AuthPromptTimeout(s)
  PROVE  OnlyMoves(s)
<1>1. pc[s] \in InSetup
  BY DEF AuthStep, AskAuth, AuthSucceeds, AuthRefused, AuthBreaks,
     TakeAuthAnswer, AuthPromptTimeout, InSetup
<1>2. CASE /\ end' = end
           /\ \/ pc' = pc
              \/ \E p \in {"auth", "askAuth", "tunnel", "open"} : Goto(s, p)
  BY <1>1, <1>2, QuietMaps DEF InSetup
<1>3. CASE \E c \in SetupCause : \E h : Fail(s, c, h) \/ Refuse(s, c) \/ Break(s, c, h)
  BY <1>1, <1>3, FailMaps
<1>4. CASE AskAuth(s) \/ AuthSucceeds(s)
  BY <1>2, <1>4 DEF AskAuth, AuthSucceeds
<1>5. CASE AuthRefused(s) \/ AuthPromptTimeout(s)
  BY <1>3, <1>5 DEF AuthRefused, AuthPromptTimeout, SetupCause
<1>6. ASSUME NEW c \in SetupCause, AuthBreaks(s, c)
      PROVE  OnlyMoves(s)
  BY <1>3, <1>6 DEF AuthBreaks
<1>7. CASE TakeAuthAnswer(s)
  BY <1>2, <1>3, <1>7 DEF TakeAuthAnswer, SetupCause
<1>. QED
  BY <1>4, <1>5, <1>6, <1>7 DEF AuthStep, SetupCause

LEMMA RouteMaps ==
  ASSUME TypeOK, NEW s \in Sessions, RouteStep(s)
  PROVE  OnlyMoves(s)
<1>1. pc[s] \in InSetup
  BY DEF RouteStep, Prepare, PrepareFails, OpenTunnel, TunnelFails, OpenShell,
     OpenFails, InSetup
<1>2. CASE Prepare(s) \/ OpenTunnel(s)
  <2>1. end' = end /\ Goto(s, "connect")
    BY <1>2 DEF Prepare, OpenTunnel
  <2>. QED
    BY <1>1, <2>1, QuietMaps DEF InSetup, Setup
<1>3. CASE PrepareFails(s)
  BY <1>1, <1>3, FailMaps DEF PrepareFails, SetupCause
<1>4. ASSUME NEW c \in SetupCause, TunnelFails(s, c) \/ OpenFails(s, c)
      PROVE  OnlyMoves(s)
  BY <1>1, <1>4, FailMaps DEF TunnelFails, OpenFails
<1>5. CASE OpenShell(s)
  <2>1. /\ end' = end
        /\ pc'[s] = "loop"
        /\ \A t \in Sessions \ {s} : pc'[t] = pc[t]
    BY <1>5 DEF OpenShell, Goto, TypeOK
  <2>2. Moves(s, "setup", "ready")
    BY <1>1, <2>1, StageOf, StageAfter DEF Moves, InShell
  <2>. QED
    BY <2>1, <2>2 DEF OnlyMoves, Advances
<1>. QED
  BY <1>2, <1>3, <1>4, <1>5 DEF RouteStep, SetupCause

\* What a session that lost its connection ends with is a transport loss, or a
\* remote end when the server disconnected.
LEMMA LossOutcome ==
  ASSUME NEW s, record[s] # 0 => why[s][record[s]] \in Faults
  PROVE  Lifecycle!Outcome(LossEnd(s).reason, LossEnd(s).cause)
           \in Lifecycle!ShellOutcomes
<1>1. CASE record[s] = 0
  BY <1>1 DEF LossEnd, End, Lifecycle!ShellOutcomes
<1>2. CASE record[s] # 0 /\ why[s][record[s]] = "server_disconnect"
  BY <1>2 DEF LossEnd, End, Lifecycle!ShellOutcomes
<1>3. CASE record[s] # 0 /\ why[s][record[s]] \in {"timeout", "network"}
  <2>1. LossEnd(s) = End("transport", why[s][record[s]], record[s])
    BY <1>3 DEF LossEnd
  <2>. QED
    BY <1>3, <2>1 DEF End, Lifecycle!ShellOutcomes
<1>. QED
  BY <1>1, <1>2, <1>3 DEF Faults

LEMMA EndShellMaps ==
  ASSUME TypeOK, NEW s \in Sessions, pc[s] \in InShell, NEW e, Finish(s, e),
         Lifecycle!Outcome(e.reason, e.cause) \in Lifecycle!ShellOutcomes
  PROVE  OnlyMoves(s)
<1>1. /\ pc'[s] = "finish"
      /\ end'[s] = e
      /\ \A t \in Sessions \ {s} : pc'[t] = pc[t] /\ end'[t] = end[t]
  BY DEF Finish, Goto, TypeOK
<1>2. Moves(s, "ready", "ended")
  BY <1>1, StageOf, StageAfter DEF Moves
<1>. QED
  BY <1>1, <1>2 DEF OnlyMoves, Advances, EndsShell

LEMMA ShellMaps ==
  ASSUME TypeOK, NEW s \in Sessions, LinkInv(s), RootHasCause(s),
         ShellStep(s) \/ WriteDone(s) \/ ResolveLoss(s)
  PROVE  OnlyMoves(s)
<1>1. pc[s] \in InShell
  BY DEF ShellStep, TakeInput, TakeClose, ShellExits, ChannelLost, WriteDone,
     ResolveLoss, InShell
<1>2. CASE TakeInput(s) \/ ChannelLost(s) \/ WriteDone(s)
  <2>1. end' = end /\ \E p \in InShell : Goto(s, p)
    BY <1>2 DEF TakeInput, ChannelLost, WriteDone, InShell
  <2>. QED
    BY <1>1, <2>1, QuietMaps
<1>3. CASE TakeClose(s)
  <2>1. Finish(s, End("local", "none", 0))
    BY <1>3 DEF TakeClose
  <2>. QED
    BY <1>1, <2>1, EndShellMaps DEF End, Lifecycle!ShellOutcomes
<1>4. CASE ShellExits(s)
  <2>1. Finish(s, End("remote", "shell_exit", Len(Route[s])))
    BY <1>4 DEF ShellExits
  <2>. QED
    BY <1>1, <2>1, EndShellMaps DEF End, Lifecycle!ShellOutcomes
<1>5. CASE ResolveLoss(s)
  <2>1. Finish(s, LossEnd(s))
    BY <1>5 DEF ResolveLoss
  <2>2. record[s] # 0 => why[s][record[s]] \in Faults
    BY DEF LinkInv, RootHasCause
  <2>. QED
    BY <1>1, <2>1, <2>2, LossOutcome, EndShellMaps
<1>. QED
  BY <1>2, <1>3, <1>4, <1>5 DEF ShellStep

LEMMA EndMaps ==
  ASSUME TypeOK, NEW s \in Sessions, EmitClosed(s) \/ Unregister(s) \/ Connect(s)
  PROVE  OnlyMoves(s)
<1>1. CASE EmitClosed(s)
  <2>1. /\ pc[s] = "finish" /\ pc'[s] = "closed"
        /\ end'[s] = NotEnded
        /\ \A t \in Sessions \ {s} : pc'[t] = pc[t] /\ end'[t] = end[t]
    BY <1>1 DEF EmitClosed, Goto, TypeOK
  <2>. QED
    BY <2>1, StageOf, StageAfter DEF OnlyMoves, Advances, Moves
<1>2. CASE Unregister(s)
  <2>1. /\ pc[s] = "closed" /\ pc'[s] = "gone"
        /\ end' = end
        /\ \A t \in Sessions \ {s} : pc'[t] = pc[t]
    BY <1>2 DEF Unregister, Goto, TypeOK
  <2>. QED
    BY <2>1, StageOf, StageAfter DEF OnlyMoves, Advances, Moves
<1>3. CASE Connect(s)
  <2>1. /\ pc[s] = "idle" /\ pc'[s] = "prepare"
        /\ end' = end
        /\ \A t \in Sessions \ {s} : pc'[t] = pc[t]
    BY <1>3 DEF Connect, Goto, TypeOK
  <2>. QED
    BY <2>1, StageOf, StageAfter DEF OnlyMoves, Advances, Moves, InSetup
<1>. QED
  BY <1>1, <1>2, <1>3

LEMMA OutsideMaps ==
  ASSUME TypeOK, NEW s \in Sessions,
         \/ LinkStep(s)
         \/ UiStep(s) /\ ~Connect(s)
         \/ \E ch \in Channels : CloseSend(s, ch)
  PROVE  OnlyMoves(s)
<1>1. pc' = pc /\ end' = end
  BY DEF LinkStep, LinkFails, ReportDisconnect, TunnelDrops, linkOnly, UiStep,
     RequestClose, AnswerHostKey, AnswerAuth, SendInput, CloseSend, uiOnly
<1>. QED
  BY <1>1, QuietMaps

LEMMA NextMaps ==
  ASSUME IInv, \A s \in Sessions : LinkInv(s) /\ RootHasCause(s), [Next]_vars
  PROVE  [Lifecycle!Next]_(Lifecycle!vars)
<1>. USE DEF IInv
<1>1. CASE UNCHANGED vars
  <2>1. pc' = pc /\ end' = end
    BY <1>1 DEF vars
  <2>. QED
    BY <2>1 DEF Lifecycle!vars, Stage
<1>2. CASE Next
  <2>1. PICK s \in Sessions : OnlyMoves(s)
    BY <1>2, HandshakeMaps, AuthMaps, RouteMaps, ShellMaps, EndMaps, OutsideMaps
    DEF Next, EndStep
  <2>. QED
    BY <2>1, StepMaps
<1>. QED
  BY <1>1, <1>2
----
(* Connections that failed by themselves keep their cause. *)

\* The steps other than those of the connections and the end of a run leave
\* causes alone.
LEMMA CausesKept ==
  ASSUME IInv, NEW s \in Sessions, RootHasCause(s), [Next]_vars
  PROVE  RootHasCause(s)'
<1>1. CASE UNCHANGED <<why, root>>
  BY <1>1 DEF RootHasCause
<1>2. ASSUME NEW t \in Sessions, NEW e, Finish(t, e)
      PROVE  RootHasCause(s)'
  BY <1>2 DEF Finish, IInv, TypeOK, RootHasCause
<1>3. ASSUME NEW t \in Sessions, LinkStep(t)
      PROVE  RootHasCause(s)'
  <2>1. PICK h \in Hops : \/ \E c \in Faults : LinkFails(t, h, c)
                          \/ ReportDisconnect(t, h)
                          \/ TunnelDrops(t, h)
    BY <1>3 DEF LinkStep
  <2>2. /\ root[s] \subseteq Hops
        /\ why[s] \in [Hops -> Faults \cup {"none"}]
    BY DEF IInv, TypeOK
  <2>3. ASSUME NEW c \in Faults, LinkFails(t, h, c)
        PROVE  RootHasCause(s)'
    BY <2>2, <2>3 DEF LinkFails, IInv, TypeOK, RootHasCause
  <2>4. CASE ReportDisconnect(t, h)
    BY <1>1, <2>4 DEF ReportDisconnect
  <2>5. CASE TunnelDrops(t, h)
    BY <2>2, <2>5 DEF TunnelDrops, IInv, TypeOK, RootHasCause, Faults
  <2>. QED
    BY <2>1, <2>3, <2>4, <2>5
<1>4. ASSUME NEW t \in Sessions, NEW c, NEW h,
             Fail(t, c, h) \/ Refuse(t, c) \/ Break(t, c, h)
      PROVE  RootHasCause(s)'
  BY <1>2, <1>4 DEF Fail, Refuse, Break
<1>5. ASSUME NEW t \in Sessions,
             HandshakeStep(t) \/ SetupTimeout(t) \/ TakeHostAnswer(t)
      PROVE  RootHasCause(s)'
  BY <1>1, <1>4, <1>5 DEF HandshakeStep, ServerKeyArrives, CertificateRefused,
     HandshakeBreaks, HostKeyTrusted, HostKeyChanged, HostKeyUnknown, CheckFails,
     SaveHostKey, SaveFails, SetupTimeout, TakeHostAnswer, Accept, linkVars
<1>6. ASSUME NEW t \in Sessions,
             \/ AuthStep(t) \/ TakeAuthAnswer(t) \/ AuthPromptTimeout(t)
             \/ RouteStep(t)
      PROVE  RootHasCause(s)'
  BY <1>1, <1>4, <1>6 DEF AuthStep, AskAuth, AuthSucceeds, AuthRefused,
     AuthBreaks, TakeAuthAnswer, AuthPromptTimeout, RouteStep, Prepare,
     PrepareFails, OpenTunnel, TunnelFails, OpenShell, OpenFails, linkVars
<1>7. ASSUME NEW t \in Sessions, ShellStep(t) \/ WriteDone(t) \/ EndStep(t)
      PROVE  RootHasCause(s)'
  BY <1>1, <1>2, <1>7 DEF ShellStep, TakeInput, TakeClose, ShellExits,
     ChannelLost, WriteDone, EndStep, ResolveLoss, EmitClosed, Unregister, linkVars
<1>8. ASSUME NEW t \in Sessions,
             UiStep(t) \/ \E ch \in Channels : CloseSend(t, ch)
      PROVE  RootHasCause(s)'
  BY <1>1, <1>8 DEF UiStep, Connect, RequestClose, AnswerHostKey, AnswerAuth,
     SendInput, CloseSend, uiOnly, linkVars
<1>. QED
  BY <1>1, <1>3, <1>5, <1>6, <1>7, <1>8 DEF Next, vars, linkVars

\* The session task keeps the promise the UI's reconnect policy is built on,
\* with any number of sessions and hops and however its connections fail.
THEOREM ImplementsLifecycle == Spec => KeepsLifecycle
<1>. DEFINE Facts == \A s \in Sessions : LinkInv(s) /\ RootHasCause(s)
<1>1. Init => Facts
  BY DEF Init, NoLinks, LinkInv, RootHasCause, Inside
<1>2. IInv /\ Facts /\ [Next]_vars => Facts'
  BY LinksInductive, CausesKept
<1>3. Init => Lifecycle!Init
  BY DEF Init, Lifecycle!Init, Stage, NotEnded, End, Lifecycle!NoOutcome,
         Lifecycle!Outcome
<1>4. IInv /\ Facts /\ [Next]_vars => [Lifecycle!Next]_(Lifecycle!vars)
  BY NextMaps
<1>. QED
  <2>. HIDE DEF Facts
  <2>. QED
    BY <1>1, <1>2, <1>3, <1>4, Inductive, PTL
    DEF Spec, KeepsLifecycle, Lifecycle!Spec
----
(* Ahead of the proofs about SshConfig: functions that are computed step by step. *)

LEMMA LeastNumber ==
  ASSUME NEW S \in SUBSET Nat, S # {}
  PROVE  \E n \in S : \A m \in S : n <= m
<1>1. PICK n \in S : \A m \in S : <<m, n>> \notin OpToRel(<, Nat)
  BY NatLessThanWellFounded, WFMin
<1>2. \A m \in S : ~(m < n)
  BY <1>1 DEF OpToRel
<1>. QED BY <1>2

\* What a step makes of a value, again and again: there is one such function, and
\* only one up to any number.
IsRun(f, base, step, n) ==
  f[0] = base /\ \A i \in 1 .. n : f[i] = step[i][f[i - 1]]

LEMMA RunsAgree ==
  ASSUME NEW base, NEW step, NEW n \in Nat, NEW f, NEW g,
         IsRun(f, base, step, n), IsRun(g, base, step, n)
  PROVE  \A i \in 0 .. n : f[i] = g[i]
<1>. DEFINE S == {i \in 0 .. n : f[i] # g[i]}
<1>. SUFFICES ASSUME S # {} PROVE FALSE
  OBVIOUS
<1>1. S \in SUBSET Nat
  OBVIOUS
<1>2. PICK i \in S : \A m \in S : i <= m
  BY <1>1, LeastNumber
<1>3. i # 0
  BY <1>2 DEF IsRun
<1>4. i - 1 \in 0 .. n /\ i - 1 \notin S /\ i \in 1 .. n
  BY <1>2, <1>3
<1>. QED BY <1>2, <1>4 DEF IsRun

LEMMA FiniteRun ==
  ASSUME NEW V, NEW base \in V, NEW step \in [Nat -> [V -> V]], NEW n \in Nat
  PROVE  \E f \in [0 .. n -> V] : IsRun(f, base, step, n)
<1>. DEFINE S == {m \in Nat : ~\E f \in [0 .. m -> V] : IsRun(f, base, step, m)}
<1>. SUFFICES ASSUME S # {} PROVE FALSE
  OBVIOUS
<1>1. S \in SUBSET Nat
  OBVIOUS
<1>2. PICK m \in S : \A k \in S : m <= k
  BY <1>1, LeastNumber
<1>. HIDE DEF S
<1>3. m \in Nat /\ ~\E f \in [0 .. m -> V] : IsRun(f, base, step, m)
  BY <1>2 DEF S
<1>4. m # 0
  <2>. DEFINE f == [i \in 0 .. 0 |-> base]
  <2>1. f \in [0 .. 0 -> V] /\ IsRun(f, base, step, 0)
    BY DEF IsRun
  <2>. QED BY <1>3, <2>1
<1>5. m - 1 \in Nat /\ m - 1 \notin S
  BY <1>2, <1>3, <1>4
<1>6. PICK g \in [0 .. m - 1 -> V] : IsRun(g, base, step, m - 1)
  BY <1>5 DEF S
<1>. DEFINE f == [i \in 0 .. m |-> IF i = m THEN step[m][g[m - 1]] ELSE g[i]]
<1>7. step[m][g[m - 1]] \in V
  BY <1>3, <1>4, <1>6
<1>8. f \in [0 .. m -> V]
  BY <1>3, <1>6, <1>7
<1>9. IsRun(f, base, step, m)
  BY <1>3, <1>4, <1>6 DEF IsRun
<1>. QED BY <1>3, <1>8, <1>9

LEMMA EndlessRun ==
  ASSUME NEW V, NEW base \in V, NEW step \in [Nat -> [V -> V]]
  PROVE  \E f \in [Nat -> V] : \A n \in Nat : IsRun(f, base, step, n)
<1>. DEFINE G(n) == CHOOSE f \in [0 .. n -> V] : IsRun(f, base, step, n)
            f == [n \in Nat |-> G(n)[n]]
<1>1. ASSUME NEW n \in Nat PROVE G(n) \in [0 .. n -> V] /\ IsRun(G(n), base, step, n)
  BY FiniteRun
<1>. HIDE DEF G
<1>2. f \in [Nat -> V]
  BY <1>1
<1>3. ASSUME NEW n \in Nat PROVE G(n + 1)[n] = G(n)[n]
  <2>1. IsRun(G(n + 1), base, step, n + 1)
    BY <1>1
  <2>2. IsRun(G(n + 1), base, step, n) /\ IsRun(G(n), base, step, n)
    BY <2>1, <1>1 DEF IsRun
  <2>. QED BY <2>2, RunsAgree
<1>4. ASSUME NEW n \in Nat, NEW i \in 1 .. n PROVE f[i] = step[i][f[i - 1]]
  <2>1. i - 1 \in Nat /\ i \in Nat /\ (i - 1) + 1 = i
    OBVIOUS
  <2>2. G(i)[i] = step[i][G(i)[i - 1]]
    BY <1>1, <2>1 DEF IsRun
  <2>3. G(i)[i - 1] = G(i - 1)[i - 1]
    BY <1>3, <2>1
  <2>. QED BY <2>1, <2>2, <2>3
<1>5. f[0] = base
  BY <1>1 DEF IsRun
<1>6. \A n \in Nat : IsRun(f, base, step, n)
  BY <1>4, <1>5 DEF IsRun
<1>. QED BY <1>2, <1>6
----
(* What a host gets: resolve against the lines, read one by one. *)

\* What the lines set, and the options of a block or of a host.
SetLines == {d \in Directives : d.op = "set"}
Given == {d.value : d \in SetLines}
OptionValues == {v \in [Options -> Seq(Given)] : v["proxyjump"] \in Seq(Seq(Aliases))}
Selectors == {d.selector : d \in {l \in Directives : l.op = "select"}} \cup {<<Everyone>>}
Blocks == [selector : Selectors, options : OptionValues]
Readings == [on : BOOLEAN, outer : Seq(BOOLEAN), values : OptionValues]

LEMMA UnsetType == Unset \in OptionValues
<1>. DEFINE u == [k \in Options |-> <<>>]
<1>1. "proxyjump" \in Options
  BY DEF Options, SingleKeys
<1>2. <<>> \in Seq(Given) /\ <<>> \in Seq(Seq(Aliases))
  OBVIOUS
<1>3. u \in [Options -> Seq(Given)] /\ u["proxyjump"] = <<>>
  BY <1>1, <1>2, Zenon
<1>. QED BY <1>2, <1>3, Zenon DEF Unset, OptionValues

LEMMA SelectorTruth ==
  ASSUME NEW selector, NEW host, NEW values
  PROVE  selector_matches(selector, host, values) \in BOOLEAN
  BY DEF selector_matches

LEMMA MergedType ==
  ASSUME NEW v \in OptionValues, NEW k \in Options, NEW more \in Seq(Given),
         k = "proxyjump" => more \in Seq(Seq(Aliases))
  PROVE  /\ Merged(v, k, more) \in Seq(Given)
         /\ k = "proxyjump" => Merged(v, k, more) \in Seq(Seq(Aliases))
<1>1. v[k] \in Seq(Given) /\ v["proxyjump"] \in Seq(Seq(Aliases))
  BY DEF OptionValues
<1>2. "proxyjump" \notin MULTI_VALUE_KEYS
  BY DEF MULTI_VALUE_KEYS
<1>. QED BY <1>1, <1>2 DEF Merged

LEMMA TakeType ==
  ASSUME NEW v \in OptionValues, NEW b \in Blocks, NEW host
  PROVE  take(v, b, host) \in OptionValues
<1>1. b.options \in OptionValues
  BY DEF Blocks
<1>2. ASSUME NEW k \in Options
      PROVE  /\ b.options[k] \in Seq(Given)
             /\ k = "proxyjump" => b.options[k] \in Seq(Seq(Aliases))
  BY <1>1 DEF OptionValues
<1>. DEFINE w == [k \in Options |-> Merged(v, k, b.options[k])]
<1>3. "proxyjump" \in Options
  BY DEF Options, SingleKeys
<1>4. \A k \in Options : /\ Merged(v, k, b.options[k]) \in Seq(Given)
                         /\ k = "proxyjump" => Merged(v, k, b.options[k]) \in Seq(Seq(Aliases))
  BY <1>2, MergedType
<1>5. w \in OptionValues
  BY <1>3, <1>4, Zenon DEF OptionValues
<1>. QED BY <1>5 DEF take

\* A block step as a function, defined past the last block as well.
TakeStep(host, bs) ==
  [i \in Nat |-> [v \in OptionValues |->
     IF i \in 1 .. Len(bs) THEN take(v, bs[i], host) ELSE v]]

LEMMA ValuesRun ==
  ASSUME NEW host, NEW bs \in Seq(Blocks)
  PROVE  /\ ValuesAfter(host, bs) \in [0 .. Len(bs) -> OptionValues]
         /\ ValuesAfter(host, bs)[0] = Unset
         /\ \A n \in 1 .. Len(bs) :
              ValuesAfter(host, bs)[n] = take(ValuesAfter(host, bs)[n - 1], bs[n], host)
<1>. DEFINE IsIt(f) ==
       f = [n \in 0 .. Len(bs) |->
              IF n = 0 THEN Unset ELSE take(f[n - 1], bs[n], host)]
<1>1. TakeStep(host, bs) \in [Nat -> [OptionValues -> OptionValues]]
  BY TakeType DEF TakeStep
<1>2. Len(bs) \in Nat
  OBVIOUS
<1>3. PICK f \in [0 .. Len(bs) -> OptionValues] :
        IsRun(f, Unset, TakeStep(host, bs), Len(bs))
  BY <1>1, <1>2, UnsetType, FiniteRun
<1>4. ASSUME NEW n \in 1 .. Len(bs) PROVE f[n] = take(f[n - 1], bs[n], host)
  <2>1. f[n - 1] \in OptionValues /\ n \in Nat
    BY <1>2, <1>3
  <2>2. f[n] = TakeStep(host, bs)[n][f[n - 1]]
    BY <1>3 DEF IsRun
  <2>3. TakeStep(host, bs)[n] = [v \in OptionValues |->
          IF n \in 1 .. Len(bs) THEN take(v, bs[n], host) ELSE v]
    BY <2>1, Zenon DEF TakeStep
  <2>. QED BY <2>1, <2>2, <2>3, Zenon
<1>5. \E g : IsIt(g)
  <2>1. f[0] = Unset
    BY <1>3 DEF IsRun
  <2>2. \A n \in 0 .. Len(bs) : f[n] = IF n = 0 THEN Unset ELSE take(f[n - 1], bs[n], host)
    BY <2>1, <1>4
  <2>. QED BY <2>2
<1>6. IsIt(ValuesAfter(host, bs))
  BY <1>5 DEF ValuesAfter
<1>. DEFINE g == ValuesAfter(host, bs)
<1>. HIDE DEF g
<1>7. IsIt(g)
  BY <1>6 DEF g
<1>8. g[0] = Unset /\ \A n \in 1 .. Len(bs) : g[n] = take(g[n - 1], bs[n], host)
  BY <1>2, <1>7
<1>9. \A n \in 0 .. Len(bs) : g[n] \in OptionValues
  <2>. DEFINE S == {n \in 0 .. Len(bs) : g[n] \notin OptionValues}
  <2>. SUFFICES ASSUME S # {} PROVE FALSE
    OBVIOUS
  <2>0. S \in SUBSET Nat
    BY <1>2
  <2>1. PICK n \in S : \A m \in S : n <= m
    BY <2>0, LeastNumber
  <2>2. n # 0
    BY <1>8, <2>1, UnsetType
  <2>3. n \in 1 .. Len(bs) /\ n - 1 \in 0 .. Len(bs) /\ n - 1 \notin S
    BY <2>1, <2>2
  <2>. QED BY <1>8, <2>1, <2>3, TakeType
<1>10. g \in [0 .. Len(bs) -> OptionValues]
  BY <1>7, <1>9
<1>. QED BY <1>8, <1>10 DEF g

\* What comes later in the file changes nothing of the values so far.
LEMMA ValuesAgree ==
  ASSUME NEW host, NEW bs \in Seq(Blocks), NEW cs \in Seq(Blocks), NEW m \in Nat,
         m <= Len(bs), m <= Len(cs), \A i \in 1 .. m : bs[i] = cs[i]
  PROVE  \A n \in 0 .. m : ValuesAfter(host, bs)[n] = ValuesAfter(host, cs)[n]
<1>. DEFINE f == ValuesAfter(host, bs)
            g == ValuesAfter(host, cs)
            S == {n \in 0 .. m : f[n] # g[n]}
<1>. HIDE DEF f, g
<1>1. /\ f[0] = Unset /\ g[0] = Unset
      /\ \A n \in 1 .. m : f[n] = take(f[n - 1], bs[n], host)
      /\ \A n \in 1 .. m : g[n] = take(g[n - 1], cs[n], host)
  BY ValuesRun DEF f, g
<1>. SUFFICES ASSUME S # {} PROVE FALSE
  BY DEF f, g
<1>0. S \in SUBSET Nat
  OBVIOUS
<1>2. PICK n \in S : \A k \in S : n <= k
  BY <1>0, LeastNumber
<1>3. n # 0
  BY <1>1, <1>2
<1>4. n \in 1 .. m /\ n - 1 \in 0 .. m /\ n - 1 \notin S
  BY <1>2, <1>3
<1>. QED BY <1>1, <1>2, <1>4

ReadStates == {"reading", "ready", "failed", "expanding", "done", "cycle", "too_long"}

ReadingType ==
  /\ active \in Seq([file : Files, rest : Seq(Files)])
  /\ blocks \in Seq(Blocks)
  /\ opened \in Nat /\ directives \in Nat
  /\ given \in [BOOLEAN -> [Aliases -> Readings]]
  /\ state \in ReadStates
  /\ Reading => active # <<>> /\ blocks # <<>>

\* No file is read while it is being read, and an end is set to every reading.
ReadingBounded ==
  /\ Len(active) <= MaxDepth /\ opened <= MaxFiles /\ directives <= MaxDirectives
  /\ \A i, j \in DOMAIN active : i # j => active[i].file # active[j].file

\* What the lines gave a host is what the blocks give it, and they are for it
\* when the last block is.
HostAsRead(h) ==
  /\ given[FALSE][h].values = ValuesAfter(h, blocks)[Len(blocks)]
  /\ blocks # <<>> =>
       given[FALSE][h].on = selector_matches(Top(blocks).selector, h,
                              ValuesAfter(h, blocks)[Len(blocks) - 1])
AsRead == \A h \in Aliases : HostAsRead(h)

ReadingInv == ReadingType /\ ReadingBounded /\ AsRead

LEMMA Associative ==
  ASSUME NEW T, NEW a \in Seq(T), NEW b \in Seq(T), NEW c \in Seq(T)
  PROVE  a \o (b \o c) = (a \o b) \o c
  BY ConcatAssociative

LEMMA EmptyBlock ==
  ASSUME NEW v \in OptionValues, NEW selector, NEW host
  PROVE  take(v, Block(selector), host) = v
<1>1. \A k \in Options : v[k] \in Seq(Given) /\ Unset[k] = <<>>
  BY DEF OptionValues, Unset
<1>2. \A k \in Options : Merged(v, k, Unset[k]) = v[k]
  <2>. TAKE k \in Options
  <2>1. v[k] \o <<>> = v[k]
    BY <1>1, ConcatEmptySeq
  <2>. QED BY <1>1, <2>1, Zenon DEF Merged
<1>3. [k \in Options |-> Merged(v, k, Unset[k])] = v
  BY <1>2 DEF OptionValues
<1>. QED BY <1>3 DEF take, Block

\* An option that is added to a block, and what a host gets of a block.
Added(o, name, x) == [o EXCEPT ![name] = Merged(o, name, <<x>>)]
MergedWith(w, o) == [k \in Options |-> Merged(w, k, o[k])]

LEMMA OptionAdded ==
  ASSUME NEW o \in OptionValues, NEW name \in Options,
         NEW x \in Given, name = "proxyjump" => x \in Seq(Aliases)
  PROVE  Added(o, name, x) \in OptionValues
<1>. DEFINE p == [o EXCEPT ![name] = Merged(o, name, <<x>>)]
<1>1. o \in [Options -> Seq(Given)]
  BY DEF OptionValues
<1>2. <<x>> \in Seq(Given) /\ (name = "proxyjump" => <<x>> \in Seq(Seq(Aliases)))
  OBVIOUS
<1>3. /\ Merged(o, name, <<x>>) \in Seq(Given)
      /\ name = "proxyjump" => Merged(o, name, <<x>>) \in Seq(Seq(Aliases))
  BY <1>2, MergedType
<1>4. p \in [Options -> Seq(Given)]
  BY <1>1, <1>3
<1>5. "proxyjump" \in Options
  BY DEF Options, SingleKeys
<1>6. p["proxyjump"] \in Seq(Seq(Aliases))
  BY <1>1, <1>3, <1>5 DEF OptionValues
<1>. QED BY <1>4, <1>6 DEF OptionValues, Added

\* It reaches the host unless it is there already, or collects every line.
LEMMA OneMoreOption ==
  ASSUME NEW w \in OptionValues, NEW o \in OptionValues, NEW name \in Options,
         NEW x \in Given
  PROVE  MergedWith(w, Added(o, name, x)) =
           IF name \in MULTI_VALUE_KEYS \/ MergedWith(w, o)[name] = <<>>
           THEN [MergedWith(w, o) EXCEPT ![name] = Append(MergedWith(w, o)[name], x)]
           ELSE MergedWith(w, o)
<1>. DEFINE v == [k \in Options |-> Merged(w, k, o[k])]
            p == [o EXCEPT ![name] = Merged(o, name, <<x>>)]
            u == [k \in Options |-> Merged(w, k, p[k])]
<1>. SUFFICES u = IF name \in MULTI_VALUE_KEYS \/ v[name] = <<>>
                  THEN [v EXCEPT ![name] = Append(v[name], x)] ELSE v
  BY DEF MergedWith, Added
<1>1. o \in [Options -> Seq(Given)] /\ w \in [Options -> Seq(Given)]
  BY DEF OptionValues
<1>2. <<x>> \in Seq(Given)
  OBVIOUS
<1>3. ASSUME NEW k \in Options, k # name PROVE u[k] = v[k]
  BY <1>1, <1>3
<1>4. u[name] = Merged(w, name, Merged(o, name, <<x>>)) /\ v[name] = Merged(w, name, o[name])
  BY <1>1
<1>5. CASE name \in MULTI_VALUE_KEYS
  <2>1. u[name] = w[name] \o (o[name] \o <<x>>) /\ v[name] = w[name] \o o[name]
    BY <1>4, <1>5 DEF Merged
  <2>2. w[name] \in Seq(Given) /\ o[name] \in Seq(Given)
    BY <1>1
  <2>3. u[name] = (w[name] \o o[name]) \o <<x>>
    <3>0. \A a, b, c \in Seq(Given) : a \o (b \o c) = (a \o b) \o c
      BY Associative
    <3>1. w[name] \o (o[name] \o <<x>>) = (w[name] \o o[name]) \o <<x>>
      BY <1>2, <2>2, <3>0, Zenon
    <3>. QED BY <2>1, <3>1, Zenon
  <2>4. v[name] \in Seq(Given)
    BY <2>1, <2>2, ConcatProperties
  <2>5. u[name] = Append(v[name], x)
    BY <2>1, <2>3, <2>4, AppendIsConcat
  <2>6. u = [v EXCEPT ![name] = Append(@, x)]
    BY <1>3, <2>5
  <2>. QED BY <1>5, <2>6
<1>6. CASE name \notin MULTI_VALUE_KEYS /\ v[name] = <<>>
  <2>1. w[name] = <<>> /\ o[name] = <<>>
    BY <1>4, <1>6 DEF Merged
  <2>2. u[name] = <<x>>
    BY <1>4, <1>6, <2>1 DEF Merged
  <2>3. u[name] = Append(v[name], x)
    <3>1. <<>> \in Seq(Given)
      OBVIOUS
    <3>2. Append(<<>>, x) = <<>> \o <<x>> /\ <<>> \o <<x>> = <<x>>
      BY <1>2, <3>1, AppendIsConcat, ConcatEmptySeq
    <3>. QED BY <1>6, <2>2, <3>2
  <2>4. u = [v EXCEPT ![name] = Append(@, x)]
    BY <1>3, <2>3
  <2>. QED BY <1>6, <2>4
<1>7. CASE name \notin MULTI_VALUE_KEYS /\ v[name] # <<>>
  <2>1. u[name] = v[name]
    BY <1>4, <1>7 DEF Merged
  <2>2. u = v
    BY <1>3, <2>1
  <2>. QED BY <1>7, <2>2
<1>. QED BY <1>5, <1>6, <1>7

LEMMA LineType ==
  ASSUME NEW st \in Readings, NEW line, NEW host, NEW nested \in BOOLEAN,
         line \in Directives \/ line.op \in {"begin", "end"}
  PROVE  Line(st, line, host, nested) \in Readings
<1>. DEFINE s == Line(st, line, host, nested)
<1>1. st.on \in BOOLEAN /\ st.outer \in Seq(BOOLEAN) /\ st.values \in OptionValues
  BY DEF Readings
<1>2. CASE line.op = "select"
  <2>1. s = [st EXCEPT !.on = /\ nested /\ st.outer # <<>> => st.outer[1]
                              /\ selector_matches(line.selector, host, st.values)]
    BY <1>2 DEF Line
  <2>. QED BY <1>1, <2>1 DEF Readings
<1>3. CASE line.op = "set"
  <2>1. line \in Directives /\ line.key \in Options /\ line.value \in Given
        /\ (line.key = "proxyjump" => line.value \in Seq(Aliases))
    BY <1>3, ConfigAssumption DEF Given, SetLines
  <2>2. s = IF st.on /\ (line.key \in MULTI_VALUE_KEYS \/ st.values[line.key] = <<>>)
            THEN [st EXCEPT !.values[line.key] = Append(@, line.value)] ELSE st
    BY <1>3 DEF Line
  <2>. DEFINE v == [st.values EXCEPT ![line.key] = Append(@, line.value)]
  <2>3. st.values \in [Options -> Seq(Given)] /\ st.values["proxyjump"] \in Seq(Seq(Aliases))
    BY <1>1 DEF OptionValues
  <2>4. v \in [Options -> Seq(Given)]
    BY <2>1, <2>3
  <2>5. v["proxyjump"] \in Seq(Seq(Aliases))
    BY <2>1, <2>3 DEF Options, SingleKeys
  <2>6. v \in OptionValues
    BY <2>4, <2>5 DEF OptionValues
  <2>. HIDE DEF v
  <2>7. [st EXCEPT !.values = v] \in Readings
    BY <2>6 DEF Readings
  <2>. QED BY <2>2, <2>7 DEF v
<1>4. CASE line.op = "begin" /\ nested
  <2>1. <<st.on>> \in Seq(BOOLEAN)
    BY <1>1
  <2>2. <<st.on>> \o st.outer \in Seq(BOOLEAN)
    BY <1>1, <2>1, ConcatProperties
  <2>3. s = [st EXCEPT !.outer = <<st.on>> \o @]
    BY <1>4 DEF Line
  <2>. QED BY <2>2, <2>3 DEF Readings
<1>5. CASE line.op = "end" /\ nested /\ st.outer # <<>>
  <2>1. st.outer[1] \in BOOLEAN /\ Tail(st.outer) \in Seq(BOOLEAN)
    <3>1. Len(st.outer) \in Nat \ {0} /\ 1 \in 1 .. Len(st.outer)
      BY <1>1, <1>5, EmptySeq
    <3>. QED BY <1>1, <1>5, <3>1, HeadTailProperties, ElementOfSeq
  <2>. QED BY <1>5, <2>1 DEF Line, Readings
<1>6. CASE line.op \notin {"select", "set"} /\ ~(line.op = "begin" /\ nested)
           /\ ~(line.op = "end" /\ nested /\ st.outer # <<>>)
  BY <1>6 DEF Line
<1>. QED BY <1>2, <1>3, <1>4, <1>5, <1>6

LEMMA GiveType ==
  ASSUME NEW line, line \in Directives \/ line.op \in {"begin", "end"},
         given \in [BOOLEAN -> [Aliases -> Readings]], Give(line)
  PROVE  /\ given' \in [BOOLEAN -> [Aliases -> Readings]]
         /\ \A h \in Aliases : given'[FALSE][h] = Line(given[FALSE][h], line, h, FALSE)
<1>1. \A nested \in BOOLEAN, h \in Aliases : given[nested][h] \in Readings
  OBVIOUS
<1>2. \A nested \in BOOLEAN, h \in Aliases :
        Line(given[nested][h], line, h, nested) \in Readings
  BY <1>1, LineType
<1>3. given' = [nested \in BOOLEAN |->
                 [h \in Aliases |-> Line(given[nested][h], line, h, nested)]]
  BY DEF Give
<1>. QED BY <1>2, <1>3, Zenon

\* Two sequences that agree up to the last of the shorter.
LEMMA AppendBlock ==
  ASSUME NEW bs \in Seq(Blocks), NEW b \in Blocks, NEW h
  PROVE  LET after == ValuesAfter(h, Append(bs, b))
         IN /\ after[Len(bs)] = ValuesAfter(h, bs)[Len(bs)]
            /\ after[Len(bs) + 1] = take(after[Len(bs)], b, h)
<1>. DEFINE cs == Append(bs, b)
<1>1. /\ cs \in Seq(Blocks) /\ Len(cs) = Len(bs) + 1 /\ Len(bs) \in Nat
      /\ \A i \in 1 .. Len(bs) : cs[i] = bs[i]
      /\ cs[Len(bs) + 1] = b
  BY AppendProperties, LenProperties
<1>. HIDE DEF cs
<1>2. \A n \in 0 .. Len(bs) : ValuesAfter(h, cs)[n] = ValuesAfter(h, bs)[n]
  BY <1>1, ValuesAgree
<1>3. ValuesAfter(h, cs)[Len(bs) + 1] = take(ValuesAfter(h, cs)[(Len(bs) + 1) - 1], cs[Len(bs) + 1], h)
  BY <1>1, ValuesRun
<1>4. (Len(bs) + 1) - 1 = Len(bs)
  BY <1>1
<1>5. Len(bs) \in 0 .. Len(bs)
  BY <1>1
<1>. QED BY <1>1, <1>2, <1>3, <1>4, <1>5, Zenon DEF cs

LEMMA ExceptBlock ==
  ASSUME NEW bs \in Seq(Blocks), bs # <<>>, NEW b \in Blocks, NEW h,
         NEW cs, cs = OnTop(bs, b), NEW w, w = ValuesAfter(h, bs)[Len(bs) - 1]
  PROVE  /\ cs \in Seq(Blocks) /\ Len(cs) = Len(bs) /\ cs[Len(bs)] = b
         /\ w \in OptionValues
         /\ ValuesAfter(h, bs)[Len(bs)] = take(w, Top(bs), h)
         /\ ValuesAfter(h, cs)[Len(bs) - 1] = w
         /\ ValuesAfter(h, cs)[Len(bs)] = take(w, b, h)
<1>. DEFINE n == Len(bs)
<1>1. n \in Nat \ {0} /\ n \in 1 .. n /\ n - 1 \in 0 .. n /\ n - 1 \in Nat /\ n - 1 <= n
      /\ n - 1 \in 0 .. n - 1
  BY EmptySeq
<1>2. /\ cs \in Seq(Blocks) /\ Len(cs) = n /\ cs[n] = b
      /\ \A i \in 1 .. n - 1 : cs[i] = bs[i]
  BY <1>1, ExceptSeq DEF OnTop
<1>. HIDE DEF n
<1>3. ValuesAfter(h, bs)[n] = take(ValuesAfter(h, bs)[n - 1], bs[n], h)
      /\ ValuesAfter(h, bs)[n - 1] \in OptionValues
  BY <1>1, ValuesRun DEF n
<1>4. ValuesAfter(h, cs)[n] = take(ValuesAfter(h, cs)[n - 1], cs[n], h)
  BY <1>1, <1>2, ValuesRun
<1>5. ValuesAfter(h, cs)[n - 1] = ValuesAfter(h, bs)[n - 1]
  <2>1. n - 1 <= Len(bs)
    BY <1>1 DEF n
  <2>. QED BY <1>1, <1>2, <2>1, ValuesAgree
<1>. QED BY <1>2, <1>3, <1>4, <1>5, Zenon DEF n, Top

LEMMA ReadingInit == ConfigInit => ReadingInv
<1>. SUFFICES ASSUME ConfigInit PROVE ReadingInv
  OBVIOUS
<1>1. given = [nested \in BOOLEAN |->
                [h \in Aliases |-> [on |-> TRUE, outer |-> <<>>, values |-> Unset]]]
  BY DEF ConfigInit
<1>2. given \in [BOOLEAN -> [Aliases -> Readings]]
  <2>1. [on |-> TRUE, outer |-> <<>>, values |-> Unset] \in Readings
    BY UnsetType DEF Readings
  <2>. QED BY <1>1, <2>1
<1>3. \A h \in Aliases : given[FALSE][h].on = TRUE /\ given[FALSE][h].values = Unset
  BY <1>1
<1>4. implicit_block \in Blocks
  BY UnsetType DEF implicit_block, Block, Blocks, Selectors
<1>5. CASE /\ active = <<[file |-> Main, rest |-> <<>>]>>
           /\ blocks = <<implicit_block>> /\ opened = 1 /\ state = "reading" /\ directives = 0
  <2>1. [file |-> Main, rest |-> <<>>] \in [file : Files, rest : Seq(Files)]
    BY ConfigAssumption
  <2>2. active \in Seq([file : Files, rest : Seq(Files)]) /\ Len(active) = 1 /\ active # <<>>
    BY <1>5, <2>1
  <2>3. blocks \in Seq(Blocks) /\ Len(blocks) = 1 /\ blocks # <<>> /\ blocks[1] = implicit_block
    BY <1>4, <1>5
  <2>4. ReadingType
    BY <1>2, <1>5, <2>2, <2>3 DEF ReadingType, ReadStates
  <2>5. ReadingBounded
    BY <1>5, <2>2, ConfigAssumption DEF ReadingBounded
  <2>6. ASSUME NEW h \in Aliases
        PROVE  /\ ValuesAfter(h, blocks)[0] = Unset /\ ValuesAfter(h, blocks)[1] = Unset
               /\ selector_matches(implicit_block.selector, h, Unset) = TRUE
    <3>1. 1 \in 1 .. Len(blocks) /\ 1 - 1 = 0
      BY <2>3
    <3>2. ValuesAfter(h, blocks)[0] = Unset
          /\ ValuesAfter(h, blocks)[1] = take(ValuesAfter(h, blocks)[0], blocks[1], h)
      BY <2>3, <3>1, ValuesRun
    <3>3. take(Unset, implicit_block, h) = Unset
      BY UnsetType, EmptyBlock DEF implicit_block
    <3>4. selector_matches(<<Everyone>>, h, Unset)
      <4>1. pattern_list_matches(h, <<"*">>, {})
        BY DEF pattern_list_matches
      <4>2. /\ Everyone.kind = "originalhost" /\ Everyone.negated = FALSE
            /\ Everyone.patterns = <<"*">> /\ Everyone.except = {}
        BY DEF Everyone
      <4>3. \A i \in DOMAIN <<Everyone>> : <<Everyone>>[i] = Everyone
        OBVIOUS
      <4>4. /\ "originalhost" # "host" /\ "originalhost" # "user"
            /\ "originalhost" # "never" /\ "originalhost" \in {"host", "originalhost", "user"}
        OBVIOUS
      <4>. QED BY <4>1, <4>2, <4>3, <4>4, Zenon DEF selector_matches
    <3>5. selector_matches(implicit_block.selector, h, Unset) \in BOOLEAN
      BY SelectorTruth
    <3>. QED BY <2>3, <3>2, <3>3, <3>4, <3>5 DEF implicit_block, Block
  <2>7. AsRead
    <3>1. 1 - 1 = 0
      OBVIOUS
    <3>2. ASSUME NEW h \in Aliases PROVE HostAsRead(h)
      BY <1>3, <2>3, <2>6, <3>1, Zenon DEF HostAsRead, Top
    <3>. QED BY <3>2 DEF AsRead
  <2>. QED BY <2>4, <2>5, <2>7 DEF ReadingInv
<1>6. CASE /\ active = <<>> /\ blocks = <<>> /\ opened = 0 /\ state = "ready"
           /\ directives = 0
  <2>1. ReadingType
    BY <1>2, <1>6 DEF ReadingType, ReadStates, Reading
  <2>2. ReadingBounded
    BY <1>6, ConfigAssumption DEF ReadingBounded
  <2>3. AsRead
    <3>1. blocks \in Seq(Blocks) /\ Len(blocks) = 0
      BY <1>6
    <3>2. \A h \in Aliases : ValuesAfter(h, blocks)[0] = Unset
      BY <3>1, ValuesRun
    <3>. QED BY <1>3, <1>6, <3>1, <3>2, Zenon DEF AsRead, HostAsRead
  <2>. QED BY <2>1, <2>2, <2>3 DEF ReadingInv
<1>. QED BY <1>5, <1>6 DEF ConfigInit

\* What the reader has does not change: it gives up, or it is done.
LEMMA ReaderStands ==
  ASSUME ReadingInv, UNCHANGED reader, state' \in ReadStates, ~Reading'
  PROVE  ReadingInv'
<1>1. UNCHANGED <<active, blocks, opened, directives, given>>
  BY DEF reader
<1>2. ReadingType'
  BY <1>1 DEF ReadingInv, ReadingType
<1>3. ReadingBounded'
  BY <1>1 DEF ReadingInv, ReadingBounded
<1>4. AsRead'
  BY <1>1 DEF ReadingInv, AsRead, HostAsRead
<1>. QED BY <1>2, <1>3, <1>4 DEF ReadingInv

\* A line that begins or ends an included file is nothing to who reads on.
LEMMA NoLine ==
  ASSUME ReadingInv, NEW line, line.op \in {"begin", "end"}, Give(line),
         UNCHANGED blocks
  PROVE  given' \in [BOOLEAN -> [Aliases -> Readings]] /\ AsRead'
<1>1. /\ given' \in [BOOLEAN -> [Aliases -> Readings]]
      /\ \A h \in Aliases : given'[FALSE][h] = Line(given[FALSE][h], line, h, FALSE)
  BY GiveType DEF ReadingInv, ReadingType
<1>2. \A h \in Aliases : given'[FALSE][h] = given[FALSE][h]
  BY <1>1 DEF Line
<1>3. ASSUME NEW h \in Aliases PROVE HostAsRead(h)'
  BY <1>2 DEF ReadingInv, AsRead, HostAsRead
<1>. QED BY <1>1, <1>3 DEF AsRead

LEMMA SelectIsRead ==
  ASSUME ReadingInv, NEW d \in Directives, d.op = "select", Give(d),
         blocks' = Append(blocks, Block(d.selector)), NEW h \in Aliases
  PROVE  HostAsRead(h)'
<1>. DEFINE b == Block(d.selector)
            v == given[FALSE][h].values
            n == Len(blocks)
<1>1. /\ blocks \in Seq(Blocks) /\ given \in [BOOLEAN -> [Aliases -> Readings]]
      /\ HostAsRead(h)
  BY DEF ReadingInv, ReadingType, AsRead
<1>2. b \in Blocks /\ b.selector = d.selector
  BY UnsetType DEF Block, Blocks, Selectors
<1>3. given'[FALSE][h] = Line(given[FALSE][h], d, h, FALSE)
  BY <1>1, GiveType
<1>4. given[FALSE][h] \in Readings /\ v \in OptionValues
  BY <1>1 DEF Readings
<1>5. given'[FALSE][h].values = v /\ given'[FALSE][h].on = selector_matches(d.selector, h, v)
  <2>1. given'[FALSE][h] = [given[FALSE][h] EXCEPT !.on =
           /\ FALSE /\ given[FALSE][h].outer # <<>> => given[FALSE][h].outer[1]
           /\ selector_matches(d.selector, h, v)]
    BY <1>3, Zenon DEF Line
  <2>2. (/\ FALSE /\ given[FALSE][h].outer # <<>> => given[FALSE][h].outer[1]
         /\ selector_matches(d.selector, h, v)) = selector_matches(d.selector, h, v)
    BY SelectorTruth
  <2>3. given[FALSE][h] = [on |-> given[FALSE][h].on, outer |-> given[FALSE][h].outer,
                          values |-> given[FALSE][h].values]
    BY <1>4 DEF Readings
  <2>4. given'[FALSE][h] = [given[FALSE][h] EXCEPT !.on = selector_matches(d.selector, h, v)]
    BY <2>1, <2>2, Zenon
  <2>. QED BY <1>4, <2>4 DEF Readings
<1>6. /\ blocks' # <<>> /\ Len(blocks') = n + 1 /\ Top(blocks') = b /\ n \in Nat
      /\ (n + 1) - 1 = n
  BY <1>1, <1>2, AppendProperties DEF Top
<1>7. v = ValuesAfter(h, blocks)[n]
  BY <1>1 DEF HostAsRead
<1>. HIDE DEF b
<1>8. /\ ValuesAfter(h, blocks')[n] = v
      /\ ValuesAfter(h, blocks')[n + 1] = take(v, b, h)
  BY <1>1, <1>2, <1>7, AppendBlock DEF b
<1>9. take(v, b, h) = v
  BY <1>4, EmptyBlock DEF b
<1>. HIDE DEF n, v
<1>. QED BY <1>2, <1>5, <1>6, <1>8, <1>9, Zenon DEF HostAsRead

LEMMA SetIsRead ==
  ASSUME ReadingInv, blocks # <<>>, NEW d \in Directives, d.op = "set", Give(d),
         blocks' = Set(d), NEW h \in Aliases
  PROVE  HostAsRead(h)'
<1>. DEFINE n == Len(blocks)
            last == Top(blocks)
            name == d.key
            p == Added(last.options, name, d.value)
            b == [last EXCEPT !.options = p]
            w == ValuesAfter(h, blocks)[n - 1]
            st == given[FALSE][h]
<1>1. /\ blocks \in Seq(Blocks) /\ given \in [BOOLEAN -> [Aliases -> Readings]]
      /\ HostAsRead(h)
  BY DEF ReadingInv, ReadingType, AsRead
<1>2. name \in Options /\ d.value \in Given /\ (name = "proxyjump" => d.value \in Seq(Aliases))
  BY ConfigAssumption DEF Given, SetLines
<1>3. last \in Blocks /\ last.options \in OptionValues
  <2>1. n \in 1 .. Len(blocks)
    BY <1>1, EmptySeq
  <2>2. last \in Blocks
    BY <1>1, <2>1, ElementOfSeq DEF Top
  <2>. HIDE DEF last
  <2>. QED BY <2>2 DEF Blocks
<1>4. p \in OptionValues
  BY <1>2, <1>3, OptionAdded
<1>5. b \in Blocks /\ b.selector = last.selector /\ b.options = p
  <2>. HIDE DEF p, last
  <2>. QED BY <1>3, <1>4 DEF Blocks
<1>6. blocks' = OnTop(blocks, b)
  <2>1. b = [last EXCEPT !.options[name] = Merged(last.options, name, <<d.value>>)]
    BY <1>3 DEF Blocks, Added
  <2>. QED BY <2>1 DEF Set
<1>. HIDE DEF b, n, w, p
<1>7. /\ blocks' \in Seq(Blocks) /\ Len(blocks') = n /\ blocks'[n] = b
      /\ w \in OptionValues
      /\ ValuesAfter(h, blocks)[n] = take(w, last, h)
      /\ ValuesAfter(h, blocks')[n - 1] = w
      /\ ValuesAfter(h, blocks')[n] = take(w, b, h)
  <2>1. w = ValuesAfter(h, blocks)[Len(blocks) - 1]
    BY DEF w, n
  <2>. QED BY <1>1, <1>5, <1>6, <2>1, ExceptBlock DEF n
<1>8. blocks' # <<>> /\ Top(blocks') = b
  BY <1>1, <1>7, EmptySeq DEF Top, n
<1>9. st.values = take(w, last, h) /\ st.on = selector_matches(last.selector, h, w)
  BY <1>1, <1>7, Zenon DEF HostAsRead, n, w
<1>10. st \in Readings
  BY <1>1
<1>11. given'[FALSE][h] = IF st.on /\ (name \in MULTI_VALUE_KEYS \/ st.values[name] = <<>>)
                          THEN [st EXCEPT !.values[name] = Append(@, d.value)] ELSE st
  BY <1>1, GiveType DEF Line
<1>12. given'[FALSE][h].on = st.on
  BY <1>10, <1>11 DEF Readings
<1>13. given'[FALSE][h].values = take(w, b, h)
  <2>1. CASE ~st.on
    BY <1>5, <1>9, <1>11, <2>1, Zenon DEF take
  <2>2. CASE st.on
    <3>. DEFINE v == MergedWith(w, last.options)
    <3>1. st.values = v
      BY <1>9, <2>2, Zenon DEF take, MergedWith
    <3>2. take(w, b, h) = MergedWith(w, p)
      BY <1>5, <1>9, <2>2, Zenon DEF take, MergedWith
    <3>3. MergedWith(w, p) = IF name \in MULTI_VALUE_KEYS \/ v[name] = <<>>
                            THEN [v EXCEPT ![name] = Append(v[name], d.value)] ELSE v
      <4>. HIDE DEF last, name
      <4>1. \A o \in OptionValues, k \in Options, x \in Given :
              MergedWith(w, Added(o, k, x)) =
                IF k \in MULTI_VALUE_KEYS \/ MergedWith(w, o)[k] = <<>>
                THEN [MergedWith(w, o) EXCEPT ![k] = Append(MergedWith(w, o)[k], x)]
                ELSE MergedWith(w, o)
        BY <1>7, OneMoreOption, Zenon
      <4>2. last.options \in OptionValues /\ name \in Options /\ d.value \in Given
        BY <1>2, <1>3
      <4>. QED BY <4>1, <4>2, Zenon DEF p
    <3>. HIDE DEF v
    <3>. QED BY <1>10, <1>11, <2>2, <3>1, <3>2, <3>3 DEF Readings
  <2>. QED BY <2>1, <2>2
<1>. QED BY <1>5, <1>7, <1>8, <1>9, <1>12, <1>13, Zenon DEF HostAsRead

LEMMA FrontFacts ==
  ASSUME NEW T, NEW s \in Seq(T), s # <<>>
  PROVE  /\ Len(s) \in Nat \ {0}
         /\ Front(s) \in Seq(T) /\ Len(Front(s)) = Len(s) - 1
         /\ \A i \in 1 .. Len(s) - 1 : Front(s)[i] = s[i]
         /\ Last(s) = s[Len(s)] /\ Last(s) \in T
<1>. DEFINE n == Len(s) - 1
<1>1. Len(s) \in Nat \ {0} /\ n \in Nat /\ n \in Int /\ 1 \in Int /\ Len(s) \in 1 .. Len(s)
  BY EmptySeq
<1>2. \A i \in 1 .. n : s[i] \in T
  BY <1>1, ElementOfSeq
<1>3. Front(s) = SubSeq(s, 1, n)
  BY DEF Front
<1>4. /\ SubSeq(s, 1, n) \in Seq(T) /\ Len(SubSeq(s, 1, n)) = IF 1 <= n THEN n - 1 + 1 ELSE 0
      /\ \A i \in 1 .. n - 1 + 1 : SubSeq(s, 1, n)[i] = s[1 + i - 1]
  <2>. HIDE DEF n
  <2>. QED BY <1>1, <1>2, SubSeqProperties
<1>5. s[Len(s)] \in T
  BY <1>1, ElementOfSeq
<1>6. /\ Len(SubSeq(s, 1, n)) = n
      /\ \A i \in 1 .. n : SubSeq(s, 1, n)[i] = s[i]
  <2>. HIDE DEF n
  <2>. QED BY <1>1, <1>4
<1>7. Last(s) = s[Len(s)]
  BY DEF Last
<1>. HIDE DEF n
<1>. QED BY <1>1, <1>3, <1>4, <1>5, <1>6, <1>7, Zenon DEF n

FramesType == [file : Files, rest : Seq(Files)]

LEMMA ReadLineStep ==
  ASSUME ReadingInv, NEW d \in Directives, ReadLine(d)
  PROVE  ReadingInv'
<1>1. /\ Reading /\ active # <<>> /\ blocks # <<>> /\ Give(d) /\ state' = state
      /\ directives' = directives + 1 /\ directives < MaxDirectives /\ opened' = opened
  BY DEF ReadLine, ReadingInv, ReadingType
<1>2. /\ active \in Seq(FramesType) /\ blocks \in Seq(Blocks)
      /\ Len(active) \in 1 .. Len(active) /\ Len(active) \in Nat
  <2>1. active \in Seq(FramesType) /\ blocks \in Seq(Blocks)
    BY DEF ReadingInv, ReadingType, FramesType
  <2>. QED BY <1>1, <2>1, EmptySeq
<1>3. given' \in [BOOLEAN -> [Aliases -> Readings]]
  BY <1>1, GiveType DEF ReadingInv, ReadingType
<1>4. /\ active' \in Seq(FramesType) /\ Len(active') = Len(active)
      /\ \A i \in 1 .. Len(active) : active'[i].file = active[i].file
  <2>1. CASE d.op = "include"
    <3>. DEFINE frame == [Top(active) EXCEPT !.rest = d.files]
    <3>1. Top(active) \in FramesType
      BY <1>2, ElementOfSeq DEF Top
    <3>2. frame \in FramesType /\ frame.file = Top(active).file
      BY <2>1, <3>1, ConfigAssumption DEF FramesType
    <3>3. active' = [active EXCEPT ![Len(active)] = frame]
      BY <2>1 DEF ReadLine, OnTop
    <3>. HIDE DEF frame
    <3>. QED BY <1>2, <3>2, <3>3, ExceptSeq DEF Top
  <2>2. CASE d.op # "include"
    <3>1. active' = active
      BY <2>2 DEF ReadLine
    <3>. QED BY <1>2, <3>1
  <2>. QED BY <2>1, <2>2
<1>5. ReadingBounded'
  <2>1. \A i \in DOMAIN active' : i \in DOMAIN active /\ active'[i].file = active[i].file
    BY <1>2, <1>4, LenProperties
  <2>2. directives \in Nat /\ MaxDirectives \in Nat
    BY ConfigAssumption DEF ReadingInv, ReadingType
  <2>. QED BY <1>1, <1>4, <2>1, <2>2 DEF ReadingInv, ReadingBounded
<1>6. active' # <<>>
  BY <1>2, <1>4
<1>7. blocks' \in Seq(Blocks) /\ blocks' # <<>> /\ AsRead'
  <2>1. CASE d.op = "select"
    <3>1. blocks' = Append(blocks, Block(d.selector))
      BY <2>1 DEF ReadLine
    <3>2. Block(d.selector) \in Blocks
      BY <2>1, UnsetType DEF Block, Blocks, Selectors
    <3>3. blocks' \in Seq(Blocks) /\ blocks' # <<>>
      BY <1>2, <3>1, <3>2, AppendProperties
    <3>4. AsRead'
      BY <1>1, <2>1, <3>1, SelectIsRead DEF AsRead
    <3>. QED BY <3>3, <3>4
  <2>2. CASE d.op = "set"
    <3>1. blocks' = Set(d)
      BY <2>2 DEF ReadLine
    <3>2. blocks' \in Seq(Blocks) /\ blocks' # <<>>
      <4>. DEFINE last == Top(blocks)
                  p == Added(last.options, d.key, d.value)
                  b == [last EXCEPT !.options = p]
      <4>1. Len(blocks) \in 1 .. Len(blocks)
        BY <1>1, <1>2, EmptySeq
      <4>2. last \in Blocks
        BY <1>2, <4>1, ElementOfSeq DEF Top
      <4>3. /\ d.key \in Options /\ d.value \in Given
            /\ d.key = "proxyjump" => d.value \in Seq(Aliases)
        BY <2>2, ConfigAssumption DEF Given, SetLines
      <4>4. last.options \in OptionValues
        <5>. HIDE DEF last
        <5>. QED BY <4>2 DEF Blocks
      <4>5. p \in OptionValues
        BY <4>3, <4>4, OptionAdded
      <4>6. b \in Blocks
        <5>. HIDE DEF last, p
        <5>. QED BY <4>2, <4>5 DEF Blocks
      <4>7. blocks' = [blocks EXCEPT ![Len(blocks)] = b]
        BY <3>1, <4>2 DEF Set, OnTop, Added, Blocks
      <4>. HIDE DEF b
      <4>. QED BY <1>2, <4>1, <4>6, <4>7, ExceptSeq, EmptySeq
    <3>3. AsRead'
      BY <1>1, <2>2, <3>1, SetIsRead DEF AsRead
    <3>. QED BY <3>2, <3>3
  <2>3. CASE d.op = "include"
    <3>1. blocks' = blocks
      BY <2>3 DEF ReadLine
    <3>2. \A h \in Aliases : given'[FALSE][h] = given[FALSE][h]
      <4>1. \A h \in Aliases : given'[FALSE][h] = Line(given[FALSE][h], d, h, FALSE)
        BY <1>1, GiveType DEF ReadingInv, ReadingType
      <4>. QED BY <2>3, <4>1 DEF Line
    <3>3. ASSUME NEW h \in Aliases PROVE HostAsRead(h)'
      BY <3>1, <3>2 DEF ReadingInv, AsRead, HostAsRead
    <3>. QED BY <1>1, <1>2, <3>1, <3>3 DEF AsRead
  <2>. QED BY <2>1, <2>2, <2>3, ConfigAssumption DEF Ops
<1>8. ReadingType'
  BY <1>1, <1>3, <1>4, <1>6, <1>7 DEF ReadingType, ReadingInv, FramesType
<1>. QED BY <1>5, <1>7, <1>8 DEF ReadingInv

LEMMA OpenIncludedStep == ReadingInv /\ OpenIncluded => ReadingInv'
<1>. SUFFICES ASSUME ReadingInv, OpenIncluded PROVE ReadingInv'
  OBVIOUS
<1>. DEFINE frame == Top(active)
            f == Head(frame.rest)
            n == Len(active)
<1>1. active \in Seq(FramesType) /\ n \in 1 .. n /\ n \in Nat /\ frame.rest # <<>> /\ Reading
  <2>1. active \in Seq(FramesType) /\ active # <<>> /\ Reading /\ frame.rest # <<>>
    BY DEF OpenIncluded, ReadingInv, ReadingType, FramesType
  <2>. QED BY <2>1, EmptySeq
<1>2. CASE Refused(f)
  <2>1. UNCHANGED reader /\ state' = "failed"
    BY <1>2 DEF OpenIncluded, GiveUpReading
  <2>. QED BY <2>1, ReaderStands DEF ReadStates, Reading
<1>3. CASE ~Refused(f)
  <2>1. /\ active' = Append(OnTop(active, [frame EXCEPT !.rest = Tail(@)]),
                           [file |-> f, rest |-> <<>>])
        /\ opened' = opened + 1 /\ Give([op |-> "begin"])
        /\ UNCHANGED <<blocks, directives, state>>
    BY <1>3 DEF OpenIncluded
  <2>2. frame \in FramesType
    BY <1>1, ElementOfSeq DEF Top
  <2>3. f \in Files /\ Tail(frame.rest) \in Seq(Files)
    <3>1. frame.rest \in Seq(Files)
      <4>. HIDE DEF frame
      <4>. QED BY <2>2 DEF FramesType
    <3>. QED BY <1>1, <3>1, HeadTailProperties
  <2>. DEFINE next == [frame EXCEPT !.rest = Tail(@)]
              below == [active EXCEPT ![n] = next]
              top == [file |-> f, rest |-> <<>>]
  <2>4. next \in FramesType /\ next.file = frame.file /\ top \in FramesType /\ top.file = f
    <3>. HIDE DEF frame, f
    <3>. QED BY <2>2, <2>3 DEF FramesType
  <2>5. active' = Append(below, top)
    BY <2>1 DEF OnTop
  <2>. HIDE DEF next, top
  <2>6. /\ below \in Seq(FramesType) /\ Len(below) = n
        /\ \A i \in 1 .. n : below[i].file = active[i].file
    BY <1>1, <2>4, ExceptSeq DEF Top
  <2>. HIDE DEF below
  <2>7. /\ active' \in Seq(FramesType) /\ Len(active') = n + 1 /\ active' # <<>>
        /\ \A i \in 1 .. n : active'[i].file = active[i].file
        /\ active'[n + 1].file = f
    BY <1>1, <2>4, <2>5, <2>6, AppendProperties
  <2>8. given' \in [BOOLEAN -> [Aliases -> Readings]] /\ AsRead'
    BY <2>1, NoLine
  <2>9. ReadingType'
    <3>1. opened' = opened + 1 /\ UNCHANGED <<blocks, directives, state>>
      BY <2>1
    <3>2. active' \in Seq(FramesType) /\ active' # <<>>
      BY <2>7
    <3>3. given' \in [BOOLEAN -> [Aliases -> Readings]]
      BY <2>8
    <3>. QED BY <1>1, <3>1, <3>2, <3>3 DEF ReadingInv, ReadingType, FramesType, Reading
  <2>10. ReadingBounded'
    <3>1. n < MaxDepth /\ opened < MaxFiles
      <4>1. opened \in Nat /\ MaxFiles \in Nat /\ MaxDepth \in Nat
        BY ConfigAssumption DEF ReadingInv, ReadingType
      <4>. QED BY <1>1, <1>3, <4>1 DEF Refused
    <3>2. \A i \in 1 .. n : active[i].file # f
      BY <1>1, <1>3, LenProperties DEF Refused, IsActive
    <3>3. \A i, j \in 1 .. n : i # j => active[i].file # active[j].file
      BY <1>1, LenProperties DEF ReadingInv, ReadingBounded
    <3>4. DOMAIN active' = 1 .. n + 1
      BY <2>7, LenProperties
    <3>5. \A i, j \in 1 .. n + 1 : i # j => active'[i].file # active'[j].file
      <4>. TAKE i, j \in 1 .. n + 1
      <4>1. i \in 1 .. n \/ i = n + 1
        BY <1>1
      <4>2. j \in 1 .. n \/ j = n + 1
        BY <1>1
      <4>. HIDE DEF n, f
      <4>. QED BY <2>7, <3>2, <3>3, <4>1, <4>2
    <3>6. Len(active') <= MaxDepth /\ opened' <= MaxFiles
      <4>1. opened \in Nat /\ MaxFiles \in Nat /\ MaxDepth \in Nat
        BY ConfigAssumption DEF ReadingInv, ReadingType
      <4>2. opened' = opened + 1 /\ Len(active') = n + 1 /\ n \in Nat
        BY <1>1, <2>1, <2>7
      <4>. HIDE DEF n
      <4>. QED BY <3>1, <4>1, <4>2
    <3>. QED BY <2>1, <3>4, <3>5, <3>6 DEF ReadingInv, ReadingBounded
  <2>. QED BY <2>8, <2>9, <2>10 DEF ReadingInv
<1>. QED BY <1>2, <1>3

LEMMA EndOfFileStep == ReadingInv /\ EndOfFile => ReadingInv'
<1>. SUFFICES ASSUME ReadingInv, EndOfFile PROVE ReadingInv'
  OBVIOUS
<1>1. /\ active' = Front(active) /\ Give([op |-> "end"])
      /\ state' = IF Len(active) = 1 THEN "ready" ELSE "reading"
      /\ UNCHANGED <<blocks, opened, directives>>
  BY DEF EndOfFile
<1>2. active \in Seq(FramesType) /\ active # <<>> /\ blocks # <<>>
  BY DEF EndOfFile, ReadingInv, ReadingType, FramesType
<1>3. /\ active' \in Seq(FramesType) /\ Len(active') = Len(active) - 1
      /\ \A i \in 1 .. Len(active) - 1 : active'[i] = active[i]
      /\ Len(active) \in Nat \ {0}
  BY <1>1, <1>2, FrontFacts
<1>4. given' \in [BOOLEAN -> [Aliases -> Readings]] /\ AsRead'
  BY <1>1, NoLine
<1>5. Reading' => active' # <<>>
  <2>1. Reading' => Len(active') # 0
    BY <1>1, <1>3 DEF Reading
  <2>2. Len(<<>>) = 0
    OBVIOUS
  <2>. QED BY <2>1, <2>2
<1>6. ReadingType'
  BY <1>1, <1>2, <1>3, <1>4, <1>5 DEF ReadingInv, ReadingType, ReadStates, FramesType
<1>7. ReadingBounded'
  <2>1. DOMAIN active' = 1 .. Len(active) - 1 /\ DOMAIN active = 1 .. Len(active)
    BY <1>2, <1>3, LenProperties
  <2>2. MaxDepth \in Nat
    BY ConfigAssumption
  <2>. QED BY <1>1, <1>3, <2>1, <2>2 DEF ReadingInv, ReadingBounded
<1>. QED BY <1>4, <1>6, <1>7 DEF ReadingInv

LEMMA ReadingStep == ReadingInv /\ [ConfigNext]_config => ReadingInv'
<1>. SUFFICES ASSUME ReadingInv, [ConfigNext]_config PROVE ReadingInv'
  OBVIOUS
<1>1. CASE \E d \in Directives : ReadLine(d)
  BY <1>1, ReadLineStep
<1>2. CASE ReadFails
  BY <1>2, ReaderStands DEF ReadFails, GiveUpReading, ReadStates, Reading
<1>3. CASE OpenIncluded
  BY <1>3, OpenIncludedStep
<1>4. CASE EndOfFile
  BY <1>4, EndOfFileStep
<1>5. CASE \E r \in Routes : Ask(r)
  BY <1>5, ReaderStands DEF Ask, ReadStates, Reading
<1>6. CASE Enter
  BY <1>6, ReaderStands DEF Enter, ReadStates, Reading, Expanding
<1>7. CASE Leave
  BY <1>7, ReaderStands DEF Leave, ReadStates, Reading, Expanding
<1>8. CASE UNCHANGED config
  BY <1>8 DEF config, reader, ReadingInv, ReadingType, ReadingBounded, AsRead, HostAsRead, Reading
<1>. QED BY <1>1, <1>2, <1>3, <1>4, <1>5, <1>6, <1>7, <1>8 DEF ConfigNext

\* FirstValueWins: for any file and any lines, a host gets of the blocks what the
\* lines give it, the first value of each option with each condition checked
\* where it stands.
THEOREM FirstValuesWin == ConfigSpec => []FirstValueWins
<1>1. ReadingInv => FirstValueWins
  BY DEF ReadingInv, AsRead, HostAsRead, FirstValueWins, resolve
<1>. QED BY <1>1, ReadingInit, ReadingStep, PTL DEF ConfigSpec
----
(* Chains: what is in front of a host. *)

LEMMA ConcatFacts ==
  ASSUME NEW T, NEW l \in Seq(T), NEW r \in Seq(T)
  PROVE  /\ l \o r \in Seq(T) /\ Len(l \o r) = Len(l) + Len(r)
         /\ Len(l) \in Nat /\ Len(r) \in Nat
         /\ l \o <<>> = l /\ <<>> \o r = r
         /\ r # <<>> => l \o r # <<>>
<1>1. Len(l) \in Nat /\ Len(r) \in Nat /\ l \o r \in Seq(T) /\ Len(l \o r) = Len(l) + Len(r)
  BY ConcatProperties, LenProperties
<1>2. l \o <<>> = l /\ <<>> \o r = r
  BY ConcatEmptySeq
<1>3. r # <<>> => Len(r) # 0
  BY EmptySeq
<1>4. Len(<<>>) = 0
  BY EmptySeq
<1>5. r # <<>> => l \o r # <<>>
  BY <1>1, <1>3, <1>4
<1>. QED BY <1>1, <1>2, <1>5

\* Lists of hosts, for the provers that do not find the set of the elements.
LEMMA HostsConcat ==
  ASSUME NEW l \in Seq(Aliases), NEW r \in Seq(Aliases)
  PROVE  l \o r \in Seq(Aliases)
  BY ConcatProperties

Regroups(a, b, c) == a \o (b \o c) = (a \o b) \o c

LEMMA HostsAssociative ==
  ASSUME NEW a \in Seq(Aliases), NEW b \in Seq(Aliases), NEW c \in Seq(Aliases)
  PROVE  Regroups(a, b, c)
  BY ConcatAssociative DEF Regroups

LEMMA FrontOfConcat ==
  ASSUME NEW T, NEW l \in Seq(T), NEW r \in Seq(T), r # <<>>
  PROVE  Front(l \o r) = l \o Front(r) /\ Last(l \o r) = Last(r)
<1>1. l \o r \in Seq(T) /\ l \o r # <<>> /\ Len(l \o r) = Len(l) + Len(r)
      /\ Len(l) \in Nat /\ Len(r) \in Nat \ {0}
  BY ConcatFacts, FrontFacts
<1>2. \A i \in 1 .. Len(l) + Len(r) : (l \o r)[i] = IF i <= Len(l) THEN l[i] ELSE r[i - Len(l)]
  BY ConcatProperties
<1>3. /\ Front(r) \in Seq(T) /\ Len(Front(r)) = Len(r) - 1
      /\ \A i \in 1 .. Len(r) - 1 : Front(r)[i] = r[i]
      /\ Last(r) = r[Len(r)]
  BY FrontFacts
<1>4. /\ l \o Front(r) \in Seq(T) /\ Len(l \o Front(r)) = Len(l) + Len(r) - 1
      /\ \A i \in 1 .. Len(l) + (Len(r) - 1) :
           (l \o Front(r))[i] = IF i <= Len(l) THEN l[i] ELSE Front(r)[i - Len(l)]
  <2>. DEFINE s == Front(r)
  <2>. HIDE DEF s
  <2>1. s \in Seq(T) /\ Len(s) = Len(r) - 1
    BY <1>3 DEF s
  <2>2. /\ l \o s \in Seq(T) /\ Len(l \o s) = Len(l) + Len(s)
        /\ \A i \in 1 .. Len(l) + Len(s) : (l \o s)[i] = IF i <= Len(l) THEN l[i] ELSE s[i - Len(l)]
    BY <2>1, ConcatProperties
  <2>. QED BY <1>1, <2>1, <2>2 DEF s
<1>5. /\ Front(l \o r) \in Seq(T) /\ Len(Front(l \o r)) = Len(l) + Len(r) - 1
      /\ \A i \in 1 .. Len(l) + Len(r) - 1 : Front(l \o r)[i] = (l \o r)[i]
      /\ Last(l \o r) = (l \o r)[Len(l) + Len(r)]
  <2>. DEFINE w == l \o r
  <2>. HIDE DEF w
  <2>1. w \in Seq(T) /\ w # <<>> /\ Len(w) = Len(l) + Len(r)
    BY <1>1 DEF w
  <2>2. /\ Front(w) \in Seq(T) /\ Len(Front(w)) = Len(w) - 1
        /\ \A i \in 1 .. Len(w) - 1 : Front(w)[i] = w[i]
        /\ Last(w) = w[Len(w)]
    BY <2>1, FrontFacts
  <2>. QED BY <2>1, <2>2 DEF w
<1>6. \A i \in 1 .. Len(l) + Len(r) - 1 : Front(l \o r)[i] = (l \o Front(r))[i]
  <2>. TAKE i \in 1 .. Len(l) + Len(r) - 1
  <2>1. i \in 1 .. Len(l) + Len(r) /\ i \in 1 .. Len(l) + (Len(r) - 1)
    BY <1>1
  <2>2. CASE i <= Len(l)
    BY <1>2, <1>4, <1>5, <2>1, <2>2
  <2>3. CASE ~(i <= Len(l))
    <3>1. i - Len(l) \in 1 .. Len(r) - 1
      BY <1>1, <2>3
    <3>. QED BY <1>2, <1>3, <1>4, <1>5, <2>1, <2>3, <3>1
  <2>. QED BY <2>2, <2>3
<1>7. Front(l \o r) = l \o Front(r)
  BY <1>4, <1>5, <1>6, SeqEqual
<1>8. Last(l \o r) = Last(r)
  <2>1. Len(l) + Len(r) \in 1 .. Len(l) + Len(r) /\ ~(Len(l) + Len(r) <= Len(l))
        /\ Len(l) + Len(r) - Len(l) = Len(r)
    BY <1>1
  <2>. QED BY <1>2, <1>3, <1>5, <2>1
<1>. QED BY <1>7, <1>8

\* One host less at the end, and its jumps instead.
LEMMA OneStep ==
  ASSUME NEW jumps \in [Aliases -> Seq(Aliases)], NEW l \in Seq(Aliases)
  PROVE  /\ BehindItsJumps(jumps, l) \in Seq(Aliases)
         /\ BehindItsJumps(jumps, <<>>) = <<>>
         /\ Len(BehindItsJumps(jumps, l)) >= Len(l) - 1
         /\ \A r \in Seq(Aliases) : r # <<>> =>
              BehindItsJumps(jumps, l \o r) = l \o BehindItsJumps(jumps, r)
         /\ \A h \in Aliases : BehindItsJumps(jumps, Append(l, h)) = l \o jumps[h]
<1>1. BehindItsJumps(jumps, <<>>) = <<>>
  BY DEF BehindItsJumps
<1>2. BehindItsJumps(jumps, l) \in Seq(Aliases) /\ Len(BehindItsJumps(jumps, l)) >= Len(l) - 1
  <2>1. CASE l = <<>>
    <3>1. Len(l) = 0 /\ <<>> \in Seq(Aliases)
      BY <2>1, EmptySeq
    <3>2. BehindItsJumps(jumps, l) = l
      BY <1>1, <2>1, Zenon
    <3>3. l \in Seq(Aliases) /\ Len(l) >= Len(l) - 1
      BY <3>1
    <3>. QED BY <3>2, <3>3, Zenon
  <2>2. CASE l # <<>>
    <3>1. /\ Front(l) \in Seq(Aliases) /\ Len(Front(l)) = Len(l) - 1 /\ jumps[Last(l)] \in Seq(Aliases)
          /\ Len(l) \in Nat
      BY <2>2, FrontFacts
    <3>2. BehindItsJumps(jumps, l) = Front(l) \o jumps[Last(l)]
      BY <2>2 DEF BehindItsJumps
    <3>. QED BY <3>1, <3>2, ConcatFacts
  <2>. QED BY <2>1, <2>2
<1>3. ASSUME NEW r \in Seq(Aliases), r # <<>>
      PROVE  BehindItsJumps(jumps, l \o r) = l \o BehindItsJumps(jumps, r)
  <2>1. l \o r # <<>>
    BY <1>3, ConcatFacts
  <2>2. BehindItsJumps(jumps, l \o r) = Front(l \o r) \o jumps[Last(l \o r)]
    BY <2>1 DEF BehindItsJumps
  <2>3. BehindItsJumps(jumps, r) = Front(r) \o jumps[Last(r)]
    BY <1>3 DEF BehindItsJumps
  <2>4. Front(l \o r) = l \o Front(r) /\ Last(l \o r) = Last(r)
    BY <1>3, FrontOfConcat
  <2>5. Front(r) \in Seq(Aliases) /\ jumps[Last(r)] \in Seq(Aliases)
    BY <1>3, FrontFacts
  <2>6. (l \o Front(r)) \o jumps[Last(r)] = l \o (Front(r) \o jumps[Last(r)])
    <3>. DEFINE a == Front(r)
                b == jumps[Last(r)]
    <3>. HIDE DEF a, b
    <3>1. a \in Seq(Aliases) /\ b \in Seq(Aliases)
      BY <2>5 DEF a, b
    <3>2. Regroups(l, a, b)
      BY <3>1, HostsAssociative, Zenon
    <3>. QED BY <3>2, Zenon DEF a, b, Regroups
  <2>. QED BY <2>2, <2>3, <2>4, <2>6, Zenon
<1>4. ASSUME NEW h \in Aliases PROVE BehindItsJumps(jumps, Append(l, h)) = l \o jumps[h]
  <2>1. /\ <<h>> \in Seq(Aliases) /\ <<h>> # <<>> /\ Len(<<h>>) = 1 /\ <<h>>[1] = h
        /\ jumps[h] \in Seq(Aliases)
    OBVIOUS
  <2>2. Append(l, h) = l \o <<h>>
    BY AppendIsConcat
  <2>3. /\ Last(<<h>>) = h /\ Front(<<h>>) \in Seq(Aliases) /\ Len(Front(<<h>>)) = 0
    <3>. DEFINE w == <<h>>
    <3>. HIDE DEF w
    <3>1. w \in Seq(Aliases) /\ w # <<>> /\ Len(w) = 1 /\ w[1] = h
      BY <2>1 DEF w
    <3>2. Last(w) = w[Len(w)] /\ Front(w) \in Seq(Aliases) /\ Len(Front(w)) = Len(w) - 1
      BY <3>1, FrontFacts, Zenon
    <3>3. Last(w) = h /\ Front(w) \in Seq(Aliases) /\ Len(Front(w)) = 0
      BY <3>1, <3>2
    <3>. QED BY <3>3 DEF w
  <2>4. Front(<<h>>) = <<>>
    BY <2>3, EmptySeq
  <2>5. BehindItsJumps(jumps, <<h>>) = jumps[h]
    BY <2>1, <2>3, <2>4, ConcatFacts DEF BehindItsJumps
  <2>. QED BY <1>3, <2>1, <2>2, <2>5
<1>. QED BY <1>1, <1>2, <1>3, <1>4

\* The steps as a function, for the lemmas on runs.
JumpStep(jumps) == [n \in Nat |-> [l \in Seq(Aliases) |-> BehindItsJumps(jumps, l)]]

LEMMA InFrontRuns ==
  ASSUME NEW jumps \in [Aliases -> Seq(Aliases)], NEW list \in Seq(Aliases)
  PROVE  /\ InFront(jumps, list) \in [Nat -> Seq(Aliases)]
         /\ InFront(jumps, list)[0] = list
         /\ \A n \in Nat : InFront(jumps, list)[n + 1] = BehindItsJumps(jumps, InFront(jumps, list)[n])
<1>. DEFINE IsIt(f) == f = [n \in Nat |-> IF n = 0 THEN list ELSE BehindItsJumps(jumps, f[n - 1])]
<1>1. JumpStep(jumps) \in [Nat -> [Seq(Aliases) -> Seq(Aliases)]]
  BY OneStep DEF JumpStep
<1>2. PICK f \in [Nat -> Seq(Aliases)] : \A n \in Nat : IsRun(f, list, JumpStep(jumps), n)
  BY <1>1, EndlessRun
<1>3. f[0] = list
  BY <1>2 DEF IsRun
<1>4. ASSUME NEW n \in Nat, n # 0 PROVE f[n] = BehindItsJumps(jumps, f[n - 1])
  <2>1. n \in 1 .. n /\ n - 1 \in Nat
    BY <1>4
  <2>2. f[n] = JumpStep(jumps)[n][f[n - 1]] /\ f[n - 1] \in Seq(Aliases)
    BY <1>2, <2>1 DEF IsRun
  <2>3. JumpStep(jumps)[n] = [l \in Seq(Aliases) |-> BehindItsJumps(jumps, l)]
    BY Zenon DEF JumpStep
  <2>. QED BY <2>2, <2>3, Zenon
<1>5. \E g : IsIt(g)
  <2>1. IsIt(f)
    BY <1>3, <1>4
  <2>. QED BY <2>1
<1>6. IsIt(InFront(jumps, list))
  BY <1>5 DEF InFront
<1>. DEFINE g == InFront(jumps, list)
<1>. HIDE DEF g
<1>7. IsIt(g)
  BY <1>6 DEF g
<1>8. g[0] = list
  BY <1>7
<1>9. \A n \in Nat : g[n + 1] = BehindItsJumps(jumps, g[n])
  <2>. TAKE n \in Nat
  <2>1. n + 1 \in Nat /\ n + 1 # 0 /\ (n + 1) - 1 = n
    OBVIOUS
  <2>. QED BY <1>7, <2>1
<1>10. \A n \in Nat : g[n] \in Seq(Aliases)
  <2>. DEFINE S == {n \in Nat : g[n] \notin Seq(Aliases)}
  <2>. SUFFICES ASSUME S # {} PROVE FALSE
    OBVIOUS
  <2>0. S \in SUBSET Nat
    OBVIOUS
  <2>1. PICK n \in S : \A m \in S : n <= m
    BY <2>0, LeastNumber
  <2>2. n # 0
    BY <1>8, <2>1
  <2>3. n - 1 \in Nat /\ n - 1 \notin S /\ (n - 1) + 1 = n
    BY <2>1, <2>2
  <2>4. g[n - 1] \in Seq(Aliases) /\ g[n] = BehindItsJumps(jumps, g[n - 1])
    BY <1>9, <2>3
  <2>. QED BY <2>1, <2>4, OneStep
<1>11. g \in [Nat -> Seq(Aliases)]
  BY <1>7, <1>10
<1>. QED BY <1>8, <1>9, <1>11 DEF g

\* Two runs of the same steps from the same list.
LEMMA InFrontShift ==
  ASSUME NEW jumps \in [Aliases -> Seq(Aliases)], NEW list \in Seq(Aliases),
         NEW k \in Nat, NEW n \in Nat
  PROVE  InFront(jumps, list)[k + n] = InFront(jumps, InFront(jumps, list)[k])[n]
<1>. DEFINE f == InFront(jumps, list)
            g == InFront(jumps, f[k])
            S == {i \in Nat : f[k + i] # g[i]}
<1>1. f \in [Nat -> Seq(Aliases)] /\ \A i \in Nat : f[i + 1] = BehindItsJumps(jumps, f[i])
  BY InFrontRuns
<1>2. f[k] \in Seq(Aliases)
  BY <1>1
<1>3. g[0] = f[k] /\ \A i \in Nat : g[i + 1] = BehindItsJumps(jumps, g[i])
  <2>. HIDE DEF f
  <2>. QED BY <1>2, InFrontRuns
<1>. HIDE DEF f, g
<1>. SUFFICES ASSUME S # {} PROVE FALSE
  BY DEF f, g
<1>4. S \in SUBSET Nat
  OBVIOUS
<1>5. PICK i \in S : \A m \in S : i <= m
  BY <1>4, LeastNumber
<1>6. i # 0
  BY <1>3, <1>5
<1>7. i - 1 \in Nat /\ i - 1 \notin S /\ (i - 1) + 1 = i /\ k + i = (k + (i - 1)) + 1
      /\ k + (i - 1) \in Nat
  BY <1>5, <1>6
<1>. QED BY <1>1, <1>3, <1>5, <1>7

LEMMA StaysEmpty ==
  ASSUME NEW jumps \in [Aliases -> Seq(Aliases)], NEW list \in Seq(Aliases),
         NEW k \in Nat, NEW n \in Nat, k <= n, InFront(jumps, list)[k] = <<>>
  PROVE  InFront(jumps, list)[n] = <<>>
<1>. DEFINE f == InFront(jumps, list)
            S == {i \in Nat : k <= i /\ f[i] # <<>>}
<1>1. \A i \in Nat : f[i + 1] = BehindItsJumps(jumps, f[i])
  BY InFrontRuns
<1>2. BehindItsJumps(jumps, <<>>) = <<>>
  BY DEF BehindItsJumps
<1>. HIDE DEF f
<1>. SUFFICES ASSUME S # {} PROVE FALSE
  BY DEF f
<1>4. S \in SUBSET Nat
  OBVIOUS
<1>5. PICK i \in S : \A m \in S : i <= m
  BY <1>4, LeastNumber
<1>6. i # k
  BY <1>5 DEF f
<1>7. i - 1 \in Nat /\ i - 1 \notin S /\ (i - 1) + 1 = i /\ k <= i - 1
  BY <1>5, <1>6
<1>. QED BY <1>1, <1>2, <1>5, <1>7

\* The hosts before a list stay where they are until it is expanded.
LEMMA PrefixStays ==
  ASSUME NEW jumps \in [Aliases -> Seq(Aliases)], NEW l \in Seq(Aliases),
         NEW r \in Seq(Aliases), NEW n \in Nat,
         \A i \in 0 .. n - 1 : InFront(jumps, r)[i] # <<>>
  PROVE  InFront(jumps, l \o r)[n] = l \o InFront(jumps, r)[n]
<1>. DEFINE f == InFront(jumps, l \o r)
            g == InFront(jumps, r)
            S == {i \in 0 .. n : f[i] # l \o g[i]}
<1>1. l \o r \in Seq(Aliases)
  BY ConcatFacts
<1>2. f[0] = l \o r /\ \A i \in Nat : f[i + 1] = BehindItsJumps(jumps, f[i])
  BY <1>1, InFrontRuns
<1>3. /\ g[0] = r /\ g \in [Nat -> Seq(Aliases)]
      /\ \A i \in Nat : g[i + 1] = BehindItsJumps(jumps, g[i])
  BY InFrontRuns
<1>4. \A i \in 0 .. n - 1 : g[i] # <<>>
  OBVIOUS
<1>. HIDE DEF f, g
<1>. SUFFICES f[n] = l \o g[n]
  BY DEF f, g
<1>0. n \in 0 .. n
  OBVIOUS
<1>. SUFFICES ASSUME S # {} PROVE FALSE
  BY <1>0
<1>5. S \in SUBSET Nat
  OBVIOUS
<1>6. PICK i \in S : \A m \in S : i <= m
  BY <1>5, LeastNumber
<1>7. i # 0
  BY <1>2, <1>3, <1>6
<1>8. i - 1 \in Nat /\ i - 1 \notin S /\ (i - 1) + 1 = i /\ i - 1 \in 0 .. n - 1
      /\ i - 1 \in 0 .. n
  BY <1>6, <1>7
<1>9. f[i - 1] = l \o g[i - 1] /\ g[i - 1] # <<>> /\ g[i - 1] \in Seq(Aliases)
  BY <1>3, <1>4, <1>8
<1>10. f[i] = BehindItsJumps(jumps, f[i - 1]) /\ g[i] = BehindItsJumps(jumps, g[i - 1])
  BY <1>2, <1>3, <1>8
<1>11. BehindItsJumps(jumps, l \o g[i - 1]) = l \o BehindItsJumps(jumps, g[i - 1])
  BY <1>9, OneStep
<1>12. f[i] = l \o g[i]
  BY <1>9, <1>10, <1>11, Zenon
<1>. QED BY <1>6, <1>12

\* Not faster than one host at a time.
LEMMA NotFaster ==
  ASSUME NEW jumps \in [Aliases -> Seq(Aliases)], NEW list \in Seq(Aliases), NEW n \in Nat
  PROVE  Len(InFront(jumps, list)[n]) + n >= Len(list)
<1>. DEFINE f == InFront(jumps, list)
            S == {i \in Nat : ~(Len(f[i]) + i >= Len(list))}
<1>1. /\ f \in [Nat -> Seq(Aliases)] /\ f[0] = list
      /\ \A i \in Nat : f[i + 1] = BehindItsJumps(jumps, f[i])
  BY InFrontRuns
<1>. HIDE DEF f
<1>. SUFFICES ASSUME S # {} PROVE FALSE
  BY DEF f
<1>2. S \in SUBSET Nat /\ Len(list) \in Nat
  BY LenProperties
<1>3. PICK i \in S : \A m \in S : i <= m
  BY <1>2, LeastNumber
<1>4. i # 0
  BY <1>1, <1>2, <1>3
<1>5. i - 1 \in Nat /\ i - 1 \notin S /\ (i - 1) + 1 = i
  BY <1>3, <1>4
<1>6. /\ f[i - 1] \in Seq(Aliases) /\ f[i] = BehindItsJumps(jumps, f[i - 1])
      /\ f[i] \in Seq(Aliases)
  BY <1>1, <1>3, <1>5
<1>7. Len(f[i]) >= Len(f[i - 1]) - 1 /\ Len(f[i]) \in Nat /\ Len(f[i - 1]) \in Nat
  BY <1>6, OneStep, LenProperties
<1>8. Len(f[i - 1]) + (i - 1) >= Len(list)
  BY <1>5
<1>. QED BY <1>2, <1>3, <1>7, <1>8

\* A list that is expanded to its end was once expanded up to any host of it.
LEMMA Passes ==
  ASSUME NEW jumps \in [Aliases -> Seq(Aliases)], NEW l \in Seq(Aliases),
         NEW r \in Seq(Aliases), NEW n \in Nat, InFront(jumps, l \o r)[n] = <<>>
  PROVE  \E k \in Nat : k >= Len(r) /\ k <= n /\ InFront(jumps, l \o r)[k] = l
<1>. DEFINE g == InFront(jumps, r)
            S == {i \in Nat : g[i] = <<>>}
<1>1. g \in [Nat -> Seq(Aliases)]
  BY InFrontRuns
<1>3. \E k \in S : k <= n
  <2>. SUFFICES ASSUME \A k \in S : ~(k <= n) PROVE FALSE
    OBVIOUS
  <2>1. \A i \in 0 .. n : g[i] # <<>>
    OBVIOUS
  <2>2. InFront(jumps, l \o r)[n] = l \o g[n]
    <3>1. \A i \in 0 .. n - 1 : InFront(jumps, r)[i] # <<>>
      BY <2>1
    <3>. QED BY <3>1, PrefixStays
  <2>3. g[n] # <<>> /\ g[n] \in Seq(Aliases)
    BY <1>1, <2>1
  <2>4. l \o g[n] # <<>>
    <3>. HIDE DEF g
    <3>. QED BY <2>3, ConcatFacts
  <2>. QED BY <2>2, <2>4
<1>. HIDE DEF g
<1>4. S \in SUBSET Nat /\ S # {}
  BY <1>3
<1>5. PICK k \in S : \A m \in S : k <= m
  BY <1>4, LeastNumber
<1>6. k \in Nat /\ g[k] = <<>> /\ k <= n /\ \A i \in 0 .. k - 1 : g[i] # <<>>
  BY <1>3, <1>5
<1>7. InFront(jumps, l \o r)[k] = l \o <<>>
  <2>1. \A i \in 0 .. k - 1 : InFront(jumps, r)[i] # <<>>
    BY <1>6 DEF g
  <2>2. InFront(jumps, l \o r)[k] = l \o InFront(jumps, r)[k]
    BY <1>6, <2>1, PrefixStays
  <2>. QED BY <1>6, <2>2, Zenon DEF g
<1>8. Len(g[k]) + k >= Len(r)
  BY <1>6, NotFaster DEF g
<1>9. k >= Len(r)
  BY <1>6, <1>8
<1>. QED BY <1>6, <1>7, <1>9, ConcatFacts

\* The chain of a list is extended by a host behind the chain of its jumps.
LEMMA ChainGrows ==
  ASSUME NEW jumps \in [Aliases -> Seq(Aliases)], NEW l \in Seq(Aliases),
         NEW h \in Aliases, NEW hosts \in Seq(Aliases),
         IsChainOf(jumps, l \o jumps[h], hosts)
  PROVE  IsChainOf(jumps, Append(l, h), Append(hosts, h))
<1>. DEFINE a == Append(l, h)
            b == l \o jumps[h]
            f == InFront(jumps, a)
            g == InFront(jumps, b)
            n == Len(hosts)
            more == Append(hosts, h)
<1>1. a \in Seq(Aliases) /\ b \in Seq(Aliases) /\ a # <<>> /\ Len(a) = Len(l) + 1
      /\ a[Len(l) + 1] = h
  <2>1. a \in Seq(Aliases) /\ a # <<>> /\ Len(a) = Len(l) + 1 /\ a[Len(l) + 1] = h
    BY AppendProperties
  <2>2. jumps[h] \in Seq(Aliases)
    OBVIOUS
  <2>3. b \in Seq(Aliases)
    BY <2>2, ConcatFacts
  <2>. QED BY <2>1, <2>3, Zenon
<1>2. f[0] = a /\ f[0 + 1] = BehindItsJumps(jumps, f[0])
  <2>. DEFINE w == InFront(jumps, a)
  <2>1. a \in Seq(Aliases)
    BY <1>1
  <2>. HIDE DEF a
  <2>2. w[0] = a /\ \A i \in Nat : w[i + 1] = BehindItsJumps(jumps, w[i])
    BY <2>1, InFrontRuns, Zenon
  <2>. HIDE DEF w
  <2>3. w[0] = a /\ w[0 + 1] = BehindItsJumps(jumps, w[0])
    BY <2>2
  <2>. QED BY <2>3 DEF w
<1>3. BehindItsJumps(jumps, a) = b
  BY OneStep
<1>4. f[1] = b
  BY <1>2, <1>3
<1>5. Last(a) = h
  BY <1>1 DEF Last
<1>6. g[n] = <<>> /\ \A i \in 0 .. n - 1 : g[i] # <<>> /\ Last(g[i]) = hosts[n - i]
  BY DEF IsChainOf
<1>7. /\ n \in Nat /\ Len(more) = n + 1 /\ more[n + 1] = h
      /\ \A i \in 1 .. n : more[i] = hosts[i]
  BY AppendProperties, LenProperties
<1>. HIDE DEF a, b, n, more
<1>8. \A i \in Nat : f[1 + i] = g[i]
  <2>1. \A i \in Nat : InFront(jumps, a)[1 + i] = InFront(jumps, InFront(jumps, a)[1])[i]
    <3>1. 1 \in Nat
      OBVIOUS
    <3>. QED BY <1>1, <3>1, InFrontShift, Zenon
  <2>. QED BY <1>4, <2>1, Zenon
<1>. HIDE DEF f, g
<1>9. f[n + 1] = <<>>
  <2>1. n + 1 = 1 + n
    BY <1>7
  <2>. QED BY <1>6, <1>7, <1>8, <2>1
<1>10. ASSUME NEW i \in 0 .. n PROVE f[i] # <<>> /\ Last(f[i]) = more[(n + 1) - i]
  <2>1. CASE i = 0
    <3>1. (n + 1) - i = n + 1
      BY <1>7, <2>1
    <3>. QED BY <1>1, <1>2, <1>5, <1>7, <2>1, <3>1
  <2>2. CASE i # 0
    <3>1. /\ i - 1 \in 0 .. n - 1 /\ i - 1 \in Nat /\ 1 + (i - 1) = i /\ n - (i - 1) \in 1 .. n
          /\ (n + 1) - i = n - (i - 1)
      BY <1>7, <2>2
    <3>2. f[i] = g[i - 1]
      BY <1>8, <3>1
    <3>3. g[i - 1] # <<>> /\ Last(g[i - 1]) = hosts[n - (i - 1)]
      BY <1>6, <3>1
    <3>. QED BY <1>7, <3>1, <3>2, <3>3
  <2>. QED BY <2>1, <2>2
<1>11. (n + 1) - 1 = n
  BY <1>7
<1>12. IsChainOf(jumps, a, more)
  BY <1>7, <1>9, <1>10, <1>11, Zenon DEF IsChainOf, f
<1>. QED BY <1>12 DEF a, more
----
(* The stack of expand_chain, its chain so far, and what both make of a route. *)

Calls == [alias : Aliases \cup {"none"}, jumps : Seq(Aliases), next : Nat]

\* Each call but the first is for the jump that its caller has just taken.
Stacked(jumps, list, cs) ==
  /\ cs \in Seq(Calls) /\ cs # <<>> /\ cs[1].jumps = list
  /\ \A i \in 1 .. Len(cs) : cs[i].next \in 1 .. Len(cs[i].jumps) + 1
  /\ \A i \in 2 .. Len(cs) :
       /\ cs[i].alias \in Aliases /\ cs[i].jumps = jumps[cs[i].alias]
       /\ cs[i - 1].next >= 2
       /\ cs[i - 1].jumps[cs[i - 1].next - 1] = cs[i].alias

\* The jumps of a call that are done: not the one that a call above is for.
DoneUpTo(cs, i) == cs[i].next - (IF i = Len(cs) THEN 1 ELSE 2)
DoneOf(cs, i) == SubSeq(cs[i].jumps, 1, DoneUpTo(cs, i))

Ordered(jumps, hosts) ==
  \A q \in 1 .. Len(hosts) : \A x \in ToSet(jumps[hosts[q]]) :
    \E p \in 1 .. q - 1 : hosts[p] = x

DoneAreOut(cs, hosts) ==
  \A i \in 1 .. Len(cs) : \A p \in 1 .. DoneUpTo(cs, i) :
    \E q \in 1 .. Len(hosts) : hosts[q] = cs[i].jumps[p]

Nested(jumps, cs) ==
  \A i, j \in 2 .. Len(cs) : i < j => cs[j].alias \in Beyond(jumps, cs[i].alias)

\* base[i]: the list of what is done below a call. What is done so far has the
\* chain for its chain, and a list that is expanded to its end in max steps comes
\* past the jumps of every call.
Accounts(jumps, list, cs, hosts, max, base) ==
  /\ base \in [1 .. Len(cs) -> Seq(Aliases)]
  /\ base[1] = <<>>
  /\ \A i \in 1 .. Len(cs) - 1 : base[i + 1] = base[i] \o DoneOf(cs, i)
  /\ IsChainOf(jumps, base[Len(cs)] \o DoneOf(cs, Len(cs)), hosts)
  /\ InFront(jumps, list)[max] = <<>> =>
       \A i \in 1 .. Len(cs) :
         \E k \in Nat : k >= i - 1 /\ InFront(jumps, list)[k] = base[i] \o cs[i].jumps

\* expand_chain calls itself for the next jump h of the last call.
Called(cs, h, jumps) ==
  Append(OnTop(cs, [Top(cs) EXCEPT !.next = @ + 1]),
         [alias |-> h, jumps |-> jumps[h], next |-> 1])

\* The stack then, call by call; m is how many there were.
IsCalled(jumps, cs, h, ds, m) ==
  /\ m = Len(cs) /\ m \in Nat \ {0} /\ h \in Aliases
  /\ ds \in Seq(Calls) /\ ds # <<>> /\ Len(ds) = m + 1
  /\ \A i \in 1 .. m - 1 : ds[i] = cs[i]
  /\ ds[m].alias = cs[m].alias /\ ds[m].jumps = cs[m].jumps
  /\ ds[m].next = cs[m].next + 1
  /\ ds[m + 1].alias = h /\ ds[m + 1].jumps = jumps[h] /\ ds[m + 1].next = 1
  /\ \A i \in 1 .. m + 1 : ds[i].jumps \in Seq(Aliases) /\ Len(ds[i].jumps) \in Nat
  /\ \A i \in 1 .. m :
       /\ cs[i].jumps \in Seq(Aliases) /\ Len(cs[i].jumps) \in Nat
       /\ cs[i].next \in Nat \ {0} /\ ds[i].jumps = cs[i].jumps

LEMMA CalledIs ==
  ASSUME NEW jumps \in [Aliases -> Seq(Aliases)], NEW list, NEW cs, Stacked(jumps, list, cs),
         cs[Len(cs)].next <= Len(cs[Len(cs)].jumps), NEW h,
         h = cs[Len(cs)].jumps[cs[Len(cs)].next]
  PROVE  IsCalled(jumps, cs, h, Called(cs, h, jumps), Len(cs))
<1>. DEFINE m == Len(cs)
            ds == Called(cs, h, jumps)
            frame == [cs[m] EXCEPT !.next = @ + 1]
            top == [alias |-> h, jumps |-> jumps[h], next |-> 1]
            below == [cs EXCEPT ![m] = frame]
<1>1. cs \in Seq(Calls) /\ m \in Nat \ {0} /\ m \in 1 .. m
  BY EmptySeq DEF Stacked
<1>2. \A i \in 1 .. m : cs[i] \in Calls
  BY <1>1, ElementOfSeq
<1>3. \A i \in 1 .. m : cs[i].jumps \in Seq(Aliases) /\ cs[i].next \in Nat \ {0} /\ Len(cs[i].jumps) \in Nat
  <2>1. \A c \in Calls : c.jumps \in Seq(Aliases) /\ c.next \in Nat
    BY DEF Calls
  <2>2. \A i \in 1 .. m : cs[i].next >= 1
    BY DEF Stacked
  <2>. QED BY <1>2, <2>1, <2>2, LenProperties
<1>4. h \in Aliases
  <2>1. cs[m].next \in 1 .. Len(cs[m].jumps) /\ cs[m].jumps \in Seq(Aliases)
    BY <1>1, <1>3 DEF Stacked
  <2>. QED BY <2>1, ElementOfSeq
<1>5. frame \in Calls /\ frame.alias = cs[m].alias /\ frame.jumps = cs[m].jumps /\ frame.next = cs[m].next + 1
  <2>. DEFINE c == cs[m]
  <2>1. c \in Calls
    BY <1>1, <1>2
  <2>. HIDE DEF c
  <2>2. /\ [c EXCEPT !.next = @ + 1] \in Calls
        /\ [c EXCEPT !.next = @ + 1].alias = c.alias
        /\ [c EXCEPT !.next = @ + 1].jumps = c.jumps
        /\ [c EXCEPT !.next = @ + 1].next = c.next + 1
    <3>. DEFINE n == c.next + 1
    <3>1. n \in Nat
      BY <2>1 DEF Calls
    <3>. HIDE DEF n
    <3>2. /\ [c EXCEPT !.next = n] \in Calls /\ [c EXCEPT !.next = n].alias = c.alias
          /\ [c EXCEPT !.next = n].jumps = c.jumps /\ [c EXCEPT !.next = n].next = n
      BY <2>1, <3>1 DEF Calls
    <3>. QED BY <3>2, Zenon DEF n
  <2>. QED BY <2>2, Zenon DEF c
<1>6. top \in Calls /\ top.alias = h /\ top.jumps = jumps[h] /\ top.next = 1
  BY <1>4 DEF Calls
<1>7. ds = Append(below, top)
  BY DEF Called, OnTop, Top
<1>. HIDE DEF frame, top, m, ds
<1>8. below \in Seq(Calls) /\ Len(below) = m /\ \A i \in 1 .. m : below[i] = IF i = m THEN frame ELSE cs[i]
  BY <1>1, <1>5, ExceptSeq DEF m
<1>. HIDE DEF below
<1>9. /\ ds \in Seq(Calls) /\ ds # <<>> /\ Len(ds) = m + 1
      /\ \A i \in 1 .. m : ds[i] = below[i]
      /\ ds[m + 1] = top
  BY <1>6, <1>7, <1>8, AppendProperties
<1>10. \A i \in 1 .. m - 1 : ds[i] = cs[i]
  BY <1>1, <1>8, <1>9
<1>11. ds[m] = frame
  BY <1>1, <1>8, <1>9
<1>12. \A i \in 1 .. m : ds[i].jumps = cs[i].jumps
  <2>. TAKE i \in 1 .. m
  <2>1. i \in 1 .. m - 1 \/ i = m
    BY <1>1
  <2>. QED BY <1>5, <1>10, <1>11, <2>1
<1>13. \A i \in 1 .. m + 1 : ds[i].jumps \in Seq(Aliases) /\ Len(ds[i].jumps) \in Nat
  <2>. TAKE i \in 1 .. m + 1
  <2>1. ds[i] \in Calls
    BY <1>9, ElementOfSeq
  <2>2. ds[i].jumps \in Seq(Aliases)
    BY <2>1 DEF Calls
  <2>. QED BY <2>2, LenProperties
<1>. QED BY <1>1, <1>3, <1>4, <1>5, <1>6, <1>9, <1>10, <1>11, <1>12, <1>13, Zenon
         DEF IsCalled, m, ds

LEMMA CalledStacked ==
  ASSUME NEW jumps \in [Aliases -> Seq(Aliases)], NEW list, NEW cs, Stacked(jumps, list, cs),
         cs[Len(cs)].next <= Len(cs[Len(cs)].jumps), NEW h,
         h = cs[Len(cs)].jumps[cs[Len(cs)].next]
  PROVE  Stacked(jumps, list, Called(cs, h, jumps))
<1>. DEFINE m == Len(cs)
            ds == Called(cs, h, jumps)
<1>1. IsCalled(jumps, cs, h, ds, m)
  BY CalledIs
<1>. HIDE DEF ds, m
<1>2. /\ cs[1].jumps = list
      /\ cs[m].next <= Len(cs[m].jumps) /\ h = cs[m].jumps[cs[m].next]
      /\ \A i \in 1 .. m : cs[i].next \in 1 .. Len(cs[i].jumps) + 1
      /\ \A i \in 2 .. m :
           /\ cs[i].alias \in Aliases /\ cs[i].jumps = jumps[cs[i].alias]
           /\ cs[i - 1].next >= 2
           /\ cs[i - 1].jumps[cs[i - 1].next - 1] = cs[i].alias
  BY DEF Stacked, m
<1>0. m \in Nat \ {0} /\ Len(ds) = m + 1 /\ ds \in Seq(Calls) /\ ds # <<>>
  BY <1>1 DEF IsCalled
<1>3. ds[1].jumps = list
  <2>1. 1 \in 1 .. m
    BY <1>0
  <2>. QED BY <1>1, <1>2, <2>1 DEF IsCalled
<1>4. ASSUME NEW i \in 1 .. m + 1 PROVE ds[i].next \in 1 .. Len(ds[i].jumps) + 1
  <2>1. (i \in 1 .. m - 1 /\ i \in 1 .. m) \/ i = m \/ i = m + 1
    BY <1>0
  <2>2. CASE i \in 1 .. m - 1 /\ i \in 1 .. m
    <3>1. ds[i] = cs[i]
      BY <1>1, <2>2 DEF IsCalled
    <3>. QED BY <1>2, <2>2, <3>1
  <2>3. CASE i = m
    <3>1. m \in 1 .. m
      BY <1>0
    <3>2. /\ cs[m].next \in 1 .. Len(cs[m].jumps) + 1 /\ cs[m].next <= Len(cs[m].jumps)
          /\ Len(cs[m].jumps) \in Nat
          /\ ds[m].jumps = cs[m].jumps /\ ds[m].next = cs[m].next + 1
      BY <1>1, <1>2, <3>1 DEF IsCalled
    <3>. QED BY <2>3, <3>2
  <2>4. CASE i = m + 1
    <3>1. m + 1 \in 1 .. m + 1
      BY <1>0
    <3>2. ds[m + 1].next = 1 /\ Len(ds[m + 1].jumps) \in Nat
      BY <1>1, <3>1 DEF IsCalled
    <3>. QED BY <2>4, <3>2
  <2>. QED BY <2>1, <2>2, <2>3, <2>4
<1>5. ASSUME NEW i \in 2 .. m + 1
      PROVE  /\ ds[i].alias \in Aliases /\ ds[i].jumps = jumps[ds[i].alias]
             /\ ds[i - 1].next >= 2
             /\ ds[i - 1].jumps[ds[i - 1].next - 1] = ds[i].alias
  <2>1. i \in 2 .. m - 1 \/ (i = m /\ m \in 2 .. m) \/ i = m + 1
    BY <1>0
  <2>2. CASE i \in 2 .. m - 1
    <3>1. i \in 1 .. m - 1 /\ i - 1 \in 1 .. m - 1 /\ i \in 2 .. m
      BY <1>0, <2>2
    <3>2. ds[i] = cs[i] /\ ds[i - 1] = cs[i - 1]
      BY <1>1, <3>1 DEF IsCalled
    <3>. QED BY <1>2, <3>1, <3>2
  <2>3. CASE i = m /\ m \in 2 .. m
    <3>1. m - 1 \in 1 .. m - 1
      BY <1>0, <2>3
    <3>2. ds[m].alias = cs[m].alias /\ ds[m].jumps = cs[m].jumps /\ ds[m - 1] = cs[m - 1]
      BY <1>1, <3>1 DEF IsCalled
    <3>. QED BY <1>2, <2>3, <3>2
  <2>4. CASE i = m + 1
    <3>1. i - 1 = m /\ ds[m].next - 1 = cs[m].next /\ ds[m].next >= 2
      <4>1. m \in 1 .. m
        BY <1>0
      <4>2. cs[m].next \in Nat /\ cs[m].next >= 1 /\ ds[m].next = cs[m].next + 1
        BY <1>1, <1>2, <4>1 DEF IsCalled
      <4>. QED BY <1>0, <2>4, <4>2
    <3>. QED BY <1>1, <1>2, <2>4, <3>1 DEF IsCalled
  <2>. QED BY <2>1, <2>2, <2>3, <2>4
<1>6. Stacked(jumps, list, ds)
  BY <1>0, <1>3, <1>4, <1>5, Zenon DEF Stacked
<1>. QED BY <1>6 DEF ds

LEMMA PrefixOf ==
  ASSUME NEW T, NEW s \in Seq(T), NEW n \in 0 .. Len(s)
  PROVE  /\ SubSeq(s, 1, n) \in Seq(T) /\ Len(SubSeq(s, 1, n)) = n
         /\ \A i \in 1 .. n : SubSeq(s, 1, n)[i] = s[i]
         /\ n = 0 => SubSeq(s, 1, n) = <<>>
<1>1. Len(s) \in Nat /\ n \in Nat /\ 1 \in Int /\ n \in Int /\ \A i \in 1 .. n : s[i] \in T
  <2>1. Len(s) \in Nat
    BY LenProperties
  <2>2. \A i \in 1 .. n : i \in 1 .. Len(s)
    BY <2>1
  <2>. QED BY <2>1, <2>2, ElementOfSeq
<1>2. /\ SubSeq(s, 1, n) \in Seq(T) /\ Len(SubSeq(s, 1, n)) = IF 1 <= n THEN n - 1 + 1 ELSE 0
      /\ \A i \in 1 .. n - 1 + 1 : SubSeq(s, 1, n)[i] = s[1 + i - 1]
  BY <1>1, SubSeqProperties
<1>3. Len(SubSeq(s, 1, n)) = n /\ \A i \in 1 .. n : SubSeq(s, 1, n)[i] = s[i]
  BY <1>1, <1>2
<1>4. n = 0 => SubSeq(s, 1, n) = <<>>
  BY <1>1, SubSeqEmpty
<1>. QED BY <1>2, <1>3, <1>4, Zenon

LEMMA PrefixGrows ==
  ASSUME NEW T, NEW s \in Seq(T), NEW n \in Nat, n + 1 <= Len(s)
  PROVE  /\ SubSeq(s, 1, n) \in Seq(T) /\ s[n + 1] \in T
         /\ SubSeq(s, 1, n + 1) = Append(SubSeq(s, 1, n), s[n + 1])
         /\ \E r \in Seq(T) : s = SubSeq(s, 1, n + 1) \o r
<1>1. Len(s) \in Nat /\ n \in 0 .. Len(s) /\ n + 1 \in 0 .. Len(s) /\ n + 1 \in 1 .. Len(s)
  BY LenProperties
<1>2. /\ SubSeq(s, 1, n) \in Seq(T) /\ Len(SubSeq(s, 1, n)) = n
      /\ \A i \in 1 .. n : SubSeq(s, 1, n)[i] = s[i]
  BY <1>1, PrefixOf
<1>3. /\ SubSeq(s, 1, n + 1) \in Seq(T) /\ Len(SubSeq(s, 1, n + 1)) = n + 1
      /\ \A i \in 1 .. n + 1 : SubSeq(s, 1, n + 1)[i] = s[i]
  <2>. DEFINE k == n + 1
  <2>1. k \in 0 .. Len(s)
    BY <1>1
  <2>. HIDE DEF k
  <2>2. /\ SubSeq(s, 1, k) \in Seq(T) /\ Len(SubSeq(s, 1, k)) = k
        /\ \A i \in 1 .. k : SubSeq(s, 1, k)[i] = s[i]
    BY <2>1, PrefixOf
  <2>. QED BY <2>2 DEF k
<1>4. s[n + 1] \in T
  BY <1>1, ElementOfSeq
<1>. DEFINE a == SubSeq(s, 1, n)
            b == SubSeq(s, 1, n + 1)
            c == Append(a, s[n + 1])
<1>5. SubSeq(s, 1, n + 1) = Append(SubSeq(s, 1, n), s[n + 1])
  <2>. HIDE DEF a, b
  <2>1. /\ c \in Seq(T) /\ Len(c) = n + 1 /\ \A i \in 1 .. n : c[i] = a[i]
        /\ c[n + 1] = s[n + 1]
    BY <1>2, <1>4, AppendProperties DEF a
  <2>. HIDE DEF c
  <2>2. \A i \in 1 .. n + 1 : b[i] = c[i]
    <3>. TAKE i \in 1 .. n + 1
    <3>1. i \in 1 .. n \/ i = n + 1
      OBVIOUS
    <3>. QED BY <1>2, <1>3, <2>1, <3>1 DEF a, b
  <2>3. b = c
    BY <1>3, <2>1, <2>2, SeqEqual DEF b
  <2>. QED BY <2>3 DEF a, b, c
<1>6. s = b \o SubSeq(s, n + 2, Len(s))
  <2>1. 1 \in 1 .. Len(s) + 1 /\ n + 1 \in 1 - 1 .. Len(s) /\ Len(s) \in n + 1 .. Len(s)
        /\ (n + 1) + 1 = n + 2
    BY <1>1
  <2>2. SubSeq(s, 1, n + 1) \o SubSeq(s, (n + 1) + 1, Len(s)) = SubSeq(s, 1, Len(s))
    BY <2>1, ConcatAdjacentSubSeq, Zenon
  <2>. QED BY <2>1, <2>2, SubSeqFull
<1>7. SubSeq(s, n + 2, Len(s)) \in Seq(T)
  <2>1. n + 2 \in Int /\ Len(s) \in Int /\ \A i \in n + 2 .. Len(s) : s[i] \in T
    <3>1. \A i \in n + 2 .. Len(s) : i \in 1 .. Len(s)
      BY <1>1
    <3>. QED BY <1>1, <3>1, ElementOfSeq
  <2>. QED BY <2>1, SubSeqProperties
<1>. QED BY <1>2, <1>4, <1>5, <1>6, <1>7

\* What is reached by jumps.
LEMMA BeyondReaches ==
  ASSUME NEW jumps \in [Aliases -> Seq(Aliases)], NEW h \in Aliases
  PROVE  /\ Beyond(jumps, h) \subseteq Aliases
         /\ ToSet(jumps[h]) \subseteq Beyond(jumps, h)
         /\ \A g \in Beyond(jumps, h) : ToSet(jumps[g]) \subseteq Beyond(jumps, h)
         /\ \A S \in SUBSET Aliases :
              ToSet(jumps[h]) \subseteq S /\ (\A x \in S : ToSet(jumps[x]) \subseteq S)
              => Beyond(jumps, h) \subseteq S
<1>1. \A x \in Aliases : ToSet(jumps[x]) \subseteq Aliases
  <2>1. \A x \in Aliases : jumps[x] \in Seq(Aliases)
    OBVIOUS
  <2>. QED BY <2>1, LenProperties DEF ToSet
<1>2. ToSet(jumps[h]) \subseteq Beyond(jumps, h)
  BY <1>1 DEF Beyond
<1>3. \A g \in Beyond(jumps, h) : ToSet(jumps[g]) \subseteq Beyond(jumps, h)
  <2>. SUFFICES ASSUME NEW g \in Beyond(jumps, h), NEW x \in ToSet(jumps[g]),
                       NEW S \in SUBSET Aliases, ToSet(jumps[h]) \subseteq S,
                       \A y \in S : ToSet(jumps[y]) \subseteq S
                PROVE  x \in S /\ x \in Aliases
    BY <1>1 DEF Beyond
  <2>1. g \in S
    BY DEF Beyond
  <2>. QED BY <1>1, <2>1
<1>4. Beyond(jumps, h) \subseteq Aliases
  BY DEF Beyond
<1>5. ASSUME NEW S \in SUBSET Aliases, ToSet(jumps[h]) \subseteq S,
             \A x \in S : ToSet(jumps[x]) \subseteq S
      PROVE  Beyond(jumps, h) \subseteq S
  BY <1>5 DEF Beyond
<1>. QED BY <1>2, <1>3, <1>4, <1>5, Zenon

\* A chain in which the jumps of every host come earlier has no cycle.
LEMMA NoCycle ==
  ASSUME NEW jumps \in [Aliases -> Seq(Aliases)], NEW hosts \in Seq(Aliases),
         Ordered(jumps, hosts), NEW target \in Aliases,
         \E q \in 1 .. Len(hosts) : hosts[q] = target
  PROVE  ~Cyclic(jumps, target)
<1>. DEFINE Out(n) == {hosts[p] : p \in 1 .. n}
            n == Len(hosts)
<1>0. n \in Nat /\ \A p \in 1 .. n : hosts[p] \in Aliases
  BY LenProperties, ElementOfSeq
<1>1. ASSUME NEW k \in 0 .. n PROVE Out(k) \in SUBSET Aliases /\ \A x \in Out(k) : ToSet(jumps[x]) \subseteq Out(k)
  <2>1. \A p \in 1 .. k : p \in 1 .. n
    BY <1>0
  <2>2. ASSUME NEW p \in 1 .. k, NEW y \in ToSet(jumps[hosts[p]]) PROVE y \in Out(k)
    <3>1. PICK r \in 1 .. p - 1 : hosts[r] = y
      BY <2>1 DEF Ordered
    <3>2. r \in 1 .. k
      BY <1>0
    <3>. QED BY <3>1, <3>2
  <2>. QED BY <1>0, <2>1, <2>2
<1>2. ASSUME NEW g \in Aliases, NEW q \in 1 .. n, hosts[q] = g PROVE g \notin Beyond(jumps, g)
  <2>. DEFINE S == {p \in 1 .. n : hosts[p] = g}
  <2>0. S \in SUBSET Nat /\ q \in S
    BY <1>0, <1>2
  <2>1. S \in SUBSET Nat /\ S # {}
    BY <2>0
  <2>2. PICK p \in S : \A m \in S : p <= m
    BY <2>1, LeastNumber
  <2>3. p \in 1 .. n /\ p - 1 \in 0 .. n /\ hosts[p] = g /\ g \notin Out(p - 1)
    BY <1>0, <2>2
  <2>4. ToSet(jumps[g]) \subseteq Out(p - 1)
    <3>. SUFFICES ASSUME NEW x \in ToSet(jumps[g]) PROVE x \in Out(p - 1)
      OBVIOUS
    <3>1. x \in ToSet(jumps[hosts[p]])
      BY <2>3
    <3>2. \E r \in 1 .. p - 1 : hosts[r] = x
      BY <2>3, <3>1, Zenon DEF Ordered
    <3>. QED BY <3>2
  <2>5. Out(p - 1) \in SUBSET Aliases /\ \A x \in Out(p - 1) : ToSet(jumps[x]) \subseteq Out(p - 1)
    BY <1>1, <2>3
  <2>. DEFINE U == Out(p - 1)
  <2>6. ToSet(jumps[g]) \subseteq U /\ U \in SUBSET Aliases /\ \A x \in U : ToSet(jumps[x]) \subseteq U
    BY <2>4, <2>5, Zenon
  <2>7. g \notin U
    BY <2>3, Zenon
  <2>. HIDE DEF U
  <2>8. Beyond(jumps, g) \subseteq U
    BY <2>6, BeyondReaches
  <2>. QED BY <2>7, <2>8
<1>3. Beyond(jumps, target) \subseteq Out(n)
  <2>1. n \in 0 .. n /\ target \in Out(n)
    BY <1>0
  <2>2. Out(n) \in SUBSET Aliases /\ \A x \in Out(n) : ToSet(jumps[x]) \subseteq Out(n)
    BY <1>1, <2>1
  <2>. HIDE DEF Out
  <2>. QED BY <2>1, <2>2, BeyondReaches
<1>4. \A g \in {target} \cup Beyond(jumps, target) : g \in Aliases /\ \E q \in 1 .. n : hosts[q] = g
  BY <1>0, <1>3
<1>. QED BY <1>2, <1>4 DEF Cyclic

\* What a call does not change: what is done below it and by its caller.
SameDone(cs, ds, m) ==
  /\ \A i \in 1 .. m : DoneUpTo(ds, i) = DoneUpTo(cs, i) /\ DoneOf(ds, i) = DoneOf(cs, i)
  /\ DoneUpTo(ds, m + 1) = 0 /\ DoneOf(ds, m + 1) = <<>>
  /\ DoneUpTo(cs, m) = cs[m].next - 1 /\ DoneUpTo(cs, m) \in Nat

LEMMA CalledDone ==
  ASSUME NEW jumps, NEW cs, NEW h, NEW ds, NEW m, IsCalled(jumps, cs, h, ds, m)
  PROVE  SameDone(cs, ds, m)
<1>1. m \in Nat \ {0} /\ m = Len(cs) /\ Len(ds) = m + 1 /\ m \in 1 .. m /\ m + 1 \in 1 .. m + 1
  BY DEF IsCalled
<1>2. \A i \in 1 .. m : cs[i].next \in Nat \ {0} /\ ds[i].jumps = cs[i].jumps
  BY DEF IsCalled
<1>3. ASSUME NEW i \in 1 .. m PROVE DoneUpTo(ds, i) = DoneUpTo(cs, i)
  <2>1. i \in 1 .. m - 1 \/ i = m
    BY <1>1
  <2>2. CASE i \in 1 .. m - 1
    <3>1. ds[i] = cs[i] /\ i # m /\ i # m + 1
      BY <1>1, <2>2 DEF IsCalled
    <3>. QED BY <1>1, <3>1 DEF DoneUpTo
  <2>3. CASE i = m
    <3>1. ds[m].next = cs[m].next + 1 /\ m # m + 1 /\ cs[m].next \in Nat
      BY <1>1, <1>2 DEF IsCalled
    <3>2. DoneUpTo(ds, m) = ds[m].next - 2 /\ DoneUpTo(cs, m) = cs[m].next - 1
      BY <1>1, <3>1 DEF DoneUpTo
    <3>. QED BY <2>3, <3>1, <3>2
  <2>. QED BY <2>1, <2>2, <2>3
<1>4. \A i \in 1 .. m : DoneOf(ds, i) = DoneOf(cs, i)
  BY <1>2, <1>3 DEF DoneOf
<1>5. DoneUpTo(ds, m + 1) = 0
  <2>1. ds[m + 1].next = 1
    BY DEF IsCalled
  <2>. QED BY <1>1, <2>1 DEF DoneUpTo
<1>6. DoneOf(ds, m + 1) = <<>>
  <2>1. SubSeq(ds[m + 1].jumps, 1, 0) = <<>>
    BY SubSeqEmpty
  <2>. QED BY <1>5, <2>1 DEF DoneOf
<1>7. DoneUpTo(cs, m) = cs[m].next - 1 /\ DoneUpTo(cs, m) \in Nat
  BY <1>1, <1>2 DEF DoneUpTo
<1>. QED BY <1>3, <1>4, <1>5, <1>6, <1>7 DEF SameDone

LEMMA CalledAreOut ==
  ASSUME NEW jumps, NEW cs, NEW h, NEW ds, NEW m, NEW hosts,
         IsCalled(jumps, cs, h, ds, m), DoneAreOut(cs, hosts)
  PROVE  DoneAreOut(ds, hosts)
<1>1. m \in Nat /\ Len(ds) = m + 1 /\ Len(cs) = m
  BY DEF IsCalled
<1>2. SameDone(cs, ds, m)
  BY CalledDone
<1>3. ASSUME NEW i \in 1 .. m, NEW p \in 1 .. DoneUpTo(ds, i)
      PROVE  \E q \in 1 .. Len(hosts) : hosts[q] = ds[i].jumps[p]
  <2>1. p \in 1 .. DoneUpTo(cs, i) /\ ds[i].jumps = cs[i].jumps
    BY <1>2 DEF SameDone, IsCalled
  <2>2. \E q \in 1 .. Len(hosts) : hosts[q] = cs[i].jumps[p]
    BY <1>1, <2>1 DEF DoneAreOut
  <2>. QED BY <2>1, <2>2
<1>4. 1 .. DoneUpTo(ds, m + 1) = {}
  <2>1. DoneUpTo(ds, m + 1) = 0
    BY <1>2 DEF SameDone
  <2>. QED BY <2>1
<1>5. \A i \in 1 .. m + 1 : i \in 1 .. m \/ i = m + 1
  BY <1>1
<1>. QED BY <1>1, <1>3, <1>4, <1>5 DEF DoneAreOut

LEMMA CalledNested ==
  ASSUME NEW jumps \in [Aliases -> Seq(Aliases)], NEW list, NEW cs, Stacked(jumps, list, cs),
         NEW h, NEW ds, NEW m, IsCalled(jumps, cs, h, ds, m),
         h = cs[m].jumps[cs[m].next], cs[m].next <= Len(cs[m].jumps), Nested(jumps, cs)
  PROVE  /\ Nested(jumps, ds)
         /\ \A i \in 2 .. m : h \in Beyond(jumps, cs[i].alias)
<1>1. m = Len(cs) /\ m \in Nat \ {0} /\ Len(ds) = m + 1 /\ m \in 1 .. m /\ ds[m + 1].alias = h
  BY DEF IsCalled
<1>2. \A i \in 2 .. m : cs[i].alias \in Aliases /\ ds[i].alias = cs[i].alias
  <2>. TAKE i \in 2 .. m
  <2>1. cs[i].alias \in Aliases
    BY <1>1 DEF Stacked
  <2>2. i \in 1 .. m - 1 \/ i = m
    BY <1>1
  <2>. QED BY <2>1, <2>2 DEF IsCalled
<1>3. ASSUME NEW i \in 2 .. m PROVE h \in Beyond(jumps, cs[i].alias)
  <2>1. m \in 2 .. m /\ cs[m].jumps = jumps[cs[m].alias]
    BY <1>1 DEF Stacked
  <2>2. h \in ToSet(jumps[cs[m].alias])
    <3>1. cs[m].next \in 1 .. Len(cs[m].jumps) /\ cs[m].jumps \in Seq(Aliases)
      BY <1>1 DEF Stacked, IsCalled
    <3>2. cs[m].next \in DOMAIN cs[m].jumps
      BY <3>1, LenProperties
    <3>. QED BY <2>1, <3>2 DEF ToSet
  <2>3. CASE i = m
    <3>1. ToSet(jumps[cs[m].alias]) \subseteq Beyond(jumps, cs[m].alias)
      BY <1>2, <2>1, BeyondReaches, Zenon
    <3>. QED BY <2>2, <2>3, <3>1
  <2>4. CASE i # m
    <3>1. i < m
      BY <1>1, <2>4
    <3>2. cs[m].alias \in Beyond(jumps, cs[i].alias)
      BY <1>1, <2>1, <3>1 DEF Nested
    <3>3. ToSet(jumps[cs[m].alias]) \subseteq Beyond(jumps, cs[i].alias)
      BY <1>2, <3>2, BeyondReaches, Zenon
    <3>. QED BY <2>2, <3>3
  <2>. QED BY <2>3, <2>4
<1>4. ASSUME NEW i \in 2 .. m + 1, NEW j \in 2 .. m + 1, i < j
      PROVE  ds[j].alias \in Beyond(jumps, ds[i].alias)
  <2>1. i \in 2 .. m
    BY <1>1, <1>4
  <2>2. CASE j = m + 1
    BY <1>1, <1>2, <1>3, <2>1, <2>2
  <2>3. CASE j # m + 1
    <3>1. j \in 2 .. m
      BY <1>1, <2>3
    <3>2. cs[j].alias \in Beyond(jumps, cs[i].alias)
      BY <1>1, <1>4, <2>1, <3>1 DEF Nested
    <3>. QED BY <1>2, <2>1, <3>1, <3>2
  <2>. QED BY <2>2, <2>3
<1>5. Nested(jumps, ds)
  BY <1>1, <1>4 DEF Nested
<1>. QED BY <1>3, <1>5

\* A list with one host of it marked.
SplitAt(list, done, h) ==
  /\ done \in Seq(Aliases) /\ h \in Aliases
  /\ \E r \in Seq(Aliases) : list = Append(done, h) \o r

LEMMA Marked ==
  ASSUME NEW a \in Seq(Aliases), NEW s \in Seq(Aliases), NEW n \in Nat, n + 1 <= Len(s)
  PROVE  SplitAt(a \o s, a \o SubSeq(s, 1, n), s[n + 1])
<1>. DEFINE b == SubSeq(s, 1, n)
            h == s[n + 1]
            c == <<h>>
            ab == a \o b
<1>1. /\ b \in Seq(Aliases) /\ h \in Aliases /\ SubSeq(s, 1, n + 1) = Append(b, h)
      /\ \E r \in Seq(Aliases) : s = SubSeq(s, 1, n + 1) \o r
  BY PrefixGrows
<1>2. PICK r \in Seq(Aliases) : s = Append(b, h) \o r
  BY <1>1, Zenon
<1>3. c \in Seq(Aliases)
  BY <1>1
<1>. HIDE DEF b, h, c
<1>4. ab \in Seq(Aliases)
  BY <1>1, ConcatFacts
<1>. HIDE DEF ab
<1>5. Append(b, h) = b \o c /\ Append(ab, h) = ab \o c
  BY <1>1, <1>4, AppendIsConcat DEF c
<1>6. a \o ((b \o c) \o r) = ((a \o b) \o c) \o r
  <2>. DEFINE bc == b \o c
  <2>1. b \in Seq(Aliases)
    BY <1>1
  <2>2. bc \in Seq(Aliases)
    BY <1>3, <2>1, HostsConcat, Zenon
  <2>. HIDE DEF bc
  <2>3. Regroups(a, bc, r) /\ Regroups(a, b, c)
    BY <1>3, <2>1, <2>2, HostsAssociative, Zenon
  <2>. QED BY <2>3, Zenon DEF bc, Regroups
<1>7. a \o s = Append(ab, h) \o r
  BY <1>2, <1>5, <1>6, Zenon DEF ab
<1>. QED BY <1>1, <1>4, <1>7, Zenon DEF ab, b, h, SplitAt

\* A list that is expanded to its end: before it gets there it is expanded up to
\* any host h of it, and a step later that host is its jumps.
IsPassed(jumps, list, done, h, low, max) ==
  /\ done \in Seq(Aliases) /\ h \in Aliases
  /\ \E i \in Nat : /\ i >= low /\ i <= max
                    /\ InFront(jumps, list)[i] = Append(done, h)
                    /\ InFront(jumps, list)[i + 1] = done \o jumps[h]

LEMMA PassedOver ==
  ASSUME NEW jumps \in [Aliases -> Seq(Aliases)], NEW list \in Seq(Aliases),
         NEW k \in Nat, NEW done, NEW h, SplitAt(InFront(jumps, list)[k], done, h),
         NEW max \in Nat, InFront(jumps, list)[max] = <<>>
  PROVE  IsPassed(jumps, list, done, h, k, max)
<1>0. done \in Seq(Aliases) /\ h \in Aliases
  BY DEF SplitAt
<1>15. PICK r \in Seq(Aliases) : InFront(jumps, list)[k] = Append(done, h) \o r
  BY DEF SplitAt
<1>. DEFINE f == InFront(jumps, list)
            l == Append(done, h)
            w == l \o r
            g == InFront(jumps, w)
            q == max - k
<1>1. l \in Seq(Aliases) /\ l # <<>>
  BY <1>0, AppendProperties
<1>2. BehindItsJumps(jumps, l) = done \o jumps[h]
  BY <1>0, OneStep
<1>. HIDE DEF l
<1>3. w \in Seq(Aliases) /\ Len(w) = Len(l) + Len(r) /\ Len(l) \in Nat /\ Len(r) \in Nat
  BY <1>1, ConcatFacts
<1>4. f[k] = w
  BY <1>15 DEF l
<1>5. \A i \in Nat : f[i + 1] = BehindItsJumps(jumps, f[i])
  BY InFrontRuns
<1>. HIDE DEF w
<1>6. \A i \in Nat : f[k + i] = g[i]
  <2>1. \A i \in Nat : f[k + i] = InFront(jumps, f[k])[i]
    BY InFrontShift
  <2>. QED BY <1>4, <2>1, Zenon
<1>7. f[max] = <<>>
  OBVIOUS
<1>8. k <= max
  <2>. SUFFICES ASSUME max <= k PROVE max = k
    OBVIOUS
  <2>1. f[k] = <<>>
    BY StaysEmpty, Zenon
  <2>2. Len(w) = 0
    BY <1>4, <2>1, EmptySeq
  <2>3. Len(l) # 0
    BY <1>1, EmptySeq
  <2>. DEFINE x == Len(w)
              y == Len(l)
              z == Len(r)
  <2>4. x = 0 /\ y # 0 /\ x = y + z /\ y \in Nat /\ z \in Nat
    BY <1>3, <2>2, <2>3
  <2>. HIDE DEF x, y, z
  <2>. QED BY <2>4
<1>. HIDE DEF f
<1>9. q \in Nat /\ k + q = max
  BY <1>8
<1>. HIDE DEF q
<1>10. g[q] = <<>>
  BY <1>6, <1>7, <1>9
<1>11. PICK i \in Nat : i <= q /\ g[i] = l
  <2>1. InFront(jumps, l \o r)[q] = <<>>
    BY <1>10 DEF w
  <2>2. \E i \in Nat : i >= Len(r) /\ i <= q /\ InFront(jumps, l \o r)[i] = l
    <3>1. q \in Nat /\ l \in Seq(Aliases)
      BY <1>1, <1>9
    <3>. QED BY <2>1, <3>1, Passes, ZenonT(40)
  <2>. QED BY <2>2, Zenon DEF w
<1>. HIDE DEF g
<1>. DEFINE p == k + i
<1>12. p \in Nat /\ p >= k /\ p <= max
  BY <1>9, <1>11
<1>13. f[p] = l
  BY <1>6, <1>11
<1>14. f[p + 1] = done \o jumps[h]
  BY <1>2, <1>5, <1>12, <1>13, Zenon
<1>. HIDE DEF p
<1>. QED BY <1>0, <1>12, <1>13, <1>14, Zenon DEF f, l, IsPassed

\* So it is for the host that is called for: the list passes the part that is
\* done, with that host behind it.
LEMMA CallIsPassed ==
  ASSUME NEW jumps \in [Aliases -> Seq(Aliases)], NEW list \in Seq(Aliases), NEW cs,
         NEW h, NEW ds, NEW m, IsCalled(jumps, cs, h, ds, m),
         h = cs[m].jumps[cs[m].next], cs[m].next <= Len(cs[m].jumps),
         NEW hosts, NEW max \in Nat, NEW base, Accounts(jumps, list, cs, hosts, max, base),
         InFront(jumps, list)[max] = <<>>
  PROVE  IsPassed(jumps, list, base[m] \o DoneOf(cs, m), h, m - 1, max)
<1>. DEFINE s == cs[m].jumps
            n == cs[m].next - 1
            a == base[m]
<1>1. m \in Nat \ {0} /\ m \in 1 .. m /\ m = Len(cs)
  BY DEF IsCalled
<1>2. s \in Seq(Aliases) /\ n \in Nat /\ n + 1 <= Len(s) /\ h = s[n + 1]
  <2>1. s \in Seq(Aliases) /\ cs[m].next \in Nat \ {0}
    BY <1>1 DEF IsCalled
  <2>2. n + 1 = cs[m].next /\ n \in Nat
    BY <2>1
  <2>. QED BY <2>1, <2>2
<1>3. DoneOf(cs, m) = SubSeq(s, 1, n)
  <2>1. DoneUpTo(cs, m) = n
    BY <1>1 DEF DoneUpTo
  <2>. QED BY <2>1, Zenon DEF DoneOf
<1>4. a \in Seq(Aliases)
  BY <1>1 DEF Accounts
<1>5. PICK k \in Nat : k >= m - 1 /\ InFront(jumps, list)[k] = a \o s
  BY <1>1 DEF Accounts
<1>6. \A i \in Nat : i >= k => i >= m - 1
  BY <1>1, <1>5
<1>. DEFINE d == a \o SubSeq(s, 1, n)
            f == InFront(jumps, list)
<1>. HIDE DEF s, n, a
<1>7. SplitAt(f[k], d, h)
  <2>1. SplitAt(a \o s, d, s[n + 1])
    BY <1>2, <1>4, Marked
  <2>. QED BY <1>2, <1>5, <2>1, Zenon
<1>8. d = base[m] \o DoneOf(cs, m)
  BY <1>3, Zenon DEF a
<1>. HIDE DEF d
<1>9. IsPassed(jumps, list, d, h, k, max)
  BY <1>7, PassedOver, Zenon
<1>. QED BY <1>6, <1>8, <1>9, Zenon DEF IsPassed

LEMMA DoneType ==
  ASSUME NEW jumps, NEW list, NEW cs, Stacked(jumps, list, cs), NEW i \in 1 .. Len(cs)
  PROVE  /\ DoneUpTo(cs, i) \in 0 .. Len(cs[i].jumps) /\ DoneOf(cs, i) \in Seq(Aliases)
         /\ cs[i].jumps \in Seq(Aliases) /\ Len(cs[i].jumps) \in Nat /\ cs[i].next \in Nat \ {0}
<1>1. cs \in Seq(Calls) /\ Len(cs) \in Nat /\ cs[i].next \in 1 .. Len(cs[i].jumps) + 1
  BY LenProperties DEF Stacked
<1>2. cs[i] \in Calls
  BY <1>1, ElementOfSeq
<1>3. cs[i].jumps \in Seq(Aliases) /\ cs[i].next \in Nat
  BY <1>2 DEF Calls
<1>4. Len(cs[i].jumps) \in Nat
  BY <1>3, LenProperties
<1>5. i # Len(cs) => cs[i].next >= 2
  <2>. SUFFICES ASSUME i # Len(cs) PROVE cs[i].next >= 2
    OBVIOUS
  <2>1. i + 1 \in 2 .. Len(cs) /\ (i + 1) - 1 = i
    BY <1>1
  <2>2. cs[(i + 1) - 1].next >= 2
    BY <2>1 DEF Stacked
  <2>. QED BY <2>1, <2>2
<1>6. DoneUpTo(cs, i) \in 0 .. Len(cs[i].jumps)
  BY <1>1, <1>3, <1>4, <1>5 DEF DoneUpTo
<1>7. DoneOf(cs, i) \in Seq(Aliases)
  BY <1>3, <1>6, PrefixOf DEF DoneOf
<1>. QED BY <1>1, <1>3, <1>4, <1>6, <1>7

LEMMA CalledAccounts ==
  ASSUME NEW jumps \in [Aliases -> Seq(Aliases)], NEW list \in Seq(Aliases), NEW cs,
         Stacked(jumps, list, cs), NEW h, NEW ds, NEW m, IsCalled(jumps, cs, h, ds, m),
         h = cs[m].jumps[cs[m].next], cs[m].next <= Len(cs[m].jumps),
         NEW hosts, NEW max \in Nat, NEW base, Accounts(jumps, list, cs, hosts, max, base)
  PROVE  \E b : Accounts(jumps, list, ds, hosts, max, b)
<1>. DEFINE done == base[m] \o DoneOf(cs, m)
            b == [i \in 1 .. m + 1 |-> IF i = m + 1 THEN done ELSE base[i]]
            f == InFront(jumps, list)
<1>1. m = Len(cs) /\ m \in Nat \ {0} /\ Len(ds) = m + 1 /\ m \in 1 .. m /\ 1 \in 1 .. m
  BY DEF IsCalled
<1>2. /\ base \in [1 .. m -> Seq(Aliases)] /\ base[1] = <<>>
      /\ \A i \in 1 .. m - 1 : base[i + 1] = base[i] \o DoneOf(cs, i)
      /\ IsChainOf(jumps, done, hosts)
      /\ f[max] = <<>> =>
           \A i \in 1 .. m : \E k \in Nat : k >= i - 1 /\ f[k] = base[i] \o cs[i].jumps
  BY <1>1 DEF Accounts
<1>3. done \in Seq(Aliases)
  <2>1. base[m] \in Seq(Aliases)
    BY <1>1, <1>2
  <2>2. DoneOf(cs, m) \in Seq(Aliases)
    BY <1>1, DoneType
  <2>. QED BY <2>1, <2>2, ConcatFacts
<1>4. SameDone(cs, ds, m)
  BY CalledDone
<1>5. f[max] = <<>> => \E k \in Nat : k >= m /\ f[k] = done \o jumps[h]
  <2>. SUFFICES ASSUME f[max] = <<>> PROVE \E k \in Nat : k >= m /\ f[k] = done \o jumps[h]
    OBVIOUS
  <2>1. IsPassed(jumps, list, done, h, m - 1, max)
    BY CallIsPassed
  <2>2. PICK i \in Nat : i >= m - 1 /\ f[i + 1] = done \o jumps[h]
    BY <2>1 DEF IsPassed
  <2>3. i + 1 \in Nat /\ i + 1 >= m
    BY <1>1, <2>2
  <2>. QED BY <2>2, <2>3
<1>6. \A i \in 1 .. m : DoneOf(ds, i) = DoneOf(cs, i) /\ ds[i].jumps = cs[i].jumps
  BY <1>4 DEF SameDone, IsCalled
<1>7. DoneOf(ds, m + 1) = <<>> /\ ds[m + 1].jumps = jumps[h]
  BY <1>4 DEF SameDone, IsCalled
<1>. HIDE DEF done, f
<1>8. /\ \A i \in 1 .. m : b[i] = base[i]
      /\ b[m + 1] = done /\ b \in [1 .. m + 1 -> Seq(Aliases)]
  <2>1. \A i \in 1 .. m : i \in 1 .. m + 1 /\ i # m + 1
    BY <1>1
  <2>2. \A i \in 1 .. m + 1 : i # m + 1 => i \in 1 .. m
    BY <1>1
  <2>3. m + 1 \in 1 .. m + 1
    BY <1>1
  <2>. QED BY <1>2, <1>3, <2>1, <2>2, <2>3
<1>. HIDE DEF b
<1>9. b[1] = <<>>
  BY <1>1, <1>2, <1>8
<1>10. ASSUME NEW i \in 1 .. m PROVE b[i + 1] = b[i] \o DoneOf(ds, i)
  <2>1. CASE i = m
    BY <1>1, <1>6, <1>8, <2>1, Zenon DEF done
  <2>2. CASE i # m
    <3>1. i \in 1 .. m - 1 /\ i + 1 \in 1 .. m
      BY <1>1, <2>2
    <3>. QED BY <1>2, <1>6, <1>8, <3>1
  <2>. QED BY <2>1, <2>2
<1>11. b[m + 1] \o DoneOf(ds, m + 1) = done
  BY <1>3, <1>7, <1>8, ConcatFacts
<1>12. ASSUME f[max] = <<>>, NEW i \in 1 .. m + 1
       PROVE  \E k \in Nat : k >= i - 1 /\ f[k] = b[i] \o ds[i].jumps
  <2>1. CASE i = m + 1
    <3>1. i - 1 = m
      BY <1>1, <2>1
    <3>. QED BY <1>5, <1>7, <1>8, <1>12, <2>1, <3>1, Zenon
  <2>2. CASE i # m + 1
    <3>1. i \in 1 .. m
      BY <1>1, <2>2
    <3>. QED BY <1>2, <1>6, <1>8, <1>12, <3>1
  <2>. QED BY <2>1, <2>2
<1>13. Len(ds) - 1 = m
  BY <1>1
<1>14. Accounts(jumps, list, ds, hosts, max, b)
  <2>1. IsChainOf(jumps, b[m + 1] \o DoneOf(ds, m + 1), hosts)
    BY <1>2, <1>11, Zenon
  <2>2. f[max] = <<>> => \A i \in 1 .. m + 1 : \E k \in Nat : k >= i - 1 /\ f[k] = b[i] \o ds[i].jumps
    BY <1>12
  <2>. QED BY <1>1, <1>8, <1>9, <1>10, <1>13, <2>1, <2>2, Zenon DEF Accounts, f
<1>. QED BY <1>14

\* A call returns: all its jumps are done, and its host is put behind them.
IsReturned(cs, es, m) ==
  /\ m = Len(cs) /\ m \in Nat /\ m >= 2
  /\ es \in Seq(Calls) /\ es # <<>> /\ Len(es) = m - 1
  /\ \A i \in 1 .. m - 1 : es[i] = cs[i]
  /\ cs[m].alias \in Aliases /\ DoneUpTo(cs, m) = Len(cs[m].jumps)

LEMMA ReturnIs ==
  ASSUME NEW jumps, NEW list, NEW cs, Stacked(jumps, list, cs), Len(cs) >= 2,
         ~(cs[Len(cs)].next <= Len(cs[Len(cs)].jumps))
  PROVE  IsReturned(cs, Front(cs), Len(cs))
<1>. DEFINE m == Len(cs)
<1>1. cs \in Seq(Calls) /\ cs # <<>> /\ m \in Nat /\ m >= 2 /\ m \in 1 .. m /\ m \in 2 .. m
  BY LenProperties DEF Stacked
<1>2. Front(cs) \in Seq(Calls) /\ Len(Front(cs)) = m - 1 /\ \A i \in 1 .. m - 1 : Front(cs)[i] = cs[i]
  BY <1>1, FrontFacts
<1>3. Front(cs) # <<>>
  BY <1>1, <1>2, EmptySeq
<1>4. cs[m].next \in 1 .. Len(cs[m].jumps) + 1 /\ cs[m].alias \in Aliases
  BY <1>1 DEF Stacked
<1>5. Len(cs[m].jumps) \in Nat
  BY <1>1, DoneType
<1>6. DoneUpTo(cs, m) = Len(cs[m].jumps)
  BY <1>1, <1>4, <1>5 DEF DoneUpTo
<1>. QED BY <1>1, <1>2, <1>3, <1>4, <1>6 DEF IsReturned

LEMMA ReturnDone ==
  ASSUME NEW jumps, NEW list, NEW cs, Stacked(jumps, list, cs), NEW es, NEW m,
         IsReturned(cs, es, m)
  PROVE  /\ \A i \in 1 .. m - 2 : DoneUpTo(es, i) = DoneUpTo(cs, i) /\ DoneOf(es, i) = DoneOf(cs, i)
         /\ DoneUpTo(es, m - 1) = DoneUpTo(cs, m - 1) + 1 /\ DoneUpTo(cs, m - 1) \in Nat
         /\ cs[m - 1].jumps[DoneUpTo(cs, m - 1) + 1] = cs[m].alias
         /\ DoneOf(es, m - 1) = Append(DoneOf(cs, m - 1), cs[m].alias)
         /\ DoneOf(cs, m) = jumps[cs[m].alias]
<1>1. /\ m = Len(cs) /\ m \in Nat /\ m >= 2 /\ Len(es) = m - 1
      /\ m - 1 \in 1 .. m - 1 /\ m - 1 \in 1 .. m /\ m \in 1 .. m /\ m \in 2 .. m
      /\ m - 1 # m
  BY DEF IsReturned
<1>2. \A i \in 1 .. m - 2 : DoneUpTo(es, i) = DoneUpTo(cs, i) /\ DoneOf(es, i) = DoneOf(cs, i)
  <2>. TAKE i \in 1 .. m - 2
  <2>1. i \in 1 .. m - 1 /\ i # m /\ i # m - 1
    BY <1>1
  <2>2. es[i] = cs[i]
    BY <2>1 DEF IsReturned
  <2>. QED BY <1>1, <2>1, <2>2 DEF DoneUpTo, DoneOf
<1>3. es[m - 1] = cs[m - 1]
  BY <1>1 DEF IsReturned
<1>. DEFINE c == cs[m - 1]
            s == c.jumps
            n == c.next - 2
            h == cs[m].alias
<1>4. /\ c.next >= 2 /\ s[c.next - 1] = h
      /\ cs[m].jumps = jumps[h]
  BY <1>1 DEF Stacked
<1>5. /\ s \in Seq(Aliases) /\ Len(s) \in Nat /\ c.next \in Nat
      /\ DoneUpTo(cs, m - 1) \in 0 .. Len(s)
  BY <1>1, DoneType
<1>6. DoneUpTo(cs, m - 1) = n /\ DoneUpTo(es, m - 1) = c.next - 1
  BY <1>1, <1>3 DEF DoneUpTo
<1>7. n \in Nat /\ n + 1 <= Len(s) /\ n + 1 = c.next - 1
  <2>1. c.next \in 1 .. Len(s) + 1
    BY <1>1 DEF Stacked
  <2>. QED BY <1>4, <1>5, <2>1
<1>8. s[n + 1] = h
  BY <1>4, <1>7
<1>9. DoneOf(es, m - 1) = Append(DoneOf(cs, m - 1), h)
  <2>1. DoneOf(es, m - 1) = SubSeq(s, 1, n + 1) /\ DoneOf(cs, m - 1) = SubSeq(s, 1, n)
    BY <1>3, <1>6, <1>7 DEF DoneOf
  <2>. HIDE DEF s, n, h
  <2>2. SubSeq(s, 1, n + 1) = Append(SubSeq(s, 1, n), s[n + 1])
    BY <1>5, <1>7, PrefixGrows
  <2>. QED BY <1>8, <2>1, <2>2, Zenon
<1>10. DoneOf(cs, m) = jumps[h]
  <2>1. DoneUpTo(cs, m) = Len(cs[m].jumps)
    BY DEF IsReturned
  <2>2. cs[m].jumps \in Seq(Aliases)
    BY <1>1, DoneType
  <2>3. SubSeq(cs[m].jumps, 1, Len(cs[m].jumps)) = cs[m].jumps
    BY <2>2, SubSeqFull
  <2>. QED BY <1>4, <2>1, <2>3 DEF DoneOf
<1>. QED BY <1>2, <1>6, <1>7, <1>8, <1>9, <1>10

LEMMA ReturnStacked ==
  ASSUME NEW jumps, NEW list, NEW cs, Stacked(jumps, list, cs), NEW es, NEW m,
         IsReturned(cs, es, m)
  PROVE  /\ Stacked(jumps, list, es)
         /\ Nested(jumps, cs) => Nested(jumps, es)
<1>1. /\ m = Len(cs) /\ m \in Nat /\ m >= 2 /\ Len(es) = m - 1 /\ 1 \in 1 .. m - 1
      /\ es \in Seq(Calls) /\ es # <<>>
      /\ \A i \in 1 .. m - 1 : i \in 1 .. m /\ es[i] = cs[i]
      /\ \A i \in 2 .. m - 1 : i \in 2 .. m /\ i \in 1 .. m - 1 /\ i - 1 \in 1 .. m - 1
  BY DEF IsReturned
<1>2. es[1].jumps = list
  BY <1>1 DEF Stacked
<1>3. \A i \in 1 .. Len(es) : es[i].next \in 1 .. Len(es[i].jumps) + 1
  BY <1>1 DEF Stacked
<1>4. ASSUME NEW i \in 2 .. Len(es)
      PROVE  /\ es[i].alias \in Aliases /\ es[i].jumps = jumps[es[i].alias]
             /\ es[i - 1].next >= 2
             /\ es[i - 1].jumps[es[i - 1].next - 1] = es[i].alias
  <2>1. i \in 2 .. m /\ es[i] = cs[i] /\ es[i - 1] = cs[i - 1]
    BY <1>1
  <2>. QED BY <1>1, <2>1 DEF Stacked
<1>5. Nested(jumps, cs) => Nested(jumps, es)
  BY <1>1 DEF Nested
<1>6. Stacked(jumps, list, es)
  BY <1>1, <1>2, <1>3, <1>4, Zenon DEF Stacked
<1>. QED BY <1>5, <1>6

IsDone(jumps, cs, hosts) == DoneAreOut(cs, hosts) /\ Ordered(jumps, hosts)

LEMMA ReturnOut ==
  ASSUME NEW jumps, NEW list, NEW cs, Stacked(jumps, list, cs), NEW es, NEW m,
         IsReturned(cs, es, m), NEW hosts \in Seq(Aliases), IsDone(jumps, cs, hosts)
  PROVE  IsDone(jumps, es, Append(hosts, cs[m].alias))
<1>. DEFINE n == Len(hosts)
            h == cs[m].alias
            more == Append(hosts, h)
<1>1. /\ m = Len(cs) /\ m \in Nat /\ m >= 2 /\ Len(es) = m - 1 /\ m \in 1 .. m /\ m - 1 \in 1 .. m
      /\ h \in Aliases /\ m \in 2 .. m /\ m - 1 \in 1 .. m - 1
      /\ DoneUpTo(cs, m) = Len(cs[m].jumps)
      /\ \A i \in 1 .. m - 1 : i \in 1 .. m /\ es[i] = cs[i]
  BY DEF IsReturned
<1>2. n \in Nat /\ Len(more) = n + 1 /\ more[n + 1] = h /\ \A i \in 1 .. n : more[i] = hosts[i]
  BY <1>1, AppendProperties, LenProperties
<1>3. \A i \in 1 .. n : i \in 1 .. n + 1
  BY <1>2
<1>4. n + 1 \in 1 .. n + 1
  BY <1>2
<1>. HIDE DEF n, h, more
<1>5. ASSUME NEW i \in 1 .. m, NEW p \in 1 .. DoneUpTo(cs, i)
      PROVE  \E q \in 1 .. n : hosts[q] = cs[i].jumps[p]
  BY <1>1 DEF IsDone, DoneAreOut, n
<1>6. ASSUME NEW i \in 1 .. m - 1, NEW p \in 1 .. DoneUpTo(es, i)
      PROVE  \E q \in 1 .. n + 1 : more[q] = es[i].jumps[p]
  <2>1. CASE p \in 1 .. DoneUpTo(cs, i)
    <3>1. PICK q \in 1 .. n : hosts[q] = cs[i].jumps[p]
      BY <1>1, <1>5, <2>1
    <3>. QED BY <1>1, <1>2, <1>3, <3>1
  <2>2. CASE p \notin 1 .. DoneUpTo(cs, i)
    <3>1. i = m - 1
      <4>1. i \in 1 .. m - 2 => DoneUpTo(es, i) = DoneUpTo(cs, i)
        BY ReturnDone
      <4>2. i \notin 1 .. m - 2
        BY <2>2, <4>1
      <4>. QED BY <1>1, <4>2
    <3>2. /\ DoneUpTo(es, m - 1) = DoneUpTo(cs, m - 1) + 1 /\ DoneUpTo(cs, m - 1) \in Nat
          /\ cs[m - 1].jumps[DoneUpTo(cs, m - 1) + 1] = h
      BY ReturnDone DEF h
    <3>3. p = DoneUpTo(cs, m - 1) + 1
      BY <2>2, <3>1, <3>2
    <3>4. es[i].jumps[p] = h
      BY <1>1, <3>1, <3>2, <3>3
    <3>. QED BY <1>2, <1>4, <3>4
  <2>. QED BY <2>1, <2>2
<1>7. ASSUME NEW q \in 1 .. n + 1, NEW x \in ToSet(jumps[more[q]])
      PROVE  \E p \in 1 .. q - 1 : more[p] = x
  <2>1. CASE q \in 1 .. n
    <3>1. PICK p \in 1 .. q - 1 : hosts[p] = x
      BY <1>2, <2>1 DEF IsDone, Ordered, n
    <3>2. p \in 1 .. n
      BY <1>2, <2>1
    <3>. QED BY <1>2, <3>1, <3>2
  <2>2. CASE q = n + 1
    <3>1. x \in ToSet(cs[m].jumps)
      <4>1. cs[m].jumps = jumps[h]
        BY <1>1 DEF Stacked, h
      <4>. QED BY <1>2, <2>2, <4>1
    <3>2. cs[m].jumps \in Seq(Aliases)
      BY <1>1, DoneType
    <3>3. PICK p \in 1 .. Len(cs[m].jumps) : cs[m].jumps[p] = x
      BY <3>1, <3>2, LenProperties DEF ToSet
    <3>4. PICK r \in 1 .. n : hosts[r] = x
      BY <1>1, <1>5, <3>3
    <3>5. r \in 1 .. q - 1
      BY <1>2, <2>2
    <3>. QED BY <1>2, <3>4, <3>5
  <2>3. q \in 1 .. n \/ q = n + 1
    BY <1>2
  <2>. QED BY <2>1, <2>2, <2>3
<1>8. DoneAreOut(es, more)
  BY <1>1, <1>2, <1>6 DEF DoneAreOut
<1>9. Ordered(jumps, more)
  BY <1>2, <1>7 DEF Ordered
<1>. QED BY <1>8, <1>9, Zenon DEF IsDone, more, h

LEMMA AppendBehind ==
  ASSUME NEW a \in Seq(Aliases), NEW b \in Seq(Aliases), NEW h \in Aliases
  PROVE  a \o Append(b, h) = Append(a \o b, h)
<1>. DEFINE c == <<h>>
            w == a \o b
<1>1. c \in Seq(Aliases) /\ w \in Seq(Aliases)
  BY ConcatFacts
<1>2. Append(b, h) = b \o c /\ Append(w, h) = w \o c
  BY <1>1, AppendIsConcat
<1>. HIDE DEF c
<1>3. a \o (b \o c) = (a \o b) \o c
  BY <1>1, Associative
<1>. QED BY <1>2, <1>3

LEMMA ReturnAccounts ==
  ASSUME NEW jumps \in [Aliases -> Seq(Aliases)], NEW list \in Seq(Aliases), NEW cs,
         Stacked(jumps, list, cs), NEW es, NEW m, IsReturned(cs, es, m),
         NEW hosts \in Seq(Aliases), NEW more, more = Append(hosts, cs[m].alias),
         NEW max, NEW base, Accounts(jumps, list, cs, hosts, max, base)
  PROVE  \E b : Accounts(jumps, list, es, more, max, b)
<1>. DEFINE b == [i \in 1 .. m - 1 |-> base[i]]
            h == cs[m].alias
            D == DoneOf(cs, m - 1)
            a == base[m - 1]
            f == InFront(jumps, list)
<1>1. /\ m = Len(cs) /\ m \in Nat /\ m >= 2 /\ Len(es) = m - 1 /\ m \in 1 .. m
      /\ m - 1 \in 1 .. m /\ m - 1 \in 1 .. m - 1 /\ 1 \in 1 .. m - 1
      /\ h \in Aliases /\ (m - 1) + 1 = m
      /\ \A i \in 1 .. m - 1 : i \in 1 .. m /\ es[i] = cs[i]
  BY DEF IsReturned
<1>2. /\ base \in [1 .. m -> Seq(Aliases)] /\ base[1] = <<>>
      /\ \A i \in 1 .. m - 1 : base[i + 1] = base[i] \o DoneOf(cs, i)
      /\ IsChainOf(jumps, base[m] \o DoneOf(cs, m), hosts)
      /\ f[max] = <<>> =>
           \A i \in 1 .. m : \E k \in Nat : k >= i - 1 /\ f[k] = base[i] \o cs[i].jumps
  BY <1>1 DEF Accounts
<1>3. /\ \A i \in 1 .. m - 2 : DoneOf(es, i) = DoneOf(cs, i)
      /\ DoneOf(es, m - 1) = Append(D, h) /\ DoneOf(cs, m) = jumps[h]
  BY ReturnDone
<1>4. a \in Seq(Aliases) /\ D \in Seq(Aliases) /\ base[m] = a \o D
  <2>1. D \in Seq(Aliases)
    BY <1>1, DoneType
  <2>2. base[(m - 1) + 1] = base[m - 1] \o DoneOf(cs, m - 1)
    BY <1>1, <1>2
  <2>. QED BY <1>1, <1>2, <2>1, <2>2
<1>5. b \in [1 .. m - 1 -> Seq(Aliases)] /\ \A i \in 1 .. m - 1 : b[i] = base[i]
  BY <1>1, <1>2
<1>. HIDE DEF b, D, a, h, f
<1>6. a \o Append(D, h) = Append(a \o D, h) /\ a \o D \in Seq(Aliases)
  <2>1. a \in Seq(Aliases) /\ D \in Seq(Aliases) /\ h \in Aliases
    BY <1>1, <1>4
  <2>2. a \o D \in Seq(Aliases)
    BY <2>1, ConcatFacts
  <2>3. a \o Append(D, h) = Append(a \o D, h)
    BY <2>1, AppendBehind, Zenon
  <2>. QED BY <2>2, <2>3
<1>7. IsChainOf(jumps, b[m - 1] \o DoneOf(es, m - 1), more)
  <2>. DEFINE w == a \o D
  <2>1. IsChainOf(jumps, w \o jumps[h], hosts) /\ w \in Seq(Aliases)
    BY <1>2, <1>3, <1>4, <1>6, Zenon
  <2>. HIDE DEF w
  <2>2. IsChainOf(jumps, Append(w, h), Append(hosts, h))
    BY <1>1, <2>1, ChainGrows
  <2>3. b[m - 1] = a
    BY <1>1, <1>5 DEF a
  <2>. QED BY <1>3, <1>6, <2>2, <2>3, Zenon DEF w, h
<1>8. \A i \in 1 .. (m - 1) - 1 : b[i + 1] = b[i] \o DoneOf(es, i)
  <2>. TAKE i \in 1 .. (m - 1) - 1
  <2>1. i \in 1 .. m - 2 /\ i \in 1 .. m - 1 /\ i + 1 \in 1 .. m - 1
    BY <1>1
  <2>. QED BY <1>2, <1>3, <1>5, <2>1
<1>9. f[max] = <<>> => \A i \in 1 .. m - 1 : \E k \in Nat : k >= i - 1 /\ f[k] = b[i] \o es[i].jumps
  <2>. SUFFICES ASSUME f[max] = <<>>, NEW i \in 1 .. m - 1
                PROVE  \E k \in Nat : k >= i - 1 /\ f[k] = b[i] \o es[i].jumps
    OBVIOUS
  <2>1. i \in 1 .. m /\ es[i] = cs[i] /\ b[i] = base[i]
    BY <1>1, <1>5
  <2>2. \E k \in Nat : k >= i - 1 /\ f[k] = base[i] \o cs[i].jumps
    BY <1>2, <2>1, Zenon
  <2>. QED BY <2>1, <2>2, Zenon
<1>10. b[1] = <<>>
  BY <1>1, <1>2, <1>5
<1>11. Accounts(jumps, list, es, more, max, b)
  BY <1>1, <1>5, <1>7, <1>8, <1>9, <1>10, Zenon DEF Accounts, f
<1>. QED BY <1>11

\* Where a host is called for, a list that is expanded to its end has still the
\* host and all that is in the chain before it.
LEMMA StillToCome ==
  ASSUME NEW jumps \in [Aliases -> Seq(Aliases)], NEW list \in Seq(Aliases), NEW done, NEW h,
         NEW low \in Nat, NEW max \in Nat, IsPassed(jumps, list, done, h, low, max),
         InFront(jumps, list)[max] = <<>>, NEW hosts, IsChainOf(jumps, done, hosts),
         Len(hosts) \in Nat
  PROVE  max >= low + 1 + Len(hosts)
<1>. DEFINE f == InFront(jumps, list)
            n == Len(hosts)
            rest == jumps[h]
            w == done \o rest
            g == InFront(jumps, w)
            d == InFront(jumps, done)
<1>1. done \in Seq(Aliases) /\ h \in Aliases /\ rest \in Seq(Aliases)
  BY DEF IsPassed
<1>2. PICK i \in Nat : i >= low /\ i <= max /\ f[i] = Append(done, h) /\ f[i + 1] = w
  BY DEF IsPassed
<1>3. w \in Seq(Aliases)
  BY <1>1, ConcatFacts
<1>4. Append(done, h) # <<>>
  BY <1>1, AppendProperties
<1>5. f[max] = <<>> /\ n \in Nat
  OBVIOUS
<1>6. \A j \in 0 .. n - 1 : d[j] # <<>>
  BY DEF IsChainOf
<1>. HIDE DEF n, rest
<1>. DEFINE q == max - (i + 1)
            k1 == i + 1
<1>7. q \in Nat /\ k1 \in Nat /\ k1 + q = max
  BY <1>2, <1>4, <1>5
<1>8. \A j \in Nat : f[k1 + j] = g[j]
  <2>1. \A j \in Nat : f[k1 + j] = InFront(jumps, f[k1])[j]
    <3>. HIDE DEF k1
    <3>. QED BY <1>7, InFrontShift
  <2>. QED BY <1>2, <2>1, Zenon
<1>. HIDE DEF q, k1
<1>9. g[q] = <<>>
  BY <1>5, <1>7, <1>8
<1>10. PICK k \in Nat : k <= q /\ g[k] = done
  <2>1. InFront(jumps, done \o rest)[q] = <<>>
    BY <1>9 DEF g, w
  <2>2. \E k \in Nat : k >= Len(rest) /\ k <= q /\ InFront(jumps, done \o rest)[k] = done
    <3>1. q \in Nat /\ done \in Seq(Aliases) /\ rest \in Seq(Aliases)
      BY <1>1, <1>7
    <3>. QED BY <2>1, <3>1, Passes, ZenonT(40)
  <2>. QED BY <2>2 DEF g, w
<1>11. \A j \in Nat : g[k + j] = d[j]
  <2>. HIDE DEF w
  <2>1. \A j \in Nat : g[k + j] = InFront(jumps, g[k])[j]
    BY <1>3, InFrontShift
  <2>. QED BY <1>10, <2>1, Zenon
<1>. HIDE DEF d, g, f, w
<1>. DEFINE r == q - k
<1>12. r \in Nat /\ k + r = q
  BY <1>7, <1>10
<1>. HIDE DEF r
<1>13. d[r] = <<>>
  BY <1>9, <1>11, <1>12
<1>14. r >= n
  BY <1>5, <1>6, <1>12, <1>13
<1>. QED BY <1>2, <1>5, <1>7, <1>10, <1>12, <1>14 DEF k1, n

LEMMA TooLong ==
  ASSUME NEW jumps \in [Aliases -> Seq(Aliases)], NEW list \in Seq(Aliases), NEW cs,
         NEW h, NEW ds, NEW m, IsCalled(jumps, cs, h, ds, m),
         h = cs[m].jumps[cs[m].next], cs[m].next <= Len(cs[m].jumps),
         NEW hosts \in Seq(Aliases), NEW max \in Nat, NEW base,
         Accounts(jumps, list, cs, hosts, max, base), max < m + Len(hosts)
  PROVE  InFront(jumps, list)[max] # <<>>
<1>. SUFFICES ASSUME InFront(jumps, list)[max] = <<>> PROVE FALSE
  OBVIOUS
<1>. DEFINE done == base[m] \o DoneOf(cs, m)
            low == m - 1
<1>1. m = Len(cs) /\ low \in Nat /\ low + 1 = m
  BY DEF IsCalled
<1>2. IsPassed(jumps, list, done, h, low, max)
  BY CallIsPassed
<1>3. IsChainOf(jumps, done, hosts)
  BY <1>1 DEF Accounts
<1>4. Len(hosts) \in Nat
  BY LenProperties
<1>. HIDE DEF done, low
<1>5. max >= low + 1 + Len(hosts)
  BY <1>1, <1>2, <1>3, <1>4, StillToCome
<1>. QED BY <1>1, <1>4, <1>5
----
(* The chain is what the jumps make of the route. *)

ChainSoFar ==
  /\ route \in Seq(Aliases) /\ Len(route) = 1 /\ output \in Seq(Aliases)
  /\ Stacked(AllJumps, route, calls) /\ Nested(AllJumps, calls)
  /\ Ordered(AllJumps, output) /\ DoneAreOut(calls, output)
  /\ \E base : Accounts(AllJumps, route, calls, output, MaxRoute, base)
  /\ expanded = Len(output) + Len(calls) - 1 /\ expanded <= MaxRoute

\* A chain that is done has as many hosts as a route may have.
ChainFits == state = "done" => output \in Seq(Aliases) /\ Len(output) \in 1 .. MaxRoute

ChainInv ==
  /\ state \in {"reading", "ready", "failed"} => output = <<>> /\ expanded = 0
  /\ Expanding => ChainSoFar
  /\ ChainFits
  /\ ChainFollowsTheJumps

LEMMA JumpsType == ReadingInv => AllJumps \in [Aliases -> Seq(Aliases)]
<1>. SUFFICES ASSUME ReadingInv, NEW h \in Aliases PROVE Jumps(h) \in Seq(Aliases)
  BY DEF AllJumps
<1>1. blocks \in Seq(Blocks)
  BY DEF ReadingInv, ReadingType
<1>. DEFINE v == resolve(h)
<1>2. v \in OptionValues
  <2>1. Len(blocks) \in 0 .. Len(blocks)
    BY <1>1, LenProperties
  <2>2. ValuesAfter(h, blocks) \in [0 .. Len(blocks) -> OptionValues]
    BY <1>1, ValuesRun
  <2>. QED BY <2>1, <2>2 DEF resolve
<1>. HIDE DEF v
<1>. DEFINE w == v["proxyjump"]
<1>3. w \in Seq(Seq(Aliases))
  BY <1>2 DEF OptionValues
<1>. HIDE DEF w
<1>4. w # <<>> => w[1] \in Seq(Aliases)
  <2>. SUFFICES ASSUME w # <<>> PROVE w[1] \in Seq(Aliases)
    OBVIOUS
  <2>1. 1 \in 1 .. Len(w)
    BY <1>3, EmptySeq, LenProperties
  <2>. QED BY <1>3, <2>1, ElementOfSeq
<1>5. <<>> \in Seq(Aliases)
  OBVIOUS
<1>6. Jumps(h) = IF w = <<>> THEN <<>> ELSE w[1]
  BY DEF Jumps, first, v, w
<1>. QED BY <1>4, <1>5, <1>6

\* Nothing is read any more when a chain is expanded.
LEMMA JumpsStay == UNCHANGED blocks => AllJumps' = AllJumps
  BY DEF AllJumps, Jumps, resolve

\* The first call is for the one host of the route.
LEMMA FirstCall ==
  ASSUME NEW jumps \in [Aliases -> Seq(Aliases)], NEW r \in Seq(Aliases), Len(r) = 1,
         NEW cs, cs = <<[alias |-> "none", jumps |-> r, next |-> 1]>>, NEW max \in Nat
  PROVE  /\ Stacked(jumps, r, cs) /\ Nested(jumps, cs)
         /\ Ordered(jumps, <<>>) /\ DoneAreOut(cs, <<>>)
         /\ \E base : Accounts(jumps, r, cs, <<>>, max, base)
<1>. DEFINE c == [alias |-> "none", jumps |-> r, next |-> 1]
            base == [i \in 1 .. 1 |-> <<>>]
<1>1. c \in Calls /\ c.jumps = r /\ c.next = 1
  BY DEF Calls
<1>2. cs = <<c>>
  OBVIOUS
<1>. HIDE DEF c
<1>3. cs \in Seq(Calls) /\ Len(cs) = 1 /\ cs[1] = c /\ cs # <<>>
  BY <1>1, <1>2
<1>4. Stacked(jumps, r, cs)
  BY <1>1, <1>3 DEF Stacked
<1>5. Nested(jumps, cs)
  BY <1>3 DEF Nested
<1>6. DoneUpTo(cs, 1) = 0 /\ DoneOf(cs, 1) = <<>>
  <2>1. DoneUpTo(cs, 1) = 0
    BY <1>1, <1>3 DEF DoneUpTo
  <2>2. SubSeq(r, 1, 0) = <<>>
    BY SubSeqEmpty
  <2>. QED BY <1>1, <1>3, <2>1, <2>2 DEF DoneOf
<1>7. DoneAreOut(cs, <<>>)
  BY <1>3, <1>6 DEF DoneAreOut
<1>8. Ordered(jumps, <<>>)
  BY DEF Ordered
<1>9. <<>> \in Seq(Aliases) /\ Len(<<>>) = 0
  OBVIOUS
<1>10. InFront(jumps, <<>>)[0] = <<>> /\ InFront(jumps, r)[0] = r
  BY <1>9, InFrontRuns
<1>11. IsChainOf(jumps, <<>>, <<>>)
  BY <1>9, <1>10 DEF IsChainOf
<1>12. base[1] = <<>> /\ base \in [1 .. 1 -> Seq(Aliases)]
  BY <1>9
<1>13. <<>> \o <<>> = <<>> /\ <<>> \o r = r
  BY <1>9, ConcatFacts
<1>. HIDE DEF base
<1>14. Accounts(jumps, r, cs, <<>>, max, base)
  <2>1. IsChainOf(jumps, base[1] \o DoneOf(cs, 1), <<>>)
    BY <1>6, <1>11, <1>12, <1>13, Zenon
  <2>2. \A i \in 1 .. 1 : \E k \in Nat : k >= i - 1 /\ InFront(jumps, r)[k] = base[i] \o cs[i].jumps
    <3>1. InFront(jumps, r)[0] = base[1] \o cs[1].jumps
      BY <1>1, <1>3, <1>10, <1>12, <1>13, Zenon
    <3>2. 0 \in Nat /\ 0 >= 1 - 1 /\ \A i \in 1 .. 1 : i = 1
      OBVIOUS
    <3>3. \E k \in Nat : k >= 1 - 1 /\ InFront(jumps, r)[k] = base[1] \o cs[1].jumps
      BY <3>1, <3>2, Zenon
    <3>. QED BY <3>2, <3>3, Zenon
  <2>3. \A i \in 1 .. 1 - 1 : base[i + 1] = base[i] \o DoneOf(cs, i)
    OBVIOUS
  <2>. QED BY <1>3, <1>12, <2>1, <2>2, <2>3, Zenon DEF Accounts
<1>. QED BY <1>4, <1>5, <1>7, <1>8, <1>14

LEMMA ChainInit == ConfigInit => ChainInv
  BY DEF ConfigInit, ChainInv, ChainFits, ChainFollowsTheJumps, Expanding

\* The reader leaves the chain alone.
LEMMA ReadingChain ==
  ASSUME ChainInv, Reading, UNCHANGED chain, state' \in {"reading", "ready", "failed"}
  PROVE  ChainInv'
  BY DEF ChainInv, ChainFits, ChainFollowsTheJumps, Expanding, Reading, chain

LEMMA AskStep ==
  ASSUME ReadingInv, ChainInv, NEW r \in Routes, Ask(r)
  PROVE  ChainInv'
<1>1. /\ state = "ready" /\ route' = r /\ UNCHANGED expanded /\ UNCHANGED blocks
      /\ output = <<>> /\ expanded = 0
  BY DEF Ask, ChainInv, reader
<1>2. r \in Seq(Aliases) /\ Len(r) \in Nat /\ MaxRoute \in Nat \ {0}
  BY ConfigAssumption, LenProperties
<1>3. CASE Len(r) > MaxRoute /\ state' = "too_long"
  BY <1>1, <1>3 DEF ChainInv, ChainFits, ChainFollowsTheJumps, Expanding
<1>4. CASE Len(r) \in 2 .. MaxRoute /\ output' = r /\ state' = "done"
  <2>1. Len(route') > 1 /\ output' = route'
    BY <1>1, <1>2, <1>4
  <2>2. ChainFits'
    BY <1>2, <1>4 DEF ChainFits
  <2>. QED BY <1>4, <2>1, <2>2 DEF ChainInv, ChainFollowsTheJumps, Expanding
<1>5. CASE /\ Len(r) = 1 /\ calls' = <<[alias |-> "none", jumps |-> r, next |-> 1]>>
           /\ state' = "expanding" /\ UNCHANGED output
  <2>. DEFINE jumps == AllJumps
              cs == calls'
  <2>1. jumps \in [Aliases -> Seq(Aliases)] /\ AllJumps' = jumps
    BY <1>1, JumpsType, JumpsStay
  <2>2. cs = <<[alias |-> "none", jumps |-> r, next |-> 1]>>
    BY <1>5
  <2>3. Len(cs) = 1
    BY <2>2
  <2>. HIDE DEF jumps, cs
  <2>4. /\ Stacked(jumps, r, cs) /\ Nested(jumps, cs)
        /\ Ordered(jumps, <<>>) /\ DoneAreOut(cs, <<>>)
        /\ \E base : Accounts(jumps, r, cs, <<>>, MaxRoute, base)
    BY <1>2, <1>5, <2>1, <2>2, FirstCall
  <2>5. route' = r /\ calls' = cs /\ output' = <<>> /\ expanded' = 0
    BY <1>1, <1>5 DEF cs
  <2>6. Len(<<>>) = 0 /\ <<>> \in Seq(Aliases)
    OBVIOUS
  <2>7. /\ route' \in Seq(Aliases) /\ Len(route') = 1 /\ output' \in Seq(Aliases)
        /\ Stacked(AllJumps', route', calls') /\ Nested(AllJumps', calls')
        /\ Ordered(AllJumps', output') /\ DoneAreOut(calls', output')
        /\ \E base : Accounts(AllJumps', route', calls', output', MaxRoute, base)
    BY <1>2, <1>5, <2>1, <2>4, <2>5, <2>6, Zenon
  <2>8. expanded' = Len(output') + Len(calls') - 1 /\ expanded' <= MaxRoute
    BY <1>2, <2>3, <2>5, <2>6
  <2>9. ChainSoFar'
    BY <2>7, <2>8, Zenon DEF ChainSoFar
  <2>. QED BY <1>5, <2>9 DEF ChainInv, ChainFits, ChainFollowsTheJumps, Expanding
<1>. QED BY <1>3, <1>4, <1>5 DEF Ask

\* What holds where expand_chain calls itself.
Calling(jumps, h, ds, m) ==
  /\ jumps = AllJumps /\ jumps \in [Aliases -> Seq(Aliases)]
  /\ ds = Called(calls, h, jumps) /\ IsCalled(jumps, calls, h, ds, m)
  /\ h = calls[m].jumps[calls[m].next] /\ calls[m].next <= Len(calls[m].jumps)
  /\ m = Len(calls) /\ m \in Nat \ {0}

LEMMA EnterIsCalling ==
  ASSUME ReadingInv, ChainSoFar, MoreJumps
  PROVE  LET m == Len(calls)
             h == calls[m].jumps[calls[m].next]
         IN Calling(AllJumps, h, Called(calls, h, AllJumps), m)
<1>. DEFINE jumps == AllJumps
            m == Len(calls)
            h == calls[m].jumps[calls[m].next]
            ds == Called(calls, h, jumps)
<1>1. jumps \in [Aliases -> Seq(Aliases)]
  BY JumpsType
<1>2. calls[m].next <= Len(calls[m].jumps)
  BY DEF MoreJumps, Top
<1>3. Stacked(jumps, route, calls)
  BY DEF ChainSoFar
<1>. HIDE DEF jumps
<1>4. IsCalled(jumps, calls, h, ds, m)
  BY <1>1, <1>2, <1>3, CalledIs
<1>5. m \in Nat \ {0}
  BY <1>4 DEF IsCalled
<1>. QED BY <1>1, <1>2, <1>4, <1>5, Zenon DEF Calling, jumps

\* The second call is for the host of the route, those above it are for hosts
\* that it is reached through.
LEMMA FromTheTarget ==
  ASSUME NEW jumps, NEW list, Len(list) = 1, NEW cs, Stacked(jumps, list, cs), Nested(jumps, cs),
         NEW i \in 2 .. Len(cs)
  PROVE  cs[i].alias \in {list[1]} \cup Beyond(jumps, list[1])
<1>1. Len(cs) \in Nat
  BY LenProperties DEF Stacked
<1>2. 2 \in 2 .. Len(cs) /\ 1 \in 1 .. Len(cs) /\ 2 - 1 = 1
  BY <1>1
<1>3. cs[2].alias = list[1]
  <2>1. cs[1].jumps = list /\ Len(list) = 1 /\ 1 + 1 = 2 /\ cs[1].next \in 1 .. Len(cs[1].jumps) + 1
    BY <1>2 DEF Stacked
  <2>2. cs[1].next >= 2 /\ cs[1].jumps[cs[1].next - 1] = cs[2].alias
    BY <1>2 DEF Stacked
  <2>3. cs[1].next = 2
    <3>1. cs[1].next \in 1 .. 2
      BY <2>1, Zenon
    <3>. QED BY <2>2, <3>1
  <2>4. cs[1].next - 1 = 1
    BY <2>3
  <2>. QED BY <2>1, <2>2, <2>4
<1>4. i # 2 => cs[i].alias \in Beyond(jumps, cs[2].alias)
  BY <1>1, <1>2 DEF Nested
<1>. QED BY <1>3, <1>4

LEMMA StackedCycle ==
  ASSUME NEW jumps \in [Aliases -> Seq(Aliases)], NEW list, Len(list) = 1, NEW cs,
         Stacked(jumps, list, cs), Nested(jumps, cs), NEW h, NEW ds, NEW m,
         IsCalled(jumps, cs, h, ds, m), h = cs[m].jumps[cs[m].next],
         cs[m].next <= Len(cs[m].jumps), \E i \in 2 .. Len(cs) : cs[i].alias = h
  PROVE  Cyclic(jumps, list[1])
<1>1. PICK i \in 2 .. Len(cs) : cs[i].alias = h
  OBVIOUS
<1>2. m = Len(cs)
  BY DEF IsCalled
<1>3. h \in Beyond(jumps, h)
  <2>1. \A k \in 2 .. m : h \in Beyond(jumps, cs[k].alias)
    BY CalledNested
  <2>. QED BY <1>1, <1>2, <2>1
<1>4. h \in {list[1]} \cup Beyond(jumps, list[1])
  BY <1>1, FromTheTarget
<1>. QED BY <1>3, <1>4 DEF Cyclic

LEMMA EnterStep ==
  ASSUME ReadingInv, ChainInv, Enter
  PROVE  ChainInv'
<1>. DEFINE m == Len(calls)
            h == calls[m].jumps[calls[m].next]
            ds == Called(calls, h, AllJumps)
            jumps == AllJumps
<1>1. /\ Expanding /\ MoreJumps /\ ChainSoFar
      /\ UNCHANGED blocks /\ route' = route /\ output' = output
  BY DEF Enter, ChainInv, reader
<1>2. Calling(jumps, h, ds, m)
  BY <1>1, EnterIsCalling
<1>3. AllJumps' = jumps
  BY <1>1, JumpsStay
<1>4. \/ expanded >= MaxRoute /\ state' = "too_long"
      \/ expanded < MaxRoute /\ expanded' = expanded + 1 /\ OnStack(h) /\ state' = "cycle"
      \/ expanded < MaxRoute /\ expanded' = expanded + 1 /\ calls' = ds /\ state' = state
  <2>1. ASSUME h \in Aliases
        PROVE  Called(calls, h, AllJumps)
                 = Append(OnTop(calls, [Top(calls) EXCEPT !.next = @ + 1]),
                          [alias |-> h, jumps |-> Jumps(h), next |-> 1])
    BY <2>1 DEF Called, AllJumps
  <2>2. h \in Aliases
    BY <1>2 DEF Calling, IsCalled
  <2>. QED BY <2>1, <2>2, Zenon DEF Enter, Top
<1>. HIDE DEF ds, h, m, jumps
<1>5. /\ jumps \in [Aliases -> Seq(Aliases)] /\ IsCalled(jumps, calls, h, ds, m)
      /\ h = calls[m].jumps[calls[m].next] /\ calls[m].next <= Len(calls[m].jumps)
      /\ m = Len(calls) /\ m \in Nat \ {0} /\ Len(ds) = m + 1 /\ jumps = AllJumps
  BY <1>2 DEF Calling, IsCalled
<1>6. /\ route \in Seq(Aliases) /\ Len(route) = 1 /\ output \in Seq(Aliases)
      /\ Stacked(jumps, route, calls) /\ Nested(jumps, calls)
      /\ Ordered(jumps, output) /\ DoneAreOut(calls, output)
      /\ expanded = Len(output) + m - 1 /\ expanded <= MaxRoute
      /\ Len(output) \in Nat /\ MaxRoute \in Nat
  BY <1>1, <1>5, ConfigAssumption, LenProperties DEF ChainSoFar
<1>7. PICK base : Accounts(jumps, route, calls, output, MaxRoute, base)
  BY <1>1, <1>5, Zenon DEF ChainSoFar
<1>8. CASE expanded >= MaxRoute /\ state' = "too_long"
  <2>1. MaxRoute < m + Len(output)
    BY <1>5, <1>6, <1>8
  <2>2. InFront(jumps, route)[MaxRoute] # <<>>
    BY <1>5, <1>6, <1>7, <2>1, TooLong
  <2>3. InFront(AllJumps, route)'[MaxRoute] # <<>>
    BY <1>1, <1>3, <2>2
  <2>. QED BY <1>8, <2>3 DEF ChainInv, ChainFits, ChainFollowsTheJumps, Expanding
<1>9. CASE OnStack(h) /\ state' = "cycle"
  <2>1. \E i \in 2 .. Len(calls) : calls[i].alias = h
    BY <1>9 DEF OnStack
  <2>2. Cyclic(jumps, route[1])
    BY <1>5, <1>6, <2>1, StackedCycle
  <2>3. Cyclic(AllJumps, route[1])'
    BY <1>1, <1>3, <2>2
  <2>. QED BY <1>9, <2>3 DEF ChainInv, ChainFits, ChainFollowsTheJumps, Expanding
<1>10. CASE expanded < MaxRoute /\ expanded' = expanded + 1 /\ calls' = ds /\ state' = state
  <2>1. Stacked(jumps, route, ds)
    <3>1. Stacked(jumps, route, Called(calls, h, jumps))
      BY <1>5, <1>6, CalledStacked
    <3>. QED BY <1>5, <3>1 DEF ds
  <2>2. Nested(jumps, ds)
    BY <1>5, <1>6, CalledNested
  <2>3. DoneAreOut(ds, output)
    BY <1>5, <1>6, CalledAreOut
  <2>4. \E b : Accounts(jumps, route, ds, output, MaxRoute, b)
    BY <1>5, <1>6, <1>7, CalledAccounts
  <2>5. expanded' = Len(output) + Len(ds) - 1 /\ expanded' <= MaxRoute
    BY <1>5, <1>6, <1>10
  <2>6. ChainSoFar'
    BY <1>1, <1>3, <1>6, <1>10, <2>1, <2>2, <2>3, <2>4, <2>5, Zenon DEF ChainSoFar
  <2>. QED BY <1>1, <1>10, <2>6 DEF ChainInv, ChainFits, ChainFollowsTheJumps, Expanding
<1>. QED BY <1>4, <1>8, <1>9, <1>10

LEMMA LastCall ==
  ASSUME NEW jumps \in [Aliases -> Seq(Aliases)], NEW list \in Seq(Aliases), Len(list) = 1,
         NEW cs, Stacked(jumps, list, cs), Len(cs) = 1,
         ~(cs[Len(cs)].next <= Len(cs[Len(cs)].jumps)), NEW hosts \in Seq(Aliases),
         Ordered(jumps, hosts), DoneAreOut(cs, hosts), NEW max, NEW base,
         Accounts(jumps, list, cs, hosts, max, base)
  PROVE  ~Cyclic(jumps, list[1]) /\ IsChainOf(jumps, list, hosts) /\ Len(hosts) >= 1
<1>1. 1 \in 1 .. Len(cs) /\ cs[1].jumps = list /\ cs[1].next = 2
  <2>1. 1 \in 1 .. Len(cs)
    OBVIOUS
  <2>2. cs[1].jumps = list /\ cs[1].next \in 1 .. Len(cs[1].jumps) + 1
    BY <2>1 DEF Stacked
  <2>3. Len(cs[1].jumps) = 1 /\ ~(cs[1].next <= Len(cs[1].jumps))
    BY <2>2, Zenon
  <2>. DEFINE n == cs[1].next
              l == Len(cs[1].jumps)
  <2>4. n \in 1 .. l + 1 /\ l = 1 /\ ~(n <= l)
    BY <2>2, <2>3
  <2>. HIDE DEF n, l
  <2>5. n = 2
    BY <2>4
  <2>. QED BY <2>1, <2>2, <2>5 DEF n
<1>2. DoneUpTo(cs, 1) = 1
  BY <1>1 DEF DoneUpTo
<1>3. DoneOf(cs, 1) = list
  BY <1>1, <1>2, SubSeqFull DEF DoneOf
<1>4. base[1] = <<>> /\ IsChainOf(jumps, base[1] \o DoneOf(cs, 1), hosts)
  BY DEF Accounts
<1>5. <<>> \o list = list
  <2>1. <<>> \in Seq(Aliases)
    OBVIOUS
  <2>. QED BY <2>1, ConcatFacts
<1>6. IsChainOf(jumps, list, hosts)
  BY <1>3, <1>4, <1>5, Zenon
<1>7. 1 \in 1 .. 1
  OBVIOUS
<1>8. PICK q \in 1 .. Len(hosts) : hosts[q] = list[1]
  BY <1>1, <1>2, <1>7 DEF DoneAreOut
<1>9. list[1] \in Aliases /\ Len(hosts) \in Nat
  BY <1>7, ElementOfSeq, LenProperties
<1>10. ~Cyclic(jumps, list[1])
  BY <1>8, <1>9, NoCycle
<1>. QED BY <1>6, <1>8, <1>9, <1>10

LEMMA LeaveStep ==
  ASSUME ReadingInv, ChainInv, Leave
  PROVE  ChainInv'
<1>. DEFINE m == Len(calls)
            es == Front(calls)
            jumps == AllJumps
            more == Append(output, calls[m].alias)
<1>1. /\ Expanding /\ ChainSoFar /\ UNCHANGED blocks /\ route' = route /\ expanded' = expanded
      /\ calls' = es
      /\ ~(calls[m].next <= Len(calls[m].jumps))
      /\ \/ m > 1 /\ output' = more /\ state' = state
         \/ m = 1 /\ state' = "done" /\ output' = output
  BY DEF Leave, ChainInv, reader, MoreJumps, Top
<1>2. jumps \in [Aliases -> Seq(Aliases)]
  BY JumpsType
<1>3. AllJumps' = jumps
  BY <1>1, JumpsStay
<1>. HIDE DEF es, jumps, more
<1>4. /\ route \in Seq(Aliases) /\ Len(route) = 1 /\ output \in Seq(Aliases)
      /\ Stacked(jumps, route, calls) /\ Nested(jumps, calls)
      /\ Ordered(jumps, output) /\ DoneAreOut(calls, output)
      /\ expanded = Len(output) + m - 1 /\ expanded <= MaxRoute
      /\ Len(output) \in Nat /\ MaxRoute \in Nat
  BY <1>1, ConfigAssumption, LenProperties DEF ChainSoFar, jumps
<1>5. PICK base : Accounts(jumps, route, calls, output, MaxRoute, base)
  BY <1>1, Zenon DEF ChainSoFar, jumps
<1>6. m \in Nat
  BY <1>4, LenProperties DEF Stacked
<1>7. CASE m > 1 /\ output' = more /\ state' = state
  <2>1. IsReturned(calls, es, m)
    <3>1. Len(calls) >= 2
      BY <1>6, <1>7
    <3>2. IsReturned(calls, Front(calls), Len(calls))
      BY <1>1, <1>4, <3>1, ReturnIs
    <3>. QED BY <3>2 DEF es
  <2>. HIDE DEF m
  <2>2. more = Append(output, calls[m].alias) /\ Len(es) = m - 1 /\ calls[m].alias \in Aliases
    BY <2>1 DEF more, m, IsReturned
  <2>3. Stacked(jumps, route, es) /\ Nested(jumps, es)
    BY <1>4, <2>1, ReturnStacked
  <2>4. DoneAreOut(es, more) /\ Ordered(jumps, more)
    <3>1. /\ output \in Seq(Aliases) /\ Stacked(jumps, route, calls)
          /\ DoneAreOut(calls, output) /\ Ordered(jumps, output)
          /\ more = Append(output, calls[m].alias)
      BY <1>4, <2>2
    <3>2. IsDone(jumps, calls, output)
      BY <3>1, Zenon DEF IsDone
    <3>3. IsDone(jumps, es, Append(output, calls[m].alias))
      BY <2>1, <3>1, <3>2, ReturnOut, Zenon
    <3>. QED BY <3>1, <3>3, Zenon DEF IsDone
  <2>5. \E b : Accounts(jumps, route, es, more, MaxRoute, b)
    BY <1>2, <1>4, <1>5, <2>1, <2>2, ReturnAccounts
  <2>6. more \in Seq(Aliases) /\ Len(more) = Len(output) + 1
    BY <1>4, <2>2, AppendProperties
  <2>7. expanded' = Len(more) + Len(es) - 1 /\ expanded' <= MaxRoute
    BY <1>1, <1>4, <1>6, <2>2, <2>6 DEF m
  <2>8. ChainSoFar'
    BY <1>1, <1>3, <1>4, <1>7, <2>3, <2>4, <2>5, <2>6, <2>7, Zenon DEF ChainSoFar
  <2>. QED BY <1>1, <1>7, <2>8 DEF ChainInv, ChainFits, ChainFollowsTheJumps, Expanding
<1>8. CASE m = 1 /\ state' = "done" /\ output' = output
  <2>1. ~Cyclic(jumps, route[1]) /\ IsChainOf(jumps, route, output) /\ Len(output) >= 1
    BY <1>1, <1>2, <1>4, <1>5, <1>8, LastCall
  <2>2. Len(output) <= MaxRoute
    BY <1>4, <1>8
  <2>3. /\ ~Cyclic(AllJumps', route'[1]) /\ IsChainOf(AllJumps', route', output')
        /\ Len(output') <= MaxRoute /\ Len(route') = 1
    BY <1>1, <1>3, <1>4, <1>8, <2>1, <2>2
  <2>4. ChainFits'
    BY <1>4, <1>8, <2>1, <2>2 DEF ChainFits
  <2>. QED BY <1>8, <2>3, <2>4 DEF ChainInv, ChainFollowsTheJumps, Expanding
<1>. QED BY <1>1, <1>7, <1>8

LEMMA ChainStep == ReadingInv /\ ChainInv /\ [ConfigNext]_config => ChainInv'
<1>. SUFFICES ASSUME ReadingInv, ChainInv, [ConfigNext]_config PROVE ChainInv'
  OBVIOUS
<1>1. CASE \E d \in Directives : ReadLine(d)
  BY <1>1, ReadingChain DEF ReadLine, Reading
<1>2. CASE ReadFails
  BY <1>2, ReadingChain DEF ReadFails, GiveUpReading, chain
<1>3. CASE OpenIncluded
  BY <1>3, ReadingChain DEF OpenIncluded, GiveUpReading, Reading, chain
<1>4. CASE EndOfFile
  BY <1>4, ReadingChain DEF EndOfFile
<1>5. CASE \E r \in Routes : Ask(r)
  BY <1>5, AskStep
<1>6. CASE Enter
  BY <1>6, EnterStep
<1>7. CASE Leave
  BY <1>7, LeaveStep
<1>8. CASE UNCHANGED config
  <2>1. /\ UNCHANGED <<blocks, state, route, calls, output, expanded>>
    BY <1>8 DEF config, reader, chain
  <2>2. AllJumps' = AllJumps
    BY <2>1, JumpsStay
  <2>3. ChainSoFar' = ChainSoFar
    BY <2>1, <2>2 DEF ChainSoFar
  <2>4. ChainFollowsTheJumps' = ChainFollowsTheJumps
    BY <2>1, <2>2 DEF ChainFollowsTheJumps
  <2>. QED BY <2>1, <2>3, <2>4 DEF ChainInv, ChainFits, Expanding
<1>. QED BY <1>1, <1>2, <1>3, <1>4, <1>5, <1>6, <1>7, <1>8 DEF ConfigNext

LEMMA ChainInvariant == ConfigSpec => [](ReadingInv /\ ChainInv)
<1>1. ConfigInit => ReadingInv /\ ChainInv
  BY ReadingInit, ChainInit
<1>2. ReadingInv /\ ChainInv /\ [ConfigNext]_config => (ReadingInv /\ ChainInv)'
  BY ReadingStep, ChainStep
<1>. QED BY <1>1, <1>2, PTL DEF ConfigSpec

\* ChainFollowsTheJumps: for any file, any hosts and any route, a chain that is
\* expanded holds every host behind the hosts it is reached through and ends with
\* the target, only a host that is reached again from itself is refused as a
\* cycle, and only a chain longer than a route may be as too long.
THEOREM ChainsFollowTheJumps == ConfigSpec => []ChainFollowsTheJumps
<1>1. ReadingInv /\ ChainInv => ChainFollowsTheJumps
  BY DEF ChainInv
<1>. QED BY <1>1, ChainInvariant, PTL

\* What expand_chain returns is a route as a session takes it: hosts of the
\* configuration, at least one and not more than a route may have.
THEOREM RoutesFit == ConfigSpec => []ChainFits
<1>1. ReadingInv /\ ChainInv => ChainFits
  BY DEF ChainInv
<1>. QED BY <1>1, ChainInvariant, PTL
----
(* Reading and expansion end. *)

\* MAX_INCLUDE_DEPTH, MAX_CONFIG_FILES and MAX_CONFIG_DIRECTIVES are kept, and no
\* file is read while it is being read, whatever the files include.
THEOREM ReadingIsBounded == ConfigSpec => []ReadingBounded
<1>1. ReadingInv => ReadingBounded
  BY DEF ReadingInv
<1>. QED BY <1>1, ReadingInit, ReadingStep, PTL DEF ConfigSpec

Rank ==
  CASE state = "reading" -> 0 [] state = "ready" -> 1 [] state = "expanding" -> 2 [] OTHER -> 3

\* What is done: lines, files opened and closed, calls made and returned.
Now ==
  [lines |-> directives, files |-> opened, made |-> expanded, rank |-> Rank,
   depth |-> Len(active), height |-> Len(calls)]
Sum(n) ==
  n.lines + 2 * n.files + 2 * n.made + 2 * n.rank + (MaxDepth - n.depth)
    + (MaxRoute + 1 - n.height)
Work == Sum(Now)

MaxWork == MaxDirectives + 2 * MaxFiles + 3 * MaxRoute + MaxDepth + 7

\* Nothing is called before the route is asked for, and each call but the one for
\* the route has been counted.
CallsBounded ==
  /\ Len(calls) \in 0 .. MaxRoute + 1 /\ expanded \in 0 .. MaxRoute
  /\ state \in {"reading", "ready", "failed"} => calls = <<>>

Counted ==
  /\ directives \in 0 .. MaxDirectives /\ opened \in 0 .. MaxFiles
  /\ Len(active) \in 0 .. MaxDepth /\ Rank \in 0 .. 3
  /\ Len(calls) \in 0 .. MaxRoute + 1 /\ expanded \in 0 .. MaxRoute

LEMMA Limits == {MaxDepth, MaxFiles, MaxDirectives, MaxRoute} \subseteq Nat
  BY ConfigAssumption

LEMMA CountedIs == ReadingInv /\ CallsBounded => Counted
<1>. SUFFICES ASSUME ReadingInv, CallsBounded PROVE Counted
  OBVIOUS
<1>1. directives \in Nat /\ opened \in Nat /\ active \in Seq([file : Files, rest : Seq(Files)])
  BY DEF ReadingInv, ReadingType
<1>2. Len(active) \in Nat
  BY <1>1, LenProperties
<1>3. Len(active) <= MaxDepth /\ opened <= MaxFiles /\ directives <= MaxDirectives
  BY DEF ReadingInv, ReadingBounded
<1>4. Rank \in 0 .. 3
  BY DEF Rank
<1>. QED BY <1>1, <1>2, <1>3, <1>4, Limits DEF CallsBounded, Counted

Counts ==
  [lines : Nat, files : Nat, made : Nat, rank : Nat, depth : Nat, height : Nat]

\* A line, a file, the end of a file, the end of the reading; a call, its return,
\* the beginning or the end of the expansion.
Reads(n, m) ==
  /\ m.made = n.made /\ m.height = n.height
  /\ \/ m.rank = n.rank /\ m.lines = n.lines + 1 /\ m.files = n.files /\ m.depth = n.depth
     \/ m.rank = n.rank /\ m.lines = n.lines /\ m.files = n.files + 1 /\ m.depth = n.depth + 1
     \/ m.rank >= n.rank /\ m.lines = n.lines /\ m.files = n.files /\ m.depth = n.depth - 1
     \/ m.rank > n.rank /\ m.lines = n.lines /\ m.files = n.files /\ m.depth = n.depth
Expands(n, m) ==
  /\ m.lines = n.lines /\ m.files = n.files /\ m.depth = n.depth
  /\ \/ m.rank = n.rank /\ m.made = n.made + 1 /\ m.height = n.height + 1
     \/ m.rank = n.rank /\ m.made = n.made /\ m.height = n.height - 1
     \/ /\ m.rank > n.rank /\ m.made >= n.made
        /\ m.height \in {n.height - 1, n.height, n.height + 1}

LEMMA SumGrows ==
  ASSUME NEW n \in Counts, NEW m \in Counts, Reads(n, m) \/ Expands(n, m)
  PROVE  Sum(m) > Sum(n)
<1>1. MaxDepth \in Nat /\ MaxRoute \in Nat
  BY Limits
<1>2. /\ n.lines \in Nat /\ n.files \in Nat /\ n.made \in Nat /\ n.rank \in Nat
      /\ n.depth \in Nat /\ n.height \in Nat
      /\ m.lines \in Nat /\ m.files \in Nat /\ m.made \in Nat /\ m.rank \in Nat
      /\ m.depth \in Nat /\ m.height \in Nat
  BY DEF Counts
<1>3. CASE Reads(n, m)
  BY <1>1, <1>2, <1>3 DEF Sum, Reads
<1>4. CASE Expands(n, m)
  BY <1>1, <1>2, <1>4 DEF Sum, Expands
<1>. QED BY <1>3, <1>4

LEMMA CountedNat ==
  Counted => /\ directives \in Nat /\ opened \in Nat /\ expanded \in Nat
             /\ Rank \in Nat /\ Len(active) \in Nat /\ Len(calls) \in Nat
  BY Limits DEF Counted

LEMMA CountedNow == Counted => Now \in Counts
  BY Limits DEF Counted, Now, Counts

LEMMA WorkGrows ==
  ASSUME Counted, Counted', Reads(Now, Now') \/ Expands(Now, Now')
  PROVE  Work' > Work
<1>1. Now \in Counts
  BY CountedNow
<1>2. (Now \in Counts)'
  BY CountedNow, PTL
<1>3. Sum(Now') > Sum(Now)
  BY <1>1, <1>2, SumGrows
<1>. QED BY <1>3 DEF Work, Sum

LEMMA CallsInit == ConfigInit => CallsBounded
<1>. SUFFICES ASSUME ConfigInit PROVE CallsBounded
  OBVIOUS
<1>1. calls = <<>> /\ expanded = 0
  BY DEF ConfigInit
<1>2. Len(<<>>) = 0
  OBVIOUS
<1>. QED BY <1>1, <1>2, Limits DEF CallsBounded

\* Reading goes on to the next line, file or end of a file.
LEMMA ReaderWorks ==
  ASSUME ReadingInv, CallsBounded, Counted, Counted', UNCHANGED chain,
         Reading, state' \in {"reading", "ready", "failed"},
         \/ state' = "reading" /\ directives' = directives + 1 /\ opened' = opened
              /\ Len(active') = Len(active)
         \/ state' = "reading" /\ directives' = directives /\ opened' = opened + 1
              /\ Len(active') = Len(active) + 1
         \/ directives' = directives /\ opened' = opened /\ Len(active') = Len(active) - 1
         \/ state' = "failed" /\ UNCHANGED <<directives, opened, active>>
  PROVE  Work' > Work
<1>1. calls' = calls /\ expanded' = expanded /\ calls = <<>>
  BY DEF chain, CallsBounded, Reading
<1>2. Rank = 0 /\ Rank' \in 0 .. 3 /\ (state' = "reading" => Rank' = 0) /\ (state' = "failed" => Rank' = 3)
  BY DEF Rank, Reading
<1>3. Reads(Now, Now')
  BY <1>1, <1>2 DEF Reads, Now
<1>. QED BY <1>3, WorkGrows

LEMMA FramesLen ==
  ASSUME ReadingInv, Reading
  PROVE  /\ Len(active) \in Nat \ {0}
         /\ \A e : Len(OnTop(active, e)) = Len(active)
         /\ \A e, x : Len(Append(OnTop(active, e), x)) = Len(active) + 1
         /\ Len(Front(active)) = Len(active) - 1
<1>1. active \in Seq(FramesType) /\ active # <<>>
  BY DEF ReadingInv, ReadingType, FramesType
<1>2. Len(active) \in Nat \ {0} /\ Len(Front(active)) = Len(active) - 1
  BY <1>1, FrontFacts
<1>3. ASSUME NEW e PROVE Len(OnTop(active, e)) = Len(active)
  BY <1>1 DEF OnTop
<1>4. ASSUME NEW e, NEW x PROVE Len(Append(OnTop(active, e), x)) = Len(active) + 1
  BY <1>1, <1>3 DEF OnTop
<1>. QED BY <1>2, <1>3, <1>4

LEMMA ReadingCounts ==
  ASSUME ReadingInv, CallsBounded, Counted, Counted',
         \/ \E d \in Directives : ReadLine(d)
         \/ ReadFails \/ OpenIncluded \/ EndOfFile
  PROVE  Work' > Work
<1>0. Reading /\ UNCHANGED chain
  BY DEF ReadLine, ReadFails, OpenIncluded, EndOfFile, GiveUpReading
<1>1. CASE \E d \in Directives : ReadLine(d)
  <2>1. PICK d \in Directives : ReadLine(d)
    BY <1>1
  <2>2. /\ directives' = directives + 1 /\ opened' = opened /\ state' = "reading"
        /\ active' = active \/ active' = OnTop(active, [Top(active) EXCEPT !.rest = d.files])
    BY <2>1 DEF ReadLine, Reading
  <2>3. Len(active') = Len(active)
    BY <1>0, <2>2, FramesLen
  <2>. QED BY <1>0, <2>2, <2>3, ReaderWorks
<1>2. CASE \/ ReadFails
           \/ OpenIncluded /\ Refused(Head(Top(active).rest))
  <2>1. state' = "failed" /\ UNCHANGED <<directives, opened, active>>
    BY <1>2 DEF ReadFails, OpenIncluded, GiveUpReading, reader
  <2>. QED BY <1>0, <2>1, ReaderWorks
<1>3. CASE OpenIncluded /\ ~Refused(Head(Top(active).rest))
  <2>. DEFINE frame == Top(active)
              f == Head(frame.rest)
  <2>1. /\ directives' = directives /\ opened' = opened + 1 /\ state' = "reading"
        /\ active' = Append(OnTop(active, [frame EXCEPT !.rest = Tail(@)]),
                            [file |-> f, rest |-> <<>>])
    BY <1>0, <1>3 DEF OpenIncluded, Reading
  <2>. HIDE DEF frame, f
  <2>2. Len(active') = Len(active) + 1
    BY <1>0, <2>1, FramesLen
  <2>. QED BY <1>0, <2>1, <2>2, ReaderWorks
<1>4. CASE EndOfFile
  <2>1. /\ directives' = directives /\ opened' = opened /\ state' \in {"reading", "ready"}
        /\ active' = Front(active)
    BY <1>4 DEF EndOfFile
  <2>2. Len(active') = Len(active) - 1
    BY <1>0, <2>1, FramesLen
  <2>. QED BY <1>0, <2>1, <2>2, ReaderWorks
<1>. QED BY <1>1, <1>2, <1>3, <1>4

\* Expansion asks, calls, returns or stops.
LEMMA ChainWorks ==
  ASSUME Counted, Counted', UNCHANGED reader,
         \/ Rank' > Rank /\ Len(calls') \in {Len(calls) - 1, Len(calls), Len(calls) + 1}
              /\ expanded' >= expanded
         \/ Rank' = Rank /\ Len(calls') = Len(calls) + 1 /\ expanded' = expanded + 1
         \/ Rank' = Rank /\ Len(calls') = Len(calls) - 1 /\ expanded' = expanded
  PROVE  Work' > Work
<1>1. directives' = directives /\ opened' = opened /\ Len(active') = Len(active)
  BY DEF reader
<1>2. Expands(Now, Now')
  BY <1>1 DEF Expands, Now
<1>. QED BY <1>2, WorkGrows

LEMMA AskCounts ==
  ASSUME CallsBounded, Counted, Counted', NEW r \in Routes, Ask(r)
  PROVE  Work' > Work
<1>1. state = "ready" /\ UNCHANGED reader /\ expanded' = expanded /\ calls = <<>>
  BY DEF Ask, CallsBounded
<1>2. Len(calls) = 0
  BY <1>1
<1>3. \/ state' \in {"too_long", "done"} /\ calls' = calls
      \/ state' = "expanding" /\ calls' = <<[alias |-> "none", jumps |-> r, next |-> 1]>>
  BY DEF Ask
<1>4. Len(calls') \in {0, 1} /\ state' \in {"too_long", "done", "expanding"}
  BY <1>2, <1>3
<1>5. Rank = 1 /\ Rank' \in {2, 3}
  BY <1>1, <1>4 DEF Rank
<1>6. Rank' > Rank /\ Len(calls') \in {Len(calls), Len(calls) + 1} /\ expanded' >= expanded
  BY <1>1, <1>2, <1>4, <1>5, CountedNat
<1>. QED BY <1>1, <1>6, ChainWorks

LEMMA CallsLen ==
  ASSUME ChainSoFar
  PROVE  /\ Len(calls) \in Nat \ {0}
         /\ \A e, x : Len(Append(OnTop(calls, e), x)) = Len(calls) + 1
         /\ Len(Front(calls)) = Len(calls) - 1
<1>1. calls \in Seq(Calls) /\ calls # <<>>
  BY DEF ChainSoFar, Stacked
<1>2. Len(calls) \in Nat \ {0} /\ Len(Front(calls)) = Len(calls) - 1
  BY <1>1, FrontFacts
<1>3. ASSUME NEW e, NEW x PROVE Len(Append(OnTop(calls, e), x)) = Len(calls) + 1
  BY <1>1 DEF OnTop
<1>. QED BY <1>2, <1>3

LEMMA EnterCounts ==
  ASSUME ChainInv, Counted, Counted', Enter
  PROVE  Work' > Work
<1>. DEFINE frame == Top(calls)
            h == frame.jumps[frame.next]
            deeper == Append(OnTop(calls, [frame EXCEPT !.next = @ + 1]),
                             [alias |-> h, jumps |-> Jumps(h), next |-> 1])
<1>1. Expanding /\ UNCHANGED reader /\ ChainSoFar
  BY DEF Enter, ChainInv
<1>2. \/ state' \in {"too_long", "cycle"} /\ calls' = calls /\ expanded' \in {expanded, expanded + 1}
      \/ state' = state /\ calls' = deeper /\ expanded' = expanded + 1
  BY DEF Enter
<1>3. Len(deeper) = Len(calls) + 1
  <2>. HIDE DEF h, frame
  <2>. QED BY <1>1, CallsLen
<1>. HIDE DEF deeper
<1>4. Rank = 2 /\ (state' \in {"too_long", "cycle"} => Rank' = 3) /\ (state' = state => Rank' = 2)
  BY <1>1 DEF Rank, Expanding
<1>5. expanded \in Nat
  BY CountedNat
<1>6. CASE state' \in {"too_long", "cycle"} /\ calls' = calls /\ expanded' \in {expanded, expanded + 1}
  <2>1. Rank' > Rank /\ Len(calls') = Len(calls) /\ expanded' >= expanded
    BY <1>4, <1>5, <1>6
  <2>. QED BY <1>1, <2>1, ChainWorks
<1>7. CASE state' = state /\ calls' = deeper /\ expanded' = expanded + 1
  <2>1. Rank' = Rank /\ Len(calls') = Len(calls) + 1 /\ expanded' = expanded + 1
    BY <1>3, <1>4, <1>7
  <2>. QED BY <1>1, <2>1, ChainWorks
<1>. QED BY <1>2, <1>6, <1>7

LEMMA LeaveCounts ==
  ASSUME ChainInv, Counted, Counted', Leave
  PROVE  Work' > Work
<1>1. Expanding /\ UNCHANGED reader /\ ChainSoFar /\ expanded' = expanded /\ calls' = Front(calls)
  BY DEF Leave, ChainInv
<1>2. state' = state \/ state' = "done"
  BY DEF Leave
<1>3. Len(calls') = Len(calls) - 1
  BY <1>1, CallsLen
<1>4. Rank = 2 /\ (state' = "done" => Rank' = 3) /\ (state' = state => Rank' = 2)
  BY <1>1 DEF Rank, Expanding
<1>5. CASE state' = "done"
  <2>1. Rank' > Rank /\ expanded' >= expanded
    BY <1>1, <1>4, <1>5, CountedNat
  <2>. QED BY <1>1, <1>3, <2>1, ChainWorks
<1>6. CASE state' = state
  BY <1>1, <1>3, <1>4, <1>6, ChainWorks
<1>. QED BY <1>2, <1>5, <1>6

\* Calls stay bounded, because each of them has been counted.
LEMMA CallsStep ==
  ASSUME ReadingInv, ChainInv, CallsBounded, Counted, ConfigNext
  PROVE  CallsBounded'
<1>0. MaxRoute \in Nat \ {0} /\ Len(calls) \in Nat /\ expanded \in Nat
  BY ConfigAssumption, CountedNat
<1>1. CASE (\E d \in Directives : ReadLine(d)) \/ ReadFails \/ OpenIncluded \/ EndOfFile
  <2>1. Reading /\ UNCHANGED chain
    BY <1>1 DEF ReadLine, ReadFails, OpenIncluded, EndOfFile, GiveUpReading
  <2>. QED BY <2>1 DEF CallsBounded, chain, Reading
<1>2. CASE \E r \in Routes : Ask(r)
  <2>1. PICK r \in Routes : Ask(r)
    BY <1>2
  <2>2. expanded' = expanded /\ calls = <<>> /\ Len(calls) = 0
    BY <2>1 DEF Ask, CallsBounded
  <2>3. /\ state' \in {"too_long", "done", "expanding"}
        /\ calls' = calls \/ calls' = <<[alias |-> "none", jumps |-> r, next |-> 1]>>
    BY <2>1 DEF Ask
  <2>4. Len(calls') \in {0, 1}
    BY <2>2, <2>3
  <2>5. expanded' \in 0 .. MaxRoute
    BY <2>2 DEF CallsBounded
  <2>6. Len(calls') \in 0 .. MaxRoute + 1
    <3>. DEFINE n == Len(calls')
    <3>. HIDE DEF n
    <3>1. n \in {0, 1}
      BY <2>4 DEF n
    <3>2. n \in 0 .. MaxRoute + 1
      BY <1>0, <3>1
    <3>. QED BY <3>2 DEF n
  <2>. QED BY <2>3, <2>5, <2>6 DEF CallsBounded
<1>3. CASE Enter
  <2>. DEFINE frame == Top(calls)
              h == frame.jumps[frame.next]
              deeper == Append(OnTop(calls, [frame EXCEPT !.next = @ + 1]),
                               [alias |-> h, jumps |-> Jumps(h), next |-> 1])
  <2>1. Expanding /\ ChainSoFar
    BY <1>3 DEF Enter, ChainInv
  <2>2. \/ state' = "too_long" /\ calls' = calls /\ expanded' = expanded
        \/ state' = "cycle" /\ calls' = calls /\ expanded < MaxRoute /\ expanded' = expanded + 1
        \/ state' = state /\ calls' = deeper /\ expanded < MaxRoute /\ expanded' = expanded + 1
    BY <1>3 DEF Enter
  <2>3. Len(deeper) = Len(calls) + 1
    <3>. HIDE DEF h, frame
    <3>. QED BY <2>1, CallsLen
  <2>. HIDE DEF deeper
  <2>4. expanded = Len(output) + Len(calls) - 1 /\ Len(output) \in Nat
    BY <2>1, LenProperties DEF ChainSoFar
  <2>5. expanded' \in 0 .. MaxRoute /\ Len(calls') \in 0 .. MaxRoute + 1
    BY <1>0, <2>2, <2>3, <2>4 DEF CallsBounded
  <2>. QED BY <2>1, <2>2, <2>5 DEF CallsBounded, Expanding
<1>4. CASE Leave
  <2>1. Expanding /\ ChainSoFar /\ expanded' = expanded /\ calls' = Front(calls)
    BY <1>4 DEF Leave, ChainInv
  <2>2. state' = state \/ state' = "done"
    BY <1>4 DEF Leave
  <2>3. Len(calls') = Len(calls) - 1 /\ Len(calls) \in Nat \ {0}
    BY <2>1, CallsLen
  <2>4. Len(calls') \in 0 .. MaxRoute + 1
    BY <1>0, <2>3 DEF CallsBounded
  <2>. QED BY <2>1, <2>2, <2>4 DEF CallsBounded, Expanding
<1>. QED BY <1>1, <1>2, <1>3, <1>4 DEF ConfigNext

LEMMA WorkStep ==
  ASSUME ReadingInv, ChainInv, CallsBounded, ConfigNext
  PROVE  CallsBounded' /\ Work' > Work
<1>1. Counted
  BY CountedIs
<1>2. CallsBounded'
  BY <1>1, CallsStep
<1>3. ReadingInv'
  BY ReadingStep
<1>4. Counted'
  BY <1>2, <1>3, CountedIs, PTL
<1>5. CASE (\E d \in Directives : ReadLine(d)) \/ ReadFails \/ OpenIncluded \/ EndOfFile
  BY <1>1, <1>2, <1>4, <1>5, ReadingCounts
<1>6. CASE \E r \in Routes : Ask(r)
  BY <1>1, <1>2, <1>4, <1>6, AskCounts
<1>7. CASE Enter
  BY <1>1, <1>2, <1>4, <1>7, EnterCounts
<1>8. CASE Leave
  BY <1>1, <1>2, <1>4, <1>8, LeaveCounts
<1>. QED BY <1>2, <1>5, <1>6, <1>7, <1>8 DEF ConfigNext

LEMMA WorkInvariant == ConfigSpec => [](ReadingInv /\ ChainInv /\ CallsBounded)
<1>1. ConfigInit => CallsBounded
  BY CallsInit
<1>2. ReadingInv /\ ChainInv /\ CallsBounded /\ [ConfigNext]_config => CallsBounded'
  <2>. SUFFICES ASSUME ReadingInv, ChainInv, CallsBounded, [ConfigNext]_config
                PROVE  CallsBounded'
    OBVIOUS
  <2>1. CASE ConfigNext
    BY <2>1, WorkStep
  <2>2. CASE UNCHANGED config
    BY <2>2 DEF config, chain, CallsBounded
  <2>. QED BY <2>1, <2>2
<1>. QED BY <1>1, <1>2, ChainInvariant, PTL DEF ConfigSpec

\* Reading a configuration and expanding a route end, whatever files include each
\* other and whatever hosts jump through each other: every step does some work,
THEOREM EveryStepCounts == ConfigSpec => [][Work' > Work]_config
<1>1. ReadingInv /\ ChainInv /\ CallsBounded /\ [ConfigNext]_config => [Work' > Work]_config
  BY WorkStep
<1>. QED BY <1>1, WorkInvariant, PTL DEF ConfigSpec

\* and there is no more of it than the limits of the code allow.
THEOREM WorkIsBounded == ConfigSpec => [](Work \in 0 .. MaxWork)
<1>1. Counted => Work \in 0 .. MaxWork
  <2>. SUFFICES ASSUME Counted PROVE Work \in 0 .. MaxWork
    OBVIOUS
  <2>1. Work = Sum(Now)
    BY DEF Work
  <2>2. Now.lines = directives /\ Now.files = opened /\ Now.made = expanded /\ Now.rank = Rank
        /\ Now.depth = Len(active) /\ Now.height = Len(calls)
    BY DEF Now
  <2>3. /\ Now.lines \in 0 .. MaxDirectives /\ Now.files \in 0 .. MaxFiles
        /\ Now.depth \in 0 .. MaxDepth /\ Now.rank \in 0 .. 3
        /\ Now.height \in 0 .. MaxRoute + 1 /\ Now.made \in 0 .. MaxRoute
    BY <2>2, Zenon DEF Counted
  <2>4. Sum(Now) \in 0 .. MaxWork
    BY <2>3, Limits DEF Sum, MaxWork
  <2>. QED BY <2>1, <2>4
<1>2. ReadingInv /\ ChainInv /\ CallsBounded => Counted
  BY CountedIs
<1>. QED BY <1>1, <1>2, WorkInvariant, PTL
====
