---------------------------- MODULE SshSession ----------------------------
(***************************************************************************)
(* The life of SSH sessions in the backend: the registry of lib.rs, the    *)
(* task that runs ssh::run for each session (hop by hop host-key check,    *)
(* authentication and tunnel, then the shell loop), the three bounded      *)
(* channels through which the UI reaches that task, the concurrent close   *)
(* of transport.rs, and the shared known_hosts file.                       *)
(*                                                                         *)
(* One task, one program counter pc[s]: every `.await` of ssh::run at      *)
(* which another actor can act is a value of pc.                           *)
(*   idle -> prepare -> (connect -> check [-> ask [-> save]] -> auth       *)
(*   [<-> askAuth] [-> tunnel])* -> open -> loop [<-> writing] -> lost     *)
(*   -> finish -> closed -> gone                                           *)
(***************************************************************************)
EXTENDS Naturals, Sequences, FiniteSets

CONSTANTS
  Sessions,        \* session ids; the UI draws a fresh UUID for each
  Hosts,           \* known_hosts names ([host]:port)
  Keys,            \* server keys of one algorithm
  NoKey,           \* no key presented yet
  Route,           \* session -> sequence of the hosts of its hops
  MaxHops,         \* length of the longest route
  KnownAtStart,    \* <<host, key>> entries of known_hosts before the first step
  MaxTerminals,    \* lib.rs MAX_ACTIVE_TERMINALS
  Capacity,        \* channel -> its bound (64 commands, 8 answers)
  MaxAuthPrompts,  \* prompts one session's authentications may issue
  StorageFaults    \* may reading or writing known_hosts fail?

Channels == {"host", "auth", "command"}
Hops     == 1 .. MaxHops

ASSUME SessionAssumption ==
  /\ MaxHops \in Nat \ {0}
  /\ Route \in [Sessions -> Seq(Hosts)]
  /\ \A s \in Sessions : Len(Route[s]) \in Hops
  /\ NoKey \notin Keys
  /\ KnownAtStart \subseteq Hosts \X Keys
  /\ MaxTerminals \in Nat \ {0}
  /\ Capacity \in [Channels -> Nat \ {0}]
  /\ MaxAuthPrompts \in Nat
  /\ StorageFaults \in BOOLEAN

VARIABLES
  registry,    \* sessions present in AppState.terminals
  pc,          \* where each session's task is
  hop,         \* the hop it is setting up (0 before the first)
  key,         \* the key the current hop's server presented
  request,     \* id of the prompt it waits for, 0 for none
  accepted,    \* per hop: the key let through and the prompt that did it
  end,         \* the SessionEnd its task returned and has not sent yet
  queue,       \* channel -> session -> messages not yet received
  closing,     \* sends that a running TerminalControl::close still awaits
  asked,       \* every host-key prompt issued; its index is its request id
  authAsked,   \* every auth prompt issued (the session), likewise
  approved,    \* host-key prompts the operator answered with trust
  refused,     \* sessions in end that our own config, host-key or auth
               \* decision ended
  knownHosts,  \* the entries of ~/.ssh/known_hosts
  link,        \* session -> hop -> state of that hop's SSH connection
  why,         \* session -> hop -> what ended that connection
  record,      \* DisconnectLog.first: the hop recorded first, 0 for none
  root         \* hops whose connection failed by itself, not under another

uiVars   == <<asked, authAsked, approved>>
linkVars == <<link, why, record, root>>
vars == <<registry, pc, hop, key, request, accepted, end, queue, closing,
          uiVars, refused, knownHosts, linkVars>>
----
(* Values. *)

Setup    == {"connect", "check", "ask", "save"}  \* under CONNECTION_SETUP_TIMEOUT
Phases   == Setup \cup {"idle", "prepare", "auth", "askAuth", "tunnel", "open",
                        "loop", "writing", "lost", "finish", "closed", "gone"}
Faults   == {"timeout", "network", "server_disconnect"}  \* causes a link can die of
Causes   == Faults \cup {"shell_exit", "none"}
Reasons  == {"none", "local", "remote", "transport", "failed"}
SessionEnd == [reason : Reasons, cause : Causes, hop : 0 .. MaxHops]
End(reason, cause, h) == [reason |-> reason, cause |-> cause, hop |-> h]
NotEnded == End("none", "none", 0)
NoLinks  == [h \in Hops |-> "none"]

\* What the operator is shown, and which prompt let a hop's key through.
HostKeyPrompt == [session : Sessions, hop : Hops, key : Keys,
                  status : {"unknown", "changed"}]
Acceptance == [key : Keys, by : Nat]

\* An answer or command: request 0 is the `None` id of a shutdown signal.
Message  == [request : Nat,
             body : {"reject", "trust_once", "trust_and_save",
                     "responses", "cancelled", "input", "close"}]
Msg(r, b) == [request |-> r, body |-> b]
Shutdown == [ch \in Channels |->
               Msg(0, CASE ch = "host"    -> "reject"
                        [] ch = "auth"    -> "cancelled"
                        [] ch = "command" -> "close")]

\* The task owns the receivers until ssh::run returns.
Running(s) == pc[s] \notin {"idle", "finish", "closed", "gone"}

Host(s) == Route[s][hop[s]]

HasRoom(s, ch) == Len(queue[ch][s]) < Capacity[ch]

Send(s, ch, m) ==
  /\ Running(s)
  /\ HasRoom(s, ch)
  /\ queue' = [queue EXCEPT ![ch][s] = Append(@, m)]

Receive(s, ch) == queue' = [queue EXCEPT ![ch][s] = Tail(@)]

Goto(s, p) == pc' = [pc EXCEPT ![s] = p]
----
(* The end of a run: its receivers, handles and DisconnectLog are dropped. *)

Finish(s, e) ==
  /\ Goto(s, "finish")
  /\ end' = [end EXCEPT ![s] = e]
  /\ hop' = [hop EXCEPT ![s] = 0]
  /\ key' = [key EXCEPT ![s] = NoKey]
  /\ request' = [request EXCEPT ![s] = 0]
  /\ accepted' = [accepted EXCEPT ![s] = <<>>]
  /\ queue' = [ch \in Channels |-> [queue[ch] EXCEPT ![s] = <<>>]]
  /\ link' = [link EXCEPT ![s] = NoLinks]
  /\ why' = [why EXCEPT ![s] = NoLinks]
  /\ record' = [record EXCEPT ![s] = 0]
  /\ root' = [root EXCEPT ![s] = {}]
  /\ UNCHANGED <<registry, closing, approved, authAsked>>

\* SessionFailure::{transport, setup}: a cause keeps the hop's name.
Fail(s, cause, h) ==
  Finish(s, End("failed", cause, IF cause = "none" THEN 0 ELSE h))

\* A failure that our own config, host-key or auth decision made.
Refuse(s, cause) ==
  /\ Fail(s, cause, hop[s])
  /\ refused' = refused \cup {s}

Break(s, cause, h) ==
  /\ Fail(s, cause, h)
  /\ UNCHANGED <<refused, asked, knownHosts>>
----
(* connect_session: register the session and spawn its task. *)

Connect(s) ==
  /\ pc[s] = "idle"
  /\ s \notin registry
  /\ Cardinality(registry) < MaxTerminals
  /\ registry' = registry \cup {s}
  /\ Goto(s, "prepare")
  /\ UNCHANGED <<hop, key, request, accepted, end, queue, closing, uiVars,
                 refused, knownHosts, linkVars>>

\* Config, route and session log are ready: the first hop starts.
Prepare(s) ==
  /\ pc[s] = "prepare"
  /\ Goto(s, "connect")
  /\ hop' = [hop EXCEPT ![s] = 1]
  /\ UNCHANGED <<registry, key, request, accepted, end, queue, closing,
                 uiVars, refused, knownHosts, linkVars>>

PrepareFails(s) ==
  /\ pc[s] = "prepare"
  /\ Refuse(s, "none")
  /\ UNCHANGED <<asked, knownHosts>>
----
(* One hop: connect, HostVerifier::check_server_key. *)

\* The stream below the current hop: the network, or the previous hop's tunnel.
StreamUp(s) == hop[s] > 1 => link[s][hop[s] - 1] = "up"

\* The key exchange reached the server key k.
ServerKeyArrives(s, k) ==
  /\ pc[s] = "connect"
  /\ StreamUp(s)
  /\ Goto(s, "check")
  /\ key' = [key EXCEPT ![s] = k]
  /\ UNCHANGED <<registry, hop, request, accepted, end, queue, closing,
                 uiVars, refused, knownHosts, linkVars>>

CertificateRefused(s) ==
  /\ pc[s] = "connect"
  /\ StreamUp(s)
  /\ Refuse(s, "none")
  /\ UNCHANGED <<asked, knownHosts>>

HandshakeBreaks(s, cause) ==
  /\ pc[s] = "connect"
  /\ Break(s, cause, hop[s])

\* host_keys::check
Status(s) ==
  CASE <<Host(s), key[s]>> \in knownHosts          -> "trusted"
    [] \A e \in knownHosts : e[1] # Host(s)        -> "unknown"
    [] OTHER                                       -> "changed"

\* The server key is let through, on the word of prompt r (0: of known_hosts).
Accept(s, r) ==
  /\ Goto(s, "auth")
  /\ accepted' = [accepted EXCEPT
       ![s] = Append(@, [key |-> key[s], by |-> r])]
  /\ request' = [request EXCEPT ![s] = 0]
  /\ link' = [link EXCEPT ![s][hop[s]] = "up"]
  /\ UNCHANGED <<registry, hop, key, end, closing, uiVars, refused,
                 why, record, root>>

\* HostVerifier::prompt: a fresh request id and an event to the UI.
Prompt(s, status) ==
  asked' = Append(asked, [session |-> s, hop |-> hop[s], key |-> key[s],
                          status |-> status])

HostKeyTrusted(s) ==
  /\ pc[s] = "check"
  /\ Status(s) = "trusted"
  /\ Accept(s, 0)
  /\ UNCHANGED <<queue, knownHosts>>

HostKeyChanged(s) ==
  /\ pc[s] = "check"
  /\ Status(s) = "changed"
  /\ Prompt(s, "changed")
  /\ Refuse(s, "none")
  /\ UNCHANGED knownHosts

HostKeyUnknown(s) ==
  /\ pc[s] = "check"
  /\ Status(s) = "unknown"
  /\ Prompt(s, "unknown")
  /\ Goto(s, "ask")
  /\ request' = [request EXCEPT ![s] = Len(asked) + 1]
  /\ UNCHANGED <<registry, hop, key, accepted, end, queue, closing, authAsked,
                 approved, refused, knownHosts, linkVars>>

\* Reading known_hosts fails. transport_cause takes a bare io::Error in the
\* chain for one of the transport; one wrapped by russh::keys it does not see.
CheckFails(s, cause) ==
  /\ StorageFaults
  /\ pc[s] = "check"
  /\ Refuse(s, cause)
  /\ UNCHANGED <<asked, knownHosts>>

\* Mutant: the id of an answer is not compared.
AnswersAnyPrompt(m, r) == TRUE

\* wait_for_answer takes answers to this prompt and shutdown signals only.
Answers(m, r) == m.request \in {0, r}

TakeHostAnswer(s) ==
  /\ pc[s] = "ask"
  /\ queue["host"][s] # <<>>
  /\ LET m == Head(queue["host"][s]) IN
     \/ /\ ~Answers(m, request[s])
        /\ Receive(s, "host")
        /\ UNCHANGED <<registry, pc, hop, key, request, accepted, end, closing,
                       uiVars, refused, knownHosts, linkVars>>
     \/ /\ Answers(m, request[s])
        /\ m.body = "reject"
        /\ Refuse(s, "none")
        /\ UNCHANGED <<asked, knownHosts>>
     \/ /\ Answers(m, request[s])
        /\ m.body = "trust_once"
        /\ Receive(s, "host")
        /\ Accept(s, request[s])
        /\ UNCHANGED knownHosts
     \/ /\ Answers(m, request[s])
        /\ m.body = "trust_and_save"
        /\ Receive(s, "host")
        /\ Goto(s, "save")
        /\ UNCHANGED <<registry, hop, key, request, accepted, end, closing,
                       uiVars, refused, knownHosts, linkVars>>

\* Mutant: the entry is appended without checking the file again.
SaveUnchecked(s) ==
  /\ pc[s] = "save"
  /\ knownHosts' = knownHosts \cup {<<Host(s), key[s]>>}
  /\ Accept(s, request[s])
  /\ UNCHANGED queue

\* host_keys::save, under SAVE_LOCK: the file is checked again before the
\* entry is appended, since another session may have saved meanwhile.
SaveHostKey(s) ==
  /\ pc[s] = "save"
  /\ \/ /\ Status(s) = "changed"
        /\ Refuse(s, "none")
        /\ UNCHANGED <<asked, knownHosts>>
     \/ /\ Status(s) # "changed"
        /\ knownHosts' = knownHosts \cup {<<Host(s), key[s]>>}
        /\ Accept(s, request[s])
        /\ UNCHANGED queue

SaveFails(s, cause) ==
  /\ StorageFaults
  /\ pc[s] = "save"
  /\ Refuse(s, cause)
  /\ UNCHANGED <<asked, knownHosts>>

\* The 30 s timer around client::connect runs through the whole key exchange,
\* the operator's host-key prompt included. A save already handed to the
\* blocking pool may still complete.
SetupTimeout(s) ==
  /\ pc[s] \in Setup
  /\ Fail(s, "timeout", hop[s])
  /\ \/ knownHosts' = knownHosts
     \/ /\ pc[s] = "save"
        /\ Status(s) = "unknown"
        /\ knownHosts' = knownHosts \cup {<<Host(s), key[s]>>}
  /\ UNCHANGED <<refused, asked>>
----
(* authenticate: any order of methods and prompts, until the server accepts, *)
(* every method is refused, the operator cancels or the connection breaks.   *)

HopUp(s) == link[s][hop[s]] = "up"

AskedBy(s) == {i \in DOMAIN authAsked : authAsked[i] = s}

AskAuth(s) ==
  /\ pc[s] = "auth"
  /\ HopUp(s)
  /\ Cardinality(AskedBy(s)) < MaxAuthPrompts
  /\ authAsked' = Append(authAsked, s)
  /\ request' = [request EXCEPT ![s] = Len(authAsked) + 1]
  /\ Goto(s, "askAuth")
  /\ UNCHANGED <<registry, hop, key, accepted, end, queue, closing, asked,
                 approved, refused, knownHosts, linkVars>>

TakeAuthAnswer(s) ==
  /\ pc[s] = "askAuth"
  /\ queue["auth"][s] # <<>>
  /\ LET m == Head(queue["auth"][s]) IN
     \/ /\ ~Answers(m, request[s])
        /\ Receive(s, "auth")
        /\ UNCHANGED <<registry, pc, hop, key, request, accepted, end, closing,
                       uiVars, refused, knownHosts, linkVars>>
     \/ /\ Answers(m, request[s])
        /\ m.body = "cancelled"
        /\ Refuse(s, "none")
        /\ UNCHANGED <<asked, knownHosts>>
     \/ /\ Answers(m, request[s])
        /\ m.body = "responses"
        /\ Receive(s, "auth")
        /\ Goto(s, "auth")
        /\ request' = [request EXCEPT ![s] = 0]
        /\ UNCHANGED <<registry, hop, key, accepted, end, closing, uiVars,
                       refused, knownHosts, linkVars>>

\* AUTH_RESPONSE_TIMEOUT: five minutes without an answer.
AuthPromptTimeout(s) ==
  /\ pc[s] = "askAuth"
  /\ Refuse(s, "none")
  /\ UNCHANGED <<asked, knownHosts>>

AuthRefused(s) ==
  /\ pc[s] = "auth"
  /\ Refuse(s, "none")
  /\ UNCHANGED <<asked, knownHosts>>

AuthBreaks(s, cause) ==
  /\ pc[s] = "auth"
  /\ Break(s, cause, hop[s])

\* The hop is connected: on to the tunnel for the next one, or to the shell.
AuthSucceeds(s) ==
  /\ pc[s] = "auth"
  /\ HopUp(s)
  /\ Goto(s, IF hop[s] < Len(Route[s]) THEN "tunnel" ELSE "open")
  /\ key' = [key EXCEPT ![s] = NoKey]
  /\ UNCHANGED <<registry, hop, request, accepted, end, queue, closing, uiVars,
                 refused, knownHosts, linkVars>>

\* channel_open_direct_tcpip towards the next hop.
OpenTunnel(s) ==
  /\ pc[s] = "tunnel"
  /\ HopUp(s)
  /\ Goto(s, "connect")
  /\ hop' = [hop EXCEPT ![s] = @ + 1]
  /\ UNCHANGED <<registry, key, request, accepted, end, queue, closing, uiVars,
                 refused, knownHosts, linkVars>>

\* The previous hop cannot reach the next one, which takes the blame.
TunnelFails(s, cause) ==
  /\ pc[s] = "tunnel"
  /\ Break(s, cause, hop[s] + 1)
----
(* The shell channel and session_loop. *)

OpenShell(s) ==
  /\ pc[s] = "open"
  /\ HopUp(s)
  /\ Goto(s, "loop")
  /\ UNCHANGED <<registry, hop, key, request, accepted, end, queue, closing,
                 uiVars, refused, knownHosts, linkVars>>

\* impl From<russh::Error> for SessionFailure: a cause, but no hop.
OpenFails(s, cause) ==
  /\ pc[s] = "open"
  /\ Break(s, cause, 0)

\* Input is written inside the select arm: nothing else is polled meanwhile.
TakeInput(s) ==
  /\ pc[s] = "loop"
  /\ queue["command"][s] # <<>>
  /\ Head(queue["command"][s]).body = "input"
  /\ Receive(s, "command")
  /\ Goto(s, "writing")
  /\ UNCHANGED <<registry, hop, key, request, accepted, end, closing, uiVars,
                 refused, knownHosts, linkVars>>

TakeClose(s) ==
  /\ pc[s] = "loop"
  /\ queue["command"][s] # <<>>
  /\ Head(queue["command"][s]).body = "close"
  /\ Finish(s, End("local", "none", 0))
  /\ UNCHANGED <<refused, asked, knownHosts>>

\* The peer's window takes the input.
WriteDone(s) ==
  /\ pc[s] = "writing"
  /\ HopUp(s)
  /\ Goto(s, "loop")
  /\ UNCHANGED <<registry, hop, key, request, accepted, end, queue, closing,
                 uiVars, refused, knownHosts, linkVars>>

\* The shell channel ended (channel.wait() is None) or a write failed.
ChannelLost(s) ==
  /\ pc[s] \in {"loop", "writing"}
  /\ ~HopUp(s)
  /\ Goto(s, "lost")
  /\ UNCHANGED <<registry, hop, key, request, accepted, end, queue, closing,
                 uiVars, refused, knownHosts, linkVars>>

\* The peer sent EOF or closed the shell channel.
ShellExits(s) ==
  /\ pc[s] = "loop"
  /\ HopUp(s)
  /\ Finish(s, End("remote", "shell_exit", Len(Route[s])))
  /\ UNCHANGED <<refused, asked, knownHosts>>

\* Mutant: a server that disconnects is taken for a lost path.
LossAlwaysTransport(s) ==
  IF record[s] = 0 THEN End("transport", "network", 0)
  ELSE End("transport", why[s][record[s]], record[s])

\* resolve_session_end for a transport loss.
LossEnd(s) ==
  LET h == record[s] IN
  CASE h = 0                              -> End("transport", "network", 0)
    [] h # 0 /\ why[s][h] = "server_disconnect" -> End("remote", why[s][h], h)
    [] OTHER                              -> End("transport", why[s][h], h)

\* disconnects.wait(1 s): a record, or the limit without one.
ResolveLoss(s) ==
  /\ pc[s] = "lost"
  /\ Finish(s, LossEnd(s))
  /\ UNCHANGED <<refused, asked, knownHosts>>

\* The spawned task sends Closed, and only then leaves the registry.
EmitClosed(s) ==
  /\ pc[s] = "finish"
  /\ Goto(s, "closed")
  /\ end' = [end EXCEPT ![s] = NotEnded]
  /\ refused' = refused \ {s}
  /\ UNCHANGED <<registry, hop, key, request, accepted, queue, closing,
                 uiVars, knownHosts, linkVars>>

\* Mutant: the finished task stays in the registry.
StayRegistered(s) ==
  /\ pc[s] = "closed"
  /\ Goto(s, "gone")
  /\ UNCHANGED <<registry, hop, key, request, accepted, end, queue, closing,
                 uiVars, refused, knownHosts, linkVars>>

Unregister(s) ==
  /\ pc[s] = "closed"
  /\ registry' = registry \ {s}
  /\ Goto(s, "gone")
  /\ UNCHANGED <<hop, key, request, accepted, end, queue, closing, uiVars,
                 refused, knownHosts, linkVars>>
----
(* The connections of the route, each with a russh task of its own. *)

linkOnly == <<registry, pc, hop, key, request, accepted, end, queue, closing,
              uiVars, refused, knownHosts>>

\* A connection ends by itself: the shell channel sees it before its handler.
LinkFails(s, h, cause) ==
  /\ link[s][h] = "up"
  /\ link' = [link EXCEPT ![s][h] = "dying"]
  /\ why' = [why EXCEPT ![s][h] = cause]
  /\ root' = [root EXCEPT ![s] = @ \cup {h}]
  /\ UNCHANGED <<linkOnly, record>>

\* Mutant: every report overwrites the one before it.
ReportOverwrites(s, h) ==
  /\ link[s][h] = "dying"
  /\ link' = [link EXCEPT ![s][h] = "dead"]
  /\ record' = [record EXCEPT ![s] = h]
  /\ UNCHANGED <<linkOnly, why, root>>

\* HostVerifier::disconnected -> DisconnectLog::record: the first hop wins.
ReportDisconnect(s, h) ==
  /\ link[s][h] = "dying"
  /\ link' = [link EXCEPT ![s][h] = "dead"]
  /\ record' = [record EXCEPT ![s] = IF @ = 0 THEN h ELSE @]
  /\ UNCHANGED <<linkOnly, why, root>>

\* A reported connection drops the tunnel that carries the next hop.
TunnelDrops(s, h) ==
  /\ h > 1
  /\ link[s][h] = "up"
  /\ link[s][h - 1] = "dead"
  /\ link' = [link EXCEPT ![s][h] = "dying"]
  /\ why' = [why EXCEPT ![s][h] = "network"]
  /\ UNCHANGED <<linkOnly, record, root>>
----
(* The UI and the registry's callers. *)

uiOnly == <<registry, pc, hop, key, request, accepted, end, refused,
            knownHosts, linkVars>>

\* close_session and close_all_terminals: TerminalControl::close starts its
\* three sends together.
RequestClose(s) ==
  /\ s \in registry
  /\ closing[s] = {}
  /\ closing' = [closing EXCEPT ![s] = Channels]
  /\ UNCHANGED <<uiOnly, queue, uiVars>>

\* Mutant: the three sends are awaited one after the other.
CloseInTurn(s, ch) ==
  /\ ch \in closing[s]
  /\ ch = "auth" => "host" \notin closing[s]
  /\ ch = "command" => closing[s] = {"command"}
  /\ \/ Send(s, ch, Shutdown[ch])
     \/ ~Running(s) /\ queue' = queue
  /\ closing' = [closing EXCEPT ![s] = @ \ {ch}]
  /\ UNCHANGED <<uiOnly, uiVars>>

\* One of them completes, or fails because the receivers are gone.
CloseSend(s, ch) ==
  /\ ch \in closing[s]
  /\ \/ Send(s, ch, Shutdown[ch])
     \/ ~Running(s) /\ queue' = queue
  /\ closing' = [closing EXCEPT ![s] = @ \ {ch}]
  /\ UNCHANGED <<uiOnly, uiVars>>

\* answer_host_key, for any prompt the session ever showed: a repeated key
\* press answers twice, and an answer may arrive after its prompt has ended.
AnswerHostKey(s, r, decision) ==
  /\ asked[r].session = s
  /\ Send(s, "host", Msg(r, decision))
  /\ approved' = IF decision = "reject" THEN approved ELSE approved \cup {r}
  /\ UNCHANGED <<uiOnly, closing, asked, authAsked>>

AnswerAuth(s, r, body) ==
  /\ authAsked[r] = s
  /\ Send(s, "auth", Msg(r, body))
  /\ UNCHANGED <<uiOnly, closing, uiVars>>

\* session_input, once the UI has seen Ready.
SendInput(s) ==
  /\ pc[s] \in {"loop", "writing", "lost"}
  /\ Send(s, "command", Msg(0, "input"))
  /\ UNCHANGED <<uiOnly, closing, uiVars>>
----
Init ==
  /\ registry = {}
  /\ pc = [s \in Sessions |-> "idle"]
  /\ hop = [s \in Sessions |-> 0]
  /\ key = [s \in Sessions |-> NoKey]
  /\ request = [s \in Sessions |-> 0]
  /\ accepted = [s \in Sessions |-> <<>>]
  /\ end = [s \in Sessions |-> NotEnded]
  /\ queue = [ch \in Channels |-> [s \in Sessions |-> <<>>]]
  /\ closing = [s \in Sessions |-> {}]
  /\ asked = <<>>
  /\ authAsked = <<>>
  /\ approved = {}
  /\ refused = {}
  /\ knownHosts = KnownAtStart
  /\ link = [s \in Sessions |-> NoLinks]
  /\ why = [s \in Sessions |-> NoLinks]
  /\ record = [s \in Sessions |-> 0]
  /\ root = [s \in Sessions |-> {}]

\* The steps of the session's own task, by where it stands.
HandshakeStep(s) ==
  \/ \E k \in Keys : ServerKeyArrives(s, k)
  \/ CertificateRefused(s)
  \/ \E cause \in {"timeout", "network", "none"} : HandshakeBreaks(s, cause)
  \/ HostKeyTrusted(s)
  \/ HostKeyChanged(s)
  \/ HostKeyUnknown(s)
  \/ SaveHostKey(s)
  \/ \E cause \in {"timeout", "network", "none"} :
       CheckFails(s, cause) \/ SaveFails(s, cause)

AuthStep(s) ==
  \/ AskAuth(s)
  \/ AuthSucceeds(s)
  \/ AuthRefused(s)
  \/ \E cause \in {"timeout", "network", "none"} : AuthBreaks(s, cause)

RouteStep(s) ==
  \/ Prepare(s)
  \/ PrepareFails(s)
  \/ OpenTunnel(s)
  \/ \E cause \in {"timeout", "network"} : TunnelFails(s, cause)
  \/ OpenShell(s)
  \/ \E cause \in {"timeout", "network", "none"} : OpenFails(s, cause)

ShellStep(s) ==
  \/ TakeInput(s)
  \/ TakeClose(s)
  \/ ShellExits(s)
  \/ ChannelLost(s)

EndStep(s) ==
  \/ ResolveLoss(s)
  \/ EmitClosed(s)
  \/ Unregister(s)

LinkStep(s) ==
  \E h \in Hops :
    \/ \E cause \in Faults : LinkFails(s, h, cause)
    \/ ReportDisconnect(s, h)
    \/ TunnelDrops(s, h)

UiStep(s) ==
  \/ Connect(s)
  \/ RequestClose(s)
  \/ \E r \in DOMAIN asked, d \in {"reject", "trust_once", "trust_and_save"} :
       AnswerHostKey(s, r, d)
  \/ \E r \in DOMAIN authAsked, b \in {"responses", "cancelled"} :
       AnswerAuth(s, r, b)
  \/ SendInput(s)

Next ==
  \E s \in Sessions :
    \/ HandshakeStep(s)
    \/ SetupTimeout(s)
    \/ TakeHostAnswer(s)
    \/ AuthStep(s)
    \/ TakeAuthAnswer(s)
    \/ AuthPromptTimeout(s)
    \/ RouteStep(s)
    \/ ShellStep(s)
    \/ WriteDone(s)
    \/ EndStep(s)
    \/ LinkStep(s)
    \/ UiStep(s)
    \/ \E ch \in Channels : CloseSend(s, ch)

\* The timers of set-up, authentication prompt and tunnel.
TimerFires(s) ==
  \/ SetupTimeout(s)
  \/ AuthPromptTimeout(s)
  \/ TunnelFails(s, "timeout")

\* The steps of the task that wait for nobody: not for a server to answer an
\* authentication or shell request (ssh.rs has no timer around either), nor for
\* an ssh-agent. An open fails once the connection under it is gone.
OwnStep(s) ==
  \/ Prepare(s)
  \/ PrepareFails(s)
  \/ TakeHostAnswer(s)
  \/ TakeAuthAnswer(s)
  \/ OpenFails(s, "network") /\ ~HopUp(s)
  \/ TakeInput(s)
  \/ TakeClose(s)
  \/ ChannelLost(s)
  \/ EndStep(s)

\* tokio polls every ready task, its timers fire, and a bounded mpsc channel
\* serves waiting senders in order, so none starves. Nothing is assumed of the
\* operator, the network, the servers, or whether the peer reads its input.
Fairness ==
  \A s \in Sessions :
    /\ WF_vars(TimerFires(s))
    /\ WF_vars(OwnStep(s))
    /\ \A ch \in Channels : SF_vars(CloseSend(s, ch))

Spec == Init /\ [][Next]_vars /\ Fairness

\* The same, with a peer that keeps reading what is typed, and with servers
\* (and an agent) that answer every request.
ReadingPeer == Spec /\ \A s \in Sessions : WF_vars(WriteDone(s))
AnsweringServer ==
  Spec /\ \A s \in Sessions : WF_vars(AuthStep(s)) /\ WF_vars(RouteStep(s))
----
TypeOK ==
  /\ registry = {s \in Sessions : pc[s] \notin {"idle", "gone"}}
  /\ pc \in [Sessions -> Phases]
  /\ hop \in [Sessions -> 0 .. MaxHops]
  /\ key \in [Sessions -> Keys \cup {NoKey}]
  /\ request \in [Sessions -> Nat]
  /\ accepted \in [Sessions -> Seq(Acceptance)]
  /\ end \in [Sessions -> SessionEnd]
  /\ queue \in [Channels -> [Sessions -> Seq(Message)]]
  /\ closing \in [Sessions -> SUBSET Channels]
  /\ asked \in Seq(HostKeyPrompt)
  /\ authAsked \in Seq(Sessions)
  /\ approved \subseteq DOMAIN asked
  /\ refused \subseteq Sessions
  /\ knownHosts \subseteq Hosts \X Keys
  /\ link \in [Sessions -> [Hops -> {"none", "up", "dying", "dead"}]]
  /\ why \in [Sessions -> [Hops -> Faults \cup {"none"}]]
  /\ record \in [Sessions -> 0 .. MaxHops]
  /\ root \in [Sessions -> SUBSET Hops]

\* Every hop a session authenticated to was let through either by known_hosts
\* or by the operator, who answered that very prompt, of that session, hop and
\* key, with trust: no stale, repeated or foreign answer ever lets a host in.
EveryHopTrusted ==
  \A s \in Sessions : \A h \in DOMAIN accepted[s] :
    LET a == accepted[s][h] IN
    IF a.by = 0
    THEN <<Route[s][h], a.key>> \in knownHosts
    ELSE /\ a.by \in approved
         /\ asked[a.by] = [session |-> s, hop |-> h, key |-> a.key,
                           status |-> "unknown"]

\* Sessions that save host keys at the same time never leave known_hosts with
\* two keys for one host.
OneKeyPerHost ==
  \A e, f \in knownHosts : e[1] = f[1] => e = f

\* "cause is set only when the path failed, never for config, host-key, or
\* auth refusals" (SessionFailure): what the retry policy relies on.
RefusalHasNoCause ==
  \A s \in refused : end[s].cause = "none"

\* An established session that is reported lost did lose a connection, and the
\* hop it blames is one that failed by itself, with the cause it failed of:
\* never a hop that only lost the tunnel it was stacked on.
LossNamesTheRootHop ==
  [][\A s \in Sessions :
       LET e == end'[s] IN
       e # end[s] /\ e.cause # "shell_exit" /\ e.reason \in {"transport", "remote"}
         => /\ root[s] # {}
            /\ e.hop # 0 => e.hop \in root[s] /\ e.cause = why[s][e.hop]]_end

\* The operator has the five minutes of the prompt to compare a fingerprint: the
\* 30 s setup timer never ends a session that waits for the host-key answer.
HostKeyPromptOutlivesSetup ==
  [][\A s \in Sessions :
       pc[s] = "ask" /\ end'[s] # end[s] => end'[s].cause # "timeout"]_vars

\* What the UI is promised: a session as SessionLifecycle describes it.
Stage(s) ==
  CASE pc[s] = "idle"                           -> "absent"
    [] pc[s] \in {"loop", "writing", "lost"}    -> "ready"
    [] pc[s] = "finish"                         -> "ended"
    [] pc[s] = "closed"                         -> "announced"
    [] pc[s] = "gone"                           -> "gone"
    [] OTHER                                    -> "setup"

Lifecycle == INSTANCE SessionLifecycle WITH
  stage   <- [s \in Sessions |-> Stage(s)],
  outcome <- [s \in Sessions |-> [reason |-> end[s].reason, cause |-> end[s].cause]]

\* The session task implements that promise: it ends once, as `failed` only
\* before a shell was reached and as local, remote or transport only after,
\* always with a cause that fits, and announces it before it leaves.
KeepsLifecycle == Lifecycle!Spec

\* The task waits without a timer and takes no close meanwhile: for a server or
\* an agent to answer an authentication request, for a server to open the shell
\* channel, for the peer's window to take typed input.
AwaitsPeer(s) ==
  \/ pc[s] = "auth"
  \/ pc[s] \in {"open", "writing"} /\ HopUp(s)

\* A session asked to close ends and leaves the registry, wherever its task is
\* waiting, even when a channel it does not read is full, unless it waits for
\* one answer or window of the other side for ever.
CloseEndsSession ==
  \A s \in Sessions : closing[s] # {} ~> (pc[s] = "gone" \/ []AwaitsPeer(s))

\* What docs/TRANSPORTS.md says of close ("releases pending I/O"): the same without the
\* exception, which the code does not keep.
CloseAlwaysEnds ==
  \A s \in Sessions : closing[s] # {} ~> pc[s] = "gone"
=============================================================================
