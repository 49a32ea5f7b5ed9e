------------------------------ MODULE SshConfig ------------------------------
(***************************************************************************)
(* The SSH configuration (ssh_config.rs): reading the file with what it    *)
(* includes into blocks, resolving a host against the blocks, and          *)
(* expanding its ProxyJump into the chain of hosts to connect through.     *)
(*                                                                         *)
(* A file is what its lines turn out to be: the reader takes one directive *)
(* after the other. Next to it the lines are read as the manual describes  *)
(* them, for each host by itself; `given` keeps what a host gets that way  *)
(* and is what the blocks are compared with. Names match by equality; "*"  *)
(* stands for a wildcard that matches every name.                          *)
(***************************************************************************)
EXTENDS Naturals, Sequences, FiniteSets, SequencesExt

CONSTANTS
  Aliases,        \* names of hosts
  Files,          \* canonical paths
  Main,           \* the file that is loaded
  Directives,     \* lines a file may have
  Routes,         \* routes the UI asks for
  MaxDepth,       \* MAX_INCLUDE_DEPTH
  MaxFiles,       \* MAX_CONFIG_FILES
  MaxDirectives,  \* MAX_CONFIG_DIRECTIVES
  MaxRoute        \* MAX_ROUTE_HOPS

\* A value is set once, by the first line that sets it, or collects every line.
SingleKeys == {"hostname", "user", "proxyjump"}
MULTI_VALUE_KEYS == {"identityfile"}
Options == SingleKeys \cup MULTI_VALUE_KEYS

\* Criteria of a Match, and of a Host line as one criterion on the host's name.
Kinds == {"all", "host", "originalhost", "user", "never"}
Ops == {"select", "include", "set"}

ASSUME ConfigAssumption ==
  /\ Main \in Files
  /\ \A d \in Directives :
       /\ d.op \in Ops
       /\ d.op = "include" => d.files \in Seq(Files)
       /\ d.op = "set" => d.key \in Options
       /\ d.op = "set" /\ d.key = "proxyjump" => d.value \in Seq(Aliases)
  /\ \A r \in Routes : r \in Seq(Aliases) /\ r # <<>>
  /\ {MaxDepth, MaxFiles, MaxDirectives, MaxRoute} \subseteq Nat \ {0}

VARIABLES
  active,     \* the files being read: which, and what it has still to include
  blocks,     \* what was read
  opened,     \* files opened so far
  directives, \* directives read so far
  given,      \* history: what each host gets from the lines, read one by one
  state,      \* reading, ready, expanding, or how it ended
  route,      \* the route asked for
  calls,      \* expand_chain: the hosts, their jumps and the next jump of each
  output,     \* the chain
  expanded    \* hosts expanded so far

reader == <<active, blocks, opened, directives, given>>
chain  == <<route, calls, output, expanded>>
config == <<reader, state, chain>>
----
(* Blocks and how a host selects them. *)

Unset == [k \in Options |-> <<>>]
Everyone == [kind |-> "originalhost", patterns |-> <<"*">>, except |-> {}, negated |-> FALSE]
Block(selector) == [selector |-> selector, options |-> Unset]
implicit_block == Block(<<Everyone>>)

\* A pattern list matches by any of its patterns and none of its exceptions.
pattern_list_matches(name, patterns, except) ==
  /\ name \notin except
  /\ \E i \in DOMAIN patterns : patterns[i] \in {"*", name}

first(values, key, default) == IF values[key] = <<>> THEN default ELSE values[key][1]

\* Criteria are checked against the values that the blocks before have set.
selector_matches(selector, host, values) ==
  \A i \in DOMAIN selector :
    LET c == selector[i]
        subject == CASE c.kind = "host" -> first(values, "hostname", host)
                     [] c.kind = "user" -> first(values, "user", "default")
                     [] OTHER -> host
        matched == \/ c.kind = "all"
                   \/ /\ c.kind \in {"host", "originalhost", "user"}
                      /\ pattern_list_matches(subject, c.patterns, c.except)
    IN c.kind # "never" /\ matched # c.negated

\* The mutant of Merged: the last value wins.
LastWins(values, key, more) ==
  IF key \in MULTI_VALUE_KEYS THEN values[key] \o more
  ELSE IF more = <<>> THEN values[key] ELSE more

Merged(values, key, more) ==
  IF key \in MULTI_VALUE_KEYS THEN values[key] \o more
  ELSE IF values[key] = <<>> THEN more ELSE values[key]

take(values, block, host) ==
  IF selector_matches(block.selector, host, values)
  THEN [k \in Options |-> Merged(values, k, block.options[k])]
  ELSE values

\* The values of a host after the first n of the blocks.
ValuesAfter(host, bs) ==
  LET after[n \in 0 .. Len(bs)] ==
        IF n = 0 THEN Unset ELSE take(after[n - 1], bs[n], host)
  IN after

resolve(host) == ValuesAfter(host, blocks)[Len(blocks)]

\* ProxyJump none is a list without a host.
Jumps(host) == first(resolve(host), "proxyjump", <<>>)
----
(* Reading: parse_file and parse_text. *)

Reading == state = "reading"
Top(stack) == stack[Len(stack)]
OnTop(stack, frame) == [stack EXCEPT ![Len(stack)] = frame]
GiveUpReading == state' = "failed" /\ UNCHANGED <<reader, chain>>

\* The lines as they are read one by one: `on` says whether they are for this
\* host, `outer` what it was where the included files begin.
Line(st, line, host, nested) ==
  CASE line.op = "select" ->
         [st EXCEPT !.on = /\ nested /\ st.outer # <<>> => st.outer[1]
                           /\ selector_matches(line.selector, host, st.values)]
    [] line.op = "set" ->
         IF st.on /\ (line.key \in MULTI_VALUE_KEYS \/ st.values[line.key] = <<>>)
         THEN [st EXCEPT !.values[line.key] = Append(@, line.value)] ELSE st
    [] nested /\ line.op = "begin" -> [st EXCEPT !.outer = <<st.on>> \o @]
    [] nested /\ line.op = "end" /\ st.outer # <<>> ->
         [st EXCEPT !.on = st.outer[1], !.outer = Tail(@)]
    [] OTHER -> st

\* nested: whether an included file is for the hosts of its Include only.
Give(line) ==
  given' = [nested \in BOOLEAN |->
              [h \in Aliases |-> Line(given[nested][h], line, h, nested)]]

Set(d) ==
  LET last == Top(blocks)
  IN OnTop(blocks, [last EXCEPT !.options[d.key] =
                      Merged(last.options, d.key, <<d.value>>)])

ReadLine(d) ==
  /\ Reading /\ Top(active).rest = <<>>
  /\ directives < MaxDirectives
  /\ directives' = directives + 1
  /\ Give(d)
  /\ blocks' = CASE d.op = "select" -> Append(blocks, Block(d.selector))
                 [] d.op = "set" -> Set(d)
                 [] OTHER -> blocks
  /\ active' = IF d.op = "include"
               THEN OnTop(active, [Top(active) EXCEPT !.rest = d.files])
               ELSE active
  /\ UNCHANGED <<opened, state, chain>>

\* A file with one directive too many, or one that cannot be read.
ReadFails ==
  /\ Reading
  /\ \/ Top(active).rest = <<>> /\ directives = MaxDirectives
     \/ Top(active).rest # <<>>
  /\ GiveUpReading

IsActive(f) == \E i \in DOMAIN active : active[i].file = f
Refused(f) == Len(active) >= MaxDepth \/ IsActive(f) \/ opened >= MaxFiles

OpenIncluded ==
  /\ Reading /\ Top(active).rest # <<>>
  /\ LET frame == Top(active)
         f == Head(frame.rest)
     IN IF Refused(f) THEN GiveUpReading
        ELSE /\ active' = Append(OnTop(active, [frame EXCEPT !.rest = Tail(@)]),
                                 [file |-> f, rest |-> <<>>])
             /\ opened' = opened + 1
             /\ Give([op |-> "begin"])
             /\ UNCHANGED <<blocks, directives, state, chain>>

EndOfFile ==
  /\ Reading /\ Top(active).rest = <<>>
  /\ active' = Front(active)
  /\ Give([op |-> "end"])
  /\ state' = IF Len(active) = 1 THEN "ready" ELSE "reading"
  /\ UNCHANGED <<blocks, opened, directives, chain>>
----
(* Expanding: chain_for_route and expand_chain. *)

\* A route of several hosts is taken as it is.
Ask(r) ==
  /\ state = "ready"
  /\ route' = r
  /\ \/ /\ Len(r) > MaxRoute
        /\ state' = "too_long"
        /\ UNCHANGED <<calls, output>>
     \/ /\ Len(r) \in 2 .. MaxRoute
        /\ output' = r
        /\ state' = "done"
        /\ UNCHANGED calls
     \/ /\ Len(r) = 1
        /\ calls' = <<[alias |-> "none", jumps |-> r, next |-> 1]>>
        /\ state' = "expanding"
        /\ UNCHANGED output
  /\ UNCHANGED <<reader, expanded>>

Expanding == state = "expanding"
\* The mutant of OnStack: every host that is in the chain is a cycle.
Anywhere(h) == \E i \in DOMAIN output : output[i] = h
OnStack(h) == \E i \in 2 .. Len(calls) : calls[i].alias = h

MoreJumps == Top(calls).next <= Len(Top(calls).jumps)

\* The first call of expand_chain is for the one host of the route.
Enter ==
  /\ Expanding /\ MoreJumps
  /\ LET frame == Top(calls)
         h == frame.jumps[frame.next]
     IN \/ /\ expanded >= MaxRoute
           /\ state' = "too_long"
           /\ UNCHANGED <<calls, expanded>>
        \/ /\ expanded < MaxRoute
           /\ expanded' = expanded + 1
           /\ \/ OnStack(h) /\ state' = "cycle" /\ UNCHANGED calls
              \/ /\ ~OnStack(h)
                 /\ calls' = Append(OnTop(calls, [frame EXCEPT !.next = @ + 1]),
                                    [alias |-> h, jumps |-> Jumps(h), next |-> 1])
                 /\ UNCHANGED state
  /\ UNCHANGED <<reader, route, output>>

Leave ==
  /\ Expanding /\ ~MoreJumps
  /\ calls' = Front(calls)
  /\ \/ /\ Len(calls) > 1
        /\ output' = Append(output, Top(calls).alias)
        /\ UNCHANGED state
     \/ /\ Len(calls) = 1
        /\ state' = "done"
        /\ UNCHANGED output
  /\ UNCHANGED <<reader, route, expanded>>
----
\* load_default: without a file there is nothing, not even the implicit block.
ConfigInit ==
  /\ \/ /\ active = <<[file |-> Main, rest |-> <<>>]>>
        /\ blocks = <<implicit_block>>
        /\ opened = 1
        /\ state = "reading"
     \/ /\ active = <<>> /\ blocks = <<>> /\ opened = 0
        /\ state = "ready"
  /\ directives = 0
  /\ given = [nested \in BOOLEAN |->
                [h \in Aliases |-> [on |-> TRUE, outer |-> <<>>, values |-> Unset]]]
  /\ route = <<>> /\ calls = <<>> /\ output = <<>> /\ expanded = 0

ConfigNext ==
  \/ \E d \in Directives : ReadLine(d)
  \/ ReadFails \/ OpenIncluded \/ EndOfFile
  \/ \E r \in Routes : Ask(r)
  \/ Enter \/ Leave

ConfigSpec == ConfigInit /\ [][ConfigNext]_config
----
\* The blocks give each host what the lines give it, one by one, with the first
\* value of a key and with each condition checked where it stands, an included
\* file standing for its line.
FirstValueWins ==
  state = "ready" => \A h \in Aliases : resolve(h) = given[FALSE][h].values

\* What a configuration with an Include means to OpenSSH, and not to this code:
\* an included file is for the hosts of the block it is included from, and the
\* lines after the Include belong to that block again.
IncludeIsNested ==
  state = "ready" => \A h \in Aliases : resolve(h) = given[TRUE][h].values

(* What a chain is, for jumps given as a function from hosts to lists. *)

\* Where a list ends with a host, that host comes behind what it jumps through.
BehindItsJumps(jumps, list) ==
  IF list = <<>> THEN <<>> ELSE Front(list) \o jumps[Last(list)]

\* The chain of a list, from its end: what is still to be expanded in front of
\* the last n hosts.
InFront(jumps, list) ==
  LET of[n \in Nat] ==
        IF n = 0 THEN list ELSE BehindItsJumps(jumps, of[n - 1])
  IN of

IsChainOf(jumps, list, hosts) ==
  LET of == InFront(jumps, list)
      n  == Len(hosts)
  IN /\ of[n] = <<>>
     /\ \A i \in 0 .. n - 1 : of[i] # <<>> /\ Last(of[i]) = hosts[n - i]

\* Hosts that are reached from a host by one jump or more: those that are in
\* every set that holds its jumps and the jumps of its members.
Beyond(jumps, h) ==
  {g \in Aliases :
     \A S \in SUBSET Aliases :
       (ToSet(jumps[h]) \subseteq S /\ \A x \in S : ToSet(jumps[x]) \subseteq S) => g \in S}
Cyclic(jumps, h) == \E g \in {h} \cup Beyond(jumps, h) : g \in Beyond(jumps, g)

AllJumps == [h \in Aliases |-> Jumps(h)]

\* A chain is refused as a cycle only when a host is reached again from itself,
\* and never expanded then; otherwise it holds every host behind the hosts it is
\* reached through and ends with the target, unless it is longer than a route
\* may be. A route that names its hosts is never expanded.
ChainFollowsTheJumps ==
  LET target == route[1]
  IN /\ state = "done" =>
          IF Len(route) > 1 THEN output = route
          ELSE /\ ~Cyclic(AllJumps, target)
               /\ IsChainOf(AllJumps, route, output)
               /\ Len(output) <= MaxRoute
     /\ state = "cycle" => Cyclic(AllJumps, target)
     /\ state = "too_long" =>
          \/ Len(route) > MaxRoute
          \/ InFront(AllJumps, route)[MaxRoute] # <<>>
=============================================================================
