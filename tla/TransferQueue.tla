--------------------------- MODULE TransferQueue ---------------------------
(***************************************************************************)
(* The SFTP transfer queue of one terminal (sftp-ui.ts, transfer-queue.ts) *)
(* above the transfers of its SSH sessions (lib.rs, ssh.rs, sftp.rs).      *)
(*                                                                         *)
(* The panel runs one transfer at a time: an `invoke` whose result comes   *)
(* back once, and a channel of progress events of its own. The events are  *)
(* ordered among themselves, but not against the result, against the       *)
(* operator (cancel, retry, remove) or against the loss of the connection. *)
(* A transfer is known by the id drawn for it; a retry draws a new one.    *)
(***************************************************************************)
EXTENDS Naturals, Sequences, FiniteSets

CONSTANTS
  MaxItems,        \* items the operator may enqueue in all
  MaxTransfers,    \* transfer ids that may be drawn in all
  MaxConnections,  \* connections of the terminal, one after the other
  MaxQueue,        \* MAX_TRANSFER_QUEUE_ITEMS
  MaxHistory       \* MAX_COMPLETED_TRANSFER_HISTORY

ASSUME QueueAssumption ==
  /\ MaxItems \in Nat
  /\ MaxTransfers \in Nat
  /\ MaxConnections \in Nat
  /\ MaxQueue \in Nat \ {0}
  /\ MaxHistory \in Nat

Items       == 1 .. MaxItems
Transfers   == 1 .. MaxTransfers
Connections == 1 .. MaxConnections
None == 0

VARIABLES
  conn,        \* the terminal's connection, None when it has none
  connections, \* connections so far
  items,       \* every item ever enqueued
  queue,       \* the items in the panel, listed by number: new ones go to the end
  processing,  \* processQueue is between its start and its `finally`
  drawn,       \* transfer id -> its item, and the connection it was queued for
  calls,       \* transfer -> its sftp_transfer invoke
  on,          \* transfer -> the connection it was invoked on
  progress,    \* transfer -> progress events on their way
  completed,   \* transfers that completed in the backend
  cancelling,  \* transfers with an sftp_cancel invoke on its way
  flagged      \* transfers whose cancel flag is set in the backend

terminal == <<conn, connections>>
panel    == <<items, queue, processing, drawn>>
invokes  == <<calls, on>>
backend  == <<progress, completed, flagged>>
vars == <<terminal, panel, invokes, backend, cancelling>>
----
Statuses == {"queued", "running", "completed", "cancelled", "failed"}
Events   == {"running", "conflict", "completed", "cancelled", "failed"}
Item == [id : Transfers, conn : Connections, status : Statuses,
         cancel : BOOLEAN, last : Events \cup {"none"}]
Drawn == [item : Items, conn : Connections]

Queued(n) ==
  [id |-> n, conn |-> conn, status |-> "queued", cancel |-> FALSE, last |-> "none"]

\* An invoke: in the session's channel, its task registered, its task done, its
\* result on the way, the listings after a success awaited.
CallStates == {"none", "sent", "running", "settled", "resolved", "rejected",
               "listing", "over"}
UnderWay == {n \in Transfers : calls[n] \notin {"none", "over"}}
----
(* The terminal: its connection comes and goes. *)

Connect ==
  /\ conn = None
  /\ connections < MaxConnections
  /\ connections' = connections + 1
  /\ conn' = connections'
  /\ UNCHANGED <<panel, invokes, backend, cancelling>>

\* A session that is closed cancels its transfers; one that is lost does not.
Disconnect ==
  /\ conn # None
  /\ conn' = None
  /\ \/ UNCHANGED flagged
     \/ flagged' = flagged \cup {n \in Transfers : on[n] = conn /\ calls[n] = "running"}
  /\ UNCHANGED <<connections, panel, invokes, progress, completed, cancelling>>
----
(* The panel. *)

\* pruneCompletedTransfers: the oldest of too many completed items go.
Prune(its, q) ==
  LET done == {i \in q : its[i].status = "completed"}
  IN q \ {i \in done : Cardinality({j \in done : j > i}) >= MaxHistory}

\* Mutant: the connection is not compared.
FirstQueued(its, q) ==
  {i \in q : /\ its[i].status = "queued"
             /\ conn # None
             /\ \A j \in q : its[j].status = "queued" => i <= j}

\* The next item to start: the first that was queued for the connection the
\* terminal has now.
NextItem(its, q) ==
  LET startable == {i \in q : its[i].status = "queued" /\ its[i].conn = conn}
  IN {i \in startable : \A j \in startable : i <= j}

\* processQueue: items queued for another connection fail on the way to the one
\* that starts.
ProcessQueue(its, q, cs) ==
  LET next   == NextItem(its, q)
      passed == {j \in q : its[j].status = "queued" /\ \A i \in next : j < i}
      failed == [i \in DOMAIN its |->
                  IF i \in passed THEN [its[i] EXCEPT !.status = "failed"] ELSE its[i]]
  IN /\ queue' = q
     /\ \/ /\ next = {}
           /\ items' = failed
           /\ processing' = FALSE
           /\ calls' = cs
           /\ UNCHANGED on
        \/ \E i \in next :
           /\ items' = [failed EXCEPT ![i].status = "running"]
           /\ processing' = TRUE
           /\ calls' = [cs EXCEPT ![its[i].id] = "sent"]
           /\ on' = [on EXCEPT ![its[i].id] = conn]

\* Mutant: a transfer is started next to the one that is running.
AlwaysProcess(its, q) == ProcessQueue(its, q, calls)

\* `if (processing) return`
TryProcess(its, q) ==
  \/ /\ processing
     /\ items' = its
     /\ queue' = q
     /\ UNCHANGED <<processing, invokes>>
  \/ /\ ~processing
     /\ ProcessQueue(its, q, calls)

Enqueue ==
  LET q == Prune(items, queue)
      n == Len(drawn) + 1
      i == Len(items) + 1 IN
  /\ conn # None
  /\ i \in Items /\ n \in Transfers
  /\ Cardinality(q) < MaxQueue
  /\ drawn' = Append(drawn, [item |-> i, conn |-> conn])
  /\ TryProcess(Append(items, Queued(n)), q \cup {i})
  /\ UNCHANGED <<terminal, backend, cancelling>>

\* The operator's actions on an item of the panel (runTransferAction).
Cancel(i) ==
  /\ items[i].status = "running"
  /\ items[i].conn = conn
  /\ items' = [items EXCEPT ![i].cancel = TRUE]
  /\ cancelling' = cancelling \cup {items[i].id}
  /\ UNCHANGED <<terminal, queue, processing, drawn, invokes, backend>>

Remove(i) ==
  /\ items[i].status # "running"
  /\ queue' = queue \ {i}
  /\ UNCHANGED <<terminal, items, processing, drawn, invokes, backend, cancelling>>

\* After a conflict the operator is first asked to overwrite, and may decline.
Retry(i) ==
  LET n == Len(drawn) + 1 IN
  /\ items[i].status \in {"failed", "cancelled"}
  /\ conn # None
  /\ n \in Transfers
  /\ drawn' = Append(drawn, [item |-> i, conn |-> conn])
  /\ TryProcess([items EXCEPT ![i] = Queued(n)], queue)
  /\ UNCHANGED <<terminal, backend, cancelling>>
----
(* The backend. *)

Emit(n, kinds) == progress' = [progress EXCEPT ![n] = @ \o kinds]

CallTo(n, from, to) ==
  /\ calls[n] = from
  /\ calls' = [calls EXCEPT ![n] = to]
  /\ UNCHANGED <<terminal, panel, on, cancelling>>

\* The transfer's task is registered with its session, or refused: the session
\* is gone, its SFTP channel does not open, the path is out of scope.
Register(n) ==
  /\ CallTo(n, "sent", "running")
  /\ Emit(n, <<"running">>)
  /\ UNCHANGED <<completed, flagged>>

Refuse(n) ==
  /\ CallTo(n, "sent", "rejected")
  /\ UNCHANGED backend

Complete(n) ==
  /\ CallTo(n, "running", "settled")
  /\ completed' = completed \cup {n}
  /\ Emit(n, <<"completed">>)
  /\ UNCHANGED flagged

\* A failure is a cancellation if the flag is set, whatever made it fail. An
\* existing target is reported as a conflict first.
Failed(n, conflict) ==
  LET how == IF n \in flagged THEN "cancelled" ELSE "failed" IN
  /\ CallTo(n, "running", "settled")
  /\ Emit(n, IF conflict THEN <<"conflict", how>> ELSE <<how>>)
  /\ UNCHANGED <<completed, flagged>>

\* The task leaves the registry, and its flag with it, and replies.
Reply(n) ==
  /\ CallTo(n, "settled", IF n \in completed THEN "resolved" ELSE "rejected")
  /\ flagged' = flagged \ {n}
  /\ UNCHANGED <<progress, completed>>

\* sftp_cancel: a transfer that is not registered is not found.
CancelArrives(n) ==
  /\ n \in cancelling
  /\ cancelling' = cancelling \ {n}
  /\ flagged' = IF calls[n] \in {"running", "settled"} THEN flagged \cup {n} ELSE flagged
  /\ UNCHANGED <<terminal, panel, invokes, progress, completed>>
----
(* The panel hears of its transfer. *)

\* Mutant: the id is not compared.
OfAnyTransfer(i, n) == TRUE

OfTransfer(i, n) == items[i].id = n

\* Mutant: a conflict becomes the status of the item.
HearAnyStatus(n) ==
  LET i == drawn[n].item
      e == Head(progress[n]) IN
  /\ progress[n] # <<>>
  /\ progress' = [progress EXCEPT ![n] = Tail(@)]
  /\ items' = IF ~OfTransfer(i, n) THEN items
              ELSE [items EXCEPT ![i].last = e, ![i].status = e]
  /\ UNCHANGED <<terminal, queue, processing, drawn, invokes, completed, flagged,
                 cancelling>>

\* onmessage: an event of an earlier attempt is dropped.
HearProgress(n) ==
  LET i == drawn[n].item
      e == Head(progress[n]) IN
  /\ progress[n] # <<>>
  /\ progress' = [progress EXCEPT ![n] = Tail(@)]
  /\ items' = IF ~OfTransfer(i, n) THEN items
              ELSE IF e = "conflict"
              THEN [items EXCEPT ![i].last = e]
              ELSE [items EXCEPT ![i].last = e, ![i].status = e]
  /\ UNCHANGED <<terminal, queue, processing, drawn, invokes, completed, flagged,
                 cancelling>>

\* Mutant: the next item is left to the operator.
FinallyIdle(its, n) ==
  /\ items' = its
  /\ queue' = Prune(its, queue)
  /\ processing' = FALSE
  /\ calls' = [calls EXCEPT ![n] = "over"]
  /\ UNCHANGED on

\* `finally`
Finally(its, n) ==
  ProcessQueue(its, Prune(its, queue), [calls EXCEPT ![n] = "over"])

HearSuccess(n) ==
  /\ calls[n] = "resolved"
  /\ calls' = [calls EXCEPT ![n] = "listing"]
  /\ items' = [items EXCEPT ![drawn[n].item].status = "completed"]
  /\ UNCHANGED <<terminal, queue, processing, drawn, on, backend, cancelling>>

\* loadLocal and loadRemote are done.
Listed(n) ==
  /\ calls[n] = "listing"
  /\ Finally(items, n)
  /\ UNCHANGED <<terminal, drawn, backend, cancelling>>

\* settleFailedTransfer
SettleFailedTransfer(item) ==
  IF item.cancel \/ item.last = "cancelled" THEN "cancelled" ELSE "failed"

\* The item is settled whether or not it is still about this transfer.
HearFailure(n) ==
  LET i == drawn[n].item IN
  /\ calls[n] = "rejected"
  /\ Finally([items EXCEPT ![i].status = SettleFailedTransfer(items[i])], n)
  /\ UNCHANGED <<terminal, drawn, backend, cancelling>>
----
Init ==
  /\ conn = None
  /\ connections = 0
  /\ items = <<>>
  /\ queue = {}
  /\ processing = FALSE
  /\ drawn = <<>>
  /\ calls = [n \in Transfers |-> "none"]
  /\ on = [n \in Transfers |-> None]
  /\ progress = [n \in Transfers |-> <<>>]
  /\ completed = {}
  /\ cancelling = {}
  /\ flagged = {}

Operator ==
  \/ Enqueue
  \/ \E i \in queue : Cancel(i) \/ Remove(i) \/ Retry(i)

Run(n) ==
  \/ Register(n)
  \/ Refuse(n)
  \/ Complete(n)
  \/ \E conflict \in BOOLEAN : Failed(n, conflict)
  \/ Reply(n)

Hear(n) == HearSuccess(n) \/ Listed(n) \/ HearFailure(n)

Next ==
  \/ Connect
  \/ Disconnect
  \/ Operator
  \/ \E n \in Transfers : Run(n) \/ CancelArrives(n)
  \/ \E n \in DOMAIN drawn : HearProgress(n) \/ Hear(n)

\* The backend's transfers end (a stalled server is ended by the keepalive of
\* its connection) and the results of invokes reach the panel.
Fairness ==
  \A n \in Transfers :
    /\ WF_vars(Run(n))
    /\ WF_vars(n \in DOMAIN drawn /\ Hear(n))

Spec == Init /\ [][Next]_vars /\ Fairness
----
TypeOK ==
  /\ conn \in {None, connections}
  /\ connections \in 0 .. MaxConnections
  /\ items \in Seq(Item)
  /\ queue \subseteq DOMAIN items
  /\ Cardinality(queue) <= MaxQueue
  /\ processing \in BOOLEAN
  /\ drawn \in Seq(Drawn)
  /\ \A i \in DOMAIN items : drawn[items[i].id].item = i
  /\ calls \in [Transfers -> CallStates]
  /\ on \in [Transfers -> Connections \cup {None}]
  /\ progress \in [Transfers -> Seq(Events)]
  /\ completed \subseteq DOMAIN drawn
  /\ cancelling \subseteq DOMAIN drawn
  /\ flagged \subseteq DOMAIN drawn

\* "The queue runs one transfer at a time" (docs/SFTP.md), from its start until
\* its result was handled, cancelled or not: and the panel knows whether it does.
OneTransferAtATime ==
  /\ Cardinality(UnderWay) <= 1
  /\ processing <=> UnderWay # {}

\* Whatever ends a transfer, starts or retries one looks at the queue again: no
\* item waits in an idle panel.
NoneWaitsInVain ==
  ~processing => \A i \in queue : items[i].status # "queued"

\* "Queued items are never run implicitly on another connection" (docs/SFTP.md):
\* a transfer starts only on the connection for which the operator queued it.
StartsWhereQueued ==
  \A n \in DOMAIN drawn : on[n] \in {None, drawn[n].conn}

\* However the result and the progress events of the attempts are interleaved
\* with the operator's retries, an item shows `completed` only if the attempt it
\* is about did complete, and it does not stay `running` once all is heard.
StatusIsTrue ==
  \A i \in DOMAIN items :
    LET n == items[i].id IN
    /\ items[i].status = "completed" => n \in completed
    /\ items[i].status = "running" => n \in UnderWay \/ progress[n] # <<>>

Waits(i) == i \in queue /\ items[i].status = "queued"

\* A queued item does not wait for ever: each result hands the panel on to the
\* next one.
QueueDrains == \A i \in Items : Waits(i) ~> ~Waits(i)

\* "RETRY puts the item back into the queue with a new transfer id"
\* (docs/SFTP.md): it leaves the queue only by being started, being removed or
\* because the connection it was queued for is gone.
RetriesAreHonoured ==
  [][\A i \in DOMAIN items :
       items[i].status = "queued" /\ items'[i].status # "queued"
         => \/ calls'[items[i].id] = "sent"
            \/ items[i].conn # conn
            \/ i \notin queue']_vars
=============================================================================
