------------------------ MODULE TransferQueueProofs ------------------------
(***************************************************************************)
(* Proofs about TransferQueue, for any number of items, transfers and      *)
(* connections and any limits: types are correct, one transfer runs at a   *)
(* time and only on the connection it was queued for, no item waits in an  *)
(* idle panel, and an item shows the status of the attempt it is about.    *)
(*                                                                         *)
(* The parts of the inductive invariant have the items, the queue, the ids *)
(* drawn and the calls as parameters: processQueue is entered with others  *)
(* than those of the state before the step.                                *)
(***************************************************************************)
EXTENDS TransferQueue, FiniteSetTheorems, SequenceTheorems, TLAPS

Unsuccessful == {"failed", "cancelled"}
Started == CallStates \ {"none", "over"}
UnderWayIn(cs) == {n \in Transfers : cs[n] \in Started}

QueueTypes(its, q, dr, cs) ==
  /\ its \in Seq(Item) /\ DOMAIN its \subseteq Items
  /\ q \subseteq DOMAIN its /\ Cardinality(q) <= MaxQueue
  /\ dr \in Seq(Drawn) /\ DOMAIN dr \subseteq Transfers
  /\ cs \in [Transfers -> CallStates]

\* An item and the id drawn for it know each other; an id that was not drawn
\* names nothing.
IdsMatch(its, dr, cs) ==
  /\ \A n \in DOMAIN dr : dr[n].item \in DOMAIN its
  /\ \A i \in DOMAIN its :
       /\ its[i].id \in DOMAIN dr
       /\ dr[its[i].id].item = i
       /\ dr[its[i].id].conn = its[i].conn
  /\ \A n \in Transfers \ DOMAIN dr : cs[n] = "none" /\ on[n] = None
  /\ \A n \in DOMAIN dr : on[n] \in {None, dr[n].conn}

\* A transfer that was not invoked has neither events nor a result; one that is
\* settled completed or did not.
CallsAreRight(cs) ==
  \A n \in Transfers :
    /\ cs[n] \in {"none", "sent"} => progress[n] = <<>>
    /\ cs[n] \in {"none", "sent", "running", "rejected"} => n \notin completed
    /\ cs[n] \in {"resolved", "listing"} => n \in completed

\* The last event of a transfer that has ended says how, and says it rightly.
EventsAreRight(cs) ==
  \A n \in Transfers : \A k \in DOMAIN progress[n] :
    /\ progress[n][k] = "completed" => n \in completed
    /\ progress[n][k] \in Unsuccessful =>
         n \notin completed /\ cs[n] \in {"settled", "rejected", "over"}
    /\ k = Len(progress[n]) /\ progress[n][k] \in {"running", "conflict"} =>
         cs[n] = "running"

\* A transfer whose item was retried, or shows that it may be, did not complete.
OnlyFailuresAreRetried(its, dr, cs) ==
  \A n \in UnderWayIn(cs) :
    \/ its[dr[n].item].id = n /\ its[dr[n].item].status \notin Unsuccessful
    \/ n \notin completed /\ cs[n] \in {"settled", "rejected"}

ItemsAreRight(its, cs) ==
  \A i \in DOMAIN its :
    LET n == its[i].id IN
    /\ its[i].status = "queued" => cs[n] = "none"
    /\ its[i].status = "completed" => n \in completed
    /\ its[i].status = "running" /\ progress[n] = <<>> =>
         cs[n] \in Started \ {"listing"}

Held(its, q, dr, cs) ==
  /\ QueueTypes(its, q, dr, cs)
  /\ IdsMatch(its, dr, cs)
  /\ CallsAreRight(cs)
  /\ EventsAreRight(cs)
  /\ OnlyFailuresAreRetried(its, dr, cs)
  /\ ItemsAreRight(its, cs)

OtherTypes ==
  /\ conn \in {None, connections}
  /\ connections \in 0 .. MaxConnections
  /\ processing \in BOOLEAN
  /\ on \in [Transfers -> Connections \cup {None}]
  /\ progress \in [Transfers -> Seq(Events)]
  /\ completed \subseteq DOMAIN drawn
  /\ cancelling \subseteq DOMAIN drawn
  /\ flagged \subseteq DOMAIN drawn

\* The panel runs the transfer that is under way, and that one only.
PanelIsRight ==
  /\ \A m, n \in UnderWayIn(calls) : m = n
  /\ processing <=> UnderWayIn(calls) # {}
  /\ NoneWaitsInVain

IInv == OtherTypes /\ Held(items, queue, drawn, calls) /\ PanelIsRight
----
LEMMA FunctionIsSequence ==
  ASSUME NEW S, NEW n \in Nat, NEW s \in [1 .. n -> S]
  PROVE  s \in Seq(S) /\ Len(s) = n /\ DOMAIN s = 1 .. n
OBVIOUS

LEMMA AppendKeeps ==
  ASSUME NEW S, NEW q \in Seq(S), NEW x \in S
  PROVE  /\ Append(q, x) \in Seq(S)
         /\ DOMAIN Append(q, x) = DOMAIN q \cup {Len(q) + 1}
         /\ Len(q) + 1 \notin DOMAIN q
         /\ \A i \in DOMAIN q : Append(q, x)[i] = q[i]
         /\ Append(q, x)[Len(q) + 1] = x
BY AppendProperties

\* A changed item is an item, in the list it was in.
LEMMA ItemChanged ==
  ASSUME NEW its \in Seq(Item), NEW i \in DOMAIN its, NEW x \in Item
  PROVE  /\ [its EXCEPT ![i] = x] \in Seq(Item)
         /\ DOMAIN [its EXCEPT ![i] = x] = DOMAIN its
         /\ \A j \in DOMAIN its : [its EXCEPT ![i] = x][j] = IF j = i THEN x ELSE its[j]
<1>1. i \in 1 .. Len(its) /\ DOMAIN its = 1 .. Len(its)
  BY LenProperties
<1>. QED  BY <1>1, ExceptSeq

LEMMA ItemFields ==
  ASSUME NEW x \in Item
  PROVE  /\ x.id \in Transfers /\ x.conn \in Connections /\ x.status \in Statuses
         /\ \A st \in Statuses :
              /\ [x EXCEPT !.status = st] \in Item
              /\ [x EXCEPT !.status = st].id = x.id
              /\ [x EXCEPT !.status = st].conn = x.conn
              /\ [x EXCEPT !.status = st].status = st
BY DEF Item

\* pruneCompletedTransfers takes completed items off the queue, and nothing else.
LEMMA PruneFacts ==
  ASSUME NEW its, NEW q, q \subseteq DOMAIN its, DOMAIN its \subseteq Items
  PROVE  /\ IsFiniteSet(q)
         /\ Prune(its, q) \subseteq q
         /\ Cardinality(Prune(its, q)) <= Cardinality(q)
         /\ \A i \in q \ Prune(its, q) : its[i].status = "completed"
<1>1. IsFiniteSet(q)
  <2>1. IsFiniteSet(1 .. MaxItems) /\ q \in SUBSET (1 .. MaxItems)
    BY QueueAssumption, FS_Interval DEF Items
  <2>. QED  BY <2>1, FS_Subset
<1>2. Prune(its, q) \subseteq q /\ \A i \in q \ Prune(its, q) : its[i].status = "completed"
  BY DEF Prune
<1>. QED  BY <1>1, <1>2, FS_Subset

\* processQueue starts one item that was queued for this connection, or leaves
\* none queued; besides, it only fails queued items.
LEMMA ProcessFacts ==
  ASSUME NEW its \in Seq(Item), NEW q, q \subseteq DOMAIN its, NEW cs,
         ProcessQueue(its, q, cs)
  PROVE  /\ items' \in Seq(Item) /\ DOMAIN items' = DOMAIN its /\ queue' = q
         /\ \A i \in DOMAIN its : items'[i].id = its[i].id /\ items'[i].conn = its[i].conn
         /\ \/ /\ processing' = FALSE /\ calls' = cs /\ on' = on
               /\ \A i \in q : items'[i].status # "queued"
               /\ \A i \in DOMAIN its : items'[i].status \in {its[i].status, "failed"}
            \/ \E i \in q :
               /\ its[i].status = "queued" /\ its[i].conn = conn
               /\ items'[i].status = "running"
               /\ processing' = TRUE
               /\ calls' = [cs EXCEPT ![its[i].id] = "sent"]
               /\ on' = [on EXCEPT ![its[i].id] = conn]
               /\ \A j \in DOMAIN its \ {i} : items'[j].status \in {its[j].status, "failed"}
<1>. DEFINE next   == NextItem(its, q)
            passed == {j \in q : its[j].status = "queued" /\ \A i \in next : j < i}
            failed == [i \in DOMAIN its |->
                        IF i \in passed THEN [its[i] EXCEPT !.status = "failed"] ELSE its[i]]
<1>1. DOMAIN its = 1 .. Len(its) /\ Len(its) \in Nat /\ \A i \in DOMAIN its : its[i] \in Item
  BY LenProperties, ElementOfSeq
<1>2. \A i \in DOMAIN its : /\ failed[i] \in Item
                            /\ failed[i].id = its[i].id /\ failed[i].conn = its[i].conn
                            /\ failed[i].status \in {its[i].status, "failed"}
                            /\ i \in passed => failed[i].status = "failed"
  BY <1>1, ItemFields DEF Statuses
<1>3. failed \in Seq(Item) /\ DOMAIN failed = DOMAIN its
  <2>1. failed \in [1 .. Len(its) -> Item]
    BY <1>1, <1>2
  <2>. QED  BY <2>1, <1>1, FunctionIsSequence
<1>4. CASE /\ next = {} /\ items' = failed /\ processing' = FALSE /\ calls' = cs /\ on' = on
           /\ queue' = q
  <2>1. \A i \in q : items'[i].status # "queued"
    <3>1. ASSUME NEW i \in q, its[i].status = "queued" PROVE i \in passed
      BY <1>4, <3>1
    <3>. QED  BY <3>1, <1>4, <1>2
  <2>. QED  BY <2>1, <1>2, <1>3, <1>4
<1>5. ASSUME NEW i \in next, items' = [failed EXCEPT ![i].status = "running"],
             processing' = TRUE, calls' = [cs EXCEPT ![its[i].id] = "sent"],
             on' = [on EXCEPT ![its[i].id] = conn], queue' = q
      PROVE  /\ items' \in Seq(Item) /\ DOMAIN items' = DOMAIN its
             /\ \A j \in DOMAIN its : items'[j].id = its[j].id /\ items'[j].conn = its[j].conn
             /\ i \in q /\ its[i].status = "queued" /\ its[i].conn = conn
             /\ items'[i].status = "running"
             /\ \A j \in DOMAIN its \ {i} : items'[j].status \in {its[j].status, "failed"}
  <2>1. i \in q /\ its[i].status = "queued" /\ its[i].conn = conn /\ i \in DOMAIN its
    BY DEF NextItem
  <2>. DEFINE x == [failed[i] EXCEPT !.status = "running"]
  <2>2. items' = [failed EXCEPT ![i] = x]
    BY <1>5
  <2>3. x \in Item /\ x.id = its[i].id /\ x.conn = its[i].conn /\ x.status = "running"
    <3>1. PICK y : y = failed[i]
      OBVIOUS
    <3>2. y \in Item /\ y.id = its[i].id /\ y.conn = its[i].conn
      BY <3>1, <2>1, <1>2
    <3>. HIDE DEF failed
    <3>3. x = [y EXCEPT !.status = "running"]
      BY <3>1
    <3>4. "running" \in Statuses
      BY DEF Statuses
    <3>. HIDE DEF x
    <3>. QED  BY <3>2, <3>3, <3>4, ItemFields
  <2>. HIDE DEF failed, x
  <2>4. /\ items' \in Seq(Item) /\ DOMAIN items' = DOMAIN its
        /\ \A j \in DOMAIN its : items'[j] = IF j = i THEN x ELSE failed[j]
    BY <2>1, <2>2, <2>3, <1>3, ItemChanged
  <2>. QED  BY <2>1, <2>3, <2>4, <1>2
<1>. QED  BY <1>4, <1>5 DEF ProcessQueue
----
LEMMA InitIInv == Init => IInv
<1>. SUFFICES ASSUME Init PROVE IInv
  OBVIOUS
<1>. USE DEF Init
<1>1. <<>> \in Seq(Item) /\ <<>> \in Seq(Drawn) /\ <<>> \in Seq(Events) /\ DOMAIN <<>> = {}
  BY EmptySeq
<1>2. OtherTypes
  <2>1. progress \in [Transfers -> Seq(Events)] /\ on \in [Transfers -> Connections \cup {None}]
    BY <1>1
  <2>2. connections \in 0 .. MaxConnections
    BY QueueAssumption
  <2>3. processing \in BOOLEAN /\ conn \in {None, connections}
    BY Zenon
  <2>. QED  BY <2>1, <2>2, <2>3 DEF OtherTypes
<1>3. QueueTypes(items, queue, drawn, calls)
  BY <1>1, FS_EmptySet, QueueAssumption DEF QueueTypes, CallStates
<1>4. \A n \in Transfers : calls[n] = "none" /\ on[n] = None /\ progress[n] = <<>>
  OBVIOUS
<1>5. UnderWayIn(calls) = {}
  BY <1>4 DEF UnderWayIn, Started
<1>6. /\ IdsMatch(items, drawn, calls) /\ CallsAreRight(calls)
      /\ EventsAreRight(calls) /\ ItemsAreRight(items, calls)
      /\ OnlyFailuresAreRetried(items, drawn, calls)
  BY <1>1, <1>4, <1>5
  DEF IdsMatch, CallsAreRight, EventsAreRight, ItemsAreRight, OnlyFailuresAreRetried
<1>7. PanelIsRight
  BY <1>5 DEF PanelIsRight, NoneWaitsInVain
<1>. QED  BY <1>2, <1>3, <1>6, <1>7 DEF IInv, Held

\* What the invariant says of the transfers that are under way.
LEMMA UnderWayIs ==
  ASSUME NEW cs
  PROVE  UnderWayIn(cs) = {n \in Transfers : cs[n] \in Started}
BY DEF UnderWayIn

\* The invariant implies the properties.
LEMMA Implies ==
  ASSUME IInv
  PROVE  /\ TypeOK /\ OneTransferAtATime /\ NoneWaitsInVain
         /\ StartsWhereQueued /\ StatusIsTrue
<1>1. UnderWay = UnderWayIn(calls)
  BY DEF IInv, Held, QueueTypes, UnderWay, UnderWayIn, Started
<1>2. TypeOK
  BY DEF IInv, OtherTypes, Held, QueueTypes, IdsMatch, TypeOK
<1>3. OneTransferAtATime
  <2>1. Cardinality(UnderWay) <= 1
    <3>1. CASE UnderWay = {}
      BY <3>1, FS_EmptySet
    <3>2. CASE UnderWay # {}
      <4>1. PICK n : UnderWay = {n}
        BY <1>1, <3>2 DEF IInv, PanelIsRight
      <4>. QED  BY <4>1, FS_Singleton
    <3>. QED  BY <3>1, <3>2
  <2>. QED  BY <2>1, <1>1 DEF IInv, PanelIsRight, OneTransferAtATime
<1>4. StartsWhereQueued
  BY DEF IInv, Held, IdsMatch, StartsWhereQueued
<1>5. StatusIsTrue
  <2>1. ASSUME NEW i \in DOMAIN items
        PROVE  items[i].id \in Transfers
    BY DEF IInv, Held, IdsMatch, QueueTypes
  <2>. QED  BY <1>1, <2>1 DEF IInv, Held, ItemsAreRight, UnderWayIn, StatusIsTrue
<1>. QED  BY <1>2, <1>3, <1>4, <1>5 DEF IInv, PanelIsRight

\* processQueue, entered with nothing under way, leaves a right panel.
LEMMA ProcessKeeps ==
  ASSUME OtherTypes, NEW its, NEW q, NEW dr, NEW cs,
         Held(its, q, dr, cs), UnderWayIn(cs) = {},
         DOMAIN drawn \subseteq DOMAIN dr, drawn' = dr,
         ProcessQueue(its, q, cs), UNCHANGED <<terminal, backend, cancelling>>
  PROVE  IInv'
<1>1. /\ its \in Seq(Item) /\ DOMAIN its \subseteq Items /\ q \subseteq DOMAIN its
      /\ dr \in Seq(Drawn) /\ DOMAIN dr \subseteq Transfers
      /\ cs \in [Transfers -> CallStates] /\ Cardinality(q) <= MaxQueue
  BY DEF Held, QueueTypes
<1>2. \A i \in DOMAIN its : its[i] \in Item /\ its[i].conn \in Connections
  BY <1>1, LenProperties, ElementOfSeq, ItemFields
<1>3. IdsMatch(its, dr, cs) /\ CallsAreRight(cs) /\ EventsAreRight(cs) /\ ItemsAreRight(its, cs)
  BY DEF Held
<1>4. /\ conn' = conn /\ connections' = connections /\ progress' = progress
      /\ completed' = completed /\ flagged' = flagged /\ cancelling' = cancelling
  BY DEF terminal, backend
<1>5. /\ items' \in Seq(Item) /\ DOMAIN items' = DOMAIN its /\ queue' = q
      /\ \A i \in DOMAIN its : items'[i].id = its[i].id /\ items'[i].conn = its[i].conn
  BY <1>1, ProcessFacts
<1>6. CASE /\ processing' = FALSE /\ calls' = cs /\ on' = on
           /\ \A i \in q : items'[i].status # "queued"
           /\ \A i \in DOMAIN its : items'[i].status \in {its[i].status, "failed"}
  <2>1. OtherTypes'
    BY <1>4, <1>6 DEF OtherTypes
  <2>2. QueueTypes(items', queue', drawn', calls')
    BY <1>1, <1>5, <1>6 DEF QueueTypes
  <2>3. IdsMatch(items, drawn, calls)'
    BY <1>3, <1>5, <1>6 DEF IdsMatch
  <2>4. CallsAreRight(calls)' /\ EventsAreRight(calls)'
    BY <1>3, <1>4, <1>6 DEF CallsAreRight, EventsAreRight
  <2>5. OnlyFailuresAreRetried(items, drawn, calls)'
    BY <1>6 DEF OnlyFailuresAreRetried, UnderWayIn
  <2>6. ItemsAreRight(items, calls)'
    BY <1>3, <1>4, <1>5, <1>6 DEF ItemsAreRight
  <2>7. PanelIsRight'
    BY <1>5, <1>6 DEF PanelIsRight, NoneWaitsInVain, UnderWayIn
  <2>. QED  BY <2>1, <2>2, <2>3, <2>4, <2>5, <2>6, <2>7 DEF IInv, Held
<1>7. ASSUME NEW i \in q, its[i].status = "queued", its[i].conn = conn,
             items'[i].status = "running", processing' = TRUE,
             calls' = [cs EXCEPT ![its[i].id] = "sent"],
             on' = [on EXCEPT ![its[i].id] = conn],
             \A j \in DOMAIN its \ {i} : items'[j].status \in {its[j].status, "failed"}
      PROVE IInv'
  <2>. PICK n : n = its[i].id
    OBVIOUS
  <2>1. /\ n \in DOMAIN dr /\ n \in Transfers /\ dr[n].item = i /\ dr[n].conn = conn
        /\ cs[n] = "none" /\ progress[n] = <<>> /\ n \notin completed
    BY <1>1, <1>3, <1>7 DEF IdsMatch, ItemsAreRight, CallsAreRight
  <2>2. /\ \A m \in Transfers : calls'[m] = IF m = n THEN "sent" ELSE cs[m]
        /\ calls' \in [Transfers -> CallStates]
    BY <1>1, <1>7, <2>1 DEF CallStates
  <2>3. /\ \A m \in Transfers : on'[m] = IF m = n THEN conn ELSE on[m]
        /\ on' \in [Transfers -> Connections \cup {None}]
    BY <1>1, <1>2, <1>7, <2>1 DEF OtherTypes
  <2>4. UnderWayIn(calls') = {n}
    BY <2>1, <2>2 DEF UnderWayIn, Started, CallStates
  <2>5. OtherTypes'
    BY <1>4, <1>7, <2>3 DEF OtherTypes
  <2>6. QueueTypes(items', queue', drawn', calls')
    BY <1>1, <1>5, <2>2 DEF QueueTypes
  <2>7. IdsMatch(items, drawn, calls)'
    <3>1. \A m \in Transfers \ DOMAIN dr : calls'[m] = "none" /\ on'[m] = None
      BY <1>3, <2>1, <2>2, <2>3 DEF IdsMatch
    <3>2. \A m \in DOMAIN dr : on'[m] \in {None, dr[m].conn}
      BY <1>1, <1>3, <2>1, <2>3 DEF IdsMatch
    <3>. QED  BY <1>3, <1>5, <3>1, <3>2 DEF IdsMatch
  <2>8. CallsAreRight(calls)'
    BY <1>3, <1>4, <2>1, <2>2 DEF CallsAreRight
  <2>9. EventsAreRight(calls)'
    <3>1. DOMAIN progress[n] = {}
      BY <2>1
    <3>. QED  BY <3>1, <1>3, <1>4, <2>2 DEF EventsAreRight
  <2>10. OnlyFailuresAreRetried(items, drawn, calls)'
    BY <1>1, <1>5, <1>7, <2>1, <2>4 DEF OnlyFailuresAreRetried, Unsuccessful
  <2>11. ItemsAreRight(items, calls)'
    <3>1. ASSUME NEW j \in DOMAIN its, j # i PROVE its[j].id \in Transfers /\ its[j].id # n
      BY <3>1, <1>1, <1>3, <2>1 DEF IdsMatch
    <3>2. "sent" \in Started \ {"listing"}
      BY DEF Started, CallStates
    <3>. QED  BY <3>1, <3>2, <1>1, <1>3, <1>4, <1>5, <1>7, <2>1, <2>2 DEF ItemsAreRight
  <2>12. PanelIsRight'
    BY <1>7, <2>4 DEF PanelIsRight, NoneWaitsInVain
  <2>. QED  BY <2>5, <2>6, <2>7, <2>8, <2>9, <2>10, <2>11, <2>12 DEF IInv, Held
<1>8. \/ /\ processing' = FALSE /\ calls' = cs /\ on' = on
         /\ \A i \in q : items'[i].status # "queued"
         /\ \A i \in DOMAIN its : items'[i].status \in {its[i].status, "failed"}
      \/ \E i \in q :
         /\ its[i].status = "queued" /\ its[i].conn = conn
         /\ items'[i].status = "running"
         /\ processing' = TRUE
         /\ calls' = [cs EXCEPT ![its[i].id] = "sent"]
         /\ on' = [on EXCEPT ![its[i].id] = conn]
         /\ \A j \in DOMAIN its \ {i} : items'[j].status \in {its[j].status, "failed"}
  BY ONLY <1>1, ProcessQueue(its, q, cs), ProcessFacts
<1>. QED  BY <1>6, <1>7, <1>8
----
\* processQueue while another run of it waits for its transfer, or not.
LEMMA TryKeeps ==
  ASSUME IInv, NEW its, NEW q, NEW dr, Held(its, q, dr, calls),
         DOMAIN drawn \subseteq DOMAIN dr, drawn' = dr,
         TryProcess(its, q), UNCHANGED <<terminal, backend, cancelling>>
  PROVE  IInv'
<1>1. /\ conn' = conn /\ connections' = connections /\ progress' = progress
      /\ completed' = completed /\ flagged' = flagged /\ cancelling' = cancelling
  BY DEF terminal, backend
<1>2. OtherTypes /\ PanelIsRight
  BY DEF IInv
<1>3. CASE processing
  <2>1. items' = its /\ queue' = q /\ processing' = processing /\ calls' = calls /\ on' = on
    BY <1>3 DEF TryProcess, invokes
  <2>2. OtherTypes'
    BY <1>1, <1>2, <2>1 DEF OtherTypes
  <2>3. Held(items, queue, drawn, calls)'
    BY <1>1, <2>1 DEF Held, QueueTypes, IdsMatch, CallsAreRight, EventsAreRight,
       OnlyFailuresAreRetried, UnderWayIn, ItemsAreRight
  <2>4. PanelIsRight'
    BY <1>2, <1>3, <2>1 DEF PanelIsRight, NoneWaitsInVain, UnderWayIn
  <2>. QED  BY <2>2, <2>3, <2>4 DEF IInv
<1>4. CASE ~processing
  <2>1. UnderWayIn(calls) = {}
    BY <1>2, <1>4 DEF PanelIsRight
  <2>2. ProcessQueue(its, q, calls)
    BY <1>4 DEF TryProcess
  <2>. QED  BY <1>2, <2>1, <2>2, ProcessKeeps
<1>. QED  BY <1>3, <1>4

\* `finally`, once the transfer under way has its result.
LEMMA FinallyKeeps ==
  ASSUME IInv, NEW n \in UnderWayIn(calls), NEW its, DOMAIN its = DOMAIN items,
         Held(its, queue, drawn, [calls EXCEPT ![n] = "over"]), Finally(its, n),
         UNCHANGED <<terminal, drawn, backend, cancelling>>
  PROVE  IInv'
<1>. DEFINE cs == [calls EXCEPT ![n] = "over"]
            q == Prune(its, queue)
<1>1. OtherTypes /\ PanelIsRight /\ calls \in [Transfers -> CallStates] /\ n \in Transfers
  BY DEF IInv, Held, QueueTypes, UnderWayIn
<1>2. QueueTypes(its, queue, drawn, cs)
  BY DEF Held
<1>3. q \subseteq queue /\ Cardinality(q) <= MaxQueue
  <2>1. queue \subseteq DOMAIN its /\ DOMAIN its \subseteq Items /\ Cardinality(queue) <= MaxQueue
    BY <1>2 DEF QueueTypes
  <2>2. /\ IsFiniteSet(queue) /\ q \subseteq queue /\ Cardinality(q) <= Cardinality(queue)
    BY <2>1, PruneFacts
  <2>3. Cardinality(queue) \in Nat /\ Cardinality(q) \in Nat
    BY <2>2, FS_CardinalityType, FS_Subset
  <2>. QED  BY <2>1, <2>2, <2>3, QueueAssumption
<1>4. Held(its, q, drawn, cs)
  BY <1>2, <1>3 DEF Held, QueueTypes
<1>5. UnderWayIn(cs) = {}
  BY <1>1 DEF UnderWayIn, PanelIsRight, Started
<1>6. ProcessQueue(its, q, cs) /\ drawn' = drawn /\ UNCHANGED <<terminal, backend, cancelling>>
  BY DEF Finally
<1>. HIDE DEF cs, q
<1>. QED  BY <1>1, <1>4, <1>5, <1>6, ProcessKeeps

LEMMA TerminalKeeps ==
  ASSUME IInv, Connect \/ Disconnect
  PROVE  IInv'
<1>1. /\ items' = items /\ queue' = queue /\ processing' = processing /\ drawn' = drawn
      /\ calls' = calls /\ on' = on /\ progress' = progress /\ completed' = completed
      /\ cancelling' = cancelling
  BY DEF Connect, Disconnect, panel, invokes, backend
<1>2. OtherTypes /\ Held(items, queue, drawn, calls) /\ PanelIsRight
  BY DEF IInv
<1>3. Held(items, queue, drawn, calls)' /\ PanelIsRight'
  BY <1>1, <1>2 DEF Held, QueueTypes, IdsMatch, CallsAreRight, EventsAreRight,
     OnlyFailuresAreRetried, UnderWayIn, ItemsAreRight, PanelIsRight, NoneWaitsInVain
<1>4. flagged' \subseteq DOMAIN drawn
  <2>1. CASE flagged' = flagged
    BY <2>1, <1>2 DEF OtherTypes
  <2>2. CASE flagged' = flagged \cup {n \in Transfers : on[n] = conn /\ calls[n] = "running"}
    BY <2>2, <1>2 DEF OtherTypes, Held, IdsMatch
  <2>. QED  BY <2>1, <2>2 DEF Connect, Disconnect, backend
<1>5. conn' \in {None, connections'} /\ connections' \in 0 .. MaxConnections
  BY <1>2, QueueAssumption DEF OtherTypes, Connect, Disconnect
<1>6. OtherTypes'
  BY <1>1, <1>2, <1>4, <1>5 DEF OtherTypes
<1>. QED  BY <1>3, <1>6 DEF IInv

LEMMA RemoveKeeps ==
  ASSUME IInv, NEW i, Remove(i)
  PROVE  IInv'
<1>1. /\ items' = items /\ queue' = queue \ {i} /\ processing' = processing /\ drawn' = drawn
      /\ calls' = calls /\ on' = on /\ progress' = progress /\ completed' = completed
      /\ cancelling' = cancelling /\ flagged' = flagged /\ conn' = conn
      /\ connections' = connections
  BY DEF Remove, terminal, invokes, backend
<1>2. OtherTypes /\ Held(items, queue, drawn, calls) /\ PanelIsRight
  BY DEF IInv
<1>3. Cardinality(queue') <= MaxQueue
  <2>1. queue \subseteq DOMAIN items /\ DOMAIN items \subseteq Items /\ Cardinality(queue) <= MaxQueue
    BY <1>2 DEF Held, QueueTypes
  <2>2. IsFiniteSet(queue)
    BY <2>1, PruneFacts
  <2>3. Cardinality(queue \ {i}) <= Cardinality(queue) /\ Cardinality(queue \ {i}) \in Nat
        /\ Cardinality(queue) \in Nat
    BY <2>2, FS_CardinalityType, FS_Subset
  <2>. QED  BY <1>1, <2>1, <2>3, QueueAssumption
<1>4. OtherTypes'
  BY <1>1, <1>2 DEF OtherTypes
<1>5. Held(items, queue, drawn, calls)' /\ PanelIsRight'
  BY <1>1, <1>2, <1>3 DEF Held, QueueTypes, IdsMatch, CallsAreRight, EventsAreRight,
     OnlyFailuresAreRetried, UnderWayIn, ItemsAreRight, PanelIsRight, NoneWaitsInVain
<1>. QED  BY <1>4, <1>5 DEF IInv

LEMMA CancelKeeps ==
  ASSUME IInv, NEW i \in queue, Cancel(i)
  PROVE  IInv'
<1>1. /\ queue' = queue /\ processing' = processing /\ drawn' = drawn
      /\ calls' = calls /\ on' = on /\ progress' = progress /\ completed' = completed
      /\ flagged' = flagged /\ conn' = conn /\ connections' = connections
      /\ cancelling' = cancelling \cup {items[i].id}
      /\ items' = [items EXCEPT ![i].cancel = TRUE]
  BY DEF Cancel, terminal, invokes, backend
<1>2. OtherTypes /\ Held(items, queue, drawn, calls) /\ PanelIsRight
  BY DEF IInv
<1>3. i \in DOMAIN items /\ items[i] \in Item /\ items \in Seq(Item)
  BY <1>2, LenProperties, ElementOfSeq DEF Held, QueueTypes
<1>4. PICK x : x = [items[i] EXCEPT !.cancel = TRUE]
  OBVIOUS
<1>5. x \in Item /\ x.id = items[i].id /\ x.conn = items[i].conn /\ x.status = items[i].status
  BY <1>3, <1>4 DEF Item
<1>6. /\ items' \in Seq(Item) /\ DOMAIN items' = DOMAIN items
      /\ \A j \in DOMAIN items : items'[j] = IF j = i THEN x ELSE items[j]
  BY <1>1, <1>3, <1>4, <1>5, ItemChanged
<1>7. \A j \in DOMAIN items : /\ items'[j].id = items[j].id /\ items'[j].conn = items[j].conn
                              /\ items'[j].status = items[j].status
  BY <1>5, <1>6
<1>8. OtherTypes'
  BY <1>1, <1>2, <1>3 DEF OtherTypes, Held, IdsMatch
<1>9. QueueTypes(items, queue, drawn, calls)' /\ IdsMatch(items, drawn, calls)'
  BY <1>1, <1>2, <1>6, <1>7 DEF Held, QueueTypes, IdsMatch
<1>10. CallsAreRight(calls)' /\ EventsAreRight(calls)'
  BY <1>1, <1>2 DEF Held, CallsAreRight, EventsAreRight
<1>11. OnlyFailuresAreRetried(items, drawn, calls)' /\ ItemsAreRight(items, calls)'
  <2>1. \A n \in UnderWayIn(calls) : drawn[n].item \in DOMAIN items
    BY <1>2 DEF Held, IdsMatch, UnderWayIn, Started
  <2>. QED  BY <1>1, <1>2, <1>6, <1>7, <2>1
       DEF Held, OnlyFailuresAreRetried, UnderWayIn, ItemsAreRight
<1>12. PanelIsRight'
  <2>1. queue \subseteq DOMAIN items
    BY <1>2 DEF Held, QueueTypes
  <2>. QED  BY <1>1, <1>2, <1>7, <2>1 DEF PanelIsRight, NoneWaitsInVain, UnderWayIn
<1>. QED  BY <1>8, <1>9, <1>10, <1>11, <1>12 DEF IInv, Held
----
\* Drawing a new id for an item, at the end of the ids drawn so far.
LEMMA DrawKeeps ==
  ASSUME IInv, NEW i \in Items, conn # None, NEW n, n = Len(drawn) + 1, n \in Transfers
  PROVE  LET dr == Append(drawn, [item |-> i, conn |-> conn]) IN
         /\ dr \in Seq(Drawn) /\ DOMAIN dr = DOMAIN drawn \cup {n}
         /\ n \notin DOMAIN drawn
         /\ \A m \in DOMAIN drawn : dr[m] = drawn[m]
         /\ dr[n].item = i /\ dr[n].conn = conn
         /\ calls[n] = "none" /\ on[n] = None
         /\ Queued(n) \in Item /\ Queued(n).id = n /\ Queued(n).conn = conn
         /\ Queued(n).status = "queued"
<1>1. conn \in Connections
  BY QueueAssumption DEF IInv, OtherTypes, Connections, None
<1>2. drawn \in Seq(Drawn) /\ IdsMatch(items, drawn, calls)
  BY DEF IInv, Held, QueueTypes
<1>3. PICK d : d = [item |-> i, conn |-> conn]
  OBVIOUS
<1>4. d \in Drawn /\ d.item = i /\ d.conn = conn
  BY <1>1, <1>3 DEF Drawn
<1>5. /\ Append(drawn, d) \in Seq(Drawn) /\ DOMAIN Append(drawn, d) = DOMAIN drawn \cup {n}
      /\ n \notin DOMAIN drawn /\ \A m \in DOMAIN drawn : Append(drawn, d)[m] = drawn[m]
      /\ Append(drawn, d)[n] = d
  BY <1>2, <1>4, AppendKeeps
<1>6. calls[n] = "none" /\ on[n] = None
  BY <1>2, <1>5 DEF IdsMatch
<1>7. Queued(n) \in Item /\ Queued(n).id = n /\ Queued(n).conn = conn
      /\ Queued(n).status = "queued"
  BY <1>1 DEF Queued, Item, Statuses
<1>. QED  BY <1>3, <1>4, <1>5, <1>6, <1>7

LEMMA EnqueueKeeps ==
  ASSUME IInv, Enqueue
  PROVE  IInv'
<1>. PICK n, i, q, its, dr : /\ n = Len(drawn) + 1 /\ i = Len(items) + 1
                             /\ q = Prune(items, queue)
                             /\ its = Append(items, Queued(n))
                             /\ dr = Append(drawn, [item |-> i, conn |-> conn])
  OBVIOUS
<1>1. /\ conn # None /\ i \in Items /\ n \in Transfers /\ Cardinality(q) < MaxQueue
      /\ drawn' = dr /\ TryProcess(its, q \cup {i})
      /\ UNCHANGED <<terminal, backend, cancelling>>
  BY DEF Enqueue
<1>2. /\ items \in Seq(Item) /\ DOMAIN items \subseteq Items /\ queue \subseteq DOMAIN items
      /\ calls \in [Transfers -> CallStates] /\ DOMAIN drawn \subseteq Transfers
      /\ IdsMatch(items, drawn, calls) /\ CallsAreRight(calls) /\ EventsAreRight(calls)
      /\ OnlyFailuresAreRetried(items, drawn, calls) /\ ItemsAreRight(items, calls)
  BY DEF IInv, Held, QueueTypes
<1>3. /\ dr \in Seq(Drawn) /\ DOMAIN dr = DOMAIN drawn \cup {n} /\ n \notin DOMAIN drawn
      /\ \A m \in DOMAIN drawn : dr[m] = drawn[m]
      /\ dr[n].item = i /\ dr[n].conn = conn /\ calls[n] = "none" /\ on[n] = None
      /\ Queued(n) \in Item /\ Queued(n).id = n /\ Queued(n).conn = conn
      /\ Queued(n).status = "queued"
  BY <1>1, DrawKeeps
<1>4. /\ its \in Seq(Item) /\ DOMAIN its = DOMAIN items \cup {i} /\ i \notin DOMAIN items
      /\ \A j \in DOMAIN items : its[j] = items[j]
      /\ its[i] = Queued(n)
  BY <1>2, <1>3, AppendKeeps
<1>5. q \cup {i} \subseteq DOMAIN its /\ Cardinality(q \cup {i}) <= MaxQueue
  <2>1. IsFiniteSet(queue) /\ q \subseteq queue
    BY <1>2, PruneFacts
  <2>2. IsFiniteSet(q) /\ Cardinality(q) \in Nat
    BY <2>1, FS_Subset, FS_CardinalityType
  <2>3. Cardinality(q \cup {i}) = Cardinality(q) + 1
    BY <2>1, <2>2, <1>2, <1>4, FS_AddElement
  <2>. QED  BY <1>1, <1>2, <1>4, <2>1, <2>2, <2>3, QueueAssumption
<1>6. QueueTypes(its, q \cup {i}, dr, calls)
  BY <1>1, <1>2, <1>3, <1>4, <1>5 DEF QueueTypes
<1>7. IdsMatch(its, dr, calls)
  <2>1. \A m \in DOMAIN dr : dr[m].item \in DOMAIN its
    BY <1>2, <1>3, <1>4 DEF IdsMatch
  <2>2. ASSUME NEW j \in DOMAIN its
        PROVE  /\ its[j].id \in DOMAIN dr
               /\ dr[its[j].id].item = j
               /\ dr[its[j].id].conn = its[j].conn
    <3>1. CASE j \in DOMAIN items
      <4>1. /\ its[j] = items[j] /\ items[j].id \in DOMAIN drawn
            /\ drawn[items[j].id].item = j
            /\ drawn[items[j].id].conn = items[j].conn
        BY <3>1, <1>2, <1>4 DEF IdsMatch
      <4>. QED  BY <4>1, <1>3
    <3>2. CASE j = i
      BY <3>2, <1>3, <1>4
    <3>. QED  BY <3>1, <3>2, <1>4
  <2>3. /\ \A m \in Transfers \ DOMAIN dr : calls[m] = "none" /\ on[m] = None
        /\ \A m \in DOMAIN dr : on[m] \in {None, dr[m].conn}
    BY <1>2, <1>3 DEF IdsMatch
  <2>. QED  BY <2>1, <2>2, <2>3, <1>4 DEF IdsMatch
<1>8. OnlyFailuresAreRetried(its, dr, calls)
  <2>1. \A m \in UnderWayIn(calls) : m \in DOMAIN drawn /\ drawn[m].item \in DOMAIN items
    BY <1>2 DEF UnderWayIn, Started, IdsMatch
  <2>. QED  BY <2>1, <1>2, <1>3, <1>4 DEF OnlyFailuresAreRetried
<1>9. ItemsAreRight(its, calls)
  BY <1>2, <1>3, <1>4 DEF ItemsAreRight
<1>10. Held(its, q \cup {i}, dr, calls)
  BY <1>2, <1>6, <1>7, <1>8, <1>9 DEF Held
<1>. QED  BY <1>1, <1>3, <1>10, TryKeeps

\* A retry leaves the item where it is, with a new id.
LEMMA RetryKeeps ==
  ASSUME IInv, NEW i \in queue, Retry(i)
  PROVE  IInv'
<1>. PICK n, its, dr : /\ n = Len(drawn) + 1
                       /\ its = [items EXCEPT ![i] = Queued(n)]
                       /\ dr = Append(drawn, [item |-> i, conn |-> conn])
  OBVIOUS
<1>1. /\ conn # None /\ n \in Transfers /\ items[i].status \in Unsuccessful
      /\ drawn' = dr /\ TryProcess(its, queue)
      /\ UNCHANGED <<terminal, backend, cancelling>>
  BY DEF Retry, Unsuccessful
<1>2. /\ items \in Seq(Item) /\ DOMAIN items \subseteq Items /\ queue \subseteq DOMAIN items
      /\ Cardinality(queue) <= MaxQueue
      /\ calls \in [Transfers -> CallStates] /\ DOMAIN drawn \subseteq Transfers
      /\ IdsMatch(items, drawn, calls) /\ CallsAreRight(calls) /\ EventsAreRight(calls)
      /\ OnlyFailuresAreRetried(items, drawn, calls) /\ ItemsAreRight(items, calls)
      /\ i \in DOMAIN items /\ i \in Items
  BY DEF IInv, Held, QueueTypes
<1>3. /\ dr \in Seq(Drawn) /\ DOMAIN dr = DOMAIN drawn \cup {n} /\ n \notin DOMAIN drawn
      /\ \A m \in DOMAIN drawn : dr[m] = drawn[m]
      /\ dr[n].item = i /\ dr[n].conn = conn /\ calls[n] = "none" /\ on[n] = None
      /\ Queued(n) \in Item /\ Queued(n).id = n /\ Queued(n).conn = conn
      /\ Queued(n).status = "queued"
  BY <1>1, <1>2, DrawKeeps
<1>4. /\ its \in Seq(Item) /\ DOMAIN its = DOMAIN items
      /\ \A j \in DOMAIN items : its[j] = IF j = i THEN Queued(n) ELSE items[j]
  BY <1>2, <1>3, ItemChanged
<1>5. QueueTypes(its, queue, dr, calls)
  BY <1>1, <1>2, <1>3, <1>4 DEF QueueTypes
<1>6. IdsMatch(its, dr, calls)
  <2>1. \A m \in DOMAIN dr : dr[m].item \in DOMAIN its /\ on[m] \in {None, dr[m].conn}
    <3>1. ASSUME NEW m \in DOMAIN drawn
          PROVE  dr[m].item \in DOMAIN its /\ on[m] \in {None, dr[m].conn}
      BY <1>2, <1>3, <1>4 DEF IdsMatch
    <3>2. dr[n].item \in DOMAIN its /\ on[n] \in {None, dr[n].conn}
      BY <1>2, <1>3, <1>4
    <3>. QED  BY <3>1, <3>2, <1>3
  <2>2. \A m \in Transfers \ DOMAIN dr : calls[m] = "none" /\ on[m] = None
    BY <1>2, <1>3 DEF IdsMatch
  <2>3. ASSUME NEW j \in DOMAIN its
        PROVE  /\ its[j].id \in DOMAIN dr /\ dr[its[j].id].item = j
               /\ dr[its[j].id].conn = its[j].conn
    <3>1. CASE j = i
      BY <3>1, <1>3, <1>4
    <3>2. CASE j # i
      BY <3>2, <1>2, <1>3, <1>4 DEF IdsMatch
    <3>. QED  BY <3>1, <3>2
  <2>. QED  BY <2>1, <2>2, <2>3 DEF IdsMatch
<1>7. OnlyFailuresAreRetried(its, dr, calls)
  <2>1. \A m \in UnderWayIn(calls) : m \in DOMAIN drawn /\ drawn[m].item \in DOMAIN items
    BY <1>2 DEF UnderWayIn, Started, IdsMatch
  <2>. QED  BY <2>1, <1>1, <1>2, <1>3, <1>4 DEF OnlyFailuresAreRetried
<1>8. ItemsAreRight(its, calls)
  BY <1>2, <1>3, <1>4 DEF ItemsAreRight
<1>9. Held(its, queue, dr, calls)
  BY <1>2, <1>5, <1>6, <1>7, <1>8 DEF Held
<1>. QED  BY <1>1, <1>3, <1>9, TryKeeps
----
\* Events sent after others: the last of them is the last.
LEMMA EmitFacts ==
  ASSUME progress \in [Transfers -> Seq(Events)], NEW n \in Transfers,
         NEW kinds \in Seq(Events), kinds # <<>>, Emit(n, kinds)
  PROVE  /\ progress' \in [Transfers -> Seq(Events)]
         /\ \A m \in Transfers \ {n} : progress'[m] = progress[m]
         /\ progress'[n] # <<>>
         /\ \A k \in DOMAIN progress'[n] :
              \/ /\ k \in DOMAIN progress[n] /\ k # Len(progress'[n])
                 /\ progress'[n][k] = progress[n][k]
              \/ \E j \in DOMAIN kinds :
                   /\ progress'[n][k] = kinds[j]
                   /\ k = Len(progress'[n]) => j = Len(kinds)
<1>. PICK s, t : s = progress[n] /\ t = s \o kinds
  OBVIOUS
<1>1. s \in Seq(Events) /\ progress' = [progress EXCEPT ![n] = t]
  BY DEF Emit
<1>2. /\ t \in Seq(Events) /\ Len(t) = Len(s) + Len(kinds)
      /\ \A k \in 1 .. Len(s) + Len(kinds) : t[k] = IF k <= Len(s) THEN s[k] ELSE kinds[k - Len(s)]
  BY <1>1, ConcatProperties
<1>3. /\ DOMAIN s = 1 .. Len(s) /\ DOMAIN t = 1 .. Len(t) /\ DOMAIN kinds = 1 .. Len(kinds)
      /\ Len(s) \in Nat /\ Len(kinds) \in Nat \ {0}
  BY <1>1, <1>2, LenProperties, EmptySeq
<1>4. t # <<>>
  BY <1>2, <1>3, EmptySeq
<1>5. ASSUME NEW k \in DOMAIN t
      PROVE  \/ k \in DOMAIN s /\ k # Len(t) /\ t[k] = s[k]
             \/ \E j \in DOMAIN kinds : t[k] = kinds[j] /\ (k = Len(t) => j = Len(kinds))
  <2>1. CASE k <= Len(s)
    BY <2>1, <1>2, <1>3
  <2>2. CASE ~(k <= Len(s))
    <3>1. k - Len(s) \in DOMAIN kinds /\ t[k] = kinds[k - Len(s)]
      BY <2>2, <1>2, <1>3
    <3>2. k = Len(t) => k - Len(s) = Len(kinds)
      BY <1>2, <1>3
    <3>. QED  BY <3>1, <3>2
  <2>. QED  BY <2>1, <2>2
<1>6. progress'[n] = t /\ \A m \in Transfers \ {n} : progress'[m] = progress[m]
  BY <1>1
<1>7. progress' \in [Transfers -> Seq(Events)]
  BY <1>1, <1>2
<1>. QED  BY <1>4, <1>5, <1>6, <1>7

\* A step of the backend's side of one transfer under way, which stays under way.
LEMMA CallToKeeps ==
  ASSUME IInv, NEW n \in Transfers, NEW from \in Started, NEW to \in Started,
         CallTo(n, from, to), to # "listing"
  PROVE  /\ conn' = conn /\ connections' = connections /\ processing' = processing
         /\ on' = on /\ cancelling' = cancelling /\ drawn' = drawn /\ items' = items
         /\ \A m \in Transfers : calls'[m] = IF m = n THEN to ELSE calls[m]
         /\ n \in DOMAIN drawn /\ calls[n] = from
         /\ UnderWayIn(calls') = UnderWayIn(calls) /\ n \in UnderWayIn(calls)
         /\ QueueTypes(items, queue, drawn, calls)'
         /\ IdsMatch(items, drawn, calls)'
         /\ PanelIsRight'
<1>1. /\ conn' = conn /\ connections' = connections /\ processing' = processing
      /\ on' = on /\ cancelling' = cancelling /\ drawn' = drawn /\ items' = items
      /\ queue' = queue /\ calls[n] = from /\ calls' = [calls EXCEPT ![n] = to]
  BY DEF CallTo, terminal, panel
<1>2. QueueTypes(items, queue, drawn, calls) /\ IdsMatch(items, drawn, calls) /\ PanelIsRight
  BY DEF IInv, Held
<1>3. /\ \A m \in Transfers : calls'[m] = IF m = n THEN to ELSE calls[m]
      /\ calls' \in [Transfers -> CallStates]
  BY <1>1, <1>2 DEF QueueTypes, Started
<1>4. UnderWayIn(calls') = UnderWayIn(calls) /\ n \in UnderWayIn(calls)
  BY <1>1, <1>3 DEF UnderWayIn
<1>5. n \in DOMAIN drawn
  BY <1>1, <1>2 DEF IdsMatch, Started
<1>6. IdsMatch(items, drawn, calls)'
  BY <1>1, <1>2, <1>3, <1>5 DEF IdsMatch
<1>7. QueueTypes(items, queue, drawn, calls)'
  BY <1>1, <1>2, <1>3 DEF QueueTypes
<1>8. PanelIsRight'
  BY <1>1, <1>2, <1>4 DEF PanelIsRight, NoneWaitsInVain
<1>. QED  BY <1>1, <1>3, <1>4, <1>5, <1>6, <1>7, <1>8

\* Every step of the backend on behalf of a transfer: what it says of the
\* transfer's completion is right.
LEMMA RunKeeps ==
  ASSUME IInv, NEW n \in Transfers, Run(n)
  PROVE  IInv'
<1>. USE DEF Started, CallStates
<1>1. /\ OtherTypes /\ CallsAreRight(calls) /\ EventsAreRight(calls)
      /\ OnlyFailuresAreRetried(items, drawn, calls) /\ ItemsAreRight(items, calls)
      /\ IdsMatch(items, drawn, calls) /\ progress \in [Transfers -> Seq(Events)]
  BY DEF IInv, Held, OtherTypes
<1>2. ASSUME NEW from \in Started, NEW to \in Started, CallTo(n, from, to), to # "listing",
             completed' \subseteq completed \cup {n}, completed \subseteq completed',
             flagged' \subseteq flagged,
             progress' \in [Transfers -> Seq(Events)],
             \A m \in Transfers \ {n} : progress'[m] = progress[m],
             CallsAreRight(calls)', EventsAreRight(calls)',
             from \in {"settled", "rejected"} /\ n \notin completed => to \in {"settled", "rejected"},
             n \in completed' => n \in completed \/ from = "running"
      PROVE  IInv'
  <2>1. /\ conn' = conn /\ connections' = connections /\ processing' = processing
        /\ on' = on /\ cancelling' = cancelling /\ drawn' = drawn /\ items' = items
        /\ \A m \in Transfers : calls'[m] = IF m = n THEN to ELSE calls[m]
        /\ n \in DOMAIN drawn /\ calls[n] = from
        /\ UnderWayIn(calls') = UnderWayIn(calls) /\ n \in UnderWayIn(calls)
        /\ QueueTypes(items, queue, drawn, calls)' /\ IdsMatch(items, drawn, calls)'
        /\ PanelIsRight'
    BY <1>2, CallToKeeps
  <2>2. OtherTypes'
    BY <1>1, <1>2, <2>1 DEF OtherTypes
  <2>3. OnlyFailuresAreRetried(items, drawn, calls)'
    <3>1. \A m \in UnderWayIn(calls) : m \in Transfers
      BY DEF UnderWayIn
    <3>. QED  BY <3>1, <1>1, <1>2, <2>1 DEF OnlyFailuresAreRetried
  <2>4. ItemsAreRight(items, calls)'
    <3>1. \A i \in DOMAIN items : items[i].id \in Transfers
      BY <1>1, <2>1 DEF IdsMatch, IInv, Held, QueueTypes
    <3>. QED  BY <3>1, <1>1, <1>2, <2>1 DEF ItemsAreRight
  <2>. QED  BY <1>2, <2>1, <2>2, <2>3, <2>4 DEF IInv, Held
<1>3. CASE Register(n)
  <2>. PICK kinds : kinds = <<"running">>
    OBVIOUS
  <2>1. kinds \in Seq(Events) /\ kinds # <<>> /\ \A j \in DOMAIN kinds : kinds[j] = "running"
    BY DEF Events
  <2>2. /\ CallTo(n, "sent", "running") /\ Emit(n, kinds) /\ calls[n] = "sent"
        /\ completed' = completed /\ flagged' = flagged
    BY <1>3 DEF Register, CallTo
  <2>3. \A m \in Transfers : calls'[m] = IF m = n THEN "running" ELSE calls[m]
    BY <2>2, CallToKeeps
  <2>4. /\ progress' \in [Transfers -> Seq(Events)]
        /\ \A m \in Transfers \ {n} : progress'[m] = progress[m]
        /\ \A k \in DOMAIN progress'[n] :
             k \in DOMAIN progress[n] \/ progress'[n][k] = "running"
    <3>1. Emit(n, kinds)
      BY <2>2
    <3>2. /\ progress' \in [Transfers -> Seq(Events)]
          /\ \A m \in Transfers \ {n} : progress'[m] = progress[m]
          /\ \A k \in DOMAIN progress'[n] :
               \/ k \in DOMAIN progress[n]
               \/ \E j \in DOMAIN kinds : progress'[n][k] = kinds[j]
      BY ONLY <3>1, <2>1, <1>1, n \in Transfers, EmitFacts
    <3>. QED  BY <3>2, <2>1
  <2>5. progress[n] = <<>> /\ n \notin completed
    BY <1>1, <2>2 DEF CallsAreRight
  <2>6. CallsAreRight(calls)'
    BY <1>1, <2>2, <2>3, <2>4, <2>5 DEF CallsAreRight
  <2>7. EventsAreRight(calls)'
    <3>1. \A k \in DOMAIN progress'[n] : progress'[n][k] = "running"
      BY <2>4, <2>5
    <3>. QED  BY <3>1, <1>1, <2>2, <2>3, <2>4 DEF EventsAreRight, Unsuccessful
  <2>. QED  BY <1>2, <2>2, <2>4, <2>5, <2>6, <2>7
<1>4. CASE Refuse(n)
  <2>1. /\ CallTo(n, "sent", "rejected") /\ calls[n] = "sent"
        /\ completed' = completed /\ flagged' = flagged /\ progress' = progress
    BY <1>4 DEF Refuse, CallTo, backend
  <2>2. \A m \in Transfers : calls'[m] = IF m = n THEN "rejected" ELSE calls[m]
    BY <2>1, CallToKeeps
  <2>3. progress[n] = <<>> /\ n \notin completed /\ DOMAIN progress[n] = {}
    BY <1>1, <2>1 DEF CallsAreRight
  <2>4. CallsAreRight(calls)'
    BY <1>1, <2>1, <2>2, <2>3 DEF CallsAreRight
  <2>5. EventsAreRight(calls)'
    BY <1>1, <2>1, <2>2, <2>3 DEF EventsAreRight
  <2>. QED  BY <1>1, <1>2, <2>1, <2>3, <2>4, <2>5
<1>5. ASSUME NEW kinds \in Seq(Events), kinds # <<>>,
             CallTo(n, "running", "settled"), Emit(n, kinds), flagged' = flagged,
             completed' \in {completed, completed \cup {n}},
             \A j \in DOMAIN kinds : /\ kinds[j] # "running"
                                     /\ kinds[j] = "completed" => n \in completed'
                                     /\ kinds[j] \in Unsuccessful => n \notin completed'
                                     /\ j = Len(kinds) => kinds[j] # "conflict"
      PROVE  IInv'
  <2>1. calls[n] = "running" /\ n \notin completed
    BY <1>1, <1>5 DEF CallTo, CallsAreRight
  <2>2. \A m \in Transfers : calls'[m] = IF m = n THEN "settled" ELSE calls[m]
    BY <1>5, CallToKeeps
  <2>3. /\ progress' \in [Transfers -> Seq(Events)]
        /\ \A m \in Transfers \ {n} : progress'[m] = progress[m]
        /\ progress'[n] # <<>>
        /\ \A k \in DOMAIN progress'[n] :
              \/ /\ k \in DOMAIN progress[n] /\ k # Len(progress'[n])
                 /\ progress'[n][k] = progress[n][k]
              \/ \E j \in DOMAIN kinds :
                   /\ progress'[n][k] = kinds[j]
                   /\ k = Len(progress'[n]) => j = Len(kinds)
    BY <1>1, <1>5, EmitFacts
  <2>4. CallsAreRight(calls)'
    BY <1>1, <1>5, <2>2, <2>3 DEF CallsAreRight
  <2>5. \A k \in DOMAIN progress[n] :
          progress[n][k] # "completed" /\ progress[n][k] \notin Unsuccessful
    BY <1>1, <2>1 DEF EventsAreRight
  <2>6. ASSUME NEW k \in DOMAIN progress'[n]
        PROVE  /\ progress'[n][k] = "completed" => n \in completed'
               /\ progress'[n][k] \in Unsuccessful => n \notin completed'
               /\ k = Len(progress'[n]) => progress'[n][k] \notin {"running", "conflict"}
    BY <1>5, <2>3, <2>5
  <2>7. EventsAreRight(calls)'
    <3>1. ASSUME NEW m \in Transfers \ {n}, NEW k \in DOMAIN progress'[m]
          PROVE  /\ progress'[m][k] = "completed" => m \in completed'
                 /\ progress'[m][k] \in Unsuccessful =>
                      m \notin completed' /\ calls'[m] \in {"settled", "rejected", "over"}
                 /\ k = Len(progress'[m]) /\ progress'[m][k] \in {"running", "conflict"} =>
                      calls'[m] = "running"
      BY <1>1, <1>5, <2>2, <2>3 DEF EventsAreRight
    <3>. QED  BY <3>1, <2>2, <2>6 DEF EventsAreRight
  <2>. QED  BY <1>2, <1>5, <2>1, <2>3, <2>4, <2>7
<1>6. CASE Complete(n)
  <2>1. <<"completed">> \in Seq(Events) /\ <<"completed">> # <<>>
        /\ \A j \in DOMAIN <<"completed">> : <<"completed">>[j] = "completed"
    BY DEF Events
  <2>. QED  BY <2>1, <1>5, <1>6 DEF Complete, Unsuccessful
<1>7. ASSUME NEW conflict \in BOOLEAN, Failed(n, conflict)
      PROVE  IInv'
  <2>. PICK how : how = IF n \in flagged THEN "cancelled" ELSE "failed"
    OBVIOUS
  <2>. PICK kinds : kinds = IF conflict THEN <<"conflict", how>> ELSE <<how>>
    OBVIOUS
  <2>1. how \in Unsuccessful
    BY DEF Unsuccessful
  <2>2. /\ kinds \in Seq(Events) /\ kinds # <<>>
        /\ \A j \in DOMAIN kinds :
             \/ kinds[j] \in Unsuccessful
             \/ kinds[j] = "conflict" /\ j # Len(kinds)
    <3>1. CASE conflict
      BY <3>1, <2>1 DEF Events, Unsuccessful
    <3>2. CASE ~conflict
      BY <3>2, <2>1 DEF Events, Unsuccessful
    <3>. QED  BY <3>1, <3>2
  <2>3. /\ CallTo(n, "running", "settled") /\ Emit(n, kinds) /\ flagged' = flagged
        /\ completed' = completed /\ n \notin completed
    BY <1>1, <1>7 DEF Failed, CallTo, CallsAreRight
  <2>. QED  BY <1>5, <2>2, <2>3 DEF Unsuccessful
<1>8. CASE Reply(n)
  <2>. PICK to : to = IF n \in completed THEN "resolved" ELSE "rejected"
    OBVIOUS
  <2>1. /\ CallTo(n, "settled", to) /\ calls[n] = "settled" /\ progress' = progress
        /\ completed' = completed /\ flagged' \subseteq flagged /\ to \in {"resolved", "rejected"}
    BY <1>8 DEF Reply, CallTo
  <2>2. \A m \in Transfers : calls'[m] = IF m = n THEN to ELSE calls[m]
    BY <2>1, CallToKeeps
  <2>3. CallsAreRight(calls)'
    BY <1>1, <2>1, <2>2 DEF CallsAreRight
  <2>4. EventsAreRight(calls)'
    <3>1. \A k \in DOMAIN progress[n] :
            /\ progress[n][k] = "completed" => n \in completed
            /\ progress[n][k] \in Unsuccessful => n \notin completed
            /\ k = Len(progress[n]) => progress[n][k] \notin {"running", "conflict"}
      BY <1>1, <2>1 DEF EventsAreRight
    <3>2. ASSUME NEW m \in Transfers \ {n}, NEW k \in DOMAIN progress'[m]
          PROVE  /\ progress'[m][k] = "completed" => m \in completed'
                 /\ progress'[m][k] \in Unsuccessful =>
                      m \notin completed' /\ calls'[m] \in {"settled", "rejected", "over"}
                 /\ k = Len(progress'[m]) /\ progress'[m][k] \in {"running", "conflict"} =>
                      calls'[m] = "running"
      BY <1>1, <2>1, <2>2 DEF EventsAreRight
    <3>. QED  BY <3>1, <3>2, <2>1, <2>2 DEF EventsAreRight
  <2>. QED  BY <1>1, <1>2, <2>1, <2>3, <2>4
<1>. QED  BY <1>3, <1>4, <1>6, <1>7, <1>8 DEF Run

LEMMA CancelArrivesKeeps ==
  ASSUME IInv, NEW n \in Transfers, CancelArrives(n)
  PROVE  IInv'
<1>1. /\ items' = items /\ queue' = queue /\ processing' = processing /\ drawn' = drawn
      /\ calls' = calls /\ on' = on /\ progress' = progress /\ completed' = completed
      /\ conn' = conn /\ connections' = connections
      /\ n \in cancelling /\ cancelling' \subseteq cancelling
      /\ flagged' \subseteq flagged \cup {n}
  BY DEF CancelArrives, terminal, panel, invokes
<1>2. OtherTypes /\ Held(items, queue, drawn, calls) /\ PanelIsRight
  BY DEF IInv
<1>3. OtherTypes'
  BY <1>1, <1>2 DEF OtherTypes
<1>4. Held(items, queue, drawn, calls)' /\ PanelIsRight'
  BY <1>1, <1>2 DEF Held, QueueTypes, IdsMatch, CallsAreRight, EventsAreRight,
     OnlyFailuresAreRetried, UnderWayIn, ItemsAreRight, PanelIsRight, NoneWaitsInVain
<1>. QED  BY <1>3, <1>4 DEF IInv
----
\* What is heard of a transfer that was drawn is about an item of the panel.
LEMMA HeardItem ==
  ASSUME IInv, NEW n \in DOMAIN drawn
  PROVE  /\ n \in Transfers /\ drawn[n].item \in DOMAIN items
         /\ \A i \in DOMAIN items : /\ items[i] \in Item /\ items[i].id \in Transfers
                                    /\ items[i].id = n => i = drawn[n].item
         /\ \A m \in UnderWayIn(calls) : /\ m \in DOMAIN drawn
                                         /\ drawn[m].item \in DOMAIN items
<1>1. QueueTypes(items, queue, drawn, calls) /\ IdsMatch(items, drawn, calls)
  BY DEF IInv, Held
<1>2. \A i \in DOMAIN items : items[i] \in Item
  BY <1>1, LenProperties, ElementOfSeq DEF QueueTypes
<1>. QED  BY <1>1, <1>2 DEF QueueTypes, IdsMatch, UnderWayIn, Started

\* The rest of a sequence of events.
LEMMA TailFacts ==
  ASSUME NEW s \in Seq(Events), s # <<>>
  PROVE  /\ Head(s) \in Events /\ Tail(s) \in Seq(Events)
         /\ 1 \in DOMAIN s /\ s[1] = Head(s)
         /\ \A k \in DOMAIN Tail(s) : /\ k + 1 \in DOMAIN s /\ Tail(s)[k] = s[k + 1]
                                      /\ k = Len(Tail(s)) => k + 1 = Len(s)
         /\ Tail(s) = <<>> => Len(s) = 1
<1>1. /\ Head(s) \in Events /\ Tail(s) \in Seq(Events) /\ Len(Tail(s)) = Len(s) - 1
      /\ \A i \in 1 .. Len(Tail(s)) : Tail(s)[i] = s[i + 1]
  BY HeadTailProperties
<1>2. Len(s) \in Nat \ {0} /\ DOMAIN s = 1 .. Len(s) /\ DOMAIN Tail(s) = 1 .. Len(Tail(s))
  BY <1>1, EmptySeq, LenProperties
<1>3. s[1] = Head(s)
  OBVIOUS
<1>4. Tail(s) = <<>> => Len(Tail(s)) = 0
  BY <1>1, EmptySeq
<1>. QED  BY <1>1, <1>2, <1>3, <1>4

LEMMA HearProgressKeeps ==
  ASSUME IInv, NEW n \in DOMAIN drawn, HearProgress(n)
  PROVE  IInv'
<1>. PICK i, e, s : i = drawn[n].item /\ e = Head(progress[n]) /\ s = progress[n]
  OBVIOUS
<1>1. /\ OtherTypes /\ QueueTypes(items, queue, drawn, calls) /\ IdsMatch(items, drawn, calls)
      /\ CallsAreRight(calls) /\ EventsAreRight(calls)
      /\ OnlyFailuresAreRetried(items, drawn, calls) /\ ItemsAreRight(items, calls)
      /\ PanelIsRight /\ progress \in [Transfers -> Seq(Events)]
  BY DEF IInv, Held, OtherTypes
<1>2. /\ n \in Transfers /\ i \in DOMAIN items
      /\ \A j \in DOMAIN items : /\ items[j] \in Item /\ items[j].id \in Transfers
                                 /\ items[j].id = n => j = i
      /\ \A m \in UnderWayIn(calls) : m \in DOMAIN drawn /\ drawn[m].item \in DOMAIN items
  BY HeardItem
<1>3. /\ s # <<>> /\ progress' = [progress EXCEPT ![n] = Tail(s)]
      /\ items' = IF items[i].id # n THEN items
                  ELSE IF e = "conflict" THEN [items EXCEPT ![i].last = e]
                  ELSE [items EXCEPT ![i].last = e, ![i].status = e]
      /\ conn' = conn /\ connections' = connections /\ queue' = queue
      /\ processing' = processing /\ drawn' = drawn /\ calls' = calls /\ on' = on
      /\ completed' = completed /\ flagged' = flagged /\ cancelling' = cancelling
  BY DEF HearProgress, OfTransfer, terminal, invokes
<1>4. /\ s \in Seq(Events) /\ e \in Events /\ Tail(s) \in Seq(Events)
      /\ 1 \in DOMAIN s /\ s[1] = e
      /\ \A k \in DOMAIN Tail(s) : /\ k + 1 \in DOMAIN s /\ Tail(s)[k] = s[k + 1]
                                   /\ k = Len(Tail(s)) => k + 1 = Len(s)
      /\ Tail(s) = <<>> => Len(s) = 1
  BY <1>1, <1>2, <1>3, TailFacts
<1>5. /\ progress' \in [Transfers -> Seq(Events)] /\ progress'[n] = Tail(s)
      /\ \A m \in Transfers \ {n} : progress'[m] = progress[m]
  BY <1>1, <1>2, <1>3, <1>4
\* What the event says is right.
<1>6. /\ e = "completed" => n \in completed
      /\ e \in Unsuccessful => n \notin completed /\ calls[n] \in {"settled", "rejected", "over"}
      /\ Tail(s) = <<>> /\ e \in {"running", "conflict"} => calls[n] = "running"
  BY <1>1, <1>2, <1>4 DEF EventsAreRight
<1>7. OtherTypes'
  BY <1>1, <1>3, <1>5 DEF OtherTypes
<1>8. CallsAreRight(calls)'
  <2>1. calls[n] \notin {"none", "sent"}
    BY <1>1, <1>2, <1>3 DEF CallsAreRight
  <2>. QED  BY <2>1, <1>1, <1>3, <1>5 DEF CallsAreRight
<1>9. EventsAreRight(calls)'
  <2>1. ASSUME NEW k \in DOMAIN Tail(s)
        PROVE  /\ Tail(s)[k] = "completed" => n \in completed
               /\ Tail(s)[k] \in Unsuccessful =>
                    n \notin completed /\ calls[n] \in {"settled", "rejected", "over"}
               /\ k = Len(Tail(s)) /\ Tail(s)[k] \in {"running", "conflict"} =>
                    calls[n] = "running"
    <3>1. PICK k1 : k1 = k + 1
      OBVIOUS
    <3>2. k1 \in DOMAIN s /\ Tail(s)[k] = s[k1] /\ (k = Len(Tail(s)) => k1 = Len(s))
      BY <1>4, <3>1
    <3>. QED  BY <3>2, <1>1, <1>2 DEF EventsAreRight
  <2>2. ASSUME NEW m \in Transfers \ {n}, NEW k \in DOMAIN progress'[m]
        PROVE  /\ progress'[m][k] = "completed" => m \in completed'
               /\ progress'[m][k] \in Unsuccessful =>
                    m \notin completed' /\ calls'[m] \in {"settled", "rejected", "over"}
               /\ k = Len(progress'[m]) /\ progress'[m][k] \in {"running", "conflict"} =>
                    calls'[m] = "running"
    BY <1>1, <1>3, <1>5 DEF EventsAreRight
  <2>. QED  BY <2>1, <2>2, <1>3, <1>5 DEF EventsAreRight
<1>10. /\ items' \in Seq(Item) /\ DOMAIN items' = DOMAIN items
       /\ \A j \in DOMAIN items : /\ items'[j].id = items[j].id /\ items'[j].conn = items[j].conn
                                  /\ j # i \/ items[i].id # n => items'[j].status = items[j].status
       /\ items[i].id = n =>
            \/ e = "conflict" /\ items'[i].status = items[i].status
            \/ e # "conflict" /\ items'[i].status = e
  <2>. PICK x : x = IF items[i].id # n THEN items[i]
                    ELSE IF e = "conflict" THEN [items[i] EXCEPT !.last = e]
                    ELSE [items[i] EXCEPT !.last = e, !.status = e]
    OBVIOUS
  <2>1. /\ x \in Item /\ x.id = items[i].id /\ x.conn = items[i].conn
        /\ items[i].id # n => x.status = items[i].status
        /\ items[i].id = n /\ e = "conflict" => x.status = items[i].status
        /\ items[i].id = n /\ e # "conflict" => x.status = e
    <3>1. items[i] \in Item
      BY <1>2
    <3>2. CASE items[i].id # n
      BY <3>1, <3>2
    <3>3. CASE items[i].id = n /\ e = "conflict"
      BY <3>1, <3>3, <1>4 DEF Item
    <3>4. CASE items[i].id = n /\ e # "conflict"
      <4>1. e \in Statuses /\ x = [items[i] EXCEPT !.last = e, !.status = e]
        BY <3>4, <1>4 DEF Statuses, Events
      <4>. QED  BY <3>1, <3>4, <4>1, <1>4 DEF Item
    <3>. QED  BY <3>2, <3>3, <3>4
  <2>2. items \in Seq(Item)
    BY <1>1 DEF QueueTypes
  <2>3. items' = [items EXCEPT ![i] = x]
    <3>1. items = [items EXCEPT ![i] = items[i]]
      BY <2>2, <1>2
    <3>2. CASE items[i].id # n
      BY <3>1, <3>2, <1>3
    <3>3. CASE items[i].id = n /\ e = "conflict"
      BY <3>3, <1>3
    <3>4. CASE items[i].id = n /\ e # "conflict"
      BY <3>4, <1>3
    <3>. QED  BY <3>2, <3>3, <3>4
  <2>4. /\ items' \in Seq(Item) /\ DOMAIN items' = DOMAIN items
        /\ \A j \in DOMAIN items : items'[j] = IF j = i THEN x ELSE items[j]
    BY <2>1, <2>2, <2>3, <1>2, ItemChanged
  <2>. QED  BY <2>1, <2>4, <1>2
<1>11. QueueTypes(items, queue, drawn, calls)' /\ IdsMatch(items, drawn, calls)'
  <2>1. QueueTypes(items, queue, drawn, calls)'
    BY <1>1, <1>3, <1>10 DEF QueueTypes
  <2>2. \A j \in DOMAIN items' : /\ items'[j].id \in DOMAIN drawn
                                 /\ drawn[items'[j].id].item = j
                                 /\ drawn[items'[j].id].conn = items'[j].conn
    BY <1>1, <1>10 DEF IdsMatch
  <2>3. IdsMatch(items', drawn, calls)
    BY <1>1, <1>10, <2>2 DEF IdsMatch
  <2>. QED  BY <2>1, <2>3, <1>3 DEF IdsMatch
<1>12. OnlyFailuresAreRetried(items, drawn, calls)'
  <2>1. ASSUME NEW m \in UnderWayIn(calls)
        PROVE  \/ /\ items'[drawn[m].item].id = m
                  /\ items'[drawn[m].item].status \notin Unsuccessful
               \/ m \notin completed /\ calls[m] \in {"settled", "rejected"}
    <3>1. CASE drawn[m].item = i /\ items[i].id = n /\ m = n
      <4>1. calls[m] # "over"
        BY DEF UnderWayIn, Started
      <4>. QED  BY <3>1, <4>1, <1>1, <1>2, <1>6, <1>10 DEF OnlyFailuresAreRetried
    <3>2. CASE ~(drawn[m].item = i /\ items[i].id = n /\ m = n)
      BY <3>2, <1>1, <1>2, <1>10 DEF OnlyFailuresAreRetried
    <3>. QED  BY <3>1, <3>2
  <2>. QED  BY <2>1, <1>3 DEF OnlyFailuresAreRetried, UnderWayIn
<1>13. ItemsAreRight(items, calls)'
  <2>1. ASSUME NEW j \in DOMAIN items
        PROVE  LET m == items[j].id IN
               /\ items'[j].status = "queued" => calls[m] = "none"
               /\ items'[j].status = "completed" => m \in completed
               /\ items'[j].status = "running" /\ progress'[m] = <<>> =>
                    calls[m] \in Started \ {"listing"}
    <3>1. CASE items[j].id = n
      <4>1. j = i /\ items[i].id = n
        BY <3>1, <1>2
      <4>2. calls[n] # "none" /\ items[i].status # "queued"
        BY <4>1, <1>1, <1>2, <1>3 DEF CallsAreRight, ItemsAreRight
      <4>3. CASE e = "conflict"
        BY <4>1, <4>2, <4>3, <1>1, <1>5, <1>6, <1>10 DEF ItemsAreRight, Started, CallStates
      <4>4. CASE e # "conflict"
        BY <4>1, <4>2, <4>4, <1>4, <1>5, <1>6, <1>10 DEF Events, Started, CallStates
      <4>. QED  BY <4>3, <4>4
    <3>2. CASE items[j].id # n
      BY <3>2, <1>1, <1>2, <1>5, <1>10 DEF ItemsAreRight
    <3>. QED  BY <3>1, <3>2
  <2>. QED  BY <2>1, <1>3, <1>10 DEF ItemsAreRight
<1>14. PanelIsRight'
  <2>1. \A j \in DOMAIN items : items'[j].status = "queued" => items[j].status = "queued"
    BY <1>2, <1>4, <1>10 DEF Events
  <2>2. queue \subseteq DOMAIN items
    BY <1>1 DEF QueueTypes
  <2>. QED  BY <1>1, <1>3, <2>1, <2>2 DEF PanelIsRight, NoneWaitsInVain, UnderWayIn
<1>. QED  BY <1>7, <1>8, <1>9, <1>11, <1>12, <1>13, <1>14 DEF IInv, Held

\* The result of the transfer under way is about an item of the panel; once it
\* is handled, nothing is under way.
LEMMA ResultIs ==
  ASSUME IInv, NEW n \in DOMAIN drawn, calls[n] \in Started
  PROVE  /\ n \in Transfers /\ n \in UnderWayIn(calls) /\ UnderWayIn(calls) = {n}
         /\ drawn[n].item \in DOMAIN items
         /\ \A i \in DOMAIN items : /\ items[i] \in Item /\ items[i].id \in Transfers
                                    /\ items[i].id = n => i = drawn[n].item
         /\ items \in Seq(Item) /\ calls \in [Transfers -> CallStates]
<1>1. n \in Transfers /\ drawn[n].item \in DOMAIN items
      /\ \A i \in DOMAIN items : /\ items[i] \in Item /\ items[i].id \in Transfers
                                 /\ items[i].id = n => i = drawn[n].item
  BY HeardItem
<1>2. n \in UnderWayIn(calls)
  BY <1>1 DEF UnderWayIn
<1>3. UnderWayIn(calls) = {n}
  BY <1>2 DEF IInv, PanelIsRight
<1>4. items \in Seq(Item) /\ calls \in [Transfers -> CallStates]
  BY DEF IInv, Held, QueueTypes
<1>. QED  BY <1>1, <1>2, <1>3, <1>4

LEMMA HearSuccessKeeps ==
  ASSUME IInv, NEW n \in DOMAIN drawn, HearSuccess(n)
  PROVE  IInv'
<1>. PICK i : i = drawn[n].item
  OBVIOUS
<1>1. /\ OtherTypes /\ QueueTypes(items, queue, drawn, calls) /\ IdsMatch(items, drawn, calls)
      /\ CallsAreRight(calls) /\ EventsAreRight(calls)
      /\ OnlyFailuresAreRetried(items, drawn, calls) /\ ItemsAreRight(items, calls)
      /\ PanelIsRight
  BY DEF IInv, Held
<1>2. /\ calls[n] = "resolved" /\ calls' = [calls EXCEPT ![n] = "listing"]
      /\ items' = [items EXCEPT ![i].status = "completed"]
      /\ conn' = conn /\ connections' = connections /\ queue' = queue
      /\ processing' = processing /\ drawn' = drawn /\ on' = on /\ progress' = progress
      /\ completed' = completed /\ flagged' = flagged /\ cancelling' = cancelling
  BY DEF HearSuccess, terminal, backend
<1>3. /\ n \in Transfers /\ UnderWayIn(calls) = {n} /\ i \in DOMAIN items
      /\ \A j \in DOMAIN items : /\ items[j] \in Item /\ items[j].id \in Transfers
                                 /\ items[j].id = n => j = i
      /\ items \in Seq(Item) /\ calls \in [Transfers -> CallStates]
  BY <1>2, ResultIs DEF Started, CallStates
\* A transfer that completed was not retried.
<1>4. n \in completed /\ items[i].id = n
  BY <1>1, <1>2, <1>3 DEF CallsAreRight, OnlyFailuresAreRetried
<1>5. /\ calls' \in [Transfers -> CallStates]
      /\ \A m \in Transfers : calls'[m] = IF m = n THEN "listing" ELSE calls[m]
  BY <1>2, <1>3 DEF CallStates
<1>6. UnderWayIn(calls') = {n}
  BY <1>2, <1>3, <1>5 DEF UnderWayIn, Started, CallStates
<1>7. /\ items' \in Seq(Item) /\ DOMAIN items' = DOMAIN items
      /\ \A j \in DOMAIN items : /\ items'[j].id = items[j].id /\ items'[j].conn = items[j].conn
                                 /\ items'[j].status = IF j = i THEN "completed" ELSE items[j].status
  <2>. PICK x : x = [items[i] EXCEPT !.status = "completed"]
    OBVIOUS
  <2>1. x \in Item /\ x.id = items[i].id /\ x.conn = items[i].conn /\ x.status = "completed"
    BY <1>3, ItemFields DEF Statuses
  <2>2. /\ items' \in Seq(Item) /\ DOMAIN items' = DOMAIN items
        /\ \A j \in DOMAIN items : items'[j] = IF j = i THEN x ELSE items[j]
    BY <2>1, <1>2, <1>3, ItemChanged
  <2>. QED  BY <2>1, <2>2
<1>8. OtherTypes'
  BY <1>1, <1>2 DEF OtherTypes
<1>9. QueueTypes(items, queue, drawn, calls)'
  BY <1>1, <1>2, <1>5, <1>7 DEF QueueTypes
<1>10. IdsMatch(items, drawn, calls)'
  <2>1. \A j \in DOMAIN items' : /\ items'[j].id \in DOMAIN drawn
                                 /\ drawn[items'[j].id].item = j
                                 /\ drawn[items'[j].id].conn = items'[j].conn
    BY <1>1, <1>7 DEF IdsMatch
  <2>2. \A m \in Transfers \ DOMAIN drawn : calls'[m] = "none" /\ on[m] = None
    BY <1>1, <1>5 DEF IdsMatch
  <2>3. IdsMatch(items', drawn, calls')
    BY <1>1, <1>7, <2>1, <2>2 DEF IdsMatch
  <2>. QED  BY <2>3, <1>2 DEF IdsMatch
<1>11. CallsAreRight(calls)'
  BY <1>1, <1>2, <1>4, <1>5 DEF CallsAreRight
<1>12. EventsAreRight(calls)'
  BY <1>1, <1>2, <1>4, <1>5 DEF EventsAreRight
<1>13. OnlyFailuresAreRetried(items, drawn, calls)'
  BY <1>2, <1>3, <1>4, <1>6, <1>7 DEF OnlyFailuresAreRetried, Unsuccessful
<1>14. ItemsAreRight(items, calls)'
  BY <1>1, <1>2, <1>3, <1>4, <1>5, <1>7 DEF ItemsAreRight
<1>15. PanelIsRight'
  <2>1. queue \subseteq DOMAIN items
    BY <1>1 DEF QueueTypes
  <2>. QED  BY <1>1, <1>2, <1>3, <1>6, <1>7, <2>1 DEF PanelIsRight, NoneWaitsInVain
<1>. QED  BY <1>8, <1>9, <1>10, <1>11, <1>12, <1>13, <1>14, <1>15 DEF IInv, Held

\* The panel as `finally` finds it: the item of the transfer may have been
\* settled, and nothing is under way.
LEMMA OverHeld ==
  ASSUME IInv, NEW n \in DOMAIN drawn, NEW its \in Seq(Item),
         DOMAIN its = DOMAIN items,
         \A j \in DOMAIN items : its[j].id = items[j].id /\ its[j].conn = items[j].conn,
         \A j \in DOMAIN items \ {drawn[n].item} : its[j].status = items[j].status,
         calls[n] \in {"listing", "rejected"},
         \/ calls[n] = "listing" /\ its = items
         \/ its[drawn[n].item].status \in Unsuccessful
  PROVE  Held(its, queue, drawn, [calls EXCEPT ![n] = "over"])
<1>. PICK i, cs : i = drawn[n].item /\ cs = [calls EXCEPT ![n] = "over"]
  OBVIOUS
<1>1. /\ QueueTypes(items, queue, drawn, calls) /\ IdsMatch(items, drawn, calls)
      /\ CallsAreRight(calls) /\ EventsAreRight(calls) /\ ItemsAreRight(items, calls)
  BY DEF IInv, Held
<1>2. /\ n \in Transfers /\ UnderWayIn(calls) = {n} /\ i \in DOMAIN items
      /\ \A j \in DOMAIN items : items[j].id \in Transfers /\ (items[j].id = n => j = i)
      /\ calls \in [Transfers -> CallStates]
  BY ResultIs DEF Started, CallStates
<1>3. /\ cs \in [Transfers -> CallStates]
      /\ \A m \in Transfers : cs[m] = IF m = n THEN "over" ELSE calls[m]
  BY <1>2 DEF CallStates
<1>4. UnderWayIn(cs) = {}
  BY <1>2, <1>3 DEF UnderWayIn, Started
<1>5. QueueTypes(its, queue, drawn, cs)
  BY <1>1, <1>3 DEF QueueTypes
<1>6. IdsMatch(its, drawn, cs)
  <2>1. \A j \in DOMAIN its : /\ its[j].id \in DOMAIN drawn /\ drawn[its[j].id].item = j
                              /\ drawn[its[j].id].conn = its[j].conn
    BY <1>1 DEF IdsMatch
  <2>2. \A m \in Transfers \ DOMAIN drawn : cs[m] = "none" /\ on[m] = None
    BY <1>1, <1>3 DEF IdsMatch
  <2>. QED  BY <1>1, <2>1, <2>2 DEF IdsMatch
<1>7. CallsAreRight(cs)
  BY <1>1, <1>3 DEF CallsAreRight
<1>8. EventsAreRight(cs)
  <2>1. ASSUME NEW k \in DOMAIN progress[n]
        PROVE  k = Len(progress[n]) => progress[n][k] \notin {"running", "conflict"}
    BY <1>1, <1>2 DEF EventsAreRight
  <2>. QED  BY <2>1, <1>1, <1>3 DEF EventsAreRight
<1>9. OnlyFailuresAreRetried(its, drawn, cs)
  BY <1>4 DEF OnlyFailuresAreRetried
<1>10. ItemsAreRight(its, cs)
  <2>1. ASSUME NEW j \in DOMAIN its
        PROVE  LET m == its[j].id IN
               /\ its[j].status = "queued" => cs[m] = "none"
               /\ its[j].status = "completed" => m \in completed
               /\ its[j].status = "running" /\ progress[m] = <<>> =>
                    cs[m] \in Started \ {"listing"}
    <3>1. CASE j = i /\ its[i].status \in Unsuccessful
      BY <3>1 DEF Unsuccessful
    <3>2. CASE items[j].id = n /\ calls[n] = "listing" /\ its = items
      BY <3>2, <1>1, <1>2, <1>3 DEF ItemsAreRight
    <3>3. CASE items[j].id # n /\ its[j].status = items[j].status
      BY <3>3, <1>1, <1>2, <1>3 DEF ItemsAreRight
    <3>. QED  BY <3>1, <3>2, <3>3, <1>2
  <2>. QED  BY <2>1 DEF ItemsAreRight
<1>. QED  BY <1>5, <1>6, <1>7, <1>8, <1>9, <1>10 DEF Held

LEMMA ListedKeeps ==
  ASSUME IInv, NEW n \in DOMAIN drawn, Listed(n)
  PROVE  IInv'
<1>1. /\ calls[n] = "listing" /\ Finally(items, n)
      /\ UNCHANGED <<terminal, drawn, backend, cancelling>>
  BY DEF Listed
<1>2. items \in Seq(Item) /\ n \in UnderWayIn(calls)
  BY <1>1, ResultIs DEF Started, CallStates
<1>3. Held(items, queue, drawn, [calls EXCEPT ![n] = "over"])
  BY <1>1, <1>2, OverHeld DEF Started, CallStates
<1>. QED  BY <1>1, <1>2, <1>3, FinallyKeeps

LEMMA HearFailureKeeps ==
  ASSUME IInv, NEW n \in DOMAIN drawn, HearFailure(n)
  PROVE  IInv'
<1>. PICK i, st, its : /\ i = drawn[n].item /\ st = SettleFailedTransfer(items[i])
                       /\ its = [items EXCEPT ![i].status = st]
  OBVIOUS
<1>1. /\ calls[n] = "rejected" /\ Finally(its, n)
      /\ UNCHANGED <<terminal, drawn, backend, cancelling>>
  BY DEF HearFailure
<1>2. /\ items \in Seq(Item) /\ n \in UnderWayIn(calls) /\ i \in DOMAIN items
      /\ items[i] \in Item /\ calls[n] \in Started
  BY <1>1, ResultIs DEF Started, CallStates
<1>3. st \in Unsuccessful
  BY DEF SettleFailedTransfer, Unsuccessful
<1>4. /\ its \in Seq(Item) /\ DOMAIN its = DOMAIN items
      /\ \A j \in DOMAIN items : its[j].id = items[j].id /\ its[j].conn = items[j].conn
      /\ \A j \in DOMAIN items \ {i} : its[j].status = items[j].status
      /\ its[i].status = st
  <2>. PICK x : x = [items[i] EXCEPT !.status = st]
    OBVIOUS
  <2>1. x \in Item /\ x.id = items[i].id /\ x.conn = items[i].conn /\ x.status = st
    <3>1. st \in Statuses
      BY <1>3 DEF Statuses, Unsuccessful
    <3>. QED  BY ONLY <3>1, <1>2, x = [items[i] EXCEPT !.status = st], ItemFields
  <2>2. /\ its \in Seq(Item) /\ DOMAIN its = DOMAIN items
        /\ \A j \in DOMAIN items : its[j] = IF j = i THEN x ELSE items[j]
    BY <2>1, <1>2, ItemChanged
  <2>. QED  BY <2>1, <2>2, <1>2
<1>5. Held(its, queue, drawn, [calls EXCEPT ![n] = "over"])
  BY <1>1, <1>2, <1>3, <1>4, OverHeld
<1>. QED  BY <1>1, <1>2, <1>4, <1>5, FinallyKeeps
----
LEMMA NextKeeps == ASSUME IInv, [Next]_vars PROVE IInv'
<1>1. CASE Next
  <2>1. CASE Connect \/ Disconnect
    BY <2>1, TerminalKeeps
  <2>2. CASE Operator
    BY <2>2, EnqueueKeeps, CancelKeeps, RemoveKeeps, RetryKeeps DEF Operator
  <2>3. CASE \E n \in Transfers : Run(n) \/ CancelArrives(n)
    BY <2>3, RunKeeps, CancelArrivesKeeps
  <2>4. CASE \E n \in DOMAIN drawn : HearProgress(n) \/ Hear(n)
    BY <2>4, HearProgressKeeps, HearSuccessKeeps, ListedKeeps, HearFailureKeeps DEF Hear
  <2>. QED  BY <1>1, <2>1, <2>2, <2>3, <2>4 DEF Next
<1>2. CASE UNCHANGED vars
  BY <1>2 DEF vars, terminal, panel, invokes, backend, IInv, OtherTypes, Held, QueueTypes,
     IdsMatch, CallsAreRight, EventsAreRight, OnlyFailuresAreRetried, UnderWayIn,
     ItemsAreRight, PanelIsRight, NoneWaitsInVain
<1>. QED  BY <1>1, <1>2

\* The invariant holds of every state of every behaviour.
THEOREM Inductive == Spec => []IInv
BY InitIInv, NextKeeps, PTL DEF Spec

\* Every variable keeps its type, the queue its limit (MAX_TRANSFER_QUEUE_ITEMS),
\* and every id belongs to one item.
THEOREM TypeCorrect == Spec => []TypeOK
BY Inductive, Implies, PTL

\* However results, events, retries and losses of the connection interleave, the
\* panel never has two transfers under way, and it knows whether it has one
\* (processQueue, `processing`).
THEOREM OneAtATime == Spec => []OneTransferAtATime
BY Inductive, Implies, PTL

\* A transfer is invoked on the connection its item was queued for, never on a
\* later one (processQueue, the comparison of connection ids).
THEOREM NeverElsewhere == Spec => []StartsWhereQueued
BY Inductive, Implies, PTL

\* An idle panel has no queued item: each end of a transfer, each new item and
\* each retry looks at the queue again.
THEOREM NoneForgotten == Spec => []NoneWaitsInVain
BY Inductive, Implies, PTL

\* An item shows `completed` only if its transfer completed, and does not stay
\* `running` once its transfer's result and events were heard.
THEOREM StatusCorrect == Spec => []StatusIsTrue
BY Inductive, Implies, PTL
=============================================================================
