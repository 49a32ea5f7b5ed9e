-------------------------- MODULE SessionLogProofs --------------------------
(***************************************************************************)
(* Proofs about SessionLog. For any number of writers and any bounds: the  *)
(* types, and a search that gives every line once. For one writer at a     *)
(* time, whatever its number of starts, crashes and failing calls: stamps, *)
(* the bound on a file, and the newest files under the names.              *)
(***************************************************************************)
EXTENDS SessionLog, FiniteSetTheorems, SequenceTheorems, TLAPS

Units == [by : Writers \cup {"none"}, stamp : BOOLEAN, ends : BOOLEAN]
Lines == [file : Nat, from : Nat, to : Nat, line : Nat]
Searches == {"idle", "reading", "full", "next", "done", "rejected", "over"}
Views == [state : Searches, name : Generations, file : Nat, pages : Nat,
          hits : Nat, due : Nat, cursor : [offset : Nat, line : Nat], seen : Seq(Lines)]

\* What TypeOK leaves out: the contents of the files, the viewer, and a shift
\* that never begins at the active file.
TypeInv ==
  /\ TypeOK
  /\ files \in Seq(Seq(Units))
  /\ queue \in [Writers -> Seq(BOOLEAN)]
  /\ view \in Views
  /\ \A w \in Writers : writer[w] = "shift" => gen[w] \in 1 .. Retained - 1

USE LogAssumption

----
(* Types. *)

\* The least element of a set of numbers, from the well-foundedness of finite
\* sets: the initial segments that its members bound.
LEMMA LeastElement ==
  ASSUME NEW T \in SUBSET Nat, T # {}
  PROVE  \E x \in T : \A y \in T : x <= y
<1>. DEFINE U == {0 .. n : n \in T}
<1>1. U \subseteq FiniteSubsetsOf(Nat) /\ U # {}
  <2>1. ASSUME NEW n \in T PROVE 0 .. n \in FiniteSubsetsOf(Nat)
    <3>1. IsFiniteSet(0 .. n)
      BY FS_Interval
    <3>2. 0 .. n \subseteq Nat
      OBVIOUS
    <3>. QED BY <3>1, <3>2 DEF FiniteSubsetsOf
  <2>. QED BY <2>1, Zenon
<1>2. IsWellFoundedOn(StrictSubsetOrdering(Nat), FiniteSubsetsOf(Nat))
  BY FS_StrictSubsetOrderingWellFounded
<1>. HIDE DEF U
<1>3. \E x \in U : \A y \in U : <<y, x>> \notin StrictSubsetOrdering(Nat)
  BY <1>1, <1>2, WFMin
<1>4. PICK n \in T : \A y \in U : <<y, 0 .. n>> \notin StrictSubsetOrdering(Nat)
  BY <1>3 DEF U
<1>5. ASSUME NEW m \in T, m < n PROVE FALSE
  <2>1. 0 .. m \in U BY DEF U
  <2>2. 0 .. m \subseteq 0 .. n /\ 0 .. m # 0 .. n /\ 0 .. n \subseteq Nat
    BY <1>5
  <2>. QED BY <1>4, <2>1, <2>2 DEF StrictSubsetOrdering
<1>. QED BY <1>5

LEMMA FunctionIsSequence ==
  ASSUME NEW S, NEW n \in Nat, NEW s \in [1 .. n -> S]
  PROVE  s \in Seq(S) /\ Len(s) = n
OBVIOUS

LEMMA InitTypeInv == Init => TypeInv
BY EmptySeq DEF Init, TypeInv, TypeOK, Views, Searches, Generations, None, Phases, Rotating

LEMMA NameFacts ==
  ASSUME TypeInv
  PROVE  /\ names \in [Generations -> 0 .. Len(files)]
         /\ Len(files) \in Nat /\ Len(files) <= MaxFiles
         /\ files \in [1 .. Len(files) -> Seq(Units)]
         /\ DOMAIN files = 1 .. Len(files)
         /\ {0, 1, Retained} \subseteq Generations
         /\ \A w \in Writers : gen[w] \in Generations
<1>1. names \in [Generations -> 0 .. Len(files)] /\ Len(files) <= MaxFiles
      /\ files \in Seq(Seq(Units)) /\ gen \in [Writers -> 0 .. Retained]
  BY DEF TypeInv, TypeOK
<1>2. {0, 1, Retained} \subseteq Generations
  BY DEF Generations
<1>3. \A w \in Writers : gen[w] \in Generations
  BY <1>1 DEF Generations
<1>. QED BY ONLY <1>1, <1>2, <1>3, LenProperties

\* What opening the log does to its directory and its files.
LEMMA StartDisk ==
  ASSUME TypeInv, NEW w \in Writers, Start(w)
  PROVE  /\ files' \in Seq(Seq(Units))
         /\ fd'[w] \in 1 .. MaxFiles
         /\ \/ /\ names[0] # None
               /\ fd'[w] = names[0]
               /\ UNCHANGED names
               /\ Len(files') = Len(files)
               /\ files'[fd'[w]] = IF files[fd'[w]] = <<>> THEN <<>>
                                   ELSE Append(files[fd'[w]], NewLine)
            \/ /\ names[0] = None
               /\ fd'[w] = Len(files) + 1
               /\ names' = [names EXCEPT ![0] = Len(files) + 1]
               /\ Len(files') = Len(files) + 1
               /\ files'[fd'[w]] = <<>>
               /\ Len(files) < MaxFiles
         /\ \A f \in DOMAIN files : f # fd'[w] => files'[f] = files[f]
         /\ size' = [size EXCEPT ![w] = Len(files'[fd'[w]])]
<1>. DEFINE old == IF names[0] = None THEN <<>> ELSE files[names[0]]
            now == IF old = <<>> THEN old ELSE Append(old, NewLine)
            n   == IF names[0] = None THEN Len(files) + 1 ELSE Len(files)
<1>1. /\ files \in Seq(Seq(Units)) /\ Len(files) \in Nat
      /\ DOMAIN files = 1 .. Len(files)
      /\ 0 \in Generations /\ names \in [Generations -> 0 .. Len(files)]
      /\ names[0] \in 0 .. Len(files) /\ Len(files) <= MaxFiles
      /\ fd \in [Writers -> 0 .. MaxFiles]
  <2>1. files \in Seq(Seq(Units)) /\ Len(files) <= MaxFiles
        /\ fd \in [Writers -> 0 .. MaxFiles] /\ names \in [0 .. Retained -> 0 .. Len(files)]
    BY DEF TypeInv, TypeOK, Generations
  <2>2. 0 \in 0 .. Retained
    OBVIOUS
  <2>. HIDE DEF TypeInv
  <2>. QED BY <2>1, <2>2 DEF Generations
<1>2. /\ files' = [f \in 1 .. Len(files) \cup {fd'[w]} |->
                     IF f = fd'[w] THEN now ELSE files[f]]
      /\ size' = [size EXCEPT ![w] = Len(now)]
  BY DEF Start
<1>3. \/ /\ names[0] # None /\ fd'[w] = names[0] /\ UNCHANGED names
      \/ /\ names[0] = None /\ Len(files) < MaxFiles /\ fd'[w] = Len(files) + 1
         /\ names' = [names EXCEPT ![0] = Len(files) + 1]
  BY <1>1 DEF Start
<1>4. now \in Seq(Units)
  <2>1. NewLine \in Units BY DEF NewLine, Unit, Units
  <2>2. old \in Seq(Units) BY <1>1 DEF None
  <2>. QED BY <2>1, <2>2
<1>. HIDE DEF now
<1>5. 1 .. Len(files) \cup {fd'[w]} = 1 .. n /\ n \in Nat
  <2>1. n \in Nat BY <1>1
  <2>2. CASE names[0] # None
    <3>1. n = Len(files) /\ fd'[w] \in 1 .. n
      BY <1>1, <1>3, <2>2 DEF None
    <3>. QED BY <3>1, <2>1
  <2>3. CASE names[0] = None
    <3>. PICK k, m, d : k = Len(files) /\ m = n /\ d = fd'[w]
      OBVIOUS
    <3>1. k \in Nat /\ m = k + 1 /\ d = m
      BY <1>1, <1>3, <2>3 DEF None
    <3>2. 1 .. k \cup {d} = 1 .. m
      BY ONLY <3>1
    <3>. QED BY <3>2, <2>1
  <2>. QED BY <2>2, <2>3
<1>6. files' \in [1 .. n -> Seq(Units)]
  BY <1>1, <1>2, <1>4, <1>5
<1>7. files' \in Seq(Seq(Units)) /\ Len(files') = n
  <2>. PICK m, g, S : m = n /\ g = files' /\ S = Seq(Units)
    OBVIOUS
  <2>1. m \in Nat /\ g \in [1 .. m -> S]
    BY <1>5, <1>6
  <2>2. g \in Seq(S) /\ Len(g) = m
    BY ONLY <2>1, FunctionIsSequence
  <2>. QED BY <2>2
<1>8. files'[fd'[w]] = now /\ \A f \in DOMAIN files : f # fd'[w] => files'[f] = files[f]
  BY <1>1, <1>2
<1>9. CASE names[0] # None
  <2>1. now = IF files[fd'[w]] = <<>> THEN <<>> ELSE Append(files[fd'[w]], NewLine)
    BY <1>3, <1>9 DEF now
  <2>2. n = Len(files) /\ fd'[w] \in 1 .. MaxFiles
    BY <1>1, <1>3, <1>9 DEF None
  <2>. HIDE DEF n
  <2>. QED BY <1>2, <1>3, <1>7, <1>8, <1>9, <2>1, <2>2
<1>10. CASE names[0] = None
  <2>1. now = <<>> BY <1>10 DEF now
  <2>2. n = Len(files) + 1 /\ fd'[w] \in 1 .. MaxFiles
    BY <1>1, <1>3, <1>10
  <2>. HIDE DEF n
  <2>. QED BY <1>2, <1>3, <1>7, <1>8, <1>10, <2>1, <2>2
<1>. QED BY <1>9, <1>10

\* What a write leaves in the file, and what the queue keeps.
LEMMA WriteDisk ==
  ASSUME TypeInv, NEW w \in Writers, Write(w)
  PROVE  /\ files' \in Seq(Seq(Units)) /\ Len(files') = Len(files)
         /\ \A f \in DOMAIN files :
              files'[f] = IF f = fd[w] THEN Append(files[f], Unit(w, fresh[w], Head(queue[w])))
                                       ELSE files[f]
         /\ Unit(w, fresh[w], Head(queue[w])) \in Units
         /\ Head(queue[w]) \in BOOLEAN
         /\ queue' = [queue EXCEPT ![w] = Tail(queue[w])]
         /\ Tail(queue[w]) \in Seq(BOOLEAN)
         /\ Len(Tail(queue[w])) <= QueueCap + 1
<1>1. files \in Seq(Seq(Units)) /\ fresh[w] \in BOOLEAN
      /\ queue[w] \in Seq(BOOLEAN) /\ Len(queue[w]) <= QueueCap + 1
  BY DEF TypeInv, TypeOK
<1>2. queue[w] # <<>> /\ queue' = [queue EXCEPT ![w] = Tail(queue[w])]
      /\ files' = [files EXCEPT ![fd[w]] = Append(@, Unit(w, fresh[w], Head(queue[w])))]
  BY DEF Write, HasChunk, Put
<1>3. /\ Head(queue[w]) \in BOOLEAN /\ Tail(queue[w]) \in Seq(BOOLEAN)
      /\ Len(Tail(queue[w])) <= QueueCap + 1
  <2>. HIDE DEF TypeInv
  <2>1. Head(queue[w]) \in BOOLEAN /\ Tail(queue[w]) \in Seq(BOOLEAN)
        /\ Len(Tail(queue[w])) = Len(queue[w]) - 1
    BY ONLY <1>1, <1>2, HeadTailProperties
  <2>2. Len(queue[w]) \in Nat /\ QueueCap \in Nat
    BY <1>1, LenProperties
  <2>. QED BY ONLY <1>1, <2>1, <2>2
<1>4. Unit(w, fresh[w], Head(queue[w])) \in Units
  BY <1>1, <1>3 DEF Unit, Units
<1>. HIDE DEF TypeInv
<1>5. \A f \in DOMAIN files :
        files'[f] = IF f = fd[w] THEN Append(files[f], Unit(w, fresh[w], Head(queue[w])))
                                 ELSE files[f]
  BY <1>1, <1>2
<1>6. /\ DOMAIN files' = DOMAIN files
      /\ \A f \in DOMAIN files : files'[f] \in Seq(Units)
  <2>1. DOMAIN files' = DOMAIN files
    BY <1>2
  <2>2. \A f \in DOMAIN files : files[f] \in Seq(Units)
    BY NameFacts
  <2>. QED BY ONLY <1>4, <1>5, <2>1, <2>2, AppendProperties
<1>7. files' \in [1 .. Len(files) -> Seq(Units)]
  <2>1. files \in [1 .. Len(files) -> Seq(Units)]
    BY NameFacts
  <2>2. files' = [f \in 1 .. Len(files) |-> files'[f]]
    BY ONLY <1>2, <2>1
  <2>. QED BY ONLY <1>6, <2>1, <2>2
<1>8. files' \in Seq(Seq(Units)) /\ Len(files') = Len(files)
  BY ONLY <1>7, NameFacts, TypeInv, FunctionIsSequence
<1>. QED BY <1>2, <1>3, <1>4, <1>5, <1>8

\* The steps of a terminal and of its writer that leave the contents alone.
LEMMA QuietStepsKeepTypeInv ==
  ASSUME TypeInv, NEW w \in Writers,
         \/ Finish(w) \/ BeginRotation(w) \/ RemoveOldest(w) \/ Shift(w)
         \/ MoveActive(w) \/ CallFails(w)
  PROVE  TypeInv'
<1>0. UNCHANGED <<files, made, fd, size, fresh>>
      /\ (queue' = queue \/ queue' = [queue EXCEPT ![w] = <<>>])
      /\ (sink' = sink \/ sink' = [sink EXCEPT ![w] = FALSE])
      /\ (faults' = faults \/ (faults < MaxFaults /\ faults' = faults + 1))
      /\ view' = view
  BY DEF Finish, BeginRotation, RemoveOldest, Shift, MoveActive, CallFails, disk
<1>1. names' \in [Generations -> 0 .. Len(files')]
  <2>1. /\ names \in [Generations -> 0 .. Len(files)] /\ Len(files) \in Nat
        /\ 0 \in Generations /\ gen[w] \in Generations
    BY NameFacts
  <2>2. \/ names' = names
        \/ names' = [names EXCEPT ![Retained] = None]
        \/ \E g, h \in Nat : g \in Generations /\ names' = Rename(g, h)
    <3>1. gen[w] \in Nat /\ gen[w] + 1 \in Nat
      BY <2>1 DEF Generations
    <3>. QED BY <2>1, <3>1 DEF Finish, BeginRotation, RemoveOldest, Shift, MoveActive,
                               CallFails, disk
  <2>3. names' \in [Generations -> 0 .. Len(files)]
    BY ONLY <2>1, <2>2 DEF Rename, None
  <2>. QED BY <1>0, <2>3
<1>2. /\ writer' \in [Writers -> Phases]
      /\ gen' \in [Writers -> 0 .. Retained]
      /\ \A u \in Writers : writer'[u] = "shift" => gen'[u] \in 1 .. Retained - 1
  <2>1. /\ writer \in [Writers -> Phases] /\ gen \in [Writers -> 0 .. Retained]
        /\ \A u \in Writers : writer[u] = "shift" => gen[u] \in 1 .. Retained - 1
    BY DEF TypeInv, TypeOK
  <2>2. \/ gen' = gen /\ \E p \in Phases \ {"shift"} : Goto(w, p)
        \/ ToShift(w, Retained - 1)
        \/ writer[w] = "shift" /\ ToShift(w, gen[w] - 1)
    BY DEF Finish, BeginRotation, RemoveOldest, Shift, MoveActive, CallFails, Goto,
           Phases, Rotating
  <2>3. CASE gen' = gen /\ \E p \in Phases \ {"shift"} : Goto(w, p)
    BY <2>1, <2>3 DEF Goto
  <2>4. CASE \E g \in 0 .. Retained - 1 : ToShift(w, g)
    BY <2>1, <2>4 DEF ToShift, Goto, Phases, Rotating
  <2>. QED BY <2>1, <2>2, <2>3, <2>4
<1>3. /\ \A u \in Writers : queue'[u] \in Seq(BOOLEAN) /\ Len(queue'[u]) <= QueueCap + 1
      /\ queue' \in [Writers -> Seq(BOOLEAN)]
  <2>1. \A u \in Writers : queue[u] \in Seq(BOOLEAN) /\ Len(queue[u]) <= QueueCap + 1
    BY DEF TypeInv, TypeOK
  <2>2. <<>> \in Seq(BOOLEAN) /\ Len(<<>>) <= QueueCap + 1
    <3>1. <<>> \in Seq(BOOLEAN) /\ Len(<<>>) = 0
      BY EmptySeq
    <3>. QED BY <3>1
  <2>3. \A u \in Writers : queue'[u] = queue[u] \/ queue'[u] = <<>>
    BY <1>0 DEF TypeInv
  <2>4. queue' \in [Writers -> Seq(BOOLEAN)]
    BY ONLY <1>0, <2>2, TypeInv DEF TypeInv
  <2>. QED BY <2>1, <2>2, <2>3, <2>4
<1>4. sink' \in [Writers -> BOOLEAN] /\ fresh' \in [Writers -> BOOLEAN]
  BY <1>0, Zenon DEF TypeInv, TypeOK
<1>5. faults' \in 0 .. MaxFaults
  <2>1. faults \in 0 .. MaxFaults
    BY DEF TypeInv, TypeOK
  <2>. QED BY <1>0, <2>1
<1>. QED BY <1>0, <1>1, <1>2, <1>3, <1>4, <1>5 DEF TypeInv, TypeOK

LEMMA OpenNextDisk ==
  ASSUME TypeInv, NEW w \in Writers, OpenNext(w)
  PROVE  /\ files' \in Seq(Seq(Units))
         /\ names' \in [Generations -> 0 .. Len(files')]
         /\ fd'[w] \in 1 .. MaxFiles /\ fd' = [fd EXCEPT ![w] = fd'[w]]
         /\ Len(files') <= MaxFiles
         /\ \/ /\ names[0] = None
               /\ files' = Append(files, <<>>)
               /\ Len(files') = Len(files) + 1
               /\ files'[Len(files) + 1] = <<>>
               /\ names' = [names EXCEPT ![0] = Len(files) + 1]
               /\ fd'[w] = Len(files) + 1
            \/ /\ names[0] # None
               /\ UNCHANGED disk
               /\ fd'[w] = names[0]
         /\ \A f \in DOMAIN files : files'[f] = files[f]
<1>1. files \in Seq(Seq(Units)) /\ fd \in [Writers -> 0 .. MaxFiles] /\ MaxFiles \in Nat
  BY DEF TypeInv, TypeOK
<1>2. <<>> \in Seq(Units)
  BY EmptySeq
<1>3. fd' = [fd EXCEPT ![w] = names'[0]] /\ fd'[w] = names'[0]
  BY <1>1 DEF OpenNext
<1>4. CASE names[0] = None
  <2>1. /\ Len(files) < MaxFiles
        /\ files' = Append(files, <<>>)
        /\ names' = [names EXCEPT ![0] = Len(files')]
    BY <1>4 DEF OpenNext
  <2>2. /\ files' \in Seq(Seq(Units))
        /\ Len(files') = Len(files) + 1
        /\ \A f \in 1 .. Len(files) : files'[f] = files[f]
        /\ files'[Len(files) + 1] = <<>>
    BY ONLY <1>1, <1>2, <2>1, AppendProperties
  <2>3. Len(files') <= MaxFiles /\ Len(files') \in 1 .. MaxFiles
    BY <1>1, <2>1, <2>2, NameFacts
  <2>4. names' \in [Generations -> 0 .. Len(files')] /\ names'[0] = Len(files) + 1
    BY <2>1, <2>2, NameFacts
  <2>. QED BY <1>3, <1>4, <2>1, <2>2, <2>3, <2>4, NameFacts
<1>5. CASE names[0] # None
  <2>1. UNCHANGED disk
    BY <1>5 DEF OpenNext
  <2>2. names[0] \in 1 .. MaxFiles
    BY <1>5, <1>1, NameFacts DEF None
  <2>. QED BY <1>1, <1>3, <1>5, <2>1, <2>2, NameFacts DEF disk
<1>. QED BY <1>4, <1>5

\* Opening, writing and filling the channel.
LEMMA LoudStepsKeepTypeInv ==
  ASSUME TypeInv, NEW w \in Writers,
         Start(w) \/ Write(w) \/ OpenNext(w) \/ \E ends \in BOOLEAN : Output(w, ends)
  PROVE  TypeInv'
<1>0. /\ writer \in [Writers -> Phases] /\ gen \in [Writers -> 0 .. Retained]
      /\ fd \in [Writers -> 0 .. MaxFiles] /\ size \in [Writers -> Nat]
      /\ fresh \in [Writers -> BOOLEAN] /\ sink \in [Writers -> BOOLEAN]
      /\ queue \in [Writers -> Seq(BOOLEAN)]
      /\ made \in [starts : 0 .. MaxStarts, chunks : 0 .. MaxChunks]
      /\ faults \in 0 .. MaxFaults /\ view \in Views
      /\ \A u \in Writers : Len(queue[u]) <= QueueCap + 1
      /\ \A u \in Writers : writer[u] = "shift" => gen[u] \in 1 .. Retained - 1
  BY DEF TypeInv, TypeOK
<1>00. <<>> \in Seq(BOOLEAN) /\ Len(<<>>) <= QueueCap + 1
  <2>1. <<>> \in Seq(BOOLEAN) /\ Len(<<>>) = 0
    BY EmptySeq
  <2>. QED BY <2>1
<1>1. CASE Start(w)
  <2>1. Len(files'[fd'[w]]) \in Nat
    BY <1>1, StartDisk, NameFacts, LenProperties
  <2>2. /\ fd' = [fd EXCEPT ![w] = fd'[w]]
        /\ writer' = [writer EXCEPT ![w] = "ready"]
        /\ fresh' = [fresh EXCEPT ![w] = TRUE]
        /\ queue' = [queue EXCEPT ![w] = <<>>]
        /\ sink' = [sink EXCEPT ![w] = TRUE]
        /\ made.starts < MaxStarts /\ made' = [made EXCEPT !.starts = @ + 1]
        /\ gen' = gen /\ faults' = faults /\ view' = view
    BY <1>0, <1>1 DEF Start, Goto
  <2>3. /\ names' \in [Generations -> 0 .. Len(files')]
        /\ Len(files') <= MaxFiles /\ files' \in Seq(Seq(Units))
        /\ fd'[w] \in 0 .. MaxFiles
    <3>1. names \in [Generations -> 0 .. Len(files)] /\ Len(files) \in Nat
          /\ Len(files) <= MaxFiles /\ MaxFiles \in Nat
      BY NameFacts
    <3>2. fd'[w] \in 1 .. MaxFiles /\ files' \in Seq(Seq(Units))
      BY <1>1, StartDisk
    <3>3. \/ names' = names /\ Len(files') = Len(files)
          \/ /\ names' = [names EXCEPT ![0] = Len(files) + 1]
             /\ Len(files') = Len(files) + 1 /\ Len(files) < MaxFiles
      BY <1>1, StartDisk
    <3>4. CASE names' = names /\ Len(files') = Len(files)
      BY ONLY <3>1, <3>2, <3>4
    <3>5. CASE /\ names' = [names EXCEPT ![0] = Len(files) + 1]
               /\ Len(files') = Len(files) + 1 /\ Len(files) < MaxFiles
      <4>1. names \in [Generations -> 0 .. Len(files) + 1]
        BY ONLY <3>1
      <4>2. Len(files) + 1 \in 0 .. Len(files) + 1 /\ Len(files) + 1 <= MaxFiles
        BY ONLY <3>1, <3>5
      <4>3. names' \in [Generations -> 0 .. Len(files) + 1]
        BY ONLY <3>5, <4>1, <4>2
      <4>4. fd'[w] \in 0 .. MaxFiles
        BY ONLY <3>2
      <4>. QED BY ONLY <3>2, <3>5, <4>2, <4>3, <4>4
    <3>. QED BY ONLY <3>3, <3>4, <3>5
  <2>4. size' = [size EXCEPT ![w] = Len(files'[fd'[w]])]
    BY <1>1, StartDisk
  <2>5. made' \in [starts : 0 .. MaxStarts, chunks : 0 .. MaxChunks]
    <3>1. MaxStarts \in Nat /\ MaxChunks \in Nat
      OBVIOUS
    <3>2. made \in [starts : 0 .. MaxStarts, chunks : 0 .. MaxChunks]
      BY <1>0
    <3>. QED BY ONLY <2>2, <3>1, <3>2
  <2>6. queue' \in [Writers -> Seq(BOOLEAN)] /\ \A u \in Writers : Len(queue'[u]) <= QueueCap + 1
    BY ONLY <1>0, <1>00, <2>2
  <2>7. size' \in [Writers -> Nat] /\ fd' \in [Writers -> 0 .. MaxFiles]
    BY ONLY <1>0, <2>1, <2>2, <2>3, <2>4
  <2>8. writer' \in [Writers -> Phases]
        /\ \A u \in Writers : writer'[u] = "shift" => gen'[u] \in 1 .. Retained - 1
    BY ONLY <1>0, <2>2 DEF Phases
  <2>9. fresh' \in [Writers -> BOOLEAN] /\ sink' \in [Writers -> BOOLEAN]
    BY ONLY <1>0, <2>2, Zenon
  <2>. QED BY <1>0, <2>2, <2>3, <2>5, <2>6, <2>7, <2>8, <2>9 DEF TypeInv, TypeOK
<1>2. CASE Write(w)
  <2>1. /\ size' = [size EXCEPT ![w] = @ + 1]
        /\ fresh' = [fresh EXCEPT ![w] = Head(queue[w])]
        /\ UNCHANGED <<gen, writer, fd, sink, made, names, faults, view>>
    BY <1>2 DEF Write
  <2>2. names' \in [Generations -> 0 .. Len(files')] /\ Len(files') <= MaxFiles
        /\ files' \in Seq(Seq(Units))
    BY <1>2, <2>1, WriteDisk, NameFacts
  <2>3. size' \in [Writers -> Nat]
    BY ONLY <1>0, <2>1
  <2>4. fresh' \in [Writers -> BOOLEAN] /\ Head(queue[w]) \in BOOLEAN
    <3>1. Head(queue[w]) \in BOOLEAN
      BY <1>2, WriteDisk
    <3>2. \A b \in BOOLEAN : [fresh EXCEPT ![w] = b] \in [Writers -> BOOLEAN]
      BY ONLY <1>0, Zenon
    <3>. QED BY ONLY <2>1, <3>1, <3>2, Zenon
  <2>5. /\ queue' = [queue EXCEPT ![w] = Tail(queue[w])]
        /\ Tail(queue[w]) \in Seq(BOOLEAN) /\ Len(Tail(queue[w])) <= QueueCap + 1
    BY <1>2, WriteDisk
  <2>6. queue' \in [Writers -> Seq(BOOLEAN)]
        /\ \A u \in Writers : Len(queue'[u]) <= QueueCap + 1
    BY ONLY <1>0, <2>5
  <2>. QED BY <1>0, <2>1, <2>2, <2>3, <2>4, <2>6 DEF TypeInv, TypeOK
<1>3. CASE OpenNext(w)
  <2>1. /\ size' = [size EXCEPT ![w] = 0]
        /\ fresh' = [fresh EXCEPT ![w] = TRUE]
        /\ writer' = [writer EXCEPT ![w] = "ready"]
        /\ UNCHANGED <<gen, queue, sink, made, faults, view>>
    BY <1>3 DEF OpenNext, Goto
  <2>2. /\ names' \in [Generations -> 0 .. Len(files')] /\ Len(files') <= MaxFiles
        /\ files' \in Seq(Seq(Units)) /\ fd' = [fd EXCEPT ![w] = fd'[w]]
        /\ fd'[w] \in 0 .. MaxFiles
    BY <1>3, OpenNextDisk
  <2>3. size' \in [Writers -> Nat] /\ fd' \in [Writers -> 0 .. MaxFiles]
    BY ONLY <1>0, <2>1, <2>2
  <2>4. writer' \in [Writers -> Phases]
        /\ \A u \in Writers : writer'[u] = "shift" => gen'[u] \in 1 .. Retained - 1
    BY ONLY <1>0, <2>1 DEF Phases
  <2>5. fresh' \in [Writers -> BOOLEAN]
    BY ONLY <1>0, <2>1, Zenon
  <2>. QED BY <1>0, <2>1, <2>2, <2>3, <2>4, <2>5 DEF TypeInv, TypeOK
<1>4. CASE \E ends \in BOOLEAN : Output(w, ends)
  <2>1. PICK ends \in BOOLEAN : Output(w, ends)
    BY <1>4
  <2>2. /\ made.chunks < MaxChunks /\ made' = [made EXCEPT !.chunks = @ + 1]
        /\ \/ /\ Room(w)
              /\ queue' = [queue EXCEPT ![w] = Append(@, ends)]
              /\ sink' = sink
           \/ /\ sink' = [sink EXCEPT ![w] = FALSE]
              /\ queue' = queue
        /\ UNCHANGED <<gen, writer, fd, size, fresh, disk, faults, view>>
    BY <2>1 DEF Output
  <2>3. /\ Append(queue[w], ends) \in Seq(BOOLEAN)
        /\ Len(Append(queue[w], ends)) = Len(queue[w]) + 1
    BY ONLY <1>0, <2>1, w \in Writers, AppendProperties
  <2>4. /\ queue' \in [Writers -> Seq(BOOLEAN)]
        /\ \A u \in Writers : Len(queue'[u]) <= QueueCap + 1
    <3>1. Len(queue[w]) \in Nat /\ QueueCap \in Nat
      BY <1>0, LenProperties
    <3>2. CASE queue' = [queue EXCEPT ![w] = Append(@, ends)] /\ Room(w)
      <4>1. Len(queue[w]) + 1 <= QueueCap + 1
        <5>1. Len(queue[w]) - (IF writer[w] \in Rotating THEN 1 ELSE 0) < QueueCap
          BY <3>2 DEF Room
        <5>2. CASE writer[w] \in Rotating
          BY ONLY <3>1, <5>1, <5>2
        <5>3. CASE writer[w] \notin Rotating
          BY ONLY <3>1, <5>1, <5>3
        <5>. QED BY <5>2, <5>3
      <4>. QED BY ONLY <1>0, <2>3, <3>2, <4>1
    <3>. QED BY <1>0, <2>2, <3>2
  <2>5. made' \in [starts : 0 .. MaxStarts, chunks : 0 .. MaxChunks]
    <3>1. MaxStarts \in Nat /\ MaxChunks \in Nat
      OBVIOUS
    <3>2. made \in [starts : 0 .. MaxStarts, chunks : 0 .. MaxChunks]
      BY <1>0
    <3>. QED BY ONLY <2>2, <3>1, <3>2
  <2>6. sink' \in [Writers -> BOOLEAN]
    BY ONLY <1>0, <2>2, Zenon
  <2>7. files' = files /\ names' = names
    BY <2>2 DEF disk
  <2>. QED BY <1>0, <2>2, <2>4, <2>5, <2>6, <2>7, NameFacts DEF TypeInv, TypeOK
<1>. QED BY <1>1, <1>2, <1>3, <1>4
----
(* The search. *)

FirstFile == IF Seen = <<>> THEN view.file ELSE Seen[1].file

\* The cursor stands behind the last result; the file the search began with has
\* what it was due to find; and a page is full only with results in it.
SearchInv ==
  /\ IF Seen = <<>> THEN view.cursor = [offset |-> 0, line |-> 1]
     ELSE /\ view.cursor.offset = Seen[Len(Seen)].to
          /\ view.cursor.line = Seen[Len(Seen)].line + 1
  /\ \A i \in DOMAIN Seen : Seen[i].file \in DOMAIN files
  /\ view.state \in {"full", "next"} => Seen # <<>>
  /\ view.state = "idle" => Seen = <<>>
  /\ view.state \in {"reading", "full", "next", "done"} =>
       view.file \in DOMAIN files /\ view.due <= Len(files[FirstFile])
  /\ SearchReadsEveryLineOnce

\* read_bounded_line stands still only at the end of what is written.
LEMMA NextLineFacts ==
  ASSUME TypeInv, view.file \in DOMAIN files
  PROVE  NextLine \in Nat
         /\ (NextLine = view.cursor.offset => NextLine = Len(files[view.file]))
<1>. DEFINE text == files[view.file]
            ends == {i \in DOMAIN text : i > view.cursor.offset /\ text[i].ends}
<1>1. text \in Seq(Units) /\ DOMAIN text = 1 .. Len(text) /\ Len(text) \in Nat
  BY NameFacts, LenProperties
<1>2. ends \subseteq Nat
  BY <1>1
<1>3. NextLine = IF ends = {} THEN Len(text)
                 ELSE CHOOSE i \in ends : \A j \in ends : i <= j
  BY DEF NextLine
<1>4. CASE ends = {}
  BY ONLY <1>1, <1>3, <1>4
<1>5. CASE ends # {}
  <2>1. NextLine \in ends
    <3>. HIDE DEF ends
    <3>1. \E i \in ends : \A j \in ends : i <= j
      BY <1>2, <1>5, LeastElement
    <3>. QED BY <1>3, <1>5, <3>1
  <2>2. NextLine > view.cursor.offset /\ view.cursor.offset \in Nat
    BY <2>1 DEF TypeInv, Views
  <2>. QED BY <1>2, <2>1, <2>2
<1>. QED BY <1>4, <1>5

LEMMA ViewStepsKeepTypeInv ==
  ASSUME TypeInv, SearchInv,
         (\E g \in Generations : OpenPage(g)) \/ ReadLine \/ EndPage \/ Crash
  PROVE  TypeInv'
<1>0. view \in Views /\ Seen \in Seq(Lines) /\ view.cursor.offset \in Nat
      /\ view.cursor.line \in Nat /\ view.file \in Nat
  BY DEF TypeInv, Views, Seen
<1>1. CASE \E g \in Generations : OpenPage(g)
  <2>1. PICK g \in Generations : OpenPage(g)
    BY <1>1
  <2>2. names[g] \in Nat /\ Len(files[names[g]]) \in Nat
    <3>1. names[g] # None
      BY <2>1 DEF OpenPage
    <3>2. names[g] \in 1 .. Len(files)
      BY <3>1, NameFacts DEF None
    <3>. QED BY <3>2, NameFacts, LenProperties
  <2>3. \E st \in Searches, d \in Nat :
          view' = [view EXCEPT !.state = st, !.name = g, !.file = names[g],
                               !.pages = @ + 1, !.hits = 0, !.due = d]
    <3>1. view.due \in Nat
      BY DEF TypeInv, Views
    <3>. QED BY <2>1, <2>2, <3>1 DEF OpenPage, Searches
  <2>4. view' \in Views
    <3>1. PICK st \in Searches, d \in Nat :
            view' = [view EXCEPT !.state = st, !.name = g, !.file = names[g],
                                 !.pages = @ + 1, !.hits = 0, !.due = d]
      BY <2>3
    <3>2. view.pages + 1 \in Nat
      BY <1>0 DEF Views
    <3>3. view' = [state |-> st, name |-> g, file |-> names[g], pages |-> view.pages + 1,
                   hits |-> 0, due |-> d, cursor |-> view.cursor, seen |-> view.seen]
      BY ONLY <1>0, <3>1 DEF Views
    <3>4. view.cursor \in [offset : Nat, line : Nat] /\ view.seen \in Seq(Lines)
      BY <1>0 DEF Views
    <3>. QED BY ONLY <2>2, <3>2, <3>3, <3>4, g \in Generations, st \in Searches, d \in Nat
             DEF Views
  <2>. QED BY <2>1, <2>4 DEF OpenPage, TypeInv, TypeOK, disk, threads
<1>2. CASE ReadLine
  <2>1. NextLine \in Nat
    BY <1>2, NextLineFacts DEF ReadLine, SearchInv
  <2>2. Line(view.file, view.cursor.offset, NextLine, view.cursor.line) \in Lines
    BY <1>0, <2>1 DEF Line, Lines
  <2>3. Append(Seen, Line(view.file, view.cursor.offset, NextLine, view.cursor.line))
          \in Seq(Lines)
    BY <1>0, <2>2, AppendProperties
  <2>4. \E st \in Searches, lines \in Seq(Lines), o \in Nat, n \in Nat :
          view' = [view EXCEPT !.state = st, !.hits = @ + 1, !.seen = lines,
                               !.cursor = [offset |-> o, line |-> n]]
    <3>1. \E st \in Searches : st = IF view.hits + 1 >= PageSize THEN "full" ELSE "reading"
      BY DEF Searches
    <3>2. view.cursor.line + 1 \in Nat
      BY <1>0
    <3>. QED BY <1>2, <2>1, <2>3, <3>1, <3>2 DEF ReadLine, Advance, Seen
  <2>5. view' \in Views
    <3>1. PICK st \in Searches, lines \in Seq(Lines), o \in Nat, n \in Nat :
            view' = [view EXCEPT !.state = st, !.hits = @ + 1, !.seen = lines,
                                 !.cursor = [offset |-> o, line |-> n]]
      BY <2>4
    <3>2. view.hits + 1 \in Nat /\ view.name \in Generations /\ view.file \in Nat
          /\ view.pages \in Nat /\ view.due \in Nat
      BY <1>0 DEF Views
    <3>3. view' = [state |-> st, name |-> view.name, file |-> view.file,
                   pages |-> view.pages, hits |-> view.hits + 1, due |-> view.due,
                   cursor |-> [offset |-> o, line |-> n], seen |-> lines]
      BY ONLY <1>0, <3>1 DEF Views
    <3>. QED BY <3>2, <3>3 DEF Views
  <2>. QED BY <1>2, <2>5 DEF ReadLine, TypeInv, TypeOK, disk, threads
<1>3. CASE EndPage
  <2>1. view' \in Views
    BY <1>0, <1>3 DEF EndPage, Views, Searches
  <2>. QED BY <1>3, <2>1 DEF EndPage, TypeInv, TypeOK, disk, threads
<1>4. CASE Crash
  <2>1. view' \in Views
    BY <1>0, <1>4 DEF Crash, Views, Searches
  <2>2. faults' \in 0 .. MaxFaults
    <3>1. faults \in 0 .. MaxFaults /\ MaxFaults \in Nat
      BY DEF TypeInv, TypeOK
    <3>2. faults < MaxFaults /\ faults' = faults + 1
      BY <1>4 DEF Crash
    <3>. QED BY ONLY <3>1, <3>2
  <2>3. <<>> \in Seq(BOOLEAN) /\ Len(<<>>) <= QueueCap + 1
    <3>1. <<>> \in Seq(BOOLEAN) /\ Len(<<>>) = 0
      BY EmptySeq
    <3>. QED BY <3>1
  <2>4. queue' \in [Writers -> Seq(BOOLEAN)]
        /\ \A w \in Writers : Len(queue'[w]) <= QueueCap + 1
    BY ONLY <1>4, <2>3 DEF Crash
  <2>. QED BY <1>4, <2>1, <2>2, <2>4
           DEF Crash, TypeInv, TypeOK, disk, Phases
<1>. QED BY <1>1, <1>2, <1>3, <1>4

\* The steps of a terminal and its writer thread.
WriterStep(w) ==
  \/ Start(w) \/ Finish(w) \/ Write(w) \/ BeginRotation(w)
  \/ RemoveOldest(w) \/ Shift(w) \/ MoveActive(w) \/ OpenNext(w) \/ CallFails(w)
  \/ \E ends \in BOOLEAN : Output(w, ends)

\* No step of a writer takes a file or a byte away.
LEMMA FilesGrow ==
  ASSUME TypeInv, NEW w \in Writers, WriterStep(w)
  PROVE  /\ view' = view
         /\ DOMAIN files \subseteq DOMAIN files'
         /\ \A f \in DOMAIN files : Len(files[f]) <= Len(files'[f])
<1>0. /\ DOMAIN files = 1 .. Len(files) /\ Len(files) \in Nat
      /\ \A f \in DOMAIN files : files[f] \in Seq(Units) /\ Len(files[f]) \in Nat
  BY NameFacts, LenProperties
<1>1. view' = view
  BY DEF WriterStep, Start, Finish, Write, BeginRotation, RemoveOldest, Shift, MoveActive,
         OpenNext, CallFails, Output
<1>2. CASE Start(w)
  <2>1. /\ Len(files') = Len(files) \/ Len(files') = Len(files) + 1
        /\ files' \in Seq(Seq(Units))
    BY <1>2, StartDisk
  <2>2. DOMAIN files' = 1 .. Len(files')
    BY <2>1, LenProperties
  <2>3. DOMAIN files \subseteq DOMAIN files'
    <3>1. 1 .. Len(files) \subseteq 1 .. Len(files')
      BY <1>0, <2>1
    <3>. QED BY ONLY <1>0, <2>2, <3>1
  <2>4. ASSUME NEW f \in DOMAIN files PROVE Len(files[f]) <= Len(files'[f])
    <3>1. CASE f # fd'[w]
      BY <1>0, <1>2, <3>1, StartDisk
    <3>2. CASE f = fd'[w]
      <4>1. files'[f] = IF files[f] = <<>> THEN <<>> ELSE Append(files[f], NewLine)
        BY ONLY <1>0, <1>2, <3>2, StartDisk, TypeInv, f \in DOMAIN files, w \in Writers
      <4>2. NewLine \in Units
        BY DEF NewLine, Unit, Units
      <4>3. Len(Append(files[f], NewLine)) = Len(files[f]) + 1
        BY <1>0, <4>2, AppendProperties
      <4>. QED BY ONLY <1>0, <4>1, <4>3, f \in DOMAIN files
    <3>. QED BY <3>1, <3>2
  <2>. QED BY <1>1, <2>3, <2>4
<1>3. CASE Write(w)
  <2>1. DOMAIN files' = DOMAIN files
    BY <1>3 DEF Write, Put
  <2>2. ASSUME NEW f \in DOMAIN files PROVE Len(files[f]) <= Len(files'[f])
    <3>. DEFINE u == Unit(w, fresh[w], Head(queue[w]))
    <3>1. files'[f] = IF f = fd[w] THEN Append(files[f], u) ELSE files[f]
      BY <1>3, WriteDisk
    <3>2. u \in Units
      BY <1>3, WriteDisk
    <3>. HIDE DEF u
    <3>3. Len(Append(files[f], u)) = Len(files[f]) + 1
      BY <1>0, <3>2, AppendProperties
    <3>. QED BY ONLY <1>0, <3>1, <3>3, f \in DOMAIN files
  <2>. QED BY <1>1, <2>1, <2>2
<1>4. CASE OpenNext(w)
  <2>1. /\ Len(files') = Len(files) \/ Len(files') = Len(files) + 1
        /\ files' \in Seq(Seq(Units))
        /\ \A f \in DOMAIN files : files'[f] = files[f]
    BY <1>4, OpenNextDisk DEF disk
  <2>2. DOMAIN files' = 1 .. Len(files')
    BY <2>1, LenProperties
  <2>3. 1 .. Len(files) \subseteq 1 .. Len(files')
    BY <1>0, <2>1
  <2>4. DOMAIN files \subseteq DOMAIN files'
    BY ONLY <1>0, <2>2, <2>3
  <2>. QED BY ONLY <1>0, <1>1, <2>1, <2>4
<1>5. CASE ~(Start(w) \/ Write(w) \/ OpenNext(w))
  <2>1. files' = files
    BY <1>5 DEF WriterStep, Finish, BeginRotation, RemoveOldest, Shift, MoveActive,
                CallFails, Output, disk
  <2>. QED BY <1>0, <1>1, <2>1
<1>. QED BY <1>2, <1>3, <1>4, <1>5

LEMMA InitSearchInv == Init => SearchInv
BY DEF Init, SearchInv, SearchReadsEveryLineOnce, Seen

LEMMA WriterKeepsSearchInv ==
  ASSUME TypeInv, SearchInv, NEW w \in Writers, WriterStep(w)
  PROVE  SearchInv'
<1>1. /\ view' = view /\ DOMAIN files \subseteq DOMAIN files'
      /\ \A f \in DOMAIN files : Len(files[f]) <= Len(files'[f])
  BY FilesGrow
<1>2. Seen' = Seen /\ FirstFile' = FirstFile /\ UNCHANGED SearchReadsEveryLineOnce
  BY <1>1 DEF Seen, FirstFile, SearchReadsEveryLineOnce
<1>3. ASSUME view.state \in {"reading", "full", "next", "done"}
      PROVE  /\ view.file \in DOMAIN files'
             /\ view.due <= Len(files'[FirstFile])
  <2>1. FirstFile \in DOMAIN files
    <3>1. CASE Seen = <<>>
      BY <1>3, <3>1 DEF FirstFile, SearchInv
    <3>2. CASE Seen # <<>>
      <4>1. Seen \in Seq(Lines)
        BY DEF TypeInv, Views, Seen
      <4>2. 1 \in DOMAIN Seen
        BY <3>2, <4>1, EmptySeq, LenProperties
      <4>. QED BY <3>2, <4>2 DEF FirstFile, SearchInv
    <3>. QED BY <3>1, <3>2
  <2>2. view.due <= Len(files[FirstFile]) /\ view.file \in DOMAIN files
    BY <1>3 DEF SearchInv
  <2>3. view.due \in Nat /\ Len(files[FirstFile]) \in Nat /\ Len(files'[FirstFile]) \in Nat
    <3>1. view.due \in Nat /\ files[FirstFile] \in Seq(Units)
      BY <2>1, NameFacts DEF TypeInv, Views
    <3>2. files' \in Seq(Seq(Units))
      <4>1. Start(w) \/ Write(w) \/ OpenNext(w) \/ (\E ends \in BOOLEAN : Output(w, ends))
            => TypeInv'
        BY LoudStepsKeepTypeInv
      <4>. QED BY <4>1, QuietStepsKeepTypeInv DEF WriterStep, TypeInv
    <3>3. files'[FirstFile] \in Seq(Units)
      BY <1>1, <2>1, <3>2, LenProperties
    <3>. QED BY <3>1, <3>3, LenProperties
  <2>. QED BY ONLY <1>1, <2>1, <2>2, <2>3
<1>. QED BY <1>1, <1>2, <1>3 DEF SearchInv

\* The two conjuncts of the property, apart.
InOrder(seen) ==
  \A i \in DOMAIN seen :
    IF i = 1 THEN seen[1].from = 0 /\ seen[1].line = 1
    ELSE seen[i].file = seen[i - 1].file =>
           seen[i].from = seen[i - 1].to /\ seen[i].line = seen[i - 1].line + 1

AllFound ==
  (view.state = "done" /\ \A i \in DOMAIN Seen : Seen[i].file = view.file) =>
    view.due <= IF Seen = <<>> THEN 0 ELSE Seen[Len(Seen)].to

LEMMA SearchParts == SearchReadsEveryLineOnce <=> InOrder(Seen) /\ AllFound
BY DEF SearchReadsEveryLineOnce, InOrder, AllFound

LEMMA OpenPageKeepsSearchInv ==
  ASSUME TypeInv, SearchInv, NEW g \in Generations, OpenPage(g)
  PROVE  SearchInv'
<1>1. /\ Seen' = Seen /\ view'.cursor = view.cursor /\ files' = files
      /\ view'.file = names[g] /\ view'.state \in {"reading", "rejected"}
      /\ view'.due = IF view.state = "idle" THEN Len(files[names[g]]) ELSE view.due
      /\ view.state \in {"idle", "next"} /\ names[g] # None
  BY DEF OpenPage, Seen, TypeInv, Views, disk
<1>2. names[g] \in DOMAIN files /\ Len(files[names[g]]) \in Nat
  <2>1. names[g] \in 1 .. Len(files)
    BY <1>1, NameFacts DEF None
  <2>. QED BY <2>1, NameFacts, LenProperties
<1>3. view'.due <= Len(files'[FirstFile'])
  <2>1. CASE view.state = "idle"
    <3>1. Seen = <<>>
      BY <2>1 DEF SearchInv
    <3>2. FirstFile' = names[g]
      BY <1>1, <3>1 DEF FirstFile
    <3>. QED BY <1>1, <1>2, <2>1, <3>2
  <2>2. CASE view.state = "next"
    <3>1. Seen # <<>> /\ view.due <= Len(files[FirstFile])
      BY <2>2 DEF SearchInv
    <3>2. FirstFile' = FirstFile
      BY <1>1, <3>1 DEF FirstFile
    <3>. QED BY <1>1, <2>2, <3>1, <3>2
  <2>. QED BY <1>1, <2>1, <2>2
<1>4. SearchReadsEveryLineOnce'
  <2>1. InOrder(Seen)
    BY SearchParts DEF SearchInv
  <2>2. InOrder(Seen') /\ AllFound'
    BY <1>1, <2>1 DEF AllFound
  <2>3. SearchReadsEveryLineOnce' <=> InOrder(Seen') /\ AllFound'
    BY DEF SearchReadsEveryLineOnce, InOrder, AllFound
  <2>. QED BY <2>2, <2>3
<1>. QED BY <1>1, <1>2, <1>3, <1>4 DEF SearchInv

LEMMA ReadLineKeepsSearchInv ==
  ASSUME TypeInv, SearchInv, ReadLine
  PROVE  SearchInv'
<1>. DEFINE it == Line(view.file, view.cursor.offset, NextLine, view.cursor.line)
            n  == Len(Seen)
<1>1. /\ Seen' = Append(Seen, it) /\ view'.cursor = [offset |-> NextLine, line |-> view.cursor.line + 1]
      /\ view'.state \in {"reading", "full"} /\ view'.due = view.due
      /\ view'.file = view.file /\ files' = files /\ view.state = "reading"
  BY DEF ReadLine, Seen, TypeInv, Views, disk, Advance
<1>2. view.file \in DOMAIN files /\ NextLine \in Nat /\ view.due <= Len(files[FirstFile])
  <2>1. view.file \in DOMAIN files /\ view.due <= Len(files[FirstFile])
    BY <1>1 DEF SearchInv
  <2>. QED BY <2>1, NextLineFacts
<1>3. it \in Lines /\ Seen \in Seq(Lines) /\ n \in Nat /\ DOMAIN Seen = 1 .. n
  <2>1. Seen \in Seq(Lines) /\ view.file \in Nat /\ view.cursor.offset \in Nat
        /\ view.cursor.line \in Nat
    BY DEF TypeInv, Views, Seen
  <2>. QED BY <1>2, <2>1, LenProperties DEF Line, Lines
<1>4. /\ it.file = view.file /\ it.to = NextLine /\ it.from = view.cursor.offset
      /\ it.line = view.cursor.line
  BY DEF Line
<1>. HIDE DEF it
<1>5. /\ Seen' # <<>> /\ Len(Seen') = n + 1 /\ Seen'[n + 1] = it
      /\ \A i \in 1 .. n : Seen'[i] = Seen[i]
      /\ DOMAIN Seen' = 1 .. n + 1
  BY <1>1, <1>3, AppendProperties, LenProperties
<1>6. \A i \in DOMAIN Seen' : Seen'[i].file \in DOMAIN files'
  <2>1. \A i \in 1 .. n : Seen[i].file \in DOMAIN files
    BY <1>3 DEF SearchInv
  <2>. QED BY <1>1, <1>2, <1>3, <1>4, <1>5, <2>1
<1>7. FirstFile' = FirstFile
  <2>1. CASE Seen = <<>>
    <3>1. n = 0 BY <2>1, EmptySeq
    <3>. QED BY <1>4, <1>5, <2>1, <3>1 DEF FirstFile
  <2>2. CASE Seen # <<>>
    <3>1. 1 \in 1 .. n BY <1>3, <2>2, EmptySeq
    <3>. QED BY <1>5, <2>2, <3>1 DEF FirstFile
  <2>. QED BY <2>1, <2>2
<1>8. InOrder(Seen')
  <2>1. InOrder(Seen)
    BY SearchParts DEF SearchInv
  <2>2. CASE Seen = <<>>
    <3>1. n = 0 /\ view.cursor.offset = 0 /\ view.cursor.line = 1
      BY <2>2, EmptySeq DEF SearchInv
    <3>. QED BY <1>4, <1>5, <3>1 DEF InOrder
  <2>3. CASE Seen # <<>>
    <3>1. n >= 1 /\ it.from = Seen[n].to /\ it.line = Seen[n].line + 1
      BY <1>3, <1>4, <2>3, EmptySeq DEF SearchInv
    <3>2. ASSUME NEW i \in 1 .. n + 1
          PROVE  IF i = 1 THEN Seen'[1].from = 0 /\ Seen'[1].line = 1
                 ELSE Seen'[i].file = Seen'[i - 1].file =>
                        Seen'[i].from = Seen'[i - 1].to
                        /\ Seen'[i].line = Seen'[i - 1].line + 1
      <4>1. CASE i = n + 1
        <5>1. i - 1 \in 1 .. n /\ i # 1 /\ i - 1 = n
          BY <1>3, <3>1, <4>1
        <5>. QED BY <1>5, <3>1, <4>1, <5>1
      <4>2. CASE i \in 1 .. n
        <5>1. i # 1 => i - 1 \in 1 .. n
          BY <4>2
        <5>2. 1 \in 1 .. n
          BY <1>3, <3>1
        <5>. QED BY <1>3, <1>5, <2>1, <4>2, <5>1, <5>2 DEF InOrder
      <4>. QED BY <1>3, <4>1, <4>2
    <3>. QED BY <1>5, <3>2 DEF InOrder
  <2>. QED BY <2>2, <2>3
<1>9. SearchReadsEveryLineOnce'
  <2>1. AllFound'
    BY <1>1 DEF AllFound
  <2>2. SearchReadsEveryLineOnce' <=> InOrder(Seen') /\ AllFound'
    BY DEF SearchReadsEveryLineOnce, InOrder, AllFound
  <2>. QED BY <1>8, <2>1, <2>2
<1>10. view'.cursor.offset = Seen'[Len(Seen')].to
       /\ view'.cursor.line = Seen'[Len(Seen')].line + 1
  BY <1>1, <1>4, <1>5
<1>11. view'.file \in DOMAIN files' /\ view'.due <= Len(files'[FirstFile'])
  BY <1>1, <1>2, <1>7
<1>12. view'.state # "idle"
  BY <1>1
<1>. QED BY <1>5, <1>6, <1>9, <1>10, <1>11, <1>12 DEF SearchInv

LEMMA EndPageKeepsSearchInv ==
  ASSUME TypeInv, SearchInv, EndPage
  PROVE  SearchInv'
<1>1. /\ Seen' = Seen /\ view'.cursor = view.cursor /\ view'.due = view.due
      /\ view'.file = view.file /\ files' = files
      /\ view'.state = IF view.state = "full" /\ view.cursor.offset < Len(files[view.file])
                         THEN "next" ELSE "done"
      /\ \/ view.state = "full"
         \/ view.state = "reading" /\ NextLine = view.cursor.offset
  BY DEF EndPage, Seen, TypeInv, Views, disk
<1>2. /\ view.file \in DOMAIN files /\ view.due <= Len(files[FirstFile])
      /\ view.due \in Nat /\ view.cursor.offset \in Nat
      /\ Len(files[view.file]) \in Nat
  <2>1. view.file \in DOMAIN files /\ view.due <= Len(files[FirstFile])
    BY <1>1 DEF SearchInv
  <2>. QED BY <2>1, NameFacts, LenProperties DEF TypeInv, Views
<1>3. FirstFile' = FirstFile
  BY <1>1 DEF FirstFile
<1>4. view'.state = "done" => view.cursor.offset >= Len(files[view.file])
  <2>1. CASE view.state = "full"
    BY <1>1, <1>2, <2>1
  <2>2. CASE view.state = "reading" /\ NextLine = view.cursor.offset
    BY <1>2, <2>2, NextLineFacts
  <2>. QED BY <1>1, <2>1, <2>2
<1>5. AllFound'
  <2>. SUFFICES ASSUME view'.state = "done", \A i \in DOMAIN Seen : Seen[i].file = view.file
                PROVE  view.due <= IF Seen = <<>> THEN 0 ELSE Seen[Len(Seen)].to
    BY <1>1 DEF AllFound
  <2>1. FirstFile = view.file
    <3>1. Seen # <<>> => 1 \in DOMAIN Seen
      <4>1. Seen \in Seq(Lines)
        BY DEF TypeInv, Views, Seen
      <4>. QED BY <4>1, EmptySeq, LenProperties
    <3>. QED BY <3>1 DEF FirstFile
  <2>2. view.due <= view.cursor.offset
    BY <1>2, <1>4, <2>1
  <2>3. Seen = <<>> => view.cursor.offset = 0
    BY DEF SearchInv
  <2>4. Seen # <<>> => view.cursor.offset = Seen[Len(Seen)].to
    BY DEF SearchInv
  <2>. QED BY <2>2, <2>3, <2>4
<1>6. SearchReadsEveryLineOnce'
  <2>1. InOrder(Seen')
    BY <1>1, SearchParts DEF SearchInv
  <2>2. SearchReadsEveryLineOnce' <=> InOrder(Seen') /\ AllFound'
    BY DEF SearchReadsEveryLineOnce, InOrder, AllFound
  <2>. QED BY <1>5, <2>1, <2>2
<1>. QED BY <1>1, <1>2, <1>3, <1>6 DEF SearchInv

LEMMA CrashKeepsSearchInv ==
  ASSUME TypeInv, SearchInv, Crash
  PROVE  SearchInv'
<1>1. /\ Seen' = Seen /\ view'.cursor = view.cursor /\ files' = files
      /\ view'.state = "over" /\ view'.file = view.file /\ view'.due = view.due
  BY DEF Crash, Seen, TypeInv, Views, disk
<1>2. SearchReadsEveryLineOnce'
  <2>1. InOrder(Seen') /\ AllFound'
    BY <1>1, SearchParts DEF SearchInv, AllFound
  <2>2. SearchReadsEveryLineOnce' <=> InOrder(Seen') /\ AllFound'
    BY DEF SearchReadsEveryLineOnce, InOrder, AllFound
  <2>. QED BY <2>1, <2>2
<1>. QED BY <1>1, <1>2 DEF SearchInv

LEMMA StepTypeInv ==
  ASSUME TypeInv, SearchInv, [Next]_vars
  PROVE  TypeInv' /\ SearchInv'
<1>1. ASSUME NEW w \in Writers, WriterStep(w) PROVE TypeInv' /\ SearchInv'
  <2>1. TypeInv'
    BY <1>1, LoudStepsKeepTypeInv, QuietStepsKeepTypeInv DEF WriterStep
  <2>. QED BY <1>1, <2>1, WriterKeepsSearchInv
<1>2. CASE \E g \in Generations : OpenPage(g)
  BY <1>2, ViewStepsKeepTypeInv, OpenPageKeepsSearchInv
<1>3. CASE ReadLine
  BY <1>3, ViewStepsKeepTypeInv, ReadLineKeepsSearchInv
<1>4. CASE EndPage
  BY <1>4, ViewStepsKeepTypeInv, EndPageKeepsSearchInv
<1>5. CASE Crash
  BY <1>5, ViewStepsKeepTypeInv, CrashKeepsSearchInv
<1>6. CASE UNCHANGED vars
  <2>1. UNCHANGED <<writer, gen, fd, size, fresh, queue, sink, made, names, files, faults, view>>
    BY <1>6 DEF vars, threads, disk
  <2>2. SearchReadsEveryLineOnce' /\ Seen' = Seen /\ FirstFile' = FirstFile
    BY <2>1 DEF SearchInv, SearchReadsEveryLineOnce, Seen, FirstFile
  <2>3. SearchInv'
    BY <2>1, <2>2 DEF SearchInv
  <2>4. TypeInv'
    BY <2>1 DEF TypeInv, TypeOK
  <2>. QED BY <2>3, <2>4
<1>. QED BY <1>1, <1>2, <1>3, <1>4, <1>5, <1>6 DEF Next, WriterStep

LEMMA TypeInvHolds == Spec => [](TypeInv /\ SearchInv)
<1>1. Init => TypeInv /\ SearchInv
  BY InitTypeInv, InitSearchInv
<1>2. TypeInv /\ SearchInv /\ [Next]_vars => (TypeInv /\ SearchInv)'
  BY StepTypeInv
<1>. QED BY <1>1, <1>2, PTL DEF Spec

\* The types of the session log, for any number of writers of one file name.
THEOREM TypeCorrect == Spec => []TypeOK
<1>1. TypeInv => TypeOK
  BY DEF TypeInv
<1>. QED BY <1>1, TypeInvHolds, PTL

\* Whatever the writers do to the files under it, a search gives every byte of a
\* file once and in order, and misses nothing that was there when it began.
THEOREM SearchCorrect == Spec => []SearchReadsEveryLineOnce
<1>1. SearchInv => SearchReadsEveryLineOnce
  BY DEF SearchInv
<1>. QED BY <1>1, TypeInvHolds, PTL
----
(* The contents of the files, with one writer of the file name. *)

OneWriter == \A v, w \in Writers : v = w

AtLineStart(text) == text = <<>> \/ text[Len(text)].ends
Stamped(text) ==
  \A i \in DOMAIN text :
    text[i] # NewLine => (text[i].stamp <=> (i = 1 \/ text[i - 1].ends))
Bounded(text) == Cardinality({i \in DOMAIN text : text[i] # NewLine}) <= Limit

\* From its start to the move of the active file the writer has the named file
\* open, knows its length and knows whether it ends with a line's end.
Attached ==
  \A w \in Writers :
    /\ writer[w] \in {"ready", "remove", "shift", "move"} =>
         /\ names[0] # None /\ fd[w] = names[0]
         /\ size[w] = Len(files[fd[w]])
         /\ fresh[w] <=> AtLineStart(files[fd[w]])
    /\ writer[w] = "open" => names[0] = None

LineInv == Attached /\ LinesStampedOnce /\ FilesAreBounded

LEMMA TextParts ==
  /\ LinesStampedOnce <=> \A f \in DOMAIN files : Stamped(files[f])
  /\ FilesAreBounded <=> \A f \in DOMAIN files : Bounded(files[f])
BY DEF LinesStampedOnce, FilesAreBounded, Stamped, Bounded

LEMMA AppendStamped ==
  ASSUME NEW text \in Seq(Units), NEW u \in Units, Stamped(text),
         u # NewLine => (u.stamp <=> AtLineStart(text))
  PROVE  Stamped(Append(text, u))
<1>1. /\ Len(text) \in Nat /\ DOMAIN text = 1 .. Len(text)
      /\ DOMAIN Append(text, u) = 1 .. Len(text) + 1
      /\ \A i \in 1 .. Len(text) : Append(text, u)[i] = text[i]
      /\ Append(text, u)[Len(text) + 1] = u
  BY AppendProperties, LenProperties
<1>2. text = <<>> <=> Len(text) = 0
  BY EmptySeq
<1>. SUFFICES ASSUME NEW i \in 1 .. Len(text) + 1, Append(text, u)[i] # NewLine
              PROVE  Append(text, u)[i].stamp <=> (i = 1 \/ Append(text, u)[i - 1].ends)
  BY <1>1 DEF Stamped
<1>3. CASE i = Len(text) + 1
  <2>1. CASE Len(text) = 0
    BY <1>1, <1>2, <1>3, <2>1 DEF AtLineStart
  <2>2. CASE Len(text) # 0
    <3>1. i - 1 = Len(text) /\ i - 1 \in 1 .. Len(text) /\ i # 1
      BY <1>1, <1>3, <2>2
    <3>2. Append(text, u)[i - 1] = text[Len(text)]
      BY <1>1, <3>1
    <3>. QED BY <1>1, <1>2, <1>3, <2>2, <3>1, <3>2 DEF AtLineStart
  <2>. QED BY <2>1, <2>2
<1>4. CASE i \in 1 .. Len(text)
  <2>1. i # 1 => i - 1 \in 1 .. Len(text)
    BY <1>4
  <2>. QED BY <1>1, <1>4, <2>1 DEF Stamped
<1>. QED BY <1>1, <1>3, <1>4

LEMMA AppendBounded ==
  ASSUME NEW text \in Seq(Units), NEW u \in Units, Bounded(text),
         u = NewLine \/ Len(text) + 1 <= Limit
  PROVE  Bounded(Append(text, u))
<1>. DEFINE all == Append(text, u)
            out == {i \in DOMAIN all : all[i] # NewLine}
<1>1. /\ Len(text) \in Nat /\ DOMAIN text = 1 .. Len(text)
      /\ DOMAIN all = 1 .. Len(text) + 1
      /\ \A i \in 1 .. Len(text) : all[i] = text[i]
      /\ all[Len(text) + 1] = u
  BY AppendProperties, LenProperties
<1>. HIDE DEF all
<1>2. CASE u = NewLine
  <2>1. out = {i \in DOMAIN text : text[i] # NewLine}
    BY <1>1, <1>2
  <2>. QED BY <2>1 DEF Bounded, all
<1>3. CASE Len(text) + 1 <= Limit
  <2>1. out \subseteq 1 .. Len(text) + 1
    BY <1>1
  <2>2. IsFiniteSet(1 .. Len(text) + 1) /\ Cardinality(1 .. Len(text) + 1) = Len(text) + 1
    <3>1. IsFiniteSet(1 .. Len(text) + 1)
          /\ Cardinality(1 .. Len(text) + 1) =
               IF 1 > Len(text) + 1 THEN 0 ELSE (Len(text) + 1) - 1 + 1
      BY <1>1, FS_Interval
    <3>. QED BY <1>1, <3>1
  <2>3. Cardinality(out) <= Len(text) + 1 /\ Cardinality(out) \in Nat
    BY <2>1, <2>2, FS_Subset, FS_CardinalityType
  <2>4. Cardinality(out) <= Limit
    BY <1>1, <1>3, <2>3
  <2>. QED BY <2>4 DEF Bounded, all
<1>. QED BY <1>2, <1>3

LEMMA EmptyText == Stamped(<<>>) /\ Bounded(<<>>) /\ AtLineStart(<<>>)
<1>1. DOMAIN <<>> = {}
  OBVIOUS
<1>2. {i \in DOMAIN <<>> : <<>>[i] # NewLine} = {}
  BY <1>1
<1>3. Bounded(<<>>)
  BY <1>2, FS_EmptySet DEF Bounded
<1>. QED BY <1>1, <1>3 DEF Stamped, AtLineStart

LEMMA InitLineInv == Init => LineInv
<1>. SUFFICES ASSUME Init PROVE LineInv
  OBVIOUS
<1>1. Attached
  BY DEF Init, Attached
<1>2. DOMAIN files = {}
  BY DEF Init
<1>. QED BY <1>1, <1>2 DEF LineInv, LinesStampedOnce, FilesAreBounded

LEMMA StartKeepsLineInv ==
  ASSUME OneWriter, TypeInv, LineInv, NEW w \in Writers, Start(w)
  PROVE  LineInv'
<1>00. PICK f : f = fd'[w]
  OBVIOUS
<1>0. /\ DOMAIN files = 1 .. Len(files) /\ Len(files) \in Nat
      /\ \A g \in DOMAIN files : files[g] \in Seq(Units) /\ Stamped(files[g]) /\ Bounded(files[g])
      /\ names \in [Generations -> 0 .. Len(files)] /\ 0 \in Generations
  BY NameFacts, TextParts DEF LineInv
<1>1. /\ files' \in Seq(Seq(Units)) /\ DOMAIN files' = 1 .. Len(files')
      /\ \A g \in DOMAIN files : g # f => files'[g] = files[g]
      /\ size' = [size EXCEPT ![w] = Len(files'[f])]
  BY <1>00, StartDisk, LenProperties
<1>2. /\ fresh' = [fresh EXCEPT ![w] = TRUE] /\ writer' = [writer EXCEPT ![w] = "ready"]
      /\ size \in [Writers -> Nat] /\ fresh \in [Writers -> BOOLEAN]
      /\ writer \in [Writers -> Phases]
  BY DEF Start, Goto, TypeInv, TypeOK
<1>. DEFINE Good == /\ Stamped(files'[f]) /\ Bounded(files'[f]) /\ AtLineStart(files'[f])
                    /\ names'[0] = f /\ names'[0] # None
                    /\ \A g \in DOMAIN files' : g = f \/ g \in DOMAIN files
<1>3. ASSUME names[0] # None, f = names[0], UNCHANGED names, Len(files') = Len(files),
             files'[f] = IF files[f] = <<>> THEN <<>> ELSE Append(files[f], NewLine)
      PROVE  Good
  <2>1. f \in DOMAIN files
    BY <1>0, <1>3 DEF None
  <2>2. NewLine \in Units /\ NewLine.ends = TRUE
    BY DEF NewLine, Unit, Units
  <2>3. CASE files[f] = <<>>
    <3>1. files'[f] = <<>> BY <1>3, <2>3
    <3>. QED BY <1>0, <1>1, <1>3, <3>1, EmptyText
  <2>4. CASE files[f] # <<>>
    <3>1. files'[f] = Append(files[f], NewLine) BY <1>3, <2>4
    <3>2. Stamped(files'[f]) /\ Bounded(files'[f])
      BY <1>0, <2>1, <2>2, <3>1, AppendStamped, AppendBounded
    <3>3. /\ Len(files'[f]) = Len(files[f]) + 1
          /\ files'[f][Len(files[f]) + 1] = NewLine
      BY <1>0, <2>1, <2>2, <3>1, AppendProperties
    <3>4. AtLineStart(files'[f])
      BY <2>2, <3>3 DEF AtLineStart
    <3>. QED BY <1>0, <1>1, <1>3, <3>2, <3>4
  <2>. QED BY <2>3, <2>4
<1>4. ASSUME names[0] = None, f = Len(files) + 1, Len(files') = Len(files) + 1,
             names' = [names EXCEPT ![0] = Len(files) + 1], files'[f] = <<>>
      PROVE  Good
  <2>1. names'[0] = f /\ names'[0] # None
    BY <1>0, <1>4 DEF None
  <2>2. Stamped(files'[f]) /\ Bounded(files'[f]) /\ AtLineStart(files'[f])
    BY <1>4, EmptyText
  <2>3. \A g \in DOMAIN files' : g = f \/ g \in DOMAIN files
    BY <1>0, <1>1, <1>4
  <2>. QED BY <2>1, <2>2, <2>3
<1>5. Good
  <2>. HIDE DEF Good
  <2>. QED BY <1>00, <1>3, <1>4, StartDisk
<1>. HIDE DEF Good
<1>6. \A g \in DOMAIN files' : Stamped(files'[g]) /\ Bounded(files'[g])
  BY <1>0, <1>1, <1>5 DEF Good
<1>7. Attached'
  <2>1. names'[0] # None /\ fd'[w] = names'[0] /\ AtLineStart(files'[fd'[w]])
    BY <1>00, <1>5 DEF Good
  <2>2. size'[w] = Len(files'[fd'[w]]) /\ fresh'[w] = TRUE /\ writer'[w] = "ready"
    BY <1>00, <1>1, <1>2
  <2>3. AtLineStart(files'[fd'[w]]) <=> (AtLineStart(files[fd[w]]))'
    BY DEF AtLineStart
  <2>. QED BY <2>1, <2>2, <2>3 DEF Attached, OneWriter
<1>8. LinesStampedOnce' /\ FilesAreBounded'
  BY <1>6 DEF LinesStampedOnce, FilesAreBounded, Stamped, Bounded
<1>. QED BY <1>7, <1>8 DEF LineInv

LEMMA WriteKeepsLineInv ==
  ASSUME OneWriter, TypeInv, LineInv, NEW w \in Writers, Write(w)
  PROVE  LineInv'
<1>00. PICK f : f = fd[w]
  OBVIOUS
<1>01. PICK u : u = Unit(w, fresh[w], Head(queue[w]))
  OBVIOUS
<1>0. /\ DOMAIN files = 1 .. Len(files)
      /\ \A g \in DOMAIN files : files[g] \in Seq(Units) /\ Stamped(files[g]) /\ Bounded(files[g])
      /\ names \in [Generations -> 0 .. Len(files)] /\ 0 \in Generations
  BY NameFacts, TextParts DEF LineInv
<1>1. /\ names[0] # None /\ f = names[0] /\ size[w] = Len(files[f])
      /\ fresh[w] <=> AtLineStart(files[f])
      /\ writer[w] = "ready"
  BY <1>00 DEF LineInv, Attached, Write, HasChunk
<1>2. f \in DOMAIN files
  <2>1. names[0] \in 1 .. Len(files)
    BY <1>0, <1>1 DEF None
  <2>. QED BY <1>0, <1>1, <2>1
<1>3. /\ u \in Units /\ (u.stamp <=> fresh[w]) /\ u.ends = Head(queue[w])
      /\ files' \in Seq(Seq(Units)) /\ Len(files') = Len(files)
      /\ \A g \in DOMAIN files : files'[g] = IF g = f THEN Append(files[g], u) ELSE files[g]
  <2>1. /\ u \in Units /\ files' \in Seq(Seq(Units)) /\ Len(files') = Len(files)
        /\ \A g \in DOMAIN files : files'[g] = IF g = f THEN Append(files[g], u) ELSE files[g]
    BY <1>00, <1>01, WriteDisk
  <2>2. u.stamp = fresh[w] /\ u.ends = Head(queue[w])
    BY <1>01 DEF Unit
  <2>. QED BY <2>1, <2>2
<1>4. Len(files[f]) + 1 <= Limit
  <2>1. size[w] \in Nat /\ Limit \in Nat \ {0}
    BY DEF TypeInv, TypeOK
  <2>2. ~(size[w] > 0 /\ size[w] + 1 > Limit)
    BY DEF Write, Full
  <2>. QED BY <1>1, <2>1, <2>2
<1>5. Stamped(files'[f]) /\ Bounded(files'[f])
  BY <1>0, <1>1, <1>2, <1>3, <1>4, AppendStamped, AppendBounded
<1>6. DOMAIN files' = DOMAIN files
  BY <1>0, <1>3, LenProperties
<1>7. LinesStampedOnce' /\ FilesAreBounded'
  <2>1. \A g \in DOMAIN files' : Stamped(files'[g]) /\ Bounded(files'[g])
    BY <1>0, <1>3, <1>5, <1>6
  <2>. QED BY <2>1 DEF LinesStampedOnce, FilesAreBounded, Stamped, Bounded
<1>8. Attached'
  <2>1. /\ Len(files'[f]) = Len(files[f]) + 1 /\ files'[f][Len(files[f]) + 1] = u
        /\ files'[f] # <<>>
    <3>1. files'[f] = Append(files[f], u) /\ files[f] \in Seq(Units) /\ u \in Units
      BY <1>0, <1>2, <1>3
    <3>. QED BY ONLY <3>1, AppendProperties
  <2>2. AtLineStart(files'[f]) <=> u.ends
    BY <2>1 DEF AtLineStart
  <2>3. /\ size \in [Writers -> Nat] /\ fresh \in [Writers -> BOOLEAN]
        /\ size' = [size EXCEPT ![w] = @ + 1] /\ fresh' = [fresh EXCEPT ![w] = Head(queue[w])]
        /\ writer' = writer /\ names' = names /\ fd' = fd
    BY DEF Write, TypeInv, TypeOK
  <2>4. size'[w] = Len(files'[f]) /\ fresh'[w] = u.ends
    BY <1>1, <1>3, <2>1, <2>3
  <2>5. fd'[w] = f /\ names'[0] = f /\ writer'[w] = "ready"
    BY <1>00, <1>1, <2>3
  <2>6. AtLineStart(files'[f]) <=> fresh'[w]
    BY <2>2, <2>4
  <2>. QED BY <1>1, <2>3, <2>4, <2>5, <2>6 DEF Attached, OneWriter, AtLineStart
<1>. QED BY <1>7, <1>8 DEF LineInv

LEMMA OpenNextKeepsLineInv ==
  ASSUME OneWriter, TypeInv, LineInv, NEW w \in Writers, OpenNext(w)
  PROVE  LineInv'
<1>0. /\ DOMAIN files = 1 .. Len(files) /\ Len(files) \in Nat
      /\ \A g \in DOMAIN files : Stamped(files[g]) /\ Bounded(files[g])
      /\ names \in [Generations -> 0 .. Len(files)] /\ 0 \in Generations
  BY NameFacts, TextParts DEF LineInv
<1>1. names[0] = None
  BY DEF LineInv, Attached, OpenNext
<1>2. PICK f : f = Len(files) + 1
  OBVIOUS
<1>3. /\ files' \in Seq(Seq(Units)) /\ Len(files') = f /\ files'[f] = <<>>
      /\ names' = [names EXCEPT ![0] = f] /\ fd'[w] = f
      /\ \A g \in DOMAIN files : files'[g] = files[g]
  BY <1>1, <1>2, OpenNextDisk
<1>4. \A g \in DOMAIN files' : Stamped(files'[g]) /\ Bounded(files'[g])
  <2>1. DOMAIN files' = 1 .. Len(files) + 1
    BY <1>2, <1>3, LenProperties
  <2>2. \A g \in DOMAIN files' : g = f \/ g \in DOMAIN files
    BY <1>0, <1>2, <2>1
  <2>3. Stamped(files'[f]) /\ Bounded(files'[f])
    BY <1>3, EmptyText
  <2>. QED BY <1>0, <1>3, <2>2, <2>3
<1>5. LinesStampedOnce' /\ FilesAreBounded'
  BY <1>4 DEF LinesStampedOnce, FilesAreBounded, Stamped, Bounded
<1>6. Attached'
  <2>1. size'[w] = 0 /\ fresh'[w] = TRUE /\ writer'[w] = "ready"
    BY DEF OpenNext, Goto, TypeInv, TypeOK
  <2>2. AtLineStart(files'[f]) /\ Len(files'[f]) = 0
    BY <1>3, EmptyText, EmptySeq
  <2>3. names'[0] = f /\ f # None
    BY <1>0, <1>2, <1>3 DEF None
  <2>. QED BY <1>3, <2>1, <2>2, <2>3 DEF Attached, OneWriter, AtLineStart
<1>. QED BY <1>5, <1>6 DEF LineInv

LEMMA QuietStepsKeepLineInv ==
  ASSUME OneWriter, TypeInv, LineInv, NEW w \in Writers,
         \/ Finish(w) \/ BeginRotation(w) \/ RemoveOldest(w) \/ Shift(w)
         \/ MoveActive(w) \/ CallFails(w) \/ \E ends \in BOOLEAN : Output(w, ends)
  PROVE  LineInv'
<1>1. UNCHANGED <<files, fd, size, fresh>>
  BY DEF Finish, BeginRotation, RemoveOldest, Shift, MoveActive, CallFails, Output, disk
<1>2. LinesStampedOnce' /\ FilesAreBounded'
  BY <1>1 DEF LineInv, LinesStampedOnce, FilesAreBounded
<1>3. /\ names \in [Generations -> 0 .. Len(files)] /\ {0, 1, Retained} \subseteq Generations
      /\ writer \in [Writers -> Phases] /\ gen[w] \in Generations
  BY NameFacts DEF TypeInv, TypeOK
<1>4. \/ writer' = writer /\ names' = names
      \/ writer'[w] \in {"off", "stopped"}
      \/ /\ writer[w] \in {"ready", "remove", "shift"}
         /\ writer'[w] \in {"remove", "shift", "move"}
         /\ names'[0] = names[0]
      \/ writer'[w] = "open" /\ names'[0] = None
  <2>1. CASE Finish(w) \/ CallFails(w)
    BY <1>3, <2>1 DEF Finish, CallFails, Goto
  <2>2. CASE BeginRotation(w)
    BY <1>3, <2>2 DEF BeginRotation, Goto, disk, HasChunk
  <2>3. CASE RemoveOldest(w)
    BY <1>3, <2>3 DEF RemoveOldest, ToShift, Goto
  <2>4. CASE Shift(w)
    <3>1. gen[w] \in 1 .. Retained - 1
      BY <2>4 DEF Shift, TypeInv
    <3>2. names'[0] = names[0]
      <4>. PICK g : g = gen[w]
        OBVIOUS
      <4>1. g # 0 /\ g + 1 # 0 /\ 0 \in Generations
        BY <1>3, <3>1
      <4>2. names' = names \/ names' = [names EXCEPT ![g + 1] = names[g], ![g] = None]
        BY <2>4 DEF Shift, Rename
      <4>. QED BY <1>3, <4>1, <4>2
    <3>. QED BY <1>3, <2>4, <3>2 DEF Shift, ToShift, Goto
  <2>5. CASE MoveActive(w)
    BY <1>3, <2>5 DEF MoveActive, Goto, Rename
  <2>6. CASE \E ends \in BOOLEAN : Output(w, ends)
    BY <2>6 DEF Output, disk
  <2>. QED BY <2>1, <2>2, <2>3, <2>4, <2>5, <2>6
<1>5. Attached'
  BY <1>1, <1>4 DEF LineInv, Attached, OneWriter, AtLineStart
<1>. QED BY <1>2, <1>5 DEF LineInv

LEMMA StepLineInv ==
  ASSUME OneWriter, TypeInv, LineInv, [Next]_vars
  PROVE  LineInv'
<1>1. ASSUME NEW w \in Writers, WriterStep(w) PROVE LineInv'
  BY <1>1, StartKeepsLineInv, WriteKeepsLineInv, OpenNextKeepsLineInv, QuietStepsKeepLineInv
     DEF WriterStep
<1>2. CASE (\E g \in Generations : OpenPage(g)) \/ ReadLine \/ EndPage
  <2>1. UNCHANGED <<writer, fd, size, fresh, names, files>>
    BY <1>2 DEF OpenPage, ReadLine, EndPage, threads, disk
  <2>. QED BY <2>1 DEF LineInv, Attached, AtLineStart, LinesStampedOnce, FilesAreBounded
<1>3. CASE Crash
  BY <1>3 DEF Crash, disk, LineInv, Attached, LinesStampedOnce, FilesAreBounded
<1>4. CASE UNCHANGED vars
  BY <1>4 DEF vars, threads, disk, LineInv, Attached, AtLineStart, LinesStampedOnce,
              FilesAreBounded
<1>. QED BY <1>1, <1>2, <1>3, <1>4 DEF Next, WriterStep

LEMMA LineInvHolds ==
  ASSUME OneWriter
  PROVE  Spec => []LineInv
<1>1. Init => LineInv
  BY InitLineInv
<1>2. TypeInv /\ LineInv /\ [Next]_vars => LineInv'
  BY StepLineInv
<1>. QED BY <1>1, <1>2, TypeInvHolds, PTL DEF Spec

\* A line carries one stamp, at its start, across rotations, failing calls,
\* crashes and restarts, as long as one terminal at a time logs to the file.
THEOREM StampsCorrect ==
  ASSUME OneWriter
  PROVE  Spec => []LinesStampedOnce
<1>1. LineInv => LinesStampedOnce
  BY DEF LineInv
<1>. QED BY <1>1, LineInvHolds, PTL

\* No file exceeds the limit, because the writer always knows the length of the
\* file it has open.
THEOREM BoundCorrect ==
  ASSUME OneWriter
  PROVE  Spec => []FilesAreBounded
<1>1. LineInv => FilesAreBounded
  BY DEF LineInv
<1>. QED BY <1>1, LineInvHolds, PTL
----
(* The names of the files, with one writer of the file name. *)

Ordered ==
  \A g, h \in Generations :
    (g < h /\ names[g] # None /\ names[h] # None) => names[g] > names[h]
Contiguous == \A f \in Named : f .. Len(files) \subseteq Named
Enough == Cardinality(Named) + faults >= Least(Len(files), Retained)

\* Generations without a name below one that has one.
Holes == {g \in Generations :
            names[g] = None /\ \E h \in Generations : h > g /\ names[h] # None}

\* The generation that a rotation under way has freed and fills next.
Slot(w) ==
  CASE writer[w] = "shift" -> {gen[w] + 1}
    [] writer[w] = "move"  -> {1}
    [] writer[w] = "open"  -> {0}
    [] OTHER -> {}

\* A rotation leaves no other hole than the one it moves upwards, so each hole
\* of a log at rest is one rotation that was cut short.
HolesAreFaults ==
  \A w \in Writers :
    /\ \A g \in Slot(w) : names[g] = None
    /\ Cardinality(Holes \ Slot(w)) <= faults

NameInv == Ordered /\ Contiguous /\ Enough /\ HolesAreFaults

LEMMA ComplementCount ==
  ASSUME NEW S, IsFiniteSet(S), NEW T \in SUBSET S
  PROVE  Cardinality(S \ T) = Cardinality(S) - Cardinality(T)
<1>1. PICK D : D = S \ T
  OBVIOUS
<1>2. PICK E : E = S \cap T
  OBVIOUS
<1>3. Cardinality(D) = Cardinality(S) - Cardinality(E)
  BY <1>1, <1>2, FS_Difference
<1>4. E = T
  BY <1>2
<1>. QED BY <1>1, <1>3, <1>4

LEMMA FiniteNames ==
  /\ IsFiniteSet(Generations) /\ Cardinality(Generations) = Retained + 1
  /\ IsFiniteSet(Holes) /\ Cardinality(Holes) \in Nat
<1>1. IsFiniteSet(0 .. Retained) /\ Cardinality(0 .. Retained) = Retained + 1
  BY FS_Interval
<1>2. Holes \subseteq Generations
  BY DEF Holes
<1>. QED BY <1>1, <1>2, FS_Subset, FS_CardinalityType DEF Generations

\* The named files are as many as the generations in use.
LEMMA NamedCount ==
  ASSUME TypeInv, Ordered
  PROVE  /\ IsFiniteSet(Named) /\ Cardinality(Named) \in Nat
         /\ Cardinality(Named) = Cardinality({g \in Generations : names[g] # None})
<1>. DEFINE used == {g \in Generations : names[g] # None}
            name == [g \in used |-> names[g]]
<1>1. names \in [Generations -> Nat] /\ Generations \subseteq Nat
  BY NameFacts DEF Generations
<1>2. IsFiniteSet(used) /\ Cardinality(used) \in Nat
  BY FiniteNames, FS_Subset, FS_CardinalityType
<1>3. name \in [used -> Named]
  BY DEF Named
<1>4. \A v \in Named : \E g \in used : name[g] = v
  BY DEF Named
<1>5. \A g, h \in used : name[g] = name[h] => g = h
  <2>1. ASSUME NEW g \in used, NEW h \in used, names[g] = names[h], g # h PROVE FALSE
    <3>1. g \in Nat /\ h \in Nat /\ names[g] \in Nat
      BY <1>1
    <3>2. g < h \/ h < g
      BY <2>1, <3>1
    <3>. QED BY <2>1, <3>1, <3>2 DEF Ordered
  <2>. QED BY <2>1
<1>6. name \in Bijection(used, Named)
  BY <1>3, <1>4, <1>5 DEF Bijection, Injection, Surjection, IsInjective
<1>. HIDE DEF used, name
<1>7. IsFiniteSet(Named) /\ Cardinality(Named) = Cardinality(used)
  BY <1>2, <1>6, FS_Bijection DEF ExistsBijection
<1>. QED BY <1>2, <1>7 DEF used

\* RemoveOldest drops the oldest name, and a file with it only when no other
\* generation than the faults' holes is free.
LEMMA RemoveKeepsNames ==
  ASSUME TypeInv, NameInv, Cardinality(Holes) <= faults,
         names' = [names EXCEPT ![Retained] = None], files' = files, faults' = faults
  PROVE  /\ Ordered' /\ Contiguous' /\ Enough'
         /\ names'[Retained] = None /\ Holes' \subseteq Holes
<1>0. /\ names \in [Generations -> 0 .. Len(files)] /\ Len(files) \in Nat
      /\ Retained \in Generations /\ Generations = 0 .. Retained /\ faults \in Nat
  <2>1. faults \in Nat
    BY DEF TypeInv, TypeOK
  <2>. QED BY <2>1, NameFacts DEF Generations
<1>1. /\ names'[Retained] = None
      /\ \A g \in Generations : g # Retained => names'[g] = names[g]
      /\ \A g \in Generations : names'[g] # None => g # Retained /\ names[g] # None
  BY <1>0
<1>2. Ordered'
  BY <1>1 DEF NameInv, Ordered
<1>3. Holes' \subseteq Holes
  <2>1. ASSUME NEW g \in Holes' PROVE g \in Holes
    <3>1. g \in Generations /\ names'[g] = None
          /\ \E h \in Generations : h > g /\ names'[h] # None
      BY <2>1 DEF Holes
    <3>2. PICK h \in Generations : h > g /\ names'[h] # None
      BY <3>1
    <3>3. g # Retained
      BY <1>0, <3>1, <3>2
    <3>. QED BY <1>1, <3>1, <3>2, <3>3 DEF Holes
  <2>. QED BY <2>1
<1>4. CASE names[Retained] = None
  <2>1. names' = names
    BY <1>0, <1>4
  <2>2. Named' = Named
    BY <2>1 DEF Named
  <2>3. Contiguous' /\ Enough'
    BY <2>2 DEF NameInv, Contiguous, Enough
  <2>. QED BY <1>1, <1>2, <1>3, <2>3
<1>5. CASE names[Retained] # None
  <2>1. Named' = Named \ {names[Retained]} /\ names[Retained] \in Named
    <3>1. \A g \in Generations :
            g # Retained /\ names[g] # None => names[g] # names[Retained]
      BY <1>0, <1>5 DEF NameInv, Ordered
    <3>2. names[Retained] \in Named
      BY <1>0, <1>5 DEF Named
    <3>. QED BY <1>0, <1>1, <3>1, <3>2 DEF Named
  <2>2. \A f \in Named : f \in Nat /\ f >= names[Retained]
    BY <1>0, <1>5 DEF Named, NameInv, Ordered
  <2>3. Contiguous'
    <3>1. ASSUME NEW f \in Named', NEW e \in f .. Len(files) PROVE e \in Named'
      <4>1. f \in Named /\ f # names[Retained] /\ f \in Nat /\ f > names[Retained]
        <5>. PICK r : r = names[Retained]
          OBVIOUS
        <5>1. f \in Named /\ f # r /\ r \in Named
          BY <2>1, <3>1
        <5>2. f \in Nat /\ r \in Nat /\ f >= r
          BY <2>2, <5>1
        <5>3. f > r
          BY ONLY <5>1, <5>2
        <5>. QED BY <5>1, <5>2, <5>3
      <4>2. e \in Named /\ e # names[Retained]
        <5>. PICK r, k : r = names[Retained] /\ k = Len(files)
          OBVIOUS
        <5>1. f .. k \subseteq Named
          BY <4>1 DEF NameInv, Contiguous
        <5>2. e \in f .. k /\ f > r /\ f \in Nat /\ r \in Nat /\ k \in Nat
          BY <1>0, <2>1, <2>2, <3>1, <4>1
        <5>3. e # r
          BY ONLY <5>2
        <5>. QED BY <5>1, <5>2, <5>3
      <4>. QED BY <2>1, <4>2
    <3>. QED BY <3>1 DEF Contiguous
  <2>4. Enough'
    <3>1. IsFiniteSet(Named) /\ Cardinality(Named) \in Nat
          /\ Cardinality(Named) = Cardinality({g \in Generations : names[g] # None})
      BY NamedCount DEF NameInv
    <3>2. {g \in Generations : names[g] # None} = Generations \ Holes
          /\ Generations \cap Holes = Holes
      BY <1>0, <1>5 DEF Holes
    <3>3. Cardinality(Generations \ Holes) = Retained + 1 - Cardinality(Holes)
      <4>1. Holes \in SUBSET Generations
        BY DEF Holes
      <4>. QED BY <4>1, FiniteNames, ComplementCount
    <3>4. Cardinality(Named') = Cardinality(Named) - 1
      BY <2>1, <3>1, FS_RemoveElement
    <3>5. Cardinality(Named') + faults >= Retained
      <4>1. Cardinality(Named) = Retained + 1 - Cardinality(Holes)
        BY ONLY <3>1, <3>2, <3>3
      <4>. QED BY <1>0, <3>4, <4>1, FiniteNames
    <3>. QED BY <1>0, <3>1, <3>4, <3>5 DEF Enough, Least
  <2>. QED BY <1>1, <1>2, <1>3, <2>3, <2>4
<1>. QED BY <1>4, <1>5

\* A rename into the slot moves the slot down and names the same files.
LEMMA ShiftKeepsNames ==
  ASSUME TypeInv, NameInv, NEW g \in 0 .. Retained - 1, names[g + 1] = None,
         Cardinality(Holes \ {g + 1}) <= faults,
         names' = IF names[g] = None THEN names ELSE Rename(g, g + 1),
         files' = files, faults' = faults
  PROVE  /\ Ordered' /\ Contiguous' /\ Enough' /\ names'[g] = None
         /\ Cardinality(Holes' \ {g}) <= faults
<1>0. /\ names \in [Generations -> 0 .. Len(files)] /\ Len(files) \in Nat
      /\ Generations = 0 .. Retained /\ g \in Generations /\ g + 1 \in Generations
  BY NameFacts DEF Generations
<1>1. CASE names[g] = None
  <2>1. names' = names
    BY <1>1
  <2>2. Named' = Named /\ Holes' = Holes
    BY <2>1 DEF Named, Holes
  <2>3. Ordered' /\ Contiguous' /\ Enough'
    BY <2>1, <2>2 DEF NameInv, Ordered, Contiguous, Enough
  <2>4. g \in Holes <=> g + 1 \in Holes
    <3>1. \A h \in Generations : h > g /\ names[h] # None => h > g + 1
      BY <1>0
    <3>2. \A h \in Generations : h > g + 1 => h > g
      BY <1>0
    <3>. QED BY <1>0, <1>1, <3>1, <3>2 DEF Holes
  <2>5. Cardinality(Holes \ {g}) = Cardinality(Holes \ {g + 1})
    <3>1. \A x : Cardinality(Holes \ {x}) =
                   IF x \in Holes THEN Cardinality(Holes) - 1 ELSE Cardinality(Holes)
      BY FiniteNames, FS_RemoveElement
    <3>. QED BY <2>4, <3>1
  <2>. QED BY <1>1, <2>1, <2>2, <2>3, <2>5
<1>2. CASE names[g] # None
  <2>1. /\ names' = [names EXCEPT ![g + 1] = names[g], ![g] = None]
        /\ names'[g] = None /\ names'[g + 1] = names[g]
        /\ \A h \in Generations : h # g /\ h # g + 1 => names'[h] = names[h]
    <3>1. names' = [names EXCEPT ![g + 1] = names[g], ![g] = None]
      BY <1>2 DEF Rename
    <3>2. g # g + 1
      BY <1>0
    <3>. QED BY <1>0, <3>1, <3>2
  <2>2. Ordered'
    <3>1. ASSUME NEW h \in Generations, NEW k \in Generations, h < k,
                 names'[h] # None, names'[k] # None
          PROVE  names'[h] > names'[k]
      <4>1. h # g /\ k # g
        BY <2>1, <3>1
      <4>2. CASE h = g + 1
        <5>1. k # g + 1 /\ g < k
          BY <1>0, <3>1, <4>2
        <5>. QED BY <1>0, <1>2, <2>1, <3>1, <4>1, <4>2, <5>1 DEF NameInv, Ordered
      <4>3. CASE k = g + 1
        <5>1. h # g + 1 /\ h < g
          BY <1>0, <3>1, <4>1, <4>3
        <5>. QED BY <1>0, <1>2, <2>1, <3>1, <4>1, <4>3, <5>1 DEF NameInv, Ordered
      <4>4. CASE h # g + 1 /\ k # g + 1
        BY <2>1, <3>1, <4>1, <4>4 DEF NameInv, Ordered
      <4>. QED BY <4>2, <4>3, <4>4
    <3>. QED BY <3>1 DEF Ordered
  <2>3. Named' = Named
    <3>1. ASSUME NEW h \in Generations, names'[h] # None
          PROVE  \E k \in Generations : names[k] = names'[h]
      BY <1>0, <2>1
    <3>2. ASSUME NEW h \in Generations, names[h] # None
          PROVE  \E k \in Generations : names'[k] = names[h]
      <4>1. h # g + 1
        BY <3>2
      <4>. QED BY <1>0, <2>1, <4>1
    <3>. QED BY <3>1, <3>2 DEF Named
  <2>4. Contiguous' /\ Enough'
    BY <2>3 DEF NameInv, Contiguous, Enough
  <2>5. Holes' \ {g} \subseteq Holes \ {g + 1}
    <3>1. ASSUME NEW h \in Holes', h # g PROVE h \in Holes /\ h # g + 1
      <4>1. h \in Generations /\ names'[h] = None
        BY <3>1 DEF Holes
      <4>2. PICK k \in Generations : k > h /\ names'[k] # None
        BY <3>1 DEF Holes
      <4>3. h # g + 1 /\ names[h] = None
        BY <1>2, <2>1, <3>1, <4>1
      <4>4. k # g
        BY <2>1, <4>2
      <4>5. CASE k = g + 1
        <5>1. g > h
          BY <1>0, <3>1, <4>1, <4>2, <4>5
        <5>. QED BY <1>0, <1>2, <4>1, <4>3, <5>1 DEF Holes
      <4>6. CASE k # g + 1
        BY <2>1, <4>1, <4>2, <4>3, <4>4, <4>6 DEF Holes
      <4>. QED BY <4>3, <4>5, <4>6
    <3>. QED BY <3>1
  <2>6. Cardinality(Holes' \ {g}) <= Cardinality(Holes \ {g + 1})
        /\ Cardinality(Holes' \ {g}) \in Nat /\ Cardinality(Holes \ {g + 1}) \in Nat
    <3>1. IsFiniteSet(Holes \ {g + 1})
      BY FiniteNames, FS_RemoveElement
    <3>. QED BY <2>5, <3>1, FS_Subset, FS_CardinalityType
  <2>7. faults \in Nat
    BY DEF TypeInv, TypeOK
  <2>. QED BY <2>1, <2>2, <2>4, <2>6, <2>7
<1>. QED BY <1>1, <1>2

\* A file created under the free active name is the newest one.
LEMMA CreateKeepsNames ==
  ASSUME TypeInv, NameInv, names[0] = None,
         names' = [names EXCEPT ![0] = Len(files) + 1],
         Len(files') = Len(files) + 1, faults' = faults
  PROVE  Ordered' /\ Contiguous' /\ Enough' /\ Holes' \subseteq Holes \ {0}
<1>0. /\ names \in [Generations -> 0 .. Len(files)] /\ Len(files) \in Nat
      /\ Generations = 0 .. Retained /\ 0 \in Generations
  BY NameFacts DEF Generations
<1>1. /\ names'[0] = Len(files) + 1 /\ names'[0] # None
      /\ \A h \in Generations : h # 0 => names'[h] = names[h]
      /\ \A h \in Generations : names[h] \in Nat /\ names[h] <= Len(files)
      /\ \A h \in Generations : h # 0 => 0 < h
  <2>. PICK k : k = Len(files)
    OBVIOUS
  <2>1. names'[0] = k + 1 /\ \A h \in Generations : h # 0 => names'[h] = names[h]
    BY <1>0
  <2>2. k + 1 # None
    BY <1>0 DEF None
  <2>3. \A h \in Generations : names[h] \in Nat /\ names[h] <= k
    BY <1>0
  <2>4. \A h \in Generations : h # 0 => 0 < h
    BY <1>0
  <2>. QED BY <2>1, <2>2, <2>3, <2>4
<1>2. Ordered'
  <2>1. ASSUME NEW h \in Generations, NEW k \in Generations, h < k,
               names'[h] # None, names'[k] # None
        PROVE  names'[h] > names'[k]
    <3>1. k # 0
      BY <1>0, <2>1
    <3>2. CASE h = 0
      BY <1>0, <1>1, <3>1, <3>2
    <3>3. CASE h # 0
      BY <1>1, <2>1, <3>1, <3>3 DEF NameInv, Ordered
    <3>. QED BY <3>2, <3>3
  <2>. QED BY <2>1 DEF Ordered
<1>3. Named' = Named \cup {Len(files) + 1} /\ Len(files) + 1 \notin Named
  <2>1. ASSUME NEW h \in Generations, names[h] # None
        PROVE  \E k \in Generations : names'[k] = names[h]
    BY <1>1, <2>1
  <2>2. Len(files) + 1 \in Named'
    BY <1>0, <1>1 DEF Named
  <2>3. Len(files) + 1 \notin Named
    BY <1>0, <1>1 DEF Named
  <2>4. Named' \subseteq Named \cup {Len(files) + 1}
    BY <1>1 DEF Named
  <2>5. Named \subseteq Named'
    BY <2>1 DEF Named
  <2>. QED BY <2>2, <2>3, <2>4, <2>5
<1>4. Contiguous'
  <2>1. ASSUME NEW f \in Named', NEW e \in f .. Len(files') PROVE e \in Named'
    <3>1. CASE e = Len(files) + 1
      BY <1>3, <3>1
    <3>2. CASE e # Len(files) + 1
      <4>1. f \in Nat /\ e \in Nat /\ f <= e /\ e <= Len(files)
        <5>1. f \in Nat
          BY <1>0, <1>1, <1>3 DEF Named
        <5>. QED BY <1>0, <2>1, <3>2, <5>1
      <4>2. f \in Named
        BY <1>0, <1>3, <4>1
      <4>3. e \in f .. Len(files)
        BY <1>0, <4>1
      <4>. QED BY <1>3, <4>2, <4>3 DEF NameInv, Contiguous
    <3>. QED BY <3>1, <3>2
  <2>. QED BY <2>1 DEF Contiguous
<1>5. Enough'
  <2>1. IsFiniteSet(Named) /\ Cardinality(Named) \in Nat
    BY NamedCount DEF NameInv
  <2>2. Cardinality(Named') = Cardinality(Named) + 1
    BY <1>3, <2>1, FS_AddElement
  <2>3. faults \in Nat
    BY DEF TypeInv, TypeOK
  <2>. QED BY <1>0, <2>1, <2>2, <2>3 DEF NameInv, Enough, Least
<1>6. Holes' \subseteq Holes \ {0}
  <2>1. ASSUME NEW h \in Holes' PROVE h \in Holes /\ h # 0
    <3>1. h \in Generations /\ names'[h] = None
      BY <2>1 DEF Holes
    <3>2. PICK k \in Generations : k > h /\ names'[k] # None
      BY <2>1 DEF Holes
    <3>3. h # 0 /\ k # 0
      BY <1>0, <1>1, <3>1, <3>2
    <3>. QED BY <1>1, <3>1, <3>2, <3>3 DEF Holes
  <2>. QED BY <2>1
<1>. QED BY <1>2, <1>4, <1>5, <1>6

\* A step that leaves the names alone and adds no file.
LEMMA SameNames ==
  ASSUME TypeInv, NameInv, names' = names, Len(files') = Len(files), faults' \in Nat,
         faults' >= faults
  PROVE  Ordered' /\ Contiguous' /\ Enough' /\ Holes' = Holes
<1>1. Named' = Named /\ Holes' = Holes
  BY DEF Named, Holes
<1>2. Ordered' /\ Contiguous'
  BY <1>1 DEF NameInv, Ordered, Contiguous
<1>3. IsFiniteSet(Named) /\ Cardinality(Named) \in Nat
  BY NamedCount DEF NameInv
<1>4. faults \in Nat /\ Len(files) \in Nat
  BY NameFacts DEF TypeInv, TypeOK
<1>5. Enough'
  BY <1>1, <1>3, <1>4 DEF NameInv, Enough, Least
<1>. QED BY <1>1, <1>2, <1>5

LEMMA InitNameInv == Init => NameInv
<1>. SUFFICES ASSUME Init PROVE NameInv
  OBVIOUS
<1>1. /\ \A g \in Generations : names[g] = None
      /\ files = <<>> /\ Len(files) = 0 /\ faults = 0
      /\ \A w \in Writers : writer[w] = "off"
  BY EmptySeq DEF Init
<1>2. Named = {} /\ Holes = {}
  BY <1>1 DEF Named, Holes
<1>3. Cardinality({}) = 0
  BY FS_EmptySet
<1>4. \A w \in Writers : Slot(w) = {} /\ Holes \ Slot(w) = {}
  BY <1>1, <1>2 DEF Slot
<1>5. Enough
  BY <1>1, <1>2, <1>3 DEF Enough, Least
<1>6. HolesAreFaults
  <2>1. \A w \in Writers : Cardinality(Holes \ Slot(w)) = 0
    BY <1>3, <1>4, Zenon
  <2>. QED BY <1>1, <1>4, <2>1 DEF HolesAreFaults
<1>. QED BY <1>1, <1>2, <1>5, <1>6 DEF NameInv, Ordered, Contiguous

\* A rotation that is cut short leaves its slot behind as one more hole.
LEMMA AbortKeepsNames ==
  ASSUME TypeInv, NameInv, names' = names, files' = files, faults' = faults + 1,
         \A w \in Writers : writer'[w] \in {"off", "stopped"} \/ writer'[w] = writer[w],
         gen' = gen
  PROVE  NameInv'
<1>1. faults \in Nat /\ faults' \in Nat /\ faults' >= faults
  BY DEF TypeInv, TypeOK
<1>2. Ordered' /\ Contiguous' /\ Enough' /\ Holes' = Holes
  BY <1>1, SameNames
<1>3. ASSUME NEW w \in Writers
      PROVE  /\ \A g \in Slot(w)' : names'[g] = None
             /\ Cardinality(Holes' \ Slot(w)') <= faults'
  <2>1. (\A g \in Slot(w) : names[g] = None) /\ Cardinality(Holes \ Slot(w)) <= faults
    BY DEF NameInv, HolesAreFaults
  <2>2. CASE writer'[w] = writer[w]
    <3>1. Slot(w)' = Slot(w)
      BY <2>2 DEF Slot
    <3>2. Holes' \ Slot(w)' = Holes \ Slot(w)
      BY <1>2, <3>1
    <3>3. IsFiniteSet(Holes \ Slot(w))
      BY FiniteNames, FS_Difference
    <3>4. Cardinality(Holes \ Slot(w)) \in Nat
      BY <3>3, FS_CardinalityType
    <3>. QED BY <1>1, <2>1, <3>1, <3>2, <3>4
  <2>3. CASE writer'[w] \in {"off", "stopped"}
    <3>1. Slot(w)' = {} /\ Holes' \ Slot(w)' = Holes
      BY <1>2, <2>3 DEF Slot
    <3>2. Cardinality(Holes) <= faults + 1
      <4>1. CASE Slot(w) = {}
        <5>1. Holes \ Slot(w) = Holes
          BY <4>1
        <5>. QED BY <1>1, <2>1, <5>1, FiniteNames
      <4>2. CASE \E g : Slot(w) = {g}
        <5>1. PICK g : Slot(w) = {g}
          BY <4>2
        <5>2. Cardinality(Holes \ {g}) =
                IF g \in Holes THEN Cardinality(Holes) - 1 ELSE Cardinality(Holes)
          BY FiniteNames, FS_RemoveElement
        <5>. QED BY <1>1, <2>1, <5>1, <5>2, FiniteNames
      <4>. QED BY <4>1, <4>2 DEF Slot
    <3>. QED BY <3>1, <3>2
  <2>. QED BY <2>2, <2>3
<1>. QED BY <1>2, <1>3 DEF NameInv, HolesAreFaults

LEMMA WriterKeepsNameInv ==
  ASSUME OneWriter, TypeInv, LineInv, NameInv, NEW w \in Writers, WriterStep(w)
  PROVE  NameInv'
<1>0. /\ writer \in [Writers -> Phases] /\ gen \in [Writers -> 0 .. Retained]
      /\ faults \in Nat /\ \A v \in Writers : v = w
      /\ \A g \in Slot(w) : names[g] = None
      /\ Cardinality(Holes \ Slot(w)) <= faults
  <2>1. /\ writer \in [Writers -> Phases] /\ gen \in [Writers -> 0 .. Retained]
        /\ faults \in Nat
    <3>1. faults \in Nat
      BY DEF TypeInv, TypeOK
    <3>. QED BY <3>1 DEF TypeInv, TypeOK
  <2>2. (\A g \in Slot(w) : names[g] = None) /\ Cardinality(Holes \ Slot(w)) <= faults
    BY DEF NameInv, HolesAreFaults
  <2>. QED BY <2>1, <2>2 DEF OneWriter
<1>1. CASE CallFails(w)
  <2>1. /\ names' = names /\ files' = files /\ faults' = faults + 1 /\ gen' = gen
        /\ writer'[w] = "stopped"
    BY <1>0, <1>1 DEF CallFails, disk, Goto
  <2>. QED BY <1>0, <2>1, AbortKeepsNames
<1>2. ASSUME Slot(w)' = {}, Slot(w) = {}, names' = names, Len(files') = Len(files),
             faults' = faults
      PROVE  NameInv'
  <2>1. Ordered' /\ Contiguous' /\ Enough' /\ Holes' = Holes
    BY <1>0, <1>2, SameNames
  <2>2. Holes' \ Slot(w)' = Holes \ Slot(w)
    BY <1>2, <2>1
  <2>. QED BY <1>0, <1>2, <2>1, <2>2 DEF NameInv, HolesAreFaults
<1>3. CASE Finish(w) \/ Write(w) \/ BeginRotation(w) \/ \E ends \in BOOLEAN : Output(w, ends)
  <2>1. CASE \E ends \in BOOLEAN : Output(w, ends)
    <3>1. UNCHANGED <<writer, gen, names, files, faults>>
      BY <2>1 DEF Output, disk
    <3>2. Named' = Named /\ Holes' = Holes /\ Slot(w)' = Slot(w)
      BY <3>1 DEF Named, Holes, Slot
    <3>3. Ordered' /\ Contiguous' /\ Enough'
      BY <3>1, <3>2 DEF NameInv, Ordered, Contiguous, Enough
    <3>. QED BY <1>0, <3>1, <3>2, <3>3 DEF NameInv, HolesAreFaults
  <2>2. CASE Finish(w)
    <3>1. Slot(w) = {} /\ Slot(w)' = {}
      BY <1>0, <2>2 DEF Finish, Slot, Goto
    <3>. QED BY <1>2, <2>2, <3>1 DEF Finish, disk
  <2>3. CASE Write(w)
    <3>1. Slot(w) = {} /\ Slot(w)' = {}
      BY <2>3 DEF Write, Slot, HasChunk
    <3>. QED BY <1>2, <2>3, <3>1, WriteDisk DEF Write
  <2>4. CASE BeginRotation(w)
    <3>1. Slot(w) = {} /\ Slot(w)' = {}
      BY <1>0, <2>4 DEF BeginRotation, Slot, HasChunk, Goto
    <3>. QED BY <1>2, <2>4, <3>1 DEF BeginRotation, disk
  <2>. QED BY <1>3, <2>1, <2>2, <2>3, <2>4
<1>4. ASSUME names[0] = None, names' = [names EXCEPT ![0] = Len(files) + 1],
             Len(files') = Len(files) + 1, faults' = faults, Slot(w) \subseteq {0},
             Slot(w)' = {}
      PROVE  NameInv'
  <2>1. Ordered' /\ Contiguous' /\ Enough' /\ Holes' \subseteq Holes \ {0}
    BY <1>4, CreateKeepsNames
  <2>2. Holes' \ Slot(w)' = Holes' /\ Holes' \subseteq Holes \ Slot(w)
    BY <1>4, <2>1
  <2>3. IsFiniteSet(Holes \ Slot(w))
    BY FiniteNames, FS_Difference
  <2>4. /\ Cardinality(Holes') <= Cardinality(Holes \ Slot(w))
        /\ Cardinality(Holes') \in Nat /\ Cardinality(Holes \ Slot(w)) \in Nat
    BY <2>2, <2>3, FS_Subset, FS_CardinalityType
  <2>5. Cardinality(Holes' \ Slot(w)') <= faults'
    BY <1>0, <1>4, <2>2, <2>4
  <2>. QED BY <1>0, <1>4, <2>1, <2>5 DEF NameInv, HolesAreFaults
<1>5. CASE Start(w)
  <2>1. Slot(w) = {} /\ Slot(w)' = {} /\ faults' = faults
    BY <1>0, <1>5 DEF Start, Slot, Goto
  <2>. QED BY <1>2, <1>4, <1>5, <2>1, StartDisk
<1>6. CASE OpenNext(w)
  <2>1. Slot(w) = {0} /\ Slot(w)' = {} /\ faults' = faults /\ names[0] = None
    BY <1>0, <1>6 DEF OpenNext, Slot, Goto, LineInv, Attached
  <2>. QED BY <1>4, <1>6, <2>1, OpenNextDisk
<1>7. ASSUME NEW g \in Generations, Slot(w)' = {g}, Ordered', Contiguous', Enough',
             names'[g] = None, Cardinality(Holes' \ {g}) <= faults, faults' = faults
      PROVE  NameInv'
  BY <1>0, <1>7 DEF NameInv, HolesAreFaults
<1>8. CASE RemoveOldest(w)
  <2>1. /\ names' = [names EXCEPT ![Retained] = None] /\ files' = files /\ faults' = faults
        /\ ToShift(w, Retained - 1) /\ Slot(w) = {}
    BY <1>8 DEF RemoveOldest, Slot
  <2>2. Holes \ Slot(w) = Holes
    BY <2>1
  <2>3. /\ Ordered' /\ Contiguous' /\ Enough' /\ names'[Retained] = None
        /\ Holes' \subseteq Holes
    BY <1>0, <2>1, <2>2, RemoveKeepsNames
  <2>4. Slot(w)' = {Retained}
    BY <1>0, <2>1 DEF ToShift, Goto, Slot
  <2>5. Cardinality(Holes' \ {Retained}) <= faults
    <3>1. Holes' \ {Retained} \subseteq Holes
      BY <2>3
    <3>2. Cardinality(Holes' \ {Retained}) <= Cardinality(Holes)
          /\ Cardinality(Holes' \ {Retained}) \in Nat
      BY <3>1, FiniteNames, FS_Subset, FS_CardinalityType
    <3>. QED BY <1>0, <2>2, <3>2, FiniteNames
  <2>. QED BY <1>7, <2>1, <2>3, <2>4, <2>5, NameFacts
<1>9. CASE Shift(w)
  <2>1. PICK g \in 1 .. Retained - 1 : g = gen[w]
    BY <1>9 DEF Shift, TypeInv
  <2>2. /\ names' = IF names[g] = None THEN names ELSE Rename(g, g + 1)
        /\ files' = files /\ faults' = faults /\ ToShift(w, g - 1) /\ Slot(w) = {g + 1}
    BY <1>9, <2>1 DEF Shift, Slot
  <2>3. /\ Ordered' /\ Contiguous' /\ Enough' /\ names'[g] = None
        /\ Cardinality(Holes' \ {g}) <= faults
    BY <1>0, <2>2, ShiftKeepsNames
  <2>4. Slot(w)' = {g}
    BY <1>0, <2>2 DEF ToShift, Goto, Slot
  <2>. QED BY <1>7, <2>2, <2>3, <2>4 DEF Generations
<1>10. CASE MoveActive(w)
  <2>1. names[0] # None
    BY <1>10 DEF MoveActive, LineInv, Attached
  <2>2. /\ names' = Rename(0, 1) /\ files' = files /\ faults' = faults
        /\ writer' = [writer EXCEPT ![w] = "open"] /\ Slot(w) = {1}
    BY <1>10, <2>1 DEF MoveActive, Slot, Goto
  <2>3. PICK g \in 0 .. Retained - 1 : g = 0
    OBVIOUS
  <2>4. g + 1 = 1
    BY <2>3
  <2>5. /\ names' = IF names[g] = None THEN names ELSE Rename(g, g + 1)
        /\ names[g + 1] = None /\ Cardinality(Holes \ {g + 1}) <= faults
    BY <1>0, <2>1, <2>2, <2>3, <2>4
  <2>6. /\ Ordered' /\ Contiguous' /\ Enough' /\ names'[g] = None
        /\ Cardinality(Holes' \ {g}) <= faults
    BY <2>2, <2>5, ShiftKeepsNames
  <2>7. Slot(w)' = {g}
    BY <1>0, <2>2, <2>3 DEF Slot
  <2>. QED BY <1>7, <2>2, <2>6, <2>7 DEF Generations
<1>. QED BY <1>1, <1>3, <1>5, <1>6, <1>8, <1>9, <1>10 DEF WriterStep

LEMMA StepNameInv ==
  ASSUME OneWriter, TypeInv, LineInv, NameInv, [Next]_vars
  PROVE  NameInv'
<1>1. ASSUME NEW w \in Writers, WriterStep(w) PROVE NameInv'
  BY <1>1, WriterKeepsNameInv
<1>2. CASE (\E g \in Generations : OpenPage(g)) \/ ReadLine \/ EndPage \/ UNCHANGED vars
  <2>1. UNCHANGED <<writer, gen, names, files, faults>>
    BY <1>2 DEF OpenPage, ReadLine, EndPage, vars, threads, disk
  <2>2. Named' = Named /\ Holes' = Holes /\ \A w \in Writers : Slot(w)' = Slot(w)
    BY <2>1 DEF Named, Holes, Slot
  <2>. QED BY <2>1, <2>2 DEF NameInv, Ordered, Contiguous, Enough, HolesAreFaults
<1>3. CASE Crash
  <2>1. /\ names' = names /\ files' = files /\ faults' = faults + 1 /\ gen' = gen
        /\ \A w \in Writers : writer'[w] = "off"
    BY <1>3 DEF Crash, disk
  <2>. QED BY <2>1, AbortKeepsNames
<1>. QED BY <1>1, <1>2, <1>3 DEF Next, WriterStep

\* At every moment of a rotation, and wherever a crash or a failing call cuts it
\* short, the names hold the newest files, newest first and without a gap, and
\* one file is lost early for each fault at most: a rotation that is cut short
\* leaves one hole, and a later one fills it or takes it along.
THEOREM NewestCorrect ==
  ASSUME OneWriter
  PROVE  Spec => []NewestFilesAreKept
<1>1. Init => NameInv
  BY InitNameInv
<1>2. TypeInv /\ LineInv /\ NameInv /\ [Next]_vars => NameInv'
  BY StepNameInv
<1>3. NameInv => NewestFilesAreKept
  BY DEF NameInv, Ordered, Contiguous, Enough, NewestFilesAreKept
<1>. QED BY <1>1, <1>2, <1>3, TypeInvHolds, LineInvHolds, PTL DEF Spec
=============================================================================
