------------------------ MODULE SecurePromptsProofs ------------------------
(***************************************************************************)
(* Proofs about SecurePrompts, for any number of tabs, connections,        *)
(* prompts and answers under way: one dialog at a time and none forgotten, *)
(* no dialog about a connection that its tab no longer has, and no warning *)
(* taken away unseen.                                                      *)
(***************************************************************************)
EXTENDS SecurePrompts, FiniteSetTheorems, SequenceTheorems, WellFoundedInduction, TLAPS

USE PromptAssumption

----
(* What is left of a queue. *)

\* The least of a set of numbers, from the well-foundedness of finite sets: the
\* initial segments that its members bound.
LEMMA LeastElement ==
  ASSUME NEW T \in SUBSET Nat, T # {}
  PROVE  \E x \in T : \A y \in T : x <= y
<1>. DEFINE U == {0 .. n : n \in T}
<1>1. U \subseteq FiniteSubsetsOf(Nat) /\ U # {}
  <2>1. ASSUME NEW n \in T PROVE 0 .. n \in FiniteSubsetsOf(Nat)
    <3>1. IsFiniteSet(0 .. n)
      BY FS_Interval
    <3>2. 0 .. n \subseteq Nat
      OBVIOUS
    <3>. QED BY <3>1, <3>2 DEF FiniteSubsetsOf
  <2>. QED BY <2>1, Zenon
<1>2. IsWellFoundedOn(StrictSubsetOrdering(Nat), FiniteSubsetsOf(Nat))
  BY FS_StrictSubsetOrderingWellFounded
<1>. HIDE DEF U
<1>3. \E x \in U : \A y \in U : <<y, x>> \notin StrictSubsetOrdering(Nat)
  BY <1>1, <1>2, WFMin
<1>4. PICK n \in T : \A y \in U : <<y, 0 .. n>> \notin StrictSubsetOrdering(Nat)
  BY <1>3 DEF U
<1>5. ASSUME NEW m \in T, m < n PROVE FALSE
  <2>1. 0 .. m \in U
    BY DEF U
  <2>2. 0 .. m \subseteq 0 .. n /\ 0 .. m # 0 .. n /\ 0 .. n \subseteq Nat
    BY <1>5
  <2>. QED BY <1>4, <2>1, <2>2 DEF StrictSubsetOrdering
<1>. QED BY <1>5

\* Every place of a finite set of positions is taken, and by one of them.
LEMMA PlaceFacts ==
  ASSUME NEW b \in Nat, NEW K \in SUBSET (1 .. b)
  PROVE  /\ Cardinality(K) \in Nat
         /\ \A i \in K : Place(K, i) \in 1 .. Cardinality(K)
         /\ \A i, j \in K : Place(K, i) = Place(K, j) => i = j
         /\ \A n \in 1 .. Cardinality(K) : \E i \in K : Place(K, i) = n
<1>1. IsFiniteSet(K) /\ Cardinality(K) \in Nat
  <2>1. IsFiniteSet(1 .. b)
    BY FS_Interval
  <2>. QED BY <2>1, FS_Subset, FS_CardinalityType
<1>0. \A j \in K : j \in Nat /\ 1 <= j /\ j <= b
  OBVIOUS
<1>. DEFINE UpTo(i) == {j \in K : j <= i}
<1>2. ASSUME NEW i \in Nat
      PROVE  UpTo(i) \in SUBSET K /\ IsFiniteSet(UpTo(i)) /\ Place(K, i) = Cardinality(UpTo(i))
             /\ Place(K, i) \in Nat /\ Place(K, i) <= Cardinality(K)
  <2>1. UpTo(i) \in SUBSET K
    OBVIOUS
  <2>2. IsFiniteSet(UpTo(i)) /\ Cardinality(UpTo(i)) <= Cardinality(K) /\ Cardinality(UpTo(i)) \in Nat
    BY <1>1, <2>1, FS_Subset, FS_CardinalityType
  <2>3. Place(K, i) = Cardinality(UpTo(i))
    BY DEF Place
  <2>. HIDE DEF UpTo
  <2>. QED BY <2>1, <2>2, <2>3
<1>3. ASSUME NEW m \in 1 .. b
      PROVE  Place(K, m) = IF m \in K THEN Place(K, m - 1) + 1 ELSE Place(K, m - 1)
  <2>1. m - 1 \in Nat /\ m \in Nat
    OBVIOUS
  <2>2. /\ m \in K => UpTo(m) = UpTo(m - 1) \cup {m}
        /\ m \notin K => UpTo(m) = UpTo(m - 1)
        /\ m \notin UpTo(m - 1)
    <3>1. \A j \in K : j <= m <=> j <= m - 1 \/ j = m
      BY <1>0, <2>1
    <3>2. ~(m <= m - 1) /\ m <= m
      BY <2>1
    <3>3. ASSUME m \in K PROVE UpTo(m) = UpTo(m - 1) \cup {m}
      BY <3>1, <3>2, <3>3
    <3>4. ASSUME m \notin K PROVE UpTo(m) = UpTo(m - 1)
      BY <3>1, <3>4
    <3>. QED BY <3>2, <3>3, <3>4
  <2>3. PICK A : A = UpTo(m)
    OBVIOUS
  <2>4. PICK B : B = UpTo(m - 1)
    OBVIOUS
  <2>. HIDE DEF UpTo
  <2>5. IsFiniteSet(B) /\ Place(K, m) = Cardinality(A) /\ Place(K, m - 1) = Cardinality(B)
    BY <1>2, <2>1, <2>3, <2>4
  <2>6. m \in K => A = B \cup {m} /\ m \notin B
    BY <2>2, <2>3, <2>4
  <2>7. m \notin K => A = B
    BY <2>2, <2>3, <2>4
  <2>. QED BY <2>5, <2>6, <2>7, FS_AddElement
<1>4. ASSUME NEW i \in K, NEW j \in K, i < j
      PROVE  Place(K, i) < Place(K, j)
  <2>1. i \in Nat /\ j \in Nat /\ j - 1 \in Nat /\ j \in 1 .. b
    OBVIOUS
  <2>2. \A k \in K : k <= i => k <= j - 1
    BY <1>0, <1>4, <2>1
  <2>3. UpTo(i) \subseteq UpTo(j - 1)
    BY <2>2
  <2>. HIDE DEF UpTo
  <2>4. Place(K, i) <= Place(K, j - 1)
    BY <1>2, <2>1, <2>3, FS_Subset
  <2>. QED BY <1>2, <1>3, <2>1, <2>4
<1>5. ASSUME NEW i \in K PROVE Place(K, i) \in 1 .. Cardinality(K)
  <2>1. i \in 1 .. b /\ i \in Nat /\ i - 1 \in Nat
    OBVIOUS
  <2>. HIDE DEF UpTo
  <2>. QED BY <1>2, <1>3, <2>1
<1>6. ASSUME NEW n \in 1 .. Cardinality(K) PROVE \E i \in K : Place(K, i) = n
  <2>. DEFINE T == {m \in Nat : Place(K, m) >= n}
  <2>1. UpTo(b) = K /\ UpTo(0) = {}
    <3>1. \A j \in K : ~(j <= 0) /\ j <= b
      BY <1>0
    <3>. QED BY <3>1
  <2>. HIDE DEF UpTo
  <2>2. Place(K, b) = Cardinality(K) /\ Place(K, 0) = 0
    BY <1>2, <2>1, FS_EmptySet
  <2>3. b \in T
    BY <1>1, <2>2
  <2>4. PICK m \in T : \A y \in T : m <= y
    BY <2>3, LeastElement
  <2>5. m \in 1 .. b
    BY <1>1, <2>2, <2>3, <2>4
  <2>6. m - 1 \in Nat /\ m - 1 \notin T
    BY <2>4, <2>5
  <2>7. Place(K, m - 1) < n /\ Place(K, m) >= n /\ Place(K, m) \in Nat /\ Place(K, m - 1) \in Nat
    BY <1>1, <1>2, <2>5, <2>6
  <2>. QED BY <1>1, <1>3, <2>5, <2>7
<1>7. \A i, j \in K : Place(K, i) = Place(K, j) => i = j
  <2>1. \A i \in K : Place(K, i) \in Nat
    BY <1>1, <1>5
  <2>. QED BY <1>4, <2>1
<1>. QED BY <1>1, <1>5, <1>6, <1>7

Elements(s) == {s[i] : i \in DOMAIN s}

LEMMA FunctionIsSequence ==
  ASSUME NEW S, NEW n \in Nat, NEW s \in [1 .. n -> S]
  PROVE  s \in Seq(S) /\ Len(s) = n /\ DOMAIN s = 1 .. n
OBVIOUS

LEMMA WithoutFacts ==
  ASSUME NEW S, NEW s \in Seq(S), NEW drop
  PROVE  /\ Without(s, drop) \in Seq(S)
         /\ Elements(Without(s, drop)) = Elements(s) \ drop
<1>1. Len(s) \in Nat /\ DOMAIN s = 1 .. Len(s) /\ \A i \in DOMAIN s : s[i] \in S
  BY LenProperties, ElementOfSeq
<1>2. PICK kept : kept = {i \in DOMAIN s : s[i] \notin drop}
  OBVIOUS
<1>3. kept \in SUBSET (1 .. Len(s))
  BY <1>1, <1>2
<1>4. PICK n \in Nat : n = Cardinality(kept)
  BY <1>1, <1>3, PlaceFacts
<1>5. PICK at \in [1 .. n -> kept] : \A k \in 1 .. n : at[k] = CHOOSE i \in kept : Place(kept, i) = k
  <2>1. \A k \in 1 .. n : (CHOOSE i \in kept : Place(kept, i) = k) \in kept
    BY <1>1, <1>3, <1>4, PlaceFacts
  <2>2. [k \in 1 .. n |-> CHOOSE i \in kept : Place(kept, i) = k] \in [1 .. n -> kept]
    BY <2>1
  <2>. QED BY <2>2
<1>6. \A k \in 1 .. n : Place(kept, at[k]) = k
  BY <1>1, <1>3, <1>4, <1>5, PlaceFacts
<1>7. \A i \in kept : Place(kept, i) \in 1 .. n /\ at[Place(kept, i)] = i
  <2>1. ASSUME NEW i \in kept PROVE Place(kept, i) \in 1 .. n /\ at[Place(kept, i)] = i
    <3>1. Place(kept, i) \in 1 .. n
      BY <1>1, <1>3, <1>4, PlaceFacts
    <3>2. PICK k \in 1 .. n : k = Place(kept, i)
      BY <3>1
    <3>3. at[k] \in kept /\ Place(kept, at[k]) = Place(kept, i)
      BY <1>5, <1>6, <3>2
    <3>4. at[k] = i
      BY <1>1, <1>3, <3>3, PlaceFacts
    <3>. QED BY <3>1, <3>2, <3>4
  <2>. QED BY <2>1
<1>8. PICK r : r = Without(s, drop)
  OBVIOUS
<1>9. r = [k \in 1 .. n |-> s[at[k]]]
  <2>1. r = [k \in 1 .. Cardinality(kept) |-> s[CHOOSE i \in kept : Place(kept, i) = k]]
    BY <1>2, <1>8 DEF Without
  <2>2. \A k \in 1 .. n : s[CHOOSE i \in kept : Place(kept, i) = k] = s[at[k]]
    BY <1>5
  <2>3. r = [k \in 1 .. n |-> s[CHOOSE i \in kept : Place(kept, i) = k]]
    BY <1>4, <2>1
  <2>. QED BY <2>2, <2>3
<1>10. r \in [1 .. n -> S]
  BY <1>1, <1>3, <1>5, <1>9
<1>11. r \in Seq(S) /\ DOMAIN r = 1 .. n
  BY <1>10, FunctionIsSequence
<1>12. ASSUME NEW x PROVE x \in Elements(r) <=> x \in Elements(s) /\ x \notin drop
  <2>1. ASSUME NEW k \in 1 .. n, x = r[k] PROVE x \in Elements(s) /\ x \notin drop
    BY <1>2, <1>5, <1>9, <2>1 DEF Elements
  <2>2. ASSUME NEW i \in DOMAIN s, x = s[i], x \notin drop PROVE x \in Elements(r)
    <3>1. i \in kept
      BY <1>2, <2>2
    <3>2. PICK k \in 1 .. n : at[k] = i
      BY <1>7, <3>1
    <3>3. r[k] = x
      BY <1>9, <2>2, <3>2
    <3>. QED BY <1>11, <3>3 DEF Elements
  <2>. QED BY <1>11, <2>1, <2>2 DEF Elements
<1>. QED BY <1>8, <1>11, <1>12

LEMMA ElementsFacts ==
  ASSUME NEW S, NEW s \in Seq(S)
  PROVE  /\ Elements(s) \subseteq S
         /\ s = <<>> <=> Elements(s) = {}
         /\ \A x \in S : Append(s, x) \in Seq(S) /\ Elements(Append(s, x)) = Elements(s) \cup {x}
         /\ s # <<>> => /\ Head(s) \in Elements(s) /\ Tail(s) \in Seq(S)
                        /\ Elements(s) = {Head(s)} \cup Elements(Tail(s))
<1>1. Len(s) \in Nat /\ DOMAIN s = 1 .. Len(s) /\ \A i \in DOMAIN s : s[i] \in S
  BY LenProperties, ElementOfSeq
<1>2. Elements(s) \subseteq S
  BY <1>1 DEF Elements
<1>3. s = <<>> <=> Elements(s) = {}
  <2>1. s = <<>> <=> Len(s) = 0
    BY EmptySeq
  <2>2. Len(s) # 0 => 1 \in DOMAIN s
    BY <1>1
  <2>3. Len(s) = 0 => DOMAIN s = {}
    BY <1>1
  <2>. QED BY <2>1, <2>2, <2>3 DEF Elements
<1>4. ASSUME NEW x \in S
      PROVE  Append(s, x) \in Seq(S) /\ Elements(Append(s, x)) = Elements(s) \cup {x}
  <2>1. PICK t : t = Append(s, x)
    OBVIOUS
  <2>2. /\ t \in Seq(S) /\ DOMAIN t = 1 .. Len(s) + 1
        /\ \A i \in 1 .. Len(s) : t[i] = s[i]
        /\ t[Len(s) + 1] = x
    BY <1>1, <2>1, AppendProperties, LenProperties
  <2>3. \A i \in 1 .. Len(s) + 1 : i \in 1 .. Len(s) \/ i = Len(s) + 1
    BY <1>1
  <2>4. 1 .. Len(s) \subseteq 1 .. Len(s) + 1 /\ Len(s) + 1 \in 1 .. Len(s) + 1
    BY <1>1
  <2>5. Elements(t) = Elements(s) \cup {x}
    BY <1>1, <2>2, <2>3, <2>4 DEF Elements
  <2>. QED BY <2>1, <2>2, <2>5
<1>5. ASSUME s # <<>>
      PROVE  /\ Head(s) \in Elements(s) /\ Tail(s) \in Seq(S)
             /\ Elements(s) = {Head(s)} \cup Elements(Tail(s))
  <2>1. Head(s) = s[1]
    BY <1>5
  <2>2. PICK t : t = Tail(s)
    OBVIOUS
  <2>3. /\ t \in Seq(S) /\ DOMAIN t = 1 .. Len(s) - 1 /\ Len(s) \in Nat \ {0}
        /\ \A i \in 1 .. Len(s) - 1 : t[i] = s[i + 1]
    BY <1>1, <1>5, <2>2, HeadTailProperties, LenProperties, EmptySeq
  <2>4. \A i \in 1 .. Len(s) : i = 1 \/ (i - 1 \in 1 .. Len(s) - 1 /\ i = (i - 1) + 1)
    BY <2>3
  <2>5. \A i \in 1 .. Len(s) - 1 : i + 1 \in 1 .. Len(s)
    BY <2>3
  <2>6. 1 \in 1 .. Len(s)
    BY <2>3
  <2>7. \A x \in Elements(s) : x = s[1] \/ x \in Elements(t)
    <3>1. ASSUME NEW x \in Elements(s), x # s[1] PROVE x \in Elements(t)
      <4>1. PICK i \in 1 .. Len(s) : x = s[i]
        BY <1>1 DEF Elements
      <4>2. i - 1 \in 1 .. Len(s) - 1 /\ i = (i - 1) + 1
        BY <2>4, <3>1, <4>1
      <4>3. PICK j \in 1 .. Len(s) - 1 : j = i - 1
        BY <4>2
      <4>4. t[j] = x
        BY <2>3, <4>1, <4>2, <4>3
      <4>. QED BY <2>3, <4>3, <4>4 DEF Elements
    <3>. QED BY <3>1
  <2>8. Elements(t) \subseteq Elements(s) /\ s[1] \in Elements(s)
    BY <1>1, <2>3, <2>5, <2>6 DEF Elements
  <2>. QED BY <2>1, <2>2, <2>3, <2>7, <2>8
<1>. QED BY <1>2, <1>3, <1>4, <1>5

----
(* The queues and the screen. *)

LEMMA QueueFacts ==
  ASSUME NEW q \in PromptQueue
  PROVE  /\ Held(q) \subseteq Prompts
         /\ q.active # Nothing => q.active \in Held(q)
         /\ Held(q) = {} <=> q.active = Nothing /\ q.pending = <<>>
         /\ \A p \in Prompts :
              /\ Enqueue(q, p) \in PromptQueue
              /\ Held(Enqueue(q, p)) = Held(q) \cup {p}
              /\ Enqueue(q, p).active = q.active
         /\ ActivateNext(q) \in PromptQueue
         /\ Held(ActivateNext(q)) = Held(q)
         /\ q.pending # <<>> => ActivateNext(q).active # Nothing
         /\ q.pending = <<>> => ActivateNext(q) = q
         /\ Finished(q) \in PromptQueue
         /\ Held(Finished(q)) \subseteq Held(q)
         /\ Held(q) \subseteq Held(Finished(q)) \cup {q.active}
         /\ Finished(q).active = Nothing
<1>1. /\ q.active \in Prompts \cup {Nothing} /\ q.pending \in Seq(Prompts)
      /\ q = [active |-> q.active, pending |-> q.pending]
      /\ Nothing \notin Prompts
  BY DEF PromptQueue, Prompts, Nothing
<1>2. \A r : Held(r) = ({r.active} \ {Nothing}) \cup Elements(r.pending)
  BY DEF Held, Elements
<1>3. \A a \in Prompts \cup {Nothing}, s \in Seq(Prompts) :
        [active |-> a, pending |-> s] \in PromptQueue
  BY DEF PromptQueue
<1>4. /\ Elements(q.pending) \subseteq Prompts
      /\ q.pending = <<>> <=> Elements(q.pending) = {}
  BY <1>1, ElementsFacts
<1>5. /\ Held(q) \subseteq Prompts
      /\ q.active # Nothing => q.active \in Held(q)
      /\ Held(q) = {} <=> q.active = Nothing /\ q.pending = <<>>
  BY <1>1, <1>2, <1>4
<1>6. ASSUME NEW p \in Prompts
      PROVE  /\ Enqueue(q, p) \in PromptQueue
             /\ Held(Enqueue(q, p)) = Held(q) \cup {p}
             /\ Enqueue(q, p).active = q.active
  <2>1. Append(q.pending, p) \in Seq(Prompts)
        /\ Elements(Append(q.pending, p)) = Elements(q.pending) \cup {p}
    BY <1>1, ElementsFacts
  <2>2. Enqueue(q, p) = [active |-> q.active, pending |-> Append(q.pending, p)]
    BY <1>1 DEF Enqueue, PromptQueue
  <2>3. Enqueue(q, p).active = q.active /\ Enqueue(q, p).pending = Append(q.pending, p)
    BY <2>2
  <2>4. Held(Enqueue(q, p)) = Held(q) \cup {p}
    BY <1>1, <1>2, <2>1, <2>3
  <2>. QED BY <1>1, <1>3, <2>1, <2>2, <2>3, <2>4
<1>7. /\ ActivateNext(q) \in PromptQueue
      /\ Held(ActivateNext(q)) = Held(q)
      /\ q.pending # <<>> => ActivateNext(q).active # Nothing
      /\ q.pending = <<>> => ActivateNext(q) = q
  <2>1. CASE q.active = Nothing /\ q.pending # <<>>
    <3>1. /\ Head(q.pending) \in Elements(q.pending) /\ Tail(q.pending) \in Seq(Prompts)
          /\ Elements(q.pending) = {Head(q.pending)} \cup Elements(Tail(q.pending))
      BY <1>1, <2>1, ElementsFacts
    <3>2. ActivateNext(q) = [active |-> Head(q.pending), pending |-> Tail(q.pending)]
      BY <2>1 DEF ActivateNext
    <3>3. Head(q.pending) \in Prompts
      BY <1>4, <3>1
    <3>4. ActivateNext(q).active = Head(q.pending) /\ ActivateNext(q).pending = Tail(q.pending)
      BY <3>2
    <3>5. Held(ActivateNext(q)) = Held(q)
      BY <1>1, <1>2, <2>1, <3>1, <3>3, <3>4
    <3>. QED BY <1>1, <1>3, <2>1, <3>1, <3>2, <3>3, <3>4, <3>5
  <2>2. CASE ~(q.active = Nothing /\ q.pending # <<>>)
    BY <2>2 DEF ActivateNext
  <2>. QED BY <2>1, <2>2
<1>8. /\ Finished(q) \in PromptQueue
      /\ Held(Finished(q)) \subseteq Held(q)
      /\ Held(q) \subseteq Held(Finished(q)) \cup {q.active}
      /\ Finished(q).active = Nothing
  <2>1. Finished(q) = [active |-> Nothing, pending |-> q.pending]
    BY <1>1 DEF Finished, PromptQueue
  <2>2. Finished(q).active = Nothing /\ Finished(q).pending = q.pending
    BY <2>1
  <2>. QED BY <1>1, <1>2, <1>3, <2>1, <2>2
<1>. QED BY <1>5, <1>6, <1>7, <1>8

LEMMA DiscardFacts ==
  ASSUME NEW q \in PromptQueue, NEW drop
  PROVE  /\ Discard(q, drop) \in PromptQueue
         /\ Held(Discard(q, drop)) = Held(q) \ drop
         /\ Discard(q, drop).active = q.active \/ Discard(q, drop).active = Nothing
<1>1. q.active \in Prompts \cup {Nothing} /\ q.pending \in Seq(Prompts) /\ Nothing \notin Prompts
  BY DEF PromptQueue, Prompts, Nothing
<1>2. \A r : Held(r) = ({r.active} \ {Nothing}) \cup Elements(r.pending)
  BY DEF Held, Elements
<1>3. Without(q.pending, drop) \in Seq(Prompts)
      /\ Elements(Without(q.pending, drop)) = Elements(q.pending) \ drop
  BY <1>1, WithoutFacts
<1>4. PICK a : a = IF q.active \in drop THEN Nothing ELSE q.active
  OBVIOUS
<1>5. Discard(q, drop) = [active |-> a, pending |-> Without(q.pending, drop)]
  BY <1>4 DEF Discard
<1>6. Discard(q, drop).active = a /\ Discard(q, drop).pending = Without(q.pending, drop)
  BY <1>5
<1>7. Held(Discard(q, drop)) = Held(q) \ drop
  BY <1>1, <1>2, <1>3, <1>4, <1>6
<1>. QED BY <1>1, <1>3, <1>4, <1>5, <1>6, <1>7 DEF PromptQueue

\* One dialog at a time, and none waits behind an empty screen.
Alone(s) == Nothing \in {s.host.active, s.auth.active}
Calm(s) ==
  /\ Alone(s)
  /\ s.host.active = Nothing /\ s.auth.active = Nothing
       => s.host.pending = <<>> /\ s.auth.pending = <<>>

LEMMA ScreenFacts ==
  ASSUME NEW s \in Screen
  PROVE  /\ s.host \in PromptQueue /\ s.auth \in PromptQueue
         /\ \A q \in PromptQueue :
              /\ [s EXCEPT !.host = q] = [host |-> q, auth |-> s.auth]
              /\ [s EXCEPT !.auth = q] = [host |-> s.host, auth |-> q]
              /\ [host |-> q, auth |-> s.auth] \in Screen
              /\ [host |-> s.host, auth |-> q] \in Screen
BY DEF Screen

LEMMA ShowNextFacts ==
  ASSUME NEW s \in Screen, Alone(s)
  PROVE  /\ ShowNext(s) \in Screen
         /\ Held(ShowNext(s).host) = Held(s.host)
         /\ Held(ShowNext(s).auth) = Held(s.auth)
         /\ Calm(ShowNext(s))
<1>1. s.host \in PromptQueue /\ s.auth \in PromptQueue
  BY ScreenFacts
<1>2. PICK r : r = ShowNext(s)
  OBVIOUS
<1>3. CASE s.host.active # Nothing \/ s.auth.active # Nothing
  BY <1>3 DEF ShowNext, Calm
<1>4. CASE s.host.active = Nothing /\ s.auth.active = Nothing /\ s.host.pending # <<>>
  <2>1. PICK q : q = ActivateNext(s.host)
    OBVIOUS
  <2>2. q \in PromptQueue /\ Held(q) = Held(s.host) /\ q.active # Nothing
    BY <1>1, <1>4, <2>1, QueueFacts
  <2>3. r = [host |-> q, auth |-> s.auth] /\ r \in Screen
    BY <1>2, <1>4, <2>1, <2>2, ScreenFacts DEF ShowNext
  <2>4. r.host = q /\ r.auth = s.auth
    BY <2>3
  <2>. QED BY <1>2, <1>4, <2>2, <2>3, <2>4 DEF Calm, Alone
<1>5. CASE s.host.active = Nothing /\ s.auth.active = Nothing /\ s.host.pending = <<>>
  <2>1. PICK q : q = ActivateNext(s.auth)
    OBVIOUS
  <2>2. /\ q \in PromptQueue /\ Held(q) = Held(s.auth)
        /\ s.auth.pending # <<>> => q.active # Nothing
        /\ s.auth.pending = <<>> => q = s.auth
    BY <1>1, <1>5, <2>1, QueueFacts
  <2>3. r = [host |-> s.host, auth |-> q] /\ r \in Screen
    BY <1>2, <1>5, <2>1, <2>2, ScreenFacts DEF ShowNext
  <2>4. r.host = s.host /\ r.auth = q
    BY <2>3
  <2>. QED BY <1>2, <1>5, <2>2, <2>3, <2>4 DEF Calm, Alone
<1>. QED BY <1>3, <1>4, <1>5

LEMMA ShowFacts ==
  ASSUME NEW s \in Screen, Calm(s), NEW p \in Prompts
  PROVE  /\ Show(s, p) \in Screen /\ Calm(Show(s, p))
         /\ prompts[p].kind = "auth" =>
              /\ Held(Show(s, p).host) = Held(s.host)
              /\ Held(Show(s, p).auth) = Held(s.auth) \cup {p}
         /\ prompts[p].kind # "auth" =>
              /\ Held(Show(s, p).host) = Held(s.host) \cup {p}
              /\ Held(Show(s, p).auth) = Held(s.auth)
<1>1. s.host \in PromptQueue /\ s.auth \in PromptQueue
  BY ScreenFacts
<1>2. CASE prompts[p].kind = "auth"
  <2>1. PICK q : q = Enqueue(s.auth, p)
    OBVIOUS
  <2>2. q \in PromptQueue /\ Held(q) = Held(s.auth) \cup {p} /\ q.active = s.auth.active
    BY <1>1, <2>1, QueueFacts
  <2>3. PICK d : d = [host |-> s.host, auth |-> q]
    OBVIOUS
  <2>4. d \in Screen /\ Show(s, p) = ShowNext(d) /\ d.host = s.host /\ d.auth = q
    BY <1>2, <2>1, <2>2, <2>3, ScreenFacts DEF Show
  <2>5. Alone(d)
    BY <2>2, <2>4 DEF Calm, Alone
  <2>. QED BY <1>2, <2>2, <2>4, <2>5, ShowNextFacts
<1>3. CASE prompts[p].kind # "auth"
  <2>1. PICK q : q = Enqueue(s.host, p)
    OBVIOUS
  <2>2. q \in PromptQueue /\ Held(q) = Held(s.host) \cup {p} /\ q.active = s.host.active
    BY <1>1, <2>1, QueueFacts
  <2>3. PICK d : d = [host |-> q, auth |-> s.auth]
    OBVIOUS
  <2>4. d \in Screen /\ Show(s, p) = ShowNext(d) /\ d.host = q /\ d.auth = s.auth
    BY <1>3, <2>1, <2>2, <2>3, ScreenFacts DEF Show
  <2>5. Alone(d)
    BY <2>2, <2>4 DEF Calm, Alone
  <2>. QED BY <1>3, <2>2, <2>4, <2>5, ShowNextFacts
<1>. QED BY <1>2, <1>3

LEMMA FinishedFacts ==
  ASSUME NEW s \in Screen, Calm(s)
  PROVE  /\ LET r == ShowNext([s EXCEPT !.host = Finished(@)]) IN
              /\ r \in Screen /\ Calm(r)
              /\ Held(r.host) \subseteq Held(s.host)
              /\ Held(s.host) \subseteq Held(r.host) \cup {s.host.active}
              /\ Held(r.auth) = Held(s.auth)
         /\ LET r == ShowNext([s EXCEPT !.auth = Finished(@)]) IN
              /\ r \in Screen /\ Calm(r)
              /\ Held(r.auth) \subseteq Held(s.auth)
              /\ Held(s.auth) \subseteq Held(r.auth) \cup {s.auth.active}
              /\ Held(r.host) = Held(s.host)
<1>1. s.host \in PromptQueue /\ s.auth \in PromptQueue
  BY ScreenFacts
<1>2. PICK r : r = ShowNext([s EXCEPT !.host = Finished(@)])
  OBVIOUS
<1>3. /\ r \in Screen /\ Calm(r)
      /\ Held(r.host) \subseteq Held(s.host)
      /\ Held(s.host) \subseteq Held(r.host) \cup {s.host.active}
      /\ Held(r.auth) = Held(s.auth)
  <2>1. PICK q : q = Finished(s.host)
    OBVIOUS
  <2>2. /\ q \in PromptQueue /\ Held(q) \subseteq Held(s.host)
        /\ Held(s.host) \subseteq Held(q) \cup {s.host.active} /\ q.active = Nothing
    BY <1>1, <2>1, QueueFacts
  <2>3. PICK d : d = [host |-> q, auth |-> s.auth]
    OBVIOUS
  <2>4. d \in Screen /\ r = ShowNext(d) /\ d.host = q /\ d.auth = s.auth
    BY <1>2, <2>1, <2>2, <2>3, ScreenFacts
  <2>5. Alone(d)
    BY <2>2, <2>4 DEF Alone
  <2>. QED BY <2>2, <2>4, <2>5, ShowNextFacts
<1>4. PICK t : t = ShowNext([s EXCEPT !.auth = Finished(@)])
  OBVIOUS
<1>5. /\ t \in Screen /\ Calm(t)
      /\ Held(t.auth) \subseteq Held(s.auth)
      /\ Held(s.auth) \subseteq Held(t.auth) \cup {s.auth.active}
      /\ Held(t.host) = Held(s.host)
  <2>1. PICK q : q = Finished(s.auth)
    OBVIOUS
  <2>2. /\ q \in PromptQueue /\ Held(q) \subseteq Held(s.auth)
        /\ Held(s.auth) \subseteq Held(q) \cup {s.auth.active} /\ q.active = Nothing
    BY <1>1, <2>1, QueueFacts
  <2>3. PICK d : d = [host |-> s.host, auth |-> q]
    OBVIOUS
  <2>4. d \in Screen /\ t = ShowNext(d) /\ d.host = s.host /\ d.auth = q
    BY <1>4, <2>1, <2>2, <2>3, ScreenFacts
  <2>5. Alone(d)
    BY <2>2, <2>4 DEF Alone
  <2>. QED BY <2>2, <2>4, <2>5, ShowNextFacts
<1>. QED BY <1>2, <1>3, <1>4, <1>5

LEMMA DiscardedFacts ==
  ASSUME NEW s \in Screen, Calm(s), NEW drop
  PROVE  /\ LET r == Discarded(s, "host", drop) IN
              /\ r \in Screen /\ Calm(r)
              /\ Held(r.host) = Held(s.host) \ drop
              /\ Held(r.auth) = Held(s.auth)
         /\ LET r == Discarded(s, "auth", drop) IN
              /\ r \in Screen /\ Calm(r)
              /\ Held(r.host) = Held(s.host)
              /\ Held(r.auth) = Held(s.auth) \ drop
<1>1. s.host \in PromptQueue /\ s.auth \in PromptQueue
  BY ScreenFacts
<1>2. PICK r : r = Discarded(s, "host", drop)
  OBVIOUS
<1>3. /\ r \in Screen /\ Calm(r)
      /\ Held(r.host) = Held(s.host) \ drop
      /\ Held(r.auth) = Held(s.auth)
  <2>1. PICK q : q = Discard(s.host, drop)
    OBVIOUS
  <2>2. /\ q \in PromptQueue /\ Held(q) = Held(s.host) \ drop
        /\ q.active = s.host.active \/ q.active = Nothing
    BY <1>1, <2>1, DiscardFacts
  <2>3. PICK d : d = [host |-> q, auth |-> s.auth]
    OBVIOUS
  <2>4. d \in Screen /\ d.host = q /\ d.auth = s.auth
        /\ r = IF q.active # s.host.active THEN ShowNext(d) ELSE d
    <3>1. d = [s EXCEPT !["host"] = Discard(s["host"], drop)] /\ d \in Screen
      BY <2>1, <2>2, <2>3, ScreenFacts
    <3>2. d.host = q /\ d.auth = s.auth /\ d["host"] = q
      BY <2>3
    <3>3. r = IF d["host"].active # s["host"].active THEN ShowNext(d) ELSE d
      BY <1>2, <3>1 DEF Discarded
    <3>. QED BY <3>1, <3>2, <3>3
  <2>5. Alone(d)
    BY <2>2, <2>4 DEF Calm, Alone
  <2>6. CASE q.active # s.host.active
    BY <2>2, <2>4, <2>5, <2>6, ShowNextFacts
  <2>7. CASE q.active = s.host.active
    <3>1. s.host.active = Nothing /\ s.auth.active = Nothing => Held(s.host) = {}
      BY <1>1, QueueFacts DEF Calm
    <3>2. q.active = Nothing /\ s.auth.active = Nothing => q.pending = <<>>
      BY <2>2, <2>7, <3>1, QueueFacts
    <3>3. Calm(d)
      BY <2>4, <2>5, <2>7, <3>2 DEF Calm
    <3>. QED BY <2>2, <2>4, <2>7, <3>3
  <2>. QED BY <2>6, <2>7
<1>4. PICK t : t = Discarded(s, "auth", drop)
  OBVIOUS
<1>5. /\ t \in Screen /\ Calm(t)
      /\ Held(t.host) = Held(s.host)
      /\ Held(t.auth) = Held(s.auth) \ drop
  <2>1. PICK q : q = Discard(s.auth, drop)
    OBVIOUS
  <2>2. /\ q \in PromptQueue /\ Held(q) = Held(s.auth) \ drop
        /\ q.active = s.auth.active \/ q.active = Nothing
    BY <1>1, <2>1, DiscardFacts
  <2>3. PICK d : d = [host |-> s.host, auth |-> q]
    OBVIOUS
  <2>4. d \in Screen /\ d.host = s.host /\ d.auth = q
        /\ t = IF q.active # s.auth.active THEN ShowNext(d) ELSE d
    <3>1. d = [s EXCEPT !["auth"] = Discard(s["auth"], drop)] /\ d \in Screen
      BY <2>1, <2>2, <2>3, ScreenFacts
    <3>2. d.host = s.host /\ d.auth = q /\ d["auth"] = q
      BY <2>3
    <3>3. t = IF d["auth"].active # s["auth"].active THEN ShowNext(d) ELSE d
      BY <1>4, <3>1 DEF Discarded
    <3>. QED BY <3>1, <3>2, <3>3
  <2>5. Alone(d)
    BY <2>2, <2>4 DEF Calm, Alone
  <2>6. CASE q.active # s.auth.active
    BY <2>2, <2>4, <2>5, <2>6, ShowNextFacts
  <2>7. CASE q.active = s.auth.active
    <3>1. s.host.active = Nothing /\ s.auth.active = Nothing => Held(s.auth) = {}
      BY <1>1, QueueFacts DEF Calm
    <3>2. q.active = Nothing /\ s.host.active = Nothing => q.pending = <<>>
      BY <2>2, <2>7, <3>1, QueueFacts
    <3>3. Calm(d)
      BY <2>4, <2>5, <2>7, <3>2 DEF Calm
    <3>. QED BY <2>2, <2>4, <2>7, <3>3
  <2>. QED BY <2>6, <2>7
<1>. QED BY <1>2, <1>3, <1>4, <1>5

\* What a discard of one tab's dialogs leaves.
LEMMA DiscardOfFacts ==
  ASSUME NEW s \in Screen, Calm(s), NEW t, NEW preserve \in BOOLEAN
  PROVE  LET r    == DiscardOf(s, t, preserve)
             all  == {p \in DOMAIN prompts : Tab(p) = t}
             kept == {p \in all : preserve /\ prompts[p].kind = "changed"} IN
         /\ r \in Screen /\ Calm(r)
         /\ Held(r.host) = Held(s.host) \ (all \ kept)
         /\ Held(r.auth) = Held(s.auth) \ all
<1>. DEFINE all  == {p \in DOMAIN prompts : Tab(p) = t}
            kept == {p \in all : preserve /\ prompts[p].kind = "changed"}
<1>1. PICK a, k, r : a = all /\ k = kept /\ r = DiscardOf(s, t, preserve)
  OBVIOUS
<1>2. r = Discarded(Discarded(s, "host", a \ k), "auth", a)
  BY <1>1 DEF DiscardOf
<1>3. PICK d : d = Discarded(s, "host", a \ k)
  OBVIOUS
<1>4. /\ d \in Screen /\ Calm(d)
      /\ Held(d.host) = Held(s.host) \ (a \ k) /\ Held(d.auth) = Held(s.auth)
  BY <1>3, DiscardedFacts
<1>5. r = Discarded(d, "auth", a)
  BY <1>2, <1>3
<1>6. /\ r \in Screen /\ Calm(r)
      /\ Held(r.host) = Held(d.host) /\ Held(r.auth) = Held(d.auth) \ a
  BY <1>4, <1>5, DiscardedFacts
<1>. QED BY <1>1, <1>4, <1>6

----
(* The inductive invariant. *)

\* A tab has a connection that was started for it.
TabInv ==
  /\ open \subseteq Tabs
  /\ current \in [Tabs -> Connections \cup {Nothing}]
  /\ started \in Seq(Tabs)
  /\ Len(started) <= MaxConnections
  /\ \A t \in Tabs : current[t] # Nothing =>
       current[t] \in DOMAIN started /\ started[current[t]] = t

EventsKnown ==
  \A c \in Connections : \A e \in Elements(events[c]) :
    /\ c \in DOMAIN started
    /\ e # Closed => e \in DOMAIN prompts /\ prompts[e].conn = c

\* A prompt is issued, and an event sent, by a connection that was started; the event
\* carries a prompt of that connection.
BackendInv ==
  /\ ended \subseteq DOMAIN started
  /\ awaited \in [Connections -> Prompts \cup {Nothing}]
  /\ prompts \in Seq(Prompt)
  /\ Len(prompts) <= MaxPrompts
  /\ \A p \in DOMAIN prompts : prompts[p].conn \in DOMAIN started
  /\ events \in [Connections -> Seq(Prompts \cup {Closed})]
  /\ EventsKnown

ScreenInv ==
  /\ screen \in Screen
  /\ Calm(screen)
  /\ OnScreen \subseteq DOMAIN prompts
  /\ \A p \in Held(screen.host) : prompts[p].kind # "auth"
  /\ \A p \in Held(screen.auth) : prompts[p].kind = "auth"

CallInv ==
  /\ calls \subseteq Call
  /\ \A call \in calls : call.prompt \in DOMAIN prompts

IInv == TabInv /\ BackendInv /\ ScreenInv /\ CallInv /\ ActionablePromptsAreCurrent

LEMMA InitIInv == Init => IInv
<1>. SUFFICES ASSUME Init PROVE IInv
  OBVIOUS
<1>1. \A S : <<>> \in Seq(S) /\ Len(<<>>) = 0 /\ DOMAIN <<>> = {} /\ Elements(<<>>) = {}
  BY EmptySeq DEF Elements
<1>2. TabInv
  BY <1>1 DEF Init, TabInv
<1>3. BackendInv
  BY <1>1 DEF Init, BackendInv, EventsKnown
<1>4. Empty \in PromptQueue /\ Held(Empty) = {} /\ Empty.active = Nothing /\ Empty.pending = <<>>
  BY <1>1 DEF Empty, PromptQueue, Held
<1>5. screen \in Screen /\ screen.host = Empty /\ screen.auth = Empty
  BY <1>4 DEF Init, Screen
<1>6. ScreenInv /\ ActionablePromptsAreCurrent
  BY <1>4, <1>5 DEF ScreenInv, ActionablePromptsAreCurrent, OnScreen, Calm, Alone
<1>7. CallInv
  BY DEF Init, CallInv
<1>. QED BY <1>2, <1>3, <1>6, <1>7 DEF IInv

\* Connections and prompts are only ever added.
LEMMA Grows ==
  ASSUME TabInv, BackendInv, [Next]_vars
  PROVE  /\ \A c \in DOMAIN started : c \in DOMAIN started' /\ started'[c] = started[c]
         /\ \A p \in DOMAIN prompts : p \in DOMAIN prompts' /\ prompts'[p] = prompts[p]
<1>1. \A S : \A s \in Seq(S), x \in S :
        \A i \in DOMAIN s : i \in DOMAIN Append(s, x) /\ Append(s, x)[i] = s[i]
  <2>1. ASSUME NEW S, NEW s \in Seq(S), NEW x \in S, NEW i \in DOMAIN s
        PROVE  i \in DOMAIN Append(s, x) /\ Append(s, x)[i] = s[i]
    <3>1. Len(s) \in Nat /\ DOMAIN s = 1 .. Len(s)
      BY LenProperties
    <3>2. DOMAIN Append(s, x) = 1 .. Len(s) + 1 /\ \A j \in 1 .. Len(s) : Append(s, x)[j] = s[j]
      BY <3>1, AppendProperties, LenProperties
    <3>. QED BY <3>1, <3>2
  <2>. QED BY <2>1
<1>2. started \in Seq(Tabs) /\ prompts \in Seq(Prompt)
  BY DEF TabInv, BackendInv
<1>3. started' = started \/ \E t \in Tabs : started' = Append(started, t)
  BY DEF Next, vars, tabs, BackendStep, CallStep, Start, CloseTab, Ask, WarnChanged, End, Deliver,
         AnswerHostKey, DismissChanged, SubmitAuth, Receive, HostKeyAnswered, AuthAnswered
<1>4. prompts' = prompts \/ \E m \in Prompt : prompts' = Append(prompts, m)
  <2>1. CASE \E c \in Connections, kind \in {"unknown", "auth"} : Ask(c, kind)
    BY <2>1 DEF Ask, Issue, Prompt, Kinds
  <2>2. CASE \E c \in Connections : WarnChanged(c)
    BY <2>2 DEF WarnChanged, Issue, Prompt, Kinds
  <2>3. CASE ~(\/ \E c \in Connections, kind \in {"unknown", "auth"} : Ask(c, kind)
               \/ \E c \in Connections : WarnChanged(c))
    BY <2>3 DEF Next, vars, backend, BackendStep, CallStep, Start, CloseTab, End, Deliver,
           AnswerHostKey, DismissChanged, SubmitAuth, Receive, HostKeyAnswered, AuthAnswered
  <2>. QED BY <2>1, <2>2, <2>3
<1>. QED BY <1>1, <1>2, <1>3, <1>4

LEMMA StepTabInv ==
  ASSUME TabInv, BackendInv, [Next]_vars
  PROVE  TabInv'
<1>0. /\ Len(started) \in Nat /\ DOMAIN started = 1 .. Len(started)
      /\ started \in Seq(Tabs) /\ MaxConnections \in Nat
      /\ \A t \in Tabs : current[t] # Nothing =>
           current[t] \in DOMAIN started /\ started[current[t]] = t
  BY LenProperties DEF TabInv
<1>1. CASE \E t \in Tabs : Start(t)
  <2>1. PICK t \in Tabs : Start(t)
    BY <1>1
  <2>2. PICK n : n = Len(started) + 1
    OBVIOUS
  <2>3. /\ started' \in Seq(Tabs) /\ DOMAIN started' = 1 .. n /\ Len(started') = n
        /\ started'[n] = t
    BY <1>0, <2>1, <2>2, AppendProperties, LenProperties DEF Start
  <2>4. n \in Connections /\ n <= MaxConnections /\ n \in 1 .. n
    BY <1>0, <2>1, <2>2 DEF Start, Connections
  <2>5. open' = open /\ current' = [current EXCEPT ![t] = n]
    BY <2>1, <2>2 DEF Start
  <2>6. \A u \in Tabs : current'[u] # Nothing =>
          current'[u] \in DOMAIN started' /\ started'[current'[u]] = u
    <3>1. \A c \in DOMAIN started : c \in DOMAIN started' /\ started'[c] = started[c]
      BY Grows
    <3>. QED BY <1>0, <2>3, <2>4, <2>5, <3>1 DEF TabInv
  <2>. QED BY <2>3, <2>4, <2>5, <2>6 DEF TabInv
<1>2. CASE ~\E t \in Tabs : Start(t)
  <2>1. /\ started' = started /\ open' \subseteq open
        /\ current' = current \/ \E t : current' = [current EXCEPT ![t] = Nothing]
    BY <1>2 DEF Next, vars, tabs, BackendStep, CallStep, CloseTab, Ask, WarnChanged, End, Deliver,
           AnswerHostKey, DismissChanged, SubmitAuth, Receive, HostKeyAnswered, AuthAnswered
  <2>2. /\ current' \in [Tabs -> Connections \cup {Nothing}]
        /\ \A t \in Tabs : current'[t] = current[t] \/ current'[t] = Nothing
    BY <2>1 DEF TabInv
  <2>. QED BY <2>1, <2>2 DEF TabInv
<1>. QED BY <1>1, <1>2

\* A message joins the events of a connection.
LEMMA SendsEvent ==
  ASSUME BackendInv, NEW c \in Connections, NEW e \in Prompts \cup {Closed},
         events' = [events EXCEPT ![c] = Append(@, e)]
  PROVE  /\ events' \in [Connections -> Seq(Prompts \cup {Closed})]
         /\ \A d \in Connections : Elements(events'[d]) =
              IF d = c THEN Elements(events[d]) \cup {e} ELSE Elements(events[d])
<1>1. events[c] \in Seq(Prompts \cup {Closed})
  BY DEF BackendInv
<1>2. Append(events[c], e) \in Seq(Prompts \cup {Closed})
      /\ Elements(Append(events[c], e)) = Elements(events[c]) \cup {e}
  BY <1>1, ElementsFacts
<1>3. events'[c] = Append(events[c], e) /\ \A d \in Connections \ {c} : events'[d] = events[d]
  BY DEF BackendInv
<1>. QED BY <1>2, <1>3 DEF BackendInv

\* A connection that issues a prompt.
LEMMA Issues ==
  ASSUME TabInv, BackendInv, NEW c \in Connections, NEW kind \in Kinds, Issue(c, kind)
  PROVE  \E n \in Prompts :
           /\ n = Len(prompts) + 1
           /\ prompts' \in Seq(Prompt) /\ Len(prompts') <= MaxPrompts
           /\ n \in DOMAIN prompts' /\ prompts'[n].conn = c
           /\ \A p \in DOMAIN prompts' : prompts'[p].conn \in DOMAIN started
           /\ c \in DOMAIN started
<1>1. /\ Len(prompts) \in Nat /\ DOMAIN prompts = 1 .. Len(prompts)
      /\ prompts \in Seq(Prompt) /\ MaxPrompts \in Nat /\ Len(prompts) < MaxPrompts
  BY LenProperties DEF BackendInv, Issue
<1>2. PICK m \in Prompt : m = [conn |-> c, kind |-> kind]
  BY DEF Prompt
<1>3. prompts' = Append(prompts, m) /\ c \in DOMAIN started /\ m.conn = c
  BY <1>2 DEF Issue, Live
<1>4. /\ prompts' \in Seq(Prompt) /\ Len(prompts') = Len(prompts) + 1
      /\ DOMAIN prompts' = 1 .. Len(prompts) + 1
      /\ prompts'[Len(prompts) + 1] = m
      /\ \A p \in 1 .. Len(prompts) : prompts'[p] = prompts[p]
  BY <1>1, <1>3, AppendProperties, LenProperties
<1>5. /\ 1 .. Len(prompts) + 1 = 1 .. Len(prompts) \cup {Len(prompts) + 1}
      /\ Len(prompts) + 1 <= MaxPrompts /\ Len(prompts) + 1 \in Prompts
  BY <1>1 DEF Prompts
<1>6. \A p \in DOMAIN prompts' : prompts'[p].conn \in DOMAIN started
  BY <1>1, <1>3, <1>4, <1>5 DEF BackendInv
<1>7. Len(prompts) + 1 \in DOMAIN prompts' /\ prompts'[Len(prompts) + 1].conn = c
      /\ Len(prompts') <= MaxPrompts
  BY <1>3, <1>4, <1>5
<1>. QED BY <1>3, <1>4, <1>5, <1>6, <1>7

LEMMA StepBackendInv ==
  ASSUME TabInv, BackendInv, CallInv, [Next]_vars
  PROVE  BackendInv'
<1>1. /\ \A c \in DOMAIN started : c \in DOMAIN started' /\ started'[c] = started[c]
      /\ \A p \in DOMAIN prompts : p \in DOMAIN prompts' /\ prompts'[p] = prompts[p]
  BY Grows
<1>0. ASSUME NEW c \in Connections, NEW E, started' = started,
             E # {} => c \in DOMAIN started,
             \A e \in E : e # Closed => e \in DOMAIN prompts' /\ prompts'[e].conn = c,
             \A d \in Connections :
               Elements(events'[d]) \subseteq IF d = c THEN Elements(events[d]) \cup E
                                              ELSE Elements(events[d])
      PROVE  EventsKnown'
  <2>. SUFFICES ASSUME NEW d \in Connections, NEW e \in Elements(events'[d])
                PROVE  d \in DOMAIN started
                       /\ (e # Closed => e \in DOMAIN prompts' /\ prompts'[e].conn = d)
    BY <1>0 DEF EventsKnown
  <2>1. CASE e \in Elements(events[d])
    BY <1>1, <2>1 DEF BackendInv, EventsKnown
  <2>2. CASE e \notin Elements(events[d])
    <3>1. d = c /\ e \in E
      BY <1>0, <2>2
    <3>. QED BY <1>0, <3>1
  <2>. QED BY <2>1, <2>2
<1>2. CASE \E c \in Connections, kind \in {"unknown", "auth"} : Ask(c, kind)
  <2>1. PICK c \in Connections, kind \in {"unknown", "auth"} : Ask(c, kind)
    BY <1>2
  <2>2. Issue(c, kind) /\ kind \in Kinds
    BY <2>1 DEF Ask, Kinds
  <2>3. PICK n \in Prompts :
          /\ n = Len(prompts) + 1
          /\ prompts' \in Seq(Prompt) /\ Len(prompts') <= MaxPrompts
          /\ n \in DOMAIN prompts' /\ prompts'[n].conn = c
          /\ \A p \in DOMAIN prompts' : prompts'[p].conn \in DOMAIN started
          /\ c \in DOMAIN started
    BY <2>2, Issues
  <2>4. /\ started' = started /\ ended' = ended
        /\ awaited' = [awaited EXCEPT ![c] = n]
        /\ events' = [events EXCEPT ![c] = Append(@, n)]
    BY <2>1, <2>3 DEF Ask, tabs
  <2>5. /\ events' \in [Connections -> Seq(Prompts \cup {Closed})]
        /\ \A d \in Connections : Elements(events'[d]) =
             IF d = c THEN Elements(events[d]) \cup {n} ELSE Elements(events[d])
    BY <2>3, <2>4, SendsEvent
  <2>6. awaited' \in [Connections -> Prompts \cup {Nothing}]
    BY <2>3, <2>4 DEF BackendInv
  <2>7. EventsKnown'
    <3>1. {n} # {} /\ \A e \in {n} : e # Closed => e \in DOMAIN prompts' /\ prompts'[e].conn = c
      BY <2>3
    <3>. QED BY <1>0, <2>3, <2>4, <2>5, <3>1
  <2>. QED BY <2>3, <2>4, <2>5, <2>6, <2>7 DEF BackendInv
<1>3. CASE \E c \in Connections : WarnChanged(c)
  <2>1. PICK c \in Connections : WarnChanged(c)
    BY <1>3
  <2>2. Issue(c, "changed") /\ "changed" \in Kinds
    BY <2>1 DEF WarnChanged, Kinds
  <2>3. PICK n \in Prompts :
          /\ n = Len(prompts) + 1
          /\ prompts' \in Seq(Prompt) /\ Len(prompts') <= MaxPrompts
          /\ n \in DOMAIN prompts' /\ prompts'[n].conn = c
          /\ \A p \in DOMAIN prompts' : prompts'[p].conn \in DOMAIN started
          /\ c \in DOMAIN started
    BY <2>2, Issues
  <2>4. /\ started' = started /\ ended' = ended \cup {c} /\ awaited' = awaited
        /\ events' = [events EXCEPT ![c] = @ \o <<n, Closed>>]
    BY <2>1, <2>3 DEF WarnChanged, tabs
  <2>5. events[c] \in Seq(Prompts \cup {Closed})
    BY DEF BackendInv
  <2>6. PICK s : s = Append(Append(events[c], n), Closed)
    OBVIOUS
  <2>7. /\ s \in Seq(Prompts \cup {Closed})
        /\ Elements(s) = Elements(events[c]) \cup {n, Closed}
    <3>1. Append(events[c], n) \in Seq(Prompts \cup {Closed})
          /\ Elements(Append(events[c], n)) = Elements(events[c]) \cup {n}
      BY <2>3, <2>5, ElementsFacts
    <3>2. s \in Seq(Prompts \cup {Closed})
          /\ Elements(s) = Elements(Append(events[c], n)) \cup {Closed}
      <4>1. PICK q \in Seq(Prompts \cup {Closed}) : q = Append(events[c], n)
        BY <3>1
      <4>2. Append(q, Closed) \in Seq(Prompts \cup {Closed})
            /\ Elements(Append(q, Closed)) = Elements(q) \cup {Closed}
        BY ElementsFacts
      <4>. QED BY <2>6, <4>1, <4>2
    <3>. QED BY <3>1, <3>2
  <2>8. events[c] \o <<n, Closed>> = s
    BY <2>3, <2>5, <2>6
  <2>9. /\ events' \in [Connections -> Seq(Prompts \cup {Closed})]
        /\ \A d \in Connections : Elements(events'[d]) =
             IF d = c THEN Elements(events[d]) \cup {n, Closed} ELSE Elements(events[d])
    BY <2>4, <2>7, <2>8 DEF BackendInv
  <2>10. EventsKnown'
    <3>1. \A e \in {n, Closed} : e # Closed => e \in DOMAIN prompts' /\ prompts'[e].conn = c
      BY <2>3
    <3>. QED BY <1>0, <2>3, <2>4, <2>9, <3>1
  <2>11. ended' \subseteq DOMAIN started'
    BY <2>3, <2>4 DEF BackendInv
  <2>. QED BY <2>3, <2>4, <2>9, <2>10, <2>11 DEF BackendInv
<1>4. CASE \E c \in Connections : End(c)
  <2>1. PICK c \in Connections : End(c)
    BY <1>4
  <2>2. /\ started' = started /\ prompts' = prompts /\ ended' = ended \cup {c}
        /\ awaited' = [awaited EXCEPT ![c] = Nothing]
        /\ events' = [events EXCEPT ![c] = Append(@, Closed)]
        /\ c \in DOMAIN started
    BY <2>1 DEF End, tabs, Live
  <2>3. /\ events' \in [Connections -> Seq(Prompts \cup {Closed})]
        /\ \A d \in Connections : Elements(events'[d]) =
             IF d = c THEN Elements(events[d]) \cup {Closed} ELSE Elements(events[d])
    BY <2>2, SendsEvent
  <2>4. awaited' \in [Connections -> Prompts \cup {Nothing}]
    BY <2>2 DEF BackendInv
  <2>5. EventsKnown'
    <3>1. \A e \in {Closed} : e # Closed => e \in DOMAIN prompts' /\ prompts'[e].conn = c
      OBVIOUS
    <3>. QED BY <1>0, <2>2, <2>3, <3>1
  <2>6. ended' \subseteq DOMAIN started'
    BY <2>2 DEF BackendInv
  <2>. QED BY <2>2, <2>3, <2>4, <2>5, <2>6 DEF BackendInv
<1>5. CASE \E c \in Connections : Deliver(c)
  <2>1. PICK c \in Connections : Deliver(c)
    BY <1>5
  <2>2. /\ started' = started /\ prompts' = prompts /\ ended' = ended /\ awaited' = awaited
        /\ events' = [events EXCEPT ![c] = Tail(@)] /\ events[c] # <<>>
    BY <2>1 DEF Deliver, backend
  <2>3. events[c] \in Seq(Prompts \cup {Closed})
    BY DEF BackendInv
  <2>4. /\ Tail(events[c]) \in Seq(Prompts \cup {Closed})
        /\ Elements(Tail(events[c])) \subseteq Elements(events[c])
    BY <2>2, <2>3, ElementsFacts
  <2>5. /\ events' \in [Connections -> Seq(Prompts \cup {Closed})]
        /\ \A d \in Connections : Elements(events'[d]) \subseteq Elements(events[d])
    BY <2>2, <2>4 DEF BackendInv
  <2>. QED BY <2>2, <2>5 DEF BackendInv, EventsKnown
<1>6. CASE ~(\/ \E c \in Connections, kind \in {"unknown", "auth"} : Ask(c, kind)
             \/ \E c \in Connections : WarnChanged(c) \/ End(c) \/ Deliver(c))
  <2>1. UNCHANGED <<ended, prompts, events>>
    BY <1>6 DEF Next, vars, backend, BackendStep, CallStep, Start, CloseTab,
           AnswerHostKey, DismissChanged, SubmitAuth, Receive, HostKeyAnswered, AuthAnswered
  <2>2. awaited' = awaited \/ \E c, p : awaited' = [awaited EXCEPT ![c] = IF @ = p THEN Nothing ELSE @]
    BY <1>6 DEF Next, vars, backend, BackendStep, CallStep, Start, CloseTab,
           AnswerHostKey, DismissChanged, SubmitAuth, Receive, HostKeyAnswered, AuthAnswered
  <2>3. awaited' \in [Connections -> Prompts \cup {Nothing}]
    BY <2>2 DEF BackendInv
  <2>4. EventsKnown' /\ ended' \subseteq DOMAIN started'
        /\ \A p \in DOMAIN prompts' : prompts'[p].conn \in DOMAIN started'
    BY <1>1, <2>1 DEF BackendInv, EventsKnown
  <2>. QED BY <2>1, <2>3, <2>4 DEF BackendInv
<1>. QED BY <1>2, <1>3, <1>4, <1>5, <1>6

LEMMA StepCallInv ==
  ASSUME IInv, [Next]_vars
  PROVE  CallInv'
<1>1. \A p \in DOMAIN prompts : p \in DOMAIN prompts'
  BY Grows DEF IInv
<1>2. /\ calls \subseteq Call /\ \A call \in calls : call.prompt \in DOMAIN prompts
      /\ DOMAIN prompts \subseteq Prompts
  <2>1. Len(prompts) \in Nat /\ DOMAIN prompts = 1 .. Len(prompts) /\ Len(prompts) <= MaxPrompts
    BY LenProperties DEF IInv, BackendInv
  <2>2. DOMAIN prompts \subseteq Prompts
    BY <2>1 DEF Prompts
  <2>. QED BY <2>2 DEF IInv, CallInv
<1>3. ASSUME NEW new \in Call, new.prompt \in DOMAIN prompts, calls' \subseteq calls \cup {new}
      PROVE  CallInv'
  BY <1>1, <1>2, <1>3 DEF CallInv
<1>4. ASSUME NEW p \in DOMAIN prompts, Invoke(p) PROVE CallInv'
  <2>1. PICK n \in 1 .. MaxCalls : calls' = calls \cup {[prompt |-> p, try |-> n, state |-> "sent"]}
    BY <1>4 DEF Invoke
  <2>2. PICK new : new = [prompt |-> p, try |-> n, state |-> "sent"]
    OBVIOUS
  <2>3. new \in Call /\ new.prompt = p
    BY <1>2, <2>2 DEF Call
  <2>. QED BY <1>3, <2>1, <2>2, <2>3
<1>5. /\ screen.host.active # Nothing => screen.host.active \in DOMAIN prompts
      /\ screen.auth.active # Nothing => screen.auth.active \in DOMAIN prompts
  BY DEF IInv, ScreenInv, OnScreen, Held
<1>6. CASE AnswerHostKey
  BY <1>4, <1>5, <1>6 DEF AnswerHostKey
<1>7. CASE SubmitAuth
  BY <1>4, <1>5, <1>7 DEF SubmitAuth
<1>8. CASE \E call \in calls : Receive(call)
  <2>1. PICK call \in calls : Receive(call)
    BY <1>8
  <2>2. PICK state \in {"ok", "failed"} : Advance(call, state)
    BY <2>1 DEF Receive
  <2>3. PICK new : new = [call EXCEPT !.state = state]
    OBVIOUS
  <2>4. call \in Call
    BY <1>2
  <2>5. new \in Call /\ new.prompt = call.prompt
    BY <2>3, <2>4 DEF Call
  <2>6. calls' \subseteq calls \cup {new}
    BY <2>2, <2>3 DEF Advance
  <2>. QED BY <1>2, <1>3, <2>5, <2>6
<1>9. CASE ~(AnswerHostKey \/ SubmitAuth \/ \E call \in calls : Receive(call))
  <2>1. calls' \subseteq calls
    BY <1>9 DEF Next, vars, BackendStep, CallStep, Start, CloseTab, Ask, WarnChanged, End, Deliver,
           DismissChanged, HostKeyAnswered, AuthAnswered
  <2>. QED BY <1>1, <1>2, <2>1 DEF CallInv
<1>. QED BY <1>6, <1>7, <1>8, <1>9

\* What a step says of the dialogs: the screen's invariant, that what can be answered is
\* current, and that no warning goes unseen.
Warned ==
  \A p \in OnScreen :
    prompts[p].kind = "changed" /\ p \notin OnScreen' =>
      p = screen.host.active \/ Tab(p) \notin open'
Dialogs == ScreenInv' /\ ActionablePromptsAreCurrent' /\ Warned

LEMMA TabOfPrompt ==
  ASSUME IInv, [Next]_vars
  PROVE  \A p \in DOMAIN prompts :
           /\ prompts'[p] = prompts[p] /\ p \in DOMAIN prompts'
           /\ Tab(p)' = Tab(p) /\ Tab(p) \in Tabs
<1>1. /\ \A c \in DOMAIN started : c \in DOMAIN started' /\ started'[c] = started[c]
      /\ \A p \in DOMAIN prompts : p \in DOMAIN prompts' /\ prompts'[p] = prompts[p]
  BY Grows DEF IInv
<1>2. \A p \in DOMAIN prompts : prompts[p].conn \in DOMAIN started
  BY DEF IInv, BackendInv
<1>3. \A c \in DOMAIN started : started[c] \in Tabs
  BY ElementOfSeq, LenProperties DEF IInv, TabInv
<1>. QED BY <1>1, <1>2, <1>3 DEF Tab

\* Dialogs that leave the screen, and none that appears.
LEMMA DialogsLeave ==
  ASSUME IInv, [Next]_vars, screen' \in Screen, Calm(screen'),
         Held(screen'.host) \subseteq Held(screen.host),
         Held(screen'.auth) \subseteq Held(screen.auth),
         \A p \in OnScreen' : prompts[p].kind # "changed" => current'[Tab(p)] = current[Tab(p)],
         Warned
  PROVE  Dialogs
<1>1. \A p \in DOMAIN prompts :
        prompts'[p] = prompts[p] /\ p \in DOMAIN prompts' /\ Tab(p)' = Tab(p)
  BY TabOfPrompt
<1>2. /\ OnScreen \subseteq DOMAIN prompts
      /\ \A p \in Held(screen.host) : prompts[p].kind # "auth"
      /\ \A p \in Held(screen.auth) : prompts[p].kind = "auth"
      /\ \A p \in OnScreen : prompts[p].kind # "changed" => current[Tab(p)] = prompts[p].conn
  BY DEF IInv, ScreenInv, ActionablePromptsAreCurrent
<1>3. OnScreen' \subseteq OnScreen /\ OnScreen' = Held(screen'.host) \cup Held(screen'.auth)
      /\ Held(screen.host) \subseteq OnScreen /\ Held(screen.auth) \subseteq OnScreen
  BY DEF OnScreen
<1>4. ScreenInv'
  BY <1>1, <1>2, <1>3 DEF ScreenInv
<1>5. ActionablePromptsAreCurrent'
  BY <1>1, <1>2, <1>3 DEF ActionablePromptsAreCurrent
<1>. QED BY <1>4, <1>5 DEF Dialogs

LEMMA StartDialogs ==
  ASSUME IInv, [Next]_vars, NEW t \in Tabs, Start(t)
  PROVE  Dialogs
<1>1. /\ screen' = screen /\ current[t] = Nothing
      /\ \A u \in Tabs \ {t} : current'[u] = current[u]
  BY DEF Start, IInv, TabInv
<1>2. /\ OnScreen \subseteq DOMAIN prompts /\ screen \in Screen /\ Calm(screen)
      /\ \A p \in OnScreen : prompts[p].kind # "changed" => current[Tab(p)] = prompts[p].conn
      /\ \A p \in DOMAIN prompts : prompts[p].conn \in DOMAIN started
  BY DEF IInv, BackendInv, ScreenInv, ActionablePromptsAreCurrent
<1>3. OnScreen' = OnScreen
  BY <1>1 DEF OnScreen
<1>4. \A p \in DOMAIN prompts : prompts[p].conn # Nothing
  <2>1. Len(started) \in Nat /\ DOMAIN started = 1 .. Len(started)
    BY LenProperties DEF IInv, TabInv
  <2>. QED BY <1>2, <2>1 DEF Nothing
<1>5. \A p \in OnScreen' : prompts[p].kind # "changed" => current'[Tab(p)] = current[Tab(p)]
  BY <1>1, <1>2, <1>3, <1>4, TabOfPrompt
<1>6. Warned
  BY <1>3 DEF Warned
<1>. QED BY <1>1, <1>2, <1>5, <1>6, DialogsLeave

LEMMA DiscardDialogs ==
  ASSUME IInv, [Next]_vars, NEW t \in Tabs, NEW preserve \in BOOLEAN,
         screen' = DiscardOf(screen, t, preserve),
         current' = [current EXCEPT ![t] = Nothing],
         preserve \/ t \notin open'
  PROVE  Dialogs
<1>1. PICK all, kept :
        /\ all = {p \in DOMAIN prompts : Tab(p) = t}
        /\ kept = {p \in all : preserve /\ prompts[p].kind = "changed"}
  OBVIOUS
<1>2. screen \in Screen /\ Calm(screen) /\ OnScreen \subseteq DOMAIN prompts
      /\ \A p \in Held(screen.auth) : prompts[p].kind = "auth"
  BY DEF IInv, ScreenInv
<1>3. /\ screen' \in Screen /\ Calm(screen')
      /\ Held(screen'.host) = Held(screen.host) \ (all \ kept)
      /\ Held(screen'.auth) = Held(screen.auth) \ all
  BY <1>1, <1>2, DiscardOfFacts
<1>4. OnScreen = Held(screen.host) \cup Held(screen.auth)
      /\ OnScreen' = Held(screen'.host) \cup Held(screen'.auth)
  BY DEF OnScreen
<1>5. ASSUME NEW p \in OnScreen', prompts[p].kind # "changed"
      PROVE  current'[Tab(p)] = current[Tab(p)]
  <2>1. p \in DOMAIN prompts /\ p \notin all
    BY <1>1, <1>2, <1>3, <1>4, <1>5
  <2>2. Tab(p) \in Tabs \ {t}
    BY <1>1, <2>1, TabOfPrompt
  <2>. QED BY <2>2 DEF IInv, TabInv
<1>6. ASSUME NEW p \in OnScreen, prompts[p].kind = "changed", p \notin OnScreen'
      PROVE  Tab(p) \notin open'
  <2>1. p \in Held(screen.host) /\ p \in DOMAIN prompts
    BY <1>2, <1>4, <1>6
  <2>2. p \in all /\ p \notin kept
    BY <1>3, <1>4, <1>6, <2>1
  <2>. QED BY <1>1, <1>6, <2>2
<1>. QED BY <1>3, <1>5, <1>6, DialogsLeave DEF Warned

LEMMA DeliverDialogs ==
  ASSUME IInv, [Next]_vars, NEW c \in Connections, Deliver(c)
  PROVE  Dialogs
<1>1. PICK e : e = Head(events[c])
  OBVIOUS
<1>2. PICK t : t = started[c]
  OBVIOUS
<1>3. screen \in Screen /\ Calm(screen) /\ OnScreen \subseteq DOMAIN prompts
  BY DEF IInv, ScreenInv
<1>4. /\ c \in DOMAIN started /\ t \in Tabs
      /\ e # Closed => e \in DOMAIN prompts /\ prompts[e].conn = c
  <2>1. events[c] \in Seq(Prompts \cup {Closed}) /\ events[c] # <<>> /\ EventsKnown
    BY DEF IInv, BackendInv, Deliver
  <2>2. e \in Elements(events[c])
    BY <1>1, <2>1, ElementsFacts
  <2>3. c \in DOMAIN started /\ (e # Closed => e \in DOMAIN prompts /\ prompts[e].conn = c)
    BY <2>1, <2>2 DEF EventsKnown
  <2>. QED BY <1>2, <2>3, ElementOfSeq, LenProperties DEF IInv, TabInv
<1>5. \/ UNCHANGED <<current, screen>>
      \/ /\ current' = [current EXCEPT ![t] = Nothing]
         /\ screen' = DiscardOf(screen, t, TRUE)
      \/ /\ current[t] = c /\ e # Closed
         /\ screen' = Show(screen, e)
         /\ current' = current
  BY <1>1, <1>2 DEF Deliver
<1>6. CASE UNCHANGED <<current, screen>>
  <2>1. OnScreen' = OnScreen
    BY <1>6 DEF OnScreen
  <2>2. Warned
    BY <2>1 DEF Warned
  <2>. QED BY <1>3, <1>6, <2>2, DialogsLeave
<1>7. CASE current' = [current EXCEPT ![t] = Nothing] /\ screen' = DiscardOf(screen, t, TRUE)
  BY <1>4, <1>7, DiscardDialogs
<1>8. CASE current[t] = c /\ e # Closed /\ screen' = Show(screen, e) /\ current' = current
  <2>1. e \in DOMAIN prompts /\ prompts[e].conn = c /\ Tab(e) = t /\ e \in Prompts
    <3>1. Len(prompts) \in Nat /\ DOMAIN prompts = 1 .. Len(prompts) /\ Len(prompts) <= MaxPrompts
      BY LenProperties DEF IInv, BackendInv
    <3>. QED BY <1>2, <1>4, <1>8, <3>1 DEF Tab, Prompts
  <2>2. /\ screen' \in Screen /\ Calm(screen')
        /\ prompts[e].kind = "auth" =>
             /\ Held(screen'.host) = Held(screen.host)
             /\ Held(screen'.auth) = Held(screen.auth) \cup {e}
        /\ prompts[e].kind # "auth" =>
             /\ Held(screen'.host) = Held(screen.host) \cup {e}
             /\ Held(screen'.auth) = Held(screen.auth)
    BY <1>3, <1>8, <2>1, ShowFacts
  <2>3. OnScreen' = OnScreen \cup {e} /\ OnScreen' = Held(screen'.host) \cup Held(screen'.auth)
    BY <2>2 DEF OnScreen
  <2>4. \A p \in DOMAIN prompts :
          prompts'[p] = prompts[p] /\ p \in DOMAIN prompts' /\ Tab(p)' = Tab(p)
    BY TabOfPrompt
  <2>5. /\ \A p \in Held(screen.host) : prompts[p].kind # "auth"
        /\ \A p \in Held(screen.auth) : prompts[p].kind = "auth"
    BY DEF IInv, ScreenInv
  <2>6. ScreenInv'
    BY <1>3, <2>1, <2>2, <2>3, <2>4, <2>5 DEF ScreenInv
  <2>7. \A p \in OnScreen : prompts[p].kind # "changed" => current[Tab(p)] = prompts[p].conn
    BY DEF IInv, ActionablePromptsAreCurrent
  <2>8. ActionablePromptsAreCurrent'
    BY <1>3, <1>8, <2>1, <2>3, <2>4, <2>7 DEF ActionablePromptsAreCurrent
  <2>. QED BY <2>3, <2>6, <2>8 DEF Dialogs, Warned
<1>. QED BY <1>5, <1>6, <1>7, <1>8

LEMMA StepDialogs ==
  ASSUME IInv, [Next]_vars
  PROVE  Dialogs
<1>1. /\ screen \in Screen /\ Calm(screen) /\ OnScreen \subseteq DOMAIN prompts
      /\ \A p \in Held(screen.host) : prompts[p].kind # "auth"
      /\ \A p \in Held(screen.auth) : prompts[p].kind = "auth"
  BY DEF IInv, ScreenInv
<1>2. OnScreen = Held(screen.host) \cup Held(screen.auth)
      /\ OnScreen' = Held(screen'.host) \cup Held(screen'.auth)
  BY DEF OnScreen
<1>3. CASE \E t \in Tabs : Start(t)
  BY <1>3, StartDialogs
<1>4. CASE \E c \in Connections : Deliver(c)
  BY <1>4, DeliverDialogs
<1>5. CASE \E t \in Tabs : CloseTab(t)
  <2>1. PICK t \in Tabs : CloseTab(t)
    BY <1>5
  <2>2. /\ screen' = DiscardOf(screen, t, FALSE) /\ t \notin open'
        /\ current' = [current EXCEPT ![t] = Nothing]
    BY <2>1 DEF CloseTab
  <2>. QED BY <2>2, DiscardDialogs
<1>6. CASE DismissChanged \/ \E call \in calls : HostKeyAnswered(call)
  <2>1. screen' = ShowNext([screen EXCEPT !.host = Finished(@)]) /\ current' = current
    BY <1>6 DEF DismissChanged, HostKeyAnswered, tabs
  <2>2. /\ screen' \in Screen /\ Calm(screen')
        /\ Held(screen'.host) \subseteq Held(screen.host)
        /\ Held(screen.host) \subseteq Held(screen'.host) \cup {screen.host.active}
        /\ Held(screen'.auth) = Held(screen.auth)
    BY <1>1, <2>1, FinishedFacts
  <2>3. Warned
    BY <1>2, <2>2 DEF Warned
  <2>. QED BY <2>1, <2>2, <2>3, DialogsLeave
<1>7. CASE \E call \in calls : AuthAnswered(call)
  <2>1. /\ screen' = screen \/ screen' = ShowNext([screen EXCEPT !.auth = Finished(@)])
        /\ current' = current
    BY <1>7 DEF AuthAnswered, tabs
  <2>2. CASE screen' = screen
    <3>1. Warned
      BY <1>2, <2>2 DEF Warned
    <3>. QED BY <1>1, <2>1, <2>2, <3>1, DialogsLeave
  <2>3. CASE screen' = ShowNext([screen EXCEPT !.auth = Finished(@)])
    <3>1. /\ screen' \in Screen /\ Calm(screen')
          /\ Held(screen'.auth) \subseteq Held(screen.auth)
          /\ Held(screen'.host) = Held(screen.host)
      BY <1>1, <2>3, FinishedFacts
    <3>2. \A p \in OnScreen : prompts[p].kind = "changed" => p \in OnScreen'
      <4>1. ASSUME NEW p \in OnScreen, prompts[p].kind = "changed" PROVE p \in OnScreen'
        <5>1. p \notin Held(screen.auth)
          BY <1>1, <4>1
        <5>. QED BY <1>2, <3>1, <4>1, <5>1
      <4>. QED BY <4>1
    <3>3. Warned
      BY <3>2 DEF Warned
    <3>. QED BY <2>1, <3>1, <3>3, DialogsLeave
  <2>. QED BY <2>1, <2>2, <2>3
<1>8. CASE ~(\/ \E t \in Tabs : Start(t) \/ CloseTab(t)
             \/ \E c \in Connections : Deliver(c)
             \/ DismissChanged
             \/ \E call \in calls : HostKeyAnswered(call) \/ AuthAnswered(call))
  <2>1. UNCHANGED <<screen, current>>
    BY <1>8 DEF Next, vars, tabs, BackendStep, CallStep, Ask, WarnChanged, End,
           AnswerHostKey, SubmitAuth, Receive
  <2>2. Warned
    BY <1>2, <2>1 DEF Warned
  <2>. QED BY <1>1, <2>1, <2>2, DialogsLeave
<1>. QED BY <1>3, <1>4, <1>5, <1>6, <1>7, <1>8

LEMMA StepIInv == IInv /\ [Next]_vars => IInv' /\ Warned
<1>. SUFFICES ASSUME IInv, [Next]_vars PROVE IInv' /\ Warned
  OBVIOUS
<1>1. TabInv' /\ BackendInv' /\ CallInv'
  BY StepTabInv, StepBackendInv, StepCallInv DEF IInv
<1>. QED BY <1>1, StepDialogs DEF IInv, Dialogs

----
(* The theorems. *)

\* Every dialog is about a prompt that a started connection issued, and stands in the
\* queue of its kind.
THEOREM TypeCorrect == Spec => []TypeOK
<1>1. IInv => TypeOK
  BY DEF IInv, TabInv, BackendInv, ScreenInv, CallInv, TypeOK
<1>. QED BY <1>1, InitIInv, StepIInv, PTL DEF Spec

\* One secure dialog at a time, and none waits behind an empty screen, whatever the
\* events, the answers and the operator do to the two queues.
THEOREM OneDialog == Spec => []OneDialogAndNoneForgotten
<1>1. IInv => OneDialogAndNoneForgotten
  <2>. SUFFICES ASSUME IInv PROVE OneDialogAndNoneForgotten
    OBVIOUS
  <2>1. screen.host \in PromptQueue /\ screen.auth \in PromptQueue /\ Calm(screen)
    BY ScreenFacts DEF IInv, ScreenInv
  <2>2. /\ Held(screen.host) = {} <=> screen.host.active = Nothing /\ screen.host.pending = <<>>
        /\ Held(screen.auth) = {} <=> screen.auth.active = Nothing /\ screen.auth.pending = <<>>
    BY <2>1, QueueFacts
  <2>. QED BY <2>1, <2>2 DEF OneDialogAndNoneForgotten, Calm, Alone, Shown, OnScreen
<1>. QED BY <1>1, InitIInv, StepIInv, PTL DEF Spec

\* What can be answered, on screen or queued, was asked by the connection its tab has now.
THEOREM DialogsAreCurrent == Spec => []ActionablePromptsAreCurrent
<1>1. IInv => ActionablePromptsAreCurrent
  BY DEF IInv
<1>. QED BY <1>1, InitIInv, StepIInv, PTL DEF Spec

\* While its tab is open, a changed-key warning leaves the queues only from the dialog
\* that shows it.
THEOREM NoWarningGoesUnseen == Spec => WarningsAreSeen
<1>1. Warned => [\A p \in OnScreen :
                   /\ prompts[p].kind = "changed"
                   /\ p \notin OnScreen'
                   => \/ p = screen.host.active
                      \/ Tab(p) \notin open']_screen
  BY DEF Warned
<1>. QED BY <1>1, InitIInv, StepIInv, PTL DEF Spec, WarningsAreSeen
=============================================================================
