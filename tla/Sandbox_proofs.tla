---------------------------- MODULE Sandbox_proofs ----------------------------
(***************************************************************************)
(* Theorems about Sandbox, for every number of slots and any set of calls, *)
(* finite or not.                                                          *)
(***************************************************************************)
EXTENDS Sandbox, FiniteSetTheorems, SequenceTheorems, TLAPS

-----------------------------------------------------------------------------
(***************************************************************************)
(* The queue of the semaphore, a sequence without repetitions.             *)
(***************************************************************************)
Distinct(q) == \A i, j \in 1..Len(q) : q[i] = q[j] => i = j

\* Serving the head takes it, and only it, from the queue.
LEMMA ServeHead ==
  ASSUME NEW S, NEW q \in Seq(S), q # <<>>, Distinct(q)
  PROVE  /\ Tail(q) \in Seq(S) /\ Distinct(Tail(q))
         /\ ToSet(Tail(q)) = ToSet(q) \ {q[1]}
         /\ q[1] \in ToSet(q)
<1>1. Len(q) \in Nat /\ Len(q) >= 1 /\ DOMAIN q = 1..Len(q)
  OBVIOUS
<1>2. /\ Tail(q) \in Seq(S) /\ Len(Tail(q)) = Len(q) - 1
      /\ \A i \in 1..(Len(q) - 1) : Tail(q)[i] = q[i + 1]
      /\ DOMAIN Tail(q) = 1..(Len(q) - 1)
  OBVIOUS
<1>3. Distinct(Tail(q))
  BY <1>1, <1>2 DEF Distinct
<1>4. ASSUME NEW x PROVE x \in ToSet(Tail(q)) <=> x \in ToSet(q) \ {q[1]}
  <2>1. ASSUME x \in ToSet(Tail(q)) PROVE x \in ToSet(q) \ {q[1]}
    <3>1. PICK i \in 1..(Len(q) - 1) : q[i + 1] = x
      BY <1>2, <2>1 DEF ToSet
    <3>2. i + 1 \in 1..Len(q) /\ 1 \in 1..Len(q) /\ i + 1 # 1
      BY <1>1
    <3>3. QED
      BY <1>1, <3>1, <3>2 DEF ToSet, Distinct
  <2>2. ASSUME x \in ToSet(q) \ {q[1]} PROVE x \in ToSet(Tail(q))
    <3>1. PICK i \in 1..Len(q) : q[i] = x
      BY <1>1, <2>2 DEF ToSet
    <3>2. i - 1 \in 1..(Len(q) - 1) /\ (i - 1) + 1 = i
      BY <1>1, <2>2, <3>1
    <3>3. Tail(q)[i - 1] = x
      BY <1>2, <3>1, <3>2
    <3>4. QED
      BY <1>2, <3>2, <3>3 DEF ToSet
  <2>3. QED
    BY <2>1, <2>2
<1>5. q[1] \in ToSet(q)
  BY <1>1 DEF ToSet
<1>6. QED
  BY <1>2, <1>3, <1>4, <1>5

\* Joining the queue adds the caller.
LEMMA JoinQueue ==
  ASSUME NEW S, NEW q \in Seq(S), Distinct(q), NEW c \in S, c \notin ToSet(q)
  PROVE  /\ Append(q, c) \in Seq(S) /\ Distinct(Append(q, c))
         /\ ToSet(Append(q, c)) = ToSet(q) \cup {c}
<1>1. Len(q) \in Nat /\ DOMAIN q = 1..Len(q)
  OBVIOUS
<1>2. /\ Append(q, c) \in Seq(S) /\ Len(Append(q, c)) = Len(q) + 1
      /\ \A i \in 1..Len(q) : Append(q, c)[i] = q[i]
      /\ Append(q, c)[Len(q) + 1] = c
      /\ DOMAIN Append(q, c) = 1..(Len(q) + 1)
  OBVIOUS
<1>3. \A i \in 1..Len(q) : q[i] # c
  BY <1>1 DEF ToSet
<1>4. Distinct(Append(q, c))
  BY <1>1, <1>2, <1>3 DEF Distinct
<1>5. \A x \in ToSet(Append(q, c)) : x \in ToSet(q) \cup {c}
  BY <1>1, <1>2 DEF ToSet
<1>6. \A x \in ToSet(q) : x \in ToSet(Append(q, c))
  BY <1>1, <1>2 DEF ToSet
<1>7. c \in ToSet(Append(q, c))
  BY <1>1, <1>2 DEF ToSet
<1>8. QED
  BY <1>2, <1>4, <1>5, <1>6, <1>7

\* Leaving the queue takes the one that leaves.
LEMMA LeaveQueue ==
  ASSUME NEW S, NEW q \in Seq(S), Distinct(q), NEW i \in DOMAIN q
  PROVE  /\ RemoveAt(q, i) \in Seq(S) /\ Distinct(RemoveAt(q, i))
         /\ ToSet(RemoveAt(q, i)) = ToSet(q) \ {q[i]}
         /\ q = <<>> => RemoveAt(q, i) = <<>>
<1> DEFINE l == RemoveAt(q, i)
<1>1. Len(q) \in Nat /\ DOMAIN q = 1..Len(q) /\ i \in 1..Len(q)
  OBVIOUS
<1>2. /\ l \in Seq(S) /\ Len(l) = Len(q) - 1
      /\ \A k \in 1..(Len(q) - 1) : l[k] = IF k < i THEN q[k] ELSE q[k + 1]
  <2> DEFINE left == SubSeq(q, 1, i - 1)
             right == SubSeq(q, i + 1, Len(q))
  <2>1. /\ left \in Seq(S) /\ Len(left) = i - 1
        /\ \A k \in 1..(i - 1) : left[k] = q[k]
    BY <1>1
  <2>2. /\ right \in Seq(S) /\ Len(right) = Len(q) - i
        /\ \A k \in 1..(Len(q) - i) : right[k] = q[i + k]
    BY <1>1
  <2>3. l = left \o right
    BY DEF RemoveAt
  <2> HIDE DEF left, right, l
  <2>4. l \in Seq(S) /\ Len(l) = Len(q) - 1
    <3>1. l \in Seq(S) /\ Len(l) = Len(left) + Len(right)
      BY <2>1, <2>2, <2>3, ConcatProperties
    <3>2. (i - 1) + (Len(q) - i) = Len(q) - 1
      BY <1>1
    <3>3. QED
      BY <2>1, <2>2, <3>1, <3>2
  <2>5. ASSUME NEW k \in 1..(Len(q) - 1)
        PROVE  l[k] = IF k < i THEN q[k] ELSE q[k + 1]
    <3>1. CASE k < i
      <4>1. k \in 1..(i - 1)
        BY <1>1, <3>1
      <4>2. l[k] = left[k]
        BY <2>1, <2>2, <2>3, <4>1
      <4>3. QED
        BY <2>1, <3>1, <4>1, <4>2
    <3>2. CASE ~(k < i)
      <4>1. k - (i - 1) \in 1..(Len(q) - i) /\ i + (k - (i - 1)) = k + 1
        BY <1>1, <3>2
      <4>2. l[k] = right[k - (i - 1)]
        BY SMTT(20), <1>1, <2>1, <2>2, <2>3, <3>2
      <4>3. QED
        BY <2>2, <3>2, <4>1, <4>2
    <3>3. QED
      BY <3>1, <3>2
  <2>6. QED
    BY <2>4, <2>5
<1>3. DOMAIN l = 1..(Len(q) - 1)
  BY <1>2
<1> HIDE DEF l
<1>4. Distinct(l)
  BY <1>1, <1>2 DEF Distinct
<1>5. ASSUME NEW x \in ToSet(l) PROVE x \in ToSet(q) \ {q[i]}
  <2>1. PICK k \in 1..(Len(q) - 1) : l[k] = x
    BY <1>3 DEF ToSet
  <2>2. PICK m \in 1..Len(q) : m # i /\ q[m] = x
    <3>1. CASE k < i
      <4>1. k \in 1..Len(q) /\ k # i
        BY <1>1, <3>1
      <4>2. q[k] = x
        BY <1>2, <2>1, <3>1
      <4>3. QED
        BY <4>1, <4>2
    <3>2. CASE ~(k < i)
      <4>1. k + 1 \in 1..Len(q) /\ k + 1 # i
        BY <1>1, <3>2
      <4>2. q[k + 1] = x
        BY <1>2, <2>1, <3>2
      <4>3. QED
        BY <4>1, <4>2
    <3>3. QED
      BY <3>1, <3>2
  <2>3. QED
    BY <1>1, <2>2 DEF ToSet, Distinct
<1>6. ASSUME NEW x \in ToSet(q), x # q[i] PROVE x \in ToSet(l)
  <2>1. PICK m \in 1..Len(q) : m # i /\ q[m] = x
    BY <1>1, <1>6 DEF ToSet
  <2>2. PICK k \in 1..(Len(q) - 1) : l[k] = x
    <3>1. CASE m < i
      BY <1>1, <1>2, <2>1, <3>1
    <3>2. CASE m > i
      <4>1. m - 1 \in 1..(Len(q) - 1) /\ ~(m - 1 < i) /\ (m - 1) + 1 = m
        BY <1>1, <3>2
      <4>2. QED
        BY <1>2, <2>1, <4>1
    <3>3. QED
      BY <1>1, <2>1, <3>1, <3>2
  <2>3. QED
    BY <1>3, <2>2 DEF ToSet
<1>7. QED
  BY <1>1, <1>2, <1>4, <1>5, <1>6 DEF l

-----------------------------------------------------------------------------
(***************************************************************************)
(* The tokens.  Who holds one is not written anywhere in the code: a call  *)
(* in the queue becomes a holder by the step of another.  The inductive    *)
(* invariant ties the counter, the queue and the labels together.          *)
(***************************************************************************)
Queued == /\ Distinct(waiters)
          /\ \A c \in ToSet(waiters) : pc[c] = "queued"

Accounted ==
  /\ IsFiniteSet(Holders) /\ cur = Cardinality(Holders) /\ cur <= MaxParallel
  /\ waiters # <<>> => cur = MaxParallel
  /\ Queued

SlotInv == TypeOK /\ Accounted

LEMMA InitSlots == Init => SlotInv
<1> SUFFICES ASSUME Init PROVE SlotInv
  OBVIOUS
<1>1. TypeOK
  BY DEF Init, TypeOK, Outcomes
<1>2. Holders = {}
  BY DEF Init, Holders, Granted
<1>3. Queued
  BY DEF Init, Queued, Distinct, ToSet
<1>4. IsFiniteSet(Holders) /\ Cardinality(Holders) = 0
  BY <1>2, FS_EmptySet
<1>5. cur = 0 /\ waiters = <<>>
  BY DEF Init
<1>6. QED
  BY <1>1, <1>3, <1>4, <1>5, MaxParallelAssumption DEF SlotInv, Accounted

\* A step after which the same calls hold tokens and wait.
LEMMA SameHolders ==
  ASSUME Accounted, UNCHANGED semVars, Holders' = Holders,
         \A c \in ToSet(waiters) : pc'[c] = pc[c]
  PROVE  Accounted'
  BY DEF Accounted, Queued, semVars

\* A call that holds a token goes on with it.
LEMMA KeepToken ==
  ASSUME SlotInv, NEW c \in Holders, UNCHANGED semVars,
         NEW l \in {"holding", "selecting", "releasing"}, pc' = [pc EXCEPT ![c] = l]
  PROVE  Accounted'
<1>1. c \in Calls /\ c \notin ToSet(waiters)
  BY DEF Holders, Granted, SlotInv, Accounted, Queued
<1>2. /\ pc'[c] = l
      /\ \A d \in Calls \ {c} : pc'[d] = pc[d]
  BY <1>1 DEF SlotInv, TypeOK
<1>3. Holders' = Holders
  BY <1>1, <1>2 DEF Holders, Granted, semVars
<1>4. \A d \in ToSet(waiters) : pc'[d] = pc[d]
  BY <1>1, <1>2 DEF SlotInv, TypeOK, ToSet
<1>5. QED
  BY <1>3, <1>4, SameHolders DEF SlotInv

\* A token comes back: the head of the queue has it, or the counter goes down.
LEMMA ReleaseToken ==
  ASSUME SlotInv, NEW c \in Holders, Release, pc' = [pc EXCEPT ![c] = "returned"]
  PROVE  Accounted' /\ cur' \in Nat /\ waiters' \in Seq(Calls)
<1>1. c \in Calls /\ c \notin ToSet(waiters)
  BY DEF Holders, Granted, SlotInv, Accounted, Queued
<1>2. /\ pc'[c] = "returned"
      /\ \A d \in Calls \ {c} : pc'[d] = pc[d]
  BY <1>1 DEF SlotInv, TypeOK
<1>3. /\ IsFiniteSet(Holders) /\ cur = Cardinality(Holders) /\ cur <= MaxParallel
      /\ waiters \in Seq(Calls) /\ Distinct(waiters) /\ cur \in Nat
  BY DEF SlotInv, Accounted, Queued, TypeOK
<1>4. IsFiniteSet(Holders \ {c}) /\ Cardinality(Holders \ {c}) = cur - 1
  BY <1>3, FS_RemoveElement
<1>5. cur - 1 \in Nat /\ cur - 1 < MaxParallel /\ MaxParallel \in Nat
  BY <1>3, <1>4, FS_CardinalityType, MaxParallelAssumption
<1>6. \A d \in ToSet(waiters) : d \in Calls /\ pc[d] = "queued" /\ pc'[d] = "queued"
  BY <1>1, <1>2, <1>3 DEF SlotInv, Accounted, Queued, ToSet
<1>7. CASE waiters = <<>>
  <2>1. cur' = cur - 1 /\ waiters' = <<>>
    BY <1>7 DEF Release, Notify
  <2>2. Holders' = Holders \ {c}
    BY <1>1, <1>2, <1>7, <2>1 DEF Holders, Granted
  <2>3. QED
    BY <1>3, <1>4, <1>5, <1>6, <1>7, <2>1, <2>2 DEF Accounted, Queued
<1>8. CASE waiters # <<>>
  <2> DEFINE h == waiters[1]
  <2>1. cur' = (cur - 1) + 1 /\ waiters' = Tail(waiters)
    BY <1>5, <1>8 DEF Release, Notify
  <2>2. /\ waiters' \in Seq(Calls) /\ Distinct(waiters')
        /\ ToSet(waiters') = ToSet(waiters) \ {h}
        /\ h \in ToSet(waiters)
    BY <1>3, <1>8, <2>1, ServeHead
  <2>3. h \in Calls /\ h # c /\ pc'[h] = "queued" /\ h \notin Holders
    BY <1>1, <1>6, <2>2 DEF Holders, Granted
  <2> HIDE DEF h
  <2>4. Holders' = (Holders \ {c}) \cup {h}
    BY <1>1, <1>2, <1>6, <2>2, <2>3 DEF Holders, Granted
  <2>5. IsFiniteSet(Holders') /\ Cardinality(Holders') = (cur - 1) + 1
    BY <1>4, <2>3, <2>4, FS_AddElement
  <2>6. cur = MaxParallel
    BY <1>8 DEF SlotInv, Accounted
  <2>7. \A d \in ToSet(waiters') : pc'[d] = "queued"
    BY <1>6, <2>2
  <2>8. QED
    BY <1>3, <1>5, <2>1, <2>2, <2>5, <2>6, <2>7 DEF Accounted, Queued
<1>9. QED
  BY <1>7, <1>8

LEMMA AcquireSlots ==
  ASSUME SlotInv, NEW c \in Calls, Acquire(c)
  PROVE  SlotInv'
<1> USE DEF Goto
<1>1. /\ pc[c] = "idle" /\ c \notin ToSet(waiters) /\ c \notin Holders
      /\ UNCHANGED <<ctxVars, nodeVars>>
  BY DEF Acquire, SlotInv, Accounted, Queued, Holders, Granted
<1>2. /\ IsFiniteSet(Holders) /\ cur = Cardinality(Holders) /\ cur <= MaxParallel
      /\ waiters \in Seq(Calls) /\ Distinct(waiters) /\ cur \in Nat
      /\ MaxParallel \in Nat
      /\ waiters # <<>> => cur = MaxParallel
      /\ \A d \in ToSet(waiters) : pc[d] = "queued" /\ d \in Calls
  BY MaxParallelAssumption DEF SlotInv, Accounted, Queued, TypeOK, ToSet
<1>3. pc \in [Calls -> {"idle", "queued", "holding", "selecting", "releasing", "returned"}]
  BY DEF SlotInv, TypeOK
<1>4. CASE Refused(c) /\ UNCHANGED semVars
  <2>1. pc' = [pc EXCEPT ![c] = "returned"] /\ waiters' = waiters
    BY <1>4 DEF Refused, semVars
  <2>2. Holders' = Holders
    BY <1>1, <1>3, <2>1 DEF Holders, Granted
  <2>3. Accounted'
    BY <1>1, <1>2, <1>3, <1>4, <2>1, <2>2, SameHolders DEF SlotInv
  <2>4. TypeOK'
    BY <1>1, <1>3, <1>4, <2>1
       DEF SlotInv, TypeOK, Refused, semVars, ctxVars, nodeVars, Outcomes
  <2>5. QED
    BY <2>3, <2>4 DEF SlotInv
<1>5. CASE /\ cur < MaxParallel /\ waiters = <<>> /\ cur' = cur + 1
           /\ pc' = [pc EXCEPT ![c] = "holding"] /\ UNCHANGED <<waiters, outcome>>
  <2>1. Holders' = Holders \cup {c}
    BY <1>1, <1>3, <1>5 DEF Holders, Granted
  <2>2. IsFiniteSet(Holders') /\ Cardinality(Holders') = cur + 1
    BY <1>1, <1>2, <2>1, FS_AddElement
  <2>3. Accounted'
    BY <1>2, <1>5, <2>2 DEF Accounted, Queued, ToSet
  <2>4. TypeOK'
    BY <1>1, <1>2, <1>3, <1>5 DEF SlotInv, TypeOK, ctxVars, nodeVars
  <2>5. QED
    BY <2>3, <2>4 DEF SlotInv
<1>6. CASE /\ ~(cur < MaxParallel /\ waiters = <<>>) /\ waiters' = Append(waiters, c)
           /\ pc' = [pc EXCEPT ![c] = "queued"] /\ UNCHANGED <<cur, outcome>>
  <2>1. /\ waiters' \in Seq(Calls) /\ Distinct(waiters')
        /\ ToSet(waiters') = ToSet(waiters) \cup {c}
    BY <1>1, <1>2, <1>6, JoinQueue
  <2>2. Holders' = Holders
    BY <1>1, <1>3, <1>6, <2>1 DEF Holders, Granted
  <2>3. cur = MaxParallel
    BY <1>2, <1>6
  <2>4. \A d \in ToSet(waiters') : pc'[d] = "queued"
    BY <1>2, <1>3, <1>6, <2>1
  <2>5. Accounted'
    BY <1>2, <1>6, <2>1, <2>2, <2>3, <2>4 DEF Accounted, Queued
  <2>6. TypeOK'
    BY <1>1, <1>3, <1>6, <2>1 DEF SlotInv, TypeOK, ctxVars, nodeVars
  <2>7. QED
    BY <2>5, <2>6 DEF SlotInv
<1>7. QED
  BY <1>4, <1>5, <1>6 DEF Acquire, HasRoom

LEMMA WakeSlots ==
  ASSUME SlotInv, NEW c \in Calls, Wake(c)
  PROVE  SlotInv'
<1> USE DEF Goto
<1>1. c \in Holders /\ UNCHANGED <<ctxVars, nodeVars>>
  BY DEF Wake, Holders
<1>2. CASE pc' = [pc EXCEPT ![c] = "holding"] /\ UNCHANGED <<semVars, outcome>>
  <2>1. Accounted'
    BY <1>1, <1>2, KeepToken
  <2>2. TypeOK'
    BY <1>1, <1>2 DEF SlotInv, TypeOK, semVars, ctxVars, nodeVars
  <2>3. QED
    BY <2>1, <2>2 DEF SlotInv
<1>3. CASE Release /\ Refused(c)
  <2>1. Accounted' /\ cur' \in Nat /\ waiters' \in Seq(Calls)
    BY <1>1, <1>3, ReleaseToken DEF Refused
  <2>2. TypeOK'
    BY <1>1, <1>3, <2>1 DEF SlotInv, TypeOK, Refused, ctxVars, nodeVars, Outcomes
  <2>3. QED
    BY <2>1, <2>2 DEF SlotInv
<1>4. QED
  BY <1>2, <1>3 DEF Wake

LEMMA GiveUpSlots ==
  ASSUME SlotInv, NEW c \in Calls, GiveUp(c)
  PROVE  SlotInv'
<1> USE DEF Goto
<1>1. /\ Refused(c) /\ UNCHANGED <<ctxVars, nodeVars>> /\ pc[c] = "queued"
      /\ pc' = [pc EXCEPT ![c] = "returned"]
  BY DEF GiveUp, Refused
<1>2. ASSUME Accounted', cur' \in Nat, waiters' \in Seq(Calls)
      PROVE  SlotInv'
  BY <1>1, <1>2 DEF SlotInv, TypeOK, Refused, ctxVars, nodeVars, Outcomes
<1>3. CASE Granted(c) /\ Release
  <2>1. c \in Holders
    BY <1>3 DEF Holders
  <2>2. QED
    BY <1>1, <1>2, <1>3, <2>1, ReleaseToken
<1>4. ASSUME NEW i \in DOMAIN waiters, waiters[i] = c,
             IF i = 1 /\ cur < MaxParallel
             THEN Notify(cur, RemoveAt(waiters, i))
             ELSE cur' = cur /\ waiters' = RemoveAt(waiters, i)
      PROVE  SlotInv'
  <2>1. /\ waiters \in Seq(Calls) /\ Distinct(waiters) /\ cur \in Nat
        /\ pc \in [Calls -> {"idle", "queued", "holding", "selecting", "releasing", "returned"}]
        /\ \A d \in ToSet(waiters) : pc[d] = "queued" /\ d \in Calls
    BY DEF SlotInv, Accounted, Queued, TypeOK, ToSet
  <2>2. waiters # <<>> /\ cur = MaxParallel /\ MaxParallel \in Nat
    BY MaxParallelAssumption DEF SlotInv, Accounted
  <2>3. cur' = cur /\ waiters' = RemoveAt(waiters, i)
    BY <1>4, <2>2
  <2>4. /\ waiters' \in Seq(Calls) /\ Distinct(waiters')
        /\ ToSet(waiters') = ToSet(waiters) \ {c}
    BY <1>4, <2>1, <2>3, LeaveQueue
  <2>5. c \in ToSet(waiters)
    BY <1>4 DEF ToSet
  <2>6. Holders' = Holders
    BY <1>1, <2>1, <2>4, <2>5 DEF Holders, Granted
  <2>7. \A d \in ToSet(waiters') : pc'[d] = "queued"
    BY <1>1, <2>1, <2>4
  <2>8. Accounted'
    BY <2>2, <2>3, <2>4, <2>6, <2>7 DEF SlotInv, Accounted, Queued
  <2>9. QED
    BY <1>2, <2>1, <2>3, <2>4, <2>8
<1>5. QED
  BY <1>3, <1>4 DEF GiveUp

\* From the launch of the node to the end of the select the token is kept.
LEMMA InsideSlots ==
  ASSUME SlotInv, NEW c \in Calls,
         Launch(c) \/ Ended(c) \/ Failed(c) \/ Delivered(c)
  PROVE  SlotInv'
<1> USE DEF Goto, Launch, Ended, Failed, Delivered, Leave
<1>1. c \in Holders /\ UNCHANGED semVars
  BY DEF Holders
<1>2. \E l \in {"selecting", "releasing"} : pc' = [pc EXCEPT ![c] = l]
  OBVIOUS
<1>3. Accounted'
  BY <1>1, <1>2, KeepToken
<1>4. /\ childDone' \subseteq Calls /\ over' \subseteq Calls
      /\ resultCh' \subseteq Calls /\ errCh' \subseteq Calls
  BY DEF SlotInv, TypeOK, nodeVars
<1>5. outcome' \in [Calls -> Outcomes]
  BY DEF SlotInv, TypeOK, Outcomes
<1>6. node' \in [Calls -> {"none", "running", "returning", "recovering", "gone"}]
  BY DEF SlotInv, TypeOK, nodeVars
<1>7. QED
  BY <1>1, <1>2, <1>3, <1>4, <1>5, <1>6 DEF SlotInv, TypeOK, semVars

LEMMA FinishSlots ==
  ASSUME SlotInv, NEW c \in Calls, Finish(c)
  PROVE  SlotInv'
<1>1. c \in Holders /\ pc' = [pc EXCEPT ![c] = "returned"]
  BY DEF Finish, Goto, Holders
<1>2. Accounted' /\ cur' \in Nat /\ waiters' \in Seq(Calls)
  BY <1>1, ReleaseToken DEF Finish
<1>3. QED
  BY <1>1, <1>2 DEF SlotInv, TypeOK, Finish, ctxVars, nodeVars

\* Nodes, contexts and channels have no say in who holds a token.
LEMMA OutsideSlots ==
  ASSUME SlotInv, NEW c \in Calls,
         NodeReturns(c) \/ NodePanics(c) \/ Send(c) \/ End(c) \/ NodeTimeout(c)
  PROVE  SlotInv'
<1> USE DEF NodeReturns, NodePanics, Send, End, NodeTimeout, Room
<1>1. UNCHANGED <<semVars, callVars>>
  OBVIOUS
<1>2. Accounted'
  BY <1>1 DEF SlotInv, Accounted, Queued, Holders, Granted, semVars, callVars
<1>3. /\ childDone' \subseteq Calls /\ over' \subseteq Calls
      /\ resultCh' \subseteq Calls /\ errCh' \subseteq Calls
  BY DEF SlotInv, TypeOK, nodeVars, ctxVars
<1>4. node' \in [Calls -> {"none", "running", "returning", "recovering", "gone"}]
  BY DEF SlotInv, TypeOK, nodeVars
<1>5. QED
  BY <1>1, <1>2, <1>3, <1>4 DEF SlotInv, TypeOK, semVars, callVars

LEMMA NextSlots ==
  ASSUME SlotInv, [Next]_vars
  PROVE  SlotInv'
<1>1. CASE UNCHANGED vars
  BY <1>1 DEF vars, semVars, callVars, ctxVars, nodeVars, SlotInv, Accounted, Queued,
              Holders, Granted, TypeOK
<1>2. ASSUME NEW c \in Calls,
             \/ CallStep(c) \/ NodeReturns(c) \/ NodePanics(c) \/ Send(c)
             \/ End(c) \/ NodeTimeout(c)
      PROVE  SlotInv'
  BY <1>2, AcquireSlots, WakeSlots, GiveUpSlots, InsideSlots, FinishSlots, OutsideSlots
     DEF CallStep
<1>3. QED
  BY <1>1, <1>2 DEF Next, Terminating

LEMMA SlotsCorrect == Spec => []SlotInv
<1>1. Init => SlotInv
  BY InitSlots
<1>2. SlotInv /\ [Next]_vars => SlotInv'
  BY NextSlots
<1>3. QED
  BY <1>1, <1>2, PTL DEF Spec

\* The counter of the semaphore is the number of calls that hold a token, and
\* never exceeds the number of slots, for any number of slots and of calls
\* (executor.go:27-30).
THEOREM TokensAreNeverLost == Spec => []TokensAreHeld
<1>1. SlotInv => TokensAreHeld
  BY DEF SlotInv, Accounted, TokensAreHeld
<1>2. QED
  BY <1>1, SlotsCorrect, PTL

\* No call waits in the queue while a slot is free (executor.go:27).
THEOREM WaitersWaitForSlots == Spec => []NoLostWakeup
<1>1. SlotInv => NoLostWakeup
  BY DEF SlotInv, Accounted, Queued, Distinct, ToSet, TypeOK, NoLostWakeup
<1>2. QED
  BY <1>1, SlotsCorrect, PTL

\* The variables of the executor have their types in every state
\* (executor.go:26-54).
THEOREM TypeCorrect == Spec => []TypeOK
<1>1. SlotInv => TypeOK
  BY DEF SlotInv
<1>2. QED
  BY <1>1, SlotsCorrect, PTL

-----------------------------------------------------------------------------
(***************************************************************************)
(* Outcomes.  A call and the goroutine of its node tell each other by two  *)
(* channels only; the invariant says what the label of the one allows the  *)
(* other, and that a channel holds what nobody has received.               *)
(***************************************************************************)
OutcomeInv ==
  \A c \in Calls :
    /\ pc[c] \in {"idle", "queued", "holding", "selecting"} => outcome[c] = "none"
    /\ pc[c] = "releasing" => outcome[c] \in {"expired", "panic", "result"}
    /\ pc[c] = "returned" => outcome[c] # "none"
    /\ pc[c] \in {"idle", "queued", "holding"} \/ outcome[c] = "refused" => node[c] = "none"
    /\ c \in resultCh \cup errCh =>
         node[c] = "gone" /\ outcome[c] \in {"none", "expired"}
    /\ ~(c \in resultCh /\ c \in errCh)
    /\ node[c] = "gone" /\ outcome[c] = "none" => c \in resultCh \cup errCh
    /\ outcome[c] \in {"result", "panic"} => node[c] = "gone"

LEMMA CallOutcomes ==
  ASSUME TypeOK, OutcomeInv, NEW c \in Calls, CallStep(c)
  PROVE  OutcomeInv'
<1> USE DEF Goto, TypeOK
<1>1. \A d \in Calls \ {c} :
        /\ pc'[d] = pc[d] /\ outcome'[d] = outcome[d] /\ node'[d] = node[d]
        /\ (d \in resultCh' <=> d \in resultCh) /\ (d \in errCh' <=> d \in errCh)
  BY DEF CallStep, Acquire, Wake, GiveUp, Launch, Ended, Failed, Delivered, Finish, Leave,
         Refused, nodeVars
<1>2. CASE Acquire(c) \/ Wake(c) \/ GiveUp(c)
  <2>1. UNCHANGED nodeVars /\ pc[c] \in {"idle", "queued"}
    BY <1>2 DEF Acquire, Wake, GiveUp, Granted
  <2>2. \/ pc'[c] \in {"holding", "queued"} /\ outcome' = outcome
        \/ pc'[c] = "returned" /\ outcome'[c] = "refused"
    BY <1>2 DEF Acquire, Wake, GiveUp, Refused
  <2>3. QED
    BY <1>1, <2>1, <2>2 DEF OutcomeInv, nodeVars
<1>3. CASE Launch(c)
  BY <1>1, <1>3 DEF Launch, OutcomeInv
<1>4. CASE Ended(c)
  BY <1>1, <1>4 DEF Ended, Leave, OutcomeInv, nodeVars
<1>5. CASE Failed(c)
  BY <1>1, <1>5 DEF Failed, Leave, OutcomeInv
<1>6. CASE Delivered(c)
  BY <1>1, <1>6 DEF Delivered, Leave, OutcomeInv
<1>7. CASE Finish(c)
  BY <1>1, <1>7 DEF Finish, OutcomeInv, nodeVars
<1>8. QED
  BY <1>2, <1>3, <1>4, <1>5, <1>6, <1>7 DEF CallStep

LEMMA NodeOutcomes ==
  ASSUME TypeOK, OutcomeInv, NEW c \in Calls, NodeReturns(c) \/ NodePanics(c) \/ Send(c)
  PROVE  OutcomeInv'
<1>1. CASE NodeReturns(c) \/ NodePanics(c)
  BY <1>1 DEF NodeReturns, NodePanics, OutcomeInv, TypeOK, callVars
<1>2. CASE Send(c)
  <2>1. UNCHANGED <<pc, outcome>> /\ node' = [node EXCEPT ![c] = "gone"]
    BY <1>2 DEF Send, callVars
  <2>2. \A d \in Calls \ {c} : /\ node'[d] = node[d]
                               /\ d \in resultCh' <=> d \in resultCh
                               /\ d \in errCh' <=> d \in errCh
    BY <1>2 DEF Send, TypeOK
  <2>3. node'[c] = "gone" /\ (c \in resultCh' <=> c \notin errCh')
    BY <1>2 DEF Send, OutcomeInv, TypeOK
  <2>4. outcome[c] \in {"none", "expired"} /\ pc[c] \notin {"idle", "queued", "holding"}
    BY <1>2 DEF Send, OutcomeInv, TypeOK, Outcomes
  <2>5. QED
    BY <2>1, <2>2, <2>3, <2>4 DEF OutcomeInv
<1>3. QED
  BY <1>1, <1>2

LEMMA OutcomesSound == Spec => []OutcomeInv
<1>1. Init => OutcomeInv
  BY DEF Init, OutcomeInv
<1>2. TypeOK /\ OutcomeInv /\ [Next]_vars => OutcomeInv'
  <2> SUFFICES ASSUME TypeOK, OutcomeInv, [Next]_vars PROVE OutcomeInv'
    OBVIOUS
  <2>1. CASE UNCHANGED <<callVars, nodeVars>>
    BY <2>1 DEF OutcomeInv, callVars, nodeVars
  <2>2. ASSUME NEW c \in Calls, End(c) \/ NodeTimeout(c) PROVE OutcomeInv'
    BY <2>1, <2>2 DEF End, NodeTimeout
  <2>3. QED
    BY <2>1, <2>2, CallOutcomes, NodeOutcomes DEF Next, Terminating, vars
<1>3. QED
  BY <1>1, <1>2, TypeCorrect, PTL DEF Spec

\* What a call reports is what happened to its node, for any number of calls
\* (executor.go:27-53).
THEOREM OutcomesAreReported == Spec => []OutcomesAreTrue
<1>1. TypeOK /\ OutcomeInv => OutcomesAreTrue
  BY DEF OutcomeInv, OutcomesAreTrue
<1>2. QED
  BY <1>1, TypeCorrect, OutcomesSound, PTL

-----------------------------------------------------------------------------
(***************************************************************************)
(* What the engine relies on: every step of the executor is a step of the  *)
(* pool, or none.  Those that are inside hold a token each.                *)
(***************************************************************************)
Inside == {c \in Calls : pc[c] \in {"holding", "selecting", "releasing"}}

\* A call that holds no token, or not yet, finds less than MaxParallel inside.
LEMMA RoomInside ==
  ASSUME SlotInv, NEW c \in Calls, pc[c] \in {"idle", "queued"},
         pc[c] = "idle" => cur < MaxParallel, pc[c] = "queued" => Granted(c)
  PROVE  Cardinality(Inside) < MaxParallel
<1>1. /\ IsFiniteSet(Holders) /\ cur = Cardinality(Holders) /\ cur <= MaxParallel
      /\ MaxParallel \in Nat /\ cur \in Nat /\ Inside \subseteq Holders
  BY MaxParallelAssumption DEF SlotInv, Accounted, TypeOK, Inside, Holders
<1>2. IsFiniteSet(Inside) /\ Cardinality(Inside) \in Nat /\ Cardinality(Inside) <= cur
  BY <1>1, FS_Subset, FS_CardinalityType
<1>3. CASE pc[c] = "idle"
  BY <1>1, <1>2, <1>3
<1>4. CASE pc[c] = "queued"
  <2>1. c \in Holders /\ c \notin Inside
    BY <1>4 DEF Holders, Inside
  <2>2. Inside # Holders
    BY <2>1
  <2>3. Cardinality(Inside) # cur
    BY <1>1, <2>2, FS_Subset
  <2>4. QED
    BY <1>1, <1>2, <2>3
<1>5. QED
  BY <1>3, <1>4

\* The two modules take cardinalities from the same library.
LEMMA SameCardinality == \A S : Pool!Cardinality(S) = Cardinality(S)
BY DEF Pool!Cardinality, Cardinality

LEMMA PoolStep ==
  ASSUME SlotInv, OutcomeInv, [Next]_vars
  PROVE  [Pool!Next]_<<Phases, over>>
<1> USE DEF Goto
<1> DEFINE Labels == {"idle", "queued", "holding", "selecting", "releasing", "returned"}
<1>1. pc \in [Calls -> Labels] /\ DOMAIN pc = Calls /\ DOMAIN outcome = Calls
  BY DEF SlotInv, TypeOK
<1>2. ASSUME NEW c \in Calls, NEW l, NEW p,
             pc' = [pc EXCEPT ![c] = l], Phase(c)' = p,
             \A d \in Calls \ {c} : outcome'[d] = outcome[d]
      PROVE  Phases' = [Phases EXCEPT ![c] = p]
  BY <1>1, <1>2 DEF Phases, Phase
<1>3. Pool!InPhase("inside") = Inside
  <2>1. \A c \in Calls : Phases[c] = "inside" <=> c \in Inside
    BY <1>1 DEF Phases, Phase, Inside
  <2>2. QED
    BY <2>1 DEF Pool!InPhase, Inside
<1>4. CASE UNCHANGED <<callVars, over>>
  BY <1>4 DEF callVars, Phases, Phase
<1>5. ASSUME NEW c \in Calls, End(c) PROVE Pool!End(c)
  <2>1. over' = over \cup {c} /\ UNCHANGED callVars
    BY <1>5 DEF End
  <2>2. QED
    BY <2>1 DEF Pool!End, callVars, Phases, Phase
<1>6. ASSUME NEW c \in Calls, CallStep(c)
      PROVE  \/ Pool!Ask(c) \/ Pool!Take(c) \/ Pool!Refuse(c) \/ Pool!Return(c)
             \/ UNCHANGED <<Phases, over>>
  <2>1. \A d \in Calls \ {c} : outcome'[d] = outcome[d]
    BY <1>1, <1>6 DEF CallStep, Acquire, Wake, GiveUp, Launch, Ended, Failed, Delivered,
                      Finish, Refused, Leave, SlotInv, TypeOK
  <2>2. ASSUME pc[c] \in {"idle", "queued"}, pc' = [pc EXCEPT ![c] = "holding"],
               outcome' = outcome, over' = over, c \notin over,
               Cardinality(Inside) < MaxParallel
        PROVE  Pool!Take(c)
    <3>1. Phases' = [Phases EXCEPT ![c] = "inside"]
      BY <1>1, <1>2, <2>2 DEF Phase
    <3>2. Phases[c] \in {"idle", "waiting"}
      BY <2>2 DEF Phases, Phase
    <3>3. QED
      BY <1>3, <2>2, <3>1, <3>2, SameCardinality DEF Pool!Take
  <2>3. ASSUME pc[c] \in {"idle", "queued"}, Refused(c), over' = over, c \in over
        PROVE  Pool!Refuse(c)
    <3>1. Phases' = [Phases EXCEPT ![c] = "refused"]
      BY <1>1, <1>2, <2>1, <2>3 DEF Phase, Refused
    <3>2. Phases[c] \in {"idle", "waiting"}
      BY <2>3 DEF Phases, Phase
    <3>3. QED
      BY <2>3, <3>1, <3>2 DEF Pool!Refuse
  <2>4. CASE Acquire(c)
    <3>1. pc[c] = "idle" /\ over' = over
      BY <2>4 DEF Acquire, ctxVars
    <3>2. CASE c \in over /\ Refused(c)
      BY <2>3, <3>1, <3>2
    <3>3. CASE /\ c \notin over /\ HasRoom
               /\ pc' = [pc EXCEPT ![c] = "holding"] /\ outcome' = outcome
      BY <2>2, <3>1, <3>3, RoomInside DEF HasRoom
    <3>4. CASE pc' = [pc EXCEPT ![c] = "queued"] /\ outcome' = outcome
      <4>1. Phases' = [Phases EXCEPT ![c] = "waiting"] /\ Phases[c] = "idle"
        BY <1>1, <1>2, <3>1, <3>4 DEF Phases, Phase
      <4>2. QED
        BY <3>1, <4>1 DEF Pool!Ask
    <3>5. QED
      BY <2>4, <3>2, <3>3, <3>4 DEF Acquire
  <2>5. CASE Wake(c)
    <3>1. pc[c] = "queued" /\ over' = over /\ Granted(c)
      BY <2>5 DEF Wake, Granted, ctxVars
    <3>2. QED
      BY <2>2, <2>3, <2>5, <3>1, RoomInside DEF Wake
  <2>6. CASE GiveUp(c)
    BY <2>3, <2>6 DEF GiveUp, ctxVars
  <2>7. CASE Launch(c) \/ Ended(c) \/ Failed(c) \/ Delivered(c)
    <3>1. /\ pc[c] \in {"holding", "selecting"} /\ over' = over
          /\ \E l \in {"selecting", "releasing"} : pc' = [pc EXCEPT ![c] = l]
      BY <2>7 DEF Launch, Ended, Failed, Delivered, Leave
    <3>2. \A d \in Calls : Phase(d)' = Phase(d)
      BY <1>1, <2>1, <3>1 DEF Phase
    <3>3. QED
      BY <3>1, <3>2 DEF Phases
  <2>8. CASE Finish(c)
    <3>1. /\ pc[c] = "releasing" /\ pc' = [pc EXCEPT ![c] = "returned"]
          /\ UNCHANGED <<outcome, over>>
      BY <2>8 DEF Finish, ctxVars
    <3>2. outcome[c] # "refused"
      BY <3>1 DEF OutcomeInv
    <3>3. Phases' = [Phases EXCEPT ![c] = "returned"] /\ Phases[c] = "inside"
      BY <1>1, <1>2, <3>1, <3>2 DEF Phases, Phase
    <3>4. QED
      BY <3>1, <3>3 DEF Pool!Return
  <2>9. QED
    BY <1>6, <2>4, <2>5, <2>6, <2>7, <2>8 DEF CallStep
<1>7. QED
  <2>1. CASE UNCHANGED vars
    BY <1>4, <2>1 DEF vars, ctxVars
  <2>2. ASSUME NEW c \in Calls, NodeReturns(c) \/ NodePanics(c) \/ Send(c) \/ NodeTimeout(c)
        PROVE  UNCHANGED <<callVars, over>>
    BY <2>2 DEF NodeReturns, NodePanics, Send, NodeTimeout, ctxVars
  <2>3. QED
    BY <1>4, <1>5, <1>6, <2>1, <2>2 DEF Next, Terminating, Pool!Next

\* The executor is a pool of MaxParallel slots, as far as safety goes, for any
\* number of slots and of calls (executor.go:26-54, engine.go:182).
THEOREM ExecutorIsPool == Spec => Pool!Init /\ [][Pool!Next]_<<Phases, over>>
<1>1. Init => Pool!Init
  BY DEF Init, Pool!Init, Phases, Phase
<1>2. SlotInv /\ OutcomeInv /\ [Next]_vars => [Pool!Next]_<<Phases, over>>
  BY PoolStep
<1>3. QED
  BY <1>1, <1>2, SlotsCorrect, OutcomesSound, PTL DEF Spec

=============================================================================
