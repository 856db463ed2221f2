--------------------------- MODULE ModelPoolProofs ---------------------------
(***************************************************************************)
(* Proofs about ModelPool for any number of states and streams, with and   *)
(* without a queue timeout.                                                *)
(***************************************************************************)
EXTENDS ModelPool, FiniteSetTheorems, TLAPS

(* What makes the three invariants inductive together: TypeOK needs the    *)
(* leases to hold states, NoLostWakeup needs both.                         *)
IInv == TypeOK /\ StatesConserved /\ NoLostWakeup
-----------------------------------------------------------------------------

(* At startup the free list holds well-typed states and nobody waits.      *)
LEMMA InitTypeOK == Init => TypeOK
<1> SUFFICES ASSUME Init PROVE TypeOK
  OBVIOUS
<1>1. free \in Seq(States)
  <2>1. Cardinality(States) \in Nat
    BY FS_CardinalityType, PoolAssumption
  <2> QED
    BY <2>1 DEF Init
<1> QED
  BY <1>1 DEF Init, TypeOK, PCs, Streams

(* Types are preserved; release pushes back a state because a lease holds  *)
(* one.                                                                    *)
LEMMA NextTypeOK == TypeOK /\ StatesConserved /\ [Next]_vars => TypeOK'
<1> SUFFICES ASSUME TypeOK, StatesConserved, [Next]_vars PROVE TypeOK'
  OBVIOUS
<1> USE DEF TypeOK, PCs, Streams
<1>1. ASSUME NEW s \in Streams, BeginTranscribe(s) PROVE TypeOK'
  BY <1>1 DEF BeginTranscribe
<1>2. ASSUME NEW s \in Streams, BeginWindow(s) PROVE TypeOK'
  BY <1>2 DEF BeginWindow
<1>3. ASSUME NEW s \in Streams, Poll(s) PROVE TypeOK'
  BY <1>3 DEF Poll
<1>4. ASSUME NEW s \in Streams, Acquire(s) PROVE TypeOK'
  <2>1. CASE TakeState(s)
    BY <1>4, <2>1 DEF Acquire, TakeState
  <2>2. CASE LeaveQueue(s)
    BY <1>4, <2>2 DEF Acquire, LeaveQueue
  <2>3. CASE Sleep(s)
    BY <1>4, <2>3 DEF Acquire, Sleep
  <2> QED
    BY <1>4, <2>1, <2>2, <2>3 DEF Acquire
<1>5. ASSUME NEW s \in Streams, Expire(s) PROVE TypeOK'
  BY <1>5 DEF Expire
<1>6. ASSUME NEW s \in Streams, DeadlinePasses(s) PROVE TypeOK'
  BY <1>6 DEF DeadlinePasses
<1>7. ASSUME NEW s \in Streams, SpuriousWakeup(s) PROVE TypeOK'
  BY <1>7 DEF SpuriousWakeup
<1>8. ASSUME NEW s \in Streams, ClientGone(s) PROVE TypeOK'
  BY <1>8 DEF ClientGone
<1>9. ASSUME NEW s \in Streams, StopCallback(s) PROVE TypeOK'
  BY <1>9 DEF StopCallback
<1>10. ASSUME NEW s \in Streams, Release(s) PROVE TypeOK'
  <2>1. held[s] \in States
    BY <1>10 DEF Release, StatesConserved
  <2> QED
    BY <1>10, <2>1 DEF Release
<1>11. ASSUME NEW s \in Streams, Notify(s) PROVE TypeOK'
  BY <1>11 DEF Notify, At
<1>12. ASSUME NEW s \in Streams, EndFailed(s) PROVE TypeOK'
  BY <1>12 DEF EndFailed
<1>13. CASE UNCHANGED vars
  BY <1>13 DEF vars
<1> QED
  BY <1>1, <1>2, <1>3, <1>4, <1>5, <1>6, <1>7, <1>8, <1>9, <1>10, <1>11, <1>12, <1>13
     DEF Next, Step, Environment
-----------------------------------------------------------------------------
(* The two operations on the free list, as sets.                           *)

Distinct(q) == \A i, j \in 1 .. Len(q) : q[i] = q[j] => i = j

(* pop_front on a list of distinct states removes exactly its front.       *)
LEMMA PopFront ==
  ASSUME NEW q \in Seq(States), q # <<>>, Distinct(q)
  PROVE  /\ Distinct(Tail(q))
         /\ Listed(Tail(q)) = Listed(q) \ {Head(q)}
         /\ Head(q) \in Listed(q)
         /\ Head(q) \in States
         /\ Len(Tail(q)) = Len(q) - 1
<1>1. /\ Len(q) \in Nat /\ Len(q) # 0
      /\ Len(Tail(q)) = Len(q) - 1
      /\ \A i \in 1 .. Len(Tail(q)) : Tail(q)[i] = q[i + 1]
      /\ Head(q) = q[1]
  OBVIOUS
<1>2. Distinct(Tail(q))
  BY <1>1 DEF Distinct
<1>3. Head(q) \in Listed(q) /\ Head(q) \in States
  BY <1>1 DEF Listed
<1>4. ASSUME NEW x \in Listed(Tail(q)) PROVE x \in Listed(q) \ {Head(q)}
  <2>1. PICK i \in 1 .. Len(Tail(q)) : x = Tail(q)[i]
    BY <1>4, Zenon DEF Listed
  <2>2. i + 1 \in 1 .. Len(q) /\ x = q[i + 1] /\ i + 1 # 1
    BY <1>1, <2>1
  <2>3. x # q[1]
    BY <1>1, <2>2 DEF Distinct
  <2> QED
    BY <1>1, <2>2, <2>3 DEF Listed
<1>5. ASSUME NEW x \in Listed(q) \ {Head(q)} PROVE x \in Listed(Tail(q))
  <2>1. PICK i \in 1 .. Len(q) : x = q[i]
    BY <1>5 DEF Listed
  <2>2. i # 1
    BY <1>1, <1>5, <2>1
  <2>3. i - 1 \in 1 .. Len(Tail(q)) /\ Tail(q)[i - 1] = x
    BY <1>1, <2>1, <2>2
  <2> QED
    BY <2>3 DEF Listed
<1> QED
  BY <1>1, <1>2, <1>3, <1>4, <1>5

(* push_back of a state that is not listed keeps the states distinct.      *)
LEMMA PushBack ==
  ASSUME NEW q \in Seq(States), NEW x \in States, Distinct(q), x \notin Listed(q)
  PROVE  /\ Distinct(Append(q, x))
         /\ Listed(Append(q, x)) = Listed(q) \cup {x}
         /\ Len(Append(q, x)) = Len(q) + 1
<1>1. /\ Len(q) \in Nat
      /\ Len(Append(q, x)) = Len(q) + 1
      /\ \A i \in 1 .. Len(q) : Append(q, x)[i] = q[i]
      /\ Append(q, x)[Len(q) + 1] = x
  OBVIOUS
<1>2. \A i \in 1 .. Len(q) : q[i] # x
  BY DEF Listed
<1>3. Distinct(Append(q, x))
  BY <1>1, <1>2 DEF Distinct
<1>4. Listed(Append(q, x)) = Listed(q) \cup {x}
  <2>1. ASSUME NEW y \in Listed(Append(q, x)) PROVE y \in Listed(q) \cup {x}
    BY <1>1, <2>1 DEF Listed
  <2>2. ASSUME NEW y \in Listed(q) PROVE y \in Listed(Append(q, x))
    <3>1. PICK i \in 1 .. Len(q) : y = q[i]
      BY <2>2 DEF Listed
    <3>2. i \in 1 .. Len(Append(q, x)) /\ Append(q, x)[i] = y
      BY <1>1, <3>1
    <3> QED
      BY <3>2 DEF Listed
  <2>3. x \in Listed(Append(q, x))
    <3>1. Len(q) + 1 \in 1 .. Len(Append(q, x))
      BY <1>1
    <3> QED
      BY <1>1, <3>1 DEF Listed
  <2> QED
    BY <2>1, <2>2, <2>3
<1> QED
  BY <1>1, <1>3, <1>4
-----------------------------------------------------------------------------
(* States are conserved.                                                   *)

Leases == {held[s] : s \in Streams}

(* At startup every state is free, once, and nothing is lent.              *)
LEMMA InitConserved == Init => StatesConserved
<1> SUFFICES ASSUME Init PROVE StatesConserved
  OBVIOUS
<1>1. Cardinality(States) \in Nat
  BY FS_CardinalityType, PoolAssumption
<1>2. /\ free \in [1 .. Cardinality(States) -> States]
      /\ Len(free) = Cardinality(States)
      /\ \A x \in States : \E i \in 1 .. Cardinality(States) : free[i] = x
  BY <1>1 DEF Init, Listed
<1>3. free \in Surjection(1 .. Cardinality(States), States)
  BY <1>2 DEF Surjection
<1>4. IsFiniteSet(1 .. Cardinality(States))
      /\ Cardinality(1 .. Cardinality(States)) = Cardinality(States)
  BY <1>1, FS_Interval
<1>5. free \in Injection(1 .. Cardinality(States), States)
  BY <1>3, <1>4, FS_SurjSameCardinalityImpliesInj
<1>6. \A i, j \in 1 .. Len(free) : free[i] = free[j] => i = j
  BY <1>2, <1>5 DEF Injection, IsInjective
<1>7. Listed(free) = States /\ None \notin States
  BY PoolAssumption DEF Init
<1> QED
  BY <1>6, <1>7 DEF Init, StatesConserved

(* Every step of the pool moves states between the free list and the       *)
(* leases one at a time.                                                   *)
LEMMA NextConserved ==
  TypeOK /\ StatesConserved /\ [Next]_vars => StatesConserved'
<1> SUFFICES ASSUME TypeOK, StatesConserved, [Next]_vars PROVE StatesConserved'
  OBVIOUS
<1>a. Distinct(free)
  BY DEF StatesConserved, Distinct
\* A step that touches neither list nor leases, and moves nobody in or out
\* of "leased".
<1>b. ASSUME UNCHANGED <<free, held>>,
             \A t \in Streams : (pc'[t] = "leased") <=> (pc[t] = "leased")
      PROVE  StatesConserved'
  BY <1>b DEF StatesConserved, Listed
<1>1. ASSUME NEW s \in Streams, TakeState(s), pc[s] \in {"arriving", "awake"}
      PROVE  StatesConserved'
  <2> DEFINE x == Head(free)
  <2>1. /\ free' = Tail(free) /\ held' = [held EXCEPT ![s] = x]
        /\ pc' = [pc EXCEPT ![s] = "leased"] /\ free # <<>>
    BY <1>1 DEF TakeState
  <2>2. /\ Distinct(free') /\ Listed(free') = Listed(free) \ {x}
        /\ x \in Listed(free) /\ x \in States
    BY <1>a, <2>1, PopFront DEF TypeOK
  <2>3. held[s] = None /\ x # None
    BY <1>1, <2>2, PoolAssumption DEF StatesConserved
  <2>4. \A t \in Streams : held'[t] = IF t = s THEN x ELSE held[t]
    BY <2>1 DEF TypeOK
  <2>5. \A t \in Streams : held[t] \notin Listed(free)
    BY DEF StatesConserved
  <2>6. \A t, u \in Streams : held'[t] = held'[u] /\ held'[t] # None => t = u
    BY <2>2, <2>4, <2>5 DEF StatesConserved
  <2>7. \A t \in Streams : (held'[t] # None) <=> (pc'[t] = "leased")
    BY <2>1, <2>3, <2>4 DEF StatesConserved, TypeOK
  <2>8. Listed(free') \cap Leases' = {}
    BY <2>2, <2>4, <2>5 DEF Leases
  <2>9. States \subseteq Listed(free') \cup Leases'
    <3>1. \A y \in States : y \in Listed(free) \/ \E t \in Streams : held[t] = y
      BY DEF StatesConserved
    <3>2. ASSUME NEW y \in States PROVE y \in Listed(free') \cup Leases'
      <4>1. CASE y = x
        BY <2>4, <4>1 DEF Leases
      <4>2. CASE y # x /\ y \in Listed(free)
        BY <2>2, <4>2
      <4>3. CASE \E t \in Streams : held[t] = y
        <5>1. PICK t \in Streams : held[t] = y
          BY <4>3
        <5>2. t # s
          BY <5>1, <2>3, PoolAssumption
        <5> QED
          BY <2>4, <5>1, <5>2 DEF Leases
      <4> QED
        BY <3>1, <4>1, <4>2, <4>3
    <3> QED
      BY <3>2
  <2> QED
    BY <2>2, <2>6, <2>7, <2>8, <2>9 DEF StatesConserved, Distinct, Leases
<1>2. ASSUME NEW s \in Streams, Release(s) PROVE StatesConserved'
  <2> DEFINE x == held[s]
  <2>1. /\ pc[s] = "leased" /\ free' = Append(free, x)
        /\ held' = [held EXCEPT ![s] = None]
        /\ pc' = [pc EXCEPT ![s] = "notifying"]
    BY <1>2 DEF Release
  <2>2. x \in States /\ x # None
    BY <2>1 DEF StatesConserved, TypeOK
  <2>3. x \notin Listed(free)
    BY DEF StatesConserved
  <2>4. Distinct(free') /\ Listed(free') = Listed(free) \cup {x}
    BY <1>a, <2>1, <2>2, <2>3, PushBack DEF TypeOK
  <2>5. \A t \in Streams : held'[t] = IF t = s THEN None ELSE held[t]
    BY <2>1 DEF TypeOK
  <2>6. \A t, u \in Streams : held'[t] = held'[u] /\ held'[t] # None => t = u
    BY <2>5 DEF StatesConserved
  <2>7. \A t \in Streams : (held'[t] # None) <=> (pc'[t] = "leased")
    BY <2>1, <2>5 DEF StatesConserved, TypeOK
  <2>8. None \notin Listed(free')
    <3>1. \A y \in Listed(free) : y \in States
      BY DEF TypeOK, Listed
    <3> QED
      BY <2>2, <2>4, <3>1, PoolAssumption
  <2>9. \A t \in Streams : held'[t] \notin Listed(free')
    BY <2>2, <2>4, <2>5, <2>8 DEF StatesConserved
  <2>10. States \subseteq Listed(free') \cup Leases'
    <3>1. \A y \in States : y \in Listed(free) \/ \E t \in Streams : held[t] = y
      BY DEF StatesConserved
    <3>2. ASSUME NEW y \in States, NEW t \in Streams, held[t] = y
          PROVE  y \in Listed(free') \cup Leases'
      <4>1. CASE t = s
        BY <2>4, <3>2, <4>1
      <4>2. CASE t # s
        BY <2>5, <3>2, <4>2 DEF Leases
      <4> QED
        BY <4>1, <4>2
    <3> QED
      BY <2>4, <3>1, <3>2
  <2> QED
    BY <2>4, <2>6, <2>7, <2>9, <2>10 DEF StatesConserved, Distinct, Leases
<1>3. ASSUME NEW s \in Streams, Acquire(s) PROVE StatesConserved'
  <2>1. CASE TakeState(s)
    BY <1>1, <1>3, <2>1 DEF Acquire
  <2>2. CASE LeaveQueue(s)
    BY <1>b, <1>3, <2>2 DEF Acquire, LeaveQueue, TypeOK
  <2>3. CASE Sleep(s)
    BY <1>b, <1>3, <2>3 DEF Acquire, Sleep, TypeOK
  <2> QED
    BY <1>3, <2>1, <2>2, <2>3 DEF Acquire
<1>4. ASSUME NEW s \in Streams, Notify(s) PROVE StatesConserved'
  <2>1. \A t \in Streams : (pc'[t] = "leased") <=> (pc[t] = "leased")
    BY <1>4 DEF Notify, At, TypeOK
  <2> QED
    BY <1>b, <1>4, <2>1 DEF Notify
<1>5. ASSUME NEW s \in Streams,
             BeginTranscribe(s) \/ BeginWindow(s) \/ Poll(s) \/ EndFailed(s)
      PROVE  StatesConserved'
  BY <1>b, <1>5 DEF BeginTranscribe, BeginWindow, Poll, EndFailed, TypeOK
<1>6. ASSUME NEW s \in Streams,
             Expire(s) \/ DeadlinePasses(s) \/ SpuriousWakeup(s) \/ ClientGone(s)
      PROVE  StatesConserved'
  BY <1>b, <1>6 DEF Expire, DeadlinePasses, SpuriousWakeup, ClientGone, TypeOK,
                    Queued, At
<1>7. ASSUME NEW s \in Streams, StopCallback(s) PROVE StatesConserved'
  BY <1>b, <1>7 DEF StopCallback, TypeOK
<1>8. CASE UNCHANGED vars
  BY <1>b, <1>8 DEF vars
<1> QED
  BY <1>2, <1>3, <1>4, <1>5, <1>6, <1>7, <1>8 DEF Next, Step, Environment
-----------------------------------------------------------------------------
(* No wake-up is lost.                                                     *)

Awake == Cardinality(At("awake"))
Notifying == Cardinality(At("notifying"))

(* Streams are finitely many, so the counts of NoLostWakeup are numbers.   *)
LEMMA Counts ==
  /\ IsFiniteSet(At("awake")) /\ Awake \in Nat
  /\ IsFiniteSet(At("notifying")) /\ Notifying \in Nat
<1>1. IsFiniteSet(Streams)
  BY PoolAssumption, FS_Union, Zenon DEF Streams
<1>2. ASSUME NEW l PROVE IsFiniteSet(At(l)) /\ Cardinality(At(l)) \in Nat
  <2>1. At(l) \in SUBSET Streams
    BY DEF At
  <2>2. IsFiniteSet(At(l))
    BY <1>1, <2>1, FS_Subset
  <2> QED
    BY <2>2, FS_CardinalityType
<1> QED
  BY <1>2 DEF Awake, Notifying

(* Every step keeps the bound: a release adds one free state and one       *)
(* pending notification, a notification turns into one awake stream, and   *)
(* an awake stream leaves the queue only with a state or past an empty     *)
(* free list.                                                              *)
LEMMA NextWakeup ==
  TypeOK /\ TypeOK' /\ StatesConserved /\ NoLostWakeup /\ [Next]_vars => NoLostWakeup'
<1> SUFFICES ASSUME TypeOK, TypeOK', StatesConserved, NoLostWakeup, [Next]_vars
             PROVE  NoLostWakeup'
  OBVIOUS
<1>a. Len(free) \in Nat /\ Len(free') \in Nat
  BY DEF TypeOK
<1>b. /\ IsFiniteSet(At("awake")) /\ Awake \in Nat
      /\ IsFiniteSet(At("notifying")) /\ Notifying \in Nat
  BY Counts
<1>c. Awake' \in Nat /\ Notifying' \in Nat
  <2>1. IsFiniteSet(Streams)
    BY PoolAssumption, FS_Union, Zenon DEF Streams
  <2>2. At("awake")' \in SUBSET Streams /\ At("notifying")' \in SUBSET Streams
    BY DEF At
  <2>3. IsFiniteSet(At("awake")') /\ IsFiniteSet(At("notifying")')
    BY <2>1, <2>2, FS_Subset
  <2>4. Cardinality(At("awake")') \in Nat /\ Cardinality(At("notifying")') \in Nat
    BY <2>3, FS_CardinalityType
  <2> QED
    BY <2>4 DEF Awake, Notifying
\* Steps that leave the free list and the three relevant sets alone.
<1>d. ASSUME UNCHANGED free,
             \A t \in Streams : \A l \in {"awake", "notifying", "asleep"} :
                 (pc'[t] = l) <=> (pc[t] = l)
      PROVE  NoLostWakeup'
  <2>1. /\ At("awake")' = At("awake") /\ At("notifying")' = At("notifying")
        /\ At("asleep")' = At("asleep")
    BY <1>d DEF At
  <2> QED
    BY <1>d, <2>1 DEF NoLostWakeup
\* One stream leaves the sleepers and is awake.
<1>e. ASSUME NEW w \in Streams, pc[w] \in {"asleep", "awake"},
             pc' = [pc EXCEPT ![w] = "awake"], UNCHANGED free
      PROVE  NoLostWakeup'
  <2>1. /\ At("awake")' = At("awake") \cup {w}
        /\ At("notifying")' = At("notifying")
        /\ At("asleep")' \subseteq At("asleep")
    BY <1>e DEF At, TypeOK
  <2>2. Awake' >= Awake
    <3>1. Awake' = IF w \in At("awake") THEN Awake ELSE Awake + 1
      BY <1>b, <2>1, FS_AddElement DEF Awake
    <3> QED
      BY <1>b, <3>1
  <2>3. Notifying' = Notifying
    BY <2>1 DEF Notifying
  <2>4. At("asleep")' # {} => At("asleep") # {}
    BY <2>1
  <2> QED
    BY <1>a, <1>b, <1>c, <1>e, <2>2, <2>3, <2>4 DEF NoLostWakeup, Awake, Notifying
<1>1. ASSUME NEW s \in Streams, Acquire(s) PROVE NoLostWakeup'
  <2>1. CASE TakeState(s)
    <3>1. /\ free' = Tail(free) /\ free # <<>> /\ pc' = [pc EXCEPT ![s] = "leased"]
          /\ pc[s] \in {"arriving", "awake"}
      BY <1>1, <2>1 DEF Acquire, TakeState
    <3>2. Len(free') = Len(free) - 1
      BY <3>1 DEF TypeOK
    <3>3. /\ At("awake")' = At("awake") \ {s}
          /\ At("notifying")' = At("notifying")
          /\ At("asleep")' = At("asleep")
      BY <3>1 DEF At, TypeOK
    <3>4. Awake' >= Awake - 1
      BY <1>b, <3>3, FS_RemoveElement DEF Awake
    <3>5. Notifying' = Notifying
      BY <3>3 DEF Notifying
    <3> QED
      BY <1>a, <1>b, <1>c, <3>2, <3>3, <3>4, <3>5 DEF NoLostWakeup, Awake, Notifying
  <2>2. CASE LeaveQueue(s) \/ Sleep(s)
    <3>1. free' = free /\ free = <<>>
      BY <2>2 DEF LeaveQueue, Sleep
    <3>2. Len(free') = 0
      BY <3>1
    <3> QED
      BY <1>c, <3>2 DEF NoLostWakeup, Awake, Notifying
  <2> QED
    BY <1>1, <2>1, <2>2 DEF Acquire
<1>2. ASSUME NEW s \in Streams, Release(s) PROVE NoLostWakeup'
  <2>1. /\ pc[s] = "leased" /\ pc' = [pc EXCEPT ![s] = "notifying"]
        /\ free' = Append(free, held[s]) /\ held[s] \in States
    BY <1>2 DEF Release, StatesConserved, TypeOK
  <2>2. Len(free') = Len(free) + 1
    BY <2>1 DEF TypeOK
  <2>3. /\ At("notifying")' = At("notifying") \cup {s} /\ s \notin At("notifying")
        /\ At("awake")' = At("awake") /\ At("asleep")' = At("asleep")
    BY <2>1 DEF At, TypeOK
  <2>4. Notifying' = Notifying + 1
    BY <1>b, <2>3, FS_AddElement DEF Notifying
  <2>5. Awake' = Awake
    BY <2>3 DEF Awake
  <2> QED
    BY <1>a, <1>b, <1>c, <2>2, <2>3, <2>4, <2>5 DEF NoLostWakeup, Awake, Notifying
<1>3. ASSUME NEW s \in Streams, Notify(s) PROVE NoLostWakeup'
  <2>1. pc[s] = "notifying" /\ free' = free
    BY <1>3 DEF Notify
  <2>2. CASE At("asleep") = {}
    <3>1. At("asleep")' = {}
      BY <1>3, <2>2 DEF Notify, At, TypeOK
    <3> QED
      BY <3>1 DEF NoLostWakeup
  <2>3. CASE At("asleep") # {}
    <3>1. PICK w \in At("asleep") : pc' = [pc EXCEPT ![s] = "idle", ![w] = "awake"]
      BY <1>3, <2>3 DEF Notify
    <3>2. w \in Streams /\ pc[w] = "asleep" /\ w # s
      BY <2>1, <3>1 DEF At
    <3>3. /\ At("notifying")' = At("notifying") \ {s} /\ s \in At("notifying")
          /\ At("awake")' = At("awake") \cup {w} /\ w \notin At("awake")
      BY <2>1, <3>1, <3>2 DEF At, TypeOK
    <3>4. Notifying' = Notifying - 1
      BY <1>b, <3>3, FS_RemoveElement DEF Notifying
    <3>5. Awake' = Awake + 1
      BY <1>b, <3>3, FS_AddElement DEF Awake
    <3> QED
      BY <1>a, <1>b, <1>c, <2>1, <2>3, <3>4, <3>5 DEF NoLostWakeup, Awake, Notifying
  <2> QED
    BY <2>2, <2>3
<1>4. ASSUME NEW s \in Streams, StopCallback(s) PROVE NoLostWakeup'
  BY <1>4 DEF StopCallback, NoLostWakeup, At
<1>5. ASSUME NEW s \in Streams, Expire(s) \/ SpuriousWakeup(s) PROVE NoLostWakeup'
  BY <1>5, <1>e DEF Expire, SpuriousWakeup, Queued, At
<1>6. ASSUME NEW s \in Streams,
             BeginTranscribe(s) \/ BeginWindow(s) \/ Poll(s) \/ EndFailed(s)
      PROVE  NoLostWakeup'
  <2>1. \A t \in Streams : \A l \in {"awake", "notifying", "asleep"} :
            (pc'[t] = l) <=> (pc[t] = l)
    BY <1>6 DEF BeginTranscribe, BeginWindow, Poll, EndFailed, TypeOK
  <2> QED
    BY <1>d, <1>6, <2>1 DEF BeginTranscribe, BeginWindow, Poll, EndFailed
<1>7. ASSUME NEW s \in Streams, DeadlinePasses(s) \/ ClientGone(s) PROVE NoLostWakeup'
  BY <1>7, <1>d DEF DeadlinePasses, ClientGone
<1>8. CASE UNCHANGED vars
  BY <1>d, <1>8 DEF vars
<1> QED
  BY <1>1, <1>2, <1>3, <1>4, <1>5, <1>6, <1>7, <1>8 DEF Next, Step, Environment
-----------------------------------------------------------------------------
(* The inductive invariant holds of every behaviour of the pool.           *)
THEOREM PoolInvariant == Spec => []IInv
<1>1. Init => IInv
  <2>1. Init => At("asleep") = {}
    BY DEF Init, At
  <2> QED
    BY <2>1, InitTypeOK, InitConserved DEF IInv, NoLostWakeup
<1>2. IInv /\ [Next]_vars => IInv'
  BY NextTypeOK, NextConserved, NextWakeup DEF IInv
<1> QED
  BY <1>1, <1>2, PTL DEF Spec

(* The state of the pool is well typed.                                    *)
THEOREM PoolTypeCorrect == Spec => []TypeOK
  BY PoolInvariant, PTL DEF IInv

(* acquire and release never lose a whisper_state and never hand one out   *)
(* twice, whatever the streams do.                                         *)
THEOREM PoolConservesStates == Spec => []StatesConserved
  BY PoolInvariant, PTL DEF IInv

(* notify_one after the mutex is enough: as long as a stream sleeps in     *)
(* acquire, each free state has a stream awake, or about to be woken, for  *)
(* it, although waiters are cancelled, time out and are overtaken.         *)
THEOREM PoolLosesNoWakeup == Spec => []NoLostWakeup
  BY PoolInvariant, PTL DEF IInv

(* The queue, its timeouts and its cancellations implement the lending of  *)
(* StateLending: a state is lent to one stream at a time.                  *)
THEOREM PoolLendsExclusively == Spec => LendsExclusively
<1>1. Init => Lending!Init
  BY DEF Init, Lending!Init
<1>2. IInv /\ [Next]_vars => [Lending!Next]_held
  <2> SUFFICES ASSUME IInv, [Next]_vars, held' # held PROVE Lending!Next
    OBVIOUS
  <2> USE DEF IInv
  <2>1. ASSUME NEW s \in Streams, Acquire(s) PROVE Lending!Next
    <3>1. TakeState(s) /\ pc[s] \in {"arriving", "awake"}
      BY <2>1 DEF Acquire, LeaveQueue, Sleep
    <3>2. Head(free) \in States /\ Head(free) \in Listed(free)
      BY <3>1, PopFront DEF TakeState, TypeOK, StatesConserved, Distinct
    <3>3. held[s] = None /\ \A t \in Streams : held[t] # Head(free)
      BY <3>1, <3>2 DEF StatesConserved
    <3>4. Lending!Lend(s, Head(free))
      BY <3>1, <3>3 DEF Lending!Lend, TakeState
    <3> QED
      BY <3>2, <3>4 DEF Lending!Next
  <2>2. ASSUME NEW s \in Streams, Release(s) PROVE Lending!Next
    <3>1. held[s] # None
      BY <2>2 DEF Release, StatesConserved
    <3> QED
      BY <2>2, <3>1, Zenon DEF Release, Lending!Next, Lending!Return
  <2> QED
    BY <2>1, <2>2 DEF Next, Step, Environment, vars, BeginTranscribe, BeginWindow,
       Poll, Expire, DeadlinePasses, SpuriousWakeup, ClientGone, StopCallback,
       Notify, EndFailed
<1> QED
  BY <1>1, <1>2, PoolInvariant, PTL DEF Spec, LendsExclusively, Lending!Spec
=============================================================================
