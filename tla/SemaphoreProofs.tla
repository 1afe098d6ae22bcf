-------------------------- MODULE SemaphoreProofs --------------------------
(***************************************************************************)
(* Proofs about module Semaphore, for every number of threads, every set   *)
(* of limits and every range of the counter.                               *)
(***************************************************************************)
EXTENDS Semaphore, FiniteSetTheorems, TLAPS

\* Unsigned arithmetic on a value that is at most one wrap away from the range.
LEMMA ModFacts ==
  ASSUME NEW x \in Int
  PROVE  /\ x \in 0..(Modulus - 1) => x % Modulus = x
         /\ x \in Modulus..(2 * Modulus - 1) => x % Modulus = x - Modulus
         /\ x \in (-Modulus)..(-1) => x % Modulus = x + Modulus
  BY SemaphoreAssumption

\* Slots are held by threads, so they can be counted and are fewer than Modulus.
LEMMA HeldFinite ==
  /\ IsFiniteSet(Held)
  /\ Cardinality(Held) \in 0..(Modulus - 1)
<1>1. Held \in SUBSET Threads
  BY DEF Held
<1>2. IsFiniteSet(Held) /\ Cardinality(Held) <= Cardinality(Threads)
  BY <1>1, FS_Subset, SemaphoreAssumption
<1>3. Cardinality(Held) \in Nat /\ Cardinality(Threads) \in Nat
  BY <1>2, FS_CardinalityType, SemaphoreAssumption
<1> QED
  BY <1>2, <1>3, SemaphoreAssumption

\* The conservation of slots without modulo: the counter has wrapped below zero at
\* most once.  This is what each operation preserves.
SlotsInv ==
  /\ TypeOK
  /\ \/ counter + Cardinality(Held) = init
     \/ counter + Cardinality(Held) = init + Modulus

\* The daemon starts with all slots free.
LEMMA InitSlots == Init => SlotsInv
<1> SUFFICES ASSUME Init PROVE SlotsInv
  OBVIOUS
<1>1. Held = {}
  BY DEF Init, Held
<1>2. TypeOK
  BY SemaphoreAssumption DEF Init, TypeOK
<1>3. Cardinality(Held) = 0
  BY <1>1, FS_EmptySet
<1> QED
  BY <1>2, <1>3, SemaphoreAssumption DEF Init, SlotsInv

\* get, release, set and the time-out preserve it.
LEMMA NextSlots == SlotsInv /\ [Next]_vars => SlotsInv'
<1> SUFFICES ASSUME SlotsInv, [Next]_vars PROVE SlotsInv'
  OBVIOUS
<1> USE SemaphoreAssumption DEF SlotsInv, TypeOK
<1>0. Cardinality(Held) \in 0..(Modulus - 1) /\ IsFiniteSet(Held)
  BY HeldFinite
<1>1. CASE UNCHANGED vars
  BY <1>1 DEF vars, Held
<1>2. ASSUME NEW t \in Threads, Enter(t) \/ GetTimesOut(t) PROVE SlotsInv'
  <2>1. Held' = Held
    BY <1>2 DEF Enter, GetTimesOut, Held
  <2> QED
    BY <1>2, <2>1 DEF Enter, GetTimesOut
<1>3. ASSUME NEW t \in Threads, Get(t) PROVE SlotsInv'
  <2>1. Held' = Held \cup {t} /\ t \notin Held
    BY <1>3 DEF Get, Held
  <2>2. Cardinality(Held') = Cardinality(Held) + 1
    BY <1>0, <2>1, FS_AddElement
  <2>3. counter' = counter - 1
    BY <1>3, ModFacts DEF Get
  <2> QED
    BY <1>0, <1>3, <2>2, <2>3 DEF Get
<1>4. ASSUME NEW t \in Threads, Release(t) PROVE SlotsInv'
  <2>1. Held' = Held \ {t} /\ t \in Held
    BY <1>4 DEF Release, Held
  <2>2. Cardinality(Held') = Cardinality(Held) - 1
    BY <1>0, <2>1, FS_RemoveElement
  <2>3. Cardinality(Held') \in Nat
    <3>1. IsFiniteSet(Held')
      BY <1>0, <2>1, FS_RemoveElement
    <3> QED
      BY <3>1, FS_CardinalityType
  <2>4. counter' = IF counter + 1 = Modulus THEN 0 ELSE counter + 1
    BY <1>4, ModFacts DEF Release
  <2> QED
    BY <1>0, <1>4, <2>2, <2>3, <2>4 DEF Release
<1>5. ASSUME NEW val \in Limits, Set(val) PROVE SlotsInv'
  <2>1. Held' = Held
    BY <1>5 DEF Set, Held
  <2>2. val \in 0..(Modulus - 1)
    OBVIOUS
  <2>3. init' = val
    BY <1>5, <2>2, ModFacts DEF Set
  <2>4. /\ counter + val - init \in 0..(Modulus - 1) => counter' = counter + val - init
        /\ counter + val - init >= Modulus => counter' = counter + val - init - Modulus
        /\ counter + val - init < 0 => counter' = counter + val - init + Modulus
    <3>1. counter' = (counter + val - init) % Modulus
      BY <1>5, <2>2 DEF Set
    <3> QED
      BY <2>2, <3>1, ModFacts
  <2>5. thread' = thread
    BY <1>5 DEF Set
  <2> QED
    BY <1>0, <2>1, <2>2, <2>3, <2>4, <2>5
<1> QED
  BY <1>1, <1>2, <1>3, <1>4, <1>5 DEF Next

\* The counter always has a value of its type, and the threads are where the
\* operations of semaphore.cpp put them.
THEOREM SemaphoreTypeCorrect == Spec => []TypeOK
<1>1. SlotsInv => TypeOK
  BY DEF SlotsInv
<1> QED
  BY <1>1, InitSlots, NextSlots, PTL DEF Spec

\* set(), get() and release() never create or lose a slot, in any order, for any
\* limits and any number of threads.
THEOREM SlotsAreConserved == Spec => []SlotsConserved
<1>1. SlotsInv => SlotsConserved
  <2> SUFFICES ASSUME SlotsInv PROVE SlotsConserved
    OBVIOUS
  <2>1. Cardinality(Held) \in 0..(Modulus - 1)
    BY HeldFinite
  <2> QED
    BY <2>1, ModFacts, SemaphoreAssumption DEF SlotsInv, TypeOK, SlotsConserved
<1> QED
  BY <1>1, InitSlots, NextSlots, PTL DEF Spec

\* As long as the counter has not wrapped, a transfer starts only below the limit.
THEOREM GetsStayWithinLimit == Spec => GetWithinLimit
<1>1. SlotsInv /\ [Next]_vars =>
        [\A t \in Threads : thread[t] = "waiting" /\ thread'[t] = "in" /\ counter <= init
           => Cardinality(Held) < init]_vars
  <2> SUFFICES ASSUME SlotsInv, Next, NEW t \in Threads,
                      thread[t] = "waiting", thread'[t] = "in", counter <= init
               PROVE  Cardinality(Held) < init
    BY DEF vars
  <2>1. Cardinality(Held) \in 0..(Modulus - 1)
    BY HeldFinite
  <2>2. Get(t)
    BY DEF Next, Enter, Get, GetTimesOut, Release, Set, SlotsInv, TypeOK
  <2> QED
    BY <2>1, <2>2, SemaphoreAssumption DEF Get, SlotsInv, TypeOK
<1> QED
  BY <1>1, InitSlots, NextSlots, PTL DEF Spec, GetWithinLimit

====
