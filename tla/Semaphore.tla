----------------------------- MODULE Semaphore -----------------------------
(***************************************************************************)
(* The counting semaphore that limits concurrent transfers:                *)
(* src/src/lib/util/semaphore.cpp, include/redux/util/semaphore.hpp, with  *)
(* the operations its users call.  Daemon::sendWork holds a                *)
(* Semaphore::Scope with a 5 s time-out over outTransfers while it packs   *)
(* and the interactive command "max-send" calls set() at any time.         *)
(*                                                                         *)
(* counter and init are unsigned ints, so every update is modulo Modulus   *)
(* (2^32 in the code).                                                     *)
(***************************************************************************)
EXTENDS Integers, FiniteSets

CONSTANTS
  Threads,   \* threads that want a transfer slot
  Limits,    \* limits the operator may set
  Start,     \* the limit the daemon starts with
  Modulus    \* 2^32: the range of unsigned int

ASSUME SemaphoreAssumption ==
  /\ IsFiniteSet(Threads)
  /\ Modulus \in Nat \ {0}
  /\ Cardinality(Threads) < Modulus
  /\ Limits \subseteq 0..(Modulus - 1)
  /\ Start \in 0..(Modulus - 1)

VARIABLES
  counter,   \* free slots
  init,      \* the limit
  thread     \* "out", "waiting" in get(timeout), or "in": holding a slot

vars == <<counter, init, thread>>

Held == {t \in Threads : thread[t] = "in"}

TypeOK ==
  /\ counter \in 0..(Modulus - 1)
  /\ init \in 0..(Modulus - 1)
  /\ thread \in [Threads -> {"out", "waiting", "in"}]

Init ==
  /\ counter = Start /\ init = Start
  /\ thread = [t \in Threads |-> "out"]

\* Scope( sem, timeout ): wait_for tests the predicate before it waits.
Enter(t) ==
  /\ thread[t] = "out"
  /\ thread' = [thread EXCEPT ![t] = "waiting"]
  /\ UNCHANGED <<counter, init>>

\* Mutant of Get: the predicate is not tested.
GetUntested(t) ==
  /\ thread[t] = "waiting"
  /\ counter' = (counter - 1) % Modulus
  /\ thread' = [thread EXCEPT ![t] = "in"]
  /\ UNCHANGED init

\* The predicate counter>0 holds, at entry, at a wake-up or at the time-out.
Get(t) ==
  /\ thread[t] = "waiting" /\ counter > 0
  /\ counter' = (counter - 1) % Modulus
  /\ thread' = [thread EXCEPT ![t] = "in"]
  /\ UNCHANGED init

\* The time-out expires with the predicate false: the scope is not active.
GetTimesOut(t) ==
  /\ thread[t] = "waiting" /\ counter = 0
  /\ thread' = [thread EXCEPT ![t] = "out"]
  /\ UNCHANGED <<counter, init>>

\* Mutant of Release: the counter does not wrap back at the end of its range.
ReleaseUnwrapped(t) ==
  /\ thread[t] = "in"
  /\ counter' = counter + 1
  /\ thread' = [thread EXCEPT ![t] = "out"]
  /\ UNCHANGED init

\* ~Scope of an active scope.
Release(t) ==
  /\ thread[t] = "in"
  /\ counter' = (counter + 1) % Modulus
  /\ thread' = [thread EXCEPT ![t] = "out"]
  /\ UNCHANGED init

\* Mutant of Set: the free slots are set to the limit, forgetting those in use.
SetForgetsHeld(val) ==
  /\ init' = val
  /\ counter' = val
  /\ UNCHANGED thread

\* set(): the difference is added to both, in unsigned arithmetic.
Set(val) ==
  LET diff == val - init IN
  /\ diff # 0
  /\ init' = (init + diff) % Modulus
  /\ counter' = (counter + diff) % Modulus
  /\ UNCHANGED thread

Next ==
  \/ \E t \in Threads : Enter(t) \/ Get(t) \/ GetTimesOut(t) \/ Release(t)
  \/ \E val \in Limits : Set(val)

Spec == Init /\ [][Next]_vars
-----------------------------------------------------------------------------
(* Properties                                                              *)

\* No slot is created or lost, whatever order get, release and set come in: free
\* slots and held slots add up to the limit, in the arithmetic of unsigned int.
SlotsConserved == (counter + Cardinality(Held)) % Modulus = init

\* A get succeeds only when fewer transfers than the limit are under way, as long
\* as the counter has not wrapped below zero.
GetWithinLimit ==
  [][\A t \in Threads : thread[t] = "waiting" /\ thread'[t] = "in" /\ counter <= init
       => Cardinality(Held) < init]_vars

====
