--------------------------- MODULE ProgressWatch ---------------------------
(***************************************************************************)
(* The counter that tells when a set of tasks is done: redux::util::       *)
(* ProgressWatch. Each method holds the watch's mutex, so it is an operator *)
(* from a watch to a watch. step() hands its handler to the caller, which  *)
(* runs it after the mutex is released.                                    *)
(*                                                                         *)
(* start_ is 0 in every call of set and is not a field here. The ticker    *)
(* onChange only redraws the progress string.                              *)
(***************************************************************************)
EXTENDS Integers

NoHandler == "none"

NewWatch == [counter |-> 0, target |-> 0, completed |-> FALSE, handler |-> NoHandler]

Watch(handlers) ==
  [counter : Int, target : Int, completed : BOOLEAN, handler : handlers \cup {NoHandler}]

clear(w) == NewWatch

set(w, end) == [w EXCEPT !.target = end, !.counter = 0, !.completed = (end = 0)]

setTarget(w, t) == [w EXCEPT !.target = t]

increaseTarget(w, n) == [w EXCEPT !.target = @ + n]

setHandler(w, h) == [w EXCEPT !.handler = h]

\* The n steps reach the target: waiters are notified, the handler is used up.
Reaches(w, n) == w.target # 0 /\ w.counter + n = w.target

step(w, n) ==
  IF Reaches(w, n) THEN [w EXCEPT !.counter = 0, !.completed = TRUE, !.handler = NoHandler]
                   ELSE [w EXCEPT !.counter = @ + n, !.completed = FALSE]

\* The handler that a call of step runs.
Completer(w, n) == IF Reaches(w, n) THEN w.handler ELSE NoHandler

====
