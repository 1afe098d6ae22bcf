---------------------------- MODULE PatchLedger ----------------------------
(***************************************************************************)
(* What the distribution of patches promises, with no slave, queue, retry  *)
(* or time-out in sight: the result of a patch is booked once, and a job   *)
(* is closed at the instant the last of its patches is booked.             *)
(***************************************************************************)
CONSTANTS Jobs, Patches, JobOf

VARIABLES done,    \* patches with a result
          closed   \* jobs that moved to DONE

Init == done = {} /\ closed = {}

Book(p) ==
  /\ p \notin done
  /\ done' = done \cup {p}
  /\ closed' = closed \cup {j \in {JobOf[p]} : {q \in Patches : JobOf[q] = j} \subseteq done'}

Next == \E p \in Patches : Book(p)

Spec == Init /\ [][Next]_<<done, closed>>

====
