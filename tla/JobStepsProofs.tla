--------------------------- MODULE JobStepsProofs ---------------------------
(***************************************************************************)
(* For any number of jobs, threads and unreadable images, any limits, and  *)
(* with an operator: the variables have their types; the shared counters   *)
(* are exact and the limits hold until two threads move one job at once;   *)
(* and a destroyed job is left alone, but for a check thread without lock. *)
(***************************************************************************)
EXTENDS JobSteps, FiniteSetTheorems, TLAPS

\* The steps whose limits the local prepare thread tests.
LocalSteps == {"CHECKING", "PREPROCESS", "VERIFY", "POSTPROCESS"}

\* What other threads may do for a job in step s.  One that an operator has failed may
\* still have any thread.
Fits(s, work) ==
  \/ s = "CHECKING" /\ work \in {"spawned", "check"}
  \/ s = "PREPROCESS" /\ work \in {"wip", "load", "broken", "stalled"}
  \/ s = "RUNNING" /\ work = "patches"
  \/ s \in {"VERIFY", "POSTPROCESS"} /\ work = "wip"
  \/ s = "GONE" /\ work \in {"wip", "spawned"}
  \/ s = "WRITING" /\ work \in {"write", "last"}
  \/ s = "JSTATE_ERR"
  \/ s \notin {"CHECKING", "RUNNING"} /\ work = "none"

\* The step the job is in or on the way to, a failure apart.
Own(j) == IF moving[j] # "no" THEN moving[j] ELSE step[j]

\* One thread at a time moves the job, or else fails it: the task fits its step, and what
\* follows a task begins when the step is stored.
JobInv(j) ==
  /\ Fits(Own(j), task[j])
  /\ task[j] = "broken" => Counted(j) = "JSTATE_ERR"
  /\ task[j] \in {"check", "load", "broken", "stalled", "last"} => moving[j] = "no"
  /\ failing[j] > 0 => failing[j] = 1 /\ moving[j] = "no" /\ step[j] # "JSTATE_ERR"
  /\ step[j] \in {"NONE", "GONE"} => moving[j] = "no" /\ failing[j] = 0 /\ ~listed[j]
  /\ moving[j] \notin {"NONE", "GONE"}
  /\ dying[j] => ~listed[j] /\ step[j] \notin {"NONE", "GONE"}

\* What the local thread, the worker and a remote thread have read of the job is still
\* true when they use it, unless the job has failed; and only one of them has it.
AgentInv(j) ==
  /\ local.job = j =>
       /\ moving[j] = "no" /\ task[j] = "none" /\ ~dying[j] /\ worker # j /\ local.to \in LocalSteps
       /\ \/ step[j] = "JSTATE_ERR"
          \/ step[j] \in DOMAIN NextStep /\ local.to = NextStep[step[j]]
  /\ worker = j =>
       /\ moving[j] = "no" /\ task[j] = "none" /\ ~dying[j]
       /\ step[j] \in {"PREPROCESS", "VERIFY", "POSTPROCESS", "JSTATE_ERR"}
  /\ \A t \in PrepThreads : remote[t] = j =>
       /\ moving[j] = "no" /\ task[j] = "none" /\ step[j] \in {"QUEUED", "JSTATE_ERR"} /\ ~dying[j]
       /\ local.job # j /\ worker # j
       /\ \A u \in PrepThreads : remote[u] = j => u = t

JobsInv == \A j \in Jobs : JobInv(j) /\ AgentInv(j)

Slots == \A s \in Limited : active[s] = Cardinality(CountedIn(s))

Ahead == {j \in CountedIn("PREPROCESS") \cup CountedIn("QUEUED") : "revived" \notin past[j]}

Busy == {t \in PrepThreads : remote[t] # None}

\* The limits with what threads have tested and not counted yet.
LimitInv ==
  /\ \A s \in LocalSteps : Cardinality(CountedIn(s)) <= Max[s]
  /\ local.job # None => Cardinality(CountedIn(local.to)) < Max[local.to]
  /\ Cardinality(Ahead) <= Max["QUEUED"] + Max["PREPROCESS"] - 1
  /\ local.job # None /\ local.to = "PREPROCESS"
       => Cardinality(Ahead) <= Max["QUEUED"] + Max["PREPROCESS"] - 2
  /\ Cardinality(CountedIn("RUNNING")) + Cardinality(Busy)
       <= Max["RUNNING"] + Cardinality(PrepThreads) - 1

IndInv == TypeOK /\ (Trusted => JobsInv /\ Slots /\ LimitInv)

-----------------------------------------------------------------------------
(* Type correctness                                                        *)

\* The local thread sends jobs to limited steps.
LEMMA NextStepType == \A s \in DOMAIN NextStep : NextStep[s] \in Steps /\ NextStep[s] \in LocalSteps
  BY DEF NextStep, Steps, Limited, LocalSteps

\* Counting keeps the counters integers, whatever steps it is between.
LEMMA RecountType ==
  ASSUME TypeOK, NEW from \in Steps, NEW to \in Steps, Recount(from, to)
  PROVE  active' \in [Steps -> Int]
  BY DEF TypeOK, Recount

\* The half of moveTo that counts.
LEMMA MoveToType ==
  ASSUME TypeOK, NEW j \in Jobs, NEW to \in Steps, MoveTo(j, to)
  PROVE  /\ active' \in [Steps -> Int] /\ moving' \in [Jobs -> Steps \cup {"no"}]
         /\ past' \in [Jobs -> SUBSET Mishaps]
  <1>1. step[j] \in Steps
    BY DEF TypeOK
  <1>2. active' \in [Steps -> Int]
    BY <1>1, RecountType DEF MoveTo
  <1>3. moving' \in [Jobs -> Steps \cup {"no"}]
    BY DEF MoveTo, TypeOK
  <1>4. past' \in [Jobs -> SUBSET Mishaps]
    BY DEF MoveTo, TypeOK, Mishaps
  <1> QED BY <1>2, <1>3, <1>4

\* moveTo( JSTATE_ERR ) keeps the types, but for the number of such calls.
LEMMA MoveToErrType ==
  ASSUME TypeOK, NEW j \in Jobs, MoveToErr(j)
  PROVE  active' \in [Steps -> Int] /\ past' \in [Jobs -> SUBSET Mishaps]
  <1>1. CASE step[j] = "JSTATE_ERR"
    BY <1>1 DEF MoveToErr, TypeOK
  <1>2. CASE step[j] # "JSTATE_ERR"
    <2>1. step[j] \in Steps /\ Recount(step[j], "JSTATE_ERR")
      BY <1>2 DEF MoveToErr, TypeOK
    <2>2. active' \in [Steps -> Int]
      BY <2>1, RecountType DEF Steps
    <2>3. past' \in [Jobs -> SUBSET Mishaps]
      BY <1>2 DEF MoveToErr, TypeOK, Mishaps
    <2> QED BY <2>2, <2>3
  <1> QED BY <1>1, <1>2

\* Every step of a job's threads keeps the types.
LEMMA TypeStep == TypeOK /\ [Next]_vars => TypeOK'
  <1> SUFFICES ASSUME TypeOK, [Next]_vars PROVE TypeOK'
    OBVIOUS
  <1> USE JobStepsAssumption
  <1>1. ASSUME NEW j \in Jobs, Submit(j) PROVE TypeOK'
    <2>1. active' \in [Steps -> Int]
      BY <1>1, RecountType DEF Submit, Steps
    <2> QED BY <1>1, <2>1 DEF Submit, TypeOK, Steps
  <1>2. ASSUME NEW j \in Jobs, SubmitChecked(j) PROVE TypeOK'
    BY <1>2 DEF SubmitChecked, TypeOK, Steps
  <1>3. ASSUME NEW j \in Jobs, StoreStep(j) PROVE TypeOK'
    BY <1>3 DEF StoreStep, TypeOK
  <1>4. ASSUME NEW j \in Jobs, StoreErr(j) PROVE TypeOK'
    BY <1>4 DEF StoreErr, TypeOK, Steps
  <1>5. ASSUME NEW j \in Jobs, LocalGetWork(j) PROVE TypeOK'
    BY <1>5, NextStepType DEF LocalGetWork, TypeOK
  <1>6. ASSUME NEW j \in Jobs, LocalStart(j) PROVE TypeOK'
    <2>1. local' \in [job : Jobs \cup {None}, to : Steps]
      BY <1>6 DEF LocalStart, NoLocal, Steps
    <2>2. local.to \in Steps
      BY DEF TypeOK
    <2>3. /\ active' \in [Steps -> Int] /\ moving' \in [Jobs -> Steps \cup {"no"}]
          /\ past' \in [Jobs -> SUBSET Mishaps]
      <3>1. CASE MoveTo(j, local.to)
        BY <3>1, <2>2, MoveToType
      <3>2. CASE UNCHANGED <<active, moving, past>>
        BY <3>2 DEF TypeOK
      <3> QED BY <1>6, <3>1, <3>2 DEF LocalStart
    <2> QED BY <1>6, <2>1, <2>3 DEF LocalStart, TypeOK, Tasks
  <1>7. ASSUME NEW j \in Jobs, CheckBegins(j) PROVE TypeOK'
    BY <1>7 DEF CheckBegins, TypeOK, Tasks
  <1>8. ASSUME NEW j \in Jobs, CheckDone(j) PROVE TypeOK'
    <2>1. PICK to \in {"CHECKED", "ERR"} : MoveTo(j, to)
      BY <1>8 DEF CheckDone
    <2> QED BY <1>8, <2>1, MoveToType DEF CheckDone, TypeOK, Tasks, Steps
  <1>9. ASSUME NEW j \in Jobs, WorkerTakes(j) PROVE TypeOK'
    BY <1>9 DEF WorkerTakes, TypeOK, Tasks
  <1>10. ASSUME NEW j \in Jobs, RunPreProcess(j) PROVE TypeOK'
    BY <1>10 DEF RunPreProcess, TypeOK, Tasks
  <1>11. ASSUME NEW j \in Jobs, RunThrows(j) PROVE TypeOK'
    <2>1. /\ active' \in [Steps -> Int] /\ moving' \in [Jobs -> Steps \cup {"no"}]
          /\ past' \in [Jobs -> SUBSET Mishaps]
      <3>1. CASE MoveTo(j, "WRITING")
        BY <3>1, MoveToType DEF Steps, Limited
      <3>2. CASE UNCHANGED <<active, moving, past>>
        BY <3>2 DEF TypeOK
      <3> QED BY <1>11, <3>1, <3>2 DEF RunThrows
    <2> QED BY <1>11, <2>1 DEF RunThrows, TypeOK
  <1>12. ASSUME NEW j \in Jobs, RunOther(j) PROVE TypeOK'
    <2>1. PICK to \in {"VERIFIED", "WRITING", "ERR"} : MoveTo(j, to)
      BY <1>12 DEF RunOther
    <2>2. /\ active' \in [Steps -> Int] /\ moving' \in [Jobs -> Steps \cup {"no"}]
          /\ past' \in [Jobs -> SUBSET Mishaps]
      BY <2>1, MoveToType DEF Steps, Limited
    <2> QED BY <1>12, <2>2 DEF RunOther, TypeOK, Tasks
  <1>13. ASSUME NEW j \in Jobs, Loaded(j) PROVE TypeOK'
    <2>1. PICK to \in {"QUEUED", "COMPLETED"} : MoveTo(j, to)
      BY <1>13 DEF Loaded
    <2> QED BY <1>13, <2>1, MoveToType DEF Loaded, TypeOK, Tasks, Steps, Limited
  <1>14. ASSUME NEW j \in Jobs, LoadFails(j) PROVE TypeOK'
    <2>1. active' \in [Steps -> Int] /\ past' \in [Jobs -> SUBSET Mishaps]
      BY <1>14, MoveToErrType DEF LoadFails
    <2>2. failing' \in [Jobs -> 0..(Files + 1)]
      <3>1. CASE step[j] = "JSTATE_ERR"
        BY <1>14, <3>1 DEF LoadFails, MoveToErr, TypeOK
      <3>2. CASE step[j] # "JSTATE_ERR"
        BY <1>14, <3>2 DEF LoadFails, MoveToErr, TypeOK
      <3> QED BY <3>1, <3>2
    <2> QED BY <1>14, <2>1, <2>2 DEF LoadFails, TypeOK, Tasks
  <1>15. ASSUME NEW j \in Jobs, TaskThrows(j) \/ LastObject(j) PROVE TypeOK'
    BY <1>15 DEF TaskThrows, LastObject, TypeOK, Tasks
  <1>16. ASSUME NEW j \in Jobs, Written(j) PROVE TypeOK'
    BY <1>16, MoveToType DEF Written, TypeOK, Tasks, Steps
  <1>17. ASSUME NEW j \in Jobs, PatchesDone(j) PROVE TypeOK'
    BY <1>17, MoveToType DEF PatchesDone, TypeOK, Tasks, Steps
  <1>18. ASSUME NEW j \in Jobs, Cleanup(j) \/ Delete(j) PROVE TypeOK'
    BY <1>18 DEF Cleanup, Delete, TypeOK
  <1>19. ASSUME NEW j \in Jobs, Destroy(j) PROVE TypeOK'
    BY <1>19 DEF Destroy, TypeOK
  <1>20. ASSUME NEW j \in Jobs, Destroyed(j) PROVE TypeOK'
    <2>1. active' \in [Steps -> Int]
      BY <1>20, RecountType DEF Destroyed, TypeOK, Steps
    <2> QED BY <1>20, <2>1 DEF Destroyed, TypeOK, Tasks, Steps
  <1>21. ASSUME NEW j \in Jobs, Fail(j) PROVE TypeOK'
    <2>1. active' \in [Steps -> Int] /\ past' \in [Jobs -> SUBSET Mishaps]
      BY <1>21, MoveToErrType DEF Fail
    <2> QED BY <1>21, <2>1 DEF Fail, MoveToErr, TypeOK
  <1>22. ASSUME NEW t \in PrepThreads, RemoteStart(t) PROVE TypeOK'
    <2>1. remote[t] \in Jobs /\ MoveTo(remote[t], "RUNNING")
      BY <1>22 DEF RemoteStart, TypeOK
    <2>2. /\ active' \in [Steps -> Int] /\ moving' \in [Jobs -> Steps \cup {"no"}]
          /\ past' \in [Jobs -> SUBSET Mishaps]
      BY <2>1, MoveToType DEF Steps, Limited
    <2> QED BY <1>22, <2>1, <2>2 DEF RemoteStart, TypeOK, Tasks
  <1>23. ASSUME NEW t \in PrepThreads, NEW j \in Jobs, RemoteGetWork(t, j) PROVE TypeOK'
    BY <1>23 DEF RemoteGetWork, TypeOK
  <1>24. CASE UNCHANGED vars
    BY <1>24 DEF vars, TypeOK
  <1>25. ASSUME NEW j \in Jobs, LateCheck(j) PROVE TypeOK'
    <2>1. PICK from \in Steps, to \in {"CHECKED", "ERR"} : Recount(from, to)
      BY <1>25 DEF LateCheck
    <2>2. active' \in [Steps -> Int]
      BY <2>1, RecountType DEF Steps
    <2> QED BY <1>25, <2>2 DEF LateCheck, TypeOK, Tasks, Mishaps
  <1> QED
    BY <1>1, <1>2, <1>3, <1>4, <1>5, <1>6, <1>7, <1>8, <1>9, <1>10, <1>11, <1>12, <1>13, <1>14,
       <1>15, <1>16, <1>17, <1>18, <1>19, <1>20, <1>21, <1>22, <1>23, <1>24, <1>25 DEF Next

\* A daemon starts with variables of their types.
LEMMA TypeInit == Init => TypeOK
  BY JobStepsAssumption DEF Init, TypeOK, Steps, Tasks, NoLocal

\* TypeOK holds in every behaviour, for all jobs, threads and limits, with an operator
\* and any number of unreadable images.
THEOREM TypeCorrect == Spec => []TypeOK
  BY TypeInit, TypeStep, PTL DEF Spec

-----------------------------------------------------------------------------
(* One job, one thread: JobInv and AgentInv                                *)

\* The step neither changes job k nor makes a thread take it.
Same(k) ==
  /\ step'[k] = step[k] /\ moving'[k] = moving[k] /\ failing'[k] = failing[k]
  /\ task'[k] = task[k] /\ dying'[k] = dying[k] /\ listed'[k] = listed[k] /\ past'[k] = past[k]
  /\ local' = local \/ local'.job # k
  /\ worker' = worker \/ worker' # k
  /\ \A t \in PrepThreads : remote'[t] = remote[t] \/ remote'[t] # k

\* A job that a step leaves alone keeps its invariants and its count.
LEMMA SameKeeps ==
  ASSUME NEW k \in Jobs, JobInv(k), AgentInv(k), Same(k)
  PROVE  JobInv(k)' /\ AgentInv(k)' /\ Counted(k)' = Counted(k) /\ past'[k] = past[k]
  <1>1. Counted(k)' = Counted(k) /\ Own(k)' = Own(k)
    BY DEF Same, Counted, Own
  <1>2. JobInv(k)'
    BY <1>1 DEF Same, JobInv
  <1>3. AgentInv(k)'
    BY <1>1 DEF Same, AgentInv
  <1> QED BY <1>1, <1>2, <1>3 DEF Same

\* Job j goes from the step it is counted for to another, and with it the counters.
Moves(j, from, to) ==
  /\ from # to /\ Counted(j) = from /\ Counted(j)' = to
  /\ \A k \in Jobs \ {j} : Counted(k)' = Counted(k)
  /\ \A k \in Jobs : past[k] \subseteq past'[k]
  /\ \A s \in Limited : active'[s] = IF s = to THEN active[s] + 1
                                     ELSE IF s = from THEN active[s] - 1 ELSE active[s]

\* No job is counted for another step.
Stays == active' = active /\ past' = past /\ \A k \in Jobs : Counted(k)' = Counted(k)

\* If the counters can be trusted after a moveTo, nobody was failing the job.
LEMMA MoveToTrusted ==
  ASSUME TypeOK, NEW j \in Jobs, NEW to, MoveTo(j, to), Trusted'
  PROVE  /\ failing[j] = 0 /\ \A k \in Jobs : past[k] \subseteq past'[k]
         /\ step[j] = "JSTATE_ERR" => "revived" \in past'[j]
  <1>1. "miscounted" \notin past'[j]
    BY DEF Trusted
  <1>2. failing[j] = 0
    BY <1>1 DEF MoveTo, TypeOK
  <1>3. \A k \in Jobs : past[k] \subseteq past'[k]
    BY DEF MoveTo, TypeOK
  <1>4. step[j] = "JSTATE_ERR" => "revived" \in past'[j]
    BY DEF MoveTo, TypeOK
  <1> QED BY <1>2, <1>3, <1>4

\* The half of moveTo that counts, by the only thread that moves the job.
LEMMA MoveToMoves ==
  ASSUME TypeOK, NEW j \in Jobs, NEW to \in Steps, MoveTo(j, to), step[j] # to, Trusted',
         UNCHANGED failing, \A k \in Jobs \ {j} : Counted(k)' = Counted(k)
  PROVE  Moves(j, step[j], to)
  <1>1. Counted(j) = step[j] /\ Counted(j)' = to
    <2>1. to # "no"
      BY DEF Steps, Limited
    <2>2. failing[j] = 0
      BY MoveToTrusted
    <2> QED BY <2>1, <2>2 DEF MoveTo, Counted, TypeOK
  <1>2. \A s \in Limited : active'[s] = IF s = to THEN active[s] + 1
                                        ELSE IF s = step[j] THEN active[s] - 1 ELSE active[s]
    BY DEF MoveTo, Recount, TypeOK, Steps
  <1> QED BY <1>1, <1>2, MoveToTrusted DEF Moves

\* A job goes to a step whose limit the prepare threads do not guard, or from
\* PREPROCESS to QUEUED, or to QUEUED although it had failed.
Leaves ==
  \E j \in Jobs, from, to \in Steps :
    /\ Moves(j, from, to)
    /\ to \notin LocalSteps \cup {"RUNNING"}
    /\ to = "QUEUED" => from = "PREPROCESS" \/ "revived" \in past'[j]

\* A step of one job needs to be looked at for that job only.
LEMMA OthersKeep ==
  ASSUME JobsInv, NEW j \in Jobs, \A k \in Jobs \ {j} : Same(k), JobInv(j)', AgentInv(j)'
  PROVE  /\ JobsInv' /\ \A k \in Jobs \ {j} : Counted(k)' = Counted(k)
         /\ \A k \in Jobs \ {j} : past'[k] = past[k]
  BY SameKeeps DEF JobsInv

\* No thread has a job of which nothing is known yet, or which is gone.
LEMMA NobodyHas ==
  ASSUME TypeOK, NEW j \in Jobs, JobInv(j), AgentInv(j), step[j] \in {"NONE", "GONE"}
  PROVE  /\ moving[j] = "no" /\ failing[j] = 0 /\ ~dying[j] /\ ~listed[j] /\ Counted(j) = step[j]
         /\ local.job # j /\ worker # j /\ \A t \in PrepThreads : remote[t] # j
  <1>1. moving[j] = "no" /\ failing[j] = 0 /\ ~dying[j] /\ ~listed[j]
    BY DEF JobInv
  <1>2. Counted(j) = step[j]
    BY <1>1 DEF Counted
  <1> QED BY <1>1, <1>2 DEF AgentInv, NextStep

\* A job that is submitted is nobody's yet.
LEMMA SubmitStep ==
  ASSUME TypeOK, JobsInv, NEW j \in Jobs, Submit(j) \/ SubmitChecked(j)
  PROVE  JobsInv' /\ Leaves /\ UNCHANGED <<local, remote>>
  <1> USE DEF Submit, SubmitChecked
  <1>1. \A k \in Jobs \ {j} : Same(k)
    BY DEF Same, TypeOK
  <1>2. /\ step[j] = "NONE" /\ moving[j] = "no" /\ failing[j] = 0 /\ task[j] = "none"
        /\ ~dying[j] /\ local.job # j /\ worker # j /\ \A t \in PrepThreads : remote[t] # j
    <2>1. JobInv(j) /\ AgentInv(j) /\ step[j] = "NONE"
      BY DEF JobsInv
    <2>2. task[j] = "none"
      BY <2>1, NobodyHas DEF JobInv, Own, Fits
    <2> QED BY <2>1, <2>2, NobodyHas
  <1>3. PICK to \in {"SUBMIT", "CHECKED"} : step' = [step EXCEPT ![j] = to] /\ (Submit(j) <=> to = "SUBMIT")
    OBVIOUS
  <1>4. Counted(j) = "NONE" /\ Counted(j)' = to /\ Own(j)' = to
    BY <1>2, <1>3 DEF Counted, Own, TypeOK
  <1>5. JobInv(j)' /\ AgentInv(j)'
    BY <1>2, <1>3, <1>4 DEF JobInv, AgentInv, Fits, TypeOK
  <1>6. JobsInv' /\ \A k \in Jobs \ {j} : Counted(k)' = Counted(k)
    BY <1>1, <1>5, OthersKeep
  <1>7. Moves(j, "NONE", to)
    BY <1>4, <1>6 DEF Moves, Recount, TypeOK, Limited, Steps
  <1>8. Leaves
    BY <1>7 DEF Leaves, Steps, Limited, LocalSteps
  <1> QED BY <1>6, <1>8

\* A move by the only thread that moves the job, to a step that is not guarded.
LEMMA UnguardedMove ==
  ASSUME TypeOK, JobsInv, NEW j \in Jobs, NEW to \in Steps, MoveTo(j, to), step[j] # to, Trusted',
         to \notin LocalSteps \cup {"RUNNING"}, to = "QUEUED" => step[j] \in {"PREPROCESS", "JSTATE_ERR"},
         UNCHANGED failing, \A k \in Jobs \ {j} : Same(k), JobInv(j)', AgentInv(j)'
  PROVE  JobsInv' /\ Leaves
  <1>1. JobsInv' /\ \A k \in Jobs \ {j} : Counted(k)' = Counted(k)
    BY OthersKeep
  <1>2. Moves(j, step[j], to)
    BY <1>1, MoveToMoves
  <1>3. to = "QUEUED" => step[j] = "PREPROCESS" \/ "revived" \in past'[j]
    BY MoveToTrusted
  <1> QED BY <1>1, <1>2, <1>3 DEF Leaves, TypeOK

\* A job with a task that ends in a move is nobody else's, and its step, when it is
\* stored, is that of the task, or it has failed.
LEMMA TaskStep ==
  ASSUME NEW j \in Jobs, JobInv(j), AgentInv(j), moving[j] = "no", task[j] # "none"
  PROVE  /\ Own(j) = step[j] /\ Fits(step[j], task[j])
         /\ local.job # j /\ worker # j /\ \A t \in PrepThreads : remote[t] # j
  BY DEF JobInv, AgentInv, Own

\* What is left of JobInv and AgentInv when a task ends in a move.
LEMMA TaskEnds ==
  ASSUME TypeOK, NEW j \in Jobs, NEW to \in Steps \ {"NONE", "GONE", "CHECKING", "RUNNING"}, JobInv(j), AgentInv(j),
         MoveTo(j, to), task[j] # "none", step[j] \notin {"NONE", "GONE"}, task' = [task EXCEPT ![j] = "none"], Trusted',
         UNCHANGED <<step, listed, failing, dying, local, remote, worker>>
  PROVE  JobInv(j)' /\ AgentInv(j)' /\ \A k \in Jobs \ {j} : Same(k)
  <1>1. moving[j] = "no" /\ failing[j] = 0 /\ local.job # j /\ worker # j /\ \A t \in PrepThreads : remote[t] # j
    BY MoveToTrusted, TaskStep DEF MoveTo
  <1>2. moving'[j] = to /\ task'[j] = "none" /\ to # "no"
    BY DEF MoveTo, TypeOK, Steps, Limited
  <1>3. Own(j)' = to
    BY <1>2 DEF Own
  <1>4. JobInv(j)'
    BY <1>1, <1>2, <1>3 DEF JobInv, Fits
  <1>5. AgentInv(j)'
    BY <1>1 DEF AgentInv
  <1>6. \A k \in Jobs \ {j} : Same(k)
    BY DEF MoveTo, Same, TypeOK
  <1> QED BY <1>4, <1>5, <1>6

\* The threads of check, of the images, of the patches and of the written objects end
\* with a move.
LEMMA TaskMoveStep ==
  ASSUME TypeOK, JobsInv, Trusted', NEW j \in Jobs, CheckDone(j) \/ Loaded(j) \/ Written(j) \/ PatchesDone(j)
  PROVE  JobsInv' /\ Leaves /\ UNCHANGED <<local, remote>>
  <1>1. PICK to \in {"CHECKED", "ERR", "QUEUED", "COMPLETED", "DONE"} :
          MoveTo(j, to) /\ (to = "QUEUED" => task[j] = "load")
    BY DEF CheckDone, Loaded, Written, PatchesDone
  <1>2. /\ task[j] \in {"check", "load", "last", "patches"} /\ task' = [task EXCEPT ![j] = "none"]
        /\ UNCHANGED <<step, listed, failing, dying, local, remote, worker>>
    BY DEF CheckDone, Loaded, Written, PatchesDone
  <1>3. JobInv(j) /\ AgentInv(j) /\ moving[j] = "no"
    BY <1>1 DEF JobsInv, MoveTo
  <1>4. /\ step[j] \in {"CHECKING", "PREPROCESS", "WRITING", "RUNNING", "JSTATE_ERR"}
        /\ task[j] = "load" => step[j] \in {"PREPROCESS", "JSTATE_ERR"}
    <2>1. Fits(step[j], task[j])
      BY <1>2, <1>3, TaskStep
    <2> QED BY <1>2, <2>1 DEF Fits
  <1>5. to \in Steps \ {"NONE", "GONE", "CHECKING", "RUNNING"} /\ to \notin LocalSteps \cup {"RUNNING"}
    BY DEF Steps, Limited, LocalSteps
  <1>6. JobInv(j)' /\ AgentInv(j)' /\ \A k \in Jobs \ {j} : Same(k)
    BY <1>1, <1>2, <1>3, <1>4, <1>5, TaskEnds
  <1>7. JobsInv' /\ Leaves
    BY <1>1, <1>2, <1>4, <1>5, <1>6, UnguardedMove
  <1> QED BY <1>2, <1>7

\* The worker moves the job out of VERIFY or POSTPROCESS, or it has failed.
LEMMA RunStep ==
  ASSUME TypeOK, JobsInv, Trusted', NEW j \in Jobs, (RunThrows(j) /\ step[j] # "PREPROCESS") \/ RunOther(j)
  PROVE  JobsInv' /\ Leaves /\ UNCHANGED <<local, remote>>
  <1>1. JobInv(j) /\ AgentInv(j) /\ worker = j /\ step[j] # "PREPROCESS"
    BY DEF JobsInv, RunThrows, RunOther
  <1>2. /\ step[j] \in {"VERIFY", "POSTPROCESS", "JSTATE_ERR"} /\ moving[j] = "no" /\ task[j] = "none"
        /\ ~dying[j] /\ local.job # j /\ \A t \in PrepThreads : remote[t] # j
    BY <1>1 DEF AgentInv
  <1>3. PICK to \in {"VERIFIED", "WRITING", "ERR"} :
          /\ MoveTo(j, to)
          /\ task'[j] = "none" \/ (to = "WRITING" /\ task'[j] = "write")
    BY <1>2 DEF RunThrows, RunOther, TypeOK
  <1>4. \A k \in Jobs \ {j} : Same(k)
    BY <1>3, <1>2, JobStepsAssumption DEF RunThrows, RunOther, MoveTo, Same, TypeOK
  <1>5. moving'[j] = to /\ Own(j)' = to /\ failing[j] = 0
    BY <1>3, MoveToTrusted DEF MoveTo, TypeOK, Own
  <1>6. UNCHANGED <<step, listed, failing, dying, local, remote>> /\ worker' # j
    BY JobStepsAssumption DEF RunThrows, RunOther
  <1>7. JobInv(j)'
    BY <1>1, <1>2, <1>3, <1>5, <1>6 DEF JobInv, Fits
  <1>8. AgentInv(j)'
    BY <1>2, <1>6 DEF AgentInv
  <1>9. to \in Steps /\ to \notin LocalSteps \cup {"RUNNING", "QUEUED"}
    BY DEF Steps, Limited, LocalSteps
  <1> QED BY <1>2, <1>3, <1>4, <1>6, <1>7, <1>8, <1>9, UnguardedMove

\* An operator, or the only unreadable image, gives the slot of the job back, once.
LEMMA MoveToErrStep ==
  ASSUME TypeOK, JobsInv, Trusted', NEW j \in Jobs, LoadFails(j) \/ Fail(j), step[j] # "JSTATE_ERR"
  PROVE  JobsInv' /\ Leaves /\ UNCHANGED <<local, remote>>
  <1>1. JobInv(j) /\ AgentInv(j) /\ MoveToErr(j)
    BY DEF JobsInv, LoadFails, Fail
  <1>2. moving[j] = "no" /\ failing[j] = 0 /\ failing'[j] = 1 /\ past' = past
    <2>1. "miscounted" \notin past'[j]
      BY DEF Trusted
    <2>2. moving[j] = "no" /\ failing[j] = 0
      BY <1>1, <2>1 DEF MoveToErr, TypeOK
    <2> QED BY <1>1, <2>2 DEF MoveToErr, TypeOK
  <1>3. /\ UNCHANGED <<step, listed, moving, dying, local, remote, worker>>
        /\ \/ task' = task /\ listed[j]
           \/ task[j] \in {"load", "broken", "stalled"} /\ task' = [task EXCEPT ![j] = "broken"]
    BY DEF LoadFails, Fail
  <1>4. Counted(j) = step[j] /\ Own(j) = step[j] /\ Own(j)' = step[j] /\ Counted(j)' = "JSTATE_ERR"
    BY <1>2, <1>3 DEF Counted, Own
  <1>5. \A k \in Jobs \ {j} : Same(k)
    BY <1>1, <1>2, <1>3 DEF MoveToErr, Same, TypeOK
  <1>6. Fits(step[j], task'[j]) /\ step[j] \notin {"NONE", "GONE"}
    <2>1. CASE task' = task /\ listed[j]
      BY <2>1, <1>1, <1>4 DEF JobInv
    <2>2. CASE task[j] \in {"load", "broken", "stalled"} /\ task' = [task EXCEPT ![j] = "broken"]
      BY <2>2, <1>1, <1>4 DEF JobInv, Fits, TypeOK
    <2> QED BY <1>3, <2>1, <2>2
  <1>7. JobInv(j)'
    BY <1>1, <1>2, <1>3, <1>4, <1>6 DEF JobInv
  <1>8. AgentInv(j)'
    <2>1. task'[j] = task[j] \/ task[j] \in {"load", "broken", "stalled"}
      BY <1>3
    <2> QED BY <1>1, <1>3, <1>4, <2>1 DEF AgentInv
  <1>9. JobsInv' /\ \A k \in Jobs \ {j} : Counted(k)' = Counted(k)
    BY <1>5, <1>7, <1>8, OthersKeep
  <1>10. Moves(j, step[j], "JSTATE_ERR")
    BY <1>1, <1>2, <1>4, <1>9 DEF MoveToErr, Moves, Recount, TypeOK, Limited, Steps
  <1>11. Leaves
    BY <1>10 DEF Leaves, Steps, Limited, LocalSteps, TypeOK
  <1> QED BY <1>3, <1>9, <1>11

\* The destructor gives back the slot of the step the job is in.
LEMMA DestroyedStep ==
  ASSUME TypeOK, JobsInv, NEW j \in Jobs, Destroyed(j)
  PROVE  JobsInv' /\ Leaves /\ UNCHANGED <<local, remote>>
  <1>1. JobInv(j) /\ AgentInv(j) /\ dying[j] /\ moving[j] = "no" /\ failing[j] = 0
    BY DEF JobsInv, Destroyed
  <1>2. /\ step[j] \notin {"NONE", "GONE"} /\ ~listed[j] /\ Counted(j) = step[j]
        /\ local.job # j /\ worker # j /\ \A t \in PrepThreads : remote[t] # j
    BY <1>1 DEF JobInv, AgentInv, Counted
  <1>3. \A k \in Jobs \ {j} : Same(k)
    BY DEF Destroyed, Same, TypeOK
  <1>4. /\ step'[j] = "GONE" /\ Counted(j)' = "GONE" /\ Own(j)' = "GONE"
        /\ task'[j] \in {"wip", "spawned", "none"} /\ ~dying'[j]
    BY <1>1 DEF Destroyed, Counted, Own, TypeOK
  <1>5. JobInv(j)' /\ AgentInv(j)'
    BY <1>1, <1>2, <1>4 DEF Destroyed, JobInv, AgentInv, Fits
  <1>6. JobsInv' /\ \A k \in Jobs \ {j} : Counted(k)' = Counted(k)
    BY <1>3, <1>5, OthersKeep
  <1>7. \A s \in Limited : active'[s] = IF s = step[j] THEN active[s] - 1 ELSE active[s]
    BY <1>2 DEF Destroyed, Recount, TypeOK, Steps, Limited
  <1>8. Moves(j, step[j], "GONE")
    BY <1>2, <1>4, <1>6, <1>7 DEF Moves, Limited, Destroyed
  <1>9. Leaves
    BY <1>8 DEF Leaves, LocalSteps, Steps, TypeOK
  <1> QED BY <1>6, <1>9 DEF Destroyed

\* Steps that do not count.
LEMMA QuietStep ==
  ASSUME TypeOK, JobsInv, NEW j \in Jobs,
         \/ StoreStep(j) \/ StoreErr(j) \/ CheckBegins(j) \/ WorkerTakes(j) \/ RunPreProcess(j)
         \/ (RunThrows(j) /\ step[j] = "PREPROCESS") \/ (LoadFails(j) /\ step[j] = "JSTATE_ERR")
         \/ TaskThrows(j) \/ LastObject(j) \/ Cleanup(j) \/ Delete(j) \/ Destroy(j)
  PROVE  JobsInv' /\ Stays /\ UNCHANGED <<local, remote>>
  <1> USE JobStepsAssumption
  <1>1. JobInv(j) /\ AgentInv(j)
    BY DEF JobsInv
  <1>2. UNCHANGED <<active, past, local, remote>>
    BY DEF StoreStep, StoreErr, CheckBegins, WorkerTakes, RunPreProcess, RunThrows, TaskThrows, LastObject,
           LoadFails, MoveToErr, Cleanup, Delete, Destroy
  <1>3. (\A k \in Jobs \ {j} : Same(k)) /\ JobInv(j)' /\ AgentInv(j)' /\ Counted(j)' = Counted(j)
    <2>1. CASE StoreStep(j)
      <3>1. /\ failing[j] = 0 /\ moving'[j] = "no" /\ step'[j] = moving[j] /\ Counted(j)' = Counted(j)
            /\ Own(j)' = Own(j)
        BY <1>1, <2>1 DEF StoreStep, JobInv, Counted, Own, TypeOK
      <3>2. JobInv(j)'
        BY <1>1, <2>1, <3>1 DEF StoreStep, JobInv
      <3>3. AgentInv(j)'
        BY <1>1, <2>1 DEF StoreStep, AgentInv
      <3>4. \A k \in Jobs \ {j} : Same(k)
        BY <2>1 DEF StoreStep, Same, TypeOK
      <3> QED BY <3>1, <3>2, <3>3, <3>4
    <2>2. CASE StoreErr(j)
      <3>1. /\ moving[j] = "no" /\ failing[j] = 1 /\ Counted(j) = "JSTATE_ERR" /\ step[j] \notin {"NONE", "GONE"}
            /\ step'[j] = "JSTATE_ERR" /\ failing'[j] = 0 /\ Counted(j)' = Counted(j) /\ Own(j)' = "JSTATE_ERR"
        BY <1>1, <2>2 DEF StoreErr, JobInv, Counted, Own, TypeOK
      <3>2. JobInv(j)'
        BY <1>1, <2>2, <3>1 DEF StoreErr, JobInv, Fits
      <3>3. AgentInv(j)'
        BY <1>1, <2>2, <3>1 DEF StoreErr, AgentInv
      <3>4. \A k \in Jobs \ {j} : Same(k)
        BY <2>2 DEF StoreErr, Same, TypeOK
      <3> QED BY <3>1, <3>2, <3>3, <3>4
    <2>3. CASE CheckBegins(j) \/ TaskThrows(j) \/ LastObject(j) \/ (LoadFails(j) /\ step[j] = "JSTATE_ERR")
      <3>1. /\ moving[j] = "no" /\ task[j] # "none"
            /\ UNCHANGED <<step, moving, failing, dying, listed, local, remote, worker>>
        BY <1>1, <2>3 DEF CheckBegins, TaskThrows, LastObject, LoadFails, MoveToErr, JobInv
      <3>2. Counted(j)' = Counted(j) /\ Own(j)' = Own(j) /\ Own(j) = step[j] /\ moving[j] = "no"
        BY <3>1 DEF Counted, Own
      <3>3. Fits(step[j], task'[j])
        BY <1>1, <2>3, <3>1, <3>2 DEF CheckBegins, Exists, TaskThrows, LastObject, LoadFails, JobInv, Fits, TypeOK
      <3>4. task'[j] = "broken" => Counted(j) = "JSTATE_ERR"
        BY <2>3, <3>2 DEF CheckBegins, TaskThrows, LastObject, LoadFails, Counted, TypeOK
      <3>5. JobInv(j)'
        BY <1>1, <3>1, <3>2, <3>3, <3>4 DEF JobInv
      <3>6. AgentInv(j)'
        BY <1>1, <2>3, <3>1, <3>2, TaskStep DEF AgentInv
      <3>7. \A k \in Jobs \ {j} : Same(k)
        BY <2>3, <3>1, <1>2 DEF CheckBegins, TaskThrows, LastObject, LoadFails, Same, TypeOK
      <3> QED BY <3>2, <3>5, <3>6, <3>7
    <2>4. CASE WorkerTakes(j)
      <3>1. /\ step[j] \in {"PREPROCESS", "VERIFY", "POSTPROCESS", "GONE", "JSTATE_ERR"} /\ moving[j] = "no"
            /\ local.job # j /\ \A t \in PrepThreads : remote[t] # j
        <4>1. moving[j] = "no" /\ task[j] = "wip"
          BY <2>4 DEF WorkerTakes
        <4> QED BY <1>1, <4>1, TaskStep DEF Fits
      <3>2. /\ Counted(j)' = Counted(j) /\ task'[j] = "none" /\ Own(j)' = step[j]
            /\ UNCHANGED <<step, listed, moving, failing, dying>>
        BY <2>4, <3>1 DEF WorkerTakes, Counted, Own, TypeOK
      <3>3. JobInv(j)'
        BY <1>1, <3>1, <3>2 DEF JobInv, Fits
      <3>4. AgentInv(j)'
        BY <1>1, <2>4, <3>1, <3>2 DEF WorkerTakes, AgentInv, Exists
      <3>5. \A k \in Jobs \ {j} : Same(k)
        BY <2>4 DEF WorkerTakes, Same, TypeOK
      <3> QED BY <3>2, <3>3, <3>4, <3>5
    <2>5. CASE RunPreProcess(j)
      <3>1. /\ moving[j] = "no" /\ step[j] = "PREPROCESS" /\ local.job # j /\ \A t \in PrepThreads : remote[t] # j
        BY <1>1, <2>5 DEF RunPreProcess, AgentInv
      <3>2. Counted(j)' = Counted(j) /\ Own(j)' = "PREPROCESS" /\ task'[j] = "load" /\ worker' # j
        BY <2>5, <3>1 DEF RunPreProcess, Counted, Own, TypeOK
      <3>3. JobInv(j)' /\ AgentInv(j)'
        BY <1>1, <2>5, <3>1, <3>2 DEF RunPreProcess, JobInv, AgentInv, Fits
      <3>4. \A k \in Jobs \ {j} : Same(k)
        BY <2>5 DEF RunPreProcess, Same, TypeOK
      <3> QED BY <3>2, <3>3, <3>4
    <2>6. CASE RunThrows(j) /\ step[j] = "PREPROCESS"
      <3>1. Counted(j)' = Counted(j) /\ Own(j)' = Own(j) /\ worker' # j
        BY <2>6 DEF RunThrows, Counted, Own
      <3>2. JobInv(j)' /\ AgentInv(j)'
        BY <1>1, <2>6, <3>1 DEF RunThrows, JobInv, AgentInv
      <3>3. \A k \in Jobs \ {j} : Same(k)
        BY <2>6 DEF RunThrows, Same, TypeOK
      <3> QED BY <3>1, <3>2, <3>3
    <2>7. CASE Cleanup(j) \/ Delete(j)
      <3>1. Counted(j)' = Counted(j) /\ Own(j)' = Own(j) /\ ~listed'[j]
        BY <2>7 DEF Cleanup, Delete, Counted, Own, TypeOK
      <3>2. JobInv(j)' /\ AgentInv(j)'
        BY <1>1, <2>7, <3>1 DEF Cleanup, Delete, JobInv, AgentInv
      <3>3. \A k \in Jobs \ {j} : Same(k)
        BY <2>7 DEF Cleanup, Delete, Same, TypeOK
      <3> QED BY <3>1, <3>2, <3>3
    <2>8. CASE Destroy(j)
      <3>1. Counted(j)' = Counted(j) /\ Own(j)' = Own(j)
        BY <2>8 DEF Destroy, Counted, Own
      <3>2. JobInv(j)' /\ AgentInv(j)'
        BY <1>1, <2>8, <3>1 DEF Destroy, Exists, JobInv, AgentInv
      <3>3. \A k \in Jobs \ {j} : Same(k)
        BY <2>8 DEF Destroy, Same, TypeOK
      <3> QED BY <3>1, <3>2, <3>3
    <2> QED BY <2>1, <2>2, <2>3, <2>4, <2>5, <2>6, <2>7, <2>8
  <1>4. JobsInv' /\ \A k \in Jobs \ {j} : Counted(k)' = Counted(k)
    BY <1>3, OthersKeep
  <1> QED BY <1>2, <1>3, <1>4 DEF Stays

-----------------------------------------------------------------------------
(* The steps that prepare threads take                                     *)

\* The local thread finds a job that no other thread is at.
LEMMA LocalGetWorkStep ==
  ASSUME TypeOK, JobsInv, NEW j \in Jobs, LocalGetWork(j)
  PROVE  JobsInv' /\ Stays /\ UNCHANGED remote
  <1>1. JobInv(j) /\ AgentInv(j) /\ moving[j] = "no" /\ step[j] \in DOMAIN NextStep /\ listed[j]
    BY DEF JobsInv, LocalGetWork
  <1>2. task[j] = "none" /\ ~dying[j] /\ worker # j /\ \A t \in PrepThreads : remote[t] # j
    BY <1>1 DEF JobInv, AgentInv, Own, Fits, NextStep
  <1>3. \A k \in Jobs \ {j} : Same(k)
    BY DEF LocalGetWork, Same, TypeOK
  <1>4. Counted(j)' = Counted(j) /\ Own(j)' = Own(j)
    BY DEF LocalGetWork, Counted, Own
  <1>5. JobInv(j)'
    BY <1>1, <1>4 DEF LocalGetWork, JobInv
  <1>6. AgentInv(j)'
    BY <1>1, <1>2, <1>4, NextStepType DEF LocalGetWork, AgentInv
  <1>7. JobsInv' /\ \A k \in Jobs \ {j} : Counted(k)' = Counted(k)
    BY <1>3, <1>5, <1>6, OthersKeep
  <1> QED BY <1>4, <1>7 DEF Stays, LocalGetWork

\* What LocalStart begins is what LocalGetWork has found, unless the job has failed: then
\* it is revived, or not checked.
LEMMA LocalStartStep ==
  ASSUME TypeOK, JobsInv, Trusted', NEW j \in Jobs, LocalStart(j)
  PROVE  /\ JobsInv' /\ local.job = j /\ local.to \in LocalSteps /\ local' = NoLocal /\ UNCHANGED remote
         /\ Stays \/ (Moves(j, step[j], local.to) /\ step[j] \in DOMAIN NextStep \cup {"JSTATE_ERR"})
  <1>1. JobInv(j) /\ AgentInv(j) /\ local.job = j
    BY DEF JobsInv, LocalStart
  <1>2. /\ moving[j] = "no" /\ task[j] = "none" /\ ~dying[j] /\ worker # j /\ local.to \in LocalSteps
        /\ \A t \in PrepThreads : remote[t] # j
    BY <1>1 DEF AgentInv
  <1>3. UNCHANGED <<step, listed, failing, dying, remote, worker>> /\ local' = NoLocal /\ local'.job # j
    BY JobStepsAssumption DEF LocalStart, NoLocal
  <1>4. AgentInv(j)'
    BY <1>2, <1>3 DEF AgentInv
  <1>5. local.to \in Steps \ {"no"}
    BY <1>2 DEF LocalSteps, Steps, Limited
  <1>6. CASE UNCHANGED <<active, moving, task, past>>
    <2>1. Counted(j)' = Counted(j) /\ Own(j)' = Own(j)
      BY <1>3, <1>6 DEF Counted, Own
    <2>2. JobInv(j)'
      BY <1>1, <1>3, <1>6, <2>1 DEF JobInv
    <2>3. \A k \in Jobs \ {j} : Same(k)
      BY <1>1, <1>3, <1>6, JobStepsAssumption DEF Same, NoLocal
    <2>4. JobsInv' /\ \A k \in Jobs \ {j} : Counted(k)' = Counted(k)
      BY <2>2, <2>3, <1>4, OthersKeep
    <2> QED BY <2>1, <2>4, <1>1, <1>2, <1>3, <1>6 DEF Stays
  <1>7. CASE /\ local.to = "CHECKING" => step[j] = "SUBMIT"
             /\ MoveTo(j, local.to)
             /\ task' = [task EXCEPT ![j] = IF local.to = "CHECKING" THEN "spawned" ELSE "wip"]
    <2>1. failing[j] = 0
      BY <1>7, MoveToTrusted
    <2>2. Counted(j) = step[j]
      BY <1>2, <2>1 DEF Counted
    <2>3. step[j] \in DOMAIN NextStep \cup {"JSTATE_ERR"}
      BY <1>1, <2>2 DEF AgentInv
    <2>4. step[j] \notin LocalSteps \cup {"NONE", "GONE"}
      BY <2>3 DEF NextStep, LocalSteps
    <2>5. \A k \in Jobs \ {j} : Same(k)
      BY <1>1, <1>3, <1>7, JobStepsAssumption DEF MoveTo, Same, TypeOK, NoLocal
    <2>6. /\ moving'[j] = local.to /\ Own(j)' = local.to
          /\ task'[j] = IF local.to = "CHECKING" THEN "spawned" ELSE "wip"
      BY <1>5, <1>7 DEF MoveTo, TypeOK, Own
    <2>7. Fits(local.to, task'[j])
      BY <1>2, <2>6 DEF Fits, LocalSteps
    <2>8. JobInv(j)'
      BY <1>1, <1>2, <1>3, <2>1, <2>4, <2>6, <2>7 DEF JobInv, LocalSteps
    <2>9. JobsInv' /\ \A k \in Jobs \ {j} : Counted(k)' = Counted(k)
      BY <2>5, <2>8, <1>4, OthersKeep
    <2>10. Moves(j, step[j], local.to)
      <3>1. PICK to \in Steps : to = local.to
        BY <1>5
      <3>2. MoveTo(j, to) /\ step[j] # to /\ UNCHANGED failing
        BY <3>1, <1>2, <1>3, <1>7, <2>4
      <3>3. Moves(j, step[j], to)
        BY <3>2, <2>9, MoveToMoves
      <3> QED BY <3>1, <3>3
    <2> QED BY <2>3, <2>9, <2>10, <1>1, <1>2, <1>3
  <1> QED BY <1>6, <1>7 DEF LocalStart

\* A remote thread finds a job that no other thread is at.
LEMMA RemoteGetWorkStep ==
  ASSUME TypeOK, JobsInv, NEW t \in PrepThreads, NEW j \in Jobs, RemoteGetWork(t, j)
  PROVE  JobsInv' /\ Stays /\ UNCHANGED local
  <1>1. JobInv(j) /\ AgentInv(j) /\ moving[j] = "no" /\ step[j] = "QUEUED" /\ listed[j]
    BY DEF JobsInv, RemoteGetWork
  <1>2. ~dying[j] /\ local.job # j /\ worker # j /\ task[j] = "none" /\ \A u \in PrepThreads : remote[u] # j
    BY <1>1 DEF JobInv, Own, Fits, AgentInv, RemoteGetWork, NextStep
  <1>3. \A k \in Jobs \ {j} : Same(k)
    BY DEF RemoteGetWork, Same, TypeOK
  <1>4. Counted(j)' = Counted(j) /\ Own(j)' = Own(j)
    BY DEF RemoteGetWork, Counted, Own
  <1>5. \A u \in PrepThreads : remote'[u] = j => u = t
    BY <1>2 DEF RemoteGetWork, TypeOK
  <1>6. JobInv(j)'
    BY <1>1, <1>4 DEF RemoteGetWork, JobInv
  <1>7. AgentInv(j)'
    BY <1>1, <1>2, <1>4, <1>5 DEF RemoteGetWork, AgentInv
  <1>8. JobsInv' /\ \A k \in Jobs \ {j} : Counted(k)' = Counted(k)
    BY <1>3, <1>6, <1>7, OthersKeep
  <1> QED BY <1>4, <1>8 DEF Stays, RemoteGetWork

\* A remote thread moves the job it has found to RUNNING, also when it has failed.
LEMMA RemoteStartStep ==
  ASSUME TypeOK, JobsInv, Trusted', NEW t \in PrepThreads, RemoteStart(t)
  PROVE  /\ JobsInv' /\ UNCHANGED local
         /\ \E j \in Jobs, from \in {"QUEUED", "JSTATE_ERR"} : j = remote[t] /\ Moves(j, from, "RUNNING")
  <1>1. PICK j \in Jobs : j = remote[t] /\ MoveTo(j, "RUNNING") /\ task' = [task EXCEPT ![j] = "patches"]
    BY DEF RemoteStart, TypeOK
  <1>2. JobInv(j) /\ AgentInv(j)
    BY <1>1 DEF JobsInv
  <1>3. /\ moving[j] = "no" /\ step[j] \in {"QUEUED", "JSTATE_ERR"} /\ ~dying[j]
        /\ local.job # j /\ worker # j
        /\ \A u \in PrepThreads : remote[u] = j => u = t
    BY <1>1, <1>2 DEF AgentInv
  <1>4. failing[j] = 0
    BY <1>1, MoveToTrusted
  <1>5. remote' = [remote EXCEPT ![t] = None] /\ UNCHANGED <<step, listed, failing, dying, local, worker>>
    BY DEF RemoteStart
  <1>6. \A k \in Jobs \ {j} : Same(k)
    BY <1>1, <1>5, JobStepsAssumption DEF MoveTo, Same, TypeOK
  <1>7. moving'[j] = "RUNNING" /\ Own(j)' = "RUNNING" /\ task'[j] = "patches"
    BY <1>1 DEF MoveTo, TypeOK, Own
  <1>8. JobInv(j)'
    BY <1>2, <1>3, <1>4, <1>5, <1>7 DEF JobInv, Fits
  <1>9. \A u \in PrepThreads : remote'[u] # j
    BY <1>1, <1>3, <1>5, JobStepsAssumption DEF TypeOK
  <1>10. AgentInv(j)'
    BY <1>3, <1>5, <1>9 DEF AgentInv
  <1>11. JobsInv' /\ \A k \in Jobs \ {j} : Counted(k)' = Counted(k)
    BY <1>1, <1>6, <1>8, <1>10, OthersKeep
  <1>12. Moves(j, step[j], "RUNNING")
    BY <1>1, <1>3, <1>5, <1>11, MoveToMoves DEF Steps, Limited
  <1> QED BY <1>1, <1>3, <1>5, <1>11, <1>12

-----------------------------------------------------------------------------
(* Counting                                                                *)

\* The jobs in a step can be counted.
LEMMA CountedFinite ==
  ASSUME NEW s
  PROVE  /\ IsFiniteSet(CountedIn(s)) /\ Cardinality(CountedIn(s)) \in Nat
         /\ Cardinality(CountedIn(s)') \in Nat
  <1>1. CountedIn(s) \subseteq Jobs /\ CountedIn(s)' \subseteq Jobs
    BY DEF CountedIn
  <1> QED BY <1>1, JobStepsAssumption, FS_Subset, FS_CardinalityType

\* So can those in PREPROCESS and QUEUED.
LEMMA AheadFinite == IsFiniteSet(Ahead) /\ Cardinality(Ahead) \in Nat /\ Cardinality(Ahead') \in Nat
  <1>1. Ahead \subseteq Jobs /\ Ahead' \subseteq Jobs
    BY DEF Ahead, CountedIn
  <1> QED BY <1>1, JobStepsAssumption, FS_Subset, FS_CardinalityType

\* And the remote threads with a job.
LEMMA BusyFinite == IsFiniteSet(Busy) /\ Cardinality(Busy) \in Nat /\ Cardinality(PrepThreads) \in Nat
  <1>1. Busy \subseteq PrepThreads
    BY DEF Busy
  <1> QED BY <1>1, JobStepsAssumption, FS_Subset, FS_CardinalityType

\* A move takes the job out of one set and puts it into another.
LEMMA MoveSets ==
  ASSUME NEW j \in Jobs, NEW from, NEW to, Moves(j, from, to)
  PROVE  /\ j \in CountedIn(from) /\ j \notin CountedIn(to)
         /\ CountedIn(from)' = CountedIn(from) \ {j}
         /\ CountedIn(to)' = CountedIn(to) \cup {j}
         /\ \A s : s # from /\ s # to => CountedIn(s)' = CountedIn(s)
  BY DEF Moves, CountedIn

\* A move changes two numbers by one.
LEMMA MoveCounts ==
  ASSUME NEW j \in Jobs, NEW from, NEW to, Moves(j, from, to)
  PROVE  /\ Cardinality(CountedIn(from)') = Cardinality(CountedIn(from)) - 1
         /\ Cardinality(CountedIn(to)') = Cardinality(CountedIn(to)) + 1
         /\ \A s : s # from /\ s # to => Cardinality(CountedIn(s)') = Cardinality(CountedIn(s))
  <1>1. Cardinality(CountedIn(from)') = Cardinality(CountedIn(from)) - 1
    BY MoveSets, CountedFinite, FS_RemoveElement
  <1>2. Cardinality(CountedIn(to)') = Cardinality(CountedIn(to)) + 1
    BY MoveSets, CountedFinite, FS_AddElement
  <1> QED BY <1>1, <1>2, MoveSets

\* A move changes the counters as it changes the numbers.
LEMMA MoveKeepsSlots ==
  ASSUME TypeOK, Slots, NEW j \in Jobs, NEW from, NEW to, Moves(j, from, to)
  PROVE  Slots'
  <1> SUFFICES ASSUME NEW s \in Limited PROVE active'[s] = Cardinality(CountedIn(s)')
    BY DEF Slots
  <1>1. active[s] = Cardinality(CountedIn(s))
    BY DEF Slots
  <1>2. from # to /\ active'[s] = IF s = to THEN active[s] + 1 ELSE IF s = from THEN active[s] - 1 ELSE active[s]
    BY DEF Moves
  <1> QED BY <1>1, <1>2, MoveCounts

\* A step that moves no job keeps counters and numbers.
LEMMA StayKeepsSlots ==
  ASSUME Slots, Stays
  PROVE  Slots'
  BY DEF Slots, Stays, CountedIn

-----------------------------------------------------------------------------
(* The limits                                                              *)

\* Limits are at least 1.
LEMMA MaxType == \A s \in Limited : Max[s] \in Nat /\ Max[s] >= 1
  BY JobStepsAssumption

\* The steps of LimitInv are limited.
LEMMA LimitedSteps == LocalSteps \subseteq Limited /\ "QUEUED" \in Limited /\ "RUNNING" \in Limited
  BY DEF LocalSteps, Limited

\* A job that does not enter PREPROCESS or QUEUED from elsewhere leaves no more ahead.
LEMMA AheadShrinks ==
  ASSUME NEW j \in Jobs, NEW from, NEW to, Moves(j, from, to),
         to # "PREPROCESS", to = "QUEUED" => from = "PREPROCESS" \/ "revived" \in past'[j]
  PROVE  Cardinality(Ahead') <= Cardinality(Ahead)
  <1>1. Ahead' \subseteq Ahead
    BY MoveSets DEF Ahead, Moves, CountedIn
  <1> QED BY <1>1, AheadFinite, FS_Subset

\* A job that enters PREPROCESS is at most one more ahead.
LEMMA AheadGrows ==
  ASSUME NEW j \in Jobs, NEW from, Moves(j, from, "PREPROCESS"), from # "QUEUED"
  PROVE  Cardinality(Ahead') <= Cardinality(Ahead) + 1
  <1>1. Ahead' \subseteq Ahead \cup {j}
    BY MoveSets DEF Ahead, Moves, CountedIn
  <1>2. j \notin Ahead
    BY DEF Ahead, Moves, CountedIn
  <1>3. IsFiniteSet(Ahead \cup {j}) /\ Cardinality(Ahead \cup {j}) = Cardinality(Ahead) + 1
    BY <1>2, AheadFinite, FS_AddElement
  <1> QED BY <1>1, <1>3, AheadFinite, FS_Subset

\* A step that moves no job and tests no limit keeps LimitInv.
LEMMA StayKeepsLimits ==
  ASSUME LimitInv, Stays, UNCHANGED <<local, remote>>
  PROVE  LimitInv'
  <1>1. \A s : CountedIn(s)' = CountedIn(s)
    BY DEF Stays, CountedIn
  <1>2. Ahead' = Ahead /\ Busy' = Busy
    BY <1>1 DEF Ahead, Busy, Stays
  <1> QED BY <1>1, <1>2 DEF LimitInv

\* So does one that moves a job to a step that is not guarded.
LEMMA LeaveKeepsLimits ==
  ASSUME TypeOK, LimitInv, JobsInv, Leaves, UNCHANGED <<local, remote>>
  PROVE  LimitInv'
  <1>1. PICK j \in Jobs, from \in Steps, to \in Steps :
          /\ Moves(j, from, to)
          /\ to \notin LocalSteps \cup {"RUNNING"}
          /\ to = "QUEUED" => from = "PREPROCESS" \/ "revived" \in past'[j]
    BY DEF Leaves
  <1>2. \A s \in LocalSteps \cup {"RUNNING"} : Cardinality(CountedIn(s)') <= Cardinality(CountedIn(s))
    BY <1>1, MoveCounts, CountedFinite
  <1>3. Cardinality(Ahead') <= Cardinality(Ahead)
    BY <1>1, AheadShrinks DEF LocalSteps
  <1>4. Busy' = Busy
    BY DEF Busy
  <1>5. local.job # None => local.to \in LocalSteps
    <2>1. local.job \in Jobs \cup {None}
      BY DEF TypeOK
    <2> QED BY <2>1 DEF JobsInv, AgentInv
  <1>6. /\ \A s : Cardinality(CountedIn(s)) \in Nat /\ Cardinality(CountedIn(s)') \in Nat
        /\ Cardinality(Ahead) \in Nat /\ Cardinality(Ahead') \in Nat
    BY CountedFinite, AheadFinite
  <1>7. "PREPROCESS" \in LocalSteps
    BY DEF LocalSteps
  <1>8. Max["QUEUED"] \in Nat /\ Max["RUNNING"] \in Nat /\ \A s \in LocalSteps : Max[s] \in Nat
    BY MaxType, LimitedSteps
  <1>9. \A s \in LocalSteps : Cardinality(CountedIn(s)') <= Max[s]
    BY <1>2, <1>6, <1>8 DEF LimitInv
  <1>10. local.job # None => Cardinality(CountedIn(local.to)') < Max[local.to]
    BY <1>2, <1>5, <1>6, <1>8 DEF LimitInv
  <1>11. Cardinality(Ahead') <= Max["QUEUED"] + Max["PREPROCESS"] - 1
    BY <1>3, <1>6, <1>7, <1>8 DEF LimitInv
  <1>12. local.job # None /\ local.to = "PREPROCESS"
           => Cardinality(Ahead') <= Max["QUEUED"] + Max["PREPROCESS"] - 2
    BY <1>3, <1>6, <1>7, <1>8 DEF LimitInv
  <1>13. Cardinality(CountedIn("RUNNING")') + Cardinality(Busy')
           <= Max["RUNNING"] + Cardinality(PrepThreads) - 1
    <2>1. Cardinality(CountedIn("RUNNING")') <= Cardinality(CountedIn("RUNNING"))
      BY <1>2
    <2> QED BY <2>1, <1>4, <1>6, <1>8, BusyFinite DEF LimitInv
  <1> QED
    BY <1>9, <1>10, <1>11, <1>12, <1>13 DEF LimitInv

\* A limit that was tested under the lock leaves room for the job.
LEMMA LocalGetWorkLimits ==
  ASSUME TypeOK, Slots, LimitInv, NEW j \in Jobs, LocalGetWork(j), Stays
  PROVE  LimitInv'
  <1>1. PICK to \in LocalSteps :
          /\ local' = [job |-> j, to |-> to] /\ Free(to)
          /\ to = "PREPROCESS" => Free("QUEUED")
    BY NextStepType DEF LocalGetWork, NextStep, LocalSteps
  <1>2. /\ \A s : CountedIn(s)' = CountedIn(s)
        /\ Ahead' = Ahead /\ Busy' = Busy
    BY DEF Stays, CountedIn, Ahead, Busy, LocalGetWork
  <1>3. Cardinality(CountedIn(to)) < Max[to]
    BY <1>1, LimitedSteps DEF Free, Slots
  <1>4. ASSUME to = "PREPROCESS"
        PROVE  Cardinality(Ahead) <= Max["QUEUED"] + Max["PREPROCESS"] - 2
    <2>1. Cardinality(CountedIn("QUEUED")) < Max["QUEUED"]
      BY <1>1, <1>4, LimitedSteps DEF Free, Slots
    <2>2. Cardinality(Ahead) <= Cardinality(CountedIn("PREPROCESS")) + Cardinality(CountedIn("QUEUED"))
      <3> DEFINE Both == CountedIn("PREPROCESS") \cup CountedIn("QUEUED")
                 Shared == CountedIn("PREPROCESS") \cap CountedIn("QUEUED")
      <3>1. IsFiniteSet(Shared) /\ IsFiniteSet(Both)
        BY CountedFinite, FS_Subset, FS_Union
      <3>2. Cardinality(Shared) \in Nat /\ Cardinality(Both) \in Nat
        BY <3>1, FS_CardinalityType
      <3>3. Cardinality(Both) = Cardinality(CountedIn("PREPROCESS")) + Cardinality(CountedIn("QUEUED"))
                                 - Cardinality(Shared)
        BY CountedFinite, FS_Union
      <3>4. Cardinality(CountedIn("PREPROCESS")) \in Nat /\ Cardinality(CountedIn("QUEUED")) \in Nat
        BY CountedFinite
      <3>5. Ahead \subseteq Both
        BY DEF Ahead
      <3>6. Cardinality(Ahead) <= Cardinality(Both)
        BY <3>1, <3>5, FS_Subset
      <3> HIDE DEF Both, Shared
      <3> QED BY <3>2, <3>3, <3>4, <3>6, AheadFinite
    <2>3. Max["QUEUED"] \in Nat /\ Max["PREPROCESS"] \in Nat
      BY MaxType, LimitedSteps, <1>4
    <2>4. Cardinality(CountedIn("PREPROCESS")) \in Nat /\ Cardinality(CountedIn("QUEUED")) \in Nat
      BY CountedFinite
    <2> QED BY <2>1, <2>2, <2>3, <2>4, <1>3, <1>4, AheadFinite
  <1>5. local'.to = to
    BY <1>1
  <1> QED BY <1>2, <1>3, <1>4, <1>5 DEF LimitInv

\* The room is still there when the job is counted: no other thread fills these steps.
LEMMA LocalStartLimits ==
  ASSUME TypeOK, LimitInv, NEW j \in Jobs, NEW from, Moves(j, from, local.to), local.job = j,
         local.to \in LocalSteps, from \in DOMAIN NextStep \cup {"JSTATE_ERR"}, local' = NoLocal, UNCHANGED remote
  PROVE  LimitInv'
  <1>1. PICK to \in LocalSteps : to = local.to
    OBVIOUS
  <1>2. Moves(j, from, to) /\ local.job # None
    BY <1>1, JobStepsAssumption
  <1>3. Busy' = Busy /\ local'.job = None
    BY DEF Busy, NoLocal
  <1>4. /\ \A s : Cardinality(CountedIn(s)) \in Nat
        /\ Cardinality(Ahead) \in Nat /\ Cardinality(Ahead') \in Nat
    BY CountedFinite, AheadFinite
  <1>5. Max["QUEUED"] \in Nat /\ Max["PREPROCESS"] \in Nat /\ Max["RUNNING"] \in Nat
        /\ \A s \in LocalSteps : Max[s] \in Nat
    BY MaxType, LimitedSteps DEF LocalSteps
  <1>6. from \notin LocalSteps \cup {"RUNNING", "QUEUED"}
    BY DEF NextStep, LocalSteps
  <1>7. \A s \in LocalSteps : Cardinality(CountedIn(s)') <= Max[s]
    <2>1. Cardinality(CountedIn(to)') = Cardinality(CountedIn(to)) + 1
      BY <1>2, MoveCounts
    <2>2. Cardinality(CountedIn(to)) < Max[to]
      BY <1>1, <1>2 DEF LimitInv
    <2>3. \A s \in LocalSteps : s # to => Cardinality(CountedIn(s)') = Cardinality(CountedIn(s))
      BY <1>2, <1>6, MoveCounts
    <2> QED BY <2>1, <2>2, <2>3, <1>4, <1>5 DEF LimitInv
  <1>8. Cardinality(Ahead') <= Max["QUEUED"] + Max["PREPROCESS"] - 1
    <2>1. CASE to = "PREPROCESS"
      <3>1. Cardinality(Ahead') <= Cardinality(Ahead) + 1
        BY <2>1, <1>2, <1>6, AheadGrows
      <3>2. Cardinality(Ahead) <= Max["QUEUED"] + Max["PREPROCESS"] - 2
        BY <2>1, <1>1, <1>2 DEF LimitInv
      <3> QED BY <3>1, <3>2, <1>4, <1>5
    <2>2. CASE to # "PREPROCESS"
      <3>1. Cardinality(Ahead') <= Cardinality(Ahead)
        BY <2>2, <1>1, <1>2, AheadShrinks DEF LocalSteps
      <3> QED BY <3>1, <1>4, <1>5 DEF LimitInv
    <2> QED BY <2>1, <2>2
  <1>9. Cardinality(CountedIn("RUNNING")') = Cardinality(CountedIn("RUNNING"))
    BY <1>1, <1>2, <1>6, MoveCounts DEF LocalSteps
  <1> QED BY <1>3, <1>7, <1>8, <1>9 DEF LimitInv

\* A local thread that does not check a failed job has nothing at the door any more.
LEMMA LocalDropLimits ==
  ASSUME LimitInv, Stays, local' = NoLocal, UNCHANGED remote
  PROVE  LimitInv'
  <1>1. \A s : CountedIn(s)' = CountedIn(s)
    BY DEF Stays, CountedIn
  <1>2. Ahead' = Ahead /\ Busy' = Busy /\ local'.job = None
    BY <1>1 DEF Ahead, Busy, Stays, NoLocal
  <1> QED BY <1>1, <1>2 DEF LimitInv

\* A remote thread that passes the test is one more busy thread, with a job below the limit.
LEMMA RemoteGetWorkLimits ==
  ASSUME TypeOK, Slots, LimitInv, NEW t \in PrepThreads, NEW j \in Jobs, RemoteGetWork(t, j), Stays
  PROVE  LimitInv'
  <1>1. /\ \A s : CountedIn(s)' = CountedIn(s)
        /\ Ahead' = Ahead /\ local' = local
    BY DEF Stays, CountedIn, Ahead, RemoteGetWork
  <1>2. t \notin Busy /\ Busy' = Busy \cup {t} /\ Busy \subseteq PrepThreads \ {t}
    BY JobStepsAssumption DEF RemoteGetWork, Busy, TypeOK
  <1>3. Cardinality(Busy') = Cardinality(Busy) + 1
    BY <1>2, BusyFinite, FS_AddElement
  <1>4. Cardinality(Busy) <= Cardinality(PrepThreads) - 1
    <2>1. IsFiniteSet(PrepThreads \ {t}) /\ Cardinality(PrepThreads \ {t}) = Cardinality(PrepThreads) - 1
      BY JobStepsAssumption, FS_RemoveElement
    <2> QED BY <2>1, <1>2, FS_Subset
  <1>5. Cardinality(CountedIn("RUNNING")) < Max["RUNNING"]
    BY LimitedSteps DEF RemoteGetWork, Free, Slots
  <1>6. Cardinality(CountedIn("RUNNING")) \in Nat /\ Max["RUNNING"] \in Nat
    BY CountedFinite, MaxType, LimitedSteps
  <1>7. Cardinality(CountedIn("RUNNING")) + Cardinality(Busy') <= Max["RUNNING"] + Cardinality(PrepThreads) - 1
    BY <1>3, <1>4, <1>5, <1>6, BusyFinite
  <1> QED BY <1>1, <1>7 DEF LimitInv

\* A running job more is a busy thread less.
LEMMA RemoteStartLimits ==
  ASSUME TypeOK, LimitInv, JobsInv, NEW t \in PrepThreads, RemoteStart(t),
         NEW j \in Jobs, NEW from \in {"QUEUED", "JSTATE_ERR"}, Moves(j, from, "RUNNING")
  PROVE  LimitInv'
  <1>1. t \in Busy /\ Busy' = Busy \ {t} /\ local' = local
    BY JobStepsAssumption DEF RemoteStart, Busy, TypeOK
  <1>2. Cardinality(Busy') = Cardinality(Busy) - 1
    BY <1>1, BusyFinite, FS_RemoveElement
  <1>3. Cardinality(CountedIn("RUNNING")') = Cardinality(CountedIn("RUNNING")) + 1
    BY MoveCounts
  <1>4. Cardinality(CountedIn("RUNNING")) \in Nat /\ Cardinality(Ahead) \in Nat /\ Cardinality(Ahead') \in Nat
    BY CountedFinite, AheadFinite
  <1>5. Cardinality(CountedIn("RUNNING")') + Cardinality(Busy') <= Max["RUNNING"] + Cardinality(PrepThreads) - 1
    BY <1>2, <1>3, <1>4, BusyFinite DEF LimitInv
  <1>6. \A s \in LocalSteps : CountedIn(s)' = CountedIn(s)
    BY MoveSets DEF LocalSteps
  <1>7. Cardinality(Ahead') <= Cardinality(Ahead)
    BY AheadShrinks
  <1>8. local.job # None => local.to \in LocalSteps
    <2>1. local.job \in Jobs \cup {None}
      BY DEF TypeOK
    <2> QED BY <2>1 DEF JobsInv, AgentInv
  <1>9. Max["QUEUED"] \in Nat /\ Max["PREPROCESS"] \in Nat
    BY MaxType, LimitedSteps DEF LocalSteps
  <1>10. /\ Cardinality(Ahead') <= Max["QUEUED"] + Max["PREPROCESS"] - 1
         /\ local.job # None /\ local.to = "PREPROCESS"
              => Cardinality(Ahead') <= Max["QUEUED"] + Max["PREPROCESS"] - 2
    BY <1>4, <1>7, <1>9 DEF LimitInv
  <1>11. local.job # None => CountedIn(local.to)' = CountedIn(local.to)
    BY <1>1, <1>6, <1>8
  <1> QED BY <1>1, <1>5, <1>6, <1>10, <1>11 DEF LimitInv

-----------------------------------------------------------------------------
(* The invariant and its consequences                                      *)

\* The invariant holds at the start.
LEMMA IndInit == Init => IndInv
  <1> SUFFICES ASSUME Init PROVE IndInv
    OBVIOUS
  <1>1. \A j \in Jobs : Counted(j) = "NONE" /\ Own(j) = "NONE"
    BY DEF Init, Counted, Own
  <1>2. JobsInv
    BY <1>1, JobStepsAssumption DEF Init, JobsInv, JobInv, AgentInv, Fits, NoLocal
  <1>3. \A s \in Limited : CountedIn(s) = {}
    BY <1>1 DEF CountedIn, Limited
  <1>4. Slots
    BY <1>3, FS_EmptySet DEF Slots, Init, Steps
  <1>5. Ahead = {} /\ Busy = {} /\ local.job = None
    BY <1>3, LimitedSteps DEF Ahead, Busy, Init, NoLocal, LocalSteps
  <1>6. \A s \in Limited : Cardinality(CountedIn(s)) = 0
    BY <1>3, FS_EmptySet
  <1>7. Cardinality(Ahead) = 0 /\ Cardinality(Busy) = 0 /\ Cardinality(PrepThreads) \in Nat
    BY <1>5, FS_EmptySet, BusyFinite
  <1>8. "PREPROCESS" \in LocalSteps
    BY DEF LocalSteps
  <1>9. LimitInv
    BY <1>5, <1>6, <1>7, <1>8, MaxType, LimitedSteps DEF LimitInv
  <1> QED BY <1>2, <1>4, <1>9, TypeInit DEF IndInv

\* Counters that two threads have spoilt stay spoilt.
LEMMA TrustLost == TypeOK /\ [Next]_vars /\ Trusted' => Trusted
  <1> SUFFICES ASSUME TypeOK, [Next]_vars, Trusted', NEW k \in Jobs PROVE "miscounted" \notin past[k]
    BY DEF Trusted
  <1>1. "miscounted" \notin past'[k]
    BY DEF Trusted
  <1>2. ASSUME NEW j \in Jobs, NEW to, MoveTo(j, to) PROVE past[k] \subseteq past'[k]
    BY <1>2 DEF MoveTo, TypeOK
  <1>3. ASSUME NEW j \in Jobs, MoveToErr(j) PROVE past[k] \subseteq past'[k]
    BY <1>3 DEF MoveToErr, TypeOK
  <1>4. ASSUME NEW j \in Jobs, LateCheck(j) PROVE past[k] \subseteq past'[k]
    BY <1>4 DEF LateCheck, TypeOK
  <1>5. ASSUME NEW t \in PrepThreads, RemoteStart(t) PROVE past[k] \subseteq past'[k]
    <2>1. PICK j \in Jobs : MoveTo(j, "RUNNING")
      BY <1>5 DEF RemoteStart, TypeOK
    <2> QED BY <2>1, <1>2
  <1>6. ASSUME NEW j \in Jobs, LocalStart(j) \/ CheckDone(j) \/ RunThrows(j) \/ RunOther(j)
        PROVE past[k] \subseteq past'[k]
    <2>1. past' = past \/ \E to : MoveTo(j, to)
      BY <1>6 DEF LocalStart, CheckDone, RunThrows, RunOther
    <2> QED BY <2>1, <1>2
  <1>7. ASSUME NEW j \in Jobs, Loaded(j) \/ LoadFails(j) \/ Written(j) \/ PatchesDone(j) \/ Fail(j)
        PROVE past[k] \subseteq past'[k]
    <2>1. MoveToErr(j) \/ \E to : MoveTo(j, to)
      BY <1>7 DEF Loaded, LoadFails, Written, PatchesDone, Fail
    <2> QED BY <2>1, <1>2, <1>3
  <1>8. \/ past' = past
        \/ \E t \in PrepThreads : RemoteStart(t)
        \/ \E j \in Jobs : \/ LocalStart(j) \/ CheckDone(j) \/ RunThrows(j) \/ RunOther(j) \/ LateCheck(j)
                          \/ Loaded(j) \/ LoadFails(j) \/ Written(j) \/ PatchesDone(j) \/ Fail(j)
    BY DEF Next, vars, Submit, SubmitChecked, StoreStep, StoreErr, LocalGetWork, CheckBegins, WorkerTakes,
           RunPreProcess, TaskThrows, LastObject, Cleanup, Delete, Destroy, Destroyed, RemoteGetWork
  <1> QED BY <1>1, <1>4, <1>5, <1>6, <1>7, <1>8

\* Every step keeps the invariant, action by action.
LEMMA IndStep == IndInv /\ [Next]_vars => IndInv'
  <1> SUFFICES ASSUME IndInv, [Next]_vars PROVE IndInv'
    OBVIOUS
  <1>1. TypeOK /\ TypeOK'
    BY TypeStep DEF IndInv
  <1>2. SUFFICES ASSUME Trusted' PROVE JobsInv' /\ Slots' /\ LimitInv'
    BY <1>1 DEF IndInv
  <1>3. JobsInv /\ Slots /\ LimitInv
    BY <1>1, <1>2, TrustLost DEF IndInv
  <1>4. ASSUME JobsInv', Leaves, UNCHANGED <<local, remote>>
        PROVE  JobsInv' /\ Slots' /\ LimitInv'
    <2>1. Slots'
      BY <1>1, <1>3, <1>4, MoveKeepsSlots DEF Leaves
    <2> QED BY <2>1, <1>1, <1>3, <1>4, LeaveKeepsLimits
  <1>5. ASSUME JobsInv', Stays, UNCHANGED <<local, remote>>
        PROVE  JobsInv' /\ Slots' /\ LimitInv'
    BY <1>3, <1>5, StayKeepsSlots, StayKeepsLimits
  <1>6. ASSUME NEW j \in Jobs,
               \/ Submit(j) \/ SubmitChecked(j) \/ CheckDone(j) \/ Loaded(j)
               \/ ((LoadFails(j) \/ Fail(j)) /\ step[j] # "JSTATE_ERR")
               \/ Written(j) \/ PatchesDone(j) \/ Destroyed(j) \/ RunOther(j)
               \/ (RunThrows(j) /\ step[j] # "PREPROCESS")
        PROVE  JobsInv' /\ Slots' /\ LimitInv'
    <2>1. JobsInv' /\ Leaves /\ UNCHANGED <<local, remote>>
      BY <1>1, <1>2, <1>3, <1>6, SubmitStep, TaskMoveStep, MoveToErrStep, DestroyedStep, RunStep
    <2> QED BY <2>1, <1>4
  <1>7. ASSUME NEW j \in Jobs,
               \/ StoreStep(j) \/ StoreErr(j) \/ CheckBegins(j) \/ WorkerTakes(j) \/ RunPreProcess(j)
               \/ (RunThrows(j) /\ step[j] = "PREPROCESS") \/ (LoadFails(j) /\ step[j] = "JSTATE_ERR")
               \/ TaskThrows(j) \/ LastObject(j) \/ Cleanup(j) \/ Delete(j) \/ Destroy(j)
        PROVE  JobsInv' /\ Slots' /\ LimitInv'
    <2>1. JobsInv' /\ Stays /\ UNCHANGED <<local, remote>>
      BY <1>1, <1>3, <1>7, QuietStep
    <2> QED BY <2>1, <1>5
  <1>8. ASSUME NEW j \in Jobs, LocalGetWork(j) PROVE JobsInv' /\ Slots' /\ LimitInv'
    <2>1. JobsInv' /\ Stays
      BY <1>1, <1>3, <1>8, LocalGetWorkStep
    <2> QED BY <2>1, <1>1, <1>3, <1>8, StayKeepsSlots, LocalGetWorkLimits
  <1>9. ASSUME NEW j \in Jobs, LocalStart(j) PROVE JobsInv' /\ Slots' /\ LimitInv'
    <2>1. /\ JobsInv' /\ local.job = j /\ local.to \in LocalSteps /\ local' = NoLocal /\ UNCHANGED remote
          /\ Stays \/ (Moves(j, step[j], local.to) /\ step[j] \in DOMAIN NextStep \cup {"JSTATE_ERR"})
      BY <1>1, <1>2, <1>3, <1>9, LocalStartStep
    <2>2. CASE Stays
      BY <2>1, <2>2, <1>3, StayKeepsSlots, LocalDropLimits
    <2>3. CASE Moves(j, step[j], local.to) /\ step[j] \in DOMAIN NextStep \cup {"JSTATE_ERR"}
      <3>1. Slots'
        BY <2>3, <1>1, <1>3, MoveKeepsSlots
      <3>2. LimitInv'
        BY <2>1, <2>3, <1>1, <1>3, LocalStartLimits
      <3> QED BY <2>1, <3>1, <3>2
    <2> QED BY <2>1, <2>2, <2>3
  <1>10. ASSUME NEW t \in PrepThreads, NEW j \in Jobs, RemoteGetWork(t, j)
         PROVE  JobsInv' /\ Slots' /\ LimitInv'
    <2>1. JobsInv' /\ Stays
      BY <1>1, <1>3, <1>10, RemoteGetWorkStep
    <2> QED BY <2>1, <1>1, <1>3, <1>10, StayKeepsSlots, RemoteGetWorkLimits
  <1>11. ASSUME NEW t \in PrepThreads, RemoteStart(t) PROVE JobsInv' /\ Slots' /\ LimitInv'
    <2>1. /\ JobsInv' /\ UNCHANGED local
          /\ \E j \in Jobs, from \in {"QUEUED", "JSTATE_ERR"} : j = remote[t] /\ Moves(j, from, "RUNNING")
      BY <1>1, <1>2, <1>3, <1>11, RemoteStartStep
    <2>2. PICK j \in Jobs, from \in {"QUEUED", "JSTATE_ERR"} : j = remote[t] /\ Moves(j, from, "RUNNING")
      BY <2>1
    <2>3. Slots'
      BY <2>2, <1>1, <1>3, MoveKeepsSlots
    <2>4. LimitInv'
      BY <2>2, <1>1, <1>3, <1>11, RemoteStartLimits
    <2> QED BY <2>1, <2>3, <2>4
  <1>12. CASE UNCHANGED vars
    <2>1. \A k \in Jobs : Same(k)
      BY <1>12 DEF vars, Same
    <2>2. JobsInv' /\ \A k \in Jobs : Counted(k)' = Counted(k)
      BY <2>1, <1>3, SameKeeps DEF JobsInv
    <2>3. Stays /\ UNCHANGED <<local, remote>>
      BY <2>2, <1>12 DEF Stays, vars
    <2> QED BY <2>2, <2>3, <1>5
  <1>13. ASSUME NEW j \in Jobs, LateCheck(j) PROVE FALSE
    BY <1>1, <1>2, <1>13 DEF LateCheck, Trusted, TypeOK
  <1>14. ASSUME NEW j \in Jobs, Fail(j) PROVE step[j] # "JSTATE_ERR"
    BY <1>14 DEF Fail
  <1> QED
    BY <1>6, <1>7, <1>8, <1>9, <1>10, <1>11, <1>12, <1>13, <1>14 DEF Next

\* One thread at a time moves a job, what a thread has read before it released the lock is
\* still true when it counts or the job has failed, and the limits hold with the jobs that
\* are at the door: until a moveTo( JSTATE_ERR ) meets another move, with any operator,
\* any number of unreadable images and deletion at any moment.
THEOREM InductiveInvariant == Spec => []IndInv
  BY IndInit, IndStep, PTL DEF Spec

\* The counters of Job::counts are the numbers of jobs in the limited steps, until two
\* threads move one job at once or a check thread outlives its job.
THEOREM CountersAreExact == Spec => []SlotsExact
  <1>1. IndInv => SlotsExact
    BY DEF IndInv, SlotsExact, Slots
  <1> QED BY <1>1, InductiveInvariant, PTL

\* The limits that getWork tests hold as long as the counters are exact, up to one running
\* job for each further remote prepare thread, the jobs that are pre-processed when QUEUED
\* fills up, and jobs that are queued although they have failed.
THEOREM LimitsHold == Spec => []StepLimits
  <1>1. IndInv => StepLimits
    <2> SUFFICES ASSUME IndInv, Trusted
                 PROVE  /\ \A s \in LocalSteps : Cardinality(CountedIn(s)) <= Max[s]
                        /\ Cardinality(Ahead) <= Max["QUEUED"] + Max["PREPROCESS"] - 1
                        /\ Cardinality(CountedIn("RUNNING")) <= Max["RUNNING"] + Cardinality(PrepThreads) - 1
      BY DEF StepLimits, LocalSteps, Ahead
    <2>1. LimitInv
      BY DEF IndInv
    <2>2. Cardinality(CountedIn("RUNNING")) <= Max["RUNNING"] + Cardinality(PrepThreads) - 1
      <3>1. Cardinality(CountedIn("RUNNING")) \in Nat /\ Max["RUNNING"] \in Nat
        BY CountedFinite, MaxType, LimitedSteps
      <3> QED BY <2>1, <3>1, BusyFinite DEF LimitInv
    <2> QED BY <2>1, <2>2 DEF LimitInv
  <1> QED BY <1>1, InductiveInvariant, PTL

-----------------------------------------------------------------------------
(* The end of a job, with an operator and any number of unreadable images  *)

\* No thread is at a job whose destructor has begun, but those it waits for; and nothing
\* but a queued WIP, or a check thread without the lock, is left of one that is gone.
EndInv(j) ==
  /\ moving[j] \notin {"NONE", "GONE"}
  /\ dying[j] \/ step[j] = "GONE" =>
       /\ step[j] # "NONE" /\ ~listed[j] /\ local.job # j /\ worker # j
       /\ \A t \in PrepThreads : remote[t] # j
  /\ step[j] = "GONE" =>
       ~dying[j] /\ moving[j] = "no" /\ failing[j] = 0 /\ task[j] \in {"wip", "spawned", "none"}

EndsInv == TypeOK /\ local.to # "GONE" /\ (local.job # None => local.to # "NONE") /\ \A j \in Jobs : EndInv(j)

\* The step leaves what EndInv says of job k as it is, or a thread lets go of it.
Settled(k) ==
  /\ step'[k] = step[k] /\ moving'[k] = moving[k] /\ failing'[k] = failing[k]
  /\ task'[k] = task[k] /\ dying'[k] = dying[k] /\ (listed'[k] => listed[k])
  /\ local'.job # k \/ local'.job = local.job
  /\ worker' # k \/ worker' = worker
  /\ \A t \in PrepThreads : remote'[t] # k \/ remote'[t] = remote[t]

\* EndInv is kept by what does not concern the job.
LEMMA SettledKeeps ==
  ASSUME NEW k \in Jobs, EndInv(k), Settled(k)
  PROVE  EndInv(k)'
  BY DEF EndInv, Settled

\* Every step keeps EndsInv.
LEMMA EndStep == EndsInv /\ [Next]_vars => EndsInv'
  <1> SUFFICES ASSUME EndsInv, [Next]_vars PROVE EndsInv'
    OBVIOUS
  <1> USE JobStepsAssumption
  <1>1. TypeOK /\ TypeOK' /\ \A k \in Jobs : EndInv(k)
    BY TypeStep DEF EndsInv
  <1>2. local'.to # "GONE" /\ (local'.job # None => local'.to # "NONE")
    <2>1. CASE local' = local
      BY <2>1 DEF EndsInv
    <2>2. CASE local' = NoLocal
      BY <2>2 DEF NoLocal
    <2>3. ASSUME NEW j \in Jobs, LocalGetWork(j) PROVE local'.to \in LocalSteps
      BY <2>3, NextStepType DEF LocalGetWork
    <2>4. local' = local \/ local' = NoLocal \/ \E j \in Jobs : LocalGetWork(j)
      BY DEF Next, vars, Submit, SubmitChecked, StoreStep, StoreErr, LocalStart, CheckBegins, CheckDone, LateCheck,
             WorkerTakes, RunPreProcess, RunThrows, RunOther, Loaded, LoadFails, TaskThrows, LastObject, Written,
             PatchesDone, Cleanup, Delete, Destroy, Destroyed, Fail, RemoteStart, RemoteGetWork
    <2> QED BY <2>1, <2>2, <2>3, <2>4 DEF LocalSteps
  <1>3. ASSUME NEW j \in Jobs, \A k \in Jobs \ {j} : Settled(k), EndInv(j)'
        PROVE  \A k \in Jobs : EndInv(k)'
    BY <1>1, <1>3, SettledKeeps
  <1>4. ASSUME NEW j \in Jobs, Submit(j) \/ SubmitChecked(j) PROVE \A k \in Jobs : EndInv(k)'
    <2>1. \A k \in Jobs \ {j} : Settled(k)
      BY <1>1, <1>4 DEF Submit, SubmitChecked, Settled, TypeOK
    <2>2. EndInv(j)'
      BY <1>1, <1>4 DEF Submit, SubmitChecked, EndInv, TypeOK
    <2> QED BY <2>1, <2>2, <1>3
  <1>5. ASSUME NEW j \in Jobs, StoreStep(j) \/ StoreErr(j) PROVE \A k \in Jobs : EndInv(k)'
    <2>1. \A k \in Jobs \ {j} : Settled(k)
      BY <1>1, <1>5 DEF StoreStep, StoreErr, Settled, TypeOK
    <2>2. EndInv(j)'
      BY <1>1, <1>5 DEF StoreStep, StoreErr, EndInv, TypeOK
    <2> QED BY <2>1, <2>2, <1>3
  <1>6. ASSUME NEW j \in Jobs, LocalGetWork(j) PROVE \A k \in Jobs : EndInv(k)'
    <2>1. \A k \in Jobs \ {j} : Settled(k)
      BY <1>1, <1>6 DEF LocalGetWork, Settled, TypeOK
    <2>2. EndInv(j)'
      BY <1>1, <1>6 DEF LocalGetWork, EndInv, TypeOK
    <2> QED BY <2>1, <2>2, <1>3
  <1>7. ASSUME NEW j \in Jobs, LocalStart(j) PROVE \A k \in Jobs : EndInv(k)'
    <2>1. \A k \in Jobs \ {j} : Settled(k)
      BY <1>1, <1>7 DEF LocalStart, MoveTo, NoLocal, Settled, TypeOK
    <2>2. moving'[j] \notin {"NONE", "GONE"}
      BY <1>1, <1>7 DEF LocalStart, MoveTo, EndsInv, EndInv, TypeOK
    <2>3. EndInv(j)'
      BY <1>1, <1>7, <2>2 DEF LocalStart, EndInv, TypeOK
    <2> QED BY <2>1, <2>3, <1>3
  <1>8. ASSUME NEW j \in Jobs, CheckBegins(j) \/ LateCheck(j) \/ TaskThrows(j) \/ LastObject(j) \/ WorkerTakes(j) PROVE \A k \in Jobs : EndInv(k)'
    <2>1. \A k \in Jobs \ {j} : Settled(k)
      BY <1>1, <1>8 DEF CheckBegins, LateCheck, TaskThrows, LastObject, WorkerTakes, Settled, TypeOK
    <2>2. EndInv(j)'
      BY <1>1, <1>8 DEF CheckBegins, LateCheck, TaskThrows, LastObject, WorkerTakes, Exists, EndInv, TypeOK
    <2> QED BY <2>1, <2>2, <1>3
  <1>9. ASSUME NEW j \in Jobs, CheckDone(j) \/ Loaded(j) \/ Written(j) \/ PatchesDone(j)
        PROVE  \A k \in Jobs : EndInv(k)'
    <2>1. PICK to \in Steps \ {"NONE", "GONE"} : MoveTo(j, to)
      BY <1>9 DEF CheckDone, Loaded, Written, PatchesDone, Steps, Limited
    <2>2. \A k \in Jobs \ {j} : Settled(k)
      BY <1>1, <1>9, <2>1 DEF CheckDone, Loaded, Written, PatchesDone, MoveTo, Settled, TypeOK
    <2>3. task[j] \in {"check", "load", "last", "patches"} /\ UNCHANGED <<step, listed, failing, dying, local, remote, worker>>
      BY <1>9 DEF CheckDone, Loaded, Written, PatchesDone
    <2>4. EndInv(j)'
      BY <1>1, <2>1, <2>3 DEF MoveTo, EndInv, TypeOK
    <2> QED BY <2>2, <2>4, <1>3
  <1>10. ASSUME NEW j \in Jobs, RunPreProcess(j) \/ RunThrows(j) \/ RunOther(j) PROVE \A k \in Jobs : EndInv(k)'
    <2>1. worker = j /\ worker' = None /\ UNCHANGED <<step, listed, failing, dying, local, remote>>
      BY <1>10 DEF RunPreProcess, RunThrows, RunOther
    <2>2. \A k \in Jobs \ {j} : Settled(k)
      BY <1>1, <1>10 DEF RunPreProcess, RunThrows, RunOther, MoveTo, Settled, TypeOK
    <2>3. moving'[j] \notin {"NONE", "GONE"}
      BY <1>1, <1>10 DEF RunPreProcess, RunThrows, RunOther, MoveTo, EndInv, TypeOK
    <2>4. EndInv(j)'
      BY <1>1, <2>1, <2>3 DEF EndInv, TypeOK
    <2> QED BY <2>2, <2>4, <1>3
  <1>11. ASSUME NEW j \in Jobs, LoadFails(j) \/ Fail(j) PROVE \A k \in Jobs : EndInv(k)'
    <2>1. \A k \in Jobs \ {j} : Settled(k)
      BY <1>1, <1>11 DEF LoadFails, Fail, MoveToErr, Settled, TypeOK
    <2>2. EndInv(j)'
      BY <1>1, <1>11 DEF LoadFails, Fail, MoveToErr, EndInv, TypeOK
    <2> QED BY <2>1, <2>2, <1>3
  <1>12. ASSUME NEW j \in Jobs, Cleanup(j) \/ Delete(j) PROVE \A k \in Jobs : EndInv(k)'
    <2>1. \A k \in Jobs : Settled(k)
      BY <1>1, <1>12 DEF Cleanup, Delete, Settled, TypeOK
    <2> QED BY <1>1, <2>1, SettledKeeps
  <1>13. ASSUME NEW j \in Jobs, Destroy(j) \/ Destroyed(j) PROVE \A k \in Jobs : EndInv(k)'
    <2>1. \A k \in Jobs \ {j} : Settled(k)
      BY <1>1, <1>13 DEF Destroy, Destroyed, Settled, TypeOK
    <2>2. EndInv(j)'
      BY <1>1, <1>13 DEF Destroy, Destroyed, Exists, EndInv, TypeOK
    <2> QED BY <2>1, <2>2, <1>3
  <1>14. ASSUME NEW t \in PrepThreads, RemoteStart(t) PROVE \A k \in Jobs : EndInv(k)'
    <2>1. PICK j \in Jobs : j = remote[t]
      BY <1>1, <1>14 DEF RemoteStart, TypeOK
    <2>2. /\ MoveTo(j, "RUNNING") /\ task' = [task EXCEPT ![j] = "patches"] /\ remote' = [remote EXCEPT ![t] = None]
          /\ UNCHANGED <<step, listed, failing, dying, local, worker>>
      BY <1>14, <2>1 DEF RemoteStart
    <2>3. \A k \in Jobs \ {j} : Settled(k)
      BY <1>1, <2>2 DEF MoveTo, Settled, TypeOK
    <2>4. EndInv(j)'
      BY <1>1, <2>1, <2>2 DEF MoveTo, EndInv, TypeOK
    <2> QED BY <2>3, <2>4, <1>3
  <1>15. ASSUME NEW t \in PrepThreads, NEW j \in Jobs, RemoteGetWork(t, j) PROVE \A k \in Jobs : EndInv(k)'
    <2>1. \A k \in Jobs \ {j} : Settled(k)
      BY <1>1, <1>15 DEF RemoteGetWork, Settled, TypeOK
    <2>2. EndInv(j)'
      BY <1>1, <1>15 DEF RemoteGetWork, EndInv, TypeOK
    <2> QED BY <2>1, <2>2, <1>3
  <1>16. CASE UNCHANGED vars
    <2>1. \A k \in Jobs : Settled(k)
      BY <1>16 DEF vars, Settled
    <2> QED BY <1>1, <1>2, <2>1, SettledKeeps DEF EndsInv
  <1>17. \A k \in Jobs : EndInv(k)'
    BY <1>4, <1>5, <1>6, <1>7, <1>8, <1>9, <1>10, <1>11, <1>12, <1>13, <1>14, <1>15, <1>16 DEF Next, EndsInv
  <1> QED BY <1>1, <1>2, <1>17 DEF EndsInv

\* A destroyed job stays gone, no thread has it and no moveTo of any thread is under way
\* for it, but for the check thread of a job that was deleted before the thread had the
\* lock: with deletion at any moment, an operator's fail and unreadable images.
THEOREM DestroyedJobsStayGone == Spec => GoneForGood
  <1>1. Init => EndsInv
    BY TypeInit DEF Init, EndsInv, EndInv, NoLocal
  <1>2. ASSUME EndsInv, EndsInv', [Next]_vars, NEW j \in Jobs, step[j] = "GONE"
        PROVE  /\ step'[j] = "GONE" /\ moving'[j] = "no" /\ failing'[j] = 0
               /\ local'.job # j /\ worker' # j /\ \A t \in PrepThreads : remote'[t] # j
               /\ past'[j] # past[j] => task[j] = "spawned"
    <2>1. /\ TypeOK /\ moving[j] = "no" /\ failing[j] = 0 /\ task[j] \in {"wip", "spawned", "none"}
          /\ ~dying[j] /\ ~listed[j]
          /\ local.job # j /\ worker # j /\ \A t \in PrepThreads : remote[t] # j
      BY <1>2 DEF EndsInv, EndInv
    <2>2. step'[j] = "GONE"
      BY <1>2, <2>1 DEF Next, vars, Submit, SubmitChecked, StoreStep, StoreErr, LocalGetWork, LocalStart,
             CheckBegins, CheckDone, LateCheck, WorkerTakes, RunPreProcess, RunThrows, RunOther, Loaded, LoadFails,
             TaskThrows, LastObject, Written, PatchesDone, Cleanup, Delete, Destroy, Destroyed, Fail, RemoteStart, RemoteGetWork, TypeOK
    <2>3. ASSUME task[j] # "spawned" PROVE past'[j] = past[j]
      <3>1. ASSUME NEW k \in Jobs \ {j}, NEW to, MoveTo(k, to) PROVE past'[j] = past[j]
        BY <2>1, <3>1 DEF MoveTo, TypeOK
      <3>2. ASSUME NEW k \in Jobs \ {j}, MoveToErr(k) PROVE past'[j] = past[j]
        BY <2>1, <3>2 DEF MoveToErr, TypeOK
      <3>3. ASSUME NEW k \in Jobs, LateCheck(k) PROVE past'[j] = past[j]
        BY <2>1, <2>3, <3>3 DEF LateCheck, TypeOK
      <3>4. ASSUME NEW t \in PrepThreads, RemoteStart(t) PROVE past'[j] = past[j]
        <4>1. PICK k \in Jobs : k = remote[t] /\ MoveTo(k, "RUNNING")
          BY <2>1, <3>4 DEF RemoteStart, TypeOK
        <4> QED BY <4>1, <2>1, <3>1
      <3>5. ASSUME NEW k \in Jobs, LocalStart(k) \/ CheckDone(k) \/ RunThrows(k) \/ RunOther(k)
            PROVE  past'[j] = past[j]
        <4>1. k # j
          BY <2>1, <3>5 DEF LocalStart, CheckDone, RunThrows, RunOther
        <4>2. past' = past \/ \E to : MoveTo(k, to)
          BY <3>5 DEF LocalStart, CheckDone, RunThrows, RunOther
        <4> QED BY <4>1, <4>2, <3>1
      <3>6. ASSUME NEW k \in Jobs, Loaded(k) \/ LoadFails(k) \/ Written(k) \/ PatchesDone(k) \/ Fail(k)
            PROVE  past'[j] = past[j]
        <4>1. k # j
          BY <2>1, <3>6 DEF Loaded, LoadFails, Written, PatchesDone, Fail
        <4>2. MoveToErr(k) \/ \E to : MoveTo(k, to)
          BY <3>6 DEF Loaded, LoadFails, Written, PatchesDone, Fail
        <4> QED BY <4>1, <4>2, <3>1, <3>2
      <3>7. \/ past' = past
            \/ \E t \in PrepThreads : RemoteStart(t)
            \/ \E k \in Jobs : \/ LocalStart(k) \/ CheckDone(k) \/ RunThrows(k) \/ RunOther(k) \/ LateCheck(k)
                              \/ Loaded(k) \/ LoadFails(k) \/ Written(k) \/ PatchesDone(k) \/ Fail(k)
        BY <1>2 DEF Next, vars, Submit, SubmitChecked, StoreStep, StoreErr, LocalGetWork, CheckBegins, WorkerTakes,
               RunPreProcess, TaskThrows, LastObject, Cleanup, Delete, Destroy, Destroyed, RemoteGetWork
      <3> QED BY <3>3, <3>4, <3>5, <3>6, <3>7
    <2>4. EndInv(j)'
      BY <1>2 DEF EndsInv
    <2> QED BY <2>2, <2>3, <2>4 DEF EndInv
  <1>3. EndsInv /\ EndsInv' /\ [Next]_vars =>
          [\A j \in Jobs : step[j] = "GONE" =>
             /\ step'[j] = "GONE" /\ moving'[j] = "no" /\ failing'[j] = 0
             /\ local'.job # j /\ worker' # j /\ \A t \in PrepThreads : remote'[t] # j
             /\ past'[j] # past[j] => task[j] = "spawned"]_vars
    BY <1>2
  <1> QED BY <1>1, <1>3, EndStep, PTL DEF Spec, GoneForGood

====
