------------------------------ MODULE JobSteps ------------------------------
(***************************************************************************)
(* The life of jobs on the manager: src/src/lib/momfbd/momfbdjob.cpp       *)
(* (getWork, check, run, unloadCalib, writeOutput, mayBeDeleted, cleanup), *)
(* job.cpp (moveTo), channel.cpp (loadData) and daemon.cpp (addJobs,       *)
(* failJobs, removeJobs, cleanup, prepareLocalWork, prepareRemoteWork).    *)
(*                                                                         *)
(* Job::counts limits how many jobs may be in a step.  The limit is tested *)
(* under the global lock, which is released before moveTo counts the job   *)
(* (again under the lock) and, after that, stores the new step.  Several   *)
(* threads do this at once: the local and the remote prepare threads,      *)
(* check threads, the worker, the handlers of progWatch, the job's own     *)
(* thread pool, and an operator. Only moveTo( JSTATE_ERR ) comes from      *)
(* threads that know nothing of the others.                                *)
(***************************************************************************)
EXTENDS Integers, FiniteSets

CONSTANTS
  Jobs,          \* Job objects
  None,          \* no job
  PrepThreads,   \* prepareRemoteWork threads that may run at the same time
  Max,           \* CountT::max of the limited steps
  ReadErrors,    \* TRUE: preProcess, writeOutput and the tasks they post may throw
  Files,         \* how many image files of a job may be unreadable
  Operator       \* TRUE: the operator may issue "fail"

Limited == {"CHECKING", "PREPROCESS", "QUEUED", "RUNNING", "VERIFY", "POSTPROCESS", "WRITING"}

\* failJobs and loadData pass JSTATE_ERR (128), a state and not a step, as the new
\* step.  "GONE": the object has been destroyed.
Steps == Limited \cup {"NONE", "SUBMIT", "CHECKED", "DONE", "VERIFIED", "COMPLETED",
                       "ERR", "JSTATE_ERR", "GONE"}

ASSUME JobStepsAssumption ==
  /\ IsFiniteSet(Jobs) /\ IsFiniteSet(PrepThreads)
  /\ None \notin Jobs
  /\ Max \in [Limited -> Nat \ {0}]
  /\ Files \in Nat
  /\ ReadErrors \in BOOLEAN /\ Operator \in BOOLEAN

VARIABLES
  step,      \* info.step
  active,    \* counts[step].active
  listed,    \* the job is in Daemon::jobs
  moving,    \* the step a moveTo has counted the job for and not stored yet, or "no"
  failing,   \* moveTo( JSTATE_ERR ) calls that have counted the job and not stored it
  task,      \* what threads other than the worker's and the daemon's do for the job
  dying,     \* the destructor has stopped the job's thread pool and has its lock
  local,     \* the job the local prepare thread found below its limit, and its next step
  remote,    \* for each remote prepare thread, the job it found below the limit
  worker,    \* the job Worker::run is running
  past       \* history: what has happened to the job that its threads do not expect

vars == <<step, active, listed, moving, failing, task, dying, local, remote, worker, past>>

\* "miscounted": two moveTo have counted the job out of one step, or one has moved the
\* object after its end; "revived": a thread has moved it on although it had failed.
Mishaps == {"miscounted", "revived"}

\* "spawned", "check": the thread of check(), before and after it has the job's lock;
\* "wip": the job is in wip_localqueue; "load", "broken": images are loaded, one failed;
\* "stalled": images are loaded, but the count of one task is lost;
\* "patches": patches are out (module WorkDistribution); "write": objects are written;
\* "last": the handler that follows the last written object.
Tasks == {"none", "spawned", "check", "wip", "load", "broken", "stalled", "patches",
          "write", "last"}

NoLocal == [job |-> None, to |-> "NONE"]

TypeOK ==
  /\ step \in [Jobs -> Steps]
  /\ active \in [Steps -> Int]
  /\ listed \in [Jobs -> BOOLEAN]
  /\ moving \in [Jobs -> Steps \cup {"no"}]
  /\ failing \in [Jobs -> 0..(Files + 1)]
  /\ task \in [Jobs -> Tasks]
  /\ dying \in [Jobs -> BOOLEAN]
  /\ local \in [job : Jobs \cup {None}, to : Steps]
  /\ remote \in [PrepThreads -> Jobs \cup {None}]
  /\ worker \in Jobs \cup {None}
  /\ past \in [Jobs -> SUBSET Mishaps]

\* The jobs of one run of the daemon; none is submitted yet.  Job::Info starts in NONE.
Init ==
  /\ step = [j \in Jobs |-> "NONE"]
  /\ active = [s \in Steps |-> 0]
  /\ listed = [j \in Jobs |-> FALSE]
  /\ moving = [j \in Jobs |-> "no"]
  /\ failing = [j \in Jobs |-> 0]
  /\ task = [j \in Jobs |-> "none"]
  /\ dying = [j \in Jobs |-> FALSE]
  /\ local = NoLocal
  /\ remote = [t \in PrepThreads |-> None]
  /\ worker = None
  /\ past = [j \in Jobs |-> {}]
-----------------------------------------------------------------------------
(* Job::moveTo                                                             *)

\* Mutant of Recount: the step that is left is not counted down.
RecountOnlyUp(from, to) == active' = [active EXCEPT ![to] = @ + 1]

Recount(from, to) ==
  active' = IF from = to THEN active
            ELSE [active EXCEPT ![from] = @ - 1, ![to] = @ + 1]

\* The counts change under the global lock ...
MoveTo(j, to) ==
  /\ moving[j] = "no"
  /\ Recount(step[j], to)
  /\ moving' = [moving EXCEPT ![j] = to]
  /\ past' = [past EXCEPT ![j] = @ \cup (IF failing[j] > 0 THEN {"miscounted"} ELSE {})
                                  \cup (IF step[j] = "JSTATE_ERR" THEN {"revived"} ELSE {})]

\* ... and info.step after it is released.
StoreStep(j) ==
  /\ moving[j] # "no"
  /\ step' = [step EXCEPT ![j] = moving[j]]
  /\ moving' = [moving EXCEPT ![j] = "no"]
  /\ UNCHANGED <<active, listed, failing, task, dying, local, remote, worker, past>>

\* moveTo( JSTATE_ERR ), by a thread that knows nothing of other moves of the job.
MoveToErr(j) ==
  IF step[j] = "JSTATE_ERR" THEN UNCHANGED <<active, failing, past>>
  ELSE /\ Recount(step[j], "JSTATE_ERR")
       /\ failing' = [failing EXCEPT ![j] = @ + 1]
       /\ past' = [past EXCEPT ![j] = IF moving[j] # "no" \/ failing[j] > 0
                                      THEN @ \cup {"miscounted"} ELSE @]

StoreErr(j) ==
  /\ failing[j] > 0
  /\ step' = [step EXCEPT ![j] = "JSTATE_ERR"]
  /\ failing' = [failing EXCEPT ![j] = @ - 1]
  /\ UNCHANGED <<active, listed, moving, task, dying, local, remote, worker, past>>

Free(s) == s \notin Limited \/ active[s] < Max[s]
-----------------------------------------------------------------------------
(* Daemon::addJobs                                                         *)

\* Nobody sees the job before it is listed.
Submit(j) ==
  /\ step[j] = "NONE"
  /\ Recount("NONE", "SUBMIT")
  /\ step' = [step EXCEPT ![j] = "SUBMIT"]
  /\ listed' = [listed EXCEPT ![j] = TRUE]
  /\ UNCHANGED <<moving, failing, task, dying, local, remote, worker, past>>

\* A job that rdx_sub has checked arrives with the step CHECKED, which unpack
\* stores without counting it.
SubmitChecked(j) ==
  /\ step[j] = "NONE"
  /\ step' = [step EXCEPT ![j] = "CHECKED"]
  /\ listed' = [listed EXCEPT ![j] = TRUE]
  /\ UNCHANGED <<active, moving, failing, task, dying, local, remote, worker, past>>
-----------------------------------------------------------------------------
(* Local work: prepareLocalWork, the local branch of getWork, check, run   *)

NextStep == [SUBMIT |-> "CHECKING", CHECKED |-> "PREPROCESS", DONE |-> "VERIFY", VERIFIED |-> "POSTPROCESS"]

\* The object has been submitted and its destructor has not begun.
Exists(j) == step[j] \notin {"NONE", "GONE"} /\ ~dying[j]

\* Mutant of LocalGetWork: the limit of the next step is not tested.
LocalGetWorkUnlimited(j) ==
  /\ local = NoLocal /\ listed[j] /\ moving[j] = "no"
  /\ step[j] \in DOMAIN NextStep
  /\ step[j] = "CHECKED" => Free("QUEUED")
  /\ local' = [job |-> j, to |-> NextStep[step[j]]]
  /\ UNCHANGED <<step, active, listed, moving, failing, task, dying, remote, worker, past>>

\* The job may enter its next step: the limit is tested and the lock released.
LocalGetWork(j) ==
  /\ local = NoLocal /\ listed[j] /\ moving[j] = "no"
  /\ step[j] \in DOMAIN NextStep /\ Free(NextStep[step[j]])
  /\ step[j] = "CHECKED" => Free("QUEUED")
  /\ local' = [job |-> j, to |-> NextStep[step[j]]]
  /\ UNCHANGED <<step, active, listed, moving, failing, task, dying, remote, worker, past>>

\* A job to be checked gets a thread of its own (check() looks at the step again and
\* does nothing when it is not SUBMIT any more); any other one moves to the step
\* that follows the one read before the test, and goes to wip_localqueue.
LocalStart(j) ==
  /\ local.job = j
  /\ \/ /\ local.to = "CHECKING" /\ step[j] # "SUBMIT"
        /\ UNCHANGED <<active, moving, task, past>>
     \/ /\ local.to = "CHECKING" => step[j] = "SUBMIT"
        /\ MoveTo(j, local.to)
        /\ task' = [task EXCEPT ![j] = IF local.to = "CHECKING" THEN "spawned" ELSE "wip"]
  /\ local' = NoLocal
  /\ UNCHANGED <<step, listed, failing, dying, remote, worker>>

\* The thread of check() gets the lock of the job ...
CheckBegins(j) ==
  /\ task[j] = "spawned" /\ moving[j] = "no" /\ Exists(j)
  /\ task' = [task EXCEPT ![j] = "check"]
  /\ UNCHANGED <<step, active, listed, moving, failing, dying, local, remote, worker, past>>

\* ... and finds that configuration and data are good, or not.
CheckDone(j) ==
  /\ task[j] = "check"
  /\ \E to \in {"CHECKED", "ERR"} : MoveTo(j, to)
  /\ task' = [task EXCEPT ![j] = "none"]
  /\ UNCHANGED <<step, listed, failing, dying, local, remote, worker>>

\* The thread is detached and has a plain pointer.  If the job is deleted before the
\* thread has the lock, it uses an object that is gone: it may read any step there,
\* and count the job out of it.
LateCheck(j) ==
  /\ task[j] = "spawned" /\ step[j] = "GONE"
  /\ \E from \in Steps, to \in {"CHECKED", "ERR"} : Recount(from, to)
  /\ task' = [task EXCEPT ![j] = "none"]
  /\ past' = [past EXCEPT ![j] = @ \cup {"miscounted"}]
  /\ UNCHANGED <<step, listed, moving, failing, dying, local, remote, worker>>

\* Worker::getWork takes the job from wip_localqueue.  The WIP holds a weak pointer:
\* nothing is run for a job that is gone.
WorkerTakes(j) ==
  /\ worker = None /\ task[j] = "wip" /\ moving[j] = "no"
  /\ worker' = IF Exists(j) THEN j ELSE None
  /\ task' = [task EXCEPT ![j] = "none"]
  /\ UNCHANGED <<step, active, listed, moving, failing, dying, local, remote, past>>

\* MomfbdJob::run in PREPROCESS: images are loaded by the job's own threads.
RunPreProcess(j) ==
  /\ worker = j /\ step[j] = "PREPROCESS"
  /\ task' = [task EXCEPT ![j] = "load"]
  /\ worker' = None
  /\ UNCHANGED <<step, active, listed, moving, failing, dying, local, remote, past>>

\* preProcess throws (no image, different sizes): Worker::run logs and goes on.
\* writeOutput may throw as well, after it has moved the job to WRITING.
RunThrows(j) ==
  /\ ReadErrors /\ worker = j
  /\ \/ step[j] = "PREPROCESS" /\ UNCHANGED <<active, moving, past>>
     \/ step[j] = "POSTPROCESS" /\ MoveTo(j, "WRITING")
  /\ worker' = None
  /\ UNCHANGED <<step, listed, failing, task, dying, local, remote>>

\* run in VERIFY, in POSTPROCESS (writeOutput posts one task per object), and in a
\* step it does not know.
RunOther(j) ==
  /\ worker = j /\ step[j] # "PREPROCESS"
  /\ \/ step[j] = "VERIFY" /\ MoveTo(j, "VERIFIED") /\ UNCHANGED task
     \/ step[j] = "POSTPROCESS" /\ MoveTo(j, "WRITING") /\ task' = [task EXCEPT ![j] = "write"]
     \/ step[j] \notin {"VERIFY", "POSTPROCESS"} /\ MoveTo(j, "ERR") /\ UNCHANGED task
  /\ worker' = None
  /\ UNCHANGED <<step, listed, failing, dying, local, remote>>

\* Mutant of Loaded: the state of the job, JSTATE_IDLE, is passed as its step.
LoadedToState(j) ==
  /\ task[j] = "load"
  /\ \E to \in {"JSTATE_IDLE", "COMPLETED"} : MoveTo(j, to)
  /\ task' = [task EXCEPT ![j] = "none"]
  /\ UNCHANGED <<step, listed, failing, dying, local, remote, worker>>

\* The handler of progWatch after the last image: unloadCalib.  A job that only does
\* flat-fielding is complete.
Loaded(j) ==
  /\ task[j] = "load"
  /\ \E to \in {"QUEUED", "COMPLETED"} : MoveTo(j, to)
  /\ task' = [task EXCEPT ![j] = "none"]
  /\ UNCHANGED <<step, listed, failing, dying, local, remote, worker>>

\* An image cannot be read: its thread fails the job and clears progWatch, so that
\* the handler never comes.  The thread of another image may do the same.
LoadFails(j) ==
  /\ task[j] \in {"load", "broken", "stalled"} /\ failing[j] < Files
  /\ MoveToErr(j)
  /\ task' = [task EXCEPT ![j] = "broken"]
  /\ UNCHANGED <<step, listed, moving, dying, local, remote, worker>>

\* Job::threadLoop: initCache, or the task of an image or of an object, throws.  The
\* thread logs it and goes on, but progWatch misses a count: its handler never comes.
TaskThrows(j) ==
  /\ ReadErrors /\ moving[j] = "no"
  /\ \/ task[j] = "load" /\ task' = [task EXCEPT ![j] = "stalled"]
     \/ task[j] = "write" /\ task' = [task EXCEPT ![j] = "none"]
  /\ UNCHANGED <<step, active, listed, moving, failing, dying, local, remote, worker, past>>

\* The last object is written, and its thread is in the handler of progWatch, which
\* first waits for the lock of the job (clearPatches) ...
LastObject(j) ==
  /\ task[j] = "write" /\ moving[j] = "no"
  /\ task' = [task EXCEPT ![j] = "last"]
  /\ UNCHANGED <<step, active, listed, moving, failing, dying, local, remote, worker, past>>

\* ... and then completes the job.
Written(j) ==
  /\ task[j] = "last" /\ ~dying[j]
  /\ MoveTo(j, "COMPLETED")
  /\ task' = [task EXCEPT ![j] = "none"]
  /\ UNCHANGED <<step, listed, failing, dying, local, remote, worker>>
-----------------------------------------------------------------------------
(* Remote work: prepareRemoteWork, the remote branch of getWork            *)

\* A queued job may run: the limit is tested and the global lock released; the lock
\* of the job is kept, so no other thread is at the same job.
RemoteGetWork(t, j) ==
  /\ remote[t] = None /\ \A u \in PrepThreads : remote[u] # j
  /\ listed[j] /\ step[j] = "QUEUED" /\ moving[j] = "no" /\ Free("RUNNING")
  /\ remote' = [remote EXCEPT ![t] = j]
  /\ UNCHANGED <<step, active, listed, moving, failing, task, dying, local, worker, past>>

RemoteStart(t) ==
  LET j == remote[t] IN
  /\ j # None
  /\ MoveTo(j, "RUNNING")
  /\ task' = [task EXCEPT ![j] = "patches"]
  /\ remote' = [remote EXCEPT ![t] = None]
  /\ UNCHANGED <<step, listed, failing, dying, local, worker>>

\* The handler of progWatch after the last patch (module WorkDistribution).
PatchesDone(j) ==
  /\ task[j] = "patches" /\ Exists(j)
  /\ MoveTo(j, "DONE")
  /\ task' = [task EXCEPT ![j] = "none"]
  /\ UNCHANGED <<step, listed, failing, dying, local, remote, worker>>
-----------------------------------------------------------------------------
(* The end of a job: cleanup, removeJobs, ~MomfbdJob, failJobs             *)

\* Daemon::cleanup drops completed jobs from the list.
Cleanup(j) ==
  /\ listed[j] /\ step[j] = "COMPLETED"
  /\ listed' = [listed EXCEPT ![j] = FALSE]
  /\ UNCHANGED <<step, active, moving, failing, task, dying, local, remote, worker, past>>

MayBeDeleted(j) == step[j] \notin {"PREPROCESS", "POSTPROCESS"}

\* CMD_DEL_JOB.
Delete(j) ==
  /\ listed[j] /\ MayBeDeleted(j)
  /\ listed' = [listed EXCEPT ![j] = FALSE]
  /\ UNCHANGED <<step, active, moving, failing, task, dying, local, remote, worker, past>>

\* Mutant of Destroy: a thread that is still at the job does not keep it alive.
DestroyWhileHeld(j) ==
  /\ Exists(j) /\ ~listed[j]
  /\ task[j] # "check"
  /\ moving[j] = "no"
  /\ dying' = [dying EXCEPT ![j] = TRUE]
  /\ UNCHANGED <<step, active, listed, moving, failing, task, local, remote, worker, past>>

\* The last owner drops its pointer: local, worker and remote are owners, a check thread
\* is not.  The destructor takes the lock of the job, which a check that has begun
\* holds, and stops the job's threads.
Destroy(j) ==
  /\ Exists(j) /\ ~listed[j]
  /\ local.job # j /\ worker # j /\ \A t \in PrepThreads : remote[t] # j
  /\ task[j] # "check"
  /\ moving[j] = "no"
  /\ dying' = [dying EXCEPT ![j] = TRUE]
  /\ UNCHANGED <<step, active, listed, moving, failing, task, local, remote, worker, past>>

\* Mutant of Destroyed: the destructor leaves the job counted.
DestroyedStillCounted(j) ==
  /\ dying[j] /\ moving[j] = "no" /\ failing[j] = 0 /\ task[j] # "last"
  /\ step' = [step EXCEPT ![j] = "GONE"]
  /\ task' = [task EXCEPT ![j] = IF @ \in {"wip", "spawned"} THEN @ ELSE "none"]
  /\ dying' = [dying EXCEPT ![j] = FALSE]
  /\ UNCHANGED <<active, listed, moving, failing, local, remote, worker, past>>

\* It joins them (images and objects that were not begun are not begun any more) and
\* moves the job to NONE.  A queued WIP and a check thread without the lock are left.
Destroyed(j) ==
  /\ dying[j] /\ moving[j] = "no" /\ failing[j] = 0 /\ task[j] # "last"
  /\ Recount(step[j], "NONE")
  /\ step' = [step EXCEPT ![j] = "GONE"]
  /\ task' = [task EXCEPT ![j] = IF @ \in {"wip", "spawned"} THEN @ ELSE "none"]
  /\ dying' = [dying EXCEPT ![j] = FALSE]
  /\ UNCHANGED <<listed, moving, failing, local, remote, worker, past>>

\* failJobs, in the thread of the operator's connection.
Fail(j) ==
  /\ Operator /\ listed[j] /\ failing[j] = 0 /\ step[j] # "JSTATE_ERR"
  /\ MoveToErr(j)
  /\ UNCHANGED <<step, listed, moving, task, dying, local, remote, worker>>
-----------------------------------------------------------------------------
Next ==
  \/ \E j \in Jobs :
       \/ Submit(j) \/ SubmitChecked(j) \/ StoreStep(j) \/ StoreErr(j)
       \/ LocalGetWork(j) \/ LocalStart(j) \/ CheckBegins(j) \/ CheckDone(j) \/ LateCheck(j)
       \/ WorkerTakes(j) \/ RunPreProcess(j) \/ RunThrows(j) \/ RunOther(j)
       \/ Loaded(j) \/ LoadFails(j) \/ TaskThrows(j) \/ LastObject(j) \/ Written(j) \/ PatchesDone(j)
       \/ Cleanup(j) \/ Delete(j) \/ Destroy(j) \/ Destroyed(j) \/ Fail(j)
  \/ \E t \in PrepThreads : RemoteStart(t) \/ \E j \in Jobs : RemoteGetWork(t, j)

Spec == Init /\ [][Next]_vars

\* Every thread that has begun something goes on with it, the prepare loop comes
\* back every 100 ms, the worker is started again by maintenance when it is idle, and
\* slaves finish the patches (EveryJobDone of WorkDistribution).
Fairness ==
  /\ \A j \in Jobs :
       /\ WF_vars(StoreStep(j)) /\ WF_vars(StoreErr(j))
       /\ WF_vars(LocalGetWork(j)) /\ WF_vars(LocalStart(j))
       /\ WF_vars(CheckBegins(j)) /\ WF_vars(CheckDone(j))
       /\ WF_vars(WorkerTakes(j))
       /\ WF_vars(RunPreProcess(j) \/ RunThrows(j) \/ RunOther(j))
       /\ WF_vars(task[j] = "load" /\ (Loaded(j) \/ LoadFails(j)))
       /\ WF_vars(LastObject(j)) /\ WF_vars(Written(j))
       /\ WF_vars(PatchesDone(j) /\ step[j] = "RUNNING")
       /\ WF_vars(Cleanup(j)) /\ WF_vars(Destroy(j)) /\ WF_vars(Destroyed(j))
  /\ \A t \in PrepThreads :
       /\ WF_vars(RemoteStart(t))
       /\ WF_vars(\E j \in Jobs : RemoteGetWork(t, j))

FairSpec == Spec /\ Fairness
-----------------------------------------------------------------------------
(* Properties                                                              *)

\* The step a job is counted for.
Counted(j) == IF moving[j] # "no" THEN moving[j]
              ELSE IF failing[j] > 0 THEN "JSTATE_ERR"
              ELSE step[j]

CountedIn(s) == {j \in Jobs : Counted(j) = s}

\* No moveTo( JSTATE_ERR ) has met another moveTo of the same job (job.cpp 464 reads
\* the step before the lock), and no check thread has outlived its job.
Trusted == \A j \in Jobs : "miscounted" \notin past[j]

\* The shared counters say how many jobs are in each limited step, although they are
\* changed by many threads, before the step itself is: deleting a job, failing it, and
\* images that cannot be read neither leave a slot taken nor give one back twice, as
\* long as the moves of a job do not meet.
SlotsExact == Trusted => \A s \in Limited : active[s] = Cardinality(CountedIn(s))

\* The local steps never exceed their limits, although the lock is released between
\* the test and the count.  A job may be preprocessing when QUEUED fills up, which
\* bounds the two together, but for jobs that were failed and whose images were loaded
\* nevertheless; and each remote thread may start one job too many.  As in SlotsExact,
\* the counters must not have been spoilt by two moves at once.
StepLimits == Trusted =>
  /\ \A s \in {"CHECKING", "PREPROCESS", "VERIFY", "POSTPROCESS"} :
       Cardinality(CountedIn(s)) <= Max[s]
  /\ Cardinality({j \in CountedIn("PREPROCESS") \cup CountedIn("QUEUED") : "revived" \notin past[j]})
       <= Max["QUEUED"] + Max["PREPROCESS"] - 1
  /\ Cardinality(CountedIn("RUNNING")) <= Max["RUNNING"] + Cardinality(PrepThreads) - 1

\* preProcess or writeOutput or one of their tasks has thrown, and no thread will move
\* the job on.
Abandoned(j) ==
  /\ step[j] \in {"PREPROCESS", "WRITING"} /\ task[j] \in {"none", "stalled"}
  /\ worker # j /\ moving[j] = "no"

\* A job that stays in the list comes to an end: no limit, no lock order and no job
\* ahead of it, removed, failed or not, keeps it waiting for ever.  Only an exception
\* leaves a job where it is (it is only logged), and one that is left in PREPROCESS
\* keeps its slot from the others until an operator fails it; and a job may wait for
\* ever once the counters have been spoilt by two moves at once (see SlotsExact).
EveryJobEnds ==
  \A j \in Jobs : listed[j] ~>
    \/ step[j] \in {"COMPLETED", "ERR", "JSTATE_ERR"} \/ ~listed[j] \/ Abandoned(j)
    \/ (\E k \in Jobs : Abandoned(k) /\ step[k] = "PREPROCESS")
    \/ ~Trusted

\* A job that has been destroyed is not touched again, but for a check thread that had
\* not got its lock: prepare threads, the worker, a check that has begun, progWatch
\* handlers and the operator keep it alive or are waited for.
GoneForGood ==
  [][\A j \in Jobs : step[j] = "GONE" =>
       /\ step'[j] = "GONE" /\ moving'[j] = "no" /\ failing'[j] = 0
       /\ local'.job # j /\ worker' # j /\ \A t \in PrepThreads : remote'[t] # j
       /\ past'[j] # past[j] => task[j] = "spawned"]_vars

\* A job that is removed from the list is destroyed, and its slot freed.
RemovedGoes == \A j \in Jobs : step[j] # "NONE" /\ ~listed[j] ~> step[j] = "GONE"

====
