------------------------------- MODULE Worker -------------------------------
(* The life of the Worker of a slave (worker.cpp) and of its Daemon         *)
(* (daemon.cpp): Worker::start, stop, exitWhenDone, resetWhenDone, run and   *)
(* done, called by the maintenance timer, by handlers of urgent commands and *)
(* by the interactive shell, each in a thread of its own.                    *)
(*                                                                           *)
(* The four flags of Worker are std::atomic: each access is a step, and a    *)
(* test and the assignment that follows it are two.  What the worker does    *)
(* between two calls of getWork is module WorkDistribution.                  *)
(* All handlers come from ioContext, which is stopped with the daemon: none  *)
(* begins once runMode has left LOOP, but those in progress go on.           *)
EXTENDS Naturals, FiniteSets

CONSTANTS Starters,   \* threads that may be in Worker::start at one time
          Runs        \* bound on the calls of Worker::run in flight

ASSUME WorkerAssumption == Starters \cap Runs = {}

VARIABLES running,    \* running_
          stopped,    \* stopped_
          whenDone,   \* exitWhenDone_ and resetWhenDone_, by the mode they lead to
          handler,    \* where the handler of CMD_EXIT, or of CMD_RESET, is
          starter,    \* where each caller of start() is
          run,        \* where each posted run() is
          runMode,    \* Application::runMode
          detached,   \* modes that sleeping threads of die() and reset() will set
          overlapped  \* history: two callers have been between the test and the
                      \* assignment of stopped_ at one time

vars == <<running, stopped, whenDone, handler, starter, run, runMode, detached, overlapped>>

\* The ways to end: CMD_EXIT and CMD_RESET, named by Application::RunMode.
Modes == {"EXIT", "RESET"}

RunPlaces == {"none", "posted", "getting", "solving", "done",
              "testsExit", "testsReset", "stops"}

\* The state keeps its types.
TypeOK ==
  /\ running \in BOOLEAN
  /\ stopped \in BOOLEAN
  /\ whenDone \in [Modes -> BOOLEAN]
  /\ handler \in [Modes -> {"out", "accepted", "flagged"}]
  /\ starter \in [Starters -> {"out", "tested", "set"}]
  /\ run \in [Runs -> RunPlaces]
  /\ runMode \in Modes \cup {"LOOP"}
  /\ detached \subseteq Modes
  /\ overlapped \in BOOLEAN

Init ==
  /\ running = FALSE
  /\ stopped = TRUE
  /\ whenDone = [m \in Modes |-> FALSE]
  /\ handler = [m \in Modes |-> "out"]
  /\ starter = [s \in Starters |-> "out"]
  /\ run = [r \in Runs |-> "none"]
  /\ runMode = "LOOP"
  /\ detached = {}
  /\ overlapped = FALSE

-----------------------------------------------------------------------------
(* Worker::start: called once by doWork, for CMD_WAKE, for "poke" and for    *)
(* CMD_RESET of level 0, and posted by maintenance when the worker has been  *)
(* idle for five minutes.  A caller that finds stopped_ false returns.       *)

\* Mutant of StartTest: the test of stopped_ is missing.
StartTestMissing(s) ==
  /\ runMode = "LOOP"
  /\ starter[s] = "out"
  /\ starter' = [starter EXCEPT ![s] = "tested"]
  /\ overlapped' = (overlapped \/ \E other \in Starters : starter[other] = "tested")
  /\ UNCHANGED <<running, stopped, whenDone, handler, run, runMode, detached>>

StartTest(s) ==
  /\ runMode = "LOOP"
  /\ starter[s] = "out"
  /\ stopped
  /\ starter' = [starter EXCEPT ![s] = "tested"]
  /\ overlapped' = (overlapped \/ \E other \in Starters : starter[other] = "tested")
  /\ UNCHANGED <<running, stopped, whenDone, handler, run, runMode, detached>>

StartSet(s) ==
  /\ starter[s] = "tested"
  /\ starter' = [starter EXCEPT ![s] = "set"]
  /\ stopped' = FALSE
  /\ UNCHANGED <<running, whenDone, handler, run, runMode, detached, overlapped>>

\* The wip is reset and run() is posted.
StartPost(s) ==
  /\ starter[s] = "set"
  /\ starter' = [starter EXCEPT ![s] = "out"]
  /\ \E r \in Runs : run[r] = "none" /\ run' = [run EXCEPT ![r] = "posted"]
  /\ UNCHANGED <<running, stopped, whenDone, handler, runMode, detached, overlapped>>

-----------------------------------------------------------------------------
(* Worker::run, in a thread of the pool.                                     *)

Goto(r, here, there) ==
  /\ run[r] = here
  /\ run' = [run EXCEPT ![r] = there]

\* The threads of the pool take handlers as long as the daemon loops.
RunBegins(r) ==
  /\ runMode = "LOOP"
  /\ Goto(r, "posted", "getting")
  /\ running' = TRUE
  /\ UNCHANGED <<stopped, whenDone, handler, starter, runMode, detached, overlapped>>

\* Mutant of MayGetWork: the two flags are not tested.
MayGetWorkWhileRunning == running

\* The condition under which getWork asks for more work.
MayGetWork == running /\ \A m \in Modes : ~whenDone[m]

\* getWork finds work, local or from the manager.
GetWork(r) ==
  /\ MayGetWork
  /\ Goto(r, "getting", "solving")
  /\ UNCHANGED <<running, stopped, whenDone, handler, starter, runMode, detached, overlapped>>

\* getWork may not ask, finds nothing, or fails: it returns false.
NoWork(r) ==
  /\ Goto(r, "getting", "done")
  /\ UNCHANGED <<running, stopped, whenDone, handler, starter, runMode, detached, overlapped>>

\* Job::run has returned or thrown, and getWork is called again.
Solve(r) ==
  /\ Goto(r, "solving", "getting")
  /\ UNCHANGED <<running, stopped, whenDone, handler, starter, runMode, detached, overlapped>>

\* Mutant of Interrupted: an exception leaves run() while the daemon goes on.
InterruptedAnyTime(r) ==
  /\ Goto(r, run[r], "none") /\ run[r] \in {"getting", "solving"}
  /\ UNCHANGED <<running, stopped, whenDone, handler, starter, runMode, detached, overlapped>>

\* After interrupt_all, which follows the change of runMode, an interruption
\* point in getWork or in the job leaves run() without done().
Interrupted(r) ==
  /\ runMode # "LOOP"
  /\ run[r] \in {"getting", "solving"}
  /\ run' = [run EXCEPT ![r] = "none"]
  /\ UNCHANGED <<running, stopped, whenDone, handler, starter, runMode, detached, overlapped>>

-----------------------------------------------------------------------------
(* Worker::done, one step for each access to a flag.                         *)

DoneRunning(r) ==
  /\ Goto(r, "done", "testsExit")
  /\ running' = FALSE
  /\ UNCHANGED <<stopped, whenDone, handler, starter, runMode, detached, overlapped>>

\* Daemon::stop, and what the thread of Daemon::reset does after its sleep: the
\* worker is told to stop, runMode is set, and ioContext and threads stopped.
DaemonEnds(m) ==
  /\ running' = FALSE
  /\ runMode' = m

DoneExit(r) ==
  /\ Goto(r, "testsExit", "testsReset")
  /\ IF whenDone["EXIT"] THEN DaemonEnds("EXIT") ELSE UNCHANGED <<running, runMode>>
  /\ UNCHANGED <<stopped, whenDone, handler, starter, detached, overlapped>>

DoneReset(r) ==
  /\ Goto(r, "testsReset", "stops")
  /\ detached' = detached \cup {m \in {"RESET"} : whenDone[m]}
  /\ UNCHANGED <<running, stopped, whenDone, handler, starter, runMode, overlapped>>

\* Mutant of DoneStopped: stopped_ is not set.
DoneStoppedForgotten(r) ==
  /\ Goto(r, "stops", "none")
  /\ UNCHANGED <<running, stopped, whenDone, handler, starter, runMode, detached, overlapped>>

DoneStopped(r) ==
  /\ Goto(r, "stops", "none")
  /\ stopped' = TRUE
  /\ UNCHANGED <<running, whenDone, handler, starter, runMode, detached, overlapped>>

-----------------------------------------------------------------------------
(* Commands.  exitWhenDone and resetWhenDone do nothing unless running_ is   *)
(* set; then they set their flag and stop the worker.                        *)

WhenDoneTest(m) ==
  /\ runMode = "LOOP"
  /\ handler[m] = "out"
  /\ running
  /\ handler' = [handler EXCEPT ![m] = "accepted"]
  /\ UNCHANGED <<running, stopped, whenDone, starter, run, runMode, detached, overlapped>>

WhenDoneFlag(m) ==
  /\ handler[m] = "accepted"
  /\ handler' = [handler EXCEPT ![m] = "flagged"]
  /\ whenDone' = [whenDone EXCEPT ![m] = TRUE]
  /\ UNCHANGED <<running, stopped, starter, run, runMode, detached, overlapped>>

WhenDoneStop(m) ==
  /\ handler[m] = "flagged"
  /\ handler' = [handler EXCEPT ![m] = "out"]
  /\ running' = FALSE
  /\ UNCHANGED <<stopped, whenDone, starter, run, runMode, detached, overlapped>>

\* Worker::stop alone: "idle", and the first half of CMD_RESET of level 0.
Stop ==
  /\ runMode = "LOOP"
  /\ running' = FALSE
  /\ UNCHANGED <<stopped, whenDone, handler, starter, run, runMode, detached, overlapped>>

\* die() and reset(): a detached thread will end the daemon a second later.
EndLater(m) ==
  /\ runMode = "LOOP"
  /\ detached' = detached \cup {m}
  /\ UNCHANGED <<running, stopped, whenDone, handler, starter, run, runMode, overlapped>>

\* Mutant of EndNow: runMode is set to a value that threadLoop does not know.
EndNowUnknown(m) ==
  /\ m \in detached
  /\ detached' = detached \ {m}
  /\ DaemonEnds("KILL")
  /\ UNCHANGED <<stopped, whenDone, handler, starter, run, overlapped>>

EndNow(m) ==
  /\ m \in detached
  /\ detached' = detached \ {m}
  /\ DaemonEnds(m)
  /\ UNCHANGED <<stopped, whenDone, handler, starter, run, overlapped>>

\* CMD_DIE from a manager calls stop() in its own thread.
StopDaemon ==
  /\ runMode = "LOOP"
  /\ DaemonEnds("EXIT")
  /\ UNCHANGED <<stopped, whenDone, handler, starter, run, detached, overlapped>>

-----------------------------------------------------------------------------
StartSteps(s) == StartSet(s) \/ StartPost(s)

RunSteps(r) ==
  \/ RunBegins(r) \/ GetWork(r) \/ NoWork(r) \/ Solve(r) \/ Interrupted(r)
  \/ DoneRunning(r) \/ DoneExit(r) \/ DoneReset(r) \/ DoneStopped(r)

\* Handlers of urgent commands, in processCommand.
Command == StopDaemon \/ \E m \in Modes : WhenDoneTest(m)

\* "idle", "die" and "reset" in the interactive shell; urgent CMD_DIE and
\* CMD_FORCE_RESET do the same as the last two.
Shell == Stop \/ \E m \in Modes : EndLater(m)

Next ==
  \/ \E s \in Starters : StartTest(s) \/ StartSteps(s)
  \/ \E r \in Runs : RunSteps(r)
  \/ \E m \in Modes : WhenDoneFlag(m) \/ WhenDoneStop(m) \/ EndNow(m)
  \/ Command
  \/ Shell

\* Threads that are in a function finish it, jobs come to an end, and the timer
\* of maintenance keeps calling start().  Commands need not come.
Fairness ==
  /\ WF_vars(\E s \in Starters : StartTest(s))
  /\ \A s \in Starters : WF_vars(StartSteps(s))
  /\ \A r \in Runs : WF_vars(RunSteps(r))
  /\ \A m \in Modes : WF_vars(WhenDoneFlag(m) \/ WhenDoneStop(m)) /\ WF_vars(EndNow(m))

Spec == Init /\ [][Next]_vars /\ Fairness

-----------------------------------------------------------------------------
(* Properties.                                                               *)

\* Calls of run() that have been decided on and have not ended.
InFlight == {s \in Starters : starter[s] = "set"} \cup {r \in Runs : run[r] # "none"}

\* Two calls of Worker::run, which would share one wip, need two callers of
\* start() between its test and its assignment of stopped_ at one time: neither
\* a call that is ending nor any command can lead to it.
OneRun ==
  ~overlapped =>
    /\ \A a, b \in InFlight : a = b
    /\ stopped => InFlight = {}

\* What makes OneRun inductive: a caller that has found stopped_ true is alone,
\* and stopped_ is still true.
Tested == {s \in Starters : starter[s] = "tested"}
OneTest ==
  ~overlapped =>
    /\ \A s, t \in Tested : s = t
    /\ Tested # {} => stopped

\* While the daemon loops, stopped_ is never left false with no run() to come or
\* in progress; start() would return at once for ever.
NotStranded == runMode = "LOOP" /\ ~stopped => InFlight # {}

\* The worker asks for work again and again until the daemon ends.
KeepsAsking == []<>(runMode # "LOOP" \/ \E r \in Runs : run[r] = "getting")

\* A CMD_EXIT or CMD_RESET that was accepted ends the daemon, although
\* done() may have tested the flag before it was set.
WhenDoneEnds == \A m \in Modes : whenDone[m] ~> runMode # "LOOP"
=============================================================================
