---------------------------- MODULE WorkerProofs ----------------------------
(* Proofs about module Worker, for any number of callers of start() and of   *)
(* posted calls of run().                                                    *)
EXTENDS Worker, TLAPS

\* Every operation of Worker and Daemon keeps the types of the flags.
LEMMA WorkerTypeStep == TypeOK /\ [Next]_vars => TypeOK'
<1> SUFFICES ASSUME TypeOK, [Next]_vars PROVE TypeOK'
  OBVIOUS
<1> USE DEF TypeOK, Modes, RunPlaces
<1>1. CASE UNCHANGED vars
  BY <1>1 DEF vars
<1>2. ASSUME NEW s \in Starters, StartTest(s) \/ StartSteps(s) PROVE TypeOK'
  BY <1>2 DEF StartTest, StartSteps, StartSet, StartPost
<1>3. ASSUME NEW r \in Runs, RunSteps(r) PROVE TypeOK'
  <2>1. CASE RunBegins(r) \/ GetWork(r) \/ NoWork(r) \/ Solve(r) \/ Interrupted(r)
    BY <2>1 DEF RunBegins, GetWork, NoWork, Solve, Interrupted, Goto
  <2>2. CASE DoneRunning(r) \/ DoneExit(r)
    BY <2>2 DEF DoneRunning, DoneExit, DaemonEnds, Goto
  <2>3. CASE DoneReset(r) \/ DoneStopped(r)
    BY <2>3 DEF DoneReset, DoneStopped, Goto
  <2> QED
    BY <1>3, <2>1, <2>2, <2>3 DEF RunSteps
<1>4. ASSUME NEW m \in Modes, WhenDoneFlag(m) \/ WhenDoneStop(m) \/ EndNow(m) PROVE TypeOK'
  <2>1. CASE WhenDoneFlag(m)
    <3>1. whenDone' \in [Modes -> BOOLEAN]
      BY <2>1, Zenon DEF WhenDoneFlag
    <3> QED
      BY <2>1, <3>1 DEF WhenDoneFlag
  <2>2. CASE WhenDoneStop(m)
    BY <2>2 DEF WhenDoneStop
  <2>3. CASE EndNow(m)
    BY <2>3 DEF EndNow, DaemonEnds
  <2> QED
    BY <1>4, <2>1, <2>2, <2>3
<1>5. CASE Command
  <2>1. CASE StopDaemon
    BY <2>1 DEF StopDaemon, DaemonEnds
  <2>2. ASSUME NEW m \in Modes, WhenDoneTest(m) PROVE TypeOK'
    BY <2>2 DEF WhenDoneTest
  <2> QED
    BY <1>5, <2>1, <2>2 DEF Command
<1>6. CASE Shell
  BY <1>6 DEF Shell, Stop, EndLater
<1> QED
  BY <1>1, <1>2, <1>3, <1>4, <1>5, <1>6 DEF Next

\* The constructors of Worker and Daemon establish the types.
LEMMA WorkerTypeInit == Init => TypeOK
<1> SUFFICES ASSUME Init PROVE TypeOK
  OBVIOUS
<1>1. whenDone \in [Modes -> BOOLEAN]
  BY Zenon DEF Init
<1> QED
  BY <1>1 DEF Init, TypeOK, Modes, RunPlaces

\* The flags of Worker and the run mode of its Daemon keep their types.
THEOREM WorkerTypeCorrect == Spec => []TypeOK
BY WorkerTypeInit, WorkerTypeStep, PTL DEF Spec

-----------------------------------------------------------------------------
\* Steps that move no caller of start() and no run() leave both sets alone.
LEMMA WorkerFrame ==
  ASSUME UNCHANGED <<starter, run>> PROVE InFlight' = InFlight /\ Tested' = Tested
  BY DEF InFlight, Tested

\* A step within run() changes no membership of InFlight.
LEMMA WithinRun ==
  ASSUME TypeOK, NEW r \in Runs, run[r] # "none", NEW p \in RunPlaces \ {"none"},
         run' = [run EXCEPT ![r] = p], UNCHANGED starter
  PROVE  InFlight' = InFlight /\ Tested' = Tested
  BY DEF TypeOK, InFlight, Tested

\* done() and an interruption take one run() out of InFlight.
LEMMA LeavesRun ==
  ASSUME TypeOK, NEW r \in Runs, run[r] # "none",
         run' = [run EXCEPT ![r] = "none"], UNCHANGED starter
  PROVE  r \in InFlight /\ InFlight' = InFlight \ {r} /\ Tested' = Tested
  BY WorkerAssumption DEF TypeOK, InFlight, Tested

\* The test in start() makes its caller one that has tested.
LEMMA StartTestSets ==
  ASSUME TypeOK, NEW s \in Starters, StartTest(s)
  PROVE  InFlight' = InFlight /\ Tested' = Tested \cup {s}
  BY DEF TypeOK, InFlight, Tested, StartTest

\* The assignment in start() decides on a run().
LEMMA StartSetSets ==
  ASSUME TypeOK, NEW s \in Starters, StartSet(s)
  PROVE  s \in Tested /\ InFlight' = InFlight \cup {s} /\ Tested' = Tested \ {s}
  BY DEF TypeOK, InFlight, Tested, StartSet

\* Posting run() puts it in the place of its caller.
LEMMA StartPostSets ==
  ASSUME TypeOK, NEW s \in Starters, StartPost(s)
  PROVE  /\ s \in InFlight
         /\ \E r \in Runs : InFlight' = (InFlight \ {s}) \cup {r}
         /\ Tested' = Tested
<1>1. PICK r \in Runs : run[r] = "none" /\ run' = [run EXCEPT ![r] = "posted"]
  BY DEF StartPost
<1>2. InFlight' = (InFlight \ {s}) \cup {r}
  BY <1>1, WorkerAssumption DEF TypeOK, InFlight, StartPost
<1>3. s \in InFlight /\ Tested' = Tested
  BY DEF TypeOK, InFlight, Tested, StartPost
<1> QED
  BY <1>2, <1>3

\* The invariant from which both safety properties follow.
WorkerInv == TypeOK /\ OneTest /\ OneRun /\ NotStranded

\* Every step of Worker and Daemon keeps the invariant.
LEMMA WorkerStep == WorkerInv /\ [Next]_vars => WorkerInv'
<1> SUFFICES ASSUME WorkerInv, [Next]_vars PROVE WorkerInv'
  OBVIOUS
<1>t. TypeOK /\ TypeOK'
  BY WorkerTypeStep DEF WorkerInv
<1> SUFFICES (OneTest /\ OneRun /\ NotStranded)'
  BY <1>t DEF WorkerInv
<1>i. OneTest /\ OneRun /\ NotStranded
  BY DEF WorkerInv
<1> USE DEF OneTest, OneRun, NotStranded
<1>0. ASSUME InFlight' = InFlight, Tested' = Tested, UNCHANGED <<stopped, overlapped>>,
             runMode' = "LOOP" => runMode = "LOOP"
      PROVE  (OneTest /\ OneRun /\ NotStranded)'
  BY <1>i, <1>0
<1>1. CASE UNCHANGED vars
  BY <1>0, <1>1, WorkerFrame DEF vars
<1>2. ASSUME NEW s \in Starters, StartTest(s) PROVE (OneTest /\ OneRun /\ NotStranded)'
  <2>1. InFlight' = InFlight /\ Tested' = Tested \cup {s}
    BY <1>t, <1>2, StartTestSets
  <2>2. /\ stopped /\ stopped' = stopped /\ runMode' = runMode
        /\ overlapped' = (overlapped \/ Tested # {})
    BY <1>2 DEF StartTest, Tested
  <2> QED
    BY <1>i, <2>1, <2>2
<1>3. ASSUME NEW s \in Starters, StartSet(s) PROVE (OneTest /\ OneRun /\ NotStranded)'
  <2>1. s \in Tested /\ InFlight' = InFlight \cup {s} /\ Tested' = Tested \ {s}
    BY <1>t, <1>3, StartSetSets
  <2>2. ~stopped' /\ runMode' = runMode /\ overlapped' = overlapped
    BY <1>3 DEF StartSet
  <2> QED
    BY <1>i, <2>1, <2>2
<1>4. ASSUME NEW s \in Starters, StartPost(s) PROVE (OneTest /\ OneRun /\ NotStranded)'
  <2>1. PICK r \in Runs : InFlight' = (InFlight \ {s}) \cup {r}
    BY <1>t, <1>4, StartPostSets
  <2>2. s \in InFlight /\ Tested' = Tested
    BY <1>t, <1>4, StartPostSets
  <2>3. UNCHANGED <<stopped, runMode, overlapped>>
    BY <1>4 DEF StartPost
  <2> QED
    BY <1>i, <2>1, <2>2, <2>3
<1>5. ASSUME NEW r \in Runs, RunSteps(r) PROVE (OneTest /\ OneRun /\ NotStranded)'
  <2>1. CASE RunBegins(r) \/ GetWork(r) \/ NoWork(r) \/ Solve(r)
    BY <1>0, <1>t, <2>1, WithinRun DEF RunBegins, GetWork, NoWork, Solve, Goto, RunPlaces
  <2>2. CASE DoneRunning(r) \/ DoneExit(r) \/ DoneReset(r)
    BY <1>0, <1>t, <2>2, WithinRun
    DEF DoneRunning, DoneExit, DoneReset, DaemonEnds, Goto, RunPlaces
  <2>3. CASE Interrupted(r)
    <3>1. r \in InFlight /\ InFlight' = InFlight \ {r} /\ Tested' = Tested
      BY <1>t, <2>3, LeavesRun DEF Interrupted
    <3> QED
      BY <1>i, <2>3, <3>1 DEF Interrupted
  <2>4. CASE DoneStopped(r)
    <3>1. r \in InFlight /\ InFlight' = InFlight \ {r} /\ Tested' = Tested
      BY <1>t, <2>4, LeavesRun DEF DoneStopped, Goto
    <3> QED
      BY <1>i, <2>4, <3>1 DEF DoneStopped
  <2> QED
    BY <1>5, <2>1, <2>2, <2>3, <2>4 DEF RunSteps
<1>6. ASSUME NEW m \in Modes, WhenDoneFlag(m) \/ WhenDoneStop(m) \/ EndNow(m)
      PROVE  (OneTest /\ OneRun /\ NotStranded)'
  BY <1>0, <1>6, WorkerFrame DEF WhenDoneFlag, WhenDoneStop, EndNow, DaemonEnds, Modes
<1>7. CASE Command \/ Shell
  <2>1. CASE StopDaemon \/ Stop
    BY <1>0, <2>1, WorkerFrame DEF StopDaemon, DaemonEnds, Stop
  <2>2. ASSUME NEW m \in Modes, WhenDoneTest(m) \/ EndLater(m)
        PROVE  (OneTest /\ OneRun /\ NotStranded)'
    BY <1>0, <2>2, WorkerFrame DEF WhenDoneTest, EndLater
  <2> QED
    BY <1>7, <2>1, <2>2 DEF Command, Shell
<1> QED
  BY <1>1, <1>2, <1>3, <1>4, <1>5, <1>6, <1>7 DEF Next, StartSteps

\* The invariant holds from the construction of the Worker on.
LEMMA WorkerInvariant == Spec => []WorkerInv
<1>1. Init => WorkerInv
  <2> SUFFICES ASSUME Init PROVE WorkerInv
    OBVIOUS
  <2>1. InFlight = {} /\ Tested = {} /\ stopped
    BY DEF Init, InFlight, Tested
  <2> QED
    BY <2>1, WorkerTypeInit DEF WorkerInv, OneTest, OneRun, NotStranded
<1> QED
  BY <1>1, WorkerStep, PTL DEF Spec

\* Unless two callers have been in the test-and-set window of Worker::start at
\* one time, at most one Worker::run is posted or in progress, and none while
\* stopped_ is true, whatever commands come.
THEOREM OneRunAtATime == Spec => []OneRun
BY WorkerInvariant, PTL DEF WorkerInv

\* While the daemon loops, a worker that is not stopped has a run() posted or in
\* progress, whose done() will set stopped_ again.
THEOREM NeverStranded == Spec => []NotStranded
BY WorkerInvariant, PTL DEF WorkerInv
=============================================================================
