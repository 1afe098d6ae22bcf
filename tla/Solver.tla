------------------------------- MODULE Solver -------------------------------
(***************************************************************************)
(* A slave's Solver::run for one patch. The main thread drives the         *)
(* minimizer; each evaluation is a sequence of calls (shiftAndInit,        *)
(* applyAlpha, metric, calcPQ, gradient). A call arms the solver's watch,  *)
(* posts tasks to the job's threads and waits for the watch. In metric,    *)
(* calcPQ and shiftAndInit the tasks count on their object's watch, whose  *)
(* handler counts on the solver's; targets are raised while tasks of the   *)
(* same object already count.                                              *)
(*                                                                         *)
(* Numbers are abstracted to where they come from: the coefficients alpha  *)
(* to the number of the evaluation, an OTF to the alpha it was made from,  *)
(* P and Q to the images that were added, with their OTFs.                 *)
(***************************************************************************)
EXTENDS ProgressWatch, Sequences, FiniteSets

CONSTANTS
  Objects, Images,
  ObjectOf,    \* Images -> Objects
  Chunks,      \* sets of images of one channel, at most nMaxImages each
  Threads,     \* threads of the job's pool
  MaxEvals     \* a bound of the model: evaluations after which no loop of the run is repeated

ASSUME SolverAssumption ==
  /\ ObjectOf \in [Images -> Objects] /\ IsFiniteSet(Images) /\ IsFiniteSet(Objects)
  /\ \A o \in Objects : \E i \in Images : ObjectOf[i] = o
  /\ UNION Chunks = Images /\ {} \notin Chunks
  /\ \A k, l \in Chunks : k = l \/ k \cap l = {}
  /\ \A k \in Chunks : \A i, j \in k : ObjectOf[i] = ObjectOf[j]
  /\ MaxEvals \in Nat

VARIABLES
  stage,      \* where Solver::run is
  calls,      \* the calls left of the evaluation at work
  at,         \* where the call at work is: "free" (none), "post", "reg" or "wait"
  reset,      \* shiftAndInit's doReset
  left,       \* objects whose tasks are still to be posted
  chunks,     \* chunks of the current object still to be posted
  posted,     \* tasks in ioContext
  th,         \* what the threads of the pool are at
  mtx,        \* who holds the solver's mutex
  solverWatch, objectWatch,
  alpha,      \* the evaluation the coefficients are of
  otf,        \* Images -> the alpha its OTF was made from
  stale,      \* images that were shifted, or never initialised, since their last FT
  shifted,    \* objects with imgShifted
  ftSum,      \* Objects -> images added to ftSum
  PQ,         \* Objects -> <<image, otf>> added to P and Q
  helpers,    \* Objects -> the P and Q that PQ, PS and QS were made from
  grad,       \* Images -> the OTF and the helpers its gradient was made from
  sum,        \* what metric has summed: <<object, its P and Q, its ftSum>>
  metric      \* the sum that metric returned

control == <<stage, calls, at, reset, left, chunks>>
watches == <<solverWatch, objectWatch>>
data == <<alpha, otf, stale, shifted, ftSum, PQ, helpers, grad, sum, metric>>
vars == <<control, posted, th, mtx, watches, data>>

None == "none"

ImagesOf(o) == {i \in Images : ObjectOf[i] = o}
ChunksOf(o) == {k \in Chunks : k \subseteq ImagesOf(o)}

Task(kind, o, is) == [at |-> kind, obj |-> o, imgs |-> is, added |-> {}]
Idle == Task("idle", None, {})

Init ==
  /\ stage = "start" /\ calls = <<>> /\ at = "free" /\ reset = TRUE /\ left = {} /\ chunks = {}
  /\ posted = {} /\ th = [t \in Threads |-> Idle] /\ mtx = None
  /\ solverWatch = NewWatch /\ objectWatch = [o \in Objects |-> NewWatch]
  /\ alpha = 0 /\ otf = [i \in Images |-> 0] /\ stale = Images /\ shifted = {}
  /\ ftSum = [o \in Objects |-> {}] /\ PQ = [o \in Objects |-> {}]
  /\ helpers = [o \in Objects |-> {}] /\ grad = [i \in Images |-> <<0, {}>>]
  /\ sum = {} /\ metric = {}

-----------------------------------------------------------------------------
(* Solver::run: the evaluations of the minimizer                           *)

\* Go from stage s to one of the stages next with the given calls. Every evaluation
\* sets alpha first (applyBeta).
Evaluate(s, next, cs) ==
  /\ stage = s /\ at = "free" /\ calls = <<>>
  /\ stage' \in next
  /\ calls' = cs
  /\ alpha' = alpha + 1
  /\ UNCHANGED <<at, reset, left, chunks, posted, th, mtx, watches,
                 otf, stale, shifted, ftSum, PQ, helpers, grad, sum, metric>>

Shift(s, next, doReset) ==
  /\ stage = s /\ at = "free" /\ calls = <<>>
  /\ stage' = next
  /\ calls' = <<"shiftAndInit">> /\ reset' = doReset
  /\ UNCHANGED <<at, left, chunks, posted, th, mtx, watches, data>>

\* Mutant of my_df: the helpers are those of the last calcPQ.
my_dfNoPQ == <<"applyAlpha", "gradient">>

my_f == <<"applyAlpha", "metric">>

my_df == <<"applyAlpha", "calcPQ", "gradient">>

my_fdf == <<"applyAlpha", "metric", "gradient">>

\* A loop may be repeated while the bound allows. The loops of the code have conditions on
\* numbers, which are left out: each may be left, or repeated, after every evaluation.
Repeat(again, stop) == IF alpha < MaxEvals THEN again \cup stop ELSE stop

\* conjugate_rdx_set: the value and its gradient, of which only the value is used.
SetMinimizer == Evaluate("set", {"iterate", "final"}, my_fdf)

\* conjugate_rdx_iterate: the gradient, then a line search, unless there is no progress.
Iterate == Evaluate("iterate", {"line", "final"}, my_df)

\* bracket and brent: values along a line. brent stops at its limit; bracket goes on for as
\* long as the value falls, and its limit is only a factor of the step. Then the run goes
\* on with another iteration or ends the loop.
LineSearch ==
  \E s \in {"line", "search"} : Evaluate(s, Repeat({"search", "iterate"}, {"final"}), my_f)

\* The patch is initialised and evaluated; the loop for a number of modes ends with the
\* value of its result; then the images are shifted for the next modes, or it is stored.
\* The numbers of modes rise by nModeIncrement, which may be 0: then the code repeats the
\* loop until the gradient is small or too many evaluations have failed. How often the
\* model repeats it (Repeat) is a bound of the model, not of the code.
Run ==
  \/ Shift("start", "initial", TRUE)
  \/ Evaluate("initial", {"set"}, my_f)
  \/ SetMinimizer \/ Iterate \/ LineSearch
  \/ Evaluate("final", Repeat({"shift"}, {"restore"}), my_f)
  \/ Shift("shift", "set", FALSE)

\* Mutant of Restore: a status of GSL_FAILURE is a result of its own.
RestoreFailed ==
  /\ stage = "restore" /\ at = "free" /\ calls = <<>>
  /\ stage' \in {"done", "failed"}
  /\ UNCHANGED <<calls, at, reset, left, chunks, posted, th, mtx, watches, data>>

\* restorePatch and storeAlpha.
Restore ==
  /\ stage = "restore" /\ at = "free" /\ calls = <<>>
  /\ stage' = "done"
  /\ UNCHANGED <<calls, at, reset, left, chunks, posted, th, mtx, watches, data>>

-----------------------------------------------------------------------------
(* The calls, as the main thread runs them                                 *)

\* applyAlpha and gradient: one task per image, counted by the solver's watch.
PostImages(name, kind) ==
  /\ at = "free" /\ calls # <<>> /\ Head(calls) = name
  /\ at' = "wait"
  /\ solverWatch' = set(solverWatch, Cardinality(Images))
  /\ posted' = posted \cup {Task(kind, ObjectOf[i], {i}) : i \in Images}
  /\ UNCHANGED <<stage, calls, reset, left, chunks, th, mtx, objectWatch, data>>

\* metric, calcPQ and shiftAndInit go through the objects.
BeginObjects(name, target) ==
  /\ at = "free" /\ calls # <<>> /\ Head(calls) = name
  /\ at' = "post" /\ left' = Objects
  /\ solverWatch' = set(solverWatch, target)
  /\ sum' = {}
  /\ UNCHANGED <<stage, calls, reset, chunks, posted, th, mtx, objectWatch,
                 alpha, otf, stale, shifted, ftSum, PQ, helpers, grad, metric>>

\* Mutant of PostShifts: the first initialisation is not forced.
PostShiftsUnforced(o) ==
  /\ at = "post" /\ o \in left /\ Head(calls) = "shiftAndInit"
  /\ left' = left \ {o}
  /\ shifted' = shifted \ {o}
  /\ objectWatch' = [objectWatch EXCEPT ![o] = setHandler(set(clear(@), Cardinality(ImagesOf(o))), "reInitialize")]
  /\ posted' = posted \cup {Task("adjust", o, {i}) : i \in ImagesOf(o)}
  /\ UNCHANGED <<stage, calls, at, reset, chunks, th, mtx, solverWatch,
                 alpha, otf, stale, ftSum, PQ, helpers, grad, sum, metric>>

\* An object of shiftAndInit.
PostShifts(o) ==
  /\ at = "post" /\ o \in left /\ Head(calls) = "shiftAndInit"
  /\ left' = left \ {o}
  /\ shifted' = IF reset THEN shifted \cup {o} ELSE shifted \ {o}
  /\ objectWatch' = [objectWatch EXCEPT ![o] = setHandler(set(clear(@), Cardinality(ImagesOf(o))), "reInitialize")]
  /\ posted' = posted \cup {Task("adjust", o, {i}) : i \in ImagesOf(o)}
  /\ UNCHANGED <<stage, calls, at, reset, chunks, th, mtx, solverWatch,
                 alpha, otf, stale, ftSum, PQ, helpers, grad, sum, metric>>

\* An object of metric or calcPQ: initPQ and the watch, then its chunks.
BeginPQ(o, handler) ==
  /\ left' = left \ {o} /\ chunks' = ChunksOf(o)
  /\ PQ' = [PQ EXCEPT ![o] = {}]
  /\ objectWatch' = [objectWatch EXCEPT ![o] = setHandler(set(@, Cardinality(ImagesOf(o))), handler)]

NextObject(o, name, handler) ==
  /\ at = "post" /\ chunks = {} /\ o \in left /\ Head(calls) = name
  /\ BeginPQ(o, handler)
  /\ UNCHANGED <<stage, calls, at, reset, posted, th, mtx, solverWatch,
                 alpha, otf, stale, shifted, ftSum, helpers, grad, sum, metric>>

\* Mutant of PostChunk: the addition of the chunk to P and Q is not in the target.
PostChunkUncounted(k) ==
  /\ at = "post" /\ k \in chunks
  /\ chunks' = chunks \ {k}
  /\ \E o \in Objects : k \in ChunksOf(o) /\ posted' = posted \cup {Task("addPQ", o, k)}
  /\ UNCHANGED <<stage, calls, at, reset, left, th, mtx, watches, data>>

PostChunk(k) ==
  /\ at = "post" /\ k \in chunks
  /\ chunks' = chunks \ {k}
  /\ \E o \in Objects :
       /\ k \in ChunksOf(o)
       /\ objectWatch' = [objectWatch EXCEPT ![o] = increaseTarget(@, 1)]
       /\ posted' = posted \cup {Task("addPQ", o, k)}
  /\ UNCHANGED <<stage, calls, at, reset, left, th, mtx, solverWatch, data>>

\* Everything is posted. metric adds the term of reg_alpha, if there is one.
EndPost ==
  /\ at = "post" /\ left = {} /\ chunks = {}
  /\ at' \in IF Head(calls) = "metric" THEN {"reg", "wait"} ELSE {"wait"}
  /\ UNCHANGED <<stage, calls, reset, left, chunks, posted, th, mtx, watches, data>>

\* The term of reg_alpha is added to the sum, with the mutex.
RegAlpha ==
  /\ at = "reg" /\ mtx = None
  /\ at' = "wait"
  /\ UNCHANGED <<stage, calls, reset, left, chunks, posted, th, mtx, watches, data>>

\* ProgressWatch::wait returns, and with it the call.
Wait ==
  /\ at = "wait" /\ solverWatch.completed
  /\ at' = "free"
  /\ calls' = Tail(calls)
  /\ metric' = IF Head(calls) = "metric" THEN sum ELSE metric
  /\ UNCHANGED <<stage, reset, left, chunks, posted, th, mtx, watches,
                 alpha, otf, stale, shifted, ftSum, PQ, helpers, grad, sum>>

MainThread ==
  \/ Run \/ Restore
  \/ PostImages("applyAlpha", "apply") \/ PostImages("gradient", "grad")
  \/ BeginObjects("metric", Cardinality(Objects)) \/ BeginObjects("calcPQ", Cardinality(Objects))
  \/ BeginObjects("shiftAndInit", Cardinality(Images))
  \/ \E o \in Objects : \/ PostShifts(o)
                        \/ NextObject(o, "metric", "calcMetric")
                        \/ NextObject(o, "calcPQ", "calcHelpers")
  \/ \E k \in Chunks : PostChunk(k)
  \/ EndPost \/ RegAlpha \/ Wait

-----------------------------------------------------------------------------
(* The tasks, as the threads of the pool run them                          *)

Take(t) ==
  /\ th[t].at = "idle"
  /\ \E k \in posted : th' = [th EXCEPT ![t] = k] /\ posted' = posted \ {k}
  /\ UNCHANGED <<control, mtx, watches, data>>

\* ++ of the solver's watch, n times at once; it has no handler.
CountSolver(n) == solverWatch' = step(solverWatch, n)

\* ++ of the object's watch; the thread runs the handler, or goes on at next.
CountObject(t, next) ==
  LET o == th[t].obj
      h == Completer(objectWatch[o], 1)
  IN  /\ objectWatch' = [objectWatch EXCEPT ![o] = step(@, 1)]
      /\ th' = [th EXCEPT ![t] = IF h # NoHandler THEN [next EXCEPT !.at = h, !.obj = o] ELSE next]

\* calcPhi and calcPFOTF.
ApplyAlpha(t) ==
  /\ th[t].at = "apply"
  /\ otf' = [i \in Images |-> IF i \in th[t].imgs THEN alpha ELSE otf[i]]
  /\ CountSolver(1)
  /\ th' = [th EXCEPT ![t] = Idle]
  /\ UNCHANGED <<control, posted, mtx, objectWatch,
                 alpha, stale, shifted, ftSum, PQ, helpers, grad, sum, metric>>

\* calcVogelWeight and the gradient for the modes of an image.
Gradient(t) ==
  /\ th[t].at = "grad"
  /\ grad' = [i \in Images |-> IF i \in th[t].imgs THEN <<otf[i], helpers[th[t].obj]>> ELSE grad[i]]
  /\ CountSolver(1)
  /\ th' = [th EXCEPT ![t] = Idle]
  /\ UNCHANGED <<control, posted, mtx, objectWatch,
                 alpha, otf, stale, shifted, ftSum, PQ, helpers, sum, metric>>

\* An image of a chunk is added to the thread's own P and Q, and counted.
AddPQ(t) ==
  /\ th[t].at = "addPQ" /\ th[t].imgs # {}
  /\ \E i \in th[t].imgs :
       CountObject(t, [th[t] EXCEPT !.imgs = @ \ {i}, !.added = @ \cup {<<i, otf[i]>>}])
  /\ UNCHANGED <<control, posted, mtx, solverWatch, data>>

\* The chunk is added to the object's P and Q, and counted.
AddToPQ(t) ==
  /\ th[t].at = "addPQ" /\ th[t].imgs = {}
  /\ PQ' = [PQ EXCEPT ![th[t].obj] = @ \cup th[t].added]
  /\ CountObject(t, Idle)
  /\ UNCHANGED <<control, posted, mtx, solverWatch,
                 alpha, otf, stale, shifted, ftSum, helpers, grad, sum, metric>>

\* An image is shifted or not; the object is counted.
AdjustShifts(t) ==
  /\ th[t].at = "adjust"
  /\ \/ UNCHANGED <<stale, shifted>>
     \/ stale' = stale \cup th[t].imgs /\ shifted' = shifted \cup {th[t].obj}
  /\ CountObject(t, Idle)
  /\ UNCHANGED <<control, posted, mtx, solverWatch,
                 alpha, otf, ftSum, PQ, helpers, grad, sum, metric>>

\* SubImage::initialize: the image's FT, and the object's sum of them.
Initialize(t) ==
  /\ th[t].at = "initialize"
  /\ stale' = stale \ th[t].imgs
  /\ ftSum' = [ftSum EXCEPT ![th[t].obj] = @ \cup th[t].imgs]
  /\ CountSolver(1)
  /\ th' = [th EXCEPT ![t] = Idle]
  /\ UNCHANGED <<control, posted, mtx, objectWatch,
                 alpha, otf, shifted, PQ, helpers, grad, sum, metric>>

-----------------------------------------------------------------------------
(* The handlers of the objects' watches                                    *)

\* Mutant of CalcMetric: the object is counted when its metric is calculated, before
\* it is summed.
CalcMetricCounts(t) ==
  /\ th[t].at = "calcMetric" /\ mtx = None
  /\ mtx' = t
  /\ CountSolver(1)
  /\ th' = [th EXCEPT ![t].at = "sum"]
  /\ UNCHANGED <<control, posted, objectWatch, data>>

\* calcMetric, then the lock.
CalcMetric(t) ==
  /\ th[t].at = "calcMetric" /\ mtx = None
  /\ mtx' = t
  /\ th' = [th EXCEPT ![t].at = "sum"]
  /\ UNCHANGED <<control, posted, watches, data>>

\* The metric is summed and the object counted; the lock is released afterwards.
AddMetric(t) ==
  /\ th[t].at = "sum"
  /\ sum' = sum \cup {<<th[t].obj, PQ[th[t].obj], ftSum[th[t].obj]>>}
  /\ CountSolver(1)
  /\ th' = [th EXCEPT ![t].at = "unlock"]
  /\ UNCHANGED <<control, posted, mtx, objectWatch,
                 alpha, otf, stale, shifted, ftSum, PQ, helpers, grad, metric>>

Unlock(t) ==
  /\ th[t].at = "unlock"
  /\ mtx' = None
  /\ th' = [th EXCEPT ![t] = Idle]
  /\ UNCHANGED <<control, posted, watches, data>>

CalcHelpers(t) ==
  /\ th[t].at = "calcHelpers"
  /\ helpers' = [helpers EXCEPT ![th[t].obj] = PQ[th[t].obj]]
  /\ CountSolver(1)
  /\ th' = [th EXCEPT ![t] = Idle]
  /\ UNCHANGED <<control, posted, mtx, objectWatch,
                 alpha, otf, stale, shifted, ftSum, PQ, grad, sum, metric>>

\* Mutant of ReInitialize: an object that was not shifted is counted once.
ReInitializeOnce(t) ==
  LET o == th[t].obj IN
  /\ th[t].at = "reInitialize"
  /\ objectWatch' = [objectWatch EXCEPT ![o] = clear(@)]
  /\ IF o \in shifted
     THEN /\ ftSum' = IF reset THEN [ftSum EXCEPT ![o] = {}] ELSE ftSum
          /\ posted' = posted \cup {Task("initialize", o, {i}) : i \in ImagesOf(o)}
          /\ UNCHANGED solverWatch
     ELSE CountSolver(1) /\ UNCHANGED <<ftSum, posted>>
  /\ th' = [th EXCEPT ![t] = Idle]
  /\ UNCHANGED <<control, mtx, alpha, otf, stale, shifted, PQ, helpers, grad, sum, metric>>

\* Object::reInitialize: a shifted object posts its images, another is counted at once.
ReInitialize(t) ==
  LET o == th[t].obj IN
  /\ th[t].at = "reInitialize"
  /\ objectWatch' = [objectWatch EXCEPT ![o] = clear(@)]
  /\ IF o \in shifted
     THEN /\ ftSum' = IF reset THEN [ftSum EXCEPT ![o] = {}] ELSE ftSum
          /\ posted' = posted \cup {Task("initialize", o, {i}) : i \in ImagesOf(o)}
          /\ UNCHANGED solverWatch
     ELSE CountSolver(Cardinality(ImagesOf(o))) /\ UNCHANGED <<ftSum, posted>>
  /\ th' = [th EXCEPT ![t] = Idle]
  /\ UNCHANGED <<control, mtx, alpha, otf, stale, shifted, PQ, helpers, grad, sum, metric>>

PoolThread(t) ==
  \/ Take(t) \/ ApplyAlpha(t) \/ Gradient(t) \/ AddPQ(t) \/ AddToPQ(t) \/ AdjustShifts(t) \/ Initialize(t)
  \/ CalcMetric(t) \/ AddMetric(t) \/ Unlock(t) \/ CalcHelpers(t) \/ ReInitialize(t)

Next == MainThread \/ \E t \in Threads : PoolThread(t)

Spec == Init /\ [][Next]_vars

\* No thread stops on its own.
FairSpec == Spec /\ WF_vars(MainThread) /\ \A t \in Threads : WF_vars(PoolThread(t))

-----------------------------------------------------------------------------
Tasks ==
  [at : {"idle", "apply", "grad", "addPQ", "adjust", "initialize", "calcMetric", "sum", "unlock", "calcHelpers",
         "reInitialize"},
   obj : Objects \cup {None}, imgs : SUBSET Images, added : SUBSET (Images \X Nat)]

\* The variables have their types.
TypeOK ==
  /\ stage \in {"start", "initial", "set", "iterate", "line", "search", "final", "shift", "restore", "done"}
  /\ calls \in Seq({"shiftAndInit", "applyAlpha", "metric", "calcPQ", "gradient"})
  /\ at \in {"free", "post", "reg", "wait"} /\ reset \in BOOLEAN
  /\ left \subseteq Objects /\ chunks \subseteq Chunks
  /\ posted \subseteq Tasks /\ th \in [Threads -> Tasks] /\ mtx \in Threads \cup {None}
  /\ solverWatch \in Watch({}) /\ objectWatch \in [Objects -> Watch({"reInitialize", "calcMetric", "calcHelpers"})]
  /\ alpha \in Nat /\ otf \in [Images -> Nat] /\ stale \subseteq Images /\ shifted \subseteq Objects
  /\ ftSum \in [Objects -> SUBSET Images] /\ PQ \in [Objects -> SUBSET (Images \X Nat)]
  /\ helpers \in [Objects -> SUBSET (Images \X Nat)] /\ grad \in [Images -> Nat \X SUBSET (Images \X Nat)]

\* A call returns after its last task: nothing it posted is queued or at work, so that
\* the variables its tasks refer to, on the stack of metric or in the objects that the
\* next call changes, are not used any more (solver.cpp 767-813).
Quiet ==
  at = "free" => posted = {} /\ \A t \in Threads : th[t].at \in {"idle", "unlock"}

\* All images of an object, with OTFs made from the current alpha.
Complete(o) == {<<i, alpha>> : i \in ImagesOf(o)}

\* Between two evaluations.
Evaluated == at = "free" /\ calls = <<>>

\* After an evaluation of the value, and when the result is stored, the value has each
\* object once, with each of its images at the current alpha and all its images in the
\* sum of FTs (solver.cpp 762-816, 534).
MetricExact ==
  Evaluated /\ stage \in {"set", "iterate", "search", "shift", "restore", "done"}
  => metric = {<<o, Complete(o), ImagesOf(o)>> : o \in Objects}

\* The gradient that an iteration uses is made, for every image, from its OTF and from
\* helpers of its object at the current alpha (solver.cpp 223-229, 860-895).
GradientFresh ==
  Evaluated /\ stage = "line" => \A i \in Images : grad[i] = <<alpha, Complete(ObjectOf[i])>>

\* Between the calls every image's FT is of the image as it is shifted now, and part of
\* the sum of its object (solver.cpp 584, object.cpp 885).
ImagesFresh ==
  Evaluated /\ stage # "start" => stale = {} /\ \A o \in Objects : ftSum[o] = ImagesOf(o)

\* Every evaluation that the minimizer asks for ends, with every call of it returned: the
\* watches reach their targets although these are raised while tasks count, and no thread
\* waits for another for ever (solver.cpp 584-648, 762-895). Whether the run ends also
\* depends on the numbers in the loops of bracket and of the modes.
EvaluationsEnd == calls # <<>> ~> calls = <<>>

====
