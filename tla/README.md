# A TLA+ model of the REDUX job system

REDUX reconstructs solar images with the MOMFBD method. The part of it that is
modelled here is the distributed job system around the numerical code: the daemon
`reduxd`, started once as *manager* and on other machines as *slave*, what it does
with the jobs users submit, and the threads that load, calibrate and solve their
images. Numbers appear by where they come from (which images, from which
coefficients), by a result or by an exception.

Paths are relative to the repository; `momfbdjob.cpp` stands for
`src/lib/momfbd/momfbdjob.cpp`, the others are in `src/lib/`.

## The system

| Component | State | Operations | Hard behaviour |
|---|---|---|---|
| Distribution of patches (`daemon.cpp`, `worker.cpp`, `work.cpp`, `momfbdjob.cpp`) | step of each patch, `wip_queue`, `wip_active`, `peerWIP`, the parts in each `WorkInProgress`, `progWatch` | `prepareRemoteWork`, `sendWork`, `putParts`, `returnWork`, `cleanup`, `failedWIP`, `checkParts`; on the slave `fetchWork`, `returnWork` | replies are lost and results sent again; slaves die; work times out and comes back late; results are applied by handlers posted after the reply was sent; WIP objects are shared without a lock |
| Job steps (`momfbdjob.cpp`, `job.cpp`, `daemon.cpp`, `channel.cpp`) | `info.step`, `Job::counts`, `Daemon::jobs` | `addJobs`, `getWork`, `check`, `run`, `moveTo`, `cleanup`, `removeJobs`, `failJobs`, the destructor | limits are tested and counted under two different holds of a lock; the step is stored after the lock; many threads; deletion at any time |
| Semaphore (`util/semaphore.cpp`) | `counter`, `init` | `get` with a time-out, `release`, `set` | unsigned wrap-around when the limit is lowered |
| Worker (`worker.cpp`) and the end of the daemon (`daemon.cpp`) | `running_`, `stopped_`, `exitWhenDone_`, `resetWhenDone_`, `runMode` | `start`, `stop`, `run`, `done`, `exitWhenDone`, `resetWhenDone`; `stop`, `reset`, `die` of the daemon | flags are tested and set in separate steps by the timer, the shell, urgent commands and the pool |
| ProgressWatch (`util/progresswatch.cpp`) | counter, target, handler | `set`, `setTarget`, `increaseTarget`, `setHandler`, `step`, `clear` | many threads step, one must run the handler; targets are raised while others count |
| Pre-processing (`momfbdjob.cpp`, `momfbd/object.cpp`, `momfbd/channel.cpp`) | a watch for the job, each object and each channel; images and calibration data in memory | `preProcess`, `loadData`, `loadFile`, `preprocessImage`, `adjustCutout`, `initCache`, `unloadCalib` | the worker thread still arms watches while the job's threads count on them; an unreadable file clears watches others use; handlers drop data |
| Calibration files (`momfbd/channel.cpp`, `image/cachedfile.hpp`, `util/cache.hpp`) | images by file name, shared blocks of memory | `loadCalib`, `unloadCalib`, `CachedFile::load`, `unload` | jobs share files; one loads while another unloads; images share memory when they are assigned |
| Solver (`momfbd/solver.cpp`, `object.cpp`, `subimage.cpp`) | coefficients, OTFs, P and Q, helpers, gradients, watches | `run`, the functions of the minimizer, `shiftAndInit`, `applyAlpha`, `metric`, `calcPQ`, `gradient` | fork and join on watches, several times per evaluation; tasks refer to variables of the call |
| Network (`network/*.cpp`) | connections of each host, locks, urgent channel | accept, receive, disconnect | connections break at any time |
| Logging (`logging/*.cpp`) | queue of each output | put, flush, reconnect | messages are repeated when a flush fails |
| `CacheItem` (`util/cacheitem.cpp`) | an item in memory or on disk | load, store, clear | time-outs and threads |

They interact through calls and shared state in the manager's process, and through
the commands `CMD_GET_WORK`, `CMD_PUT_PARTS`, `CMD_ADD_JOB`, `CMD_DEL_JOB` and
`CMD_RESET` between processes. The prepare loop (every 100 ms) and `maintenance`
(every 5 s) drive the manager; an io-context with a thread pool runs posted
handlers; each job has a thread pool of its own.

What makes it correct: every result is counted once and the job goes on when all its
patches have one; no patch is forgotten; a result is applied to the patch it is
for; the counters that limit the steps are exact and the limits hold; every job
ends; a job that is deleted is not used again; no transfer slot is lost; a slave
works on one thing at a time, keeps asking for work, and ends when told to; a job is
queued when all its images are ready and not before; a channel is calibrated with its
own files; the minimizer sees a value and a gradient made from all images and from
the coefficients it has set.

## Modules

| Module | Models |
|---|---|
| `PatchLedger` | abstract: each patch is booked once, and a job is closed by the booking of its last patch |
| `WorkDistribution` | the distribution of patches, in detail |
| `JobSteps` | the life of jobs and the limits of steps |
| `Semaphore` | the transfer semaphore |
| `Worker` | start, stop, exit and reset of a slave's worker |
| `ProgressWatch` | the watch: an operator from watch to watch for each method |
| `Preprocess` | the step PREPROCESS of a job: loading, counting, handlers; extends `ProgressWatch` |
| `CalibCache` | the cache of calibration files, used by several jobs |
| `Solver` | the evaluations of one patch on a slave; extends `ProgressWatch` |
| `WorkDistributionProofs`, `JobStepsProofs`, `SemaphoreProofs`, `WorkerProofs`, `CalibCacheProofs`, `PreprocessProofs`, `SolverProofs` | theorems |
| `MCWorkDistribution`, `MCJobSteps`, `MCSemaphore`, `MCWorker`, `MCPreprocess`, `MCCalibCache`, `MCSolver` | instances for TLC |

`Preprocess` is what `JobSteps` takes as the task "load", `CalibCache` what `Preprocess`
takes as `LoadCalib` and `UnloadCalib`, `WorkDistribution` the task "patches", and
`Solver` the slave's `Solved`. `PatchLedger` is implemented twice: by the patches of
`WorkDistribution` and by the counts of `Preprocess` on its watches.

Definitions named `...Unlimited`, `...KeepsPart` and the like, with a comment
"Mutant of", are faulty variants of the definition that follows them. They are used
in no specification; each shows that a property would notice that fault.

### WorkDistribution

One action per handler or thread step. `PrepareRemoteWork` is `getWork` of a job
under its lock, `Loaded`/`LoadFails` the detached loader thread, `SendWork` the
handler of `CMD_GET_WORK` with the write to the slave (`SendWorkLost`: the write
fails), `Solved` ... `PutLost` the slave, `PutParts` the handler of
`CMD_PUT_PARTS`, which replies without waiting for what it has posted. The posted
handler takes three steps (`TakeWIP`, `ResetWIP`, `ApplyResult`) because the WIP it
copies and resets is shared without a lock. `TimeOut` and `DropEntry` are the two
ways `cleanup` removes an entry of `peerWIP`; `failedWIP` runs after the table's
lock is released, in two steps (`FailWork`, `ClearWIP`). `CheckParts` is the search
for failed and orphaned patches; `patch.use_count()==1` is `~Referenced`.

Abstractions: a WIP carries one patch, which is all `MomfbdJob` ever puts in one; a
deque of patches is the number of times each is in it, so that any order is allowed;
`wip_active` holds one patch per job, because `WorkInProgress::operator<` makes the
WIPs of a job equivalent; an entry of `peerWIP` with an empty WIP, which
`addConnection` makes, is no entry; a host is a name and a process id, so that a
restarted slave is a new host; WIP objects are reused, as the idle pool does.

`Timely` is the one assumption about speed: a posted handler ends before the slave's
5 s pause between two attempts, and before its WIP times out (minutes to hours), and
a broken connection takes its unread message with it. With `Timely` the safety
properties hold; without it they do not: two handlers of one repeated message copy the
same WIP before either resets it, and `DoneMeansAllParts` fails.

### JobSteps

`MoveTo` and `StoreStep` are the two halves of `Job::moveTo`: the counters change
under the global lock and the step is stored later. `MoveToErr`/`StoreErr` are the
same for calls with `JSTATE_ERR`, made by image threads and by the operator without
regard to other moves. `LocalGetWork` and `RemoteGetWork` test a limit and release the
lock; `LocalStart` and `RemoteStart` are what follows. `task` is what the job's other
threads are doing: the check thread, the image threads of PREPROCESS, the patches
(`WorkDistribution`, here one step), the writers and the handler that ends WRITING.
`Destroy` and `Destroyed` are the destructor: it takes the job's lock, stops the
thread pool and joins it. The thread of `check` is detached and has a plain pointer, so
`Destroy` waits for it only once it holds the job's lock; `LateCheck` is what it does to an
object that is gone: it may read any step there and count the job out of it. (The thread of
`checkParts` has a plain pointer too, but moves no step.) `RunThrows` and `TaskThrows` are
exceptions, in the worker thread and in the job's own threads, which are only logged: the
job is left where it is (`Abandoned`).

`past` is history. A job is "miscounted" when a `moveTo( JSTATE_ERR )` meets another move of
the job, or by `LateCheck`; from then on the counters are wrong in the code. The properties
about counters hold up to that moment: `Trusted` says that it has not come. A job is "revived"
when a thread moves it on although it has failed.

Abstractions: the copy of the job list that the prepare threads make is read at the
moment of the test; priorities only order jobs, so any order is allowed; a moveTo's
read of the old step and its counting are one step (counting commutes).

### Semaphore

`counter` and `init` are unsigned; `Modulus` stands for 2^32, and all arithmetic is
modulo `Modulus`. Only operations with callers are modelled.

### Worker

The four flags are `std::atomic`, so each access is a step: `StartTest`, `StartSet` and
`StartPost` are `Worker::start`, `DoneRunning` to `DoneStopped` are `Worker::done`, and
`WhenDoneTest`, `WhenDoneFlag`, `WhenDoneStop` are `exitWhenDone` and `resetWhenDone`.
`Interrupted` is a `boost::thread_interrupted` that leaves `run` without `done`.
`Daemon::stop` is one step; its `interrupt_all` comes after `runMode` is set, which is
what matters here. `die()` and `reset()` put a mode in `detached`, and `EndNow` is the
thread that wakes a second later. What a run does with its work is `WorkDistribution`,
which assumes one run per slave. A reset ends in a new `Daemon`: a new behaviour.
`overlapped` is a history variable, not state of the program.

### ProgressWatch and Preprocess

A method of the watch holds its mutex, so it is one operator; `Completer` is the handler
that a call of `step` runs after the mutex is released. In `Preprocess` the worker thread
takes `Start` (the watch of the job is armed, `initCache` posted), `LoadObject`,
`LoadCalib` and `PostTasks`, the two halves of `Channel::loadData`, one channel after the
other. The pool's threads take posted tasks in any order. `PreprocessImage` is
`preprocessImage` up to its two counts, which are `CountJob` and `CountObject`, in that
order; `SaveFile` and `CountFile` follow the last frame. A file that can not be read takes
`FailJob`, `ClearJob`, `ClearChannel`, three steps as in the code. `UnloadCalib` and
`QueueJob`, `Normalize`, `DropImages` are the handlers. `GetWork` is the remote branch of
`getWork`, which packs the job and uses its watch again for the patches.

Abstractions: image arithmetic is the item being done; `Misfits` are channels whose dark or
gain may have another size than an image, where `preprocessImage` returns early;
`Throwing` says where exceptions may come from: the job, in `preProcess` and `initCache`, or a
channel, in `loadData` and in its cutouts. One in a thread of the pool (`Throws`) ends its task
without the count, as `threadLoop` only logs it. `counted`, `fired` and `done` are history, for the ledger and the properties. Swapping is on, as by default.

### CalibCache

Images share blocks of memory when they are assigned, as `Array` does; `+=` and a read of
a file of the same size write to the block. `heap` is what a block holds, as the number of
times each file is in it; memory that was never written is an item of its own. `UseCount` is
the `use_count` that `unload` tests. `LoadCalib` to `GainLoaded` are the loop over the dark
files and one file more; `Hit`, `Miss` and `Read` are `CachedFile::load`, which reads the file
without the lock of the map. `ReadFails` leaves the entry as it is when the file can not be
opened, and with an allocated, unwritten image when the file ends too early (`Allocate`). A job
whose load fails never unloads. `BeginUnload` to `EndUnload` are `unloadCalib` of a job. The
gain stands for every kind of data that is a single file.

`torn`, `mixed` and `misled` are history: the files whose last read failed, the files that a list
of several darks got (and may have added to), both until the entry is erased, and the channels
that the cache gave such a dark. They name the exceptions of `GainSafe` and `DarkSafe`.

### Solver

`stage` and `calls` are the main thread: `Run` chooses the next evaluation of the minimizer
(conjugate gradients with its line search, the default), `shiftAndInit` and the final
evaluation with it. A call arms the watch of the solver (`PostImages`, `BeginObjects`),
posts tasks (`PostShifts`, `NextObject`, `PostChunk`) and waits (`Wait`). The pool's threads
run them; the handler of an object's watch (`CalcMetric`, `CalcHelpers`, `ReInitialize`)
counts on the solver's. A coefficient is the number of the evaluation that set it, an OTF the
coefficient it was made from, P and Q the images in them. `MaxEvals` bounds the loops of the minimizer and of the numbers of
modes, as a bound of the model: in the code `brent` stops after 100 steps, but `bracket` has no
bound, and `MODE_STEP`, which may be 0, is not checked.

## Runs

| Run | Shows |
|---|---|
| `work_timely` | 2 slaves, 2 patches of one job, 3 WIP objects, one loss, one crash, one premature time-out, two attempts to return a result: `DoneMeansAllParts`, `ProgressExact`, `ResultForOwnPart`, the refinement `LedgerSpec`, the inductive invariant `IndInv`, and under fairness `EveryJobDone` |
| `work_limbo` | two jobs, one slave: `EveryJobDone` fails. A patch that is lost while it is its job's entry in `wip_active` is still referenced, so `checkParts` leaves it; only another result of the same job would erase the entry |
| `semaphore` | 4 threads, limits 0 to 4, modulus 8: `SlotsConserved`, `GetWithinLimit` |
| `steps_life` | 2 jobs, 2 remote prepare threads, all limits 1, exceptions, two unreadable images per job, deletion and an operator: `SlotsExact`, `StepLimits`, and under fairness `EveryJobEnds` |
| `steps_operator` | one job under all threads, exceptions, two unreadable images and an operator, also after moves have met and checks have outlived their job: `GoneForGood` |
| `steps_removed` | `RemovedGoes` fails: the destructor joins, with the job's lock held, a thread that waits for that lock |
| `worker_life` | 2 callers of `start`, 2 runs, all commands at any moment: `OneRun`, `NotStranded`, and under fairness `KeepsAsking` and `WhenDoneEnds` |
| `preprocess` | 2 objects, 3 channels, 3 files with 4 frames, one patch, 2 threads, with and without flat-fielding only; two files may be unreadable, one channel's images skipped; `preProcess`, `initCache`, and one channel's loading and cutouts may throw: `QueuedReady`, `StillThere`, `WatchLeft`, the refinement `WatchLedger`, and under fairness `LeavesPreprocess` |
| `preprocess_pack` | `PackedReady` fails: the last image is counted for the job before it is counted for its object, so the job may be packed without the object's normalisation |
| `calib` | 3 jobs, 4 channels, lists of three, two and one darks, shared darks and gains, two files that may not be read or not to their end: `GainSafe`, `DarkSafe`, `ShortErased` |
| `calib_dark` | two channels with the same list of two darks: `DarkExact` fails, because `tmp += tmp2` adds to the cached image |
| `solver` | 2 objects, 4 images in 3 chunks, 2 threads, loops of the minimizer repeated up to the 4th evaluation, shifts: `Quiet`, `MetricExact`, `GradientFresh`, `ImagesFresh`, and under fairness `EvaluationsEnd` |

Bounds. Two slaves and two patches are enough for a patch to be with two slaves at
once and for a slave to hold another patch than the one whose result is late; one
loss or crash of each kind puts every recovery path in every position of the other
slave's steps. `MaxReturns` is 2 (6 in the code): a repeated result is a repeated
result. 3 WIP objects are one for each slave and one that a late handler holds; without
liveness the run also passes with 4 objects, and the proofs are for any number. With limits
of 1 two jobs compete for every step (QUEUED's limit is 2 in the code); the safety
properties are proved for any number. `steps_life` does not go on from states that are not
`Trusted` (a CONSTRAINT): being so is for ever, and its properties but `TypeOK`, which is proved,
then say nothing more; `steps_operator` does go on. In `worker_life` two callers and two runs
are the smallest numbers with which runs overlap. In `preprocess` one object has two channels and one file two frames, so that
a target is raised while the object's other channel counts, and a thread is between two
frames of a file when another fails. In `solver` one object has two chunks and a chunk two
images, so that images of one chunk count while the next is posted, and two threads
finish two objects at once; four evaluations reach the line search, its repetition, a second
iteration and the final call after a shift. In `calib` a job loads while another unloads
the same file, a third begins after the file is erased, and the files of a longer list are
hits, misses or torn for a shorter one; with five blocks every read finds one that is free.
`calib` uses symmetry of the blocks, which no definition tells apart; the other
runs use none. `semaphore` checks for deadlock; the other systems may end.

Fairness. Weak fairness only, of steps that a thread of the daemon or a living slave
takes by itself: the loops above, posted handlers, detached threads, the slave's
main loop, which `maintenance` and `CMD_WAKE` start again. Nothing is assumed of
losses, crashes, exceptions, premature time-outs, submissions or the operator. In
`Worker` the timer keeps calling `start` (`maintenance` posts it every 5 s once the
slave has been idle for 5 minutes) and threads finish what they are in; a job that
is being solved comes to an end. In `Preprocess` and `Solver` the worker thread and each
thread of the pool go on: they wait for nothing but the watches, a mutex held for a few
statements, and the end of a file operation. That the loops of the minimizer end is not
claimed, since it depends on the values (`bracket`, `MODE_STEP`); `EvaluationsEnd` says that
each evaluation does.

Further observations from the models, which have no run of their own.

- Distribution: without `Timely`, `DoneMeansAllParts` fails (see above).
- Semaphore: a `set()` below the number of slots in use wraps the counter, after which
  the new limit does not bound the transfers that start; `GetWithinLimit` is what does hold.
- Steps: the limit of RUNNING may be exceeded by one for each further
  `prepareRemoteWork` thread (`StepLimits` states the bound that does hold); the limit of
  WRITING is set but never tested. Two unreadable images of one job at one moment, or an
  operator's `fail` during another move, change a counter twice, so that a slot is lost or given
  back twice and jobs may wait for ever: the properties hold up to such a meeting and no
  longer. A failed job may be moved on by a thread that knows nothing of it, and then goes past
  the limit of QUEUED. A job that is deleted in CHECKING may be destroyed before its detached
  check thread has the lock; the thread then uses an object that is gone (`LateCheck`), although
  `mayBeDeleted` is there to keep jobs with asynchronous work (`momfbdjob.cpp` 517).
- Pre-processing: when `preProcess` or `loadData` throws, when `initCache` throws in a thread
  of the pool, and when `preprocessImage` returns because a dark or gain has another size
  (`channel.cpp` 1132), the job stays in PREPROCESS for ever with its only slot, and may not be
  deleted until an operator fails it; `LeavesPreprocess` excepts these three. A cutout that throws
  is not counted on its channel's watch, so the channel's images stay in memory, but the job's
  watch does not wait for it. A
  job that only flat-fields is COMPLETED before its last corrected file is saved, since
  saving counts on the object's watch and not on the job's.
- `ProgressWatch::step` unlocks its mutex twice when more is counted than the target; the
  ledger property shows that no count of `Preprocess` goes beyond its target.
- Calibration: a file that ends too early leaves an allocated image in the cache, which the next
  job takes for a loaded one ("exists and loaded", `cachedfile.hpp` 49), so that its gain or dark is
  memory that was never written (`torn`). From the third dark of a list on two entries share a block,
  keep each other's use count at 2 and are never erased. A failed read of an entry that shares a block with another (lists of three or
  more files) leaves the other file's content under its name; a job that fails never unloads
  its files.
- Solver: `my_fdf` takes the gradient without `calcPQ`, from helpers of an earlier point.
  The default minimizer asks for the gradient again before it uses it, which `GradientFresh`
  depends on; the other minimizers of the configuration do not. The tasks of `init` capture
  a set on the stack of their caller.
- Worker: two callers in `Worker::start` at one moment start two runs that share one WIP
  (`OneRun` says that nothing else does). `exitWhenDone` does nothing when no run is in
  progress: `rdel -s` to an idle slave, which "is to exit after patch is completed"
  (`src/bin/rdel.cpp`), has no effect. A `CMD_RESET` of level 0 stops a running worker, and
  its `start` returns at once because `stopped_` is not set yet: the worker restarts when
  the timer calls.

## Proofs

All theorems hold for any values of the constants that satisfy the named assumption of
the module (`DistributionAssumption`, `JobStepsAssumption`, `WorkerAssumption`,
`SemaphoreAssumption`, `CalibAssumption` and `BlockAssumption`, `LayoutAssumption`,
`SolverAssumption`), without bounds on slaves, patches, jobs, WIP objects, threads, files,
blocks, images or evaluations.

`WorkDistributionProofs`. `TypeCorrect` needs nothing else; the others assume `Timely`,
without which they are false. The type invariant is `TypeOK` with
`SlaveInv`, which ties the fields of a slave to the place it is at. The properties follow
from `IndInv` (theorem `InductiveInvariant`), which TLC also checks in `work_timely`:

- `TableInv`: two entries of `peerWIP`, or two handlers, never share a WIP object; one that
  `cleanup` took belongs to nobody else; a free object is empty. Without it a new WIP
  could be one that a late handler still resets.
- `MessageInv`: a host has one message under way, the one its slave waits on, and no
  handler is posted for its WIP meanwhile. This is where `Timely` enters, and what makes
  the unlocked steps of the posted handler safe.
- `MatchInv`: the WIP that a slave, a message or a handler will be matched with has its patch
  or none. `ResultForOwnPart` follows, and is not inductive alone: a handler sees what
  the table held when the message arrived.
- `OneHolder`: a patch that waits or runs is in one place only, the queue, a loader, a WIP
  or a handler; so a requeued patch cannot be counted twice.
- `CountInv`: the progress of a running job is the number of its patches with a result,
  and a job is DONE when that is all of them. Preserved by `ApplyResult` only because
  `OneHolder` says that the patch had no result before.

One lemma per action that changes the bookkeeping (`AssignStep`, `PutPartsStep`,
`ApplyStep`, ...) shows its effect on holders and counts; frame lemmas dispose of the
rest, and `IndStep` combines them. `DoneJobsAreComplete`, `ResultsCountedOnce` and
`ResultsMatchTheirWork` are consequences. `ImplementsLedger` shows that `Spec` implements
`PatchLedger`: an `ApplyResult` whose WIP still has its patch is a `Book`, every other
step changes neither the set of patches with a result nor whether a job is done.

`JobStepsProofs`. Nothing is assumed but `JobStepsAssumption`: an operator, exceptions and any
number of unreadable images are allowed. `DestroyedJobsStayGone` rests on `EndsInv`: no thread is
at a job whose destructor has begun but those it waits for, and a check thread without lock.
`CountersAreExact` and `LimitsHold` are about `SlotsExact` and `StepLimits`, which speak of the
states before two moves of one job meet (`Trusted`). Their invariant `IndInv` is `TypeOK` and, as
long as `Trusted`,

- `JobInv`: what other threads do for a job fits the step it is counted for, or the job has
  failed, and a second thread begins only when the first has stored the step; so every `moveTo`
  counts the job out of the step it is counted for;
- `AgentInv`: what a prepare thread or the worker read before it released the lock is still
  true when it moves the job, unless the job has failed;
- `Slots`: the counters are exact, which makes the test of a counter a test of the number of jobs;
- `LimitInv`: the limits with the job that the local thread has tested and not yet counted,
  and with the remote threads that have a job. Only the local thread fills its steps, so the
  room it found is still there; remote threads may each have found the same room.

Each action is a `Moves` (one job changes its step and the counters follow) or `Stays`; the
first gives exact counters, and the limits follow from the sets it changes.

`SemaphoreProofs`. The invariant `SlotsInv` says that the counter plus the slots held is
the limit, or the limit plus `Modulus`: the counter has wrapped at most once. From it
`SlotsAreConserved` and `GetsStayWithinLimit`.

`WorkerProofs`. The invariant is `TypeOK`, `OneRun`, `NotStranded` and `OneTest`: unless
callers have overlapped, one that has found `stopped_` true is alone and it is true
still. `OneRunAtATime` needs it for the step `StartSet`, which starts a run on the
strength of an earlier test. `NeverStranded` follows from the order in `Daemon::stop`
(`runMode` before `interrupt_all`) and in `done` (`stopped_` last).

`CalibCacheProofs`. Nothing is assumed of lists and files but the assumptions of the module: any
file may be shared, listed twice, a dark and a gain, or unreadable. `TypeCorrect` needs `LoadInv`: a
load that is past its first dark has an image to add to. `GainSafe` and `DarkSafe` are not
inductive, since they say nothing of who else holds a block. Both follow from `DarkInv` (theorem
`ImagesAreSafe`):

- `GainCached`: a gain is the cached image of its file. `unload` keeps it so, because the
  entry and the gain make a use count of 2 (lemma `UseCountHolders`);
- `PureInv`: the entry of a file that is neither torn nor mixed has a block with the content of
  that file, which no other entry and neither `tmp` nor `tmp2` of a list of several darks has. So
  `+=` and reads to an existing block go elsewhere, and a block that nobody holds is new to every
  channel;
- `ReadInv` and `SumInv`: a file is read to the block of `tmp2` or to a new one, and `tmp` is the sum so far, in another block than the current dark, unless the channel is misled;
- `DarkDone`: a loaded channel that is not misled has the sum of its files.

`ShortListsLeaveNothing` rests on `LeftInv`: the entry of a file of short lists shares its block
with no other entry (`EntryInv`), so that a use count of 2 is that of a channel or of a load at
work; a job that has gains will clear them, unless it has failed (`HolderInv`); and each such
entry has a channel whose job has failed or still has to unload the file (`OwnerInv`).

`PreprocessProofs`. Nothing is assumed but `LayoutAssumption`: any file may fail, any load
and any task of `initCache` or of a cutout may throw. `IndInv` (theorem `InductiveInvariant`, TLC-checked with the bounds of
`preprocess`) has

- `TaskInv`: no two tasks are for the same file or cutout, and a task at frame n of its file
  has counted none of what it still has to count (`FileAt`), so each item is counted once;
- `CountedInv`: only items whose tasks were posted are counted, those of the job after their work;
- `WatchInv`: a watch has fired with all its items counted, or is not armed yet, or is
  `Exact`, or was cleared because of a file of which nothing will be counted (`Dead`). In an
  exact watch the counter is the number of items counted and the target is the number
  `Expected`, which leaves out the files that will be saved by channels not yet allocated.

The core is `LastCount`: a count reaches the target if, and only if, it is the count of the
last item. That an object's target is raised late is harmless because the images of the
channel that raises it are in the target from the start and cannot be counted before; for a
cleared watch the target is 0, and the failed file keeps one item uncounted. From it
`QueuedWhenReady`, `NothingDropped` (a thread owes a count to the watch whose handler would
drop what it uses), `WatchIsLeft` and `ImplementsLedger`: a count is a `Book` of
`PatchLedger`, every other step a stutter.

`SolverProofs`. Nothing is assumed but `SolverAssumption`. All five invariants of `solver` follow
from `IndInv` (theorem `InductiveInvariant`, TLC-checked with the bounds of `solver`), which is
about `Live`, the tasks that are queued or at work:

- `PoolInv`: a task is in one place only, so that one thread counts it;
- `PlaceInv`: which calls are left at each place of the main thread, and that nothing is live
  between two calls, from which `CallsAreQuiet`;
- `DataInv`: what holds between two calls, by the calls still to be made: OTFs at the
  coefficients after `applyAlpha`, the value after `metric`, helpers after `calcPQ`, the
  gradient after `gradient`;
- one part for each call in progress (`ApplyInv`, `GradInv`, `MetricInv`, `HelpersInv`, `ShiftInv`):
  the solver's watch waits for as many counts as there are images or objects still open, and
  what is not open is finished.

In `metric` and `calcPQ` an object's watch waits for `Pending(o)`: its images that are not yet
counted, those of chunks not yet posted included, and one for each task of a chunk. The images
are in the target from the start, and `PostChunk` adds the count of its chunk before the
images of that chunk can be counted, so the target is not reached before the last chunk
is in P and Q (`ImageCounted`, `ImageAdded`, `ChunkAdded`, `ChunkPosted`). In `shiftAndInit` an image is
open until its own `initialize` is counted or, in an object that was not shifted, until
`reInitialize` counts all images of the object at once (`ImagesRenewed`, `ImagesKept`).
One lemma per action (`StepAddPQ`, `StepWait`, ...) preserves `IndInv`. The theorems are about
what the evaluations use; that they end (`EvaluationsEnd`) is checked by TLC.

Only model-checked: everything under fairness (`EveryJobDone`, `EveryJobEnds`,
`RemovedGoes`, `KeepsAsking`, `WhenDoneEnds`, `LeavesPreprocess`, `EvaluationsEnd`), which the
prover does not treat, and the violations. Every other property of a passing run is stated
by a theorem.

## Not modelled, and the plan

Done: `WorkDistribution` with `PatchLedger`, `JobSteps`, `Semaphore`, `Worker`,
`ProgressWatch`, `Preprocess`, `CalibCache`, `Solver`, and the proofs of their safety
properties.

Left out, and why:

- the transport (`TcpServer`, `TcpConnection`, `Host`) and the byte layout of messages: the
  models take a connection that breaks at any moment, which is all the handlers rely on;
- logging: nothing reads what it keeps, and a lost or repeated line changes no step of a job;
- `CacheItem`: an item's load and store are serialised by its own lock;
- the values of the solver, the image, math and optimisation library, the solar geometry
  and the speckle program: floating point, with no state that outlives a call;
- file formats: pure input and output; the GUI, the IDL modules and the vendored headers:
  presentation and bindings; the parsing of configurations and commands; `DebugJob`, which no
  tool submits.

These are most of the repository's lines: the models cover the code that decides which
thread does what, when, and on which data, about a twentieth of it. The data races on
`wip_localqueue`, in the interactive form of `removeJobs` and in the solver's `init` are listed as
hazards: their outcomes are not bounded at this level of abstraction.
