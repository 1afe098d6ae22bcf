----------------------------- MODULE Preprocess -----------------------------
(***************************************************************************)
(* The step PREPROCESS of one job. The worker thread runs preProcess: it   *)
(* arms a watch for the job, for each object and for each channel, and     *)
(* posts tasks (initCache, the cutout of each patch, the files of each     *)
(* channel) to the job's threads, which run them while it goes on. Each    *)
(* watch counts its own items; the last count runs the watch's handler in  *)
(* the thread that made it:                                                *)
(*   job      unloadCalib, which queues the job (or completes a job that   *)
(*            only flat-fields);                                           *)
(*   object   computes the level its images are normalised to;             *)
(*   channel  drops the images, which are kept in a cache file.            *)
(* A file that can not be read moves the job to JSTATE_ERR.                *)
(***************************************************************************)
EXTENDS ProgressWatch, FiniteSets

CONSTANTS
  Objects, Channels, Files,
  ObjectOf,    \* Channels -> Objects
  ChannelOf,   \* Files -> Channels
  Frames,      \* Files -> number of frames in the file
  Patches,     \* the patches that are cut from every channel
  SaveFF,      \* objects with SF_SAVE_FFDATA
  Threads,     \* threads of the job's pool
  Unreadable,  \* files whose load may fail
  Misfits,     \* channels whose dark or gain may have another size than an image
  Throwing,    \* Job, if preProcess and initCache may throw; channels whose loadData and cutouts may
  Job          \* the name of the job's own watch

None == "none"

ASSUME LayoutAssumption ==
  /\ ObjectOf \in [Channels -> Objects] /\ ChannelOf \in [Files -> Channels]
  /\ Frames \in [Files -> Nat \ {0}]
  /\ IsFiniteSet(Files) /\ IsFiniteSet(Patches)
  /\ \A o \in Objects : \E c \in Channels : ObjectOf[c] = o
  /\ \A c \in Channels : \E f \in Files : ChannelOf[f] = c
  /\ SaveFF \subseteq Objects /\ Unreadable \subseteq Files /\ Misfits \subseteq Channels
  /\ Throwing \subseteq Channels \cup {Job}
  /\ Objects \cap Channels = {} /\ Job \notin Objects \cup Channels /\ None \notin Channels

VARIABLES
  flat,      \* runFlags & RF_FLATFIELD
  jobStep,   \* info.step
  main,      \* the worker thread: "start", "load", "end" or "thrown"
  begun,     \* objects and channels whose loadData was entered
  loading,   \* the channel whose loadData is between its two halves
  posted,    \* tasks in ioContext; its threads run them in no promised order
  th,        \* what the threads of the pool are at
  watch,     \* the watches, by name: Job, objects, channels
  counted,   \* <<watch, item>> pairs that were counted
  fired,     \* watches whose handler was taken
  done,      \* items whose work is done
  normed,    \* objects with their normalizeTo
  images,    \* channels whose images are in memory
  calib,     \* channels with their calibration data
  packed     \* the objects that had their normalizeTo when prePack packed the job

loader == <<main, begun, loading>>
book == <<watch, counted, fired>>
data == <<done, normed, images, calib>>
vars == <<flat, jobStep, loader, posted, th, book, data, packed>>

Image(f, k) == <<"image", f, k>>
InitCache == <<"init">>
Save(f) == <<"save", f>>
Cut(p) == <<"cut", p>>
File(f) == <<"file", f>>

FilesOf(c) == {f \in Files : ChannelOf[f] = c}
ObjectOfFile(f) == ObjectOf[ChannelOf[f]]
ImagesOf(o) == UNION {{Image(f, k) : k \in 1..Frames[f]} : f \in {g \in Files : ObjectOfFile(g) = o}}
Images == UNION {{Image(f, k) : k \in 1..Frames[f]} : f \in Files}

\* ff says whether the job only flat-fields: then its channels save their files, and
\* preProcess makes no patches.
Saves(ff, c) == ff \/ ObjectOf[c] \in SaveFF
PatchesOf(ff) == IF ff THEN {} ELSE Patches
Saving(c) == Saves(flat, c)
PatchList == PatchesOf(flat)

\* What each watch counts.
ItemsOf(ff, w) ==
  CASE w = Job        -> Images \cup (IF ff THEN {} ELSE {InitCache})
    [] w \in Objects  -> ImagesOf(w) \cup {Save(f) : f \in {g \in Files : ObjectOfFile(g) = w /\ Saves(ff, ChannelOf[g])}}
    [] w \in Channels -> {Cut(p) : p \in PatchesOf(ff)} \cup {File(f) : f \in FilesOf(w)}

Watches == {Job} \cup Objects \cup Channels

\* A thread, or a task before a thread takes it: where it is, its channel, its file
\* or cutout, the frame, and where it goes on after a handler.
Idle == [at |-> "idle", chan |-> None, item |-> None, frame |-> 0, then |-> "idle"]
Task(at, c, i) == [Idle EXCEPT !.at = at, !.chan = c, !.item = i]

Init ==
  /\ flat \in BOOLEAN
  /\ jobStep = "PREPROCESS"
  /\ main = "start" /\ begun = {} /\ loading = None
  /\ posted = {} /\ th = [t \in Threads |-> Idle]
  /\ watch = [w \in Watches |-> NewWatch] /\ counted = {} /\ fired = {}
  /\ done = {} /\ normed = {} /\ images = {} /\ calib = {}
  /\ packed = {}

-----------------------------------------------------------------------------
(* The worker thread: MomfbdJob::run and preProcess, loadData of Object and *)
(* Channel                                                                 *)

\* Mutant of Armed: initCache is not among what the watch waits for.
ArmedWithoutCache(w) == setHandler(setTarget(set(w, 0), Cardinality(Images)), "unload")

\* Mutant of Armed: the target is the number of files.
ArmedPerFile(w) == setHandler(setTarget(set(w, 0), Cardinality(Files) + 1), "unload")

\* Everything the watch of the job needs is set before the first task is posted.
Armed(w) ==
  LET armed == setHandler(setTarget(set(w, 0), Cardinality(Images)), "unload")
  IN  IF flat THEN armed ELSE increaseTarget(armed, 1)

Start ==
  /\ main = "start"
  /\ main' = "load"
  /\ watch' = [watch EXCEPT ![Job] = Armed(@)]
  /\ posted' = IF flat THEN posted ELSE posted \cup {Task("init", None, InitCache)}
  /\ UNCHANGED <<flat, jobStep, begun, loading, th, counted, fired, data, packed>>

\* The sizes of the objects' images are zero or differ.
Refuse ==
  /\ main = "start" /\ Job \in Throwing
  /\ main' = "thrown"
  /\ watch' = [watch EXCEPT ![Job] = set(@, 0)]
  /\ UNCHANGED <<flat, jobStep, begun, loading, posted, th, counted, fired, data, packed>>

\* An object is loaded when all channels of those before it are.
LoadObject(o) ==
  /\ main = "load" /\ loading = None /\ o \notin begun
  /\ \A c \in Channels : ObjectOf[c] \in begun => c \in begun
  /\ begun' = begun \cup {o}
  /\ watch' = [watch EXCEPT ![o] = setHandler(set(@, Cardinality(ImagesOf(o))), "normalize")]
  /\ UNCHANGED <<flat, jobStep, main, loading, posted, th, counted, fired, data, packed>>

\* The first half of Channel::loadData: storage, the files that will be saved, loadCalib.
Enter(c) ==
  /\ main = "load" /\ loading = None /\ ObjectOf[c] \in begun /\ c \notin begun
  /\ begun' = begun \cup {c}

\* Mutant of Allocate: the files that will be saved are not added to the object's target.
AllocateUnsaved(c) == images' = images \cup {c} /\ UNCHANGED watch

Allocate(c) ==
  /\ images' = images \cup {c}
  /\ watch' = IF Saving(c) THEN [watch EXCEPT ![ObjectOf[c]] = increaseTarget(@, Cardinality(FilesOf(c)))]
                           ELSE watch

LoadCalib(c) ==
  /\ Enter(c)
  /\ Allocate(c)
  /\ loading' = c
  /\ calib' = calib \cup {c}
  /\ UNCHANGED <<flat, jobStep, main, posted, th, counted, fired, done, normed, packed>>

\* There are no images or no room for them, or loadCalib throws.
LoadThrows(c) ==
  /\ c \in Throwing
  /\ Enter(c)
  /\ main' = "thrown"
  /\ Allocate(c) \/ UNCHANGED <<images, watch>>
  /\ UNCHANGED <<flat, jobStep, loading, posted, th, counted, fired, done, normed, calib, packed>>

\* Mutant of Tasks: a channel with cutouts does not post its files.
TasksCutoutsOnly(c) ==
  IF PatchList = {} THEN {Task("file", c, f) : f \in FilesOf(c)} ELSE {Task("cut", c, Cut(p)) : p \in PatchList}

\* A task for each cutout and each file of the channel.
Tasks(c) ==
  {Task("cut", c, Cut(p)) : p \in PatchList} \cup {Task("file", c, f) : f \in FilesOf(c)}

\* Mutant of PostTasks: the channel's watch waits for as many counts as there are files.
PostTasksUncut(c) ==
  /\ loading = c /\ loading' = None
  /\ watch' = [watch EXCEPT ![c] = setHandler(set(@, Cardinality(FilesOf(c))), "drop")]
  /\ posted' = posted \cup Tasks(c)
  /\ UNCHANGED <<flat, jobStep, main, begun, th, counted, fired, data, packed>>

\* The second half: the watch is armed, then the tasks are posted.
PostTasks(c) ==
  /\ loading = c
  /\ loading' = None
  /\ watch' = [watch EXCEPT ![c] = setHandler(set(@, Cardinality(PatchList) + Cardinality(FilesOf(c))), "drop")]
  /\ posted' = posted \cup Tasks(c)
  /\ UNCHANGED <<flat, jobStep, main, begun, th, counted, fired, data, packed>>

EndOfLoad ==
  /\ main = "load" /\ loading = None /\ begun = Objects \cup Channels
  /\ main' = "end"
  /\ UNCHANGED <<flat, jobStep, begun, loading, posted, th, book, data, packed>>

-----------------------------------------------------------------------------
(* The threads of the pool                                                 *)

Take(t) ==
  /\ th[t].at = "idle"
  /\ \E k \in posted : th' = [th EXCEPT ![t] = k] /\ posted' = posted \ {k}
  /\ UNCHANGED <<flat, jobStep, loader, book, data, packed>>

\* Thread t at its next place; a task that is over leaves nothing behind.
Goto(t, at) == th' = [th EXCEPT ![t] = IF at = "idle" THEN Idle ELSE [@ EXCEPT !.at = at]]

\* ++ of watch w for an item; the thread goes on at next, after the handler if any.
Count(t, w, item, next) ==
  LET h == Completer(watch[w], 1) IN
  /\ watch' = [watch EXCEPT ![w] = step(@, 1)]
  /\ counted' = counted \cup {<<w, item>>}
  /\ IF h = NoHandler
     THEN Goto(t, next) /\ UNCHANGED fired
     ELSE th' = [th EXCEPT ![t].at = h, ![t].then = next] /\ fired' = fired \cup {w}
  /\ UNCHANGED <<flat, jobStep, loader, posted, normed, images, calib, packed>>

\* The task ends in an exception, which threadLoop only logs: its count is not made, and
\* the watch that waits for it will not fire.
Throws(t) ==
  /\ Goto(t, "idle")
  /\ UNCHANGED <<flat, jobStep, loader, posted, book, data, packed>>

\* initCache throws when a file of modes or of a pupil can not be read or does not fit.
DoInitCache(t) ==
  /\ th[t].at = "init"
  /\ \/ done' = done \cup {<<Job, InitCache>>} /\ Count(t, Job, InitCache, "idle")
     \/ Job \in Throwing /\ Throws(t)

\* The cutout throws when the patch has no data of the object, or adjustCutout does.
AdjustCutout(t) ==
  /\ th[t].at = "cut"
  /\ \/ done' = done \cup {<<th[t].chan, th[t].item>>} /\ Count(t, th[t].chan, th[t].item, "idle")
     \/ th[t].chan \in Throwing /\ Throws(t)

LoadFile(t) ==
  /\ th[t].at = "file"
  /\ \/ th' = [th EXCEPT ![t].at = "image", ![t].frame = 1]
     \/ th[t].item \in Unreadable /\ Goto(t, "error")
  /\ UNCHANGED <<flat, jobStep, loader, posted, book, data, packed>>

ThisImage(t) == Image(th[t].item, th[t].frame)

AfterImage(t) ==
  IF th[t].frame < Frames[th[t].item] THEN "next"
  ELSE IF Saving(th[t].chan) THEN "save" ELSE "countFile"

\* preprocessImage up to its counts. When the sizes differ it returns before them.
PreprocessImage(t) ==
  /\ th[t].at = "image"
  /\ \/ Goto(t, "countJob") /\ done' = done \cup {<<Job, ThisImage(t)>>}
     \/ th[t].chan \in Misfits /\ Goto(t, AfterImage(t)) /\ UNCHANGED done
  /\ UNCHANGED <<flat, jobStep, loader, posted, book, normed, images, calib, packed>>

CountJob(t) ==
  /\ th[t].at = "countJob"
  /\ Count(t, Job, ThisImage(t), "countObject")
  /\ UNCHANGED done

CountObject(t) ==
  /\ th[t].at = "countObject"
  /\ Count(t, ObjectOf[th[t].chan], ThisImage(t), AfterImage(t))
  /\ UNCHANGED done

NextImage(t) ==
  /\ th[t].at = "next"
  /\ th' = [th EXCEPT ![t].at = "image", ![t].frame = @ + 1]
  /\ UNCHANGED <<flat, jobStep, loader, posted, book, data, packed>>

\* The corrected file is written, or the failure is logged; either is counted.
SaveFile(t) ==
  /\ th[t].at = "save"
  /\ done' = done \cup {<<ObjectOf[th[t].chan], Save(th[t].item)>>}
  /\ Count(t, ObjectOf[th[t].chan], Save(th[t].item), "countFile")

CountFile(t) ==
  /\ th[t].at = "countFile"
  /\ Count(t, th[t].chan, File(th[t].item), "idle")
  /\ UNCHANGED done

\* A file could not be loaded: the job fails, then its watch and the channel's are cleared.
FailJob(t) ==
  /\ th[t].at = "error"
  /\ jobStep' = "JSTATE_ERR"
  /\ Goto(t, "clearJob")
  /\ UNCHANGED <<flat, loader, posted, book, data, packed>>

ClearJob(t) ==
  /\ th[t].at = "clearJob"
  /\ watch' = [watch EXCEPT ![Job] = clear(@)]
  /\ Goto(t, "clearChannel")
  /\ UNCHANGED <<flat, jobStep, loader, posted, counted, fired, data, packed>>

ClearChannel(t) ==
  /\ th[t].at = "clearChannel"
  /\ watch' = [watch EXCEPT ![th[t].chan] = clear(@)]
  /\ Goto(t, "idle")
  /\ UNCHANGED <<flat, jobStep, loader, posted, counted, fired, data, packed>>

-----------------------------------------------------------------------------
(* The handlers, run by the thread that made the last count                *)

\* MomfbdJob::unloadCalib, first for the channels, then for the job.
UnloadCalib(t) ==
  /\ th[t].at = "unload"
  /\ calib' = {}
  /\ Goto(t, "queue")
  /\ UNCHANGED <<flat, jobStep, loader, posted, book, done, normed, images, packed>>

\* Mutant of QueueJob: the job moves to a step that follows RUNNING.
QueueJobDone(t) ==
  /\ th[t].at = "queue"
  /\ jobStep' = "DONE"
  /\ Goto(t, th[t].then)
  /\ UNCHANGED <<flat, loader, posted, book, data, packed>>

QueueJob(t) ==
  /\ th[t].at = "queue"
  /\ jobStep' = IF flat THEN "COMPLETED" ELSE "QUEUED"
  /\ Goto(t, th[t].then)
  /\ UNCHANGED <<flat, loader, posted, book, data, packed>>

\* The handler of Object::loadData.
Normalize(t) ==
  /\ th[t].at = "normalize"
  /\ normed' = normed \cup {ObjectOf[th[t].chan]}
  /\ Goto(t, th[t].then)
  /\ UNCHANGED <<flat, jobStep, loader, posted, book, done, images, calib, packed>>

\* The handler of Channel::loadData, with swapping on.
DropImages(t) ==
  /\ th[t].at = "drop"
  /\ images' = images \ {th[t].chan}
  /\ Goto(t, th[t].then)
  /\ UNCHANGED <<flat, jobStep, loader, posted, book, done, normed, calib, packed>>

-----------------------------------------------------------------------------
\* The remote branch of getWork: a slave asks, the queued job starts and is packed.
GetWork ==
  /\ jobStep = "QUEUED"
  /\ jobStep' = "RUNNING"
  /\ watch' = [watch EXCEPT ![Job] = setHandler(set(clear(@), Cardinality(Patches)), "jobDone")]
  /\ packed' = normed
  /\ UNCHANGED <<flat, loader, posted, th, counted, fired, data>>

Worker ==
  \/ Start \/ Refuse \/ EndOfLoad
  \/ \E o \in Objects : LoadObject(o)
  \/ \E c \in Channels : LoadCalib(c) \/ LoadThrows(c) \/ PostTasks(c)

PoolThread(t) ==
  \/ Take(t) \/ DoInitCache(t) \/ AdjustCutout(t) \/ LoadFile(t) \/ PreprocessImage(t)
  \/ CountJob(t) \/ CountObject(t) \/ NextImage(t) \/ SaveFile(t) \/ CountFile(t)
  \/ FailJob(t) \/ ClearJob(t) \/ ClearChannel(t)
  \/ UnloadCalib(t) \/ QueueJob(t) \/ Normalize(t) \/ DropImages(t)

Next == Worker \/ (\E t \in Threads : PoolThread(t)) \/ GetWork

Spec == Init /\ [][Next]_vars

\* The worker thread and the threads of the pool do not stop on their own.
FairSpec == Spec /\ WF_vars(Worker) /\ \A t \in Threads : WF_vars(PoolThread(t))

-----------------------------------------------------------------------------
Places == {"idle", "init", "cut", "file", "image", "countJob", "countObject", "next", "save",
           "countFile", "error", "clearJob", "clearChannel", "unload", "queue", "normalize", "drop"}

\* The variables have their types.
TypeOK ==
  /\ flat \in BOOLEAN
  /\ jobStep \in {"PREPROCESS", "QUEUED", "RUNNING", "COMPLETED", "JSTATE_ERR"}
  /\ main \in {"start", "load", "end", "thrown"}
  /\ begun \subseteq Objects \cup Channels
  /\ loading \in Channels \cup {None}
  /\ watch \in [Watches -> Watch({"unload", "normalize", "drop", "jobDone"})]
  /\ \A t \in Threads : th[t].at \in Places /\ th[t].then \in Places
  /\ fired \subseteq Watches
  /\ normed \subseteq Objects /\ packed \subseteq Objects
  /\ images \subseteq Channels /\ calib \subseteq Channels

\* A job is queued, completed or running only after initCache and every image of
\* every object is done, although loading, failing files and the handlers of several
\* watches go on at the same time (momfbdjob.cpp unloadCalib, channel.cpp 1257).
QueuedReady ==
  jobStep \in {"QUEUED", "COMPLETED", "RUNNING"} => \A i \in ItemsOf(flat, Job) : <<Job, i>> \in done

\* The images of a channel stay in memory, and its calibration data loaded, until
\* no thread uses them: the handlers of two other watches drop them (channel.cpp 674,
\* momfbdjob.cpp 730).
StillThere ==
  \A t \in Threads :
    /\ th[t].at \in {"file", "image", "save"} => th[t].chan \in images
    /\ th[t].at = "image" => th[t].chan \in calib

\* When the job has left PREPROCESS well, no task counts on the job's watch or
\* clears it any more: getWork uses the same watch for the patches (momfbdjob.cpp 349).
WatchLeft ==
  jobStep \in {"QUEUED", "COMPLETED", "RUNNING"} =>
    /\ \A k \in posted : k.at = "cut"
    /\ \A t \in Threads : th[t].at \notin {"init", "file", "image", "next", "countJob", "error", "clearJob"}

\* The ledger of all watches, for a job that flat-fields and for one that does not.
Bookings == UNION {{<<ff, w, i>> : i \in ItemsOf(ff, w)} : ff \in BOOLEAN, w \in Watches}

Ledger == INSTANCE PatchLedger WITH
  Jobs <- BOOLEAN \X Watches, Patches <- Bookings, JobOf <- [b \in Bookings |-> <<b[1], b[2]>>],
  done <- {<<flat, x[1], x[2]>> : x \in counted}, closed <- {<<flat, w>> : w \in fired}

\* Each watch books its items once, and its handler is taken with the last of them:
\* never early, although targets are raised while tasks count, and never twice
\* (progresswatch.cpp 98, object.cpp 912, channel.cpp 668).
WatchLedger == Ledger!Spec

\* An image that preprocessImage left uncounted, because of its size.
Skipped(f, k) == <<ChannelOf[f], File(f)>> \in counted /\ <<Job, Image(f, k)>> \notin counted

\* initCache threw: its task is over, and its work is not done.
CacheLost ==
  /\ main # "start" /\ ~flat /\ <<Job, InitCache>> \notin done
  /\ Task("init", None, InitCache) \notin posted /\ \A t \in Threads : th[t].at # "init"

\* The job leaves PREPROCESS, for QUEUED or by a failure, unless preProcess or loadData
\* throws, initCache throws or an image is skipped: in these three cases nobody fails the
\* job, and it stays. Nothing else keeps its watch below its target, and a cutout that
\* throws does not (momfbdjob.cpp 759, 828, channel.cpp 684, 1132, 1257, job.cpp 536).
LeavesPreprocess ==
  jobStep = "PREPROCESS" ~>
    \/ jobStep # "PREPROCESS" \/ main = "thrown" \/ CacheLost
    \/ \E f \in Files : \E k \in 1..Frames[f] : Skipped(f, k)

\* "preprocessing ready -> start" (momfbdjob.cpp 340): a job that is packed for the
\* slaves has the normalisation of every object.
PackedReady == jobStep = "RUNNING" => packed = Objects

====
