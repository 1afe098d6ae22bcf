----------------------------- MODULE CalibCache -----------------------------
(***************************************************************************)
(* The cache of calibration files, CachedFile over Cache, as the channels  *)
(* of several jobs use it. The daemon's worker thread loads the channels   *)
(* of one job after the other (loadCalib), while threads of jobs that are  *)
(* pre-processed unload theirs (unloadCalib).                              *)
(*                                                                         *)
(* An Image holds a shared block of memory: = and the copy that emplace    *)
(* stores share the block, += writes to it, and readFile writes to it when *)
(* the file has the size of what the image holds. The darks of a channel   *)
(* have one size. A block's content is the bag of the files in its sum;    *)
(* memory that was never written to is a file of its own.                  *)
(* The gain stands for all the data that is a single file; frames per dark *)
(* file are 1, so that the normalisation of the sum is left out.           *)
(***************************************************************************)
EXTENDS Naturals, FiniteSets, Sequences

CONSTANTS
  Jobs, Channels, Files,
  JobOf,        \* Channels -> Jobs
  DarkFiles,    \* Channels -> the sequence of its dark files
  GainFile,     \* Channels -> its gain file
  Blocks,       \* blocks of memory
  Unreadable    \* files that exist but may not be read, or not to their end

ASSUME CalibAssumption ==
  /\ JobOf \in [Channels -> Jobs] /\ DarkFiles \in [Channels -> Seq(Files)] /\ GainFile \in [Channels -> Files]
  /\ IsFiniteSet(Files) /\ IsFiniteSet(Channels) /\ Unreadable \subseteq Files

NoBlock == "empty"
Absent == "absent"
None == "none"
Unwritten == "unwritten"

ASSUME BlockAssumption == {NoBlock, Absent} \cap Blocks = {}

VARIABLES
  phase,    \* Jobs -> "new", "loading", "failed", "unloading" or "gone"
  loaded,   \* channels whose loadCalib has returned
  ld,       \* the loadCalib at work: where it is, channel, index of the file, tmp, tmp2
  reading,  \* the file whose imgMutex the worker thread holds
  cache,    \* Files -> the block of its entry
  heap,     \* Blocks -> content
  gain,     \* Channels -> block
  dark,     \* Channels -> content
  ul,       \* Jobs -> channels still to clear, files of the current one still to unload
  torn,     \* history: files whose last read failed, until their entry is erased
  mixed,    \* history: files that a list of several darks got, until their entry is erased
  misled    \* history: channels that got a dark of torn or mixed from the cache

hist == <<torn, mixed, misled>>

vars == <<phase, loaded, ld, reading, cache, heap, gain, dark, ul, hist>>

Parts == Files \cup {Unwritten}
Contents == [Parts -> Nat]
Zero == [p \in Parts |-> 0]
Only(p) == [Zero EXCEPT ![p] = 1]
Plus(a, b) == [p \in Parts |-> a[p] + b[p]]
Sum(c) == [p \in Parts |-> Cardinality({k \in DOMAIN DarkFiles[c] : DarkFiles[c][k] = p})]

ChannelsOf(j) == {c \in Channels : JobOf[c] = j}
DarksOf(c) == {DarkFiles[c][k] : k \in DOMAIN DarkFiles[c]}
FilesOf(c) == DarksOf(c) \cup {GainFile[c]}

Idle == [at |-> "idle", chan |-> None, di |-> 0, tmp |-> NoBlock, tmp2 |-> NoBlock]

Init ==
  /\ phase = [j \in Jobs |-> "new"] /\ loaded = {} /\ ld = Idle /\ reading = None
  /\ cache = [f \in Files |-> Absent] /\ heap = [b \in Blocks |-> Zero]
  /\ gain = [c \in Channels |-> NoBlock] /\ dark = [c \in Channels |-> Zero]
  /\ ul = [j \in Jobs |-> [chans |-> {}, files |-> {}]]
  /\ torn = {} /\ mixed = {} /\ misled = {}

\* The images that share block b: cache entries, gains, tmp and tmp2 (use_count).
UseCount(b) ==
  Cardinality({f \in Files : cache[f] = b}) + Cardinality({c \in Channels : gain[c] = b})
  + Cardinality({v \in {"tmp", "tmp2"} : ld[v] = b})

-----------------------------------------------------------------------------
(* Channel::loadCalib, in the worker thread                                *)

OnDark == ld.di <= Len(DarkFiles[ld.chan])
File == IF OnDark THEN DarkFiles[ld.chan][ld.di] ELSE GainFile[ld.chan]

\* Mutant of Img: a channel's gain is at first that of another channel.
ImgInherited ==
  IF OnDark THEN (IF ld.di = 1 THEN ld.tmp ELSE ld.tmp2)
  ELSE IF \E c \in Channels : gain[c] # NoBlock THEN gain[CHOOSE c \in Channels : gain[c] # NoBlock] ELSE NoBlock

\* The image that CachedFile::load is called with, and what it becomes.
Img == IF ~OnDark THEN gain[ld.chan] ELSE IF ld.di = 1 THEN ld.tmp ELSE ld.tmp2

\* The current file is one of several darks of its channel.
OfSeveral == OnDark /\ Len(DarkFiles[ld.chan]) > 1

\* Mutant of Assign: every dark is loaded into tmp.
AssignTmp(b) ==
  /\ IF OnDark THEN ld' = [ld EXCEPT !.at = "got", !.tmp = b, !.tmp2 = b] /\ UNCHANGED gain
               ELSE ld' = [ld EXCEPT !.at = "got"] /\ gain' = [gain EXCEPT ![ld.chan] = b]
  /\ mixed' = IF OfSeveral THEN mixed \cup {File} ELSE mixed

Assign(b) ==
  /\ IF OnDark THEN /\ ld' = IF ld.di = 1 THEN [ld EXCEPT !.at = "got", !.tmp = b] ELSE [ld EXCEPT !.at = "got", !.tmp2 = b]
                    /\ UNCHANGED gain
               ELSE ld' = [ld EXCEPT !.at = "got"] /\ gain' = [gain EXCEPT ![ld.chan] = b]
  /\ mixed' = IF OfSeveral THEN mixed \cup {File} ELSE mixed

\* The worker thread begins with a channel; the jobs are loaded one after the other.
LoadCalib(c) ==
  /\ ld = Idle /\ c \notin loaded /\ phase[JobOf[c]] \in {"new", "loading"}
  /\ \A j \in Jobs \ {JobOf[c]} : phase[j] = "loading" => ChannelsOf(j) \subseteq loaded
  /\ phase' = [phase EXCEPT ![JobOf[c]] = "loading"]
  /\ ld' = [Idle EXCEPT !.at = "find", !.chan = c, !.di = 1]
  /\ UNCHANGED <<loaded, reading, cache, heap, gain, dark, ul, hist>>

\* CachedFile::load, with the lock of the map: the file is there.
Hit ==
  /\ ld.at = "find" /\ cache[File] \in Blocks
  /\ Assign(cache[File])
  /\ misled' = IF OnDark /\ File \in torn \cup mixed THEN misled \cup {ld.chan} ELSE misled
  /\ UNCHANGED <<phase, loaded, reading, cache, heap, dark, ul, torn>>

\* Otherwise an entry is made from the image passed, and its imgMutex is locked.
Miss ==
  /\ ld.at = "find" /\ cache[File] \notin Blocks
  /\ cache' = [cache EXCEPT ![File] = IF @ = Absent THEN Img ELSE @]
  /\ reading' = File
  /\ ld' = [ld EXCEPT !.at = "read"]
  /\ UNCHANGED <<phase, loaded, heap, gain, dark, ul, hist>>

\* readFile, without the lock of the map: to the block of the entry or to a new one.
Read ==
  /\ ld.at = "read"
  /\ \E b \in Blocks :
       /\ IF cache[File] \in Blocks THEN b = cache[File] ELSE UseCount(b) = 0
       /\ heap' = [heap EXCEPT ![b] = Only(File)]
       /\ cache' = [cache EXCEPT ![File] = b]
       /\ Assign(b)
  /\ reading' = None /\ torn' = torn \ {File}
  /\ UNCHANGED <<phase, loaded, dark, ul, misled>>

\* What a read that fails does to an entry without a block: the header says how large the
\* image is, and Ana::read allocates it before it finds out that the rest can not be read.
Allocate ==
  \E b \in Blocks :
    /\ UseCount(b) = 0
    /\ heap' = [heap EXCEPT ![b] = Only(Unwritten)]
    /\ cache' = [cache EXCEPT ![File] = b]

\* readFile throws, and with it loadCalib: the entry stays as it is, or has a block by now.
ReadFails ==
  /\ ld.at = "read" /\ File \in Unreadable
  /\ UNCHANGED <<heap, cache>> \/ (cache[File] \notin Blocks /\ Allocate)
  /\ phase' = [phase EXCEPT ![JobOf[ld.chan]] = "failed"]
  /\ ld' = Idle /\ reading' = None /\ torn' = torn \cup {File}
  /\ UNCHANGED <<loaded, gain, dark, ul, mixed, misled>>

\* A dark is added, the first one is the start of the sum. The last one ends the loop:
\* dark becomes a copy of tmp, and tmp and tmp2 are destroyed.
AddDark ==
  /\ ld.at = "got" /\ OnDark
  /\ LET sum == IF ld.di = 1 THEN heap[ld.tmp] ELSE Plus(heap[ld.tmp], heap[ld.tmp2])
         last == ld.di = Len(DarkFiles[ld.chan])
     IN  /\ heap' = [heap EXCEPT ![ld.tmp] = sum]
         /\ dark' = IF last THEN [dark EXCEPT ![ld.chan] = sum] ELSE dark
         /\ ld' = IF last THEN [Idle EXCEPT !.at = "find", !.chan = ld.chan, !.di = ld.di + 1]
                          ELSE [ld EXCEPT !.at = "find", !.di = @ + 1]
  /\ UNCHANGED <<phase, loaded, reading, cache, gain, ul, hist>>

GainLoaded ==
  /\ ld.at = "got" /\ ~OnDark
  /\ loaded' = loaded \cup {ld.chan}
  /\ ld' = Idle
  /\ UNCHANGED <<phase, reading, cache, heap, gain, dark, ul, hist>>

-----------------------------------------------------------------------------
(* MomfbdJob::unloadCalib, in a thread of the job                          *)

\* The last image of the job is pre-processed.
BeginUnload(j) ==
  /\ phase[j] = "loading" /\ ChannelsOf(j) \subseteq loaded
  /\ phase' = [phase EXCEPT ![j] = "unloading"]
  /\ ul' = [ul EXCEPT ![j].chans = ChannelsOf(j)]
  /\ UNCHANGED <<loaded, ld, reading, cache, heap, gain, dark, hist>>

\* Mutant of ClearChannel: the files are unloaded before the images are cleared.
ClearChannelLater(j) ==
  /\ phase[j] = "unloading" /\ ul[j].files = {}
  /\ \E c \in ul[j].chans :
       /\ gain' = [d \in Channels |-> IF JobOf[d] = j /\ d \notin ul[j].chans THEN NoBlock ELSE gain[d]]
       /\ dark' = [dark EXCEPT ![c] = Zero]
       /\ ul' = [ul EXCEPT ![j] = [chans |-> @.chans \ {c}, files |-> FilesOf(c)]]
  /\ UNCHANGED <<phase, loaded, ld, reading, cache, heap, hist>>

\* Channel::unloadCalib clears the channel's images, then unloads the files.
ClearChannel(j) ==
  /\ phase[j] = "unloading" /\ ul[j].files = {}
  /\ \E c \in ul[j].chans :
       /\ gain' = [gain EXCEPT ![c] = NoBlock]
       /\ dark' = [dark EXCEPT ![c] = Zero]
       /\ ul' = [ul EXCEPT ![j] = [chans |-> @.chans \ {c}, files |-> FilesOf(c)]]
  /\ UNCHANGED <<phase, loaded, ld, reading, cache, heap, hist>>

\* CachedFile::unload, with the lock of the map; it waits for the imgMutex of the entry.
Unload(j) ==
  /\ \E f \in ul[j].files :
       /\ reading # f
       /\ cache' = [cache EXCEPT ![f] = IF @ \in Blocks /\ UseCount(@) >= 2 THEN @ ELSE Absent]
       /\ ul' = [ul EXCEPT ![j].files = @ \ {f}]
       /\ IF cache'[f] = Absent THEN torn' = torn \ {f} /\ mixed' = mixed \ {f} ELSE UNCHANGED <<torn, mixed>>
  /\ UNCHANGED <<phase, loaded, ld, reading, heap, gain, dark, misled>>

\* Mutant of EndUnload: the job is only marked as flat-fielded.
EndUnloadFlat(j) ==
  /\ phase[j] = "unloading" /\ ul[j] = [chans |-> {}, files |-> {}]
  /\ phase' = [phase EXCEPT ![j] = "flat"]
  /\ UNCHANGED <<loaded, ld, reading, cache, heap, gain, dark, ul, hist>>

EndUnload(j) ==
  /\ phase[j] = "unloading" /\ ul[j] = [chans |-> {}, files |-> {}]
  /\ phase' = [phase EXCEPT ![j] = "gone"]
  /\ UNCHANGED <<loaded, ld, reading, cache, heap, gain, dark, ul, hist>>

Next ==
  \/ \E c \in Channels : LoadCalib(c)
  \/ Hit \/ Miss \/ Read \/ ReadFails \/ AddDark \/ GainLoaded
  \/ \E j \in Jobs : BeginUnload(j) \/ ClearChannel(j) \/ Unload(j) \/ EndUnload(j)

Spec == Init /\ [][Next]_vars

-----------------------------------------------------------------------------
\* The variables have their types.
TypeOK ==
  /\ phase \in [Jobs -> {"new", "loading", "failed", "unloading", "gone"}]
  /\ loaded \subseteq Channels
  /\ ld \in [at : {"idle", "find", "read", "got"}, chan : Channels \cup {None}, di : Nat,
             tmp : Blocks \cup {NoBlock}, tmp2 : Blocks \cup {NoBlock}]
  /\ reading \in Files \cup {None}
  /\ cache \in [Files -> Blocks \cup {NoBlock, Absent}]
  /\ heap \in [Blocks -> Contents]
  /\ gain \in [Channels -> Blocks \cup {NoBlock}]
  /\ dark \in [Channels -> Contents]
  /\ ul \in [Jobs -> [chans : SUBSET Channels, files : SUBSET Files]]
  /\ torn \subseteq Files /\ mixed \subseteq Files /\ misled \subseteq Channels

-----------------------------------------------------------------------------
(* What a comment of the code says of the darks, which does not hold.      *)

\* "load through cache-functionality, so the same data is recycled for other objects"
\* (channel.cpp 561): the dark of a loaded channel is the sum of its dark files.
DarkExact ==
  \A c \in loaded : phase[JobOf[c]] = "loading" => dark[c] = Sum(c)

-----------------------------------------------------------------------------
(* What does hold, each with the exceptions the code has                   *)

\* A channel's gain is its gain file as long as the channel has it, unless the last read of the
\* file failed or a list of several darks has the file too: no other load, no sum of darks and
\* no read that fails writes to the block they share (cachedfile.hpp 52-58, channel.cpp 595-599).
GainSafe ==
  \A c \in Channels : gain[c] # NoBlock /\ GainFile[c] \notin torn \cup mixed =>
    heap[gain[c]] = Only(GainFile[c])

\* The dark of a loaded channel is the sum of its files, also of a list that others share, unless
\* the cache gave it a file whose last read failed or that a list of several darks got before:
\* whatever other jobs load, fail to read or unload meanwhile (channel.cpp 567-592).
DarkSafe ==
  \A c \in loaded \ misled : phase[JobOf[c]] = "loading" => dark[c] = Sum(c)

\* No list of three or more darks has the file: a third dark is read to the block of the second,
\* which then has two entries.
Short(f) == \A c \in Channels : f \in DarksOf(c) => Len(DarkFiles[c]) <= 2

\* A file of short lists stays in the cache only while a job that uses it is not through with
\* unloading, whatever longer lists and failed reads leave there: the last one to clear its
\* image erases the file (channel.cpp 737-765, cachedfile.hpp 62-74).
ShortErased ==
  \A f \in Files : Short(f) /\ cache[f] # Absent =>
    \E c \in Channels : f \in FilesOf(c) /\ phase[JobOf[c]] # "gone"

====
