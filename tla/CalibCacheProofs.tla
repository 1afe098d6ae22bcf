-------------------------- MODULE CalibCacheProofs --------------------------
(***************************************************************************)
(* For any number of jobs, channels, files and blocks, any lists of darks  *)
(* and any files that can not be read: the variables have their types; a   *)
(* gain is the content of its file, and a dark the sum of its files, with  *)
(* the exceptions that GainSafe and DarkSafe name; and no file that only   *)
(* short lists use stays in the cache.                                     *)
(***************************************************************************)
EXTENDS CalibCache, FiniteSetTheorems, SequenceTheorems, TLAPS

Loads == [at : {"idle", "find", "read", "got"}, chan : Channels \cup {None}, di : Nat,
          tmp : Blocks \cup {NoBlock}, tmp2 : Blocks \cup {NoBlock}]

\* A load that is at work has a channel, and the images it needs.
LoadInv ==
  /\ ld.at # "idle" => ld.chan \in Channels /\ ld.di \in 1..(Len(DarkFiles[ld.chan]) + 1)
  /\ ld.at # "idle" /\ (ld.di > 1 /\ ld.di <= Len(DarkFiles[ld.chan])) => ld.tmp \in Blocks
  /\ ld.at = "got" /\ ld.di = 1 /\ ld.di <= Len(DarkFiles[ld.chan]) => ld.tmp \in Blocks
  /\ ld.at = "got" /\ ld.di > 1 /\ ld.di <= Len(DarkFiles[ld.chan]) => ld.tmp2 \in Blocks

TypeInv == TypeOK /\ LoadInv

\* A load waits for the read of file f.
Reads(f) == ld.at = "read" /\ File = f

\* A gain is the cached image of its file, which nobody reads any more; a channel that is not
\* loaded has none.
GainCached ==
  \A c \in Channels : gain[c] # NoBlock =>
    /\ cache[GainFile[c]] = gain[c] /\ ~Reads(GainFile[c])
    /\ c \in loaded \/ (ld.at = "got" /\ ld.chan = c /\ ~OnDark)

\* The load at work belongs to a job that is loading; a loaded channel's job is not new.
JobsInv ==
  /\ ld.at # "idle" => phase[JobOf[ld.chan]] = "loading" /\ ld.chan \notin loaded
  /\ \A c \in loaded : phase[JobOf[c]] # "new"
  /\ \A j \in Jobs : ul[j].chans \subseteq ChannelsOf(j)

\* tmp and tmp2 are empty until the first file is loaded to them, and after the last.
FreshInv ==
  ld.at # "idle" =>
    /\ ld.di = 1 /\ ld.at # "got" => ld.tmp = NoBlock
    /\ ld.di = 1 \/ (ld.di = 2 /\ ld.at # "got") => ld.tmp2 = NoBlock
    /\ ~OnDark => ld.tmp = NoBlock /\ ld.tmp2 = NoBlock

BaseInv == TypeInv /\ GainCached /\ JobsInv /\ FreshInv

\* The entry of a file has the file's content, and shares its block with no other entry and
\* with no sum of darks, unless its last read failed or a list of several darks got it.
PureInv ==
  \A f \in Files \ (torn \cup mixed) : cache[f] \in Blocks /\ ~Reads(f) =>
    /\ heap[cache[f]] = Only(f)
    /\ \A g \in Files \ {f} : cache[g] # cache[f]
    /\ ld.at # "idle" /\ cache[f] \in {ld.tmp, ld.tmp2} => Len(DarkFiles[ld.chan]) <= 1

\* A file is read to the block of tmp2, or to one of its own.
ReadInv == ld.at = "read" => cache[File] \notin Blocks \/ (OnDark /\ cache[File] = ld.tmp2)

Loading(c) == ld.at # "idle" /\ ld.chan = c

\* The first n darks of a channel.
Part(c, n) == [p \in Parts |-> Cardinality({k \in 1..n : DarkFiles[c][k] = p})]

\* tmp is the sum of the darks before the current one, which is in another block, unless the
\* channel is misled.
SumInv ==
  ld.at # "idle" /\ OnDark /\ ld.chan \notin misled =>
    /\ ld.tmp # NoBlock => ld.tmp # ld.tmp2
    /\ ld.di = 1 /\ ld.at = "got" => heap[ld.tmp] = Only(File)
    /\ ld.di > 1 => heap[ld.tmp] = Part(ld.chan, ld.di - 1)
    /\ ld.di > 1 /\ ld.at = "got" => heap[ld.tmp2] = Only(File)

DarkDone ==
  \A c \in Channels :
    /\ c \notin misled /\ phase[JobOf[c]] = "loading" /\ (c \in loaded \/ (Loading(c) /\ ~OnDark)) => dark[c] = Sum(c)
    /\ Len(DarkFiles[c]) = 0 => dark[c] = Zero

DarkInv == BaseInv /\ PureInv /\ ReadInv /\ SumInv /\ DarkDone

\* No other entry shares the block of a file of short lists; tmp and tmp2 do only if the channel
\* has the file as a dark.
EntryInv ==
  \A f \in Files : Short(f) /\ cache[f] \in Blocks =>
    /\ \A g \in Files \ {f} : cache[g] # cache[f]
    /\ cache[f] \in {ld.tmp, ld.tmp2} => ld.at # "idle" /\ f \in DarksOf(ld.chan)

\* A job that has gains will clear them, unless it has failed.
HolderInv ==
  \A c \in Channels : gain[c] # NoBlock =>
    \/ phase[JobOf[c]] \in {"loading", "failed"}
    \/ phase[JobOf[c]] = "unloading" /\ c \in ul[JobOf[c]].chans

\* The channel's job has f still to unload, or has failed.
Responsible(c, f) ==
  /\ f \in FilesOf(c)
  /\ \/ phase[JobOf[c]] \in {"new", "loading", "failed"}
     \/ phase[JobOf[c]] = "unloading" /\ (c \in ul[JobOf[c]].chans \/ f \in ul[JobOf[c]].files)

OwnerInv == \A f \in Files : Short(f) /\ cache[f] # Absent => \E c \in Channels : Responsible(c, f)

LeftInv == BaseInv /\ EntryInv /\ HolderInv /\ OwnerInv

-----------------------------------------------------------------------------
(* Type correctness                                                        *)

\* Dark lists have a length, and their elements are files.
LEMMA DarkTypes ==
  \A c \in Channels :
    /\ Len(DarkFiles[c]) \in Nat /\ GainFile[c] \in Files
    /\ \A k \in 1..Len(DarkFiles[c]) : DarkFiles[c][k] \in Files
    /\ DOMAIN DarkFiles[c] = 1..Len(DarkFiles[c])
  <1> SUFFICES ASSUME NEW c \in Channels
               PROVE  /\ Len(DarkFiles[c]) \in Nat /\ GainFile[c] \in Files
                      /\ \A k \in 1..Len(DarkFiles[c]) : DarkFiles[c][k] \in Files
                      /\ DOMAIN DarkFiles[c] = 1..Len(DarkFiles[c])
    OBVIOUS
  <1>1. DarkFiles[c] \in Seq(Files) /\ GainFile[c] \in Files
    BY CalibAssumption
  <1> QED BY <1>1

\* The load at work is at one of the files.
LEMMA FileType ==
  ASSUME TypeInv, ld.at # "idle"
  PROVE  File \in Files /\ ld.chan \in Channels /\ ld.di \in Nat \ {0} /\ Len(DarkFiles[ld.chan]) \in Nat
  <1>1. ld.chan \in Channels /\ ld.di \in 1..(Len(DarkFiles[ld.chan]) + 1)
    BY DEF TypeInv, LoadInv
  <1>2. Len(DarkFiles[ld.chan]) \in Nat
    BY <1>1, DarkTypes
  <1>3. CASE OnDark
    BY <1>1, <1>2, <1>3, DarkTypes DEF File, OnDark
  <1>4. CASE ~OnDark
    BY <1>1, <1>2, <1>4, DarkTypes DEF File
  <1> QED BY <1>1, <1>2, <1>3, <1>4

\* Sums and contents are functions from files to numbers.
LEMMA ContentTypes ==
  /\ Zero \in Contents
  /\ \A p \in Parts : Only(p) \in Contents
  /\ \A a, b \in Contents : Plus(a, b) \in Contents
  BY DEF Zero, Only, Plus, Contents, Parts

\* What becomes of the image a file is loaded to.
LEMMA AssignType ==
  ASSUME TypeInv, ld.at \in {"find", "read"}, NEW b \in Blocks, Assign(b)
  PROVE  /\ ld' \in Loads
         /\ gain' \in [Channels -> Blocks \cup {NoBlock}] /\ mixed' \subseteq Files
         /\ LoadInv'
  <1>1. ld.chan \in Channels /\ ld.di \in Nat \ {0} /\ Len(DarkFiles[ld.chan]) \in Nat
    BY FileType
  <1>2. ld \in Loads
    BY DEF TypeInv, TypeOK, Loads
  <1>3. gain' \in [Channels -> Blocks \cup {NoBlock}] /\ mixed' \subseteq Files
    BY <1>1, FileType DEF Assign, TypeInv, TypeOK
  <1>4. ld' \in Loads
    BY <1>2 DEF Assign, Loads
  <1>5. ld'.chan = ld.chan /\ ld'.di = ld.di /\ ld'.at = "got"
    BY <1>2 DEF Assign, Loads
  <1>6. ld.di \in 1..(Len(DarkFiles[ld.chan]) + 1)
    BY DEF TypeInv, LoadInv
  <1>7. LoadInv'
    <2>1. CASE OnDark /\ ld.di = 1
      <3>1. ld'.tmp = b
        BY <1>2, <2>1 DEF Assign, Loads
      <3> QED BY <1>1, <1>5, <1>6, <2>1, <3>1 DEF LoadInv
    <2>2. CASE OnDark /\ ld.di # 1
      <3>1. ld'.tmp2 = b /\ ld'.tmp = ld.tmp
        BY <1>2, <2>2 DEF Assign, Loads
      <3>2. ld.tmp \in Blocks
        BY <1>1, <2>2 DEF OnDark, TypeInv, LoadInv
      <3> QED BY <1>1, <1>5, <1>6, <2>2, <3>1, <3>2 DEF LoadInv
    <2>3. CASE ~OnDark
      BY <1>1, <1>5, <1>6, <2>3 DEF LoadInv, OnDark
    <2> QED BY <2>1, <2>2, <2>3
  <1> QED BY <1>3, <1>4, <1>7

\* Every step of a load or an unload keeps the types.
LEMMA TypeStep == TypeInv /\ [Next]_vars => TypeInv'
  <1> SUFFICES ASSUME TypeInv, [Next]_vars PROVE TypeInv'
    OBVIOUS
  <1> USE CalibAssumption
  <1>0. TypeOK /\ LoadInv
    BY DEF TypeInv
  <1>1. ASSUME NEW c \in Channels, LoadCalib(c) PROVE TypeInv'
    <2>1. TypeOK'
      BY <1>0, <1>1 DEF LoadCalib, Idle, TypeOK, hist
    <2>2. ld' = [at |-> "find", chan |-> c, di |-> 1, tmp |-> NoBlock, tmp2 |-> NoBlock]
      BY <1>1 DEF LoadCalib, Idle
    <2>3. LoadInv'
      BY <2>2, DarkTypes DEF LoadInv
    <2> QED BY <2>1, <2>3 DEF TypeInv
  <1>2. CASE Hit
    <2>1. cache[File] \in Blocks /\ Assign(cache[File]) /\ ld.at = "find"
      BY <1>2 DEF Hit
    <2>2. PICK b \in Blocks : b = cache[File]
      BY <2>1
    <2>a. misled' \subseteq Channels /\ ld.chan \in Channels
      BY <1>0, <1>2, <2>1, FileType DEF Hit, TypeOK
    <2>3. Assign(b)
      BY <2>1, <2>2
    <2> QED BY <1>0, <1>2, <2>1, <2>3, <2>a, AssignType DEF Hit, TypeInv, TypeOK, Loads
  <1>3. CASE Miss
    <2>1. File \in Files /\ ld.chan \in Channels
      BY <1>3, FileType DEF Miss
    <2>2. Img \in Blocks \cup {NoBlock}
      BY <1>0, <2>1 DEF Img, TypeOK
    <2>3. cache' \in [Files -> Blocks \cup {NoBlock, Absent}]
      BY <1>0, <1>3, <2>1, <2>2 DEF Miss, TypeOK
    <2>4. ld' = [ld EXCEPT !.at = "read"]
      BY <1>3 DEF Miss
    <2>5. LoadInv'
      BY <1>0, <1>3, <2>4 DEF Miss, LoadInv, TypeOK
    <2>6. TypeOK'
      BY <1>0, <1>3, <2>1, <2>3, <2>4 DEF Miss, TypeOK, hist
    <2> QED BY <2>5, <2>6 DEF TypeInv
  <1>4. CASE Read
    <2>1. PICK b \in Blocks : /\ heap' = [heap EXCEPT ![b] = Only(File)]
                              /\ cache' = [cache EXCEPT ![File] = b]
                              /\ Assign(b)
      BY <1>4 DEF Read
    <2>2. File \in Files /\ ld.at = "read"
      BY <1>4, FileType DEF Read
    <2>3. Only(File) \in Contents
      BY <2>2, ContentTypes DEF Parts
    <2>4. heap' \in [Blocks -> Contents] /\ cache' \in [Files -> Blocks \cup {NoBlock, Absent}]
      BY <1>0, <2>1, <2>2, <2>3 DEF TypeOK
    <2> QED BY <1>0, <1>4, <2>1, <2>2, <2>4, AssignType DEF Read, TypeInv, TypeOK, Loads
  <1>5. CASE ReadFails
    <2>1. ld.chan \in Channels /\ File \in Files
      BY <1>5, FileType DEF ReadFails
    <2>2. Only(Unwritten) \in Contents
      BY ContentTypes DEF Parts
    <2>3. heap' \in [Blocks -> Contents] /\ cache' \in [Files -> Blocks \cup {NoBlock, Absent}]
      <3>1. CASE UNCHANGED <<heap, cache>>
        BY <1>0, <3>1 DEF TypeOK
      <3>2. CASE Allocate
        BY <1>0, <2>1, <2>2, <3>2 DEF Allocate, TypeOK
      <3> QED BY <1>5, <3>1, <3>2 DEF ReadFails
    <2> QED BY <1>0, <1>5, <2>1, <2>3 DEF ReadFails, Idle, TypeInv, TypeOK, LoadInv
  <1>6. CASE AddDark
    <2>1. ld.chan \in Channels /\ ld.di \in Nat \ {0} /\ Len(DarkFiles[ld.chan]) \in Nat
      BY <1>6, FileType DEF AddDark
    <2>2. ld.tmp \in Blocks /\ (ld.di # 1 => ld.tmp2 \in Blocks)
      BY <1>0, <1>6, <2>1 DEF AddDark, OnDark, LoadInv
    <2> DEFINE sum == IF ld.di = 1 THEN heap[ld.tmp] ELSE Plus(heap[ld.tmp], heap[ld.tmp2])
    <2>3. sum \in Contents
      BY <1>0, <2>2, ContentTypes DEF TypeOK
    <2>4. /\ heap' = [heap EXCEPT ![ld.tmp] = sum]
          /\ dark' = [dark EXCEPT ![ld.chan] = sum] \/ dark' = dark
          /\ UNCHANGED <<phase, loaded, reading, cache, gain, ul, torn, mixed, misled>>
      BY <1>6 DEF AddDark, hist
    <2>5. \/ /\ ld' = [at |-> "find", chan |-> ld.chan, di |-> ld.di + 1, tmp |-> NoBlock, tmp2 |-> NoBlock]
             /\ ld.di = Len(DarkFiles[ld.chan])
          \/ /\ ld' = [ld EXCEPT !.at = "find", !.di = @ + 1]
             /\ ld.di # Len(DarkFiles[ld.chan])
      BY <1>6 DEF AddDark, Idle
    <2> HIDE DEF sum
    <2>6. TypeOK'
      <3>1. ld' \in Loads
        <4>1. CASE ld' = [at |-> "find", chan |-> ld.chan, di |-> ld.di + 1, tmp |-> NoBlock, tmp2 |-> NoBlock]
          BY <2>1, <4>1 DEF Loads
        <4>2. CASE ld' = [ld EXCEPT !.at = "find", !.di = @ + 1]
          <5>1. ld \in Loads
            BY <1>0 DEF TypeOK, Loads
          <5>2. ld.di + 1 \in Nat
            BY <2>1
          <5>3. ld' = [ld EXCEPT !.at = "find", !.di = ld.di + 1]
            BY <4>2
          <5> QED BY <5>1, <5>2, <5>3 DEF Loads
        <4> QED BY <2>5, <4>1, <4>2
      <3>2. heap' \in [Blocks -> Contents]
        BY <1>0, <2>3, <2>4 DEF TypeOK
      <3>3. dark' \in [Channels -> Contents]
        BY <1>0, <2>3, <2>4 DEF TypeOK
      <3> QED BY <1>0, <2>4, <3>1, <3>2, <3>3 DEF TypeOK, Loads
    <2>7. LoadInv'
      <3>1. CASE ld' = [at |-> "find", chan |-> ld.chan, di |-> ld.di + 1, tmp |-> NoBlock, tmp2 |-> NoBlock]
                 /\ ld.di = Len(DarkFiles[ld.chan])
        BY <2>1, <3>1 DEF LoadInv
      <3>2. CASE ld' = [ld EXCEPT !.at = "find", !.di = @ + 1] /\ ld.di # Len(DarkFiles[ld.chan])
        <4>1. ld'.at = "find" /\ ld'.chan = ld.chan /\ ld'.di = ld.di + 1 /\ ld'.tmp = ld.tmp
          BY <1>0, <3>2 DEF TypeOK
        <4>2. ld.di \in 1..(Len(DarkFiles[ld.chan]) + 1) /\ ld.di <= Len(DarkFiles[ld.chan])
          BY <1>0, <1>6 DEF LoadInv, AddDark, OnDark
        <4> QED BY <2>1, <2>2, <3>2, <4>1, <4>2 DEF LoadInv
      <3> QED BY <2>5, <3>1, <3>2
    <2> QED BY <2>6, <2>7 DEF TypeInv
  <1>7. CASE GainLoaded
    <2>1. ld.chan \in Channels
      BY <1>7, FileType DEF GainLoaded
    <2> QED BY <1>0, <1>7, <2>1 DEF GainLoaded, Idle, TypeInv, TypeOK, LoadInv, hist
  <1>8. ASSUME NEW j \in Jobs, BeginUnload(j) \/ EndUnload(j) PROVE TypeInv'
    <2>1. ul' \in [Jobs -> [chans : SUBSET Channels, files : SUBSET Files]]
      <3>1. ul[j] \in [chans : SUBSET Channels, files : SUBSET Files]
        BY <1>0 DEF TypeOK
      <3>2. [ul[j] EXCEPT !.chans = ChannelsOf(j)] \in [chans : SUBSET Channels, files : SUBSET Files]
        BY <3>1 DEF ChannelsOf
      <3> QED BY <1>0, <1>8, <3>2 DEF BeginUnload, EndUnload, TypeOK
    <2>2. phase' \in [Jobs -> {"new", "loading", "failed", "unloading", "gone"}]
      BY <1>0, <1>8 DEF BeginUnload, EndUnload, TypeOK
    <2> QED BY <1>0, <1>8, <2>1, <2>2 DEF BeginUnload, EndUnload, TypeInv, TypeOK, LoadInv, hist
  <1>9. ASSUME NEW j \in Jobs, ClearChannel(j) PROVE TypeInv'
    <2>1. PICK c \in ul[j].chans :
            /\ gain' = [gain EXCEPT ![c] = NoBlock]
            /\ dark' = [dark EXCEPT ![c] = Zero]
            /\ ul' = [ul EXCEPT ![j] = [chans |-> @.chans \ {c}, files |-> FilesOf(c)]]
      BY <1>9 DEF ClearChannel
    <2>2. c \in Channels
      BY <1>0, <2>1 DEF TypeOK
    <2>3. FilesOf(c) \subseteq Files
      BY <2>2, DarkTypes DEF FilesOf, DarksOf
    <2> QED BY <1>0, <1>9, <2>1, <2>2, <2>3, ContentTypes DEF ClearChannel, TypeInv, TypeOK, LoadInv, hist
  <1>10. ASSUME NEW j \in Jobs, Unload(j) PROVE TypeInv'
    <2>1. PICK f \in ul[j].files :
            /\ cache' = [cache EXCEPT ![f] = IF @ \in Blocks /\ UseCount(@) >= 2 THEN @ ELSE Absent]
            /\ ul' = [ul EXCEPT ![j].files = @ \ {f}]
      BY <1>10 DEF Unload
    <2>2. ul[j] \in [chans : SUBSET Channels, files : SUBSET Files]
      BY <1>0 DEF TypeOK
    <2>3. [ul[j] EXCEPT !.files = @ \ {f}] \in [chans : SUBSET Channels, files : SUBSET Files] /\ f \in Files
      BY <2>1, <2>2
    <2>4. ul' \in [Jobs -> [chans : SUBSET Channels, files : SUBSET Files]]
      BY <1>0, <2>1, <2>3 DEF TypeOK
    <2>5. cache' \in [Files -> Blocks \cup {NoBlock, Absent}]
      BY <1>0, <2>1, <2>3 DEF TypeOK
    <2>6. torn' \subseteq Files /\ mixed' \subseteq Files
      BY <1>0, <1>10 DEF Unload, TypeOK
    <2> QED BY <1>0, <1>10, <2>4, <2>5, <2>6 DEF Unload, TypeInv, TypeOK, LoadInv
  <1>11. CASE UNCHANGED vars
    BY <1>0, <1>11 DEF vars, hist, TypeInv, TypeOK, LoadInv
  <1> QED
    BY <1>1, <1>2, <1>3, <1>4, <1>5, <1>6, <1>7, <1>8, <1>9, <1>10, <1>11 DEF Next

\* The cache starts empty, with variables of their types.
LEMMA TypeInit == Init => TypeInv
  BY CalibAssumption, ContentTypes DEF Init, Idle, TypeInv, TypeOK, LoadInv

\* The variables have their types: in particular a load never reads past its list of darks,
\* and never adds to an image it does not have.
THEOREM TypeCorrect == Spec => []TypeOK
  <1>1. TypeInv => TypeOK
    BY DEF TypeInv
  <1> QED BY <1>1, TypeInit, TypeStep, PTL DEF Spec

-----------------------------------------------------------------------------
(* Gains are exact                                                         *)

\* What the use count of a block says of those who may hold it: nobody does if it is 0, and
\* it is 2 at least if a cache entry and a gain do.
LEMMA UseCountHolders ==
  ASSUME NEW b \in Blocks
  PROVE  /\ UseCount(b) = 0 => /\ \A f \in Files : cache[f] # b
                               /\ ld.tmp # b /\ ld.tmp2 # b
         /\ \A f \in Files, c \in Channels : cache[f] = b /\ gain[c] = b => UseCount(b) >= 2
  <1> DEFINE F == {f \in Files : cache[f] = b}
             G == {c \in Channels : gain[c] = b}
             T == {v \in {"tmp", "tmp2"} : ld[v] = b}
  <1>1. IsFiniteSet(F) /\ IsFiniteSet(G) /\ IsFiniteSet(T)
    <2>1. IsFiniteSet({"tmp", "tmp2"})
      <3>1. {"tmp", "tmp2"} = {"tmp"} \cup {"tmp2"}
        OBVIOUS
      <3>2. IsFiniteSet({"tmp"}) /\ IsFiniteSet({"tmp2"})
        BY FS_Singleton
      <3>3. IsFiniteSet({"tmp"} \cup {"tmp2"})
        BY <3>2, FS_Union
      <3> QED BY <3>1, <3>3
    <2>2. F \subseteq Files /\ G \subseteq Channels /\ T \subseteq {"tmp", "tmp2"}
      OBVIOUS
    <2> QED BY <2>1, <2>2, CalibAssumption, FS_Subset
  <1>2. Cardinality(F) \in Nat /\ Cardinality(G) \in Nat /\ Cardinality(T) \in Nat
    BY <1>1, FS_CardinalityType
  <1>3. /\ (Cardinality(F) = 0 <=> F = {})
        /\ (Cardinality(G) = 0 <=> G = {})
        /\ (Cardinality(T) = 0 <=> T = {})
    BY <1>1, FS_EmptySet
  <1>4. UseCount(b) = Cardinality(F) + Cardinality(G) + Cardinality(T)
    BY DEF UseCount
  <1>5. ASSUME UseCount(b) = 0
        PROVE  /\ \A f \in Files : cache[f] # b
               /\ ld.tmp # b /\ ld.tmp2 # b
    <2>1. Cardinality(F) = 0 /\ Cardinality(T) = 0
      <3> HIDE DEF F, G, T
      <3> QED BY <1>2, <1>4, <1>5
    <2>2. F = {} /\ T = {}
      BY <1>3, <2>1
    <2> QED BY <2>2
  <1>6. ASSUME NEW f \in Files, NEW c \in Channels, cache[f] = b /\ gain[c] = b
        PROVE  UseCount(b) >= 2
    <2>1. f \in F /\ c \in G
      BY <1>6
    <2>2. Cardinality(F) # 0 /\ Cardinality(G) # 0
      BY <1>3, <2>1
    <2> HIDE DEF F, G, T
    <2> QED BY <1>2, <1>4, <2>2
  <1> QED BY <1>5, <1>6

(* What the steps of a load do                                             *)

\* The image a file is loaded to: tmp for the first dark, tmp2 for the others, or the gain.
LEMMA AssignIs ==
  ASSUME TypeInv, ld.at \in {"find", "read"}, NEW b \in Blocks, Assign(b)
  PROVE  /\ ld'.at = "got" /\ ld'.chan = ld.chan /\ ld'.di = ld.di /\ OnDark' = OnDark /\ File' = File
         /\ OnDark /\ ld.di = 1 => ld'.tmp = b /\ ld'.tmp2 = ld.tmp2 /\ gain' = gain
         /\ OnDark /\ ld.di # 1 => ld'.tmp = ld.tmp /\ ld'.tmp2 = b /\ gain' = gain
         /\ ~OnDark => ld'.tmp = ld.tmp /\ ld'.tmp2 = ld.tmp2 /\ gain' = [gain EXCEPT ![ld.chan] = b]
         /\ OfSeveral => mixed' = mixed \cup {File}
         /\ ~OfSeveral => mixed' = mixed
  <1>1. ld \in Loads
    BY DEF TypeInv, TypeOK, Loads
  <1>2. ld'.at = "got" /\ ld'.chan = ld.chan /\ ld'.di = ld.di
    BY <1>1 DEF Assign, Loads
  <1>3. OnDark' = OnDark /\ File' = File
    BY <1>2 DEF OnDark, File
  <1>4. OnDark /\ ld.di = 1 => ld'.tmp = b /\ ld'.tmp2 = ld.tmp2 /\ gain' = gain
    BY <1>1 DEF Assign, Loads
  <1>5. OnDark /\ ld.di # 1 => ld'.tmp = ld.tmp /\ ld'.tmp2 = b /\ gain' = gain
    BY <1>1 DEF Assign, Loads
  <1>6. ~OnDark => ld'.tmp = ld.tmp /\ ld'.tmp2 = ld.tmp2 /\ gain' = [gain EXCEPT ![ld.chan] = b]
    BY <1>1 DEF Assign, Loads
  <1>7. (OfSeveral => mixed' = mixed \cup {File}) /\ (~OfSeveral => mixed' = mixed)
    BY DEF Assign
  <1> QED BY <1>2, <1>3, <1>4, <1>5, <1>6, <1>7

\* A file that is not in the cache gets an entry with the image passed.
LEMMA MissIs ==
  ASSUME TypeInv, Miss
  PROVE  /\ ld.at = "find" /\ cache[File] \notin Blocks /\ reading' = File
         /\ ld'.at = "read" /\ ld'.chan = ld.chan /\ ld'.di = ld.di /\ ld'.tmp = ld.tmp /\ ld'.tmp2 = ld.tmp2
         /\ OnDark' = OnDark /\ File' = File
         /\ \A f \in Files : f # File => cache'[f] = cache[f]
         /\ cache'[File] \in {Img, cache[File]} /\ (cache[File] = Absent => cache'[File] = Img)
         /\ UNCHANGED <<phase, loaded, heap, gain, dark, ul, torn, mixed, misled>>
  <1>1. ld \in Loads
    BY DEF TypeInv, TypeOK, Loads
  <1>2. ld' = [ld EXCEPT !.at = "read"] /\ ld.at = "find"
    BY DEF Miss
  <1>3. ld'.at = "read" /\ ld'.chan = ld.chan /\ ld'.di = ld.di /\ ld'.tmp = ld.tmp /\ ld'.tmp2 = ld.tmp2
    BY <1>1, <1>2 DEF Loads
  <1>4. OnDark' = OnDark /\ File' = File
    BY <1>3 DEF OnDark, File
  <1>5. PICK g \in Files : g = File
    BY <1>2, FileType
  <1>6. cache' = [cache EXCEPT ![g] = IF @ = Absent THEN Img ELSE @] /\ cache \in [Files -> Blocks \cup {NoBlock, Absent}]
    BY <1>5 DEF Miss, TypeInv, TypeOK
  <1>7. /\ \A f \in Files : f # g => cache'[f] = cache[f]
        /\ cache'[g] \in {Img, cache[g]} /\ (cache[g] = Absent => cache'[g] = Img)
    BY <1>6
  <1> QED BY <1>2, <1>3, <1>4, <1>5, <1>7 DEF Miss, hist

\* A file is read to the block of its entry, or to one that nobody has.
LEMMA ReadIs ==
  ASSUME TypeInv, Read
  PROVE  \E b \in Blocks, g \in Files :
         /\ g = File /\ ld.at = "read" /\ Assign(b)
         /\ \/ cache[g] = b
            \/ /\ cache[g] \notin Blocks
               /\ \A f \in Files : cache[f] # b
               /\ ld.tmp # b /\ ld.tmp2 # b
         /\ cache'[g] = b /\ (\A f \in Files : f # g => cache'[f] = cache[f])
         /\ heap'[b] = Only(g) /\ (\A k \in Blocks : k # b => heap'[k] = heap[k])
         /\ torn' = torn \ {g} /\ UNCHANGED <<phase, loaded, dark, ul, misled>>
  <1>1. PICK b \in Blocks : /\ (cache[File] \in Blocks /\ b = cache[File]) \/ (cache[File] \notin Blocks /\ UseCount(b) = 0)
                            /\ heap' = [heap EXCEPT ![b] = Only(File)]
                            /\ cache' = [cache EXCEPT ![File] = b]
                            /\ Assign(b)
    BY DEF Read
  <1>2. ld.at = "read" /\ torn' = torn \ {File} /\ UNCHANGED <<phase, loaded, dark, ul, misled>>
    BY DEF Read
  <1>3. PICK g \in Files : g = File
    BY <1>2, FileType
  <1>4. /\ cache'[g] = b /\ (\A f \in Files : f # g => cache'[f] = cache[f])
        /\ heap'[b] = Only(g) /\ (\A k \in Blocks : k # b => heap'[k] = heap[k])
    BY <1>1, <1>3 DEF TypeInv, TypeOK
  <1>5. \/ cache[g] = b
        \/ cache[g] \notin Blocks /\ (\A f \in Files : cache[f] # b) /\ ld.tmp # b /\ ld.tmp2 # b
    BY <1>1, <1>3, UseCountHolders
  <1> QED BY <1>1, <1>2, <1>3, <1>4, <1>5

\* The current dark is added to tmp; the last one ends the loop.
LEMMA AddDarkIs ==
  ASSUME TypeInv, AddDark
  PROVE  /\ ld.at = "got" /\ OnDark /\ ld.chan \in Channels /\ ld.di \in Nat \ {0} /\ ld.tmp \in Blocks
         /\ Len(DarkFiles[ld.chan]) \in Nat /\ ld.di <= Len(DarkFiles[ld.chan])
         /\ ld.di # 1 => ld.tmp2 \in Blocks
         /\ heap'[ld.tmp] = (IF ld.di = 1 THEN heap[ld.tmp] ELSE Plus(heap[ld.tmp], heap[ld.tmp2]))
         /\ \A k \in Blocks : k # ld.tmp => heap'[k] = heap[k]
         /\ ld'.at = "find" /\ ld'.chan = ld.chan /\ ld'.di = ld.di + 1
         /\ ld.di = Len(DarkFiles[ld.chan]) =>
              /\ ld'.tmp = NoBlock /\ ld'.tmp2 = NoBlock
              /\ dark' = [dark EXCEPT ![ld.chan] = heap'[ld.tmp]]
         /\ ld.di # Len(DarkFiles[ld.chan]) => ld'.tmp = ld.tmp /\ ld'.tmp2 = ld.tmp2 /\ dark' = dark
         /\ UNCHANGED <<phase, loaded, reading, cache, gain, ul, torn, mixed, misled>>
  <1>1. ld \in Loads
    BY DEF TypeInv, TypeOK, Loads
  <1>2. ld.at = "got" /\ OnDark /\ UNCHANGED <<phase, loaded, reading, cache, gain, ul, torn, mixed, misled>>
    BY DEF AddDark, hist
  <1>3. ld.chan \in Channels /\ ld.di \in Nat \ {0} /\ Len(DarkFiles[ld.chan]) \in Nat
    BY <1>2, FileType
  <1>4. ld.di <= Len(DarkFiles[ld.chan])
    BY <1>2 DEF OnDark
  <1>5. ld.tmp \in Blocks /\ (ld.di # 1 => ld.tmp2 \in Blocks)
    BY <1>2, <1>3, <1>4 DEF TypeInv, LoadInv
  <1> DEFINE sum == IF ld.di = 1 THEN heap[ld.tmp] ELSE Plus(heap[ld.tmp], heap[ld.tmp2])
  <1>6. /\ heap' = [heap EXCEPT ![ld.tmp] = sum]
        /\ dark' = IF ld.di = Len(DarkFiles[ld.chan]) THEN [dark EXCEPT ![ld.chan] = sum] ELSE dark
        /\ ld' = IF ld.di = Len(DarkFiles[ld.chan])
                 THEN [at |-> "find", chan |-> ld.chan, di |-> ld.di + 1, tmp |-> NoBlock, tmp2 |-> NoBlock]
                 ELSE [ld EXCEPT !.at = "find", !.di = @ + 1]
    <2>1. /\ heap' = [heap EXCEPT ![ld.tmp] = sum]
          /\ dark' = IF ld.di = Len(DarkFiles[ld.chan]) THEN [dark EXCEPT ![ld.chan] = sum] ELSE dark
      BY DEF AddDark
    <2>2. CASE ld.di = Len(DarkFiles[ld.chan])
      <3>1. ld' = [Idle EXCEPT !.at = "find", !.chan = ld.chan, !.di = ld.di + 1]
        BY <2>2 DEF AddDark
      <3>2. ld' = [at |-> "find", chan |-> ld.chan, di |-> ld.di + 1, tmp |-> NoBlock, tmp2 |-> NoBlock]
        BY <3>1 DEF Idle
      <3> QED BY <2>1, <2>2, <3>2
    <2>3. CASE ld.di # Len(DarkFiles[ld.chan])
      BY <2>1, <2>3 DEF AddDark
    <2> QED BY <2>2, <2>3
  <1>7. heap'[ld.tmp] = sum /\ (\A k \in Blocks : k # ld.tmp => heap'[k] = heap[k])
    <2> HIDE DEF sum
    <2> QED BY <1>5, <1>6 DEF TypeInv, TypeOK
  <1>8. ld'.at = "find" /\ ld'.chan = ld.chan /\ ld'.di = ld.di + 1
    <2>1. CASE ld.di = Len(DarkFiles[ld.chan])
      BY <1>6, <2>1
    <2>2. CASE ld.di # Len(DarkFiles[ld.chan])
      BY <1>1, <1>6, <2>2 DEF Loads
    <2> QED BY <2>1, <2>2
  <1>9. /\ ld.di = Len(DarkFiles[ld.chan]) => ld'.tmp = NoBlock /\ ld'.tmp2 = NoBlock
        /\ ld.di # Len(DarkFiles[ld.chan]) => ld'.tmp = ld.tmp /\ ld'.tmp2 = ld.tmp2
    BY <1>1, <1>6 DEF Loads
  <1>10. /\ ld.di = Len(DarkFiles[ld.chan]) => dark' = [dark EXCEPT ![ld.chan] = heap'[ld.tmp]]
         /\ ld.di # Len(DarkFiles[ld.chan]) => dark' = dark
    <2> HIDE DEF sum
    <2> QED BY <1>6, <1>7
  <1> QED BY <1>2, <1>3, <1>4, <1>5, <1>7, <1>8, <1>9, <1>10

\* A channel's images are cleared, and its files are to be unloaded.
LEMMA ClearIs ==
  ASSUME TypeInv, NEW j \in Jobs, ClearChannel(j)
  PROVE  \E c \in Channels :
         /\ phase[j] = "unloading" /\ c \in ul[j].chans /\ ul[j].files = {}
         /\ gain'[c] = NoBlock /\ dark'[c] = Zero
         /\ \A d \in Channels : d # c => gain'[d] = gain[d] /\ dark'[d] = dark[d]
         /\ ul'[j].chans = ul[j].chans \ {c} /\ ul'[j].files = FilesOf(c)
         /\ \A i \in Jobs : i # j => ul'[i] = ul[i]
         /\ UNCHANGED <<phase, loaded, ld, reading, cache, heap, torn, mixed, misled>>
  <1>1. PICK c \in ul[j].chans : /\ gain' = [gain EXCEPT ![c] = NoBlock]
                                 /\ dark' = [dark EXCEPT ![c] = Zero]
                                 /\ ul' = [ul EXCEPT ![j] = [chans |-> @.chans \ {c}, files |-> FilesOf(c)]]
    BY DEF ClearChannel
  <1>2. c \in Channels
    BY DEF TypeInv, TypeOK
  <1>3. /\ gain'[c] = NoBlock /\ dark'[c] = Zero
        /\ \A d \in Channels : d # c => gain'[d] = gain[d] /\ dark'[d] = dark[d]
    BY <1>1, <1>2 DEF TypeInv, TypeOK
  <1>4. ul'[j] = [chans |-> ul[j].chans \ {c}, files |-> FilesOf(c)] /\ (\A i \in Jobs : i # j => ul'[i] = ul[i])
    BY <1>1 DEF TypeInv, TypeOK
  <1> QED BY <1>1, <1>2, <1>3, <1>4 DEF ClearChannel, hist

\* One file is unloaded: its entry is kept or erased.
LEMMA UnloadIs ==
  ASSUME TypeInv, NEW j \in Jobs, Unload(j)
  PROVE  \E f \in Files :
         /\ f \in ul[j].files /\ ul'[j].chans = ul[j].chans /\ ul'[j].files = ul[j].files \ {f}
         /\ \A i \in Jobs : i # j => ul'[i] = ul[i]
         /\ \/ cache'[f] = Absent
            \/ cache'[f] = cache[f] /\ cache[f] \in Blocks /\ UseCount(cache[f]) >= 2
         /\ \A g \in Files : g # f => cache'[g] = cache[g]
         /\ \/ torn' = torn /\ mixed' = mixed
            \/ cache'[f] = Absent /\ torn' = torn \ {f} /\ mixed' = mixed \ {f}
         /\ UNCHANGED <<phase, loaded, ld, reading, heap, gain, dark, misled>>
  <1>1. PICK f \in ul[j].files : /\ cache' = [cache EXCEPT ![f] = IF @ \in Blocks /\ UseCount(@) >= 2 THEN @ ELSE Absent]
                                 /\ ul' = [ul EXCEPT ![j].files = @ \ {f}]
                                 /\ \/ torn' = torn /\ mixed' = mixed
                                    \/ cache'[f] = Absent /\ torn' = torn \ {f} /\ mixed' = mixed \ {f}
    BY DEF Unload
  <1>2. f \in Files
    BY DEF TypeInv, TypeOK
  <1>3. ul'[j] = [ul[j] EXCEPT !.files = ul[j].files \ {f}] /\ (\A i \in Jobs : i # j => ul'[i] = ul[i])
    BY <1>1 DEF TypeInv, TypeOK
  <1>4. ul[j] \in [chans : SUBSET Channels, files : SUBSET Files]
    BY DEF TypeInv, TypeOK
  <1>5. ul'[j].chans = ul[j].chans /\ ul'[j].files = ul[j].files \ {f}
    BY <1>3, <1>4
  <1>6. /\ \/ cache'[f] = Absent
           \/ cache'[f] = cache[f] /\ cache[f] \in Blocks /\ UseCount(cache[f]) >= 2
        /\ \A g \in Files : g # f => cache'[g] = cache[g]
    BY <1>1, <1>2 DEF TypeInv, TypeOK
  <1> QED BY <1>1, <1>2, <1>3, <1>5, <1>6 DEF Unload

\* A load begins with its first file.
LEMMA LoadIs ==
  ASSUME TypeInv, NEW c \in Channels, LoadCalib(c)
  PROVE  /\ ld.at = "idle" /\ c \notin loaded /\ phase[JobOf[c]] \in {"new", "loading"}
         /\ phase'[JobOf[c]] = "loading" /\ (\A j \in Jobs : j # JobOf[c] => phase'[j] = phase[j])
         /\ ld'.at = "find" /\ ld'.chan = c /\ ld'.di = 1 /\ ld'.tmp = NoBlock /\ ld'.tmp2 = NoBlock
         /\ UNCHANGED <<loaded, reading, cache, heap, gain, dark, ul, torn, mixed, misled>>
  <1>1. ld = Idle /\ ld' = [at |-> "find", chan |-> c, di |-> 1, tmp |-> NoBlock, tmp2 |-> NoBlock]
    BY DEF LoadCalib, Idle
  <1>2. JobOf[c] \in Jobs
    BY CalibAssumption
  <1>3. phase'[JobOf[c]] = "loading" /\ (\A j \in Jobs : j # JobOf[c] => phase'[j] = phase[j])
    BY <1>2 DEF LoadCalib, TypeInv, TypeOK
  <1> QED BY <1>1, <1>3 DEF LoadCalib, Idle, hist

\* A load ends with its last file.
LEMMA GainLoadedIs ==
  ASSUME TypeInv, GainLoaded
  PROVE  /\ ld.at = "got" /\ ~OnDark /\ ld.chan \in Channels /\ JobOf[ld.chan] \in Jobs
         /\ ld'.at = "idle" /\ ld'.tmp = NoBlock /\ ld'.tmp2 = NoBlock
         /\ loaded' = loaded \cup {ld.chan}
         /\ UNCHANGED <<phase, cache, heap, gain, dark, ul, torn, mixed, misled>>
  <1>1. ld.at = "got" /\ ld' = Idle
    BY DEF GainLoaded
  <1>2. ld.chan \in Channels /\ JobOf[ld.chan] \in Jobs
    BY <1>1, FileType, CalibAssumption
  <1> QED BY <1>1, <1>2 DEF GainLoaded, Idle, hist

\* A load ends because a file can not be read, which fails the job: the entry stays as it is, or
\* has a block that nobody else has.
LEMMA ReadFailsIs ==
  ASSUME TypeInv, ReadFails
  PROVE  \E g \in Files :
         /\ g = File /\ ld.at = "read" /\ ld.chan \in Channels /\ JobOf[ld.chan] \in Jobs
         /\ ld'.at = "idle" /\ ld'.tmp = NoBlock /\ ld'.tmp2 = NoBlock
         /\ \A f \in Files : f # g => cache'[f] = cache[f]
         /\ \/ cache'[g] = cache[g] /\ heap' = heap
            \/ /\ cache[g] \notin Blocks
               /\ cache'[g] \in Blocks
               /\ \A f \in Files : cache[f] # cache'[g]
               /\ \A k \in Blocks : k # cache'[g] => heap'[k] = heap[k]
         /\ phase'[JobOf[ld.chan]] = "failed" /\ (\A j \in Jobs : j # JobOf[ld.chan] => phase'[j] = phase[j])
         /\ torn' = torn \cup {g} /\ UNCHANGED <<loaded, gain, dark, ul, mixed, misled>>
  <1>1. ld.at = "read" /\ ld' = Idle
    BY DEF ReadFails
  <1>2. ld.chan \in Channels /\ JobOf[ld.chan] \in Jobs
    BY <1>1, FileType, CalibAssumption
  <1>3. PICK g \in Files : g = File
    BY <1>1, FileType
  <1>4. phase'[JobOf[ld.chan]] = "failed" /\ (\A j \in Jobs : j # JobOf[ld.chan] => phase'[j] = phase[j])
    BY <1>2 DEF ReadFails, TypeInv, TypeOK
  <1>5. /\ \A f \in Files : f # g => cache'[f] = cache[f]
        /\ \/ cache'[g] = cache[g] /\ heap' = heap
           \/ /\ cache[g] \notin Blocks
              /\ cache'[g] \in Blocks
              /\ \A f \in Files : cache[f] # cache'[g]
              /\ \A k \in Blocks : k # cache'[g] => heap'[k] = heap[k]
    <2>1. CASE UNCHANGED <<heap, cache>>
      BY <2>1
    <2>2. CASE cache[File] \notin Blocks /\ Allocate
      <3>1. PICK b \in Blocks : /\ UseCount(b) = 0
                                /\ heap' = [heap EXCEPT ![b] = Only(Unwritten)]
                                /\ cache' = [cache EXCEPT ![g] = b]
        BY <1>3, <2>2 DEF Allocate
      <3>2. \A f \in Files : cache[f] # b
        BY <3>1, UseCountHolders
      <3>3. cache'[g] = b /\ (\A f \in Files : f # g => cache'[f] = cache[f]) /\ (\A k \in Blocks : k # b => heap'[k] = heap[k])
        BY <3>1 DEF TypeInv, TypeOK
      <3> QED BY <1>3, <2>2, <3>2, <3>3
    <2> QED BY <2>1, <2>2 DEF ReadFails
  <1> QED BY <1>1, <1>2, <1>3, <1>4, <1>5 DEF ReadFails, Idle

-----------------------------------------------------------------------------
(* What holds for every load                                               *)

\* A channel's gain stays the cached image of its file.
LEMMA GainCachedStep ==
  ASSUME BaseInv, [Next]_vars
  PROVE  GainCached'
  <1>0. TypeInv /\ TypeOK /\ GainCached /\ (ld.at # "idle" => ld.chan \notin loaded)
    BY DEF BaseInv, TypeInv, JobsInv
  <1>a. \A c \in Channels : GainFile[c] \in Files
    BY DarkTypes
  <1>b. \A c \in Channels : gain[c] # NoBlock => gain[c] \in Blocks
    BY <1>0 DEF TypeOK
  <1>1. ASSUME NEW c \in Channels, LoadCalib(c) PROVE GainCached'
    BY <1>0, <1>1, LoadIs DEF GainCached, Reads
  <1>2. CASE Hit
    <2>1. PICK b \in Blocks : b = cache[File] /\ Assign(b)
      BY <1>2 DEF Hit
    <2>2. ld.at = "find" /\ UNCHANGED <<loaded, cache>>
      BY <1>2 DEF Hit
    <2>3. ld.chan \in Channels /\ ld'.chan = ld.chan /\ ld'.at = "got" /\ OnDark' = OnDark
      BY <1>0, <2>1, <2>2, FileType, AssignIs
    <2>4. \A c \in Channels : gain[c] # NoBlock => cache[GainFile[c]] = gain[c] /\ c \in loaded
      BY <1>0, <2>2 DEF GainCached
    <2>5. CASE OnDark
      <3>1. gain' = gain
        BY <1>0, <2>1, <2>2, <2>5, AssignIs
      <3> QED BY <2>2, <2>3, <2>4, <3>1 DEF GainCached, Reads
    <2>6. CASE ~OnDark
      <3>1. gain' = [gain EXCEPT ![ld.chan] = b] /\ cache[GainFile[ld.chan]] = b
        BY <1>0, <2>1, <2>2, <2>6, AssignIs DEF File
      <3>2. gain'[ld.chan] = b /\ (\A c \in Channels : c # ld.chan => gain'[c] = gain[c])
        BY <1>0, <2>3, <3>1 DEF TypeOK
      <3> QED BY <2>2, <2>3, <2>4, <2>6, <3>1, <3>2 DEF GainCached, Reads
    <2> QED BY <2>5, <2>6
  <1>3. CASE Miss
    <2>1. /\ ld.at = "find" /\ cache[File] \notin Blocks /\ File' = File
          /\ \A f \in Files : f # File => cache'[f] = cache[f]
          /\ UNCHANGED <<loaded, gain>>
      BY <1>0, <1>3, MissIs
    <2>2. \A c \in Channels : gain[c] # NoBlock => GainFile[c] # File /\ c \in loaded
      BY <1>0, <1>b, <2>1 DEF GainCached
    <2> QED BY <1>0, <1>a, <2>1, <2>2 DEF GainCached, Reads
  <1>4. CASE Read
    <2>1. PICK b \in Blocks, g \in Files :
            /\ g = File /\ ld.at = "read" /\ Assign(b) /\ cache'[g] = b
            /\ \A f \in Files : f # g => cache'[f] = cache[f]
            /\ loaded' = loaded
      BY <1>0, <1>4, ReadIs
    <2>2. ld.chan \in Channels /\ ld'.chan = ld.chan /\ ld'.at = "got" /\ OnDark' = OnDark
      BY <1>0, <2>1, FileType, AssignIs
    <2>3. \A c \in Channels : gain[c] # NoBlock => cache'[GainFile[c]] = gain[c] /\ c \in loaded
      BY <1>0, <1>a, <2>1 DEF GainCached, Reads
    <2>4. CASE OnDark
      <3>1. gain' = gain
        BY <1>0, <2>1, <2>4, AssignIs
      <3> QED BY <2>1, <2>2, <2>3, <3>1 DEF GainCached, Reads
    <2>5. CASE ~OnDark
      <3>1. gain' = [gain EXCEPT ![ld.chan] = b] /\ g = GainFile[ld.chan]
        BY <1>0, <2>1, <2>5, AssignIs DEF File
      <3>2. gain'[ld.chan] = b /\ (\A c \in Channels : c # ld.chan => gain'[c] = gain[c])
        BY <1>0, <2>2, <3>1 DEF TypeOK
      <3> QED BY <2>1, <2>2, <2>3, <2>5, <3>1, <3>2 DEF GainCached, Reads
    <2> QED BY <2>4, <2>5
  <1>5. CASE ReadFails
    <2>1. PICK g \in Files :
            /\ g = File /\ ld.at = "read" /\ ld'.at = "idle"
            /\ \A f \in Files : f # g => cache'[f] = cache[f]
            /\ UNCHANGED <<loaded, gain>>
      BY <1>0, <1>5, ReadFailsIs
    <2>2. \A c \in Channels : gain[c] # NoBlock => GainFile[c] # g
      BY <1>0, <2>1 DEF GainCached, Reads
    <2> QED BY <1>0, <1>a, <2>1, <2>2 DEF GainCached, Reads
  <1>6. CASE AddDark
    BY <1>0, <1>6, AddDarkIs DEF GainCached, Reads
  <1>7. CASE GainLoaded
    BY <1>0, <1>7, GainLoadedIs DEF GainCached, Reads
  <1>8. ASSUME NEW j \in Jobs, BeginUnload(j) \/ EndUnload(j) PROVE GainCached'
    <2>1. UNCHANGED <<loaded, ld, cache, gain>>
      BY <1>8 DEF BeginUnload, EndUnload
    <2> QED BY <1>0, <2>1 DEF GainCached, OnDark, Reads, File
  <1>9. ASSUME NEW j \in Jobs, ClearChannel(j) PROVE GainCached'
    <2>1. (\A c \in Channels : gain'[c] \in {gain[c], NoBlock}) /\ UNCHANGED <<loaded, ld, cache>>
      BY <1>0, <1>9, ClearIs
    <2> QED BY <1>0, <2>1 DEF GainCached, OnDark, Reads, File
  <1>10. ASSUME NEW j \in Jobs, Unload(j) PROVE GainCached'
    <2>1. PICK f \in Files :
            /\ cache' = [cache EXCEPT ![f] = IF @ \in Blocks /\ UseCount(@) >= 2 THEN @ ELSE Absent]
            /\ UNCHANGED <<loaded, ld, gain>>
      BY <1>0, <1>10 DEF Unload, TypeOK
    <2>2. \A c \in Channels : gain[c] # NoBlock => cache'[GainFile[c]] = cache[GainFile[c]]
      <3> SUFFICES ASSUME NEW c \in Channels, gain[c] # NoBlock
                   PROVE  cache'[GainFile[c]] = cache[GainFile[c]]
        OBVIOUS
      <3>1. PICK b \in Blocks : b = gain[c] /\ b = cache[GainFile[c]]
        BY <1>0, <1>b DEF GainCached
      <3>2. UseCount(b) >= 2
        BY <1>a, <3>1, UseCountHolders
      <3>3. cache \in [Files -> Blocks \cup {NoBlock, Absent}]
        BY <1>0 DEF TypeOK
      <3> QED BY <1>a, <2>1, <3>1, <3>2, <3>3
    <2> QED BY <1>0, <2>1, <2>2 DEF GainCached, OnDark, Reads, File
  <1>11. CASE UNCHANGED vars
    BY <1>0, <1>11 DEF vars, GainCached, OnDark, Reads, File
  <1> QED
    BY <1>1, <1>2, <1>3, <1>4, <1>5, <1>6, <1>7, <1>8, <1>9, <1>10, <1>11 DEF Next


\* Every step keeps it.
LEMMA BaseStep == BaseInv /\ [Next]_vars => BaseInv'
  <1> SUFFICES ASSUME BaseInv, [Next]_vars PROVE JobsInv' /\ FreshInv'
    BY TypeStep, GainCachedStep DEF BaseInv
  <1>0. TypeInv /\ JobsInv /\ FreshInv
    BY DEF BaseInv
  <1>a. JobOf \in [Channels -> Jobs] /\ loaded \subseteq Channels
    BY <1>0, CalibAssumption DEF TypeInv, TypeOK
  <1>1. ASSUME NEW c \in Channels, LoadCalib(c) PROVE JobsInv' /\ FreshInv'
    BY <1>0, <1>a, <1>1, LoadIs DEF JobsInv, FreshInv, ChannelsOf, OnDark
  <1>2. CASE Hit
    <2>1. PICK b \in Blocks : Assign(b)
      BY <1>2 DEF Hit
    <2>2. ld.at = "find" /\ UNCHANGED <<phase, loaded, ul>>
      BY <1>2 DEF Hit
    <2>3. JobsInv'
      BY <1>0, <2>1, <2>2, AssignIs DEF JobsInv, ChannelsOf
    <2> QED BY <1>0, <2>1, <2>2, <2>3, AssignIs DEF FreshInv
  <1>3. CASE Miss
    BY <1>0, <1>3, MissIs DEF JobsInv, FreshInv, ChannelsOf, OnDark
  <1>4. CASE Read
    <2>1. PICK b \in Blocks : Assign(b)
      BY <1>4 DEF Read
    <2>2. ld.at = "read" /\ UNCHANGED <<phase, loaded, ul>>
      BY <1>4 DEF Read
    <2>3. JobsInv'
      BY <1>0, <2>1, <2>2, AssignIs DEF JobsInv, ChannelsOf
    <2> QED BY <1>0, <2>1, <2>2, <2>3, AssignIs DEF FreshInv
  <1>5. CASE ReadFails
    <2>1. /\ ld'.at = "idle" /\ UNCHANGED <<loaded, ul>>
          /\ \A j \in Jobs : phase'[j] # "new" \/ phase'[j] = phase[j]
      BY <1>0, <1>5, ReadFailsIs DEF TypeInv, TypeOK
    <2> QED BY <1>0, <1>a, <2>1 DEF JobsInv, FreshInv, ChannelsOf, OnDark
  <1>6. CASE AddDark
    <2>1. JobsInv'
      BY <1>0, <1>6, AddDarkIs DEF JobsInv, ChannelsOf
    <2>2. FreshInv'
      <3>1. /\ ld.at = "got" /\ ld'.at = "find" /\ ld'.chan = ld.chan /\ ld'.di = ld.di + 1
            /\ ld.di \in Nat \ {0} /\ ld.di <= Len(DarkFiles[ld.chan]) /\ Len(DarkFiles[ld.chan]) \in Nat
            /\ ld.di = Len(DarkFiles[ld.chan]) => ld'.tmp = NoBlock /\ ld'.tmp2 = NoBlock
            /\ ld.di # Len(DarkFiles[ld.chan]) => ld'.tmp = ld.tmp /\ ld'.tmp2 = ld.tmp2
        BY <1>0, <1>6, AddDarkIs
      <3>2. ~OnDark' => ld.di = Len(DarkFiles[ld.chan])
        BY <3>1 DEF OnDark
      <3> QED BY <1>0, <3>1, <3>2 DEF FreshInv
    <2> QED BY <2>1, <2>2
  <1>7. CASE GainLoaded
    <2>1. phase[JobOf[ld.chan]] # "new"
      BY <1>0, <1>7, GainLoadedIs DEF JobsInv
    <2> QED BY <1>0, <1>7, <2>1, GainLoadedIs DEF JobsInv, FreshInv, ChannelsOf, OnDark
  <1>8. ASSUME NEW j \in Jobs, BeginUnload(j) PROVE JobsInv' /\ FreshInv'
    <2>1. ChannelsOf(j) \subseteq loaded /\ UNCHANGED <<loaded, ld>>
      BY <1>8 DEF BeginUnload
    <2>2. phase'[j] = "unloading" /\ (\A i \in Jobs : i # j => phase'[i] = phase[i])
      BY <1>0, <1>8 DEF BeginUnload, TypeInv, TypeOK
    <2>3. ul[j] \in [chans : SUBSET Channels, files : SUBSET Files]
      BY <1>0 DEF TypeInv, TypeOK
    <2>4. ul'[j] = [ul[j] EXCEPT !.chans = ChannelsOf(j)] /\ (\A i \in Jobs : i # j => ul'[i] = ul[i])
      BY <1>0, <1>8 DEF BeginUnload, TypeInv, TypeOK
    <2>5. ul'[j].chans = ChannelsOf(j)
      BY <2>3, <2>4
    <2>6. ld.at # "idle" => ld.chan \in Channels /\ JobOf[ld.chan] # j
      BY <1>0, <1>a, <2>1, FileType DEF ChannelsOf, JobsInv
    <2>7. \A i \in Jobs : ul'[i].chans \subseteq ChannelsOf(i)
      BY <1>0, <2>4, <2>5 DEF JobsInv
    <2>8. \A c \in loaded : phase'[JobOf[c]] # "new"
      BY <1>0, <1>a, <2>2 DEF JobsInv
    <2>9. ld.at # "idle" => phase'[JobOf[ld.chan]] = "loading"
      BY <1>0, <1>a, <2>2, <2>6 DEF JobsInv
    <2> QED BY <1>0, <2>1, <2>7, <2>8, <2>9 DEF JobsInv, FreshInv, ChannelsOf, OnDark
  <1>9. ASSUME NEW j \in Jobs, EndUnload(j) PROVE JobsInv' /\ FreshInv'
    <2>1. phase[j] = "unloading" /\ UNCHANGED <<loaded, ld, ul>>
      BY <1>9 DEF EndUnload
    <2>2. phase'[j] = "gone" /\ (\A i \in Jobs : i # j => phase'[i] = phase[i])
      BY <1>0, <1>9 DEF EndUnload, TypeInv, TypeOK
    <2>3. ld.at # "idle" => ld.chan \in Channels /\ JobOf[ld.chan] # j
      BY <1>0, <2>1, FileType DEF JobsInv
    <2> QED BY <1>0, <1>a, <2>1, <2>2, <2>3 DEF JobsInv, FreshInv, ChannelsOf, OnDark
  <1>10. ASSUME NEW j \in Jobs, ClearChannel(j) PROVE JobsInv' /\ FreshInv'
    BY <1>0, <1>10, ClearIs DEF JobsInv, FreshInv, ChannelsOf, OnDark
  <1>11. ASSUME NEW j \in Jobs, Unload(j) PROVE JobsInv' /\ FreshInv'
    BY <1>0, <1>11, UnloadIs DEF JobsInv, FreshInv, ChannelsOf, OnDark
  <1>12. CASE UNCHANGED vars
    BY <1>0, <1>12 DEF vars, JobsInv, FreshInv, ChannelsOf, OnDark
  <1> QED
    BY <1>1, <1>2, <1>3, <1>4, <1>5, <1>6, <1>7, <1>8, <1>9, <1>10, <1>11, <1>12 DEF Next

\* It holds at first.
LEMMA BaseInit == Init => BaseInv
  <1> SUFFICES ASSUME Init PROVE BaseInv
    OBVIOUS
  <1>1. TypeInv
    BY TypeInit
  <1>2. GainCached /\ JobsInv /\ FreshInv
    BY DEF Init, Idle, GainCached, JobsInv, FreshInv
  <1> QED BY <1>1, <1>2 DEF BaseInv

-----------------------------------------------------------------------------
(* Nothing stays in the cache                                              *)

\* If no other entry has the block, a use count of 2 is that of a gain, tmp or tmp2.
LEMMA OtherHolder ==
  ASSUME NEW b \in Blocks, NEW f \in Files, UseCount(b) >= 2, \A g \in Files : g # f => cache[g] # b
  PROVE  (\E c \in Channels : gain[c] = b) \/ ld.tmp = b \/ ld.tmp2 = b
  <1> DEFINE F == {g \in Files : cache[g] = b}
             G == {c \in Channels : gain[c] = b}
             T == {v \in {"tmp", "tmp2"} : ld[v] = b}
  <1> SUFFICES ASSUME G = {}, T = {} PROVE FALSE
    OBVIOUS
  <1>1. UseCount(b) = Cardinality(F) + Cardinality(G) + Cardinality(T)
    BY DEF UseCount
  <1>2. Cardinality(G) = 0 /\ Cardinality(T) = 0
    BY FS_EmptySet
  <1>3. F \subseteq {f} /\ IsFiniteSet({f}) /\ Cardinality({f}) = 1
    BY FS_Singleton
  <1>4. Cardinality(F) <= 1 /\ Cardinality(F) \in Nat
    BY <1>3, FS_Subset, FS_CardinalityType
  <1> HIDE DEF F, G, T
  <1> QED BY <1>1, <1>2, <1>4

\* A load that looks for a file passes an empty image, or tmp2 for a dark of a long list.
LEMMA ImageIs ==
  ASSUME BaseInv, ld.at = "find"
  PROVE  Img = NoBlock \/ (OnDark /\ Img = ld.tmp2 /\ ~Short(File) /\ Len(DarkFiles[ld.chan]) > 2)
  <1>1. ld.chan \in Channels /\ ld.di \in Nat \ {0} /\ Len(DarkFiles[ld.chan]) \in Nat
    BY FileType DEF BaseInv
  <1>2. CASE ~OnDark
    BY <1>1, <1>2 DEF Img, BaseInv, GainCached, JobsInv
  <1>3. CASE OnDark /\ ld.di \in {1, 2}
    BY <1>3 DEF Img, BaseInv, FreshInv
  <1>4. CASE OnDark /\ ld.di > 2
    <2>1. Len(DarkFiles[ld.chan]) > 2 /\ Img = ld.tmp2
      BY <1>1, <1>4 DEF OnDark, Img
    <2>2. File \in DarksOf(ld.chan)
      BY <1>1, <1>4, DarkTypes DEF File, OnDark, DarksOf
    <2> QED BY <1>1, <1>4, <2>1, <2>2 DEF Short
  <1> QED BY <1>1, <1>2, <1>3, <1>4

\* The current file is one of the channel's.
LEMMA FileOfChannel ==
  ASSUME TypeInv, ld.at # "idle"
  PROVE  File \in FilesOf(ld.chan) /\ (OnDark => File \in DarksOf(ld.chan))
  <1>1. ld.chan \in Channels /\ ld.di \in Nat \ {0} /\ Len(DarkFiles[ld.chan]) \in Nat
    BY FileType
  <1>2. DOMAIN DarkFiles[ld.chan] = 1..Len(DarkFiles[ld.chan])
    BY <1>1, DarkTypes
  <1> QED BY <1>1, <1>2 DEF FilesOf, DarksOf, File, OnDark

\* Loads keep the entries apart, and each entry with a channel that will unload it.
LEMMA LeftLoads ==
  ASSUME LeftInv, (\E c \in Channels : LoadCalib(c)) \/ Hit \/ Miss \/ Read \/ AddDark \/ GainLoaded \/ ReadFails
  PROVE  EntryInv' /\ HolderInv' /\ OwnerInv'
  <1>0. TypeInv /\ BaseInv /\ JobsInv /\ FreshInv /\ EntryInv /\ HolderInv /\ OwnerInv
    BY DEF LeftInv, BaseInv
  <1>a. NoBlock \notin Blocks /\ Absent \notin Blocks /\ NoBlock # Absent
    BY BlockAssumption DEF NoBlock, Absent
  <1>b. JobOf \in [Channels -> Jobs]
    BY CalibAssumption
  <1>1. ASSUME NEW c \in Channels, LoadCalib(c) PROVE EntryInv' /\ HolderInv' /\ OwnerInv'
    <2>1. EntryInv'
      BY <1>0, <1>1, <1>a, LoadIs DEF EntryInv, Short, DarksOf
    <2>2. \A d \in Channels : phase'[JobOf[d]] = phase[JobOf[d]] \/ (phase'[JobOf[d]] = "loading" /\ phase[JobOf[d]] \in {"new", "loading"})
      BY <1>0, <1>1, <1>b, LoadIs
    <2>3. UNCHANGED <<cache, gain, ul>>
      BY <1>0, <1>1, LoadIs
    <2>4. HolderInv'
      BY <1>0, <2>2, <2>3 DEF HolderInv
    <2>5. \A f \in Files, d \in Channels : Responsible(d, f) => Responsible(d, f)'
      BY <2>2, <2>3 DEF Responsible, FilesOf, DarksOf
    <2>6. OwnerInv'
      BY <1>0, <2>3, <2>5 DEF OwnerInv, Short, DarksOf
    <2> QED BY <2>1, <2>4, <2>6
  <1>2. CASE Hit \/ Read
    <2>1. PICK b \in Blocks, g \in Files :
            /\ g = File /\ ld.at \in {"find", "read"} /\ Assign(b)
            /\ cache[g] = b \/ (cache[g] \notin Blocks /\ (\A f \in Files : cache[f] # b) /\ ld.tmp # b /\ ld.tmp2 # b)
            /\ cache'[g] = b /\ (\A f \in Files : f # g => cache'[f] = cache[f])
            /\ UNCHANGED <<phase, ul>>
      <3>1. CASE Hit
        <4>1. ld.at = "find" /\ cache[File] \in Blocks /\ Assign(cache[File]) /\ UNCHANGED <<phase, cache, ul>>
          BY <3>1 DEF Hit
        <4>2. PICK g \in Files : g = File
          BY <1>0, <4>1, FileType
        <4>3. PICK b \in Blocks : b = cache[g]
          BY <4>1, <4>2
        <4>4. Assign(b)
          BY <4>1, <4>2, <4>3
        <4> QED BY <4>1, <4>2, <4>3, <4>4
      <3>2. CASE Read
        BY <1>0, <3>2, ReadIs
      <3> QED BY <1>2, <3>1, <3>2
    <2>2. /\ ld'.at = "got" /\ ld'.chan = ld.chan
          /\ ld'.tmp \in {ld.tmp, b} /\ ld'.tmp2 \in {ld.tmp2, b}
          /\ ~OnDark => ld'.tmp = ld.tmp /\ ld'.tmp2 = ld.tmp2
          /\ \A c \in Channels : gain'[c] = gain[c] \/ c = ld.chan
      BY <1>0, <2>1, AssignIs DEF TypeInv, TypeOK
    <2>3. g \in FilesOf(ld.chan) /\ (OnDark => g \in DarksOf(ld.chan)) /\ ld.chan \in Channels /\ phase[JobOf[ld.chan]] = "loading"
      BY <1>0, <2>1, FileOfChannel, FileType DEF JobsInv
    <2>4. \A f \in Files : f # g /\ Short(f) /\ cache[f] \in Blocks => cache[f] # b
      BY <1>0, <2>1 DEF EntryInv
    <2>5. EntryInv'
      <3> SUFFICES ASSUME NEW f \in Files, Short(f), cache'[f] \in Blocks
                   PROVE  /\ \A h \in Files \ {f} : cache'[h] # cache'[f]
                          /\ cache'[f] \in {ld'.tmp, ld'.tmp2} => f \in DarksOf(ld.chan)
        BY <2>2 DEF EntryInv, Short, DarksOf
      <3>1. CASE f = g
        <4>1. \A h \in Files \ {f} : cache[h] # b
          BY <1>0, <2>1, <3>1 DEF EntryInv
        <4>2. b \in {ld.tmp, ld.tmp2} => f \in DarksOf(ld.chan)
          BY <1>0, <2>1, <3>1 DEF EntryInv
        <4> QED BY <2>1, <2>2, <2>3, <3>1, <4>1, <4>2
      <3>2. CASE f # g
        <4>1. cache'[f] = cache[f] /\ cache[f] # b
          BY <2>1, <2>4, <3>2
        <4>2. /\ \A h \in Files \ {f} : cache[h] # cache[f]
              /\ cache[f] \in {ld.tmp, ld.tmp2} => f \in DarksOf(ld.chan)
          BY <1>0, <4>1 DEF EntryInv
        <4> QED BY <2>1, <2>2, <4>1, <4>2
      <3> QED BY <3>1, <3>2
    <2>6. HolderInv'
      BY <1>0, <2>1, <2>2, <2>3 DEF HolderInv
    <2>7. Responsible(ld.chan, g)
      BY <2>3 DEF Responsible
    <2>8. OwnerInv'
      BY <1>0, <2>1, <2>3, <2>7 DEF OwnerInv, Responsible, FilesOf, Short, DarksOf
    <2> QED BY <2>5, <2>6, <2>8
  <1>3. CASE Miss
    <2>1. PICK g \in Files : g = File
      BY <1>0, <1>3, MissIs, FileType
    <2>2. /\ cache[g] \notin Blocks /\ (\A f \in Files : f # g => cache'[f] = cache[f])
          /\ cache'[g] \notin Blocks \/ (cache'[g] = ld.tmp2 /\ ~Short(g) /\ Len(DarkFiles[ld.chan]) > 2)
      BY <1>0, <1>3, <1>a, <2>1, MissIs, ImageIs
    <2>3. /\ ld'.at = "read" /\ ld'.chan = ld.chan /\ ld'.tmp = ld.tmp /\ ld'.tmp2 = ld.tmp2 /\ ld.at = "find"
          /\ UNCHANGED <<phase, gain, ul>>
      BY <1>0, <1>3, MissIs
    <2>4. EntryInv'
      <3> SUFFICES ASSUME NEW f \in Files, Short(f), cache'[f] \in Blocks
                   PROVE  /\ \A h \in Files \ {f} : cache'[h] # cache'[f]
                          /\ cache'[f] \in {ld.tmp, ld.tmp2} => f \in DarksOf(ld.chan)
        BY <2>3 DEF EntryInv, Short, DarksOf
      <3>1. f # g /\ cache'[f] = cache[f]
        BY <2>2
      <3>2. /\ \A h \in Files \ {f} : cache[h] # cache[f]
            /\ cache[f] \in {ld.tmp, ld.tmp2} => f \in DarksOf(ld.chan)
        BY <1>0, <3>1 DEF EntryInv
      <3>3. cache'[g] # cache[f]
        <4> SUFFICES ASSUME cache'[g] = cache[f] PROVE FALSE
          OBVIOUS
        <4>1. f \in DarksOf(ld.chan) /\ Len(DarkFiles[ld.chan]) > 2
          BY <2>2, <3>1, <3>2
        <4>2. ld.chan \in Channels /\ Len(DarkFiles[ld.chan]) \in Nat
          BY <1>0, <2>3, FileType
        <4>3. Len(DarkFiles[ld.chan]) <= 2
          BY <4>1, <4>2 DEF Short
        <4> QED BY <4>1, <4>2, <4>3
      <3> QED BY <2>2, <3>1, <3>2, <3>3
    <2>5. HolderInv'
      BY <1>0, <2>3 DEF HolderInv
    <2>6. Responsible(ld.chan, g) /\ ld.chan \in Channels
      BY <1>0, <2>1, <2>3, FileOfChannel, FileType DEF JobsInv, Responsible
    <2>7. OwnerInv'
      BY <1>0, <2>2, <2>3, <2>6 DEF OwnerInv, Responsible, FilesOf, Short, DarksOf
    <2> QED BY <2>4, <2>5, <2>7
  <1>4. CASE AddDark
    <2>1. /\ ld.at = "got" /\ ld'.at = "find" /\ ld'.chan = ld.chan
          /\ ld'.tmp \in {ld.tmp, NoBlock} /\ ld'.tmp2 \in {ld.tmp2, NoBlock}
          /\ UNCHANGED <<phase, cache, gain, ul>>
      BY <1>0, <1>4, AddDarkIs
    <2>2. EntryInv'
      BY <1>0, <1>a, <2>1 DEF EntryInv, DarksOf, Short
    <2>3. \A f \in Files, d \in Channels : Responsible(d, f) => Responsible(d, f)'
      BY <2>1 DEF Responsible, FilesOf, DarksOf
    <2> QED BY <1>0, <2>1, <2>2, <2>3 DEF HolderInv, OwnerInv, Short, DarksOf
  <1>5. CASE GainLoaded
    <2>1. ld'.at = "idle" /\ ld'.tmp = NoBlock /\ ld'.tmp2 = NoBlock /\ UNCHANGED <<phase, cache, gain, ul>>
      BY <1>0, <1>5, GainLoadedIs
    <2>2. EntryInv'
      BY <1>0, <1>a, <2>1 DEF EntryInv, Short, DarksOf
    <2>3. \A f \in Files, d \in Channels : Responsible(d, f) => Responsible(d, f)'
      BY <2>1 DEF Responsible, FilesOf, DarksOf
    <2> QED BY <1>0, <2>1, <2>2, <2>3 DEF HolderInv, OwnerInv, Short, DarksOf
  <1>6. CASE ReadFails
    <2>1. PICK g \in Files :
            /\ g = File /\ ld.at = "read" /\ ld.chan \in Channels /\ JobOf[ld.chan] \in Jobs
            /\ ld'.at = "idle" /\ ld'.tmp = NoBlock /\ ld'.tmp2 = NoBlock
            /\ \A f \in Files : f # g => cache'[f] = cache[f]
            /\ cache'[g] = cache[g] \/ (\A f \in Files : cache[f] # cache'[g])
            /\ phase'[JobOf[ld.chan]] = "failed" /\ (\A j \in Jobs : j # JobOf[ld.chan] => phase'[j] = phase[j])
            /\ UNCHANGED <<gain, ul>>
      BY <1>0, <1>6, ReadFailsIs
    <2>2. EntryInv'
      BY <1>0, <1>a, <2>1 DEF EntryInv, Short, DarksOf
    <2>3. \A d \in Channels : \/ phase'[JobOf[d]] = phase[JobOf[d]]
                              \/ phase'[JobOf[d]] = "failed" /\ phase[JobOf[d]] = "loading"
      BY <1>0, <1>b, <2>1 DEF JobsInv
    <2>4. HolderInv'
      BY <1>0, <2>1, <2>3 DEF HolderInv
    <2>5. \A f \in Files, d \in Channels : Responsible(d, f) => Responsible(d, f)'
      BY <2>1, <2>3 DEF Responsible, FilesOf, DarksOf
    <2>6. Responsible(ld.chan, g)
      BY <1>0, <2>1, FileOfChannel DEF JobsInv, Responsible
    <2>7. OwnerInv'
      <3> SUFFICES ASSUME NEW f \in Files, Short(f), cache'[f] # Absent
                   PROVE  \E d \in Channels : Responsible(d, f)'
        BY DEF OwnerInv, Short, DarksOf
      <3>1. \E d \in Channels : Responsible(d, f)
        BY <1>0, <2>1, <2>6 DEF OwnerInv, Short, DarksOf
      <3> QED BY <2>5, <3>1
    <2> QED BY <2>2, <2>4, <2>7
  <1> QED BY <1>1, <1>2, <1>3, <1>4, <1>5, <1>6

\* An unload erases what nobody else has, so an entry that stays has another channel.
LEMMA LeftUnloads ==
  ASSUME LeftInv, NEW j \in Jobs, BeginUnload(j) \/ ClearChannel(j) \/ Unload(j) \/ EndUnload(j)
  PROVE  EntryInv' /\ HolderInv' /\ OwnerInv'
  <1>0. TypeInv /\ BaseInv /\ JobsInv /\ FreshInv /\ EntryInv /\ HolderInv /\ OwnerInv /\ GainCached
    BY DEF LeftInv, BaseInv
  <1>a. NoBlock \notin Blocks /\ Absent \notin Blocks
    BY BlockAssumption
  <1>b. JobOf \in [Channels -> Jobs] /\ GainFile \in [Channels -> Files]
    BY CalibAssumption
  <1>1. CASE BeginUnload(j)
    <2>1. phase[j] = "loading" /\ UNCHANGED <<ld, cache, gain>>
      BY <1>1 DEF BeginUnload
    <2>2. phase'[j] = "unloading" /\ (\A i \in Jobs : i # j => phase'[i] = phase[i])
      BY <1>0, <1>1 DEF BeginUnload, TypeInv, TypeOK
    <2>3. ul[j] \in [chans : SUBSET Channels, files : SUBSET Files]
      BY <1>0 DEF TypeInv, TypeOK
    <2>4. ul'[j] = [ul[j] EXCEPT !.chans = ChannelsOf(j)] /\ (\A i \in Jobs : i # j => ul'[i] = ul[i])
      BY <1>0, <1>1 DEF BeginUnload, TypeInv, TypeOK
    <2>5. ul'[j].chans = ChannelsOf(j)
      BY <2>3, <2>4
    <2>6. \A c \in Channels : JobOf[c] = j => c \in ul'[j].chans
      BY <2>5 DEF ChannelsOf
    <2>7. EntryInv'
      BY <1>0, <2>1 DEF EntryInv, Short, DarksOf
    <2>8. HolderInv'
      <3> SUFFICES ASSUME NEW c \in Channels, gain[c] # NoBlock
                   PROVE  \/ phase'[JobOf[c]] \in {"loading", "failed"}
                          \/ phase'[JobOf[c]] = "unloading" /\ c \in ul'[JobOf[c]].chans
        BY <2>1 DEF HolderInv
      <3>1. JobOf[c] \in Jobs
        BY <1>b
      <3>2. CASE JobOf[c] = j
        BY <2>2, <2>6, <3>2
      <3>3. CASE JobOf[c] # j
        BY <1>0, <2>2, <2>4, <3>1, <3>3 DEF HolderInv
      <3> QED BY <3>2, <3>3
    <2>9. \A f \in Files, d \in Channels : Responsible(d, f) => Responsible(d, f)'
      <3> SUFFICES ASSUME NEW f \in Files, NEW d \in Channels, Responsible(d, f) PROVE Responsible(d, f)'
        OBVIOUS
      <3>1. JobOf[d] \in Jobs
        BY <1>b
      <3>2. CASE JobOf[d] = j
        BY <2>2, <2>6, <3>2 DEF Responsible, FilesOf, DarksOf
      <3>3. CASE JobOf[d] # j
        BY <2>2, <2>4, <3>1, <3>3 DEF Responsible, FilesOf, DarksOf
      <3> QED BY <3>2, <3>3
    <2>10. OwnerInv'
      BY <1>0, <2>1, <2>9 DEF OwnerInv, Short, DarksOf
    <2> QED BY <2>7, <2>8, <2>10
  <1>2. CASE EndUnload(j)
    <2>1. phase[j] = "unloading" /\ ul[j] = [chans |-> {}, files |-> {}] /\ UNCHANGED <<ld, cache, gain, ul>>
      BY <1>2 DEF EndUnload
    <2>2. phase'[j] = "gone" /\ (\A i \in Jobs : i # j => phase'[i] = phase[i])
      BY <1>0, <1>2 DEF EndUnload, TypeInv, TypeOK
    <2>3. ul[j].chans = {} /\ ul[j].files = {}
      BY <2>1
    <2>4. EntryInv'
      BY <1>0, <2>1 DEF EntryInv, Short, DarksOf
    <2>5. HolderInv'
      BY <1>0, <1>b, <2>1, <2>2, <2>3 DEF HolderInv
    <2>6. \A f \in Files, d \in Channels : Responsible(d, f) => Responsible(d, f)'
      BY <1>b, <2>1, <2>2, <2>3 DEF Responsible, FilesOf, DarksOf
    <2>7. OwnerInv'
      BY <1>0, <2>1, <2>6 DEF OwnerInv, Short, DarksOf
    <2> QED BY <2>4, <2>5, <2>7
  <1>3. CASE ClearChannel(j)
    <2>1. PICK c \in Channels :
            /\ phase[j] = "unloading" /\ c \in ul[j].chans /\ ul[j].files = {} /\ gain'[c] = NoBlock
            /\ \A d \in Channels : d # c => gain'[d] = gain[d]
            /\ ul'[j].chans = ul[j].chans \ {c} /\ ul'[j].files = FilesOf(c)
            /\ \A i \in Jobs : i # j => ul'[i] = ul[i]
            /\ UNCHANGED <<phase, ld, cache>>
      BY <1>0, <1>3, ClearIs
    <2>2. EntryInv'
      BY <1>0, <2>1 DEF EntryInv, Short, DarksOf
    <2>3. HolderInv'
      BY <1>0, <1>b, <2>1 DEF HolderInv
    <2>4. \A f \in Files, d \in Channels : Responsible(d, f) => Responsible(d, f)'
      <3> SUFFICES ASSUME NEW f \in Files, NEW d \in Channels, Responsible(d, f) PROVE Responsible(d, f)'
        OBVIOUS
      <3>1. JobOf[d] \in Jobs /\ f \in FilesOf(d)
        BY <1>b DEF Responsible
      <3>2. CASE JobOf[d] = j
        <4>1. d = c \/ d \in ul'[j].chans
          BY <2>1, <3>2 DEF Responsible
        <4>2. d \in ul'[j].chans \/ f \in ul'[j].files
          BY <2>1, <3>1, <4>1
        <4> QED BY <2>1, <3>1, <3>2, <4>2 DEF Responsible, FilesOf, DarksOf
      <3>3. CASE JobOf[d] # j
        BY <2>1, <3>1, <3>3 DEF Responsible, FilesOf, DarksOf
      <3> QED BY <3>2, <3>3
    <2>5. OwnerInv'
      BY <1>0, <2>1, <2>4 DEF OwnerInv, Short, DarksOf
    <2> QED BY <2>2, <2>3, <2>5
  <1>4. CASE Unload(j)
    <2>1. PICK f \in Files :
            /\ f \in ul[j].files /\ ul'[j].chans = ul[j].chans /\ ul'[j].files = ul[j].files \ {f}
            /\ \A i \in Jobs : i # j => ul'[i] = ul[i]
            /\ \/ cache'[f] = Absent
               \/ cache'[f] = cache[f] /\ cache[f] \in Blocks /\ UseCount(cache[f]) >= 2
            /\ \A g \in Files : g # f => cache'[g] = cache[g]
            /\ UNCHANGED <<phase, ld, gain>>
      BY <1>0, <1>4, UnloadIs
    <2>2. \A g \in Files : cache'[g] \in Blocks => cache'[g] = cache[g]
      BY <1>a, <2>1
    <2>3. EntryInv'
      BY <1>0, <2>1, <2>2 DEF EntryInv, Short, DarksOf
    <2>4. HolderInv'
      BY <1>0, <1>b, <2>1 DEF HolderInv
    <2>5. \A g \in Files, d \in Channels : g # f /\ Responsible(d, g) => Responsible(d, g)'
      <3> SUFFICES ASSUME NEW g \in Files, NEW d \in Channels, g # f, Responsible(d, g) PROVE Responsible(d, g)'
        OBVIOUS
      <3>1. JobOf[d] \in Jobs
        BY <1>b
      <3>2. CASE JobOf[d] = j
        BY <2>1, <3>2 DEF Responsible, FilesOf, DarksOf
      <3>3. CASE JobOf[d] # j
        BY <2>1, <3>1, <3>3 DEF Responsible, FilesOf, DarksOf
      <3> QED BY <3>2, <3>3
    <2>6. ASSUME cache'[f] # Absent, Short(f) PROVE \E d \in Channels : Responsible(d, f)'
      <3>1. PICK b \in Blocks : b = cache[f] /\ UseCount(b) >= 2
        BY <2>1, <2>6
      <3>2. \A g \in Files : g # f => cache[g] # b
        BY <1>0, <2>6, <3>1 DEF EntryInv
      <3>3. (\E c \in Channels : gain[c] = b) \/ ld.tmp = b \/ ld.tmp2 = b
        BY <3>1, <3>2, OtherHolder
      <3>4. ASSUME NEW c \in Channels, gain[c] = b PROVE Responsible(c, f)'
        <4>1. cache[GainFile[c]] = b
          BY <1>0, <1>a, <3>4 DEF GainCached
        <4>2. f = GainFile[c]
          BY <1>b, <3>2, <4>1
        <4>3. f \in FilesOf(c)
          BY <4>2 DEF FilesOf
        <4>4. \/ phase[JobOf[c]] \in {"loading", "failed"}
              \/ phase[JobOf[c]] = "unloading" /\ c \in ul[JobOf[c]].chans
          BY <1>0, <1>a, <3>4 DEF HolderInv
        <4>5. ul'[JobOf[c]].chans = ul[JobOf[c]].chans
          BY <1>b, <2>1
        <4> QED BY <2>1, <4>3, <4>4, <4>5 DEF Responsible, FilesOf, DarksOf
      <3>5. ASSUME ld.tmp = b \/ ld.tmp2 = b PROVE Responsible(ld.chan, f)' /\ ld.chan \in Channels
        <4>1. ld.at # "idle" /\ f \in FilesOf(ld.chan)
          BY <1>0, <2>6, <3>1, <3>5 DEF EntryInv, FilesOf
        <4>2. phase[JobOf[ld.chan]] = "loading" /\ ld.chan \in Channels
          BY <1>0, <4>1, FileType DEF JobsInv
        <4> QED BY <2>1, <4>1, <4>2 DEF Responsible, FilesOf, DarksOf
      <3>6. CASE \E c \in Channels : gain[c] = b
        BY <3>4, <3>6
      <3>7. CASE ld.tmp = b \/ ld.tmp2 = b
        <4>1. PICK c \in Channels : c = ld.chan
          BY <3>5, <3>7
        <4>2. ld' = ld
          BY <2>1
        <4> QED BY <3>5, <3>7, <4>1, <4>2
      <3> QED BY <3>3, <3>6, <3>7
    <2>7. OwnerInv'
      BY <1>0, <2>1, <2>5, <2>6 DEF OwnerInv, Short, DarksOf
    <2> QED BY <2>3, <2>4, <2>7
  <1> QED BY <1>1, <1>2, <1>3, <1>4

\* A file that only lists of one or two darks use stays in the cache only while a job that uses it
\* is not through with unloading, however loads and unloads interleave, whatever longer lists
\* leave there and whichever reads fail (channel.cpp 737-765, cachedfile.hpp 62-74).
THEOREM ShortListsLeaveNothing == Spec => []ShortErased
  <1>1. Init => LeftInv
    <2> SUFFICES ASSUME Init PROVE LeftInv
      OBVIOUS
    <2>1. BaseInv
      BY BaseInit
    <2>2. \A f \in Files : cache[f] = Absent
      BY DEF Init
    <2>3. EntryInv /\ OwnerInv
      BY <2>2, BlockAssumption DEF EntryInv, OwnerInv
    <2>4. HolderInv
      BY DEF Init, HolderInv
    <2> QED BY <2>1, <2>3, <2>4 DEF LeftInv
  <1>2. LeftInv /\ [Next]_vars => LeftInv'
    <2> SUFFICES ASSUME LeftInv, [Next]_vars PROVE LeftInv'
      OBVIOUS
    <2>1. BaseInv'
      BY BaseStep DEF LeftInv
    <2>2. CASE (\E c \in Channels : LoadCalib(c)) \/ Hit \/ Miss \/ Read \/ AddDark \/ GainLoaded \/ ReadFails
      BY <2>1, <2>2, LeftLoads DEF LeftInv
    <2>3. ASSUME NEW j \in Jobs, BeginUnload(j) \/ ClearChannel(j) \/ Unload(j) \/ EndUnload(j) PROVE LeftInv'
      BY <2>1, <2>3, LeftUnloads DEF LeftInv
    <2>4. CASE UNCHANGED vars
      BY <2>1, <2>4 DEF vars, LeftInv, EntryInv, HolderInv, OwnerInv, Responsible, FilesOf, Short, DarksOf
    <2> QED BY <2>2, <2>3, <2>4 DEF Next
  <1>3. LeftInv => ShortErased
    <2> SUFFICES ASSUME LeftInv, NEW f \in Files, Short(f), cache[f] # Absent
                 PROVE  \E c \in Channels : f \in FilesOf(c) /\ phase[JobOf[c]] # "gone"
      BY DEF ShortErased
    <2> QED BY DEF LeftInv, OwnerInv, Responsible
  <1> QED BY <1>1, <1>2, <1>3, PTL DEF Spec

-----------------------------------------------------------------------------
(* Gains and darks are exact                                               *)

\* The sum of the first darks grows by one file at a time, up to all of them.
LEMMA PartFacts ==
  ASSUME NEW c \in Channels
  PROVE  /\ Part(c, 0) = Zero /\ Part(c, Len(DarkFiles[c])) = Sum(c)
         /\ \A n \in Nat : n < Len(DarkFiles[c]) => Part(c, n + 1) = Plus(Part(c, n), Only(DarkFiles[c][n + 1]))
         /\ 1 <= Len(DarkFiles[c]) => Part(c, 1) = Only(DarkFiles[c][1])
  <1>1. Part(c, 0) = Zero
    <2>1. \A f : {k \in 1..0 : DarkFiles[c][k] = f} = {}
      OBVIOUS
    <2> QED BY <2>1, FS_EmptySet DEF Part, Zero
  <1>2. Part(c, Len(DarkFiles[c])) = Sum(c)
    BY DarkTypes DEF Part, Sum
  <1>3. ASSUME NEW n \in Nat, n < Len(DarkFiles[c])
        PROVE  Part(c, n + 1) = Plus(Part(c, n), Only(DarkFiles[c][n + 1]))
    <2> DEFINE S(m, f) == {k \in 1..m : DarkFiles[c][k] = f}
    <2>1. DarkFiles[c][n + 1] \in Parts
      BY <1>3, DarkTypes DEF Parts
    <2>2. ASSUME NEW f \in Parts
          PROVE  Cardinality(S(n + 1, f)) = Cardinality(S(n, f)) + Only(DarkFiles[c][n + 1])[f]
      <3>1. IsFiniteSet(S(n, f))
        <4>1. IsFiniteSet(1..n) /\ S(n, f) \subseteq 1..n
          BY FS_Interval
        <4> QED BY <4>1, FS_Subset
      <3>2. Cardinality(S(n, f)) \in Nat
        BY <3>1, FS_CardinalityType
      <3>3. Only(DarkFiles[c][n + 1])[f] = IF f = DarkFiles[c][n + 1] THEN 1 ELSE 0
        BY <2>1 DEF Only, Zero
      <3>4. CASE f = DarkFiles[c][n + 1]
        <4>1. S(n + 1, f) = S(n, f) \cup {n + 1} /\ n + 1 \notin S(n, f)
          BY <3>4
        <4>2. Cardinality(S(n, f) \cup {n + 1}) = Cardinality(S(n, f)) + 1
          BY <3>1, <4>1, FS_AddElement
        <4> HIDE DEF S
        <4> QED BY <3>2, <3>3, <3>4, <4>1, <4>2
      <3>5. CASE f # DarkFiles[c][n + 1]
        <4>1. S(n + 1, f) = S(n, f)
          BY <3>5
        <4> HIDE DEF S
        <4> QED BY <3>2, <3>3, <3>5, <4>1
      <3> QED BY <3>4, <3>5
    <2>3. \A f \in Parts : Part(c, n + 1)[f] = Plus(Part(c, n), Only(DarkFiles[c][n + 1]))[f]
      BY <2>2 DEF Part, Plus
    <2> QED BY <2>3 DEF Part, Plus
  <1>4. ASSUME 1 <= Len(DarkFiles[c]) PROVE Part(c, 1) = Only(DarkFiles[c][1])
    <2>1. Len(DarkFiles[c]) \in Nat /\ DarkFiles[c][1] \in Files
      BY <1>4, DarkTypes
    <2>2. Part(c, 0 + 1) = Plus(Part(c, 0), Only(DarkFiles[c][0 + 1]))
      BY <1>3, <1>4, <2>1
    <2>3. Part(c, 1) = Plus(Zero, Only(DarkFiles[c][1]))
      BY <1>1, <2>2
    <2>4. Only(DarkFiles[c][1]) \in Contents
      BY <2>1, ContentTypes DEF Parts
    <2>5. \A f \in Parts : Plus(Zero, Only(DarkFiles[c][1]))[f] = Only(DarkFiles[c][1])[f]
      BY <2>4 DEF Plus, Zero, Contents
    <2> QED BY <2>3, <2>4, <2>5 DEF Plus, Contents
  <1> QED BY <1>1, <1>2, <1>3, <1>4
\* A dark of several is one of a list, and the sum of it is being made.
LEMMA CurrentFile ==
  ASSUME TypeInv, ld.at # "idle"
  PROVE  /\ ld.chan \in Channels /\ ld.di \in Nat \ {0} /\ Len(DarkFiles[ld.chan]) \in Nat
         /\ OnDark => File = DarkFiles[ld.chan][ld.di] /\ ld.di <= Len(DarkFiles[ld.chan])
         /\ OnDark /\ ld.di # 1 => OfSeveral
         /\ OnDark /\ ~OfSeveral => ld.di = 1 /\ Len(DarkFiles[ld.chan]) = 1
  <1>1. ld.chan \in Channels /\ ld.di \in Nat \ {0} /\ Len(DarkFiles[ld.chan]) \in Nat
    BY FileType
  <1>2. OnDark => File = DarkFiles[ld.chan][ld.di] /\ ld.di <= Len(DarkFiles[ld.chan])
    BY DEF File, OnDark
  <1>3. PICK m \in Nat, n \in Nat \ {0} : m = Len(DarkFiles[ld.chan]) /\ n = ld.di
    BY <1>1
  <1>4. OnDark => n <= m
    BY <1>2, <1>3
  <1>5. OfSeveral <=> OnDark /\ m > 1
    BY <1>3 DEF OfSeveral
  <1>6. (OnDark /\ n # 1 => OfSeveral) /\ (OnDark /\ ~OfSeveral => n = 1 /\ m = 1)
    BY <1>4, <1>5
  <1> QED BY <1>1, <1>2, <1>3, <1>6

\* A load begins.
LEMMA DarkBegin ==
  ASSUME DarkInv, NEW c \in Channels, LoadCalib(c)
  PROVE  PureInv' /\ ReadInv' /\ SumInv' /\ DarkDone'
  <1>0. TypeInv /\ JobsInv /\ PureInv /\ SumInv /\ DarkDone
    BY DEF DarkInv, BaseInv
  <1>1. /\ ld.at = "idle" /\ c \notin loaded /\ phase[JobOf[c]] \in {"new", "loading"}
        /\ phase'[JobOf[c]] = "loading" /\ (\A j \in Jobs : j # JobOf[c] => phase'[j] = phase[j])
        /\ ld'.at = "find" /\ ld'.chan = c /\ ld'.di = 1 /\ ld'.tmp = NoBlock /\ ld'.tmp2 = NoBlock
        /\ UNCHANGED <<loaded, cache, heap, dark, torn, mixed, misled>>
    BY <1>0, LoadIs
  <1>2. JobOf \in [Channels -> Jobs] /\ loaded \subseteq Channels
    BY <1>0, CalibAssumption DEF TypeInv, TypeOK
  <1>3. NoBlock \notin Blocks
    BY BlockAssumption
  <1>4. \A d \in Channels : phase'[JobOf[d]] = "loading" => phase[JobOf[d]] \in {"new", "loading"}
    BY <1>1, <1>2
  <1>5. PureInv'
    BY <1>0, <1>1, <1>3 DEF PureInv, Reads, Only, Zero, Parts
  <1>6. ReadInv' /\ SumInv'
    BY <1>1 DEF ReadInv, SumInv
  <1>7. DarkDone'
    <2>1. ASSUME NEW d \in Channels, phase'[JobOf[d]] = "loading", d \in loaded, d \notin misled PROVE dark[d] = Sum(d)
      <3>1. phase[JobOf[d]] = "loading"
        BY <1>0, <1>4, <2>1 DEF JobsInv
      <3> QED BY <1>0, <2>1, <3>1 DEF DarkDone
    <2>2. ASSUME ~OnDark' PROVE dark[c] = Sum(c)
      <3>1. Len(DarkFiles[c]) = 0
        BY <1>1, <2>2, DarkTypes DEF OnDark
      <3>2. dark[c] = Zero
        BY <1>0, <3>1 DEF DarkDone
      <3> QED BY <3>1, <3>2, PartFacts
    <2>3. \A d \in Channels : Len(DarkFiles[d]) = 0 => dark[d] = Zero
      BY <1>0 DEF DarkDone
    <2>4. \A d \in Channels : Loading(d)' => d = c
      BY <1>1 DEF Loading
    <2>5. ASSUME NEW d \in Channels, d \notin misled, phase'[JobOf[d]] = "loading", d \in loaded \/ (Loading(d)' /\ ~OnDark')
          PROVE  dark[d] = Sum(d)
      BY <2>1, <2>2, <2>4, <2>5
    <2>6. dark' = dark /\ loaded' = loaded /\ misled' = misled
      BY <1>1
    <2> QED BY <2>3, <2>5, <2>6 DEF DarkDone, Sum, Zero, Parts
  <1> QED BY <1>5, <1>6, <1>7

\* A file is found in the cache: either its entry is pure, or the channel is misled.
LEMMA DarkHit ==
  ASSUME DarkInv, Hit
  PROVE  PureInv' /\ ReadInv' /\ SumInv' /\ DarkDone'
  <1>0. TypeInv /\ FreshInv /\ PureInv /\ SumInv /\ DarkDone
    BY DEF DarkInv, BaseInv
  <1>1. /\ ld.at = "find" /\ UNCHANGED <<phase, loaded, cache, heap, dark, torn>>
        /\ misled' = IF OnDark /\ File \in torn \cup mixed THEN misled \cup {ld.chan} ELSE misled
    BY DEF Hit
  <1>2. PICK g \in Files : g = File
    BY <1>0, <1>1, FileType
  <1>3. PICK b \in Blocks : b = cache[g] /\ Assign(b)
    BY <1>2 DEF Hit
  <1>4. /\ ld.chan \in Channels /\ ld.di \in Nat \ {0}
        /\ OnDark /\ ld.di # 1 => OfSeveral
        /\ OnDark => ld.di <= Len(DarkFiles[ld.chan])
    BY <1>0, <1>1, CurrentFile
  <1>5. /\ ld'.at = "got" /\ ld'.chan = ld.chan /\ ld'.di = ld.di /\ OnDark' = OnDark /\ File' = File
        /\ OnDark /\ ld.di = 1 => ld'.tmp = b /\ ld'.tmp2 = ld.tmp2
        /\ OnDark /\ ld.di # 1 => ld'.tmp = ld.tmp /\ ld'.tmp2 = b
        /\ ~OnDark => ld'.tmp = ld.tmp /\ ld'.tmp2 = ld.tmp2
        /\ OfSeveral => mixed' = mixed \cup {g}
        /\ ~OfSeveral => mixed' = mixed
    BY <1>0, <1>1, <1>2, <1>3, AssignIs
  <1>6. NoBlock \notin Blocks
    BY BlockAssumption
  <1>7. PureInv'
    <2> SUFFICES ASSUME NEW f \in Files, f \notin torn \cup mixed', cache[f] \in Blocks
                 PROVE  /\ heap[cache[f]] = Only(f)
                        /\ \A h \in Files \ {f} : cache[h] # cache[f]
                        /\ cache[f] \in {ld'.tmp, ld'.tmp2} => Len(DarkFiles[ld.chan]) <= 1
      BY <1>1, <1>5 DEF PureInv, Only, Zero, Parts
    <2>1. f \notin torn \cup mixed
      BY <1>5
    <2>2. /\ heap[cache[f]] = Only(f)
          /\ \A h \in Files \ {f} : cache[h] # cache[f]
          /\ cache[f] \in {ld.tmp, ld.tmp2} => Len(DarkFiles[ld.chan]) <= 1
      BY <1>0, <1>1, <2>1 DEF PureInv, Reads
    <2>3. CASE f = g
      <3>1. CASE OfSeveral
        BY <1>5, <2>3, <3>1
      <3>2. CASE OnDark /\ ~OfSeveral
        BY <1>0, <1>1, <2>2, <3>2, CurrentFile
      <3>3. CASE ~OnDark
        BY <1>5, <2>2, <3>3
      <3> QED BY <3>1, <3>2, <3>3 DEF OfSeveral
    <2>4. CASE f # g
      <3>1. cache[f] # b
        BY <1>3, <2>2, <2>4
      <3> QED BY <1>5, <2>2, <3>1
    <2> QED BY <2>3, <2>4
  <1>8. ReadInv'
    BY <1>5 DEF ReadInv
  <1>9. SumInv'
    <2> SUFFICES ASSUME OnDark, ld.chan \notin misled'
                 PROVE  /\ ld'.tmp # NoBlock => ld'.tmp # ld'.tmp2
                        /\ ld.di = 1 => heap[ld'.tmp] = Only(g)
                        /\ ld.di > 1 => heap[ld'.tmp] = Part(ld.chan, ld.di - 1) /\ heap[ld'.tmp2] = Only(g)
      BY <1>1, <1>2, <1>5 DEF SumInv, Part, Only, Zero, Parts
    <2>1. g \notin torn \cup mixed /\ ld.chan \notin misled
      BY <1>1, <1>2
    <2>2. heap[b] = Only(g) /\ (b \in {ld.tmp, ld.tmp2} => Len(DarkFiles[ld.chan]) <= 1)
      BY <1>0, <1>1, <1>3, <2>1 DEF PureInv, Reads
    <2>3. CASE ld.di = 1
      <3>1. ld.tmp2 = NoBlock
        BY <1>0, <1>1, <2>3 DEF FreshInv
      <3> QED BY <1>5, <1>6, <2>2, <2>3, <3>1
    <2>4. CASE ld.di # 1
      <3>1. ld.di > 1 /\ Len(DarkFiles[ld.chan]) > 1
        BY <1>0, <1>1, <1>4, <2>4, CurrentFile
      <3>2. ld.tmp # b
        BY <1>0, <1>1, <2>2, <3>1, CurrentFile
      <3>3. heap[ld.tmp] = Part(ld.chan, ld.di - 1)
        BY <1>0, <1>1, <2>1, <3>1 DEF SumInv
      <3> QED BY <1>5, <2>2, <2>4, <3>2, <3>3
    <2> QED BY <2>3, <2>4
  <1>10. DarkDone'
    <2>1. misled \subseteq misled'
      BY <1>1
    <2> QED BY <1>0, <1>1, <1>5, <2>1 DEF DarkDone, Loading, Sum, Zero, Parts
  <1> QED BY <1>7, <1>8, <1>9, <1>10

\* A new entry is empty, or has the block of tmp2.
LEMMA DarkMiss ==
  ASSUME DarkInv, Miss
  PROVE  PureInv' /\ ReadInv' /\ SumInv' /\ DarkDone'
  <1>0. TypeInv /\ BaseInv /\ PureInv /\ SumInv /\ DarkDone
    BY DEF DarkInv, BaseInv
  <1>1. /\ ld.at = "find" /\ cache[File] \notin Blocks
        /\ ld'.at = "read" /\ ld'.chan = ld.chan /\ ld'.di = ld.di /\ ld'.tmp = ld.tmp /\ ld'.tmp2 = ld.tmp2
        /\ OnDark' = OnDark /\ File' = File
        /\ \A f \in Files : f # File => cache'[f] = cache[f]
        /\ cache'[File] \in {Img, cache[File]}
        /\ UNCHANGED <<phase, loaded, heap, dark, torn, mixed, misled>>
    BY <1>0, MissIs
  <1>2. PICK g \in Files : g = File
    BY <1>0, <1>1, FileType
  <1>3. cache'[g] \in Blocks => OnDark /\ cache'[g] = ld.tmp2 /\ Len(DarkFiles[ld.chan]) > 2
    BY <1>0, <1>1, <1>2, ImageIs, BlockAssumption
  <1>4. PureInv'
    <2> SUFFICES ASSUME NEW f \in Files, f \notin torn \cup mixed, cache'[f] \in Blocks, f # g
                 PROVE  /\ heap[cache'[f]] = Only(f)
                        /\ \A h \in Files \ {f} : cache'[h] # cache'[f]
                        /\ cache'[f] \in {ld.tmp, ld.tmp2} => Len(DarkFiles[ld.chan]) <= 1
      BY <1>1, <1>2 DEF PureInv, Reads, Only, Zero, Parts
    <2>1. cache'[f] = cache[f]
      BY <1>1, <1>2
    <2>2. /\ heap[cache[f]] = Only(f)
          /\ \A h \in Files \ {f} : cache[h] # cache[f]
          /\ cache[f] \in {ld.tmp, ld.tmp2} => Len(DarkFiles[ld.chan]) <= 1
      BY <1>0, <1>1, <2>1 DEF PureInv, Reads
    <2>3. Len(DarkFiles[ld.chan]) \in Nat
      BY <1>0, <1>1, CurrentFile
    <2>4. cache'[g] # cache[f]
      BY <1>3, <2>1, <2>2, <2>3
    <2> QED BY <1>1, <1>2, <2>1, <2>2, <2>4
  <1>5. ReadInv'
    BY <1>1, <1>2, <1>3 DEF ReadInv
  <1>6. SumInv'
    <2> SUFFICES ASSUME OnDark, ld.chan \notin misled
                 PROVE  /\ ld.tmp # NoBlock => ld.tmp # ld.tmp2
                        /\ ld.di > 1 => heap[ld.tmp] = Part(ld.chan, ld.di - 1)
      BY <1>1, <1>2 DEF SumInv, Part, Parts
    <2> QED BY <1>0, <1>1 DEF SumInv
  <1>7. DarkDone'
    BY <1>0, <1>1 DEF DarkDone, Loading, Sum, Zero, Parts
  <1> QED BY <1>4, <1>5, <1>6, <1>7

\* A file is never read to the block of tmp, unless the channel is misled.
LEMMA DarkRead ==
  ASSUME DarkInv, Read
  PROVE  PureInv' /\ ReadInv' /\ SumInv' /\ DarkDone'
  <1>0. TypeInv /\ FreshInv /\ PureInv /\ ReadInv /\ SumInv /\ DarkDone
    BY DEF DarkInv, BaseInv
  <1>1. PICK b \in Blocks, g \in Files :
         /\ g = File /\ ld.at = "read" /\ Assign(b)
         /\ \/ cache[g] = b
            \/ /\ cache[g] \notin Blocks
               /\ \A f \in Files : cache[f] # b
               /\ ld.tmp # b /\ ld.tmp2 # b
         /\ cache'[g] = b /\ (\A f \in Files : f # g => cache'[f] = cache[f])
         /\ heap'[b] = Only(g) /\ (\A k \in Blocks : k # b => heap'[k] = heap[k])
         /\ torn' = torn \ {g} /\ UNCHANGED <<phase, loaded, dark, misled>>
    BY <1>0, ReadIs
  <1>2. /\ ld.chan \in Channels /\ ld.di \in Nat \ {0} /\ Len(DarkFiles[ld.chan]) \in Nat
        /\ OnDark /\ ld.di # 1 => OfSeveral
        /\ OnDark => ld.di <= Len(DarkFiles[ld.chan])
    BY <1>0, <1>1, CurrentFile
  <1>3. /\ ld'.at = "got" /\ ld'.chan = ld.chan /\ ld'.di = ld.di /\ OnDark' = OnDark /\ File' = File
        /\ OnDark /\ ld.di = 1 => ld'.tmp = b /\ ld'.tmp2 = ld.tmp2
        /\ OnDark /\ ld.di # 1 => ld'.tmp = ld.tmp /\ ld'.tmp2 = b
        /\ ~OnDark => ld'.tmp = ld.tmp /\ ld'.tmp2 = ld.tmp2
        /\ OfSeveral => mixed' = mixed \cup {g}
        /\ ~OfSeveral => mixed' = mixed
    BY <1>0, <1>1, AssignIs
  <1>4. NoBlock \notin Blocks
    BY BlockAssumption
  <1>5. cache[g] = b => OfSeveral /\ ld.tmp2 = b /\ ld.di # 1
    <2> SUFFICES ASSUME cache[g] = b PROVE OfSeveral /\ ld.tmp2 = b /\ ld.di # 1
      OBVIOUS
    <2>1. OnDark /\ ld.tmp2 = b
      BY <1>0, <1>1 DEF ReadInv
    <2>2. ld.di # 1
      BY <1>0, <1>1, <1>4, <2>1 DEF FreshInv
    <2> QED BY <1>2, <2>1, <2>2
  <1>6. PureInv'
    <2> SUFFICES ASSUME NEW f \in Files, f \notin torn' \cup mixed', cache'[f] \in Blocks
                 PROVE  /\ heap'[cache'[f]] = Only(f)
                        /\ \A h \in Files \ {f} : cache'[h] # cache'[f]
                        /\ cache'[f] \in {ld'.tmp, ld'.tmp2} => Len(DarkFiles[ld.chan]) <= 1
      BY <1>3 DEF PureInv, Only, Zero, Parts
    <2>1. CASE f = g
      <3>1. ~OfSeveral /\ cache[g] # b
        BY <1>3, <1>5, <2>1
      <3>2. cache'[f] = b /\ heap'[b] = Only(f) /\ (\A h \in Files \ {f} : cache'[h] # b)
        BY <1>1, <2>1, <3>1
      <3>3. CASE OnDark
        BY <1>0, <1>1, <3>1, <3>2, <3>3, CurrentFile
      <3>4. CASE ~OnDark
        BY <1>1, <1>3, <3>1, <3>2, <3>4
      <3> QED BY <3>3, <3>4
    <2>2. CASE f # g
      <3>1. cache'[f] = cache[f] /\ f \notin torn \cup mixed
        BY <1>1, <1>3, <2>2
      <3>2. /\ heap[cache[f]] = Only(f)
            /\ \A h \in Files \ {f} : cache[h] # cache[f]
            /\ cache[f] \in {ld.tmp, ld.tmp2} => Len(DarkFiles[ld.chan]) <= 1
        BY <1>0, <1>1, <2>2, <3>1 DEF PureInv, Reads
      <3>3. cache[f] # b
        BY <1>1, <2>2, <3>2
      <3>4. ld'.tmp \in {ld.tmp, b} /\ ld'.tmp2 \in {ld.tmp2, b}
        BY <1>3
      <3> QED BY <1>1, <3>1, <3>2, <3>3, <3>4
    <2> QED BY <2>1, <2>2
  <1>7. ReadInv'
    BY <1>3 DEF ReadInv
  <1>8. SumInv'
    <2> SUFFICES ASSUME OnDark, ld.chan \notin misled
                 PROVE  /\ ld'.tmp # NoBlock => ld'.tmp # ld'.tmp2
                        /\ ld.di = 1 => heap'[ld'.tmp] = Only(g)
                        /\ ld.di > 1 => heap'[ld'.tmp] = Part(ld.chan, ld.di - 1) /\ heap'[ld'.tmp2] = Only(g)
      BY <1>1, <1>3 DEF SumInv, Part, Only, Zero, Parts
    <2>1. CASE ld.di = 1
      <3>1. ld.tmp2 = NoBlock
        BY <1>0, <1>1, <2>1 DEF FreshInv
      <3> QED BY <1>1, <1>3, <1>4, <2>1, <3>1
    <2>2. CASE ld.di # 1
      <3>1. ld.di > 1 /\ ld.di <= Len(DarkFiles[ld.chan])
        BY <1>2, <2>2
      <3>2. ld.tmp \in Blocks
        BY <1>0, <1>1, <3>1 DEF TypeInv, LoadInv
      <3>3. heap[ld.tmp] = Part(ld.chan, ld.di - 1) /\ ld.tmp # ld.tmp2
        BY <1>0, <1>1, <1>4, <3>1, <3>2 DEF SumInv
      <3>4. ld.tmp # b
        BY <1>1, <1>5, <3>3
      <3> QED BY <1>1, <1>3, <2>2, <3>2, <3>3, <3>4
    <2> QED BY <2>1, <2>2
  <1>9. DarkDone'
    BY <1>0, <1>1, <1>3 DEF DarkDone, Loading, Sum, Zero, Parts
  <1> QED BY <1>6, <1>7, <1>8, <1>9

\* The sum in tmp grows by the current dark, and is the dark of the channel after the last one.
LEMMA DarkAdded ==
  ASSUME DarkInv, AddDark
  PROVE  PureInv' /\ ReadInv' /\ SumInv' /\ DarkDone'
  <1>0. TypeInv /\ FreshInv /\ JobsInv /\ PureInv /\ SumInv /\ DarkDone
    BY DEF DarkInv, BaseInv
  <1>1. /\ ld.at = "got" /\ OnDark /\ ld.chan \in Channels /\ ld.di \in Nat \ {0} /\ ld.tmp \in Blocks
        /\ Len(DarkFiles[ld.chan]) \in Nat /\ ld.di <= Len(DarkFiles[ld.chan])
        /\ heap'[ld.tmp] = (IF ld.di = 1 THEN heap[ld.tmp] ELSE Plus(heap[ld.tmp], heap[ld.tmp2]))
        /\ \A k \in Blocks : k # ld.tmp => heap'[k] = heap[k]
        /\ ld'.at = "find" /\ ld'.chan = ld.chan /\ ld'.di = ld.di + 1
        /\ UNCHANGED <<phase, loaded, cache, torn, mixed, misled>>
    BY <1>0, AddDarkIs
  <1>2. /\ ld.di = Len(DarkFiles[ld.chan]) =>
              /\ ld'.tmp = NoBlock /\ ld'.tmp2 = NoBlock
              /\ dark' = [dark EXCEPT ![ld.chan] = heap'[ld.tmp]]
        /\ ld.di # Len(DarkFiles[ld.chan]) => ld'.tmp = ld.tmp /\ ld'.tmp2 = ld.tmp2 /\ dark' = dark
    BY <1>0, AddDarkIs
  <1>3. NoBlock \notin Blocks
    BY BlockAssumption
  <1>4. File = DarkFiles[ld.chan][ld.di]
    BY <1>0, <1>1, CurrentFile
  <1>5. ASSUME ld.chan \notin misled PROVE heap'[ld.tmp] = Part(ld.chan, ld.di)
    <2>1. CASE ld.di = 1
      BY <1>0, <1>1, <1>4, <1>5, <2>1, PartFacts DEF SumInv
    <2>2. CASE ld.di # 1
      <3>1. heap[ld.tmp] = Part(ld.chan, ld.di - 1) /\ heap[ld.tmp2] = Only(File)
        BY <1>0, <1>1, <1>5, <2>2 DEF SumInv
      <3>2. PICK n \in Nat : ld.di = n + 1
        <4>1. ld.di - 1 \in Nat /\ ld.di = (ld.di - 1) + 1
          BY <1>1
        <4> QED BY <4>1
      <3>3. n < Len(DarkFiles[ld.chan]) /\ ld.di - 1 = n
        BY <1>1, <3>2
      <3>4. Part(ld.chan, n + 1) = Plus(Part(ld.chan, n), Only(DarkFiles[ld.chan][n + 1]))
        BY <1>1, <3>3, PartFacts
      <3> QED BY <1>1, <1>4, <2>2, <3>1, <3>2, <3>3, <3>4
    <2> QED BY <2>1, <2>2
  <1>6. PureInv'
    <2> SUFFICES ASSUME NEW f \in Files, f \notin torn \cup mixed, cache[f] \in Blocks
                 PROVE  /\ heap'[cache[f]] = Only(f)
                        /\ \A h \in Files \ {f} : cache[h] # cache[f]
                        /\ cache[f] \in {ld'.tmp, ld'.tmp2} => Len(DarkFiles[ld.chan]) <= 1
      BY <1>1 DEF PureInv, Only, Zero, Parts
    <2>1. /\ heap[cache[f]] = Only(f)
          /\ \A h \in Files \ {f} : cache[h] # cache[f]
          /\ cache[f] \in {ld.tmp, ld.tmp2} => Len(DarkFiles[ld.chan]) <= 1
      BY <1>0, <1>1 DEF PureInv, Reads
    <2>2. heap'[cache[f]] = heap[cache[f]]
      <3>1. CASE cache[f] = ld.tmp
        <4>1. ld.di = 1
          BY <1>1, <2>1, <3>1
        <4> QED BY <1>1, <3>1, <4>1
      <3>2. CASE cache[f] # ld.tmp
        BY <1>1, <3>2
      <3> QED BY <3>1, <3>2
    <2>3. ld'.tmp \in {ld.tmp, NoBlock} /\ ld'.tmp2 \in {ld.tmp2, NoBlock}
      BY <1>2
    <2> QED BY <1>3, <2>1, <2>2, <2>3
  <1>7. ReadInv'
    BY <1>1 DEF ReadInv
  <1>8. SumInv'
    <2> SUFFICES ASSUME OnDark', ld.chan \notin misled
                 PROVE  /\ ld'.tmp # NoBlock => ld'.tmp # ld'.tmp2
                        /\ heap'[ld'.tmp] = Part(ld.chan, ld.di)
      <3>1. ld'.di - 1 = ld.di /\ ld'.di # 1 /\ ld'.at = "find" /\ ld'.chan = ld.chan /\ misled' = misled
        BY <1>1
      <3>2. Part(ld'.chan, ld'.di - 1) = Part(ld.chan, ld.di)
        BY <3>1
      <3> QED BY <3>1, <3>2 DEF SumInv, Part, Parts
    <2>1. ld.di # Len(DarkFiles[ld.chan])
      BY <1>1 DEF OnDark
    <2> QED BY <1>0, <1>1, <1>2, <1>5, <2>1 DEF SumInv
  <1>9. DarkDone'
    <2>1. \A c \in Channels : c # ld.chan => dark'[c] = dark[c]
      BY <1>0, <1>1, <1>2 DEF TypeInv, TypeOK
    <2>2. ~OnDark' /\ ld.chan \notin misled => dark'[ld.chan] = Sum(ld.chan)
      <3> SUFFICES ASSUME ~OnDark', ld.chan \notin misled PROVE dark'[ld.chan] = Sum(ld.chan)
        OBVIOUS
      <3>1. ld.di = Len(DarkFiles[ld.chan])
        BY <1>1 DEF OnDark
      <3>2. dark'[ld.chan] = heap'[ld.tmp]
        BY <1>0, <1>1, <1>2, <3>1 DEF TypeInv, TypeOK
      <3> QED BY <1>1, <1>5, <3>1, <3>2, PartFacts
    <2>3. Len(DarkFiles[ld.chan]) # 0 /\ ld.chan \notin loaded
      BY <1>0, <1>1 DEF JobsInv
    <2>4. \A c \in Channels : Loading(c)' <=> c = ld.chan
      BY <1>1 DEF Loading
    <2>5. ASSUME NEW c \in Channels
          PROVE  /\ c \notin misled /\ phase[JobOf[c]] = "loading" /\ (c \in loaded \/ (Loading(c)' /\ ~OnDark')) => dark'[c] = Sum(c)
                 /\ Len(DarkFiles[c]) = 0 => dark'[c] = Zero
      <3>1. CASE c = ld.chan
        BY <2>2, <2>3, <3>1
      <3>2. CASE c # ld.chan
        BY <1>0, <2>1, <2>4, <3>2 DEF DarkDone
      <3> QED BY <3>1, <3>2
    <2>6. phase' = phase /\ loaded' = loaded /\ misled' = misled
      BY <1>1
    <2> QED BY <2>5, <2>6 DEF DarkDone, Sum, Zero, Parts
  <1> QED BY <1>6, <1>7, <1>8, <1>9

\* A load ends: a channel that was loaded has its dark, one that was not is never loaded again.
LEMMA DarkOver ==
  ASSUME DarkInv, GainLoaded \/ ReadFails
  PROVE  PureInv' /\ ReadInv' /\ SumInv' /\ DarkDone'
  <1>0. TypeInv /\ PureInv /\ SumInv /\ DarkDone
    BY DEF DarkInv, BaseInv
  <1>1. JobOf \in [Channels -> Jobs]
    BY CalibAssumption
  <1>2. CASE GainLoaded
    <2>1. /\ ld.at = "got" /\ ~OnDark /\ ld.chan \in Channels
          /\ ld'.at = "idle" /\ loaded' = loaded \cup {ld.chan}
          /\ UNCHANGED <<phase, cache, heap, dark, torn, mixed, misled>>
      BY <1>0, <1>2, GainLoadedIs
    <2>2. PureInv'
      BY <1>0, <2>1 DEF PureInv, Reads, Only, Zero, Parts
    <2>3. ReadInv' /\ SumInv'
      BY <2>1 DEF ReadInv, SumInv
    <2>4. DarkDone'
      BY <1>0, <2>1 DEF DarkDone, Loading, Sum, Zero, Parts
    <2> QED BY <2>2, <2>3, <2>4
  <1>3. CASE ReadFails
    <2>1. PICK g \in Files :
         /\ g = File /\ ld.at = "read" /\ ld.chan \in Channels /\ JobOf[ld.chan] \in Jobs
         /\ ld'.at = "idle" /\ ld'.tmp = NoBlock /\ ld'.tmp2 = NoBlock
         /\ \A f \in Files : f # g => cache'[f] = cache[f]
         /\ \/ cache'[g] = cache[g] /\ heap' = heap
            \/ /\ cache[g] \notin Blocks
               /\ cache'[g] \in Blocks
               /\ \A f \in Files : cache[f] # cache'[g]
               /\ \A k \in Blocks : k # cache'[g] => heap'[k] = heap[k]
         /\ phase'[JobOf[ld.chan]] = "failed" /\ (\A j \in Jobs : j # JobOf[ld.chan] => phase'[j] = phase[j])
         /\ torn' = torn \cup {g} /\ UNCHANGED <<loaded, dark, mixed, misled>>
      BY <1>0, <1>3, ReadFailsIs
    <2>2. PureInv'
      <3> SUFFICES ASSUME NEW f \in Files, f \notin torn' \cup mixed, cache'[f] \in Blocks
                   PROVE  /\ heap'[cache'[f]] = Only(f)
                          /\ \A h \in Files \ {f} : cache'[h] # cache'[f]
        BY <2>1 DEF PureInv, Only, Zero, Parts
      <3>1. f # g /\ cache'[f] = cache[f] /\ f \notin torn \cup mixed
        BY <2>1
      <3>2. heap[cache[f]] = Only(f) /\ (\A h \in Files \ {f} : cache[h] # cache[f])
        BY <1>0, <2>1, <3>1 DEF PureInv, Reads
      <3> QED BY <2>1, <3>1, <3>2
    <2>3. ReadInv' /\ SumInv'
      BY <2>1 DEF ReadInv, SumInv
    <2>4. \A c \in Channels : ~Loading(c)' /\ (phase'[JobOf[c]] = phase[JobOf[c]] \/ phase'[JobOf[c]] = "failed")
      BY <1>1, <2>1 DEF Loading
    <2>5. DarkDone'
      BY <1>0, <2>1, <2>4 DEF DarkDone, Sum, Zero, Parts
    <2> QED BY <2>2, <2>3, <2>5
  <1> QED BY <1>2, <1>3

\* Unloading writes to no block and clears the darks of its own job.
LEMMA DarkUnloads ==
  ASSUME DarkInv, NEW j \in Jobs, BeginUnload(j) \/ ClearChannel(j) \/ Unload(j) \/ EndUnload(j)
  PROVE  PureInv' /\ ReadInv' /\ SumInv' /\ DarkDone'
  <1>0. TypeInv /\ JobsInv /\ PureInv /\ ReadInv /\ SumInv /\ DarkDone
    BY DEF DarkInv, BaseInv
  <1>a. NoBlock \notin Blocks /\ Absent \notin Blocks
    BY BlockAssumption
  <1>b. JobOf \in [Channels -> Jobs]
    BY CalibAssumption
  <1>1. CASE BeginUnload(j) \/ EndUnload(j)
    <2>1. UNCHANGED <<loaded, ld, cache, heap, dark, torn, mixed, misled>>
      BY <1>1 DEF BeginUnload, EndUnload, hist
    <2>2. \A i \in Jobs : phase'[i] = phase[i] \/ phase'[i] \in {"unloading", "gone"}
      BY <1>0, <1>1 DEF BeginUnload, EndUnload, TypeInv, TypeOK
    <2>3. \A c \in Channels : phase'[JobOf[c]] = phase[JobOf[c]] \/ phase'[JobOf[c]] \in {"unloading", "gone"}
      BY <1>b, <2>2
    <2>4. PureInv'
      BY <1>0, <2>1 DEF PureInv, Reads, OnDark, File, Only, Zero, Parts
    <2>5. ReadInv'
      BY <1>0, <2>1 DEF ReadInv, OnDark, File
    <2>6. SumInv'
      BY <1>0, <2>1 DEF SumInv, OnDark, File, Part, Only, Zero, Parts
    <2>7. DarkDone'
      BY <1>0, <2>1, <2>3 DEF DarkDone, Loading, OnDark, Sum, Zero, Parts
    <2> QED BY <2>4, <2>5, <2>6, <2>7
  <1>2. CASE ClearChannel(j)
    <2>1. PICK c \in Channels :
            /\ phase[j] = "unloading" /\ c \in ul[j].chans /\ dark'[c] = Zero
            /\ \A d \in Channels : d # c => dark'[d] = dark[d]
            /\ UNCHANGED <<phase, loaded, ld, cache, heap, torn, mixed, misled>>
      BY <1>0, <1>2, ClearIs
    <2>2. JobOf[c] = j
      BY <1>0, <2>1 DEF JobsInv, ChannelsOf
    <2>3. PureInv'
      BY <1>0, <2>1 DEF PureInv, Reads, OnDark, File, Only, Zero, Parts
    <2>4. ReadInv'
      BY <1>0, <2>1 DEF ReadInv, OnDark, File
    <2>5. SumInv'
      BY <1>0, <2>1 DEF SumInv, OnDark, File, Part, Only, Zero, Parts
    <2>6. DarkDone'
      BY <1>0, <2>1, <2>2 DEF DarkDone, Loading, OnDark, Sum, Zero, Parts
    <2> QED BY <2>3, <2>4, <2>5, <2>6
  <1>3. CASE Unload(j)
    <2>1. PICK f \in Files :
            /\ cache'[f] \in {cache[f], Absent} /\ (\A g \in Files : g # f => cache'[g] = cache[g])
            /\ \/ torn' = torn /\ mixed' = mixed
               \/ cache'[f] = Absent /\ torn' = torn \ {f} /\ mixed' = mixed \ {f}
            /\ UNCHANGED <<phase, loaded, ld, heap, dark, misled>>
      BY <1>0, <1>3, UnloadIs
    <2>2. \A g \in Files : cache'[g] \in Blocks => cache'[g] = cache[g]
      BY <1>a, <2>1
    <2>3. OnDark' = OnDark /\ File' = File
      BY <2>1 DEF OnDark, File
    <2>4. PureInv'
      <3> SUFFICES ASSUME NEW g \in Files, g \notin torn' \cup mixed', cache'[g] \in Blocks, ~Reads(g)
                   PROVE  /\ heap[cache'[g]] = Only(g)
                          /\ \A h \in Files \ {g} : cache'[h] # cache'[g]
                          /\ ld.at # "idle" /\ cache'[g] \in {ld.tmp, ld.tmp2} => Len(DarkFiles[ld.chan]) <= 1
        BY <2>1, <2>3 DEF PureInv, Reads, Only, Zero, Parts
      <3>1. cache'[g] = cache[g] /\ g \notin torn \cup mixed
        BY <1>a, <2>1, <2>2
      <3>2. /\ heap[cache[g]] = Only(g)
            /\ \A h \in Files \ {g} : cache[h] # cache[g]
            /\ ld.at # "idle" /\ cache[g] \in {ld.tmp, ld.tmp2} => Len(DarkFiles[ld.chan]) <= 1
        BY <1>0, <3>1 DEF PureInv
      <3> QED BY <1>a, <2>1, <3>1, <3>2
    <2>5. ReadInv'
      <3>1. ld.at # "idle" => File \in Files
        BY <1>0, FileType
      <3> QED BY <1>0, <2>1, <2>2, <2>3, <3>1 DEF ReadInv
    <2>6. SumInv'
      BY <1>0, <2>1, <2>3 DEF SumInv, Part, Only, Zero, Parts
    <2>7. DarkDone'
      BY <1>0, <2>1 DEF DarkDone, Loading, OnDark, Sum, Zero, Parts
    <2> QED BY <2>4, <2>5, <2>6, <2>7
  <1> QED BY <1>1, <1>2, <1>3

\* The cache starts empty, and every step keeps its entries pure and its sums right.
THEOREM ImagesAreSafe == Spec => []DarkInv
  <1>1. Init => DarkInv
    <2> SUFFICES ASSUME Init PROVE DarkInv
      OBVIOUS
    <2>1. BaseInv
      BY BaseInit
    <2>2. (\A f \in Files : cache[f] = Absent) /\ ld.at = "idle" /\ loaded = {} /\ (\A c \in Channels : dark[c] = Zero)
      BY DEF Init, Idle
    <2>3. PureInv
      BY <2>2, BlockAssumption DEF PureInv
    <2>4. ReadInv /\ SumInv /\ DarkDone
      BY <2>2 DEF ReadInv, SumInv, DarkDone, Loading
    <2> QED BY <2>1, <2>3, <2>4 DEF DarkInv
  <1>2. DarkInv /\ [Next]_vars => DarkInv'
    <2> SUFFICES ASSUME DarkInv, [Next]_vars PROVE PureInv' /\ ReadInv' /\ SumInv' /\ DarkDone'
      BY BaseStep DEF DarkInv
    <2>1. CASE UNCHANGED vars
      BY <2>1 DEF vars, hist, DarkInv, PureInv, ReadInv, SumInv, DarkDone, Reads, Loading, OnDark, File, Part, Sum, Only, Zero, Parts
    <2> QED BY <2>1, DarkBegin, DarkHit, DarkMiss, DarkRead, DarkAdded, DarkOver, DarkUnloads DEF Next
  <1> QED BY <1>1, <1>2, PTL DEF Spec

\* A channel's gain is the content of its gain file as long as the channel has it, however loads,
\* unloads and failed reads of the jobs interleave, unless the last read of the file itself
\* failed or a list of several darks has it (cachedfile.hpp 36-74, channel.cpp 595-599, 737-765).
THEOREM GainsAreSafe == Spec => []GainSafe
  <1>1. DarkInv => GainSafe
    <2> SUFFICES ASSUME DarkInv, NEW c \in Channels, gain[c] # NoBlock, GainFile[c] \notin torn \cup mixed
                 PROVE  heap[gain[c]] = Only(GainFile[c])
      BY DEF GainSafe
    <2>1. gain[c] \in Blocks /\ cache[GainFile[c]] = gain[c] /\ ~Reads(GainFile[c]) /\ GainFile[c] \in Files
      BY DarkTypes DEF DarkInv, BaseInv, TypeInv, TypeOK, GainCached
    <2> QED BY <2>1 DEF DarkInv, PureInv
  <1> QED BY <1>1, ImagesAreSafe, PTL

\* The dark of a loaded channel is the sum of its files, for any lists, shared or not, although the
\* sum is made in the cached image of the first, unless the cache gave the channel a file whose
\* last read failed or that a list of several darks got before (channel.cpp 561-592).
THEOREM DarksAreSafe == Spec => []DarkSafe
  <1>1. DarkInv => DarkSafe
    BY DEF DarkInv, BaseInv, TypeInv, TypeOK, DarkDone, DarkSafe
  <1> QED BY <1>1, ImagesAreSafe, PTL

====
