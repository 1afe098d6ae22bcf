-------------------------- MODULE PreprocessProofs --------------------------
(***************************************************************************)
(* For any objects, channels, files, patches and threads, with files that  *)
(* can not be read and loads and tasks that throw: the watches of a job    *)
(* that is pre-processed book each item once and fire with the last one;   *)
(* what depends on the handlers follows.                                   *)
(***************************************************************************)
EXTENDS Preprocess, FiniteSetTheorems, TLAPS

Handlers == {"unload", "queue", "normalize", "drop"}
Failing == {"error", "clearJob", "clearChannel"}
AtFile == {"file", "image", "countJob", "countObject", "next", "save", "countFile"} \cup Failing

\* Where a task is, or will be after the handler it runs.
Pos(k) == IF k.at \in Handlers THEN k.then ELSE k.at

IsFile(k) == Pos(k) \in AtFile

\* Two tasks are for the same file, or for the same cutout, or both initCache.
Same(k, l) ==
  \/ k.at = "init" /\ l.at = "init"
  \/ k.at = "cut" /\ l.at = "cut" /\ k.chan = l.chan /\ k.item = l.item
  \/ IsFile(k) /\ IsFile(l) /\ k.item = l.item

Records ==
  [at : Places, chan : Channels \cup {None},
   item : Files \cup {Cut(p) : p \in Patches} \cup {InitCache, None}, frame : Nat, then : Places]

TypeInv == TypeOK /\ th \in [Threads -> Records]

\* The channel's storage was allocated; the handler that drops it runs after the watch fired.
Alloc(c) == c \in images \/ c \in fired

\* The channel's tasks were posted.
Started(c) == c \in begun /\ loading # c /\ Alloc(c) /\ (c \in calib \/ Job \in fired)

\* The watch counts nothing yet, or nothing ever.
Off(w) ==
  IF w = Job THEN main = "start" \/ (main = "thrown" /\ begun = {})
  ELSE IF w \in Objects THEN w \notin begun ELSE ~Started(w)

\* The order in which the worker thread begins, and that a channel which is between the
\* halves of loadData has what the second half relies on.
MainInv ==
  /\ main = "start" => begun = {} /\ loading = None
  /\ \A c \in Channels :
       /\ c \in begun => ObjectOf[c] \in begun
       /\ Alloc(c) \/ c \in calib => c \in begun
       /\ loading = c => main = "load" /\ c \in begun /\ Alloc(c) /\ (c \in calib \/ Job \in fired)

\* A task at frame n of file f has counted nothing of what is before it.
FileAt(f, c, n, pos) ==
  /\ f \in Files /\ c = ChannelOf[f] /\ Started(c)
  /\ n \in 0..Frames[f]
  /\ (n = 0) = (pos \in {"file"} \cup Failing)
  /\ pos = "next" => n < Frames[f]
  /\ pos = "save" => Saving(c)
  /\ pos = "countJob" => <<Job, Image(f, n)>> \in done
  /\ \A m \in 1..Frames[f] :
       /\ m > n \/ (m = n /\ pos \in {"image", "countJob"}) => <<Job, Image(f, m)>> \notin counted
       /\ m > n \/ (m = n /\ pos \in {"image", "countJob", "countObject"})
          => <<ObjectOf[c], Image(f, m)>> \notin counted
  /\ pos # "countFile" => <<ObjectOf[c], Save(f)>> \notin counted
  /\ <<c, File(f)>> \notin counted

\* What a task relies on.
HolderInv(k) ==
  /\ k.at = "init" => ~flat /\ ~Off(Job) /\ <<Job, InitCache>> \notin counted
  /\ k.at = "cut" => /\ k.chan \in Channels /\ Started(k.chan)
                     /\ k.item \in {Cut(p) : p \in PatchList} /\ <<k.chan, k.item>> \notin counted
  /\ IsFile(k) => FileAt(k.item, k.chan, k.frame, Pos(k))
  /\ k.at \in {"unload", "queue"} => Job \in fired /\ k.then \in {"idle", "countObject"}
  /\ k.at = "normalize" => k.then \in {"next", "save", "countFile"}
  /\ k.at = "drop" => k.chan \in Channels /\ k.chan \in fired /\ k.then = "idle"

\* The tasks that the worker thread posts.
PostedTask(k) ==
  \/ k = Task("init", None, InitCache)
  \/ \E c \in Channels, p \in Patches : k = Task("cut", c, Cut(p))
  \/ \E f \in Files : k = Task("file", ChannelOf[f], f)

\* Every task has what it relies on, and no two tasks are the same.
TaskInv ==
  /\ \A k \in posted : PostedTask(k) /\ HolderInv(k)
  /\ \A t \in Threads : HolderInv(th[t])
  /\ \A s, t \in Threads : s # t => ~Same(th[s], th[t])
  /\ \A t \in Threads : \A k \in posted : ~Same(th[t], k)

\* An item of a watch whose task was posted.
Open(w, i) ==
  IF i = InitCache THEN ~Off(Job) ELSE Started(IF w \in Channels THEN w ELSE ChannelOf[i[2]])

\* Only posted items are counted, and those of the job after their work.
CountedInv ==
  \A x \in counted :
    /\ \E w \in Watches : \E i \in ItemsOf(flat, w) : x = <<w, i>> /\ Open(w, i)
    /\ x[1] = Job => x \in done

CountedOf(w) == {i \in ItemsOf(flat, w) : <<w, i>> \in counted}

\* What the target of a watch stands for: files are added to those that will be saved
\* as their channels are allocated.
Expected(w) == {i \in ItemsOf(flat, w) : i[1] = "save" => Alloc(ChannelOf[i[2]])}

HandlerOf(w) == IF w = Job THEN "unload" ELSE IF w \in Objects THEN "normalize" ELSE "drop"

Exact(w) ==
  /\ watch[w].handler = HandlerOf(w)
  /\ watch[w].counter = Cardinality(CountedOf(w))
  /\ watch[w].target = Cardinality(Expected(w))

\* A file that failed: nothing of it was counted or will be.
Dead(f) ==
  /\ Started(ChannelOf[f])
  /\ <<Job, Image(f, 1)>> \notin counted /\ <<ChannelOf[f], File(f)>> \notin counted
  /\ Task("file", ChannelOf[f], f) \notin posted
  /\ \A t \in Threads : IsFile(th[t]) /\ th[t].item = f => th[t].at \in Failing

\* A watch has fired with all its items, or counts exactly, or is off, or was cleared
\* because of a file that failed.
WatchInv(w) ==
  \/ w \in fired /\ ~Off(w) /\ \A i \in ItemsOf(flat, w) : <<w, i>> \in counted
  \/ w \notin fired /\ Off(w)
  \/ w \notin fired /\ Exact(w)
  \/ /\ w \notin fired /\ w \notin Objects /\ watch[w].target = 0
     /\ \E f \in Files : Dead(f) /\ (w # Job => ChannelOf[f] = w)

\* The job goes on only after its watch has fired.
StepInv == jobStep \in {"QUEUED", "COMPLETED", "RUNNING"} => Job \in fired

IndInv ==
  /\ TypeInv /\ MainInv /\ TaskInv /\ CountedInv
  /\ \A w \in Watches : WatchInv(w)
  /\ StepInv

-----------------------------------------------------------------------------
(* The items of the watches                                                *)

\* A set that is numbered by another one without repetition has its size.
LEMMA SameSize ==
  ASSUME NEW S, IsFiniteSet(S), NEW T, NEW g \in [S -> T],
         \A x, y \in S : g[x] = g[y] => x = y,
         \A y \in T : \E x \in S : g[x] = y
  PROVE  IsFiniteSet(T) /\ Cardinality(T) = Cardinality(S)
  <1>1. g \in Bijection(S, T)
    BY DEF Bijection, Injection, Surjection, IsInjective
  <1>2. ExistsBijection(S, T)
    BY <1>1 DEF ExistsBijection
  <1> QED BY <1>2, FS_Bijection

\* The job's watch counts the images, and initCache if there are patches.
LEMMA ItemsJob == \A ff \in BOOLEAN : ItemsOf(ff, Job) = Images \cup (IF ff THEN {} ELSE {InitCache})
  <1>1. Job \notin Objects /\ Job \notin Channels
    BY LayoutAssumption
  <1> QED BY <1>1, Zenon DEF ItemsOf

\* An object's watch counts its images, and its files that are saved.
LEMMA ItemsObject ==
  \A ff \in BOOLEAN : \A o \in Objects :
    ItemsOf(ff, o) = ImagesOf(o) \cup {Save(f) : f \in {g \in Files : ObjectOfFile(g) = o /\ Saves(ff, ChannelOf[g])}}
  <1> SUFFICES ASSUME NEW ff \in BOOLEAN, NEW o \in Objects
               PROVE  ItemsOf(ff, o) = ImagesOf(o) \cup {Save(f) : f \in {g \in Files : ObjectOfFile(g) = o /\ Saves(ff, ChannelOf[g])}}
    OBVIOUS
  <1>1. o # Job /\ o \notin Channels
    BY LayoutAssumption
  <1> QED BY <1>1, Zenon DEF ItemsOf

\* A channel's watch counts the cutouts and the channel's files.
LEMMA ItemsChannel ==
  \A ff \in BOOLEAN : \A c \in Channels :
    ItemsOf(ff, c) = {Cut(p) : p \in PatchesOf(ff)} \cup {File(f) : f \in FilesOf(c)}
  <1> SUFFICES ASSUME NEW ff \in BOOLEAN, NEW c \in Channels
               PROVE  ItemsOf(ff, c) = {Cut(p) : p \in PatchesOf(ff)} \cup {File(f) : f \in FilesOf(c)}
    OBVIOUS
  <1>1. c # Job /\ c \notin Objects
    BY LayoutAssumption
  <1> QED BY <1>1, Zenon DEF ItemsOf

\* Files have a channel, an object and frames; watches of different kinds differ.
LEMMA Layout ==
  /\ \A f \in Files : /\ ChannelOf[f] \in Channels /\ ObjectOf[ChannelOf[f]] \in Objects
                      /\ ObjectOfFile(f) = ObjectOf[ChannelOf[f]] /\ ObjectOfFile(f) \in Objects
                      /\ Frames[f] \in Nat \ {0} /\ 1 \in 1..Frames[f] /\ f \in FilesOf(ChannelOf[f])
  /\ \A c \in Channels : ObjectOf[c] \in Objects /\ c \in Watches /\ c \notin Objects /\ c # Job /\ c # None
  /\ \A o \in Objects : o \in Watches /\ o \notin Channels /\ o # Job
  /\ Job \in Watches /\ Job \notin Objects /\ Job \notin Channels
  BY LayoutAssumption DEF ObjectOfFile, FilesOf, Watches

\* Items of different kinds differ, and an item tells its file or patch.
LEMMA Kinds ==
  /\ InitCache[1] = "init"
  /\ \A f, n : /\ Image(f, n)[1] = "image" /\ Image(f, n)[2] = f /\ Image(f, n)[3] = n
               /\ Image(f, n) # InitCache
  /\ \A f : /\ Save(f)[1] = "save" /\ Save(f)[2] = f /\ Save(f) # InitCache
            /\ File(f)[1] = "file" /\ File(f)[2] = f /\ File(f) # InitCache
            /\ Cut(f)[1] = "cut" /\ Cut(f)[2] = f /\ Cut(f) # InitCache
  <1>1. InitCache[1] = "init"
    BY DEF InitCache
  <1>2. \A f, n : Image(f, n)[1] = "image" /\ Image(f, n)[2] = f /\ Image(f, n)[3] = n
    BY DEF Image
  <1>3. \A f : /\ Save(f)[1] = "save" /\ Save(f)[2] = f
               /\ File(f)[1] = "file" /\ File(f)[2] = f
               /\ Cut(f)[1] = "cut" /\ Cut(f)[2] = f
    BY DEF Save, File, Cut
  <1> QED BY <1>1, <1>2, <1>3

\* The forms an item of a watch may have.
LEMMA ItemForms ==
  ASSUME NEW ff \in BOOLEAN, NEW w \in Watches, NEW i \in ItemsOf(ff, w)
  PROVE  \/ w = Job /\ i = InitCache /\ ~ff
         \/ w = Job /\ \E f \in Files : \E n \in 1..Frames[f] : i = Image(f, n)
         \/ w \in Objects /\ \E f \in Files : ObjectOfFile(f) = w /\ \E n \in 1..Frames[f] : i = Image(f, n)
         \/ w \in Objects /\ \E f \in Files : ObjectOfFile(f) = w /\ Saves(ff, ChannelOf[f]) /\ i = Save(f)
         \/ w \in Channels /\ \E p \in PatchesOf(ff) : i = Cut(p)
         \/ w \in Channels /\ \E f \in Files : ChannelOf[f] = w /\ i = File(f)
  <1>1. CASE w = Job
    BY <1>1, ItemsJob DEF Images
  <1>2. CASE w \in Objects
    BY <1>2, ItemsObject DEF ImagesOf
  <1>3. CASE w \in Channels
    BY <1>3, ItemsChannel DEF FilesOf
  <1> QED BY <1>1, <1>2, <1>3 DEF Watches

\* What is an item of which watch.
LEMMA ItemsAre ==
  ASSUME NEW ff \in BOOLEAN
  PROVE  /\ ~ff => InitCache \in ItemsOf(ff, Job)
         /\ \A f \in Files : /\ \A n \in 1..Frames[f] : /\ Image(f, n) \in ItemsOf(ff, Job)
                                                        /\ Image(f, n) \in ItemsOf(ff, ObjectOf[ChannelOf[f]])
                             /\ Saves(ff, ChannelOf[f]) => Save(f) \in ItemsOf(ff, ObjectOf[ChannelOf[f]])
                             /\ File(f) \in ItemsOf(ff, ChannelOf[f])
         /\ \A c \in Channels : \A p \in PatchesOf(ff) : Cut(p) \in ItemsOf(ff, c)
  <1>1. /\ ~ff => InitCache \in ItemsOf(ff, Job)
        /\ \A f \in Files : \A n \in 1..Frames[f] : Image(f, n) \in ItemsOf(ff, Job)
    BY ItemsJob DEF Images
  <1>2. ASSUME NEW f \in Files
        PROVE  /\ \A n \in 1..Frames[f] : Image(f, n) \in ItemsOf(ff, ObjectOf[ChannelOf[f]])
               /\ Saves(ff, ChannelOf[f]) => Save(f) \in ItemsOf(ff, ObjectOf[ChannelOf[f]])
    BY Layout, ItemsObject DEF ImagesOf
  <1>3. ASSUME NEW f \in Files PROVE File(f) \in ItemsOf(ff, ChannelOf[f])
    BY Layout, ItemsChannel
  <1>4. ASSUME NEW c \in Channels, NEW p \in PatchesOf(ff) PROVE Cut(p) \in ItemsOf(ff, c)
    BY ItemsChannel
  <1> QED BY <1>1, <1>2, <1>3, <1>4

\* Images are finite, those of a file, of some files and all.
LEMMA FiniteImages ==
  ASSUME NEW S \in SUBSET Files
  PROVE  IsFiniteSet(UNION {{Image(f, k) : k \in 1..Frames[f]} : f \in S})
  <1> DEFINE Of(f) == {Image(f, k) : k \in 1..Frames[f]}
             U == {Of(f) : f \in S}
  <1>1. IsFiniteSet(S)
    BY LayoutAssumption, FS_Subset
  <1>2. IsFiniteSet(U)
    <2>1. [f \in S |-> Of(f)] \in Surjection(S, U)
      BY DEF Surjection
    <2> QED BY <1>1, <2>1, FS_Surjection
  <1>3. \A T \in U : IsFiniteSet(T)
    <2> SUFFICES ASSUME NEW f \in S PROVE IsFiniteSet(Of(f))
      OBVIOUS
    <2>1. [k \in 1..Frames[f] |-> Image(f, k)] \in Surjection(1..Frames[f], Of(f))
      BY DEF Surjection
    <2>2. IsFiniteSet(1..Frames[f])
      BY Layout, FS_Interval
    <2> QED BY <2>1, <2>2, FS_Surjection
  <1> HIDE DEF U
  <1>4. IsFiniteSet(UNION U)
    BY <1>2, <1>3, FS_UNION
  <1> QED BY <1>4 DEF U

\* Saved files, cutouts and files of a channel are as many as there are files and patches.
LEMMA KindSizes ==
  ASSUME NEW S, IsFiniteSet(S)
  PROVE  /\ IsFiniteSet({Save(f) : f \in S}) /\ Cardinality({Save(f) : f \in S}) = Cardinality(S)
         /\ IsFiniteSet({File(f) : f \in S}) /\ Cardinality({File(f) : f \in S}) = Cardinality(S)
         /\ IsFiniteSet({Cut(f) : f \in S}) /\ Cardinality({Cut(f) : f \in S}) = Cardinality(S)
  <1>1. IsFiniteSet({Save(f) : f \in S}) /\ Cardinality({Save(f) : f \in S}) = Cardinality(S)
    <2> DEFINE g == [f \in S |-> Save(f)]
               T == {Save(f) : f \in S}
    <2>1. g \in [S -> T] /\ (\A x, y \in S : g[x] = g[y] => x = y) /\ (\A y \in T : \E x \in S : g[x] = y)
      BY DEF Save
    <2> HIDE DEF g, T
    <2>2. IsFiniteSet(T) /\ Cardinality(T) = Cardinality(S)
      BY <2>1, SameSize
    <2> QED BY <2>2 DEF T
  <1>2. IsFiniteSet({File(f) : f \in S}) /\ Cardinality({File(f) : f \in S}) = Cardinality(S)
    <2> DEFINE g == [f \in S |-> File(f)]
               T == {File(f) : f \in S}
    <2>1. g \in [S -> T] /\ (\A x, y \in S : g[x] = g[y] => x = y) /\ (\A y \in T : \E x \in S : g[x] = y)
      BY DEF File
    <2> HIDE DEF g, T
    <2>2. IsFiniteSet(T) /\ Cardinality(T) = Cardinality(S)
      BY <2>1, SameSize
    <2> QED BY <2>2 DEF T
  <1>3. IsFiniteSet({Cut(f) : f \in S}) /\ Cardinality({Cut(f) : f \in S}) = Cardinality(S)
    <2> DEFINE g == [f \in S |-> Cut(f)]
               T == {Cut(f) : f \in S}
    <2>1. g \in [S -> T] /\ (\A x, y \in S : g[x] = g[y] => x = y) /\ (\A y \in T : \E x \in S : g[x] = y)
      BY DEF Cut
    <2> HIDE DEF g, T
    <2>2. IsFiniteSet(T) /\ Cardinality(T) = Cardinality(S)
      BY <2>1, SameSize
    <2> QED BY <2>2 DEF T
  <1> QED BY <1>1, <1>2, <1>3

\* Two finite sets without a common element.
LEMMA DisjointSizes ==
  ASSUME NEW S, IsFiniteSet(S), NEW T, IsFiniteSet(T), S \cap T = {}
  PROVE  IsFiniteSet(S \cup T) /\ Cardinality(S \cup T) = Cardinality(S) + Cardinality(T)
  <1>1. Cardinality(S) \in Nat /\ Cardinality(T) \in Nat /\ Cardinality({}) = 0
    BY FS_CardinalityType, FS_EmptySet
  <1>2. IsFiniteSet(S \cup T) /\ Cardinality(S \cup T) = Cardinality(S) + Cardinality(T) - Cardinality(S \cap T)
    BY FS_Union
  <1>3. Cardinality(S \cap T) = 0
    BY <1>1
  <1> QED BY <1>1, <1>2, <1>3

\* The numbers that preProcess and loadData compute are those of the items.
LEMMA Sizes ==
  ASSUME NEW ff \in BOOLEAN
  PROVE  /\ IsFiniteSet(ItemsOf(ff, Job))
         /\ Cardinality(Images) \in Nat
         /\ Cardinality(ItemsOf(ff, Job)) = IF ff THEN Cardinality(Images) ELSE Cardinality(Images) + 1
         /\ \A c \in Channels : /\ IsFiniteSet(ItemsOf(ff, c))
                                /\ Cardinality(ItemsOf(ff, c)) = Cardinality(PatchesOf(ff)) + Cardinality(FilesOf(c))
                                /\ Cardinality(PatchesOf(ff)) \in Nat /\ Cardinality(FilesOf(c)) \in Nat
         /\ \A o \in Objects : IsFiniteSet(ImagesOf(o)) /\ IsFiniteSet(ItemsOf(ff, o)) /\ Cardinality(ImagesOf(o)) \in Nat
  <1>1. IsFiniteSet(Images) /\ Cardinality(Images) \in Nat
    BY FiniteImages, FS_CardinalityType DEF Images
  <1>2. /\ IsFiniteSet(ItemsOf(ff, Job))
        /\ Cardinality(ItemsOf(ff, Job)) = IF ff THEN Cardinality(Images) ELSE Cardinality(Images) + 1
    <2>1. CASE ff
      <3>1. ItemsOf(ff, Job) = Images
        BY <2>1, ItemsJob
      <3> QED BY <1>1, <2>1, <3>1
    <2>2. CASE ~ff
      <3>1. ItemsOf(ff, Job) = Images \cup {InitCache}
        BY <2>2, ItemsJob
      <3>2. InitCache \notin Images
        BY Kinds DEF Images
      <3>3. IsFiniteSet(Images \cup {InitCache}) /\ Cardinality(Images \cup {InitCache}) = Cardinality(Images) + 1
        BY <1>1, <3>2, FS_AddElement
      <3> QED BY <2>2, <3>1, <3>3
    <2> QED BY <2>1, <2>2
  <1>3. ASSUME NEW c \in Channels
        PROVE  /\ IsFiniteSet(ItemsOf(ff, c))
               /\ Cardinality(ItemsOf(ff, c)) = Cardinality(PatchesOf(ff)) + Cardinality(FilesOf(c))
               /\ Cardinality(PatchesOf(ff)) \in Nat /\ Cardinality(FilesOf(c)) \in Nat
    <2>1. IsFiniteSet(PatchesOf(ff))
      BY LayoutAssumption, FS_EmptySet DEF PatchesOf
    <2>2. IsFiniteSet(FilesOf(c))
      BY LayoutAssumption, FS_Subset DEF FilesOf
    <2> DEFINE A == {Cut(p) : p \in PatchesOf(ff)}
               B == {File(f) : f \in FilesOf(c)}
    <2>3. IsFiniteSet(A) /\ Cardinality(A) = Cardinality(PatchesOf(ff))
      BY <2>1, KindSizes
    <2>4. IsFiniteSet(B) /\ Cardinality(B) = Cardinality(FilesOf(c))
      BY <2>2, KindSizes
    <2>5. A \cap B = {}
      BY Kinds
    <2>6. ItemsOf(ff, c) = A \cup B
      BY ItemsChannel
    <2> HIDE DEF A, B
    <2>7. IsFiniteSet(A \cup B) /\ Cardinality(A \cup B) = Cardinality(A) + Cardinality(B)
      BY <2>3, <2>4, <2>5, DisjointSizes
    <2> QED BY <2>1, <2>2, <2>3, <2>4, <2>6, <2>7, FS_CardinalityType
  <1>4. ASSUME NEW o \in Objects
        PROVE  IsFiniteSet(ImagesOf(o)) /\ IsFiniteSet(ItemsOf(ff, o)) /\ Cardinality(ImagesOf(o)) \in Nat
    <2> DEFINE S == {g \in Files : ObjectOfFile(g) = o /\ Saves(ff, ChannelOf[g])}
               B == {Save(f) : f \in S}
    <2>1. IsFiniteSet(ImagesOf(o)) /\ Cardinality(ImagesOf(o)) \in Nat
      BY FiniteImages, FS_CardinalityType DEF ImagesOf
    <2>2. IsFiniteSet(S)
      BY LayoutAssumption, FS_Subset
    <2>3. IsFiniteSet(B)
      BY <2>2, KindSizes
    <2>4. ItemsOf(ff, o) = ImagesOf(o) \cup B
      BY ItemsObject
    <2> HIDE DEF S, B
    <2> QED BY <2>1, <2>3, <2>4, FS_Union
  <1> QED BY <1>1, <1>2, <1>3, <1>4

-----------------------------------------------------------------------------
(* Counting                                                                *)

\* The item is one that the task counts.
Belongs(k, w, i) ==
  \/ k.at = "init" /\ w = Job /\ i = InitCache
  \/ k.at = "cut" /\ w = k.chan /\ i = k.item
  \/ IsFile(k) /\ i[1] \in {"image", "save", "file"} /\ i[2] = k.item

\* What no step takes back.
Monotone ==
  /\ flat' = flat
  /\ \A c \in Channels : Started(c) => Started(c)'
  /\ Off(Job)' => Off(Job)
  /\ fired \subseteq fired' /\ done \subseteq done'

\* A posted item is one of a watch that is on.
LEMMA OpenOn ==
  ASSUME IndInv, NEW w \in Watches, NEW i \in ItemsOf(flat, w), Open(w, i)
  PROVE  ~Off(w)
  <1>0. flat \in BOOLEAN
    BY DEF IndInv, TypeInv, TypeOK
  <1>1. CASE w = Job /\ i = InitCache
    BY <1>1 DEF Open
  <1>2. ASSUME NEW f \in Files, w = Job, NEW n \in 1..Frames[f], i = Image(f, n) PROVE ~Off(w)
    <2>1. Started(ChannelOf[f]) /\ ChannelOf[f] \in Channels
      BY <1>2, Kinds, Layout DEF Open
    <2> QED BY <1>2, <2>1 DEF Off, Started, IndInv, MainInv
  <1>3. ASSUME NEW f \in Files, w \in Objects, ObjectOfFile(f) = w, i[2] = f, i # InitCache PROVE ~Off(w)
    <2>1. Started(ChannelOf[f]) /\ ChannelOf[f] \in Channels
      BY <1>3, Layout DEF Open
    <2> QED BY <1>3, <2>1, Layout DEF Off, Started, IndInv, MainInv
  <1>4. CASE w \in Channels /\ i # InitCache
    BY <1>4, Layout DEF Off, Open
  <1> QED BY <1>0, <1>1, <1>2, <1>3, <1>4, ItemForms, Kinds

\* The items of a watch that were counted are posted, and are among those expected.
LEMMA CountedOpen ==
  ASSUME IndInv, NEW w \in Watches
  PROVE  /\ \A i : <<w, i>> \in counted => i \in ItemsOf(flat, w) /\ Open(w, i)
         /\ \A i \in ItemsOf(flat, w) : Open(w, i) => i \in Expected(w)
         /\ CountedOf(w) \subseteq Expected(w)
         /\ IsFiniteSet(ItemsOf(flat, w)) /\ IsFiniteSet(CountedOf(w)) /\ IsFiniteSet(Expected(w))
  <1>0. flat \in BOOLEAN
    BY DEF IndInv, TypeInv, TypeOK
  <1>1. \A i : <<w, i>> \in counted => i \in ItemsOf(flat, w) /\ Open(w, i)
    BY DEF IndInv, CountedInv
  <1>2. ASSUME NEW i \in ItemsOf(flat, w), Open(w, i) PROVE i \in Expected(w)
    <2>1. ASSUME i[1] = "save" PROVE Alloc(ChannelOf[i[2]])
      <3>1. w \in Objects /\ i # InitCache
        BY <1>0, <2>1, ItemForms, Kinds
      <3> QED BY <1>2, <3>1, Layout DEF Open, Started
    <2> QED BY <2>1 DEF Expected
  <1>3. CountedOf(w) \subseteq Expected(w)
    BY <1>1, <1>2 DEF CountedOf
  <1>4. IsFiniteSet(ItemsOf(flat, w))
    BY <1>0, Sizes DEF Watches
  <1>5. IsFiniteSet(CountedOf(w)) /\ IsFiniteSet(Expected(w))
    BY <1>4, FS_Subset DEF CountedOf, Expected
  <1> QED BY <1>1, <1>2, <1>3, <1>4, <1>5

\* A count reaches the target of its watch if, and only if, it is the count of the last item.
LEMMA LastCount ==
  ASSUME IndInv, NEW w \in Watches, NEW i \in ItemsOf(flat, w), Open(w, i), <<w, i>> \notin counted,
         \A f \in Files : Dead(f) => i # Image(f, 1) /\ i # File(f)
  PROVE  /\ w \notin fired
         /\ Reaches(watch[w], 1) <=> \A j \in ItemsOf(flat, w) : <<w, j>> \in counted \/ j = i
         /\ Reaches(watch[w], 1) => watch[w].handler = HandlerOf(w)
         /\ ~Off(w)
  <1>0. flat \in BOOLEAN /\ WatchInv(w)
    BY DEF IndInv, TypeInv, TypeOK
  <1>1. ~Off(w)
    BY OpenOn
  <1>2. w \notin fired
    BY <1>0 DEF WatchInv
  <1>3. CASE Exact(w)
    <2> DEFINE S == CountedOf(w) \cup {i}
    <2>1. i \in Expected(w) /\ CountedOf(w) \subseteq Expected(w) /\ i \notin CountedOf(w)
      BY CountedOpen DEF CountedOf
    <2>2. IsFiniteSet(CountedOf(w)) /\ IsFiniteSet(Expected(w))
      BY CountedOpen
    <2>3. IsFiniteSet(S) /\ Cardinality(S) = Cardinality(CountedOf(w)) + 1
      BY <2>1, <2>2, FS_AddElement
    <2>4. Cardinality(CountedOf(w)) \in Nat /\ Cardinality(Expected(w)) \in Nat
      BY <2>2, FS_CardinalityType
    <2>5. S \subseteq Expected(w)
      BY <2>1
    <2>6. Cardinality(Expected(w)) = Cardinality(S) => Expected(w) = S
      BY <2>2, <2>5, FS_Subset
    <2>7. Reaches(watch[w], 1) <=> Expected(w) = S
      <3> HIDE DEF S
      <3>1. Reaches(watch[w], 1) <=> Cardinality(Expected(w)) = Cardinality(S)
        BY <1>3, <2>3, <2>4 DEF Exact, Reaches
      <3> QED BY <2>6, <3>1
    <2>8. ASSUME Expected(w) = S, NEW j \in ItemsOf(flat, w) PROVE j \in S
      <3>1. CASE j[1] = "save"
        <4>1. PICK f \in Files : w \in Objects /\ ObjectOfFile(f) = w /\ j = Save(f)
          BY <1>0, <3>1, ItemForms, Kinds
        <4>2. Image(f, 1) \in ItemsOf(flat, w)
          BY <1>0, <4>1, ItemsAre, Layout
        <4>3. Image(f, 1) \in S
          BY <2>8, <4>2, Kinds DEF Expected
        <4>4. Open(w, Image(f, 1))
          BY <4>3, CountedOpen DEF CountedOf
        <4>5. Alloc(ChannelOf[f])
          BY <4>1, <4>4, Kinds, Layout DEF Open, Started
        <4> QED BY <2>8, <4>1, <4>5, Kinds DEF Expected
      <3>2. CASE j[1] # "save"
        BY <2>8, <3>2 DEF Expected
      <3> QED BY <3>1, <3>2
    <2>9. (\A j \in ItemsOf(flat, w) : j \in S) => Expected(w) = S
      BY <2>5 DEF Expected
    <2>10. \A j \in ItemsOf(flat, w) : j \in S <=> <<w, j>> \in counted \/ j = i
      BY DEF CountedOf
    <2> HIDE DEF S
    <2> QED BY <1>1, <1>2, <1>3, <2>7, <2>8, <2>9, <2>10 DEF Exact
  <1>4. CASE /\ w \notin Objects /\ watch[w].target = 0
             /\ \E f \in Files : Dead(f) /\ (w # Job => ChannelOf[f] = w)
    <2>1. PICK f \in Files : Dead(f) /\ (w # Job => ChannelOf[f] = w)
      BY <1>4
    <2>2. ~Reaches(watch[w], 1)
      BY <1>4 DEF Reaches
    <2>3. i # Image(f, 1) /\ i # File(f)
      BY <2>1
    <2>4. CASE w = Job
      <3>1. Image(f, 1) \in ItemsOf(flat, w) /\ <<w, Image(f, 1)>> \notin counted
        BY <1>0, <2>1, <2>4, ItemsAre, Layout DEF Dead
      <3> QED BY <1>1, <1>2, <2>2, <2>3, <3>1
    <2>5. CASE w # Job
      <3>1. File(f) \in ItemsOf(flat, w) /\ <<w, File(f)>> \notin counted
        BY <1>0, <2>1, <2>5, ItemsAre, Layout DEF Dead
      <3> QED BY <1>1, <1>2, <2>2, <2>3, <3>1
    <2> QED BY <2>4, <2>5
  <1> QED BY <1>0, <1>1, <1>2, <1>3, <1>4 DEF WatchInv

\* The watches of this job.
JobWatch == Watch({"unload", "normalize", "drop", "jobDone"})

\* The methods of a watch keep its type.
LEMMA WatchTypes ==
  ASSUME NEW x \in JobWatch, NEW n \in Int
  PROVE  /\ step(x, n) \in JobWatch /\ clear(x) \in JobWatch /\ set(x, n) \in JobWatch
         /\ setTarget(x, n) \in JobWatch /\ increaseTarget(x, n) \in JobWatch
         /\ \A h \in {"unload", "normalize", "drop", "jobDone"} : setHandler(x, h) \in JobWatch
  <1>1. x \in [counter : Int, target : Int, completed : BOOLEAN, handler : {"unload", "normalize", "drop", "jobDone"} \cup {NoHandler}]
    BY DEF JobWatch, Watch
  <1>2. x.counter + n \in Int /\ x.target + n \in Int /\ 0 \in Int
    BY <1>1
  <1>3. (n = 0) \in BOOLEAN /\ TRUE \in BOOLEAN /\ FALSE \in BOOLEAN
    OBVIOUS
  <1>4. step(x, n) \in JobWatch
    <2>1. [x EXCEPT !.counter = 0, !.completed = TRUE, !.handler = NoHandler] \in JobWatch
      BY <1>1, <1>2, <1>3 DEF JobWatch, Watch
    <2>2. [x EXCEPT !.counter = x.counter + n, !.completed = FALSE] \in JobWatch
      BY <1>1, <1>2, <1>3 DEF JobWatch, Watch
    <2>3. [x EXCEPT !.counter = @ + n, !.completed = FALSE] = [x EXCEPT !.counter = x.counter + n, !.completed = FALSE]
      BY <1>1
    <2> QED BY <2>1, <2>2, <2>3, Zenon DEF step
  <1>5. clear(x) \in JobWatch
    BY DEF clear, NewWatch, JobWatch, Watch
  <1>6. set(x, n) \in JobWatch
    <2>1. PICK b \in BOOLEAN : b = (n = 0)
      BY <1>3
    <2>2. [x EXCEPT !.target = n, !.counter = 0, !.completed = b] \in JobWatch
      BY <1>1, <1>2 DEF JobWatch, Watch
    <2> QED BY <2>1, <2>2, Zenon DEF set
  <1>7. setTarget(x, n) \in JobWatch /\ increaseTarget(x, n) \in JobWatch
    BY <1>1, <1>2 DEF setTarget, increaseTarget, JobWatch, Watch
  <1>8. \A h \in {"unload", "normalize", "drop", "jobDone"} : setHandler(x, h) \in JobWatch
    BY <1>1 DEF setHandler, JobWatch, Watch
  <1> QED BY <1>4, <1>5, <1>6, <1>7, <1>8

\* What a count does to the watches and the books.
Books(w, i) ==
  /\ watch' = [watch EXCEPT ![w] = step(@, 1)]
  /\ counted' = counted \cup {<<w, i>>}
  /\ fired' = IF Reaches(watch[w], 1) THEN fired \cup {w} ELSE fired
  /\ UNCHANGED <<flat, jobStep, main, begun, loading, images, calib>>

\* A count, even the last one, changes nothing of what was started or allocated.
LEMMA BooksFrame ==
  ASSUME IndInv, NEW w \in Watches, NEW i \in ItemsOf(flat, w), Open(w, i), <<w, i>> \notin counted,
         \A f \in Files : Dead(f) => i # Image(f, 1) /\ i # File(f),
         Books(w, i)
  PROVE  /\ \A c \in Channels : (Alloc(c)' <=> Alloc(c)) /\ (Started(c)' <=> Started(c))
         /\ \A v \in Watches : Off(v)' <=> Off(v)
         /\ MainInv' /\ StepInv'
  <1>0. flat \in BOOLEAN /\ MainInv /\ StepInv
    BY DEF IndInv, TypeInv, TypeOK
  <1>1. ASSUME w \in Channels PROVE Started(w)
    <2>1. i # InitCache
      BY <1>0, <1>1, ItemForms, Kinds, Layout
    <2> QED BY <1>1, <2>1 DEF Open
  <1>2. \A c \in Channels : Alloc(c)' <=> Alloc(c)
    BY <1>1 DEF Alloc, Books, Started
  <1>3. ASSUME w = Job, Reaches(watch[w], 1), NEW c \in Channels PROVE Started(c)
    <2>1. PICK f \in Files : ChannelOf[f] = c
      BY LayoutAssumption
    <2>2. Image(f, 1) \in ItemsOf(flat, Job)
      BY <1>0, ItemsAre, Layout
    <2>3. <<w, Image(f, 1)>> \in counted \/ Image(f, 1) = i
      BY <1>3, <2>2, LastCount
    <2>4. Open(Job, Image(f, 1))
      BY <1>3, <2>3, CountedOpen
    <2> QED BY <2>1, <2>4, Kinds, Layout DEF Open
  <1>4. \A c \in Channels : Started(c)' <=> Started(c)
    <2> SUFFICES ASSUME NEW c \in Channels PROVE Started(c)' <=> Started(c)
      OBVIOUS
    <2>1. CASE Job \in fired' /\ Job \notin fired
      <3>1. w = Job /\ Reaches(watch[w], 1)
        BY <2>1 DEF Books
      <3>2. Started(c)
        BY <1>3, <3>1
      <3> QED BY <1>2, <2>1, <3>2 DEF Started, Books
    <2>2. CASE Job \in fired' <=> Job \in fired
      BY <1>2, <2>2 DEF Started, Books
    <2>3. Job \in fired => Job \in fired'
      BY DEF Books
    <2> QED BY <2>1, <2>2, <2>3
  <1>5. \A v \in Watches : Off(v)' <=> Off(v)
    BY <1>4, Layout DEF Off, Books, Watches
  <1>6. fired \subseteq fired'
    BY DEF Books
  <1>7. MainInv'
    BY <1>0, <1>2, <1>6 DEF MainInv, Books
  <1>8. StepInv'
    BY <1>0, <1>6 DEF StepInv, Books
  <1> QED BY <1>2, <1>4, <1>5, <1>7, <1>8

\* A count keeps the watches exact.
LEMMA BooksWatch ==
  ASSUME IndInv, NEW w \in Watches, NEW i \in ItemsOf(flat, w), Open(w, i), <<w, i>> \notin counted,
         \A f \in Files : Dead(f) => i # Image(f, 1) /\ i # File(f),
         Books(w, i), \A f \in Files : Dead(f) => Dead(f)'
  PROVE  \A v \in Watches : WatchInv(v)'
  <1>0. flat \in BOOLEAN /\ flat' = flat
    BY DEF IndInv, TypeInv, TypeOK, Books
  <1>1. \A v \in Watches : Expected(v)' = Expected(v)
    <2> SUFFICES ASSUME NEW v \in Watches, NEW j \in ItemsOf(flat, v), j[1] = "save"
                 PROVE  Alloc(ChannelOf[j[2]])' <=> Alloc(ChannelOf[j[2]])
      BY <1>0 DEF Expected
    <2>1. PICK f \in Files : j = Save(f)
      BY <1>0, ItemForms, Kinds
    <2>2. PICK c \in Channels : c = ChannelOf[j[2]]
      BY <2>1, Kinds, Layout
    <2>3. Alloc(c)' <=> Alloc(c)
      BY BooksFrame
    <2> QED BY <2>2, <2>3
  <1>2. \A v \in Watches : Off(v)' <=> Off(v)
    BY BooksFrame
  <1>3. ASSUME NEW v \in Watches, v # w PROVE WatchInv(v)'
    <2>1. CountedOf(v)' = CountedOf(v)
      BY <1>0, <1>3 DEF CountedOf, Books
    <2>2. watch'[v] = watch[v] /\ (v \in fired' <=> v \in fired)
      BY <1>3 DEF Books, IndInv, TypeInv, TypeOK
    <2>3. WatchInv(v)
      BY DEF IndInv
    <2>4. counted \subseteq counted'
      BY DEF Books
    <2>5. CASE v \in fired /\ ~Off(v) /\ \A j \in ItemsOf(flat, v) : <<v, j>> \in counted
      BY <1>0, <1>2, <2>2, <2>4, <2>5 DEF WatchInv
    <2>6. CASE v \notin fired /\ Off(v)
      BY <1>2, <2>2, <2>6 DEF WatchInv
    <2>7. CASE v \notin fired /\ Exact(v)
      <3>1. Exact(v)'
        BY <1>1, <2>1, <2>2, <2>7 DEF Exact
      <3> QED BY <2>2, <2>7, <3>1 DEF WatchInv
    <2>8. CASE /\ v \notin fired /\ v \notin Objects /\ watch[v].target = 0
               /\ \E f \in Files : Dead(f) /\ (v # Job => ChannelOf[f] = v)
      <3>1. \E f \in Files : Dead(f)' /\ (v # Job => ChannelOf[f] = v)
        BY <2>8
      <3> QED BY <2>2, <2>8, <3>1 DEF WatchInv
    <2> QED BY <2>3, <2>5, <2>6, <2>7, <2>8 DEF WatchInv
  <1>4. WatchInv(w)'
    <2>1. watch'[w] = step(watch[w], 1) /\ watch[w] \in Watch({"unload", "normalize", "drop", "jobDone"})
      BY DEF Books, IndInv, TypeInv, TypeOK
    <2>2. w \notin fired /\ ~Off(w)
      BY LastCount
    <2>3. CASE Reaches(watch[w], 1)
      <3>1. \A j \in ItemsOf(flat, w) : <<w, j>> \in counted \/ j = i
        BY <2>3, LastCount
      <3>2. w \in fired' /\ \A j \in ItemsOf(flat, w) : <<w, j>> \in counted'
        BY <2>3, <3>1 DEF Books
      <3> QED BY <1>0, <1>2, <2>2, <3>2 DEF WatchInv
    <2>4. CASE ~Reaches(watch[w], 1)
      <3>1. w \notin fired'
        BY <2>2, <2>4 DEF Books
      <3>2. /\ watch'[w].handler = watch[w].handler /\ watch'[w].target = watch[w].target
            /\ watch'[w].counter = watch[w].counter + 1
        BY <2>1, <2>4 DEF step, Watch
      <3>3. CASE Exact(w)
        <4>1. CountedOf(w)' = CountedOf(w) \cup {i}
          BY <1>0 DEF CountedOf, Books
        <4>2. i \notin CountedOf(w) /\ IsFiniteSet(CountedOf(w))
          BY CountedOpen DEF CountedOf
        <4>3. Cardinality(CountedOf(w)') = Cardinality(CountedOf(w)) + 1
          BY <4>1, <4>2, FS_AddElement
        <4>4. Exact(w)'
          BY <1>1, <3>2, <3>3, <4>3 DEF Exact
        <4> QED BY <3>1, <4>4 DEF WatchInv
      <3>4. CASE /\ w \notin Objects /\ watch[w].target = 0
                 /\ \E f \in Files : Dead(f) /\ (w # Job => ChannelOf[f] = w)
        <4>1. \E f \in Files : Dead(f)' /\ (w # Job => ChannelOf[f] = w)
          BY <3>4
        <4> QED BY <3>1, <3>2, <3>4, <4>1 DEF WatchInv
      <3> QED BY <2>2, <3>3, <3>4 DEF WatchInv, IndInv
    <2> QED BY <2>3, <2>4
  <1> QED BY <1>3, <1>4

-----------------------------------------------------------------------------
(* The tasks                                                               *)

\* An item belongs to one task.
LEMMA BelongsSame ==
  ASSUME NEW k, NEW l, HolderInv(k), HolderInv(l), NEW w, NEW i, Belongs(k, w, i), Belongs(l, w, i)
  PROVE  Same(k, l)
  <1>1. k.at = "cut" => k.item[1] = "cut"
    BY Kinds DEF HolderInv
  <1>2. l.at = "cut" => l.item[1] = "cut"
    BY Kinds DEF HolderInv
  <1>3. InitCache[1] = "init"
    BY Kinds
  <1> QED BY <1>1, <1>2, <1>3 DEF Belongs, Same

\* A task that counts nothing keeps what it relies on.
LEMMA HolderKept ==
  ASSUME Monotone, NEW k, HolderInv(k),
         \A w, i : <<w, i>> \in counted' \ counted => ~Belongs(k, w, i)
  PROVE  HolderInv(k)'
  <1>1. (k.at = "init" => ~flat /\ ~Off(Job) /\ <<Job, InitCache>> \notin counted)'
    BY DEF HolderInv, Monotone, Belongs
  <1>2. (k.at = "cut" => /\ k.chan \in Channels /\ Started(k.chan)
                         /\ k.item \in {Cut(p) : p \in PatchList} /\ <<k.chan, k.item>> \notin counted)'
    <2>1. PatchList' = PatchList
      BY DEF PatchList, Monotone
    <2> QED BY <2>1 DEF HolderInv, Monotone, Belongs
  <1>3. ASSUME IsFile(k) PROVE FileAt(k.item, k.chan, k.frame, Pos(k))'
    <2> DEFINE f == k.item
               c == k.chan
    <2>1. FileAt(k.item, k.chan, k.frame, Pos(k))
      BY <1>3 DEF HolderInv
    <2>2. f \in Files /\ c = ChannelOf[f] /\ c \in Channels
      BY <2>1, Layout DEF FileAt
    <2>3. Started(c)' /\ (Saving(c)' <=> Saving(c)) /\ done \subseteq done'
      BY <2>1, <2>2 DEF FileAt, Monotone, Saving, Saves
    <2>4. /\ \A w, m : <<w, Image(f, m)>> \in counted' => <<w, Image(f, m)>> \in counted
          /\ \A w : <<w, Save(f)>> \in counted' => <<w, Save(f)>> \in counted
          /\ \A w : <<w, File(f)>> \in counted' => <<w, File(f)>> \in counted
      BY <1>3, Kinds DEF Belongs
    <2> HIDE DEF f, c
    <2>5. FileAt(f, c, k.frame, Pos(k))'
      BY <2>1, <2>2, <2>3, <2>4 DEF FileAt, f, c
    <2> QED BY <2>5 DEF f, c
  <1>4. /\ k.at \in {"unload", "queue"} => Job \in fired' /\ k.then \in {"idle", "countObject"}
        /\ k.at = "normalize" => k.then \in {"next", "save", "countFile"}
        /\ k.at = "drop" => k.chan \in Channels /\ k.chan \in fired' /\ k.then = "idle"
    BY DEF HolderInv, Monotone
  <1> QED BY <1>1, <1>2, <1>3, <1>4 DEF HolderInv

\* The same task, further on.
Continues(k, q) ==
  /\ q.at \notin {"init", "cut"}
  /\ IsFile(q) => IsFile(k) /\ q.item = k.item /\ (k.at \in Failing => q.at \in Failing)

\* A thread goes on with its task, and counts items of that task only.
LEMMA ThreadMoves ==
  ASSUME IndInv, NEW t \in Threads, NEW q \in Records, th' = [th EXCEPT ![t] = q], posted' = posted,
         Monotone, HolderInv(q)', Continues(th[t], q),
         \A w, i : <<w, i>> \in counted' \ counted => Belongs(th[t], w, i) /\ th[t].at \notin Failing
  PROVE  /\ TaskInv'
         /\ th' \in [Threads -> Records]
         /\ \A f \in Files : Dead(f) => Dead(f)'
  <1>0. th \in [Threads -> Records] /\ TaskInv
    BY DEF IndInv, TypeInv
  <1>1. th' \in [Threads -> Records] /\ th'[t] = q /\ \A s \in Threads \ {t} : th'[s] = th[s]
    BY <1>0
  <1>2. ASSUME NEW k, HolderInv(k), ~Same(th[t], k) PROVE HolderInv(k)' /\ ~Same(q, k)
    <2>1. HolderInv(th[t])
      BY <1>0 DEF TaskInv
    <2>2. \A w, i : <<w, i>> \in counted' \ counted => ~Belongs(k, w, i)
      BY <1>2, <2>1, BelongsSame
    <2>3. HolderInv(k)'
      BY <1>2, <2>2, HolderKept
    <2>4. ~Same(q, k)
      BY <1>2 DEF Same, Continues
    <2> QED BY <2>3, <2>4
  <1>3. \A k \in posted' : PostedTask(k) /\ HolderInv(k)' /\ ~Same(q, k)
    BY <1>0, <1>2 DEF TaskInv
  <1>4. ASSUME NEW s \in Threads \ {t} PROVE HolderInv(th[s])' /\ ~Same(q, th'[s]) /\ ~Same(th'[s], q)
    <2>1. PICK k : k = th[s]
      OBVIOUS
    <2>2. HolderInv(k) /\ ~Same(th[t], k) /\ th'[s] = k
      BY <1>0, <1>1, <1>4, <2>1 DEF TaskInv
    <2>3. HolderInv(k)' /\ ~Same(q, k)
      BY <1>2, <2>2
    <2>4. ~Same(k, q)
      BY <2>3 DEF Same
    <2> QED BY <2>1, <2>2, <2>3, <2>4
  <1>5. TaskInv'
    <2>1. \A k \in posted' : (PostedTask(k) /\ HolderInv(k))'
      BY <1>3 DEF PostedTask
    <2>2. ASSUME NEW s \in Threads PROVE HolderInv(th[s])'
      <3>1. CASE s = t
        BY <1>1, <3>1
      <3>2. CASE s # t
        BY <1>4, <3>2
      <3> QED BY <3>1, <3>2
    <2>3. ASSUME NEW r \in Threads, NEW s \in Threads, r # s PROVE ~Same(th'[r], th'[s])
      <3>1. CASE r = t
        BY <1>1, <1>4, <2>3, <3>1
      <3>2. CASE s = t
        BY <1>1, <1>4, <2>3, <3>2
      <3>3. CASE r # t /\ s # t
        BY <1>0, <1>1, <2>3, <3>3 DEF TaskInv
      <3> QED BY <3>1, <3>2, <3>3
    <2>4. ASSUME NEW s \in Threads, NEW k \in posted' PROVE ~Same(th'[s], k)
      <3>1. CASE s = t
        BY <1>1, <1>3, <3>1
      <3>2. CASE s # t
        BY <1>0, <1>1, <3>2 DEF TaskInv
      <3> QED BY <3>1, <3>2
    <2> QED BY <2>1, <2>2, <2>3, <2>4 DEF TaskInv
  <1>6. ASSUME NEW f \in Files, Dead(f) PROVE Dead(f)'
    <2>1. Started(ChannelOf[f])'
      BY <1>6, Layout DEF Dead, Monotone
    <2>2. IsFile(th[t]) /\ th[t].item = f => th[t].at \in Failing
      BY <1>6 DEF Dead
    <2>3. Image(f, 1)[1] = "image" /\ Image(f, 1)[2] = f /\ File(f)[1] = "file" /\ File(f)[2] = f
      BY Kinds
    <2>4. th[t].at = "cut" => th[t].item[1] = "cut"
      <3>1. PICK k : k = th[t]
        OBVIOUS
      <3>2. HolderInv(k)
        BY <1>0, <3>1 DEF TaskInv
      <3>3. k.at = "cut" => k.item[1] = "cut"
        BY <3>2, Kinds DEF HolderInv
      <3> QED BY <3>1, <3>3
    <2>5. ASSUME NEW w, NEW i, i \in {Image(f, 1), File(f)}, <<w, i>> \in counted' PROVE <<w, i>> \in counted
      <3> SUFFICES ASSUME <<w, i>> \notin counted PROVE FALSE
        OBVIOUS
      <3>1. Belongs(th[t], w, i) /\ th[t].at \notin Failing
        BY <2>5
      <3> QED BY <2>2, <2>3, <2>4, <2>5, <3>1, Kinds DEF Belongs
    <2>6. <<Job, Image(f, 1)>> \notin counted' /\ <<ChannelOf[f], File(f)>> \notin counted'
      BY <1>6, <2>5 DEF Dead
    <2>7. ASSUME NEW s \in Threads, IsFile(th'[s]), th'[s].item = f PROVE th'[s].at \in Failing
      <3>1. CASE s = t
        BY <1>1, <2>2, <2>7, <3>1 DEF Continues
      <3>2. CASE s # t
        BY <1>1, <1>6, <2>7, <3>2 DEF Dead
      <3> QED BY <3>1, <3>2
    <2> QED BY <1>6, <2>1, <2>6, <2>7 DEF Dead
  <1> QED BY <1>1, <1>5, <1>6

-----------------------------------------------------------------------------
(* Steps that count                                                        *)

\* The thread may count the item: it is one of its task, posted and not counted.
MayCount(t, w, i) ==
  /\ w \in Watches /\ i \in ItemsOf(flat, w) /\ Open(w, i) /\ <<w, i>> \notin counted
  /\ Belongs(th[t], w, i) /\ th[t].at \notin Failing

\* Its item is none of a file that failed.
LEMMA CountsLive ==
  ASSUME IndInv, NEW t \in Threads, NEW w, NEW i, MayCount(t, w, i)
  PROVE  \A f \in Files : Dead(f) => i # Image(f, 1) /\ i # File(f)
  <1> SUFFICES ASSUME NEW f \in Files, Dead(f), i = Image(f, 1) \/ i = File(f) PROVE FALSE
    OBVIOUS
  <1>1. PICK k : k = th[t]
    OBVIOUS
  <1>2. HolderInv(k)
    BY <1>1 DEF IndInv, TaskInv
  <1>3. k.at = "cut" => k.item[1] = "cut"
    BY <1>2, Kinds DEF HolderInv
  <1>4. i[1] \in {"image", "file"} /\ i[2] = f /\ InitCache[1] = "init"
    BY Kinds
  <1>5. IsFile(k) /\ k.item = f
    BY <1>1, <1>3, <1>4 DEF MayCount, Belongs
  <1> QED BY <1>1, <1>5 DEF Dead, MayCount

\* Where a count of watch w leaves the thread.
Moved(t, w, next) ==
  /\ Reaches(watch[w], 1) => th' = [th EXCEPT ![t] = [th[t] EXCEPT !.at = HandlerOf(w), !.then = next]]
  /\ ~Reaches(watch[w], 1) => Goto(t, next)

\* What Count does: it books the item, and the handler is that of the watch.
LEMMA CountBooks ==
  ASSUME IndInv, NEW t \in Threads, NEW w, NEW i, NEW next, MayCount(t, w, i), Count(t, w, i, next),
         done \subseteq done'
  PROVE  /\ Books(w, i) /\ Monotone
         /\ MainInv' /\ StepInv'
         /\ Moved(t, w, next)
  <1>1. w \in Watches /\ i \in ItemsOf(flat, w) /\ Open(w, i) /\ <<w, i>> \notin counted
    BY DEF MayCount
  <1>2. \A f \in Files : Dead(f) => i # Image(f, 1) /\ i # File(f)
    BY CountsLive
  <1>3. Reaches(watch[w], 1) => watch[w].handler = HandlerOf(w) /\ HandlerOf(w) # NoHandler
    BY <1>1, <1>2, LastCount DEF HandlerOf, NoHandler
  <1>4. /\ Reaches(watch[w], 1) => Completer(watch[w], 1) = HandlerOf(w) /\ HandlerOf(w) # NoHandler
        /\ ~Reaches(watch[w], 1) => Completer(watch[w], 1) = NoHandler
    BY <1>3 DEF Completer
  <1>5. /\ watch' = [watch EXCEPT ![w] = step(@, 1)]
        /\ counted' = counted \cup {<<w, i>>}
        /\ UNCHANGED <<flat, jobStep, main, begun, loading, images, calib>>
    BY DEF Count, loader
  <1>6. /\ Reaches(watch[w], 1) => /\ th' = [th EXCEPT ![t] = [th[t] EXCEPT !.at = HandlerOf(w), !.then = next]]
                                   /\ fired' = fired \cup {w}
        /\ ~Reaches(watch[w], 1) => Goto(t, next) /\ fired' = fired
    <2>1. th \in [Threads -> Records]
      BY DEF IndInv, TypeInv
    <2> QED BY <1>4, <2>1 DEF Count, Records
  <1>7. Books(w, i)
    BY <1>5, <1>6 DEF Books
  <1>8. /\ \A c \in Channels : Started(c)' <=> Started(c)
        /\ Off(Job)' <=> Off(Job)
        /\ MainInv' /\ StepInv'
    BY <1>1, <1>2, <1>7, BooksFrame, Layout
  <1>9. Monotone
    BY <1>5, <1>6, <1>8 DEF Monotone
  <1> QED BY <1>6, <1>7, <1>8, <1>9 DEF Moved

\* A step that counts keeps the invariant, if the task is where it should be afterwards.
LEMMA CountStep ==
  ASSUME IndInv, NEW t \in Threads, NEW w, NEW i, NEW next \in Places, MayCount(t, w, i), Count(t, w, i, next),
         done \subseteq done', w = Job => <<w, i>> \in done',
         NEW f, NEW c, NEW n, f = th[t].item, c = th[t].chan, n = th[t].frame,
         \/ next = "idle"
         \/ next \in {"countObject", "next", "save", "countFile"} /\ IsFile(th[t]) /\ FileAt(f, c, n, next)',
         w = Job => next \in {"idle", "countObject"},
         w \in Objects => next \in {"next", "save", "countFile"},
         w \in Channels => next = "idle" /\ c = w
  PROVE  IndInv'
  <1>0. /\ w \in Watches /\ i \in ItemsOf(flat, w) /\ Open(w, i) /\ <<w, i>> \notin counted
        /\ Belongs(th[t], w, i) /\ th[t].at \notin Failing
    BY DEF MayCount
  <1>1. /\ Books(w, i) /\ Monotone /\ MainInv' /\ StepInv'
        /\ Moved(t, w, next)
    BY CountBooks
  <1>2. TypeOK /\ th \in [Threads -> Records] /\ th[t] \in Records
    BY DEF IndInv, TypeInv
  <1>3. HandlerOf(w) \in {"unload", "normalize", "drop"}
    BY DEF HandlerOf
  <1>4. PICK q \in Records : th' = [th EXCEPT ![t] = q] /\ HolderInv(q)' /\ Continues(th[t], q)
    <2>1. CASE Reaches(watch[w], 1)
      <3>0. PICK q : q = [th[t] EXCEPT !.at = HandlerOf(w), !.then = next]
        OBVIOUS
      <3>1. q \in Records
        BY <1>2, <1>3, <3>0 DEF Records, Places
      <3>2. /\ q.at = HandlerOf(w) /\ q.then = next /\ q.item = f /\ q.chan = c /\ q.frame = n
            /\ Pos(q) = next
        BY <1>2, <1>3, <3>0 DEF Records, Pos, Handlers
      <3>3. w \in fired'
        BY <1>1, <2>1 DEF Books
      <3>4. th' = [th EXCEPT ![t] = q]
        BY <1>1, <1>2, <2>1, <3>0 DEF Moved
      <3>5. IsFile(q) => FileAt(q.item, q.chan, q.frame, Pos(q))'
        BY <3>2 DEF IsFile, AtFile, Failing
      <3>6. HolderInv(q)'
        BY <1>0, <3>2, <3>3, <3>5 DEF HolderInv, HandlerOf, Watches
      <3>7. Continues(th[t], q)
        BY <1>0, <1>3, <3>2 DEF Continues, IsFile, AtFile, Failing
      <3> QED BY <3>1, <3>4, <3>6, <3>7
    <2>2. CASE ~Reaches(watch[w], 1) /\ next = "idle"
      <3>1. th' = [th EXCEPT ![t] = Idle]
        BY <1>1, <2>2 DEF Goto, Moved
      <3>2. Idle \in Records /\ HolderInv(Idle)' /\ Continues(th[t], Idle)
        BY DEF Idle, Records, Places, HolderInv, Continues, IsFile, Pos, AtFile, Handlers, Failing
      <3> QED BY <3>1, <3>2
    <2>3. CASE ~Reaches(watch[w], 1) /\ next # "idle"
      <3>0. PICK q : q = [th[t] EXCEPT !.at = next]
        OBVIOUS
      <3>1. q \in Records
        BY <1>2, <3>0 DEF Records, Places
      <3>2. /\ q.at = next /\ q.item = f /\ q.chan = c /\ q.frame = n
            /\ Pos(q) = next
        BY <1>2, <2>3, <3>0 DEF Records, Pos, Handlers
      <3>3. th' = [th EXCEPT ![t] = q]
        BY <1>1, <2>3, <3>0 DEF Goto, Moved
      <3>4. IsFile(q) => FileAt(q.item, q.chan, q.frame, Pos(q))'
        BY <2>3, <3>2
      <3>5. HolderInv(q)'
        BY <2>3, <3>2, <3>4 DEF HolderInv
      <3>6. Continues(th[t], q)
        BY <1>0, <2>3, <3>2 DEF Continues
      <3> QED BY <3>1, <3>3, <3>5, <3>6
    <2> QED BY <2>1, <2>2, <2>3
  <1>5. posted' = posted
    BY DEF Count
  <1>6. \A v, j : <<v, j>> \in counted' \ counted => Belongs(th[t], v, j) /\ th[t].at \notin Failing
    BY <1>0, <1>1 DEF Books
  <1>7. /\ TaskInv' /\ th' \in [Threads -> Records]
        /\ \A g \in Files : Dead(g) => Dead(g)'
    BY <1>1, <1>4, <1>5, <1>6, ThreadMoves
  <1>8. \A g \in Files : Dead(g) => i # Image(g, 1) /\ i # File(g)
    BY CountsLive
  <1>9. \A v \in Watches : WatchInv(v)'
    BY <1>0, <1>1, <1>7, <1>8, BooksWatch
  <1>10. CountedInv'
    <2> SUFFICES ASSUME NEW x \in counted'
                 PROVE  /\ \E v \in Watches : \E j \in ItemsOf(flat', v) : x = <<v, j>> /\ Open(v, j)'
                        /\ x[1] = Job => x \in done'
      BY DEF CountedInv
    <2>0. PICK v \in Watches : \E j \in ItemsOf(flat, v) : x = <<v, j>> /\ Open(v, j) /\ (v = Job => x \in done')
      <3>1. CASE x \in counted
        BY <3>1 DEF IndInv, CountedInv
      <3>2. CASE x = <<w, i>>
        BY <1>0, <3>2
      <3> QED BY <1>1, <3>1, <3>2 DEF Books
    <2>1. PICK j \in ItemsOf(flat, v) : x = <<v, j>> /\ Open(v, j) /\ (v = Job => x \in done')
      BY <2>0
    <2>2. Open(v, j)'
      <3>1. flat \in BOOLEAN
        BY <1>2 DEF TypeOK
      <3>2. j # InitCache => \E d \in Channels : d = IF v \in Channels THEN v ELSE ChannelOf[j[2]]
        BY <3>1, ItemForms, Kinds, Layout
      <3> QED BY <1>1, <2>1, <3>2 DEF Open, Monotone
    <2>3. flat' = flat
      BY <1>1 DEF Monotone
    <2> QED BY <2>1, <2>2, <2>3
  <1>11. TypeInv'
    <2>1. watch' \in [Watches -> Watch({"unload", "normalize", "drop", "jobDone"})]
      <3>1. PICK x : x = watch[w]
        OBVIOUS
      <3>2. x \in JobWatch
        BY <1>0, <1>2, <3>1 DEF TypeOK, JobWatch
      <3>3. step(x, 1) \in JobWatch
        BY <3>2, WatchTypes
      <3> QED BY <1>1, <1>2, <3>1, <3>3 DEF TypeOK, Books, JobWatch
    <2>2. \A s \in Threads : th'[s].at \in Places /\ th'[s].then \in Places
      BY <1>7 DEF Records
    <2> QED BY <1>0, <1>1, <1>2, <1>7, <2>1, <2>2 DEF TypeInv, TypeOK, Books, Count
  <1> QED BY <1>1, <1>7, <1>9, <1>10, <1>11 DEF IndInv

\* A thread at a file works on a channel that was started.
LEMMA ThreadAtFile ==
  ASSUME IndInv, NEW t \in Threads, th[t].at \in AtFile, NEW f, NEW c, NEW n,
         f = th[t].item, c = th[t].chan, n = th[t].frame
  PROVE  /\ IsFile(th[t]) /\ Pos(th[t]) = th[t].at /\ FileAt(f, c, n, th[t].at)
         /\ f \in Files /\ c = ChannelOf[f] /\ c \in Channels /\ ObjectOf[c] \in Objects
         /\ Started(c) /\ n \in Nat /\ Frames[f] \in Nat
         /\ th[t].at \notin {"file"} \cup Failing => n \in 1..Frames[f]
  <1>1. PICK k : k = th[t]
    OBVIOUS
  <1>2. Pos(k) = k.at /\ IsFile(k)
    BY <1>1 DEF Pos, IsFile, AtFile, Handlers, Failing
  <1>3. HolderInv(k)
    BY <1>1 DEF IndInv, TaskInv
  <1>4. FileAt(f, c, n, k.at)
    BY <1>1, <1>2, <1>3 DEF HolderInv
  <1>5. /\ f \in Files /\ c = ChannelOf[f] /\ Started(c) /\ n \in 0..Frames[f]
        /\ (n = 0) = (k.at \in {"file"} \cup Failing)
    BY <1>4 DEF FileAt
  <1>6. c \in Channels /\ ObjectOf[c] \in Objects /\ Frames[f] \in Nat
    BY <1>5, Layout
  <1> QED BY <1>1, <1>2, <1>4, <1>5, <1>6

\* Such a thread may count the images of its file, the file as saved, and the file.
LEMMA FileItems ==
  ASSUME IndInv, NEW t \in Threads, th[t].at \in AtFile \ Failing, NEW f, NEW c, NEW n,
         f = th[t].item, c = th[t].chan, n = th[t].frame
  PROVE  /\ n \in 1..Frames[f] /\ <<Job, Image(f, n)>> \notin counted => MayCount(t, Job, Image(f, n))
         /\ n \in 1..Frames[f] /\ <<ObjectOf[c], Image(f, n)>> \notin counted => MayCount(t, ObjectOf[c], Image(f, n))
         /\ Saving(c) /\ <<ObjectOf[c], Save(f)>> \notin counted => MayCount(t, ObjectOf[c], Save(f))
         /\ <<c, File(f)>> \notin counted => MayCount(t, c, File(f))
  <1>1. /\ IsFile(th[t]) /\ f \in Files /\ c = ChannelOf[f] /\ c \in Channels /\ ObjectOf[c] \in Objects
        /\ Started(c) /\ th[t].at \notin Failing
    BY ThreadAtFile
  <1>2. flat \in BOOLEAN
    BY DEF IndInv, TypeInv, TypeOK
  <1>3. Job \in Watches /\ c \in Watches /\ ObjectOf[c] \in Watches /\ Job \notin Channels /\ ObjectOf[c] \notin Channels
    BY <1>1, Layout
  <1>4. /\ \A m \in 1..Frames[f] : Image(f, m) \in ItemsOf(flat, Job) /\ Image(f, m) \in ItemsOf(flat, ObjectOf[c])
        /\ Saving(c) => Save(f) \in ItemsOf(flat, ObjectOf[c])
        /\ File(f) \in ItemsOf(flat, c)
    BY <1>1, <1>2, ItemsAre DEF Saving
  <1>5. ASSUME NEW w, NEW i, i[1] \in {"image", "save", "file"}, i[2] = f, i # InitCache, w \in Channels => w = c
        PROVE  Open(w, i) /\ Belongs(th[t], w, i)
    BY <1>1, <1>5 DEF Open, Belongs
  <1>6. /\ \A w, m : (w \in Channels => w = c) => Open(w, Image(f, m)) /\ Belongs(th[t], w, Image(f, m))
        /\ \A w : (w \in Channels => w = c) => Open(w, Save(f)) /\ Belongs(th[t], w, Save(f))
        /\ \A w : (w \in Channels => w = c) => Open(w, File(f)) /\ Belongs(th[t], w, File(f))
    BY <1>5, Kinds
  <1> QED BY <1>1, <1>3, <1>4, <1>6 DEF MayCount

\* The step counts an item that it may count.
Counts(t) == \E w, i, next : MayCount(t, w, i) /\ Count(t, w, i, next) /\ done \subseteq done'

\* initCache is counted.
LEMMA StepInitCache ==
  ASSUME IndInv, NEW t \in Threads, DoInitCache(t), ~Throws(t)
  PROVE  IndInv' /\ Counts(t)
  <1>1. PICK k : k = th[t]
    OBVIOUS
  <1>2. k.at = "init" /\ HolderInv(k) /\ flat \in BOOLEAN
    BY <1>1 DEF DoInitCache, IndInv, TaskInv, TypeInv, TypeOK
  <1>3. ~flat /\ ~Off(Job) /\ <<Job, InitCache>> \notin counted
    BY <1>2 DEF HolderInv
  <1>4. Belongs(th[t], Job, InitCache) /\ th[t].at \notin Failing
    BY <1>1, <1>2 DEF Belongs, Failing
  <1>5. MayCount(t, Job, InitCache)
    BY <1>2, <1>3, <1>4, ItemsAre, Layout DEF MayCount, Open
  <1>6. Count(t, Job, InitCache, "idle") /\ done \subseteq done' /\ <<Job, InitCache>> \in done' /\ "idle" \in Places
    BY DEF DoInitCache, Places
  <1>7. IndInv'
    BY <1>5, <1>6, CountStep, Layout
  <1> QED BY <1>5, <1>6, <1>7 DEF Counts

\* A cutout is counted.
LEMMA StepCutout ==
  ASSUME IndInv, NEW t \in Threads, AdjustCutout(t), ~Throws(t)
  PROVE  IndInv' /\ Counts(t)
  <1>1. PICK k : k = th[t]
    OBVIOUS
  <1>2. k.at = "cut" /\ HolderInv(k) /\ flat \in BOOLEAN
    BY <1>1 DEF AdjustCutout, IndInv, TaskInv, TypeInv, TypeOK
  <1>3. PICK w, i : w = k.chan /\ i = k.item
    OBVIOUS
  <1>4. /\ w \in Channels /\ Started(w)
        /\ i \in {Cut(p) : p \in PatchList} /\ <<w, i>> \notin counted
    BY <1>2, <1>3 DEF HolderInv
  <1>5. Belongs(th[t], w, i) /\ th[t].at \notin Failing
    BY <1>1, <1>2, <1>3 DEF Belongs, Failing
  <1>6. i \in ItemsOf(flat, w) /\ i # InitCache
    BY <1>2, <1>4, ItemsAre, Kinds DEF PatchList
  <1>7. w \in Watches /\ w # Job /\ w \notin Objects
    BY <1>4, Layout
  <1>8. MayCount(t, w, i)
    BY <1>4, <1>5, <1>6, <1>7 DEF MayCount, Open
  <1>9. Count(t, w, i, "idle") /\ done \subseteq done' /\ "idle" \in Places
    BY <1>1, <1>3 DEF AdjustCutout, Places
  <1>10. IndInv'
    BY <1>1, <1>3, <1>4, <1>7, <1>8, <1>9, CountStep
  <1> QED BY <1>8, <1>9, <1>10 DEF Counts

\* An image is counted for the job.
LEMMA StepCountJob ==
  ASSUME IndInv, NEW t \in Threads, CountJob(t)
  PROVE  IndInv' /\ Counts(t)
  <1>1. PICK f, c, n : f = th[t].item /\ c = th[t].chan /\ n = th[t].frame
    OBVIOUS
  <1>2. /\ th[t].at = "countJob" /\ th[t].at \in AtFile \ Failing
        /\ Count(t, Job, Image(f, n), "countObject") /\ done' = done /\ "countObject" \in Places
    BY <1>1 DEF CountJob, ThisImage, AtFile, Failing, Places
  <1>3. /\ IsFile(th[t]) /\ FileAt(f, c, n, "countJob") /\ f \in Files /\ c = ChannelOf[f] /\ c \in Channels
        /\ ObjectOf[c] \in Objects /\ n \in 1..Frames[f]
    BY <1>1, <1>2, ThreadAtFile DEF Failing
  <1>4. <<Job, Image(f, n)>> \notin counted /\ <<Job, Image(f, n)>> \in done
    BY <1>3 DEF FileAt
  <1>5. MayCount(t, Job, Image(f, n))
    BY <1>1, <1>2, <1>3, <1>4, FileItems
  <1>6. Books(Job, Image(f, n)) /\ Monotone
    BY <1>2, <1>5, CountBooks
  <1>7. FileAt(f, c, n, "countObject")'
    <2>1. Started(c)' /\ flat' = flat /\ counted' = counted \cup {<<Job, Image(f, n)>>}
      BY <1>3, <1>6 DEF FileAt, Monotone, Books
    <2>2. /\ \A m : <<Job, Image(f, m)>> \in counted' => <<Job, Image(f, m)>> \in counted \/ m = n
          /\ \A i : <<c, i>> \in counted' => <<c, i>> \in counted
          /\ \A i : <<ObjectOf[c], i>> \in counted' => <<ObjectOf[c], i>> \in counted
      BY <1>3, <2>1, Kinds, Layout
    <2>3. Saving(c)' <=> Saving(c)
      BY <2>1 DEF Saving, Saves
    <2> QED BY <1>3, <2>1, <2>2, <2>3 DEF FileAt, Failing
  <1>8. IndInv'
    BY <1>1, <1>2, <1>3, <1>4, <1>5, <1>7, CountStep, Layout
  <1> QED BY <1>2, <1>5, <1>8 DEF Counts

\* An image is counted for its object.
LEMMA StepCountObject ==
  ASSUME IndInv, NEW t \in Threads, CountObject(t)
  PROVE  IndInv' /\ Counts(t)
  <1>1. PICK f, c, n : f = th[t].item /\ c = th[t].chan /\ n = th[t].frame
    OBVIOUS
  <1>2. /\ th[t].at = "countObject" /\ th[t].at \in AtFile \ Failing /\ done' = done
        /\ Count(t, ObjectOf[c], Image(f, n), AfterImage(t))
    BY <1>1 DEF CountObject, ThisImage, AtFile, Failing
  <1>3. /\ IsFile(th[t]) /\ FileAt(f, c, n, "countObject") /\ f \in Files /\ c = ChannelOf[f] /\ c \in Channels
        /\ ObjectOf[c] \in Objects /\ n \in 1..Frames[f] /\ Frames[f] \in Nat
    BY <1>1, <1>2, ThreadAtFile DEF Failing
  <1>4. <<ObjectOf[c], Image(f, n)>> \notin counted
    BY <1>3 DEF FileAt
  <1>5. MayCount(t, ObjectOf[c], Image(f, n))
    BY <1>1, <1>2, <1>3, <1>4, FileItems
  <1>6. PICK next \in {"next", "save", "countFile"} :
          next = AfterImage(t) /\ (next = "next" => n < Frames[f]) /\ (next = "save" => Saving(c))
                               /\ (next # "next" => n = Frames[f])
    BY <1>1, <1>3 DEF AfterImage
  <1>7. Books(ObjectOf[c], Image(f, n)) /\ Monotone
    BY <1>2, <1>5, <1>6, CountBooks
  <1>8. FileAt(f, c, n, next)'
    <2>1. Started(c)' /\ flat' = flat /\ counted' = counted \cup {<<ObjectOf[c], Image(f, n)>>}
      BY <1>3, <1>7 DEF FileAt, Monotone, Books
    <2>2. /\ \A m : <<ObjectOf[c], Image(f, m)>> \in counted' => <<ObjectOf[c], Image(f, m)>> \in counted \/ m = n
          /\ \A i : <<c, i>> \in counted' => <<c, i>> \in counted
          /\ \A i : <<Job, i>> \in counted' => <<Job, i>> \in counted
          /\ <<ObjectOf[c], Save(f)>> \in counted' => <<ObjectOf[c], Save(f)>> \in counted
      BY <1>3, <2>1, Kinds, Layout
    <2>3. Saving(c)' <=> Saving(c)
      BY <2>1 DEF Saving, Saves
    <2> QED BY <1>3, <1>6, <2>1, <2>2, <2>3 DEF FileAt, Failing
  <1>9. next \in Places /\ Count(t, ObjectOf[c], Image(f, n), next)
    BY <1>2, <1>6 DEF Places
  <1>10. IndInv'
    BY <1>1, <1>2, <1>3, <1>4, <1>5, <1>6, <1>8, <1>9, CountStep, Layout
  <1> QED BY <1>2, <1>5, <1>9, <1>10 DEF Counts

\* A file that was saved is counted for its object.
LEMMA StepSaveFile ==
  ASSUME IndInv, NEW t \in Threads, SaveFile(t)
  PROVE  IndInv' /\ Counts(t)
  <1>1. PICK f, c, n : f = th[t].item /\ c = th[t].chan /\ n = th[t].frame
    OBVIOUS
  <1>2. /\ th[t].at = "save" /\ th[t].at \in AtFile \ Failing /\ done \subseteq done'
        /\ Count(t, ObjectOf[c], Save(f), "countFile") /\ "countFile" \in Places
    BY <1>1 DEF SaveFile, AtFile, Failing, Places
  <1>3. /\ IsFile(th[t]) /\ FileAt(f, c, n, "save") /\ f \in Files /\ c = ChannelOf[f] /\ c \in Channels
        /\ ObjectOf[c] \in Objects /\ n \in 1..Frames[f]
    BY <1>1, <1>2, ThreadAtFile DEF Failing
  <1>4. <<ObjectOf[c], Save(f)>> \notin counted /\ Saving(c)
    BY <1>3 DEF FileAt
  <1>5. MayCount(t, ObjectOf[c], Save(f))
    BY <1>1, <1>2, <1>3, <1>4, FileItems
  <1>6. Books(ObjectOf[c], Save(f)) /\ Monotone
    BY <1>2, <1>5, CountBooks
  <1>7. FileAt(f, c, n, "countFile")'
    <2>1. Started(c)' /\ counted' = counted \cup {<<ObjectOf[c], Save(f)>>}
      BY <1>3, <1>6 DEF FileAt, Monotone, Books
    <2>2. /\ \A w, m : <<w, Image(f, m)>> \in counted' => <<w, Image(f, m)>> \in counted
          /\ <<c, File(f)>> \in counted' => <<c, File(f)>> \in counted
      BY <1>3, <2>1, Kinds, Layout
    <2> QED BY <1>3, <2>1, <2>2 DEF FileAt, Failing
  <1>8. IndInv'
    BY <1>1, <1>2, <1>3, <1>4, <1>5, <1>7, CountStep, Layout
  <1> QED BY <1>2, <1>5, <1>8 DEF Counts

\* A file is counted for its channel.
LEMMA StepCountFile ==
  ASSUME IndInv, NEW t \in Threads, CountFile(t)
  PROVE  IndInv' /\ Counts(t)
  <1>1. PICK f, c, n : f = th[t].item /\ c = th[t].chan /\ n = th[t].frame
    OBVIOUS
  <1>2. /\ th[t].at = "countFile" /\ th[t].at \in AtFile \ Failing /\ done' = done
        /\ Count(t, c, File(f), "idle") /\ "idle" \in Places
    BY <1>1 DEF CountFile, AtFile, Failing, Places
  <1>3. FileAt(f, c, n, "countFile") /\ c \in Channels
    BY <1>1, <1>2, ThreadAtFile DEF Failing
  <1>4. <<c, File(f)>> \notin counted
    BY <1>3 DEF FileAt
  <1>5. MayCount(t, c, File(f))
    BY <1>1, <1>2, <1>3, <1>4, FileItems
  <1>6. IndInv'
    BY <1>1, <1>2, <1>3, <1>5, CountStep, Layout
  <1> QED BY <1>2, <1>5, <1>6 DEF Counts

-----------------------------------------------------------------------------
(* Steps of a thread that count nothing                                    *)

\* What such a step leaves alone. Images and calibration data go only after the
\* watch fired whose handler drops them.
Calm ==
  /\ UNCHANGED <<flat, main, begun, loading, counted, fired, packed>>
  /\ done \subseteq done'
  /\ calib' \subseteq calib /\ (Job \in fired \/ calib' = calib)
  /\ images' \subseteq images /\ \A c \in images : c \in images' \/ c \in fired

\* Then everything that was started stays so.
LEMMA CalmFrame ==
  ASSUME IndInv, Calm
  PROVE  /\ Monotone /\ MainInv' /\ CountedInv'
         /\ \A c \in Channels : (Alloc(c)' <=> Alloc(c)) /\ (Started(c)' <=> Started(c))
         /\ \A v \in Watches : Off(v)' <=> Off(v)
         /\ \A v \in Watches : Expected(v)' = Expected(v)
  <1>0. flat \in BOOLEAN /\ flat' = flat /\ MainInv
    BY DEF IndInv, TypeInv, TypeOK, Calm
  <1>1. \A c \in Channels : Alloc(c)' <=> Alloc(c)
    BY DEF Alloc, Calm
  <1>2. \A c \in Channels : Started(c)' <=> Started(c)
    BY <1>1 DEF Started, Calm
  <1>3. \A v \in Watches : Off(v)' <=> Off(v)
    BY <1>2, Layout DEF Off, Calm, Watches
  <1>4. Monotone
    BY <1>0, <1>2, <1>3, Layout DEF Monotone, Calm
  <1>5. MainInv'
    BY <1>0, <1>1 DEF MainInv, Calm
  <1>6. ASSUME NEW v \in Watches PROVE Expected(v)' = Expected(v)
    <2> SUFFICES ASSUME NEW j \in ItemsOf(flat, v), j[1] = "save"
                 PROVE  Alloc(ChannelOf[j[2]])' <=> Alloc(ChannelOf[j[2]])
      BY <1>0 DEF Expected
    <2>1. PICK f \in Files : j = Save(f)
      BY <1>0, ItemForms, Kinds
    <2>2. PICK c \in Channels : c = ChannelOf[j[2]]
      BY <2>1, Kinds, Layout
    <2> QED BY <1>1, <2>2
  <1>7. CountedInv'
    <2> SUFFICES ASSUME NEW x \in counted
                 PROVE  /\ \E v \in Watches : \E j \in ItemsOf(flat', v) : x = <<v, j>> /\ Open(v, j)'
                        /\ x[1] = Job => x \in done'
      BY DEF CountedInv, Calm
    <2>1. PICK v \in Watches : \E j \in ItemsOf(flat, v) : x = <<v, j>> /\ Open(v, j)
      BY DEF IndInv, CountedInv
    <2>2. PICK j \in ItemsOf(flat, v) : x = <<v, j>> /\ Open(v, j)
      BY <2>1
    <2>3. j # InitCache => \E d \in Channels : d = IF v \in Channels THEN v ELSE ChannelOf[j[2]]
      BY <1>0, ItemForms, Kinds, Layout
    <2>4. Open(v, j)'
      BY <1>4, <2>2, <2>3 DEF Open, Monotone
    <2>5. x[1] = Job => x \in done'
      BY DEF IndInv, CountedInv, Calm
    <2> QED BY <1>0, <2>2, <2>4, <2>5
  <1> QED BY <1>1, <1>2, <1>3, <1>4, <1>5, <1>6, <1>7

\* A watch that is left alone keeps its invariant, if what was counted stays, what was
\* off stays off and its target stands for the same items.
LEMMA WatchKept ==
  ASSUME NEW v \in Watches, WatchInv(v), flat' = flat, counted' = counted, fired' = fired,
         watch'[v] = watch[v], Off(v)' <=> Off(v), Expected(v)' = Expected(v),
         \A f \in Files : Dead(f) => Dead(f)'
  PROVE  WatchInv(v)'
  <1>1. CountedOf(v)' = CountedOf(v)
    BY DEF CountedOf
  <1>2. CASE v \in fired /\ ~Off(v) /\ \A j \in ItemsOf(flat, v) : <<v, j>> \in counted
    BY <1>2 DEF WatchInv
  <1>3. CASE v \notin fired /\ Off(v)
    BY <1>3 DEF WatchInv
  <1>4. CASE v \notin fired /\ Exact(v)
    <2>1. Exact(v)'
      BY <1>1, <1>4 DEF Exact
    <2> QED BY <1>4, <2>1 DEF WatchInv
  <1>5. CASE /\ v \notin fired /\ v \notin Objects /\ watch[v].target = 0
             /\ \E f \in Files : Dead(f) /\ (v # Job => ChannelOf[f] = v)
    <2>1. \E f \in Files : Dead(f)' /\ (v # Job => ChannelOf[f] = v)
      BY <1>5
    <2> QED BY <1>5, <2>1 DEF WatchInv
  <1> QED BY <1>2, <1>3, <1>4, <1>5 DEF WatchInv

Steps == {"PREPROCESS", "QUEUED", "RUNNING", "COMPLETED", "JSTATE_ERR"}

\* A thread goes on with its task and counts nothing.
LEMMA CalmMove ==
  ASSUME IndInv, Calm, NEW t \in Threads, NEW q \in Records, th' = [th EXCEPT ![t] = q], posted' = posted,
         HolderInv(q)', Continues(th[t], q),
         watch' \in [Watches -> JobWatch], normed' \subseteq Objects, jobStep' \in Steps, StepInv'
  PROVE  /\ TypeInv' /\ MainInv' /\ TaskInv' /\ CountedInv' /\ StepInv'
         /\ \A f \in Files : Dead(f) => Dead(f)'
         /\ \A v \in Watches : watch'[v] = watch[v] => WatchInv(v)'
  <1>1. /\ Monotone /\ MainInv' /\ CountedInv'
        /\ \A v \in Watches : (Off(v)' <=> Off(v)) /\ Expected(v)' = Expected(v)
    BY CalmFrame
  <1>2. \A w, i : <<w, i>> \in counted' \ counted => Belongs(th[t], w, i) /\ th[t].at \notin Failing
    BY DEF Calm
  <1>3. /\ TaskInv' /\ th' \in [Threads -> Records]
        /\ \A f \in Files : Dead(f) => Dead(f)'
    BY <1>1, <1>2, ThreadMoves
  <1>4. TypeInv'
    <2>1. TypeOK
      BY DEF IndInv, TypeInv
    <2>2. \A s \in Threads : th'[s].at \in Places /\ th'[s].then \in Places
      BY <1>3 DEF Records
    <2> QED BY <1>3, <2>1, <2>2 DEF TypeInv, TypeOK, Calm, Steps, JobWatch
  <1>5. ASSUME NEW v \in Watches, watch'[v] = watch[v] PROVE WatchInv(v)'
    <2>1. WatchInv(v) /\ flat' = flat /\ counted' = counted /\ fired' = fired
      BY DEF IndInv, Calm
    <2> QED BY <1>1, <1>3, <1>5, <2>1, WatchKept
  <1> QED BY <1>1, <1>3, <1>4, <1>5

\* The same, for a step that changes no watch.
LEMMA CalmStep ==
  ASSUME IndInv, Calm, NEW t \in Threads, NEW q \in Records, th' = [th EXCEPT ![t] = q], posted' = posted,
         HolderInv(q)', Continues(th[t], q),
         watch' = watch, normed' \subseteq Objects, jobStep' \in Steps, StepInv'
  PROVE  IndInv'
  <1>1. watch' \in [Watches -> JobWatch]
    BY DEF IndInv, TypeInv, TypeOK, JobWatch
  <1>2. /\ TypeInv' /\ MainInv' /\ TaskInv' /\ CountedInv' /\ StepInv'
        /\ \A v \in Watches : watch'[v] = watch[v] => WatchInv(v)'
    BY <1>1, CalmMove
  <1> QED BY <1>2 DEF IndInv

\* A thread that goes on at a file relies on that file only.
LEMMA HolderAt ==
  ASSUME NEW q, q.at \in AtFile, FileAt(q.item, q.chan, q.frame, q.at)'
  PROVE  HolderInv(q)' /\ IsFile(q) /\ q.at \notin {"init", "cut"}
  <1>1. Pos(q) = q.at /\ IsFile(q)
    BY DEF Pos, IsFile, AtFile, Handlers, Failing
  <1> QED BY <1>1 DEF HolderInv, AtFile, Failing

\* A file is loaded, or fails.
LEMMA StepLoadFile ==
  ASSUME IndInv, NEW t \in Threads, LoadFile(t)
  PROVE  IndInv'
  <1>1. PICK f, c, n : f = th[t].item /\ c = th[t].chan /\ n = th[t].frame
    OBVIOUS
  <1>2. /\ th[t].at = "file" /\ th[t].at \in AtFile
        /\ UNCHANGED <<flat, jobStep, main, begun, loading, posted, watch, counted, fired, done, normed, images, calib, packed>>
    BY DEF LoadFile, AtFile, loader, book, data
  <1>3. /\ IsFile(th[t]) /\ FileAt(f, c, n, "file") /\ f \in Files /\ c = ChannelOf[f]
        /\ Frames[f] \in Nat
    BY <1>1, <1>2, ThreadAtFile
  <1>4. Calm /\ TypeOK /\ th \in [Threads -> Records] /\ StepInv
    BY <1>2 DEF Calm, IndInv, TypeInv
  <1>5. PICK q \in Records : /\ th' = [th EXCEPT ![t] = q] /\ q.item = f /\ q.chan = c
                             /\ (q.at = "image" /\ q.frame = 1) \/ (q.at = "error" /\ q.frame = n)
    <2>1. CASE th' = [th EXCEPT ![t].at = "image", ![t].frame = 1]
      <3>1. PICK q : q = [th[t] EXCEPT !.at = "image", !.frame = 1]
        OBVIOUS
      <3>2. q \in Records /\ q.item = f /\ q.chan = c /\ q.at = "image" /\ q.frame = 1
        BY <1>1, <1>4, <3>1 DEF Records, Places
      <3>3. th' = [th EXCEPT ![t] = q]
        BY <1>4, <2>1, <3>1 DEF Records
      <3> QED BY <3>2, <3>3
    <2>2. CASE Goto(t, "error")
      <3>1. PICK q : q = [th[t] EXCEPT !.at = "error"]
        OBVIOUS
      <3>2. q \in Records /\ q.item = f /\ q.chan = c /\ q.at = "error" /\ q.frame = n
        BY <1>1, <1>4, <3>1 DEF Records, Places
      <3>3. th' = [th EXCEPT ![t] = q]
        BY <1>4, <2>2, <3>1 DEF Goto
      <3> QED BY <3>2, <3>3
    <2> QED BY <2>1, <2>2 DEF LoadFile
  <1>6. FileAt(q.item, q.chan, q.frame, q.at)'
    <2>1. Started(c)' /\ (Saving(c)' <=> Saving(c))
      BY <1>2, <1>3, <1>4, CalmFrame, Layout DEF FileAt, Saving, Saves
    <2>2. n = 0 /\ 1 \in 1..Frames[f]
      BY <1>3, Layout DEF FileAt
    <2> QED BY <1>2, <1>3, <1>5, <2>1, <2>2 DEF FileAt, Failing
  <1>7. HolderInv(q)' /\ IsFile(q) /\ q.at \notin {"init", "cut"}
    BY <1>5, <1>6, HolderAt DEF AtFile, Failing
  <1>8. Continues(th[t], q)
    BY <1>1, <1>2, <1>3, <1>5, <1>7 DEF Continues, Failing
  <1>9. watch' = watch /\ normed' \subseteq Objects /\ jobStep' \in Steps /\ StepInv'
    BY <1>2, <1>4 DEF TypeOK, Steps, StepInv
  <1> QED BY <1>2, <1>4, <1>5, <1>7, <1>8, <1>9, CalmStep

\* An image is processed, or left out because of its size.
LEMMA StepImage ==
  ASSUME IndInv, NEW t \in Threads, PreprocessImage(t)
  PROVE  IndInv'
  <1>1. PICK f, c, n : f = th[t].item /\ c = th[t].chan /\ n = th[t].frame
    OBVIOUS
  <1>2. /\ th[t].at = "image" /\ th[t].at \in AtFile
        /\ UNCHANGED <<flat, jobStep, main, begun, loading, posted, watch, counted, fired, normed, images, calib, packed>>
        /\ done \subseteq done'
    BY DEF PreprocessImage, AtFile, loader, book
  <1>3. /\ IsFile(th[t]) /\ FileAt(f, c, n, "image") /\ f \in Files /\ c = ChannelOf[f] /\ c \in Channels
        /\ n \in 1..Frames[f] /\ Frames[f] \in Nat
    BY <1>1, <1>2, ThreadAtFile DEF Failing
  <1>4. Calm /\ TypeOK /\ th \in [Threads -> Records] /\ StepInv
    BY <1>2 DEF Calm, IndInv, TypeInv
  <1>5. PICK next \in {"countJob", "next", "save", "countFile"} :
          /\ Goto(t, next)
          /\ next = "countJob" => <<Job, Image(f, n)>> \in done'
          /\ next = "next" => n < Frames[f]
          /\ next = "save" => Saving(c)
          /\ next \in {"save", "countFile"} => n = Frames[f]
    <2>1. AfterImage(t) \in {"next", "save", "countFile"}
      BY DEF AfterImage
    <2>2. /\ AfterImage(t) = "next" => n < Frames[f]
          /\ AfterImage(t) = "save" => Saving(c)
          /\ AfterImage(t) \in {"save", "countFile"} => n = Frames[f]
      BY <1>1, <1>3 DEF AfterImage
    <2>3. CASE Goto(t, "countJob") /\ done' = done \cup {<<Job, Image(f, n)>>}
      BY <2>3
    <2>4. CASE Goto(t, AfterImage(t))
      BY <2>1, <2>2, <2>4
    <2> QED BY <1>1, <2>3, <2>4 DEF PreprocessImage, ThisImage
  <1>6. PICK q \in Records : th' = [th EXCEPT ![t] = q] /\ q.item = f /\ q.chan = c /\ q.frame = n /\ q.at = next
    <2>1. PICK q : q = [th[t] EXCEPT !.at = next]
      OBVIOUS
    <2>2. q \in Records /\ q.item = f /\ q.chan = c /\ q.at = next /\ q.frame = n
      BY <1>1, <1>4, <1>5, <2>1 DEF Records, Places
    <2>3. th' = [th EXCEPT ![t] = q]
      BY <1>4, <1>5, <2>1 DEF Goto
    <2> QED BY <2>2, <2>3
  <1>7. FileAt(f, c, n, next)'
    <2>1. Started(c)' /\ (Saving(c)' <=> Saving(c))
      BY <1>2, <1>3, <1>4, CalmFrame, Layout DEF FileAt, Saving, Saves
    <2> QED BY <1>2, <1>3, <1>5, <2>1 DEF FileAt, Failing
  <1>8. HolderInv(q)' /\ IsFile(q) /\ q.at \notin {"init", "cut"}
    BY <1>5, <1>6, <1>7, HolderAt DEF AtFile, Failing
  <1>9. Continues(th[t], q)
    BY <1>1, <1>2, <1>3, <1>6, <1>8 DEF Continues, Failing
  <1>10. watch' = watch /\ normed' \subseteq Objects /\ jobStep' \in Steps /\ StepInv'
    BY <1>2, <1>4 DEF TypeOK, Steps, StepInv
  <1> QED BY <1>2, <1>4, <1>6, <1>8, <1>9, <1>10, CalmStep

\* The next image of a file.
LEMMA StepNextImage ==
  ASSUME IndInv, NEW t \in Threads, NextImage(t)
  PROVE  IndInv'
  <1>1. PICK f, c, n : f = th[t].item /\ c = th[t].chan /\ n = th[t].frame
    OBVIOUS
  <1>2. /\ th[t].at = "next" /\ th[t].at \in AtFile
        /\ UNCHANGED <<flat, jobStep, main, begun, loading, posted, watch, counted, fired, done, normed, images, calib, packed>>
    BY DEF NextImage, AtFile, loader, book, data
  <1>3. /\ IsFile(th[t]) /\ FileAt(f, c, n, "next") /\ f \in Files /\ c = ChannelOf[f] /\ c \in Channels
        /\ n \in 1..Frames[f] /\ Frames[f] \in Nat
    BY <1>1, <1>2, ThreadAtFile DEF Failing
  <1>4. Calm /\ TypeOK /\ th \in [Threads -> Records] /\ StepInv
    BY <1>2 DEF Calm, IndInv, TypeInv
  <1>5. PICK q \in Records : th' = [th EXCEPT ![t] = q] /\ q.item = f /\ q.chan = c /\ q.frame = n + 1 /\ q.at = "image"
    <2>1. PICK q : q = [th[t] EXCEPT !.at = "image", !.frame = n + 1]
      OBVIOUS
    <2>2. n + 1 \in Nat
      BY <1>3
    <2>3. q \in Records /\ q.item = f /\ q.chan = c /\ q.at = "image" /\ q.frame = n + 1
      BY <1>1, <1>4, <2>1, <2>2 DEF Records, Places
    <2>4. th' = [th EXCEPT ![t] = q]
      BY <1>1, <1>4, <2>1 DEF NextImage, Records
    <2> QED BY <2>3, <2>4
  <1>6. FileAt(f, c, n + 1, "image")'
    <2>1. Started(c)' /\ (Saving(c)' <=> Saving(c))
      BY <1>2, <1>3, <1>4, CalmFrame, Layout DEF FileAt, Saving, Saves
    <2> QED BY <1>2, <1>3, <2>1 DEF FileAt, Failing
  <1>7. HolderInv(q)' /\ IsFile(q) /\ q.at \notin {"init", "cut"}
    BY <1>5, <1>6, HolderAt DEF AtFile, Failing
  <1>8. Continues(th[t], q)
    BY <1>1, <1>2, <1>3, <1>5, <1>7 DEF Continues, Failing
  <1>9. watch' = watch /\ normed' \subseteq Objects /\ jobStep' \in Steps /\ StepInv'
    BY <1>2, <1>4 DEF TypeOK, Steps, StepInv
  <1> QED BY <1>2, <1>4, <1>5, <1>7, <1>8, <1>9, CalmStep

\* Goto, for a thread that goes on.
LEMMA GotoRecord ==
  ASSUME th \in [Threads -> Records], NEW t \in Threads, NEW at \in Places \ {"idle"}, Goto(t, at)
  PROVE  \E q \in Records : /\ th' = [th EXCEPT ![t] = q] /\ q.at = at /\ q.item = th[t].item
                            /\ q.chan = th[t].chan /\ q.frame = th[t].frame /\ q.then = th[t].then
  <1>1. PICK q : q = [th[t] EXCEPT !.at = at]
    OBVIOUS
  <1>2. /\ q \in Records /\ q.at = at /\ q.item = th[t].item
        /\ q.chan = th[t].chan /\ q.frame = th[t].frame /\ q.then = th[t].then
    BY <1>1 DEF Records
  <1>3. th' = [th EXCEPT ![t] = q]
    BY <1>1 DEF Goto
  <1> QED BY <1>2, <1>3

\* A thread that is idle relies on nothing.
LEMMA IdleHolds ==
  /\ Idle \in Records /\ HolderInv(Idle) /\ HolderInv(Idle)' /\ \A k : Continues(k, Idle)
  BY DEF Idle, Records, Places, HolderInv, Continues, IsFile, Pos, AtFile, Handlers, Failing

\* A task ends in an exception: its items stay uncounted.
LEMMA StepThrows ==
  ASSUME IndInv, NEW t \in Threads, Throws(t)
  PROVE  IndInv'
  <1>1. /\ th' = [th EXCEPT ![t] = Idle]
        /\ UNCHANGED <<flat, jobStep, main, begun, loading, posted, watch, counted, fired, done, normed, images, calib, packed>>
    BY DEF Throws, Goto, loader, book, data
  <1>2. Calm /\ TypeOK /\ StepInv
    BY <1>1 DEF Calm, IndInv, TypeInv
  <1>3. Idle \in Records /\ HolderInv(Idle)' /\ Continues(th[t], Idle)
    BY IdleHolds
  <1>4. normed' \subseteq Objects /\ jobStep' \in Steps /\ StepInv'
    BY <1>1, <1>2 DEF TypeOK, Steps, StepInv
  <1> QED BY <1>1, <1>2, <1>3, <1>4, CalmStep

\* A file that failed stays where it was, with its frame.
LEMMA FailingAt ==
  ASSUME NEW f, NEW c, NEW n, NEW a \in Failing, NEW b \in Failing, FileAt(f, c, n, a)'
  PROVE  FileAt(f, c, n, b)'
  BY DEF FileAt, Failing

\* The job fails.
LEMMA StepFailJob ==
  ASSUME IndInv, NEW t \in Threads, FailJob(t)
  PROVE  IndInv'
  <1>1. PICK k : k = th[t]
    OBVIOUS
  <1>2. /\ k.at = "error" /\ jobStep' = "JSTATE_ERR" /\ Goto(t, "clearJob")
        /\ UNCHANGED <<flat, main, begun, loading, posted, watch, counted, fired, done, normed, images, calib, packed>>
    BY <1>1 DEF FailJob, loader, book, data
  <1>3. Calm /\ TypeOK /\ th \in [Threads -> Records] /\ HolderInv(k)
    BY <1>1, <1>2 DEF Calm, IndInv, TypeInv, TaskInv
  <1>4. Monotone /\ HolderInv(k)'
    BY <1>2, <1>3, CalmFrame, HolderKept
  <1>5. PICK q \in Records : /\ th' = [th EXCEPT ![t] = q] /\ q.at = "clearJob" /\ q.item = k.item
                             /\ q.chan = k.chan /\ q.frame = k.frame
    BY <1>1, <1>2, <1>3, GotoRecord DEF Places
  <1>6. IsFile(k) /\ Pos(k) = "error"
    BY <1>2 DEF IsFile, Pos, AtFile, Handlers, Failing
  <1>7. FileAt(q.item, q.chan, q.frame, "clearJob")'
    BY <1>4, <1>5, <1>6, FailingAt DEF HolderInv, Failing
  <1>8. HolderInv(q)' /\ IsFile(q) /\ q.at \notin {"init", "cut"}
    BY <1>5, <1>7, HolderAt DEF AtFile, Failing
  <1>9. Continues(th[t], q)
    BY <1>1, <1>5, <1>6, <1>8 DEF Continues, Failing
  <1>10. normed' \subseteq Objects /\ jobStep' \in Steps /\ StepInv'
    BY <1>2, <1>3 DEF TypeOK, Steps, StepInv
  <1> QED BY <1>2, <1>3, <1>5, <1>8, <1>9, <1>10, CalmStep

\* Nothing of a file whose thread fails is counted, or will be.
LEMMA FailingDead ==
  ASSUME IndInv, NEW t \in Threads, th[t].at \in Failing, NEW f, f = th[t].item
  PROVE  /\ f \in Files /\ Dead(f) /\ th[t].chan = ChannelOf[f]
         /\ Job \notin fired /\ ChannelOf[f] \notin fired
  <1>1. PICK c, n : c = th[t].chan /\ n = th[t].frame
    OBVIOUS
  <1>2. /\ IsFile(th[t]) /\ FileAt(f, c, n, th[t].at) /\ f \in Files /\ c = ChannelOf[f] /\ c \in Channels /\ Started(c)
    BY <1>1, ThreadAtFile DEF AtFile
  <1>3. n = 0 /\ 1 \in 1..Frames[f] /\ flat \in BOOLEAN
    BY <1>2, Layout DEF FileAt, IndInv, TypeInv, TypeOK
  <1>4. <<Job, Image(f, 1)>> \notin counted /\ <<c, File(f)>> \notin counted
    <2>1. /\ \A m \in 1..Frames[f] : m > n => <<Job, Image(f, m)>> \notin counted
          /\ <<c, File(f)>> \notin counted
      BY <1>2 DEF FileAt
    <2>2. 1 > n
      BY <1>3
    <2> QED BY <1>3, <2>1, <2>2
  <1>5. Task("file", c, f) \notin posted
    <2>1. PICK k : k = Task("file", c, f)
      OBVIOUS
    <2>2. IsFile(k) /\ k.item = f
      BY <2>1 DEF Task, Idle, IsFile, Pos, AtFile, Handlers
    <2>3. Same(th[t], k)
      BY <1>2, <2>2 DEF Same
    <2> QED BY <2>1, <2>3 DEF IndInv, TaskInv
  <1>6. ASSUME NEW s \in Threads, IsFile(th[s]), th[s].item = f PROVE th[s].at \in Failing
    <2>1. Same(th[t], th[s])
      BY <1>2, <1>6 DEF Same
    <2> QED BY <2>1 DEF IndInv, TaskInv
  <1>7. Dead(f)
    BY <1>2, <1>4, <1>5, <1>6 DEF Dead
  <1>8. Job \notin fired
    <2>1. Image(f, 1) \in ItemsOf(flat, Job) /\ WatchInv(Job)
      BY <1>2, <1>3, ItemsAre, Layout DEF IndInv
    <2> QED BY <1>4, <2>1 DEF WatchInv
  <1>9. c \notin fired
    <2>1. File(f) \in ItemsOf(flat, c) /\ WatchInv(c)
      BY <1>2, <1>3, ItemsAre, Layout DEF IndInv
    <2> QED BY <1>4, <2>1 DEF WatchInv
  <1> QED BY <1>1, <1>2, <1>7, <1>8, <1>9

\* The job's watch is cleared.
LEMMA StepClearJob ==
  ASSUME IndInv, NEW t \in Threads, ClearJob(t)
  PROVE  IndInv'
  <1>1. PICK k : k = th[t]
    OBVIOUS
  <1>2. /\ k.at = "clearJob" /\ watch' = [watch EXCEPT ![Job] = clear(@)] /\ Goto(t, "clearChannel")
        /\ UNCHANGED <<flat, jobStep, main, begun, loading, posted, counted, fired, done, normed, images, calib, packed>>
    BY <1>1 DEF ClearJob, loader, data
  <1>3. Calm /\ TypeOK /\ th \in [Threads -> Records] /\ HolderInv(k) /\ StepInv
    BY <1>1, <1>2 DEF Calm, IndInv, TypeInv, TaskInv
  <1>4. Monotone /\ HolderInv(k)'
    BY <1>2, <1>3, CalmFrame, HolderKept
  <1>5. PICK q \in Records : /\ th' = [th EXCEPT ![t] = q] /\ q.at = "clearChannel" /\ q.item = k.item
                             /\ q.chan = k.chan /\ q.frame = k.frame
    BY <1>1, <1>2, <1>3, GotoRecord DEF Places
  <1>6. IsFile(k) /\ Pos(k) = "clearJob"
    BY <1>2 DEF IsFile, Pos, AtFile, Handlers, Failing
  <1>7. FileAt(q.item, q.chan, q.frame, "clearChannel")'
    BY <1>4, <1>5, <1>6, FailingAt DEF HolderInv, Failing
  <1>8. HolderInv(q)' /\ IsFile(q) /\ q.at \notin {"init", "cut"}
    BY <1>5, <1>7, HolderAt DEF AtFile, Failing
  <1>9. Continues(th[t], q)
    BY <1>1, <1>5, <1>6, <1>8 DEF Continues, Failing
  <1>10. normed' \subseteq Objects /\ jobStep' \in Steps /\ StepInv'
    BY <1>2, <1>3 DEF TypeOK, Steps, StepInv
  <1>11. watch \in [Watches -> JobWatch] /\ NewWatch \in JobWatch /\ Job \in Watches
    BY <1>3, Layout DEF TypeOK, JobWatch, Watch, NewWatch
  <1>12. /\ watch' \in [Watches -> JobWatch] /\ watch'[Job] = NewWatch
         /\ \A v \in Watches : v # Job => watch'[v] = watch[v]
    BY <1>2, <1>11 DEF clear
  <1>13. /\ TypeInv' /\ MainInv' /\ TaskInv' /\ CountedInv' /\ StepInv'
         /\ \A f \in Files : Dead(f) => Dead(f)'
         /\ \A v \in Watches : watch'[v] = watch[v] => WatchInv(v)'
    BY <1>2, <1>3, <1>5, <1>8, <1>9, <1>10, <1>12, CalmMove
  <1>14. WatchInv(Job)'
    <2>1. PICK f \in Files : Dead(f) /\ Job \notin fired
      BY <1>1, <1>2, FailingDead DEF Failing
    <2>2. Dead(f)' /\ Job \notin fired'
      BY <1>2, <1>13, <2>1
    <2>3. watch'[Job].target = 0
      BY <1>12 DEF NewWatch
    <2> QED BY <2>2, <2>3, Layout DEF WatchInv
  <1> QED BY <1>12, <1>13, <1>14 DEF IndInv

\* The watch of the channel is cleared; the task is over.
LEMMA StepClearChannel ==
  ASSUME IndInv, NEW t \in Threads, ClearChannel(t)
  PROVE  IndInv'
  <1>1. PICK f, c : f = th[t].item /\ c = th[t].chan
    OBVIOUS
  <1>2. /\ th[t].at = "clearChannel" /\ th[t].at \in Failing
        /\ watch' = [watch EXCEPT ![c] = clear(@)] /\ th' = [th EXCEPT ![t] = Idle]
        /\ UNCHANGED <<flat, jobStep, main, begun, loading, posted, counted, fired, done, normed, images, calib, packed>>
    BY <1>1 DEF ClearChannel, Goto, Failing, loader, data
  <1>3. Calm /\ TypeOK /\ StepInv
    BY <1>2 DEF Calm, IndInv, TypeInv
  <1>4. f \in Files /\ Dead(f) /\ c = ChannelOf[f] /\ c \notin fired
    BY <1>1, <1>2, FailingDead
  <1>5. Idle \in Records /\ HolderInv(Idle)' /\ Continues(th[t], Idle)
    BY IdleHolds
  <1>6. normed' \subseteq Objects /\ jobStep' \in Steps /\ StepInv'
    BY <1>2, <1>3 DEF TypeOK, Steps, StepInv
  <1>7. watch \in [Watches -> JobWatch] /\ NewWatch \in JobWatch /\ c \in Watches
    BY <1>3, <1>4, Layout DEF TypeOK, JobWatch, Watch, NewWatch
  <1>8. /\ watch' \in [Watches -> JobWatch] /\ watch'[c] = NewWatch
        /\ \A v \in Watches : v # c => watch'[v] = watch[v]
    BY <1>2, <1>7 DEF clear
  <1>9. /\ TypeInv' /\ MainInv' /\ TaskInv' /\ CountedInv' /\ StepInv'
        /\ \A g \in Files : Dead(g) => Dead(g)'
        /\ \A v \in Watches : watch'[v] = watch[v] => WatchInv(v)'
    BY <1>2, <1>3, <1>5, <1>6, <1>8, CalmMove
  <1>10. WatchInv(c)'
    <2>1. Dead(f)' /\ c \notin fired'
      BY <1>2, <1>4, <1>9
    <2>2. watch'[c].target = 0
      BY <1>8 DEF NewWatch
    <2> QED BY <1>4, <2>1, <2>2, Layout DEF WatchInv
  <1> QED BY <1>8, <1>9, <1>10 DEF IndInv

\* A handler that is over: the thread goes on where it was.
LEMMA HandlerOver ==
  ASSUME IndInv, Calm, NEW t \in Threads, th[t].at \in Handlers, Goto(t, th[t].then)
  PROVE  \E q \in Records : th' = [th EXCEPT ![t] = q] /\ HolderInv(q)' /\ Continues(th[t], q)
  <1>1. PICK k : k = th[t]
    OBVIOUS
  <1>2. HolderInv(k) /\ k \in Records /\ th \in [Threads -> Records]
    BY <1>1 DEF IndInv, TypeInv, TaskInv
  <1>3. HolderInv(k)'
    BY <1>2, CalmFrame, HolderKept DEF Calm
  <1>4. CASE k.then = "idle"
    BY <1>1, <1>4, IdleHolds DEF Goto
  <1>5. CASE k.then # "idle"
    <2>1. k.then \in {"countObject", "next", "save", "countFile"}
      BY <1>1, <1>2, <1>5 DEF HolderInv, Handlers
    <2>2. PICK q \in Records : /\ th' = [th EXCEPT ![t] = q] /\ q.at = k.then /\ q.item = k.item
                               /\ q.chan = k.chan /\ q.frame = k.frame
      BY <1>1, <1>2, <2>1, GotoRecord DEF Places
    <2>3. IsFile(k) /\ Pos(k) = k.then
      BY <1>1, <2>1 DEF IsFile, Pos, AtFile
    <2>4. FileAt(q.item, q.chan, q.frame, q.at)'
      BY <1>3, <2>2, <2>3 DEF HolderInv
    <2>5. HolderInv(q)' /\ q.at \notin {"init", "cut"}
      BY <2>1, <2>2, <2>4, HolderAt DEF AtFile
    <2>6. Continues(th[t], q)
      BY <1>1, <2>2, <2>3, <2>5 DEF Continues, Handlers, Failing
    <2> QED BY <2>2, <2>5, <2>6
  <1> QED BY <1>4, <1>5

\* The calibration data is dropped: the job's watch has fired.
LEMMA StepUnload ==
  ASSUME IndInv, NEW t \in Threads, UnloadCalib(t)
  PROVE  IndInv'
  <1>1. PICK k : k = th[t]
    OBVIOUS
  <1>2. /\ k.at = "unload" /\ calib' = {} /\ Goto(t, "queue")
        /\ UNCHANGED <<flat, jobStep, main, begun, loading, posted, watch, counted, fired, done, normed, images, packed>>
    BY <1>1 DEF UnloadCalib, loader, book
  <1>3. HolderInv(k) /\ TypeOK /\ th \in [Threads -> Records] /\ StepInv
    BY <1>1 DEF IndInv, TypeInv, TaskInv
  <1>4. Job \in fired /\ k.then \in {"idle", "countObject"}
    BY <1>2, <1>3 DEF HolderInv
  <1>5. Calm
    BY <1>2, <1>4 DEF Calm
  <1>6. HolderInv(k)'
    BY <1>2, <1>3, <1>5, CalmFrame, HolderKept
  <1>7. PICK q \in Records : /\ th' = [th EXCEPT ![t] = q] /\ q.at = "queue" /\ q.item = k.item
                             /\ q.chan = k.chan /\ q.frame = k.frame /\ q.then = k.then
    BY <1>1, <1>2, <1>3, GotoRecord DEF Places
  <1>8. Pos(q) = Pos(k) /\ (IsFile(q) <=> IsFile(k))
    BY <1>2, <1>7 DEF Pos, IsFile, Handlers
  <1>9. IsFile(q) => FileAt(q.item, q.chan, q.frame, Pos(q))'
    BY <1>6, <1>7, <1>8 DEF HolderInv
  <1>10. HolderInv(q)'
    BY <1>2, <1>4, <1>7, <1>9 DEF HolderInv
  <1>11. Continues(th[t], q)
    BY <1>1, <1>2, <1>7, <1>8 DEF Continues, Failing
  <1>12. normed' \subseteq Objects /\ jobStep' \in Steps /\ StepInv'
    BY <1>2, <1>3 DEF TypeOK, Steps, StepInv
  <1> QED BY <1>2, <1>5, <1>7, <1>10, <1>11, <1>12, CalmStep

\* The job is queued, or complete.
LEMMA StepQueue ==
  ASSUME IndInv, NEW t \in Threads, QueueJob(t)
  PROVE  IndInv'
  <1>1. PICK k : k = th[t]
    OBVIOUS
  <1>2. /\ k.at = "queue" /\ k.at \in Handlers /\ jobStep' = (IF flat THEN "COMPLETED" ELSE "QUEUED") /\ Goto(t, th[t].then)
        /\ UNCHANGED <<flat, main, begun, loading, posted, watch, counted, fired, done, normed, images, calib, packed>>
    BY <1>1 DEF QueueJob, Handlers, loader, book, data
  <1>3. HolderInv(k) /\ TypeOK /\ Calm
    BY <1>1, <1>2 DEF IndInv, TypeInv, TaskInv, Calm
  <1>4. Job \in fired'
    BY <1>2, <1>3 DEF HolderInv
  <1>5. PICK q \in Records : th' = [th EXCEPT ![t] = q] /\ HolderInv(q)' /\ Continues(th[t], q)
    BY <1>1, <1>2, <1>3, HandlerOver
  <1>6. normed' \subseteq Objects /\ jobStep' \in Steps /\ StepInv'
    BY <1>2, <1>3, <1>4 DEF TypeOK, Steps, StepInv
  <1> QED BY <1>2, <1>3, <1>5, <1>6, CalmStep

\* The level of an object's images is computed.
LEMMA StepNormalize ==
  ASSUME IndInv, NEW t \in Threads, Normalize(t)
  PROVE  IndInv'
  <1>1. PICK k : k = th[t]
    OBVIOUS
  <1>2. /\ k.at = "normalize" /\ k.at \in Handlers /\ normed' = normed \cup {ObjectOf[k.chan]} /\ Goto(t, th[t].then)
        /\ UNCHANGED <<flat, jobStep, main, begun, loading, posted, watch, counted, fired, done, images, calib, packed>>
    BY <1>1 DEF Normalize, Handlers, loader, book
  <1>3. HolderInv(k) /\ TypeOK /\ Calm /\ StepInv
    BY <1>1, <1>2 DEF IndInv, TypeInv, TaskInv, Calm
  <1>4. ObjectOf[k.chan] \in Objects
    <2>1. IsFile(k)
      BY <1>2, <1>3 DEF HolderInv, IsFile, Pos, AtFile
    <2>2. k.chan \in Channels
      BY <1>3, <2>1, Layout DEF HolderInv, FileAt
    <2> QED BY <2>2, Layout
  <1>5. PICK q \in Records : th' = [th EXCEPT ![t] = q] /\ HolderInv(q)' /\ Continues(th[t], q)
    BY <1>1, <1>2, <1>3, HandlerOver
  <1>6. normed' \subseteq Objects /\ jobStep' \in Steps /\ StepInv'
    BY <1>2, <1>3, <1>4 DEF TypeOK, Steps, StepInv
  <1> QED BY <1>2, <1>3, <1>5, <1>6, CalmStep

\* The images of a channel are dropped: its watch has fired.
LEMMA StepDrop ==
  ASSUME IndInv, NEW t \in Threads, DropImages(t)
  PROVE  IndInv'
  <1>1. PICK k : k = th[t]
    OBVIOUS
  <1>2. /\ k.at = "drop" /\ k.at \in Handlers /\ images' = images \ {k.chan} /\ Goto(t, th[t].then)
        /\ UNCHANGED <<flat, jobStep, main, begun, loading, posted, watch, counted, fired, done, normed, calib, packed>>
    BY <1>1 DEF DropImages, Handlers, loader, book
  <1>3. HolderInv(k) /\ TypeOK /\ StepInv
    BY <1>1 DEF IndInv, TypeInv, TaskInv
  <1>4. Calm
    BY <1>2, <1>3 DEF HolderInv, Calm
  <1>5. PICK q \in Records : th' = [th EXCEPT ![t] = q] /\ HolderInv(q)' /\ Continues(th[t], q)
    BY <1>1, <1>2, <1>4, HandlerOver
  <1>6. normed' \subseteq Objects /\ jobStep' \in Steps /\ StepInv'
    BY <1>2, <1>3 DEF TypeOK, Steps, StepInv
  <1> QED BY <1>2, <1>4, <1>5, <1>6, CalmStep

-----------------------------------------------------------------------------
(* Taking and posting tasks                                                *)

\* Tasks that were posted are records, and are the same only if they are equal.
LEMMA PostedTasks ==
  /\ \A k : PostedTask(k) => k \in Records /\ k.at \in {"init", "cut", "file"} /\ (k.at = "file" => k = Task("file", ChannelOf[k.item], k.item))
  /\ \A k, l : PostedTask(k) /\ PostedTask(l) /\ Same(k, l) => k = l
  <1>1. ASSUME NEW k, PostedTask(k)
        PROVE  /\ k \in Records /\ k.at \in {"init", "cut", "file"}
               /\ Pos(k) = k.at /\ (IsFile(k) <=> k.at = "file")
               /\ k.at = "init" => k = Task("init", None, InitCache)
               /\ k.at = "cut" => k = Task("cut", k.chan, k.item)
               /\ k.at = "file" => k = Task("file", ChannelOf[k.item], k.item)
    <2>1. CASE k = Task("init", None, InitCache)
      BY <2>1 DEF Task, Idle, Records, Places, Pos, IsFile, AtFile, Handlers, Failing
    <2>2. ASSUME NEW c \in Channels, NEW p \in Patches, k = Task("cut", c, Cut(p))
          PROVE  k \in Records /\ k.at = "cut" /\ Pos(k) = "cut" /\ ~IsFile(k) /\ k = Task("cut", k.chan, k.item)
      BY <2>2 DEF Task, Idle, Records, Places, Pos, IsFile, AtFile, Handlers, Failing
    <2>3. ASSUME NEW f \in Files, k = Task("file", ChannelOf[f], f)
          PROVE  k \in Records /\ k.at = "file" /\ Pos(k) = "file" /\ IsFile(k) /\ k = Task("file", ChannelOf[k.item], k.item)
      BY <2>3, Layout DEF Task, Idle, Records, Places, Pos, IsFile, AtFile, Handlers, Failing
    <2> QED BY <1>1, <2>1, <2>2, <2>3 DEF PostedTask
  <1>2. ASSUME NEW k, NEW l, PostedTask(k), PostedTask(l), Same(k, l) PROVE k = l
    <2>1. CASE k.at = "init" /\ l.at = "init"
      BY <1>1, <1>2, <2>1
    <2>2. CASE k.at = "cut" /\ l.at = "cut" /\ k.chan = l.chan /\ k.item = l.item
      BY <1>1, <1>2, <2>2
    <2>3. CASE IsFile(k) /\ IsFile(l) /\ k.item = l.item
      BY <1>1, <1>2, <2>3
    <2> QED BY <1>2, <2>1, <2>2, <2>3 DEF Same
  <1> QED BY <1>1, <1>2

\* A thread takes a task.
LEMMA StepTake ==
  ASSUME IndInv, NEW t \in Threads, Take(t)
  PROVE  IndInv'
  <1>1. PICK k \in posted : th' = [th EXCEPT ![t] = k] /\ posted' = posted \ {k}
    BY DEF Take
  <1>2. UNCHANGED <<flat, jobStep, main, begun, loading, watch, counted, fired, done, normed, images, calib, packed>>
    BY DEF Take, loader, book, data
  <1>3. Calm /\ TypeOK /\ StepInv /\ TaskInv /\ th \in [Threads -> Records]
    BY <1>2 DEF Calm, IndInv, TypeInv
  <1>4. /\ Monotone /\ MainInv' /\ CountedInv' /\ StepInv'
        /\ \A v \in Watches : (Off(v)' <=> Off(v)) /\ Expected(v)' = Expected(v)
    BY <1>2, <1>3, CalmFrame DEF StepInv
  <1>5. PostedTask(k) /\ k \in Records /\ k.at \in {"init", "cut", "file"}
    BY <1>3, PostedTasks DEF TaskInv
  <1>6. th' \in [Threads -> Records] /\ th'[t] = k /\ \A s \in Threads \ {t} : th'[s] = th[s]
    BY <1>1, <1>3, <1>5
  <1>7. \A l : HolderInv(l) => HolderInv(l)'
    BY <1>2, <1>4, HolderKept
  <1>8. TaskInv'
    <2>1. \A l \in posted' : (PostedTask(l) /\ HolderInv(l))'
      BY <1>1, <1>3, <1>7 DEF TaskInv, PostedTask
    <2>2. ASSUME NEW s \in Threads PROVE HolderInv(th[s])'
      <3>1. PICK l : l = th'[s]
        OBVIOUS
      <3>2. HolderInv(l)
        BY <1>3, <1>6, <3>1 DEF TaskInv
      <3> QED BY <1>7, <3>1, <3>2
    <2>3. ASSUME NEW r \in Threads, NEW s \in Threads, r # s PROVE ~Same(th'[r], th'[s])
      <3>1. ASSUME NEW x \in Threads PROVE ~Same(th[x], k) /\ ~Same(k, th[x])
        BY <1>3 DEF TaskInv, Same
      <3>2. CASE r = t
        BY <1>6, <2>3, <3>1, <3>2
      <3>3. CASE s = t
        BY <1>6, <2>3, <3>1, <3>3
      <3>4. CASE r # t /\ s # t
        BY <1>3, <1>6, <2>3, <3>4 DEF TaskInv
      <3> QED BY <3>2, <3>3, <3>4
    <2>4. ASSUME NEW s \in Threads, NEW l \in posted' PROVE ~Same(th'[s], l)
      <3>1. CASE s = t
        <4>1. l # k /\ PostedTask(l)
          BY <1>1, <1>3 DEF TaskInv
        <4> QED BY <1>5, <1>6, <3>1, <4>1, PostedTasks
      <3>2. CASE s # t
        BY <1>1, <1>3, <1>6, <3>2 DEF TaskInv
      <3> QED BY <3>1, <3>2
    <2> QED BY <2>1, <2>2, <2>3, <2>4 DEF TaskInv
  <1>9. ASSUME NEW f \in Files, Dead(f) PROVE Dead(f)'
    <2>1. Started(ChannelOf[f])'
      BY <1>4, <1>9, Layout DEF Dead, Monotone
    <2>2. ASSUME NEW s \in Threads, IsFile(th'[s]), th'[s].item = f PROVE th'[s].at \in Failing
      <3>1. CASE s = t
        <4>1. k.at = "file"
          BY <1>5, <1>6, <2>2, <3>1 DEF IsFile, Pos, AtFile, Handlers, Failing
        <4>2. k = Task("file", ChannelOf[f], f)
          BY <1>5, <1>6, <2>2, <3>1, <4>1, PostedTasks
        <4> QED BY <1>9, <4>2 DEF Dead
      <3>2. CASE s # t
        BY <1>6, <1>9, <2>2, <3>2 DEF Dead
      <3> QED BY <3>1, <3>2
    <2> QED BY <1>1, <1>2, <1>9, <2>1, <2>2 DEF Dead
  <1>10. ASSUME NEW v \in Watches PROVE WatchInv(v)'
    <2>1. WatchInv(v) /\ flat' = flat /\ counted' = counted /\ fired' = fired /\ watch'[v] = watch[v]
      BY <1>2 DEF IndInv
    <2> QED BY <1>4, <1>9, <2>1, WatchKept
  <1>11. TypeInv'
    <2>1. \A s \in Threads : th'[s].at \in Places /\ th'[s].then \in Places
      BY <1>6 DEF Records
    <2> QED BY <1>2, <1>3, <1>6, <2>1 DEF TypeInv, TypeOK
  <1> QED BY <1>4, <1>8, <1>10, <1>11 DEF IndInv

\* The worker thread posts tasks that no thread has and that are for nothing that failed.
LEMMA Posting ==
  ASSUME IndInv, NEW P, posted' = posted \cup P, th' = th, counted' = counted, Monotone,
         \A k \in P : /\ PostedTask(k) /\ HolderInv(k)'
                      /\ \A t \in Threads : ~Same(th[t], k)
                      /\ \A f \in Files : Dead(f) => k # Task("file", ChannelOf[f], f)
  PROVE  TaskInv' /\ CountedInv' /\ \A f \in Files : Dead(f) => Dead(f)'
  <1>0. flat \in BOOLEAN /\ flat' = flat /\ TaskInv /\ CountedInv
    BY DEF IndInv, TypeInv, TypeOK, Monotone
  <1>1. \A l : HolderInv(l) => HolderInv(l)'
    BY HolderKept
  <1>2. TaskInv'
    <2>1. \A l \in posted' : (PostedTask(l) /\ HolderInv(l))'
      BY <1>0, <1>1 DEF TaskInv, PostedTask
    <2>2. ASSUME NEW s \in Threads PROVE HolderInv(th[s])'
      <3>1. PICK l : l = th'[s]
        OBVIOUS
      <3>2. HolderInv(l)
        BY <1>0, <3>1 DEF TaskInv
      <3> QED BY <1>1, <3>1, <3>2
    <2>3. /\ \A r, s \in Threads : r # s => ~Same(th'[r], th'[s])
          /\ \A s \in Threads : \A l \in posted' : ~Same(th'[s], l)
      BY <1>0 DEF TaskInv
    <2> QED BY <2>1, <2>2, <2>3 DEF TaskInv
  <1>3. CountedInv'
    <2> SUFFICES ASSUME NEW x \in counted
                 PROVE  /\ \E v \in Watches : \E j \in ItemsOf(flat', v) : x = <<v, j>> /\ Open(v, j)'
                        /\ x[1] = Job => x \in done'
      BY DEF CountedInv
    <2>1. PICK v \in Watches : \E j \in ItemsOf(flat, v) : x = <<v, j>> /\ Open(v, j)
      BY <1>0 DEF CountedInv
    <2>2. PICK j \in ItemsOf(flat, v) : x = <<v, j>> /\ Open(v, j)
      BY <2>1
    <2>3. j # InitCache => \E d \in Channels : d = IF v \in Channels THEN v ELSE ChannelOf[j[2]]
      BY <1>0, ItemForms, Kinds, Layout
    <2>4. Open(v, j)'
      BY <2>2, <2>3 DEF Open, Monotone
    <2>5. x[1] = Job => x \in done'
      BY <1>0 DEF CountedInv, Monotone
    <2> QED BY <1>0, <2>2, <2>4, <2>5
  <1>4. ASSUME NEW f \in Files, Dead(f) PROVE Dead(f)'
    <2>1. Started(ChannelOf[f])'
      BY <1>4, Layout DEF Dead, Monotone
    <2> QED BY <1>4, <2>1 DEF Dead
  <1> QED BY <1>2, <1>3, <1>4

-----------------------------------------------------------------------------
(* Steps of the worker thread and of getWork                               *)

\* A watch that is off has not fired, and nothing of it is counted.
LEMMA OffEmpty ==
  ASSUME IndInv, NEW v \in Watches, Off(v)
  PROVE  v \notin fired /\ (\A i : <<v, i>> \notin counted) /\ Cardinality(CountedOf(v)) = 0
  <1>1. v \notin fired
    BY DEF IndInv, WatchInv
  <1>2. \A i : <<v, i>> \notin counted
    BY CountedOpen, OpenOn
  <1>3. CountedOf(v) = {}
    BY <1>2 DEF CountedOf
  <1> QED BY <1>1, <1>2, <1>3, FS_EmptySet

\* Nothing is counted, by any watch, of a channel that was not started.
LEMMA NotStarted ==
  ASSUME IndInv, NEW c \in Channels, ~Started(c)
  PROVE  /\ \A f \in FilesOf(c) : /\ \A m : <<Job, Image(f, m)>> \notin counted /\ <<ObjectOf[c], Image(f, m)>> \notin counted
                                  /\ <<ObjectOf[c], Save(f)>> \notin counted
         /\ \A i : <<c, i>> \notin counted
         /\ Job \notin fired /\ ObjectOf[c] \notin fired /\ c \notin fired
  <1>0. flat \in BOOLEAN
    BY DEF IndInv, TypeInv, TypeOK
  <1>1. /\ c \in Watches /\ c # Job /\ c \notin Objects /\ ObjectOf[c] \in Objects /\ ObjectOf[c] \in Watches
        /\ ObjectOf[c] \notin Channels /\ Job \in Watches /\ Job \notin Channels
    BY Layout
  <1>2. ASSUME NEW w \in {Job, ObjectOf[c]}, NEW f \in FilesOf(c), NEW i, i[2] = f, i # InitCache
        PROVE  <<w, i>> \notin counted
    <2>1. ~Open(w, i)
      BY <1>1, <1>2 DEF Open, FilesOf
    <2> QED BY <1>1, <2>1, CountedOpen
  <1>3. \A f \in FilesOf(c) : /\ \A m : <<Job, Image(f, m)>> \notin counted /\ <<ObjectOf[c], Image(f, m)>> \notin counted
                              /\ <<ObjectOf[c], Save(f)>> \notin counted
    BY <1>2, Kinds
  <1>4. Off(c)
    BY <1>1 DEF Off
  <1>5. c \notin fired /\ \A i : <<c, i>> \notin counted
    BY <1>1, <1>4, OffEmpty
  <1>6. PICK f \in Files : ChannelOf[f] = c
    BY LayoutAssumption
  <1>7. f \in FilesOf(c) /\ Image(f, 1) \in ItemsOf(flat, Job) /\ Image(f, 1) \in ItemsOf(flat, ObjectOf[c])
    BY <1>0, <1>6, ItemsAre, Layout
  <1>8. Job \notin fired /\ ObjectOf[c] \notin fired
    BY <1>1, <1>3, <1>7 DEF IndInv, WatchInv
  <1> QED BY <1>3, <1>5, <1>8

\* The saved files that a target stands for depend on the channels of the object only.
LEMMA ExpectedKept ==
  ASSUME NEW v \in Watches, flat \in BOOLEAN, flat' = flat,
         \A c \in Channels : v \in Objects /\ ObjectOf[c] = v /\ Saving(c) => (Alloc(c)' <=> Alloc(c))
  PROVE  Expected(v)' = Expected(v)
  <1> SUFFICES ASSUME NEW j \in ItemsOf(flat, v), j[1] = "save"
               PROVE  Alloc(ChannelOf[j[2]])' <=> Alloc(ChannelOf[j[2]])
    BY DEF Expected
  <1>1. PICK f \in Files : v \in Objects /\ ObjectOfFile(f) = v /\ Saves(flat, ChannelOf[f]) /\ j = Save(f)
    BY ItemForms, Kinds
  <1>2. PICK c \in Channels : c = ChannelOf[j[2]] /\ c = ChannelOf[f]
    BY <1>1, Kinds, Layout
  <1>3. ObjectOf[c] = v /\ Saving(c)
    BY <1>1, <1>2 DEF ObjectOfFile, Saving
  <1> QED BY <1>1, <1>2, <1>3

\* Only the watches of objects wait for saved files.
LEMMA ExpectedAll ==
  ASSUME NEW v \in Watches, v \notin Objects, flat \in BOOLEAN
  PROVE  Expected(v) = ItemsOf(flat, v)
  BY ItemForms, Kinds DEF Expected

\* What the worker thread leaves alone.
Working ==
  /\ UNCHANGED <<flat, jobStep, th, counted, fired, done, normed, packed>>
  /\ main' \in {"start", "load", "end", "thrown"} /\ begun' \subseteq Objects \cup Channels
  /\ loading' \in Channels \cup {None} /\ images' \subseteq Channels /\ calib' \subseteq Channels
  /\ watch' \in [Watches -> JobWatch]

\* A step of the worker thread that posts the tasks P and changes the watches of W only.
LEMMA WorkerStep ==
  ASSUME IndInv, Working, NEW P, posted' = posted \cup P, Monotone, MainInv',
         \A k \in P : /\ PostedTask(k) /\ HolderInv(k)'
                      /\ \A t \in Threads : ~Same(th[t], k)
                      /\ \A f \in Files : Dead(f) => k # Task("file", ChannelOf[f], f),
         NEW W, \A v \in Watches \ W : watch'[v] = watch[v] /\ (Off(v)' <=> Off(v)) /\ Expected(v)' = Expected(v),
         \A v \in Watches \cap W : WatchInv(v)'
  PROVE  IndInv'
  <1>1. th' = th /\ counted' = counted /\ flat' = flat /\ fired' = fired
    BY DEF Working
  <1>2. TaskInv' /\ CountedInv' /\ \A f \in Files : Dead(f) => Dead(f)'
    BY <1>1, Posting
  <1>3. ASSUME NEW v \in Watches PROVE WatchInv(v)'
    <2>1. CASE v \in W
      BY <2>1
    <2>2. CASE v \notin W
      <3>1. WatchInv(v)
        BY DEF IndInv
      <3> QED BY <1>1, <1>2, <2>2, <3>1, WatchKept
    <2> QED BY <2>1, <2>2
  <1>4. TypeInv'
    BY DEF IndInv, TypeInv, TypeOK, Working, JobWatch
  <1>5. StepInv'
    BY DEF IndInv, StepInv, Working
  <1> QED BY <1>2, <1>3, <1>4, <1>5 DEF IndInv

\* The job's watch is armed and initCache is posted.
LEMMA StepStart ==
  ASSUME IndInv, Start
  PROVE  IndInv'
  <1>1. /\ main = "start" /\ main' = "load" /\ watch' = [watch EXCEPT ![Job] = Armed(@)]
        /\ posted' = (IF flat THEN posted ELSE posted \cup {Task("init", None, InitCache)})
        /\ UNCHANGED <<flat, jobStep, begun, loading, th, counted, fired, done, normed, images, calib, packed>>
    BY DEF Start, data
  <1>2. TypeOK /\ MainInv /\ TaskInv /\ flat \in BOOLEAN /\ watch \in [Watches -> JobWatch] /\ Job \in Watches
    BY Layout DEF IndInv, TypeInv, TypeOK, JobWatch
  <1>3. Off(Job) /\ ~Off(Job)'
    BY <1>1 DEF Off
  <1>4. Job \notin fired /\ (\A i : <<Job, i>> \notin counted) /\ Cardinality(CountedOf(Job)) = 0
    BY <1>2, <1>3, OffEmpty
  <1>5. \A c \in Channels : (Alloc(c)' <=> Alloc(c)) /\ (Started(c)' <=> Started(c))
    BY <1>1 DEF Alloc, Started
  <1>6. Monotone
    BY <1>1, <1>3, <1>5 DEF Monotone
  <1>7. MainInv'
    BY <1>1, <1>2, <1>5 DEF MainInv
  <1>8. PICK x : x = watch[Job]
    OBVIOUS
  <1>9. x \in JobWatch /\ Cardinality(Images) \in Nat /\ 0 \in Int /\ 1 \in Int /\ Cardinality(Images) \in Int
    BY <1>2, <1>8, Sizes
  <1>10. PICK y : y = setHandler(setTarget(set(x, 0), Cardinality(Images)), "unload")
    OBVIOUS
  <1>11. y \in JobWatch
    <2>1. PICK a : a = set(x, 0)
      OBVIOUS
    <2>2. a \in JobWatch
      BY <1>9, <2>1, WatchTypes
    <2>3. PICK b : b = setTarget(a, Cardinality(Images))
      OBVIOUS
    <2>4. b \in JobWatch
      BY <1>9, <2>2, <2>3, WatchTypes
    <2>5. setHandler(b, "unload") \in JobWatch
      BY <1>9, <2>4, WatchTypes
    <2> QED BY <1>10, <2>1, <2>3, <2>5
  <1>12. y.counter = 0 /\ y.target = Cardinality(Images) /\ y.handler = "unload"
    BY <1>9, <1>10 DEF set, setTarget, setHandler, JobWatch, Watch
  <1>13. PICK z : z = Armed(x)
    OBVIOUS
  <1>14. z = IF flat THEN y ELSE increaseTarget(y, 1)
    BY <1>10, <1>13, Zenon DEF Armed
  <1>15. /\ z \in JobWatch /\ z.counter = 0 /\ z.handler = "unload"
         /\ z.target = Cardinality(ItemsOf(flat, Job))
    <2>1. CASE flat
      <3>1. z = y
        BY <1>14, <2>1
      <3> QED BY <1>2, <1>11, <1>12, <2>1, <3>1, Sizes
    <2>2. CASE ~flat
      <3>1. z = increaseTarget(y, 1)
        BY <1>14, <2>2
      <3>2. z \in JobWatch
        BY <1>9, <1>11, <3>1, WatchTypes
      <3>3. z.counter = 0 /\ z.handler = "unload" /\ z.target = Cardinality(Images) + 1
        BY <1>9, <1>11, <1>12, <3>1 DEF increaseTarget, JobWatch, Watch
      <3> QED BY <1>2, <2>2, <3>2, <3>3, Sizes
    <2> QED BY <2>1, <2>2
  <1>16. watch'[Job] = z /\ (\A v \in Watches \ {Job} : watch'[v] = watch[v]) /\ watch' \in [Watches -> JobWatch]
    BY <1>1, <1>2, <1>8, <1>13, <1>15
  <1>17. WatchInv(Job)'
    <2>1. Expected(Job)' = ItemsOf(flat, Job)
      <3>1. Expected(Job) = ItemsOf(flat, Job)
        BY <1>2, ExpectedAll, Layout
      <3>2. Expected(Job)' = Expected(Job)
        BY <1>1, <1>2, <1>5, ExpectedKept
      <3> QED BY <3>1, <3>2
    <2>2. CountedOf(Job)' = CountedOf(Job)
      BY <1>1 DEF CountedOf
    <2>3. Exact(Job)'
      BY <1>4, <1>15, <1>16, <2>1, <2>2 DEF Exact, HandlerOf
    <2> QED BY <1>1, <1>4, <2>3 DEF WatchInv
  <1>18. ASSUME NEW v \in Watches \ {Job} PROVE (Off(v)' <=> Off(v)) /\ Expected(v)' = Expected(v)
    <2>1. Expected(v)' = Expected(v)
      BY <1>1, <1>2, <1>5, ExpectedKept
    <2> QED BY <1>1, <1>5, <2>1, Layout DEF Off, Watches
  <1>19. Working
    BY <1>1, <1>2, <1>16 DEF Working, TypeOK
  <1>20. PICK P : P = IF flat THEN {} ELSE {Task("init", None, InitCache)}
    OBVIOUS
  <1>21. posted' = posted \cup P
    BY <1>1, <1>2, <1>20
  <1>22. ASSUME NEW k \in P
         PROVE  /\ PostedTask(k) /\ HolderInv(k)'
                /\ \A t \in Threads : ~Same(th[t], k)
                /\ \A f \in Files : Dead(f) => k # Task("file", ChannelOf[f], f)
    <2>1. k = Task("init", None, InitCache) /\ ~flat
      BY <1>2, <1>20
    <2>2. k.at = "init" /\ ~IsFile(k)
      BY <2>1 DEF Task, Idle, IsFile, Pos, AtFile, Handlers, Failing
    <2>3. PostedTask(k)
      BY <2>1 DEF PostedTask
    <2>4. HolderInv(k)'
      BY <1>1, <1>3, <1>4, <2>1, <2>2 DEF HolderInv
    <2>5. ASSUME NEW t \in Threads PROVE ~Same(th[t], k)
      <3>1. th[t].at # "init"
        BY <1>2, <1>3 DEF TaskInv, HolderInv
      <3> QED BY <2>2, <3>1 DEF Same
    <2>6. \A f : Task("file", ChannelOf[f], f).at = "file"
      BY DEF Task, Idle
    <2> QED BY <2>2, <2>3, <2>4, <2>5, <2>6
  <1>23. PICK W : W = {Job}
    OBVIOUS
  <1>24. /\ \A v \in Watches \ W : watch'[v] = watch[v] /\ (Off(v)' <=> Off(v)) /\ Expected(v)' = Expected(v)
         /\ \A v \in Watches \cap W : WatchInv(v)'
    BY <1>16, <1>17, <1>18, <1>23
  <1> QED BY <1>6, <1>7, <1>19, <1>21, <1>22, <1>24, WorkerStep

\* preProcess refuses the job: the job's watch stays off.
LEMMA StepRefuse ==
  ASSUME IndInv, Refuse
  PROVE  IndInv'
  <1>1. /\ main = "start" /\ main' = "thrown" /\ watch' = [watch EXCEPT ![Job] = set(@, 0)] /\ posted' = posted
        /\ UNCHANGED <<flat, jobStep, begun, loading, th, counted, fired, done, normed, images, calib, packed>>
    BY DEF Refuse, data
  <1>2. TypeOK /\ MainInv /\ flat \in BOOLEAN /\ watch \in [Watches -> JobWatch] /\ Job \in Watches
    BY Layout DEF IndInv, TypeInv, TypeOK, JobWatch
  <1>3. begun = {} /\ loading = None
    BY <1>1, <1>2 DEF MainInv
  <1>4. Off(Job) /\ Off(Job)'
    BY <1>1, <1>3 DEF Off
  <1>5. Job \notin fired
    BY <1>2, <1>4, OffEmpty
  <1>6. \A c \in Channels : (Alloc(c)' <=> Alloc(c)) /\ (Started(c)' <=> Started(c))
    BY <1>1 DEF Alloc, Started
  <1>7. Monotone
    BY <1>1, <1>4, <1>6 DEF Monotone
  <1>8. MainInv'
    BY <1>1, <1>2, <1>3, <1>6, Layout DEF MainInv
  <1>9. PICK x : x = watch[Job]
    OBVIOUS
  <1>10. set(x, 0) \in JobWatch
    BY <1>2, <1>9, WatchTypes
  <1>11. watch' \in [Watches -> JobWatch] /\ \A v \in Watches \ {Job} : watch'[v] = watch[v]
    BY <1>1, <1>2, <1>9, <1>10
  <1>12. ASSUME NEW v \in Watches \ {Job} PROVE (Off(v)' <=> Off(v)) /\ Expected(v)' = Expected(v)
    <2>1. Expected(v)' = Expected(v)
      BY <1>1, <1>2, <1>6, ExpectedKept
    <2> QED BY <1>1, <1>6, <2>1, Layout DEF Off, Watches
  <1>13. WatchInv(Job)'
    BY <1>1, <1>4, <1>5 DEF WatchInv
  <1>14. Working
    BY <1>1, <1>2, <1>11 DEF Working, TypeOK
  <1>15. PICK P, W : P = {} /\ W = {Job}
    OBVIOUS
  <1>16. /\ posted' = posted \cup P
         /\ \A v \in Watches \ W : watch'[v] = watch[v] /\ (Off(v)' <=> Off(v)) /\ Expected(v)' = Expected(v)
         /\ \A v \in Watches \cap W : WatchInv(v)'
         /\ \A k : k \notin P
    BY <1>1, <1>11, <1>12, <1>13, <1>15
  <1> QED BY <1>7, <1>8, <1>14, <1>16, WorkerStep

\* The watch of an object is armed with its images.
LEMMA StepLoadObject ==
  ASSUME IndInv, NEW o \in Objects, LoadObject(o)
  PROVE  IndInv'
  <1>1. /\ main = "load" /\ main' = main /\ o \notin begun /\ begun' = begun \cup {o} /\ posted' = posted
        /\ watch' = [watch EXCEPT ![o] = setHandler(set(@, Cardinality(ImagesOf(o))), "normalize")]
        /\ UNCHANGED <<flat, jobStep, loading, th, counted, fired, done, normed, images, calib, packed>>
    BY DEF LoadObject, data
  <1>2. /\ TypeOK /\ MainInv /\ flat \in BOOLEAN /\ watch \in [Watches -> JobWatch]
        /\ o \in Watches /\ o \notin Channels /\ o # Job
    BY Layout DEF IndInv, TypeInv, TypeOK, JobWatch
  <1>3. Off(o)
    BY <1>1, <1>2 DEF Off
  <1>4. o \notin fired /\ Cardinality(CountedOf(o)) = 0
    BY <1>2, <1>3, OffEmpty
  <1>5. \A c \in Channels : (Alloc(c)' <=> Alloc(c)) /\ (Started(c)' <=> Started(c))
    BY <1>1, <1>2 DEF Alloc, Started
  <1>6. Monotone
    BY <1>1, <1>5 DEF Monotone, Off
  <1>7. MainInv'
    BY <1>1, <1>2, <1>5 DEF MainInv
  <1>8. PICK x : x = watch[o]
    OBVIOUS
  <1>9. PICK a : a = set(x, Cardinality(ImagesOf(o)))
    OBVIOUS
  <1>10. Cardinality(ImagesOf(o)) \in Int /\ x \in JobWatch
    BY <1>2, <1>8, Sizes
  <1>11. a \in JobWatch /\ a.counter = 0 /\ a.target = Cardinality(ImagesOf(o))
    <2>1. a \in JobWatch
      BY <1>9, <1>10, WatchTypes
    <2> QED BY <1>9, <1>10, <2>1 DEF set, JobWatch, Watch
  <1>12. PICK z : z = setHandler(a, "normalize")
    OBVIOUS
  <1>13. z \in JobWatch /\ z.counter = 0 /\ z.target = Cardinality(ImagesOf(o)) /\ z.handler = "normalize"
    <2>1. z \in JobWatch
      BY <1>10, <1>11, <1>12, WatchTypes
    <2> QED BY <1>11, <1>12, <2>1 DEF setHandler, JobWatch, Watch
  <1>14. watch'[o] = z /\ (\A v \in Watches \ {o} : watch'[v] = watch[v]) /\ watch' \in [Watches -> JobWatch]
    BY <1>1, <1>2, <1>8, <1>9, <1>12, <1>13
  <1>15. Expected(o) = ImagesOf(o)
    <2>1. ASSUME NEW j \in Expected(o) PROVE j \in ImagesOf(o)
      <3>1. ASSUME NEW f \in Files, ObjectOfFile(f) = o, j = Save(f) PROVE FALSE
        <4>1. Alloc(ChannelOf[f])
          BY <3>1, Kinds DEF Expected
        <4> QED BY <1>1, <1>2, <3>1, <4>1, Layout DEF MainInv
      <3>2. j \in ItemsOf(flat, o)
        BY DEF Expected
      <3> QED BY <1>2, <3>1, <3>2, ItemsObject
    <2>2. ASSUME NEW j \in ImagesOf(o) PROVE j \in Expected(o)
      <3>1. j \in ItemsOf(flat, o)
        BY <1>2, ItemsObject
      <3>2. j[1] = "image"
        BY Kinds DEF ImagesOf
      <3> QED BY <3>1, <3>2 DEF Expected
    <2> QED BY <2>1, <2>2
  <1>16. \A v \in Watches : Expected(v)' = Expected(v)
    BY <1>1, <1>2, <1>5, ExpectedKept
  <1>17. WatchInv(o)'
    <2>1. CountedOf(o)' = CountedOf(o)
      BY <1>1 DEF CountedOf
    <2>2. Exact(o)'
      BY <1>2, <1>4, <1>13, <1>14, <1>15, <1>16, <2>1 DEF Exact, HandlerOf
    <2> QED BY <1>1, <1>4, <2>2 DEF WatchInv
  <1>18. \A v \in Watches \ {o} : Off(v)' <=> Off(v)
    BY <1>1, <1>5, Layout DEF Off, Watches
  <1>19. Working
    BY <1>1, <1>2, <1>14 DEF Working, TypeOK
  <1>20. PICK P, W : P = {} /\ W = {o}
    OBVIOUS
  <1>21. /\ posted' = posted \cup P
         /\ \A v \in Watches \ W : watch'[v] = watch[v] /\ (Off(v)' <=> Off(v)) /\ Expected(v)' = Expected(v)
         /\ \A v \in Watches \cap W : WatchInv(v)'
         /\ \A k : k \notin P
    BY <1>1, <1>14, <1>16, <1>17, <1>18, <1>20
  <1> QED BY <1>6, <1>7, <1>19, <1>21, WorkerStep

\* The storage of a channel: the files that will be saved are added to the target of the
\* object, which can not have been reached because the channel's images are not counted.
LEMMA Allocating ==
  ASSUME IndInv, NEW c \in Channels, c \notin begun, ObjectOf[c] \in begun, Allocate(c),
         flat' = flat, counted' = counted, fired' = fired
  PROVE  /\ watch' \in [Watches -> JobWatch]
         /\ \A v \in Watches \ {ObjectOf[c]} : watch'[v] = watch[v] /\ Expected(v)' = Expected(v)
         /\ WatchInv(ObjectOf[c])'
         /\ \A d \in Channels : Alloc(d)' <=> (Alloc(d) \/ d = c)
  <1>1. PICK o \in Objects : o = ObjectOf[c]
    BY Layout
  <1>2. /\ MainInv /\ flat \in BOOLEAN /\ watch \in [Watches -> JobWatch] /\ o \in Watches
    BY Layout DEF IndInv, TypeInv, TypeOK, JobWatch
  <1>3. ~Started(c) /\ ~Alloc(c)
    BY <1>2 DEF Started, MainInv
  <1>4. o \notin fired
    BY <1>1, <1>3, NotStarted
  <1>5. Exact(o)
    <2>1. ~Off(o)
      BY <1>1, Layout DEF Off
    <2> QED BY <1>2, <1>4, <2>1 DEF IndInv, WatchInv
  <1>6. \A d \in Channels : Alloc(d)' <=> (Alloc(d) \/ d = c)
    BY DEF Allocate, Alloc
  <1>7. ASSUME NEW v \in Watches \ {o} PROVE Expected(v)' = Expected(v)
    BY <1>1, <1>2, <1>6, <1>7, ExpectedKept
  <1>8. CountedOf(o)' = CountedOf(o)
    BY DEF CountedOf
  <1>9. CASE ~Saving(c)
    <2>1. watch' = watch
      BY <1>9 DEF Allocate
    <2>2. Expected(o)' = Expected(o)
      BY <1>2, <1>6, <1>9, ExpectedKept
    <2>3. Exact(o)'
      BY <1>5, <1>8, <2>1, <2>2 DEF Exact
    <2>4. WatchInv(o)'
      BY <1>4, <2>3 DEF WatchInv
    <2> QED BY <1>1, <1>2, <1>6, <1>7, <2>1, <2>4
  <1>10. CASE Saving(c)
    <2>1. PICK S : S = {Save(f) : f \in FilesOf(c)}
      OBVIOUS
    <2>2. IsFiniteSet(S) /\ Cardinality(S) = Cardinality(FilesOf(c)) /\ Cardinality(FilesOf(c)) \in Nat
      <3>1. IsFiniteSet(FilesOf(c))
        BY LayoutAssumption, FS_Subset DEF FilesOf
      <3> QED BY <2>1, <3>1, KindSizes, FS_CardinalityType
    <2>3. Expected(o) \cap S = {}
      <3> SUFFICES ASSUME NEW f \in FilesOf(c), Save(f) \in Expected(o) PROVE FALSE
        BY <2>1
      <3>1. Alloc(ChannelOf[f])
        BY Kinds DEF Expected
      <3> QED BY <1>3, <3>1 DEF FilesOf
    <2>4. Expected(o)' = Expected(o) \cup S
      <3>1. ASSUME NEW j \in ItemsOf(flat, o) PROVE j \in Expected(o)' <=> j \in Expected(o) \cup S
        <4>1. CASE j[1] # "save"
          <5>1. j \notin S
            BY <2>1, <4>1, Kinds
          <5> QED BY <4>1, <5>1 DEF Expected
        <4>2. CASE j[1] = "save"
          <5>1. PICK f \in Files : j = Save(f)
            BY <1>2, <4>2, ItemForms, Kinds
          <5>2. PICK d \in Channels : d = ChannelOf[f]
            BY Layout
          <5>3. j[2] = f
            BY <5>1, Kinds
          <5>4. j \in Expected(o) <=> Alloc(d)
            BY <4>2, <5>2, <5>3 DEF Expected
          <5>5. j \in Expected(o)' <=> Alloc(d)'
            BY <4>2, <5>2, <5>3 DEF Expected
          <5>6. j \in S <=> d = c
            BY <2>1, <5>1, <5>2, Kinds DEF FilesOf
          <5> QED BY <1>6, <5>4, <5>5, <5>6
        <4> QED BY <4>1, <4>2
      <3>2. ASSUME NEW j \in S PROVE j \in ItemsOf(flat, o)
        <4>1. PICK f \in Files : ChannelOf[f] = c /\ j = Save(f)
          BY <2>1 DEF FilesOf
        <4> QED BY <1>1, <1>2, <1>10, <4>1, ItemsAre DEF Saving
      <3>3. Expected(o) \subseteq ItemsOf(flat, o) /\ Expected(o)' \subseteq ItemsOf(flat, o)
        BY DEF Expected
      <3> QED BY <3>1, <3>2, <3>3
    <2>5. IsFiniteSet(Expected(o)) /\ Cardinality(Expected(o)) \in Nat
      BY <1>2, CountedOpen, FS_CardinalityType
    <2>6. PICK E : E = Expected(o)
      OBVIOUS
    <2>7. Cardinality(E \cup S) = Cardinality(E) + Cardinality(S)
      BY <2>2, <2>3, <2>5, <2>6, DisjointSizes
    <2>8. PICK x : x = watch[o]
      OBVIOUS
    <2>9. PICK z : z = increaseTarget(x, Cardinality(FilesOf(c)))
      OBVIOUS
    <2>10. x \in JobWatch /\ Cardinality(FilesOf(c)) \in Int
      BY <1>2, <2>2, <2>8
    <2>11. z \in JobWatch
      BY <2>9, <2>10, WatchTypes
    <2>12. z.counter = x.counter /\ z.handler = x.handler /\ z.target = x.target + Cardinality(FilesOf(c))
      BY <2>9, <2>10 DEF increaseTarget, JobWatch, Watch
    <2>13. watch' = [watch EXCEPT ![o] = increaseTarget(@, Cardinality(FilesOf(c)))]
      BY <1>1, <1>10 DEF Allocate
    <2>14. watch'[o] = z /\ (\A v \in Watches \ {o} : watch'[v] = watch[v]) /\ watch' \in [Watches -> JobWatch]
      BY <1>2, <2>8, <2>9, <2>11, <2>13
    <2>15. watch'[o].target = Cardinality(Expected(o)')
      BY <1>5, <2>2, <2>4, <2>6, <2>7, <2>8, <2>12, <2>14 DEF Exact
    <2>16. Exact(o)'
      BY <1>5, <1>8, <2>8, <2>12, <2>14, <2>15 DEF Exact
    <2>17. WatchInv(o)'
      BY <1>4, <2>16 DEF WatchInv
    <2> QED BY <1>1, <1>6, <1>7, <2>14, <2>17
  <1> QED BY <1>9, <1>10

\* The first half of a channel's loadData.
LEMMA StepLoadCalib ==
  ASSUME IndInv, NEW c \in Channels, LoadCalib(c)
  PROVE  IndInv'
  <1>1. /\ main = "load" /\ main' = main /\ c \notin begun /\ ObjectOf[c] \in begun /\ begun' = begun \cup {c}
        /\ loading = None /\ loading' = c /\ calib' = calib \cup {c} /\ images' = images \cup {c} /\ posted' = posted
        /\ Allocate(c) /\ UNCHANGED <<flat, jobStep, th, counted, fired, done, normed, packed>>
    BY DEF LoadCalib, Enter, Allocate
  <1>2. TypeOK /\ MainInv /\ c # None
    BY Layout DEF IndInv, TypeInv
  <1>3. PICK o \in Objects : o = ObjectOf[c] /\ o \in Watches
    BY Layout
  <1>4. /\ watch' \in [Watches -> JobWatch]
        /\ \A v \in Watches \ {o} : watch'[v] = watch[v] /\ Expected(v)' = Expected(v)
        /\ WatchInv(o)'
        /\ \A d \in Channels : Alloc(d)' <=> (Alloc(d) \/ d = c)
    BY <1>1, <1>3, Allocating
  <1>5. \A d \in Channels : Started(d)' <=> Started(d)
    BY <1>1, <1>2, <1>4, Layout DEF Started
  <1>6. Monotone
    BY <1>1, <1>5 DEF Monotone, Off
  <1>7. MainInv'
    BY <1>1, <1>2, <1>4, Layout DEF MainInv
  <1>8. \A v \in Watches \ {o} : Off(v)' <=> Off(v)
    BY <1>1, <1>5, Layout DEF Off, Watches
  <1>9. Working
    BY <1>1, <1>2, <1>4 DEF Working, TypeOK
  <1>10. PICK P, W : P = {} /\ W = {o}
    OBVIOUS
  <1>11. /\ posted' = posted \cup P
         /\ \A v \in Watches \ W : watch'[v] = watch[v] /\ (Off(v)' <=> Off(v)) /\ Expected(v)' = Expected(v)
         /\ \A v \in Watches \cap W : WatchInv(v)'
         /\ \A k : k \notin P
    BY <1>1, <1>4, <1>8, <1>10
  <1> QED BY <1>6, <1>7, <1>9, <1>11, WorkerStep

\* loadData throws, before or after the storage was allocated.
LEMMA StepLoadThrows ==
  ASSUME IndInv, NEW c \in Channels, LoadThrows(c)
  PROVE  IndInv'
  <1>1. /\ main = "load" /\ main' = "thrown" /\ c \notin begun /\ ObjectOf[c] \in begun /\ begun' = begun \cup {c}
        /\ loading = None /\ loading' = loading /\ posted' = posted
        /\ Allocate(c) \/ UNCHANGED <<images, watch>>
        /\ UNCHANGED <<flat, jobStep, th, counted, fired, done, normed, calib, packed>>
    BY DEF LoadThrows, Enter
  <1>2. TypeOK /\ MainInv /\ c # None /\ flat \in BOOLEAN
    BY Layout DEF IndInv, TypeInv, TypeOK
  <1>3. PICK o \in Objects : o = ObjectOf[c] /\ o \in Watches
    BY Layout
  <1>4. ~Started(c) /\ c \notin calib /\ Job \notin fired
    <2>1. ~Started(c) /\ c \notin calib
      BY <1>1, <1>2 DEF Started, MainInv
    <2> QED BY <2>1, NotStarted
  <1>5. /\ watch' \in [Watches -> JobWatch] /\ images' \subseteq Channels
        /\ \A v \in Watches \ {o} : watch'[v] = watch[v] /\ Expected(v)' = Expected(v)
        /\ WatchInv(o)' \/ (watch' = watch /\ Expected(o)' = Expected(o))
        /\ \A d \in Channels : d # c => (Alloc(d)' <=> Alloc(d))
    <2>1. CASE Allocate(c)
      BY <1>1, <1>2, <1>3, <2>1, Allocating DEF Allocate, TypeOK
    <2>2. CASE UNCHANGED <<images, watch>>
      <3>1. \A d \in Channels : Alloc(d)' <=> Alloc(d)
        BY <1>1, <2>2 DEF Alloc
      <3>2. \A v \in Watches : Expected(v)' = Expected(v)
        BY <1>1, <1>2, <3>1, ExpectedKept
      <3> QED BY <1>2, <1>3, <2>2, <3>1, <3>2 DEF TypeOK, JobWatch
    <2> QED BY <1>1, <2>1, <2>2
  <1>6. \A d \in Channels : Started(d)' <=> Started(d)
    BY <1>1, <1>4, <1>5 DEF Started
  <1>7. Monotone
    BY <1>1, <1>6 DEF Monotone, Off
  <1>8. MainInv'
    BY <1>1, <1>2, <1>5, Layout DEF MainInv
  <1>9. \A v \in Watches : Off(v)' <=> Off(v)
    BY <1>1, <1>3, <1>6, Layout DEF Off, Watches
  <1>10. Working
    BY <1>1, <1>2, <1>5 DEF Working, TypeOK
  <1>11. PICK P, W : P = {} /\ W = IF WatchInv(o)' THEN {o} ELSE {}
    OBVIOUS
  <1>12. /\ posted' = posted \cup P
         /\ \A v \in Watches \ W : watch'[v] = watch[v] /\ (Off(v)' <=> Off(v)) /\ Expected(v)' = Expected(v)
         /\ \A v \in Watches \cap W : WatchInv(v)'
         /\ \A k : k \notin P
    <2>1. CASE WatchInv(o)'
      BY <1>1, <1>5, <1>9, <1>11, <2>1
    <2>2. CASE ~WatchInv(o)'
      BY <1>1, <1>5, <1>9, <1>11, <2>2
    <2> QED BY <2>1, <2>2
  <1> QED BY <1>7, <1>8, <1>10, <1>12, WorkerStep

\* The second half: the watch of the channel is armed and its tasks are posted.
LEMMA StepPostTasks ==
  ASSUME IndInv, NEW c \in Channels, PostTasks(c)
  PROVE  IndInv'
  <1>1. /\ loading = c /\ loading' = None /\ main' = main /\ begun' = begun
        /\ watch' = [watch EXCEPT ![c] = setHandler(set(@, Cardinality(PatchList) + Cardinality(FilesOf(c))), "drop")]
        /\ posted' = posted \cup Tasks(c)
        /\ UNCHANGED <<flat, jobStep, th, counted, fired, done, normed, images, calib, packed>>
    BY DEF PostTasks, data
  <1>2. /\ TypeOK /\ MainInv /\ TaskInv /\ flat \in BOOLEAN /\ watch \in [Watches -> JobWatch]
        /\ c # None /\ c \in Watches /\ c \notin Objects /\ c # Job
    BY Layout DEF IndInv, TypeInv, TypeOK, JobWatch
  <1>3. main = "load" /\ c \in begun /\ Alloc(c) /\ (c \in calib \/ Job \in fired) /\ ~Started(c)
    BY <1>1, <1>2 DEF MainInv, Started
  <1>4. /\ \A f \in FilesOf(c) : /\ \A m : <<Job, Image(f, m)>> \notin counted /\ <<ObjectOf[c], Image(f, m)>> \notin counted
                                 /\ <<ObjectOf[c], Save(f)>> \notin counted
        /\ \A i : <<c, i>> \notin counted
        /\ c \notin fired
    BY <1>3, NotStarted
  <1>5. \A d \in Channels : Alloc(d)' <=> Alloc(d)
    BY <1>1 DEF Alloc
  <1>6. Started(c)' /\ \A d \in Channels \ {c} : Started(d)' <=> Started(d)
    BY <1>1, <1>2, <1>3, <1>5, Layout DEF Started
  <1>7. Monotone
    BY <1>1, <1>3, <1>6 DEF Monotone, Off
  <1>8. MainInv'
    BY <1>1, <1>2, <1>3, <1>5, Layout DEF MainInv
  <1>9. PICK N : N = Cardinality(PatchList) + Cardinality(FilesOf(c))
    OBVIOUS
  <1>10. N \in Int /\ N = Cardinality(ItemsOf(flat, c))
    BY <1>2, <1>9, Sizes DEF PatchList
  <1>11. PICK x, a, z : x = watch[c] /\ a = set(x, N) /\ z = setHandler(a, "drop")
    OBVIOUS
  <1>12. x \in JobWatch
    BY <1>2, <1>11
  <1>13. a \in JobWatch
    BY <1>10, <1>11, <1>12, WatchTypes
  <1>14. z \in JobWatch
    BY <1>10, <1>11, <1>13, WatchTypes
  <1>15. a.counter = 0 /\ a.target = N
    BY <1>11, <1>12 DEF set, JobWatch, Watch
  <1>16. z.counter = 0 /\ z.target = N /\ z.handler = "drop"
    BY <1>11, <1>13, <1>15 DEF setHandler, JobWatch, Watch
  <1>17. watch'[c] = z /\ (\A v \in Watches \ {c} : watch'[v] = watch[v]) /\ watch' \in [Watches -> JobWatch]
    BY <1>1, <1>2, <1>9, <1>11, <1>14
  <1>18. \A v \in Watches : Expected(v)' = Expected(v)
    BY <1>1, <1>2, <1>5, ExpectedKept
  <1>19. WatchInv(c)'
    <2>1. Expected(c)' = ItemsOf(flat, c)
      BY <1>2, <1>18, ExpectedAll
    <2>2. CountedOf(c)' = {}
      BY <1>1, <1>4 DEF CountedOf
    <2>3. Exact(c)'
      BY <1>2, <1>10, <1>16, <1>17, <2>1, <2>2, FS_EmptySet DEF Exact, HandlerOf
    <2> QED BY <1>1, <1>4, <2>3 DEF WatchInv
  <1>20. \A v \in Watches \ {c} : Off(v)' <=> Off(v)
    BY <1>1, <1>6, Layout DEF Off, Watches
  <1>21. Working
    BY <1>1, <1>2, <1>17 DEF Working, TypeOK
  <1>22. ASSUME NEW k \in Tasks(c)
         PROVE  /\ PostedTask(k) /\ HolderInv(k)'
                /\ \A t \in Threads : ~Same(th[t], k)
                /\ \A f \in Files : Dead(f) => k # Task("file", ChannelOf[f], f)
    <2>1. ASSUME NEW t \in Threads PROVE th[t].at = "cut" \/ IsFile(th[t]) => th[t].chan # c /\ (IsFile(th[t]) => th[t].chan = ChannelOf[th[t].item])
      <3>1. PICK l : l = th[t]
        OBVIOUS
      <3>2. HolderInv(l)
        BY <1>2, <3>1 DEF TaskInv
      <3> QED BY <1>3, <3>1, <3>2 DEF HolderInv, FileAt
    <2>2. \A f \in Files : Dead(f) => ChannelOf[f] # c
      BY <1>3 DEF Dead
    <2>3. \A f : Task("file", ChannelOf[f], f).at = "file" /\ Task("file", ChannelOf[f], f).item = f
      BY DEF Task, Idle
    <2>4. ASSUME NEW p \in PatchList, k = Task("cut", c, Cut(p))
          PROVE  /\ PostedTask(k) /\ HolderInv(k)'
                 /\ \A t \in Threads : ~Same(th[t], k)
                 /\ \A f \in Files : Dead(f) => k # Task("file", ChannelOf[f], f)
      <3>1. k.at = "cut" /\ k.chan = c /\ k.item = Cut(p) /\ ~IsFile(k)
        BY <2>4 DEF Task, Idle, IsFile, Pos, AtFile, Handlers, Failing
      <3>2. p \in Patches /\ PatchList' = PatchList
        BY <1>1, <1>2 DEF PatchList, PatchesOf
      <3>3. PostedTask(k)
        BY <2>4, <3>2 DEF PostedTask
      <3>4. HolderInv(k)'
        BY <1>1, <1>4, <1>6, <3>1, <3>2 DEF HolderInv
      <3>5. \A t \in Threads : ~Same(th[t], k)
        BY <2>1, <3>1 DEF Same
      <3> QED BY <2>3, <3>1, <3>3, <3>4, <3>5
    <2>5. ASSUME NEW f \in FilesOf(c), k = Task("file", c, f)
          PROVE  /\ PostedTask(k) /\ HolderInv(k)'
                 /\ \A t \in Threads : ~Same(th[t], k)
                 /\ \A g \in Files : Dead(g) => k # Task("file", ChannelOf[g], g)
      <3>1. /\ k.at = "file" /\ k.chan = c /\ k.item = f /\ k.frame = 0 /\ IsFile(k) /\ Pos(k) = "file"
        BY <2>5 DEF Task, Idle, IsFile, Pos, AtFile, Handlers, Failing
      <3>2. f \in Files /\ ChannelOf[f] = c /\ Frames[f] \in Nat
        BY Layout DEF FilesOf
      <3>3. PostedTask(k)
        BY <2>5, <3>2 DEF PostedTask
      <3>4. FileAt(f, c, 0, "file")'
        BY <1>1, <1>4, <1>6, <3>2 DEF FileAt, Failing
      <3>5. HolderInv(k)'
        BY <3>1, <3>4 DEF HolderInv
      <3>6. \A t \in Threads : ~Same(th[t], k)
        BY <2>1, <3>1, <3>2 DEF Same
      <3> QED BY <2>2, <2>3, <3>1, <3>2, <3>3, <3>5, <3>6
    <2> QED BY <2>4, <2>5 DEF Tasks
  <1>23. PICK P, W : P = Tasks(c) /\ W = {c}
    OBVIOUS
  <1>24. /\ posted' = posted \cup P
         /\ \A v \in Watches \ W : watch'[v] = watch[v] /\ (Off(v)' <=> Off(v)) /\ Expected(v)' = Expected(v)
         /\ \A v \in Watches \cap W : WatchInv(v)'
    BY <1>1, <1>17, <1>18, <1>19, <1>20, <1>23
  <1> QED BY <1>7, <1>8, <1>21, <1>22, <1>23, <1>24, WorkerStep

\* preProcess ends.
LEMMA StepEndOfLoad ==
  ASSUME IndInv, EndOfLoad
  PROVE  IndInv'
  <1>1. /\ main = "load" /\ main' = "end" /\ posted' = posted /\ loading = None
        /\ UNCHANGED <<flat, jobStep, begun, loading, th, watch, counted, fired, done, normed, images, calib, packed>>
    BY DEF EndOfLoad, book, data
  <1>2. TypeOK /\ MainInv /\ flat \in BOOLEAN
    BY DEF IndInv, TypeInv, TypeOK
  <1>3. \A c \in Channels : (Alloc(c)' <=> Alloc(c)) /\ (Started(c)' <=> Started(c))
    BY <1>1 DEF Alloc, Started
  <1>4. Monotone
    BY <1>1, <1>3 DEF Monotone, Off
  <1>5. MainInv'
    BY <1>1, <1>2, <1>3, Layout DEF MainInv
  <1>6. \A v \in Watches : watch'[v] = watch[v] /\ (Off(v)' <=> Off(v))
    BY <1>1, <1>3, Layout DEF Off, Watches
  <1>7. \A v \in Watches : Expected(v)' = Expected(v)
    BY <1>1, <1>2, <1>3, ExpectedKept
  <1>8. Working
    BY <1>1, <1>2 DEF Working, TypeOK, JobWatch
  <1>9. PICK P, W : P = {} /\ W = {}
    OBVIOUS
  <1>10. /\ posted' = posted \cup P
         /\ \A v \in Watches \ W : watch'[v] = watch[v] /\ (Off(v)' <=> Off(v)) /\ Expected(v)' = Expected(v)
         /\ \A v \in Watches \cap W : WatchInv(v)'
         /\ \A k : k \notin P
    BY <1>1, <1>6, <1>7, <1>9
  <1> QED BY <1>4, <1>5, <1>8, <1>10, WorkerStep

\* getWork uses the watch of the job for the patches: the watch has fired before.
LEMMA StepGetWork ==
  ASSUME IndInv, GetWork
  PROVE  IndInv'
  <1>1. /\ jobStep = "QUEUED" /\ jobStep' = "RUNNING" /\ packed' = normed
        /\ watch' = [watch EXCEPT ![Job] = setHandler(set(clear(@), Cardinality(Patches)), "jobDone")]
        /\ UNCHANGED <<flat, main, begun, loading, posted, th, counted, fired, done, normed, images, calib>>
    BY DEF GetWork, loader, data
  <1>2. TypeOK /\ MainInv /\ flat \in BOOLEAN /\ watch \in [Watches -> JobWatch] /\ Job \in Watches /\ Job \in fired
    BY <1>1, Layout DEF IndInv, TypeInv, TypeOK, JobWatch, StepInv
  <1>3. \A c \in Channels : (Alloc(c)' <=> Alloc(c)) /\ (Started(c)' <=> Started(c))
    BY <1>1 DEF Alloc, Started
  <1>4. \A v \in Watches : Off(v)' <=> Off(v)
    BY <1>1, <1>3, Layout DEF Off, Watches
  <1>5. Monotone
    BY <1>1, <1>2, <1>3, <1>4 DEF Monotone
  <1>6. MainInv' /\ StepInv'
    BY <1>1, <1>2, <1>3 DEF MainInv, StepInv
  <1>7. \A v \in Watches : Expected(v)' = Expected(v)
    BY <1>1, <1>2, <1>3, ExpectedKept
  <1>8. PICK a, b, z : a = NewWatch /\ b = set(a, Cardinality(Patches)) /\ z = setHandler(b, "jobDone")
    OBVIOUS
  <1>9. a \in JobWatch /\ Cardinality(Patches) \in Int
    BY <1>8, LayoutAssumption, FS_CardinalityType DEF NewWatch, JobWatch, Watch
  <1>10. b \in JobWatch
    BY <1>8, <1>9, WatchTypes
  <1>11. z \in JobWatch
    BY <1>8, <1>9, <1>10, WatchTypes
  <1>12. watch' = [watch EXCEPT ![Job] = z]
    BY <1>1, <1>8 DEF clear
  <1>13. watch' \in [Watches -> JobWatch] /\ \A v \in Watches \ {Job} : watch'[v] = watch[v]
    BY <1>2, <1>11, <1>12
  <1>14. PICK P : P = {}
    OBVIOUS
  <1>15. posted' = posted \cup P /\ th' = th /\ counted' = counted /\ \A k : k \notin P
    BY <1>1, <1>14
  <1>16. TaskInv' /\ CountedInv' /\ \A f \in Files : Dead(f) => Dead(f)'
    BY <1>5, <1>15, Posting
  <1>17. ASSUME NEW v \in Watches PROVE WatchInv(v)'
    <2>1. WatchInv(v) /\ flat' = flat /\ counted' = counted /\ fired' = fired
      BY <1>1 DEF IndInv
    <2>2. CASE v = Job
      BY <1>2, <1>4, <2>1, <2>2 DEF WatchInv
    <2>3. CASE v # Job
      BY <1>4, <1>7, <1>13, <1>16, <2>1, <2>3, WatchKept
    <2> QED BY <2>2, <2>3
  <1>18. TypeInv'
    <2>1. th \in [Threads -> Records]
      BY DEF IndInv, TypeInv
    <2> QED BY <1>1, <1>2, <1>13, <2>1 DEF TypeInv, TypeOK, JobWatch
  <1> QED BY <1>6, <1>16, <1>17, <1>18 DEF IndInv

-----------------------------------------------------------------------------
(* The invariant                                                           *)

\* A job that starts its pre-processing satisfies the invariant.
LEMMA InitInv == Init => IndInv
  <1> SUFFICES ASSUME Init PROVE IndInv
    OBVIOUS
  <1>1. Idle \in Records /\ HolderInv(Idle) /\ ~IsFile(Idle) /\ Idle.at = "idle"
    BY IdleHolds DEF Idle, IsFile, Pos, AtFile, Handlers, Failing
  <1>2. /\ th \in [Threads -> Records] /\ \A t \in Threads : th[t] = Idle
    BY <1>1 DEF Init
  <1>3. TypeInv
    <2>1. watch \in [Watches -> Watch({"unload", "normalize", "drop", "jobDone"})]
      BY DEF Init, Watch, NewWatch
    <2>2. \A t \in Threads : th[t].at \in Places /\ th[t].then \in Places
      BY <1>2 DEF Records
    <2> QED BY <1>2, <2>1, <2>2 DEF Init, TypeInv, TypeOK
  <1>4. MainInv
    BY Layout DEF Init, MainInv, Alloc
  <1>5. TaskInv
    <2>1. \A t \in Threads : HolderInv(th[t])
      BY <1>1, <1>2
    <2>2. \A s, t \in Threads : ~Same(th[s], th[t])
      BY <1>1, <1>2 DEF Same
    <2> QED BY <2>1, <2>2 DEF Init, TaskInv
  <1>6. CountedInv /\ StepInv
    BY DEF Init, CountedInv, StepInv
  <1>7. ASSUME NEW w \in Watches PROVE WatchInv(w)
    <2>1. Off(w)
      BY DEF Init, Off, Started
    <2> QED BY <2>1 DEF Init, WatchInv
  <1> QED BY <1>3, <1>4, <1>5, <1>6, <1>7 DEF IndInv

\* Every step keeps it.
LEMMA StepInvariant == IndInv /\ [Next]_vars => IndInv'
  <1> SUFFICES ASSUME IndInv, [Next]_vars PROVE IndInv'
    OBVIOUS
  <1>1. CASE UNCHANGED vars
    <2>1. UNCHANGED <<flat, jobStep, main, begun, loading, posted, th, watch, counted, fired, done, normed, images, calib, packed>>
      BY <1>1 DEF vars, loader, book, data
    <2>2. TypeOK /\ Calm
      BY <2>1 DEF IndInv, TypeInv, Calm
    <2>3. Working
      BY <2>1, <2>2 DEF Working, TypeOK, JobWatch
    <2>4. /\ Monotone /\ MainInv'
          /\ \A v \in Watches : watch'[v] = watch[v] /\ (Off(v)' <=> Off(v)) /\ Expected(v)' = Expected(v)
      BY <2>1, <2>2, CalmFrame
    <2>5. PICK P, W : P = {} /\ W = {}
      OBVIOUS
    <2>6. /\ posted' = posted \cup P
          /\ \A v \in Watches \ W : watch'[v] = watch[v] /\ (Off(v)' <=> Off(v)) /\ Expected(v)' = Expected(v)
          /\ \A v \in Watches \cap W : WatchInv(v)'
          /\ \A k : k \notin P
      BY <2>1, <2>4, <2>5
    <2> QED BY <2>3, <2>4, <2>6, WorkerStep
  <1>2. CASE Worker
    BY <1>2, StepStart, StepRefuse, StepEndOfLoad, StepLoadObject, StepLoadCalib, StepLoadThrows, StepPostTasks DEF Worker
  <1>3. ASSUME NEW t \in Threads, PoolThread(t) PROVE IndInv'
    BY <1>3, StepTake, StepThrows, StepInitCache, StepCutout, StepLoadFile, StepImage, StepCountJob, StepCountObject, StepNextImage,
       StepSaveFile, StepCountFile, StepFailJob, StepClearJob, StepClearChannel, StepUnload, StepQueue, StepNormalize, StepDrop
       DEF PoolThread
  <1>4. CASE GetWork
    BY <1>4, StepGetWork
  <1> QED BY <1>1, <1>2, <1>3, <1>4 DEF Next

\* The watches, the tasks that will count on them and what was counted agree in every
\* reachable state, whatever order the threads take the tasks in, and whichever files
\* fail, and whichever loads or tasks throw.
THEOREM InductiveInvariant == Spec => []IndInv
  BY InitInv, StepInvariant, PTL DEF Spec

\* The variables keep their types.
THEOREM TypeCorrect == Spec => []TypeOK
  <1>1. IndInv => TypeOK
    BY DEF IndInv, TypeInv
  <1> QED BY <1>1, InductiveInvariant, PTL

\* A job is queued, running or complete only after initCache and every image are done:
\* unloadCalib runs with the last count of the job's watch, and an item is counted after
\* its work.
THEOREM QueuedWhenReady == Spec => []QueuedReady
  <1>1. IndInv => QueuedReady
    <2> SUFFICES ASSUME IndInv, jobStep \in {"QUEUED", "COMPLETED", "RUNNING"}, NEW i \in ItemsOf(flat, Job)
                 PROVE  <<Job, i>> \in done
      BY DEF QueuedReady
    <2>1. Job \in fired
      BY DEF IndInv, StepInv
    <2>2. WatchInv(Job)
      BY Layout DEF IndInv
    <2>3. <<Job, i>> \in counted
      BY <2>1, <2>2 DEF WatchInv
    <2> QED BY <2>3 DEF IndInv, CountedInv
  <1> QED BY <1>1, InductiveInvariant, PTL

\* No thread loses the images or the calibration data that it works on: it owes a count
\* to the watch whose handler drops them.
THEOREM NothingDropped == Spec => []StillThere
  <1>1. IndInv => StillThere
    <2> SUFFICES ASSUME IndInv, NEW t \in Threads, th[t].at \in {"file", "image", "save"}
                 PROVE  th[t].chan \in images /\ (th[t].at = "image" => th[t].chan \in calib)
      BY DEF StillThere
    <2>1. PICK f, c, n : f = th[t].item /\ c = th[t].chan /\ n = th[t].frame
      OBVIOUS
    <2>2. /\ FileAt(f, c, n, th[t].at) /\ f \in Files /\ c = ChannelOf[f] /\ c \in Channels /\ Started(c)
          /\ th[t].at = "image" => n \in 1..Frames[f]
      BY <2>1, ThreadAtFile DEF AtFile, Failing
    <2>3. flat \in BOOLEAN /\ WatchInv(c) /\ WatchInv(Job)
      BY <2>2, Layout DEF IndInv, TypeInv, TypeOK
    <2>4. c \notin fired
      <3>1. <<c, File(f)>> \notin counted /\ File(f) \in ItemsOf(flat, c)
        BY <2>2, <2>3, ItemsAre DEF FileAt
      <3> QED BY <2>3, <3>1 DEF WatchInv
    <2>5. ASSUME th[t].at = "image" PROVE Job \notin fired
      <3>1. <<Job, Image(f, n)>> \notin counted /\ Image(f, n) \in ItemsOf(flat, Job)
        BY <2>2, <2>3, <2>5, ItemsAre DEF FileAt
      <3> QED BY <2>3, <3>1 DEF WatchInv
    <2> QED BY <2>1, <2>2, <2>4, <2>5 DEF Started, Alloc
  <1> QED BY <1>1, InductiveInvariant, PTL

\* When the job is queued, nothing that counts on its watch or clears it is left: getWork
\* may use the watch for the patches.
THEOREM WatchIsLeft == Spec => []WatchLeft
  <1>1. IndInv => WatchLeft
    <2> SUFFICES ASSUME IndInv, jobStep \in {"QUEUED", "COMPLETED", "RUNNING"} PROVE
                 /\ \A k \in posted : k.at = "cut"
                 /\ \A t \in Threads : th[t].at \notin {"init", "file", "image", "next", "countJob", "error", "clearJob"}
      BY DEF WatchLeft
    <2>1. Job \in fired /\ WatchInv(Job) /\ flat \in BOOLEAN
      BY Layout DEF IndInv, StepInv, TypeInv, TypeOK
    <2>2. \A i \in ItemsOf(flat, Job) : <<Job, i>> \in counted
      BY <2>1 DEF WatchInv
    <2>3. ASSUME NEW k, HolderInv(k), k.at \in {"init", "file", "image", "next", "countJob", "error", "clearJob"} PROVE FALSE
      <3>1. CASE k.at = "init"
        BY <2>1, <2>2, <2>3, <3>1, ItemsAre DEF HolderInv
      <3>2. CASE k.at # "init"
        <4>1. PICK f, c, n : f = k.item /\ c = k.chan /\ n = k.frame
          OBVIOUS
        <4>2. Pos(k) = k.at /\ IsFile(k)
          BY <2>3, <3>2 DEF Pos, IsFile, AtFile, Handlers, Failing
        <4>3. FileAt(f, c, n, k.at)
          BY <2>3, <4>1, <4>2 DEF HolderInv
        <4>4. f \in Files /\ Frames[f] \in Nat /\ 1 \in 1..Frames[f] /\ n \in 0..Frames[f]
          BY <4>3, Layout DEF FileAt
        <4>5. \A m \in 1..Frames[f] : <<Job, Image(f, m)>> \in counted
          BY <2>1, <2>2, <4>4, ItemsAre
        <4>6. \A m \in 1..Frames[f] : ~(m > n)
          BY <4>3, <4>5 DEF FileAt
        <4>7. n = Frames[f] /\ n # 0
          BY <4>4, <4>6
        <4>8. k.at \in {"image", "countJob"}
          BY <2>3, <3>2, <4>3, <4>4, <4>7 DEF FileAt, Failing
        <4>9. <<Job, Image(f, n)>> \notin counted
          <5>1. \A m \in 1..Frames[f] : m = n => <<Job, Image(f, m)>> \notin counted
            BY <4>3, <4>8 DEF FileAt
          <5> QED BY <4>4, <4>7, <5>1
        <4> QED BY <4>4, <4>5, <4>7, <4>9
      <3> QED BY <3>1, <3>2
    <2>4. \A k \in posted : HolderInv(k) /\ k.at \in {"init", "cut", "file"}
      BY PostedTasks DEF IndInv, TaskInv
    <2>5. \A t \in Threads : HolderInv(th[t])
      BY DEF IndInv, TaskInv
    <2> QED BY <2>3, <2>4, <2>5
  <1> QED BY <1>1, InductiveInvariant, PTL

-----------------------------------------------------------------------------
(* The ledger of the watches                                               *)

\* The refinement mapping of Ledger.
Done == {<<flat, x[1], x[2]>> : x \in counted}
Closed == {<<flat, w>> : w \in fired}

\* What is counted can be booked.
LEMMA InBookings == \A ff \in BOOLEAN : \A w \in Watches : \A i \in ItemsOf(ff, w) : <<ff, w, i>> \in Bookings
  <1> SUFFICES ASSUME NEW ff \in BOOLEAN, NEW w \in Watches, NEW i \in ItemsOf(ff, w) PROVE <<ff, w, i>> \in Bookings
    OBVIOUS
  <1>1. PICK S : S = {<<ff, w, j>> : j \in ItemsOf(ff, w)}
    OBVIOUS
  <1>2. <<ff, w, i>> \in S
    BY <1>1
  <1>3. S \in {{<<gg, v, j>> : j \in ItemsOf(gg, v)} : gg \in BOOLEAN, v \in Watches}
    BY <1>1
  <1> QED BY <1>2, <1>3 DEF Bookings

\* A count books its item, and closes its watch if it is the last one.
LEMMA CountLedger ==
  ASSUME IndInv, NEW t \in Threads, Counts(t)
  PROVE  [Ledger!Next]_<<Done, Closed>>
  <1>1. PICK w, i, next : MayCount(t, w, i) /\ Count(t, w, i, next) /\ done \subseteq done'
    BY DEF Counts
  <1>2. Books(w, i)
    BY <1>1, CountBooks
  <1>3. w \in Watches /\ i \in ItemsOf(flat, w) /\ Open(w, i) /\ <<w, i>> \notin counted /\ flat \in BOOLEAN
    BY <1>1 DEF MayCount, IndInv, TypeInv, TypeOK
  <1>4. \A f \in Files : Dead(f) => i # Image(f, 1) /\ i # File(f)
    BY <1>1, CountsLive
  <1>5. Reaches(watch[w], 1) <=> \A j \in ItemsOf(flat, w) : <<w, j>> \in counted \/ j = i
    BY <1>3, <1>4, LastCount
  <1>6. \A v, j : <<flat, v, j>> \in Done <=> <<v, j>> \in counted
    <2>1. \A x \in counted : x = <<x[1], x[2]>>
      BY DEF IndInv, CountedInv
    <2> QED BY <2>1 DEF Done
  <1>7. flat' = flat /\ counted' = counted \cup {<<w, i>>}
    BY <1>2 DEF Books
  <1>8. Done' = Done \cup {<<flat, w, i>>}
    <2>0. PICK y : y = <<w, i>>
      OBVIOUS
    <2>1. y[1] = w /\ y[2] = i
      BY <2>0
    <2>2. counted' = counted \cup {y}
      BY <1>7, <2>0
    <2>3. Done' = {<<flat, x[1], x[2]>> : x \in counted \cup {y}}
      BY <1>7, <2>2 DEF Done
    <2>4. {<<flat, x[1], x[2]>> : x \in counted \cup {y}} = Done \cup {<<flat, y[1], y[2]>>}
      BY DEF Done
    <2> QED BY <2>1, <2>3, <2>4
  <1>9. PICK b : b = <<flat, w, i>>
    OBVIOUS
  <1>10. b \in Bookings /\ b \notin Done
    BY <1>3, <1>6, <1>9, InBookings
  <1>11. {<<c[1], c[2]>> : c \in {b}} = {<<flat, w>>}
    BY <1>9
  <1>12. ({c \in Bookings : [d \in Bookings |-> <<d[1], d[2]>>][c] = <<flat, w>>} \subseteq Done') <=> Reaches(watch[w], 1)
    <2>1. \A j \in ItemsOf(flat, w) : <<flat, w, j>> \in Done' <=> <<w, j>> \in counted \/ j = i
      BY <1>6, <1>8
    <2>2. \A j \in ItemsOf(flat, w) : <<flat, w, j>> \in Bookings
      BY <1>3, InBookings
    <2>3. ASSUME NEW c \in Bookings, <<c[1], c[2]>> = <<flat, w>> PROVE \E j \in ItemsOf(flat, w) : c = <<flat, w, j>>
      <3>1. PICK ff \in BOOLEAN, v \in Watches : c \in {<<ff, v, j>> : j \in ItemsOf(ff, v)}
        BY DEF Bookings
      <3>2. PICK j \in ItemsOf(ff, v) : c = <<ff, v, j>>
        BY <3>1
      <3>3. ff = flat /\ v = w
        BY <2>3, <3>2
      <3> QED BY <3>2, <3>3
    <2>4. {c \in Bookings : [d \in Bookings |-> <<d[1], d[2]>>][c] = <<flat, w>>} = {<<flat, w, j>> : j \in ItemsOf(flat, w)}
      BY <2>2, <2>3
    <2> QED BY <1>5, <2>1, <2>4
  <1>13. Closed' = Closed \cup {x \in {<<flat, w>>} : Reaches(watch[w], 1)}
    BY <1>2, <1>7 DEF Closed, Books
  <1>14. [d \in Bookings |-> <<d[1], d[2]>>][b] = <<flat, w>>
    BY <1>9, <1>10
  <1>15. Ledger!Book(b)
    BY <1>8, <1>9, <1>10, <1>12, <1>13, <1>14 DEF Ledger!Book, Done, Closed
  <1> QED BY <1>10, <1>15 DEF Ledger!Next

\* A step that counts nothing fires nothing.
LEMMA OthersBookNothing ==
  ASSUME UNCHANGED <<flat, counted, fired>>
  PROVE  [Ledger!Next]_<<Done, Closed>>
  BY DEF Done, Closed

\* Each watch books its items once and its handler is taken with the last of them: a
\* target that is raised while tasks count is never reached early, and a watch that a
\* failed file cleared is never reached.
THEOREM ImplementsLedger == Spec => WatchLedger
  <1>1. Init => Ledger!Init
    BY DEF Init, Ledger!Init
  <1>2. IndInv /\ [Next]_vars => [Ledger!Next]_<<Done, Closed>>
    <2> SUFFICES ASSUME IndInv, [Next]_vars PROVE [Ledger!Next]_<<Done, Closed>>
      OBVIOUS
    <2>1. CASE UNCHANGED vars
      BY <2>1, OthersBookNothing DEF vars, book
    <2>2. CASE Worker
      <3>1. UNCHANGED <<flat, counted, fired>>
        BY <2>2 DEF Worker, Start, Refuse, EndOfLoad, LoadObject, LoadCalib, LoadThrows, PostTasks, book
      <3> QED BY <3>1, OthersBookNothing
    <2>3. ASSUME NEW t \in Threads, PoolThread(t) PROVE [Ledger!Next]_<<Done, Closed>>
      <3>1. CASE \/ (DoInitCache(t) \/ AdjustCutout(t)) /\ ~Throws(t)
                 \/ CountJob(t) \/ CountObject(t) \/ SaveFile(t) \/ CountFile(t)
        BY <3>1, StepInitCache, StepCutout, StepCountJob, StepCountObject, StepSaveFile, StepCountFile, CountLedger
      <3>2. CASE \/ Take(t) \/ Throws(t) \/ LoadFile(t) \/ PreprocessImage(t) \/ NextImage(t) \/ FailJob(t) \/ ClearJob(t) \/ ClearChannel(t)
                 \/ UnloadCalib(t) \/ QueueJob(t) \/ Normalize(t) \/ DropImages(t)
        <4>1. UNCHANGED <<flat, counted, fired>>
          BY <3>2 DEF Take, Throws, LoadFile, PreprocessImage, NextImage, FailJob, ClearJob, ClearChannel,
             UnloadCalib, QueueJob, Normalize, DropImages, book
        <4> QED BY <4>1, OthersBookNothing
      <3> QED BY <2>3, <3>1, <3>2 DEF PoolThread
    <2>4. CASE GetWork
      BY <2>4, OthersBookNothing DEF GetWork
    <2> QED BY <2>1, <2>2, <2>3, <2>4 DEF Next
  <1> QED BY InductiveInvariant, <1>1, <1>2, PTL DEF Spec, WatchLedger, Ledger!Spec, Done, Closed

====
