----------------------------- MODULE SolverProofs -----------------------------
(***************************************************************************)
(* For any objects, images, chunks and threads: a call of the solver       *)
(* returns after its last task, and what it returns is made of all images  *)
(* at the current coefficients.                                            *)
(***************************************************************************)
EXTENDS Solver, FiniteSetTheorems, TLAPS

Busy(k) == k.at \notin {"idle", "unlock"}

\* The tasks that are queued or at work.
Live == posted \cup {th[t] : t \in {s \in Threads : Busy(th[s])}}

\* A task is in one place only.
Distinct ==
  /\ \A k \in posted : Busy(k)
  /\ \A t \in Threads : Busy(th[t]) => th[t] \notin posted
  /\ \A s, t \in Threads : s # t /\ Busy(th[t]) => th[s] # th[t]

PoolInv == Distinct /\ IsFiniteSet(Live)

\* A watch that waits for n more counts, or for none.
Waits(w, n) ==
  IF n = 0 THEN w.completed ELSE ~w.completed /\ w.counter \in Nat /\ w.target = w.counter + n

\* An object's watch that waits for n more counts; what it holds afterwards is not used.
Expects(w, n, handler) == n # 0 => w.counter \in Nat /\ w.target = w.counter + n /\ w.handler = handler

-----------------------------------------------------------------------------
\* A task for one image; the handler of an object, as a task.
ImageTask(kind, i) == Task(kind, ObjectOf[i], {i})
ObjectTask(kind, o) == Task(kind, o, {})

InCall(name) == at # "free" /\ calls # <<>> /\ Head(calls) = name

\* Images with a task of the kind.
ImagesAt(kind) == {i \in Images : ImageTask(kind, i) \in Live}

OtfFresh == \A i \in Images : otf[i] = alpha
HelpersFresh == \A o \in Objects : helpers[o] = Complete(o)
FtFresh == stale = {} /\ \A o \in Objects : ftSum[o] = ImagesOf(o)
Value(o) == <<o, Complete(o), ImagesOf(o)>>

\* applyAlpha or gradient: the watch waits for one count of each task.
ImageCall(kind) ==
  /\ \A k \in Live : \E i \in Images : k = ImageTask(kind, i)
  /\ Waits(solverWatch, Cardinality(ImagesAt(kind)))

ApplyInv ==
  InCall("applyAlpha") => ImageCall("apply") /\ \A i \in Images \ ImagesAt("apply") : otf[i] = alpha

GradInv ==
  InCall("gradient") =>
    /\ ImageCall("grad")
    /\ stage = "line" => \A i \in Images \ ImagesAt("grad") : grad[i] = <<alpha, Complete(ObjectOf[i])>>

-----------------------------------------------------------------------------
(* metric and calcPQ                                                       *)

\* The images of the chunk that a task adds: those still to be counted and those it has added.
Region(k) == {i \in Images : i \in k.imgs \/ <<i, alpha>> \in k.added}

Adding(o) == {k \in Live : k.at = "addPQ" /\ k.obj = o}

Unposted(i) == \E c \in chunks : i \in c

\* Images that are not yet counted, and images that are not yet in P and Q.
Uncounted(o) == {i \in ImagesOf(o) : Unposted(i) \/ \E k \in Adding(o) : i \in k.imgs}
Unadded(o) == {i \in ImagesOf(o) : Unposted(i) \/ \E k \in Adding(o) : i \in Region(k)}

Pending(o) == Cardinality(Uncounted(o)) + Cardinality(Adding(o))

HandlersOf(name) == IF name = "metric" THEN {"calcMetric", "sum"} ELSE {"calcHelpers"}
FirstHandler(name) == IF name = "metric" THEN "calcMetric" ELSE "calcHelpers"

Handled(name, o) == \E h \in HandlersOf(name) : ObjectTask(h, o) \in Live

OpenObjects(name) == {o \in Objects : o \in left \/ Pending(o) # 0 \/ Handled(name, o)}

AddTask(k) ==
  /\ k \in Tasks /\ k.at = "addPQ" /\ k.obj \in Objects /\ Region(k) \in ChunksOf(k.obj)
  /\ k.added = {<<i, alpha>> : i \in Region(k) \ k.imgs}

PQTasks(name) ==
  /\ \A k \in Live : AddTask(k) \/ \E o \in Objects, h \in HandlersOf(name) : k = ObjectTask(h, o)
  /\ \A k, l \in Live : k.at = "addPQ" /\ l.at = "addPQ" /\ k # l => Region(k) # Region(l)
  /\ \A k \in Live : k.at = "addPQ" => Region(k) \notin chunks

PQObject(name, o) ==
  /\ o \in left => Adding(o) = {} /\ ~Handled(name, o) /\ \A c \in chunks : c \notin ChunksOf(o)
  /\ o \notin left =>
       /\ Expects(objectWatch[o], Pending(o), FirstHandler(name))
       /\ Pending(o) # 0 => ~Handled(name, o)
       /\ \A g, h \in HandlersOf(name) : ObjectTask(g, o) \in Live /\ ObjectTask(h, o) \in Live => g = h
       /\ PQ[o] = {<<i, alpha>> : i \in ImagesOf(o) \ Unadded(o)}

PQCall(name) ==
  /\ PQTasks(name)
  /\ \A o \in Objects : PQObject(name, o)
  /\ Waits(solverWatch, Cardinality(OpenObjects(name)))

MetricInv ==
  InCall("metric") => PQCall("metric") /\ sum = {Value(o) : o \in Objects \ OpenObjects("metric")}

HelpersInv ==
  InCall("calcPQ") => PQCall("calcPQ") /\ \A o \in Objects \ OpenObjects("calcPQ") : helpers[o] = Complete(o)

-----------------------------------------------------------------------------
(* shiftAndInit                                                            *)

ImagesOfAt(kind, o) == {i \in ImagesOf(o) : ImageTask(kind, i) \in Live}
Renewed(o) == ObjectTask("reInitialize", o) \in Live

\* The object's images are adjusted, or all of them are.
Adjusting(o) == ImagesOfAt("adjust", o) # {} \/ Renewed(o)

OpenImages ==
  {i \in Images : \/ ObjectOf[i] \in left \/ Adjusting(ObjectOf[i]) \/ i \in ImagesOfAt("initialize", ObjectOf[i])}

ShiftObject(o) ==
  /\ o \in left =>
       /\ ~Adjusting(o) /\ ImagesOfAt("initialize", o) = {}
       /\ reset \/ (stale \cap ImagesOf(o) = {} /\ ftSum[o] = ImagesOf(o))
  /\ o \notin left =>
       /\ Expects(objectWatch[o], Cardinality(ImagesOfAt("adjust", o)), "reInitialize")
       /\ Renewed(o) => ImagesOfAt("adjust", o) = {}
       /\ Adjusting(o) => /\ ImagesOfAt("initialize", o) = {}
                          /\ o \in shifted \/ stale \cap ImagesOf(o) = {}
                          /\ IF reset THEN o \in shifted ELSE ftSum[o] = ImagesOf(o)
       /\ ~Adjusting(o) => /\ stale \cap ImagesOf(o) \subseteq ImagesOfAt("initialize", o)
                           /\ ImagesOf(o) \ ftSum[o] \subseteq ImagesOfAt("initialize", o)

ShiftTask(k) ==
  \/ \E i \in Images, kind \in {"adjust", "initialize"} : k = ImageTask(kind, i)
  \/ \E o \in Objects : k = ObjectTask("reInitialize", o)

ShiftCall ==
  /\ \A k \in Live : ShiftTask(k)
  /\ \A o \in Objects : ShiftObject(o)
  /\ Waits(solverWatch, Cardinality(OpenImages))

ShiftInv == InCall("shiftAndInit") => ShiftCall

-----------------------------------------------------------------------------
WithMetric == {<<"applyAlpha", "metric">>, <<"metric">>, <<"applyAlpha", "metric", "gradient">>, <<"metric", "gradient">>}
LineScripts == {<<"applyAlpha", "calcPQ", "gradient">>, <<"calcPQ", "gradient">>, <<"gradient">>, <<>>}
Scripts == WithMetric \cup LineScripts \cup {<<"shiftAndInit">>}

PlaceInv ==
  /\ calls \in Scripts
  /\ at # "free" => calls # <<>>
  /\ at = "free" => Live = {}
  /\ at # "post" => left = {} /\ chunks = {}
  /\ at = "post" => Head(calls) \in {"metric", "calcPQ", "shiftAndInit"}
  /\ chunks # {} => Head(calls) # "shiftAndInit"
  /\ stage = "start" => calls = <<>>
  /\ stage = "line" => calls \in LineScripts

DataInv ==
  /\ stage # "start" /\ calls # <<"shiftAndInit">> => FtFresh
  /\ calls = <<"shiftAndInit">> /\ at = "free" => reset \/ FtFresh
  /\ calls = <<>> \/ Head(calls) # "applyAlpha" => OtfFresh
  /\ stage \in {"set", "iterate", "search", "shift", "restore", "done"} /\ calls \notin WithMetric
     => metric = {Value(o) : o \in Objects}
  /\ stage = "line" /\ calls = <<"gradient">> => HelpersFresh
  /\ stage = "line" /\ calls = <<>> => \A i \in Images : grad[i] = <<alpha, Complete(ObjectOf[i])>>
  /\ \A o \in Objects : ftSum[o] \subseteq ImagesOf(o)

IndInv ==
  /\ TypeOK /\ PoolInv /\ PlaceInv /\ DataInv
  /\ ApplyInv /\ GradInv /\ MetricInv /\ HelpersInv /\ ShiftInv

-----------------------------------------------------------------------------
(* Watches                                                                 *)

\* The methods of a watch keep its type.
LEMMA WatchTypes ==
  ASSUME NEW H, NEW w \in Watch(H), NEW n \in Int
  PROVE  /\ step(w, n) \in Watch(H) /\ clear(w) \in Watch(H) /\ set(w, n) \in Watch(H)
         /\ increaseTarget(w, n) \in Watch(H)
         /\ \A h \in H : setHandler(w, h) \in Watch(H)
  <1>1. w \in [counter : Int, target : Int, completed : BOOLEAN, handler : H \cup {NoHandler}]
    BY DEF Watch
  <1>2. w.counter + n \in Int /\ w.target + n \in Int /\ 0 \in Int
    BY <1>1
  <1>3. (n = 0) \in BOOLEAN /\ TRUE \in BOOLEAN /\ FALSE \in BOOLEAN
    OBVIOUS
  <1>4. step(w, n) \in Watch(H)
    <2>1. [w EXCEPT !.counter = 0, !.completed = TRUE, !.handler = NoHandler] \in Watch(H)
      BY <1>1, <1>2, <1>3 DEF Watch
    <2>2. [w EXCEPT !.counter = w.counter + n, !.completed = FALSE] \in Watch(H)
      BY <1>1, <1>2, <1>3 DEF Watch
    <2>3. [w EXCEPT !.counter = @ + n, !.completed = FALSE] = [w EXCEPT !.counter = w.counter + n, !.completed = FALSE]
      BY <1>1
    <2> QED BY <2>1, <2>2, <2>3, Zenon DEF step
  <1>5. clear(w) \in Watch(H)
    BY DEF clear, NewWatch, Watch
  <1>6. set(w, n) \in Watch(H)
    <2>1. PICK b \in BOOLEAN : b = (n = 0)
      BY <1>3
    <2>2. [w EXCEPT !.target = n, !.counter = 0, !.completed = b] \in Watch(H)
      BY <1>1, <1>2 DEF Watch
    <2> QED BY <2>1, <2>2, Zenon DEF set
  <1>7. increaseTarget(w, n) \in Watch(H)
    BY <1>1, <1>2 DEF increaseTarget, Watch
  <1>8. \A h \in H : setHandler(w, h) \in Watch(H)
    BY <1>1 DEF setHandler, Watch
  <1> QED BY <1>4, <1>5, <1>6, <1>7, <1>8

\* A watch that is set to n waits for n counts.
LEMMA SetWaits ==
  ASSUME NEW H, NEW w \in Watch(H), NEW n \in Nat
  PROVE  Waits(set(w, n), n)
  <1>1. w \in [counter : Int, target : Int, completed : BOOLEAN, handler : H \cup {NoHandler}]
    BY DEF Watch
  <1>2. PICK b \in BOOLEAN : b = (n = 0)
    OBVIOUS
  <1>3. PICK v : v = [w EXCEPT !.target = n, !.counter = 0, !.completed = b]
    OBVIOUS
  <1>4. v.target = n /\ v.counter = 0 /\ v.completed = b
    BY <1>1, <1>3
  <1>5. v = set(w, n)
    BY <1>2, <1>3, Zenon DEF set
  <1>6. CASE n = 0
    <2>1. v.completed
      BY <1>2, <1>4, <1>6
    <2> QED BY <1>5, <1>6, <2>1 DEF Waits
  <1>7. CASE n # 0
    <2>1. ~v.completed
      BY <1>2, <1>4, <1>7
    <2> QED BY <1>4, <1>5, <1>7, <2>1 DEF Waits
  <1> QED BY <1>6, <1>7

\* Of n counts that a watch waits for, m are made.
LEMMA StepWaits ==
  ASSUME NEW H, NEW w \in Watch(H), NEW n \in Nat, NEW m \in 1..n, Waits(w, n)
  PROVE  Waits(step(w, m), n - m)
  <1>1. w \in [counter : Int, target : Int, completed : BOOLEAN, handler : H \cup {NoHandler}]
    BY DEF Watch
  <1>2. n # 0 /\ w.counter \in Nat /\ w.target = w.counter + n
    BY DEF Waits
  <1>3. CASE m = n
    <2>1. Reaches(w, m)
      BY <1>2, <1>3 DEF Reaches
    <2>2. step(w, m) = [w EXCEPT !.counter = 0, !.completed = TRUE, !.handler = NoHandler]
      BY <2>1 DEF step
    <2>3. step(w, m).completed = TRUE
      BY <1>1, <2>2
    <2> QED BY <1>3, <2>3 DEF Waits
  <1>4. CASE m # n
    <2>1. ~Reaches(w, m)
      BY <1>2, <1>4 DEF Reaches
    <2>2. step(w, m) = [w EXCEPT !.counter = @ + m, !.completed = FALSE]
      BY <2>1 DEF step
    <2>3. step(w, m).completed = FALSE /\ step(w, m).counter = w.counter + m /\ step(w, m).target = w.target
      BY <1>1, <2>2
    <2> QED BY <1>2, <1>4, <2>3 DEF Waits
  <1> QED BY <1>3, <1>4

\* A watch that is set to n, with a handler, expects n counts.
LEMMA SetExpects ==
  ASSUME NEW H, NEW w \in Watch(H), NEW n \in Nat, NEW h \in H
  PROVE  Expects(setHandler(set(w, n), h), n, h)
  <1>0. n \in Int
    OBVIOUS
  <1>1. set(w, n) \in Watch(H)
    BY <1>0, WatchTypes
  <1>2. PICK v \in Watch(H) : v = set(w, n)
    BY <1>1
  <1>3. v \in [counter : Int, target : Int, completed : BOOLEAN, handler : H \cup {NoHandler}]
    BY DEF Watch
  <1>4. w \in [counter : Int, target : Int, completed : BOOLEAN, handler : H \cup {NoHandler}]
    BY DEF Watch
  <1>5. PICK b \in BOOLEAN : b = (n = 0)
    OBVIOUS
  <1>6. v = [w EXCEPT !.target = n, !.counter = 0, !.completed = b]
    BY <1>2, <1>5, Zenon DEF set
  <1>7. v.target = n /\ v.counter = 0
    BY <1>4, <1>6
  <1>8. Expects(setHandler(v, h), n, h)
    BY <1>3, <1>7 DEF Expects, setHandler
  <1> QED BY <1>2, <1>8

\* A count that is expected: the last one runs the handler.
LEMMA StepExpects ==
  ASSUME NEW H, NEW w \in Watch(H), NEW n \in Nat \ {0}, NEW h, Expects(w, n, h)
  PROVE  /\ Expects(step(w, 1), n - 1, h)
         /\ Completer(w, 1) = IF n = 1 THEN h ELSE NoHandler
  <1>1. w \in [counter : Int, target : Int, completed : BOOLEAN, handler : H \cup {NoHandler}]
    BY DEF Watch
  <1>2. w.counter \in Nat /\ w.target = w.counter + n /\ w.handler = h
    BY DEF Expects
  <1>3. Reaches(w, 1) <=> n = 1
    BY <1>2 DEF Reaches
  <1>4. Completer(w, 1) = IF n = 1 THEN h ELSE NoHandler
    BY <1>2, <1>3 DEF Completer
  <1>5. CASE n # 1
    <2>1. step(w, 1) = [w EXCEPT !.counter = @ + 1, !.completed = FALSE]
      BY <1>3, <1>5 DEF step
    <2>2. step(w, 1).counter = w.counter + 1 /\ step(w, 1).target = w.target /\ step(w, 1).handler = w.handler
      BY <1>1, <2>1
    <2> QED BY <1>2, <1>4, <2>2 DEF Expects
  <1> QED BY <1>4, <1>5 DEF Expects

\* The target is raised by one.
LEMMA RaiseExpects ==
  ASSUME NEW H, NEW w \in Watch(H), NEW n \in Nat \ {0}, NEW h, Expects(w, n, h)
  PROVE  Expects(increaseTarget(w, 1), n + 1, h)
  <1>1. w \in [counter : Int, target : Int, completed : BOOLEAN, handler : H \cup {NoHandler}]
    BY DEF Watch
  <1> QED BY <1>1 DEF Expects, increaseTarget

-----------------------------------------------------------------------------
(* The calls of an evaluation                                              *)

\* What is first and what follows in the calls of an evaluation.
LEMMA ScriptFacts ==
  /\ \A s \in Scripts : s # <<>> =>
       /\ Tail(s) \in Scripts
       /\ Head(s) \in {"shiftAndInit", "applyAlpha", "metric", "calcPQ", "gradient"}
       /\ Head(s) = "shiftAndInit" <=> s = <<"shiftAndInit">>
       /\ s \in LineScripts => Tail(s) \in LineScripts
       /\ Head(s) = "applyAlpha" => Tail(s) # <<>> /\ Head(Tail(s)) # "applyAlpha" /\ s # <<"shiftAndInit">>
       /\ Head(s) # "applyAlpha" /\ Tail(s) # <<>> => Head(Tail(s)) # "applyAlpha"
       /\ Head(s) = "metric" <=> s \in WithMetric /\ Tail(s) \notin WithMetric
       /\ Tail(s) # <<"shiftAndInit">>
       /\ Tail(s) = <<"gradient">> /\ s \in LineScripts => Head(s) = "calcPQ"
       /\ Tail(s) = <<>> /\ s \in LineScripts => Head(s) = "gradient"
       /\ Tail(s) = <<>> \/ Head(s) # "gradient"
  /\ <<>> \notin WithMetric /\ <<>> \in LineScripts /\ <<>> \in Scripts
  BY SMTT(60) DEF Scripts, WithMetric, LineScripts

-----------------------------------------------------------------------------
(* The tasks                                                               *)

\* What is queued, or at work on a thread.
LEMMA LiveIs ==
  /\ \A k : k \in Live <=> k \in posted \/ \E t \in Threads : Busy(th[t]) /\ k = th[t]
  /\ \A t \in Threads : Busy(th[t]) => th[t] \in Live
  BY DEF Live

\* Tasks are queued.
LEMMA TasksPosted ==
  ASSUME PoolInv, NEW P, IsFiniteSet(P), \A p \in P : Busy(p) /\ p \notin Live,
         posted' = posted \cup P, th' = th
  PROVE  PoolInv' /\ Live' = Live \cup P
  <1>1. Live' = Live \cup P
    BY DEF Live, Busy
  <1>2. Distinct'
    BY LiveIs DEF PoolInv, Distinct, Busy
  <1>3. IsFiniteSet(Live')
    BY <1>1, FS_Union DEF PoolInv
  <1> QED BY <1>1, <1>2, <1>3 DEF PoolInv

\* A thread ends its task and queues others.
LEMMA TaskOver ==
  ASSUME PoolInv, NEW t \in Threads, Busy(th[t]), NEW q, ~Busy(q),
         NEW P, IsFiniteSet(P), \A p \in P : Busy(p) /\ p \notin Live,
         posted' = posted \cup P, DOMAIN th = Threads, th' = [th EXCEPT ![t] = q]
  PROVE  PoolInv' /\ Live' = (Live \ {th[t]}) \cup P
  <1>1. /\ th'[t] = q
        /\ \A s \in Threads \ {t} : th'[s] = th[s] /\ th[s] # th[t]
    BY DEF PoolInv, Distinct
  <1>2. Live' = (Live \ {th[t]}) \cup P
    <2>1. \A k \in Live' : k \in (Live \ {th[t]}) \cup P
      <3> SUFFICES ASSUME NEW k \in Live'
                   PROVE  k \in (Live \ {th[t]}) \cup P
        OBVIOUS
      <3>1. k \in posted \cup P \/ \E s \in Threads : Busy(th'[s]) /\ k = th'[s]
        BY DEF Live, Busy
      <3>2. CASE k \in posted
        BY <3>2, LiveIs DEF PoolInv, Distinct
      <3>3. CASE \E s \in Threads : Busy(th'[s]) /\ k = th'[s]
        BY <1>1, <3>3, LiveIs
      <3> QED BY <3>1, <3>2, <3>3
    <2>2. \A k \in (Live \ {th[t]}) \cup P : k \in Live'
      <3> SUFFICES ASSUME NEW k \in (Live \ {th[t]}) \cup P
                   PROVE  k \in Live'
        OBVIOUS
      <3>1. CASE k \in posted \cup P
        BY <3>1 DEF Live
      <3>2. CASE k \notin posted \cup P
        <4>1. PICK s \in Threads : Busy(th[s]) /\ k = th[s]
          BY <3>2, LiveIs
        <4>2. s # t
          BY <3>2, <4>1
        <4>3. th'[s] = k /\ Busy(th'[s])
          BY <1>1, <4>1, <4>2
        <4> QED BY <4>3 DEF Live, Busy
      <3> QED BY <3>1, <3>2
    <2> QED BY <2>1, <2>2
  <1>3. Distinct'
    <2>1. \A k \in posted' : Busy(k)
      BY DEF PoolInv, Distinct
    <2>2. \A s \in Threads : Busy(th'[s]) => th'[s] \notin posted'
      BY <1>1, LiveIs DEF PoolInv, Distinct
    <2>3. \A r, s \in Threads : r # s /\ Busy(th'[s]) => th'[r] # th'[s]
      BY <1>1 DEF PoolInv, Distinct
    <2> QED BY <2>1, <2>2, <2>3 DEF Distinct, Busy
  <1>4. IsFiniteSet(Live')
    BY <1>2, FS_Union, FS_Subset DEF PoolInv
  <1> QED BY <1>2, <1>3, <1>4 DEF PoolInv

\* A thread goes on with another task than those there are.
LEMMA TaskMoves ==
  ASSUME PoolInv, NEW t \in Threads, Busy(th[t]), NEW q, Busy(q), q \notin Live,
         posted' = posted, DOMAIN th = Threads, th' = [th EXCEPT ![t] = q]
  PROVE  PoolInv' /\ Live' = (Live \ {th[t]}) \cup {q}
  <1>1. /\ th'[t] = q
        /\ \A s \in Threads \ {t} : th'[s] = th[s] /\ th[s] # th[t]
    BY DEF PoolInv, Distinct
  <1>2. Live' = (Live \ {th[t]}) \cup {q}
    <2>1. \A k \in Live' : k \in (Live \ {th[t]}) \cup {q}
      <3> SUFFICES ASSUME NEW k \in Live'
                   PROVE  k \in (Live \ {th[t]}) \cup {q}
        OBVIOUS
      <3>1. k \in posted \/ \E s \in Threads : Busy(th'[s]) /\ k = th'[s]
        BY DEF Live, Busy
      <3>2. CASE k \in posted
        BY <3>2, LiveIs DEF PoolInv, Distinct
      <3>3. CASE \E s \in Threads : Busy(th'[s]) /\ k = th'[s]
        BY <1>1, <3>3, LiveIs
      <3> QED BY <3>1, <3>2, <3>3
    <2>2. \A k \in (Live \ {th[t]}) \cup {q} : k \in Live'
      <3> SUFFICES ASSUME NEW k \in (Live \ {th[t]}) \cup {q}
                   PROVE  k \in Live'
        OBVIOUS
      <3>1. CASE k \in posted
        BY <3>1 DEF Live
      <3>2. CASE k \notin posted
        <4>1. PICK s \in Threads : Busy(th'[s]) /\ k = th'[s]
          BY <1>1, <3>2, LiveIs
        <4> QED BY <4>1 DEF Live, Busy
      <3> QED BY <3>1, <3>2
    <2> QED BY <2>1, <2>2
  <1>3. Distinct'
    <2>1. \A k \in posted' : Busy(k)
      BY DEF PoolInv, Distinct
    <2>2. \A s \in Threads : Busy(th'[s]) => th'[s] \notin posted'
      BY <1>1, LiveIs DEF PoolInv, Distinct
    <2>3. \A r, s \in Threads : r # s /\ Busy(th'[s]) => th'[r] # th'[s]
      BY <1>1, LiveIs DEF PoolInv, Distinct
    <2> QED BY <2>1, <2>2, <2>3 DEF Distinct, Busy
  <1>4. IsFiniteSet(Live')
    BY <1>2, FS_AddElement, FS_Subset DEF PoolInv
  <1> QED BY <1>2, <1>3, <1>4 DEF PoolInv

\* An idle thread takes a task.
LEMMA TaskTaken ==
  ASSUME PoolInv, NEW t \in Threads, ~Busy(th[t]), NEW k \in posted,
         posted' = posted \ {k}, DOMAIN th = Threads, th' = [th EXCEPT ![t] = k]
  PROVE  PoolInv' /\ Live' = Live
  <1>1. /\ th'[t] = k /\ Busy(k)
        /\ \A s \in Threads \ {t} : th'[s] = th[s]
    BY DEF PoolInv, Distinct
  <1>2. Live' = Live
    <2>1. \A l \in Live' : l \in Live
      <3> SUFFICES ASSUME NEW l \in Live'
                   PROVE  l \in Live
        OBVIOUS
      <3>1. l \in posted \/ \E s \in Threads : Busy(th'[s]) /\ l = th'[s]
        BY DEF Live, Busy
      <3> QED BY <1>1, <3>1, LiveIs
    <2>2. \A l \in Live : l \in Live'
      <3> SUFFICES ASSUME NEW l \in Live
                   PROVE  l \in Live'
        OBVIOUS
      <3>1. CASE l \in posted'
        BY <3>1 DEF Live
      <3>2. CASE l \notin posted'
        <4>1. PICK s \in Threads : Busy(th'[s]) /\ l = th'[s]
          BY <1>1, <3>2, LiveIs
        <4> QED BY <4>1 DEF Live, Busy
      <3> QED BY <3>1, <3>2
    <2> QED BY <2>1, <2>2
  <1>3. Distinct'
    <2>1. \A l \in posted' : Busy(l)
      BY DEF PoolInv, Distinct
    <2>2. \A s \in Threads : Busy(th'[s]) => th'[s] \notin posted'
      BY <1>1, LiveIs DEF PoolInv, Distinct
    <2>3. \A r, s \in Threads : r # s /\ Busy(th'[s]) => th'[r] # th'[s]
      BY <1>1, LiveIs DEF PoolInv, Distinct
    <2> QED BY <2>1, <2>2, <2>3 DEF Distinct, Busy
  <1> QED BY <1>2, <1>3 DEF PoolInv

\* A thread that is not at work goes from one rest to another.
LEMMA TaskRests ==
  ASSUME PoolInv, NEW t \in Threads, ~Busy(th[t]), NEW q, ~Busy(q),
         posted' = posted, DOMAIN th = Threads, th' = [th EXCEPT ![t] = q]
  PROVE  PoolInv' /\ Live' = Live
  <1>1. /\ th'[t] = q
        /\ \A s \in Threads \ {t} : th'[s] = th[s]
    OBVIOUS
  <1>2. Live' = Live
    <2>1. \A l \in Live' : l \in Live
      <3> SUFFICES ASSUME NEW l \in Live'
                   PROVE  l \in Live
        OBVIOUS
      <3>1. l \in posted \/ \E s \in Threads : Busy(th'[s]) /\ l = th'[s]
        BY DEF Live, Busy
      <3> QED BY <1>1, <3>1, LiveIs
    <2>2. \A l \in Live : l \in Live'
      <3> SUFFICES ASSUME NEW l \in Live, l \notin posted
                   PROVE  l \in Live'
        BY DEF Live
      <3>1. PICK s \in Threads : Busy(th'[s]) /\ l = th'[s]
        BY <1>1, LiveIs
      <3> QED BY <3>1 DEF Live, Busy
    <2> QED BY <2>1, <2>2
  <1>3. Distinct'
    <2>1. \A l \in posted' : Busy(l)
      BY DEF PoolInv, Distinct
    <2>2. \A s \in Threads : Busy(th'[s]) => th'[s] \notin posted'
      BY <1>1 DEF PoolInv, Distinct
    <2>3. \A r, s \in Threads : r # s /\ Busy(th'[s]) => th'[r] # th'[s]
      BY <1>1 DEF PoolInv, Distinct
    <2> QED BY <2>1, <2>2, <2>3 DEF Distinct, Busy
  <1> QED BY <1>2, <1>3 DEF PoolInv

\* Tasks are of their type.
LEMMA TaskTypes ==
  /\ Idle \in Tasks /\ ~Busy(Idle)
  /\ \A kind \in {"apply", "grad", "addPQ", "adjust", "initialize", "calcMetric", "sum", "calcHelpers", "reInitialize"} :
       \A o \in Objects : \A is \in SUBSET Images : Task(kind, o, is) \in Tasks /\ Busy(Task(kind, o, is))
  <1>1. Idle \in Tasks /\ ~Busy(Idle)
    BY DEF Idle, Task, Tasks, Busy
  <1>2. ASSUME NEW kind \in {"apply", "grad", "addPQ", "adjust", "initialize", "calcMetric", "sum", "calcHelpers", "reInitialize"},
               NEW o \in Objects, NEW is \in SUBSET Images
        PROVE  Task(kind, o, is) \in Tasks /\ Busy(Task(kind, o, is))
    BY DEF Task, Tasks, Busy
  <1> QED BY <1>1, <1>2

\* Tasks of one image, and the handlers of an object.
LEMMA SimpleTasks ==
  ASSUME NEW kind
  PROVE  /\ \A i \in Images : /\ ImageTask(kind, i).at = kind /\ ImageTask(kind, i).obj = ObjectOf[i]
                              /\ ImageTask(kind, i).imgs = {i} /\ ImageTask(kind, i).added = {}
         /\ \A o \in Objects : /\ ObjectTask(kind, o).at = kind /\ ObjectTask(kind, o).obj = o
                               /\ ObjectTask(kind, o).imgs = {} /\ ObjectTask(kind, o).added = {}
  BY DEF Task, ImageTask, ObjectTask

\* Different images have different tasks, different objects have different handlers.
LEMMA DifferentTasks ==
  /\ \A k1, k2 : \A i, j \in Images : ImageTask(k1, i) = ImageTask(k2, j) <=> k1 = k2 /\ i = j
  /\ \A k1, k2 : \A o, p \in Objects : ObjectTask(k1, o) = ObjectTask(k2, p) <=> k1 = k2 /\ o = p
  <1>1. ASSUME NEW k1, NEW k2, NEW i \in Images, NEW j \in Images, ImageTask(k1, i) = ImageTask(k2, j)
        PROVE  k1 = k2 /\ i = j
    BY <1>1, SimpleTasks
  <1>2. ASSUME NEW k1, NEW k2, NEW o \in Objects, NEW p \in Objects, ObjectTask(k1, o) = ObjectTask(k2, p)
        PROVE  k1 = k2 /\ o = p
    <2>1. ObjectTask(k1, o).at = k1 /\ ObjectTask(k1, o).obj = o
      BY SimpleTasks
    <2>2. ObjectTask(k2, p).at = k2 /\ ObjectTask(k2, p).obj = p
      BY SimpleTasks
    <2> QED BY <1>2, <2>1, <2>2
  <1> QED BY <1>1, <1>2

\* A thread that is done with its task goes on as the handler of the object.
LEMMA HandlerTask ==
  ASSUME NEW h, NEW o
  PROVE  [Idle EXCEPT !.at = h, !.obj = o] = ObjectTask(h, o)
  <1>1. Idle = [at |-> "idle", obj |-> None, imgs |-> {}, added |-> {}]
    BY DEF Idle, Task
  <1>2. PICK r : r = [Idle EXCEPT !.at = h]
    OBVIOUS
  <1>3. r = [at |-> h, obj |-> None, imgs |-> {}, added |-> {}]
    BY <1>1, <1>2
  <1>4. [Idle EXCEPT !.at = h, !.obj = o] = [r EXCEPT !.obj = o]
    BY <1>1, <1>2
  <1>5. [r EXCEPT !.obj = o] = [at |-> h, obj |-> o, imgs |-> {}, added |-> {}]
    BY <1>3
  <1> QED BY <1>4, <1>5 DEF ObjectTask, Task

\* A task tells which call is at work.
LEMMA CallOfTask ==
  ASSUME IndInv, NEW k \in Live
  PROVE  /\ at # "free" /\ calls # <<>> /\ stage # "start" /\ calls \in Scripts
         /\ k.at \in {"apply", "grad", "addPQ", "adjust", "initialize", "calcMetric", "sum", "calcHelpers", "reInitialize"}
         /\ k.at = "apply" => Head(calls) = "applyAlpha"
         /\ k.at = "grad" => Head(calls) = "gradient"
         /\ k.at = "addPQ" => Head(calls) \in {"metric", "calcPQ"}
         /\ k.at \in {"calcMetric", "sum"} => Head(calls) = "metric"
         /\ k.at = "calcHelpers" => Head(calls) = "calcPQ"
         /\ k.at \in {"adjust", "initialize", "reInitialize"} => Head(calls) = "shiftAndInit"
  <1>1. at # "free" /\ calls # <<>> /\ stage # "start" /\ calls \in Scripts
    BY DEF IndInv, PlaceInv
  <1>2. Head(calls) \in {"shiftAndInit", "applyAlpha", "metric", "calcPQ", "gradient"}
    BY <1>1, ScriptFacts
  <1>3. CASE Head(calls) = "applyAlpha"
    <2>1. ImageCall("apply")
      BY <1>1, <1>3 DEF IndInv, ApplyInv, InCall
    <2>2. PICK i \in Images : k = ImageTask("apply", i)
      BY <2>1 DEF ImageCall
    <2>3. k.at = "apply"
      BY <2>2, SimpleTasks
    <2> QED BY <1>1, <1>3, <2>3
  <1>4. CASE Head(calls) = "gradient"
    <2>1. ImageCall("grad")
      BY <1>1, <1>4 DEF IndInv, GradInv, InCall
    <2>2. PICK i \in Images : k = ImageTask("grad", i)
      BY <2>1 DEF ImageCall
    <2>3. k.at = "grad"
      BY <2>2, SimpleTasks
    <2> QED BY <1>1, <1>4, <2>3
  <1>5. CASE Head(calls) = "metric"
    <2>1. PQTasks("metric")
      BY <1>1, <1>5 DEF IndInv, MetricInv, InCall, PQCall
    <2>2. k.at \in {"addPQ", "calcMetric", "sum"}
      BY <2>1, SimpleTasks DEF PQTasks, AddTask, HandlersOf
    <2> QED BY <1>1, <1>5, <2>2
  <1>6. CASE Head(calls) = "calcPQ"
    <2>1. PQTasks("calcPQ")
      BY <1>1, <1>6 DEF IndInv, HelpersInv, InCall, PQCall
    <2>2. k.at \in {"addPQ", "calcHelpers"}
      BY <2>1, SimpleTasks DEF PQTasks, AddTask, HandlersOf
    <2> QED BY <1>1, <1>6, <2>2
  <1>7. CASE Head(calls) = "shiftAndInit"
    <2>1. \/ \E i \in Images, kind \in {"adjust", "initialize"} : k = ImageTask(kind, i)
          \/ \E o \in Objects : k = ObjectTask("reInitialize", o)
      BY <1>1, <1>7 DEF IndInv, ShiftInv, ShiftCall, ShiftTask, InCall
    <2>2. CASE \E o \in Objects : k = ObjectTask("reInitialize", o)
      BY <1>1, <1>7, <2>2, SimpleTasks
    <2>3. CASE \E i \in Images, kind \in {"adjust", "initialize"} : k = ImageTask(kind, i)
      <3>1. PICK i \in Images, kind \in {"adjust", "initialize"} : k = ImageTask(kind, i)
        BY <2>3
      <3>2. k.at = kind
        BY <3>1, SimpleTasks
      <3> QED BY <1>1, <1>7, <3>2
    <2> QED BY <2>1, <2>2, <2>3
  <1> QED BY <1>2, <1>3, <1>4, <1>5, <1>6, <1>7

\* What the tasks, the watches and the data are made of stays, when all is posted and at any other time.
LEMMA SameTasks ==
  ASSUME IndInv, TypeOK', PoolInv', Live' = Live, UNCHANGED <<stage, calls, reset, left, chunks, watches, data>>,
         \/ at' = at
         \/ at # "free" /\ at' \in {"reg", "wait"} /\ left = {} /\ chunks = {}
  PROVE  IndInv'
  <1> USE DEF control, watches, data
  <1>1. PlaceInv'
    BY DEF IndInv, PlaceInv
  <1>2. \A o : Complete(o)' = Complete(o) /\ Value(o)' = Value(o)
    BY DEF Complete, Value
  <1>3. DataInv'
    BY <1>2 DEF IndInv, DataInv, FtFresh, OtfFresh, HelpersFresh
  <1>4. \A name : InCall(name)' = InCall(name)
    BY DEF InCall
  <1>5. ApplyInv' /\ GradInv'
    BY <1>2, <1>4 DEF IndInv, ApplyInv, GradInv, ImageCall, ImagesAt
  <1>6. /\ \A o : /\ Adding(o)' = Adding(o) /\ Uncounted(o)' = Uncounted(o) /\ Unadded(o)' = Unadded(o)
                  /\ Pending(o)' = Pending(o)
        /\ \A name, o : Handled(name, o)' = Handled(name, o)
        /\ \A name : OpenObjects(name)' = OpenObjects(name)
        /\ \A k : Region(k)' = Region(k) /\ AddTask(k)' = AddTask(k)
    BY DEF Adding, Uncounted, Unadded, Pending, Handled, OpenObjects, Region, AddTask, Unposted
  <1>7. \A name : PQTasks(name)' = PQTasks(name)
    BY <1>6 DEF PQTasks
  <1>8. \A name, o : PQObject(name, o)' = PQObject(name, o)
    BY <1>6 DEF PQObject
  <1>9. MetricInv' /\ HelpersInv'
    BY <1>2, <1>4, <1>6, <1>7, <1>8 DEF IndInv, MetricInv, HelpersInv, PQCall
  <1>10. ShiftInv'
    <2>1. \A kind, o : ImagesOfAt(kind, o)' = ImagesOfAt(kind, o) /\ Adjusting(o)' = Adjusting(o) /\ Renewed(o)' = Renewed(o)
      BY DEF ImagesOfAt, Adjusting, Renewed
    <2>2. OpenImages' = OpenImages /\ \A o : ShiftObject(o)' = ShiftObject(o)
      BY <2>1 DEF OpenImages, ShiftObject
    <2> QED BY <1>4, <2>2 DEF IndInv, ShiftInv, ShiftCall
  <1> QED BY <1>1, <1>3, <1>5, <1>9, <1>10 DEF IndInv

-----------------------------------------------------------------------------
(* Steps of the threads                                                    *)

\* A thread takes a task.
LEMMA StepTake ==
  ASSUME IndInv, NEW t \in Threads, Take(t)
  PROVE  IndInv'
  <1>1. PICK k \in posted : th' = [th EXCEPT ![t] = k] /\ posted' = posted \ {k}
    BY DEF Take
  <1>2. TypeOK'
    <2>1. k \in Tasks /\ th \in [Threads -> Tasks] /\ posted \subseteq Tasks
      BY DEF IndInv, TypeOK
    <2>2. th' \in [Threads -> Tasks] /\ posted' \subseteq Tasks
      BY <1>1, <2>1
    <2> QED BY <2>2 DEF IndInv, TypeOK, Take, control, watches, data
  <1>3. ~Busy(th[t]) /\ DOMAIN th = Threads /\ PoolInv
    BY DEF Take, Busy, IndInv, TypeOK
  <1>4. PoolInv' /\ Live' = Live
    BY <1>1, <1>3, TaskTaken
  <1> QED BY <1>2, <1>4, SameTasks DEF Take, control

\* The lock of metric is released.
LEMMA StepUnlock ==
  ASSUME IndInv, NEW t \in Threads, Unlock(t)
  PROVE  IndInv'
  <1>2. TypeOK'
    <2>1. th' \in [Threads -> Tasks]
      BY TaskTypes DEF Unlock, IndInv, TypeOK
    <2> QED BY <2>1 DEF IndInv, TypeOK, Unlock, control, watches, data
  <1>3. ~Busy(th[t]) /\ DOMAIN th = Threads /\ PoolInv
    BY DEF Unlock, Busy, IndInv, TypeOK
  <1>4. posted' = posted /\ th' = [th EXCEPT ![t] = Idle] /\ ~Busy(Idle)
    BY TaskTypes DEF Unlock
  <1>5. PoolInv' /\ Live' = Live
    BY <1>3, <1>4, TaskRests
  <1> QED BY <1>2, <1>5, SameTasks DEF Unlock, control

\* One task of a call for each image is over.
LEMMA ImageDone ==
  ASSUME NEW kind, ImageCall(kind), NEW i \in Images, solverWatch \in Watch({}),
         ImageTask(kind, i) \in Live, Live' = Live \ {ImageTask(kind, i)},
         solverWatch' = step(solverWatch, 1)
  PROVE  ImageCall(kind)' /\ ImagesAt(kind)' = ImagesAt(kind) \ {i} /\ i \in ImagesAt(kind)
  <1>1. ImagesAt(kind)' = ImagesAt(kind) \ {i} /\ i \in ImagesAt(kind)
    <2>1. \A j \in Images : ImageTask(kind, j) \in Live' <=> ImageTask(kind, j) \in Live /\ j # i
      <3> SUFFICES ASSUME NEW j \in Images
                   PROVE  ImageTask(kind, j) = ImageTask(kind, i) <=> j = i
        OBVIOUS
      <3> QED BY DifferentTasks
    <2> QED BY <2>1 DEF ImagesAt
  <1>2. PICK n : n = Cardinality(ImagesAt(kind))
    OBVIOUS
  <1>3. IsFiniteSet(ImagesAt(kind))
    BY SolverAssumption, FS_Subset DEF ImagesAt
  <1>4. n \in Nat /\ n # 0 /\ Cardinality(ImagesAt(kind)') = n - 1
    BY <1>1, <1>2, <1>3, FS_CardinalityType, FS_EmptySet, FS_RemoveElement
  <1>5. 1 \in 1..n
    BY <1>4
  <1>6. PICK H : H = {}
    OBVIOUS
  <1>7. Waits(solverWatch, n) /\ solverWatch \in Watch(H)
    BY <1>2, <1>6 DEF ImageCall
  <1>8. Waits(step(solverWatch, 1), n - 1)
    BY <1>4, <1>5, <1>7, StepWaits
  <1>9. Waits(solverWatch', Cardinality(ImagesAt(kind)'))
    BY <1>4, <1>8
  <1> QED BY <1>1, <1>9 DEF ImageCall, Waits

\* The solver's watch has no handler.
LEMMA SolverCounts ==
  ASSUME solverWatch \in Watch({}), NEW n \in Int
  PROVE  step(solverWatch, n) \in Watch({}) /\ set(solverWatch, n) \in Watch({})
  <1>1. PICK H : H = {}
    OBVIOUS
  <1>2. solverWatch \in Watch(H)
    BY <1>1
  <1>3. step(solverWatch, n) \in Watch(H) /\ set(solverWatch, n) \in Watch(H)
    BY <1>2, WatchTypes
  <1> QED BY <1>1, <1>3

\* A thread ends a task that posts nothing.
LEMMA ThreadDone ==
  ASSUME IndInv, NEW t \in Threads, Busy(th[t]), posted' = posted, th' = [th EXCEPT ![t] = Idle]
  PROVE  PoolInv' /\ Live' = Live \ {th[t]} /\ th' \in [Threads -> Tasks] /\ posted' \subseteq Tasks
  <1>1. PoolInv /\ th \in [Threads -> Tasks] /\ posted \subseteq Tasks
    BY DEF IndInv, TypeOK
  <1>2. PICK P : P = {}
    OBVIOUS
  <1>3. IsFiniteSet(P) /\ (\A p \in P : Busy(p) /\ p \notin Live) /\ posted' = posted \cup P
    BY <1>2, FS_EmptySet
  <1>4. PoolInv' /\ Live' = (Live \ {th[t]}) \cup P
    BY <1>1, <1>3, TaskTypes, TaskOver
  <1> QED BY <1>1, <1>2, <1>4, TaskTypes

\* The OTF of an image.
LEMMA StepApplyAlpha ==
  ASSUME IndInv, NEW t \in Threads, ApplyAlpha(t)
  PROVE  IndInv'
  <1> USE DEF control, watches
  <1>0. TypeOK /\ PlaceInv /\ DataInv /\ ApplyInv
    BY DEF IndInv
  <1>1. Busy(th[t]) /\ th[t].at = "apply" /\ posted' = posted /\ th' = [th EXCEPT ![t] = Idle]
    BY DEF ApplyAlpha, Busy
  <1>2. PoolInv' /\ Live' = Live \ {th[t]} /\ th' \in [Threads -> Tasks] /\ posted' \subseteq Tasks
    BY <1>1, ThreadDone
  <1>3. th[t] \in Live
    BY <1>1, LiveIs
  <1>4. at # "free" /\ calls # <<>> /\ Head(calls) = "applyAlpha" /\ calls \in Scripts
    BY <1>1, <1>3, CallOfTask
  <1>5. ImageCall("apply") /\ \A i \in Images \ ImagesAt("apply") : otf[i] = alpha
    BY <1>0, <1>4 DEF ApplyInv, InCall
  <1>6. PICK i \in Images : th[t] = ImageTask("apply", i)
    BY <1>3, <1>5 DEF ImageCall
  <1>7. th[t].imgs = {i}
    BY <1>6, SimpleTasks
  <1>8. solverWatch \in Watch({}) /\ solverWatch' = step(solverWatch, 1) /\ solverWatch' \in Watch({})
    BY <1>0, SolverCounts DEF ApplyAlpha, CountSolver, TypeOK
  <1>9. ImageCall("apply")' /\ ImagesAt("apply")' = ImagesAt("apply") \ {i} /\ i \in ImagesAt("apply")
    BY <1>2, <1>3, <1>5, <1>6, <1>8, ImageDone
  <1>10. otf' = [j \in Images |-> IF j = i THEN alpha ELSE otf[j]] /\ alpha' = alpha
    BY <1>7 DEF ApplyAlpha
  <1>11. TypeOK'
    <2>1. otf' \in [Images -> Nat]
      BY <1>0, <1>10 DEF TypeOK
    <2> QED BY <1>0, <1>2, <1>8, <2>1 DEF TypeOK, ApplyAlpha
  <1>12. PlaceInv'
    BY <1>0, <1>4 DEF PlaceInv, ApplyAlpha
  <1>13. ApplyInv'
    BY <1>5, <1>9, <1>10 DEF ApplyInv
  <1>14. GradInv' /\ MetricInv' /\ HelpersInv' /\ ShiftInv'
    BY <1>4 DEF GradInv, MetricInv, HelpersInv, ShiftInv, InCall, ApplyAlpha
  <1>15. DataInv'
    <2>1. \A o : Complete(o)' = Complete(o) /\ Value(o)' = Value(o)
      BY <1>10 DEF Complete, Value
    <2> QED BY <1>0, <1>4, <2>1 DEF DataInv, FtFresh, HelpersFresh, ApplyAlpha
  <1> QED BY <1>2, <1>11, <1>12, <1>13, <1>14, <1>15 DEF IndInv

\* The gradient of an image.
LEMMA StepGradient ==
  ASSUME IndInv, NEW t \in Threads, Gradient(t)
  PROVE  IndInv'
  <1> USE DEF control, watches
  <1>0. TypeOK /\ PlaceInv /\ DataInv /\ GradInv
    BY DEF IndInv
  <1>1. Busy(th[t]) /\ th[t].at = "grad" /\ posted' = posted /\ th' = [th EXCEPT ![t] = Idle]
    BY DEF Gradient, Busy
  <1>2. PoolInv' /\ Live' = Live \ {th[t]} /\ th' \in [Threads -> Tasks] /\ posted' \subseteq Tasks
    BY <1>1, ThreadDone
  <1>3. th[t] \in Live
    BY <1>1, LiveIs
  <1>4. at # "free" /\ calls # <<>> /\ Head(calls) = "gradient" /\ calls \in Scripts
    BY <1>1, <1>3, CallOfTask
  <1>5. /\ ImageCall("grad")
        /\ stage = "line" => \A i \in Images \ ImagesAt("grad") : grad[i] = <<alpha, Complete(ObjectOf[i])>>
    BY <1>0, <1>4 DEF GradInv, InCall
  <1>6. PICK i \in Images : th[t] = ImageTask("grad", i)
    BY <1>3, <1>5 DEF ImageCall
  <1>7. th[t].imgs = {i} /\ th[t].obj = ObjectOf[i] /\ ObjectOf[i] \in Objects
    <2>1. ObjectOf[i] \in Objects
      BY SolverAssumption
    <2> QED BY <1>6, <2>1, SimpleTasks
  <1>8. solverWatch \in Watch({}) /\ solverWatch' = step(solverWatch, 1) /\ solverWatch' \in Watch({})
    BY <1>0, SolverCounts DEF Gradient, CountSolver, TypeOK
  <1>9. ImageCall("grad")' /\ ImagesAt("grad")' = ImagesAt("grad") \ {i} /\ i \in ImagesAt("grad")
    BY <1>2, <1>3, <1>5, <1>6, <1>8, ImageDone
  <1>10. grad' = [j \in Images |-> IF j = i THEN <<otf[j], helpers[ObjectOf[i]]>> ELSE grad[j]] /\ alpha' = alpha
    BY <1>7 DEF Gradient
  <1>11. TypeOK'
    <2>1. otf[i] \in Nat /\ helpers[ObjectOf[i]] \in SUBSET (Images \X Nat)
      BY <1>0, <1>7 DEF TypeOK
    <2>2. grad' \in [Images -> Nat \X SUBSET (Images \X Nat)]
      BY <1>0, <1>10, <2>1 DEF TypeOK
    <2> QED BY <1>0, <1>2, <1>8, <2>2 DEF TypeOK, Gradient
  <1>12. PlaceInv'
    BY <1>0, <1>4 DEF PlaceInv, Gradient
  <1>13. \A o : Complete(o)' = Complete(o) /\ Value(o)' = Value(o)
    BY <1>10 DEF Complete, Value
  <1>14. GradInv'
    <2>1. CASE stage = "line"
      <3>1. calls = <<"gradient">>
        BY <1>0, <1>4, <2>1 DEF PlaceInv, LineScripts
      <3>2. HelpersFresh /\ OtfFresh
        BY <1>0, <1>4, <2>1, <3>1 DEF DataInv
      <3>3. grad'[i] = <<alpha, Complete(ObjectOf[i])>>
        BY <1>7, <1>10, <3>2 DEF HelpersFresh, OtfFresh
      <3>4. \A j \in Images \ ImagesAt("grad")' : grad'[j] = <<alpha, Complete(ObjectOf[j])>>
        BY <1>5, <1>9, <1>10, <2>1, <3>3
      <3> QED BY <1>9, <1>10, <1>13, <3>4 DEF GradInv
    <2>2. CASE stage # "line"
      BY <1>9, <2>2 DEF GradInv, Gradient
    <2> QED BY <2>1, <2>2
  <1>15. ApplyInv' /\ MetricInv' /\ HelpersInv' /\ ShiftInv'
    BY <1>4 DEF ApplyInv, MetricInv, HelpersInv, ShiftInv, InCall, Gradient
  <1>16. DataInv'
    <2>1. calls # <<>>
      BY <1>4
    <2> QED BY <1>0, <1>4, <1>13, <2>1 DEF DataInv, FtFresh, HelpersFresh, OtfFresh, Gradient
  <1> QED BY <1>2, <1>11, <1>12, <1>14, <1>15, <1>16 DEF IndInv

-----------------------------------------------------------------------------
(* metric and calcPQ: the chunks and the handlers of the objects           *)

\* Each image is in one chunk, a chunk is of one object.
LEMMA ChunkFacts ==
  /\ \A o \in Objects : IsFiniteSet(ImagesOf(o)) /\ ImagesOf(o) # {} /\ ImagesOf(o) \subseteq Images
  /\ \A o : \A c \in ChunksOf(o) : c \in Chunks /\ c \subseteq ImagesOf(o) /\ c # {}
  /\ \A c, d \in Chunks : \A i : i \in c /\ i \in d => c = d
  /\ \A o, p \in Objects : \A c : c \in ChunksOf(o) /\ c \in ChunksOf(p) => o = p
  /\ \A o, p \in Objects : \A i : i \in ImagesOf(o) /\ i \in ImagesOf(p) => o = p
  /\ \A i \in Images : ObjectOf[i] \in Objects /\ i \in ImagesOf(ObjectOf[i])
  /\ \A c \in Chunks : \E o \in Objects : c \in ChunksOf(o)
  <1>1. \A o \in Objects : IsFiniteSet(ImagesOf(o)) /\ ImagesOf(o) # {} /\ ImagesOf(o) \subseteq Images
    <2> SUFFICES ASSUME NEW o \in Objects
                 PROVE  IsFiniteSet(ImagesOf(o)) /\ ImagesOf(o) # {} /\ ImagesOf(o) \subseteq Images
      OBVIOUS
    <2>1. ImagesOf(o) \subseteq Images /\ ImagesOf(o) # {}
      BY SolverAssumption DEF ImagesOf
    <2> QED BY <2>1, SolverAssumption, FS_Subset
  <1>2. \A o : \A c \in ChunksOf(o) : c \in Chunks /\ c \subseteq ImagesOf(o) /\ c # {}
    BY SolverAssumption DEF ChunksOf
  <1>3. \A c, d \in Chunks : \A i : i \in c /\ i \in d => c = d
    BY SolverAssumption
  <1>4. \A o, p \in Objects : \A i : i \in ImagesOf(o) /\ i \in ImagesOf(p) => o = p
    BY DEF ImagesOf
  <1>5. \A o, p \in Objects : \A c : c \in ChunksOf(o) /\ c \in ChunksOf(p) => o = p
    BY <1>2, <1>4
  <1>6. \A i \in Images : ObjectOf[i] \in Objects /\ i \in ImagesOf(ObjectOf[i])
    BY SolverAssumption DEF ImagesOf
  <1>7. \A c \in Chunks : \E o \in Objects : c \in ChunksOf(o)
    <2> SUFFICES ASSUME NEW c \in Chunks
                 PROVE  \E o \in Objects : c \in ChunksOf(o)
      OBVIOUS
    <2>1. c \subseteq Images /\ c # {}
      BY SolverAssumption
    <2>2. PICK i \in c : i \in Images
      BY <2>1
    <2>3. \A j \in c : ObjectOf[j] = ObjectOf[i]
      BY SolverAssumption
    <2>4. c \in ChunksOf(ObjectOf[i])
      BY <2>1, <2>3 DEF ChunksOf, ImagesOf
    <2> QED BY <1>6, <2>2, <2>4
  <1> QED BY <1>1, <1>2, <1>3, <1>4, <1>5, <1>6, <1>7

\* What is counted is finite.
LEMMA PQSizes ==
  ASSUME PoolInv, NEW o \in Objects
  PROVE  /\ IsFiniteSet(Uncounted(o)) /\ Cardinality(Uncounted(o)) \in Nat
         /\ IsFiniteSet(Adding(o)) /\ Cardinality(Adding(o)) \in Nat
         /\ Pending(o) \in Nat
         /\ Pending(o) = 0 <=> Uncounted(o) = {} /\ Adding(o) = {}
  <1>1. IsFiniteSet(Uncounted(o))
    BY ChunkFacts, FS_Subset DEF Uncounted
  <1>2. IsFiniteSet(Adding(o))
    BY FS_Subset DEF Adding, PoolInv
  <1>3. Cardinality(Uncounted(o)) \in Nat /\ Cardinality(Adding(o)) \in Nat
    BY <1>1, <1>2, FS_CardinalityType
  <1>4. /\ Cardinality(Uncounted(o)) = 0 <=> Uncounted(o) = {}
        /\ Cardinality(Adding(o)) = 0 <=> Adding(o) = {}
    BY <1>1, <1>2, FS_EmptySet
  <1> QED BY <1>1, <1>2, <1>3, <1>4 DEF Pending

\* The tasks of an object at work on chunks are the same.
LEMMA SameAdding ==
  ASSUME \A k : k.at = "addPQ" => (k \in Live' <=> k \in Live), alpha' = alpha, chunks' = chunks
  PROVE  /\ \A o : /\ Adding(o)' = Adding(o) /\ Uncounted(o)' = Uncounted(o) /\ Unadded(o)' = Unadded(o)
                   /\ Pending(o)' = Pending(o)
         /\ \A k : Region(k)' = Region(k) /\ AddTask(k)' = AddTask(k)
  <1>1. \A o : Adding(o)' = Adding(o)
    BY DEF Adding
  <1>2. \A k : Region(k)' = Region(k) /\ AddTask(k)' = AddTask(k)
    BY DEF Region, AddTask
  <1>3. \A o : Uncounted(o)' = Uncounted(o) /\ Unadded(o)' = Unadded(o)
    BY <1>1, <1>2 DEF Uncounted, Unadded, Unposted
  <1> QED BY <1>1, <1>2, <1>3 DEF Pending

\* The names of the handlers.
LEMMA HandlerNames ==
  \A name \in {"metric", "calcPQ"} :
    /\ FirstHandler(name) \in HandlersOf(name) /\ FirstHandler(name) \in {"calcMetric", "calcHelpers"}
    /\ HandlersOf(name) \subseteq {"calcMetric", "sum", "calcHelpers"}
    /\ "addPQ" \notin HandlersOf(name)
  BY DEF FirstHandler, HandlersOf

\* A task of metric or calcPQ is a chunk being added, or the handler of an object.
LEMMA PQTaskForms ==
  ASSUME NEW name \in {"metric", "calcPQ"}, PQTasks(name), NEW k \in Live
  PROVE  \/ k.at = "addPQ" /\ AddTask(k)
         \/ k.at # "addPQ" /\ \E o \in Objects, h \in HandlersOf(name) : k = ObjectTask(h, o)
  <1>1. CASE AddTask(k)
    BY <1>1 DEF AddTask
  <1>2. CASE \E o \in Objects, h \in HandlersOf(name) : k = ObjectTask(h, o)
    <2>1. PICK o \in Objects, h \in HandlersOf(name) : k = ObjectTask(h, o)
      BY <1>2
    <2>2. k.at = h
      BY <2>1, SimpleTasks
    <2> QED BY <1>2, <2>2, HandlerNames
  <1> QED BY <1>1, <1>2 DEF PQTasks

\* An object whose handler is at work has all its images in P and Q.
LEMMA HandledComplete ==
  ASSUME PoolInv, NEW name \in {"metric", "calcPQ"}, PQCall(name), NEW o \in Objects, Handled(name, o)
  PROVE  o \notin left /\ Pending(o) = 0 /\ PQ[o] = Complete(o)
  <1>1. PQObject(name, o)
    BY DEF PQCall
  <1>2. o \notin left /\ Pending(o) = 0 /\ PQ[o] = {<<i, alpha>> : i \in ImagesOf(o) \ Unadded(o)}
    BY <1>1 DEF PQObject
  <1>3. Uncounted(o) = {} /\ Adding(o) = {}
    BY <1>2, PQSizes
  <1>4. Unadded(o) = {}
    BY <1>3 DEF Uncounted, Unadded
  <1> QED BY <1>2, <1>4 DEF Complete

\* The handler of an object ends, and the solver's watch counts it.
LEMMA HandlerOver ==
  ASSUME PoolInv, NEW name \in {"metric", "calcPQ"}, PQCall(name), NEW o \in Objects, NEW h \in HandlersOf(name),
         ObjectTask(h, o) \in Live, Live' = Live \ {ObjectTask(h, o)},
         solverWatch \in Watch({}), solverWatch' = step(solverWatch, 1),
         UNCHANGED <<left, chunks, alpha, PQ, objectWatch>>
  PROVE  /\ PQCall(name)' /\ o \in OpenObjects(name) /\ OpenObjects(name)' = OpenObjects(name) \ {o}
         /\ PQ[o] = Complete(o)
  <1>0. Handled(name, o)
    BY DEF Handled
  <1>1. o \notin left /\ Pending(o) = 0 /\ PQ[o] = Complete(o)
    BY <1>0, HandledComplete
  <1>2. \A k : k.at = "addPQ" => (k \in Live' <=> k \in Live)
    BY SimpleTasks, HandlerNames
  <1>3. /\ \A p : /\ Adding(p)' = Adding(p) /\ Uncounted(p)' = Uncounted(p) /\ Unadded(p)' = Unadded(p)
                  /\ Pending(p)' = Pending(p)
        /\ \A k : Region(k)' = Region(k) /\ AddTask(k)' = AddTask(k)
    BY <1>2, SameAdding
  <1>4. PQTasks(name) /\ \A p \in Objects : PQObject(name, p)
    BY DEF PQCall
  <1>5. ~Handled(name, o)'
    <2>1. \A g \in HandlersOf(name) : ObjectTask(g, o) \in Live => g = h
      BY <1>1, <1>4 DEF PQObject
    <2> QED BY <2>1 DEF Handled
  <1>6. \A p \in Objects \ {o} : \A g : ObjectTask(g, p) \in Live' <=> ObjectTask(g, p) \in Live
    BY DifferentTasks
  <1>7. \A p \in Objects \ {o} : Handled(name, p)' = Handled(name, p)
    BY <1>6 DEF Handled
  <1>8. o \in OpenObjects(name) /\ OpenObjects(name)' = OpenObjects(name) \ {o}
    BY <1>0, <1>1, <1>3, <1>5, <1>7 DEF OpenObjects
  <1>9. PQTasks(name)'
    BY <1>3, <1>4 DEF PQTasks
  <1>10. ASSUME NEW p \in Objects
         PROVE  PQObject(name, p)'
    <2>1. CASE p = o
      <3>1. ~(o \in left') /\ ~Handled(name, o)'
        BY <1>1, <1>5
      <3>2. \A g, g2 \in HandlersOf(name) : ObjectTask(g, o) \in Live' /\ ObjectTask(g2, o) \in Live' => g = g2
        BY <1>1, <1>4 DEF PQObject
      <3> QED BY <1>1, <1>3, <1>4, <2>1, <3>1, <3>2 DEF PQObject
    <2>2. CASE p # o
      BY <1>3, <1>4, <1>6, <1>7, <2>2 DEF PQObject
    <2> QED BY <2>1, <2>2
  <1>11. Waits(solverWatch, Cardinality(OpenObjects(name)))'
    <2>1. IsFiniteSet(OpenObjects(name))
      BY SolverAssumption, FS_Subset DEF OpenObjects
    <2>2. PICK n : n = Cardinality(OpenObjects(name))
      OBVIOUS
    <2>3. n \in Nat /\ n # 0 /\ Cardinality(OpenObjects(name)') = n - 1
      BY <1>8, <2>1, <2>2, FS_CardinalityType, FS_EmptySet, FS_RemoveElement
    <2>4. 1 \in 1..n
      BY <2>3
    <2>5. PICK H : H = {}
      OBVIOUS
    <2>6. Waits(solverWatch, n) /\ solverWatch \in Watch(H)
      BY <2>2, <2>5 DEF PQCall
    <2>7. Waits(step(solverWatch, 1), n - 1)
      BY <2>3, <2>4, <2>6, StepWaits
    <2>8. Waits(solverWatch', Cardinality(OpenObjects(name)'))
      BY <2>3, <2>7
    <2> QED BY <2>8 DEF Waits
  <1> QED BY <1>1, <1>8, <1>9, <1>10, <1>11 DEF PQCall

\* The handler of an object in metric goes from the calculation to the sum.
LEMMA HandlerLocks ==
  ASSUME PoolInv, PQCall("metric"), NEW o \in Objects,
         ObjectTask("calcMetric", o) \in Live,
         Live' = (Live \ {ObjectTask("calcMetric", o)}) \cup {ObjectTask("sum", o)},
         UNCHANGED <<left, chunks, alpha, PQ, objectWatch, solverWatch>>
  PROVE  PQCall("metric")' /\ OpenObjects("metric")' = OpenObjects("metric")
  <1>0. Handled("metric", o) /\ HandlersOf("metric") = {"calcMetric", "sum"}
    BY DEF Handled, HandlersOf
  <1>1. o \notin left /\ Pending(o) = 0
    BY <1>0, HandledComplete
  <1>2. \A k : k.at = "addPQ" => (k \in Live' <=> k \in Live)
    <2>1. ObjectTask("calcMetric", o).at = "calcMetric" /\ ObjectTask("sum", o).at = "sum"
      BY SimpleTasks
    <2> QED BY <2>1
  <1>3. /\ \A p : /\ Adding(p)' = Adding(p) /\ Uncounted(p)' = Uncounted(p) /\ Unadded(p)' = Unadded(p)
                  /\ Pending(p)' = Pending(p)
        /\ \A k : Region(k)' = Region(k) /\ AddTask(k)' = AddTask(k)
    BY <1>2, SameAdding
  <1>4. PQTasks("metric") /\ \A p \in Objects : PQObject("metric", p)
    BY DEF PQCall
  <1>5. /\ ObjectTask("sum", o) \in Live' /\ ObjectTask("calcMetric", o) \notin Live'
        /\ Handled("metric", o)'
    <2>1. ObjectTask("sum", o) # ObjectTask("calcMetric", o)
      BY DifferentTasks
    <2> QED BY <1>0, <2>1 DEF Handled
  <1>6. \A p \in Objects \ {o} : \A g : ObjectTask(g, p) \in Live' <=> ObjectTask(g, p) \in Live
    BY DifferentTasks
  <1>7. \A p \in Objects \ {o} : Handled("metric", p)' <=> Handled("metric", p)
    BY <1>6 DEF Handled
  <1>8. OpenObjects("metric")' = OpenObjects("metric")
    <2>1. \A p \in Objects : Handled("metric", p)' <=> Handled("metric", p)
      BY <1>0, <1>5, <1>7
    <2> QED BY <1>3, <2>1 DEF OpenObjects
  <1>9. PQTasks("metric")'
    <2>1. \A k \in Live' : k \in Live \/ (k.at # "addPQ" /\ \E p \in Objects, h \in HandlersOf("metric") : k = ObjectTask(h, p))
      BY <1>0, SimpleTasks
    <2> QED BY <1>3, <1>4, <2>1 DEF PQTasks
  <1>10. ASSUME NEW p \in Objects
         PROVE  PQObject("metric", p)'
    <2>1. CASE p = o
      <3>1. \A g, g2 \in HandlersOf("metric") : ObjectTask(g, o) \in Live' /\ ObjectTask(g2, o) \in Live' => g = g2
        BY <1>0, <1>5
      <3> QED BY <1>1, <1>3, <1>4, <2>1, <3>1 DEF PQObject
    <2>2. CASE p # o
      BY <1>3, <1>4, <1>6, <1>7, <2>2 DEF PQObject
    <2> QED BY <2>1, <2>2
  <1>11. Waits(solverWatch, Cardinality(OpenObjects("metric")))'
    BY <1>8 DEF PQCall, Waits
  <1> QED BY <1>8, <1>9, <1>10, <1>11 DEF PQCall

\* An object's metric is calculated, and the lock taken.
LEMMA StepCalcMetric ==
  ASSUME IndInv, NEW t \in Threads, CalcMetric(t)
  PROVE  IndInv'
  <1> USE DEF control, watches, data
  <1>0. TypeOK /\ PlaceInv /\ DataInv /\ MetricInv /\ PoolInv
    BY DEF IndInv
  <1>1. Busy(th[t]) /\ th[t].at = "calcMetric" /\ posted' = posted /\ th \in [Threads -> Tasks]
    BY <1>0 DEF CalcMetric, Busy, TypeOK
  <1>3. th[t] \in Live
    BY <1>1, LiveIs
  <1>4. at # "free" /\ calls # <<>> /\ Head(calls) = "metric" /\ calls \in Scripts
    BY <1>1, <1>3, CallOfTask
  <1>5. PQCall("metric") /\ sum = {Value(o) : o \in Objects \ OpenObjects("metric")}
    BY <1>0, <1>4 DEF MetricInv, InCall
  <1>6. PICK o \in Objects : th[t] = ObjectTask("calcMetric", o)
    <2>1. PQTasks("metric")
      BY <1>5 DEF PQCall
    <2>2. PICK o \in Objects, h \in HandlersOf("metric") : th[t] = ObjectTask(h, o)
      BY <1>1, <1>3, <2>1, PQTaskForms
    <2>3. h = "calcMetric"
      BY <1>1, <2>2, SimpleTasks
    <2> QED BY <2>2, <2>3
  <1>7. [th[t] EXCEPT !.at = "sum"] = ObjectTask("sum", o)
    BY <1>6 DEF ObjectTask, Task
  <1>8. th' = [th EXCEPT ![t] = ObjectTask("sum", o)]
    <2>1. th' = [th EXCEPT ![t] = [th[t] EXCEPT !.at = "sum"]]
      BY <1>1 DEF CalcMetric
    <2> QED BY <1>7, <2>1
  <1>9. ObjectTask("sum", o) \in Tasks /\ Busy(ObjectTask("sum", o)) /\ ObjectTask("sum", o) \notin Live
    <2>1. ObjectTask("sum", o) \in Tasks /\ Busy(ObjectTask("sum", o))
      BY DEF ObjectTask, Task, Tasks, Busy
    <2>2. PQObject("metric", o) /\ Handled("metric", o)
      BY <1>3, <1>5, <1>6 DEF PQCall, Handled, HandlersOf
    <2>3. o \notin left
      BY <1>0, <1>5, <2>2, HandledComplete
    <2>4. ObjectTask("sum", o) \notin Live
      BY <1>3, <1>6, <2>2, <2>3 DEF PQObject, HandlersOf
    <2> QED BY <2>1, <2>4
  <1>10. PoolInv' /\ Live' = (Live \ {ObjectTask("calcMetric", o)}) \cup {ObjectTask("sum", o)}
    BY <1>0, <1>1, <1>6, <1>8, <1>9, TaskMoves
  <1>11. PQCall("metric")' /\ OpenObjects("metric")' = OpenObjects("metric")
    BY <1>0, <1>3, <1>5, <1>6, <1>10, HandlerLocks DEF CalcMetric
  <1>12. TypeOK'
    <2>1. th' \in [Threads -> Tasks]
      BY <1>1, <1>8, <1>9
    <2>2. mtx' \in Threads \cup {None}
      BY DEF CalcMetric
    <2> QED BY <1>0, <2>1, <2>2 DEF TypeOK, CalcMetric
  <1>13. \A p : Complete(p)' = Complete(p) /\ Value(p)' = Value(p)
    BY DEF Complete, Value, CalcMetric
  <1>14. PlaceInv'
    BY <1>0, <1>4 DEF PlaceInv, CalcMetric
  <1>15. DataInv'
    BY <1>0, <1>13 DEF DataInv, FtFresh, HelpersFresh, OtfFresh, CalcMetric
  <1>16. MetricInv'
    BY <1>5, <1>11, <1>13 DEF MetricInv, CalcMetric
  <1>17. ApplyInv' /\ GradInv' /\ HelpersInv' /\ ShiftInv'
    BY <1>4 DEF ApplyInv, GradInv, HelpersInv, ShiftInv, InCall, CalcMetric
  <1> QED BY <1>10, <1>12, <1>14, <1>15, <1>16, <1>17 DEF IndInv

\* An object's metric is summed.
LEMMA StepAddMetric ==
  ASSUME IndInv, NEW t \in Threads, AddMetric(t)
  PROVE  IndInv'
  <1> USE DEF control, watches
  <1>0. TypeOK /\ PlaceInv /\ DataInv /\ MetricInv /\ PoolInv
    BY DEF IndInv
  <1>1. Busy(th[t]) /\ th[t].at = "sum" /\ posted' = posted /\ th \in [Threads -> Tasks]
    BY <1>0 DEF AddMetric, Busy, TypeOK
  <1>3. th[t] \in Live
    BY <1>1, LiveIs
  <1>4. at # "free" /\ calls # <<>> /\ Head(calls) = "metric" /\ calls \in Scripts /\ stage # "start"
    BY <1>1, <1>3, CallOfTask
  <1>5. PQCall("metric") /\ sum = {Value(o) : o \in Objects \ OpenObjects("metric")}
    BY <1>0, <1>4 DEF MetricInv, InCall
  <1>6. PICK o \in Objects : th[t] = ObjectTask("sum", o)
    <2>1. PQTasks("metric")
      BY <1>5 DEF PQCall
    <2>2. PICK o \in Objects, h \in HandlersOf("metric") : th[t] = ObjectTask(h, o)
      BY <1>1, <1>3, <2>1, PQTaskForms
    <2>3. h = "sum"
      BY <1>1, <2>2, SimpleTasks
    <2> QED BY <2>2, <2>3
  <1>7. PICK q : q = [th[t] EXCEPT !.at = "unlock"]
    OBVIOUS
  <1>8. th' = [th EXCEPT ![t] = q]
    BY <1>1, <1>7 DEF AddMetric
  <1>9. q \in Tasks /\ ~Busy(q)
    BY <1>1, <1>7 DEF Tasks, Busy
  <1>10. PoolInv' /\ Live' = Live \ {ObjectTask("sum", o)}
    <2>1. PICK P : P = {}
      OBVIOUS
    <2>2. IsFiniteSet(P) /\ (\A p \in P : Busy(p) /\ p \notin Live) /\ posted' = posted \cup P
      BY <1>1, <2>1, FS_EmptySet
    <2>3. PoolInv' /\ Live' = (Live \ {th[t]}) \cup P
      BY <1>0, <1>1, <1>8, <1>9, <2>2, TaskOver
    <2> QED BY <1>6, <2>1, <2>3
  <1>11. solverWatch \in Watch({}) /\ solverWatch' = step(solverWatch, 1) /\ solverWatch' \in Watch({})
    BY <1>0, SolverCounts DEF AddMetric, CountSolver, TypeOK
  <1>12. /\ PQCall("metric")' /\ o \in OpenObjects("metric") /\ OpenObjects("metric")' = OpenObjects("metric") \ {o}
         /\ PQ[o] = Complete(o)
    <2>1. "sum" \in HandlersOf("metric") /\ UNCHANGED <<left, chunks, alpha, PQ, objectWatch>>
      BY DEF HandlersOf, AddMetric
    <2> QED BY <1>0, <1>3, <1>5, <1>6, <1>10, <1>11, <2>1, HandlerOver
  <1>13. TypeOK'
    <2>1. th' \in [Threads -> Tasks]
      BY <1>1, <1>8, <1>9
    <2> QED BY <1>0, <1>11, <2>1 DEF TypeOK, AddMetric
  <1>14. \A p : Complete(p)' = Complete(p) /\ Value(p)' = Value(p)
    BY DEF Complete, Value, AddMetric
  <1>15. PlaceInv'
    BY <1>0, <1>4 DEF PlaceInv, AddMetric
  <1>16. DataInv'
    BY <1>0, <1>14 DEF DataInv, FtFresh, HelpersFresh, OtfFresh, AddMetric
  <1>17. MetricInv'
    <2>1. ftSum[o] = ImagesOf(o)
      <3>1. calls # <<"shiftAndInit">>
        BY <1>4
      <3> QED BY <1>0, <1>4, <3>1 DEF DataInv, FtFresh
    <2>2. sum' = sum \cup {Value(o)}
      BY <1>6, <1>12, <2>1, SimpleTasks DEF AddMetric, Value
    <2>3. sum' = {Value(p) : p \in Objects \ OpenObjects("metric")'}
      BY <1>5, <1>12, <2>2
    <2> QED BY <1>12, <1>14, <2>3 DEF MetricInv
  <1>18. ApplyInv' /\ GradInv' /\ HelpersInv' /\ ShiftInv'
    BY <1>4 DEF ApplyInv, GradInv, HelpersInv, ShiftInv, InCall, AddMetric
  <1> QED BY <1>10, <1>13, <1>15, <1>16, <1>17, <1>18 DEF IndInv

\* An object's helpers are made.
LEMMA StepCalcHelpers ==
  ASSUME IndInv, NEW t \in Threads, CalcHelpers(t)
  PROVE  IndInv'
  <1> USE DEF control, watches
  <1>0. TypeOK /\ PlaceInv /\ DataInv /\ HelpersInv /\ PoolInv
    BY DEF IndInv
  <1>1. Busy(th[t]) /\ th[t].at = "calcHelpers" /\ posted' = posted /\ th' = [th EXCEPT ![t] = Idle]
    BY <1>0 DEF CalcHelpers, Busy
  <1>2. PoolInv' /\ Live' = Live \ {th[t]} /\ th' \in [Threads -> Tasks] /\ posted' \subseteq Tasks
    BY <1>1, ThreadDone
  <1>3. th[t] \in Live
    BY <1>1, LiveIs
  <1>4. at # "free" /\ calls # <<>> /\ Head(calls) = "calcPQ" /\ calls \in Scripts /\ stage # "start"
    BY <1>1, <1>3, CallOfTask
  <1>5. PQCall("calcPQ") /\ \A o \in Objects \ OpenObjects("calcPQ") : helpers[o] = Complete(o)
    BY <1>0, <1>4 DEF HelpersInv, InCall
  <1>6. PICK o \in Objects : th[t] = ObjectTask("calcHelpers", o)
    <2>1. PQTasks("calcPQ")
      BY <1>5 DEF PQCall
    <2>2. PICK o \in Objects, h \in HandlersOf("calcPQ") : th[t] = ObjectTask(h, o)
      BY <1>1, <1>3, <2>1, PQTaskForms
    <2>3. h = "calcHelpers"
      BY <1>1, <2>2, SimpleTasks
    <2> QED BY <2>2, <2>3
  <1>7. solverWatch \in Watch({}) /\ solverWatch' = step(solverWatch, 1) /\ solverWatch' \in Watch({})
    BY <1>0, SolverCounts DEF CalcHelpers, CountSolver, TypeOK
  <1>8. /\ PQCall("calcPQ")' /\ o \in OpenObjects("calcPQ") /\ OpenObjects("calcPQ")' = OpenObjects("calcPQ") \ {o}
        /\ PQ[o] = Complete(o)
    <2>1. "calcHelpers" \in HandlersOf("calcPQ") /\ UNCHANGED <<left, chunks, alpha, PQ, objectWatch>>
      BY DEF HandlersOf, CalcHelpers
    <2> QED BY <1>0, <1>2, <1>3, <1>5, <1>6, <1>7, <2>1, HandlerOver
  <1>9. helpers' = [helpers EXCEPT ![o] = PQ[o]] /\ helpers \in [Objects -> SUBSET (Images \X Nat)]
    <2>1. th[t].obj = o
      BY <1>6, SimpleTasks
    <2> QED BY <1>0, <2>1 DEF CalcHelpers, TypeOK
  <1>10. TypeOK'
    <2>1. PQ[o] \in SUBSET (Images \X Nat)
      BY <1>0 DEF TypeOK
    <2>2. helpers' \in [Objects -> SUBSET (Images \X Nat)]
      BY <1>9, <2>1
    <2> QED BY <1>0, <1>2, <1>7, <2>2 DEF TypeOK, CalcHelpers
  <1>11. \A p : Complete(p)' = Complete(p) /\ Value(p)' = Value(p)
    BY DEF Complete, Value, CalcHelpers
  <1>12. PlaceInv'
    BY <1>0, <1>4 DEF PlaceInv, CalcHelpers
  <1>13. DataInv'
    <2>1. calls # <<"gradient">>
      BY <1>4
    <2> QED BY <1>0, <1>11, <2>1 DEF DataInv, FtFresh, OtfFresh, CalcHelpers
  <1>14. HelpersInv'
    <2>1. \A p \in Objects \ OpenObjects("calcPQ")' : helpers'[p] = Complete(p)
      BY <1>5, <1>8, <1>9
    <2> QED BY <1>8, <1>11, <2>1 DEF HelpersInv
  <1>15. ApplyInv' /\ GradInv' /\ MetricInv' /\ ShiftInv'
    BY <1>4 DEF ApplyInv, GradInv, MetricInv, ShiftInv, InCall, CalcHelpers
  <1> QED BY <1>2, <1>10, <1>12, <1>13, <1>14, <1>15 DEF IndInv

\* A chunk that is being added: its images are in no other task, and were posted.
LEMMA AddingFacts ==
  ASSUME PoolInv, NEW name \in {"metric", "calcPQ"}, PQCall(name), chunks \subseteq Chunks,
         NEW k \in Live, k.at = "addPQ"
  PROVE  /\ AddTask(k) /\ k.obj \in Objects /\ k \in Adding(k.obj) /\ k.obj \notin left
         /\ Pending(k.obj) \in Nat \ {0} /\ ~Handled(name, k.obj)
         /\ k.imgs \subseteq Region(k) /\ Region(k) \subseteq ImagesOf(k.obj)
         /\ \A i \in Region(k) : /\ ~Unposted(i)
                                 /\ \A l \in Live \ {k} : l.at = "addPQ" => i \notin Region(l) /\ i \notin l.imgs
  <1>1. PQTasks(name) /\ \A p \in Objects : PQObject(name, p)
    BY DEF PQCall
  <1>2. \A l \in Live : l.at = "addPQ" => AddTask(l)
    BY <1>1, PQTaskForms
  <1>3. \A l \in Live : l.at = "addPQ" => l.obj \in Objects /\ Region(l) \in ChunksOf(l.obj) /\ l.imgs \subseteq Region(l)
    BY <1>2 DEF AddTask, Tasks, Region
  <1>4. k.obj \in Objects /\ k \in Adding(k.obj)
    BY <1>3 DEF Adding
  <1>5. Pending(k.obj) \in Nat \ {0}
    BY <1>4, PQSizes
  <1>6. k.obj \notin left /\ ~Handled(name, k.obj)
    BY <1>1, <1>4, <1>5 DEF PQObject
  <1>7. \A l \in Live : l.at = "addPQ" => Region(l) \in Chunks /\ Region(l) \subseteq ImagesOf(l.obj)
    BY <1>3, ChunkFacts
  <1>8. ASSUME NEW i \in Region(k)
        PROVE  ~Unposted(i) /\ \A l \in Live \ {k} : l.at = "addPQ" => i \notin Region(l) /\ i \notin l.imgs
    <2>1. ~Unposted(i)
      BY <1>1, <1>7, ChunkFacts DEF Unposted, PQTasks
    <2>2. \A l \in Live \ {k} : l.at = "addPQ" => i \notin Region(l)
      BY <1>1, <1>7, ChunkFacts DEF PQTasks
    <2> QED BY <1>3, <2>1, <2>2
  <1> QED BY <1>2, <1>3, <1>4, <1>5, <1>6, <1>7, <1>8

\* The task after an image was added to the thread's own P and Q.
OneAdded(k, i) == [k EXCEPT !.imgs = @ \ {i}, !.added = @ \cup {<<i, alpha>>}]

\* It has the same chunk.
LEMMA OneAddedTask ==
  ASSUME alpha \in Nat, NEW k, AddTask(k), NEW i \in k.imgs
  PROVE  /\ OneAdded(k, i).at = "addPQ" /\ OneAdded(k, i).obj = k.obj /\ OneAdded(k, i).imgs = k.imgs \ {i}
         /\ AddTask(OneAdded(k, i)) /\ Region(OneAdded(k, i)) = Region(k) /\ OneAdded(k, i) # k
  <1>1. PICK q : q = OneAdded(k, i)
    OBVIOUS
  <1>2. k \in Tasks /\ i \in Images /\ k.at = "addPQ"
    BY DEF AddTask, Tasks
  <1>3. /\ q.at = "addPQ" /\ q.obj = k.obj /\ q.imgs = k.imgs \ {i} /\ q.added = k.added \cup {<<i, alpha>>}
        /\ q \in Tasks
    <2>1. PICK I, A : I = k.imgs \ {i} /\ A = k.added \cup {<<i, alpha>>}
      OBVIOUS
    <2>2. I \in SUBSET Images /\ A \in SUBSET (Images \X Nat)
      BY <1>2, <2>1 DEF Tasks
    <2>3. q = [k EXCEPT !.imgs = I, !.added = A]
      BY <1>1, <1>2, <2>1 DEF OneAdded, Tasks
    <2>4. q \in Tasks
      BY <1>2, <2>2, <2>3 DEF Tasks
    <2>5. q.at = "addPQ" /\ q.obj = k.obj /\ q.imgs = I /\ q.added = A
      BY <1>2, <2>3 DEF Tasks
    <2> QED BY <2>1, <2>4, <2>5
  <1>4. Region(q) = Region(k)
    BY <1>2, <1>3 DEF Region
  <1>5. q.added = {<<j, alpha>> : j \in Region(q) \ q.imgs}
    <2>1. Region(q) \ q.imgs = (Region(k) \ k.imgs) \cup {i}
      BY <1>2, <1>3, <1>4 DEF Region
    <2>2. k.added = {<<j, alpha>> : j \in Region(k) \ k.imgs}
      BY DEF AddTask
    <2> QED BY <1>3, <2>1, <2>2
  <1>6. AddTask(q)
    BY <1>3, <1>4, <1>5 DEF AddTask
  <1> QED BY <1>1, <1>3, <1>4, <1>6

\* An image of a chunk is counted: the object still waits for the chunk.
LEMMA ImageCounted ==
  ASSUME PoolInv, NEW name \in {"metric", "calcPQ"}, PQCall(name), chunks \subseteq Chunks, alpha \in Nat,
         NEW k \in Live, k.at = "addPQ", NEW i \in k.imgs
  PROVE  /\ Pending(k.obj) # 1 /\ OneAdded(k, i) \notin Live
         /\ i \in Uncounted(k.obj)
  <1>1. /\ AddTask(k) /\ k.obj \in Objects /\ k \in Adding(k.obj)
        /\ k.imgs \subseteq Region(k) /\ Region(k) \subseteq ImagesOf(k.obj)
    BY AddingFacts
  <1>2. i \in Uncounted(k.obj)
    BY <1>1 DEF Uncounted
  <1>3. Cardinality(Uncounted(k.obj)) \in Nat \ {0} /\ Cardinality(Adding(k.obj)) \in Nat \ {0}
    BY <1>1, <1>2, PQSizes, FS_EmptySet
  <1>4. Pending(k.obj) # 1
    BY <1>3 DEF Pending
  <1>5. OneAdded(k, i) \notin Live
    <2>1. OneAdded(k, i).at = "addPQ" /\ Region(OneAdded(k, i)) = Region(k) /\ OneAdded(k, i) # k
      BY <1>1, OneAddedTask
    <2>2. PQTasks(name)
      BY DEF PQCall
    <2> QED BY <2>1, <2>2 DEF PQTasks
  <1> QED BY <1>2, <1>4, <1>5

\* An image of a chunk is added to the thread's own P and Q.
LEMMA ImageAdded ==
  ASSUME PoolInv, PoolInv', NEW name \in {"metric", "calcPQ"}, PQCall(name), chunks \subseteq Chunks, alpha \in Nat,
         NEW k \in Live, k.at = "addPQ", NEW i \in k.imgs,
         NEW q, q = OneAdded(k, i), Live' = (Live \ {k}) \cup {q},
         objectWatch \in [Objects -> Watch({"reInitialize", "calcMetric", "calcHelpers"})],
         objectWatch' = [objectWatch EXCEPT ![k.obj] = step(@, 1)],
         UNCHANGED <<left, chunks, alpha, PQ, solverWatch>>
  PROVE  PQCall(name)' /\ OpenObjects(name)' = OpenObjects(name)
  <1>0. PICK o \in Objects : o = k.obj
    BY AddingFacts
  <1>1. /\ AddTask(k) /\ k \in Adding(o) /\ o \notin left
        /\ Pending(o) \in Nat \ {0} /\ ~Handled(name, o)
        /\ k.imgs \subseteq Region(k) /\ Region(k) \subseteq ImagesOf(o)
        /\ \A j \in Region(k) : /\ ~Unposted(j)
                                /\ \A l \in Live \ {k} : l.at = "addPQ" => j \notin Region(l) /\ j \notin l.imgs
    BY <1>0, AddingFacts
  <1>2. /\ q.at = "addPQ" /\ q.obj = o /\ q.imgs = k.imgs \ {i} /\ AddTask(q) /\ Region(q) = Region(k) /\ q # k
    BY <1>0, <1>1, OneAddedTask
  <1>3. Pending(o) # 1 /\ q \notin Live /\ i \in Uncounted(o)
    BY <1>0, ImageCounted
  <1>4. \A l : Region(l)' = Region(l) /\ AddTask(l)' = AddTask(l)
    BY DEF Region, AddTask
  <1>5. Adding(o)' = (Adding(o) \ {k}) \cup {q} /\ \A p \in Objects \ {o} : Adding(p)' = Adding(p)
    BY <1>0, <1>2 DEF Adding
  <1>6. \A p \in Objects : Unadded(p)' = Unadded(p)
    <2>1. \A p \in Objects : \A j : (\E l \in Adding(p)' : j \in Region(l)) <=> (\E l \in Adding(p) : j \in Region(l))
      BY <1>1, <1>2, <1>5
    <2>2. \A j : Unposted(j)' <=> Unposted(j)
      BY DEF Unposted
    <2> QED BY <1>4, <2>1, <2>2 DEF Unadded
  <1>7. Uncounted(o)' = Uncounted(o) \ {i} /\ \A p \in Objects \ {o} : Uncounted(p)' = Uncounted(p)
    <2>1. \A j : Unposted(j)' <=> Unposted(j)
      BY DEF Unposted
    <2>2. \A j : (\E l \in Adding(o)' : j \in l.imgs) <=> (j # i /\ \E l \in Adding(o) : j \in l.imgs)
      <3>1. \A l \in Adding(o) : l \in Live /\ l.at = "addPQ"
        BY DEF Adding
      <3>2. i \in Region(k)
        BY <1>1
      <3>3. \A l \in Adding(o) \ {k} : i \notin l.imgs
        BY <1>1, <3>1, <3>2
      <3> QED BY <1>1, <1>2, <1>5, <3>3
    <2>3. ~Unposted(i)
      BY <1>1
    <2>4. Uncounted(o)' = Uncounted(o) \ {i}
      BY <2>1, <2>2, <2>3 DEF Uncounted
    <2>5. \A p \in Objects \ {o} : Uncounted(p)' = Uncounted(p)
      BY <1>5, <2>1 DEF Uncounted
    <2> QED BY <2>4, <2>5
  <1>8. Pending(o)' = Pending(o) - 1 /\ \A p \in Objects \ {o} : Pending(p)' = Pending(p)
    <2>1. Cardinality(Uncounted(o)') = Cardinality(Uncounted(o)) - 1
      <3>1. IsFiniteSet(Uncounted(o))
        BY PQSizes
      <3>2. Cardinality(Uncounted(o) \ {i}) = Cardinality(Uncounted(o)) - 1
        BY <1>3, <1>7, <3>1, FS_RemoveElement
      <3> QED BY <1>7, <3>2
    <2>2. Cardinality(Adding(o)') = Cardinality(Adding(o))
      <3>1. Cardinality(Adding(o) \ {k}) = Cardinality(Adding(o)) - 1 /\ IsFiniteSet(Adding(o) \ {k})
        BY <1>1, PQSizes, FS_RemoveElement
      <3>2. q \notin Adding(o) \ {k}
        BY <1>3 DEF Adding
      <3>3. Cardinality((Adding(o) \ {k}) \cup {q}) = Cardinality(Adding(o) \ {k}) + 1
        BY <3>1, <3>2, FS_AddElement
      <3>4. Cardinality(Adding(o)) \in Nat
        BY PQSizes
      <3> QED BY <1>5, <3>1, <3>3, <3>4
    <2>3. Cardinality(Uncounted(o)) \in Nat /\ Cardinality(Adding(o)) \in Nat
      BY PQSizes
    <2>4. Pending(o)' = Pending(o) - 1
      BY <2>1, <2>2, <2>3 DEF Pending
    <2>5. \A p \in Objects \ {o} : Pending(p)' = Pending(p)
      BY <1>5, <1>7 DEF Pending
    <2> QED BY <2>4, <2>5
  <1>9. \A p \in Objects : \A h \in HandlersOf(name) : ObjectTask(h, p) \in Live' <=> ObjectTask(h, p) \in Live
    <2>1. \A p \in Objects : \A h \in HandlersOf(name) : ObjectTask(h, p).at # "addPQ"
      BY SimpleTasks, HandlerNames
    <2> QED BY <1>2, <2>1
  <1>10. \A p \in Objects : Handled(name, p)' <=> Handled(name, p)
    BY <1>9 DEF Handled
  <1>11. OpenObjects(name)' = OpenObjects(name)
    <2>1. \A p \in Objects : Pending(p)' # 0 <=> Pending(p) # 0
      BY <1>1, <1>3, <1>8
    <2> QED BY <1>10, <2>1 DEF OpenObjects
  <1>12. PQTasks(name) /\ \A p \in Objects : PQObject(name, p)
    BY DEF PQCall
  <1>13. PQTasks(name)'
    <2>1. \A l \in Live' : AddTask(l) \/ \E p \in Objects, h \in HandlersOf(name) : l = ObjectTask(h, p)
      BY <1>2, <1>12 DEF PQTasks
    <2>2. \A l, m \in Live' : l.at = "addPQ" /\ m.at = "addPQ" /\ l # m => Region(l) # Region(m)
      BY <1>2, <1>12 DEF PQTasks
    <2>3. \A l \in Live' : l.at = "addPQ" => Region(l) \notin chunks
      BY <1>2, <1>12 DEF PQTasks
    <2> QED BY <1>4, <2>1, <2>2, <2>3 DEF PQTasks
  <1>14. ASSUME NEW p \in Objects
         PROVE  PQObject(name, p)'
    <2>1. CASE p = o
      <3>1. PICK H, n : H = {"reInitialize", "calcMetric", "calcHelpers"} /\ n = Pending(o)
        OBVIOUS
      <3>2. objectWatch[o] \in Watch(H) /\ Expects(objectWatch[o], n, FirstHandler(name)) /\ n \in Nat \ {0}
        BY <1>1, <1>12, <3>1 DEF PQObject
      <3>3. Expects(step(objectWatch[o], 1), n - 1, FirstHandler(name))
        BY <3>2, StepExpects
      <3>4. objectWatch'[o] = step(objectWatch[o], 1)
        BY <1>0
      <3>5. Expects(objectWatch'[o], Pending(o)', FirstHandler(name))
        BY <1>8, <3>1, <3>3, <3>4
      <3>6. Expects(objectWatch[o], Pending(o), FirstHandler(name))'
        BY <3>5 DEF Expects
      <3>7. ~Handled(name, o)' /\ o \notin left'
        BY <1>1, <1>10
      <3>8. PQ'[o] = {<<j, alpha>> : j \in ImagesOf(o) \ Unadded(o)}
        BY <1>1, <1>12 DEF PQObject
      <3>9. (PQ[o] = {<<j, alpha>> : j \in ImagesOf(o) \ Unadded(o)})'
        BY <1>6, <3>8
      <3>10. \A g, h \in HandlersOf(name) : ObjectTask(g, o) \in Live' /\ ObjectTask(h, o) \in Live' => g = h
        BY <1>1, <1>9, <1>12 DEF PQObject
      <3> QED BY <2>1, <3>6, <3>7, <3>9, <3>10 DEF PQObject
    <2>2. CASE p # o
      <3>1. objectWatch'[p] = objectWatch[p]
        BY <1>0, <2>2
      <3>2. PQObject(name, p)
        BY <1>12
      <3> QED BY <1>5, <1>6, <1>8, <1>9, <1>10, <2>2, <3>1, <3>2 DEF PQObject, Expects
    <2> QED BY <2>1, <2>2
  <1>15. Waits(solverWatch, Cardinality(OpenObjects(name)))'
    BY <1>11 DEF PQCall, Waits
  <1> QED BY <1>11, <1>13, <1>14, <1>15 DEF PQCall

\* A chunk is added to P and Q of its object; the last one starts the object's handler.
LEMMA ChunkAdded ==
  ASSUME PoolInv, PoolInv', NEW name \in {"metric", "calcPQ"}, PQCall(name), chunks \subseteq Chunks, alpha \in Nat,
         NEW k \in Live, k.at = "addPQ", k.imgs = {},
         NEW N, N = IF Pending(k.obj) = 1 THEN {ObjectTask(FirstHandler(name), k.obj)} ELSE {},
         Live' = (Live \ {k}) \cup N,
         objectWatch \in [Objects -> Watch({"reInitialize", "calcMetric", "calcHelpers"})],
         objectWatch' = [objectWatch EXCEPT ![k.obj] = step(@, 1)],
         PQ \in [Objects -> SUBSET (Images \X Nat)], PQ' = [PQ EXCEPT ![k.obj] = @ \cup k.added],
         UNCHANGED <<left, chunks, alpha, solverWatch>>
  PROVE  PQCall(name)' /\ OpenObjects(name)' = OpenObjects(name)
  <1>0. PICK o \in Objects : o = k.obj
    BY AddingFacts
  <1>1. /\ AddTask(k) /\ k \in Adding(o) /\ o \notin left
        /\ Pending(o) \in Nat \ {0} /\ ~Handled(name, o)
        /\ Region(k) \subseteq ImagesOf(o)
        /\ \A j \in Region(k) : /\ ~Unposted(j)
                                /\ \A l \in Live \ {k} : l.at = "addPQ" => j \notin Region(l)
    BY <1>0, AddingFacts
  <1>2. \A l : Region(l)' = Region(l) /\ AddTask(l)' = AddTask(l)
    BY DEF Region, AddTask
  <1>3. \A l \in N : l.at # "addPQ" /\ l = ObjectTask(FirstHandler(name), o)
    BY <1>0, SimpleTasks, HandlerNames
  <1>4. Adding(o)' = Adding(o) \ {k} /\ \A p \in Objects \ {o} : Adding(p)' = Adding(p)
    BY <1>0, <1>3 DEF Adding
  <1>5. \A j : Unposted(j)' <=> Unposted(j)
    BY DEF Unposted
  <1>6. \A p \in Objects : Uncounted(p)' = Uncounted(p)
    <2>1. \A p \in Objects : \A j : (\E l \in Adding(p)' : j \in l.imgs) <=> (\E l \in Adding(p) : j \in l.imgs)
      BY <1>1, <1>4
    <2> QED BY <1>5, <2>1 DEF Uncounted
  <1>7. Unadded(o)' = Unadded(o) \ Region(k) /\ \A p \in Objects \ {o} : Unadded(p)' = Unadded(p)
    <2>1. \A l \in Adding(o) : l \in Live /\ l.at = "addPQ"
      BY DEF Adding
    <2>2. \A j : (\E l \in Adding(o)' : j \in Region(l)) <=> (j \notin Region(k) /\ \E l \in Adding(o) : j \in Region(l))
      BY <1>1, <1>4, <2>1
    <2>3. Unadded(o)' = Unadded(o) \ Region(k)
      BY <1>1, <1>2, <1>5, <2>2 DEF Unadded
    <2>4. \A p \in Objects \ {o} : Unadded(p)' = Unadded(p)
      BY <1>2, <1>4, <1>5 DEF Unadded
    <2> QED BY <2>3, <2>4
  <1>8. Pending(o)' = Pending(o) - 1 /\ \A p \in Objects \ {o} : Pending(p)' = Pending(p)
    <2>1. Cardinality(Adding(o)') = Cardinality(Adding(o)) - 1
      <3>1. IsFiniteSet(Adding(o))
        BY PQSizes
      <3>2. Cardinality(Adding(o) \ {k}) = Cardinality(Adding(o)) - 1
        BY <1>1, <1>4, <3>1, FS_RemoveElement
      <3> QED BY <1>4, <3>2
    <2>2. Cardinality(Uncounted(o)) \in Nat /\ Cardinality(Adding(o)) \in Nat
      BY PQSizes
    <2>3. Pending(o)' = Pending(o) - 1
      BY <1>6, <2>1, <2>2 DEF Pending
    <2>4. \A p \in Objects \ {o} : Pending(p)' = Pending(p)
      BY <1>4, <1>6 DEF Pending
    <2> QED BY <2>3, <2>4
  <1>9. \A h \in HandlersOf(name) : \A p \in Objects : ObjectTask(h, p).at # "addPQ" /\ ObjectTask(h, p) # k
    BY SimpleTasks, HandlerNames
  <1>10. \A p \in Objects \ {o} : \A h \in HandlersOf(name) : ObjectTask(h, p) \in Live' <=> ObjectTask(h, p) \in Live
    BY <1>3, <1>9, DifferentTasks
  <1>11. \A p \in Objects \ {o} : Handled(name, p)' <=> Handled(name, p)
    BY <1>10 DEF Handled
  <1>12. /\ Handled(name, o)' <=> Pending(o) = 1
         /\ \A h \in HandlersOf(name) : ObjectTask(h, o) \in Live' => h = FirstHandler(name)
    <2>1. \A h \in HandlersOf(name) : ObjectTask(h, o) \notin Live
      BY <1>1 DEF Handled
    <2>2. \A h \in HandlersOf(name) : ObjectTask(h, o) \in Live' <=> ObjectTask(h, o) \in N
      BY <1>9, <2>1
    <2>3. \A h \in HandlersOf(name) : ObjectTask(h, o) \in N => h = FirstHandler(name)
      BY <1>3, DifferentTasks
    <2>4. FirstHandler(name) \in HandlersOf(name)
      BY HandlerNames
    <2>5. Pending(o) = 1 => ObjectTask(FirstHandler(name), o) \in N
      BY <1>0
    <2>6. Pending(o) # 1 => N = {}
      BY <1>0
    <2> QED BY <2>2, <2>3, <2>4, <2>5, <2>6 DEF Handled
  <1>13. OpenObjects(name)' = OpenObjects(name)
    <2>1. o \in OpenObjects(name)' /\ o \in OpenObjects(name)
      BY <1>1, <1>8, <1>12 DEF OpenObjects
    <2>2. \A p \in Objects \ {o} : p \in OpenObjects(name)' <=> p \in OpenObjects(name)
      BY <1>8, <1>11 DEF OpenObjects
    <2>3. OpenObjects(name)' \subseteq Objects /\ OpenObjects(name) \subseteq Objects
      BY DEF OpenObjects
    <2>4. \A p : p \in OpenObjects(name)' <=> p \in OpenObjects(name)
      BY <2>1, <2>2, <2>3
    <2> QED BY <2>4
  <1>14. PQTasks(name) /\ \A p \in Objects : PQObject(name, p)
    BY DEF PQCall
  <1>15. PQTasks(name)'
    <2>1. \A l \in Live' : AddTask(l) \/ \E p \in Objects, h \in HandlersOf(name) : l = ObjectTask(h, p)
      <3> SUFFICES ASSUME NEW l \in Live'
                   PROVE  AddTask(l) \/ \E p \in Objects, h \in HandlersOf(name) : l = ObjectTask(h, p)
        OBVIOUS
      <3>1. CASE l \in N
        BY <1>3, <3>1, HandlerNames
      <3>2. CASE l \in Live
        BY <1>14, <3>2 DEF PQTasks
      <3> QED BY <3>1, <3>2
    <2>2. \A l, m \in Live' : l.at = "addPQ" /\ m.at = "addPQ" /\ l # m => Region(l) # Region(m)
      BY <1>3, <1>14 DEF PQTasks
    <2>3. \A l \in Live' : l.at = "addPQ" => Region(l) \notin chunks
      BY <1>3, <1>14 DEF PQTasks
    <2> QED BY <1>2, <2>1, <2>2, <2>3 DEF PQTasks
  <1>16. ASSUME NEW p \in Objects
         PROVE  PQObject(name, p)'
    <2>1. CASE p = o
      <3>1. PICK H, n : H = {"reInitialize", "calcMetric", "calcHelpers"} /\ n = Pending(o)
        OBVIOUS
      <3>2. objectWatch[o] \in Watch(H) /\ Expects(objectWatch[o], n, FirstHandler(name)) /\ n \in Nat \ {0}
        BY <1>1, <1>14, <3>1 DEF PQObject
      <3>3. Expects(step(objectWatch[o], 1), n - 1, FirstHandler(name))
        BY <3>2, StepExpects
      <3>4. objectWatch'[o] = step(objectWatch[o], 1)
        BY <1>0
      <3>5. Expects(objectWatch'[o], Pending(o)', FirstHandler(name))
        BY <1>8, <3>1, <3>3, <3>4
      <3>6. Expects(objectWatch[o], Pending(o), FirstHandler(name))'
        BY <3>5 DEF Expects
      <3>7. Pending(o)' # 0 => ~Handled(name, o)'
        BY <1>1, <1>8, <1>12
      <3>8. PQ'[o] = {<<j, alpha>> : j \in ImagesOf(o) \ Unadded(o)'}
        <4>1. PQ[o] = {<<j, alpha>> : j \in ImagesOf(o) \ Unadded(o)}
          BY <1>1, <1>14 DEF PQObject
        <4>2. PQ'[o] = PQ[o] \cup k.added /\ k.added = {<<j, alpha>> : j \in Region(k)}
          BY <1>0, <1>1 DEF AddTask
        <4>3. ImagesOf(o) \ Unadded(o)' = (ImagesOf(o) \ Unadded(o)) \cup Region(k)
          BY <1>1, <1>7
        <4> QED BY <4>1, <4>2, <4>3
      <3>9. (PQ[o] = {<<j, alpha>> : j \in ImagesOf(o) \ Unadded(o)})'
        BY <3>8
      <3>10. \A g, h \in HandlersOf(name) : ObjectTask(g, o) \in Live' /\ ObjectTask(h, o) \in Live' => g = h
        BY <1>12
      <3>11. o \notin left'
        BY <1>1
      <3> QED BY <2>1, <3>6, <3>7, <3>9, <3>10, <3>11 DEF PQObject
    <2>2. CASE p # o
      <3>1. objectWatch'[p] = objectWatch[p] /\ PQ'[p] = PQ[p]
        BY <1>0, <2>2
      <3>2. PQObject(name, p)
        BY <1>14
      <3> QED BY <1>4, <1>7, <1>8, <1>10, <1>11, <2>2, <3>1, <3>2 DEF PQObject, Expects
    <2> QED BY <2>1, <2>2
  <1>17. Waits(solverWatch, Cardinality(OpenObjects(name)))'
    BY <1>13 DEF PQCall, Waits
  <1> QED BY <1>13, <1>15, <1>16, <1>17 DEF PQCall

\* A step of metric or calcPQ after which the same objects are open.
LEMMA PQStep ==
  ASSUME IndInv, TypeOK', PoolInv', NEW name \in {"metric", "calcPQ"}, calls # <<>>, Head(calls) = name, at # "free",
         PQCall(name)', OpenObjects(name)' = OpenObjects(name),
         UNCHANGED <<stage, calls, at, reset, alpha, otf, stale, shifted, ftSum, helpers, grad, sum, metric>>,
         at = "post" \/ UNCHANGED <<left, chunks>>
  PROVE  IndInv'
  <1>1. PlaceInv'
    BY DEF IndInv, PlaceInv
  <1>2. \A o : Complete(o)' = Complete(o) /\ Value(o)' = Value(o)
    BY DEF Complete, Value
  <1>3. DataInv'
    BY <1>2 DEF IndInv, DataInv, FtFresh, OtfFresh, HelpersFresh
  <1>4. ApplyInv' /\ GradInv' /\ ShiftInv'
    BY DEF ApplyInv, GradInv, ShiftInv, InCall
  <1>5. MetricInv'
    BY <1>2 DEF IndInv, MetricInv, InCall
  <1>6. HelpersInv'
    BY <1>2 DEF IndInv, HelpersInv, InCall
  <1> QED BY <1>1, <1>3, <1>4, <1>5, <1>6 DEF IndInv

\* The object's watch is typed whatever is counted.
LEMMA ObjectCounts ==
  ASSUME TypeOK, NEW o \in Objects, objectWatch' = [objectWatch EXCEPT ![o] = step(@, 1)]
  PROVE  objectWatch' \in [Objects -> Watch({"reInitialize", "calcMetric", "calcHelpers"})]
  <1>1. PICK H : H = {"reInitialize", "calcMetric", "calcHelpers"}
    OBVIOUS
  <1>2. objectWatch \in [Objects -> Watch(H)]
    BY <1>1 DEF TypeOK
  <1>3. step(objectWatch[o], 1) \in Watch(H)
    BY <1>2, WatchTypes
  <1>4. objectWatch' \in [Objects -> Watch(H)]
    BY <1>2, <1>3
  <1> QED BY <1>1, <1>4

\* An image is added to the P and Q of a chunk.
LEMMA StepAddPQ ==
  ASSUME IndInv, NEW t \in Threads, AddPQ(t)
  PROVE  IndInv'
  <1> USE DEF control, watches, data
  <1>0. TypeOK /\ PlaceInv /\ DataInv /\ PoolInv /\ th \in [Threads -> Tasks] /\ alpha \in Nat /\ chunks \subseteq Chunks
    BY DEF IndInv, TypeOK
  <1>1. Busy(th[t]) /\ th[t].at = "addPQ" /\ posted' = posted
    BY DEF AddPQ, Busy
  <1>2. PICK k \in Live : k = th[t]
    BY <1>1, LiveIs
  <1>3. k.at = "addPQ" /\ k \in Tasks
    BY <1>0, <1>1, <1>2
  <1>4. at # "free" /\ calls # <<>> /\ calls \in Scripts /\ Head(calls) \in {"metric", "calcPQ"}
    BY <1>3, CallOfTask
  <1>5. PICK name \in {"metric", "calcPQ"} : name = Head(calls)
    BY <1>4
  <1>6. PQCall(name)
    BY <1>4, <1>5 DEF IndInv, MetricInv, HelpersInv, InCall
  <1>7. PICK i \in k.imgs : CountObject(t, [th[t] EXCEPT !.imgs = @ \ {i}, !.added = @ \cup {<<i, otf[i]>>}])
    BY <1>2 DEF AddPQ
  <1>8. i \in Images /\ otf[i] = alpha
    <2>1. OtfFresh
      BY <1>0, <1>4 DEF DataInv
    <2>2. i \in Images
      BY <1>3 DEF Tasks
    <2> QED BY <2>1, <2>2 DEF OtfFresh
  <1>9. PICK q : q = OneAdded(k, i)
    OBVIOUS
  <1>10. CountObject(t, q)
    BY <1>2, <1>7, <1>8, <1>9 DEF OneAdded
  <1>11. PICK o \in Objects : o = k.obj /\ o \notin left /\ Pending(o) \in Nat \ {0}
    BY <1>0, <1>3, <1>6, AddingFacts
  <1>12. Pending(o) # 1 /\ q \notin Live /\ AddTask(k)
    BY <1>0, <1>3, <1>6, <1>9, <1>11, ImageCounted, AddingFacts
  <1>13. Completer(objectWatch[o], 1) = NoHandler
    <2>1. PICK H, n : H = {"reInitialize", "calcMetric", "calcHelpers"} /\ n = Pending(o)
      OBVIOUS
    <2>2. objectWatch[o] \in Watch(H) /\ Expects(objectWatch[o], n, FirstHandler(name)) /\ n \in Nat \ {0}
      BY <1>0, <1>6, <1>11, <2>1 DEF PQCall, PQObject, TypeOK
    <2> QED BY <1>12, <2>1, <2>2, StepExpects
  <1>14. objectWatch' = [objectWatch EXCEPT ![o] = step(@, 1)] /\ th' = [th EXCEPT ![t] = q]
    BY <1>2, <1>10, <1>11, <1>13 DEF CountObject
  <1>15. q \in Tasks /\ Busy(q)
    BY <1>0, <1>9, <1>12, OneAddedTask DEF AddTask, Busy
  <1>16. PoolInv' /\ Live' = (Live \ {k}) \cup {q}
    BY <1>0, <1>1, <1>2, <1>12, <1>14, <1>15, TaskMoves
  <1>17. UNCHANGED <<left, chunks, alpha, PQ, solverWatch>>
    BY DEF AddPQ
  <1>18. PQCall(name)' /\ OpenObjects(name)' = OpenObjects(name)
    <2>1. objectWatch \in [Objects -> Watch({"reInitialize", "calcMetric", "calcHelpers"})]
      BY <1>0 DEF TypeOK
    <2>2. objectWatch' = [objectWatch EXCEPT ![k.obj] = step(@, 1)]
      BY <1>11, <1>14
    <2> QED BY <1>0, <1>3, <1>6, <1>9, <1>16, <1>17, <2>1, <2>2, ImageAdded
  <1>19. TypeOK'
    <2>1. th' \in [Threads -> Tasks]
      BY <1>0, <1>14, <1>15
    <2>2. objectWatch' \in [Objects -> Watch({"reInitialize", "calcMetric", "calcHelpers"})]
      BY <1>0, <1>14, ObjectCounts
    <2> QED BY <1>0, <2>1, <2>2 DEF TypeOK, AddPQ
  <1>20. UNCHANGED <<control, alpha, otf, stale, shifted, ftSum, helpers, grad, sum, metric>>
    BY DEF AddPQ
  <1> QED BY <1>4, <1>5, <1>16, <1>18, <1>19, <1>20, PQStep

\* A chunk is added to P and Q.
LEMMA StepAddToPQ ==
  ASSUME IndInv, NEW t \in Threads, AddToPQ(t)
  PROVE  IndInv'
  <1> USE DEF control, watches
  <1>0. TypeOK /\ PlaceInv /\ DataInv /\ PoolInv /\ th \in [Threads -> Tasks] /\ alpha \in Nat /\ chunks \subseteq Chunks
    BY DEF IndInv, TypeOK
  <1>1. Busy(th[t]) /\ th[t].at = "addPQ" /\ posted' = posted
    BY DEF AddToPQ, Busy
  <1>2. PICK k \in Live : k = th[t]
    BY <1>1, LiveIs
  <1>3. k.at = "addPQ" /\ k \in Tasks /\ k.imgs = {}
    BY <1>0, <1>1, <1>2 DEF AddToPQ
  <1>4. at # "free" /\ calls # <<>> /\ calls \in Scripts /\ Head(calls) \in {"metric", "calcPQ"}
    BY <1>3, CallOfTask
  <1>5. PICK name \in {"metric", "calcPQ"} : name = Head(calls)
    BY <1>4
  <1>6. PQCall(name)
    BY <1>4, <1>5 DEF IndInv, MetricInv, HelpersInv, InCall
  <1>7. PICK o \in Objects : o = k.obj /\ o \notin left /\ Pending(o) \in Nat \ {0} /\ ~Handled(name, o)
    BY <1>0, <1>3, <1>6, AddingFacts
  <1>8. Completer(objectWatch[o], 1) = IF Pending(o) = 1 THEN FirstHandler(name) ELSE NoHandler
    <2>1. PICK H, n : H = {"reInitialize", "calcMetric", "calcHelpers"} /\ n = Pending(o)
      OBVIOUS
    <2>2. objectWatch[o] \in Watch(H) /\ Expects(objectWatch[o], n, FirstHandler(name)) /\ n \in Nat \ {0}
      BY <1>0, <1>6, <1>7, <2>1 DEF PQCall, PQObject, TypeOK
    <2> QED BY <2>1, <2>2, StepExpects
  <1>9. PICK h : h = FirstHandler(name)
    OBVIOUS
  <1>10. h \in HandlersOf(name) /\ h \in {"calcMetric", "calcHelpers"} /\ h # NoHandler
    BY <1>9, HandlerNames DEF NoHandler
  <1>11. PICK q : q = ObjectTask(h, o)
    OBVIOUS
  <1>12. q \in Tasks /\ Busy(q) /\ q \notin Live /\ q = [Idle EXCEPT !.at = h, !.obj = o]
    <2>1. q \in Tasks /\ Busy(q)
      BY <1>10, <1>11 DEF ObjectTask, Task, Tasks, Busy
    <2>2. q \notin Live
      BY <1>7, <1>10, <1>11 DEF Handled
    <2>3. q = [Idle EXCEPT !.at = h, !.obj = o]
      BY <1>11, HandlerTask
    <2> QED BY <2>1, <2>2, <2>3
  <1>13. objectWatch' = [objectWatch EXCEPT ![o] = step(@, 1)]
    BY <1>2, <1>7 DEF AddToPQ, CountObject
  <1>14. th' = [th EXCEPT ![t] = IF Pending(o) = 1 THEN q ELSE Idle]
    <2>1. CASE Pending(o) = 1
      BY <1>2, <1>7, <1>8, <1>9, <1>10, <1>12, <2>1 DEF AddToPQ, CountObject
    <2>2. CASE Pending(o) # 1
      BY <1>2, <1>7, <1>8, <2>2 DEF AddToPQ, CountObject
    <2> QED BY <2>1, <2>2
  <1>15. PICK N : N = IF Pending(o) = 1 THEN {q} ELSE {}
    OBVIOUS
  <1>16. PoolInv' /\ Live' = (Live \ {k}) \cup N /\ th' \in [Threads -> Tasks]
    <2>1. CASE Pending(o) = 1
      <3>1. th' = [th EXCEPT ![t] = q]
        BY <1>14, <2>1
      <3>2. PoolInv' /\ Live' = (Live \ {k}) \cup {q}
        BY <1>0, <1>1, <1>2, <1>12, <3>1, TaskMoves
      <3> QED BY <1>0, <1>12, <1>15, <2>1, <3>1, <3>2
    <2>2. CASE Pending(o) # 1
      <3>1. th' = [th EXCEPT ![t] = Idle]
        BY <1>14, <2>2
      <3>2. PoolInv' /\ Live' = Live \ {k} /\ th' \in [Threads -> Tasks]
        BY <1>1, <1>2, <3>1, ThreadDone
      <3> QED BY <1>15, <2>2, <3>2
    <2> QED BY <2>1, <2>2
  <1>17. PQ' = [PQ EXCEPT ![o] = @ \cup k.added] /\ PQ \in [Objects -> SUBSET (Images \X Nat)]
    BY <1>0, <1>2, <1>7 DEF AddToPQ, TypeOK
  <1>18. PQCall(name)' /\ OpenObjects(name)' = OpenObjects(name)
    <2>1. objectWatch \in [Objects -> Watch({"reInitialize", "calcMetric", "calcHelpers"})]
      BY <1>0 DEF TypeOK
    <2>2. objectWatch' = [objectWatch EXCEPT ![k.obj] = step(@, 1)] /\ PQ' = [PQ EXCEPT ![k.obj] = @ \cup k.added]
      BY <1>7, <1>13, <1>17
    <2>3. N = IF Pending(k.obj) = 1 THEN {ObjectTask(FirstHandler(name), k.obj)} ELSE {}
      BY <1>7, <1>9, <1>11, <1>15
    <2>4. UNCHANGED <<left, chunks, alpha, solverWatch>>
      BY DEF AddToPQ
    <2> QED BY <1>0, <1>3, <1>6, <1>16, <1>17, <2>1, <2>2, <2>3, <2>4, ChunkAdded
  <1>19. TypeOK'
    <2>1. objectWatch' \in [Objects -> Watch({"reInitialize", "calcMetric", "calcHelpers"})]
      BY <1>0, <1>13, ObjectCounts
    <2>2. k.added \in SUBSET (Images \X Nat)
      BY <1>3 DEF Tasks
    <2>3. PQ' \in [Objects -> SUBSET (Images \X Nat)]
      BY <1>17, <2>2
    <2> QED BY <1>0, <1>16, <2>1, <2>3 DEF TypeOK, AddToPQ
  <1>20. UNCHANGED <<control, alpha, otf, stale, shifted, ftSum, helpers, grad, sum, metric>>
    BY DEF AddToPQ
  <1> QED BY <1>4, <1>5, <1>16, <1>18, <1>19, <1>20, PQStep

-----------------------------------------------------------------------------
(* shiftAndInit: the images and the handlers of the objects                *)

\* A step of shiftAndInit that goes on with the call.
LEMMA ShiftStep ==
  ASSUME IndInv, TypeOK', PoolInv', calls # <<>>, Head(calls) = "shiftAndInit", at # "free", ShiftCall',
         \A o \in Objects : ftSum'[o] \subseteq ImagesOf(o),
         UNCHANGED <<control, alpha, otf, PQ, helpers, grad, sum, metric>>
  PROVE  IndInv'
  <1> USE DEF control
  <1>1. PlaceInv'
    BY DEF IndInv, PlaceInv
  <1>2. \A o : Complete(o)' = Complete(o) /\ Value(o)' = Value(o)
    BY DEF Complete, Value
  <1>3. calls = <<"shiftAndInit">>
    BY ScriptFacts DEF IndInv, PlaceInv
  <1>4. DataInv'
    BY <1>2, <1>3 DEF IndInv, DataInv, OtfFresh, HelpersFresh
  <1>5. ApplyInv' /\ GradInv' /\ MetricInv' /\ HelpersInv'
    BY DEF ApplyInv, GradInv, MetricInv, HelpersInv, InCall
  <1>6. ShiftInv'
    BY DEF ShiftInv
  <1> QED BY <1>1, <1>4, <1>5, <1>6 DEF IndInv

\* Tasks of images and handlers of objects are different.
LEMMA ShiftTasksDiffer ==
  \A i \in Images : \A o \in Objects : \A kind \in {"adjust", "initialize"} :
    ImageTask(kind, i) # ObjectTask("reInitialize", o)
  BY SimpleTasks

\* What is open in shiftAndInit is finite.
LEMMA ShiftSizes ==
  /\ IsFiniteSet(OpenImages) /\ Cardinality(OpenImages) \in Nat
  /\ \A kind : \A o \in Objects :
       /\ IsFiniteSet(ImagesOfAt(kind, o)) /\ Cardinality(ImagesOfAt(kind, o)) \in Nat
       /\ Cardinality(ImagesOfAt(kind, o)) = 0 <=> ImagesOfAt(kind, o) = {}
  <1>1. IsFiniteSet(OpenImages)
    BY SolverAssumption, FS_Subset DEF OpenImages
  <1>2. Cardinality(OpenImages) \in Nat
    BY <1>1, FS_CardinalityType
  <1>3. ASSUME NEW kind, NEW o \in Objects
        PROVE  /\ IsFiniteSet(ImagesOfAt(kind, o)) /\ Cardinality(ImagesOfAt(kind, o)) \in Nat
               /\ Cardinality(ImagesOfAt(kind, o)) = 0 <=> ImagesOfAt(kind, o) = {}
    <2>1. IsFiniteSet(ImagesOfAt(kind, o))
      BY ChunkFacts, FS_Subset DEF ImagesOfAt
    <2> QED BY <2>1, FS_CardinalityType, FS_EmptySet
  <1> QED BY <1>1, <1>2, <1>3

\* An image is shifted or not; the last one of an object starts the object's handler.
LEMMA ImageAdjusted ==
  ASSUME ShiftCall, NEW i \in Images, ImageTask("adjust", i) \in Live,
         NEW o \in Objects, o = ObjectOf[i], NEW n, n = Cardinality(ImagesOfAt("adjust", o)),
         NEW N, N = IF n = 1 THEN {ObjectTask("reInitialize", o)} ELSE {},
         Live' = (Live \ {ImageTask("adjust", i)}) \cup N,
         objectWatch \in [Objects -> Watch({"reInitialize", "calcMetric", "calcHelpers"})],
         objectWatch' = [objectWatch EXCEPT ![o] = step(@, 1)],
         \/ UNCHANGED <<stale, shifted>>
         \/ stale' = stale \cup {i} /\ shifted' = shifted \cup {o},
         UNCHANGED <<left, reset, ftSum, solverWatch>>
  PROVE  ShiftCall'
  <1>0. /\ IsFiniteSet(ImagesOfAt("adjust", o)) /\ n \in Nat
        /\ n = 0 <=> ImagesOfAt("adjust", o) = {}
    BY ShiftSizes
  <1>1. i \in ImagesOfAt("adjust", o) /\ i \in ImagesOf(o)
    BY ChunkFacts DEF ImagesOfAt
  <1>2. ShiftObject(o) /\ Adjusting(o)
    BY <1>1 DEF ShiftCall, Adjusting
  <1>3. o \notin left /\ ~Renewed(o) /\ n \in Nat \ {0} /\ Expects(objectWatch[o], n, "reInitialize")
    BY <1>0, <1>1, <1>2 DEF ShiftObject
  <1>4. \A l \in N : l = ObjectTask("reInitialize", o)
    OBVIOUS
  <1>5. \A j \in Images : /\ ImageTask("adjust", j) \in Live' <=> ImageTask("adjust", j) \in Live /\ j # i
                          /\ ImageTask("initialize", j) \in Live' <=> ImageTask("initialize", j) \in Live
    BY <1>4, DifferentTasks, ShiftTasksDiffer
  <1>6. \A p \in Objects \ {o} : ObjectTask("reInitialize", p) \in Live' <=> ObjectTask("reInitialize", p) \in Live
    BY <1>4, DifferentTasks, ShiftTasksDiffer
  <1>7. /\ ImagesOfAt("adjust", o)' = ImagesOfAt("adjust", o) \ {i}
        /\ \A p \in Objects \ {o} : ImagesOfAt("adjust", p)' = ImagesOfAt("adjust", p)
        /\ \A p \in Objects : ImagesOfAt("initialize", p)' = ImagesOfAt("initialize", p)
    <2>1. \A p \in Objects : ImagesOf(p) \subseteq Images
      BY ChunkFacts
    <2>2. \A p \in Objects \ {o} : i \notin ImagesOf(p)
      BY <1>1, ChunkFacts
    <2> QED BY <1>5, <2>1, <2>2 DEF ImagesOfAt
  <1>8. Cardinality(ImagesOfAt("adjust", o)') = n - 1
    BY <1>0, <1>1, <1>7, FS_RemoveElement
  <1>9. /\ Renewed(o)' <=> n = 1
        /\ \A p \in Objects \ {o} : Renewed(p)' <=> Renewed(p)
    BY <1>3, <1>6 DEF Renewed
  <1>10. /\ Adjusting(o)'
         /\ \A p \in Objects : Adjusting(p)' <=> Adjusting(p)
    <2>1. Adjusting(o)'
      <3>1. CASE n = 1
        BY <1>9, <3>1 DEF Adjusting
      <3>2. CASE n # 1
        <4>1. Cardinality(ImagesOfAt("adjust", o)') # 0
          BY <1>3, <1>8, <3>2
        <4>2. ImagesOfAt("adjust", o)' # {}
          BY <4>1, FS_EmptySet
        <4> QED BY <4>2 DEF Adjusting
      <3> QED BY <3>1, <3>2
    <2> QED BY <1>2, <1>7, <1>9, <2>1 DEF Adjusting
  <1>11. OpenImages' = OpenImages
    BY <1>7, <1>10, ChunkFacts DEF OpenImages
  <1>12. \A k \in Live' : ShiftTask(k)
    BY <1>4 DEF ShiftCall, ShiftTask
  <1>13. ASSUME NEW p \in Objects
         PROVE  ShiftObject(p)'
    <2>1. CASE p = o
      <3>1. PICK H : H = {"reInitialize", "calcMetric", "calcHelpers"}
        OBVIOUS
      <3>2. objectWatch[o] \in Watch(H)
        BY <3>1
      <3>3. Expects(step(objectWatch[o], 1), n - 1, "reInitialize")
        BY <1>3, <3>2, StepExpects
      <3>4. objectWatch'[o] = step(objectWatch[o], 1)
        OBVIOUS
      <3>5. Expects(objectWatch[o], Cardinality(ImagesOfAt("adjust", o)), "reInitialize")'
        BY <1>8, <3>3, <3>4 DEF Expects
      <3>6. Renewed(o)' => ImagesOfAt("adjust", o)' = {}
        <4>1. IsFiniteSet(ImagesOfAt("adjust", o)')
          BY <1>0, <1>7, FS_Subset
        <4> QED BY <1>8, <1>9, <4>1, FS_EmptySet
      <3>7. /\ ImagesOfAt("initialize", o)' = {}
            /\ o \in shifted' \/ stale' \cap ImagesOf(o) = {}
            /\ IF reset THEN o \in shifted' ELSE ftSum[o] = ImagesOf(o)
        BY <1>2, <1>3, <1>7 DEF ShiftObject
      <3> QED BY <1>3, <1>10, <2>1, <3>5, <3>6, <3>7 DEF ShiftObject
    <2>2. CASE p # o
      <3>1. objectWatch'[p] = objectWatch[p]
        BY <2>2
      <3>2. stale' \cap ImagesOf(p) = stale \cap ImagesOf(p) /\ (p \in shifted' <=> p \in shifted)
        BY <1>1, <2>2, ChunkFacts
      <3>3. ShiftObject(p)
        BY DEF ShiftCall
      <3> QED BY <1>7, <1>9, <1>10, <2>2, <3>1, <3>2, <3>3 DEF ShiftObject, Expects
    <2> QED BY <2>1, <2>2
  <1>14. Waits(solverWatch, Cardinality(OpenImages))'
    BY <1>11 DEF ShiftCall, Waits
  <1>15. \A k : ShiftTask(k)' <=> ShiftTask(k)
    BY DEF ShiftTask
  <1> QED BY <1>12, <1>13, <1>14, <1>15 DEF ShiftCall

\* A task of shiftAndInit for one image.
LEMMA ShiftImageTask ==
  ASSUME IndInv, NEW k \in Live, NEW kind \in {"adjust", "initialize"}, k.at = kind
  PROVE  /\ at # "free" /\ calls # <<>> /\ Head(calls) = "shiftAndInit" /\ ShiftCall
         /\ \E i \in Images : k = ImageTask(kind, i) /\ k.imgs = {i} /\ k.obj = ObjectOf[i] /\ ObjectOf[i] \in Objects
  <1>1. at # "free" /\ calls # <<>> /\ Head(calls) = "shiftAndInit"
    BY CallOfTask
  <1>2. ShiftCall
    BY <1>1 DEF IndInv, ShiftInv, InCall
  <1>3. ShiftTask(k)
    BY <1>2 DEF ShiftCall
  <1>4. CASE \E o \in Objects : k = ObjectTask("reInitialize", o)
    <2>1. k.at = "reInitialize"
      BY <1>4, SimpleTasks
    <2> QED BY <2>1
  <1>5. CASE \E i \in Images, kd \in {"adjust", "initialize"} : k = ImageTask(kd, i)
    <2>1. PICK i \in Images, kd \in {"adjust", "initialize"} : k = ImageTask(kd, i)
      BY <1>5
    <2>2. k.at = kd /\ k.imgs = {i} /\ k.obj = ObjectOf[i]
      BY <2>1, SimpleTasks
    <2>3. ObjectOf[i] \in Objects
      BY ChunkFacts
    <2> QED BY <1>1, <1>2, <2>1, <2>2, <2>3
  <1> QED BY <1>3, <1>4, <1>5 DEF ShiftTask

\* An image is shifted or not.
LEMMA StepAdjustShifts ==
  ASSUME IndInv, NEW t \in Threads, AdjustShifts(t)
  PROVE  IndInv'
  <1> USE DEF control, watches
  <1>0. TypeOK /\ PoolInv /\ th \in [Threads -> Tasks] /\ DataInv
    BY DEF IndInv, TypeOK
  <1>1. Busy(th[t]) /\ th[t].at = "adjust" /\ posted' = posted
    BY DEF AdjustShifts, Busy
  <1>2. PICK k \in Live : k = th[t]
    BY <1>1, LiveIs
  <1>3. /\ at # "free" /\ calls # <<>> /\ Head(calls) = "shiftAndInit" /\ ShiftCall
        /\ \E i \in Images : k = ImageTask("adjust", i) /\ k.imgs = {i} /\ k.obj = ObjectOf[i] /\ ObjectOf[i] \in Objects
    BY <1>1, <1>2, ShiftImageTask
  <1>4. PICK i \in Images : k = ImageTask("adjust", i) /\ k.imgs = {i} /\ k.obj = ObjectOf[i] /\ ObjectOf[i] \in Objects
    BY <1>3
  <1>5. PICK o \in Objects : o = ObjectOf[i]
    BY <1>4
  <1>6. PICK n : n = Cardinality(ImagesOfAt("adjust", o))
    OBVIOUS
  <1>7. n \in Nat \ {0} /\ Expects(objectWatch[o], n, "reInitialize") /\ ~Renewed(o)
    <2>1. i \in ImagesOfAt("adjust", o)
      BY <1>4, <1>5, ChunkFacts DEF ImagesOfAt
    <2>2. n \in Nat /\ (n = 0 <=> ImagesOfAt("adjust", o) = {})
      BY <1>6, ShiftSizes
    <2>3. ShiftObject(o)
      BY <1>3 DEF ShiftCall
    <2> QED BY <1>6, <2>1, <2>2, <2>3 DEF ShiftObject, Adjusting
  <1>8. Completer(objectWatch[o], 1) = IF n = 1 THEN "reInitialize" ELSE NoHandler
    <2>1. PICK H : H = {"reInitialize", "calcMetric", "calcHelpers"}
      OBVIOUS
    <2>2. objectWatch[o] \in Watch(H)
      BY <1>0, <2>1 DEF TypeOK
    <2> QED BY <1>7, <2>2, StepExpects
  <1>9. PICK q : q = ObjectTask("reInitialize", o)
    OBVIOUS
  <1>10. q \in Tasks /\ Busy(q) /\ q \notin Live /\ q = [Idle EXCEPT !.at = "reInitialize", !.obj = o]
    <2>1. q \in Tasks /\ Busy(q)
      BY <1>9 DEF ObjectTask, Task, Tasks, Busy
    <2> QED BY <1>7, <1>9, <2>1, HandlerTask DEF Renewed
  <1>11. objectWatch' = [objectWatch EXCEPT ![o] = step(@, 1)]
    BY <1>2, <1>4, <1>5 DEF AdjustShifts, CountObject
  <1>12. th' = [th EXCEPT ![t] = IF n = 1 THEN q ELSE Idle]
    <2>1. CASE n = 1
      BY <1>2, <1>4, <1>5, <1>8, <1>10, <2>1 DEF AdjustShifts, CountObject, NoHandler
    <2>2. CASE n # 1
      BY <1>2, <1>4, <1>5, <1>8, <2>2 DEF AdjustShifts, CountObject
    <2> QED BY <2>1, <2>2
  <1>13. PICK N : N = IF n = 1 THEN {q} ELSE {}
    OBVIOUS
  <1>14. PoolInv' /\ Live' = (Live \ {k}) \cup N /\ th' \in [Threads -> Tasks]
    <2>1. CASE n = 1
      <3>1. th' = [th EXCEPT ![t] = q]
        BY <1>12, <2>1
      <3>2. PoolInv' /\ Live' = (Live \ {k}) \cup {q}
        BY <1>0, <1>1, <1>2, <1>10, <3>1, TaskMoves
      <3> QED BY <1>0, <1>10, <1>13, <2>1, <3>1, <3>2
    <2>2. CASE n # 1
      <3>1. th' = [th EXCEPT ![t] = Idle]
        BY <1>12, <2>2
      <3>2. PoolInv' /\ Live' = Live \ {k} /\ th' \in [Threads -> Tasks]
        BY <1>1, <1>2, <3>1, ThreadDone
      <3> QED BY <1>13, <2>2, <3>2
    <2> QED BY <2>1, <2>2
  <1>15. /\ \/ UNCHANGED <<stale, shifted>>
            \/ stale' = stale \cup {i} /\ shifted' = shifted \cup {o}
         /\ UNCHANGED <<left, reset, ftSum, solverWatch>>
    BY <1>2, <1>4, <1>5 DEF AdjustShifts
  <1>16. ShiftCall'
    <2>1. objectWatch \in [Objects -> Watch({"reInitialize", "calcMetric", "calcHelpers"})]
      BY <1>0 DEF TypeOK
    <2>2. N = IF n = 1 THEN {ObjectTask("reInitialize", o)} ELSE {}
      BY <1>9, <1>13
    <2>3. ImageTask("adjust", i) \in Live /\ Live' = (Live \ {ImageTask("adjust", i)}) \cup N
      BY <1>4, <1>14
    <2> QED BY <1>3, <1>5, <1>6, <1>11, <1>15, <2>1, <2>2, <2>3, ImageAdjusted
  <1>17. TypeOK'
    <2>1. objectWatch' \in [Objects -> Watch({"reInitialize", "calcMetric", "calcHelpers"})]
      BY <1>0, <1>11, ObjectCounts
    <2>2. stale' \subseteq Images /\ shifted' \subseteq Objects
      BY <1>0, <1>15 DEF TypeOK
    <2> QED BY <1>0, <1>14, <2>1, <2>2 DEF TypeOK, AdjustShifts
  <1>18. \A p \in Objects : ftSum'[p] \subseteq ImagesOf(p)
    BY <1>0, <1>15 DEF DataInv
  <1>19. UNCHANGED <<control, alpha, otf, PQ, helpers, grad, sum, metric>>
    BY DEF AdjustShifts
  <1> QED BY <1>3, <1>14, <1>16, <1>17, <1>18, <1>19, ShiftStep

\* An image's FT is made.
LEMMA ImageInitialized ==
  ASSUME ShiftCall, NEW i \in Images, ImageTask("initialize", i) \in Live,
         NEW o \in Objects, o = ObjectOf[i],
         Live' = Live \ {ImageTask("initialize", i)},
         solverWatch \in Watch({}), solverWatch' = step(solverWatch, 1),
         ftSum \in [Objects -> SUBSET Images],
         stale' = stale \ {i}, ftSum' = [ftSum EXCEPT ![o] = @ \cup {i}],
         UNCHANGED <<left, reset, shifted, objectWatch>>
  PROVE  ShiftCall'
  <1>1. i \in ImagesOfAt("initialize", o) /\ i \in ImagesOf(o)
    BY ChunkFacts DEF ImagesOfAt
  <1>2. ShiftObject(o)
    BY DEF ShiftCall
  <1>3. o \notin left /\ ~Adjusting(o)
    BY <1>1, <1>2 DEF ShiftObject
  <1>4. \A j \in Images : /\ ImageTask("adjust", j) \in Live' <=> ImageTask("adjust", j) \in Live
                          /\ ImageTask("initialize", j) \in Live' <=> ImageTask("initialize", j) \in Live /\ j # i
    BY DifferentTasks
  <1>5. \A p \in Objects : ObjectTask("reInitialize", p) \in Live' <=> ObjectTask("reInitialize", p) \in Live
    BY ShiftTasksDiffer
  <1>6. /\ \A p \in Objects : ImagesOfAt("adjust", p)' = ImagesOfAt("adjust", p)
        /\ \A p \in Objects \ {o} : ImagesOfAt("initialize", p)' = ImagesOfAt("initialize", p)
        /\ ImagesOfAt("initialize", o)' = ImagesOfAt("initialize", o) \ {i}
    <2>1. \A p \in Objects : ImagesOf(p) \subseteq Images
      BY ChunkFacts
    <2>2. \A p \in Objects \ {o} : i \notin ImagesOf(p)
      BY <1>1, ChunkFacts
    <2> QED BY <1>4, <2>1, <2>2 DEF ImagesOfAt
  <1>7. \A p \in Objects : (Renewed(p)' <=> Renewed(p)) /\ (Adjusting(p)' <=> Adjusting(p))
    BY <1>5, <1>6 DEF Renewed, Adjusting
  <1>8. OpenImages' = OpenImages \ {i} /\ i \in OpenImages
    <2>1. i \in OpenImages /\ i \notin OpenImages'
      BY <1>1, <1>3, <1>6, <1>7 DEF OpenImages
    <2>2. \A j \in Images \ {i} : j \in OpenImages' <=> j \in OpenImages
      <3> SUFFICES ASSUME NEW j \in Images \ {i}
                   PROVE  j \in OpenImages' <=> j \in OpenImages
        OBVIOUS
      <3>1. ObjectOf[j] \in Objects
        BY ChunkFacts
      <3>2. j \in ImagesOfAt("initialize", ObjectOf[j])' <=> j \in ImagesOfAt("initialize", ObjectOf[j])
        BY <1>6, <3>1
      <3> QED BY <1>7, <3>1, <3>2 DEF OpenImages
    <2>3. OpenImages' \subseteq Images /\ OpenImages \subseteq Images
      BY DEF OpenImages
    <2>4. \A j : j \in OpenImages' <=> j \in OpenImages \ {i}
      BY <2>1, <2>2, <2>3
    <2> QED BY <2>1, <2>4
  <1>9. \A k \in Live' : ShiftTask(k)'
    BY DEF ShiftCall, ShiftTask
  <1>10. ASSUME NEW p \in Objects
         PROVE  ShiftObject(p)'
    <2>1. CASE p = o
      <3>1. ftSum'[o] = ftSum[o] \cup {i}
        OBVIOUS
      <3>2. stale' \cap ImagesOf(o) \subseteq ImagesOfAt("initialize", o)'
        BY <1>2, <1>3, <1>6 DEF ShiftObject
      <3>3. ImagesOf(o) \ ftSum'[o] \subseteq ImagesOfAt("initialize", o)'
        BY <1>2, <1>3, <1>6, <3>1 DEF ShiftObject
      <3>4. Expects(objectWatch[o], Cardinality(ImagesOfAt("adjust", o)), "reInitialize")'
        BY <1>2, <1>3, <1>6 DEF ShiftObject, Expects
      <3>5. ~Adjusting(o)' /\ ~Renewed(o)' /\ o \notin left'
        BY <1>3, <1>7 DEF Adjusting
      <3> QED BY <2>1, <3>2, <3>3, <3>4, <3>5 DEF ShiftObject
    <2>2. CASE p # o
      <3>1. ftSum'[p] = ftSum[p]
        BY <2>2
      <3>2. stale' \cap ImagesOf(p) = stale \cap ImagesOf(p)
        BY <1>1, <2>2, ChunkFacts
      <3>3. ShiftObject(p)
        BY DEF ShiftCall
      <3> QED BY <1>6, <1>7, <2>2, <3>1, <3>2, <3>3 DEF ShiftObject, Expects
    <2> QED BY <2>1, <2>2
  <1>11. Waits(solverWatch, Cardinality(OpenImages))'
    <2>1. IsFiniteSet(OpenImages)
      BY ShiftSizes
    <2>2. PICK n : n = Cardinality(OpenImages)
      OBVIOUS
    <2>3. n \in Nat /\ n # 0 /\ Cardinality(OpenImages') = n - 1
      BY <1>8, <2>1, <2>2, FS_CardinalityType, FS_EmptySet, FS_RemoveElement
    <2>4. 1 \in 1..n
      BY <2>3
    <2>5. PICK H : H = {}
      OBVIOUS
    <2>6. Waits(solverWatch, n) /\ solverWatch \in Watch(H)
      BY <2>2, <2>5 DEF ShiftCall
    <2>7. Waits(step(solverWatch, 1), n - 1)
      BY <2>3, <2>4, <2>6, StepWaits
    <2>8. Waits(solverWatch', Cardinality(OpenImages'))
      BY <2>3, <2>7
    <2> QED BY <2>8 DEF Waits
  <1> QED BY <1>9, <1>10, <1>11 DEF ShiftCall

\* SubImage::initialize.
LEMMA StepInitialize ==
  ASSUME IndInv, NEW t \in Threads, Initialize(t)
  PROVE  IndInv'
  <1> USE DEF control, watches
  <1>0. TypeOK /\ PoolInv /\ th \in [Threads -> Tasks] /\ DataInv /\ ftSum \in [Objects -> SUBSET Images]
    BY DEF IndInv, TypeOK
  <1>1. Busy(th[t]) /\ th[t].at = "initialize" /\ posted' = posted /\ th' = [th EXCEPT ![t] = Idle]
    BY DEF Initialize, Busy
  <1>2. PICK k \in Live : k = th[t]
    BY <1>1, LiveIs
  <1>3. /\ at # "free" /\ calls # <<>> /\ Head(calls) = "shiftAndInit" /\ ShiftCall
        /\ \E i \in Images : k = ImageTask("initialize", i) /\ k.imgs = {i} /\ k.obj = ObjectOf[i] /\ ObjectOf[i] \in Objects
    BY <1>1, <1>2, ShiftImageTask
  <1>4. PICK i \in Images : k = ImageTask("initialize", i) /\ k.imgs = {i} /\ k.obj = ObjectOf[i] /\ ObjectOf[i] \in Objects
    BY <1>3
  <1>5. PICK o \in Objects : o = ObjectOf[i]
    BY <1>4
  <1>6. PoolInv' /\ Live' = Live \ {k} /\ th' \in [Threads -> Tasks] /\ posted' \subseteq Tasks
    BY <1>1, <1>2, ThreadDone
  <1>7. solverWatch \in Watch({}) /\ solverWatch' = step(solverWatch, 1) /\ solverWatch' \in Watch({})
    BY <1>0, SolverCounts DEF Initialize, CountSolver, TypeOK
  <1>8. /\ stale' = stale \ {i} /\ ftSum' = [ftSum EXCEPT ![o] = @ \cup {i}]
        /\ UNCHANGED <<left, reset, shifted, objectWatch>>
    BY <1>2, <1>4, <1>5 DEF Initialize
  <1>9. ShiftCall'
    <2>1. ImageTask("initialize", i) \in Live /\ Live' = Live \ {ImageTask("initialize", i)}
      BY <1>4, <1>6
    <2> QED BY <1>0, <1>3, <1>5, <1>7, <1>8, <2>1, ImageInitialized
  <1>10. \A p \in Objects : ftSum'[p] \subseteq ImagesOf(p)
    BY <1>0, <1>5, <1>8, ChunkFacts DEF DataInv
  <1>11. TypeOK'
    <2>1. ftSum' \in [Objects -> SUBSET Images] /\ stale' \subseteq Images
      BY <1>0, <1>8 DEF TypeOK
    <2> QED BY <1>0, <1>6, <1>7, <2>1 DEF TypeOK, Initialize
  <1>12. UNCHANGED <<control, alpha, otf, PQ, helpers, grad, sum, metric>>
    BY DEF Initialize
  <1> QED BY <1>3, <1>6, <1>9, <1>10, <1>11, <1>12, ShiftStep

\* Tasks for a set of images.
LEMMA TasksOfImages ==
  ASSUME NEW kind \in {"apply", "grad", "adjust", "initialize"}, NEW S \in SUBSET Images,
         NEW P, P = {ImageTask(kind, i) : i \in S}
  PROVE  IsFiniteSet(P) /\ P \subseteq Tasks /\ \A p \in P : Busy(p)
  <1>1. \A i \in S : ImageTask(kind, i) \in Tasks /\ Busy(ImageTask(kind, i))
    BY ChunkFacts DEF ImageTask, Task, Tasks, Busy
  <1>2. PICK g : g = [i \in S |-> ImageTask(kind, i)]
    OBVIOUS
  <1>3. g \in Surjection(S, P)
    BY <1>2 DEF Surjection
  <1>4. IsFiniteSet(S)
    BY SolverAssumption, FS_Subset
  <1>5. IsFiniteSet(P)
    BY <1>3, <1>4, FS_Surjection
  <1> QED BY <1>1, <1>5

\* Tasks for the images of an object.
LEMMA TasksOfObject ==
  ASSUME NEW kind, NEW o \in Objects
  PROVE  {Task(kind, o, {i}) : i \in ImagesOf(o)} = {ImageTask(kind, i) : i \in ImagesOf(o)}
  BY DEF ImagesOf, ImageTask

\* The handler of an object whose images were adjusted.
LEMMA RenewedFacts ==
  ASSUME ShiftCall, NEW o \in Objects, ObjectTask("reInitialize", o) \in Live
  PROVE  /\ o \notin left /\ Renewed(o) /\ Adjusting(o)
         /\ ImagesOfAt("adjust", o) = {} /\ ImagesOfAt("initialize", o) = {}
         /\ o \in shifted \/ (stale \cap ImagesOf(o) = {} /\ ~reset /\ ftSum[o] = ImagesOf(o))
         /\ ImagesOf(o) \subseteq OpenImages
  <1>1. ShiftObject(o) /\ Renewed(o) /\ Adjusting(o)
    BY DEF ShiftCall, Renewed, Adjusting
  <1>2. o \notin left
    BY <1>1 DEF ShiftObject
  <1>3. ImagesOf(o) \subseteq OpenImages
    BY <1>1 DEF ImagesOf, OpenImages
  <1> QED BY <1>1, <1>2, <1>3 DEF ShiftObject

\* The images of a shifted object are posted.
LEMMA ImagesRenewed ==
  ASSUME ShiftCall, NEW o \in Objects, ObjectTask("reInitialize", o) \in Live,
         NEW P, P = {ImageTask("initialize", i) : i \in ImagesOf(o)},
         Live' = (Live \ {ObjectTask("reInitialize", o)}) \cup P,
         objectWatch' = [objectWatch EXCEPT ![o] = clear(@)],
         DOMAIN objectWatch = Objects, ftSum \in [Objects -> SUBSET Images],
         ftSum' = IF reset THEN [ftSum EXCEPT ![o] = {}] ELSE ftSum,
         UNCHANGED <<left, reset, stale, shifted, solverWatch>>
  PROVE  ShiftCall'
  <1>1. /\ o \notin left /\ Renewed(o) /\ Adjusting(o)
        /\ ImagesOfAt("adjust", o) = {} /\ ImagesOfAt("initialize", o) = {}
        /\ ImagesOf(o) \subseteq OpenImages
    BY RenewedFacts
  <1>2. \A p \in Objects : ImagesOf(p) \subseteq Images
    BY ChunkFacts
  <1>3. \A j \in Images : /\ ImageTask("adjust", j) \in Live' <=> ImageTask("adjust", j) \in Live
                          /\ ImageTask("initialize", j) \in Live' <=> ImageTask("initialize", j) \in Live \/ j \in ImagesOf(o)
    BY <1>2, DifferentTasks, ShiftTasksDiffer
  <1>4. \A p \in Objects : ObjectTask("reInitialize", p) \in Live' <=> ObjectTask("reInitialize", p) \in Live /\ p # o
    BY <1>2, DifferentTasks, ShiftTasksDiffer
  <1>5. /\ \A p \in Objects : ImagesOfAt("adjust", p)' = ImagesOfAt("adjust", p)
        /\ \A p \in Objects \ {o} : ImagesOfAt("initialize", p)' = ImagesOfAt("initialize", p)
        /\ ImagesOfAt("initialize", o)' = ImagesOf(o)
    <2>1. \A p \in Objects \ {o} : \A j \in ImagesOf(p) : j \notin ImagesOf(o)
      BY ChunkFacts
    <2> QED BY <1>2, <1>3, <2>1 DEF ImagesOfAt
  <1>6. /\ ~Renewed(o)' /\ ~Adjusting(o)'
        /\ \A p \in Objects \ {o} : (Renewed(p)' <=> Renewed(p)) /\ (Adjusting(p)' <=> Adjusting(p))
    BY <1>1, <1>4, <1>5 DEF Renewed, Adjusting
  <1>7. OpenImages' = OpenImages
    <2>1. \A j \in Images : j \in OpenImages' <=> j \in OpenImages
      <3> SUFFICES ASSUME NEW j \in Images
                   PROVE  j \in OpenImages' <=> j \in OpenImages
        OBVIOUS
      <3>1. ObjectOf[j] \in Objects /\ j \in ImagesOf(ObjectOf[j])
        BY ChunkFacts
      <3>2. CASE ObjectOf[j] = o
        <4>1. j \in OpenImages
          BY <1>1, <3>1, <3>2
        <4>2. j \in OpenImages'
          BY <1>5, <3>1, <3>2 DEF OpenImages
        <4> QED BY <4>1, <4>2
      <3>3. CASE ObjectOf[j] # o
        BY <1>5, <1>6, <3>1, <3>3 DEF OpenImages
      <3> QED BY <3>2, <3>3
    <2>2. OpenImages' \subseteq Images /\ OpenImages \subseteq Images
      BY DEF OpenImages
    <2> QED BY <2>1, <2>2
  <1>8. \A k \in Live' : ShiftTask(k)'
    <2> SUFFICES ASSUME NEW k \in Live'
                 PROVE  ShiftTask(k)
      BY DEF ShiftTask
    <2>1. CASE k \in P
      BY <1>2, <2>1 DEF ShiftTask
    <2>2. CASE k \in Live
      BY <2>2 DEF ShiftCall
    <2> QED BY <2>1, <2>2
  <1>9. ASSUME NEW p \in Objects
        PROVE  ShiftObject(p)'
    <2>1. CASE p = o
      <3>1. Cardinality(ImagesOfAt("adjust", o)') = 0
        BY <1>1, <1>5, FS_EmptySet
      <3>2. Expects(objectWatch[o], Cardinality(ImagesOfAt("adjust", o)), "reInitialize")'
        BY <3>1 DEF Expects
      <3> QED BY <1>1, <1>5, <1>6, <2>1, <3>2 DEF ShiftObject
    <2>2. CASE p # o
      <3>1. ftSum'[p] = ftSum[p] /\ objectWatch'[p] = objectWatch[p]
        BY <2>2
      <3>2. ShiftObject(p)
        BY DEF ShiftCall
      <3> QED BY <1>5, <1>6, <2>2, <3>1, <3>2 DEF ShiftObject, Expects
    <2> QED BY <2>1, <2>2
  <1>10. Waits(solverWatch, Cardinality(OpenImages))'
    BY <1>7 DEF ShiftCall, Waits
  <1> QED BY <1>8, <1>9, <1>10 DEF ShiftCall

\* The images of an object that was not shifted are counted at once.
LEMMA ImagesKept ==
  ASSUME ShiftCall, NEW o \in Objects, ObjectTask("reInitialize", o) \in Live, o \notin shifted,
         Live' = Live \ {ObjectTask("reInitialize", o)},
         objectWatch' = [objectWatch EXCEPT ![o] = clear(@)], DOMAIN objectWatch = Objects,
         solverWatch \in Watch({}), solverWatch' = step(solverWatch, Cardinality(ImagesOf(o))),
         UNCHANGED <<left, reset, stale, shifted, ftSum>>
  PROVE  ShiftCall'
  <1>1. /\ o \notin left /\ Renewed(o) /\ Adjusting(o)
        /\ ImagesOfAt("adjust", o) = {} /\ ImagesOfAt("initialize", o) = {}
        /\ stale \cap ImagesOf(o) = {} /\ ftSum[o] = ImagesOf(o)
        /\ ImagesOf(o) \subseteq OpenImages
    BY RenewedFacts
  <1>2. \A p \in Objects : ImagesOf(p) \subseteq Images
    BY ChunkFacts
  <1>3. \A j \in Images : \A kind \in {"adjust", "initialize"} : ImageTask(kind, j) \in Live' <=> ImageTask(kind, j) \in Live
    BY ShiftTasksDiffer
  <1>4. \A p \in Objects : ObjectTask("reInitialize", p) \in Live' <=> ObjectTask("reInitialize", p) \in Live /\ p # o
    BY DifferentTasks
  <1>5. \A p \in Objects : /\ ImagesOfAt("adjust", p)' = ImagesOfAt("adjust", p)
                           /\ ImagesOfAt("initialize", p)' = ImagesOfAt("initialize", p)
    BY <1>2, <1>3 DEF ImagesOfAt
  <1>6. /\ ~Renewed(o)' /\ ~Adjusting(o)'
        /\ \A p \in Objects \ {o} : (Renewed(p)' <=> Renewed(p)) /\ (Adjusting(p)' <=> Adjusting(p))
    BY <1>1, <1>4, <1>5 DEF Renewed, Adjusting
  <1>7. OpenImages' = OpenImages \ ImagesOf(o)
    <2>1. \A j \in Images : j \in OpenImages' <=> j \in OpenImages /\ j \notin ImagesOf(o)
      <3> SUFFICES ASSUME NEW j \in Images
                   PROVE  j \in OpenImages' <=> j \in OpenImages /\ j \notin ImagesOf(o)
        OBVIOUS
      <3>1. ObjectOf[j] \in Objects /\ j \in ImagesOf(ObjectOf[j])
        BY ChunkFacts
      <3>2. CASE ObjectOf[j] = o
        <4>1. j \notin ImagesOfAt("initialize", o)'
          BY <1>1, <1>5
        <4>2. j \notin OpenImages'
          BY <1>1, <1>6, <3>2, <4>1 DEF OpenImages
        <4> QED BY <3>1, <3>2, <4>2
      <3>3. CASE ObjectOf[j] # o
        <4>1. j \notin ImagesOf(o)
          BY <3>1, <3>3, ChunkFacts
        <4> QED BY <1>5, <1>6, <3>1, <3>3, <4>1 DEF OpenImages
      <3> QED BY <3>2, <3>3
    <2>2. OpenImages' \subseteq Images /\ OpenImages \subseteq Images
      BY DEF OpenImages
    <2>3. \A j : j \in OpenImages' <=> j \in OpenImages \ ImagesOf(o)
      BY <2>1, <2>2
    <2> QED BY <2>3
  <1>8. \A k \in Live' : ShiftTask(k)'
    BY DEF ShiftCall, ShiftTask
  <1>9. ASSUME NEW p \in Objects
        PROVE  ShiftObject(p)'
    <2>1. CASE p = o
      <3>1. Cardinality(ImagesOfAt("adjust", o)') = 0
        BY <1>1, <1>5, FS_EmptySet
      <3>2. Expects(objectWatch[o], Cardinality(ImagesOfAt("adjust", o)), "reInitialize")'
        BY <3>1 DEF Expects
      <3> QED BY <1>1, <1>5, <1>6, <2>1, <3>2 DEF ShiftObject
    <2>2. CASE p # o
      <3>1. objectWatch'[p] = objectWatch[p]
        BY <2>2
      <3>2. ShiftObject(p)
        BY DEF ShiftCall
      <3> QED BY <1>5, <1>6, <2>2, <3>1, <3>2 DEF ShiftObject, Expects
    <2> QED BY <2>1, <2>2
  <1>10. Waits(solverWatch, Cardinality(OpenImages))'
    <2>1. IsFiniteSet(OpenImages) /\ IsFiniteSet(ImagesOf(o)) /\ ImagesOf(o) # {}
      BY ShiftSizes, ChunkFacts
    <2>2. PICK n, m : n = Cardinality(OpenImages) /\ m = Cardinality(ImagesOf(o))
      OBVIOUS
    <2>3. n \in Nat /\ m \in Nat /\ m # 0 /\ m <= n
      BY <1>1, <2>1, <2>2, FS_CardinalityType, FS_EmptySet, FS_Subset
    <2>4. m \in 1..n
      BY <2>3
    <2>5. Cardinality(OpenImages') = n - m
      <3>1. OpenImages \cap ImagesOf(o) = ImagesOf(o)
        BY <1>1
      <3>2. Cardinality(OpenImages \ ImagesOf(o)) = Cardinality(OpenImages) - Cardinality(OpenImages \cap ImagesOf(o))
        BY <2>1, FS_Difference
      <3> QED BY <1>7, <2>2, <3>1, <3>2
    <2>6. PICK H : H = {}
      OBVIOUS
    <2>7. Waits(solverWatch, n) /\ solverWatch \in Watch(H)
      BY <2>2, <2>6 DEF ShiftCall
    <2>8. Waits(step(solverWatch, m), n - m)
      BY <2>3, <2>4, <2>7, StepWaits
    <2>9. Waits(solverWatch', Cardinality(OpenImages'))
      BY <2>2, <2>5, <2>8
    <2> QED BY <2>9 DEF Waits
  <1> QED BY <1>8, <1>9, <1>10 DEF ShiftCall

\* Object::reInitialize.
LEMMA StepReInitialize ==
  ASSUME IndInv, NEW t \in Threads, ReInitialize(t)
  PROVE  IndInv'
  <1> USE DEF control, watches
  <1>0. TypeOK /\ PoolInv /\ th \in [Threads -> Tasks] /\ DataInv /\ ftSum \in [Objects -> SUBSET Images]
    BY DEF IndInv, TypeOK
  <1>1. Busy(th[t]) /\ th[t].at = "reInitialize" /\ th' = [th EXCEPT ![t] = Idle]
    BY DEF ReInitialize, Busy
  <1>2. PICK k \in Live : k = th[t]
    BY <1>1, LiveIs
  <1>3. at # "free" /\ calls # <<>> /\ Head(calls) = "shiftAndInit"
    BY <1>1, <1>2, CallOfTask
  <1>4. ShiftCall
    BY <1>3 DEF IndInv, ShiftInv, InCall
  <1>5. PICK o \in Objects : k = ObjectTask("reInitialize", o)
    <2>1. ShiftTask(k) /\ k.at = "reInitialize"
      BY <1>1, <1>2, <1>4 DEF ShiftCall
    <2>2. \A i \in Images : \A kind \in {"adjust", "initialize"} : ImageTask(kind, i).at # "reInitialize"
      BY SimpleTasks
    <2> QED BY <2>1, <2>2 DEF ShiftTask
  <1>6. th[t].obj = o
    BY <1>2, <1>5, SimpleTasks
  <1>7. /\ o \notin left /\ Renewed(o) /\ Adjusting(o)
        /\ ImagesOfAt("adjust", o) = {} /\ ImagesOfAt("initialize", o) = {}
    BY <1>4, <1>5, RenewedFacts
  <1>8. /\ objectWatch' = [objectWatch EXCEPT ![o] = clear(@)] /\ DOMAIN objectWatch = Objects
        /\ objectWatch' \in [Objects -> Watch({"reInitialize", "calcMetric", "calcHelpers"})]
    <2>1. objectWatch' = [objectWatch EXCEPT ![o] = clear(@)]
      BY <1>6 DEF ReInitialize
    <2>2. PICK H : H = {"reInitialize", "calcMetric", "calcHelpers"}
      OBVIOUS
    <2>3. objectWatch \in [Objects -> Watch(H)]
      BY <1>0, <2>2 DEF TypeOK
    <2>4. clear(objectWatch[o]) \in Watch(H)
      <3>1. objectWatch[o] \in Watch(H) /\ 0 \in Int
        BY <2>3
      <3> QED BY <3>1, WatchTypes
    <2>5. objectWatch' \in [Objects -> Watch(H)]
      BY <2>1, <2>3, <2>4
    <2> QED BY <2>1, <2>2, <2>3, <2>5
  <1>9. UNCHANGED <<control, mtx, alpha, otf, stale, shifted, PQ, helpers, grad, sum, metric>>
    BY DEF ReInitialize
  <1>10. CASE o \in shifted
    <2>1. PICK P : P = {ImageTask("initialize", i) : i \in ImagesOf(o)}
      OBVIOUS
    <2>2. posted' = posted \cup P /\ solverWatch' = solverWatch /\ ftSum' = IF reset THEN [ftSum EXCEPT ![o] = {}] ELSE ftSum
      BY <1>6, <1>10, <2>1, TasksOfObject DEF ReInitialize
    <2>3. ImagesOf(o) \in SUBSET Images
      BY ChunkFacts
    <2>4. IsFiniteSet(P) /\ P \subseteq Tasks /\ \A p \in P : Busy(p)
      BY <2>1, <2>3, TasksOfImages
    <2>5. \A p \in P : p \notin Live
      BY <1>7, <2>1 DEF ImagesOfAt
    <2>6. PoolInv' /\ Live' = (Live \ {k}) \cup P
      BY <1>0, <1>1, <1>2, <2>2, <2>4, <2>5, TaskTypes, TaskOver
    <2>7. Live' = (Live \ {ObjectTask("reInitialize", o)}) \cup P
      BY <1>5, <2>6
    <2>8. ShiftCall'
      BY <1>0, <1>4, <1>5, <1>8, <1>9, <2>1, <2>2, <2>7, ImagesRenewed
    <2>9. TypeOK'
      <3>1. th' \in [Threads -> Tasks] /\ posted' \subseteq Tasks
        BY <1>0, <1>1, <2>2, <2>4, TaskTypes DEF TypeOK
      <3>2. ftSum' \in [Objects -> SUBSET Images]
        BY <1>0, <2>2
      <3> QED BY <1>0, <1>8, <1>9, <2>2, <3>1, <3>2 DEF TypeOK
    <2>10. \A p \in Objects : ftSum'[p] \subseteq ImagesOf(p)
      BY <1>0, <2>2 DEF DataInv
    <2> QED BY <1>3, <1>9, <2>6, <2>8, <2>9, <2>10, ShiftStep
  <1>11. CASE o \notin shifted
    <2>1. posted' = posted /\ ftSum' = ftSum /\ solverWatch' = step(solverWatch, Cardinality(ImagesOf(o)))
      BY <1>6, <1>11 DEF ReInitialize, CountSolver
    <2>2. PoolInv' /\ Live' = Live \ {k} /\ th' \in [Threads -> Tasks] /\ posted' \subseteq Tasks
      BY <1>1, <1>2, <2>1, ThreadDone
    <2>3. Cardinality(ImagesOf(o)) \in Int
      <3>1. Cardinality(ImagesOf(o)) \in Nat
        BY ChunkFacts, FS_CardinalityType
      <3> QED BY <3>1
    <2>4. solverWatch \in Watch({}) /\ solverWatch' \in Watch({})
      BY <1>0, <2>1, <2>3, SolverCounts DEF TypeOK
    <2>5. Live' = Live \ {ObjectTask("reInitialize", o)} /\ ObjectTask("reInitialize", o) \in Live
      BY <1>5, <2>2
    <2>6. ShiftCall'
      BY <1>4, <1>8, <1>9, <1>11, <2>1, <2>4, <2>5, ImagesKept
    <2>7. TypeOK'
      BY <1>0, <1>8, <1>9, <2>1, <2>2, <2>4 DEF TypeOK
    <2>8. \A p \in Objects : ftSum'[p] \subseteq ImagesOf(p)
      BY <1>0, <2>1 DEF DataInv
    <2> QED BY <1>3, <1>9, <2>2, <2>6, <2>7, <2>8, ShiftStep
  <1> QED BY <1>10, <1>11

-----------------------------------------------------------------------------
(* Steps of the main thread                                                *)

\* Between two calls nothing is said of the call at work.
LEMMA NoCall ==
  ASSUME TypeOK', PoolInv', PlaceInv', DataInv', at' = "free"
  PROVE  IndInv'
  BY DEF IndInv, ApplyInv, GradInv, MetricInv, HelpersInv, ShiftInv, InCall

\* The tasks are the same when the threads and the queue are.
LEMMA SameLive ==
  ASSUME PoolInv, posted' = posted, th' = th
  PROVE  PoolInv' /\ Live' = Live
  <1>1. Live' = Live
    BY DEF Live, Busy
  <1> QED BY <1>1 DEF PoolInv, Distinct, Busy

\* The calls of an evaluation are sequences of calls.
LEMMA CallsTyped ==
  /\ my_f \in Seq({"shiftAndInit", "applyAlpha", "metric", "calcPQ", "gradient"})
  /\ my_df \in Seq({"shiftAndInit", "applyAlpha", "metric", "calcPQ", "gradient"})
  /\ my_fdf \in Seq({"shiftAndInit", "applyAlpha", "metric", "calcPQ", "gradient"})
  /\ <<"shiftAndInit">> \in Seq({"shiftAndInit", "applyAlpha", "metric", "calcPQ", "gradient"})
  BY DEF my_f, my_df, my_fdf

\* An evaluation begins: of the value, or of the gradient for a line search.
LEMMA StepEvaluate ==
  ASSUME IndInv, NEW s, NEW next, NEW cs, Evaluate(s, next, cs), s # "start",
         \/ cs \in {my_f, my_fdf} /\ next \subseteq {"set", "iterate", "search", "final", "shift", "restore"}
         \/ cs = my_df /\ next \subseteq {"line", "final"}
  PROVE  IndInv'
  <1> USE DEF control, watches
  <1>0. TypeOK /\ PoolInv /\ PlaceInv /\ DataInv
    BY DEF IndInv
  <1>1. /\ stage = s /\ at = "free" /\ calls = <<>> /\ stage' \in next /\ calls' = cs /\ alpha' = alpha + 1
        /\ UNCHANGED <<at, reset, left, chunks, posted, th, mtx, watches,
                       otf, stale, shifted, ftSum, PQ, helpers, grad, sum, metric>>
    BY DEF Evaluate
  <1>2. PoolInv' /\ Live' = Live
    BY <1>0, <1>1, SameLive
  <1>3. TypeOK'
    <2>1. calls' \in Seq({"shiftAndInit", "applyAlpha", "metric", "calcPQ", "gradient"})
      BY <1>1, CallsTyped
    <2>2. alpha' \in Nat /\ stage' \in {"set", "iterate", "line", "search", "final", "shift", "restore"}
      BY <1>0, <1>1 DEF TypeOK
    <2> QED BY <1>0, <1>1, <2>1, <2>2 DEF TypeOK
  <1>4. /\ calls' # <<>> /\ Head(calls') = "applyAlpha" /\ calls' \in Scripts /\ calls' # <<"shiftAndInit">>
        /\ calls' # <<"gradient">>
        /\ stage' = "line" => calls' \in LineScripts
        /\ stage' \in {"set", "iterate", "search", "shift", "restore", "done"} => calls' \in WithMetric
    BY <1>1 DEF my_f, my_df, my_fdf, Scripts, LineScripts, WithMetric
  <1>5. stage' # "start"
    BY <1>1
  <1>6. PlaceInv'
    BY <1>0, <1>1, <1>2, <1>4, <1>5 DEF PlaceInv
  <1>7. DataInv'
    <2>1. FtFresh
      <3>1. <<>> # <<"shiftAndInit">>
        OBVIOUS
      <3> QED BY <1>0, <1>1, <3>1 DEF DataInv
    <2>2. FtFresh'
      BY <1>1, <2>1 DEF FtFresh
    <2> QED BY <1>0, <1>1, <1>4, <2>2 DEF DataInv
  <1> QED BY <1>1, <1>2, <1>3, <1>6, <1>7, NoCall

\* The images are to be shifted.
LEMMA StepShift ==
  ASSUME IndInv, Shift("start", "initial", TRUE) \/ Shift("shift", "set", FALSE)
  PROVE  IndInv'
  <1> USE DEF control, watches, data
  <1>0. TypeOK /\ PoolInv /\ PlaceInv /\ DataInv
    BY DEF IndInv
  <1>1. /\ at = "free" /\ calls = <<>> /\ calls' = <<"shiftAndInit">>
        /\ \/ stage = "start" /\ stage' = "initial" /\ reset' = TRUE
           \/ stage = "shift" /\ stage' = "set" /\ reset' = FALSE
        /\ UNCHANGED <<at, left, chunks, posted, th, mtx, watches, data>>
    BY DEF Shift
  <1>2. PoolInv' /\ Live' = Live
    BY <1>0, <1>1, SameLive
  <1>3. TypeOK'
    <2>1. calls' \in Seq({"shiftAndInit", "applyAlpha", "metric", "calcPQ", "gradient"})
      BY <1>1, CallsTyped
    <2>2. stage' \in {"initial", "set"} /\ reset' \in BOOLEAN
      BY <1>1
    <2> QED BY <1>0, <1>1, <2>1, <2>2 DEF TypeOK
  <1>4. /\ calls' # <<>> /\ Head(calls') = "shiftAndInit" /\ calls' \in Scripts /\ calls' # <<"gradient">>
        /\ <<>> # <<"shiftAndInit">> /\ <<>> \notin WithMetric
    BY <1>1, ScriptFacts DEF Scripts
  <1>5. PlaceInv'
    BY <1>0, <1>1, <1>2, <1>4 DEF PlaceInv
  <1>6. DataInv'
    <2>1. OtfFresh' /\ \A o \in Objects : ftSum'[o] \subseteq ImagesOf(o)
      BY <1>0, <1>1 DEF DataInv, OtfFresh
    <2>2. reset' \/ FtFresh'
      <3>1. CASE stage = "start"
        BY <1>1, <3>1
      <3>2. CASE stage = "shift"
        <4>1. FtFresh
          BY <1>0, <1>1, <1>4, <3>2 DEF DataInv
        <4> QED BY <1>1, <4>1 DEF FtFresh
      <3> QED BY <1>1, <3>1, <3>2
    <2>3. stage' = "set" => metric' = {Value(o)' : o \in Objects}
      <3>1. \A o : Value(o)' = Value(o)
        BY <1>1 DEF Value, Complete
      <3> QED BY <1>0, <1>1, <1>4, <3>1 DEF DataInv
    <2> QED BY <1>1, <1>4, <2>1, <2>2, <2>3 DEF DataInv
  <1> QED BY <1>1, <1>2, <1>3, <1>5, <1>6, NoCall

\* restorePatch and storeAlpha.
LEMMA StepRestore ==
  ASSUME IndInv, Restore
  PROVE  IndInv'
  <1> USE DEF control, watches, data
  <1>0. TypeOK /\ PoolInv /\ PlaceInv /\ DataInv
    BY DEF IndInv
  <1>1. /\ at = "free" /\ calls = <<>> /\ stage = "restore" /\ stage' = "done"
        /\ UNCHANGED <<calls, at, reset, left, chunks, posted, th, mtx, watches, data>>
    BY DEF Restore
  <1>2. PoolInv' /\ Live' = Live
    BY <1>0, <1>1, SameLive
  <1>3. TypeOK'
    BY <1>0, <1>1 DEF TypeOK
  <1>4. PlaceInv'
    BY <1>0, <1>1, <1>2 DEF PlaceInv
  <1>5. DataInv'
    <2>1. \A o : Value(o)' = Value(o)
      BY <1>1 DEF Value, Complete
    <2> QED BY <1>0, <1>1, <2>1 DEF DataInv, FtFresh, OtfFresh
  <1> QED BY <1>1, <1>2, <1>3, <1>4, <1>5, NoCall

\* Everything is posted, and the term of reg_alpha is added.
LEMMA StepEndPost ==
  ASSUME IndInv, EndPost \/ RegAlpha
  PROVE  IndInv'
  <1> USE DEF control, watches, data
  <1>0. TypeOK /\ PoolInv /\ PlaceInv
    BY DEF IndInv
  <1>1. /\ at \in {"post", "reg"} /\ at' \in {"reg", "wait"} /\ left = {} /\ chunks = {}
        /\ UNCHANGED <<stage, calls, reset, left, chunks, posted, th, mtx, watches, data>>
    BY <1>0 DEF EndPost, RegAlpha, PlaceInv
  <1>2. PoolInv' /\ Live' = Live
    BY <1>0, <1>1, SameLive
  <1>3. TypeOK'
    BY <1>0, <1>1 DEF TypeOK
  <1> QED BY <1>1, <1>2, <1>3, SameTasks

\* A call with a task for each image begins.
LEMMA ImagesPosted ==
  ASSUME IndInv, NEW kind \in {"apply", "grad"}, NEW name, PostImages(name, kind)
  PROVE  /\ TypeOK' /\ PoolInv' /\ ImageCall(kind)' /\ ImagesAt(kind)' = Images
         /\ at = "free" /\ calls # <<>> /\ Head(calls) = name /\ at' = "wait"
         /\ UNCHANGED <<stage, calls, reset, left, chunks, data>>
  <1> USE DEF control, watches
  <1>0. TypeOK /\ PoolInv /\ PlaceInv
    BY DEF IndInv
  <1>1. /\ at = "free" /\ calls # <<>> /\ Head(calls) = name /\ at' = "wait"
        /\ solverWatch' = set(solverWatch, Cardinality(Images))
        /\ UNCHANGED <<stage, calls, reset, left, chunks, th, mtx, objectWatch, data>>
    BY DEF PostImages
  <1>2. PICK P : P = {ImageTask(kind, i) : i \in Images}
    OBVIOUS
  <1>3. posted' = posted \cup P
    BY <1>2 DEF PostImages, ImageTask
  <1>4. IsFiniteSet(P) /\ P \subseteq Tasks /\ \A p \in P : Busy(p)
    <2>1. Images \in SUBSET Images /\ kind \in {"apply", "grad", "adjust", "initialize"}
      OBVIOUS
    <2> QED BY <1>2, <2>1, TasksOfImages
  <1>5. Live = {}
    BY <1>0, <1>1 DEF PlaceInv
  <1>6. PoolInv' /\ Live' = P
    BY <1>0, <1>1, <1>3, <1>4, <1>5, TasksPosted
  <1>7. ImagesAt(kind)' = Images
    BY <1>2, <1>6 DEF ImagesAt
  <1>8. PICK n : n = Cardinality(Images) /\ n \in Nat
    BY SolverAssumption, FS_CardinalityType
  <1>9. PICK H : H = {}
    OBVIOUS
  <1>10. solverWatch \in Watch(H) /\ n \in Int
    BY <1>0, <1>8, <1>9 DEF TypeOK
  <1>11. Waits(solverWatch', n) /\ solverWatch' \in Watch(H)
    BY <1>1, <1>8, <1>10, SetWaits, WatchTypes
  <1>12. ImageCall(kind)'
    <2>1. Waits(solverWatch, Cardinality(ImagesAt(kind)))'
      BY <1>7, <1>8, <1>11 DEF Waits
    <2> QED BY <1>2, <1>6, <2>1 DEF ImageCall
  <1>13. TypeOK'
    <2>1. posted' \subseteq Tasks
      BY <1>0, <1>3, <1>4 DEF TypeOK
    <2> QED BY <1>0, <1>1, <1>9, <1>11, <2>1 DEF TypeOK, data
  <1> QED BY <1>1, <1>6, <1>7, <1>12, <1>13

\* applyAlpha and gradient.
LEMMA StepPostImages ==
  ASSUME IndInv, PostImages("applyAlpha", "apply") \/ PostImages("gradient", "grad")
  PROVE  IndInv'
  <1> USE DEF data
  <1>0. PICK name \in {"applyAlpha", "gradient"}, kind \in {"apply", "grad"} :
          /\ <<name, kind>> \in {<<"applyAlpha", "apply">>, <<"gradient", "grad">>}
          /\ PostImages(name, kind)
    OBVIOUS
  <1>1. /\ TypeOK' /\ PoolInv' /\ ImageCall(kind)' /\ ImagesAt(kind)' = Images
        /\ at = "free" /\ calls # <<>> /\ Head(calls) = name /\ at' = "wait"
        /\ UNCHANGED <<stage, calls, reset, left, chunks, data>>
    BY <1>0, ImagesPosted
  <1>2. PlaceInv'
    BY <1>1 DEF IndInv, PlaceInv
  <1>3. \A o : Complete(o)' = Complete(o) /\ Value(o)' = Value(o)
    BY <1>1 DEF Complete, Value
  <1>4. DataInv'
    BY <1>1, <1>3 DEF IndInv, DataInv, FtFresh, OtfFresh, HelpersFresh
  <1>5. MetricInv' /\ HelpersInv' /\ ShiftInv'
    BY <1>0, <1>1 DEF MetricInv, HelpersInv, ShiftInv, InCall
  <1>6. ApplyInv' /\ GradInv'
    BY <1>0, <1>1 DEF ApplyInv, GradInv, InCall
  <1> QED BY <1>1, <1>2, <1>4, <1>5, <1>6 DEF IndInv

\* A call that goes through the objects begins; nothing is at work.
LEMMA ObjectsBegin ==
  ASSUME IndInv, NEW name \in {"metric", "calcPQ", "shiftAndInit"}, NEW n \in Nat, BeginObjects(name, n)
  PROVE  /\ TypeOK' /\ PoolInv' /\ PlaceInv' /\ DataInv' /\ Live' = {} /\ Waits(solverWatch', n)
         /\ at = "free" /\ calls # <<>> /\ Head(calls) = name /\ at' = "post" /\ left' = Objects /\ chunks' = {} /\ sum' = {}
         /\ UNCHANGED <<stage, calls, reset, alpha, otf, stale, shifted, ftSum, PQ, helpers, grad, metric>>
  <1> USE DEF control, watches
  <1>0. TypeOK /\ PoolInv /\ PlaceInv /\ DataInv
    BY DEF IndInv
  <1>1. /\ at = "free" /\ calls # <<>> /\ Head(calls) = name /\ at' = "post" /\ left' = Objects
        /\ solverWatch' = set(solverWatch, n) /\ sum' = {}
        /\ UNCHANGED <<stage, calls, reset, chunks, posted, th, mtx, objectWatch,
                       alpha, otf, stale, shifted, ftSum, PQ, helpers, grad, metric>>
    BY DEF BeginObjects
  <1>2. PoolInv' /\ Live' = Live
    BY <1>0, <1>1, SameLive
  <1>3. Live = {} /\ chunks = {}
    BY <1>0, <1>1 DEF PlaceInv
  <1>4. PICK H : H = {}
    OBVIOUS
  <1>5. solverWatch \in Watch(H) /\ n \in Int
    BY <1>0, <1>4 DEF TypeOK
  <1>6. Waits(solverWatch', n) /\ solverWatch' \in Watch(H)
    BY <1>1, <1>5, SetWaits, WatchTypes
  <1>7. TypeOK'
    BY <1>0, <1>1, <1>4, <1>6 DEF TypeOK
  <1>8. PlaceInv'
    BY <1>0, <1>1, <1>2, <1>3 DEF PlaceInv
  <1>9. DataInv'
    <2>1. \A o : Complete(o)' = Complete(o) /\ Value(o)' = Value(o)
      BY <1>1 DEF Complete, Value
    <2> QED BY <1>0, <1>1, <2>1 DEF DataInv, FtFresh, OtfFresh, HelpersFresh
  <1> QED BY <1>1, <1>2, <1>3, <1>6, <1>7, <1>8, <1>9

\* metric and calcPQ begin.
LEMMA StepBeginPQ ==
  ASSUME IndInv, NEW name \in {"metric", "calcPQ"}, BeginObjects(name, Cardinality(Objects))
  PROVE  IndInv'
  <1>1. PICK n \in Nat : n = Cardinality(Objects)
    BY SolverAssumption, FS_CardinalityType
  <1>2. /\ TypeOK' /\ PoolInv' /\ PlaceInv' /\ DataInv' /\ Live' = {} /\ Waits(solverWatch', n)
        /\ at = "free" /\ calls # <<>> /\ Head(calls) = name /\ at' = "post" /\ left' = Objects /\ chunks' = {} /\ sum' = {}
        /\ UNCHANGED <<stage, calls, reset, alpha, otf, stale, shifted, ftSum, PQ, helpers, grad, metric>>
    <2>1. BeginObjects(name, n)
      BY <1>1
    <2> QED BY <2>1, ObjectsBegin
  <1>3. OpenObjects(name)' = Objects
    BY <1>2 DEF OpenObjects
  <1>4. PQTasks(name)'
    BY <1>2 DEF PQTasks
  <1>5. \A o \in Objects : PQObject(name, o)'
    BY <1>2 DEF PQObject, Adding, Handled
  <1>6. Waits(solverWatch, Cardinality(OpenObjects(name)))'
    BY <1>1, <1>2, <1>3 DEF Waits
  <1>7. PQCall(name)'
    BY <1>4, <1>5, <1>6 DEF PQCall
  <1>8. MetricInv'
    <2>1. sum' = {Value(o)' : o \in Objects \ OpenObjects(name)'}
      BY <1>2, <1>3
    <2> QED BY <1>2, <1>7, <2>1 DEF MetricInv, InCall
  <1>9. HelpersInv'
    BY <1>2, <1>3, <1>7 DEF HelpersInv, InCall
  <1>10. ApplyInv' /\ GradInv' /\ ShiftInv'
    BY <1>2 DEF ApplyInv, GradInv, ShiftInv, InCall
  <1> QED BY <1>2, <1>8, <1>9, <1>10 DEF IndInv

\* shiftAndInit begins.
LEMMA StepBeginShift ==
  ASSUME IndInv, BeginObjects("shiftAndInit", Cardinality(Images))
  PROVE  IndInv'
  <1>0. PlaceInv /\ DataInv
    BY DEF IndInv
  <1>1. PICK n \in Nat : n = Cardinality(Images)
    BY SolverAssumption, FS_CardinalityType
  <1>2. /\ TypeOK' /\ PoolInv' /\ PlaceInv' /\ DataInv' /\ Live' = {} /\ Waits(solverWatch', n)
        /\ at = "free" /\ calls # <<>> /\ Head(calls) = "shiftAndInit" /\ at' = "post" /\ left' = Objects /\ chunks' = {} /\ sum' = {}
        /\ UNCHANGED <<stage, calls, reset, alpha, otf, stale, shifted, ftSum, PQ, helpers, grad, metric>>
    <2>1. BeginObjects("shiftAndInit", n)
      BY <1>1
    <2> QED BY <2>1, ObjectsBegin
  <1>3. OpenImages' = Images
    BY <1>2, ChunkFacts DEF OpenImages
  <1>4. reset \/ FtFresh
    <2>1. calls = <<"shiftAndInit">>
      BY <1>0, <1>2, ScriptFacts DEF PlaceInv
    <2> QED BY <1>0, <1>2, <2>1 DEF DataInv
  <1>5. ASSUME NEW o \in Objects
        PROVE  ShiftObject(o)'
    <2>1. ~Adjusting(o)' /\ ImagesOfAt("initialize", o)' = {}
      BY <1>2 DEF Adjusting, Renewed, ImagesOfAt
    <2>2. reset' \/ (stale' \cap ImagesOf(o) = {} /\ ftSum'[o] = ImagesOf(o))
      BY <1>2, <1>4 DEF FtFresh
    <2> QED BY <1>2, <2>1, <2>2 DEF ShiftObject
  <1>6. Waits(solverWatch, Cardinality(OpenImages))'
    BY <1>1, <1>2, <1>3 DEF Waits
  <1>7. ShiftCall'
    BY <1>2, <1>5, <1>6 DEF ShiftCall
  <1>8. ApplyInv' /\ GradInv' /\ MetricInv' /\ HelpersInv' /\ ShiftInv'
    BY <1>2, <1>7 DEF ApplyInv, GradInv, MetricInv, HelpersInv, ShiftInv, InCall
  <1> QED BY <1>2, <1>8 DEF IndInv

\* The tasks for the images of an object of shiftAndInit.
LEMMA ShiftsPosted ==
  ASSUME ShiftCall, NEW o \in Objects, o \in left,
         NEW P, P = {ImageTask("adjust", i) : i \in ImagesOf(o)}, Live' = Live \cup P,
         left' = left \ {o}, shifted' = IF reset THEN shifted \cup {o} ELSE shifted \ {o},
         objectWatch \in [Objects -> Watch({"reInitialize", "calcMetric", "calcHelpers"})],
         objectWatch' = [objectWatch EXCEPT ![o] = setHandler(set(clear(@), Cardinality(ImagesOf(o))), "reInitialize")],
         UNCHANGED <<reset, stale, ftSum, solverWatch>>
  PROVE  ShiftCall' /\ objectWatch' \in [Objects -> Watch({"reInitialize", "calcMetric", "calcHelpers"})]
  <1>1. ShiftObject(o)
    BY DEF ShiftCall
  <1>2. /\ ~Adjusting(o) /\ ImagesOfAt("initialize", o) = {} /\ ~Renewed(o)
        /\ reset \/ (stale \cap ImagesOf(o) = {} /\ ftSum[o] = ImagesOf(o))
    BY <1>1 DEF ShiftObject, Adjusting
  <1>3. \A p \in Objects : ImagesOf(p) \subseteq Images
    BY ChunkFacts
  <1>4. \A j \in Images : /\ ImageTask("adjust", j) \in Live' <=> ImageTask("adjust", j) \in Live \/ j \in ImagesOf(o)
                          /\ ImageTask("initialize", j) \in Live' <=> ImageTask("initialize", j) \in Live
    BY <1>3, DifferentTasks
  <1>5. \A p \in Objects : ObjectTask("reInitialize", p) \in Live' <=> ObjectTask("reInitialize", p) \in Live
    BY <1>3, ShiftTasksDiffer
  <1>6. /\ \A p \in Objects : ImagesOfAt("initialize", p)' = ImagesOfAt("initialize", p)
        /\ \A p \in Objects \ {o} : ImagesOfAt("adjust", p)' = ImagesOfAt("adjust", p)
        /\ ImagesOfAt("adjust", o)' = ImagesOf(o)
    <2>1. \A p \in Objects \ {o} : \A j \in ImagesOf(p) : j \notin ImagesOf(o)
      BY ChunkFacts
    <2> QED BY <1>3, <1>4, <2>1 DEF ImagesOfAt
  <1>7. /\ ~Renewed(o)' /\ Adjusting(o)'
        /\ \A p \in Objects \ {o} : (Renewed(p)' <=> Renewed(p)) /\ (Adjusting(p)' <=> Adjusting(p))
    <2>1. ImagesOf(o) # {}
      BY ChunkFacts
    <2> QED BY <1>2, <1>5, <1>6, <2>1 DEF Renewed, Adjusting
  <1>8. OpenImages' = OpenImages
    <2>1. \A j \in Images : j \in OpenImages' <=> j \in OpenImages
      <3> SUFFICES ASSUME NEW j \in Images
                   PROVE  j \in OpenImages' <=> j \in OpenImages
        OBVIOUS
      <3>1. ObjectOf[j] \in Objects
        BY ChunkFacts
      <3>2. CASE ObjectOf[j] = o
        BY <1>7, <3>2 DEF OpenImages
      <3>3. CASE ObjectOf[j] # o
        BY <1>6, <1>7, <3>1, <3>3 DEF OpenImages
      <3> QED BY <3>2, <3>3
    <2>2. OpenImages' \subseteq Images /\ OpenImages \subseteq Images
      BY DEF OpenImages
    <2> QED BY <2>1, <2>2
  <1>9. \A k \in Live' : ShiftTask(k)'
    <2> SUFFICES ASSUME NEW k \in Live'
                 PROVE  ShiftTask(k)
      BY DEF ShiftTask
    <2>1. CASE k \in P
      BY <1>3, <2>1 DEF ShiftTask
    <2>2. CASE k \in Live
      BY <2>2 DEF ShiftCall
    <2> QED BY <2>1, <2>2
  <1>10. PICK H, n, w : H = {"reInitialize", "calcMetric", "calcHelpers"} /\ n = Cardinality(ImagesOf(o)) /\ w = clear(objectWatch[o])
    OBVIOUS
  <1>11. n \in Nat /\ n \in Int /\ 0 \in Int /\ objectWatch \in [Objects -> Watch(H)] /\ objectWatch[o] \in Watch(H)
    <2>1. n \in Nat
      BY <1>10, ChunkFacts, FS_CardinalityType
    <2> QED BY <1>10, <2>1
  <1>12. w \in Watch(H) /\ "reInitialize" \in H
    BY <1>10, <1>11, WatchTypes
  <1>13. set(w, n) \in Watch(H)
    BY <1>11, <1>12, WatchTypes
  <1>14. setHandler(set(w, n), "reInitialize") \in Watch(H)
    BY <1>11, <1>12, <1>13, WatchTypes
  <1>15. Expects(setHandler(set(w, n), "reInitialize"), n, "reInitialize")
    BY <1>11, <1>12, SetExpects
  <1>16. objectWatch' = [objectWatch EXCEPT ![o] = setHandler(set(w, n), "reInitialize")]
    BY <1>10, <1>11
  <1>17. objectWatch' \in [Objects -> Watch({"reInitialize", "calcMetric", "calcHelpers"})]
    BY <1>10, <1>11, <1>14, <1>16
  <1>18. ASSUME NEW p \in Objects
         PROVE  ShiftObject(p)'
    <2>1. CASE p = o
      <3>1. objectWatch'[o] = setHandler(set(w, n), "reInitialize")
        BY <1>11, <1>16
      <3>2. Expects(objectWatch'[o], Cardinality(ImagesOfAt("adjust", o)'), "reInitialize")
        BY <1>6, <1>10, <1>15, <3>1
      <3>3. Expects(objectWatch[o], Cardinality(ImagesOfAt("adjust", o)), "reInitialize")'
        BY <3>2 DEF Expects
      <3>4. /\ o \in shifted' \/ stale' \cap ImagesOf(o) = {}
            /\ IF reset' THEN o \in shifted' ELSE ftSum'[o] = ImagesOf(o)
        BY <1>2
      <3> QED BY <1>2, <1>6, <1>7, <2>1, <3>3, <3>4 DEF ShiftObject
    <2>2. CASE p # o
      <3>1. objectWatch'[p] = objectWatch[p] /\ (p \in shifted' <=> p \in shifted) /\ (p \in left' <=> p \in left)
        BY <2>2
      <3>2. ShiftObject(p)
        BY DEF ShiftCall
      <3> QED BY <1>6, <1>7, <2>2, <3>1, <3>2 DEF ShiftObject, Expects
    <2> QED BY <2>1, <2>2
  <1>19. Waits(solverWatch, Cardinality(OpenImages))'
    BY <1>8 DEF ShiftCall, Waits
  <1> QED BY <1>9, <1>17, <1>18, <1>19 DEF ShiftCall

\* An object of shiftAndInit.
LEMMA StepPostShifts ==
  ASSUME IndInv, NEW o \in Objects, PostShifts(o)
  PROVE  IndInv'
  <1> USE DEF control, watches
  <1>0. TypeOK /\ PoolInv /\ PlaceInv /\ DataInv
    BY DEF IndInv
  <1>1. /\ at = "post" /\ o \in left /\ Head(calls) = "shiftAndInit"
        /\ left' = left \ {o} /\ shifted' = IF reset THEN shifted \cup {o} ELSE shifted \ {o}
        /\ UNCHANGED <<stage, calls, at, reset, chunks, th, mtx, solverWatch,
                       alpha, otf, stale, ftSum, PQ, helpers, grad, sum, metric>>
    BY DEF PostShifts
  <1>2. calls # <<>> /\ calls = <<"shiftAndInit">>
    BY <1>0, <1>1, ScriptFacts DEF PlaceInv
  <1>3. ShiftCall
    BY <1>1, <1>2 DEF IndInv, ShiftInv, InCall
  <1>4. PICK P : P = {ImageTask("adjust", i) : i \in ImagesOf(o)}
    OBVIOUS
  <1>5. posted' = posted \cup P
    BY <1>4, TasksOfObject DEF PostShifts
  <1>6. IsFiniteSet(P) /\ P \subseteq Tasks /\ \A p \in P : Busy(p)
    <2>1. ImagesOf(o) \in SUBSET Images
      BY ChunkFacts
    <2> QED BY <1>4, <2>1, TasksOfImages
  <1>7. \A p \in P : p \notin Live
    <2>1. ImagesOfAt("adjust", o) = {}
      BY <1>1, <1>3 DEF ShiftCall, ShiftObject, Adjusting
    <2> QED BY <1>4, <2>1 DEF ImagesOfAt
  <1>8. PoolInv' /\ Live' = Live \cup P
    BY <1>0, <1>1, <1>5, <1>6, <1>7, TasksPosted
  <1>9. ShiftCall' /\ objectWatch' \in [Objects -> Watch({"reInitialize", "calcMetric", "calcHelpers"})]
    <2>1. /\ objectWatch \in [Objects -> Watch({"reInitialize", "calcMetric", "calcHelpers"})]
          /\ objectWatch' = [objectWatch EXCEPT ![o] = setHandler(set(clear(@), Cardinality(ImagesOf(o))), "reInitialize")]
      BY <1>0 DEF TypeOK, PostShifts
    <2> QED BY <1>1, <1>3, <1>4, <1>8, <2>1, ShiftsPosted
  <1>10. TypeOK'
    <2>1. posted' \subseteq Tasks /\ left' \subseteq Objects /\ shifted' \subseteq Objects
      BY <1>0, <1>1, <1>5, <1>6 DEF TypeOK
    <2> QED BY <1>0, <1>1, <1>9, <2>1 DEF TypeOK
  <1>11. PlaceInv'
    BY <1>0, <1>1 DEF PlaceInv
  <1>12. DataInv'
    <2>1. \A p : Complete(p)' = Complete(p) /\ Value(p)' = Value(p)
      BY <1>1 DEF Complete, Value
    <2> QED BY <1>0, <1>1, <2>1 DEF DataInv, FtFresh, OtfFresh, HelpersFresh
  <1>13. ApplyInv' /\ GradInv' /\ MetricInv' /\ HelpersInv' /\ ShiftInv'
    BY <1>1, <1>2, <1>9 DEF ApplyInv, GradInv, MetricInv, HelpersInv, ShiftInv, InCall
  <1> QED BY <1>8, <1>10, <1>11, <1>12, <1>13 DEF IndInv

\* An object of metric or calcPQ begins: all its images are to be posted.
LEMMA ObjectBegins ==
  ASSUME PoolInv, PoolInv', NEW name \in {"metric", "calcPQ"}, PQCall(name), chunks = {},
         NEW o \in Objects, o \in left, Live' = Live, left' = left \ {o}, chunks' = ChunksOf(o),
         PQ \in [Objects -> SUBSET (Images \X Nat)], PQ' = [PQ EXCEPT ![o] = {}],
         objectWatch \in [Objects -> Watch({"reInitialize", "calcMetric", "calcHelpers"})],
         objectWatch' = [objectWatch EXCEPT ![o] = setHandler(set(@, Cardinality(ImagesOf(o))), FirstHandler(name))],
         UNCHANGED <<alpha, solverWatch>>
  PROVE  /\ PQCall(name)' /\ OpenObjects(name)' = OpenObjects(name)
         /\ objectWatch' \in [Objects -> Watch({"reInitialize", "calcMetric", "calcHelpers"})]
  <1>1. PQTasks(name) /\ \A p \in Objects : PQObject(name, p)
    BY DEF PQCall
  <1>2. Adding(o) = {} /\ ~Handled(name, o)
    BY <1>1 DEF PQObject
  <1>3. \A l : Region(l)' = Region(l) /\ AddTask(l)' = AddTask(l)
    BY DEF Region, AddTask
  <1>4. \A p \in Objects : Adding(p)' = Adding(p) /\ (Handled(name, p)' <=> Handled(name, p))
    BY DEF Adding, Handled
  <1>5. \A i \in Images : ~Unposted(i) /\ (Unposted(i)' <=> i \in ImagesOf(o))
    <2> SUFFICES ASSUME NEW i \in Images
                 PROVE  Unposted(i)' <=> i \in ImagesOf(o)
      BY DEF Unposted
    <2>1. ASSUME i \in ImagesOf(o)
          PROVE  Unposted(i)'
      <3>1. PICK c \in Chunks : i \in c
        BY SolverAssumption
      <3>2. PICK p \in Objects : c \in ChunksOf(p)
        BY ChunkFacts
      <3>3. p = o
        BY <2>1, <3>1, <3>2, ChunkFacts
      <3> QED BY <3>1, <3>2, <3>3 DEF Unposted
    <2>2. ASSUME Unposted(i)'
          PROVE  i \in ImagesOf(o)
      BY <2>2, ChunkFacts DEF Unposted
    <2> QED BY <2>1, <2>2
  <1>6. \A p \in Objects : ImagesOf(p) \subseteq Images
    BY ChunkFacts
  <1>7. Uncounted(o)' = ImagesOf(o) /\ Unadded(o)' = ImagesOf(o)
    BY <1>5, <1>6 DEF Uncounted, Unadded
  <1>8. \A p \in Objects \ {o} : Uncounted(p)' = Uncounted(p) /\ Unadded(p)' = Unadded(p)
    <2>1. \A p \in Objects \ {o} : \A i \in ImagesOf(p) : ~Unposted(i)' /\ ~Unposted(i)
      BY <1>5, <1>6, ChunkFacts
    <2> QED BY <1>3, <1>4, <2>1 DEF Uncounted, Unadded
  <1>9. PICK H, n, h : /\ H = {"reInitialize", "calcMetric", "calcHelpers"}
                       /\ n = Cardinality(ImagesOf(o)) /\ h = FirstHandler(name)
    OBVIOUS
  <1>10. n \in Nat \ {0} /\ n \in Int /\ h \in H /\ objectWatch \in [Objects -> Watch(H)] /\ objectWatch[o] \in Watch(H)
    <2>1. n \in Nat /\ n # 0
      BY <1>9, ChunkFacts, FS_CardinalityType, FS_EmptySet
    <2>2. h \in H
      BY <1>9, HandlerNames
    <2> QED BY <1>9, <2>1, <2>2
  <1>11. Pending(o)' = n /\ \A p \in Objects \ {o} : Pending(p)' = Pending(p)
    <2>1. Cardinality(Adding(o)') = 0
      BY <1>2, <1>4, FS_EmptySet
    <2> QED BY <1>4, <1>7, <1>8, <1>9, <1>10, <2>1 DEF Pending
  <1>12. OpenObjects(name)' = OpenObjects(name)
    <2>1. o \in OpenObjects(name)' /\ o \in OpenObjects(name)
      BY <1>10, <1>11 DEF OpenObjects
    <2>2. \A p \in Objects \ {o} : p \in OpenObjects(name)' <=> p \in OpenObjects(name)
      BY <1>4, <1>11 DEF OpenObjects
    <2>3. OpenObjects(name)' \subseteq Objects /\ OpenObjects(name) \subseteq Objects
      BY DEF OpenObjects
    <2>4. \A p : p \in OpenObjects(name)' <=> p \in OpenObjects(name)
      BY <2>1, <2>2, <2>3
    <2> QED BY <2>4
  <1>13. PQTasks(name)'
    <2>1. \A k \in Live : k.at = "addPQ" => Region(k) \notin ChunksOf(o)
      <3> SUFFICES ASSUME NEW k \in Live, k.at = "addPQ", Region(k) \in ChunksOf(o)
                   PROVE  FALSE
        OBVIOUS
      <3>1. AddTask(k)
        BY <1>1, PQTaskForms
      <3>2. k.obj = o
        BY <3>1, ChunkFacts DEF AddTask
      <3> QED BY <1>2, <3>2 DEF Adding
    <2> QED BY <1>1, <1>3, <2>1 DEF PQTasks
  <1>14. setHandler(set(objectWatch[o], n), h) \in Watch(H) /\ Expects(setHandler(set(objectWatch[o], n), h), n, h)
    <2>1. set(objectWatch[o], n) \in Watch(H)
      BY <1>10, WatchTypes
    <2>2. setHandler(set(objectWatch[o], n), h) \in Watch(H)
      BY <1>10, <2>1, WatchTypes
    <2>3. n \in Nat
      BY <1>10
    <2> QED BY <1>10, <2>2, <2>3, SetExpects
  <1>15. objectWatch' = [objectWatch EXCEPT ![o] = setHandler(set(objectWatch[o], n), h)]
    BY <1>9, <1>10
  <1>16. objectWatch' \in [Objects -> Watch({"reInitialize", "calcMetric", "calcHelpers"})]
    BY <1>9, <1>10, <1>14, <1>15
  <1>17. ASSUME NEW p \in Objects
         PROVE  PQObject(name, p)'
    <2>1. CASE p = o
      <3>1. objectWatch'[o] = setHandler(set(objectWatch[o], n), h)
        BY <1>10, <1>15
      <3>2. Expects(objectWatch'[o], Pending(o)', FirstHandler(name))
        BY <1>9, <1>11, <1>14, <3>1
      <3>3. Expects(objectWatch[o], Pending(o), FirstHandler(name))'
        BY <3>2 DEF Expects
      <3>4. o \notin left' /\ ~Handled(name, o)'
        BY <1>2, <1>4
      <3>5. (PQ[o] = {<<i, alpha>> : i \in ImagesOf(o) \ Unadded(o)})'
        BY <1>7
      <3>6. \A g, h2 \in HandlersOf(name) : ObjectTask(g, o) \in Live' /\ ObjectTask(h2, o) \in Live' => g = h2
        BY <1>2 DEF Handled
      <3> QED BY <2>1, <3>3, <3>4, <3>5, <3>6 DEF PQObject
    <2>2. CASE p # o
      <3>1. objectWatch'[p] = objectWatch[p] /\ PQ'[p] = PQ[p] /\ (p \in left' <=> p \in left)
        BY <2>2
      <3>2. PQObject(name, p)
        BY <1>1
      <3>3. \A c \in chunks' : c \notin ChunksOf(p)
        BY <2>2, ChunkFacts
      <3> QED BY <1>4, <1>8, <1>11, <2>2, <3>1, <3>2, <3>3 DEF PQObject, Expects
    <2> QED BY <2>1, <2>2
  <1>18. Waits(solverWatch, Cardinality(OpenObjects(name)))'
    BY <1>12 DEF PQCall, Waits
  <1> QED BY <1>12, <1>13, <1>16, <1>17, <1>18 DEF PQCall

\* An object of metric or calcPQ.
LEMMA StepNextObject ==
  ASSUME IndInv, NEW o \in Objects, NEW name \in {"metric", "calcPQ"}, NextObject(o, name, FirstHandler(name))
  PROVE  IndInv'
  <1> USE DEF control, watches
  <1>0. TypeOK /\ PoolInv /\ PlaceInv
    BY DEF IndInv
  <1>1. /\ at = "post" /\ chunks = {} /\ o \in left /\ Head(calls) = name
        /\ left' = left \ {o} /\ chunks' = ChunksOf(o) /\ PQ' = [PQ EXCEPT ![o] = {}]
        /\ objectWatch' = [objectWatch EXCEPT ![o] = setHandler(set(@, Cardinality(ImagesOf(o))), FirstHandler(name))]
        /\ UNCHANGED <<stage, calls, at, reset, posted, th, mtx, solverWatch,
                       alpha, otf, stale, shifted, ftSum, helpers, grad, sum, metric>>
    BY DEF NextObject, BeginPQ
  <1>2. calls # <<>> /\ calls \in Scripts
    BY <1>0, <1>1 DEF PlaceInv
  <1>3. PQCall(name)
    BY <1>1, <1>2 DEF IndInv, MetricInv, HelpersInv, InCall
  <1>4. PoolInv' /\ Live' = Live
    BY <1>0, <1>1, SameLive
  <1>5. /\ PQ \in [Objects -> SUBSET (Images \X Nat)]
        /\ objectWatch \in [Objects -> Watch({"reInitialize", "calcMetric", "calcHelpers"})]
    BY <1>0 DEF TypeOK
  <1>6. /\ PQCall(name)' /\ OpenObjects(name)' = OpenObjects(name)
        /\ objectWatch' \in [Objects -> Watch({"reInitialize", "calcMetric", "calcHelpers"})]
    BY <1>0, <1>1, <1>3, <1>4, <1>5, ObjectBegins
  <1>7. TypeOK'
    <2>1. left' \subseteq Objects /\ chunks' \subseteq Chunks /\ PQ' \in [Objects -> SUBSET (Images \X Nat)]
      BY <1>0, <1>1, <1>5 DEF TypeOK, ChunksOf
    <2> QED BY <1>0, <1>1, <1>6, <2>1 DEF TypeOK
  <1> QED BY <1>1, <1>2, <1>4, <1>6, <1>7, PQStep

\* A chunk is posted, and counted in the target of its object.
LEMMA ChunkPosted ==
  ASSUME PoolInv, PoolInv', NEW name \in {"metric", "calcPQ"}, PQCall(name), chunks \subseteq Chunks,
         NEW c \in chunks, NEW o \in Objects, c \in ChunksOf(o),
         NEW k, k = Task("addPQ", o, c), k \notin Live, Live' = Live \cup {k}, chunks' = chunks \ {c},
         objectWatch \in [Objects -> Watch({"reInitialize", "calcMetric", "calcHelpers"})],
         objectWatch' = [objectWatch EXCEPT ![o] = increaseTarget(@, 1)],
         UNCHANGED <<left, alpha, PQ, solverWatch>>
  PROVE  PQCall(name)' /\ OpenObjects(name)' = OpenObjects(name)
  <1>1. PQTasks(name) /\ \A p \in Objects : PQObject(name, p)
    BY DEF PQCall
  <1>2. c \subseteq ImagesOf(o) /\ c # {} /\ c \in Chunks /\ \A p \in Objects : ImagesOf(p) \subseteq Images
    BY ChunkFacts
  <1>3. k.at = "addPQ" /\ k.obj = o /\ k.imgs = c /\ k.added = {} /\ k \in Tasks
    <2>1. c \in SUBSET Images
      BY <1>2
    <2> QED BY <2>1 DEF Task, Tasks
  <1>4. Region(k) = c /\ AddTask(k)
    <2>1. Region(k) = c
      BY <1>2, <1>3 DEF Region
    <2> QED BY <1>3, <2>1 DEF AddTask
  <1>5. \A l : Region(l)' = Region(l) /\ AddTask(l)' = AddTask(l)
    BY DEF Region, AddTask
  <1>6. o \notin left
    BY <1>1 DEF PQObject
  <1>7. Adding(o)' = Adding(o) \cup {k} /\ k \notin Adding(o) /\ \A p \in Objects \ {o} : Adding(p)' = Adding(p)
    BY <1>3 DEF Adding
  <1>8. \A i : Unposted(i) <=> Unposted(i)' \/ i \in c
    BY DEF Unposted
  <1>9. Uncounted(o)' = Uncounted(o) /\ Unadded(o)' = Unadded(o)
    <2>1. \A i : (\E l \in Adding(o)' : i \in l.imgs) <=> (\E l \in Adding(o) : i \in l.imgs) \/ i \in c
      BY <1>3, <1>7
    <2>2. \A i : (\E l \in Adding(o)' : i \in Region(l)) <=> (\E l \in Adding(o) : i \in Region(l)) \/ i \in c
      BY <1>4, <1>7
    <2>3. Uncounted(o)' = Uncounted(o)
      BY <1>8, <2>1 DEF Uncounted
    <2>4. Unadded(o)' = Unadded(o)
      BY <1>5, <1>8, <2>2 DEF Unadded
    <2> QED BY <2>3, <2>4
  <1>10. \A p \in Objects \ {o} : Uncounted(p)' = Uncounted(p) /\ Unadded(p)' = Unadded(p)
    <2>1. \A p \in Objects \ {o} : \A i \in ImagesOf(p) : Unposted(i)' <=> Unposted(i)
      BY <1>2, <1>8, ChunkFacts
    <2> QED BY <1>5, <1>7, <2>1 DEF Uncounted, Unadded
  <1>11. Pending(o) \in Nat \ {0}
    <2>1. Uncounted(o) # {}
      <3>1. PICK i \in c : TRUE
        BY <1>2
      <3>2. i \in Uncounted(o)
        BY <1>2, <3>1 DEF Uncounted, Unposted
      <3> QED BY <3>2
    <2> QED BY <2>1, PQSizes
  <1>12. Pending(o)' = Pending(o) + 1 /\ \A p \in Objects \ {o} : Pending(p)' = Pending(p)
    <2>1. Cardinality(Adding(o)') = Cardinality(Adding(o)) + 1
      <3>1. IsFiniteSet(Adding(o))
        BY PQSizes
      <3>2. Cardinality(Adding(o) \cup {k}) = Cardinality(Adding(o)) + 1
        BY <1>7, <3>1, FS_AddElement
      <3> QED BY <1>7, <3>2
    <2>2. Cardinality(Uncounted(o)) \in Nat /\ Cardinality(Adding(o)) \in Nat
      BY PQSizes
    <2>3. Pending(o)' = Pending(o) + 1
      BY <1>9, <2>1, <2>2 DEF Pending
    <2>4. \A p \in Objects \ {o} : Pending(p)' = Pending(p)
      BY <1>7, <1>10 DEF Pending
    <2> QED BY <2>3, <2>4
  <1>13. \A p \in Objects : \A h \in HandlersOf(name) : ObjectTask(h, p) \in Live' <=> ObjectTask(h, p) \in Live
    <2>1. \A p \in Objects : \A h \in HandlersOf(name) : ObjectTask(h, p).at # "addPQ"
      BY SimpleTasks, HandlerNames
    <2> QED BY <1>3, <2>1
  <1>14. \A p \in Objects : Handled(name, p)' <=> Handled(name, p)
    BY <1>13 DEF Handled
  <1>15. OpenObjects(name)' = OpenObjects(name)
    <2>1. \A p \in Objects : Pending(p)' # 0 <=> Pending(p) # 0
      BY <1>11, <1>12
    <2> QED BY <1>14, <2>1 DEF OpenObjects
  <1>16. PQTasks(name)'
    <2>1. \A l \in Live' : AddTask(l) \/ \E p \in Objects, h \in HandlersOf(name) : l = ObjectTask(h, p)
      BY <1>1, <1>4 DEF PQTasks
    <2>2. \A l, m \in Live' : l.at = "addPQ" /\ m.at = "addPQ" /\ l # m => Region(l) # Region(m)
      BY <1>1, <1>4 DEF PQTasks
    <2>3. \A l \in Live' : l.at = "addPQ" => Region(l) \notin chunks'
      BY <1>1, <1>4 DEF PQTasks
    <2> QED BY <1>5, <2>1, <2>2, <2>3 DEF PQTasks
  <1>17. ASSUME NEW p \in Objects
         PROVE  PQObject(name, p)'
    <2>1. CASE p = o
      <3>1. PICK H, n : H = {"reInitialize", "calcMetric", "calcHelpers"} /\ n = Pending(o)
        OBVIOUS
      <3>2. objectWatch[o] \in Watch(H) /\ Expects(objectWatch[o], n, FirstHandler(name)) /\ n \in Nat \ {0}
        BY <1>1, <1>6, <1>11, <3>1 DEF PQObject
      <3>3. Expects(increaseTarget(objectWatch[o], 1), n + 1, FirstHandler(name))
        BY <3>2, RaiseExpects
      <3>4. objectWatch'[o] = increaseTarget(objectWatch[o], 1)
        OBVIOUS
      <3>5. Expects(objectWatch'[o], Pending(o)', FirstHandler(name))
        BY <1>12, <3>1, <3>3, <3>4
      <3>6. Expects(objectWatch[o], Pending(o), FirstHandler(name))'
        BY <3>5 DEF Expects
      <3>7. ~Handled(name, o)' /\ o \notin left'
        BY <1>1, <1>6, <1>11, <1>14 DEF PQObject
      <3>8. PQ[o] = {<<j, alpha>> : j \in ImagesOf(o) \ Unadded(o)}
        BY <1>1, <1>6 DEF PQObject
      <3>9. (PQ[o] = {<<j, alpha>> : j \in ImagesOf(o) \ Unadded(o)})'
        BY <1>9, <3>8
      <3>10. \A g, h \in HandlersOf(name) : ObjectTask(g, o) \in Live' /\ ObjectTask(h, o) \in Live' => g = h
        BY <1>1, <1>6, <1>13 DEF PQObject
      <3> QED BY <2>1, <3>6, <3>7, <3>9, <3>10 DEF PQObject
    <2>2. CASE p # o
      <3>1. objectWatch'[p] = objectWatch[p]
        BY <2>2
      <3>2. PQObject(name, p)
        BY <1>1
      <3> QED BY <1>7, <1>10, <1>12, <1>13, <1>14, <2>2, <3>1, <3>2 DEF PQObject, Expects
    <2> QED BY <2>1, <2>2
  <1>18. Waits(solverWatch, Cardinality(OpenObjects(name)))'
    BY <1>15 DEF PQCall, Waits
  <1> QED BY <1>15, <1>16, <1>17, <1>18 DEF PQCall

\* A chunk of metric or calcPQ.
LEMMA StepPostChunk ==
  ASSUME IndInv, NEW c \in Chunks, PostChunk(c)
  PROVE  IndInv'
  <1> USE DEF control, watches, data
  <1>0. TypeOK /\ PoolInv /\ PlaceInv /\ chunks \subseteq Chunks
    BY DEF IndInv, TypeOK
  <1>1. /\ at = "post" /\ c \in chunks /\ chunks' = chunks \ {c}
        /\ UNCHANGED <<stage, calls, at, reset, left, th, mtx, solverWatch, data>>
    BY DEF PostChunk
  <1>2. PICK o \in Objects : /\ c \in ChunksOf(o)
                             /\ objectWatch' = [objectWatch EXCEPT ![o] = increaseTarget(@, 1)]
                             /\ posted' = posted \cup {Task("addPQ", o, c)}
    BY DEF PostChunk
  <1>3. calls # <<>> /\ Head(calls) \in {"metric", "calcPQ"}
    BY <1>0, <1>1 DEF PlaceInv
  <1>4. PICK name \in {"metric", "calcPQ"} : name = Head(calls)
    BY <1>3
  <1>5. PQCall(name)
    BY <1>1, <1>3, <1>4 DEF IndInv, MetricInv, HelpersInv, InCall
  <1>6. PICK k, P : k = Task("addPQ", o, c) /\ P = {k}
    OBVIOUS
  <1>7. c \in SUBSET Images
    BY <1>2, ChunkFacts
  <1>8. k.at = "addPQ" /\ k.imgs = c /\ k.added = {} /\ k \in Tasks /\ Busy(k)
    BY <1>6, <1>7 DEF Task, Tasks, Busy
  <1>9. k \notin Live
    <2>1. Region(k) = c
      BY <1>7, <1>8 DEF Region
    <2> QED BY <1>1, <1>5, <1>8, <2>1 DEF PQCall, PQTasks
  <1>10. IsFiniteSet(P) /\ (\A p \in P : Busy(p) /\ p \notin Live) /\ posted' = posted \cup P
    BY <1>2, <1>6, <1>8, <1>9, FS_Singleton
  <1>11. PoolInv' /\ Live' = Live \cup P
    BY <1>0, <1>1, <1>10, TasksPosted
  <1>12. Live' = Live \cup {k}
    BY <1>6, <1>11
  <1>13. objectWatch \in [Objects -> Watch({"reInitialize", "calcMetric", "calcHelpers"})]
    BY <1>0 DEF TypeOK
  <1>14. PQCall(name)' /\ OpenObjects(name)' = OpenObjects(name)
    BY <1>0, <1>1, <1>2, <1>5, <1>6, <1>9, <1>11, <1>12, <1>13, ChunkPosted
  <1>15. objectWatch' \in [Objects -> Watch({"reInitialize", "calcMetric", "calcHelpers"})]
    <2>1. PICK H : H = {"reInitialize", "calcMetric", "calcHelpers"}
      OBVIOUS
    <2>2. objectWatch \in [Objects -> Watch(H)] /\ objectWatch[o] \in Watch(H) /\ 1 \in Int
      BY <1>13, <2>1
    <2>3. increaseTarget(objectWatch[o], 1) \in Watch(H)
      BY <2>2, WatchTypes
    <2>4. objectWatch' \in [Objects -> Watch(H)]
      BY <1>2, <2>2, <2>3
    <2> QED BY <2>1, <2>4
  <1>16. TypeOK'
    <2>1. posted' \subseteq Tasks /\ chunks' \subseteq Chunks
      BY <1>0, <1>1, <1>6, <1>8, <1>10 DEF TypeOK
    <2> QED BY <1>0, <1>1, <1>15, <2>1 DEF TypeOK
  <1>17. UNCHANGED <<stage, calls, at, reset, alpha, otf, stale, shifted, ftSum, helpers, grad, sum, metric>>
    BY <1>1
  <1> QED BY <1>1, <1>3, <1>4, <1>11, <1>14, <1>16, <1>17, PQStep

\* A watch that has completed waits for nothing.
LEMMA Completed ==
  ASSUME NEW w, NEW S, IsFiniteSet(S), Waits(w, Cardinality(S)), w.completed
  PROVE  S = {}
  BY FS_EmptySet DEF Waits

\* A call with a task for each image has ended.
LEMMA ImagesEnd ==
  ASSUME NEW kind, ImageCall(kind), solverWatch.completed
  PROVE  ImagesAt(kind) = {} /\ Live = {}
  <1>1. IsFiniteSet(ImagesAt(kind))
    BY SolverAssumption, FS_Subset DEF ImagesAt
  <1>2. ImagesAt(kind) = {}
    BY <1>1, Completed DEF ImageCall
  <1> QED BY <1>2 DEF ImagesAt, ImageCall

\* metric or calcPQ has ended.
LEMMA PQEnds ==
  ASSUME PoolInv, NEW name \in {"metric", "calcPQ"}, PQCall(name), chunks \subseteq Chunks, solverWatch.completed
  PROVE  OpenObjects(name) = {} /\ Live = {}
  <1>1. IsFiniteSet(OpenObjects(name))
    BY SolverAssumption, FS_Subset DEF OpenObjects
  <1>2. OpenObjects(name) = {}
    BY <1>1, Completed DEF PQCall
  <1>3. ASSUME NEW k \in Live
        PROVE  FALSE
    <2>1. PQTasks(name)
      BY DEF PQCall
    <2>2. CASE k.at = "addPQ"
      <3>1. k.obj \in Objects /\ Pending(k.obj) \in Nat \ {0}
        BY <2>2, AddingFacts
      <3> QED BY <1>2, <3>1 DEF OpenObjects
    <2>3. CASE k.at # "addPQ"
      <3>1. PICK o \in Objects, h \in HandlersOf(name) : k = ObjectTask(h, o)
        BY <2>1, <2>3, PQTaskForms
      <3>2. Handled(name, o)
        BY <3>1 DEF Handled
      <3> QED BY <1>2, <3>2 DEF OpenObjects
    <2> QED BY <2>2, <2>3
  <1> QED BY <1>2, <1>3

\* shiftAndInit has ended.
LEMMA ShiftEnds ==
  ASSUME ShiftCall, left = {}, solverWatch.completed, \A o \in Objects : ftSum[o] \subseteq ImagesOf(o), stale \subseteq Images
  PROVE  FtFresh /\ Live = {}
  <1>1. OpenImages = {}
    BY ShiftSizes, Completed DEF ShiftCall
  <1>2. ASSUME NEW o \in Objects
        PROVE  ~Adjusting(o) /\ ImagesOfAt("initialize", o) = {}
    <2>1. PICK i \in ImagesOf(o) : i \in Images /\ ObjectOf[i] = o
      BY ChunkFacts DEF ImagesOf
    <2>2. ~Adjusting(o)
      BY <1>1, <2>1 DEF OpenImages
    <2>3. \A j \in ImagesOf(o) : j \in Images /\ ObjectOf[j] = o
      BY DEF ImagesOf
    <2>4. \A j \in ImagesOf(o) : j \notin ImagesOfAt("initialize", o)
      BY <1>1, <2>3 DEF OpenImages
    <2> QED BY <2>2, <2>4 DEF ImagesOfAt
  <1>3. \A o \in Objects : stale \cap ImagesOf(o) = {} /\ ftSum[o] = ImagesOf(o)
    BY <1>2 DEF ShiftCall, ShiftObject
  <1>4. stale = {}
    BY <1>3, ChunkFacts
  <1>5. ASSUME NEW k \in Live
        PROVE  FALSE
    <2>1. ShiftTask(k)
      BY DEF ShiftCall
    <2>2. CASE \E o \in Objects : k = ObjectTask("reInitialize", o)
      BY <1>2, <2>2 DEF Adjusting, Renewed
    <2>3. CASE \E i \in Images, kind \in {"adjust", "initialize"} : k = ImageTask(kind, i)
      <3>1. PICK i \in Images, kind \in {"adjust", "initialize"} : k = ImageTask(kind, i)
        BY <2>3
      <3>2. ObjectOf[i] \in Objects /\ i \in ImagesOfAt(kind, ObjectOf[i])
        BY <3>1, ChunkFacts DEF ImagesOfAt
      <3>3. ~Adjusting(ObjectOf[i]) /\ ImagesOfAt("initialize", ObjectOf[i]) = {}
        BY <1>2, <3>2
      <3>4. kind # "initialize"
        BY <3>2, <3>3
      <3>5. kind # "adjust"
        BY <3>2, <3>3 DEF Adjusting
      <3> QED BY <3>4, <3>5
    <2> QED BY <2>1, <2>2, <2>3 DEF ShiftTask
  <1> QED BY <1>3, <1>4, <1>5 DEF FtFresh

\* What a call leaves behind when its watch has completed.
LEMMA CallEnds ==
  ASSUME IndInv, at = "wait", solverWatch.completed
  PROVE  /\ calls # <<>> /\ calls \in Scripts /\ Live = {} /\ left = {} /\ chunks = {}
         /\ Head(calls) = "applyAlpha" => OtfFresh
         /\ Head(calls) = "metric" => sum = {Value(o) : o \in Objects}
         /\ Head(calls) = "calcPQ" => HelpersFresh
         /\ Head(calls) = "gradient" /\ stage = "line" => \A i \in Images : grad[i] = <<alpha, Complete(ObjectOf[i])>>
         /\ Head(calls) = "shiftAndInit" => FtFresh
  <1>0. TypeOK /\ PoolInv /\ PlaceInv /\ DataInv /\ chunks \subseteq Chunks /\ stale \subseteq Images
    BY DEF IndInv, TypeOK
  <1>1. calls # <<>> /\ calls \in Scripts /\ left = {} /\ chunks = {}
    BY <1>0 DEF PlaceInv
  <1>2. Head(calls) \in {"shiftAndInit", "applyAlpha", "metric", "calcPQ", "gradient"}
    BY <1>1, ScriptFacts
  <1>3. CASE Head(calls) = "applyAlpha"
    <2>1. ImageCall("apply") /\ \A i \in Images \ ImagesAt("apply") : otf[i] = alpha
      BY <1>1, <1>3 DEF IndInv, ApplyInv, InCall
    <2>2. ImagesAt("apply") = {} /\ Live = {}
      BY <2>1, ImagesEnd
    <2> QED BY <1>1, <1>3, <2>1, <2>2 DEF OtfFresh
  <1>4. CASE Head(calls) = "gradient"
    <2>1. /\ ImageCall("grad")
          /\ stage = "line" => \A i \in Images \ ImagesAt("grad") : grad[i] = <<alpha, Complete(ObjectOf[i])>>
      BY <1>1, <1>4 DEF IndInv, GradInv, InCall
    <2>2. ImagesAt("grad") = {} /\ Live = {}
      BY <2>1, ImagesEnd
    <2> QED BY <1>1, <1>4, <2>1, <2>2
  <1>5. CASE Head(calls) = "metric"
    <2>1. PQCall("metric") /\ sum = {Value(o) : o \in Objects \ OpenObjects("metric")}
      BY <1>1, <1>5 DEF IndInv, MetricInv, InCall
    <2>2. OpenObjects("metric") = {} /\ Live = {}
      BY <1>0, <2>1, PQEnds
    <2> QED BY <1>1, <1>5, <2>1, <2>2
  <1>6. CASE Head(calls) = "calcPQ"
    <2>1. PQCall("calcPQ") /\ \A o \in Objects \ OpenObjects("calcPQ") : helpers[o] = Complete(o)
      BY <1>1, <1>6 DEF IndInv, HelpersInv, InCall
    <2>2. OpenObjects("calcPQ") = {} /\ Live = {}
      BY <1>0, <2>1, PQEnds
    <2> QED BY <1>1, <1>6, <2>1, <2>2 DEF HelpersFresh
  <1>7. CASE Head(calls) = "shiftAndInit"
    <2>1. ShiftCall
      BY <1>1, <1>7 DEF IndInv, ShiftInv, InCall
    <2>2. FtFresh /\ Live = {}
      BY <1>0, <1>1, <2>1, ShiftEnds DEF DataInv
    <2> QED BY <1>1, <1>7, <2>2
  <1> QED BY <1>2, <1>3, <1>4, <1>5, <1>6, <1>7

\* A call returns.
LEMMA StepWait ==
  ASSUME IndInv, Wait
  PROVE  IndInv'
  <1> USE DEF control, watches
  <1>0. TypeOK /\ PoolInv /\ PlaceInv /\ DataInv
    BY DEF IndInv
  <1>1. /\ at = "wait" /\ solverWatch.completed /\ at' = "free" /\ calls' = Tail(calls)
        /\ metric' = IF Head(calls) = "metric" THEN sum ELSE metric
        /\ UNCHANGED <<stage, reset, left, chunks, posted, th, mtx, watches,
                       alpha, otf, stale, shifted, ftSum, PQ, helpers, grad, sum>>
    BY DEF Wait
  <1>2. /\ calls # <<>> /\ calls \in Scripts /\ Live = {} /\ left = {} /\ chunks = {}
        /\ Head(calls) = "applyAlpha" => OtfFresh
        /\ Head(calls) = "metric" => sum = {Value(o) : o \in Objects}
        /\ Head(calls) = "calcPQ" => HelpersFresh
        /\ Head(calls) = "gradient" /\ stage = "line" => \A i \in Images : grad[i] = <<alpha, Complete(ObjectOf[i])>>
        /\ Head(calls) = "shiftAndInit" => FtFresh
    BY <1>1, CallEnds
  <1>3. PoolInv' /\ Live' = Live
    BY <1>0, <1>1, SameLive
  <1>4. TypeOK'
    <2>1. Tail(calls) \in Seq({"shiftAndInit", "applyAlpha", "metric", "calcPQ", "gradient"})
      BY <1>0, <1>2 DEF TypeOK
    <2> QED BY <1>0, <1>1, <2>1 DEF TypeOK
  <1>5. /\ calls' \in Scripts /\ calls' # <<"shiftAndInit">>
        /\ calls \in LineScripts => calls' \in LineScripts
        /\ calls' = <<"gradient">> /\ calls \in LineScripts => Head(calls) = "calcPQ"
        /\ calls' = <<>> /\ calls \in LineScripts => Head(calls) = "gradient"
        /\ Head(calls) = "shiftAndInit" <=> calls = <<"shiftAndInit">>
        /\ Head(calls) # "metric" /\ calls' \notin WithMetric => calls \notin WithMetric
    BY <1>1, <1>2, ScriptFacts
  <1>6. stage # "start" /\ (stage = "line" => calls \in LineScripts)
    BY <1>0, <1>2 DEF PlaceInv
  <1>7. PlaceInv'
    BY <1>1, <1>2, <1>3, <1>5, <1>6 DEF PlaceInv
  <1>8. DataInv'
    <2>1. FtFresh
      BY <1>0, <1>2, <1>5, <1>6 DEF DataInv
    <2>2. OtfFresh
      BY <1>0, <1>2 DEF DataInv
    <2>3. stage \in {"set", "iterate", "search", "shift", "restore", "done"} /\ calls' \notin WithMetric
          => metric' = {Value(o) : o \in Objects}
      <3>1. CASE Head(calls) = "metric"
        BY <1>1, <1>2, <3>1
      <3>2. CASE Head(calls) # "metric"
        BY <1>0, <1>1, <1>5, <3>2 DEF DataInv
      <3> QED BY <3>1, <3>2
    <2>4. stage = "line" /\ calls' = <<"gradient">> => HelpersFresh
      BY <1>2, <1>5, <1>6
    <2>5. stage = "line" /\ calls' = <<>> => \A i \in Images : grad[i] = <<alpha, Complete(ObjectOf[i])>>
      BY <1>2, <1>5, <1>6
    <2>6. \A o : Complete(o)' = Complete(o) /\ Value(o)' = Value(o)
      BY <1>1 DEF Complete, Value
    <2>7. FtFresh' /\ OtfFresh' /\ (HelpersFresh => HelpersFresh')
      BY <1>1, <2>1, <2>2, <2>6 DEF FtFresh, OtfFresh, HelpersFresh
    <2> QED BY <1>0, <1>1, <1>5, <2>3, <2>4, <2>5, <2>6, <2>7 DEF DataInv
  <1> QED BY <1>1, <1>3, <1>4, <1>7, <1>8, NoCall

-----------------------------------------------------------------------------
(* The theorems                                                            *)

\* The minimizer's loops begin an evaluation, or a shift.
LEMMA StepRun ==
  ASSUME IndInv, Run
  PROVE  IndInv'
  <1>1. CASE Shift("start", "initial", TRUE) \/ Shift("shift", "set", FALSE)
    BY <1>1, StepShift
  <1>2. ASSUME NEW next, NEW s, NEW cs \in {my_f, my_fdf}, Evaluate(s, next, cs), s # "start",
               next \subseteq {"set", "iterate", "search", "final", "shift", "restore"}
        PROVE  IndInv'
    BY <1>2, StepEvaluate
  <1>3. CASE Evaluate("initial", {"set"}, my_f)
    <2>1. PICK next : next = {"set"}
      OBVIOUS
    <2> QED BY <1>2, <1>3, <2>1
  <1>4. CASE SetMinimizer
    <2>1. PICK next : next = {"iterate", "final"}
      OBVIOUS
    <2> QED BY <1>2, <1>4, <2>1 DEF SetMinimizer
  <1>5. CASE Iterate
    <2>1. PICK next : next = {"line", "final"}
      OBVIOUS
    <2>2. Evaluate("iterate", next, my_df)
      BY <1>5, <2>1 DEF Iterate
    <2>3. next \subseteq {"line", "final"} /\ "iterate" # "start"
      BY <2>1
    <2> QED BY <2>2, <2>3, StepEvaluate
  <1>6. CASE LineSearch
    <2>1. PICK next : next = Repeat({"search", "iterate"}, {"final"})
      OBVIOUS
    <2>2. next \subseteq {"search", "iterate", "final"}
      BY <2>1 DEF Repeat
    <2>3. PICK s \in {"line", "search"} : Evaluate(s, next, my_f)
      BY <1>6, <2>1 DEF LineSearch
    <2> QED BY <1>2, <2>2, <2>3
  <1>7. CASE Evaluate("final", Repeat({"shift"}, {"restore"}), my_f)
    <2>1. PICK next : next = Repeat({"shift"}, {"restore"})
      OBVIOUS
    <2>2. next \subseteq {"shift", "restore"}
      BY <2>1 DEF Repeat
    <2> QED BY <1>2, <1>7, <2>1, <2>2
  <1> QED BY <1>1, <1>3, <1>4, <1>5, <1>6, <1>7 DEF Run

\* Every step of the main thread keeps the invariant.
LEMMA StepMainThread ==
  ASSUME IndInv, MainThread
  PROVE  IndInv'
  <1>1. CASE Run \/ Restore
    BY <1>1, StepRun, StepRestore
  <1>2. CASE PostImages("applyAlpha", "apply") \/ PostImages("gradient", "grad")
    BY <1>2, StepPostImages
  <1>3. CASE BeginObjects("metric", Cardinality(Objects)) \/ BeginObjects("calcPQ", Cardinality(Objects))
    BY <1>3, StepBeginPQ
  <1>4. CASE BeginObjects("shiftAndInit", Cardinality(Images))
    BY <1>4, StepBeginShift
  <1>5. ASSUME NEW o \in Objects,
               PostShifts(o) \/ NextObject(o, "metric", "calcMetric") \/ NextObject(o, "calcPQ", "calcHelpers")
        PROVE  IndInv'
    <2>1. FirstHandler("metric") = "calcMetric" /\ FirstHandler("calcPQ") = "calcHelpers"
      BY DEF FirstHandler
    <2>2. CASE PostShifts(o)
      BY <2>2, StepPostShifts
    <2>3. CASE NextObject(o, "metric", "calcMetric")
      <3>1. NextObject(o, "metric", FirstHandler("metric"))
        BY <2>1, <2>3
      <3> QED BY <3>1, StepNextObject
    <2>4. CASE NextObject(o, "calcPQ", "calcHelpers")
      <3>1. NextObject(o, "calcPQ", FirstHandler("calcPQ"))
        BY <2>1, <2>4
      <3> QED BY <3>1, StepNextObject
    <2> QED BY <1>5, <2>2, <2>3, <2>4
  <1>6. ASSUME NEW c \in Chunks, PostChunk(c)
        PROVE  IndInv'
    BY <1>6, StepPostChunk
  <1>7. CASE EndPost \/ RegAlpha
    BY <1>7, StepEndPost
  <1>8. CASE Wait
    BY <1>8, StepWait
  <1> QED BY <1>1, <1>2, <1>3, <1>4, <1>5, <1>6, <1>7, <1>8 DEF MainThread

\* So does every step of a thread of the pool.
LEMMA StepPoolThread ==
  ASSUME IndInv, NEW t \in Threads, PoolThread(t)
  PROVE  IndInv'
  BY StepTake, StepApplyAlpha, StepGradient, StepAddPQ, StepAddToPQ, StepAdjustShifts, StepInitialize,
     StepCalcMetric, StepAddMetric, StepUnlock, StepCalcHelpers, StepReInitialize DEF PoolThread

\* Before the first call there are no tasks, and nothing was made.
LEMMA InitHolds ==
  Init => IndInv
  <1> SUFFICES ASSUME Init
               PROVE  IndInv
    OBVIOUS
  <1>1. \A t \in Threads : th[t] = Idle /\ ~Busy(th[t]) /\ th[t] \in Tasks
    BY TaskTypes DEF Init
  <1>2. Live = {} /\ posted = {}
    BY <1>1 DEF Live, Init
  <1>3. PoolInv
    BY <1>1, <1>2, FS_EmptySet DEF PoolInv, Distinct
  <1>4. NewWatch \in Watch({}) /\ NewWatch \in Watch({"reInitialize", "calcMetric", "calcHelpers"})
    BY DEF NewWatch, Watch
  <1>5. TypeOK
    <2>1. th \in [Threads -> Tasks]
      BY TaskTypes DEF Init
    <2>2. objectWatch \in [Objects -> Watch({"reInitialize", "calcMetric", "calcHelpers"})]
      BY <1>4 DEF Init
    <2>3. calls \in Seq({"shiftAndInit", "applyAlpha", "metric", "calcPQ", "gradient"})
      BY DEF Init
    <2>4. grad \in [Images -> Nat \X SUBSET (Images \X Nat)] /\ otf \in [Images -> Nat]
      BY DEF Init
    <2>5. /\ PQ \in [Objects -> SUBSET (Images \X Nat)] /\ helpers \in [Objects -> SUBSET (Images \X Nat)]
          /\ ftSum \in [Objects -> SUBSET Images]
      BY DEF Init
    <2> QED BY <1>4, <2>1, <2>2, <2>3, <2>4, <2>5 DEF TypeOK, Init
  <1>6. PlaceInv
    BY <1>2, ScriptFacts DEF PlaceInv, Init
  <1>7. DataInv
    <2>1. OtfFresh /\ \A o \in Objects : ftSum[o] \subseteq ImagesOf(o)
      BY DEF OtfFresh, Init
    <2>2. <<>> # <<"shiftAndInit">> /\ stage = "start" /\ calls = <<>>
      BY DEF Init
    <2> QED BY <2>1, <2>2 DEF DataInv
  <1>8. at = "free"
    BY DEF Init
  <1> QED BY <1>3, <1>5, <1>6, <1>7, <1>8 DEF IndInv, ApplyInv, GradInv, MetricInv, HelpersInv, ShiftInv, InCall

\* The inductive invariant: what each call has left to do is what its watches wait for.
THEOREM InductiveInvariant ==
  Spec => []IndInv
  <1>1. IndInv /\ [Next]_vars => IndInv'
    <2> SUFFICES ASSUME IndInv, [Next]_vars
                 PROVE  IndInv'
      OBVIOUS
    <2>1. CASE MainThread
      BY <2>1, StepMainThread
    <2>2. CASE \E t \in Threads : PoolThread(t)
      BY <2>2, StepPoolThread
    <2>3. CASE UNCHANGED vars
      <3>1. UNCHANGED <<control, posted, th, mtx, watches, data>>
        BY <2>3 DEF vars
      <3>2. PoolInv' /\ Live' = Live
        BY <3>1, SameLive DEF IndInv
      <3>3. TypeOK'
        BY <3>1 DEF IndInv, TypeOK, control, watches, data
      <3> QED BY <3>1, <3>2, <3>3, SameTasks DEF control
    <2> QED BY <2>1, <2>2, <2>3 DEF Next
  <1> QED BY <1>1, InitHolds, PTL DEF Spec

\* The variables keep their types, for any objects, images, chunks and threads.
THEOREM TypeCorrect ==
  Spec => []TypeOK
  <1>1. IndInv => TypeOK
    BY DEF IndInv
  <1> QED BY <1>1, InductiveInvariant, PTL

\* A call returns after its last task: nothing it posted is queued or at work
\* (solver.cpp 767-813).
THEOREM CallsAreQuiet ==
  Spec => []Quiet
  <1>1. IndInv => Quiet
    <2> SUFFICES ASSUME IndInv, at = "free"
                 PROVE  posted = {} /\ \A t \in Threads : th[t].at \in {"idle", "unlock"}
      BY DEF Quiet
    <2>1. Live = {}
      BY DEF IndInv, PlaceInv
    <2> QED BY <2>1, LiveIs DEF Busy
  <1> QED BY <1>1, InductiveInvariant, PTL

\* The value of an evaluation has each object once, with all its images at the current
\* coefficients (solver.cpp 762-816, 534).
THEOREM MetricIsExact ==
  Spec => []MetricExact
  <1>1. IndInv => MetricExact
    <2> SUFFICES ASSUME IndInv, Evaluated, stage \in {"set", "iterate", "search", "shift", "restore", "done"}
                 PROVE  metric = {<<o, Complete(o), ImagesOf(o)>> : o \in Objects}
      BY DEF MetricExact
    <2>1. calls = <<>> /\ calls \notin WithMetric
      BY ScriptFacts DEF Evaluated
    <2> QED BY <2>1 DEF IndInv, DataInv, Value
  <1> QED BY <1>1, InductiveInvariant, PTL

\* The gradient of an iteration is made from OTFs and helpers at the current coefficients
\* (solver.cpp 223-229, 860-895).
THEOREM GradientIsFresh ==
  Spec => []GradientFresh
  <1>1. IndInv => GradientFresh
    BY DEF IndInv, DataInv, GradientFresh, Evaluated
  <1> QED BY <1>1, InductiveInvariant, PTL

\* Between the calls every image's FT is of the image as it is shifted now, and part of
\* the sum of its object (solver.cpp 584, object.cpp 885).
THEOREM ImagesAreFresh ==
  Spec => []ImagesFresh
  <1>1. IndInv => ImagesFresh
    <2> SUFFICES ASSUME IndInv, Evaluated, stage # "start"
                 PROVE  FtFresh
      BY DEF ImagesFresh, FtFresh
    <2>1. calls # <<"shiftAndInit">>
      BY DEF Evaluated
    <2> QED BY <2>1 DEF IndInv, DataInv
  <1> QED BY <1>1, InductiveInvariant, PTL

====
