----------------------- MODULE WorkDistributionProofs -----------------------
(***************************************************************************)
(* Proofs about module WorkDistribution, for every number of jobs, patches *)
(* and slaves and every bound on losses, crashes and early time-outs.      *)
(* Type correctness needs no assumption on speed; the rest is for Timely.  *)
(***************************************************************************)
EXTENDS WorkDistribution, FiniteSetTheorems, TLAPS

-----------------------------------------------------------------------------
(* Types                                                                   *)

\* A message is well typed only if its slave counts attempts and has a patch, so the
\* types are preserved together with SlaveInv.
TypeInv == TypeOK /\ SlaveInv

\* The handler after TakeWIP.
LEMMA TakeUpdate ==
  ASSUME NEW l \in Handler, NEW t \in Patches \cup {None}, NEW k,
         k = [l EXCEPT !.pc = "reset", !.took = t]
  PROVE  /\ k \in Handler /\ k.host = l.host /\ k.part = l.part /\ k.wip = l.wip
         /\ k.pc = "reset" /\ k.took = t
  BY DEF Handler

\* The handler after ResetWIP.
LEMMA ResetUpdate ==
  ASSUME NEW l \in Handler, NEW k, k = [l EXCEPT !.pc = "apply"]
  PROVE  /\ k \in Handler /\ k.host = l.host /\ k.part = l.part /\ k.wip = l.wip
         /\ k.pc = "apply" /\ k.took = l.took
  BY DEF Handler

\* A slave whose state alone changes.
LEMMA SlaveUpdate ==
  ASSUME NEW s \in SlaveState, NEW x \in {"idle", "busy", "results", "put", "dead"}
  PROVE  [s EXCEPT !.state = x] = [state |-> x, part |-> s.part, try |-> s.try]
  BY DEF SlaveState

\* The daemon starts with empty queues and tables, its slaves idle.
LEMMA TypeInit == Init => TypeInv
  BY DistributionAssumption DEF Init, TypeInv, TypeOK, SlaveInv, SlaveState, Idle

\* Every handler and thread step keeps the types.
LEMMA TypeStep ==
  ASSUME TypeInv, [Next]_vars
  PROVE  TypeInv'
<1> USE DistributionAssumption
    DEF TypeInv, TypeOK, SlaveInv, SlaveState, managerVars, wipVars, boundVars, Lose
<1>1. ASSUME NEW p \in Patches, PrepareRemoteWork(p) PROVE TypeInv'
  BY <1>1 DEF PrepareRemoteWork
<1>2. ASSUME NEW p \in Patches, Loaded(p) PROVE TypeInv'
  BY <1>2 DEF Loaded
<1>3. ASSUME NEW p \in Patches, LoadFails(p) PROVE TypeInv'
  BY <1>3 DEF LoadFails
<1>4. ASSUME NEW p \in Patches, CheckParts(p) PROVE TypeInv'
  BY <1>4 DEF CheckParts
<1>5. ASSUME NEW h \in Hosts, NEW p \in Patches, SendWork(h, p) PROVE TypeInv'
  BY <1>5 DEF SendWork, AssignWork
<1>6. ASSUME NEW h \in Hosts, NEW p \in Patches, SendWorkLost(h, p) PROVE TypeInv'
  BY <1>6 DEF SendWorkLost, AssignWork
<1>7. ASSUME NEW h \in Hosts, Solved(h) PROVE TypeInv'
  <2>1. slave' = [slave EXCEPT ![h] =
                     [state |-> "results", part |-> slave[h].part, try |-> slave[h].try]]
    BY <1>7, SlaveUpdate DEF Solved
  <2>2. QED
    BY <1>7, <2>1 DEF Solved
<1>8. ASSUME NEW h \in Hosts, SolverFails(h) PROVE TypeInv'
  BY <1>8 DEF SolverFails, Idle
<1>9. ASSUME NEW h \in Hosts, SendResult(h) PROVE TypeInv'
  <2> DEFINE n == slave[h].try + 1
  <2>1. slave[h].part \in Patches /\ n \in 1..MaxReturns
    BY <1>9 DEF SendResult
  <2>2. puts' \subseteq PutMsg
    BY <1>9, <2>1 DEF SendResult, PutMsg
  <2>3. slave' = [slave EXCEPT ![h] = [state |-> "put", part |-> slave[h].part, try |-> n]]
    BY <1>9 DEF SendResult
  <2> HIDE DEF n
  <2>4. QED
    BY <1>9, <2>1, <2>2, <2>3 DEF SendResult
<1>10. ASSUME NEW h \in Hosts, Crash(h) PROVE TypeInv'
  BY <1>10 DEF Crash, Idle
<1>11. ASSUME NEW h \in Hosts, TimeOut(h) PROVE TypeInv'
  BY <1>11 DEF TimeOut
<1>12. ASSUME NEW h \in Hosts, DropEntry(h) PROVE TypeInv'
  BY <1>12 DEF DropEntry
<1>13. ASSUME NEW m \in puts, PutLost(m) PROVE TypeInv'
  BY <1>13 DEF PutLost, ReturnFailed, PutMsg, Idle
<1>14. ASSUME NEW m \in puts, PutPartsOK(m) PROVE TypeInv'
  BY <1>14 DEF PutPartsOK, PutParts, PutMsg, Handler, Idle
<1>15. ASSUME NEW m \in puts, PutPartsReplyLost(m) PROVE TypeInv'
  BY <1>15 DEF PutPartsReplyLost, PutParts, AwaitsReply, ReturnFailed, PutMsg, Handler, Idle
<1>16. ASSUME NEW l \in posted, TakeWIP(l) PROVE TypeInv'
  <2>1. l \in Handler /\ part[l.wip] \in Patches \cup {None}
    BY DEF Handler
  <2> DEFINE k == [l EXCEPT !.pc = "reset", !.took = part[l.wip]]
  <2>2. k \in Handler /\ posted' = (posted \ {l}) \cup {k}
    BY <1>16, <2>1, TakeUpdate DEF TakeWIP
  <2> HIDE DEF k
  <2>3. QED
    BY <1>16, <2>2 DEF TakeWIP
<1>17. ASSUME NEW l \in posted, ResetWIP(l) PROVE TypeInv'
  BY <1>17 DEF ResetWIP, Handler
<1>18. ASSUME NEW l \in posted, ApplyResult(l) PROVE TypeInv'
  <2>1. CASE l.took = None
    BY <1>18, <2>1 DEF ApplyResult
  <2>2. CASE l.took # None
    <3>1. PICK q \in PartsOf(JobOf[l.took]) : ReturnResults(q)
      BY <1>18, <2>2 DEF ApplyResult
    <3>2. q \in Patches /\ JobOf[q] \in Jobs /\ JobOf[l.took] \in Jobs
      BY <2>2 DEF PartsOf, Handler
    <3>3. step' \in [Patches -> {"QUEUED", "RUNNING", "ERR", "POSTPROCESS"}]
      BY <3>1, <3>2 DEF ReturnResults
    <3>4. progress' \in [Jobs -> Nat] /\ jobStep' \in [Jobs -> {"QUEUED", "RUNNING", "DONE"}]
      BY <3>1, <3>2 DEF ReturnResults
    <3>5. QED
      BY <1>18, <2>2, <3>2, <3>3, <3>4 DEF ApplyResult
  <2>3. QED
    BY <2>1, <2>2
<1>19. ASSUME NEW w \in Wips, FailWork(w) PROVE TypeInv'
  BY <1>19 DEF FailWork
<1>20. ASSUME NEW w \in Wips, ClearWIP(w) PROVE TypeInv'
  BY <1>20 DEF ClearWIP
<1>21. CASE UNCHANGED vars
  BY <1>21 DEF vars
<1>22. QED
  BY <1>1, <1>2, <1>3, <1>4, <1>5, <1>6, <1>7, <1>8, <1>9, <1>10, <1>11, <1>12, <1>13,
     <1>14, <1>15, <1>16, <1>17, <1>18, <1>19, <1>20, <1>21 DEF Next

\* All of the manager's and the slaves' state keeps its type, whatever is lost, late or
\* repeated: in particular no queue of prepared patches is taken from when it is empty,
\* and no slave sends a result more than MaxReturns times.
THEOREM TypeCorrect == Spec => []TypeOK
<1>1. TypeInv => TypeOK
  BY DEF TypeInv
<1>2. QED
  BY TypeInit, TypeStep, <1>1, PTL DEF Spec

-----------------------------------------------------------------------------
(* What each part of the invariant depends on                              *)

\* A step that leaves the WIP objects and their holders alone keeps TableInv.
LEMMA TableFrame ==
  ASSUME TableInv, UNCHANGED <<peerWIP, failing, posted, part>>
  PROVE  TableInv'
  BY DEF TableInv, InUse

\* A step that leaves slaves, messages, handlers and the table alone keeps MessageInv.
LEMMA MessageFrame ==
  ASSUME MessageInv, UNCHANGED <<puts, slave, posted, peerWIP>>
  PROVE  MessageInv'
  BY DEF MessageInv

\* A step that also leaves the parts of the WIPs alone keeps MatchInv.
LEMMA MatchFrame ==
  ASSUME MatchInv, UNCHANGED <<slave, peerWIP, part, puts, posted>>
  PROVE  MatchInv'
  BY DEF MatchInv

\* A step that moves no patch keeps OneHolder.
LEMMA HolderFrame ==
  ASSUME OneHolder, UNCHANGED <<preparing, wip_queue, step, part, failing, posted>>
  PROVE  OneHolder'
  BY DEF OneHolder, Live

\* A step that changes no step and no progress keeps CountInv.
LEMMA CountFrame ==
  ASSUME CountInv, UNCHANGED <<jobStep, progress, step>>
  PROVE  CountInv'
  BY DEF CountInv, Finished

\* ungetWork, failWork and checkParts move a patch that was taken and not finished: no
\* job gains or loses a result.
LEMMA CountRequeue ==
  ASSUME TypeOK, CountInv, NEW p \in Patches, NEW s,
         step[p] \notin {"QUEUED", "POSTPROCESS"}, s # "POSTPROCESS",
         step' = [step EXCEPT ![p] = s],
         UNCHANGED <<jobStep, progress>>
  PROVE  CountInv'
<1>1. \A j \in Jobs : Finished(j)' = Finished(j)
  BY DEF Finished, TypeOK
<1>2. jobStep[JobOf[p]] # "QUEUED"
  BY DistributionAssumption DEF CountInv, PartsOf
<1>3. QED
  BY <1>1, <1>2 DEF CountInv, TypeOK, PartsOf

\* A job has finitely many patches, at least one, so its results can be counted.
LEMMA FinitePatches ==
  ASSUME NEW j \in Jobs
  PROVE  /\ IsFiniteSet(PartsOf(j)) /\ PartsOf(j) # {}
         /\ IsFiniteSet(Finished(j)) /\ Finished(j) \subseteq PartsOf(j)
<1>1. PartsOf(j) \subseteq Patches /\ Finished(j) \subseteq PartsOf(j) /\ PartsOf(j) # {}
  BY DistributionAssumption DEF PartsOf, Finished
<1>2. QED
  BY <1>1, DistributionAssumption, FS_Subset

-----------------------------------------------------------------------------
(* The inductive invariant                                                 *)

\* The sender of a message under way waits for the reply, or is dead.
LEMMA PutState ==
  ASSUME MessageInv, NEW m \in puts
  PROVE  slave[m.host].state \in {"put", "dead"}
<1>1. \/ slave[m.host].state = "dead"
      \/ slave[m.host] = [state |-> "put", part |-> m.part, try |-> m.try]
  BY DEF MessageInv
<1>2. QED
  BY <1>1

\* A patch that waits to be sent, or is not RUNNING, is in no live WIP and in no handler
\* that will apply a result.
LEMMA NotElsewhere ==
  ASSUME TypeOK, OneHolder, NEW p \in Patches,
         preparing[p] + wip_queue[p] > 0 \/ step[p] # "RUNNING"
  PROVE  /\ \A v \in Wips : Live(v) => part[v] # p
         /\ \A l \in posted : l.pc = "apply" => l.took # p
<1>1. \A v \in Wips : part[v] # None /\ Live(v) =>
        step[part[v]] = "RUNNING" /\ preparing[part[v]] = 0 /\ wip_queue[part[v]] = 0
  BY DEF OneHolder
<1>2. \A l \in posted : l.pc = "apply" /\ l.took # None =>
        step[l.took] = "RUNNING" /\ preparing[l.took] = 0 /\ wip_queue[l.took] = 0
  BY DEF OneHolder
<1>3. QED
  BY <1>1, <1>2, DistributionAssumption

\* A patch is at most once in a loader thread or in wip_queue, and then it is RUNNING.
LEMMA Unsent ==
  ASSUME TypeOK, OneHolder, NEW p \in Patches
  PROVE  /\ preparing[p] \in Nat /\ wip_queue[p] \in Nat /\ preparing[p] + wip_queue[p] <= 1
         /\ preparing[p] > 0 \/ wip_queue[p] > 0 =>
              preparing[p] + wip_queue[p] = 1 /\ step[p] = "RUNNING"
<1>1. preparing[p] \in Nat /\ wip_queue[p] \in Nat
  BY DEF TypeOK
<1>2. preparing[p] + wip_queue[p] <= 1 /\ (preparing[p] + wip_queue[p] = 1 => step[p] = "RUNNING")
  BY DEF OneHolder
<1>3. QED
  BY <1>1, <1>2

\* A patch that nothing else holds may change its step and its place in the queue.
LEMMA HolderMove ==
  ASSUME TypeOK, OneHolder, NEW p \in Patches,
         \A v \in Wips : Live(v) => part[v] # p,
         \A l \in posted : l.pc = "apply" => l.took # p,
         \A q \in Patches \ {p} :
           preparing'[q] = preparing[q] /\ wip_queue'[q] = wip_queue[q] /\ step'[q] = step[q],
         preparing'[p] + wip_queue'[p] <= 1,
         preparing'[p] + wip_queue'[p] = 1 => step'[p] = "RUNNING",
         UNCHANGED <<part, failing, posted>>
  PROVE  OneHolder'
<1>1. \A q \in Patches : /\ preparing'[q] + wip_queue'[q] <= 1
                         /\ preparing'[q] + wip_queue'[q] = 1 => step'[q] = "RUNNING"
  BY DEF OneHolder
<1>2. ASSUME NEW w \in Wips, part[w] # None, Live(w)
      PROVE  /\ step'[part[w]] = "RUNNING" /\ preparing'[part[w]] = 0 /\ wip_queue'[part[w]] = 0
             /\ \A v \in Wips : Live(v) /\ part[v] = part[w] => v = w
  BY <1>2 DEF OneHolder, TypeOK
<1>3. ASSUME NEW l \in posted, l.pc = "apply", l.took # None
      PROVE  /\ step'[l.took] = "RUNNING" /\ preparing'[l.took] = 0 /\ wip_queue'[l.took] = 0
             /\ \A v \in Wips : Live(v) => part[v] # l.took
             /\ \A k \in posted : k.pc = "apply" /\ k.took = l.took => k = l
  BY <1>3 DEF OneHolder, TypeOK, Handler
<1>4. QED
  BY <1>1, <1>2, <1>3 DEF OneHolder, Live

\* The invariant holds when the daemon starts.
LEMMA IndInit == Init => IndInv
<1> SUFFICES ASSUME Init PROVE IndInv
  OBVIOUS
<1>1. TypeOK /\ SlaveInv
  BY TypeInit DEF TypeInv
<1>2. TableInv /\ MessageInv /\ MatchInv
  BY DEF Init, TableInv, MessageInv, MatchInv, Idle
<1>3. OneHolder
  BY DEF Init, OneHolder
<1>4. CountInv
  <2>1. \A j \in Jobs : jobStep[j] = "QUEUED" /\ \A p \in PartsOf(j) : step[p] = "QUEUED"
    BY DEF Init, PartsOf
  <2>2. QED
    BY <2>1 DEF CountInv
<1>5. QED
  BY <1>1, <1>2, <1>3, <1>4 DEF IndInv

\* The invariant without the types.
CoreInv == TableInv /\ MessageInv /\ MatchInv /\ OneHolder /\ CountInv

\* sendWork, whether or not the slave gets what it sends: the WIP it enters in the table
\* is nobody else's, and the patch comes from the queue only.
LEMMA AssignStep ==
  ASSUME TypeOK, TypeOK', CoreInv, NEW h \in Hosts, NEW p \in Patches, AssignWork(h, p),
         slave' \in {slave, [slave EXCEPT ![h] = [state |-> "busy", part |-> p, try |-> 0]]}
  PROVE  CoreInv'
<1>i. TableInv /\ MessageInv /\ MatchInv /\ OneHolder /\ CountInv
  BY DEF CoreInv
<1>0. /\ slave[h].state = "idle" /\ wip_queue[p] > 0
      /\ wip_queue' = [wip_queue EXCEPT ![p] = @ - 1]
  BY DEF AssignWork
<1>1. PICK w \in Wips \ InUse :
        /\ peerWIP' = [peerWIP EXCEPT ![h] = w]
        /\ part' = [v \in Wips |->
                      IF v = w THEN p
                      ELSE IF v = peerWIP[h] /\ \A l \in posted : l.wip # v THEN None
                      ELSE part[v]]
  BY DEF AssignWork
<1>2. /\ w \in Wips /\ part[w] = None /\ failing[w] = "no"
      /\ \A g \in Hosts : peerWIP[g] # w
      /\ \A l \in posted : l.wip # w
  BY <1>1, <1>i DEF InUse, TableInv
<1>3. \A m \in puts : m.host # h
  BY <1>0, <1>i, PutState
<1>4. UNCHANGED <<jobStep, progress, step, preparing, failing, posted, puts>>
  BY DEF AssignWork
<1>5. TableInv'
  <2>1. \A v \in Wips : part'[v] # None => v \in InUse'
    <3> SUFFICES ASSUME NEW v \in Wips, part'[v] # None PROVE v \in InUse'
      OBVIOUS
    <3>1. CASE v = w
      BY <1>1, <3>1 DEF InUse, TypeOK
    <3>2. CASE v # w
      <4>1. part[v] # None /\ (v = peerWIP[h] => \E l \in posted : l.wip = v)
        BY <1>1, <3>2
      <4>2. v \in InUse
        BY <4>1, <1>i DEF TableInv
      <4>3. QED
        BY <1>1, <1>4, <4>1, <4>2 DEF InUse, TypeOK
    <3>3. QED
      BY <3>1, <3>2
  <2>2. QED
    BY <1>1, <1>2, <1>4, <1>i, <2>1 DEF TableInv, TypeOK
<1>6. MessageInv'
  BY <1>1, <1>2, <1>3, <1>4, <1>i DEF MessageInv, TypeOK, PutMsg
<1>7. MatchInv'
  <2>1. \A g \in Hosts : g # h /\ peerWIP[g] # None => part'[peerWIP'[g]] = part[peerWIP[g]]
    BY <1>1, <1>2, <1>i DEF TableInv, TypeOK
  <2>2. \A l \in posted : part'[l.wip] = part[l.wip]
    BY <1>1, <1>2 DEF TypeOK, Handler
  <2>3. peerWIP'[h] = w /\ part'[w] = p /\ \A g \in Hosts : g # h => peerWIP'[g] = peerWIP[g]
    BY <1>1 DEF TypeOK
  <2>4. \A g \in Hosts : slave'[g].state \in {"busy", "results", "put"} /\ peerWIP'[g] # None
          => part'[peerWIP'[g]] \in {slave'[g].part, None}
    <3>1. ASSUME NEW g \in Hosts, g # h PROVE slave'[g] = slave[g]
      BY <3>1 DEF TypeOK
    <3>2. slave'[h].state = "idle" \/ slave'[h].part = p
      BY <1>0 DEF TypeOK
    <3>3. QED
      BY <3>1, <3>2, <2>1, <2>3, <1>i DEF MatchInv
  <2>5. \A m \in puts' : peerWIP'[m.host] # None => part'[peerWIP'[m.host]] \in {m.part, None}
    BY <2>1, <2>3, <1>3, <1>4, <1>i DEF MatchInv, TypeOK, PutMsg
  <2>6. QED
    BY <2>2, <2>4, <2>5, <1>4, <1>i DEF MatchInv
<1>8. OneHolder'
  <2>1. /\ preparing[p] = 0 /\ wip_queue[p] = 1 /\ step[p] = "RUNNING"
        /\ wip_queue' = [wip_queue EXCEPT ![p] = @ - 1]
    BY <1>0, <1>i, Unsent
  <2>2. \A v \in Wips : Live(v) => part[v] # p
    BY <2>1, <1>i, NotElsewhere
  <2>3. \A v \in Wips : part'[v] # None => part'[v] = part[v] \/ (v = w /\ part'[v] = p)
    BY <1>1
  <2>4. \A l \in posted : l.pc = "apply" => l.took # p
    BY <2>1, <1>i, NotElsewhere
  <2>5. QED
    BY <2>1, <2>2, <2>3, <2>4, <1>2, <1>4, <1>i DEF OneHolder, Live, TypeOK, Handler
<1>9. QED
  BY <1>5, <1>6, <1>7, <1>8, <1>4, <1>i, CountFrame DEF CoreInv

\* putParts: the WIP it hands to the posted handler has no other handler, and has the
\* patch of the message or none.
LEMMA PutPartsStep ==
  ASSUME TypeOK, TypeOK', SlaveInv, CoreInv, NEW m \in puts, PutParts(m),
         \/ slave' = IF AwaitsReply(m) THEN [slave EXCEPT ![m.host] = Idle] ELSE slave
         \/ AwaitsReply(m) /\ ReturnFailed(m.host)
  PROVE  CoreInv'
<1>i. TableInv /\ MessageInv /\ MatchInv /\ OneHolder /\ CountInv
  BY DEF CoreInv
<1> DEFINE k(w) == [host |-> m.host, part |-> m.part, try |-> m.try,
                    wip |-> w, pc |-> "take", took |-> None]
<1>1. PICK w \in Wips :
        /\ w = peerWIP[m.host] \/ (peerWIP[m.host] = None /\ w \notin InUse)
        /\ puts' = puts \ {m}
        /\ peerWIP' = [peerWIP EXCEPT ![m.host] = w]
        /\ posted' = posted \cup {k(w)}
        /\ UNCHANGED <<managerVars, part, failing>>
  BY DEF PutParts
<1>2. /\ m.host \in Hosts /\ m.part \in Patches /\ m.try \in 1..MaxReturns
      /\ part[w] \in {m.part, None} /\ failing[w] = "no"
      /\ \A g \in Hosts : peerWIP[g] = w => g = m.host
      /\ \A l \in posted : l.wip # w
  <2>1. m.host \in Hosts /\ m.part \in Patches /\ m.try \in 1..MaxReturns
    BY DEF TypeOK, PutMsg
  <2>2. CASE w = peerWIP[m.host]
    <3>1. part[w] \in {m.part, None}
      BY <2>2, <1>i, DistributionAssumption DEF MatchInv
    <3>2. \A l \in posted : l.wip # w
      BY <2>2, <1>i DEF MessageInv
    <3>3. failing[w] = "no" /\ \A g \in Hosts : peerWIP[g] = w => g = m.host
      BY <2>1, <2>2, <1>i, DistributionAssumption DEF TableInv
    <3>4. QED
      BY <2>1, <3>1, <3>2, <3>3
  <2>3. CASE w \notin InUse
    BY <2>1, <2>3, <1>i DEF TableInv, InUse
  <2>4. QED
    BY <1>1, <2>2, <2>3
<1>3. \A n \in puts' : n \in puts /\ n.host # m.host
  BY <1>1, <1>i DEF MessageInv
<1>4. /\ \A g \in Hosts : g # m.host => slave'[g] = slave[g]
      /\ \/ slave'[m.host].state \in {"idle", "dead"}
         \/ /\ slave'[m.host].state = "results" /\ slave'[m.host].try # 0
            /\ slave'[m.host].part = m.part
  <2>1. \/ slave[m.host].state = "dead"
        \/ slave[m.host] = [state |-> "put", part |-> m.part, try |-> m.try]
    BY <1>i DEF MessageInv
  <2>2. QED
    BY <1>2, <2>1 DEF AwaitsReply, ReturnFailed, Idle, TypeOK, SlaveState
<1>5. TableInv'
  <2>1. \A v \in Wips : v \in InUse => v \in InUse'
    BY <1>1, <1>2, DistributionAssumption DEF InUse, TypeOK
  <2>2. QED
    BY <1>1, <1>2, <1>i, <2>1, DistributionAssumption DEF TableInv, TypeOK
<1>6. MessageInv'
  BY <1>1, <1>2, <1>3, <1>4, <1>i DEF MessageInv, TypeOK, PutMsg
<1>7. MatchInv'
  BY <1>1, <1>2, <1>3, <1>4, <1>i DEF MatchInv, TypeOK, PutMsg
<1>8. OneHolder'
  BY <1>1, <1>i DEF OneHolder, Live, managerVars
<1>9. QED
  BY <1>1, <1>5, <1>6, <1>7, <1>8, <1>i, CountFrame DEF CoreInv, managerVars

\* A handler that has a patch applies the result of that very patch, which is RUNNING in
\* a RUNNING job.
LEMMA ApplyOne ==
  ASSUME TypeOK, CoreInv, NEW l \in posted, ApplyResult(l), l.took # None
  PROVE  /\ l.took = l.part /\ l.took \in Patches /\ step[l.took] = "RUNNING"
         /\ jobStep[JobOf[l.took]] = "RUNNING"
         /\ ReturnResults(l.took)
<1>1. l.took = l.part /\ l.took \in Patches /\ l.pc = "apply" /\ step[l.took] = "RUNNING"
  BY DEF ApplyResult, CoreInv, MatchInv, OneHolder, TypeOK, Handler
<1>2. jobStep[JobOf[l.took]] = "RUNNING"
  <2> DEFINE j == JobOf[l.took]
  <2>1. j \in Jobs /\ l.took \in PartsOf(j) /\ l.took \notin Finished(j)
    BY <1>1, DistributionAssumption DEF PartsOf, Finished
  <2>2. jobStep[j] # "QUEUED" /\ jobStep[j] # "DONE"
    BY <1>1, <2>1 DEF CoreInv, CountInv
  <2>3. QED
    BY <2>1, <2>2 DEF TypeOK
<1>3. QED
  BY <1>1, <1>2 DEF ApplyResult

\* Applying a result: one more patch is finished and counted, and the job is DONE exactly
\* if it was the last.
LEMMA ApplyStep ==
  ASSUME TypeOK, CoreInv, NEW l \in posted, ApplyResult(l)
  PROVE  CoreInv'
<1>i. TableInv /\ MessageInv /\ MatchInv /\ OneHolder /\ CountInv
  BY DEF CoreInv
<1>1. /\ posted' = posted \ {l} /\ l.pc = "apply" /\ part[l.wip] = None
      /\ UNCHANGED <<peerWIP, part, failing, puts, slave, preparing, wip_queue>>
  BY <1>i DEF ApplyResult, MatchInv, managerVars
<1>2. TableInv' /\ MessageInv' /\ MatchInv'
  BY <1>1, <1>i DEF TableInv, InUse, MessageInv, MatchInv
<1>3. CASE l.took = None
  <2>1. UNCHANGED <<step, jobStep, progress>>
    BY <1>3 DEF ApplyResult, managerVars
  <2>2. OneHolder'
    BY <1>1, <1>i, <2>1 DEF OneHolder, Live
  <2>3. QED
    BY <1>2, <1>i, <2>1, <2>2, CountFrame DEF CoreInv
<1>4. CASE l.took # None
  <2> DEFINE q == l.took
             j == JobOf[q]
             n == progress[j] + 1
  <2>1. q \in Patches /\ step[q] = "RUNNING" /\ jobStep[j] = "RUNNING" /\ ReturnResults(q)
    BY <1>4, ApplyOne
  <2>2. OneHolder'
    BY <1>1, <1>4, <1>i, <2>1 DEF ReturnResults, OneHolder, Live, TypeOK, Handler
  <2>3. j \in Jobs /\ q \in PartsOf(j) /\ q \notin Finished(j) /\ progress[j] = Cardinality(Finished(j))
    BY <2>1, <1>i, DistributionAssumption DEF PartsOf, Finished, CountInv
  <2>4. Finished(j)' = Finished(j) \cup {q} /\ \A i \in Jobs \ {j} : Finished(i)' = Finished(i)
    BY <2>1, <2>3 DEF ReturnResults, Finished, PartsOf, TypeOK
  <2>5. /\ IsFiniteSet(PartsOf(j)) /\ Finished(j)' \subseteq PartsOf(j)
        /\ Cardinality(Finished(j)') = n
    <3>1. IsFiniteSet(PartsOf(j)) /\ IsFiniteSet(Finished(j)) /\ Finished(j) \subseteq PartsOf(j)
      BY <2>3, FinitePatches
    <3>2. Cardinality(Finished(j) \cup {q}) = Cardinality(Finished(j)) + 1
      BY <2>3, <3>1, FS_AddElement
    <3>3. QED
      BY <2>3, <2>4, <3>1, <3>2
  <2>6. (n = Cardinality(PartsOf(j))) <=> (Finished(j)' = PartsOf(j))
    BY <2>5, FS_Subset
  <2>7. CountInv'
    <3>1. /\ progress'[j] = IF n = Cardinality(PartsOf(j)) THEN 0 ELSE n
          /\ jobStep'[j] = IF n = Cardinality(PartsOf(j)) THEN "DONE" ELSE "RUNNING"
          /\ \A i \in Jobs \ {j} : progress'[i] = progress[i] /\ jobStep'[i] = jobStep[i]
          /\ \A r \in Patches \ {q} : step'[r] = step[r]
      BY <2>1, <2>3 DEF ReturnResults, TypeOK
    <3>2. \A i \in Jobs \ {j} : \A r \in PartsOf(i) : step'[r] = step[r]
      BY <3>1, <2>3 DEF PartsOf
    <3> HIDE DEF n, j
    <3>3. QED
      BY <3>1, <3>2, <2>4, <2>5, <2>6, <1>i DEF CountInv
  <2>8. QED
    BY <1>2, <2>2, <2>7 DEF CoreInv
<1>5. QED
  BY <1>3, <1>4

\* Every handler and thread step keeps the invariant.
LEMMA IndStep ==
  ASSUME IndInv, [Next]_vars, Timely
  PROVE  IndInv'
<1> USE DEF managerVars, wipVars, boundVars, Lose
<1>t. TypeOK /\ SlaveInv /\ TypeOK' /\ SlaveInv'
  BY TypeStep DEF IndInv, TypeInv
<1>i. TableInv /\ MessageInv /\ MatchInv /\ OneHolder /\ CountInv
  BY DEF IndInv
<1>c. CoreInv
  BY <1>i DEF CoreInv
<1> SUFFICES CoreInv'
  BY <1>t DEF IndInv, CoreInv
<1>1. ASSUME NEW p \in Patches, PrepareRemoteWork(p) PROVE CoreInv'
  <2>1. TableInv' /\ MessageInv' /\ MatchInv'
    BY <1>1, <1>i, TableFrame, MessageFrame, MatchFrame DEF PrepareRemoteWork
  <2>2. OneHolder'
    <3>1. step[p] = "QUEUED" /\ preparing[p] = 0 /\ wip_queue[p] = 0
      BY <1>1, <1>t, <1>i, Unsent DEF PrepareRemoteWork
    <3>2. step'[p] = "RUNNING" /\ preparing'[p] = 1 /\ wip_queue'[p] = 0
      BY <1>1, <1>t, <3>1 DEF PrepareRemoteWork, TypeOK
    <3>3. \A q \in Patches \ {p} :
            preparing'[q] = preparing[q] /\ wip_queue'[q] = wip_queue[q] /\ step'[q] = step[q]
      BY <1>1, <1>t DEF PrepareRemoteWork, TypeOK
    <3>4. QED
      BY <1>1, <1>t, <1>i, <3>1, <3>2, <3>3, NotElsewhere, HolderMove DEF PrepareRemoteWork
  <2>3. CountInv'
    <3>1. \A j \in Jobs : Finished(j)' = Finished(j)
      BY <1>1, <1>t DEF PrepareRemoteWork, Finished, TypeOK
    <3>2. \A j \in Jobs : jobStep[j] = "QUEUED" => Finished(j) = {} /\ Cardinality(Finished(j)) = 0
      BY <1>i, FS_EmptySet DEF CountInv, Finished
    <3>3. QED
      BY <1>1, <1>t, <1>i, <3>1, <3>2, FinitePatches, DistributionAssumption
         DEF PrepareRemoteWork, CountInv, TypeOK, PartsOf
  <2>4. QED
    BY <2>1, <2>2, <2>3 DEF CoreInv
<1>2. ASSUME NEW p \in Patches, Loaded(p) PROVE CoreInv'
  <2>1. OneHolder'
    <3>1. step[p] = "RUNNING" /\ preparing[p] = 1 /\ wip_queue[p] = 0
      <4>1. preparing[p] > 0
        BY <1>2 DEF Loaded
      <4>2. QED
        BY <4>1, <1>t, <1>i, Unsent
    <3>2. step'[p] = "RUNNING" /\ preparing'[p] = 0 /\ wip_queue'[p] = 1
      BY <1>2, <1>t, <3>1 DEF Loaded, TypeOK
    <3>3. \A q \in Patches \ {p} :
            preparing'[q] = preparing[q] /\ wip_queue'[q] = wip_queue[q] /\ step'[q] = step[q]
      BY <1>2, <1>t DEF Loaded, TypeOK
    <3>4. QED
      BY <1>2, <1>t, <1>i, <3>1, <3>2, <3>3, NotElsewhere, HolderMove DEF Loaded
  <2>2. QED
    BY <1>2, <1>i, <2>1, TableFrame, MessageFrame, MatchFrame, CountFrame DEF Loaded, CoreInv
<1>3. ASSUME NEW p \in Patches, LoadFails(p) PROVE CoreInv'
  <2>1. step[p] = "RUNNING" /\ preparing[p] = 1 /\ wip_queue[p] = 0
    BY <1>3, <1>t, <1>i, Unsent DEF LoadFails
  <2>2. OneHolder'
    <3>1. preparing'[p] = 0 /\ wip_queue'[p] = 0
      BY <1>3, <1>t, <2>1 DEF LoadFails, TypeOK
    <3>2. \A q \in Patches \ {p} :
            preparing'[q] = preparing[q] /\ wip_queue'[q] = wip_queue[q] /\ step'[q] = step[q]
      BY <1>3, <1>t DEF LoadFails, TypeOK
    <3>3. QED
      BY <1>3, <1>t, <1>i, <2>1, <3>1, <3>2, NotElsewhere, HolderMove DEF LoadFails
  <2>3. CountInv'
    BY <1>3, <1>i, <1>t, <2>1, CountRequeue DEF LoadFails
  <2>4. QED
    BY <1>3, <1>i, <2>2, <2>3, TableFrame, MessageFrame, MatchFrame DEF LoadFails, CoreInv
<1>4. ASSUME NEW p \in Patches, CheckParts(p) PROVE CoreInv'
  <2>1. OneHolder'
    BY <1>4, <1>i, <1>t DEF CheckParts, Referenced, OneHolder, TypeOK, Handler, Live
  <2>2. CountInv'
    BY <1>4, <1>i, <1>t, CountRequeue DEF CheckParts
  <2>3. QED
    BY <1>4, <1>i, <2>1, <2>2, TableFrame, MessageFrame, MatchFrame DEF CheckParts, CoreInv
<1>5. ASSUME NEW h \in Hosts, NEW p \in Patches, SendWork(h, p) PROVE CoreInv'
  BY <1>5, <1>t, <1>c, AssignStep DEF SendWork
<1>6. ASSUME NEW h \in Hosts, NEW p \in Patches, SendWorkLost(h, p) PROVE CoreInv'
  BY <1>6, <1>t, <1>c, AssignStep DEF SendWorkLost
<1>7. ASSUME NEW h \in Hosts, Solved(h) PROVE CoreInv'
  <2>1. slave' = [slave EXCEPT ![h] =
                     [state |-> "results", part |-> slave[h].part, try |-> slave[h].try]]
    BY <1>7, <1>t, SlaveUpdate DEF Solved, TypeOK
  <2>2. MessageInv'
    BY <1>7, <1>t, <1>i, <2>1 DEF Solved, MessageInv, TypeOK, SlaveState
  <2>3. MatchInv'
    BY <1>7, <1>t, <1>i, <2>1 DEF Solved, MatchInv, TypeOK, SlaveState
  <2>4. QED
    BY <1>7, <1>i, <2>2, <2>3, TableFrame, HolderFrame, CountFrame DEF Solved, CoreInv
<1>8. ASSUME NEW h \in Hosts, SolverFails(h) PROVE CoreInv'
  <2>1. MessageInv' /\ MatchInv'
    BY <1>8, <1>t, <1>i DEF SolverFails, MessageInv, MatchInv, TypeOK, SlaveState, Idle
  <2>2. QED
    BY <1>8, <1>i, <2>1, TableFrame, HolderFrame, CountFrame DEF SolverFails, CoreInv
<1>9. ASSUME NEW h \in Hosts, SendResult(h) PROVE CoreInv'
  <2> DEFINE n == slave[h].try + 1
             m == [host |-> h, part |-> slave[h].part, try |-> n]
  <2>1. slave' = [slave EXCEPT ![h] = [state |-> "put", part |-> slave[h].part, try |-> n]]
    BY <1>9, <1>t DEF SendResult, TypeOK, SlaveState
  <2>2. puts' = puts \cup {m} /\ slave[h].state = "results" /\ slave[h].try \in Nat
    BY <1>9, <1>t, DistributionAssumption DEF SendResult, TypeOK, SlaveState
  <2>3. \A l \in posted : l.wip # peerWIP[h]
    BY <1>9, <1>t, <1>i, <2>2 DEF SendResult, MessageInv, TableInv
  <2>4. \A x \in puts : x.host # h
    BY <2>2, <1>i, PutState
  <2>5. MessageInv'
    BY <1>9, <1>t, <1>i, <2>1, <2>2, <2>3, <2>4 DEF SendResult, MessageInv, TypeOK, SlaveState
  <2>6. MatchInv'
    BY <1>9, <1>t, <1>i, <2>1, <2>2 DEF SendResult, MatchInv, TypeOK, SlaveState
  <2>7. QED
    BY <1>9, <1>i, <2>5, <2>6, TableFrame, HolderFrame, CountFrame DEF SendResult, CoreInv
<1>10. ASSUME NEW h \in Hosts, Crash(h) PROVE CoreInv'
  <2>1. slave' = [slave EXCEPT ![h] = [state |-> "dead", part |-> None, try |-> 0]]
    <3>1. Idle \in SlaveState /\ Idle.part = None /\ Idle.try = 0
      BY DistributionAssumption DEF Idle, SlaveState
    <3>2. QED
      BY <1>10, <3>1, SlaveUpdate DEF Crash
  <2>2. MessageInv' /\ MatchInv'
    BY <1>10, <1>t, <1>i, <2>1 DEF Crash, MessageInv, MatchInv, TypeOK
  <2>3. QED
    BY <1>10, <1>i, <2>2, TableFrame, HolderFrame, CountFrame DEF Crash, CoreInv
<1>11. ASSUME NEW h \in Hosts, TimeOut(h) PROVE CoreInv'
  <2> DEFINE w == peerWIP[h]
  <2>1. /\ w \in Wips /\ part[w] # None /\ \A l \in posted : l.wip # w
        /\ peerWIP' = [peerWIP EXCEPT ![h] = None]
        /\ failing' = [failing EXCEPT ![w] = "fail"]
        /\ UNCHANGED <<managerVars, part, posted, puts, slave>>
    BY <1>11, <1>t DEF TimeOut, TypeOK
  <2>2. TableInv'
    <3>1. \A v \in InUse : v # None => v \in InUse'
      BY <2>1, <1>t, DistributionAssumption DEF InUse, TypeOK
    <3>2. \A g \in Hosts : peerWIP'[g] = IF g = h THEN None ELSE peerWIP[g]
      BY <2>1, <1>t DEF TypeOK
    <3>3. \A v \in Wips : failing'[v] = IF v = w THEN "fail" ELSE failing[v]
      BY <2>1, <1>t DEF TypeOK
    <3>4. \A v \in Wips : part[v] # None => v \in InUse'
      BY <3>1, <1>i, DistributionAssumption DEF TableInv
    <3>6. \A f, g \in Hosts : peerWIP'[f] = peerWIP'[g] /\ peerWIP'[f] # None => f = g
      BY <2>1, <3>2, <3>3, <1>i, DistributionAssumption DEF TableInv
    <3>7. \A v \in Wips : failing'[v] # "no" =>
            /\ \A g \in Hosts : peerWIP'[g] # v
            /\ \A l \in posted : l.wip # v
      BY <2>1, <3>2, <3>3, <1>i, DistributionAssumption DEF TableInv
    <3>8. \A l \in posted : /\ \A g \in Hosts : peerWIP'[g] = l.wip => g = l.host
                            /\ \A x \in posted : x.wip = l.wip => x = l
      BY <2>1, <3>2, <1>i, <1>t, DistributionAssumption DEF TableInv, TypeOK, Handler
    <3>9. UNCHANGED <<part, posted>>
      BY <2>1
    <3>10. QED
      BY <3>4, <3>6, <3>7, <3>8, <3>9 DEF TableInv
  <2>3. MessageInv' /\ MatchInv'
    BY <2>1, <1>t, <1>i, DistributionAssumption DEF MessageInv, MatchInv, TypeOK, Handler, PutMsg
  <2>4. OneHolder'
    <3>1. failing[w] = "no"
      BY <2>1, <1>i DEF TableInv
    <3>2. \A v \in Wips : Live(v)' <=> Live(v)
      BY <2>1, <3>1, <1>t DEF Live, TypeOK
    <3>3. QED
      BY <2>1, <3>2, <1>i DEF OneHolder
  <2>5. QED
    BY <2>1, <1>i, <2>2, <2>3, <2>4, CountFrame DEF CoreInv
<1>12. ASSUME NEW h \in Hosts, DropEntry(h) PROVE CoreInv'
  <2>1. TableInv'
    <3>1. \A g \in Hosts : peerWIP'[g] = IF g = h THEN None ELSE peerWIP[g]
      BY <1>12, <1>t DEF DropEntry, TypeOK
    <3>2. \A v \in InUse : v # peerWIP[h] => v \in InUse'
      BY <1>12, <3>1 DEF DropEntry, InUse
    <3>3. \A v \in Wips : part[v] # None => v \in InUse'
      BY <1>12, <3>2, <1>i DEF DropEntry, TableInv
    <3>6. \A f, g \in Hosts : peerWIP'[f] = peerWIP'[g] /\ peerWIP'[f] # None => f = g
      BY <1>12, <3>1, <1>i, DistributionAssumption DEF DropEntry, TableInv
    <3>7. \A v \in Wips : failing'[v] # "no" =>
            /\ \A g \in Hosts : peerWIP'[g] # v
            /\ \A l \in posted : l.wip # v
      BY <1>12, <3>1, <1>i, DistributionAssumption DEF DropEntry, TableInv
    <3>8. \A l \in posted : /\ \A g \in Hosts : peerWIP'[g] = l.wip => g = l.host
                            /\ \A x \in posted : x.wip = l.wip => x = l
      BY <1>12, <3>1, <1>i, <1>t, DistributionAssumption DEF DropEntry, TableInv, TypeOK, Handler
    <3>9. UNCHANGED <<part, posted>>
      BY <1>12 DEF DropEntry
    <3>10. QED
      BY <3>3, <3>6, <3>7, <3>8, <3>9 DEF TableInv
  <2>2. MessageInv' /\ MatchInv'
    BY <1>12, <1>t, <1>i, DistributionAssumption
       DEF DropEntry, MessageInv, MatchInv, TypeOK, Handler, PutMsg
  <2>3. QED
    BY <1>12, <1>i, <2>1, <2>2, HolderFrame, CountFrame DEF DropEntry, CoreInv
<1>13. ASSUME NEW m \in puts, PutLost(m) PROVE CoreInv'
  <2>1. /\ m.host \in Hosts /\ m.try \in 1..MaxReturns /\ puts' = puts \ {m}
        /\ slave[m.host] = [state |-> "put", part |-> m.part, try |-> m.try]
    BY <1>13, <1>t, <1>i DEF PutLost, TypeOK, PutMsg, MessageInv
  <2>2. \/ slave' = [slave EXCEPT ![m.host] = Idle]
        \/ slave' = [slave EXCEPT ![m.host] = [state |-> "results", part |-> m.part, try |-> m.try]]
    <3>1. slave[m.host] \in SlaveState /\ slave[m.host].part = m.part /\ slave[m.host].try = m.try
      BY <1>t, <2>1 DEF TypeOK
    <3>2. [slave[m.host] EXCEPT !.state = "results"]
            = [state |-> "results", part |-> m.part, try |-> m.try]
      BY <3>1, SlaveUpdate
    <3>3. QED
      BY <1>13, <3>2 DEF PutLost, ReturnFailed
  <2>3. \A x \in puts' : x \in puts /\ x.host # m.host
    BY <2>1, <1>i DEF MessageInv
  <2>4. MessageInv' /\ MatchInv'
    BY <1>13, <1>t, <1>i, <2>1, <2>2, <2>3, DistributionAssumption
       DEF PutLost, MessageInv, MatchInv, TypeOK, PutMsg, Idle
  <2>5. QED
    BY <1>13, <1>i, <2>4, TableFrame, HolderFrame, CountFrame DEF PutLost, CoreInv
<1>14. ASSUME NEW m \in puts, PutPartsOK(m) PROVE CoreInv'
  BY <1>14, <1>t, <1>c, PutPartsStep DEF PutPartsOK
<1>15. ASSUME NEW m \in puts, PutPartsReplyLost(m) PROVE CoreInv'
  BY <1>15, <1>t, <1>c, PutPartsStep DEF PutPartsReplyLost
<1>16. ASSUME NEW l \in posted, TakeWIP(l) PROVE CoreInv'
  <2>1. l \in Handler /\ part[l.wip] \in Patches \cup {None} /\ l.pc = "take"
    BY <1>16, <1>t DEF TakeWIP, TypeOK, Handler
  <2> DEFINE k == [l EXCEPT !.pc = "reset", !.took = part[l.wip]]
  <2>0. posted' = (posted \ {l}) \cup {k}
    BY <1>16 DEF TakeWIP
  <2>2. /\ k \in Handler /\ k.host = l.host /\ k.part = l.part /\ k.wip = l.wip
        /\ k.pc = "reset" /\ k.took = part[l.wip]
    BY <2>1 DEF Handler
  <2> HIDE DEF k
  <2>3. TableInv'
    BY <1>16, <1>i, <2>0, <2>2 DEF TakeWIP, TableInv, InUse
  <2>4. MessageInv' /\ MatchInv'
    BY <1>16, <1>i, <2>0, <2>2 DEF TakeWIP, MessageInv, MatchInv
  <2>5. OneHolder'
    BY <1>16, <1>i, <2>0, <2>2 DEF TakeWIP, OneHolder, Live
  <2>6. QED
    BY <1>16, <1>i, <2>3, <2>4, <2>5, CountFrame DEF TakeWIP, CoreInv
<1>17. ASSUME NEW l \in posted, ResetWIP(l) PROVE CoreInv'
  <2>1. /\ l \in Handler /\ l.wip \in Wips /\ l.pc = "reset" /\ l.took = part[l.wip]
        /\ part' = [part EXCEPT ![l.wip] = None] /\ l.took \in Patches \cup {None}
    BY <1>17, <1>t, <1>i DEF ResetWIP, TypeOK, Handler, MatchInv
  <2> DEFINE k == [l EXCEPT !.pc = "apply"]
  <2>2. /\ posted' = (posted \ {l}) \cup {k} /\ k \in Handler
        /\ k.host = l.host /\ k.part = l.part /\ k.wip = l.wip
        /\ k.pc = "apply" /\ k.took = l.took
    BY <1>17, <2>1, ResetUpdate DEF ResetWIP
  <2> HIDE DEF k
  <2>3. TableInv'
    BY <1>17, <1>t, <1>i, <2>1, <2>2 DEF ResetWIP, TableInv, InUse, TypeOK
  <2>4. MessageInv' /\ MatchInv'
    BY <1>17, <1>t, <1>i, <2>1, <2>2
       DEF ResetWIP, MessageInv, MatchInv, TableInv, TypeOK, Handler, PutMsg
  <2>5. OneHolder'
    <3>1. Live(l.wip) /\ UNCHANGED <<preparing, wip_queue, step, failing>>
      BY <1>17, <1>i, <2>1 DEF ResetWIP, TableInv, Live
    <3>2. \A v \in Wips : part'[v] = IF v = l.wip THEN None ELSE part[v]
      BY <2>1, <1>t DEF TypeOK
    <3>3. ASSUME NEW v \in Wips, part'[v] # None, Live(v)
          PROVE  /\ step[part'[v]] = "RUNNING" /\ preparing[part'[v]] = 0 /\ wip_queue[part'[v]] = 0
                 /\ \A u \in Wips : Live(u) /\ part'[u] = part'[v] => u = v
      BY <3>2, <3>3, <1>i DEF OneHolder
    <3>4. ASSUME NEW x \in posted', x.pc = "apply", x.took # None
          PROVE  /\ step[x.took] = "RUNNING" /\ preparing[x.took] = 0 /\ wip_queue[x.took] = 0
                 /\ \A v \in Wips : Live(v) => part'[v] # x.took
                 /\ \A y \in posted' : y.pc = "apply" /\ y.took = x.took => y = x
      <4>1. CASE x = k
        BY <4>1, <3>1, <3>2, <3>4, <2>1, <2>2, <1>i DEF OneHolder
      <4>2. CASE x # k
        BY <4>2, <3>1, <3>2, <3>4, <2>1, <2>2, <1>i DEF OneHolder
      <4>3. QED
        BY <4>1, <4>2
    <3>5. QED
      BY <3>1, <3>3, <3>4, <1>i DEF OneHolder, Live
  <2>6. QED
    BY <1>17, <1>i, <2>3, <2>4, <2>5, CountFrame DEF ResetWIP, CoreInv
<1>18. ASSUME NEW l \in posted, ApplyResult(l) PROVE CoreInv'
  BY <1>18, <1>t, <1>c, ApplyStep DEF ApplyResult
<1>19. ASSUME NEW w \in Wips, FailWork(w) PROVE CoreInv'
  <2>1. TableInv'
    BY <1>19, <1>t, <1>i DEF FailWork, TableInv, InUse, TypeOK
  <2>2. part[w] # None => part[w] \in Patches /\ step[part[w]] = "RUNNING"
    BY <1>19, <1>t, <1>i DEF FailWork, OneHolder, Live, TypeOK
  <2>3. OneHolder'
    BY <1>19, <1>t, <1>i, <2>2 DEF FailWork, OneHolder, Live, TypeOK, Handler
  <2>4. CountInv'
    BY <1>19, <1>t, <1>i, <2>2, CountRequeue, CountFrame DEF FailWork
  <2>5. QED
    BY <1>19, <1>i, <2>1, <2>3, <2>4, MessageFrame, MatchFrame DEF FailWork, CoreInv
<1>20. ASSUME NEW w \in Wips, ClearWIP(w) PROVE CoreInv'
  <2>1. TableInv'
    BY <1>20, <1>t, <1>i DEF ClearWIP, TableInv, InUse, TypeOK
  <2>2. MatchInv'
    BY <1>20, <1>t, <1>i DEF ClearWIP, MatchInv, TableInv, TypeOK, PutMsg
  <2>3. OneHolder'
    BY <1>20, <1>t, <1>i DEF ClearWIP, OneHolder, Live, TypeOK
  <2>4. QED
    BY <1>20, <1>i, <2>1, <2>2, <2>3, MessageFrame, CountFrame DEF ClearWIP, CoreInv
<1>21. CASE UNCHANGED vars
  <2>1. /\ UNCHANGED <<jobStep, progress, step, preparing, wip_queue>>
        /\ UNCHANGED <<peerWIP, part, failing, posted, puts, slave>>
    BY <1>21 DEF vars
  <2>2. TableInv' /\ MessageInv' /\ MatchInv'
    BY <2>1, <1>i, TableFrame, MessageFrame, MatchFrame
  <2>3. OneHolder' /\ CountInv'
    BY <2>1, <1>i, HolderFrame, CountFrame
  <2>4. QED
    BY <2>2, <2>3 DEF CoreInv
<1>22. QED
  BY <1>1, <1>2, <1>3, <1>4, <1>5, <1>6, <1>7, <1>8, <1>9, <1>10, <1>11, <1>12, <1>13,
     <1>14, <1>15, <1>16, <1>17, <1>18, <1>19, <1>20, <1>21 DEF Next

\* If handlers are timely, a patch has one holder, a WIP one handler, and what a slave
\* returns meets the WIP it was sent with or an empty one, through every loss, crash,
\* retry and time-out.
THEOREM InductiveInvariant == Timely => (Spec => []IndInv)
<1> SUFFICES ASSUME Timely PROVE Spec => []IndInv
  OBVIOUS
<1>1. IndInv /\ [Next]_vars => IndInv'
  BY IndStep
<1>2. QED
  BY IndInit, <1>1, PTL DEF Spec

\* A job that moved to DONE has a result for every patch.
THEOREM DoneJobsAreComplete == Timely => (Spec => []DoneMeansAllParts)
<1>1. IndInv => DoneMeansAllParts
  BY DEF IndInv, CountInv, DoneMeansAllParts, Finished
<1>2. QED
  BY InductiveInvariant, <1>1, PTL

\* The progress of a running job is the number of its patches with a result: a result that
\* is sent again, or returned by two slaves, is counted once.
THEOREM ResultsCountedOnce == Timely => (Spec => []ProgressExact)
<1>1. IndInv => ProgressExact
  BY DEF IndInv, CountInv, ProgressExact
<1>2. QED
  BY InductiveInvariant, <1>1, PTL

\* A result is never applied under the WIP of another patch, although putParts pairs them
\* by the host alone.
THEOREM ResultsMatchTheirWork == Timely => (Spec => []ResultForOwnPart)
<1>1. IndInv => ResultForOwnPart
  BY DEF IndInv, MatchInv, ResultForOwnPart
<1>2. QED
  BY InductiveInvariant, <1>1, PTL
-----------------------------------------------------------------------------
(* Refinement of PatchLedger                                               *)

\* The refinement mapping of Ledger: patches with a result, and jobs that are DONE.
Done   == {p \in Patches : step[p] = "POSTPROCESS"}
Closed == {j \in Jobs : jobStep[j] = "DONE"}

\* Applying a result books its patch, or does nothing.
LEMMA ApplyBooks ==
  ASSUME IndInv, IndInv', NEW l \in posted, ApplyResult(l)
  PROVE  [Ledger!Next]_<<Done, Closed>>
<1>i. TypeOK /\ CoreInv
  BY DEF IndInv, CoreInv
<1>1. CASE l.took = None
  BY <1>1 DEF ApplyResult, managerVars, Done, Closed
<1>2. CASE l.took # None
  <2> DEFINE q == l.took
             j == JobOf[q]
  <2>1. q \in Patches /\ step[q] = "RUNNING" /\ jobStep[j] = "RUNNING" /\ ReturnResults(q)
    BY <1>2, <1>i, ApplyOne
  <2>2. j \in Jobs /\ q \notin Done /\ Done' = Done \cup {q}
    BY <2>1, <1>i, DistributionAssumption DEF ReturnResults, Done, TypeOK
  <2>3. /\ jobStep'[j] \in {"RUNNING", "DONE"}
        /\ \A i \in Jobs \ {j} : jobStep'[i] = jobStep[i]
    BY <2>1, <2>2, <1>i DEF ReturnResults, TypeOK
  <2>4. jobStep'[j] = "DONE" <=> PartsOf(j) \subseteq Done'
    <3>1. Finished(j)' = PartsOf(j) <=> PartsOf(j) \subseteq Done'
      BY DEF Finished, PartsOf, Done
    <3>2. jobStep'[j] = "DONE" <=> Finished(j)' = PartsOf(j)
      BY <2>2, <2>3 DEF IndInv, CountInv, PartsOf
    <3>3. QED
      BY <3>1, <3>2
  <2>5. Closed' = Closed \cup {i \in {j} : {r \in Patches : JobOf[r] = i} \subseteq Done'}
    BY <2>1, <2>2, <2>3, <2>4 DEF Closed, PartsOf
  <2>6. Ledger!Book(q)
    BY <2>2, <2>5 DEF Ledger!Book, Done, Closed
  <2>7. QED
    BY <2>1, <2>6 DEF Ledger!Next
<1>3. QED
  BY <1>1, <1>2

\* A patch that moves between unfinished steps books nothing.
LEMMA OthersBookNothing ==
  ASSUME TypeOK, NEW p \in Patches, NEW s,
         step[p] # "POSTPROCESS", s # "POSTPROCESS", step' = [step EXCEPT ![p] = s],
         Closed' = Closed
  PROVE  UNCHANGED <<Done, Closed>>
  BY DEF TypeOK, Done

\* Every step books one patch or nothing.
LEMMA StepBooks ==
  ASSUME IndInv, [Next]_vars, Timely
  PROVE  [Ledger!Next]_<<Done, Closed>>
<1> USE DEF managerVars
<1>t. TypeOK /\ CoreInv /\ OneHolder /\ IndInv'
  BY IndStep DEF IndInv, CoreInv
<1>1. ASSUME NEW p \in Patches, PrepareRemoteWork(p) PROVE UNCHANGED <<Done, Closed>>
  <2>1. Closed' = Closed
    BY <1>1, <1>t, DistributionAssumption DEF PrepareRemoteWork, Closed, TypeOK
  <2>2. QED
    BY <1>1, <1>t, <2>1, OthersBookNothing DEF PrepareRemoteWork
<1>2. ASSUME NEW p \in Patches, LoadFails(p) PROVE UNCHANGED <<Done, Closed>>
  <2>1. step[p] = "RUNNING" /\ Closed' = Closed
    BY <1>2, <1>t, Unsent DEF LoadFails, Closed
  <2>2. QED
    BY <1>2, <1>t, <2>1, OthersBookNothing DEF LoadFails
<1>3. ASSUME NEW p \in Patches, CheckParts(p) PROVE UNCHANGED <<Done, Closed>>
  <2>1. Closed' = Closed
    BY <1>3 DEF CheckParts, Closed
  <2>2. QED
    BY <1>3, <1>t, <2>1, OthersBookNothing DEF CheckParts
<1>4. ASSUME NEW w \in Wips, FailWork(w) PROVE UNCHANGED <<Done, Closed>>
  <2>1. Closed' = Closed /\ (part[w] # None => part[w] \in Patches /\ step[part[w]] = "RUNNING")
    BY <1>4, <1>t DEF FailWork, OneHolder, Live, TypeOK, Closed
  <2>2. CASE part[w] = None
    BY <1>4, <2>1, <2>2 DEF FailWork, Done
  <2>3. CASE part[w] # None
    BY <1>4, <1>t, <2>1, <2>3, OthersBookNothing DEF FailWork
  <2>4. QED
    BY <2>2, <2>3
<1>5. ASSUME UNCHANGED <<step, jobStep>> PROVE UNCHANGED <<Done, Closed>>
  BY <1>5 DEF Done, Closed
<1>6. ASSUME NEW p \in Patches, Loaded(p) PROVE UNCHANGED <<step, jobStep>>
  BY <1>6 DEF Loaded
<1>7. ASSUME NEW h \in Hosts, NEW p \in Patches, SendWork(h, p) \/ SendWorkLost(h, p)
      PROVE  UNCHANGED <<step, jobStep>>
  BY <1>7 DEF SendWork, SendWorkLost, AssignWork
<1>8. ASSUME NEW h \in Hosts,
             \/ Solved(h) \/ SolverFails(h) \/ SendResult(h) \/ Crash(h)
             \/ TimeOut(h) \/ DropEntry(h)
      PROVE  UNCHANGED <<step, jobStep>>
  BY <1>8 DEF Solved, SolverFails, SendResult, Crash, TimeOut, DropEntry
<1>9. ASSUME NEW m \in puts, PutLost(m) \/ PutPartsOK(m) \/ PutPartsReplyLost(m)
      PROVE  UNCHANGED <<step, jobStep>>
  BY <1>9 DEF PutLost, PutPartsOK, PutPartsReplyLost, PutParts
<1>10. ASSUME NEW l \in posted, TakeWIP(l) \/ ResetWIP(l) PROVE UNCHANGED <<step, jobStep>>
  BY <1>10 DEF TakeWIP, ResetWIP
<1>11. ASSUME NEW w \in Wips, ClearWIP(w) PROVE UNCHANGED <<step, jobStep>>
  BY <1>11 DEF ClearWIP
<1>12. ASSUME UNCHANGED vars PROVE UNCHANGED <<step, jobStep>>
  BY <1>12 DEF vars
<1>13. ASSUME NEW l \in posted, ApplyResult(l) PROVE [Ledger!Next]_<<Done, Closed>>
  BY <1>13, <1>t, ApplyBooks
<1>14. QED
  BY <1>1, <1>2, <1>3, <1>4, <1>5, <1>6, <1>7, <1>8, <1>9, <1>10, <1>11, <1>12, <1>13 DEF Next

\* What the manager keeps is a ledger: each patch is booked once and for good, and its job
\* is closed by the booking of its last patch, neither before nor after.
THEOREM ImplementsLedger == Timely => (Spec => LedgerSpec)
<1> SUFFICES ASSUME Timely PROVE Spec => LedgerSpec
  OBVIOUS
<1>1. Init => Ledger!Init
  BY DEF Init, Ledger!Init
<1>2. IndInv /\ [Next]_vars => [Ledger!Next]_<<Done, Closed>>
  BY StepBooks
<1>3. QED
  BY InductiveInvariant, <1>1, <1>2, PTL DEF Spec, LedgerSpec, Ledger!Spec, Done, Closed
====
