-------------------------- MODULE WorkDistribution --------------------------
(***************************************************************************)
(* The manager's side of the distribution of patches to the slaves, with   *)
(* the slaves' side of the exchange: src/src/lib/daemon.cpp (sendWork,     *)
(* putParts, cleanup, getWork, returnWork, prepareRemoteWork), worker.cpp  *)
(* (fetchWork, returnWork, getWork) and momfbd/momfbdjob.cpp (getWork,     *)
(* ungetWork, failWork, checkParts, returnResults).                        *)
(*                                                                         *)
(* A job is split in patches.  A patch is loaded by a detached thread,     *)
(* waits in wip_queue, is sent to a slave, and its result is applied by a  *)
(* handler posted on the io-context AFTER the slave was told CMD_OK.  A    *)
(* WorkInProgress (WIP) object remembers which patch a slave has; the      *)
(* object is shared by the table peerWIP, by posted result handlers and by *)
(* the list of timed-out WIPs, which is where the races are.               *)
(***************************************************************************)
EXTENDS Naturals, FiniteSets

CONSTANTS
  Jobs,        \* jobs that are preprocessed and queued
  Patches,     \* the patches of all jobs
  JobOf,       \* the job of each patch
  Hosts,       \* slave processes; a host is a name and a pid, so a restart is a new host
  Wips,        \* identities of WorkInProgress objects that peerWIP has held
  None,        \* no patch, no WIP
  MaxRemote,   \* max_remote, the bound of the queue of prepared patches
  MaxReturns,  \* times a slave sends a result before it drops it (6 in the code)
  MaxLoss,     \* bound: connections lost, loads and solver runs that fail, slaves that die
  MaxCrash,    \* bound: how many of these are slave processes that die
  MaxEarly,    \* bound: time-outs of a WIP whose slave is still working on it
  Timely       \* TRUE: a posted handler ends before the slave's 5 s retry delay
               \* and before its WIP times out; FALSE: nothing is assumed

ASSUME DistributionAssumption ==
  /\ Patches # {} /\ IsFiniteSet(Patches)
  /\ JobOf \in [Patches -> Jobs]
  /\ \A j \in Jobs : \E p \in Patches : JobOf[p] = j
  /\ None \notin Patches /\ None \notin Wips
  /\ MaxRemote \in Nat \ {0} /\ MaxReturns \in Nat \ {0}
  /\ MaxLoss \in Nat /\ MaxCrash \in Nat /\ MaxEarly \in Nat
  /\ Timely \in BOOLEAN

VARIABLES
  jobStep,     \* info.step of each job: QUEUED, RUNNING or DONE
  progress,    \* counter of the job's progWatch; its target is the number of patches
  step,        \* step of each patch
  preparing,   \* patches in loader threads of prepareRemoteWork, with multiplicity
  wip_queue,   \* patches in the deque of prepared WIPs, with multiplicity
  wip_active,  \* the set of sent WIPs: WIPs of one job are equivalent, so one per job
  peerWIP,     \* the WIP of each host, or None when the table has no entry
  part,        \* the patch in each WIP object, None when the WIP is reset
  failing,     \* WIPs that cleanup timed out and where failedWIP is with them
  puts,        \* CMD_PUT_PARTS messages the manager has not handled yet
  posted,      \* result handlers posted by putParts
  slave,       \* what each slave is doing, with which patch, at which attempt
  losses, crashes, early     \* how much of the bounds is used

managerVars == <<jobStep, progress, step, preparing, wip_queue, wip_active>>
wipVars     == <<peerWIP, part, failing, posted>>
boundVars   == <<losses, crashes, early>>
vars        == <<managerVars, wipVars, puts, slave, boundVars>>
-----------------------------------------------------------------------------
PartsOf(j) == {p \in Patches : JobOf[p] = j}

\* The patches of the job that have a result.
Finished(j) == {p \in PartsOf(j) : step[p] = "POSTPROCESS"}

PutMsg == [host : Hosts, part : Patches, try : 1..MaxReturns]

Handler == [host : Hosts, part : Patches, try : 1..MaxReturns, wip : Wips,
            pc : {"take", "reset", "apply"}, took : Patches \cup {None}]

SlaveState == [state : {"idle", "busy", "results", "put", "dead"},
               part : Patches \cup {None}, try : 0..MaxReturns]

Idle == [state |-> "idle", part |-> None, try |-> 0]

TypeOK ==
  /\ jobStep \in [Jobs -> {"QUEUED", "RUNNING", "DONE"}]
  /\ progress \in [Jobs -> Nat]
  /\ step \in [Patches -> {"QUEUED", "RUNNING", "ERR", "POSTPROCESS"}]
  /\ preparing \in [Patches -> Nat]
  /\ wip_queue \in [Patches -> Nat]
  /\ wip_active \in [Jobs -> Patches \cup {None}]
  /\ peerWIP \in [Hosts -> Wips \cup {None}]
  /\ part \in [Wips -> Patches \cup {None}]
  /\ failing \in [Wips -> {"no", "fail", "clear"}]
  /\ puts \subseteq PutMsg
  /\ posted \subseteq Handler
  /\ slave \in [Hosts -> SlaveState]
  /\ losses \in 0..MaxLoss /\ crashes \in 0..MaxCrash /\ early \in 0..MaxEarly

Init ==
  /\ jobStep = [j \in Jobs |-> "QUEUED"]
  /\ progress = [j \in Jobs |-> 0]
  /\ step = [p \in Patches |-> "QUEUED"]
  /\ preparing = [p \in Patches |-> 0]
  /\ wip_queue = [p \in Patches |-> 0]
  /\ wip_active = [j \in Jobs |-> None]
  /\ peerWIP = [h \in Hosts |-> None]
  /\ part = [w \in Wips |-> None]
  /\ failing = [w \in Wips |-> "no"]
  /\ puts = {} /\ posted = {}
  /\ slave = [h \in Hosts |-> Idle]
  /\ losses = 0 /\ crashes = 0 /\ early = 0

-----------------------------------------------------------------------------
(* WIP objects and references                                              *)

\* WIP objects something on the manager still points to.
InUse ==
  {peerWIP[h] : h \in Hosts} \cup {l.wip : l \in posted}
    \cup {w \in Wips : failing[w] # "no"}

\* The object getIdleWIP hands out; which of the free ones it is does not matter.
FreeWip == CHOOSE w \in Wips : w \notin InUse

\* patch.use_count() # 1: some WIP on the manager holds the patch.
Referenced(p) ==
  \/ preparing[p] > 0 \/ wip_queue[p] > 0
  \/ wip_active[JobOf[p]] = p
  \/ \E w \in Wips : part[w] = p
  \/ \E l \in posted : l.took = p          \* wip_bak keeps the part of the WIP

QueueLoad ==
  Cardinality(UNION {{<<p, i>> : i \in 1..(preparing[p] + wip_queue[p])} : p \in Patches})

Lose == losses < MaxLoss /\ losses' = losses + 1
-----------------------------------------------------------------------------
(* Preparation: Daemon::prepareRemoteWork, MomfbdJob::getWork              *)

\* A prepare thread takes a queued patch of a queued or running job; the first
\* patch taken starts the job and its progWatch.
PrepareRemoteWork(p) ==
  LET j == JobOf[p] IN
  /\ QueueLoad < MaxRemote
  /\ jobStep[j] \in {"QUEUED", "RUNNING"} /\ step[p] = "QUEUED"
  /\ jobStep' = [jobStep EXCEPT ![j] = "RUNNING"]
  /\ progress' = [progress EXCEPT ![j] = IF jobStep[j] = "QUEUED" THEN 0 ELSE @]
  /\ step' = [step EXCEPT ![p] = "RUNNING"]
  /\ preparing' = [preparing EXCEPT ![p] = @ + 1]
  /\ UNCHANGED <<wip_queue, wip_active, wipVars, puts, slave, boundVars>>

\* The loader thread has read the patch from its cache file and queues the WIP.
Loaded(p) ==
  /\ preparing[p] > 0
  /\ preparing' = [preparing EXCEPT ![p] = @ - 1]
  /\ wip_queue' = [wip_queue EXCEPT ![p] = @ + 1]
  /\ UNCHANGED <<jobStep, progress, step, wip_active, wipVars, puts, slave, boundVars>>

\* The load throws: ungetWork puts the patch back.
LoadFails(p) ==
  /\ preparing[p] > 0 /\ Lose
  /\ preparing' = [preparing EXCEPT ![p] = @ - 1]
  /\ step' = [step EXCEPT ![p] = "QUEUED"]
  /\ UNCHANGED <<jobStep, progress, wip_queue, wip_active, wipVars, puts, slave, crashes, early>>
-----------------------------------------------------------------------------
(* CMD_GET_WORK: Worker::fetchWork, Daemon::sendWork, Daemon::getWork      *)

\* Mutant of AssignWork: the new part is written into the WIP that is in the table.
AssignWorkInPlace(h, p) ==
  /\ slave[h].state = "idle" /\ wip_queue[p] > 0
  /\ \E w \in Wips :
       /\ w = IF peerWIP[h] # None THEN peerWIP[h] ELSE FreeWip
       /\ peerWIP' = [peerWIP EXCEPT ![h] = w]
       /\ part' = [part EXCEPT ![w] = p]
  /\ wip_queue' = [wip_queue EXCEPT ![p] = @ - 1]
  /\ wip_active' = [wip_active EXCEPT ![JobOf[p]] = IF @ = None THEN p ELSE @]
  /\ UNCHANGED <<jobStep, progress, step, preparing, failing, posted, puts>>

\* The head of wip_queue becomes the slave's work: its WIP joins wip_active (no
\* effect when the job already has one there) and a copy of it, a fresh object,
\* replaces whatever peerWIP holds for the host; the object that was there is
\* freed unless a posted handler still has it.
AssignWork(h, p) ==
  /\ slave[h].state = "idle" /\ wip_queue[p] > 0
  /\ \E w \in Wips \ InUse :
       /\ w = FreeWip
       /\ peerWIP' = [peerWIP EXCEPT ![h] = w]
       /\ part' = [v \in Wips |->
                     IF v = w THEN p
                     ELSE IF v = peerWIP[h] /\ \A l \in posted : l.wip # v THEN None
                     ELSE part[v]]
  /\ wip_queue' = [wip_queue EXCEPT ![p] = @ - 1]
  /\ wip_active' = [wip_active EXCEPT ![JobOf[p]] = IF @ = None THEN p ELSE @]
  /\ UNCHANGED <<jobStep, progress, step, preparing, failing, posted, puts>>

SendWork(h, p) ==
  /\ AssignWork(h, p)
  /\ slave' = [slave EXCEPT ![h] = [state |-> "busy", part |-> p, try |-> 0]]
  /\ UNCHANGED boundVars

\* The connection breaks before the slave has unpacked the work.
SendWorkLost(h, p) ==
  /\ AssignWork(h, p) /\ Lose
  /\ UNCHANGED <<slave, crashes, early>>
-----------------------------------------------------------------------------
(* The slave: Worker::run, Worker::getWork, Worker::returnWork             *)

\* MomfbdJob::run has solved the patch: wip->hasResults.
Solved(h) ==
  /\ slave[h].state = "busy"
  /\ slave' = [slave EXCEPT ![h].state = "results"]
  /\ UNCHANGED <<managerVars, wipVars, puts, boundVars>>

\* MomfbdJob::run throws: there is nothing to return, the slave asks for new work.
SolverFails(h) ==
  /\ slave[h].state = "busy" /\ Lose
  /\ slave' = [slave EXCEPT ![h] = Idle]
  /\ UNCHANGED <<managerVars, wipVars, puts, crashes, early>>

\* returnWork sends the result; after a failure it sleeps 5 s first.
SendResult(h) ==
  LET n == slave[h].try + 1 IN
  /\ slave[h].state = "results"
  /\ (Timely /\ n > 1) => \A l \in posted : l.host # h
  /\ puts' = puts \cup {[host |-> h, part |-> slave[h].part, try |-> n]}
  /\ slave' = [slave EXCEPT ![h].state = "put", ![h].try = n]
  /\ UNCHANGED <<managerVars, wipVars, boundVars>>

\* The slave learns that the attempt failed: another one, or the result is dropped.
ReturnFailed(h) ==
  slave' = [slave EXCEPT ![h] = IF @.try < MaxReturns THEN [@ EXCEPT !.state = "results"] ELSE Idle]

\* The connection breaks.  The message is lost with it, or (only when nothing is
\* assumed of the manager's speed) its handler is still on its way.
PutLost(m) ==
  /\ slave[m.host].state = "put" /\ slave[m.host].try = m.try /\ Lose
  /\ puts' \in {puts \ {m}} \cup (IF Timely THEN {} ELSE {puts})
  /\ ReturnFailed(m.host)
  /\ UNCHANGED <<managerVars, wipVars, crashes, early>>

Crash(h) ==
  /\ slave[h].state # "dead" /\ crashes < MaxCrash /\ Lose
  /\ crashes' = crashes + 1
  /\ slave' = [slave EXCEPT ![h] = [Idle EXCEPT !.state = "dead"]]
  /\ UNCHANGED <<managerVars, wipVars, puts, early>>
-----------------------------------------------------------------------------
(* CMD_PUT_PARTS: Daemon::putParts and the handler it posts                *)

\* putParts takes the WIP of the host, or enters a new empty one, and posts the
\* handler.  CMD_OK is sent without waiting for it.
PutParts(m) ==
  \E w \in Wips :
    /\ \/ w = peerWIP[m.host]
       \/ peerWIP[m.host] = None /\ w \notin InUse /\ w = FreeWip
    /\ puts' = puts \ {m}
    /\ peerWIP' = [peerWIP EXCEPT ![m.host] = w]
    /\ posted' = posted \cup {[host |-> m.host, part |-> m.part, try |-> m.try,
                               wip |-> w, pc |-> "take", took |-> None]}
    /\ UNCHANGED <<managerVars, part, failing>>

AwaitsReply(m) == slave[m.host].state = "put" /\ slave[m.host].try = m.try

PutPartsOK(m) ==
  /\ PutParts(m)
  /\ slave' = IF AwaitsReply(m) THEN [slave EXCEPT ![m.host] = Idle] ELSE slave
  /\ UNCHANGED boundVars

\* The CMD_OK does not reach the slave, which will send the same result again.
PutPartsReplyLost(m) ==
  /\ PutParts(m) /\ AwaitsReply(m) /\ Lose
  /\ ReturnFailed(m.host)
  /\ UNCHANGED <<crashes, early>>

\* The handler copies the shared WIP (job and parts) ...
TakeWIP(l) ==
  /\ l.pc = "take"
  /\ posted' = (posted \ {l}) \cup {[l EXCEPT !.pc = "reset", !.took = part[l.wip]]}
  /\ UNCHANGED <<managerVars, peerWIP, part, failing, puts, slave, boundVars>>

\* Mutant of ResetWIP: the shared WIP keeps its part.
ResetWIPKeepsPart(l) ==
  /\ l.pc = "reset"
  /\ posted' = (posted \ {l}) \cup {[l EXCEPT !.pc = "apply"]}
  /\ UNCHANGED <<managerVars, peerWIP, part, failing, puts, slave, boundVars>>

\* ... resets it ...
ResetWIP(l) ==
  /\ l.pc = "reset"
  /\ part' = [part EXCEPT ![l.wip] = None]
  /\ posted' = (posted \ {l}) \cup {[l EXCEPT !.pc = "apply"]}
  /\ UNCHANGED <<managerVars, peerWIP, failing, puts, slave, boundVars>>

\* Mutant of ReturnResults: the patch is marked with the step of the job.
ReturnResultsMarksDone(q) ==
  LET j == JobOf[q]  n == progress[j] + 1  all == n = Cardinality(PartsOf(j)) IN
  /\ step' = [step EXCEPT ![q] = "DONE"]
  /\ progress' = [progress EXCEPT ![j] = IF all THEN 0 ELSE n]
  /\ jobStep' = [jobStep EXCEPT ![j] = IF all /\ @ = "RUNNING" THEN "DONE" ELSE @]

\* returnResults: the patch with the index the MESSAGE carries, in the job of the
\* WIP, gets the result and is counted; the last one moves the job to DONE.
ReturnResults(q) ==
  LET j == JobOf[q]  n == progress[j] + 1  all == n = Cardinality(PartsOf(j)) IN
  /\ step' = [step EXCEPT ![q] = "POSTPROCESS"]
  /\ progress' = [progress EXCEPT ![j] = IF all THEN 0 ELSE n]
  /\ jobStep' = [jobStep EXCEPT ![j] = IF all /\ @ = "RUNNING" THEN "DONE" ELSE @]

\* ... and applies the result.  With no job in the copy unpackWork throws, and
\* failedWIP has nothing to fail: the result is dropped.  returnWork erases the
\* job's entry of wip_active, whichever patch that one is for.
ApplyResult(l) ==
  /\ l.pc = "apply"
  /\ posted' = posted \ {l}
  /\ \/ l.took = None /\ UNCHANGED managerVars
     \/ /\ l.took # None
        /\ \E q \in PartsOf(JobOf[l.took]) :
             /\ JobOf[l.part] = JobOf[l.took] => q = l.part
             /\ ReturnResults(q)
        /\ wip_active' = [wip_active EXCEPT ![JobOf[l.took]] = None]
        /\ UNCHANGED <<preparing, wip_queue>>
  /\ UNCHANGED <<peerWIP, part, failing, puts, slave, boundVars>>
-----------------------------------------------------------------------------
(* Recovery: Daemon::cleanup, Daemon::failedWIP, MomfbdJob::checkParts     *)

\* The slave will not return what its WIP stands for.
Abandoned(h) ==
  /\ slave[h].part # part[peerWIP[h]]
  /\ \A m \in puts : m.host # h
  /\ \A l \in posted : l.wip # peerWIP[h]

\* Mutant of TimeOut: the entry of the host stays in the table.
TimeOutKeepsEntry(h) ==
  LET w == peerWIP[h] IN
  /\ w # None /\ part[w] # None /\ failing[w] = "no"
  /\ Timely => \A l \in posted : l.wip # w
  /\ IF Abandoned(h) THEN UNCHANGED early ELSE early < MaxEarly /\ early' = early + 1
  /\ failing' = [failing EXCEPT ![w] = "fail"]
  /\ UNCHANGED <<managerVars, peerWIP, part, posted, puts, slave, losses, crashes>>

\* cleanup finds the WIP of the host older than the job's time-out (or the host
\* silent for longer than hostTimeout) and takes it out of the table.
TimeOut(h) ==
  LET w == peerWIP[h] IN
  /\ w # None /\ part[w] # None
  /\ Timely => \A l \in posted : l.wip # w
  /\ IF Abandoned(h) THEN UNCHANGED early ELSE early < MaxEarly /\ early' = early + 1
  /\ peerWIP' = [peerWIP EXCEPT ![h] = None]
  /\ failing' = [failing EXCEPT ![w] = "fail"]
  /\ UNCHANGED <<managerVars, part, posted, puts, slave, losses, crashes>>

\* cleanup drops entries whose WIP has no job.
DropEntry(h) ==
  /\ peerWIP[h] # None /\ part[peerWIP[h]] = None
  /\ peerWIP' = [peerWIP EXCEPT ![h] = None]
  /\ UNCHANGED <<managerVars, part, failing, posted, puts, slave, boundVars>>

\* failedWIP: failWork marks the parts that the WIP has now ...
FailWork(w) ==
  /\ failing[w] = "fail"
  /\ step' = IF part[w] # None THEN [step EXCEPT ![part[w]] = "ERR"] ELSE step
  /\ failing' = [failing EXCEPT ![w] = "clear"]
  /\ UNCHANGED <<jobStep, progress, preparing, wip_queue, wip_active, peerWIP, part, posted, puts, slave, boundVars>>

\* ... and the WIP forgets them.
ClearWIP(w) ==
  /\ failing[w] = "clear"
  /\ part' = [part EXCEPT ![w] = None]
  /\ failing' = [failing EXCEPT ![w] = "no"]
  /\ UNCHANGED <<managerVars, peerWIP, posted, puts, slave, boundVars>>

\* Mutant of CheckParts: a running patch is requeued without the reference test.
CheckPartsUnreferenced(p) ==
  /\ jobStep[JobOf[p]] # "QUEUED"
  /\ step[p] \in {"ERR", "RUNNING"}
  /\ step' = [step EXCEPT ![p] = "QUEUED"]
  /\ UNCHANGED <<jobStep, progress, preparing, wip_queue, wip_active, wipVars, puts, slave, boundVars>>

\* Mutant of CheckParts: only failed patches are requeued, never orphans.
CheckPartsNoOrphans(p) ==
  /\ jobStep[JobOf[p]] # "QUEUED"
  /\ step[p] = "ERR"
  /\ step' = [step EXCEPT ![p] = "QUEUED"]
  /\ UNCHANGED <<jobStep, progress, preparing, wip_queue, wip_active, wipVars, puts, slave, boundVars>>

\* checkParts requeues a failed patch, and a running one that no WIP refers to.
CheckParts(p) ==
  /\ jobStep[JobOf[p]] # "QUEUED"
  /\ step[p] = "ERR" \/ (step[p] = "RUNNING" /\ ~Referenced(p))
  /\ step' = [step EXCEPT ![p] = "QUEUED"]
  /\ UNCHANGED <<jobStep, progress, preparing, wip_queue, wip_active, wipVars, puts, slave, boundVars>>
-----------------------------------------------------------------------------
Next ==
  \/ \E p \in Patches : PrepareRemoteWork(p) \/ Loaded(p) \/ LoadFails(p) \/ CheckParts(p)
  \/ \E h \in Hosts, p \in Patches : SendWork(h, p) \/ SendWorkLost(h, p)
  \/ \E h \in Hosts : \/ Solved(h) \/ SolverFails(h) \/ SendResult(h) \/ Crash(h)
                      \/ TimeOut(h) \/ DropEntry(h)
  \/ \E m \in puts : PutLost(m) \/ PutPartsOK(m) \/ PutPartsReplyLost(m)
  \/ \E l \in posted : TakeWIP(l) \/ ResetWIP(l) \/ ApplyResult(l)
  \/ \E w \in Wips : FailWork(w) \/ ClearWIP(w)

Spec == Init /\ [][Next]_vars

\* The manager's loops (prepareWork every 100 ms, maintenance every 5 s), its
\* io-context threads and a living slave (started again by maintenance and by
\* CMD_WAKE) keep going.  Nothing is assumed of losses, crashes, or of time-outs
\* of work that will still be returned.
Fairness ==
  /\ \A p \in Patches : /\ WF_vars(PrepareRemoteWork(p))
                        /\ WF_vars(Loaded(p))
                        /\ WF_vars(CheckParts(p))
  /\ \A h \in Hosts : /\ WF_vars(\E p \in Patches : SendWork(h, p))
                      /\ WF_vars(Solved(h))
                      /\ WF_vars(SendResult(h))
                      /\ WF_vars(TimeOut(h) /\ UNCHANGED early)
                      /\ WF_vars(\E m \in puts : m.host = h /\ PutPartsOK(m))
  /\ WF_vars(\E l \in posted : TakeWIP(l) \/ ResetWIP(l) \/ ApplyResult(l))
  /\ WF_vars(\E w \in Wips : FailWork(w) \/ ClearWIP(w))

FairSpec == Spec /\ Fairness
-----------------------------------------------------------------------------
(* Properties                                                              *)

\* A job moves to DONE only when every one of its patches has a result: the count
\* of returned results that fires the progWatch handler is never ahead of the
\* patches, whatever is retried, timed out, requeued or returned late.
DoneMeansAllParts ==
  \A j \in Jobs : jobStep[j] = "DONE" => \A p \in PartsOf(j) : step[p] = "POSTPROCESS"

\* The progress of a running job counts each finished patch exactly once, although
\* a patch may be sent to several slaves and returned by more than one of them.
ProgressExact ==
  \A j \in Jobs : jobStep[j] = "RUNNING" =>
    progress[j] = Cardinality(Finished(j))

\* A result is applied under the WIP its patch was sent with, although putParts
\* pairs the message with the WIP by the host alone.
ResultForOwnPart == \A l \in posted : l.took \in {None, l.part}

\* What the manager keeps is a ledger: each result is booked once and stays booked,
\* and the job is closed by the booking of its last patch, not before or after.
Ledger == INSTANCE PatchLedger
            WITH done   <- {p \in Patches : step[p] = "POSTPROCESS"},
                 closed <- {j \in Jobs : jobStep[j] = "DONE"}
LedgerSpec == Ledger!Spec

\* Every job is finished: no loss, crash, premature time-out, discarded result or
\* forgotten WIP leaves a patch running that nobody works on.
EveryJobDone == \A j \in Jobs : <>(jobStep[j] = "DONE")
-----------------------------------------------------------------------------
(* The inductive invariant behind these properties (for Timely = TRUE)     *)

\* failedWIP has not failed the parts of the WIP yet.
Live(w) == failing[w] # "clear"

\* A slave that works or returns has a patch, and counts its attempts.
SlaveInv ==
  \A h \in Hosts : /\ slave[h].state \in {"busy", "results", "put"} => slave[h].part # None
                   /\ slave[h].state = "busy" => slave[h].try = 0
                   /\ slave[h].state = "results" => slave[h].try < MaxReturns
                   /\ slave[h].state = "put" => slave[h].try # 0

\* The table and the holders of WIP objects: an object that cleanup took belongs
\* to nobody else, two entries or two handlers never share one, a handler shares
\* one with its own host's entry only, and a free object is empty.
TableInv ==
  /\ \A g, h \in Hosts : peerWIP[g] = peerWIP[h] /\ peerWIP[g] # None => g = h
  /\ \A w \in Wips : failing[w] # "no" =>
       /\ \A h \in Hosts : peerWIP[h] # w
       /\ \A l \in posted : l.wip # w
  /\ \A l \in posted : /\ \A h \in Hosts : peerWIP[h] = l.wip => h = l.host
                       /\ \A k \in posted : k.wip = l.wip => k = l
  /\ \A w \in Wips : part[w] # None => w \in InUse

\* A host has one message under way at most, and while it works or has one under
\* way no handler is posted for the WIP it works under.
MessageInv ==
  /\ \A m \in puts :
       /\ \/ slave[m.host].state = "dead"
          \/ slave[m.host] = [state |-> "put", part |-> m.part, try |-> m.try]
       /\ \A n \in puts : n.host = m.host => n = m
       /\ \A l \in posted : l.wip # peerWIP[m.host]
  /\ \A h \in Hosts :
       \/ slave[h].state = "busy"
       \/ slave[h].state = "results" /\ slave[h].try = 0
       => \A l \in posted : l.wip # peerWIP[h]

\* The WIP a slave, a message or a handler will be matched with has the right
\* patch or none.
MatchInv ==
  /\ \A h \in Hosts : slave[h].state \in {"busy", "results", "put"} /\ peerWIP[h] # None
       => part[peerWIP[h]] \in {slave[h].part, None}
  /\ \A m \in puts : peerWIP[m.host] # None => part[peerWIP[m.host]] \in {m.part, None}
  /\ \A l \in posted :
       /\ part[l.wip] \in {l.part, None} /\ l.took \in {l.part, None}
       /\ l.pc = "take"  => l.took = None
       /\ l.pc = "reset" => l.took = part[l.wip]
       /\ l.pc = "apply" => part[l.wip] = None

\* A patch that something can still send, fail or finish is RUNNING, and is in one
\* place only: in a loader thread or the queue, in a WIP that is not failed, or in
\* a handler about to apply it.
OneHolder ==
  /\ \A p \in Patches :
       /\ preparing[p] + wip_queue[p] <= 1
       /\ preparing[p] + wip_queue[p] = 1 => step[p] = "RUNNING"
  /\ \A w \in Wips : part[w] # None /\ Live(w) =>
       /\ step[part[w]] = "RUNNING"
       /\ preparing[part[w]] = 0 /\ wip_queue[part[w]] = 0
       /\ \A v \in Wips : Live(v) /\ part[v] = part[w] => v = w
  /\ \A l \in posted : l.pc = "apply" /\ l.took # None =>
       /\ step[l.took] = "RUNNING"
       /\ preparing[l.took] = 0 /\ wip_queue[l.took] = 0
       /\ \A v \in Wips : Live(v) => part[v] # l.took
       /\ \A k \in posted : k.pc = "apply" /\ k.took = l.took => k = l

\* The state of a job against the steps of its patches.
CountInv ==
  \A j \in Jobs :
    /\ jobStep[j] = "QUEUED" => \A p \in PartsOf(j) : step[p] = "QUEUED"
    /\ jobStep[j] = "RUNNING" => progress[j] = Cardinality(Finished(j)) /\ Finished(j) # PartsOf(j)
    /\ jobStep[j] = "DONE" => Finished(j) = PartsOf(j)

IndInv == TypeOK /\ SlaveInv /\ TableInv /\ MessageInv /\ MatchInv /\ OneHolder /\ CountInv

====
