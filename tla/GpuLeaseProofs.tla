--------------------------- MODULE GpuLeaseProofs ---------------------------
(* Theorems about GpuLease: with or without the rig lock a process that    *)
(* ends leaves no lease behind and the render tenant is owed its call;     *)
(* under the lock nobody takes a live run's lease and none are stacked.    *)
EXTENDS GpuLease, TLAPS

(* A process that asks for a lease knows for which model, one with a POST  *)
(* or DELETE about a lease knows which.                                    *)
Asks  == {"resident", "stale", "claim", "vacating", "post", "granted", "ghost"}
Knows == \A p \in Processes :
           /\ pc[p] \in Asks => model[p] # NoModel
           /\ pc[p] \in {"granted", "delete"} => call[p] # NoLease

TInv == TypeOK /\ Knows

LEMMA NewLeaseType ==
  ASSUME TInv, NEW p \in Processes, pc[p] \in Asks, granted < MaxLeases
  PROVE  NewLease(p) \in Leases /\ granted + 1 \in 0..MaxLeases
<1>1. granted + 1 \in 1..MaxLeases
  BY GpuLeaseAssumption DEF GpuLeaseAssumption, TInv, TypeOK
<1>2. model[p] \in Models /\ holder[p] \in Holders
  BY DEF TInv, TypeOK, Knows
<1>3. QED
  BY <1>1, <1>2, GpuLeaseAssumption DEF GpuLeaseAssumption, NewLease, Leases

LEMMA StaleType ==
  ASSUME TInv, NEW h, NEW m, NEW own, ReleaseStale(h, m, own)
  PROVE  leases' \subseteq Leases /\ leaked' \subseteq Leases
BY DEF TInv, TypeOK, ReleaseStale, StaleLeases

LEMMA CallBackType ==
  ASSUME TInv, NEW p \in Processes, CallBack(p)
  PROVE  /\ render' \in {"absent", "rendering", "draining", "vacated"}
         /\ vacated' \in [Processes -> BOOLEAN] /\ forgotten' \in BOOLEAN
<1>1. vacated' = [vacated EXCEPT ![p] = FALSE]
  BY DEF CallBack
<1>2. vacated' \in [Processes -> BOOLEAN]
  BY <1>1 DEF TInv, TypeOK
<1>3. /\ render' \in {"absent", "rendering", "draining", "vacated"}
      /\ forgotten' \in BOOLEAN
  <2>1. CASE ~vacated[p]
    BY <2>1 DEF CallBack, TInv, TypeOK
  <2>2. CASE vacated[p]
    BY <2>2 DEF CallBack, TInv, TypeOK
  <2>3. QED
    BY <2>1, <2>2
<1>4. QED
  BY <1>2, <1>3

LEMMA TypeInit == ASSUME Init PROVE TInv
<1>1. granted \in 0..MaxLeases
  BY GpuLeaseAssumption DEF GpuLeaseAssumption, Init
<1>2. /\ leases \subseteq Leases /\ leaked \subseteq Leases
      /\ render \in {"absent", "rendering", "draining", "vacated"}
      /\ forgotten \in BOOLEAN
  BY DEF Init
<1>3. /\ model \in [Processes -> Models \cup {NoModel}]
      /\ holder \in [Processes -> Holders]
      /\ lease \in [Processes -> Leases \cup {NoLease}]
      /\ call \in [Processes -> Leases \cup {NoLease}]
      /\ keepalive \in [Processes -> {"none", "alive", "gone"}]
  BY DEF Init, Holders
<1>4. /\ leasing \in [Processes -> BOOLEAN]
      /\ vacated \in [Processes -> BOOLEAN]
  BY DEF Init
<1>5. pc \in [Processes -> {"off", "idle", "resident", "release", "delete",
                           "resume", "stale", "claim", "vacating", "post",
                           "granted", "ghost", "ended", "dead"}]
  BY DEF Init
<1>6. Knows
  BY DEF Init, Knows, Asks
<1>7. QED
  BY <1>1, <1>2, <1>3, <1>4, <1>5, <1>6 DEF TInv, TypeOK

LEMMA TypeMain ==
  ASSUME TInv, NEW p \in Processes, Main(p)
  PROVE  TInv'
<1> USE DEF TInv, TypeOK, Knows, Asks, rig, tenant, request, Goto
<1>1. CASE Start(p)
  BY <1>1 DEF Start
<1>2. CASE Finish(p)
  BY <1>2 DEF Finish
<1>3. CASE UseResident(p)
  BY <1>3, StaleType DEF UseResident
<1>4. CASE ReleaseOld(p)
  BY <1>4, StaleType DEF ReleaseOld
<1>5. CASE Claim(p)
  BY <1>5 DEF Claim
<1>6. CASE \E m \in Models : Switch(p, m)
  BY <1>6, GpuLeaseAssumption DEF GpuLeaseAssumption, Switch, LeasePath, Holders
<1>7. CASE \E m \in Models : JudgeLease(p, m)
  BY <1>7, GpuLeaseAssumption DEF GpuLeaseAssumption, JudgeLease, Holders
<1>8. CASE Vacated(p)
  BY <1>8 DEF Vacated
<1>9. CASE StopWaiting(p)
  BY <1>9 DEF StopWaiting
<1>10. CASE Refused(p)
  BY <1>10 DEF Refused
<1>11. CASE TakeLease(p)
  BY <1>11 DEF TakeLease, Answer
<1>12. CASE Unanswered(p)
  BY <1>12 DEF Unanswered
<1>13. CASE DropLease(p)
  BY <1>13 DEF DropLease, AfterDrop
<1>14. CASE Delete(p)
  BY <1>14 DEF Delete
<1>15. CASE Resume(p)
  BY <1>15, CallBackType DEF Resume, BackTo
<1>16. QED
  BY <1>1, <1>2, <1>3, <1>4, <1>5, <1>6, <1>7, <1>8, <1>9, <1>10, <1>11,
     <1>12, <1>13, <1>14, <1>15 DEF Main

LEMMA TypeEnds ==
  ASSUME TInv, NEW p \in Processes, HardExit(p) \/ Crash(p) \/ Wake(p)
  PROVE  TInv'
<1> USE DEF TInv, TypeOK, Knows, Asks, rig, tenant, request, Goto
<1>1. CASE HardExit(p)
  <2>1. leases' \subseteq Leases /\ leaked' \subseteq Leases
    BY <1>1 DEF HardExit, Released, InFlight
  <2>2. /\ render' \in {"absent", "rendering", "draining", "vacated"}
        /\ vacated' \in [Processes -> BOOLEAN] /\ forgotten' \in BOOLEAN
    BY <1>1, CallBackType DEF HardExit
  <2>3. QED
    BY <1>1, <2>1, <2>2 DEF HardExit, LastState
<1>2. CASE Crash(p)
  <2>1. forgotten' \in BOOLEAN /\ leases' \subseteq Leases
    BY <1>2 DEF Crash
  <2>2. QED
    BY <1>2, <2>1 DEF Crash, LastState
<1>3. CASE Wake(p)
  BY <1>3 DEF Wake
<1>4. QED
  BY <1>1, <1>2, <1>3

LEMMA TypeRig ==
  ASSUME TInv, NEW p \in Processes, Grant(p) \/ GrantLate(p)
  PROVE  TInv'
<1> USE DEF TInv, TypeOK, Knows, Asks, rig, tenant, request, Goto
<1>1. pc[p] \in Asks /\ (granted < MaxLeases =>
        NewLease(p) \in Leases /\ granted + 1 \in 0..MaxLeases)
  BY NewLeaseType DEF Grant, GrantLate
<1>2. CASE Grant(p)
  <2>1. NewLease(p) # NoLease
    BY <1>1, <1>2, GpuLeaseAssumption DEF GpuLeaseAssumption, Grant, CanGrant
  <2>2. QED
    BY <1>1, <1>2, <2>1 DEF Grant, CanGrant
<1>3. CASE GrantLate(p)
  BY <1>1, <1>3 DEF GrantLate, CanGrant
<1>4. QED
  BY <1>2, <1>3

LEMMA TypeRest ==
  ASSUME TInv, (\E l \in leases : Expire(l)) \/ Tenant \/ UNCHANGED vars
  PROVE  TInv'
<1> USE DEF TInv, TypeOK, Knows, rig, tenant, request
<1>1. CASE \E l \in leases : Expire(l)
  BY <1>1 DEF Expire
<1>2. CASE Tenant
  <2>1. forgotten' \in BOOLEAN
    BY <1>2 DEF Tenant
  <2>2. render' \in {"absent", "rendering", "draining", "vacated"}
    BY <1>2 DEF Tenant
  <2>3. QED
    BY <1>2, <2>1, <2>2 DEF Tenant
<1>3. CASE UNCHANGED vars
  BY <1>3 DEF vars
<1>4. QED
  BY <1>1, <1>2, <1>3

LEMMA TypeStep == TInv /\ [Next]_vars => TInv'
BY TypeMain, TypeEnds, TypeRig, TypeRest DEF Next

(* Every reachable state of the leases, the rig and the render tenant is   *)
(* well typed.                                                             *)
THEOREM TypeCorrect == Spec => []TypeOK
<1>1. Spec => []TInv
  BY TypeInit, TypeStep, PTL DEF Spec
<1>2. TInv => TypeOK
  BY DEF TInv
<1>3. QED
  BY <1>1, <1>2, PTL

-----------------------------------------------------------------------------
(* What an orderly exit leaves behind.                                     *)

(* Only a process that is between calls, or about to release, holds one.   *)
Holding == \A p \in Processes :
             pc[p] \notin {"idle", "resident", "release"} => lease[p] = NoLease

(* The rig's leases are all accounted for.                                 *)
Accounted(l) ==
  \/ l \in leaked
  \/ lease[l.by] = l
  \/ pc[l.by] \in {"granted", "delete"} /\ call[l.by] = l
  \/ pc[l.by] = "dead"
Owned == \A l \in leases : Accounted(l)

HInv == TInv /\ Holding

LEMMA HoldingStep == HInv /\ [Next]_vars => HInv'
<1> SUFFICES ASSUME HInv, [Next]_vars PROVE HInv'
  OBVIOUS
<1>1. TInv'
  BY TypeStep DEF HInv
<1> USE DEF HInv, TInv, TypeOK, Holding, rig, tenant, request, Goto
<1>2. ASSUME NEW p \in Processes, Main(p) PROVE Holding'
  <2>1. CASE Start(p)
    BY <2>1 DEF Start
  <2>2. CASE Finish(p)
    BY <2>2 DEF Finish
  <2>3. CASE UseResident(p)
    BY <2>3 DEF UseResident
  <2>4. CASE ReleaseOld(p)
    BY <2>4 DEF ReleaseOld
  <2>5. CASE Claim(p)
    BY <2>5 DEF Claim
  <2>6. CASE \E m \in Models : Switch(p, m)
    BY <2>6 DEF Switch, LeasePath
  <2>7. CASE \E m \in Models : JudgeLease(p, m)
    BY <2>7 DEF JudgeLease
  <2>8. CASE Vacated(p) \/ StopWaiting(p) \/ Refused(p)
    BY <2>8 DEF Vacated, StopWaiting, Refused
  <2>9. CASE TakeLease(p) \/ Unanswered(p)
    BY <2>9 DEF TakeLease, Unanswered
  <2>10. CASE DropLease(p) \/ Delete(p) \/ Resume(p)
    BY <2>10 DEF DropLease, Delete, Resume
  <2>11. QED
    BY <1>2, <2>1, <2>2, <2>3, <2>4, <2>5, <2>6, <2>7, <2>8, <2>9, <2>10
       DEF Main
<1>3. ASSUME NEW p \in Processes,
             Wake(p) \/ HardExit(p) \/ Crash(p) \/ Grant(p) \/ GrantLate(p)
      PROVE  Holding'
  BY <1>3 DEF Wake, HardExit, Crash, Grant, GrantLate, LastState
<1>4. ASSUME (\E l \in leases : Expire(l)) \/ Tenant \/ UNCHANGED vars
      PROVE  Holding'
  BY <1>4 DEF Expire, Tenant, vars
<1> HIDE DEF HInv, TInv, TypeOK, Holding, rig, tenant, request, Goto
<1>5. Holding'
  BY <1>2, <1>3, <1>4 DEF Next
<1>6. QED
  BY <1>1, <1>5 DEF HInv

(* What happens to the leases in the steps that delete some of them.       *)
LEMMA Deleting ==
  ASSUME NEW h, NEW m, NEW own, ReleaseStale(h, m, own)
  PROVE  /\ leases' \subseteq leases
         /\ \A l \in leases' : l \in leaked => l \in leaked'
BY DEF ReleaseStale

LEMMA OwnedStep == HInv /\ Owned /\ [Next]_vars => Owned'
<1> SUFFICES ASSUME HInv, Owned, [Next]_vars PROVE Owned'
  OBVIOUS
<1>0. \A l \in leases : l.by \in Processes /\ l # NoLease
  BY GpuLeaseAssumption DEF GpuLeaseAssumption, HInv, TInv, TypeOK, Leases
<1> USE DEF HInv, TInv, TypeOK, Knows, Holding, Owned, Accounted, rig, tenant,
            request, Goto
<1>1. ASSUME NEW p \in Processes, UseResident(p) \/ ReleaseOld(p) PROVE Owned'
  <2>1. /\ leases' \subseteq leases
        /\ \A l \in leases' : l \in leaked => l \in leaked'
    BY <1>1, Deleting DEF UseResident, ReleaseOld
  <2>2. QED
    BY <1>0, <1>1, <2>1 DEF UseResident, ReleaseOld
<1>2. ASSUME NEW p \in Processes, Main(p) PROVE Owned'
  <2>1. CASE Start(p) \/ Finish(p)
    BY <1>0, <2>1 DEF Start, Finish
  <2>2. CASE UseResident(p) \/ ReleaseOld(p)
    BY <1>1, <2>2
  <2>3. CASE Claim(p)
    BY <1>0, <2>3 DEF Claim
  <2>4. CASE \E m \in Models : Switch(p, m) \/ JudgeLease(p, m)
    BY <1>0, <2>4 DEF Switch, JudgeLease
  <2>5. CASE Vacated(p) \/ StopWaiting(p) \/ Refused(p)
    BY <1>0, <2>5 DEF Vacated, StopWaiting, Refused
  <2>6. CASE TakeLease(p)
    BY <1>0, <2>6 DEF TakeLease, Answer
  <2>7. CASE Unanswered(p)
    BY <1>0, <2>7 DEF Unanswered
  <2>8. CASE DropLease(p)
    BY <1>0, <2>8 DEF DropLease, AfterDrop
  <2>9. CASE Delete(p)
    BY <1>0, <2>9 DEF Delete
  <2>10. CASE Resume(p)
    BY <1>0, <2>10 DEF Resume
  <2>11. QED
    BY <1>2, <2>1, <2>2, <2>3, <2>4, <2>5, <2>6, <2>7, <2>8, <2>9, <2>10
       DEF Main
<1>3. ASSUME NEW p \in Processes, HardExit(p) PROVE Owned'
  BY <1>0, <1>3 DEF HardExit, LastState, Released, InFlight, Alive
<1>4. ASSUME NEW p \in Processes, Crash(p) PROVE Owned'
  BY <1>0, <1>4 DEF Crash, LastState, InFlight
<1>5. ASSUME NEW p \in Processes, Wake(p) PROVE Owned'
  BY <1>0, <1>5 DEF Wake
<1>6. ASSUME NEW p \in Processes, Grant(p) PROVE Owned'
  <2>1. NewLease(p).by = p
    BY DEF NewLease
  <2>2. ASSUME NEW l, l = NewLease(p) PROVE Accounted(l)'
    BY <1>6, <2>1, <2>2 DEF Grant
  <2>3. ASSUME NEW l \in leases PROVE Accounted(l)'
    BY <1>0, <1>6, <2>3 DEF Grant
  <2>4. QED
    BY <1>6, <2>2, <2>3 DEF Grant
<1>7. ASSUME NEW p \in Processes, GrantLate(p) PROVE Owned'
  BY <1>0, <1>7 DEF GrantLate, NewLease
<1>8. ASSUME (\E l \in leases : Expire(l)) \/ Tenant \/ UNCHANGED vars
      PROVE  Owned'
  BY <1>0, <1>8 DEF Expire, Tenant, vars
<1> HIDE DEF HInv, Owned
<1>9. QED
  BY <1>2, <1>3, <1>4, <1>5, <1>6, <1>7, <1>8 DEF Next

(* A process that ends other than by being killed leaves no lease at the   *)
(* rig, but for one about which a call failed or was cut off.              *)
THEOREM ExitReleasesHolds == Spec => []ExitReleases
<1>1. Init => HInv /\ Owned
  BY TypeInit DEF Init, HInv, Holding, Owned
<1>2. HInv /\ Owned => ExitReleases
  <2> SUFFICES ASSUME HInv, Owned, NEW p \in Processes, pc[p] = "ended",
                      NEW l \in leases, l.by = p
               PROVE  l \in leaked
    BY DEF ExitReleases
  <2>1. lease[p] = NoLease
    BY DEF HInv, Holding
  <2>2. l # NoLease
    BY GpuLeaseAssumption DEF GpuLeaseAssumption, HInv, TInv, TypeOK
  <2>3. QED
    BY <2>1, <2>2 DEF Owned, Accounted
<1>3. QED
  BY <1>1, <1>2, HoldingStep, OwnedStep, PTL DEF Spec

-----------------------------------------------------------------------------
(* The render tenant.                                                      *)

LEMMA TenantStep == TInv /\ RenderHandedBack /\ [Next]_vars => RenderHandedBack'
<1> SUFFICES ASSUME TInv, RenderHandedBack, [Next]_vars PROVE RenderHandedBack'
  OBVIOUS
<1> USE DEF TInv, TypeOK, RenderHandedBack, Alive, rig, tenant, request, Goto
<1>1. ASSUME NEW p \in Processes, Main(p) PROVE RenderHandedBack'
  <2>1. CASE Start(p) \/ Finish(p)
    BY <2>1 DEF Start, Finish
  <2>2. CASE UseResident(p) \/ ReleaseOld(p)
    BY <2>2 DEF UseResident, ReleaseOld
  <2>3. CASE Claim(p)
    BY <2>3 DEF Claim
  <2>4. CASE \E m \in Models : Switch(p, m) \/ JudgeLease(p, m)
    BY <2>4 DEF Switch, LeasePath, JudgeLease
  <2>5. CASE Vacated(p) \/ StopWaiting(p)
    BY <2>5 DEF Vacated, StopWaiting
  <2>6. CASE Refused(p)
    BY <2>6 DEF Refused
  <2>7. CASE TakeLease(p) \/ Unanswered(p)
    BY <2>7 DEF TakeLease, Unanswered
  <2>8. CASE DropLease(p) \/ Delete(p)
    BY <2>8 DEF DropLease, Delete, AfterDrop
  <2>9. CASE Resume(p)
    BY <2>9 DEF Resume, CallBack
  <2>10. QED
    BY <1>1, <2>1, <2>2, <2>3, <2>4, <2>5, <2>6, <2>7, <2>8, <2>9 DEF Main
<1>2. ASSUME NEW p \in Processes, HardExit(p) PROVE RenderHandedBack'
  BY <1>2 DEF HardExit, CallBack, LastState
<1>3. ASSUME NEW p \in Processes, Crash(p) PROVE RenderHandedBack'
  BY <1>3 DEF Crash, LastState
<1>4. ASSUME NEW p \in Processes, Wake(p) \/ Grant(p) \/ GrantLate(p)
      PROVE  RenderHandedBack'
  BY <1>4 DEF Wake, Grant, GrantLate
<1>5. ASSUME (\E l \in leases : Expire(l)) \/ UNCHANGED vars
      PROVE  RenderHandedBack'
  BY <1>5 DEF Expire, vars
<1>6. ASSUME Tenant PROVE RenderHandedBack'
  BY <1>6 DEF Tenant
<1> HIDE DEF RenderHandedBack
<1>7. QED
  BY <1>1, <1>2, <1>3, <1>4, <1>5, <1>6 DEF Next

(* While the render tenant is away a live process owes it the call that    *)
(* brings it back, unless one died, gave up waiting or had that call       *)
(* refused -- with and without the rig lock.                               *)
THEOREM RenderHandedBackHolds == Spec => []RenderHandedBack
<1>1. Init => TInv /\ RenderHandedBack
  BY TypeInit DEF Init, RenderHandedBack
<1>2. QED
  BY <1>1, TypeStep, TenantStep, PTL DEF Spec

-----------------------------------------------------------------------------
(* What the rig lock adds.                                                 *)

OneAlive == \A p, q \in Processes : Alive(p) /\ Alive(q) => p = q

(* Nobody deletes the lease of an answer that is on its way.               *)
AnswerStands == \A p \in Processes : pc[p] = "granted" => call[p] \in leases

(* No lease that a process is about to ask for stands already.             *)
Fresh == \A p \in Processes : pc[p] \in {"claim", "vacating", "post"} =>
           \A l \in leases :
             l.holder = holder[p] /\ l.model = model[p] => l \in leaked

LInv == HInv /\ OneAlive

LEMMA AliveStep ==
  ASSUME Exclusive, TInv, OneAlive, [Next]_vars
  PROVE  OneAlive'
<1> USE DEF TInv, TypeOK, OneAlive, Alive, Goto
<1>1. ASSUME NEW p \in Processes, Main(p) PROVE OneAlive'
  <2>1. CASE Start(p)
    BY <2>1 DEF Start
  <2>2. CASE Finish(p) \/ UseResident(p) \/ ReleaseOld(p) \/ Claim(p)
    BY <2>2 DEF Finish, UseResident, ReleaseOld, Claim
  <2>3. CASE \E m \in Models : Switch(p, m) \/ JudgeLease(p, m)
    BY <2>3 DEF Switch, LeasePath, JudgeLease
  <2>4. CASE Vacated(p) \/ StopWaiting(p) \/ Refused(p)
    BY <2>4 DEF Vacated, StopWaiting, Refused
  <2>5. CASE TakeLease(p) \/ Unanswered(p) \/ Delete(p)
    BY <2>5 DEF TakeLease, Unanswered, Delete
  <2>6. CASE DropLease(p)
    BY <2>6 DEF DropLease, AfterDrop
  <2>7. CASE Resume(p)
    BY <2>7 DEF Resume, BackTo
  <2>8. QED
    BY <1>1, <2>1, <2>2, <2>3, <2>4, <2>5, <2>6, <2>7 DEF Main
<1>2. ASSUME NEW p \in Processes, HardExit(p) \/ Crash(p) PROVE OneAlive'
  BY <1>2 DEF HardExit, Crash, LastState
<1>3. ASSUME NEW p \in Processes, Wake(p) \/ Grant(p) \/ GrantLate(p)
      PROVE  OneAlive'
  BY <1>3 DEF Wake, Grant, GrantLate
<1>4. ASSUME (\E l \in leases : Expire(l)) \/ Tenant \/ UNCHANGED vars
      PROVE  OneAlive'
  BY <1>4 DEF Expire, Tenant, vars
<1> HIDE DEF OneAlive
<1>5. QED
  BY <1>1, <1>2, <1>3, <1>4 DEF Next

(* With one process alive, the leases the others hold are none.            *)
LEMMA OthersHoldNone ==
  ASSUME LInv, NEW p \in Processes, Alive(p), NEW q \in Processes, q # p
  PROVE  lease[q] = NoLease /\ pc[q] # "granted" /\ ~Alive(q)
BY DEF LInv, HInv, Holding, OneAlive, Alive

LEMMA HeldStep ==
  ASSUME LInv, AnswerStands, HeldLeaseStands, [Next]_vars
  PROVE  AnswerStands' /\ HeldLeaseStands'
<1> DEFINE Good == AnswerStands /\ HeldLeaseStands
<1> USE DEF LInv, HInv, TInv, TypeOK, Knows, Holding, AnswerStands,
            HeldLeaseStands, rig, tenant, request, Goto
<1>1. ASSUME NEW p \in Processes, UseResident(p) \/ ReleaseOld(p) PROVE Good'
  <2>1. \A q \in Processes \ {p} : lease[q] = NoLease /\ pc[q] # "granted"
    BY <1>1, OthersHoldNone DEF UseResident, ReleaseOld, Alive
  <2>2. lease[p] # NoLease /\ lease[p] \in leases => lease[p] \in leases'
    BY <1>1 DEF UseResident, ReleaseOld, ReleaseStale, StaleLeases
  <2>3. QED
    BY <1>1, <2>1, <2>2 DEF UseResident, ReleaseOld
<1>2. ASSUME NEW p \in Processes, Main(p) PROVE Good'
  <2>1. CASE Start(p) \/ Finish(p)
    BY <2>1 DEF Start, Finish
  <2>2. CASE UseResident(p) \/ ReleaseOld(p)
    BY <1>1, <2>2
  <2>3. CASE Claim(p)
    BY <2>3 DEF Claim
  <2>4. CASE \E m \in Models : Switch(p, m) \/ JudgeLease(p, m)
    BY <2>4 DEF Switch, LeasePath, JudgeLease
  <2>5. CASE Vacated(p) \/ StopWaiting(p) \/ Refused(p)
    BY <2>5 DEF Vacated, StopWaiting, Refused
  <2>6. CASE TakeLease(p)
    BY <2>6 DEF TakeLease, Answer
  <2>7. CASE Unanswered(p)
    BY <2>7 DEF Unanswered
  <2>8. CASE DropLease(p)
    BY <2>8 DEF DropLease, AfterDrop
  <2>9. CASE Delete(p)
    <3>1. \A q \in Processes \ {p} : lease[q] = NoLease /\ pc[q] # "granted"
      BY <2>9, OthersHoldNone DEF Delete, Alive
    <3>2. QED
      BY <2>9, <3>1 DEF Delete
  <2>10. CASE Resume(p)
    BY <2>10 DEF Resume, BackTo
  <2>11. QED
    BY <1>2, <2>1, <2>2, <2>3, <2>4, <2>5, <2>6, <2>7, <2>8, <2>9, <2>10
       DEF Main
<1>3. ASSUME NEW p \in Processes, HardExit(p) \/ Crash(p) PROVE Good'
  <2>1. \A q \in Processes \ {p} : lease[q] = NoLease /\ pc[q] # "granted"
    BY <1>3, OthersHoldNone DEF HardExit, Crash
  <2>2. QED
    BY <1>3, <2>1 DEF HardExit, Crash, LastState
<1>4. ASSUME NEW p \in Processes, Wake(p) \/ Grant(p) \/ GrantLate(p)
      PROVE  Good'
  BY <1>4 DEF Wake, Grant, GrantLate
<1>5. ASSUME NEW l \in leases, Expire(l) PROVE Good'
  BY <1>5 DEF Expire, Touched
<1>6. ASSUME Tenant \/ UNCHANGED vars PROVE Good'
  BY <1>6 DEF Tenant, vars
<1> HIDE DEF Good
<1>7. Good'
  BY <1>2, <1>3, <1>4, <1>5, <1>6 DEF Next
<1>8. QED
  BY <1>7 DEF Good

(* Under the rig lock nobody, not even the run's own clean-up, takes away  *)
(* the lease of a live run whose keepalive touches it.                     *)
THEOREM HeldLeaseStandsHolds ==
  ASSUME Exclusive
  PROVE  Spec => []HeldLeaseStands
<1>1. Init => LInv /\ AnswerStands /\ HeldLeaseStands
  BY TypeInit DEF Init, LInv, HInv, Holding, OneAlive, Alive, AnswerStands,
                  HeldLeaseStands
<1>2. LInv /\ AnswerStands /\ HeldLeaseStands /\ [Next]_vars
        => LInv' /\ AnswerStands' /\ HeldLeaseStands'
  BY HoldingStep, AliveStep, HeldStep DEF LInv, HInv
<1>3. QED
  BY <1>1, <1>2, PTL DEF Spec

LEMMA FreshStep ==
  ASSUME LInv, Fresh, [Next]_vars
  PROVE  Fresh'
<1> USE DEF LInv, HInv, TInv, TypeOK, Fresh, rig, tenant, request, Goto
<1>0. \A l \in leases : l # NoLease
  BY GpuLeaseAssumption DEF GpuLeaseAssumption
<1>1. ASSUME NEW p \in Processes, UseResident(p) PROVE Fresh'
  <2>1. /\ leases' \subseteq leases
        /\ \A l \in leases' : l \in leaked => l \in leaked'
    BY <1>1, Deleting DEF UseResident
  <2>2. QED
    BY <1>1, <2>1 DEF UseResident
<1>2. ASSUME NEW p \in Processes, ReleaseOld(p) PROVE Fresh'
  <2>1. /\ leases' \subseteq leases
        /\ \A l \in leases' : l \in leaked => l \in leaked'
    BY <1>2, Deleting DEF ReleaseOld
  <2>2. \A l \in leases' :
          l.holder = holder[p] /\ l.model = model[p] => l \in leaked'
    BY <1>0, <1>2 DEF ReleaseOld, ReleaseStale, StaleLeases
  <2>3. QED
    BY <1>2, <2>1, <2>2 DEF ReleaseOld
<1>3. ASSUME NEW p \in Processes, Main(p) PROVE Fresh'
  <2>1. CASE Start(p) \/ Finish(p)
    BY <2>1 DEF Start, Finish
  <2>2. CASE UseResident(p) \/ ReleaseOld(p)
    BY <1>1, <1>2, <2>2
  <2>3. CASE Claim(p)
    BY <2>3 DEF Claim
  <2>4. CASE \E m \in Models : Switch(p, m)
    BY <2>4 DEF Switch, LeasePath
  <2>5. CASE \E m \in Models : JudgeLease(p, m)
    BY <2>5 DEF JudgeLease
  <2>6. CASE Vacated(p) \/ StopWaiting(p) \/ Refused(p)
    BY <2>6 DEF Vacated, StopWaiting, Refused
  <2>7. CASE TakeLease(p) \/ Unanswered(p)
    BY <2>7 DEF TakeLease, Unanswered
  <2>8. CASE DropLease(p)
    BY <2>8 DEF DropLease, AfterDrop
  <2>9. CASE Delete(p)
    BY <2>9 DEF Delete
  <2>10. CASE Resume(p)
    BY <2>10 DEF Resume, BackTo
  <2>11. QED
    BY <1>3, <2>1, <2>2, <2>3, <2>4, <2>5, <2>6, <2>7, <2>8, <2>9, <2>10
       DEF Main
<1>4. ASSUME NEW p \in Processes, HardExit(p) \/ Crash(p) PROVE Fresh'
  BY <1>4 DEF HardExit, Crash, LastState
<1>5. ASSUME NEW p \in Processes, Wake(p) \/ GrantLate(p) PROVE Fresh'
  BY <1>5 DEF Wake, GrantLate
<1>6. ASSUME NEW p \in Processes, Grant(p) PROVE Fresh'
  <2>1. \A q \in Processes \ {p} : ~Alive(q)
    BY <1>6, OthersHoldNone DEF Grant, Alive
  <2>2. QED
    BY <1>6, <2>1 DEF Grant, Alive
<1>7. ASSUME (\E l \in leases : Expire(l)) \/ Tenant \/ UNCHANGED vars
      PROVE  Fresh'
  BY <1>7 DEF Expire, Tenant, vars
<1> HIDE DEF Fresh, LInv, HInv, TInv, TypeOK
<1>8. QED
  BY <1>3, <1>4, <1>5, <1>6, <1>7 DEF Next

LEMMA StackStep ==
  ASSUME LInv, Fresh, NoStackedLease, [Next]_vars
  PROVE  NoStackedLease'
<1> USE DEF LInv, HInv, TInv, TypeOK, NoStackedLease, rig, tenant, request, Goto
<1>1. CASE \E p \in Processes : Grant(p)
  <2>1. PICK p \in Processes : Grant(p)
    BY <1>1
  <2>2. \A l \in leases : l.holder = NewLease(p).holder
                          /\ l.model = NewLease(p).model => l \in leaked
    BY <2>1 DEF Grant, Fresh, NewLease
  <2>3. leases' = leases \cup {NewLease(p)} /\ leaked' = leaked
    BY <2>1 DEF Grant
  <2>4. QED
    BY <2>2, <2>3
<1>2. CASE \E p \in Processes : GrantLate(p)
  BY <1>2 DEF GrantLate
<1>3. ASSUME leases' \subseteq leases,
             \A l \in leases' : l \in leaked => l \in leaked'
      PROVE  NoStackedLease'
  BY <1>3
<1>4. CASE \E p \in Processes : UseResident(p) \/ ReleaseOld(p)
  BY <1>3, <1>4, Deleting DEF UseResident, ReleaseOld
<1>5. CASE \E p \in Processes : Delete(p) \/ Unanswered(p) \/ HardExit(p)
  BY <1>3, <1>5 DEF Delete, Unanswered, HardExit
<1>6. CASE \E p \in Processes : Crash(p)
  BY <1>3, <1>6 DEF Crash
<1>7. CASE \E l \in leases : Expire(l)
  BY <1>3, <1>7 DEF Expire
<1>8. CASE \E p \in Processes :
             \/ Start(p) \/ Finish(p) \/ Claim(p) \/ Vacated(p)
             \/ StopWaiting(p) \/ Refused(p) \/ TakeLease(p) \/ DropLease(p)
             \/ Resume(p) \/ Wake(p)
             \/ \E m \in Models : Switch(p, m) \/ JudgeLease(p, m)
  BY <1>3, <1>8 DEF Start, Finish, Claim, Vacated, StopWaiting, Refused,
     TakeLease, DropLease, Resume, Wake, Switch, JudgeLease
<1>9. CASE Tenant \/ UNCHANGED vars
  BY <1>3, <1>9 DEF Tenant, vars
<1> HIDE DEF NoStackedLease, LInv, HInv, TInv, TypeOK
<1>10. QED
  BY <1>1, <1>2, <1>4, <1>5, <1>6, <1>7, <1>8, <1>9 DEF Next, Main

(* Under the rig lock a dead run's lease is never stacked under a second   *)
(* one of its holder for the same model, unless a call about one of them   *)
(* failed or was cut off.                                                  *)
THEOREM NoStackedLeaseHolds ==
  ASSUME Exclusive
  PROVE  Spec => []NoStackedLease
<1>1. Init => LInv /\ Fresh /\ NoStackedLease
  BY TypeInit DEF Init, LInv, HInv, Holding, OneAlive, Alive, Fresh,
                  NoStackedLease
<1>2. LInv /\ Fresh /\ NoStackedLease /\ [Next]_vars
        => LInv' /\ Fresh' /\ NoStackedLease'
  BY HoldingStep, AliveStep, FreshStep, StackStep DEF LInv, HInv
<1>3. QED
  BY <1>1, <1>2, PTL DEF Spec
=============================================================================
