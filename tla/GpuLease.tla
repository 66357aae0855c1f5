------------------------------ MODULE GpuLease ------------------------------
(***************************************************************************)
(* The GPU lease of a run: providers.py (switch_model, _lease_load,        *)
(* claim_devices, release_lease, restore, the keepalive thread), the calls *)
(* of studioforge.py they make and judge.py's acquire_judge_lease.         *)
(*                                                                         *)
(* The rig (StudioForge) and the render tenant (ClawForge) are external    *)
(* and modelled from these calls: the rig grants a lease unless the render *)
(* tenant's stands, also beside one of the same holder, may refuse any     *)
(* request, and drops a lease nobody touches (its idle TTL).  One set of   *)
(* cards stands for those a run names.  Whether a model is resident, and   *)
(* whether a load works, changes no lease and is left open.                *)
(***************************************************************************)
EXTENDS Naturals

CONSTANTS Processes,  \* CrucibleForge processes, each of which runs once
          Models,
          NoModel, NoLease,
          Exclusive,  \* every process takes results/.rig.lock (the CLI's
                      \* commands do, a run of the GUI does not)
          MaxLeases   \* bound on the leases granted

Holders == {"run", "judge"}   \* crucibleforge, crucibleforge-judge
Leases  == [id : 1..MaxLeases, holder : Holders, model : Models, by : Processes]

ASSUME GpuLeaseAssumption ==
  /\ Exclusive \in BOOLEAN /\ MaxLeases \in Nat
  /\ NoModel \notin Models /\ NoLease \notin Leases

VARIABLES
  leases,    \* the rig's standing leases
  granted,   \* how many it ever granted
  render,    \* the render tenant: absent, rendering, draining, vacated
  pc,        \* the process' main thread
  model,     \* the model it switches to; none: it finishes
  holder,    \* the holder it asks a lease for
  lease,     \* Provider._lease
  leasing,   \* Provider.lease
  vacated,   \* Provider._vacated_render
  keepalive, \* the thread Provider._keepalive: none, alive, gone
  call,      \* the lease a POST's answer or a DELETE under way is about
  leaked,    \* history: leases about which a call failed or was cut off
  forgotten  \* history: the tenant was asked to leave by a process that died,
             \* gave up waiting, or failed to call it back

rig     == <<leases, granted, leaked>>
tenant  == <<render, vacated, forgotten>>
request == <<model, holder>>
vars    == <<rig, tenant, request, pc, lease, leasing, keepalive, call>>

TypeOK ==
  /\ leases \subseteq Leases /\ leaked \subseteq Leases
  /\ granted \in 0..MaxLeases
  /\ render \in {"absent", "rendering", "draining", "vacated"}
  /\ pc \in [Processes -> {"off", "idle", "resident", "release", "delete",
                           "resume", "stale", "claim", "vacating", "post",
                           "granted", "ghost", "ended", "dead"}]
  /\ model \in [Processes -> Models \cup {NoModel}]
  /\ holder \in [Processes -> Holders]
  /\ lease \in [Processes -> Leases \cup {NoLease}]
  /\ call \in [Processes -> Leases \cup {NoLease}]
  /\ leasing \in [Processes -> BOOLEAN]
  /\ vacated \in [Processes -> BOOLEAN]
  /\ keepalive \in [Processes -> {"none", "alive", "gone"}]
  /\ forgotten \in BOOLEAN

Init ==
  /\ leases = {} /\ granted = 0 /\ leaked = {}
  /\ render \in {"absent", "rendering"} /\ forgotten = FALSE
  /\ pc = [p \in Processes |-> "off"]
  /\ model = [p \in Processes |-> NoModel]
  /\ holder = [p \in Processes |-> "run"]
  /\ lease = [p \in Processes |-> NoLease]
  /\ call = [p \in Processes |-> NoLease]
  /\ leasing = [p \in Processes |-> TRUE]
  /\ vacated = [p \in Processes |-> FALSE]
  /\ keepalive = [p \in Processes |-> "none"]

Alive(p)  == pc[p] \notin {"off", "ghost", "ended", "dead"}
Goto(p, l) == pc' = [pc EXCEPT ![p] = l]

-----------------------------------------------------------------------------
(* What a process does.                                                    *)

(* acquire_rig_lock: a process that dies drops its flock.                  *)
Start(p) ==
  /\ pc[p] = "off"
  /\ Exclusive => \A q \in Processes : ~Alive(q)
  /\ Goto(p, "idle")
  /\ UNCHANGED <<rig, tenant, request, lease, leasing, keepalive, call>>

(* switch_model: a resident model is used as it is, else _lease_load: the  *)
(* lease of this model stands, that of another one is released, a new one  *)
(* is taken.  Without leases the model is merely loaded.                   *)
LeasePath(p, m) ==
  IF ~leasing[p] THEN "idle"
  ELSE IF lease[p] = NoLease THEN "stale"
  ELSE IF lease[p].model = m THEN "idle" ELSE "release"

Switch(p, m) ==
  /\ pc[p] = "idle"
  /\ model' = [model EXCEPT ![p] = m]
  /\ holder' = [holder EXCEPT ![p] = "run"]
  /\ Goto(p, "resident") \/ Goto(p, LeasePath(p, m))
  /\ UNCHANGED <<rig, tenant, lease, leasing, keepalive, call>>

(* acquire_judge_lease: nothing to do under a lease the process has.       *)
JudgeLease(p, m) ==
  /\ pc[p] = "idle" /\ lease[p] = NoLease
  /\ model' = [model EXCEPT ![p] = m]
  /\ holder' = [holder EXCEPT ![p] = "judge"]
  /\ Goto(p, "stale")
  /\ UNCHANGED <<rig, tenant, lease, leasing, keepalive, call>>

(* stale_leases: our holder's leases for the model, but for our own; those *)
(* whose DELETE fails, all of them if the list cannot be read, stand.      *)
StaleAny(h, m, own)  == {l \in leases : l.holder = h /\ l.model = m}  \* mutant
StaleNone(h, m, own) == {}                                            \* mutant
StaleLeases(h, m, own) ==
  {l \in leases : l.holder = h /\ l.model = m /\ l # own}

ReleaseStale(h, m, own) ==
  \E gone \in SUBSET StaleLeases(h, m, own) :
    /\ leases' = leases \ gone
    /\ leaked' = (leaked \ gone) \cup (StaleLeases(h, m, own) \ gone)

(* _resident_ready; _refuse_other_bench_lease then raises if another       *)
(* crucibleforge lease is left on the cards, which changes no lease.       *)
UseResident(p) ==
  /\ pc[p] = "resident"
  /\ IF leasing[p] THEN ReleaseStale("run", model[p], lease[p])
     ELSE UNCHANGED <<leases, leaked>>
  /\ Goto(p, "idle")
  /\ UNCHANGED <<granted, tenant, request, lease, leasing, keepalive, call>>

ReleaseOld(p) ==
  /\ pc[p] = "stale"
  /\ ReleaseStale(holder[p], model[p], NoLease)
  /\ Goto(p, "claim")
  /\ UNCHANGED <<granted, tenant, request, lease, leasing, keepalive, call>>

(* claim_devices and vacate_render_leases: a render lease on the cards is  *)
(* vacated (if the lease list cannot be read, it is not seen).  No card,   *)
(* no answer, a refusal: an error, and the model is not run.               *)
Claim(p) ==
  /\ pc[p] = "claim"
  /\ \/ Goto(p, "post") /\ UNCHANGED render
     \/ /\ render \in {"rendering", "draining"}
        /\ render' = "draining" /\ Goto(p, "vacating")
     \/ Goto(p, "idle") /\ UNCHANGED render
  /\ UNCHANGED <<rig, vacated, forgotten, request, lease, leasing, keepalive,
                 call>>

Vacated(p) ==
  /\ pc[p] = "vacating" /\ render = "vacated"
  /\ vacated' = [vacated EXCEPT ![p] = TRUE]
  /\ Goto(p, "post")
  /\ UNCHANGED <<rig, render, forgotten, request, lease, leasing, keepalive,
                 call>>

(* 240 s are over, or a stop ends the wait: it raises, nothing is noted.   *)
StopWaiting(p) ==
  /\ pc[p] = "vacating"
  /\ forgotten' = TRUE
  /\ Goto(p, "idle")
  /\ UNCHANGED <<rig, render, vacated, request, lease, leasing, keepalive,
                 call>>

(* acquire_lease.  Without a lease API a run goes on without leases.       *)
Refused(p) ==
  /\ pc[p] = "post"
  /\ \/ UNCHANGED leasing
     \/ holder[p] = "run" /\ leasing' = [leasing EXCEPT ![p] = FALSE]
  /\ Goto(p, "idle")
  /\ UNCHANGED <<rig, tenant, request, lease, keepalive, call>>

Misread(p) == [call[p] EXCEPT !.model = holder[p]]                    \* mutant
Answer(p)  == call[p]

(* _lease_load starts the keepalive thread once per process,               *)
(* acquire_judge_lease does not.                                           *)
TakeLease(p) ==
  /\ pc[p] = "granted"
  /\ lease' = [lease EXCEPT ![p] = Answer(p)]
  /\ call' = [call EXCEPT ![p] = NoLease]
  /\ keepalive' = IF holder[p] = "run" /\ keepalive[p] = "none"
                  THEN [keepalive EXCEPT ![p] = "alive"] ELSE keepalive
  /\ Goto(p, "idle")
  /\ UNCHANGED <<rig, tenant, request, leasing>>

(* The rig granted the lease, its answer timed out or names none.          *)
Unanswered(p) ==
  /\ pc[p] = "granted"
  /\ leaked' = leaked \cup {call[p]}
  /\ call' = [call EXCEPT ![p] = NoLease]
  /\ Goto(p, "idle")
  /\ UNCHANGED <<leases, granted, tenant, request, lease, leasing, keepalive>>

(* The keepalive thread ends when it wakes between two leases.             *)
Wake(p) ==
  /\ Alive(p) /\ keepalive[p] = "alive" /\ lease[p] = NoLease
  /\ keepalive' = [keepalive EXCEPT ![p] = "gone"]
  /\ UNCHANGED <<rig, tenant, request, pc, lease, leasing, call>>

(* release_lease: the lease is forgotten first, then deleted, and then the *)
(* render tenant is called back.                                           *)
BackTo(p)    == IF model[p] = NoModel THEN "ended" ELSE "stale"
AfterDropEarly(p) == IF lease[p] # NoLease THEN "delete" ELSE BackTo(p) \* mutant
AfterDrop(p) == IF lease[p] # NoLease THEN "delete" ELSE "resume"

DropLease(p) ==
  /\ pc[p] = "release"
  /\ call' = [call EXCEPT ![p] = lease[p]]
  /\ lease' = [lease EXCEPT ![p] = NoLease]
  /\ Goto(p, AfterDrop(p))
  /\ UNCHANGED <<rig, tenant, request, leasing, keepalive>>

Delete(p) ==
  /\ pc[p] = "delete"
  /\ \/ leases' = leases \ {call[p]} /\ leaked' = leaked \ {call[p]}
     \/ leaked' = leaked \cup {call[p]} /\ UNCHANGED leases
  /\ call' = [call EXCEPT ![p] = NoLease]
  /\ Goto(p, "resume")
  /\ UNCHANGED <<granted, tenant, request, lease, leasing, keepalive>>

CallBack(p) ==
  /\ vacated' = [vacated EXCEPT ![p] = FALSE]
  /\ IF ~vacated[p] THEN UNCHANGED <<render, forgotten>>
     ELSE \/ render' = "rendering" /\ forgotten' = FALSE
          \/ forgotten' = TRUE /\ UNCHANGED render

Resume(p) ==
  /\ pc[p] = "resume"
  /\ CallBack(p)
  /\ Goto(p, BackTo(p))
  /\ UNCHANGED <<rig, request, lease, leasing, keepalive, call>>

(* guard.restore or _exit_after_stop, and then the end of the process.     *)
Finish(p) ==
  /\ pc[p] = "idle"
  /\ model' = [model EXCEPT ![p] = NoModel]
  /\ Goto(p, "release")
  /\ UNCHANGED <<rig, tenant, holder, lease, leasing, keepalive, call>>

-----------------------------------------------------------------------------
(* How a process ends early.  A POST that is under way outlives it.        *)

InFlight(p, l) == IF pc[p] = l THEN {call[p]} ELSE {}
LastState(p, s) ==
  /\ pc' = [pc EXCEPT ![p] = IF @ = "post" THEN "ghost" ELSE s]
  /\ lease' = [lease EXCEPT ![p] = NoLease]
  /\ call' = [call EXCEPT ![p] = NoLease]
  /\ keepalive' = [keepalive EXCEPT ![p] = "gone"]
  /\ UNCHANGED <<granted, request, leasing>>

(* The stop watchdog: release_all_leases, then os._exit at once, wherever  *)
(* the main thread is.  A DELETE of either thread may fail or be cut off.  *)
ReleasesNothing(p) == {}                                              \* mutant
Released(p) == {lease[p]} \ {NoLease}

HardExit(p) ==
  /\ Alive(p)
  /\ \E kept \in SUBSET (Released(p) \cup InFlight(p, "delete")) :
       /\ leases' = leases \ ((Released(p) \cup InFlight(p, "delete")) \ kept)
       /\ leaked' = leaked \cup kept \cup InFlight(p, "granted")
  /\ IF pc[p] = "vacating" /\ ~vacated[p]
     THEN forgotten' = TRUE /\ UNCHANGED <<render, vacated>>
     ELSE CallBack(p)
  /\ LastState(p, "ended")

(* Killed: nothing is released.                                            *)
Crash(p) ==
  /\ Alive(p)
  /\ \E gone \in SUBSET InFlight(p, "delete") : leases' = leases \ gone
  /\ forgotten' = (forgotten \/ vacated[p] \/ pc[p] = "vacating")
  /\ vacated' = [vacated EXCEPT ![p] = FALSE]
  /\ UNCHANGED <<leaked, render>>
  /\ LastState(p, "dead")

-----------------------------------------------------------------------------
(* What the rig and the render tenant do.                                  *)

NewLease(p) == [id |-> granted + 1, holder |-> holder[p], model |-> model[p],
                by |-> p]
CanGrant    == granted < MaxLeases /\ render \in {"absent", "vacated"}

Grant(p) ==
  /\ pc[p] = "post" /\ CanGrant
  /\ leases' = leases \cup {NewLease(p)} /\ granted' = granted + 1
  /\ call' = [call EXCEPT ![p] = NewLease(p)]
  /\ Goto(p, "granted")
  /\ UNCHANGED <<leaked, tenant, request, lease, leasing, keepalive>>

(* The POST of a process that is gone.                                     *)
GrantLate(p) ==
  /\ pc[p] = "ghost"
  /\ \/ /\ CanGrant
        /\ leases' = leases \cup {NewLease(p)} /\ granted' = granted + 1
        /\ leaked' = leaked \cup {NewLease(p)}
     \/ UNCHANGED rig
  /\ Goto(p, "dead")
  /\ UNCHANGED <<tenant, request, lease, leasing, keepalive, call>>

(* A lease idles out, but not while its keepalive touches it, nor between  *)
(* its grant and the client's reading of the answer (the TTL is hours).    *)
Touched(l) ==
  \E p \in Processes : \/ lease[p] = l /\ keepalive[p] = "alive"
                       \/ pc[p] = "granted" /\ call[p] = l
Expire(l) ==
  /\ ~Touched(l)
  /\ leases' = leases \ {l} /\ leaked' = leaked \ {l}
  /\ UNCHANGED <<granted, tenant, request, pc, lease, leasing,
                 keepalive, call>>

(* The tenant comes to free cards, leaves, or lets go as asked; somebody   *)
(* calls back one that no run of ours will (comfy_control("resume")).      *)
Tenant ==
  /\ \/ render = "absent" /\ leases = {} /\ render' = "rendering"
     \/ render = "rendering" /\ render' = "absent"
     \/ render = "draining" /\ render' = "vacated"
     \/ render = "vacated" /\ forgotten /\ render' = "rendering"
  /\ forgotten' = (forgotten /\ render # "vacated")
  /\ UNCHANGED <<rig, vacated, request, pc, lease, leasing, keepalive, call>>

Main(p) ==
  \/ Start(p) \/ Finish(p) \/ UseResident(p) \/ ReleaseOld(p) \/ Claim(p)
  \/ \E m \in Models : Switch(p, m) \/ JudgeLease(p, m)
  \/ Vacated(p) \/ StopWaiting(p) \/ Refused(p) \/ TakeLease(p) \/ Unanswered(p)
  \/ DropLease(p) \/ Delete(p) \/ Resume(p)

Next ==
  \/ \E p \in Processes : Main(p) \/ Wake(p) \/ HardExit(p) \/ Crash(p)
  \/ \E p \in Processes : Grant(p) \/ GrantLate(p)
  \/ \E l \in leases : Expire(l)
  \/ Tenant

Spec == Init /\ [][Next]_vars

-----------------------------------------------------------------------------
(* Properties.                                                             *)

(* providers.py, _refuse_other_bench_lease: a lease a live run keeps alive *)
(* is that run's; no other run and no clean-up of its own takes it away    *)
(* while the run still counts on it.                                       *)
HeldLeaseStands ==
  \A p \in Processes :
    lease[p] # NoLease /\ keepalive[p] = "alive" => lease[p] \in leases

(* providers.py: a dead run's lease is released first, never stacked under *)
(* a second one -- two leases of one holder for one model only after a     *)
(* call about one of them was lost.                                        *)
NoStackedLease ==
  \A a, b \in leases :
    a # b /\ a.holder = b.holder /\ a.model = b.model => {a, b} \cap leaked # {}

(* cli.py, request_stop: a process that ends other than by being killed,   *)
(* by itself or at the watchdog's hands, leaves no lease behind, unless    *)
(* the call about that lease was lost or cut off.                          *)
ExitReleases ==
  \A p \in Processes : pc[p] = "ended" => {l \in leases : l.by = p} \subseteq leaked

(* studioforge.py: a render tenant asked to leave is called back -- while  *)
(* it is away a live process knows that it owes the call, unless one died, *)
(* gave up waiting or had its call refused.                                *)
RenderHandedBack ==
  render \in {"draining", "vacated"} =>
    \/ forgotten
    \/ \E p \in Processes : Alive(p) /\ (vacated[p] \/ pc[p] = "vacating")
=============================================================================
