------------------------- MODULE DeployerManagement -------------------------
(***************************************************************************)
(* The deployer-management controllers of                                  *)
(* pkg/deployermanagement/controller/controller.go: the Environment        *)
(* controller and the DeployerRegistration controller keep one deployer    *)
(* installation per (registration, environment) pair, and use a finalizer  *)
(* on both kinds of object to delete the pair's installations before the   *)
(* object goes away.                                                       *)
(*                                                                         *)
(* Each controller has one worker (controller-runtime's default), so one   *)
(* reconcile of each kind runs at a time, but the two run concurrently     *)
(* with each other and with the users creating and deleting objects.  A    *)
(* reconcile is a sequence of API calls, each an atomic step here; the     *)
(* goroutines of a deletion fan-out are separate steps in any order.       *)
(* dm.Reconcile and dm.Delete (DeployerManagement, not under src/) create  *)
(* or update, and delete, the pair's installation.                         *)
(***************************************************************************)
EXTENDS Naturals, FiniteSets

CONSTANTS
    Environments,   \* names of Environment objects
    Registrations,  \* names of DeployerRegistration objects
    LiveEnvs,       \* Environments that exist initially, converged
    LiveRegs,       \* DeployerRegistrations that exist initially, converged
    MaxFailures     \* bound on API calls that fail (conflicts are not counted)

ASSUME LiveEnvs \subseteq Environments /\ LiveRegs \subseteq Registrations

\* An object's lifecycle on the API server: not yet created, existing,
\* deletionTimestamp set, deleted.  fin: it carries LandscaperDMFinalizer.
ObjStates == {"absent", "live", "deleting", "gone"}
Existing  == {"live", "deleting"}
Objects   == [st : ObjStates, fin : BOOLEAN]
Pcs       == {"idle", "ensure", "fanout", "reconcile"}

VARIABLES
    env,        \* the API server's Environments
    reg,        \* the API server's DeployerRegistrations
    inst,       \* the deployer installations, by name
    target,     \* the Environments whose host Target exists
    envQueue,   \* work queue of the Environment controller
    regQueue,   \* work queue of the DeployerRegistration controller
    envCtl,     \* the Environment controller's running reconcile
    regCtl,     \* the DeployerRegistration controller's running reconcile
    failures    \* failed API calls so far

vars == <<env, reg, inst, target, envQueue, regQueue, envCtl, regCtl, failures>>

-----------------------------------------------------------------------------
(* Helpers.                                                                *)

\* dm.Reconcile and dm.Delete work on the installation of one pair.
InstName(r, e) == <<r, e>>

\* client.List: the objects the API server still holds.
Listed(objs) == {x \in DOMAIN objs : objs[x].st \in Existing}

\* (The deletion timestamp test never taken.)
IsDeletingNever(o) == FALSE

\* !obj.DeletionTimestamp.IsZero()
IsDeleting(o) == o.st = "deleting"

\* (An error swallowed: the key is not queued again.)
RetryDropped(q, k) == q

\* A reconcile returning an error: controller-runtime requeues the key.
Retry(q, k) == q \cup {k}

\* A write to an object raises a watch event that queues its key.
Event(q, k) == q \cup {k}

\* controllerutil.RemoveFinalizer and Update: without finalizers a deleting
\* object is removed by the API server.
WithoutFinalizer(o) ==
    IF o.st = "deleting" THEN [st |-> "gone", fin |-> FALSE]
    ELSE [o EXCEPT !.fin = FALSE]

CanFail == failures < MaxFailures
Fail    == failures' = failures + 1

Idle(c) == [c EXCEPT !.pc = "idle", !.todo = {}, !.errs = FALSE]

\* Start a reconcile of key k, read as snap, with the listed counterparts.
Begin(k, snap, pc, listed) ==
    [pc |-> pc, key |-> k, snap |-> snap, todo |-> listed, errs |-> FALSE]

\* (A loop that returns after its first item.)
ContinueFirstOnly(c, x) == Idle(c)

\* After one item of a loop: go on, or return when none is left.
Continue(c, x) ==
    IF c.todo = {x} THEN Idle(c) ELSE [c EXCEPT !.todo = @ \ {x}]

-----------------------------------------------------------------------------
(* EnvironmentController.Reconcile.                                        *)

\* Get the Environment and List the registrations; NotFound ends the
\* reconcile, other errors are retried.
EnvGet(e) ==
    /\ envCtl.pc = "idle"
    /\ e \in envQueue
    /\ \/ /\ env[e].st \notin Existing
          /\ envQueue' = envQueue \ {e}
          /\ UNCHANGED <<envCtl, failures>>
       \/ /\ env[e].st \in Existing
          /\ envQueue' = envQueue \ {e}
          /\ envCtl' = Begin(e, env[e],
                             IF IsDeleting(env[e]) THEN "fanout" ELSE "ensure",
                             Listed(reg))
          /\ UNCHANGED failures
       \/ /\ env[e].st \in Existing /\ CanFail /\ Fail
          /\ envQueue' = Retry(envQueue \ {e}, e)
          /\ UNCHANGED envCtl
    /\ UNCHANGED <<env, reg, inst, target, regQueue, regCtl>>

\* One goroutine of the deletion fan-out: dm.Delete(registration, env),
\* its error collected under the mutex.
EnvDelete ==
    /\ envCtl.pc = "fanout"
    /\ \E r \in envCtl.todo :
         \/ /\ inst' = inst \ {InstName(r, envCtl.key)}
            /\ envCtl' = [envCtl EXCEPT !.todo = @ \ {r}]
            /\ UNCHANGED failures
         \/ /\ CanFail /\ Fail
            /\ envCtl' = [envCtl EXCEPT !.todo = @ \ {r}, !.errs = TRUE]
            /\ UNCHANGED inst
    /\ UNCHANGED <<env, reg, target, envQueue, regQueue, regCtl>>

\* After wg.Wait(): return the aggregated error, or remove the finalizer.
\* The Target has the Environment as controller owner and is garbage
\* collected with it.
EnvRemoveFinalizer ==
    /\ envCtl.pc = "fanout" /\ envCtl.todo = {}
    /\ LET e == envCtl.key IN
         \/ /\ envCtl.errs
            /\ envQueue' = Retry(envQueue, e)
            /\ UNCHANGED <<env, target, failures>>
         \/ /\ ~envCtl.errs
            /\ env' = [env EXCEPT ![e] = WithoutFinalizer(@)]
            /\ target' = IF env'[e].st = "gone" THEN target \ {e} ELSE target
            /\ envQueue' = Event(envQueue, e)
            /\ UNCHANGED failures
         \/ /\ ~envCtl.errs /\ CanFail /\ Fail
            /\ envQueue' = Retry(envQueue, e)
            /\ UNCHANGED <<env, target>>
    /\ envCtl' = Idle(envCtl)
    /\ UNCHANGED <<reg, inst, regQueue, regCtl>>

\* Ensure the finalizer (Update, which conflicts when the object changed
\* since the Get), then CreateOrUpdate the host Target.
EnvEnsure ==
    /\ envCtl.pc = "ensure"
    /\ LET e       == envCtl.key
           needFin == ~envCtl.snap.fin
           finOK   == ~needFin \/ env[e] = envCtl.snap
           withFin == [env EXCEPT ![e].fin = TRUE]
           queued  == IF needFin THEN Event(envQueue, e) ELSE envQueue
       IN \/ /\ finOK
             /\ env' = withFin
             /\ target' = target \cup {e}
             /\ envQueue' = queued
             /\ envCtl' = IF envCtl.todo = {} THEN Idle(envCtl)
                          ELSE [envCtl EXCEPT !.pc = "reconcile"]
             /\ UNCHANGED failures
          \/ /\ ~finOK
             /\ envQueue' = Retry(envQueue, e)
             /\ envCtl' = Idle(envCtl)
             /\ UNCHANGED <<env, target, failures>>
          \/ /\ CanFail /\ Fail
             /\ envCtl' = Idle(envCtl)
             /\ \/ /\ envQueue' = Retry(envQueue, e)
                   /\ UNCHANGED <<env, target>>
                \/ /\ needFin /\ finOK
                   /\ env' = withFin
                   /\ envQueue' = Retry(queued, e)
                   /\ UNCHANGED target
    /\ UNCHANGED <<reg, inst, regQueue, regCtl>>

\* for each listed registration: dm.Reconcile(registration, env); the first
\* error is returned.
EnvReconcile ==
    /\ envCtl.pc = "reconcile"
    /\ \E r \in envCtl.todo :
         \/ /\ inst' = inst \cup {InstName(r, envCtl.key)}
            /\ envCtl' = Continue(envCtl, r)
            /\ UNCHANGED <<envQueue, failures>>
         \/ /\ CanFail /\ Fail
            /\ envQueue' = Retry(envQueue, envCtl.key)
            /\ envCtl' = Idle(envCtl)
            /\ UNCHANGED inst
    /\ UNCHANGED <<env, reg, target, regQueue, regCtl>>

EnvStep == (\E e \in Environments : EnvGet(e)) \/ EnvDelete \/ EnvRemoveFinalizer \/ EnvEnsure \/ EnvReconcile

-----------------------------------------------------------------------------
(* DeployerRegistrationController.Reconcile.                               *)

\* Get the DeployerRegistration; NotFound ends the reconcile.
RegGet(r) ==
    /\ regCtl.pc = "idle"
    /\ r \in regQueue
    /\ \/ /\ reg[r].st \notin Existing
          /\ regQueue' = regQueue \ {r}
          /\ UNCHANGED <<regCtl, failures>>
       \/ /\ reg[r].st \in Existing
          /\ regQueue' = regQueue \ {r}
          /\ regCtl' = Begin(r, reg[r], "ensure", {})
          /\ UNCHANGED failures
       \/ /\ reg[r].st \in Existing /\ CanFail /\ Fail
          /\ regQueue' = Retry(regQueue \ {r}, r)
          /\ UNCHANGED regCtl
    /\ UNCHANGED <<env, reg, inst, target, envQueue, envCtl>>

\* Ensure the finalizer (whether or not the registration is being deleted),
\* then List the environments and branch on the deletion timestamp read by
\* the Get.
RegEnsure ==
    /\ regCtl.pc = "ensure"
    /\ LET r       == regCtl.key
           needFin == ~regCtl.snap.fin
           finOK   == ~needFin \/ reg[r] = regCtl.snap
           withFin == [reg EXCEPT ![r].fin = TRUE]
           queued  == IF needFin THEN Event(regQueue, r) ELSE regQueue
           listed  == Listed(env)
       IN \/ /\ finOK
             /\ reg' = withFin
             /\ regQueue' = queued
             /\ regCtl' =
                  IF IsDeleting(regCtl.snap)
                  THEN [regCtl EXCEPT !.pc = "fanout", !.todo = listed]
                  ELSE IF listed = {} THEN Idle(regCtl)
                  ELSE [regCtl EXCEPT !.pc = "reconcile", !.todo = listed]
             /\ UNCHANGED failures
          \/ /\ ~finOK
             /\ regQueue' = Retry(regQueue, r)
             /\ regCtl' = Idle(regCtl)
             /\ UNCHANGED <<reg, failures>>
          \/ /\ CanFail /\ Fail
             /\ regCtl' = Idle(regCtl)
             /\ \/ /\ regQueue' = Retry(regQueue, r)
                   /\ UNCHANGED reg
                \/ /\ needFin /\ finOK
                   /\ reg' = withFin
                   /\ regQueue' = Retry(queued, r)
    /\ UNCHANGED <<env, inst, target, envQueue, envCtl>>

\* One goroutine of the deletion fan-out: dm.Delete(registration, env).
RegDelete ==
    /\ regCtl.pc = "fanout"
    /\ \E e \in regCtl.todo :
         \/ /\ inst' = inst \ {InstName(regCtl.key, e)}
            /\ regCtl' = [regCtl EXCEPT !.todo = @ \ {e}]
            /\ UNCHANGED failures
         \/ /\ CanFail /\ Fail
            /\ regCtl' = [regCtl EXCEPT !.todo = @ \ {e}, !.errs = TRUE]
            /\ UNCHANGED inst
    /\ UNCHANGED <<env, reg, target, envQueue, regQueue, envCtl>>

\* After wg.Wait(): return the aggregated error, or remove the finalizer.
RegRemoveFinalizer ==
    /\ regCtl.pc = "fanout" /\ regCtl.todo = {}
    /\ LET r == regCtl.key IN
         \/ /\ regCtl.errs
            /\ regQueue' = Retry(regQueue, r)
            /\ UNCHANGED <<reg, failures>>
         \/ /\ ~regCtl.errs
            /\ reg' = [reg EXCEPT ![r] = WithoutFinalizer(@)]
            /\ regQueue' = Event(regQueue, r)
            /\ UNCHANGED failures
         \/ /\ ~regCtl.errs /\ CanFail /\ Fail
            /\ regQueue' = Retry(regQueue, r)
            /\ UNCHANGED reg
    /\ regCtl' = Idle(regCtl)
    /\ UNCHANGED <<env, inst, target, envQueue, envCtl>>

\* for each listed environment: dm.Reconcile(registration, env).
RegReconcile ==
    /\ regCtl.pc = "reconcile"
    /\ \E e \in regCtl.todo :
         \/ /\ inst' = inst \cup {InstName(regCtl.key, e)}
            /\ regCtl' = Continue(regCtl, e)
            /\ UNCHANGED <<regQueue, failures>>
         \/ /\ CanFail /\ Fail
            /\ regQueue' = Retry(regQueue, regCtl.key)
            /\ regCtl' = Idle(regCtl)
            /\ UNCHANGED inst
    /\ UNCHANGED <<env, reg, target, envQueue, envCtl>>

RegStep == (\E r \in Registrations : RegGet(r)) \/ RegEnsure \/ RegDelete \/ RegRemoveFinalizer \/ RegReconcile

-----------------------------------------------------------------------------
(* Users and the informers.                                                *)

\* Create an object; the watch queues it.
CreateEnv(e) ==
    /\ env[e].st = "absent"
    /\ env' = [env EXCEPT ![e].st = "live"]
    /\ envQueue' = Event(envQueue, e)
    /\ UNCHANGED <<reg, inst, target, regQueue, envCtl, regCtl, failures>>

CreateReg(r) ==
    /\ reg[r].st = "absent"
    /\ reg' = [reg EXCEPT ![r].st = "live"]
    /\ regQueue' = Event(regQueue, r)
    /\ UNCHANGED <<env, inst, target, envQueue, envCtl, regCtl, failures>>

\* Delete an object: the API server sets the deletion timestamp, or removes
\* it at once when it carries no finalizer.
DeleteEnv(e) ==
    /\ env[e].st = "live"
    /\ env' = [env EXCEPT ![e].st = IF env[e].fin THEN "deleting" ELSE "gone"]
    /\ envQueue' = Event(envQueue, e)
    /\ UNCHANGED <<reg, inst, target, regQueue, envCtl, regCtl, failures>>

DeleteReg(r) ==
    /\ reg[r].st = "live"
    /\ reg' = [reg EXCEPT ![r].st = IF reg[r].fin THEN "deleting" ELSE "gone"]
    /\ regQueue' = Event(regQueue, r)
    /\ UNCHANGED <<env, inst, target, envQueue, envCtl, regCtl, failures>>

\* The informers' periodic resync queues every existing object.
Resync ==
    /\ \/ \E e \in Listed(env) : envQueue' = envQueue \cup {e} /\ UNCHANGED regQueue
       \/ \E r \in Listed(reg) : regQueue' = regQueue \cup {r} /\ UNCHANGED envQueue
    /\ UNCHANGED <<env, reg, inst, target, envCtl, regCtl, failures>>

Users ==
    \/ \E e \in Environments : CreateEnv(e) \/ DeleteEnv(e)
    \/ \E r \in Registrations : CreateReg(r) \/ DeleteReg(r)

-----------------------------------------------------------------------------
\* The objects of LiveEnvs and LiveRegs exist with the finalizer, with every
\* pair's installation and every host Target in place; the others are not
\* yet created.
Init ==
    /\ env = [e \in Environments |->
                IF e \in LiveEnvs THEN [st |-> "live", fin |-> TRUE]
                ELSE [st |-> "absent", fin |-> FALSE]]
    /\ reg = [r \in Registrations |->
                IF r \in LiveRegs THEN [st |-> "live", fin |-> TRUE]
                ELSE [st |-> "absent", fin |-> FALSE]]
    /\ inst = {InstName(r, e) : r \in LiveRegs, e \in LiveEnvs}
    /\ target = LiveEnvs
    /\ envQueue = {} /\ regQueue = {}
    /\ envCtl = Begin(CHOOSE e \in Environments : TRUE,
                      [st |-> "absent", fin |-> FALSE], "idle", {})
    /\ regCtl = Begin(CHOOSE r \in Registrations : TRUE,
                      [st |-> "absent", fin |-> FALSE], "idle", {})
    /\ failures = 0

Next == EnvStep \/ RegStep \/ Users \/ Resync

\* Each controller's worker keeps processing its queue, and the queue is
\* FIFO: a key queued again and again is eventually handed to the worker.
Fairness ==
    /\ WF_vars(EnvStep) /\ WF_vars(RegStep)
    /\ \A e \in Environments : SF_vars(EnvGet(e))
    /\ \A r \in Registrations : SF_vars(RegGet(r))

Spec == Init /\ [][Next]_vars /\ Fairness

-----------------------------------------------------------------------------
(* Properties.                                                             *)

Ctls == [pc : Pcs, key : Environments \cup Registrations, snap : Objects,
         todo : SUBSET (Environments \cup Registrations), errs : BOOLEAN]

TypeOK ==
    /\ env \in [Environments -> Objects]
    /\ reg \in [Registrations -> Objects]
    /\ inst \subseteq Registrations \X Environments
    /\ target \subseteq Environments
    /\ envQueue \subseteq Environments /\ regQueue \subseteq Registrations
    /\ envCtl \in Ctls /\ regCtl \in Ctls
    /\ failures \in 0..MaxFailures

\* Both controllers are idle with nothing queued.
Quiescent ==
    /\ envQueue = {} /\ regQueue = {}
    /\ envCtl.pc = "idle" /\ regCtl.pc = "idle"

\* Whenever the controllers have settled, every pair of a live Environment
\* and a live DeployerRegistration has its deployer installation and every
\* live Environment its host Target, however their creations interleaved
\* with each other's reconciles and with failing calls.
ConvergedInstallations ==
    Quiescent =>
        /\ \A e \in Environments : env[e].st = "live" => e \in target
        /\ \A r \in Registrations, e \in Environments :
              reg[r].st = "live" /\ env[e].st = "live" => InstName(r, e) \in inst

\* The settled state is reached for every pair: whenever an Environment and
\* a DeployerRegistration are both live, the pair's deployer installation
\* is eventually created (or one of them is deleted), through the failed
\* reconciles, conflicting finalizer Updates and the two controllers'
\* Lists taken before the other object existed.
InstallationsEventuallyCreated ==
    \A r \in Registrations, e \in Environments :
        reg[r].st = "live" /\ env[e].st = "live"
            ~> \/ InstName(r, e) \in inst
               \/ reg[r].st # "live" \/ env[e].st # "live"

\* Every Environment and DeployerRegistration whose deletion is requested is
\* eventually removed: the fan-out's failures are retried and the
\* finalizer removed.
DeletionCompletes ==
    /\ \A e \in Environments : env[e].st = "deleting" ~> env[e].st = "gone"
    /\ \A r \in Registrations : reg[r].st = "deleting" ~> reg[r].st = "gone"

\* The finalizers make deletion wait for the pair's installations: no
\* deployer installation outlives its Environment or DeployerRegistration
\* (nothing removes an installation of a pair that no longer exists).
NoOrphanInstallation ==
    \A p \in inst : reg[p[1]].st \in Existing /\ env[p[2]].st \in Existing

=============================================================================
