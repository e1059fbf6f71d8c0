-------------------------- MODULE DeployItemTimeout --------------------------
(***************************************************************************)
(* The DeployItem timeout controller of the landscaper                     *)
(* (pkg/landscaper/controllers/deployitem/controller.go) together with the *)
(* actors that share the DeployItem object with it: the landscaper, which  *)
(* requests a reconcile by setting the reconcile-timestamp annotation, and *)
(* a deployer, which picks the item up, finishes it, or honours an abort.  *)
(*                                                                         *)
(* One DeployItem is modelled: the controller handles every item on its    *)
(* own and items never share state in this controller.                     *)
(*                                                                         *)
(* Time.  Every timestamp the controller reads (the reconcile and abort    *)
(* annotations, Status.LastReconcileTime) is held as its AGE, the seconds  *)
(* since it was set, and saturates at Cap, which exceeds every timeout     *)
(* plus the margin: every comparison the code makes gives the same answer  *)
(* on the saturated age, so the clock is unbounded but the state finite.   *)
(*                                                                         *)
(* Scheduling.  controller-runtime runs Reconcile when the item is in the  *)
(* work queue: after every update of the object (watch event), after an   *)
(* error (rate-limited retry), after a periodic resync, and when a         *)
(* RequeueAfter timer fires.  "queued" is the queue entry, "requeueIn" the *)
(* earliest pending RequeueAfter timer of the delaying queue.              *)
(***************************************************************************)
EXTENDS Naturals, FiniteSetsExt

CONSTANTS
    PickupTimeout,    \* con.pickupTimeout, 0 = detection disabled
    AbortingTimeout,  \* con.abortingTimeout, 0 = detection disabled
    DefaultTimeout,   \* con.defaultTimeout, 0 = disabled unless the item sets one
    ItemTimeouts,     \* values di.Spec.Timeout may have: None or a duration
    Margin,           \* the 5 second margin added to every requeue
    MaxEnvSteps,      \* bound on landscaper and deployer steps
    Edits,            \* annotations ("rts", "ats") a user may overwrite by hand
    Unparsable,       \* model value: a timestamp annotation that does not parse
    None              \* model value: annotation absent, nil pointer, zero time

ASSUME PickupTimeout \in Nat /\ AbortingTimeout \in Nat /\ DefaultTimeout \in Nat
ASSUME ItemTimeouts \subseteq (Nat \cup {None}) /\ ItemTimeouts # {}
ASSUME Margin \in Nat \ {0} /\ MaxEnvSteps \in Nat /\ Edits \subseteq {"rts", "ats"}

Phases  == {"Init", "Progressing", "Succeeded", "Failed"}
Final   == {"Succeeded", "Failed"}
Reasons == {None, "PickupTimeout", "AbortingTimeout", "Other"}

MaxTimeout == Max({PickupTimeout, AbortingTimeout, DefaultTimeout}
                    \cup (ItemTimeouts \ {None}))

Cap  == MaxTimeout + Margin + 1
Ages == 0..Cap

VARIABLES
    di,          \* the stored DeployItem: status fields and annotation ages
    queued,      \* the item is in the controller's work queue
    requeueIn,   \* seconds until the pending RequeueAfter timer fires, or None
    envSteps     \* number of landscaper/deployer steps taken so far

vars == <<di, queued, requeueIn, envSteps>>

DeployItems == [phase   : Phases,
                reason  : Reasons,         \* Status.LastError.Reason
                rts     : Ages \cup {None, Unparsable}, \* reconcile-timestamp annotation
                ats     : Ages \cup {None, Unparsable}, \* abort-timestamp (+ operation)
                lrt     : Ages \cup {None}, \* Status.LastReconcileTime
                timeout : ItemTimeouts]    \* Spec.Timeout

OlderBy1(a) == IF a \in {None, Unparsable} THEN a ELSE IF a < Cap THEN a + 1 ELSE Cap

\* The smaller of two optional requeue durations, as in Reconcile's
\* "if requeue == nil ... else if tmp != nil && *tmp < *requeue".
MinRequeue(a, b) == IF a = None THEN b ELSE IF b = None THEN a ELSE Min({a, b})

FailedWith(d, r) == d.phase = "Failed" /\ d.reason = r

StatusOf(d)      == <<d.phase, d.reason, d.lrt>>
AnnotationsOf(d) == <<d.rts, d.ats>>

-----------------------------------------------------------------------------
(* The three checks.  Each maps the DeployItem read at the start of the    *)
(* reconcile to the modified in-memory copy and an optional requeue, or to *)
(* the error of GetTimestampAnnotation.                                    *)

Result(d, r) == [d |-> d, requeue |-> r, err |-> FALSE]

ParseError(d) == [d |-> d, requeue |-> None, err |-> TRUE]

\* (A pickup requeue one second past the margin.)
PickupRequeueLate(age) == PickupTimeout - age + Margin + 1

PickupRequeue(age) == PickupTimeout - age + Margin

\* (An unparsable annotation taken as absent.)
detectPickupTimeoutsLenient(d) ==
    IF FailedWith(d, "PickupTimeout") \/ d.rts \in {None, Unparsable}
    THEN Result(d, None)
    ELSE IF d.rts >= PickupTimeout
         THEN Result([d EXCEPT !.phase = "Failed", !.reason = "PickupTimeout"], None)
         ELSE Result(d, PickupRequeue(d.rts))

detectPickupTimeouts(d) ==
    IF FailedWith(d, "PickupTimeout") \/ d.rts = None
    THEN Result(d, None)
    ELSE IF d.rts = Unparsable
    THEN ParseError(d)
    ELSE IF d.rts >= PickupTimeout
         THEN Result([d EXCEPT !.phase = "Failed", !.reason = "PickupTimeout"], None)
         ELSE Result(d, PickupRequeue(d.rts))

\* (Items in a final phase not skipped.)
detectAbortingTimeoutsAnyPhase(d) ==
    IF FailedWith(d, "AbortingTimeout")
    THEN Result([d EXCEPT !.ats = None], None)
    ELSE IF d.ats = None
         THEN Result(d, None)
    ELSE IF d.ats = Unparsable
         THEN ParseError(d)
         ELSE IF d.ats >= AbortingTimeout
              THEN Result([d EXCEPT !.ats = None, !.phase = "Failed",
                                    !.reason = "AbortingTimeout"], None)
              ELSE Result(d, AbortingTimeout - d.ats + Margin)

detectAbortingTimeouts(d) ==
    IF FailedWith(d, "AbortingTimeout")
    THEN Result([d EXCEPT !.ats = None], None)
    ELSE IF d.ats = None \/ d.phase \in Final
         THEN Result(d, None)
    ELSE IF d.ats = Unparsable
         THEN ParseError(d)
         ELSE IF d.ats >= AbortingTimeout
              THEN Result([d EXCEPT !.ats = None, !.phase = "Failed",
                                    !.reason = "AbortingTimeout"], None)
              ELSE Result(d, AbortingTimeout - d.ats + Margin)

EffectiveTimeout(d) == IF d.timeout = None THEN DefaultTimeout ELSE d.timeout

\* (A progressing check that forgets to requeue.)
ProgressingRequeueNever(d) == None

\* (Elapsed time added instead of subtracted.)
ProgressingRequeuePlusElapsed(d) == EffectiveTimeout(d) + d.lrt + Margin

ProgressingRequeue(d) == EffectiveTimeout(d) - d.lrt + Margin

\* SetAbortOperationAndTimestamp stamps the abort annotation with "now".
detectProgressingTimeouts(d) ==
    IF d.lrt = None \/ d.phase \in Final
    THEN Result(d, None)
    ELSE IF d.lrt >= EffectiveTimeout(d)
         THEN Result([d EXCEPT !.ats = 0], None)
         ELSE Result(d, ProgressingRequeue(d))

ProgressingCheckActive(d) ==
    ~ \/ d.timeout # None /\ d.timeout = 0
      \/ d.timeout = None /\ DefaultTimeout = 0

-----------------------------------------------------------------------------
(* Reconcile: one run of controller.Reconcile on the stored object.  The   *)
(* result says what is written and what is returned:                       *)
(*   write  "status"      : Status().Update, which persists status only;   *)
(*          "annotations" : Update of the object's metadata;               *)
(*          "none"                                                         *)
(*          "error"       : a check failed to parse an annotation; nothing *)
(*                          is written and the error is returned.          *)
(*   requeue: the RequeueAfter returned, or None for reconcile.Result{}.   *)
(* A write that fails (conflict with a concurrent writer, API error) makes *)
(* Reconcile return the error; see ReconcileFails.                         *)

Outcome(d, w, r) == [d |-> d, write |-> w, requeue |-> r]

AfterProgressing(old, d1, req) ==
    IF ProgressingCheckActive(d1)
    THEN LET p == detectProgressingTimeouts(d1)
         IN Outcome(p.d, IF AnnotationsOf(p.d) # AnnotationsOf(old)
                         THEN "annotations" ELSE "none",
                    MinRequeue(req, p.requeue))
    ELSE Outcome(d1, IF AnnotationsOf(d1) # AnnotationsOf(old)
                     THEN "annotations" ELSE "none", req)

AfterAborting(old, d0, req) ==
    IF AbortingTimeout # 0
    THEN LET a == detectAbortingTimeouts(d0)
         IN IF a.err THEN Outcome(old, "error", None)
            ELSE IF StatusOf(a.d) # StatusOf(old)
            THEN Outcome(a.d, "status", None)
            ELSE AfterProgressing(old, a.d, MinRequeue(req, a.requeue))
    ELSE AfterProgressing(old, d0, req)

ReconcileOutcome(old) ==
    IF PickupTimeout # 0
    THEN LET p == detectPickupTimeouts(old)
         IN IF p.err THEN Outcome(old, "error", None)
            ELSE IF StatusOf(p.d) # StatusOf(old)
            THEN Outcome(p.d, "status", None)
            ELSE AfterAborting(old, p.d, p.requeue)
    ELSE AfterAborting(old, old, None)

\* What the API server keeps of a write.
Persist(old, o) ==
    CASE o.write = "status"      -> [old EXCEPT !.phase = o.d.phase,
                                                !.reason = o.d.reason]
      [] o.write = "annotations" -> [old EXCEPT !.rts = o.d.rts, !.ats = o.d.ats]
      [] o.write \in {"none", "error"} -> old

\* A reconcile whose writes succeed: a write raises a watch event that
\* queues the item again, a returned RequeueAfter arms the delaying queue,
\* and a returned parse error requeues the item with rate limiting.
Reconcile ==
    /\ queued
    /\ LET o == ReconcileOutcome(di)
       IN /\ di' = Persist(di, o)
          /\ queued' = (o.write # "none")
          /\ requeueIn' = MinRequeue(requeueIn, o.requeue)
    /\ UNCHANGED envSteps

\* The reconcile's write fails: nothing is persisted, the error requeues
\* the item with rate limiting.
ReconcileFails ==
    /\ queued
    /\ ReconcileOutcome(di).write \in {"status", "annotations"}
    /\ UNCHANGED vars

\* The delaying queue hands the item to the work queue.
TimerFires ==
    /\ requeueIn = 0
    /\ queued' = TRUE
    /\ requeueIn' = None
    /\ UNCHANGED <<di, envSteps>>

\* The informer's periodic resync queues every object.
Resync ==
    /\ ~queued
    /\ queued' = TRUE
    /\ UNCHANGED <<di, requeueIn, envSteps>>

\* One second passes.  A timer that is due fires within its second.
Tick ==
    /\ requeueIn # 0
    /\ di' = [di EXCEPT !.rts = OlderBy1(@), !.ats = OlderBy1(@),
                        !.lrt = OlderBy1(@)]
    /\ requeueIn' = IF requeueIn = None THEN None ELSE requeueIn - 1
    /\ UNCHANGED <<queued, envSteps>>

-----------------------------------------------------------------------------
(* The landscaper and the deployer (outside this repository's sources;     *)
(* modelled from the annotation contract of the spec).  Every step is an   *)
(* update of the object, so it queues the item.                            *)

EnvStep(d) ==
    /\ envSteps < MaxEnvSteps
    /\ envSteps' = envSteps + 1
    /\ di' = d
    /\ queued' = TRUE
    /\ UNCHANGED requeueIn

\* The landscaper asks for a reconcile: reconcile-timestamp annotation = now.
LandscaperRequestReconcile == EnvStep([di EXCEPT !.rts = 0])

\* A deployer picks the item up: it removes the reconcile annotation, sets
\* Status.LastReconcileTime and the Progressing phase.
DeployerPickup ==
    /\ di.rts # None
    /\ EnvStep([di EXCEPT !.rts = None, !.lrt = 0, !.phase = "Progressing"])

\* A deployer finishes its reconcile, successfully or with an error.
DeployerFinish ==
    /\ di.phase = "Progressing"
    /\ \/ EnvStep([di EXCEPT !.phase = "Succeeded", !.reason = None])
       \/ EnvStep([di EXCEPT !.phase = "Failed", !.reason = "Other"])

\* A deployer honours an abort request: it removes the abort annotations and
\* fails the item.
DeployerAbort ==
    /\ di.ats # None
    /\ EnvStep([di EXCEPT !.ats = None, !.phase = "Failed", !.reason = "Other"])

\* Someone edits a timestamp annotation by hand into a value that does not
\* parse as a timestamp.
EditAnnotation ==
    \E a \in Edits : EnvStep([di EXCEPT ![a] = Unparsable])

-----------------------------------------------------------------------------
\* A DeployItem is created with the reconcile annotation set.
Init ==
    /\ di \in {[phase |-> "Init", reason |-> None, rts |-> 0, ats |-> None,
                lrt |-> None, timeout |-> t] : t \in ItemTimeouts}
    /\ queued = TRUE
    /\ requeueIn = None
    /\ envSteps = 0

Controller  == Reconcile \/ ReconcileFails \/ TimerFires \/ Resync
Environment == LandscaperRequestReconcile \/ DeployerPickup \/ DeployerFinish
                 \/ DeployerAbort \/ EditAnnotation

Next == Controller \/ Environment \/ Tick

\* The controller's workers, the delaying queue and the clock make
\* progress; failures, resyncs and the other actors need not.
Fairness == WF_vars(Reconcile) /\ WF_vars(TimerFires) /\ WF_vars(Tick)

Spec == Init /\ [][Next]_vars /\ Fairness

-----------------------------------------------------------------------------
TypeOK ==
    /\ di \in DeployItems
    /\ queued \in BOOLEAN
    /\ requeueIn \in (0..MaxTimeout + Margin) \cup {None}
    /\ envSteps \in 0..MaxEnvSteps

\* A reconcile request no deployer has picked up and the controller has not
\* yet failed.
PickupPending ==
    /\ PickupTimeout # 0
    /\ di.rts \notin {None, Unparsable}
    /\ ~FailedWith(di, "PickupTimeout")

\* Requeue arithmetic of detectPickupTimeouts together with the queue
\* handling of Reconcile: while a pickup is pending, the controller will
\* look at the item again no later than Margin seconds after the pickup
\* deadline: it is queued, or a timer is armed that fires by then.
PickupCheckScheduled ==
    PickupPending =>
        \/ queued
        \/ requeueIn # None /\ di.rts + requeueIn <= PickupTimeout + Margin

\* A reconcile request that is never picked up ends, through the requeue
\* chain of Reconcile, in the PickupTimeout failure.
PickupTimeoutDetected == PickupPending ~> ~PickupPending

\* The item is being processed, has no abort request and progressing
\* detection is active for it.
ProgressingUnaborted ==
    /\ di.phase \notin Final
    /\ di.lrt # None
    /\ di.ats = None
    /\ ProgressingCheckActive(di)

\* detectProgressingTimeouts: an item that is still being processed is
\* eventually asked to abort, unless it reaches a final phase first or an
\* unparsable reconcile annotation stops every reconcile before the check.
ProgressingTimeoutRequestsAbort ==
    ProgressingUnaborted ~>
        (di.ats # None \/ di.phase \in Final \/ di.rts = Unparsable)

\* Every timeout the controller watches is eventually acted on: an
\* unpicked reconcile request is failed with PickupTimeout, and an item
\* progressing past its timeout is asked to abort (unless it ends first).
TimeoutsActedOn == PickupTimeoutDetected /\ ProgressingTimeoutRequestsAbort

\* GetTimestampAnnotation's error in detectPickupTimeouts: an unparsable
\* reconcile annotation on an item the controller has not failed by the
\* pickup timeout is a hard error Reconcile returns, never read as "no
\* request", so the item stays in the work queue and is retried until
\* someone repairs the annotation.
UnparsableAnnotationRetried ==
    /\ PickupTimeout # 0
    /\ di.rts = Unparsable
    /\ ~FailedWith(di, "PickupTimeout")
    => queued

\* The abstract specification, the DeployItem seen without the controller's
\* work queue and timers.
Abstract == INSTANCE DeployItemTimeoutSpec WITH item <- di

\* Reconcile, with the requeue chain that schedules it, implements what the
\* controller promises: each of its writes is one timeout decision allowed
\* by the elapsed ages (or changes nothing the spec sees), and every due
\* pickup failure, aborting failure and abort request is eventually made.
TimeoutSpecRefined == Abstract!Spec

\* detectAbortingTimeouts' cleanup branch: after the controller failed the
\* item with the aborting timeout, a later reconcile removes the residual
\* abort annotation.
AbortAnnotationCleared ==
    (FailedWith(di, "AbortingTimeout") /\ di.ats # None) ~> (di.ats = None)

=============================================================================
