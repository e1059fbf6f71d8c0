-------------------------- MODULE ManifestDeployer --------------------------
(***************************************************************************)
(* The manifest deployer's Reconcile and Delete (pkg/deployer/manifest/    *)
(* ensure.go) for one DeployItem and the objects of its manifests in the   *)
(* target cluster.                                                         *)
(*                                                                         *)
(* Reconcile applies the manifests and records the applied objects as the  *)
(* provider status's ManagedResources; Delete deletes the recorded objects *)
(* and removes the DeployItem's finalizer once the cluster reports them    *)
(* all NotFound.  The deployer library (outside src/) reads the DeployItem,*)
(* calls Reconcile or Delete on its deletion timestamp, and writes the     *)
(* status back; a status write conflicts when the DeployItem changed since *)
(* it was read.  The deployer process may crash between two API calls.     *)
(***************************************************************************)
EXTENDS Naturals, FiniteSets

CONSTANTS
    Objs,        \* the objects of the DeployItem's manifests
    Policy,      \* each object's managed-resource policy
    MaxCrashes   \* bound on deployer crashes

Policies == {"manage", "keep", "ignore"}

ASSUME Policy \in [Objs -> Policies]

Phases == {"Init", "Progressing", "Succeeded", "Deleting"}

VARIABLES
    di,       \* the stored DeployItem: lifecycle, phase, recorded ManagedResources
    cluster,  \* each object in the target cluster: absent, present, terminating
    mem,      \* the running Reconcile: the DeployItem it read, what Apply did
    crashes

vars == <<di, cluster, mem, crashes>>

-----------------------------------------------------------------------------
(* Helpers.                                                                *)

\* (Ignored manifests applied as well.)
ApplicableAll == Objs

\* The objects the applier creates or updates: IgnorePolicy ones are left out.
Applicable == {o \in Objs : Policy[o] # "ignore"}

\* The recorded objects Delete deletes: IgnorePolicy and KeepPolicy are skipped.
Deletable(managed) == {o \in managed : Policy[o] \notin {"ignore", "keep"}}

\* (NotFound never recognised.)
DeleteResultNeverNotFound(o) == "Deleted"

\* (An object already being deleted taken as gone.)
DeleteResultTerminatingGone(o) ==
    IF cluster[o] \in {"absent", "terminating"} THEN "NotFound" ELSE "Deleted"

\* kubeClient.Delete of an object: NotFound once it is gone; it succeeds on
\* an existing object, also on one already terminating.
DeleteResult(o) == IF cluster[o] = "absent" THEN "NotFound" ELSE "Deleted"

\* A status write by the reconcile that read snap: it lands unless the
\* DeployItem changed since (resourceVersion conflict).
WriteStatus(snap, managed, phase) ==
    IF di = snap THEN [di EXCEPT !.managed = managed, !.phase = phase] ELSE di

-----------------------------------------------------------------------------
(* Manifest.Reconcile.                                                     *)

\* Read the DeployItem, set Progressing, build the applier from the recorded
\* ManagedResources and Apply; Apply may stop after part of the objects.
Apply ==
    /\ mem.pc = "idle" /\ di.st = "live"
    /\ \E applied \in SUBSET Applicable :
         /\ cluster' = [o \in Objs |-> IF o \in applied THEN "present" ELSE cluster[o]]
         /\ mem' = [pc |-> "applied", snap |-> di,
                    managed |-> di.managed \cup applied,
                    err |-> applied # Applicable]
    /\ UNCHANGED <<di, crashes>>

\* The rest of Reconcile and the library's status write.  After an Apply
\* error the status, with GetManagedResourcesStatus(), is written by the
\* library; otherwise Status().Update records it, and CheckResourcesReady
\* sets Succeeded, or fails and leaves Progressing.  A conflicting
\* Status().Update fails Reconcile, and the library's write of the same
\* stale object conflicts as well.
Finish ==
    /\ mem.pc = "applied"
    /\ \/ /\ mem.err
          /\ di' = WriteStatus(mem.snap, mem.managed, "Progressing")
       \/ /\ ~mem.err
          /\ \E ready \in BOOLEAN :
               di' = WriteStatus(mem.snap, mem.managed,
                                 IF ready THEN "Succeeded" ELSE "Progressing")
    /\ mem' = [mem EXCEPT !.pc = "idle"]
    /\ UNCHANGED <<cluster, crashes>>

\* The deployer process dies between Apply and the status write; what it
\* held in memory is lost.
Crash ==
    /\ mem.pc = "applied" /\ crashes < MaxCrashes
    /\ mem' = [mem EXCEPT !.pc = "idle"]
    /\ crashes' = crashes + 1
    /\ UNCHANGED <<di, cluster>>

-----------------------------------------------------------------------------
(* Manifest.Delete, with the library's status write.                       *)

\* Without recorded ManagedResources the finalizer is removed at once.
\* Otherwise the recorded objects are deleted, IgnorePolicy and KeepPolicy
\* skipped; any object that still existed keeps the finalizer ("not all
\* items are deleted") and the phase Deleting is written back.
Delete ==
    /\ mem.pc = "idle" /\ di.st = "deleting"
    /\ LET del       == Deletable(di.managed)
           completed == \A o \in del : DeleteResult(o) = "NotFound"
       IN IF di.managed = {} \/ completed
          THEN /\ di' = [di EXCEPT !.st = "gone"]
               /\ UNCHANGED cluster
          ELSE /\ cluster' = [o \in Objs |->
                               IF o \in del /\ cluster[o] = "present"
                               THEN "terminating" ELSE cluster[o]]
               /\ di' = [di EXCEPT !.phase = "Deleting"]
    /\ UNCHANGED <<mem, crashes>>

-----------------------------------------------------------------------------
(* The environment.                                                        *)

\* The deletion of the DeployItem is requested.
RequestDeletion ==
    /\ di.st = "live"
    /\ di' = [di EXCEPT !.st = "deleting"]
    /\ UNCHANGED <<cluster, mem, crashes>>

\* The target cluster finishes deleting an object.
Vanish(o) ==
    /\ cluster[o] = "terminating"
    /\ cluster' = [cluster EXCEPT ![o] = "absent"]
    /\ UNCHANGED <<di, mem, crashes>>

\* A new DeployItem, carrying the finalizer, with none of its objects yet.
Init ==
    /\ di = [st |-> "live", phase |-> "Init", managed |-> {}]
    /\ cluster = [o \in Objs |-> "absent"]
    /\ mem = [pc |-> "idle", snap |-> di, managed |-> {}, err |-> FALSE]
    /\ crashes = 0

Next ==
    \/ Apply \/ Finish \/ Crash \/ Delete \/ RequestDeletion
    \/ \E o \in Objs : Vanish(o)

\* The deployer keeps reconciling and the cluster finishes deletions.
Fairness ==
    /\ WF_vars(Finish) /\ WF_vars(Delete)
    /\ \A o \in Objs : WF_vars(Vanish(o))

Spec == Init /\ [][Next]_vars /\ Fairness

-----------------------------------------------------------------------------
(* Properties.                                                             *)

\* Objects under ManagePolicy or KeepPolicy.
Recordable == {o \in Objs : Policy[o] \in {"manage", "keep"}}

DeployItems == [st : {"live", "deleting", "gone"}, phase : Phases,
                managed : SUBSET Recordable]

\* Only objects the applier applied are ever recorded as ManagedResources.
TypeOK ==
    /\ di \in DeployItems
    /\ cluster \in [Objs -> {"absent", "present", "terminating"}]
    /\ mem \in [pc : {"idle", "applied"}, snap : DeployItems,
                managed : SUBSET Recordable, err : BOOLEAN]
    /\ crashes \in 0..MaxCrashes

\* Delete removes the finalizer only when every recorded object it must
\* delete is gone from the cluster, not merely being deleted.
FinalizerRemovedAfterObjectsGone ==
    [][di.st # "gone" /\ di'.st = "gone" =>
         \A o \in Deletable(di.managed) : cluster'[o] = "absent"]_vars

\* A requested deletion completes: the deletes are retried until the
\* cluster reports every recorded object NotFound.
DeletionCompletes == di.st = "deleting" ~> di.st = "gone"

\* The finalizer protects the target cluster: once the DeployItem is gone,
\* none of its ManagePolicy objects is left behind in the cluster.
NoLeakedObjects ==
    di.st = "gone" => \A o \in Objs : Policy[o] = "manage" => cluster[o] # "present"

=============================================================================
