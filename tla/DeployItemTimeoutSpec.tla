------------------------ MODULE DeployItemTimeoutSpec ------------------------
(***************************************************************************)
(* What the DeployItem timeout controller promises (spec 4.6), without     *)
(* the work queue, timers, conflicting writes and requeue arithmetic by    *)
(* which pkg/landscaper/controllers/deployitem/controller.go achieves it.  *)
(*                                                                         *)
(* The DeployItem is the only state.  The controller makes four decisions  *)
(* on it, each allowed only once the relevant timeout has elapsed:         *)
(*   - fail an item whose reconcile request nobody picked up in time;      *)
(*   - fail an item whose abort request nobody honoured in time (the abort *)
(*     annotation removed with it or by a later cleanup);                  *)
(*   - ask a deployer to abort an item progressing longer than its         *)
(*     timeout (and, as spec 4.6 step 3 says, stamp the request again on   *)
(*     a later check while the item is still progressing);                 *)
(*   - remove the abort annotation of an item it failed by the aborting    *)
(*     timeout.                                                            *)
(* The first three happen eventually once due.  The landscaper, the        *)
(* deployer, a user editing annotations and the clock act as in            *)
(* DeployItemTimeout.                                                      *)
(*                                                                         *)
(* A timestamp annotation that does not parse is a hard error (spec 4.6):  *)
(* no decision is made that needs a check reading it, and none repairs it. *)
(* The pickup check runs first and reads the reconcile annotation of every *)
(* item it has not failed; the aborting check reads the abort annotation   *)
(* of an item not in a final phase.                                        *)
(*                                                                         *)
(* Ages are those of DeployItemTimeout: seconds since a stamp, saturating  *)
(* at Cap.                                                                 *)
(***************************************************************************)
EXTENDS Naturals

CONSTANTS PickupTimeout, AbortingTimeout, DefaultTimeout, ItemTimeouts,
          Cap, None, Unparsable

Final == {"Succeeded", "Failed"}

VARIABLE item

Older(a) == IF a \in {None, Unparsable} THEN a ELSE IF a < Cap THEN a + 1 ELSE Cap

FailedBy(r) == item.phase = "Failed" /\ item.reason = r

Timeout == IF item.timeout = None THEN DefaultTimeout ELSE item.timeout

\* Progressing detection is switched on for the item.
Watched == IF item.timeout = None THEN DefaultTimeout # 0 ELSE item.timeout # 0

\* The annotation holds a parsed timestamp.
Stamped(a) == a \notin {None, Unparsable}

\* The pickup check gets past the reconcile annotation.
PickupReadable == PickupTimeout = 0 \/ item.rts # Unparsable

-----------------------------------------------------------------------------
(* The controller's decisions.                                             *)

FailPickup ==
    /\ PickupTimeout # 0 /\ Stamped(item.rts) /\ item.rts >= PickupTimeout
    /\ ~FailedBy("PickupTimeout")
    /\ item' = [item EXCEPT !.phase = "Failed", !.reason = "PickupTimeout"]

FailAborting ==
    /\ AbortingTimeout # 0 /\ Stamped(item.ats) /\ item.ats >= AbortingTimeout
    /\ item.phase \notin Final /\ PickupReadable
    /\ \E ats \in {item.ats, None} :
         item' = [item EXCEPT !.phase = "Failed", !.reason = "AbortingTimeout",
                              !.ats = ats]

ClearAbort ==
    /\ FailedBy("AbortingTimeout") /\ item.ats # None /\ PickupReadable
    /\ item' = [item EXCEPT !.ats = None]

\* The progressing timeout elapsed on an item still being processed.
Overdue ==
    /\ Watched /\ item.phase \notin Final
    /\ item.lrt # None /\ item.lrt >= Timeout

RequestAbort ==
    /\ Overdue /\ item.ats = None /\ PickupReadable
    /\ item' = [item EXCEPT !.ats = 0]

RestampAbort ==
    /\ Overdue /\ item.ats # None /\ PickupReadable
    /\ AbortingTimeout = 0 \/ item.ats # Unparsable
    /\ item' = [item EXCEPT !.ats = 0]

-----------------------------------------------------------------------------
(* The landscaper, the deployer, a user and the clock.                     *)

World ==
    \/ item' = [item EXCEPT !.rts = 0]
    \/ item.rts # None /\ item' = [item EXCEPT !.rts = None, !.lrt = 0,
                                               !.phase = "Progressing"]
    \/ item.phase = "Progressing" /\
         \/ item' = [item EXCEPT !.phase = "Succeeded", !.reason = None]
         \/ item' = [item EXCEPT !.phase = "Failed", !.reason = "Other"]
    \/ item.ats # None /\ item' = [item EXCEPT !.ats = None, !.phase = "Failed",
                                               !.reason = "Other"]
    \/ \E a \in {"rts", "ats"} : item' = [item EXCEPT ![a] = Unparsable]
    \/ item' = [item EXCEPT !.rts = Older(@), !.ats = Older(@), !.lrt = Older(@)]

Init ==
    item \in {[phase |-> "Init", reason |-> None, rts |-> 0, ats |-> None,
               lrt |-> None, timeout |-> t] : t \in ItemTimeouts}

Next ==
    \/ FailPickup \/ FailAborting \/ ClearAbort \/ RequestAbort \/ RestampAbort
    \/ World

Spec == Init /\ [][Next]_item
            /\ WF_item(FailPickup) /\ WF_item(FailAborting) /\ WF_item(RequestAbort)

=============================================================================
