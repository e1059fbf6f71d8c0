------------------------- MODULE MCManifestDeployer -------------------------
(* ManifestDeployer for TLC: two managed objects, one kept and one ignored. *)
EXTENDS ManifestDeployer, TLC

CONSTANTS o1, o2, o3, o4

MCObjs == {o1, o2, o3, o4}

MCPolicy == (o1 :> "manage") @@ (o2 :> "manage") @@ (o3 :> "keep") @@ (o4 :> "ignore")

=============================================================================
