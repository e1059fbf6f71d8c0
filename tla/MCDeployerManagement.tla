------------------------ MODULE MCDeployerManagement ------------------------
(* DeployerManagement for TLC: one Environment and two registrations, one  *)
(* of which exists from the start; the objects are model values set in the *)
(* configurations.                                                         *)
EXTENDS DeployerManagement

=============================================================================
