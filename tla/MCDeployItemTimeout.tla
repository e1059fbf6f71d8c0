------------------------- MODULE MCDeployItemTimeout -------------------------
(***************************************************************************)
(* Model-checking instance of DeployItemTimeout.  Timeouts of two and      *)
(* three seconds with a one-second margin keep the saturated ages small    *)
(* while leaving room for a request to be seen before, at and after its    *)
(* deadline.  The item's own timeout is absent (use the default), zero     *)
(* (detection switched off) or shorter than the default.                   *)
(***************************************************************************)
EXTENDS DeployItemTimeout

MCItemTimeouts == {None, 0, 2}

\* Either timestamp annotation may be corrupted by hand; the abort-cleanup
\* run leaves them alone so its trace shows the cleanup alone.
MCEdits == {"rts", "ats"}

NoEdits == {}

=============================================================================
