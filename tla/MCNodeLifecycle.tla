-------------------------- MODULE MCNodeLifecycle --------------------------
(* One node of any class, with two failures that differ. *)
EXTENDS NodeLifecycle

CONSTANTS f1, f2, None

MCFailures == {f1, f2}
MCPlain == {"non-ui"}
MCClasses == {"non-ui", "ui", "unclassified"}
=============================================================================
