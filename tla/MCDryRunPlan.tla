---------------------------- MODULE MCDryRunPlan ----------------------------
(***************************************************************************)
(* Small instances of DryRunPlan: the Clusters of one mesh, whose          *)
(* reconciles create or change the same object, and SecurityGroups, whose  *)
(* reconciles change a launch template.                                    *)
(***************************************************************************)
EXTENDS DryRunPlan

MCWritesTo == [s \in Source |-> IF s \in {"c1", "c2"} THEN {"mesh"} ELSE {}]

=============================================================================
