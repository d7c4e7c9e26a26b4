-------------------------- MODULE MCTaskRunObjects --------------------------
(***************************************************************************)
(* Small instances of TaskRunObjects: the specs a user applies.            *)
(***************************************************************************)
EXTENDS TaskRunObjects

OneShot == [schedule |-> FALSE, policy |-> "Forbid"]
Nightly(policy) == [schedule |-> TRUE, policy |-> policy]

\* A one-shot TaskRun, and a schedule with each policy.
\* The runs about lives leave out Allow, under which Jobs may overlap.
MCSpecs  == {OneShot, Nightly("Forbid"), Nightly("Replace")}
AllSpecs == {OneShot, Nightly("Allow"), Nightly("Forbid"), Nightly("Replace")}
=============================================================================
