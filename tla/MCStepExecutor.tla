--------------------------- MODULE MCStepExecutor ---------------------------
(***************************************************************************)
(* Small instances of StepExecutor: a Secret and a Deployment that exist,  *)
(* a ConfigMap that does not.                                              *)
(***************************************************************************)
EXTENDS StepExecutor

CONSTANTS fresh, stale, blank   \* values, blank the empty one

MCObjects  == {"secret", "config", "workload"}
MCExisting == {"secret", "workload"}
MCKeys     == {"k1", "k2"}
MCValues   == {fresh, stale, blank} \union 0..MaxClock

OpOf(a, o, k, v, f) ==
    [action |-> a, object |-> o, key |-> k, value |-> v, valueFrom |-> f, valid |-> TRUE]
Set(a, o, k, v)  == OpOf(a, o, k, v, 0)
CopyTo(a, o, k, f) == OpOf(a, o, k, stale, f)
Read(o, k)       == OpOf("secret-read", o, k, blank, 0)
Restart          == OpOf("rollout-restart", "workload", "k1", blank, 0)
Other(a)         == OpOf(a, "secret", "k1", blank, 0)
Invalid(op)      == [op EXCEPT !.valid = FALSE]

Rotate   == <<Set("secret-update", "secret", "k1", fresh),
              Set("secret-update", "secret", "k2", fresh), Restart>>
Publish  == <<Other("wait"), Read("secret", "k1"),
              CopyTo("configmap-update", "config", "k2", 2)>>
Missing  == <<Read("config", "k1")>>
NoTarget == <<[Restart EXCEPT !.object = "config"]>>
Broken   == {<<Other("assert")>>, <<Other("typo")>>, <<Invalid(Other("wait"))>>,
             <<Invalid(Restart)>>}
AllPlans == {Rotate, Publish, Missing, NoTarget} \union Broken
=============================================================================
