------------------------ MODULE MCTaskRunController ------------------------
(***************************************************************************)
(* Small instances of TaskRunController: the pipelines and the definitions *)
(* the runs start from.                                                    *)
(***************************************************************************)
EXTENDS TaskRunClaims

Step4(n, a, p, refs) == [name |-> n, action |-> a, params |-> p, refs |-> refs]
OneShot(steps)   == [steps |-> steps, schedule |-> FALSE, admissible |-> TRUE]
Scheduled(steps) == [steps |-> steps, schedule |-> TRUE, admissible |-> TRUE]
Refused(s)       == [s EXCEPT !.admissible = FALSE]

MCNames     == {"a", "b", "c"}
MCActions   == {"fetch", "store", "ghost"}
MCParams    == {"good", "plain", "bad"}
MCProducing == {"fetch"}

Absent == [kind |-> "absent", accepts |-> {}]
Runner == [kind |-> "runner", accepts |-> {"good", "plain"}]
Native == [kind |-> "native", accepts |-> {"good", "plain"}]

\* fetch has a runner image, store has none, ghost is not defined; a namespace
\* may override fetch with an API-native definition.
ClusterOnly ==
    [s \in Scopes |-> [a \in MCActions |->
        IF s = "namespace" \/ a = "ghost" THEN Absent
        ELSE IF a = "fetch" THEN Runner ELSE Native]]
Overridden == [ClusterOnly EXCEPT !["namespace"]["fetch"] = Native]

MCInitialDefinitions == {ClusterOnly}
MCOverridden         == {ClusterOnly, Overridden}
MCDefinitions        == {Absent, Runner, Native}

Mixed    == OneShot(<<Step4("a", "fetch", "good", {}), Step4("b", "fetch", "plain", {}),
                      Step4("c", "store", "good", {"a"})>>)
Chained  == OneShot(<<Step4("a", "fetch", "good", {}), Step4("b", "store", "good", {"a"}),
                      Step4("c", "store", "good", {})>>)
Natives  == OneShot(<<Step4("a", "store", "good", {}), Step4("b", "store", "good", {})>>)
Forward  == OneShot(<<Step4("a", "store", "good", {"b"}), Step4("b", "store", "good", {})>>)
Reversed == OneShot(<<Step4("a", "store", "good", {}), Step4("b", "fetch", "good", {})>>)
BadParam == OneShot(<<Step4("a", "store", "bad", {})>>)
Unknown  == OneShot(<<Step4("a", "ghost", "good", {})>>)
SameName == OneShot(<<Step4("a", "fetch", "good", {}), Step4("a", "store", "good", {})>>)
Nightly  == Scheduled(<<Step4("a", "fetch", "good", {}), Step4("b", "store", "good", {"a"})>>)
Chore    == Scheduled(<<Step4("a", "store", "good", {})>>)

\* A container name that is too long, a cron expression that does not parse.
LongName == Refused(OneShot(<<Step4("a", "fetch", "good", {}),
                              Step4("b", "store", "good", {"a"})>>))
BadCron  == Refused(Scheduled(<<Step4("a", "fetch", "good", {})>>))

AllPipelines == {Mixed, Chained, Natives, Forward, Reversed, BadParam, Unknown,
                 SameName, Nightly, Chore, LongName, BadCron}

\* For edits of the definitions: short pipelines, and only actions they use.
Pair       == OneShot(<<Step4("a", "fetch", "good", {}), Step4("b", "store", "good", {"a"})>>)
DriftPipelines   == {Pair, SameName, Nightly}
DriftActions     == {"fetch", "store"}
DriftDefinitions == {[s \in Scopes |-> [a \in DriftActions |-> ClusterOnly[s][a]]]}

\* The pipelines of the runs with a single question.
OnlyMixed   == {Mixed}
OnlyChained == {Chained}
OnlyNatives == {Natives}
OnlyNightly == {Nightly}
=============================================================================
