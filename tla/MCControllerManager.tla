------------------------ MODULE MCControllerManager ------------------------
(***************************************************************************)
(* Two TaskRuns, one with a Job and one that waits, and two processes.     *)
(***************************************************************************)
EXTENDS ControllerManager

CONSTANTS build, pause

MCTaskRuns == {build, pause}
MCPipeline == [t \in MCTaskRuns |-> IF t = build THEN <<"runner", "native">>
                                    ELSE <<"wait">>]

\* With leader election a process may be replaced by one whose caches lag; without
\* it both processes work at the same time.
MCTroubles == [e \in BOOLEAN |-> IF e THEN 2 ELSE 1]
=============================================================================
