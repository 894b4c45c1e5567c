----------------------------- MODULE MCPipeline -----------------------------
(***************************************************************************)
(* An instance of Pipeline: the skill expert has a command on the host and  *)
(* one in a container, the skill logs has no discovery.                    *)
(***************************************************************************)
EXTENDS Pipeline

CONSTANTS expert, logs, db, host

SkillCommands ==
  [s \in Skills |-> CASE s = expert -> <<host, db>>
                      [] s = logs -> <<>>]
=============================================================================
