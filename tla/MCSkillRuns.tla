----------------------------- MODULE MCSkillRuns -----------------------------
(***************************************************************************)
(* All the skills the program comes with, and one of an operator's own     *)
(* that calls others, one that is not there, and itself: nothing forbids it.*)
(***************************************************************************)
EXTENDS SkillRuns

CONSTANTS c1, c2

Nightly == Skill(FALSE, FALSE, FALSE, Unconditional, <<
  Call("cleanup", Try("tidy")),
  Call("removed", Try("old")),
  If(<<".dry_run">>, Call("nightly", Must("again")))>>)

Files ==
  "restart_service" :> RestartServiceFile @@ "backup_postgres" :> BackupPostgresFile
    @@ "nightly" :> Nightly

AllSkills == Files @@ [k \in BuiltinNames |-> Builtin(k)]
FileNames == DOMAIN Files

(* While the scheduler runs a backup again and again, a user asks for one  *)
(* of the skills below: each kind of condition, parameter and step is      *)
(* among them.                                                             *)
Asked == {"backup", "backup:postgres", "healthcheck", "cleanup", "docker_stats", "port_check",
          "nginx_logs", "ssl_renew", "system_info", "service_restart", "restart_service",
          "nightly"}

UserAndCron == [c \in Runs |-> IF c = c1 THEN Asked ELSE {"backup:mysql"}]

(* Every skill on its own.                                                 *)
EachSkill == [c \in Runs |-> DOMAIN AllSkills]
=============================================================================
