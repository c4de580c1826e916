---------------------------- MODULE BuiltinSkills ----------------------------
(***************************************************************************)
(* The skills that come with the program (internal/skills/builtin and the  *)
(* YAML files in skills/): what internal/skills/executor.go looks at.      *)
(*                                                                         *)
(* A step runs a command: a local or remote shell, or docker, the executor *)
(* treats them alike; or another skill (calls).  The commands themselves   *)
(* are data, as are the parameters no condition mentions.  A condition is  *)
(* the sequence of its words, ".x" standing for {{.x}}; with[".x"] has the *)
(* values of x that conditions tell apart.  "must" is whether a parameter  *)
(* is required and has no default, "typed" whether one is an int or bool.  *)
(***************************************************************************)
EXTENDS Naturals, Sequences

NoSkill == "no skill"
NoStep == "no step"
Nothing == ""   \* a parameter's empty string

(* A step that is passed over when it fails (on_error: continue), one that *)
(* ends the run (stop: also where Retries is set, which only "retry" looks *)
(* at), one that is tried again; one with a condition; one whose arguments *)
(* have the output of an earlier step.                                     *)
Try(name) ==
  [name |-> name, cond |-> <<>>, onError |-> "continue", retries |-> 0,
   uses |-> NoStep, calls |-> NoSkill]
Must(name) == [Try(name) EXCEPT !.onError = "stop"]
Retry(name, n) == [Try(name) EXCEPT !.onError = "retry", !.retries = n]
If(cond, step) == [step EXCEPT !.cond = cond]
From(used, step) == [step EXCEPT !.uses = used]
Call(skill, step) == [step EXCEPT !.calls = skill]

Bool == {"true", "false"}
Unconditional == [x \in {} |-> {}]
Only(x, values) == [y \in {x} |-> values]

Skill(confirm, must, typed, with, steps) ==
  [confirm |-> confirm, must |-> must, typed |-> typed, with |-> with, steps |-> steps]

-----------------------------------------------------------------------------
(* backup.go                                                               *)
Backup == Skill(TRUE, TRUE, TRUE, Only(".type", {"postgres", "mysql", "files"}), <<
  Must("prepare_destination"),
  If(<<".type", "==", "postgres">>, Must("backup_postgres")),
  If(<<".type", "==", "mysql">>, Must("backup_mysql")),
  If(<<".type", "==", "files">>, Must("backup_files")),
  Try("cleanup_old")>>)

BackupPostgres == Skill(TRUE, TRUE, TRUE, Unconditional, <<
  Must("create_output_dir"), Must("verify_container"), Must("run_backup"),
  From("run_backup", Must("save_backup")), Try("verify_backup")>>)

BackupMySQL == Skill(TRUE, TRUE, FALSE, Unconditional, <<
  Must("create_output_dir"), Must("run_backup"),
  From("run_backup", Must("save_and_compress"))>>)

(* caddy.go                                                                *)
CaddyReload == Skill(FALSE, FALSE, FALSE, Unconditional, <<
  Must("validate_config"), Must("reload"), Try("verify")>>)

CaddyStatus == Skill(FALSE, FALSE, TRUE, Only(".show_config", Bool), <<
  Try("service_status"), Try("version"),
  If(<<".show_config", "==", "true">>, Try("show_config")), Try("listening_ports")>>)

LogTypes == Only(".type", {"access", "error", "all"})
AccessLogs == If(<<".type", "==", "access", "||", ".type", "==", "all">>, Try("access_logs"))
ErrorLogs == If(<<".type", "==", "error", "||", ".type", "==", "all">>, Try("error_logs"))

CaddyLogs == Skill(FALSE, FALSE, TRUE, LogTypes, <<
  Try("journald_logs"), AccessLogs, ErrorLogs>>)

NginxStatus == Skill(FALSE, FALSE, TRUE, Only(".show_config", Bool), <<
  Try("service_status"), Try("version"), Try("test_config"),
  If(<<".show_config", "==", "true">>, Try("show_config")),
  Try("listening_ports"), Try("active_sites")>>)

NginxLogs == Skill(FALSE, FALSE, TRUE, LogTypes, <<AccessLogs, ErrorLogs>>)

(* cleanup.go                                                              *)
Cleanup == Skill(TRUE, TRUE, TRUE, Only(".dry_run", Bool), <<
  Must("check_directory"), Try("calculate_size_before"),
  If(<<".dry_run">>, Try("dry_run_list")),
  If(<<".dry_run", "!=", "true">>, Try("delete_files")),
  Try("calculate_size_after")>>)

CleanupDocker ==
  Skill(TRUE, FALSE, TRUE,
        [x \in {".prune_images", ".prune_containers", ".prune_volumes",
                ".prune_networks", ".prune_all"} |-> Bool], <<
    Try("disk_usage_before"),
    If(<<".prune_all">>, Try("prune_all")),
    If(<<".prune_containers">>, Try("prune_containers")),
    If(<<".prune_images">>, Try("prune_images")),
    If(<<".prune_volumes">>, Try("prune_volumes")),
    If(<<".prune_networks">>, Try("prune_networks")),
    Try("disk_usage_after")>>)

CleanupLogs ==
  Skill(TRUE, FALSE, TRUE,
        [x \in {".compress_older_than_days", ".max_size_mb"} |-> {"0", "7"}], <<
    Try("calculate_size_before"),
    If(<<".compress_older_than_days", "!=", "0">>, Try("compress_old_logs")),
    Try("delete_old_logs"),
    If(<<".max_size_mb", "!=", "0">>, Try("truncate_large_logs")),
    Try("calculate_size_after")>>)

(* docker_stats.go                                                         *)
DockerStats == Skill(FALSE, FALSE, FALSE, Only(".container", {Nothing, "c"}), <<
  If(<<".container", "==">>, Try("stats_all")),
  If(<<".container", "!=">>, Must("stats_single")),
  Try("container_top"), Try("disk_usage"), Try("running_count")>>)

DockerInspect == Skill(FALSE, TRUE, FALSE, Unconditional, <<
  Must("basic_info"), Try("network_info"), Try("port_mappings"),
  Try("volume_mounts"), Try("env_vars")>>)

DockerLogsAnalyze == Skill(FALSE, TRUE, FALSE, Unconditional, <<
  Try("error_count"), Try("warning_count"), Try("recent_errors"), Try("recent_warnings")>>)

(* firewall.go                                                             *)
FirewallStatus == Skill(FALSE, FALSE, TRUE, Only(".show_rules", Bool), <<
  Try("detect_firewall"), Try("ufw_status"), Try("firewalld_status"),
  If(<<".show_rules", "==", "true">>, Try("firewalld_rules")),
  If(<<".show_rules", "==", "true">>, Try("iptables_rules")), Try("open_ports")>>)

FirewallAllow == Skill(TRUE, TRUE, TRUE, Unconditional, <<
  Try("ufw_allow"), Try("firewalld_allow"), Try("verify")>>)

FirewallDeny == Skill(TRUE, TRUE, TRUE, Unconditional, <<
  Try("ufw_deny"), Try("firewalld_deny"), Try("verify")>>)

(* healthcheck.go                                                          *)
Healthcheck ==
  Skill(FALSE, TRUE, TRUE, Only(".check_type", {"container", "http", "tcp", "process"}), <<
    If(<<".check_type", "==", "container">>, Try("container_health")),
    If(<<".check_type", "==", "container">>, Must("container_running")),
    If(<<".check_type", "==", "http">>, Must("http_check")),
    If(<<".check_type", "==", "tcp">>, Must("tcp_check")),
    If(<<".check_type", "==", "process">>, Must("process_check"))>>)

SystemHealth == Skill(FALSE, FALSE, TRUE, Unconditional, <<
  Try("check_cpu"), Try("check_memory"), Try("check_disk"), Try("check_load"), Try("summary")>>)

DockerHealth == Skill(FALSE, FALSE, TRUE, Unconditional, <<
  Must("docker_info"), Try("list_containers"), Try("unhealthy_containers"),
  Try("exited_containers"), Try("disk_usage")>>)

ServiceHealth == Skill(FALSE, TRUE, TRUE, Only(".health_endpoint", {Nothing, "url"}), <<
  Must("container_status"), Try("container_health"),
  If(<<".health_endpoint", "!=">>, Try("endpoint_check")),
  Try("recent_logs"), Try("resource_usage")>>)

(* log_tail.go                                                             *)
LogTail ==
  Skill(FALSE, FALSE, TRUE,
        [x \in {".source", ".level"} |->
           IF x = ".source" THEN {"system", "service", "file", "docker"}
                            ELSE {Nothing, "error", "warn"}], <<
    If(<<".source", "==", "system">>, Try("system_log")),
    If(<<".source", "==", "service">>, Must("service_log")),
    If(<<".source", "==", "file">>, Must("file_log")),
    If(<<".source", "==", "docker">>, Must("docker_log")),
    If(<<".level", "==", "error">>, Try("filter_errors")),
    If(<<".level", "==", "warn">>, Try("filter_warnings"))>>)

LogSearch == Skill(FALSE, TRUE, TRUE, Unconditional, <<
  Try("search_journalctl"), Try("search_files")>>)

(* network_diag.go                                                         *)
NetworkDiag ==
  LET Check(kind, name) ==
        If(<<".check_type", "==", "all", "||", ".check_type", "==", kind>>, Try(name))
  IN Skill(FALSE, TRUE, TRUE, Only(".check_type", {"all", "ping", "dns", "traceroute", "port"}), <<
       Check("ping", "ping_test"), Check("dns", "dns_lookup"),
       Check("traceroute", "traceroute_test"), Check("port", "port_test"),
       If(<<".check_type", "==", "all">>, Try("curl_test"))>>)

PortCheck ==
  Skill(FALSE, FALSE, TRUE,
        [x \in {".port", ".show_all"} |-> IF x = ".port" THEN {"0", "80"} ELSE Bool], <<
    If(<<".port", ">", "0">>, Try("check_specific_port")),
    If(<<".show_all", "==", "true", "||", ".port", "==", "0">>, Try("list_all_ports")),
    Try("port_process")>>)

NetworkStats == Skill(FALSE, FALSE, FALSE, Unconditional, <<
  Try("connection_stats"), Try("interface_stats"), Try("top_connections")>>)

(* service.go                                                              *)
RestartContainer ==
  Skill(TRUE, TRUE, TRUE, [x \in {".verify_health", ".backup_logs"} |-> Bool], <<
    Must("check_exists"), If(<<".backup_logs">>, Try("backup_logs")),
    Must("restart"), Try("wait"),
    If(<<".verify_health">>, Must("verify_running")),
    If(<<".verify_health">>, Try("verify_health"))>>)

Scale == Skill(TRUE, TRUE, TRUE, Unconditional, <<
  Try("current_state"), Must("scale"), Try("verify")>>)

RollingRestart == Skill(TRUE, TRUE, TRUE, Unconditional, <<
  Must("get_containers"), Must("rolling_restart"), Try("final_status")>>)

(* service_restart.go                                                      *)
ServiceRestart == Skill(TRUE, TRUE, TRUE, Unconditional, <<
  Must("check_service_exists"), Try("pre_status"), Must("execute_action"),
  Try("wait_for_service"), Try("post_status"), Try("verify_running")>>)

NginxReload == Skill(TRUE, FALSE, FALSE, Unconditional, <<
  Must("test_config"), Must("reload_nginx"), Try("verify_status")>>)

(* ssl_renew.go                                                            *)
SSLCheck == Skill(FALSE, TRUE, TRUE, Unconditional, <<
  Try("check_expiry"), Try("check_issuer"), Try("check_subject"),
  Try("days_remaining"), Try("check_chain")>>)

SSLRenew ==
  Skill(TRUE, FALSE, TRUE,
        [x \in {".domain", ".dry_run", ".reload_nginx"} |->
           IF x = ".domain" THEN {Nothing, "example.org"} ELSE Bool], <<
    Must("check_certbot"), Try("list_certificates"),
    If(<<".dry_run", "==", "true">>, Try("renew_dry_run")),
    If(<<".dry_run", "==", "false", "&&", ".domain", "==">>, Must("renew_all")),
    If(<<".dry_run", "==", "false", "&&", ".domain", "!=">>, Must("renew_single")),
    If(<<".reload_nginx", "==", "true", "&&", ".dry_run", "==", "false">>, Try("reload_nginx")),
    Try("verify_renewal")>>)

(* system_info.go                                                          *)
SystemInfo == Skill(FALSE, FALSE, TRUE, Only(".detailed", Bool), <<
  Try("os_info"), Try("hostname_info"), Try("cpu_info"), Try("memory_info"),
  Try("disk_info"), Try("network_info"),
  If(<<".detailed", "==", "true">>, Try("detailed_processes")),
  If(<<".detailed", "==", "true">>, Try("detailed_connections"))>>)

-----------------------------------------------------------------------------
(* skills/restart_service.yaml and skills/backup_postgres.yaml; the third  *)
(* file has the steps of Healthcheck with "disk" and "memory" in place of  *)
(* "process".                                                              *)
RestartServiceFile == Skill(TRUE, TRUE, TRUE, Only(".backup_logs", Bool), <<
  Must("check_container_exists"), Must("get_current_status"),
  If(<<".backup_logs">>, Try("create_log_dir")), If(<<".backup_logs">>, Try("backup_logs")),
  Must("stop_container"), Must("start_container"), Try("wait_for_startup"),
  Retry("verify_running", 3), Try("check_health"), Try("get_recent_logs"),
  Try("report_status")>>)

BackupPostgresFile == Skill(TRUE, TRUE, TRUE, Unconditional, <<
  Must("create_output_dir"), Must("check_container"), Must("dump_database"),
  From("dump_database", Must("save_backup")), Try("cleanup_old_backups")>>)

(* RegisterAll                                                             *)
BuiltinNames == {
  "backup", "backup:postgres", "backup:mysql", "healthcheck", "healthcheck:system",
  "healthcheck:docker", "healthcheck:service", "restart", "scale", "rolling-restart",
  "cleanup", "cleanup:docker", "cleanup:logs", "system_info", "network_diag",
  "port_check", "network_stats", "log_tail", "log_search", "service_restart",
  "nginx_reload", "ssl_check", "ssl_renew", "firewall_status", "firewall_allow",
  "firewall_deny", "docker_stats", "docker_inspect", "docker_logs_analyze",
  "caddy_reload", "caddy_status", "caddy_logs", "nginx_status", "nginx_logs"}

Builtin(name) ==
  CASE name = "backup" -> Backup [] name = "backup:postgres" -> BackupPostgres
    [] name = "backup:mysql" -> BackupMySQL [] name = "healthcheck" -> Healthcheck
    [] name = "healthcheck:system" -> SystemHealth
    [] name = "healthcheck:docker" -> DockerHealth
    [] name = "healthcheck:service" -> ServiceHealth [] name = "restart" -> RestartContainer
    [] name = "scale" -> Scale [] name = "rolling-restart" -> RollingRestart
    [] name = "cleanup" -> Cleanup [] name = "cleanup:docker" -> CleanupDocker
    [] name = "cleanup:logs" -> CleanupLogs [] name = "system_info" -> SystemInfo
    [] name = "network_diag" -> NetworkDiag [] name = "port_check" -> PortCheck
    [] name = "network_stats" -> NetworkStats [] name = "log_tail" -> LogTail
    [] name = "log_search" -> LogSearch [] name = "service_restart" -> ServiceRestart
    [] name = "nginx_reload" -> NginxReload [] name = "ssl_check" -> SSLCheck
    [] name = "ssl_renew" -> SSLRenew [] name = "firewall_status" -> FirewallStatus
    [] name = "firewall_allow" -> FirewallAllow [] name = "firewall_deny" -> FirewallDeny
    [] name = "docker_stats" -> DockerStats [] name = "docker_inspect" -> DockerInspect
    [] name = "docker_logs_analyze" -> DockerLogsAnalyze
    [] name = "caddy_reload" -> CaddyReload [] name = "caddy_status" -> CaddyStatus
    [] name = "caddy_logs" -> CaddyLogs [] name = "nginx_status" -> NginxStatus
    [] name = "nginx_logs" -> NginxLogs
=============================================================================
