----------------------------- MODULE MCConfirmFlow -----------------------------
(***************************************************************************)
(* One user: a request over the web chat with the same session ID, and a   *)
(* WeCom message that confirms, cancels or asks and is delivered again     *)
(* after a restart.                                                        *)
(***************************************************************************)
EXTENDS ConfirmFlow, TLC

CONSTANTS s1, m1

OneSession == [m \in Msgs |-> s1]
AllCalls == [tool : {"local_shell", "docker_exec", "docker", "skill", "remote_shell"},
             banned : BOOLEAN, rule : {"none", "run", "ask"}, confirmed : BOOLEAN]
TwiceM1 == [m \in Msgs |-> IF m = m1 THEN 2 ELSE 1]
=============================================================================
