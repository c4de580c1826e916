------------------------------ MODULE SkillRuns ------------------------------
(***************************************************************************)
(* Runs of skills (internal/skills/executor.go), started from the web      *)
(* console, by the chat agent's skill tool and by the scheduler.  All of   *)
(* them share one Executor, whose maps of variables and step outputs each  *)
(* run replaces when it starts and fills, reads and writes without a lock. *)
(*                                                                         *)
(* What a command does is left open: it succeeds or fails.                 *)
(***************************************************************************)
EXTENDS BuiltinSkills, SequencesExt

CONSTANTS
  Runs,         \* goroutines that execute skills, one run at a time
  Cron,         \* those of them that belong to the scheduler
  Definition,   \* the skills by name, those of files too
  FromFiles,    \* the names of those loaded from files
  Offered,      \* the skills each of Runs is asked for (a bound)
  MaxDepth      \* bounds skills that execute skills

ASSUME SkillAssumption ==
  /\ Cron \subseteq Runs
  /\ FromFiles \subseteq DOMAIN Definition
  /\ Offered \in [Runs -> SUBSET DOMAIN Definition]
  /\ \A k \in DOMAIN Definition :
       Definition[k].steps \in
         Seq([name : STRING, cond : Seq(STRING), onError : STRING, retries : Nat,
              uses : STRING, calls : STRING])
  /\ MaxDepth \in Nat \ {0}

VARIABLES
  registry,   \* SkillRegistry.skills
  variables,  \* Executor.variables
  outputs,    \* Executor.stepOutputs: for a step name, whose run wrote it
  run         \* the goroutines

skillVars == <<registry, variables, outputs, run>>

NoEntries == [x \in {} |-> Nothing]
Idle == [at |-> "idle", frames |-> <<>>, spoilt |-> FALSE, alone |-> TRUE]

Active(c) == run[c].at # "idle"
Top(c) == Last(run[c].frames)
AtEnd(c) == Top(c).step > Len(Definition[Top(c).skill].steps)
Step(c) == Definition[Top(c).skill].steps[Top(c).step]

(* LoadAll: the skills of all files; none when one of them cannot be read, *)
(* has no name or steps, or a step with an unknown tool.                   *)
LoadAll == {FromFiles, {}}

(* Start of main: RegisterAll, then what LoadSkills finds.                 *)
Registries == {(DOMAIN Definition \ FromFiles) \cup loaded : loaded \in LoadAll}

SkillInit ==
  /\ registry \in Registries
  /\ variables = NoEntries /\ outputs = NoEntries
  /\ run = [c \in Runs |-> Idle]

-----------------------------------------------------------------------------
(* renderTemplate: a variable that is missing is "<no value>", an empty    *)
(* one leaves nothing.                                                     *)
References == UNION {DOMAIN Definition[k].with : k \in DOMAIN Definition}
Value(w) ==
  IF w \notin References THEN w
  ELSE IF w \in DOMAIN variables THEN variables[w] ELSE "<no value>"
Render(words) ==
  SelectSeq([i \in 1..Len(words) |-> Value(words[i])], LAMBDA w : w # Nothing)

(* evaluateCondition: split at the first "==", else at the first "!=", and *)
(* compared; without either it holds unless it is false, 0 or nothing.     *)
SplitAt(text, i) == <<SubSeq(text, 1, i - 1), SubSeq(text, i + 1, Len(text))>>

EvaluateCondition(words) ==
  LET text == Render(words)
      eq == SelectInSeq(text, LAMBDA w : w = "==")
      ne == SelectInSeq(text, LAMBDA w : w = "!=")
  IN CASE eq # 0 -> SplitAt(text, eq)[1] = SplitAt(text, eq)[2]
       [] eq = 0 /\ ne # 0 -> SplitAt(text, ne)[1] # SplitAt(text, ne)[2]
       [] OTHER -> text \notin {<<>>, <<"false">>, <<"0">>}

-----------------------------------------------------------------------------
(* What callers pass: a value for each parameter that conditions mention,  *)
(* the default among them; or something initParameters refuses: a required *)
(* parameter left out, a value of another type.                            *)
Given(with) ==
  {g \in [DOMAIN with -> UNION {with[x] : x \in DOMAIN with}] :
     \A x \in DOMAIN with : g[x] \in with[x]}

Arguments == [k \in DOMAIN Definition |->
  [given : Given(Definition[k].with), fault : {"none"}]
    \cup [given : {CHOOSE g \in Given(Definition[k].with) : TRUE},
          fault : (IF Definition[k].must THEN {"missing"} ELSE {})
                    \cup (IF Definition[k].typed THEN {"unconvertible"} ELSE {})]]

(* ExecuteSkill up to initParameters: run c gets a frame for skill k, and  *)
(* the executor new maps.  The other runs have lost theirs.                *)
Enter(c, k, args) ==
  /\ variables' = NoEntries /\ outputs' = NoEntries
  /\ run' = [d \in Runs |->
       IF d # c THEN [run[d] EXCEPT !.spoilt = TRUE, !.alone = FALSE]
       ELSE [at |-> "init",
             frames |-> Append(run[c].frames,
               [skill |-> k, given |-> args.given, fault |-> args.fault,
                step |-> 1, tries |-> 0, ran |-> {}]),
             spoilt |-> FALSE,
             alone |-> run[c].frames = <<>> /\ \A e \in Runs \ {c} : ~Active(e)]]
  /\ UNCHANGED registry

(* ValidateParams: a required parameter is given or has a default.         *)
ValidateParams(args) == args.fault # "missing"

(* executeSkill of the web console and handleSkillExecute of the agent's   *)
(* tool, once what needs confirmation is confirmed.                        *)
ExecuteForUser(c, k, args) ==
  /\ c \notin Cron
  /\ k \in registry /\ ValidateParams(args)
  /\ Enter(c, k, args)

(* skillExecutorAdapter.ExecuteTask: the scheduler asks nothing.           *)
ExecuteTask(c, k, args) ==
  /\ c \in Cron
  /\ k \in registry
  /\ Enter(c, k, args)

(* The map g after all entries of f were written to it.                    *)
Overwrite(f, g) ==
  [x \in DOMAIN f \cup DOMAIN g |-> IF x \in DOMAIN f THEN f[x] ELSE g[x]]

(* Mutant of InitParameters: empty values are taken for missing.           *)
InitParametersNonEmpty(given) ==
  Overwrite([x \in {y \in DOMAIN given : given[y] # Nothing} |-> given[x]], variables)

(* initParameters                                                          *)
InitParameters(given) == Overwrite(given, variables)

Spoil(c) == [d \in Runs |-> IF d = c THEN run[d] ELSE [run[d] EXCEPT !.spoilt = TRUE]]

Fill(c) ==
  /\ run[c].at = "init" /\ Top(c).fault = "none"
  /\ variables' = InitParameters(Top(c).given)
  /\ run' = [Spoil(c) EXCEPT ![c].at = "ready"]
  /\ UNCHANGED <<registry, outputs>>

(* The skill of the topmost frame returns: the run is over, or a step of   *)
(* the frame below has its outcome, whose variables are lost.              *)
Leave(c, outcome) ==
  IF Len(run[c].frames) = 1 THEN Idle
  ELSE [at |-> outcome, frames |-> Front(run[c].frames), spoilt |-> TRUE, alone |-> FALSE]

FillFails(c) ==
  /\ run[c].at = "init" /\ Top(c).fault # "none"
  /\ \E set \in SUBSET DOMAIN Top(c).given :
       variables' = Overwrite([x \in set |-> Top(c).given[x]], variables)
  /\ run' = [Spoil(c) EXCEPT ![c] = Leave(c, "failed")]
  /\ UNCHANGED <<registry, outputs>>

-----------------------------------------------------------------------------
(* The loop over the steps in ExecuteSkill, and executeStep.               *)
Frame(c) == Len(run[c].frames)

(* A step's output is kept for later steps: of the first try and of one    *)
(* that succeeded.  (Only the names later steps refer to are kept here.)   *)
Used == {t.uses : t \in UNION {ToSet(Definition[k].steps) : k \in DOMAIN Definition}}

SaveOutput(c) ==
  outputs' = IF Step(c).name \in Used THEN Overwrite([n \in {Step(c).name} |-> c], outputs)
                                      ELSE outputs

NextStep(c) ==
  [run[c] EXCEPT !.at = "ready", !.frames[Frame(c)].step = @ + 1, !.frames[Frame(c)].tries = 0]

(* Mutant of NextTry: the count begins anew with every try.                *)
NextTryUncounted(c) == 1

NextTry(c) == Top(c).tries + 1

MayRetry(c) == Step(c).onError = "retry" /\ Top(c).tries < Step(c).retries

StepOk(c) ==
  /\ SaveOutput(c)
  /\ run' = [run EXCEPT ![c] = NextStep(c)]
  /\ UNCHANGED <<registry, variables>>

StepFails(c) ==
  /\ IF Top(c).tries = 0 THEN SaveOutput(c) ELSE UNCHANGED outputs
  /\ run' = [run EXCEPT ![c] =
       IF Step(c).onError = "continue" THEN NextStep(c)
       ELSE IF MayRetry(c)
         THEN [run[c] EXCEPT !.at = "asleep", !.frames[Frame(c)].tries = NextTry(c)]
         ELSE Leave(c, "failed")]
  /\ UNCHANGED <<registry, variables>>

Return(c) ==
  /\ run[c].at = "ready" /\ AtEnd(c)
  /\ run' = [run EXCEPT ![c] = Leave(c, "ok")]
  /\ UNCHANGED <<registry, variables, outputs>>

(* The skill's timeout, or its caller's, before a step.                    *)
TimesOut(c) ==
  /\ run[c].at = "ready" /\ ~AtEnd(c) /\ Top(c).tries = 0
  /\ run' = [run EXCEPT ![c] = Leave(c, "failed")]
  /\ UNCHANGED <<registry, variables, outputs>>

Due(c) == Step(c).cond = <<>> \/ EvaluateCondition(Step(c).cond)

Skip(c) == run[c].at = "ready" /\ ~AtEnd(c) /\ ~Due(c) /\ StepOk(c)

StartCommand(c) ==
  /\ Step(c).calls = NoSkill
  /\ run' = [run EXCEPT ![c].at = "command",
                        ![c].frames[Frame(c)].ran = @ \cup {Step(c).name}]
  /\ UNCHANGED <<registry, variables, outputs>>

EndCommand(c) ==
  /\ run[c].at = "command"
  /\ StepOk(c) \/ StepFails(c)

(* executeNestedSkill: the same executor, no confirmation, no limit.       *)
StartNested(c) ==
  /\ Step(c).calls \in registry /\ Frame(c) < MaxDepth
  /\ \E args \in Arguments[Step(c).calls] : Enter(c, Step(c).calls, args)

NestedMissing(c) == Step(c).calls \notin registry \cup {NoSkill} /\ StepFails(c)

StartStep(c) ==
  /\ run[c].at = "ready" /\ ~AtEnd(c) /\ Due(c)
  /\ StartCommand(c) \/ StartNested(c) \/ NestedMissing(c)

NestedReturned(c) ==
  \/ run[c].at = "ok" /\ StepOk(c)
  \/ run[c].at = "failed" /\ StepFails(c)

Wake(c) ==
  /\ run[c].at = "asleep"
  /\ run' = [run EXCEPT ![c].at = "ready"]
  /\ UNCHANGED <<registry, variables, outputs>>

-----------------------------------------------------------------------------
(* Go ends the process when it sees a map read or written while another    *)
(* goroutine writes it, as the end of a command does; systemd starts it    *)
(* again.                                                                  *)
Writes(c) == run[c].at \in {"init", "command", "ok", "failed"}
Reads(c) == run[c].at = "ready"

ConcurrentMapAccess ==
  /\ \E c, d \in Runs : c # d /\ Writes(c) /\ (Writes(d) \/ Reads(d))
  /\ variables' = NoEntries /\ outputs' = NoEntries
  /\ run' = [c \in Runs |-> Idle]
  /\ registry' \in Registries

Start(c) ==
  /\ ~Active(c)
  /\ \E k \in Offered[c] : \E args \in Arguments[k] :
       ExecuteForUser(c, k, args) \/ ExecuteTask(c, k, args)

RunStep(c) ==
  /\ Active(c)
  /\ \/ Fill(c) \/ FillFails(c)
     \/ Return(c) \/ TimesOut(c)
     \/ Skip(c) \/ StartStep(c)
     \/ EndCommand(c) \/ NestedReturned(c) \/ Wake(c)

SkillNext == ConcurrentMapAccess \/ \E c \in Runs : Start(c) \/ RunStep(c)

SkillSpec == SkillInit /\ [][SkillNext]_skillVars

(* Goroutines go on, commands end.                                         *)
SkillFairSpec == SkillSpec /\ \A c \in Runs : WF_skillVars(RunStep(c))

-----------------------------------------------------------------------------
(* A run works with its own parameters unless another one has started or   *)
(* filled in its parameters since, or it has called a skill: runs that     *)
(* began earlier and are still going on do it no harm (initParameters,     *)
(* renderTemplate).  And when it was alone all the time, what it takes     *)
(* from an earlier step is what its own step put out, not what an earlier  *)
(* run left behind (stepOutputs).                                          *)
OwnInputs ==
  \A c \in Runs :
    run[c].at = "ready" /\ ~AtEnd(c) =>
      /\ ~run[c].spoilt =>
           \A x \in DOMAIN Top(c).given :
             x \in DOMAIN variables /\ variables[x] = Top(c).given[x]
      /\ run[c].alone /\ Step(c).uses # NoStep =>
           Step(c).uses \in DOMAIN outputs /\ outputs[Step(c).uses] = c

(* Every run returns to its caller, however its steps fail, are tried      *)
(* again or call skills, if commands end (ExecuteSkill); its caller gets   *)
(* nothing if the process ends.                                            *)
EveryRunEnds == \A c \in Runs : Active(c) ~> ~Active(c)

(* ssl_renew without dry_run renews certificates before it reports success *)
(* (the skill's and its parameters' descriptions in ssl_renew.go).         *)
RenewalRenews ==
  \A c \in Runs :
    run[c].at = "ready" /\ AtEnd(c) /\ Top(c).skill = "ssl_renew"
      /\ Top(c).given[".dry_run"] = "false" =>
        Top(c).ran \cap {"renew_all", "renew_single"} # {}
=============================================================================
