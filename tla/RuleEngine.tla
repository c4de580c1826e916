------------------------------ MODULE RuleEngine ------------------------------
(***************************************************************************)
(* The rule engine of an agent (internal/agent-node/rule_engine.go).  One  *)
(* goroutine, ruleEngineLoop, evaluates all rules every 10 s on a copy it  *)
(* takes at the start; a rule that fires runs its actions one after the    *)
(* other, puts an event for each on eventChan, and only then has its       *)
(* LastTriggered set in the engine's own list, where it finds the rule by  *)
(* its ID.  SetRules, called by another goroutine when a configuration     *)
(* update arrives, may replace that list in between.                       *)
(*                                                                         *)
(* Abstracted: whether a condition holds is a free choice (metrics,        *)
(* services, processes); a rule is its ID, so IDs are distinct as in the   *)
(* shipped configuration; the order of the rules in the list is free.      *)
(* RuleCondition.Duration and AutoRule.MaxRetries are never read.          *)
(***************************************************************************)
EXTENDS Naturals, Sequences

CONSTANTS
  Rules,         \* IDs of the rules
  WithCooldown,  \* those whose Cooldown is not 0
  ActionCount,   \* number of actions of each rule
  Events,        \* names of RuleEvent objects; reused once collected
  ChanCap,       \* capacity of eventChan, 100 in the code
  NoRule         \* no rule

ASSUME EngineAssumption ==
  /\ WithCooldown \subseteq Rules
  /\ ActionCount \in [Rules -> Nat]
  /\ ChanCap \in Nat \ {0}
  /\ NoRule \notin Rules

VARIABLES
  installed,  \* the IDs in RuleEngine.rules (enabled rules only)
  cooling,    \* those whose LastTriggered is less than Cooldown ago
  engine,     \* where Evaluate is: the rule at work and its actions left,
              \* the rest of its copy, and what is cooling in the copy
  eventChan   \* the channel eventChan

engineVars == <<installed, cooling, engine, eventChan>>

Idle == [at |-> "idle", rule |-> NoRule, left |-> 0, todo |-> {}, cooled |-> {}]

EngineTypeOK ==
  /\ installed \subseteq Rules
  /\ cooling \subseteq Rules
  /\ engine \in [at : {"idle", "checking", "acting"}, rule : Rules \cup {NoRule},
                 left : Nat, todo : SUBSET Rules, cooled : SUBSET Rules]
  /\ eventChan \in Seq(Events)

EngineInit ==
  /\ installed = Rules
  /\ cooling = {}
  /\ engine = Idle
  /\ eventChan = <<>>

-----------------------------------------------------------------------------
(* Mutant of StartEvaluate: the copy has no LastTriggered.                 *)
StartEvaluateFresh ==
  /\ engine.at = "idle"
  /\ engine' = [engine EXCEPT !.at = "checking", !.todo = installed]
  /\ UNCHANGED <<installed, cooling, eventChan>>

(* The ticker of ruleEngineLoop: Evaluate copies the rules under the lock. *)
StartEvaluate ==
  /\ engine.at = "idle"
  /\ engine' = [engine EXCEPT !.at = "checking", !.todo = installed,
                              !.cooled = cooling]
  /\ UNCHANGED <<installed, cooling, eventChan>>

(* The next rule of the copy is cooling there, or its condition is false.  *)
SkipRule(r) ==
  /\ engine.at = "checking" /\ r \in engine.todo
  /\ engine' = [engine EXCEPT !.todo = @ \ {r}, !.cooled = @ \ {r}]
  /\ UNCHANGED <<installed, cooling, eventChan>>

(* Its condition holds and it is not cooling: its actions start.           *)
FireRule(r) ==
  /\ engine.at = "checking" /\ r \in engine.todo
  /\ r \notin engine.cooled
  /\ engine' = [engine EXCEPT !.at = "acting", !.rule = r,
                              !.left = ActionCount[r], !.todo = @ \ {r}]
  /\ UNCHANGED <<installed, cooling, eventChan>>

(* Mutant of EndAction: one action too many.                               *)
EndActionOnceMore(e) ==
  /\ engine.at = "acting"
  /\ engine' = [engine EXCEPT !.left = @ - 1]
  /\ eventChan' = IF Len(eventChan) < ChanCap THEN Append(eventChan, e) ELSE eventChan
  /\ UNCHANGED <<installed, cooling>>

(* An action of the rule at work ends, with an error or not; its event e   *)
(* goes on the channel, or nowhere when the channel is full.               *)
EndAction(e) ==
  /\ engine.at = "acting" /\ engine.left > 0
  /\ engine' = [engine EXCEPT !.left = @ - 1]
  /\ eventChan' = IF Len(eventChan) < ChanCap THEN Append(eventChan, e) ELSE eventChan
  /\ UNCHANGED <<installed, cooling>>

(* All actions of the rule have run: LastTriggered of the installed rule   *)
(* with that ID, if there still is one, becomes now.                       *)
EndRule ==
  /\ engine.at = "acting" /\ engine.left = 0
  /\ cooling' = cooling \cup ({engine.rule} \cap installed \cap WithCooldown)
  /\ engine' = [engine EXCEPT !.at = "checking", !.rule = NoRule]
  /\ UNCHANGED <<installed, eventChan>>

EndEvaluate ==
  /\ engine.at = "checking" /\ engine.todo = {}
  /\ engine' = Idle
  /\ UNCHANGED <<installed, cooling, eventChan>>

(* SetRules: the new list's LastTriggered are all zero.                    *)
SetRules(R) ==
  /\ installed' = R
  /\ cooling' = {}
  /\ UNCHANGED <<engine, eventChan>>

(* The cooldown of a rule that has fired is over.                          *)
CooldownEnds(r) ==
  /\ r \in cooling \cup engine.cooled
  /\ cooling' = cooling \ {r}
  /\ engine' = [engine EXCEPT !.cooled = @ \ {r}]
  /\ UNCHANGED <<installed, eventChan>>

(* The process is started again.                                           *)
EngineRestart ==
  /\ installed' = Rules
  /\ cooling' = {}
  /\ engine' = Idle
  /\ eventChan' = <<>>

EngineStep ==
  \/ StartEvaluate \/ EndRule \/ EndEvaluate
  \/ \E r \in Rules : SkipRule(r) \/ FireRule(r)

-----------------------------------------------------------------------------
(* Evaluate decides by LastTriggered in its copy; when it fires a rule,    *)
(* the rule's real LastTriggered is not less than Cooldown ago either,     *)
(* whatever ran and whatever update came since the copy was taken          *)
(* (rule_engine.go:83).                                                    *)
CooldownKept ==
  [][\A r \in Rules :
       engine.rule # r /\ engine'.rule = r => r \notin cooling]_engineVars
=============================================================================
