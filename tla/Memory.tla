-------------------------------- MODULE Memory --------------------------------
(***************************************************************************)
(* The memory of the chat agent (internal/memory): conversations, kept in  *)
(* the process (shortterm.go), episodes, kept in PostgreSQL (longterm.go), *)
(* and the goroutine of main that once a day runs the forget gate          *)
(* (forget.go), then the consolidation (consolidation.go).                 *)
(*                                                                         *)
(* Every statement of the gate is one action; chats, searches and the      *)
(* console's pins come between them.  Scores are in hundredths, ages in    *)
(* months of 30 days; nothing ages while the gate runs, which is seconds.  *)
(***************************************************************************)
EXTENDS Integers, FiniteSets, FiniteSetsExt

CONSTANTS
  Ids,            \* IDs of episodes, each given once (uuid)
  Outcomes,       \* of "success", "partial", "failed"
  Ages,           \* the ages told apart, 0 among them
  MaxAccess,      \* accesses told apart: from 4 on they weigh the same
  Changes,        \* numbers of steps that start, stop or restart a container
  Sessions,       \* conversations
  MaxTurns,       \* short_term.max_turns
  Threshold,      \* forget.threshold
  MinAge,         \* forget.min_age
  MaxEpisodes,    \* long_term.max_episodes
  MinEpisodes     \* consolidation.min_episodes

ASSUME MemoryAssumption ==
  /\ Outcomes \subseteq {"success", "partial", "failed"}
  /\ Ages \subseteq Nat /\ 0 \in Ages /\ IsFiniteSet(Ages)
  /\ MaxAccess \in Nat /\ MaxTurns \in Nat /\ Changes \subseteq Nat
  /\ Threshold \in 1 .. 100 /\ MinAge \in Nat \ {0} /\ MaxEpisodes \in Nat \ {0}
  /\ MinEpisodes \in Nat \ {0}

VARIABLES
  episodes,   \* the table: a function on the IDs of its rows
  made,       \* the IDs given so far
  gate,       \* the maintenance goroutine: where it is, and what it has read
  messages    \* number of messages of each conversation

memoryVars == <<episodes, made, gate, messages>>

Waiting    == [at |-> "wait", scores |-> <<>>, excess |-> 0]
NotRunning == [Waiting EXCEPT !.at = "down"]

MemoryInit ==
  /\ episodes = <<>> /\ made = {}
  /\ gate = Waiting
  /\ messages = [s \in Sessions |-> 0]

Pinned     == {e \in DOMAIN episodes : episodes[e].pinned}
Expendable == {e \in DOMAIN episodes \ Pinned : episodes[e].age >= MinAge}
OverLimit  == Cardinality(DOMAIN episodes) > MaxEpisodes
Without(E) == [e \in DOMAIN episodes \ E |-> episodes[e]]

(* Of an episode a chat has made (trigger "user_request"); the number of   *)
(* its steps is part of what its outcome stands for.                       *)
CalculateImportance(ep) ==
  LET decay   == Max({-30, -10 * ep.age})
      access  == Min({20, 5 * ep.accesses})
      outcome == CASE ep.outcome = "success" -> 10
                   [] ep.outcome = "failed"  -> -5
                   [] OTHER -> 0
  IN Max({0, Min({100, 50 + decay + access + outcome})})

-----------------------------------------------------------------------------
(* calculateImportance of the chat's executor: another formula than the    *)
(* gate's, which replaces its result unless the episode is pinned.         *)
FirstImportance(o, changes) ==
  Min({100, 50 + 20 * changes + (IF o = "success" THEN 10 ELSE 0)})

NewEpisode(o, changes) ==
  [outcome |-> o, age |-> 0, pinned |-> FALSE, accesses |-> 0,
   importance |-> FirstImportance(o, changes)]

(* A chat that called tools ends.  An INSERT that fails is only logged.    *)
SaveEpisode(e, o, changes) ==
  /\ gate.at # "down" /\ e \notin made
  /\ made' = made \cup {e}
  /\ episodes' \in {episodes, [f \in DOMAIN episodes \cup {e} |->
                       IF f = e THEN NewEpisode(o, changes) ELSE episodes[f]]}
  /\ UNCHANGED <<gate, messages>>

(* SearchEpisodes, of the console or the recall_memory tool, has returned  *)
(* e: a goroutine counts the access.                                       *)
IncrementAccessCount(e) ==
  /\ gate.at # "down" /\ e \in DOMAIN episodes
  /\ episodes[e].accesses < MaxAccess
  /\ episodes' = [episodes EXCEPT ![e].accesses = @ + 1]
  /\ UNCHANGED <<made, gate, messages>>

(* PinEpisode and UnpinEpisode.                                            *)
SetPinned(e, p) ==
  /\ gate.at # "down" /\ e \in DOMAIN episodes /\ episodes[e].pinned # p
  /\ episodes' = [episodes EXCEPT ![e].pinned = p]
  /\ UNCHANGED <<made, gate, messages>>

SaveMessage(s) ==
  /\ gate.at # "down"
  /\ messages' = [messages EXCEPT ![s] = Min({@ + 1, 2 * MaxTurns})]
  /\ UNCHANGED <<episodes, made, gate>>

(* cleanupExpired: the conversation has been quiet for the TTL.            *)
CleanupExpired(s) ==
  /\ messages[s] > 0
  /\ messages' = [messages EXCEPT ![s] = 0]
  /\ UNCHANGED <<episodes, made, gate>>

-----------------------------------------------------------------------------
GoTo(l) == [gate EXCEPT !.at = l]

RunForgetGate ==
  /\ gate.at = "wait" /\ gate' = GoTo("select")
  /\ UNCHANGED <<episodes, made, messages>>

(* UpdateAllImportance reads the rows that are not pinned ...              *)
SelectUnpinned ==
  /\ gate.at = "select"
  /\ LET rows == DOMAIN episodes \ Pinned IN
     gate' = [gate EXCEPT !.at = IF rows = {} THEN "delete" ELSE "update",
                          !.scores = [e \in rows |-> CalculateImportance(episodes[e])]]
  /\ UNCHANGED <<episodes, made, messages>>

(* ... and writes their scores, whatever has happened to them since.       *)
UpdateImportance ==
  /\ gate.at = "update" /\ gate' = GoTo("delete")
  /\ episodes' = [e \in DOMAIN episodes |->
       IF e \in DOMAIN gate.scores THEN [episodes[e] EXCEPT !.importance = gate.scores[e]]
                                   ELSE episodes[e]]
  /\ UNCHANGED <<made, messages>>

DeleteForgotten ==
  /\ gate.at = "delete" /\ gate' = GoTo("count")
  /\ episodes' = Without({e \in Expendable : episodes[e].importance < Threshold})
  /\ UNCHANGED <<made, messages>>

(* Mutant of Excess: pinned episodes are not counted.                      *)
ExcessUnpinned == Cardinality(DOMAIN episodes \ Pinned) - MaxEpisodes

(* All rows count, also those the next statement cannot delete.            *)
Excess == Cardinality(DOMAIN episodes) - MaxEpisodes

CountEpisodes ==
  /\ gate.at = "count"
  /\ gate' = IF Excess > 0 THEN [gate EXCEPT !.at = "trim", !.excess = Excess]
                           ELSE GoTo("consolidate")
  /\ UNCHANGED <<episodes, made, messages>>

(* Mutant of Lowest: the most important come first.                        *)
LowestReversed(E) ==
  {D \in SUBSET E :
     /\ Cardinality(D) = Min({gate.excess, Cardinality(E)})
     /\ \A d \in D, e \in E \ D : episodes[d].importance >= episodes[e].importance}

(* ORDER BY importance ASC LIMIT excess.                                   *)
Lowest(E) ==
  {D \in SUBSET E :
     /\ Cardinality(D) = Min({gate.excess, Cardinality(E)})
     /\ \A d \in D, e \in E \ D : episodes[d].importance <= episodes[e].importance}

DeleteExcess ==
  /\ gate.at = "trim" /\ gate' = GoTo("consolidate")
  /\ \E D \in Lowest(Expendable) : episodes' = Without(D)
  /\ UNCHANGED <<made, messages>>

(* A statement fails: Cleanup returns, and the consolidation is next.      *)
StatementFails ==
  /\ gate.at \in {"select", "update", "delete", "count", "trim"}
  /\ gate' = GoTo("consolidate")
  /\ UNCHANGED <<episodes, made, messages>>

(* Run: the successful episodes, if they are enough (their targets, by     *)
(* which they are grouped, are left open; a bound: one group).             *)
RunConsolidation ==
  /\ gate.at = "consolidate"
  /\ \/ gate' = Waiting
     \/ /\ Cardinality({e \in DOMAIN episodes : episodes[e].outcome = "success"}) >= MinEpisodes
        /\ gate' = [Waiting EXCEPT !.at = "generate"]
  /\ UNCHANGED <<episodes, made, messages>>

(* The LLM writes a text with a topic and a content about them, or none.   *)
GenerateKnowledge ==
  /\ gate.at = "generate" /\ gate' \in {Waiting, [Waiting EXCEPT !.at = "save"]}
  /\ UNCHANGED <<episodes, made, messages>>

(* The INSERT has nine parameters and is given ten arguments: it is always *)
(* refused, no episode is ever marked, and the tables stay as they are.    *)
SaveKnowledge ==
  /\ gate.at = "save" /\ gate' = Waiting
  /\ UNCHANGED <<episodes, made, messages>>

-----------------------------------------------------------------------------
TimePasses ==
  /\ gate.at \in {"wait", "down"}
  /\ episodes' = [e \in DOMAIN episodes |-> [episodes[e] EXCEPT !.age =
                    IF @ = Max(Ages) THEN @ ELSE Min({a \in Ages : a > @})]]
  /\ UNCHANGED <<made, gate, messages>>

(* Conversations are lost, and the day of the ticker begins anew.          *)
ProcessEnds ==
  /\ gate.at # "down" /\ gate' = NotRunning
  /\ messages' = [s \in Sessions |-> 0]
  /\ UNCHANGED <<episodes, made>>

ProcessStarts ==
  gate.at = "down" /\ gate' = Waiting /\ UNCHANGED <<episodes, made, messages>>

MemoryNext ==
  \/ \E e \in Ids :
       \/ \E o \in Outcomes, n \in Changes : SaveEpisode(e, o, n)
       \/ IncrementAccessCount(e)
       \/ \E p \in BOOLEAN : SetPinned(e, p)
  \/ \E s \in Sessions : SaveMessage(s) \/ CleanupExpired(s)
  \/ RunForgetGate \/ SelectUnpinned \/ UpdateImportance \/ DeleteForgotten
  \/ CountEpisodes \/ DeleteExcess \/ StatementFails
  \/ RunConsolidation \/ GenerateKnowledge \/ SaveKnowledge
  \/ TimePasses \/ ProcessEnds \/ ProcessStarts

MemorySpec == MemoryInit /\ [][MemoryNext]_memoryVars

(* The goroutine goes on, and a statement tried again and again succeeds   *)
(* again and again.                                                        *)
MemoryFairness ==
  /\ WF_memoryVars(RunForgetGate) /\ WF_memoryVars(RunConsolidation)
  /\ WF_memoryVars(GenerateKnowledge) /\ WF_memoryVars(SaveKnowledge)
  /\ SF_memoryVars(SelectUnpinned) /\ SF_memoryVars(UpdateImportance)
  /\ SF_memoryVars(DeleteForgotten) /\ SF_memoryVars(CountEpisodes)
  /\ SF_memoryVars(DeleteExcess)

MemoryFairSpec == MemorySpec /\ MemoryFairness

-----------------------------------------------------------------------------
(* An episode leaves the table only when it is neither pinned nor young,   *)
(* although it may be pinned, unpinned and looked up between the gate's    *)
(* statements (Cleanup); and it is one this cleanup found below the        *)
(* threshold, or did not score because it was pinned then, or the table    *)
(* was over its limit and no less important one could go in its place.     *)
OnlyForgotten ==
  [][\A e \in DOMAIN episodes \ DOMAIN episodes' :
       /\ e \in Expendable
       /\ \/ e \in DOMAIN gate.scores => gate.scores[e] < Threshold
          \/ /\ gate.excess > 0
             /\ \A f \in DOMAIN episodes' \cap Expendable :
                  episodes[e].importance <= episodes[f].importance]_memoryVars

(* While the process runs and nobody pins or unpins, the table comes back  *)
(* within its limit again and again, or all that could be deleted is gone, *)
(* although statements fail and rows come in between the count and the     *)
(* deletion (Cleanup).  A process restarted every day never gets there.    *)
TableShrinks ==
  /\ <>[](gate.at # "down")
  /\ <>[][Pinned' = Pinned]_memoryVars
  => []<>(~OverLimit \/ Expendable = {})
===============================================================================
