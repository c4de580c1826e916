---------------------------- MODULE SkillRuns_proofs ----------------------------
(***************************************************************************)
(* Proofs about runs of skills on the executor they share, for any skills, *)
(* any number of runs and any depth of skills that call skills.            *)
(*                                                                         *)
(* What a run finds in the executor's maps is its own only as long as      *)
(* nobody else has touched them: the invariant says so of each run by its  *)
(* topmost frame (Sound), and that a run that was alone all the time still *)
(* is (AloneIsAlone), so that no other run writes outputs over its own.    *)
(***************************************************************************)
EXTENDS SkillRuns, SequenceTheorems, TLAPS

Places == {"idle", "init", "ready", "command", "asleep", "ok", "failed"}

Givens == {args.given : args \in UNION {Arguments[k] : k \in DOMAIN Definition}}

Frames == [skill : DOMAIN Definition, given : Givens,
           fault : {"none", "missing", "unconvertible"},
           step : Nat \ {0}, tries : Nat, ran : SUBSET STRING]

RunRecords == [at : Places, frames : Seq(Frames), spoilt : BOOLEAN, alone : BOOLEAN]

SkillTyped ==
  /\ registry \subseteq DOMAIN Definition
  /\ run \in [Runs -> RunRecords]

Steps(f) == Definition[f.skill].steps

(* The map v has all of the parameters g.                                  *)
Holds(v, g) == \A x \in DOMAIN g : x \in DOMAIN v /\ v[x] = g[x]

(* The map o has c's output of each step of frame f that c has passed.     *)
Passed(c, f, o) ==
  \A i \in 1..(f.step - 1) :
    Steps(f)[i].name \in Used =>
      Steps(f)[i].name \in DOMAIN o /\ o[Steps(f)[i].name] = c

(* What is true of run c with record r when the executor's maps are v, o.  *)
(* Only steps with on_error retry are tried again, so that a step that is  *)
(* passed over after it failed has left its output.                        *)
Sound(c, r, v, o) ==
  r.at # "idle" =>
    /\ r.frames # <<>>
    /\ r.at # "init" /\ ~r.spoilt => Holds(v, Last(r.frames).given)
    /\ r.alone =>
         /\ Passed(c, Last(r.frames), o)
         /\ Last(r.frames).tries > 0 =>
              Steps(Last(r.frames))[Last(r.frames).step].onError = "retry"

AloneIsAlone ==
  \A c \in Runs : Active(c) /\ run[c].alone => \A d \in Runs \ {c} : ~Active(d)

SkillInv ==
  /\ SkillTyped
  /\ \A c \in Runs : Sound(c, run[c], variables, outputs)
  /\ AloneIsAlone

(* What a step takes from an earlier one is the output of a step before it.*)
(* The loader does not look at this; it is true of the skills that come    *)
(* with the program (BuiltinsUseEarlier).                                  *)
UsesEarlier(steps) ==
  \A i \in 1..Len(steps) :
    steps[i].uses # NoStep => \E j \in 1..(i - 1) : steps[j].name = steps[i].uses

-----------------------------------------------------------------------------
(* Sequences of frames: the stack of a run.                                *)
LEMMA Pushed ==
  ASSUME NEW s \in Seq(Frames), NEW f \in Frames
  PROVE  Append(s, f) \in Seq(Frames) /\ Append(s, f) # <<>> /\ Last(Append(s, f)) = f
<1>1. /\ Append(s, f) \in Seq(Frames) /\ Len(Append(s, f)) = Len(s) + 1
      /\ Append(s, f)[Len(s) + 1] = f /\ Len(s) \in Nat
  BY AppendProperties, LenProperties
<1> QED
  BY <1>1, EmptySeq DEF Last

LEMMA TopIsFrame ==
  ASSUME NEW s \in Seq(Frames), s # <<>>
  PROVE  Len(s) \in 1..Len(s) /\ Len(s) \in Nat \ {0} /\ Last(s) \in Frames
<1>1. Len(s) \in Nat \ {0}
  BY EmptySeq, LenProperties
<1> QED
  BY <1>1, ElementOfSeq DEF Last

LEMMA Replaced ==
  ASSUME NEW s \in Seq(Frames), s # <<>>, NEW f \in Frames
  PROVE  /\ [s EXCEPT ![Len(s)] = f] \in Seq(Frames)
         /\ [s EXCEPT ![Len(s)] = f] # <<>>
         /\ Last([s EXCEPT ![Len(s)] = f]) = f
<1> DEFINE t == [s EXCEPT ![Len(s)] = f]
<1>1. Len(s) \in 1..Len(s) /\ Len(s) \in Nat \ {0}
  BY TopIsFrame
<1>2. t \in Seq(Frames) /\ Len(t) = Len(s) /\ t[Len(s)] = f
  BY <1>1, ExceptSeq
<1> QED
  BY <1>1, <1>2, EmptySeq DEF Last

LEMMA Popped ==
  ASSUME NEW s \in Seq(Frames), s # <<>>, Len(s) # 1
  PROVE  Front(s) \in Seq(Frames) /\ Front(s) # <<>>
<1>1. Len(s) \in Nat /\ Len(s) # 0 /\ Len(s) # 1
  BY TopIsFrame
<1> DEFINE n == Len(s)
<1>2. n \in Nat /\ n # 0 /\ n # 1
  BY <1>1
<1> HIDE DEF n
<1>2a. 1 \in Int /\ n - 1 \in Nat /\ 1 <= n - 1 /\ (n - 1) - 1 + 1 = n - 1
  BY <1>2
<1>3. \A i \in 1..(n - 1) : s[i] \in Frames
  BY <1>2, ElementOfSeq DEF n
<1>4. Front(s) = SubSeq(s, 1, n - 1)
  BY DEF Front, n
<1>5. Front(s) \in Seq(Frames) /\ Len(Front(s)) = n - 1
  BY <1>2, <1>2a, <1>3, <1>4, SubSeqProperties DEF n
<1>6. Len(Front(s)) # 0
  BY <1>2, <1>5
<1> QED
  BY <1>5, <1>6, EmptySeq

(* What a map has after all entries of another were written to it.         *)
LEMMA Overwritten ==
  ASSUME NEW f, NEW g
  PROVE  /\ \A x \in DOMAIN f : x \in DOMAIN Overwrite(f, g) /\ Overwrite(f, g)[x] = f[x]
         /\ \A x \in DOMAIN g \ DOMAIN f :
              x \in DOMAIN Overwrite(f, g) /\ Overwrite(f, g)[x] = g[x]
BY DEF Overwrite

-----------------------------------------------------------------------------
(* The record of a run that is going on.                                   *)
LEMMA ActiveRun ==
  ASSUME SkillInv, NEW c \in Runs, Active(c)
  PROVE  /\ run[c] \in RunRecords /\ run[c].frames \in Seq(Frames) /\ run[c].frames # <<>>
         /\ Top(c) \in Frames /\ Frame(c) \in Nat \ {0} /\ Top(c) = run[c].frames[Frame(c)]
         /\ Top(c).skill \in DOMAIN Definition /\ Top(c).step \in Nat \ {0}
         /\ Top(c).tries \in Nat
         /\ Steps(Top(c)) = Definition[Top(c).skill].steps
         /\ Step(c) = Steps(Top(c))[Top(c).step]
         /\ Sound(c, run[c], variables, outputs)
<1>1. run[c] \in RunRecords /\ Sound(c, run[c], variables, outputs) /\ run[c].at # "idle"
  BY DEF SkillInv, SkillTyped, Active
<1>2. run[c].frames \in Seq(Frames) /\ run[c].frames # <<>>
  BY <1>1 DEF RunRecords, Sound
<1>3. Top(c) \in Frames /\ Frame(c) \in Nat \ {0} /\ Top(c) = run[c].frames[Frame(c)]
  BY <1>2, TopIsFrame DEF Top, Frame, Last
<1> QED
  BY <1>1, <1>2, <1>3 DEF Frames, Step, Steps

(* A step of run c alone: the others keep what they have, and outputs of   *)
(* theirs only those that were alone could lose.                           *)
LEMMA StepOfOne ==
  ASSUME SkillInv, NEW c \in Runs, Active(c), NEW r \in RunRecords,
         run' = [run EXCEPT ![c] = r], UNCHANGED <<registry, variables>>,
         Sound(c, r, variables, outputs'), r.alone /\ r.at # "idle" => run[c].alone
  PROVE  SkillInv'
<1>1. /\ run'[c] = r /\ \A d \in Runs \ {c} : run'[d] = run[d]
      /\ run \in [Runs -> RunRecords]
  BY DEF SkillInv, SkillTyped
<1>2. SkillTyped'
  BY <1>1 DEF SkillInv, SkillTyped
<1>3. ASSUME NEW d \in Runs \ {c} PROVE Sound(d, run[d], variables, outputs')
  <2>1. Sound(d, run[d], variables, outputs)
    BY DEF SkillInv
  <2>2. ~(Active(d) /\ run[d].alone)
    BY DEF SkillInv, AloneIsAlone
  <2> QED
    BY <2>1, <2>2 DEF Sound, Active
<1>4. \A d \in Runs : Sound(d, run'[d], variables', outputs')
  BY <1>1, <1>3
<1>5. AloneIsAlone'
  <2> SUFFICES ASSUME NEW e \in Runs, Active(e)', run'[e].alone, NEW d \in Runs \ {e}
               PROVE  ~Active(d)'
    BY DEF AloneIsAlone
  <2>1. Active(e) /\ run[e].alone
    BY <1>1 DEF Active
  <2>2. ~Active(d)
    BY <2>1 DEF SkillInv, AloneIsAlone
  <2>3. d # c
    BY <2>2
  <2> QED
    BY <1>1, <2>2, <2>3 DEF Active
<1> QED
  BY <1>2, <1>4, <1>5 DEF SkillInv

(* The record of a run without a frame, or whose topmost skill returned to *)
(* the one that called it, promises nothing.                               *)
LEMMA LeaveSound ==
  ASSUME SkillInv, NEW c \in Runs, Active(c), NEW o, NEW v, NEW outcome \in {"ok", "failed"}
  PROVE  /\ Leave(c, outcome) \in RunRecords
         /\ Sound(c, Leave(c, outcome), v, o)
         /\ Leave(c, outcome).at # "idle" => ~Leave(c, outcome).alone
<1>1. run[c].frames \in Seq(Frames) /\ run[c].frames # <<>>
  BY ActiveRun
<1>2. CASE Len(run[c].frames) = 1
  <2>1. Leave(c, outcome) = Idle
    BY <1>2 DEF Leave
  <2>2. <<>> \in Seq(Frames)
    BY EmptySeq
  <2> QED
    BY <2>1, <2>2 DEF Idle, RunRecords, Places, Sound
<1>3. CASE Len(run[c].frames) # 1
  <2>1. Leave(c, outcome) =
          [at |-> outcome, frames |-> Front(run[c].frames), spoilt |-> TRUE, alone |-> FALSE]
    BY <1>3 DEF Leave
  <2>2. Front(run[c].frames) \in Seq(Frames) /\ Front(run[c].frames) # <<>>
    BY <1>1, <1>3, Popped
  <2> QED
    BY <2>1, <2>2 DEF RunRecords, Places, Sound
<1> QED
  BY <1>2, <1>3

(* Run c goes on with frame f in place of its topmost one.                 *)
Going(c, at, f) ==
  [run[c] EXCEPT !.at = at, !.frames = [run[c].frames EXCEPT ![Frame(c)] = f]]

LEMMA GoesOn ==
  ASSUME SkillInv, NEW c \in Runs, Active(c), run[c].at # "init",
         NEW at \in Places \ {"idle", "init"}, NEW f \in Frames, f.given = Top(c).given,
         run' = [run EXCEPT ![c] = Going(c, at, f)], UNCHANGED <<registry, variables>>,
         run[c].alone =>
           /\ Passed(c, f, outputs')
           /\ f.tries > 0 => Steps(f)[f.step].onError = "retry"
  PROVE  SkillInv'
<1> DEFINE r == Going(c, at, f)
<1>1. run[c] \in RunRecords /\ run[c].frames \in Seq(Frames) /\ run[c].frames # <<>>
  BY ActiveRun
<1>2. r.frames \in Seq(Frames) /\ r.frames # <<>> /\ Last(r.frames) = f
  BY <1>1, Replaced DEF Going, Frame
<1>3. r \in RunRecords /\ r.at = at /\ r.spoilt = run[c].spoilt /\ r.alone = run[c].alone
  BY <1>1, <1>2 DEF Going, RunRecords
<1>4. ~run[c].spoilt => Holds(variables, f.given)
  <2>1. Sound(c, run[c], variables, outputs) /\ run[c].at # "idle"
    BY ActiveRun DEF Active
  <2> QED
    BY <2>1 DEF Sound, Top
<1>5. Sound(c, r, variables, outputs')
  BY <1>2, <1>3, <1>4 DEF Sound
<1> QED
  BY <1>1, <1>3, <1>5, StepOfOne

-----------------------------------------------------------------------------
(* SaveOutput writes c's output of the step and touches no other of c's.   *)
LEMMA OutputSaved ==
  ASSUME SkillInv, NEW c \in Runs, Active(c), run[c].alone, SaveOutput(c),
         NEW f \in Frames, f.skill = Top(c).skill,
         f.step = Top(c).step \/ f.step = Top(c).step + 1
  PROVE  Passed(c, f, outputs')
<1>1. /\ Passed(c, Top(c), outputs) /\ Steps(f) = Steps(Top(c))
      /\ Top(c).step \in Nat \ {0} /\ Step(c) = Steps(Top(c))[Top(c).step]
  BY ActiveRun DEF Sound, Active, Top, Steps
<1> SUFFICES ASSUME NEW i \in 1..(f.step - 1), Steps(f)[i].name \in Used
             PROVE  Steps(f)[i].name \in DOMAIN outputs' /\ outputs'[Steps(f)[i].name] = c
  BY DEF Passed
<1>2. i \in 1..(Top(c).step - 1) \/ i = Top(c).step
  BY <1>1
<1> DEFINE n == Steps(f)[i].name
           own == [m \in {Step(c).name} |-> c]
<1>3. CASE n = Step(c).name
  <2>1. outputs' = Overwrite(own, outputs)
    BY <1>3 DEF SaveOutput
  <2>2. n \in DOMAIN own /\ own[n] = c
    BY <1>3
  <2> HIDE DEF own, n
  <2>3. n \in DOMAIN outputs' /\ outputs'[n] = c
    BY <2>1, <2>2, Overwritten
  <2> QED
    BY <2>3 DEF n
<1>4. CASE n # Step(c).name
  <2>1. i \in 1..(Top(c).step - 1)
    BY <1>1, <1>2, <1>4
  <2>2. n \in DOMAIN outputs /\ outputs[n] = c
    BY <1>1, <2>1 DEF Passed
  <2>3. n \notin DOMAIN own
    BY <1>4
  <2> HIDE DEF own, n
  <2>4. outputs' = Overwrite(own, outputs) \/ outputs' = outputs
    BY DEF SaveOutput, own
  <2>5. n \in DOMAIN outputs' /\ outputs'[n] = c
    BY <2>2, <2>3, <2>4, Overwritten
  <2> QED
    BY <2>5 DEF n
<1> QED
  BY <1>3, <1>4

(* The changes of a frame.                                                 *)
LEMMA FrameChanges ==
  ASSUME NEW f \in Frames, NEW n \in Nat
  PROVE  /\ [f EXCEPT !.step = @ + 1, !.tries = 0] \in Frames
         /\ [f EXCEPT !.tries = n] \in Frames
         /\ \A name \in STRING : [f EXCEPT !.ran = @ \cup {name}] \in Frames
<1>1. /\ f.step + 1 \in Nat \ {0} /\ 0 \in Nat
      /\ \A name \in STRING : f.ran \cup {name} \in SUBSET STRING
  BY DEF Frames
<1> QED
  BY <1>1 DEF Frames

LEMMA NextStepIs ==
  ASSUME SkillInv, NEW c \in Runs, Active(c)
  PROVE  /\ [Top(c) EXCEPT !.step = @ + 1, !.tries = 0] \in Frames
         /\ NextStep(c) = Going(c, "ready", [Top(c) EXCEPT !.step = @ + 1, !.tries = 0])
<1>1. /\ Top(c) \in Frames /\ Top(c) = run[c].frames[Frame(c)] /\ run[c] \in RunRecords
      /\ run[c].frames \in Seq(Frames) /\ Frame(c) \in Nat \ {0} /\ Frame(c) = Len(run[c].frames)
  BY ActiveRun DEF Frame
<1>2. [Top(c) EXCEPT !.step = @ + 1, !.tries = 0] \in Frames
  BY <1>1, FrameChanges, 0 \in Nat
<1>3. Frame(c) \in DOMAIN run[c].frames
  BY <1>1, LenProperties
<1>4. [[run[c].frames EXCEPT ![Frame(c)].step = @ + 1] EXCEPT ![Frame(c)].tries = 0]
        = [run[c].frames EXCEPT ![Frame(c)] = [Top(c) EXCEPT !.step = @ + 1, !.tries = 0]]
  BY <1>1, <1>3, LenProperties
<1>5. NextStep(c) =
        [run[c] EXCEPT !.at = "ready",
           !.frames = [[run[c].frames EXCEPT ![Frame(c)].step = @ + 1]
                        EXCEPT ![Frame(c)].tries = 0]]
  BY <1>1 DEF NextStep, RunRecords
<1>6. NextStep(c) = Going(c, "ready", [Top(c) EXCEPT !.step = @ + 1, !.tries = 0])
  BY <1>4, <1>5 DEF Going
<1> QED
  BY <1>2, <1>6

LEMMA StepOkInv ==
  ASSUME SkillInv, NEW c \in Runs, Active(c), run[c].at # "init", StepOk(c)
  PROVE  SkillInv'
<1> DEFINE f == [Top(c) EXCEPT !.step = @ + 1, !.tries = 0]
<1>1. /\ f \in Frames /\ run' = [run EXCEPT ![c] = Going(c, "ready", f)]
      /\ UNCHANGED <<registry, variables>> /\ SaveOutput(c)
  BY NextStepIs DEF StepOk
<1>2. Top(c) \in Frames
  BY ActiveRun
<1>3. f.given = Top(c).given /\ f.skill = Top(c).skill /\ f.step = Top(c).step + 1 /\ f.tries = 0
  BY <1>2 DEF Frames
<1>4. run[c].alone => Passed(c, f, outputs')
  BY <1>1, <1>3, OutputSaved
<1>5. "ready" \in Places \ {"idle", "init"} /\ ~(f.tries > 0)
  BY <1>3 DEF Places
<1> HIDE DEF f
<1> QED
  BY <1>1, <1>3, <1>4, <1>5, GoesOn

LEMMA RetryIs ==
  ASSUME SkillInv, NEW c \in Runs, Active(c)
  PROVE  /\ [Top(c) EXCEPT !.tries = NextTry(c)] \in Frames
         /\ [run[c] EXCEPT !.at = "asleep", !.frames[Frame(c)].tries = NextTry(c)]
              = Going(c, "asleep", [Top(c) EXCEPT !.tries = NextTry(c)])
<1>1. /\ Top(c) \in Frames /\ Top(c) = run[c].frames[Frame(c)] /\ run[c] \in RunRecords
      /\ NextTry(c) \in Nat
  BY ActiveRun DEF NextTry
<1>2. [Top(c) EXCEPT !.tries = NextTry(c)] \in Frames
  BY <1>1, FrameChanges, 0 \in Nat
<1>3. [run[c].frames EXCEPT ![Frame(c)].tries = NextTry(c)]
        = [run[c].frames EXCEPT ![Frame(c)] = [Top(c) EXCEPT !.tries = NextTry(c)]]
  BY <1>1
<1>4. [run[c] EXCEPT !.at = "asleep", !.frames[Frame(c)].tries = NextTry(c)]
        = [run[c] EXCEPT !.at = "asleep",
             !.frames = [run[c].frames EXCEPT ![Frame(c)].tries = NextTry(c)]]
  BY <1>1 DEF RunRecords
<1>5. [run[c] EXCEPT !.at = "asleep", !.frames[Frame(c)].tries = NextTry(c)]
        = Going(c, "asleep", [Top(c) EXCEPT !.tries = NextTry(c)])
  BY <1>3, <1>4 DEF Going
<1> QED
  BY <1>2, <1>5

(* A step fails: it is passed over only if it has left its output at its   *)
(* first try, which was the only one.                                      *)
LEMMA StepFailsInv ==
  ASSUME SkillInv, NEW c \in Runs, Active(c), run[c].at # "init", StepFails(c)
  PROVE  SkillInv'
<1>1. /\ Top(c) \in Frames /\ Top(c).tries \in Nat /\ UNCHANGED <<registry, variables>>
      /\ Step(c) = Steps(Top(c))[Top(c).step]
      /\ IF Top(c).tries = 0 THEN SaveOutput(c) ELSE UNCHANGED outputs
      /\ run[c].alone =>
           /\ Passed(c, Top(c), outputs)
           /\ Top(c).tries > 0 => Step(c).onError = "retry"
  BY ActiveRun DEF StepFails, Sound, Active, Top
<1>2. CASE Step(c).onError = "continue"
  <2> DEFINE f == [Top(c) EXCEPT !.step = @ + 1, !.tries = 0]
  <2>1. f \in Frames /\ run' = [run EXCEPT ![c] = Going(c, "ready", f)]
    BY <1>2, NextStepIs DEF StepFails
  <2>2. f.given = Top(c).given /\ f.skill = Top(c).skill /\ f.step = Top(c).step + 1 /\ f.tries = 0
    BY <1>1 DEF Frames
  <2>3. run[c].alone => SaveOutput(c)
    BY <1>1, <1>2
  <2>4. run[c].alone => Passed(c, f, outputs')
    BY <2>1, <2>2, <2>3, OutputSaved
  <2>5. "ready" \in Places \ {"idle", "init"} /\ ~(f.tries > 0)
    BY <2>2 DEF Places
  <2> HIDE DEF f
  <2> QED
    BY <1>1, <2>1, <2>2, <2>4, <2>5, GoesOn
<1>3. CASE Step(c).onError # "continue" /\ MayRetry(c)
  <2> DEFINE f == [Top(c) EXCEPT !.tries = NextTry(c)]
  <2>1. f \in Frames /\ run' = [run EXCEPT ![c] = Going(c, "asleep", f)]
    BY <1>3, RetryIs DEF StepFails
  <2>2. f.given = Top(c).given /\ f.skill = Top(c).skill /\ f.step = Top(c).step
    BY <1>1 DEF Frames
  <2>3. Steps(f)[f.step].onError = "retry"
    BY <1>1, <1>3, <2>2 DEF MayRetry, Steps
  <2>4. run[c].alone => Passed(c, f, outputs')
    <3>1. CASE Top(c).tries = 0
      BY <1>1, <2>1, <2>2, <3>1, OutputSaved
    <3>2. CASE Top(c).tries # 0
      BY <1>1, <2>2, <3>2 DEF Passed, Steps
    <3> QED
      BY <3>1, <3>2
  <2>5. "asleep" \in Places \ {"idle", "init"}
    BY DEF Places
  <2> HIDE DEF f
  <2> QED
    BY <1>1, <2>1, <2>2, <2>3, <2>4, <2>5, GoesOn
<1>4. CASE Step(c).onError # "continue" /\ ~MayRetry(c)
  <2>1. run' = [run EXCEPT ![c] = Leave(c, "failed")]
    BY <1>4 DEF StepFails
  <2> QED
    BY <1>1, <2>1, LeaveSound, StepOfOne
<1> QED
  BY <1>2, <1>3, <1>4

(* The topmost skill of a run returns.                                     *)
LEMMA LeaveInv ==
  ASSUME SkillInv, NEW c \in Runs, Active(c), NEW outcome \in {"ok", "failed"},
         run' = [run EXCEPT ![c] = Leave(c, outcome)],
         UNCHANGED <<registry, variables, outputs>>
  PROVE  SkillInv'
BY LeaveSound, StepOfOne

LEMMA StartCommandInv ==
  ASSUME SkillInv, NEW c \in Runs, Active(c), run[c].at = "ready", ~AtEnd(c), StartCommand(c)
  PROVE  SkillInv'
<1> DEFINE f == [Top(c) EXCEPT !.ran = @ \cup {Step(c).name}]
<1>1. /\ Top(c) \in Frames /\ Top(c) = run[c].frames[Frame(c)] /\ run[c] \in RunRecords
      /\ Top(c).skill \in DOMAIN Definition /\ Top(c).step \in Nat \ {0}
      /\ Frame(c) \in 1..Len(run[c].frames)
      /\ run[c].alone =>
           /\ Passed(c, Top(c), outputs)
           /\ Top(c).tries > 0 => Steps(Top(c))[Top(c).step].onError = "retry"
  BY ActiveRun DEF Sound, Active, Top, Frame
<1>2. Step(c).name \in STRING
  <2>1. /\ Definition[Top(c).skill].steps \in
             Seq([name : STRING, cond : Seq(STRING), onError : STRING, retries : Nat,
                  uses : STRING, calls : STRING])
        /\ Top(c).step \in 1..Len(Definition[Top(c).skill].steps)
    <3>1. Definition[Top(c).skill].steps \in
             Seq([name : STRING, cond : Seq(STRING), onError : STRING, retries : Nat,
                  uses : STRING, calls : STRING])
      BY <1>1, SkillAssumption
    <3> DEFINE n == Len(Definition[Top(c).skill].steps)
               k == Top(c).step
    <3>2. n \in Nat
      BY <3>1, LenProperties
    <3>3. k \in Nat \ {0} /\ ~(k > n)
      BY <1>1 DEF AtEnd
    <3> HIDE DEF n, k
    <3>4. k \in 1..n
      BY <3>2, <3>3
    <3> QED
      BY <3>1, <3>4 DEF n, k
  <2>2. Step(c) \in [name : STRING, cond : Seq(STRING), onError : STRING, retries : Nat,
                     uses : STRING, calls : STRING]
    BY <2>1, ElementOfSeq DEF Step
  <2> QED
    BY <2>2
<1>3. f \in Frames
  BY <1>1, <1>2, FrameChanges, 0 \in Nat
<1>4. f.given = Top(c).given /\ f.skill = Top(c).skill /\ f.step = Top(c).step /\ f.tries = Top(c).tries
  BY <1>1 DEF Frames
<1>5. run' = [run EXCEPT ![c] = Going(c, "command", f)]
  <2>1. run' = [run EXCEPT ![c] = [run[c] EXCEPT !.at = "command",
                                     !.frames[Frame(c)].ran = @ \cup {Step(c).name}]]
    BY DEF StartCommand, SkillInv, SkillTyped, RunRecords
  <2>2. [run[c] EXCEPT !.at = "command", !.frames[Frame(c)].ran = @ \cup {Step(c).name}]
          = Going(c, "command", f)
    <3>1. [run[c].frames EXCEPT ![Frame(c)].ran = @ \cup {Step(c).name}]
            = [run[c].frames EXCEPT ![Frame(c)] = f]
      BY <1>1
    <3>2. [run[c] EXCEPT !.at = "command", !.frames[Frame(c)].ran = @ \cup {Step(c).name}]
            = [run[c] EXCEPT !.at = "command",
                 !.frames = [run[c].frames EXCEPT ![Frame(c)].ran = @ \cup {Step(c).name}]]
      BY <1>1 DEF RunRecords
    <3> QED
      BY <3>1, <3>2 DEF Going
  <2> QED
    BY <2>1, <2>2
<1>6. run[c].alone => Passed(c, f, outputs) /\ (f.tries > 0 => Steps(f)[f.step].onError = "retry")
  BY <1>1, <1>4 DEF Passed, Steps
<1>7. UNCHANGED <<registry, variables, outputs>>
  BY DEF StartCommand
<1>8. "command" \in Places \ {"idle", "init"}
  BY DEF Places
<1> HIDE DEF f
<1> QED
  BY <1>3, <1>4, <1>5, <1>6, <1>7, <1>8, GoesOn

LEMMA WakeInv ==
  ASSUME SkillInv, NEW c \in Runs, Active(c), Wake(c)
  PROVE  SkillInv'
<1>1. /\ run[c] \in RunRecords /\ run[c].frames # <<>> /\ run[c].at = "asleep"
      /\ Sound(c, run[c], variables, outputs)
  BY ActiveRun DEF Wake
<1> DEFINE r == [run[c] EXCEPT !.at = "ready"]
<1>2. /\ r \in RunRecords /\ r.at = "ready" /\ r.frames = run[c].frames
      /\ r.spoilt = run[c].spoilt /\ r.alone = run[c].alone
  BY <1>1 DEF RunRecords, Places
<1>3. Sound(c, r, variables, outputs)
  BY <1>1, <1>2 DEF Sound
<1>4. run' = [run EXCEPT ![c] = r] /\ UNCHANGED <<registry, variables, outputs>>
  BY DEF Wake, SkillInv, SkillTyped
<1> QED
  BY <1>2, <1>3, <1>4, StepOfOne

-----------------------------------------------------------------------------
(* A run that replaces or fills the executor's maps.                       *)
LEMMA ArgumentsAre ==
  ASSUME NEW k \in DOMAIN Definition, NEW args \in Arguments[k]
  PROVE  args.given \in Givens /\ args.fault \in {"none", "missing", "unconvertible"}
<1>1. args.given \in Givens
  BY DEF Givens
<1>2. Arguments[k] =
        [given : Given(Definition[k].with), fault : {"none"}]
          \cup [given : {CHOOSE g \in Given(Definition[k].with) : TRUE},
                fault : (IF Definition[k].must THEN {"missing"} ELSE {})
                          \cup (IF Definition[k].typed THEN {"unconvertible"} ELSE {})]
  BY DEF Arguments
<1> QED
  BY <1>1, <1>2

LEMMA Spoilt ==
  ASSUME NEW r \in RunRecords, NEW q,
         \/ q = [r EXCEPT !.spoilt = TRUE]
         \/ q = [r EXCEPT !.spoilt = TRUE, !.alone = FALSE]
  PROVE  /\ q \in RunRecords /\ q.at = r.at /\ q.frames = r.frames /\ q.spoilt
         /\ q.alone => r.alone /\ q = [r EXCEPT !.spoilt = TRUE]
BY DEF RunRecords

LEMMA EnterInv ==
  ASSUME SkillInv, NEW c \in Runs, NEW k \in DOMAIN Definition, NEW args \in Arguments[k],
         Enter(c, k, args)
  PROVE  SkillInv'
<1> DEFINE f == [skill |-> k, given |-> args.given, fault |-> args.fault,
                 step |-> 1, tries |-> 0, ran |-> {}]
           r == [at |-> "init", frames |-> Append(run[c].frames, f), spoilt |-> FALSE,
                 alone |-> run[c].frames = <<>> /\ \A e \in Runs \ {c} : ~Active(e)]
<1>1. f \in Frames /\ f.step = 1 /\ f.tries = 0
  BY ArgumentsAre DEF Frames
<1>2. run[c] \in RunRecords /\ run[c].frames \in Seq(Frames) /\ run \in [Runs -> RunRecords]
  BY DEF SkillInv, SkillTyped, RunRecords
<1>3. r.frames \in Seq(Frames) /\ r.frames # <<>> /\ Last(r.frames) = f
  <2> HIDE DEF f
  <2> QED
    BY <1>1, <1>2, Pushed
<1>4. run'[c] = r /\ \A d \in Runs \ {c} : run'[d] = [run[d] EXCEPT !.spoilt = TRUE, !.alone = FALSE]
  BY DEF Enter
<1>5. r \in RunRecords /\ (r.alone => \A e \in Runs \ {c} : ~Active(e)) /\ r.at = "init"
  <2> HIDE DEF f
  <2> QED
    BY <1>3 DEF RunRecords, Places
<1>6. ASSUME NEW d \in Runs \ {c}
      PROVE  /\ run'[d] \in RunRecords /\ run'[d].at = run[d].at
             /\ run'[d].spoilt /\ ~run'[d].alone /\ run'[d].frames = run[d].frames
  <2>1. run[d] \in RunRecords
    BY <1>2
  <2>2. run'[d] = [run[d] EXCEPT !.spoilt = TRUE, !.alone = FALSE]
    BY <1>4
  <2>3. ~run'[d].alone
    BY <2>1, <2>2 DEF RunRecords
  <2> QED
    BY <2>1, <2>2, <2>3, Spoilt
<1>7. SkillTyped'
  <2>1. registry' = registry /\ run' = [d \in Runs |-> run'[d]]
    BY DEF Enter
  <2>2. \A d \in Runs : run'[d] \in RunRecords
    BY <1>4, <1>5, <1>6
  <2> QED
    BY <2>1, <2>2 DEF SkillInv, SkillTyped
<1>8. Sound(c, run'[c], variables', outputs')
  <2>1. Passed(c, f, outputs') /\ ~(f.tries > 0)
    BY <1>1 DEF Passed
  <2> HIDE DEF f
  <2>2. Sound(c, r, variables', outputs')
    BY <1>3, <1>5, <2>1 DEF Sound
  <2> QED
    BY <1>4, <2>2
<1>9. ASSUME NEW d \in Runs \ {c} PROVE Sound(d, run'[d], variables', outputs')
  <2>1. Sound(d, run[d], variables, outputs)
    BY DEF SkillInv
  <2> QED
    BY <1>6, <2>1 DEF Sound
<1>10. AloneIsAlone'
  <2> SUFFICES ASSUME NEW e \in Runs, run'[e].alone, NEW d \in Runs \ {e}
               PROVE  ~Active(d)'
    BY DEF AloneIsAlone
  <2>1. e = c
    BY <1>6
  <2>2. r.alone
    BY <1>4, <2>1
  <2> QED
    BY <1>5, <1>6, <2>1, <2>2 DEF Active
<1> QED
  BY <1>7, <1>8, <1>9, <1>10 DEF SkillInv

(* Run c writes its parameters into the map of variables: what the others  *)
(* find there is spoilt.                                                   *)
LEMMA SpoilsOthers ==
  ASSUME SkillInv, NEW c \in Runs, Active(c), NEW r \in RunRecords,
         run' = [Spoil(c) EXCEPT ![c] = r], UNCHANGED <<registry, outputs>>,
         Sound(c, r, variables', outputs), r.at # "idle" /\ r.alone => run[c].alone
  PROVE  SkillInv'
<1>1. run'[c] = r /\ \A d \in Runs \ {c} : run'[d] = [run[d] EXCEPT !.spoilt = TRUE]
  BY DEF Spoil
<1>2. ASSUME NEW d \in Runs \ {c}
      PROVE  /\ run'[d] \in RunRecords /\ run'[d].at = run[d].at /\ run'[d].spoilt
             /\ (run'[d].alone => run[d].alone) /\ run'[d].frames = run[d].frames
  <2>1. run[d] \in RunRecords
    BY DEF SkillInv, SkillTyped
  <2>2. run'[d] = [run[d] EXCEPT !.spoilt = TRUE]
    BY <1>1
  <2> QED
    BY <2>1, <2>2, Spoilt
<1>3. SkillTyped'
  <2>1. run' = [d \in Runs |-> run'[d]]
    BY DEF Spoil
  <2>2. \A d \in Runs : run'[d] \in RunRecords
    BY <1>1, <1>2
  <2> QED
    BY <2>1, <2>2 DEF SkillInv, SkillTyped
<1>4. ASSUME NEW d \in Runs \ {c} PROVE Sound(d, run'[d], variables', outputs')
  <2>1. Sound(d, run[d], variables, outputs)
    BY DEF SkillInv
  <2> QED
    BY <1>2, <2>1 DEF Sound
<1>5. AloneIsAlone'
  <2> SUFFICES ASSUME NEW e \in Runs, Active(e)', run'[e].alone, NEW d \in Runs \ {e}
               PROVE  ~Active(d)'
    BY DEF AloneIsAlone
  <2>1. Active(e) /\ run[e].alone
    BY <1>1, <1>2 DEF Active
  <2>2. ~Active(d)
    BY <2>1 DEF SkillInv, AloneIsAlone
  <2>3. d # c
    BY <2>2
  <2> QED
    BY <1>2, <2>2, <2>3 DEF Active
<1> QED
  BY <1>1, <1>3, <1>4, <1>5 DEF SkillInv

LEMMA FillInv ==
  ASSUME SkillInv, NEW c \in Runs, Active(c), Fill(c)
  PROVE  SkillInv'
<1>1. /\ run[c] \in RunRecords /\ run[c].frames # <<>> /\ run[c].at = "init"
      /\ Sound(c, run[c], variables, outputs)
  BY ActiveRun DEF Fill
<1> DEFINE r == [run[c] EXCEPT !.at = "ready"]
<1>2. /\ r \in RunRecords /\ r.at = "ready" /\ r.frames = run[c].frames
      /\ r.spoilt = run[c].spoilt /\ r.alone = run[c].alone
  BY <1>1 DEF RunRecords, Places
<1>3. Holds(variables', Top(c).given)
  BY Overwritten DEF Fill, InitParameters, Holds
<1>4. Sound(c, r, variables', outputs)
  BY <1>1, <1>2, <1>3 DEF Sound, Top
<1>5. run' = [Spoil(c) EXCEPT ![c] = r] /\ UNCHANGED <<registry, outputs>>
  BY DEF Fill, Spoil
<1> QED
  BY <1>2, <1>4, <1>5, SpoilsOthers

LEMMA FillFailsInv ==
  ASSUME SkillInv, NEW c \in Runs, Active(c), FillFails(c)
  PROVE  SkillInv'
<1>1. /\ run' = [Spoil(c) EXCEPT ![c] = Leave(c, "failed")]
      /\ UNCHANGED <<registry, outputs>>
  BY DEF FillFails
<1> QED
  BY <1>1, LeaveSound, SpoilsOthers

LEMMA ConcurrentMapAccessInv ==
  ASSUME SkillInv, ConcurrentMapAccess
  PROVE  SkillInv'
<1>1. run' = [c \in Runs |-> Idle] /\ registry' \in Registries
  BY DEF ConcurrentMapAccess
<1>2. Idle \in RunRecords /\ Idle.at = "idle"
  BY EmptySeq DEF Idle, RunRecords, Places
<1>3. registry' \subseteq DOMAIN Definition
  BY <1>1, SkillAssumption DEF Registries, LoadAll
<1> QED
  BY <1>1, <1>2, <1>3 DEF SkillInv, SkillTyped, Sound, AloneIsAlone, Active

-----------------------------------------------------------------------------
LEMMA SkillInitInv == SkillInit => SkillInv
<1> SUFFICES ASSUME SkillInit PROVE SkillInv
  OBVIOUS
<1>1. Idle \in RunRecords /\ Idle.at = "idle"
  BY EmptySeq DEF Idle, RunRecords, Places
<1>2. registry \subseteq DOMAIN Definition
  BY SkillAssumption DEF SkillInit, Registries, LoadAll
<1> QED
  BY <1>1, <1>2 DEF SkillInit, SkillInv, SkillTyped, Sound, AloneIsAlone, Active

LEMMA StartInv ==
  ASSUME SkillInv, NEW c \in Runs, Start(c)
  PROVE  SkillInv'
<1>1. PICK k \in Offered[c] : \E args \in Arguments[k] :
        ExecuteForUser(c, k, args) \/ ExecuteTask(c, k, args)
  BY DEF Start
<1>2. k \in DOMAIN Definition
  BY <1>1, SkillAssumption
<1>3. PICK args \in Arguments[k] : ExecuteForUser(c, k, args) \/ ExecuteTask(c, k, args)
  BY <1>1
<1>4. Enter(c, k, args)
  BY <1>3 DEF ExecuteForUser, ExecuteTask
<1> QED
  BY <1>2, <1>4, EnterInv

LEMMA RunStepInv ==
  ASSUME SkillInv, NEW c \in Runs, RunStep(c)
  PROVE  SkillInv'
<1> USE DEF RunStep
<1>1. CASE Fill(c)
  BY <1>1, FillInv
<1>2. CASE FillFails(c)
  BY <1>2, FillFailsInv
<1>3. CASE Return(c)
  BY <1>3, LeaveInv DEF Return
<1>4. CASE TimesOut(c)
  BY <1>4, LeaveInv DEF TimesOut
<1>5. CASE Skip(c)
  BY <1>5, StepOkInv DEF Skip
<1>6. CASE StartStep(c)
  <2>1. Active(c) /\ run[c].at = "ready" /\ ~AtEnd(c)
    BY <1>6 DEF StartStep
  <2>2. CASE StartCommand(c)
    BY <2>1, <2>2, StartCommandInv
  <2>3. CASE StartNested(c)
    <3>1. Step(c).calls \in DOMAIN Definition
      BY <2>3 DEF StartNested, SkillInv, SkillTyped
    <3> QED
      BY <2>3, <3>1, EnterInv DEF StartNested
  <2>4. CASE NestedMissing(c)
    BY <2>1, <2>4, StepFailsInv DEF NestedMissing
  <2> QED
    BY <1>6, <2>2, <2>3, <2>4 DEF StartStep
<1>7. CASE EndCommand(c)
  BY <1>7, StepOkInv, StepFailsInv DEF EndCommand
<1>8. CASE NestedReturned(c)
  BY <1>8, StepOkInv, StepFailsInv DEF NestedReturned
<1>9. CASE Wake(c)
  BY <1>9, WakeInv
<1> QED
  BY <1>1, <1>2, <1>3, <1>4, <1>5, <1>6, <1>7, <1>8, <1>9

LEMMA SkillNextInv == SkillInv /\ [SkillNext]_skillVars => SkillInv'
<1> SUFFICES ASSUME SkillInv, [SkillNext]_skillVars PROVE SkillInv'
  OBVIOUS
<1>1. CASE ConcurrentMapAccess
  BY <1>1, ConcurrentMapAccessInv
<1>2. ASSUME NEW c \in Runs, Start(c) \/ RunStep(c) PROVE SkillInv'
  BY <1>2, StartInv, RunStepInv
<1>3. CASE UNCHANGED skillVars
  BY <1>3 DEF skillVars, SkillInv, SkillTyped, AloneIsAlone, Active
<1> QED
  BY <1>1, <1>2, <1>3 DEF SkillNext

(* The state of the runs and what each may rely on in the executor's maps  *)
(* (ExecuteSkill, executeStep, executeNestedSkill, initParameters).        *)
THEOREM SkillInvariant == SkillSpec => []SkillInv
<1>1. SkillInit => SkillInv
  BY SkillInitInv
<1>2. SkillInv /\ [SkillNext]_skillVars => SkillInv'
  BY SkillNextInv
<1> QED
  BY <1>1, <1>2, PTL DEF SkillSpec

-----------------------------------------------------------------------------
(* With skills whose steps take only what earlier steps of theirs put out, *)
(* a run works with its own parameters and outputs (OwnInputs): of its     *)
(* parameters until another run starts or fills in its own or it calls a   *)
(* skill, of its outputs as long as it is alone (executeStep and           *)
(* renderTemplate on Executor.variables and stepOutputs).                  *)
LEMMA OwnInputsInv ==
  ASSUME \A k \in DOMAIN Definition : UsesEarlier(Definition[k].steps), SkillInv
  PROVE  OwnInputs
<1> SUFFICES ASSUME NEW c \in Runs, run[c].at = "ready", ~AtEnd(c)
             PROVE  /\ ~run[c].spoilt =>
                         \A x \in DOMAIN Top(c).given :
                           x \in DOMAIN variables /\ variables[x] = Top(c).given[x]
                    /\ run[c].alone /\ Step(c).uses # NoStep =>
                         Step(c).uses \in DOMAIN outputs /\ outputs[Step(c).uses] = c
  BY DEF OwnInputs
<1>1. Active(c)
  BY DEF Active
<1>2. /\ Top(c) \in Frames /\ Top(c).skill \in DOMAIN Definition /\ Top(c).step \in Nat \ {0}
      /\ Steps(Top(c)) = Definition[Top(c).skill].steps
      /\ Step(c) = Steps(Top(c))[Top(c).step]
      /\ ~run[c].spoilt => Holds(variables, Top(c).given)
      /\ run[c].alone => Passed(c, Top(c), outputs)
  BY <1>1, ActiveRun DEF Sound, Top
<1> DEFINE steps == Steps(Top(c))
           at == Top(c).step
<1>3. Len(steps) \in Nat /\ at \in 1..Len(steps) /\ DOMAIN steps = 1..Len(steps)
  <2>1. steps \in Seq([name : STRING, cond : Seq(STRING), onError : STRING, retries : Nat,
                       uses : STRING, calls : STRING])
    BY <1>2, SkillAssumption
  <2>2. Len(steps) \in Nat /\ DOMAIN steps = 1..Len(steps)
    BY <2>1, LenProperties
  <2>3. ~(at > Len(steps))
    BY <1>2 DEF AtEnd
  <2> HIDE DEF steps, at
  <2> QED
    BY <1>2, <2>2, <2>3 DEF at
<1>4. ASSUME run[c].alone, Step(c).uses # NoStep
      PROVE  Step(c).uses \in DOMAIN outputs /\ outputs[Step(c).uses] = c
  <2>1. PICK j \in 1..(at - 1) : steps[j].name = steps[at].uses
    BY <1>2, <1>3, <1>4 DEF UsesEarlier
  <2>2. steps[at].uses \in Used
    <3>1. steps[at] \in ToSet(Definition[Top(c).skill].steps)
      BY <1>2, <1>3 DEF ToSet
    <3> QED
      BY <1>2, <3>1 DEF Used
  <2> QED
    BY <1>2, <1>4, <2>1, <2>2 DEF Passed
<1> QED
  BY <1>2, <1>4 DEF Holds

THEOREM OwnInputsIfEarlier ==
  (\A k \in DOMAIN Definition : UsesEarlier(Definition[k].steps))
    => (SkillSpec => []OwnInputs)
<1> SUFFICES ASSUME \A k \in DOMAIN Definition : UsesEarlier(Definition[k].steps)
             PROVE  SkillSpec => []OwnInputs
  OBVIOUS
<1>1. SkillInv => OwnInputs
  BY OwnInputsInv
<1> QED
  BY <1>1, SkillInvariant, PTL

-----------------------------------------------------------------------------
(* The skills that come with the program are such skills: two of them, and *)
(* a file, have a step that takes another's output, an earlier one's.      *)
UsesNothing(steps) == \A i \in 1..Len(steps) : steps[i].uses = NoStep

LEMMA StepMade ==
  ASSUME NEW name
  PROVE  /\ Try(name).uses = NoStep /\ Must(name).uses = NoStep
         /\ Try(name).name = name /\ Must(name).name = name
BY DEF Try, Must

LEMMA ConditionMade ==
  ASSUME NEW cond, NEW name
  PROVE  If(cond, Try(name)).uses = NoStep /\ If(cond, Must(name)).uses = NoStep
BY DEF Try, Must, If

LEMMA RetryMade ==
  ASSUME NEW name, NEW n
  PROVE  Retry(name, n).uses = NoStep
BY DEF Try, Retry

LEMMA FromMade ==
  ASSUME NEW name, NEW used
  PROVE  From(used, Must(name)).uses = used
BY DEF Try, Must, From

LEMMA NothingIsEarlier ==
  ASSUME NEW steps, UsesNothing(steps)
  PROVE  UsesEarlier(steps)
BY DEF UsesNothing, UsesEarlier

LEMMA BackupsUseEarlier ==
  /\ UsesEarlier(BackupPostgres.steps)
  /\ UsesEarlier(BackupMySQL.steps)
  /\ UsesEarlier(BackupPostgresFile.steps)
  /\ UsesNothing(RestartServiceFile.steps)
<1>1. UsesEarlier(BackupPostgres.steps)
  <2> DEFINE s == BackupPostgres.steps
  <2>1. /\ s[1].uses = NoStep /\ s[2].uses = NoStep /\ s[3].uses = NoStep /\ s[5].uses = NoStep
        /\ s[4].uses = "run_backup" /\ s[3].name = "run_backup" /\ Len(s) = 5
    BY StepMade, FromMade DEF BackupPostgres, Skill
  <2> HIDE DEF s
  <2> QED
    BY <2>1 DEF UsesEarlier, s
<1>2. UsesEarlier(BackupMySQL.steps)
  <2> DEFINE s == BackupMySQL.steps
  <2>1. /\ s[1].uses = NoStep /\ s[2].uses = NoStep
        /\ s[3].uses = "run_backup" /\ s[2].name = "run_backup" /\ Len(s) = 3
    BY StepMade, FromMade DEF BackupMySQL, Skill
  <2> HIDE DEF s
  <2> QED
    BY <2>1 DEF UsesEarlier, s
<1>3. UsesEarlier(BackupPostgresFile.steps)
  <2> DEFINE s == BackupPostgresFile.steps
  <2>1. /\ s[1].uses = NoStep /\ s[2].uses = NoStep /\ s[3].uses = NoStep /\ s[5].uses = NoStep
        /\ s[4].uses = "dump_database" /\ s[3].name = "dump_database" /\ Len(s) = 5
    BY StepMade, FromMade DEF BackupPostgresFile, Skill
  <2> HIDE DEF s
  <2> QED
    BY <2>1 DEF UsesEarlier, s
<1>4. UsesNothing(RestartServiceFile.steps)
  BY StepMade, ConditionMade, RetryMade DEF UsesNothing, RestartServiceFile, Skill
<1> QED
  BY <1>1, <1>2, <1>3, <1>4

LEMMA OthersUseNothing ==
  \A name \in BuiltinNames \ {"backup:postgres", "backup:mysql"} :
    UsesNothing(Builtin(name).steps)
<1>1. UsesNothing(Backup.steps)
  BY StepMade, ConditionMade DEF UsesNothing, Backup, Skill
<1>2. UsesNothing(Healthcheck.steps)
  BY StepMade, ConditionMade DEF UsesNothing, Healthcheck, Skill
<1>3. UsesNothing(SystemHealth.steps)
  BY StepMade, ConditionMade DEF UsesNothing, SystemHealth, Skill
<1>4. UsesNothing(DockerHealth.steps)
  BY StepMade, ConditionMade DEF UsesNothing, DockerHealth, Skill
<1>5. UsesNothing(ServiceHealth.steps)
  BY StepMade, ConditionMade DEF UsesNothing, ServiceHealth, Skill
<1>6. UsesNothing(RestartContainer.steps)
  BY StepMade, ConditionMade DEF UsesNothing, RestartContainer, Skill
<1>7. UsesNothing(Scale.steps)
  BY StepMade, ConditionMade DEF UsesNothing, Scale, Skill
<1>8. UsesNothing(RollingRestart.steps)
  BY StepMade, ConditionMade DEF UsesNothing, RollingRestart, Skill
<1>9. UsesNothing(Cleanup.steps)
  BY StepMade, ConditionMade DEF UsesNothing, Cleanup, Skill
<1>10. UsesNothing(CleanupDocker.steps)
  BY StepMade, ConditionMade DEF UsesNothing, CleanupDocker, Skill
<1>11. UsesNothing(CleanupLogs.steps)
  BY StepMade, ConditionMade DEF UsesNothing, CleanupLogs, Skill
<1>12. UsesNothing(SystemInfo.steps)
  BY StepMade, ConditionMade DEF UsesNothing, SystemInfo, Skill
<1>13. UsesNothing(NetworkDiag.steps)
  BY StepMade, ConditionMade DEF UsesNothing, NetworkDiag, Skill
<1>14. UsesNothing(PortCheck.steps)
  BY StepMade, ConditionMade DEF UsesNothing, PortCheck, Skill
<1>15. UsesNothing(NetworkStats.steps)
  BY StepMade, ConditionMade DEF UsesNothing, NetworkStats, Skill
<1>16. UsesNothing(LogTail.steps)
  BY StepMade, ConditionMade DEF UsesNothing, LogTail, Skill
<1>17. UsesNothing(LogSearch.steps)
  BY StepMade, ConditionMade DEF UsesNothing, LogSearch, Skill
<1>18. UsesNothing(ServiceRestart.steps)
  BY StepMade, ConditionMade DEF UsesNothing, ServiceRestart, Skill
<1>19. UsesNothing(NginxReload.steps)
  BY StepMade, ConditionMade DEF UsesNothing, NginxReload, Skill
<1>20. UsesNothing(SSLCheck.steps)
  BY StepMade, ConditionMade DEF UsesNothing, SSLCheck, Skill
<1>21. UsesNothing(SSLRenew.steps)
  BY StepMade, ConditionMade DEF UsesNothing, SSLRenew, Skill
<1>22. UsesNothing(FirewallStatus.steps)
  BY StepMade, ConditionMade DEF UsesNothing, FirewallStatus, Skill
<1>23. UsesNothing(FirewallAllow.steps)
  BY StepMade, ConditionMade DEF UsesNothing, FirewallAllow, Skill
<1>24. UsesNothing(FirewallDeny.steps)
  BY StepMade, ConditionMade DEF UsesNothing, FirewallDeny, Skill
<1>25. UsesNothing(DockerStats.steps)
  BY StepMade, ConditionMade DEF UsesNothing, DockerStats, Skill
<1>26. UsesNothing(DockerInspect.steps)
  BY StepMade, ConditionMade DEF UsesNothing, DockerInspect, Skill
<1>27. UsesNothing(DockerLogsAnalyze.steps)
  BY StepMade, ConditionMade DEF UsesNothing, DockerLogsAnalyze, Skill
<1>28. UsesNothing(CaddyReload.steps)
  BY StepMade, ConditionMade DEF UsesNothing, CaddyReload, Skill
<1>29. UsesNothing(CaddyStatus.steps)
  BY StepMade, ConditionMade DEF UsesNothing, CaddyStatus, Skill
<1>30. UsesNothing(CaddyLogs.steps)
  BY StepMade, ConditionMade DEF UsesNothing, CaddyLogs, Skill, AccessLogs, ErrorLogs
<1>31. UsesNothing(NginxStatus.steps)
  BY StepMade, ConditionMade DEF UsesNothing, NginxStatus, Skill
<1>32. UsesNothing(NginxLogs.steps)
  BY StepMade, ConditionMade DEF UsesNothing, NginxLogs, Skill, AccessLogs, ErrorLogs
<1> QED
  BY <1>1, <1>2, <1>3, <1>4, <1>5, <1>6, <1>7, <1>8, <1>9, <1>10, <1>11,
     <1>12, <1>13, <1>14, <1>15, <1>16, <1>17, <1>18, <1>19, <1>20, <1>21, <1>22,
     <1>23, <1>24, <1>25, <1>26, <1>27, <1>28, <1>29, <1>30, <1>31, <1>32
  DEF Builtin, BuiltinNames

(* No skill of the program takes the output of a step that is not before   *)
(* the one that takes it (internal/skills/builtin, skills/*.yaml).         *)
THEOREM BuiltinsUseEarlier ==
  /\ \A name \in BuiltinNames : UsesEarlier(Builtin(name).steps)
  /\ UsesEarlier(RestartServiceFile.steps) /\ UsesEarlier(BackupPostgresFile.steps)
<1>1. /\ Builtin("backup:postgres") = BackupPostgres
      /\ Builtin("backup:mysql") = BackupMySQL
  BY DEF Builtin
<1> QED
  BY <1>1, BackupsUseEarlier, OthersUseNothing, NothingIsEarlier

=============================================================================
