------------------------ MODULE PlanExecution_proofs -------------------------
(***************************************************************************)
(* Proofs about PlanExecution: for plans of any length, any number of      *)
(* attempts and both ways an execution starts.                             *)
(***************************************************************************)
EXTENDS PlanExecution, TLAPS

USE ExecutionAssumption

(***************************************************************************)
(* The step at hand                                                        *)
(***************************************************************************)
\* Both loops work on one step at a time: splitStepsByStage is a total order.
LEMMA OneCurrent ==
    ASSUME TypeOK, NEW s \in Steps, NEW t \in Steps, Current(s), Current(t)
    PROVE  s = t
<1>1. CASE pc = "run"
  <2>1. Before(s, t) /\ Before(t, s)
    BY <1>1 DEF Current
  <2>2. QED
    BY <2>1 DEF Before, Steps
<1>2. CASE pc = "undo"
  BY <1>2 DEF Current, Steps
<1>3. QED
  BY <1>1, <1>2 DEF Current

\* The step at hand is in its loop, and the loops' other state allows it.
LEMMA CurrentPlace ==
    ASSUME IInv, NEW s \in Steps, Current(s)
    PROVE  \/ pc = "run" /\ s \in todo /\ failed = 0 /\ undo = {} /\ Kind = "do"
           \/ pc = "undo" /\ s \in undo /\ failed # 0 /\ Kind = "undo"
BY DEF IInv, TypeOK, LoopsGood, Current, Kind

\* What a step does to the loops decides which step is next.
LEMMA SameCurrent ==
    ASSUME UNCHANGED <<plan, pc, todo, undo>>
    PROVE  \A s : Current(s)' = Current(s)
BY DEF Current, Before, StageGiven

(***************************************************************************)
(* The initial states                                                      *)
(***************************************************************************)
LEMMA InitIInv == Init => IInv
<1> SUFFICES ASSUME Init PROVE IInv
  OBVIOUS
<1>1. TypeOK
  BY DEF Init, TypeOK, Kinds
<1>2. LoopsGood
  BY DEF Init, LoopsGood
<1>3. EffectsGood
  BY DEF Init, EffectsGood, Current, Ran, Kinds, Steps
<1>4. StepsGood
  BY DEF Init, StepsGood, Current
<1>5. StatusGood /\ RollbackGood
  BY DEF Init, StatusGood, RollbackGood
<1>6. QED
  BY <1>1, <1>2, <1>3, <1>4, <1>5 DEF IInv

(***************************************************************************)
(* The steps of one attempt                                                *)
(***************************************************************************)
LEMMA InsertToolCallIInv ==
    ASSUME IInv, NEW s \in Steps, InsertToolCall(s)
    PROVE  IInv'
<1>1. UNCHANGED <<plan, status, pc, todo, undo, attempt, failed, tried, effects, evidence>>
  BY DEF InsertToolCall, wfVars
<1>2. Kind \in Kinds
  BY DEF Kind, Kinds
<1>3. TypeOK'
  BY <1>1, <1>2 DEF IInv, TypeOK, InsertToolCall
<1>4. LoopsGood'
  BY <1>1, CurrentPlace DEF IInv, LoopsGood, InsertToolCall
<1>5. Ran = 0 /\ Ran' = 0
  BY DEF Ran, InsertToolCall
<1>6. EffectsGood'
  BY <1>1, <1>5, SameCurrent DEF IInv, EffectsGood
<1>7. StepsGood'
  <2>1. ASSUME failed = 0, NEW t \in Steps \ todo
        PROVE  Recorded(t)'
    <3>1. s \in todo /\ Kind = "do"
      BY <2>1, CurrentPlace DEF InsertToolCall
    <3>2. rows'["do"][t] = rows["do"][t]
      BY <2>1, <3>1 DEF InsertToolCall, IInv, TypeOK, Kinds
    <3>3. QED
      BY <1>1, <2>1, <3>2 DEF IInv, StepsGood, Recorded
  <2>2. QED
    BY <1>1, <2>1 DEF StepsGood, InsertToolCall
<1>8. StatusGood' /\ RollbackGood'
  BY <1>1 DEF IInv, StatusGood, RollbackGood, FailureUndoes, StageGiven, ActSteps
<1>9. QED
  BY <1>3, <1>4, <1>6, <1>7, <1>8 DEF IInv

LEMMA RunToolIInv ==
    ASSUME IInv, NEW s \in Steps, RunTool(s)
    PROVE  IInv'
<1>1. UNCHANGED <<plan, status, pc, todo, undo, attempt, failed, tried, rows, evidence>>
  BY DEF RunTool, wfVars
<1>2. Kind \in Kinds /\ Kind' = Kind
  BY <1>1 DEF Kind, Kinds
<1>3. Ran = 0 /\ Ran' = 1 /\ call' = "ran"
  BY DEF Ran, RunTool
<1>4. effects[Kind][s] \in 0 .. attempt /\ attempt \in 0 .. MaxAttempts - 1
  BY <1>3, CurrentPlace DEF IInv, TypeOK, EffectsGood, RunTool, Kinds
<1>5. effects' = [effects EXCEPT ![Kind][s] = @ + 1]
  BY DEF RunTool
<1>6. TypeOK'
  <2>1. effects[Kind][s] + 1 \in 0 .. MaxAttempts
    BY <1>4
  <2>2. effects' \in [Kinds -> [Steps -> 0 .. MaxAttempts]]
    BY <1>2, <1>5, <2>1 DEF IInv, TypeOK
  <2>3. QED
    BY <1>1, <1>3, <2>2 DEF IInv, TypeOK
<1>7. LoopsGood'
  BY <1>1, CurrentPlace DEF IInv, LoopsGood, RunTool
<1>8. \A k \in Kinds, t \in Steps :
        effects'[k][t] = IF k = Kind /\ t = s THEN effects[k][t] + 1 ELSE effects[k][t]
  BY <1>2, <1>5 DEF IInv, TypeOK
<1>9. EffectsGood'
  <2>1. ASSUME pc \in {"none", "new", "run"}, NEW t \in todo
        PROVE  effects'["do"][t] <= IF Current(t) THEN attempt + 1 ELSE 0
    <3>1. t \in Steps /\ effects["do"][t] \in Nat
      BY DEF IInv, TypeOK, Kinds
    <3>2. effects["do"][t] <= IF Current(t) THEN attempt ELSE 0
      BY <1>3, <1>4, <2>1 DEF IInv, EffectsGood
    <3>3. CASE t = s
      BY <1>4, <1>8, <3>1, <3>2, <3>3 DEF RunTool, Kinds
    <3>4. CASE t # s
      BY <1>4, <1>8, <3>1, <3>2, <3>4 DEF Kinds
    <3>5. QED
      BY <3>3, <3>4
  <2>2. ASSUME NEW t \in undo
        PROVE  effects'["undo"][t] <= IF Current(t) THEN attempt + 1 ELSE 0
    <3>1. t \in Steps /\ effects["undo"][t] \in Nat
      BY DEF IInv, TypeOK, Kinds
    <3>2. effects["undo"][t] <= IF Current(t) THEN attempt ELSE 0
      BY <1>3, <1>4 DEF IInv, EffectsGood
    <3>3. CASE t = s
      BY <1>4, <1>8, <3>1, <3>2, <3>3 DEF RunTool, Kinds
    <3>4. CASE t # s
      BY <1>4, <1>8, <3>1, <3>2, <3>4 DEF Kinds
    <3>5. QED
      BY <3>3, <3>4
  <2>3. ASSUME failed = 0, NEW t \in Steps
        PROVE  effects'["undo"][t] = 0
    <3>1. Kind = "do"
      BY <2>3, CurrentPlace DEF RunTool
    <3>2. QED
      BY <1>8, <2>3, <3>1 DEF IInv, EffectsGood, Kinds
  <2>4. QED
    BY <1>1, <1>3, <2>1, <2>2, <2>3, SameCurrent DEF EffectsGood
<1>10. StepsGood'
  <2>1. ASSUME failed = 0, NEW t \in Steps \ todo
        PROVE  Recorded(t)'
    <3>1. s \in todo
      BY <2>1, CurrentPlace DEF RunTool
    <3>2. effects'["do"][t] = effects["do"][t]
      BY <1>8, <2>1, <3>1 DEF Kinds
    <3>3. QED
      BY <1>1, <2>1, <3>2 DEF IInv, StepsGood, Recorded
  <2>2. ASSUME NEW t \in Steps, Current(t)
        PROVE  effects'[Kind][t] > 0
    <3>1. t = s
      BY <2>2, OneCurrent DEF RunTool, IInv
    <3>2. QED
      BY <1>2, <1>4, <1>8, <3>1
  <2>3. QED
    BY <1>1, <1>2, <1>3, <2>1, <2>2, SameCurrent DEF StepsGood
<1>11. StatusGood' /\ RollbackGood'
  BY <1>1 DEF IInv, StatusGood, RollbackGood, FailureUndoes, StageGiven, ActSteps
<1>12. QED
  BY <1>6, <1>7, <1>9, <1>10, <1>11 DEF IInv

LEMMA StoreOutputIInv ==
    ASSUME IInv, NEW s \in Steps, StoreOutput(s)
    PROVE  IInv'
<1>1. UNCHANGED <<plan, status, pc, todo, undo, attempt, failed, tried, effects, evidence>>
  BY DEF StoreOutput, wfVars
<1>2. Kind \in Kinds /\ Kind' = Kind
  BY <1>1 DEF Kind, Kinds
<1>3. Ran = 1 /\ Ran' = 1 /\ call' = "stored" /\ call = "ran"
  BY DEF Ran, StoreOutput
<1>4. TypeOK'
  BY <1>1, <1>2 DEF IInv, TypeOK, StoreOutput
<1>5. LoopsGood'
  BY <1>1, CurrentPlace DEF IInv, LoopsGood, StoreOutput
<1>6. EffectsGood'
  BY <1>1, <1>3, SameCurrent DEF IInv, EffectsGood
<1>7. \A k \in Kinds, t \in Steps :
        rows'[k][t] = IF k = Kind /\ t = s THEN "succeeded" ELSE rows[k][t]
  BY <1>2 DEF IInv, TypeOK, StoreOutput
<1>8. StepsGood'
  <2>1. ASSUME failed = 0, NEW t \in Steps \ todo
        PROVE  Recorded(t)'
    <3>1. Recorded(t)
      BY <2>1 DEF IInv, StepsGood
    <3>2. rows'["do"][t] = "succeeded"
      BY <1>7, <3>1 DEF Recorded, Kinds
    <3>3. QED
      BY <1>1, <3>1, <3>2 DEF Recorded
  <2>2. ASSUME NEW t \in Steps, Current(t)
        PROVE  effects[Kind][t] > 0 /\ rows'[Kind][t] = "succeeded"
    <3>1. t = s
      BY <2>2, OneCurrent DEF StoreOutput, IInv
    <3>2. QED
      BY <1>2, <1>3, <1>7, <2>2, <3>1 DEF IInv, StepsGood
  <2>3. QED
    BY <1>1, <1>2, <1>3, <2>1, <2>2, SameCurrent DEF StepsGood
<1>9. StatusGood' /\ RollbackGood'
  BY <1>1 DEF IInv, StatusGood, RollbackGood, FailureUndoes, StageGiven, ActSteps
<1>10. QED
  BY <1>4, <1>5, <1>6, <1>8, <1>9 DEF IInv

(***************************************************************************)
(* The end of an attempt                                                   *)
(***************************************************************************)
\* What every end of an attempt does to the records of the steps.
AttemptOver(s) ==
    /\ call' = "none" /\ UNCHANGED <<plan, status, effects>>
    /\ rows' \in [Kinds -> [Steps -> {"none", "running", "succeeded", "failed"}]]
    /\ pc = "run" => \A t \in Steps \ {s} : rows'["do"][t] = rows["do"][t]
    /\ evidence' \subseteq Steps /\ evidence \subseteq evidence'

\* The status is not final while a loop runs, so it says nothing of the loops.
LEMMA StatusKept ==
    ASSUME IInv, pc \in {"run", "undo"}, UNCHANGED status
    PROVE  StatusGood' /\ status # "absent"
BY DEF IInv, StatusGood, LoopsGood

\* A loop that goes on past a step, the step being recorded if it was to be done.
LEMMA StepDoneIInv ==
    ASSUME IInv, NEW s \in Steps, Current(s), AttemptOver(s), StepDone(s),
           pc = "run" => Recorded(s)'
    PROVE  IInv'
<1>1. UNCHANGED <<plan, status, effects>> /\ call' = "none" /\ Ran' = 0
  BY DEF AttemptOver, Ran
<1>2. \A t \in Steps : Current(t) => t = s
  BY OneCurrent DEF IInv
<1>3. StatusGood' /\ status # "absent"
  BY <1>1, StatusKept DEF Current
<1>4. effects \in [Kinds -> [Steps -> 0 .. MaxAttempts]]
  BY DEF IInv, TypeOK
<1>5. CASE pc = "run"
  <2>1. /\ todo' = todo \ {s} /\ pc' = IF todo' = {} THEN "complete" ELSE "run"
        /\ attempt' = 0 /\ UNCHANGED <<undo, failed, tried>>
    BY <1>5 DEF StepDone
  <2>2. s \in todo /\ failed = 0 /\ undo = {} /\ todo \subseteq Steps
    BY <1>5, CurrentPlace DEF IInv, TypeOK
  <2>3. TypeOK'
    BY <1>1, <2>1 DEF IInv, TypeOK, AttemptOver
  <2>4. LoopsGood'
    BY <1>1, <1>3, <2>1, <2>2 DEF LoopsGood
  <2>5. EffectsGood'
    <3>1. \A t \in todo' : effects["do"][t] = 0
      <4> SUFFICES ASSUME NEW t \in todo' PROVE effects["do"][t] = 0
        OBVIOUS
      <4>1. t \in todo /\ t \in Steps /\ ~Current(t)
        BY <1>2, <2>1, <2>2
      <4>2. effects["do"][t] <= 0
        BY <1>5, <4>1 DEF IInv, EffectsGood
      <4>3. QED
        BY <1>4, <4>1, <4>2 DEF Kinds
    <3>2. \A t \in Steps : effects["undo"][t] = 0
      BY <2>2 DEF IInv, EffectsGood
    <3>3. QED
      BY <1>1, <2>1, <2>2, <3>1, <3>2 DEF EffectsGood
  <2>6. StepsGood'
    <3> SUFFICES ASSUME NEW t \in Steps \ todo' PROVE Recorded(t)'
      BY <1>1 DEF StepsGood
    <3>1. CASE t = s
      BY <1>5, <3>1
    <3>2. CASE t # s
      <4>1. Recorded(t)
        BY <2>1, <2>2, <3>2 DEF IInv, StepsGood
      <4>2. QED
        BY <1>1, <1>5, <3>2, <4>1 DEF Recorded, AttemptOver
    <3>3. QED
      BY <3>1, <3>2
  <2>7. RollbackGood'
    BY <2>1, <2>2 DEF RollbackGood
  <2>8. QED
    BY <1>3, <2>3, <2>4, <2>5, <2>6, <2>7 DEF IInv
<1>6. CASE pc = "undo"
  <2>1. /\ undo' = undo \ {s} /\ tried' = tried \cup {s}
        /\ pc' = IF undo' = {} THEN "complete" ELSE "undo"
        /\ attempt' = 0 /\ UNCHANGED <<todo, failed>>
    BY <1>6 DEF StepDone
  <2>2. s \in undo /\ failed # 0 /\ undo \subseteq Steps
    BY <1>6, CurrentPlace DEF IInv, TypeOK
  <2>3. TypeOK'
    BY <1>1, <2>1 DEF IInv, TypeOK, AttemptOver
  <2>4. LoopsGood'
    BY <1>1, <1>3, <2>1, <2>2 DEF LoopsGood
  <2>5. EffectsGood'
    <3>1. \A t \in undo' : effects["undo"][t] = 0
      <4> SUFFICES ASSUME NEW t \in undo' PROVE effects["undo"][t] = 0
        OBVIOUS
      <4>1. t \in undo /\ t \in Steps /\ ~Current(t)
        BY <1>2, <2>1, <2>2
      <4>2. effects["undo"][t] <= 0
        BY <4>1 DEF IInv, EffectsGood
      <4>3. QED
        BY <1>4, <4>1, <4>2 DEF Kinds
    <3>2. QED
      BY <1>1, <2>1, <2>2, <3>1 DEF EffectsGood
  <2>6. StepsGood'
    BY <1>1, <2>1, <2>2 DEF StepsGood
  <2>7. RollbackGood'
    BY <1>1, <2>1 DEF IInv, RollbackGood, FailureUndoes, StageGiven, ActSteps
  <2>8. QED
    BY <1>3, <2>3, <2>4, <2>5, <2>6, <2>7 DEF IInv
<1>7. QED
  BY <1>5, <1>6 DEF StepDone

\* The forward loops end with a failed step and the rollback starts.
LEMMA StepFailedIInv ==
    ASSUME IInv, NEW s \in Steps, Current(s), AttemptOver(s), StepFailed(s), pc = "run"
    PROVE  IInv'
<1>1. UNCHANGED <<plan, status, effects>> /\ call' = "none" /\ Ran' = 0
  BY DEF AttemptOver, Ran
<1>2. /\ undo' = FailureUndoes(s) /\ failed' = s
      /\ pc' = IF undo' = {} THEN "complete" ELSE "undo"
      /\ attempt' = 0 /\ UNCHANGED <<todo, tried>>
  BY DEF StepFailed
<1>3. StatusGood' /\ status # "absent"
  BY <1>1, StatusKept
<1>4. failed = 0 /\ failed' # 0 /\ undo' \subseteq Steps
  BY <1>2, CurrentPlace DEF FailureUndoes, ActSteps, Steps
<1>5. TypeOK'
  BY <1>1, <1>2, <1>4 DEF IInv, TypeOK, AttemptOver
<1>6. LoopsGood'
  BY <1>1, <1>2, <1>3, <1>4 DEF LoopsGood
<1>7. EffectsGood'
  <2>1. \A t \in undo' : effects["undo"][t] = 0
    BY <1>4 DEF IInv, EffectsGood
  <2>2. QED
    BY <1>1, <1>2, <1>4, <2>1 DEF EffectsGood
<1>8. StepsGood'
  BY <1>1, <1>4 DEF StepsGood
<1>9. RollbackGood'
  BY <1>1, <1>2 DEF RollbackGood, FailureUndoes, StageGiven, ActSteps
<1>10. QED
  BY <1>3, <1>5, <1>6, <1>7, <1>8, <1>9 DEF IInv

\* Temporal starts the activity again.
LEMMA RetryIInv ==
    ASSUME IInv, NEW s \in Steps, Current(s), AttemptOver(s), ~LastAttempt,
           attempt' = attempt + 1, UNCHANGED <<pc, todo, undo, failed, tried>>
    PROVE  IInv'
<1>1. UNCHANGED <<plan, status, effects>> /\ call' = "none" /\ Ran' = 0
  BY DEF AttemptOver, Ran
<1>2. StatusGood' /\ status # "absent"
  BY <1>1, StatusKept DEF Current
<1>3. attempt \in Nat /\ attempt' \in 0 .. MaxAttempts - 1 /\ Ran \in {0, 1}
  BY DEF IInv, TypeOK, LastAttempt, Ran
<1>4. TypeOK'
  BY <1>1, <1>3 DEF IInv, TypeOK, AttemptOver
<1>5. LoopsGood'
  BY <1>1 DEF IInv, LoopsGood
<1>6. EffectsGood'
  <2>1. \A k \in Kinds, t \in Steps : effects[k][t] \in Nat
    BY DEF IInv, TypeOK
  <2>2. ASSUME pc \in {"none", "new", "run"}, NEW t \in todo
        PROVE  effects["do"][t] <= IF Current(t) THEN attempt + 1 ELSE 0
    <3>1. effects["do"][t] <= IF Current(t) THEN attempt + Ran ELSE 0
      BY <2>2 DEF IInv, EffectsGood
    <3>2. t \in Steps
      BY DEF IInv, TypeOK
    <3>3. QED
      BY <1>3, <2>1, <3>1, <3>2 DEF Kinds
  <2>3. ASSUME NEW t \in undo
        PROVE  effects["undo"][t] <= IF Current(t) THEN attempt + 1 ELSE 0
    <3>1. effects["undo"][t] <= IF Current(t) THEN attempt + Ran ELSE 0
      BY <2>3 DEF IInv, EffectsGood
    <3>2. t \in Steps
      BY DEF IInv, TypeOK
    <3>3. QED
      BY <1>3, <2>1, <3>1, <3>2 DEF Kinds
  <2>4. failed = 0 => \A t \in Steps : effects["undo"][t] = 0
    BY DEF IInv, EffectsGood
  <2>5. attempt' + 0 = attempt + 1
    BY <1>3
  <2>6. QED
    BY <1>1, <2>2, <2>3, <2>4, <2>5, SameCurrent DEF EffectsGood
<1>7. StepsGood'
  <2> SUFFICES ASSUME failed = 0, NEW t \in Steps \ todo PROVE Recorded(t)'
    BY <1>1 DEF StepsGood
  <2>1. Recorded(t) /\ pc = "run" /\ t # s
    BY CurrentPlace DEF IInv, StepsGood
  <2>2. QED
    BY <1>1, <2>1 DEF Recorded, AttemptOver
<1>8. RollbackGood'
  BY <1>1 DEF IInv, RollbackGood, FailureUndoes, StageGiven, ActSteps
<1>9. QED
  BY <1>2, <1>4, <1>5, <1>6, <1>7, <1>8 DEF IInv

LEMMA StepReturnsIInv ==
    ASSUME IInv, NEW s \in Steps, StepReturns(s)
    PROVE  IInv'
<1>1. Current(s) /\ call = "stored" /\ StepDone(s) /\ UNCHANGED <<rows, effects>>
  BY DEF StepReturns
<1>2. AttemptOver(s)
  BY DEF StepReturns, AttemptOver, IInv, TypeOK
<1>3. ASSUME pc = "run" PROVE Recorded(s)'
  <2>1. effects["do"][s] > 0 /\ rows["do"][s] = "succeeded"
    BY <1>1, <1>3 DEF IInv, StepsGood, Kind
  <2>2. QED
    BY <1>1, <1>3, <2>1 DEF StepReturns, Recorded
<1>4. QED
  BY <1>1, <1>2, <1>3, StepDoneIInv

LEMMA AttemptFailsIInv ==
    ASSUME IInv, NEW s \in Steps, AttemptFails(s)
    PROVE  IInv'
<1>1. Current(s)
  BY DEF AttemptFails
<1>2. AttemptOver(s)
  <2>1. Kind \in Kinds
    BY DEF Kind, Kinds
  <2>2. rows' = rows \/ rows' = [rows EXCEPT ![Kind][s] = "failed"]
    BY DEF AttemptFails
  <2>3. rows' \in [Kinds -> [Steps -> {"none", "running", "succeeded", "failed"}]]
    <3>1. CASE rows' = rows
      BY <3>1 DEF IInv, TypeOK
    <3>2. CASE rows' = [rows EXCEPT ![Kind][s] = "failed"]
      BY <2>1, <3>2 DEF IInv, TypeOK
    <3>3. QED
      BY <2>2, <3>1, <3>2
  <2>4. \A t \in Steps \ {s} : rows'["do"][t] = rows["do"][t]
    BY <2>1, <2>2 DEF IInv, TypeOK, Kinds
  <2>5. QED
    BY <2>3, <2>4 DEF AttemptFails, AttemptOver, IInv, TypeOK
<1>3. CASE ~LastAttempt
  BY <1>1, <1>2, <1>3, RetryIInv DEF AttemptFails
<1>4. CASE LastAttempt /\ pc = "run"
  BY <1>1, <1>2, <1>4, StepFailedIInv DEF AttemptFails
<1>5. CASE LastAttempt /\ pc = "undo"
  <2>1. StepDone(s)
    BY <1>5 DEF AttemptFails, StepFailed
  <2>2. QED
    BY <1>1, <1>2, <1>5, <2>1, StepDoneIInv
<1>6. QED
  BY <1>1, <1>3, <1>4, <1>5 DEF Current

(***************************************************************************)
(* The steps that write the status                                         *)
(***************************************************************************)
LEMMA MarkRunningIInv ==
    ASSUME IInv, MarkRunning
    PROVE  IInv'
<1>1. /\ pc = "new" /\ todo = Steps /\ failed = 0 /\ undo = {} /\ call = "none"
      /\ UNCHANGED <<plan, todo, undo, call, rows, effects, evidence, failed, tried>>
  BY DEF MarkRunning, IInv, LoopsGood
<1>2. /\ status' \in {"running", status} /\ attempt' \in 0 .. MaxAttempts - 1
      /\ \/ pc' = IF todo = {} THEN "complete" ELSE "run"
         \/ pc' = "ended"
         \/ pc' = "new"
  BY <1>1 DEF MarkRunning, WriteStatus, LastAttempt, IInv, TypeOK
<1>3. pc' = "complete" => todo = {}
  BY <1>2
<1>4. status \notin {"absent", "succeeded", "failed"}
  BY <1>1 DEF IInv, LoopsGood, StatusGood
<1>5. TypeOK'
  BY <1>1, <1>2 DEF IInv, TypeOK
<1>6. LoopsGood'
  BY <1>1, <1>2, <1>4 DEF LoopsGood
<1>7. EffectsGood'
  <2>1. \A s \in Steps : effects["do"][s] <= 0
    BY <1>1 DEF IInv, EffectsGood, Current
  <2>2. \A s \in Steps : effects["undo"][s] = 0
    BY <1>1 DEF IInv, EffectsGood
  <2>3. \A s \in Steps : effects["do"][s] = 0
    BY <2>1 DEF IInv, TypeOK, Kinds
  <2>4. Ran' = 0 /\ attempt' \in Nat
    BY <1>1, <1>2 DEF Ran
  <2>5. QED
    BY <1>1, <2>2, <2>3, <2>4 DEF EffectsGood
<1>8. StepsGood' /\ StatusGood' /\ RollbackGood'
  BY <1>1, <1>2, <1>4 DEF StepsGood, StatusGood, RollbackGood
<1>9. QED
  BY <1>5, <1>6, <1>7, <1>8 DEF IInv

LEMMA CompleteExecutionIInv ==
    ASSUME IInv, CompleteExecution
    PROVE  IInv'
<1>1. /\ pc = "complete" /\ undo = {} /\ call = "none" /\ status # "absent"
      /\ UNCHANGED <<plan, todo, undo, call, rows, effects, evidence, failed, tried>>
  BY DEF CompleteExecution, IInv, LoopsGood
<1>2. /\ status' \in {Outcome, status} /\ attempt' \in 0 .. MaxAttempts - 1
      /\ pc' \in {"complete", "ended"}
  BY <1>1 DEF CompleteExecution, WriteStatus, LastAttempt, IInv, TypeOK
<1>3. Outcome \in {"succeeded", "failed"}
  BY DEF Outcome
<1>4. TypeOK'
  BY <1>1, <1>2, <1>3 DEF IInv, TypeOK
<1>5. LoopsGood'
  BY <1>1, <1>2, <1>3 DEF IInv, LoopsGood
<1>6. EffectsGood'
  BY <1>1, <1>2 DEF IInv, EffectsGood
<1>7. StepsGood'
  BY <1>1 DEF IInv, StepsGood, Recorded
<1>8. StatusGood'
  <2>1. failed = 0 => todo = {}
    BY <1>1 DEF IInv, LoopsGood
  <2>2. QED
    BY <1>1, <1>2, <2>1 DEF IInv, StatusGood, Outcome
<1>9. RollbackGood'
  BY <1>1 DEF IInv, RollbackGood, FailureUndoes, StageGiven, ActSteps
<1>10. QED
  BY <1>4, <1>5, <1>6, <1>7, <1>8, <1>9 DEF IInv

\* The gateway's steps touch the row, or start the workflow.
LEMMA GatewayIInv ==
    ASSUME IInv, CreateExecution \/ StartExecution \/ CancelExecution
    PROVE  IInv'
<1>1. UNCHANGED <<plan, todo, undo, attempt, failed, tried, call, rows, effects, evidence>>
  BY DEF CreateExecution, StartExecution, CancelExecution, wfVars
<1>2. /\ \/ pc' = pc /\ status' \in {"pending", "cancelled"}
         \/ pc = "none" /\ pc' = "new" /\ status' = status /\ status # "absent"
      /\ status' # "absent"
  BY DEF CreateExecution, StartExecution, CancelExecution, wfVars
<1>3. TypeOK'
  BY <1>1, <1>2 DEF IInv, TypeOK
<1>4. LoopsGood'
  BY <1>1, <1>2 DEF IInv, LoopsGood
<1>5. Ran' = Ran /\ \A s : Current(s)' = Current(s) /\ (Current(s) => Kind' = Kind)
  BY <1>1, <1>2 DEF Ran, Current, Before, StageGiven, Kind
<1>6. EffectsGood'
  BY <1>1, <1>2, <1>5 DEF IInv, EffectsGood
<1>7. StepsGood'
  BY <1>1, <1>5 DEF IInv, StepsGood, Recorded
<1>8. StatusGood' /\ RollbackGood'
  BY <1>1, <1>2 DEF IInv, StatusGood, RollbackGood, FailureUndoes, StageGiven, ActSteps
<1>9. QED
  BY <1>3, <1>4, <1>6, <1>7, <1>8 DEF IInv

(***************************************************************************)
(* The theorems                                                            *)
(***************************************************************************)
LEMMA NextIInv == IInv /\ [Next]_vars => IInv'
<1> SUFFICES ASSUME IInv, [Next]_vars PROVE IInv'
  OBVIOUS
<1>1. CASE CreateExecution \/ StartExecution \/ CancelExecution
  BY <1>1, GatewayIInv
<1>2. CASE MarkRunning
  BY <1>2, MarkRunningIInv
<1>3. CASE CompleteExecution
  BY <1>3, CompleteExecutionIInv
<1>4. ASSUME NEW s \in Steps,
             InsertToolCall(s) \/ RunTool(s) \/ StoreOutput(s) \/ StepReturns(s)
                \/ AttemptFails(s)
      PROVE  IInv'
  BY <1>4, InsertToolCallIInv, RunToolIInv, StoreOutputIInv, StepReturnsIInv,
     AttemptFailsIInv
<1>5. CASE UNCHANGED vars
  BY <1>5 DEF vars, IInv, TypeOK, LoopsGood, EffectsGood, StepsGood, StatusGood,
              RollbackGood, FailureUndoes, Current, Before, StageGiven, ActSteps, Ran, Kind, Recorded
<1>6. QED
  BY <1>1, <1>2, <1>3, <1>4, <1>5 DEF Next, WorkflowNext, StepNext

LEMMA Invariance == Spec => []IInv
BY InitIInv, NextIInv, PTL DEF Spec

\* An execution shown as succeeded has run, marked and recorded every step and
\* undone none; no tool runs more often than the retry policy allows; whatever
\* attempts fail and whenever somebody cancels.
THEOREM SuccessIsReal == Spec => []ExecutionInv
<1>1. IInv => ExecutionInv
  <2> SUFFICES ASSUME IInv, status = "succeeded", NEW s \in Steps
               PROVE  Recorded(s) /\ effects["undo"][s] = 0
    BY DEF ExecutionInv, SucceededMeansDone, Recorded
  <2>1. failed = 0 /\ todo = {}
    BY DEF IInv, StatusGood
  <2>2. QED
    BY <2>1 DEF IInv, StepsGood, EffectsGood
<1>2. QED
  BY <1>1, Invariance, PTL

\* Once a rollback has touched anything, executeStep runs no tool any more.
THEOREM RollbackIsLast == Spec => NoStepAfterRollback
<1>1. IInv /\ [Next]_vars =>
        [(\E s \in Steps : effects["undo"][s] > 0) => effects'["do"] = effects["do"]]_vars
  <2> SUFFICES ASSUME IInv, Next, NEW t \in Steps, effects["undo"][t] > 0
               PROVE  effects'["do"] = effects["do"]
    BY DEF vars
  <2>1. failed # 0
    BY DEF IInv, EffectsGood
  <2>2. ASSUME NEW s \in Steps, RunTool(s)
        PROVE  effects'["do"] = effects["do"]
    <3>1. Kind = "undo"
      BY <2>1, <2>2, CurrentPlace DEF RunTool
    <3>2. QED
      BY <2>2, <3>1 DEF RunTool, IInv, TypeOK, Kinds
  <2>3. CASE UNCHANGED effects
    BY <2>3
  <2>4. QED
    BY <2>2, <2>3 DEF Next, CreateExecution, StartExecution, CancelExecution,
                      WorkflowNext, MarkRunning, CompleteExecution, StepNext,
                      InsertToolCall, StoreOutput, StepReturns, AttemptFails
<1>2. QED
  BY <1>1, Invariance, PTL DEF Spec, NoStepAfterRollback

\* Whichever way it was started, a workflow that has failed ends only when it has
\* tried to undo the step that failed, or every act step that ran if it knows the
\* stages and a verify step failed.
THEOREM VerifyRollsBack == Spec => []StagedFailureRollsBack
<1>1. ASSUME IInv, pc = "ended", failed # 0
      PROVE  FailureUndoes(failed) \subseteq tried
  BY <1>1 DEF IInv, LoopsGood, RollbackGood
<1>2. ASSUME IInv, pc = "ended", failed # 0,
             plan.path = "workflow" /\ plan.stage[failed] = "verify",
             NEW s \in Steps, plan.stage[s] = "act"
      PROVE  s \in tried
  <2>1. StageGiven(failed) = "verify" /\ s \in ActSteps
    BY <1>2 DEF StageGiven, ActSteps
  <2>2. QED
    BY <1>1, <1>2, <2>1 DEF FailureUndoes
<1>3. ASSUME IInv, pc = "ended", failed # 0,
             ~(plan.path = "workflow" /\ plan.stage[failed] = "verify")
      PROVE  failed \in tried
  <2>1. failed \in Steps /\ plan.stage[failed] \in {"act", "verify"}
    BY <1>3 DEF IInv, TypeOK
  <2>2. StageGiven(failed) = "act"
    BY <1>3, <2>1 DEF StageGiven
  <2>3. QED
    BY <1>1, <1>3, <2>2 DEF FailureUndoes
<1>4. IInv => StagedFailureRollsBack
  BY <1>2, <1>3 DEF StagedFailureRollsBack
<1>5. QED
  BY <1>4, Invariance, PTL

\* The workflow and its row live the life of ExecutionLifecycle: the row is final
\* only once the workflow is through, and a final status is never replaced by
\* the other one, though CompleteExecution is retried and cancelling races it.
THEOREM ImplementsLifecycle == Spec => LifecycleSpec
<1>1. Init => Lifecycle!Init
  BY DEF Init, Lifecycle!Init
<1>2. IInv /\ [Next]_vars => [Lifecycle!Next]_(Lifecycle!vars)
  <2> SUFFICES ASSUME IInv, [Next]_vars
               PROVE  Lifecycle!Next \/ UNCHANGED Lifecycle!vars
    OBVIOUS
  <2>1. CASE CreateExecution
    BY <2>1 DEF CreateExecution, wfVars, Lifecycle!Next, Lifecycle!Create
  <2>2. CASE StartExecution
    BY <2>2 DEF StartExecution, Lifecycle!Next, Lifecycle!Start
  <2>3. CASE CancelExecution
    BY <2>3 DEF CancelExecution, wfVars, Lifecycle!Next, Lifecycle!Cancel
  <2>4. CASE MarkRunning
    <3>1. CASE status' = "running" /\ pc' \in {"new", "run", "complete", "ended"}
      BY <2>4, <3>1 DEF MarkRunning, Lifecycle!Next, Lifecycle!MarkRunning
    <3>2. CASE status' = status /\ pc' = "ended"
      BY <2>4, <3>2 DEF MarkRunning, Lifecycle!Next, Lifecycle!GiveUp
    <3>3. CASE status' = status /\ pc' = "new"
      BY <2>4, <3>3 DEF MarkRunning, Lifecycle!vars
    <3>4. QED
      BY <2>4, <3>1, <3>2, <3>3 DEF MarkRunning, WriteStatus
  <2>5. CASE CompleteExecution
    <3>1. Outcome \in {"succeeded", "failed"} /\ pc = "complete"
      BY <2>5 DEF CompleteExecution, Outcome
    <3>2. status \in {"succeeded", "failed"} => status = Outcome
      BY DEF IInv, StatusGood, Outcome
    <3>3. CASE status' = Outcome /\ pc' \in {"complete", "ended"}
      BY <3>1, <3>2, <3>3 DEF Lifecycle!Next, Lifecycle!MarkFinal, Lifecycle!Final
    <3>4. CASE status' = status /\ pc' = "ended"
      BY <3>1, <3>4 DEF Lifecycle!Next, Lifecycle!GiveUp
    <3>5. CASE status' = status /\ pc' = "complete"
      BY <3>1, <3>5 DEF Lifecycle!vars
    <3>6. QED
      BY <2>5, <3>1, <3>3, <3>4, <3>5 DEF CompleteExecution, WriteStatus
  <2>6. ASSUME NEW s \in Steps,
               InsertToolCall(s) \/ RunTool(s) \/ StoreOutput(s) \/ StepReturns(s)
                  \/ AttemptFails(s)
        PROVE  UNCHANGED Lifecycle!vars
    <3>1. status' = status
      BY <2>6 DEF InsertToolCall, RunTool, StoreOutput, StepReturns, AttemptFails
    <3>2. pc \in {"run", "undo"} /\ pc' \in {"run", "undo", "complete"}
      BY <2>6 DEF InsertToolCall, RunTool, StoreOutput, StepReturns, AttemptFails,
                  Current, StepDone, StepFailed, wfVars
    <3>3. QED
      BY <3>1, <3>2 DEF Lifecycle!vars
  <2>7. CASE UNCHANGED vars
    BY <2>7 DEF vars, Lifecycle!vars
  <2>8. QED
    BY <2>1, <2>2, <2>3, <2>4, <2>5, <2>6, <2>7 DEF Next, WorkflowNext, StepNext
<1>3. QED
  BY <1>1, <1>2, Invariance, PTL DEF Spec, LifecycleSpec, Lifecycle!Spec
=============================================================================
