---------------------------- MODULE AnswerProofs -----------------------------
(***************************************************************************)
(* Theorems about AnswerGeneration for any number of executions, recovery  *)
(* loops, operators, request keys and versions: its types; the budget      *)
(* after which recovery is left to operators; the safety of one request,   *)
(* asked of the provider at most once, paid as it ends, ended for good and *)
(* within the promise to the user; and the history it leaves behind.       *)
(* And about MemoryRetrieval, for any memories, sizes, scores and limits:  *)
(* what a prompt is given is the best that fits, and is still there when   *)
(* it is used. And about ChatHistory, for any number of reads, rows and    *)
(* submissions: what a browser shows while others write. And about         *)
(* LoreSelection, for any books and messages: which lore is chosen, and    *)
(* that a prompt says everything once.                                     *)
(***************************************************************************)
EXTENDS AnswerGeneration, MemoryRetrieval, ChatHistory, LoreSelection, FiniteSums,
        SequenceTheorems

USE DEF Pending, Terminal, Outcomes, CallOutcomes, PreparationFailures, Interruptions

-----------------------------------------------------------------------------
(* Types *)

\* Locals as actors really have them: an actor at work has a key, and what a
\* preparation or a call left behind is one of its outcomes.
Placed ==
    {l \in Locals :
        /\ l.at \notin {"idle", "done"} => l.key \in Keys
        /\ l.at = "reserve" => l.plan \in {"prompt"} \cup PreparationFailures
        /\ l.at = "stage_result" => l.plan \in CallOutcomes}

TypeInv == TypeOK /\ worker \in [Workers -> Placed]

LEMMA InitialTypes ==
    /\ Idle \in Placed
    /\ NoRun \in Run
    /\ \A at \in {"idle", "done"} : [Idle EXCEPT !.at = at] \in Placed
    /\ \A k \in Keys : [Idle EXCEPT !.at = "claim", !.key = k, !.recover = TRUE] \in Placed
BY DEF Idle, Placed, Locals, NoRun, Run, Steps, NoRef, Ref

\* Going to another step, or returning, keeps every actor's locals in shape.
LEMMA GotoTyped ==
    ASSUME TypeInv, NEW w \in Workers, worker[w].at \notin {"idle", "done"},
           NEW at \in Steps \ {"reserve", "stage_result"}, Goto(w, at)
    PROVE  worker' \in [Workers -> Placed]
<1>1. [worker[w] EXCEPT !.at = at] \in Placed
  BY DEF TypeInv, Placed, Locals
<1> QED BY <1>1 DEF Goto, TypeInv

LEMMA ReturnTyped ==
    ASSUME TypeInv, NEW w \in Workers, Return(w)
    PROVE  worker' \in [Workers -> Placed]
BY InitialTypes DEF Return, Rest, TypeInv

LEMMA ResumeTyped ==
    ASSUME TypeInv, NEW w \in Workers, NEW k \in Keys, NEW ref, Resume(w, k, ref)
    PROVE  worker' \in [Workers -> Placed]
BY InitialTypes, GotoTyped, ReturnTyped DEF Resume, TypeInv

\* A step that leaves the store alone only has to keep the locals in shape.
LEMMA StoreUnchangedTyped ==
    ASSUME TypeInv, UNCHANGED store, worker' \in [Workers -> Placed]
    PROVE  TypeInv'
BY DEF TypeInv, TypeOK, store, Placed

LEMMA InputsTyped ==
    ASSUME TypeInv, NEW k \in Keys, NEW ref \in KnownRefs(k)
    PROVE  ref \in Ref
<1>1. \A i \in DOMAIN messages : messages[i] \in Message
  BY DEF TypeInv, TypeOK
<1>2. \A i \in DOMAIN messages : [id |-> messages[i].id, rev |-> messages[i].rev] \in Ref
  BY <1>1 DEF Message, Ref
<1>3. run[k].input \in Ref
  BY DEF TypeInv, TypeOK, Run
<1> QED BY <1>2, <1>3 DEF KnownRefs

\* The steps before a call: looking the request up, preparing and reserving.
LEMMA AdmissionTyped ==
    ASSUME TypeInv, NEW w \in Executions,
           Lookup(w) \/ Prepare(w) \/ Reserve(w) \/ ReserveNothing(w) \/ Reread(w)
    PROVE  TypeInv'
<1> w \in Workers BY DEF Workers
<1>1. CASE Lookup(w)
  <2> DEFINE Admitted(k, ref) ==
               [Idle EXCEPT !.at = "prepare", !.key = k, !.input = ref,
                  !.seen = [history |-> historyVersion, version |-> product.version]]
  <2>1. PICK k \in Keys : \E ref \in KnownRefs(k) :
          \/ Resume(w, k, ref)
          \/ worker' = [worker EXCEPT ![w] = Admitted(k, ref)]
          \/ Return(w)
    BY <1>1 DEF Lookup
  <2>2. PICK ref \in KnownRefs(k) :
          \/ Resume(w, k, ref)
          \/ worker' = [worker EXCEPT ![w] = Admitted(k, ref)]
          \/ Return(w)
    BY <2>1
  <2>3. Admitted(k, ref) \in Placed
    <3>1. ref \in Ref BY InputsTyped
    <3>2. historyVersion \in Nat /\ product.version \in Nat
      BY BoundAssumption DEF TypeInv, TypeOK
    <3> HIDE DEF Ref
    <3> QED BY <3>1, <3>2 DEF Placed, Locals, Idle, Steps
  <2>4. worker' \in [Workers -> Placed]
    BY <2>2, <2>3, ResumeTyped, GotoTyped, ReturnTyped DEF TypeInv
  <2> QED BY <1>1, <2>4, StoreUnchangedTyped DEF Lookup
<1>2. CASE Prepare(w)
  <2>1. PICK plan \in {"prompt"} \cup PreparationFailures :
          worker' = [worker EXCEPT ![w].at = "reserve", ![w].plan = plan]
    BY <1>2 DEF Prepare
  <2>2. [worker[w] EXCEPT !.at = "reserve", !.plan = plan] \in Placed
    BY ZenonT(40), <1>2 DEF TypeInv, Placed, Locals, Steps, Prepare
  <2>3. worker' = [worker EXCEPT ![w] = [worker[w] EXCEPT !.at = "reserve", !.plan = plan]]
    BY <2>1 DEF TypeInv, Placed, Locals
  <2>4. worker' \in [Workers -> Placed]
    BY <2>2, <2>3 DEF TypeInv
  <2> QED BY <1>2, <2>4, StoreUnchangedTyped DEF Prepare
<1>3. CASE Reserve(w)
  <2> DEFINE k == worker[w].key
             billed == worker[w].plan = "prompt"
             row == [NoRun EXCEPT !.status = Pending,
                       !.phase = IF billed THEN "reserved" ELSE "result_ready",
                       !.token = w, !.billed = billed,
                       !.outcome = IF billed THEN "none" ELSE worker[w].plan,
                       !.input = worker[w].input, !.version = product.version]
  <2>1. worker[w] \in Placed /\ product.version \in Nat /\ worker[w].at = "reserve"
    BY <1>3, BoundAssumption DEF TypeInv, TypeOK, Reserve
  <2>2. row \in Run
    <3>1. CASE billed BY ZenonT(40), <2>1, <3>1, InitialTypes DEF Run, Placed, Locals, NoRun
    <3>2. CASE ~billed BY <2>1, <3>2, InitialTypes DEF Run, Placed, Locals, NoRun
    <3> QED BY <3>1, <3>2
  <2>3. run' \in [Keys -> Run]
    BY <1>3, <2>2 DEF Reserve, TypeInv, TypeOK
  <2>4. worker' \in [Workers -> Placed]
    BY <1>3, <2>1, GotoTyped, ReturnTyped DEF Reserve, Steps
  <2>5. credit' \in [Keys -> {"none", "reserved", "committed", "released"}]
    BY <1>3 DEF Reserve, TypeInv, TypeOK
  <2> QED BY <1>3, <2>3, <2>4, <2>5 DEF Reserve, TypeInv, TypeOK, Placed
<1>4. CASE ReserveNothing(w)
  <2>1. worker[w].key \in Keys
    BY <1>4 DEF ReserveNothing, TypeInv, Placed
  <2> QED BY <1>4, <2>1, GotoTyped, ReturnTyped, ResumeTyped, StoreUnchangedTyped DEF ReserveNothing, Steps
<1>5. CASE Reread(w)
  <2>1. worker[w].key \in Keys
    BY <1>5 DEF Reread, TypeInv, Placed
  <2> QED BY <1>5, <2>1, GotoTyped, ReturnTyped, ResumeTyped, StoreUnchangedTyped DEF Reread
<1> QED BY <1>1, <1>2, <1>3, <1>4, <1>5

\* A step that writes only the run rows and one actor's locals.
LEMMA RunWrittenTyped ==
    ASSUME TypeInv, run' \in [Keys -> Run], worker' \in [Workers -> Placed],
           UNCHANGED <<credit, usage, calls, messages, historyVersion,
                       memoryRequested, product>>
    PROVE  TypeInv'
BY DEF TypeInv, TypeOK, Placed

\* The steps around the provider call.
LEMMA CallTyped ==
    ASSUME TypeInv, NEW w \in Executions,
           \/ StageCalling(w) \/ CallProvider(w) \/ Receive(w) \/ StageResult(w)
           \/ StageFails(w) \/ Reconcile(w)
    PROVE  TypeInv'
<1> w \in Workers BY DEF Workers
<1> DEFINE k == worker[w].key
<1>1. CASE StageCalling(w)
  <2>1. k \in Keys
    BY <1>1 DEF StageCalling, TypeInv, Placed
  <2>2. run' \in [Keys -> Run]
    <3>1. run[k] \in Run BY <2>1 DEF TypeInv, TypeOK
    <3>2. [run[k] EXCEPT !.phase = "calling"] \in Run BY <3>1 DEF Run
    <3>3. run' = [run EXCEPT ![k] = [run[k] EXCEPT !.phase = "calling"]]
      BY <1>1 DEF StageCalling
    <3> QED BY <3>2, <3>3 DEF TypeInv, TypeOK
  <2>3. worker' \in [Workers -> Placed]
    BY <1>1, GotoTyped DEF StageCalling, Steps
  <2> QED BY <1>1, <2>2, <2>3, RunWrittenTyped DEF StageCalling
<1>2. CASE CallProvider(w)
  <2>1. worker' \in [Workers -> Placed]
    BY <1>2, GotoTyped DEF CallProvider, Steps
  <2>2. k \in Keys /\ calls \in [Keys -> Nat]
    BY <1>2 DEF CallProvider, TypeInv, TypeOK, Placed
  <2>3. calls' \in [Keys -> Nat]
    BY <1>2, <2>2 DEF CallProvider
  <2> QED BY <1>2, <2>1, <2>3 DEF CallProvider, TypeInv, TypeOK, Placed
<1>3. CASE Receive(w)
  <2>1. PICK outcome \in CallOutcomes :
          worker' = [worker EXCEPT ![w].at = "stage_result", ![w].plan = outcome]
    BY <1>3 DEF Receive
  <2>2. [worker[w] EXCEPT !.at = "stage_result", !.plan = outcome] \in Placed
    BY ZenonT(40), <1>3 DEF TypeInv, Placed, Locals, Steps, Receive
  <2>3. worker' = [worker EXCEPT ![w] =
                     [worker[w] EXCEPT !.at = "stage_result", !.plan = outcome]]
    BY <2>1 DEF TypeInv, Placed, Locals
  <2>4. worker' \in [Workers -> Placed]
    BY <2>2, <2>3 DEF TypeInv
  <2> QED BY <1>3, <2>4, StoreUnchangedTyped DEF Receive
<1>4. CASE StageResult(w)
  <2>1. k \in Keys /\ worker[w].plan \in CallOutcomes
    BY <1>4 DEF StageResult, TypeInv, Placed
  <2>2. [run[k] EXCEPT !.phase = "result_ready", !.outcome = worker[w].plan] \in Run
    <3>1. run[k] \in Run BY <2>1 DEF TypeInv, TypeOK
    <3> QED BY <2>1, <3>1 DEF Run
  <2>3. run' = [run EXCEPT ![k] =
                  [run[k] EXCEPT !.phase = "result_ready", !.outcome = worker[w].plan]]
    BY <1>4 DEF StageResult
  <2>4. worker' \in [Workers -> Placed]
    BY <1>4, GotoTyped, ReturnTyped DEF StageResult, AfterStageError, Steps
  <2>5. run' \in [Keys -> Run]
    BY <2>2, <2>3 DEF TypeInv, TypeOK
  <2> QED BY <1>4, <2>4, <2>5, RunWrittenTyped DEF StageResult
<1>5. CASE StageFails(w)
  BY <1>5, GotoTyped, ReturnTyped, StoreUnchangedTyped DEF StageFails, AfterStageError, Steps
<1>6. CASE Reconcile(w)
  BY <1>6, GotoTyped, ReturnTyped, StoreUnchangedTyped DEF Reconcile, Steps
<1> QED BY <1>1, <1>2, <1>3, <1>4, <1>5, <1>6

\* A durable row yields an outcome and a terminal status.
LEMMA OutcomeTyped ==
    ASSUME NEW r \in Run
    PROVE  /\ OutcomeOf(r) \in {"none"} \cup Outcomes
           /\ StatusOf(r) \in Terminal
           /\ StatusOf(r) = "succeeded" => OutcomeOf(r) = "answer"
BY DEF OutcomeOf, StatusOf, Run

LEMMA SettleTyped ==
    ASSUME TypeInv, NEW k \in Keys, Settle(k), worker' \in [Workers -> Placed]
    PROVE  TypeInv'
<1> DEFINE r == run[k]
           row == [r EXCEPT !.status = StatusOf(r), !.phase = "result_ready",
                            !.outcome = OutcomeOf(r), !.leaseOver = FALSE]
<1>1. r \in Run BY DEF TypeInv, TypeOK
<1>2. row \in Run BY <1>1, OutcomeTyped DEF Run
<1>3. run' = [run EXCEPT ![k] = row]
  BY <1>1 DEF Settle, TypeInv, TypeOK, Run
<1>4. run' \in [Keys -> Run] BY <1>2, <1>3 DEF TypeInv, TypeOK
<1>5. messages' \in Seq(Message)
  <2>1. AnswerMessage(k) \in Message
    BY DEF AnswerMessage, Message, TypeInv, TypeOK
  <2> QED BY <2>1 DEF Settle, TypeInv, TypeOK
<1>6. /\ historyVersion' \in Nat
      /\ memoryRequested' \in Nat
      /\ UNCHANGED <<calls, product>>
  <2>1. historyVersion \in Nat /\ memoryRequested \in Nat
    BY DEF TypeInv, TypeOK
  <2>2. historyVersion' \in {historyVersion, historyVersion + 1}
    BY DEF Settle
  <2>3. memoryRequested' \in {memoryRequested, memoryRequested + 1}
    BY DEF Settle
  <2> QED BY <2>1, <2>2, <2>3 DEF Settle
<1>7. credit' \in [Keys -> {"none", "reserved", "committed", "released"}]
  BY DEF Settle, Settlement, TypeInv, TypeOK
<1>8. usage' \in [Keys -> [rows: Nat, charged: Nat]]
  <2>1. usage \in [Keys -> [rows: Nat, charged: Nat]]
    BY DEF TypeInv, TypeOK
  <2>2. usage' = [usage EXCEPT ![k] =
                    [rows |-> usage[k].rows + 1,
                     charged |-> usage[k].charged
                       + (IF StatusOf(r) = "succeeded" /\ r.billed THEN 1 ELSE 0)]]
    BY DEF Settle
  <2> QED BY <2>1, <2>2
<1> QED BY <1>4, <1>5, <1>6, <1>7, <1>8 DEF TypeInv, TypeOK, Placed

\* Recovery admission and completion.
LEMMA CompleteTyped ==
    ASSUME TypeInv, NEW w \in Workers,
           Scan(w) \/ ManualRecovery(w) \/ Complete(w) \/ Stop(w)
    PROVE  TypeInv'
<1> DEFINE k == worker[w].key
<1>1. CASE Scan(w)
  BY <1>1, InitialTypes, StoreUnchangedTyped DEF Scan, TypeInv
<1>2. CASE ManualRecovery(w)
  BY <1>2, InitialTypes, StoreUnchangedTyped DEF ManualRecovery, TypeInv
<1>3. CASE Claim(w)
  <2> DEFINE attempt == run[k].attempts + 1
             quarantined == run[k].quarantined \/ w \in Operators \/ LastAttempt(attempt)
             row == [run[k] EXCEPT !.attempts = attempt, !.due = FALSE,
                                   !.quarantined = quarantined]
  <2>1. k \in Keys
    BY <1>3 DEF Claim, TypeInv, Placed
  <2>2. run[k] \in Run /\ attempt \in Nat /\ quarantined \in BOOLEAN
    BY <2>1 DEF TypeInv, TypeOK, Run
  <2> HIDE DEF attempt, quarantined
  <2>3. row \in Run
    BY <2>2 DEF Run
  <2>4. run' = [run EXCEPT ![k] = row]
    BY <1>3, <2>2 DEF Claim, TypeInv, TypeOK, Run, attempt, quarantined
  <2>5. [worker[w] EXCEPT !.at = "finalize", !.attempt = attempt] \in Placed
    BY ZenonT(40), <2>1, <2>2 DEF TypeInv, Placed, Locals, Steps
  <2>6. \/ worker' = [worker EXCEPT ![w] =
                         [worker[w] EXCEPT !.at = "finalize", !.attempt = attempt]]
        \/ Return(w)
    BY <1>3 DEF Claim, TypeInv, Placed, Locals, attempt
  <2>7. worker' \in [Workers -> Placed]
    BY <2>5, <2>6, ReturnTyped DEF TypeInv
  <2>8. run' \in [Keys -> Run]
    BY <2>3, <2>4 DEF TypeInv, TypeOK
  <2> QED BY <1>3, <2>7, <2>8, RunWrittenTyped DEF Claim
<1>4. CASE NoClaim(w)
  BY <1>4, ReturnTyped, StoreUnchangedTyped DEF NoClaim
<1>5. CASE Finalize(w)
  <2>1. k \in Keys
    BY <1>5 DEF Finalize, TypeInv, Placed
  <2>2. worker' \in [Workers -> Placed]
    BY <1>5, GotoTyped, ReturnTyped DEF Finalize, AfterFinalizeError, Steps
  <2> QED BY <1>5, <2>1, <2>2, SettleTyped DEF Finalize
<1>6. CASE FinalizeNothing(w)
  BY <1>6, GotoTyped, ReturnTyped, StoreUnchangedTyped
     DEF FinalizeNothing, AfterFinalizeError, Steps
<1>7. CASE Confirm(w)
  <2>1. k \in Keys
    BY <1>7 DEF Confirm, TypeInv, Placed
  <2>2. ASSUME NEW fatal \in BOOLEAN,
               run' = [run EXCEPT ![k].quarantined = @ \/ fatal]
        PROVE  run' \in [Keys -> Run]
    <3> DEFINE quarantined == run[k].quarantined \/ fatal
    <3>1. quarantined \in BOOLEAN /\ run[k] \in Run
      BY <2>1 DEF TypeInv, TypeOK
    <3> HIDE DEF quarantined
    <3>2. [run[k] EXCEPT !.quarantined = quarantined] \in Run
      BY <3>1 DEF Run
    <3>3. run' = [run EXCEPT ![k] =
                    [run[k] EXCEPT !.quarantined = quarantined]]
      BY <2>2 DEF quarantined
    <3> QED BY <3>2, <3>3 DEF TypeInv, TypeOK
  <2>3. run' \in [Keys -> Run]
    BY <1>7, <2>2 DEF Confirm, TypeInv, TypeOK
  <2>4. worker' \in [Workers -> Placed]
    BY <1>7, ReturnTyped DEF Confirm
  <2> QED BY <1>7, <2>3, <2>4, RunWrittenTyped DEF Confirm
<1>8. CASE Stop(w)
  BY <1>8, ReturnTyped, StoreUnchangedTyped DEF Stop
<1> QED BY <1>1, <1>2, <1>3, <1>4, <1>5, <1>6, <1>7, <1>8 DEF Complete

\* The owner's edits, the version switch and the passing of time.
LEMMA OwnerTyped ==
    ASSUME TypeInv, Owner \/ Time
    PROVE  TypeInv'
<1>1. /\ run \in [Keys -> Run]
      /\ messages \in Seq(Message)
      /\ historyVersion \in Nat
      /\ product \in [version: Versions, expired: SUBSET Versions]
  BY DEF TypeInv, TypeOK
<1>2. ASSUME InvalidateHistory, messages' \in Seq(Message), historyVersion' = historyVersion + 1
      PROVE  TypeInv'
  <2>1. run' \in [Keys -> Run]
    <3>1. ASSUME NEW k \in Keys PROVE [run[k] EXCEPT !.invalidated = TRUE] \in Run
      <4>1. run[k] \in Run BY <1>1
      <4> QED BY <4>1 DEF Run
    <3> QED BY <1>1, <1>2, <3>1 DEF InvalidateHistory
  <2> QED BY <1>1, <1>2, <2>1 DEF InvalidateHistory, TypeInv, TypeOK, Placed
<1>3. CASE CreateMessage
  <2>1. [id |-> historyVersion + 1, from |-> "user", rev |-> 1, by |-> None] \in Message
    BY <1>1 DEF Message
  <2>2. messages' \in Seq(Message) /\ historyVersion' \in Nat
    BY <1>1, <1>3, <2>1 DEF CreateMessage
  <2> QED BY <1>3, <2>2 DEF CreateMessage, TypeInv, TypeOK, Placed
<1>4. CASE ReplaceMessage
  <2>1. Len(messages) \in DOMAIN messages
    BY <1>1, <1>4 DEF ReplaceMessage
  <2>2. messages' \in Seq(Message)
    <3> DEFINE n == Len(messages)
    <3>1. messages[n] \in Message
      BY <1>1, <2>1
    <3>2. [messages[n] EXCEPT !.rev = @ + 1] \in Message
      BY <3>1 DEF Message
    <3>3. messages' = [messages EXCEPT ![n] = [messages[n] EXCEPT !.rev = @ + 1]]
      BY <1>4 DEF ReplaceMessage
    <3> QED BY <1>1, <2>1, <3>2, <3>3
  <2> QED BY <1>2, <1>4, <2>2 DEF ReplaceMessage
<1>5. CASE RewindMessages
  <2>1. PICK i \in DOMAIN messages : messages' = SubSeq(messages, 1, i - 1)
    BY <1>5 DEF RewindMessages
  <2>2. messages' \in Seq(Message)
    BY <1>1, <2>1
  <2> QED BY <1>2, <1>5, <2>2 DEF RewindMessages
<1>6. CASE SwitchVersion \/ VersionExpires
  <2>1. product' \in [version: Versions, expired: SUBSET Versions]
    BY <1>1, <1>6 DEF SwitchVersion, VersionExpires
  <2> QED BY <1>6, <2>1 DEF SwitchVersion, VersionExpires, TypeInv, TypeOK, Placed
<1>7. CASE LeaseExpires \/ BackoffElapses
  <2>1. PICK k \in Keys : \/ run' = [run EXCEPT ![k] = [run[k] EXCEPT !.leaseOver = TRUE]]
                          \/ run' = [run EXCEPT ![k] = [run[k] EXCEPT !.due = TRUE]]
    BY <1>7 DEF LeaseExpires, BackoffElapses
  <2>2. /\ [run[k] EXCEPT !.leaseOver = TRUE] \in Run
        /\ [run[k] EXCEPT !.due = TRUE] \in Run
    <3>1. run[k] \in Run BY <1>1
    <3> QED BY <3>1 DEF Run
  <2>3. run' \in [Keys -> Run] /\ worker' \in [Workers -> Placed]
    BY <1>1, <1>7, <2>1, <2>2 DEF LeaseExpires, BackoffElapses, TypeInv
  <2> QED BY <1>7, <2>3, RunWrittenTyped DEF LeaseExpires, BackoffElapses
<1> QED BY <1>3, <1>4, <1>5, <1>6, <1>7 DEF Owner, Time

LEMMA TypeStep == TypeInv /\ [Next]_vars => TypeInv'
<1> SUFFICES ASSUME TypeInv, [Next]_vars
             PROVE  TypeInv'
  OBVIOUS
<1>1. ASSUME NEW w \in Executions, Execute(w) PROVE TypeInv'
  BY <1>1, AdmissionTyped, CallTyped DEF Execute
<1>2. ASSUME NEW w \in Workers, Scan(w) \/ ManualRecovery(w) \/ Complete(w) \/ Stop(w)
      PROVE  TypeInv'
  BY <1>2, CompleteTyped
<1>3. CASE Owner \/ Time
  BY <1>3, OwnerTyped
<1>4. CASE UNCHANGED vars
  BY <1>4 DEF vars, TypeInv, TypeOK, Placed
<1> QED BY <1>1, <1>2, <1>3, <1>4 DEF Next, Workers

LEMMA TypeInit == Init => TypeInv
<1> SUFFICES ASSUME Init PROVE TypeInv
  OBVIOUS
<1>1. run \in [Keys -> Run] /\ worker \in [Workers -> Placed]
  BY InitialTypes DEF Init
<1>2. product \in [version: Versions, expired: SUBSET Versions]
  BY DEF Init
<1> QED BY <1>1, <1>2 DEF Init, TypeInv, TypeOK, Placed

\* Every row and every actor's locals keep their shape, for any number of
\* concurrent executions, recovery loops, operators and requests.
THEOREM TypeCorrect == Spec => []TypeOK
<1>1. Spec => []TypeInv
  BY TypeInit, TypeStep, PTL DEF Spec
<1>2. TypeInv => TypeOK
  BY DEF TypeInv
<1> QED BY <1>1, <1>2, PTL

-----------------------------------------------------------------------------
(* The budget of recoveries: every attempt is counted before it is made,   *)
(* the last automatic one quarantines its run, and a quarantined run is    *)
(* left to operators.  Of all steps, four kinds touch what this is about.  *)

\* A run that is not there yet is not quarantined, one whose budget is spent is.
\* Settled runs keep what they had.
BudgetKept ==
    \A k \in Keys : /\ run[k].status = "absent" => ~run[k].quarantined
                    /\ run[k].attempts >= MaxAttempts => run[k].quarantined

-----------------------------------------------------------------------------
(* What a step does to the budget of one run *)

Untouched(k) ==
    /\ run'[k].attempts = run[k].attempts
    /\ run'[k].quarantined = run[k].quarantined
    /\ run'[k].status = "absent" => run[k].status = "absent"

Begun(k) ==
    /\ run[k].status = "absent"
    /\ run'[k].status # "absent" /\ run'[k].attempts = 0 /\ ~run'[k].quarantined

Attempted(k, w) ==
    /\ worker[w].at = "claim" /\ worker[w].key = k /\ Claimable(k, w \in Operators)
    /\ run'[k].status = run[k].status
    /\ run'[k].attempts = run[k].attempts + 1
    /\ run'[k].quarantined <=>
          \/ run[k].quarantined
          \/ w \in Operators
          \/ run[k].attempts + 1 >= MaxAttempts

GivenToOperators(k) ==
    /\ run[k].status = "pending" /\ run'[k].status = "pending"
    /\ run'[k].attempts = run[k].attempts
    /\ run'[k].quarantined

\* Admission, staging and settlement leave the budget alone, once a run has begun.
LEMMA ExecutionsKeepBudgets ==
    ASSUME TypeInv, NEW w \in Executions, Execute(w), NEW k \in Keys
    PROVE  Untouched(k) \/ Begun(k)
<1>1. run \in [Keys -> Run]
  BY DEF TypeInv, TypeOK
<1>2. CASE UNCHANGED run
  BY <1>2 DEF Untouched
<1>3. CASE Reserve(w)
  <2>1. CASE k = worker[w].key
    <3> DEFINE billed == worker[w].plan = "prompt"
               row == [NoRun EXCEPT !.status = Pending,
                         !.phase = IF billed THEN "reserved" ELSE "result_ready",
                         !.token = w, !.billed = billed,
                         !.outcome = IF billed THEN "none" ELSE worker[w].plan,
                         !.input = worker[w].input, !.version = product.version]
    <3>1. run' = [run EXCEPT ![k] = row]
      BY <1>3, <2>1 DEF Reserve
    <3>2. row.status = Pending /\ row.attempts = 0 /\ row.quarantined = FALSE
      BY DEF NoRun
    <3> HIDE DEF row
    <3>3. run[k].status = "absent" /\ run'[k] = row
      BY <1>1, <1>3, <2>1, <3>1 DEF Reserve
    <3> QED BY <3>2, <3>3 DEF Begun, Pending
  <2>2. CASE k # worker[w].key
    BY <1>1, <1>3, <2>2 DEF Reserve, Untouched
  <2> QED BY <2>1, <2>2
<1>4. CASE StageCalling(w) \/ StageResult(w)
  <2>1. PICK phase, outcome :
          \/ run' = [run EXCEPT ![worker[w].key].phase = phase]
          \/ run' = [run EXCEPT ![worker[w].key].phase = phase,
                                ![worker[w].key].outcome = outcome]
    BY <1>4 DEF StageCalling, StageResult
  <2> QED BY <1>1, <2>1 DEF Untouched, Run
<1> QED
  BY <1>2, <1>3, <1>4
     DEF Execute, Lookup, Prepare, ReserveNothing, Reread, CallProvider, Receive, StageFails,
         Reconcile, store

\* A claim leaves all of a row alone but the columns of its recovery.
LEMMA ClaimKeeps ==
    ASSUME TypeInv, NEW w \in Workers, Claim(w), NEW j \in Keys
    PROVE  /\ run'[j].status = run[j].status
           /\ run'[j].phase = run[j].phase
           /\ run'[j].token = run[j].token
           /\ run'[j].billed = run[j].billed
           /\ run'[j].outcome = run[j].outcome
           /\ run'[j].input = run[j].input
           /\ run'[j].invalidated = run[j].invalidated
<1>1. run \in [Keys -> Run]
  BY DEF TypeInv, TypeOK
<1> DEFINE k == worker[w].key
           attempt == run[k].attempts + 1
           spent == run[k].quarantined \/ w \in Operators \/ LastAttempt(attempt)
<1>2. run' = [run EXCEPT ![k] = [run[k] EXCEPT !.attempts = attempt, !.due = FALSE,
                                               !.quarantined = spent]]
  BY DEF Claim
<1>3. CASE j # k
  <2> HIDE DEF k, attempt, spent
  <2> QED BY <1>1, <1>2, <1>3
<1>4. CASE j = k
  <2>1. run'[j] = [run[j] EXCEPT !.attempts = attempt, !.due = FALSE, !.quarantined = spent]
    <3> HIDE DEF attempt, spent
    <3> QED BY <1>1, <1>2, <1>4
  <2>2. run[j] \in Run
    BY <1>1
  <2> HIDE DEF k, attempt, spent
  <2> QED BY <2>1, <2>2 DEF Run
<1> QED BY <1>3, <1>4

\* Of the steps of a completion, only a claim spends an attempt, and only a failed one
\* gives a run to the operators.
LEMMA CompletionBudgets ==
    ASSUME TypeInv, NEW w \in Workers, Complete(w), NEW k \in Keys
    PROVE  Untouched(k) \/ Attempted(k, w) \/ GivenToOperators(k)
<1>1. run \in [Keys -> Run]
  BY DEF TypeInv, TypeOK
<1>2. CASE UNCHANGED run
  BY <1>2 DEF Untouched
<1>3. CASE Claim(w)
  <2>1. CASE k = worker[w].key
    <3>1. run[k] \in Run
      BY <1>1
    <3>2. run' = [run EXCEPT ![k] =
                    [run[k] EXCEPT !.attempts = run[k].attempts + 1, !.due = FALSE,
                                   !.quarantined = run[k].quarantined \/ w \in Operators
                                                     \/ LastAttempt(run[k].attempts + 1)]]
      BY <1>3, <2>1 DEF Claim
    <3>3. run'[k] = [run[k] EXCEPT !.attempts = run[k].attempts + 1, !.due = FALSE,
                                   !.quarantined = run[k].quarantined \/ w \in Operators
                                                     \/ LastAttempt(run[k].attempts + 1)]
      BY <1>1, <3>2
    <3>4. /\ run'[k].status = run[k].status
          /\ run'[k].attempts = run[k].attempts + 1
      BY <3>1, <3>3 DEF Run
    <3>5. run'[k].quarantined <=>
             \/ run[k].quarantined \/ w \in Operators \/ run[k].attempts + 1 >= MaxAttempts
      BY <3>1, <3>3 DEF Run, LastAttempt
    <3>6. worker[w].at = "claim" /\ worker[w].key = k /\ Claimable(k, w \in Operators)
      BY <1>3, <2>1 DEF Claim
    <3> QED BY <3>4, <3>5, <3>6 DEF Attempted
  <2>2. CASE k # worker[w].key
    BY <1>1, <1>3, <2>2 DEF Claim, Untouched
  <2> QED BY <2>1, <2>2
<1>4. CASE Finalize(w)
  <2>1. StatusOf(run[worker[w].key]) # "absent"
    BY DEF StatusOf
  <2>2. Settle(worker[w].key)
    BY <1>4 DEF Finalize
  <2> DEFINE j == worker[w].key
             after == [run[j] EXCEPT !.status = StatusOf(run[j]), !.phase = "result_ready",
                                     !.outcome = OutcomeOf(run[j]), !.leaseOver = FALSE]
  <2>3. run' = [run EXCEPT ![j] = after]
    BY <2>2 DEF Settle
  <2>4. CASE k = j
    <3>1. run'[k] = after /\ run[k] \in Run
      BY <1>1, <2>3, <2>4
    <3>2. after.status # "absent"
      BY <1>1, <2>1, <2>4, <3>1 DEF Run
    <3>3. after.attempts = run[k].attempts /\ after.quarantined = run[k].quarantined
      BY <2>4, <3>1 DEF Run
    <3> HIDE DEF after
    <3> QED BY <3>1, <3>2, <3>3 DEF Untouched
  <2>5. CASE k # j
    BY <1>1, <2>3, <2>5 DEF Untouched
  <2> QED BY <2>4, <2>5
<1>5. CASE Confirm(w) /\ run' # run
  <2>1. PICK fatal \in BOOLEAN : /\ run[worker[w].key].status = "pending"
                                 /\ run' = [run EXCEPT ![worker[w].key].quarantined = @ \/ fatal]
    BY <1>5 DEF Confirm, Pending
  <2>2. CASE k = worker[w].key
    BY <1>1, <2>1, <2>2 DEF Untouched, GivenToOperators, Run
  <2>3. CASE k # worker[w].key
    BY <1>1, <2>1, <2>3 DEF Untouched
  <2> QED BY <2>2, <2>3
<1> QED
  BY <1>2, <1>3, <1>4, <1>5 DEF Complete, NoClaim, FinalizeNothing, store

LEMMA BudgetSteps ==
    ASSUME TypeInv, [Next]_vars, NEW k \in Keys
    PROVE  \/ Untouched(k) \/ Begun(k) \/ GivenToOperators(k)
           \/ \E w \in Workers : Attempted(k, w)
<1>1. run \in [Keys -> Run]
  BY DEF TypeInv, TypeOK
<1>2. CASE UNCHANGED run
  BY <1>2 DEF Untouched
<1>3. CASE ReplaceMessage \/ RewindMessages
  BY <1>1, <1>3 DEF ReplaceMessage, RewindMessages, InvalidateHistory, Untouched, Run
<1>4. CASE LeaseExpires \/ BackoffElapses
  BY <1>1, <1>4 DEF LeaseExpires, BackoffElapses, Untouched, Run
<1>5. CASE \E w \in Executions : Execute(w)
  BY <1>5, ExecutionsKeepBudgets
<1>6. CASE \E w \in Workers : Complete(w)
  BY <1>6, CompletionBudgets
<1> QED
  BY <1>2, <1>3, <1>4, <1>5, <1>6
     DEF Next, vars, Scan, ManualRecovery, Stop, store, Owner, CreateMessage, SwitchVersion,
         Time, VersionExpires

-----------------------------------------------------------------------------
(* The budget is kept *)

LEMMA BudgetInit == Init => BudgetKept
BY BoundAssumption DEF Init, NoRun, BudgetKept

LEMMA BudgetStep == TypeInv /\ BudgetKept /\ [Next]_vars => BudgetKept'
<1> SUFFICES ASSUME TypeInv, BudgetKept, [Next]_vars, NEW k \in Keys
             PROVE  /\ run'[k].status = "absent" => ~run'[k].quarantined
                    /\ run'[k].attempts >= MaxAttempts => run'[k].quarantined
  BY DEF BudgetKept
<1>1. /\ run[k].attempts \in Nat /\ MaxAttempts \in Nat \ {0}
      /\ run[k].status = "absent" => ~run[k].quarantined
      /\ run[k].attempts >= MaxAttempts => run[k].quarantined
  BY BoundAssumption DEF TypeInv, TypeOK, Run, BudgetKept
<1>2. CASE Untouched(k) \/ Begun(k) \/ GivenToOperators(k)
  BY <1>1, <1>2 DEF Untouched, Begun, GivenToOperators
<1>3. ASSUME NEW w \in Workers, Attempted(k, w)
      PROVE  /\ run'[k].status = "absent" => ~run'[k].quarantined
             /\ run'[k].attempts >= MaxAttempts => run'[k].quarantined
  <2>1. run[k].status # "absent"
    BY <1>3 DEF Attempted, Claimable, Recoverable, Pending
  <2> QED BY <1>1, <1>3, <2>1 DEF Attempted
<1> QED BY <1>2, <1>3, BudgetSteps

\* Whatever fails, dies or loses its acknowledgement (claim_answer_recovery,
\* mark_answer_recovery_failed): a pending run whose automatic attempts are used up is
\* quarantined, and then only an operator's attempt is ever counted on it.
THEOREM BudgetEndsInQuarantine == Spec => QuarantineIsKept
<1>1. Spec => [](TypeInv /\ BudgetKept)
  BY TypeInit, TypeStep, BudgetInit, BudgetStep, PTL DEF Spec
<1>2. BudgetKept => ExhaustedIsQuarantined
  BY DEF BudgetKept, ExhaustedIsQuarantined
<1> DEFINE Holds == \A k \in Keys : run[k].quarantined =>
                      /\ run'[k].quarantined
                      /\ run'[k].attempts # run[k].attempts =>
                           \E w \in Operators : worker[w].at = "claim" /\ worker[w].key = k
<1>3. TypeInv /\ BudgetKept /\ [Next]_vars => Holds
  <2> SUFFICES ASSUME TypeInv, BudgetKept, [Next]_vars, NEW k \in Keys, run[k].quarantined
               PROVE  /\ run'[k].quarantined
                      /\ run'[k].attempts # run[k].attempts =>
                           \E w \in Operators : worker[w].at = "claim" /\ worker[w].key = k
    OBVIOUS
  <2>1. ~Begun(k)
    BY DEF Begun, BudgetKept
  <2>2. CASE Untouched(k) \/ GivenToOperators(k)
    BY <2>2 DEF Untouched, GivenToOperators
  <2>3. ASSUME NEW w \in Workers, Attempted(k, w)
        PROVE  /\ run'[k].quarantined /\ w \in Operators
               /\ worker[w].at = "claim" /\ worker[w].key = k
    BY <2>3 DEF Attempted, Claimable
  <2> QED BY <2>1, <2>2, <2>3, BudgetSteps
<1>4. TypeInv /\ BudgetKept /\ [Next]_vars => [Holds]_vars
  BY <1>3
<1>5. Spec => [][Holds]_vars
  BY <1>1, <1>4, PTL DEF Spec
<1>6. Spec => QuarantineHolds
  BY <1>5 DEF QuarantineHolds
<1>7. Spec => []ExhaustedIsQuarantined
  BY <1>1, <1>2, PTL
<1> QED BY <1>6, <1>7 DEF QuarantineIsKept

-----------------------------------------------------------------------------
(* The safety of one request.  The invariant is about the gap no           *)
(* transaction covers, from the moment "calling" is durable until a result *)
(* is staged: whoever is in it owns the run's token, so that no one else   *)
(* is, and the phase it made durable keeps recovery from judging the run   *)
(* as never asked.                                                         *)

CallSteps == {"stage_call", "call", "calling", "stage_result"}

\* Outcomes that say the provider was not reached.
Unasked == {"interrupted_before_call"} \cup PreparationFailures

\* What a row says of its calls.
RowSafe(k) ==
    /\ run[k].status = "absent" => run[k].phase = "none"
    /\ run[k].status \in Terminal => run[k].phase = "result_ready"
    /\ run[k].phase \in {"none", "reserved"} => calls[k] = 0
    /\ run[k].phase # "result_ready" => run[k].outcome = "none"
    /\ run[k].outcome \in Unasked => calls[k] = 0
    /\ run[k].outcome = "answer" => calls[k] = 1 /\ run[k].billed
    /\ run[k].status = "succeeded" => run[k].outcome = "answer"
    /\ calls[k] <= 1

\* SettledWithOutcome for one run.
RowSettled(k) ==
    /\ credit[k] = "reserved" <=> (run[k].status = Pending /\ run[k].billed)
    /\ credit[k] = "committed" <=> run[k].status = "succeeded"
    /\ usage[k].rows = IF run[k].status \in Terminal THEN 1 ELSE 0
    /\ usage[k].charged = IF run[k].status = "succeeded" THEN 1 ELSE 0

\* What an execution between its reservation and its staged result relies on.
CallerSafe(w) ==
    LET k == worker[w].key
    IN  /\ worker[w].at \in CallSteps =>
             run[k].token = w /\ run[k].status # "absent" /\ run[k].billed
        /\ worker[w].at = "stage_call" => calls[k] = 0
        /\ worker[w].at = "call" =>
             /\ calls[k] = 0
             /\ run[k].phase \in {"calling", "result_ready"}
             /\ run[k].outcome \notin Unasked
        /\ worker[w].at \in {"calling", "stage_result"} => calls[k] = 1

SafeInv ==
    /\ \A k \in Keys : RowSafe(k) /\ RowSettled(k)
    /\ \A w \in Workers : CallerSafe(w)

-----------------------------------------------------------------------------
(* Steps that touch none of it *)

\* What a step must leave alone to be irrelevant to the outcome of any run: the
\* facts of every row, and every actor in the gap around the call.
SameFacts(k) ==
    /\ run'[k].status = run[k].status
    /\ run'[k].phase = run[k].phase
    /\ run'[k].token = run[k].token
    /\ run'[k].billed = run[k].billed
    /\ run'[k].outcome = run[k].outcome

SameCaller(w) ==
    worker'[w].at \in CallSteps =>
        worker'[w].at = worker[w].at /\ worker'[w].key = worker[w].key

Quiet ==
    /\ \A k \in Keys : SameFacts(k)
    /\ UNCHANGED <<calls, credit, usage>>
    /\ \A w \in Workers : SameCaller(w)

LEMMA QuietIsSafe == TypeInv /\ SafeInv /\ Quiet => SafeInv'
<1> SUFFICES ASSUME TypeInv, SafeInv, Quiet PROVE SafeInv'
  OBVIOUS
<1>1. ASSUME NEW k \in Keys PROVE RowSafe(k)' /\ RowSettled(k)'
  BY DEF SafeInv, RowSafe, RowSettled, Quiet, SameFacts
<1>2. ASSUME NEW w \in Workers PROVE CallerSafe(w)'
  <2>1. CASE worker'[w].at \notin CallSteps
    BY <2>1 DEF CallerSafe, CallSteps
  <2>2. CASE worker'[w].at \in CallSteps
    <3>1. worker'[w].at = worker[w].at /\ worker'[w].key = worker[w].key
      BY <2>2 DEF Quiet, SameCaller
    <3>2. worker[w].key \in Keys
      BY <2>2, <3>1 DEF TypeInv, Placed, CallSteps
    <3> QED BY <3>1, <3>2 DEF SafeInv, CallerSafe, Quiet, SameFacts
  <2> QED BY <2>1, <2>2
<1> QED BY <1>1, <1>2 DEF SafeInv

\* An actor that leaves the gap, or moves outside it, is no caller any more.
LEMMA MovesQuietly ==
    ASSUME TypeInv, NEW w \in Workers,
           \/ Return(w)
           \/ \E at \in Steps \ CallSteps : Goto(w, at)
           \/ \E l : l.at \notin CallSteps /\ worker' = [worker EXCEPT ![w] = l]
    PROVE  \A v \in Workers : SameCaller(v)
<1>1. \A v \in Workers \ {w} : worker'[v] = worker[v]
  BY DEF TypeInv, Return, Goto
<1>2. worker'[w].at \notin CallSteps
  <2>1. CASE Return(w)
    BY <2>1 DEF Return, Rest, Idle, TypeInv, CallSteps
  <2>2. CASE \E at \in Steps \ CallSteps : Goto(w, at)
    BY <2>2 DEF Goto, TypeInv, Placed, Locals
  <2>3. CASE \E l : l.at \notin CallSteps /\ worker' = [worker EXCEPT ![w] = l]
    BY <2>3 DEF TypeInv
  <2> QED BY <2>1, <2>2, <2>3
<1> QED BY <1>1, <1>2 DEF SameCaller

\* Marks on a row are no facts about its outcome.
LEMMA MarksQuietly ==
    ASSUME TypeInv, NEW k \in Keys, NEW mark,
           \/ run' = [run EXCEPT ![k] = [run[k] EXCEPT !.leaseOver = mark]]
           \/ run' = [run EXCEPT ![k] = [run[k] EXCEPT !.due = mark]]
           \/ run' = [run EXCEPT ![k] = [run[k] EXCEPT !.quarantined = mark]]
    PROVE  \A j \in Keys : SameFacts(j)
<1>1. run[k] \in Run /\ run \in [Keys -> Run]
  BY DEF TypeInv, TypeOK
<1>2. SameFacts(k)
  BY <1>1 DEF SameFacts, Run
<1>3. \A j \in Keys \ {k} : run'[j] = run[j]
  BY <1>1
<1> QED BY <1>2, <1>3 DEF SameFacts

LEMMA ResumesQuietly ==
    ASSUME TypeInv, NEW w \in Workers, NEW k \in Keys, NEW ref, Resume(w, k, ref)
    PROVE  \A v \in Workers : SameCaller(v)
<1>1. [Idle EXCEPT !.at = "claim", !.key = k, !.recover = TRUE].at \notin CallSteps
  BY DEF Idle, CallSteps
<1> QED BY <1>1, InitialTypes, MovesQuietly DEF Resume

\* The steps of an actor that only read, or that record a recovery attempt.
LEMMA ActorQuiet ==
    ASSUME TypeInv, NEW w \in Workers,
           \/ Lookup(w) \/ Prepare(w) \/ ReserveNothing(w) \/ Reread(w)
           \/ StageFails(w) \/ Reconcile(w) \/ Scan(w) \/ ManualRecovery(w)
           \/ Claim(w) \/ NoClaim(w) \/ FinalizeNothing(w) \/ Confirm(w) \/ Stop(w)
    PROVE  Quiet
<1> DEFINE k == worker[w].key
<1> SUFFICES (\A j \in Keys : SameFacts(j)) /\ UNCHANGED <<calls, credit, usage>>
             /\ (\A v \in Workers : SameCaller(v))
  BY DEF Quiet
<1>0. UNCHANGED store => (\A j \in Keys : SameFacts(j)) /\ UNCHANGED <<calls, credit, usage>>
  BY DEF store, SameFacts
<1>1. CASE Lookup(w)
  <2> DEFINE Admitted(j, ref) ==
               [Idle EXCEPT !.at = "prepare", !.key = j, !.input = ref,
                  !.seen = [history |-> historyVersion, version |-> product.version]]
  <2>1. PICK j \in Keys : \E ref \in KnownRefs(j) :
          Resume(w, j, ref) \/ worker' = [worker EXCEPT ![w] = Admitted(j, ref)] \/ Return(w)
    BY <1>1 DEF Lookup
  <2>2. PICK ref \in KnownRefs(j) :
          Resume(w, j, ref) \/ worker' = [worker EXCEPT ![w] = Admitted(j, ref)] \/ Return(w)
    BY <2>1
  <2>3. CASE worker' = [worker EXCEPT ![w] = Admitted(j, ref)]
    <3>1. Admitted(j, ref).at \notin CallSteps
      BY DEF Idle, CallSteps
    <3> HIDE DEF Admitted
    <3> QED BY <1>0, <1>1, <2>3, <3>1, MovesQuietly DEF Lookup
  <2> QED BY <1>0, <1>1, <2>2, <2>3, ResumesQuietly, MovesQuietly DEF Lookup
<1>2. CASE Prepare(w)
  BY <1>0, <1>2 DEF Prepare, SameCaller, TypeInv, Placed, Locals, CallSteps
<1>3. CASE ReserveNothing(w) \/ Reread(w)
  <2>1. k \in Keys
    BY <1>3 DEF ReserveNothing, Reread, TypeInv, Placed
  <2> QED BY <1>0, <1>3, <2>1, ResumesQuietly, MovesQuietly
          DEF ReserveNothing, Reread, Steps, CallSteps
<1>4. CASE StageFails(w) \/ Reconcile(w) \/ NoClaim(w) \/ FinalizeNothing(w) \/ Stop(w)
  BY <1>0, <1>4, MovesQuietly
     DEF StageFails, Reconcile, NoClaim, FinalizeNothing, Stop, AfterStageError,
         AfterFinalizeError, Steps, CallSteps
<1>5. CASE Scan(w) \/ ManualRecovery(w)
  <2>1. PICK j \in Keys : worker' = [worker EXCEPT ![w] =
                  [Idle EXCEPT !.at = "claim", !.key = j, !.recover = TRUE]]
    BY <1>5 DEF Scan, ManualRecovery
  <2>2. [Idle EXCEPT !.at = "claim", !.key = j, !.recover = TRUE].at \notin CallSteps
    BY DEF Idle, CallSteps
  <2> QED BY <1>0, <1>5, <2>1, <2>2, InitialTypes, MovesQuietly DEF Scan, ManualRecovery
<1>6. CASE Claim(w)
  <2>1. \A j \in Keys : SameFacts(j)
    BY <1>6, ClaimKeeps DEF SameFacts
  <2>2. \A v \in Workers : SameCaller(v)
    <3>1. CASE Return(w) BY <3>1, MovesQuietly
    <3>2. CASE worker' = [worker EXCEPT ![w].at = "finalize",
                                        ![w].attempt = run[k].attempts + 1]
      BY <3>2 DEF SameCaller, TypeInv, Placed, Locals, CallSteps
    <3> QED BY <1>6, <3>1, <3>2 DEF Claim
  <2> QED BY <1>6, <2>1, <2>2 DEF Claim
<1>7. CASE Confirm(w)
  <2>1. \A j \in Keys : SameFacts(j)
    <3>1. \/ UNCHANGED run
          \/ \E fatal \in BOOLEAN :
               run' = [run EXCEPT ![k] = [run[k] EXCEPT !.quarantined = @ \/ fatal]]
      BY <1>7 DEF Confirm
    <3>2. k \in Keys
      BY <1>7 DEF Confirm, TypeInv, Placed
    <3> QED BY <3>1, <3>2, MarksQuietly DEF SameFacts
  <2> QED BY <1>7, <2>1, MovesQuietly DEF Confirm
<1> QED BY <1>1, <1>2, <1>3, <1>4, <1>5, <1>6, <1>7

\* No edit, switch, expiry or passage of time touches an outcome.
LEMMA OwnerQuiet ==
    ASSUME TypeInv, Owner \/ Time
    PROVE  Quiet
<1>1. UNCHANGED <<calls, credit, usage, worker>>
  BY DEF Owner, Time, CreateMessage, ReplaceMessage, RewindMessages, InvalidateHistory,
         SwitchVersion, VersionExpires, LeaseExpires, BackoffElapses
<1>2. \A k \in Keys : SameFacts(k)
  <2>1. CASE UNCHANGED run
    BY <2>1 DEF SameFacts
  <2>2. CASE InvalidateHistory
    BY <2>2 DEF InvalidateHistory, SameFacts, TypeInv, TypeOK, Run
  <2>3. CASE LeaseExpires \/ BackoffElapses
    <3>1. PICK k \in Keys : \/ run' = [run EXCEPT ![k] = [run[k] EXCEPT !.leaseOver = TRUE]]
                            \/ run' = [run EXCEPT ![k] = [run[k] EXCEPT !.due = TRUE]]
      BY <2>3 DEF LeaseExpires, BackoffElapses
    <3> QED BY <3>1, MarksQuietly
  <2> QED BY <2>1, <2>2, <2>3
          DEF Owner, Time, CreateMessage, ReplaceMessage, RewindMessages,
              SwitchVersion, VersionExpires
<1> QED BY <1>1, <1>2 DEF Quiet, SameCaller

-----------------------------------------------------------------------------
(* Steps that change an outcome or enter the gap *)

\* Only run k, its calls, credit and usage may differ after the step.
OnlyRun(k) ==
    \A j \in Keys \ {k} :
        /\ run'[j] = run[j]
        /\ calls'[j] = calls[j]
        /\ credit'[j] = credit[j]
        /\ usage'[j] = usage[j]

\* What has to be shown of run k and of the actor that moved: every other caller
\* of the run would own the same token, so there is none.
LEMMA OwnedStepIsSafe ==
    ASSUME TypeInv, SafeInv, NEW w \in Workers, NEW k \in Keys,
           run[k].status = "absent" \/ run[k].token = w,
           OnlyRun(k),
           \A v \in Workers \ {w} : worker'[v] = worker[v],
           RowSafe(k)', RowSettled(k)', CallerSafe(w)'
    PROVE  SafeInv'
<1>1. ASSUME NEW j \in Keys PROVE RowSafe(j)' /\ RowSettled(j)'
  BY DEF SafeInv, RowSafe, RowSettled, OnlyRun
<1>2. ASSUME NEW v \in Workers \ {w} PROVE CallerSafe(v)'
  <2>1. CASE worker[v].at \notin CallSteps
    BY <2>1 DEF CallerSafe, CallSteps
  <2>2. CASE worker[v].at \in CallSteps
    <3>1. worker[v].key \in Keys
      BY <2>2 DEF TypeInv, Placed, CallSteps
    <3>2. worker[v].key # k
      BY <2>2 DEF SafeInv, CallerSafe
    <3> QED BY <3>1, <3>2 DEF SafeInv, CallerSafe, OnlyRun
  <2> QED BY <2>1, <2>2
<1> QED BY <1>1, <1>2 DEF SafeInv

LEMMA ReserveIsSafe ==
    ASSUME TypeInv, SafeInv, NEW w \in Executions, Reserve(w)
    PROVE  SafeInv'
<1> w \in Workers BY DEF Workers
<1>0. PICK k \in Keys : k = worker[w].key
  BY DEF Reserve, TypeInv, Placed
<1>1. worker[w].plan \in {"prompt"} \cup PreparationFailures /\ worker[w].at = "reserve"
  BY DEF Reserve, TypeInv, Placed
<1>2. run[k].status = "absent" /\ run[k].phase = "none" /\ calls[k] = 0
  BY <1>0, <1>1 DEF Reserve, SafeInv, RowSafe
<1>3. /\ run'[k].status = Pending
      /\ run'[k].phase = IF worker[w].plan = "prompt" THEN "reserved" ELSE "result_ready"
      /\ run'[k].token = w
      /\ run'[k].billed <=> worker[w].plan = "prompt"
      /\ run'[k].outcome = IF worker[w].plan = "prompt" THEN "none" ELSE worker[w].plan
  BY <1>0, <1>1 DEF Reserve, NoRun, TypeInv, TypeOK
<1>4. /\ calls' = calls /\ usage' = usage
      /\ credit'[k] = IF worker[w].plan = "prompt" THEN "reserved" ELSE "none"
  BY <1>0, <1>1 DEF Reserve, TypeInv, TypeOK
<1>5. OnlyRun(k) /\ \A v \in Workers \ {w} : worker'[v] = worker[v]
  BY <1>0, <1>1 DEF Reserve, Goto, OnlyRun, TypeInv, TypeOK
<1>6. RowSafe(k)'
  BY <1>0, <1>1, <1>2, <1>3, <1>4 DEF RowSafe, Unasked
<1>7. RowSettled(k)'
  BY <1>0, <1>1, <1>2, <1>3, <1>4 DEF RowSettled, SafeInv
<1>8. CallerSafe(w)'
  <2>1. /\ worker'[w].key = k
        /\ worker'[w].at \in IF worker[w].plan = "prompt" THEN {"stage_call", "reread"}
                              ELSE {"finalize", "reread"}
    BY <1>0 DEF Reserve, Goto, TypeInv, Placed, Locals
  <2> QED BY <1>0, <1>2, <1>3, <1>4, <2>1 DEF CallerSafe, CallSteps
<1> QED BY <1>0, <1>1, <1>2, <1>5, <1>6, <1>7, <1>8, OwnedStepIsSafe

\* The steps of the caller itself.
LEMMA CallIsSafe ==
    ASSUME TypeInv, SafeInv, NEW w \in Executions,
           StageCalling(w) \/ CallProvider(w) \/ Receive(w) \/ StageResult(w)
    PROVE  SafeInv'
<1> w \in Workers BY DEF Workers
<1>0. PICK k \in Keys : k = worker[w].key
  BY DEF StageCalling, CallProvider, Receive, StageResult, TypeInv, Placed
<1>1. worker[w].at \in CallSteps
  BY DEF StageCalling, CallProvider, Receive, StageResult, TypeInv, Placed, CallSteps
<1>2. run[k].token = w /\ run[k].status # "absent" /\ run[k].billed
  BY <1>0, <1>1 DEF SafeInv, CallerSafe
<1>3. run[k] \in Run /\ RowSafe(k) /\ RowSettled(k) /\ CallerSafe(w)
  BY <1>0, <1>1 DEF SafeInv, TypeInv, TypeOK
<1>4. CASE StageCalling(w)
  <2>1. run' = [run EXCEPT ![k] = [run[k] EXCEPT !.phase = "calling"]]
    BY <1>0, <1>4 DEF StageCalling
  <2>2. run'[k].phase = "calling" /\ run[k].phase # "result_ready" /\ run[k].status = Pending
        /\ run'[k].status = run[k].status /\ run'[k].token = run[k].token
        /\ run'[k].billed = run[k].billed /\ run'[k].outcome = run[k].outcome
    BY <1>0, <1>1, <1>3, <1>4, <2>1 DEF StageCalling, MayUpdate, Staged, Run, TypeInv, TypeOK
  <2>3. worker'[w].key = k /\ worker'[w].at \in {"call", "reconcile"}
    BY <1>0, <1>4 DEF StageCalling, Goto, TypeInv, Placed, Locals
  <2>4. OnlyRun(k) /\ \A v \in Workers \ {w} : worker'[v] = worker[v]
    BY <1>0, <1>4, <2>1 DEF StageCalling, Goto, OnlyRun, TypeInv, TypeOK
  <2>5. RowSafe(k)' /\ RowSettled(k)'
    BY <1>0, <1>3, <1>4, <2>2 DEF StageCalling, RowSafe, RowSettled, Unasked
  <2>6. CallerSafe(w)'
    BY <1>0, <1>2, <1>3, <1>4, <2>2, <2>3 DEF StageCalling, RowSafe, CallerSafe, CallSteps, Unasked
  <2> QED BY <1>0, <1>1, <1>2, <2>4, <2>5, <2>6, OwnedStepIsSafe
<1>5. CASE CallProvider(w)
  <2>1. calls'[k] = 1
    BY <1>0, <1>1, <1>3, <1>5 DEF CallProvider, CallerSafe, TypeInv, TypeOK
  <2>2. worker'[w].key = k /\ worker'[w].at = "calling"
    BY <1>0, <1>5 DEF CallProvider, Goto, TypeInv, Placed, Locals
  <2>3. OnlyRun(k) /\ \A v \in Workers \ {w} : worker'[v] = worker[v]
    BY <1>0, <1>1, <1>5 DEF CallProvider, Goto, OnlyRun, TypeInv, TypeOK
  <2>4. RowSafe(k)' /\ RowSettled(k)'
    BY <1>0, <1>3, <1>5, <2>1 DEF CallProvider, RowSafe, RowSettled, CallerSafe
  <2>5. CallerSafe(w)'
    BY <1>0, <1>2, <1>5, <2>1, <2>2 DEF CallProvider, CallerSafe, CallSteps
  <2> QED BY <1>0, <1>1, <1>2, <2>3, <2>4, <2>5, OwnedStepIsSafe
<1>6. CASE Receive(w)
  <2>1. worker'[w].key = k /\ worker'[w].at = "stage_result"
    BY <1>0, <1>6 DEF Receive, TypeInv, Placed, Locals
  <2>2. OnlyRun(k) /\ \A v \in Workers \ {w} : worker'[v] = worker[v]
    BY <1>0, <1>6 DEF Receive, OnlyRun, store, TypeInv
  <2>3. RowSafe(k)' /\ RowSettled(k)'
    BY <1>0, <1>3, <1>6 DEF Receive, RowSafe, RowSettled, store
  <2>4. CallerSafe(w)'
    BY <1>0, <1>2, <1>3, <1>6, <2>1 DEF Receive, CallerSafe, CallSteps, store
  <2> QED BY <1>0, <1>1, <1>2, <2>2, <2>3, <2>4, OwnedStepIsSafe
<1>7. CASE StageResult(w)
  <2>1. run' = [run EXCEPT ![k] =
                  [run[k] EXCEPT !.phase = "result_ready", !.outcome = worker[w].plan]]
    BY <1>0, <1>7 DEF StageResult
  <2>2. /\ run'[k].phase = "result_ready" /\ run'[k].outcome = worker[w].plan
        /\ run'[k].status = run[k].status /\ run'[k].token = run[k].token
        /\ run'[k].billed = run[k].billed
    BY <1>0, <1>1, <1>3, <2>1 DEF Run, TypeInv, TypeOK
  <2>3. run[k].status = Pending /\ calls[k] = 1 /\ worker[w].plan \in CallOutcomes
    BY <1>0, <1>3, <1>7 DEF StageResult, MayUpdate, CallerSafe, TypeInv, Placed
  <2>4. worker'[w].at \notin CallSteps
    BY <1>0, <1>7 DEF StageResult, AfterStageError, Goto, Return, Rest, Idle, CallSteps,
                TypeInv, Placed, Locals
  <2>5. OnlyRun(k) /\ \A v \in Workers \ {w} : worker'[v] = worker[v]
    BY <1>0, <1>7, <2>1 DEF StageResult, AfterStageError, Goto, Return, OnlyRun, TypeInv, TypeOK
  <2>6. RowSafe(k)' /\ RowSettled(k)'
    BY <1>0, <1>2, <1>3, <1>7, <2>2, <2>3 DEF StageResult, RowSafe, RowSettled, Unasked
  <2>7. CallerSafe(w)'
    BY <2>4 DEF CallerSafe, CallSteps
  <2> QED BY <1>0, <1>1, <1>2, <2>5, <2>6, <2>7, OwnedStepIsSafe
<1> QED BY <1>4, <1>5, <1>6, <1>7

\* What completion makes of a pending run.
LEMMA SettleEffect ==
    ASSUME TypeInv, NEW k \in Keys, Settle(k)
    PROVE  /\ run'[k].status = StatusOf(run[k])
           /\ run'[k].phase = "result_ready"
           /\ run'[k].outcome = OutcomeOf(run[k])
           /\ run'[k].token = run[k].token
           /\ run'[k].billed = run[k].billed
           /\ credit'[k] = Settlement(run[k], StatusOf(run[k]))
           /\ usage'[k].rows = usage[k].rows + 1
           /\ usage'[k].charged = usage[k].charged
                + (IF StatusOf(run[k]) = "succeeded" /\ run[k].billed THEN 1 ELSE 0)
           /\ calls' = calls
           /\ OnlyRun(k)
<1>1. run[k] \in Run
  BY DEF TypeInv, TypeOK
<1>2. run' = [run EXCEPT ![k] =
                [run[k] EXCEPT !.status = StatusOf(run[k]), !.phase = "result_ready",
                               !.outcome = OutcomeOf(run[k]), !.leaseOver = FALSE]]
  BY DEF Settle
<1> QED BY <1>1, <1>2 DEF Settle, OnlyRun, TypeInv, TypeOK, Run

\* Recovery judges a run only by what is durable: reserved means nobody called,
\* calling means somebody may have.
LEMMA FinalizeIsSafe ==
    ASSUME TypeInv, SafeInv, NEW w \in Workers, Finalize(w)
    PROVE  SafeInv'
<1>1. PICK k \in Keys : k = worker[w].key
  BY DEF Finalize, TypeInv, Placed
<1>2. run[k].status = Pending /\ Settle(k)
  BY <1>1 DEF Finalize, Settleable
<1>3. run[k] \in Run /\ RowSafe(k) /\ RowSettled(k)
  BY DEF SafeInv, TypeInv, TypeOK
<1>4. /\ StatusOf(run[k]) \in Terminal
      /\ StatusOf(run[k]) = "succeeded" => OutcomeOf(run[k]) = "answer"
  BY <1>3, OutcomeTyped
<1>5. /\ OutcomeOf(run[k]) \in Unasked => calls[k] = 0
      /\ OutcomeOf(run[k]) = "answer" => calls[k] = 1 /\ run[k].billed
  BY <1>3 DEF OutcomeOf, RowSafe, Unasked, Run
<1>6. RowSafe(k)'
  BY <1>2, <1>3, <1>4, <1>5, SettleEffect DEF RowSafe
<1>7. RowSettled(k)'
  BY <1>2, <1>3, <1>4, <1>5, SettleEffect DEF RowSettled, Settlement, Run
<1>8. \A v \in Workers : SameCaller(v)
  BY MovesQuietly DEF Finalize, AfterFinalizeError, Steps, CallSteps
<1>9. ASSUME NEW v \in Workers PROVE CallerSafe(v)'
  <2>1. CASE worker'[v].at \notin CallSteps
    BY <2>1 DEF CallerSafe, CallSteps
  <2>2. CASE worker'[v].at \in CallSteps
    <3>1. worker'[v].at = worker[v].at /\ worker'[v].key = worker[v].key
      BY <1>8, <2>2 DEF SameCaller
    <3>2. PICK j \in Keys : j = worker[v].key
      BY <2>2, <3>1 DEF TypeInv, Placed, CallSteps
    <3>3. CASE j = k
      <4>1. CallerSafe(v) /\ worker[v].key = k
        BY <3>2, <3>3 DEF SafeInv
      <4>2. worker[v].at = "call" => OutcomeOf(run[k]) \notin Unasked
        BY <4>1 DEF CallerSafe, OutcomeOf, Unasked
      <4>3. worker'[v].key = k /\ worker'[v].at = worker[v].at
        BY <3>1, <4>1
      <4>4. run'[k].token = run[k].token /\ run'[k].billed = run[k].billed
            /\ run'[k].status # "absent" /\ run'[k].phase = "result_ready"
            /\ run'[k].outcome = OutcomeOf(run[k]) /\ calls' = calls
        BY <1>2, <1>4, SettleEffect
      <4> QED BY <4>1, <4>2, <4>3, <4>4 DEF CallerSafe
    <3>4. CASE j # k
      BY <1>2, <3>1, <3>2, <3>4, SettleEffect DEF SafeInv, CallerSafe, OnlyRun
    <3> QED BY <3>3, <3>4
  <2> QED BY <2>1, <2>2
<1>10. ASSUME NEW j \in Keys \ {k} PROVE RowSafe(j)' /\ RowSettled(j)'
  BY <1>2, SettleEffect DEF SafeInv, RowSafe, RowSettled, OnlyRun
<1> QED BY <1>6, <1>7, <1>9, <1>10 DEF SafeInv

-----------------------------------------------------------------------------
(* The invariant and what follows from it *)

LEMMA SafeInit == Init => SafeInv
BY DEF Init, SafeInv, RowSafe, RowSettled, CallerSafe, NoRun, Idle, CallSteps, Unasked

\* Every step is quiet, or one of five that are not.
LEMMA StepKinds ==
    ASSUME TypeInv, [Next]_vars
    PROVE  \/ Quiet
           \/ \E w \in Executions :
                \/ Reserve(w) \/ StageCalling(w) \/ CallProvider(w)
                \/ Receive(w) \/ StageResult(w)
           \/ \E w \in Workers : Finalize(w)
<1>1. ASSUME UNCHANGED vars PROVE Quiet
  BY <1>1 DEF vars, Quiet, SameFacts, SameCaller
<1> QED BY <1>1, ActorQuiet, OwnerQuiet DEF Next, Execute, Complete, Workers

LEMMA SafeStep == TypeInv /\ SafeInv /\ [Next]_vars => SafeInv'
BY StepKinds, QuietIsSafe, ReserveIsSafe, CallIsSafe, FinalizeIsSafe

LEMMA Safe == Spec => [](TypeInv /\ SafeInv)
BY TypeInit, TypeStep, SafeInit, SafeStep, PTL DEF Spec

\* However many executions replay a key and however recovery interferes, its
\* provider request is sent at most once.
THEOREM ProviderCalledAtMostOnce == Spec => []CalledAtMostOnce
<1>1. SafeInv => CalledAtMostOnce
  BY DEF SafeInv, RowSafe, CalledAtMostOnce
<1> QED BY <1>1, Safe, PTL

\* A request reported as never having reached the provider never does.
THEOREM ReportsAreTrue == Spec => []UncalledMeansUncalled
<1>1. SafeInv => UncalledMeansUncalled
  BY DEF SafeInv, RowSafe, UncalledMeansUncalled, Unasked
<1> QED BY <1>1, Safe, PTL

\* Credit is held while a billed run is pending, spent exactly for a delivered
\* answer and returned otherwise, with one usage row per finished run.
THEOREM CreditFollowsOutcome == Spec => []SettledWithOutcome
<1>1. SafeInv => SettledWithOutcome
  BY DEF SafeInv, RowSettled, SettledWithOutcome
<1> QED BY <1>1, Safe, PTL

\* The effect of each step that is not quiet, on the run it is about.
LEMMA LoudEffects ==
    ASSUME TypeInv, SafeInv, NEW w \in Workers,
           \/ w \in Executions /\ (\/ Reserve(w) \/ StageCalling(w) \/ CallProvider(w)
                                   \/ Receive(w) \/ StageResult(w))
           \/ Finalize(w)
    PROVE  \E k \in Keys :
             /\ k = worker[w].key
             /\ OnlyRun(k)
             /\ \/ /\ run[k].status = "absent" /\ run'[k].status = Pending
                   /\ calls'[k] = calls[k]
                   /\ credit[k] # "committed" /\ credit'[k] # "committed"
                \/ /\ run[k].status = Pending /\ run'[k].status = Pending
                   /\ calls'[k] = calls[k] /\ credit'[k] = credit[k]
                \/ /\ SameFacts(k) /\ credit'[k] = credit[k] /\ usage'[k] = usage[k]
                   /\ calls'[k] \in {calls[k], calls[k] + 1}
                   /\ calls'[k] # calls[k] =>
                        /\ run[k].status # "absent"
                        /\ calls[k] = 0
                        /\ run[k].outcome \notin Unasked
                \/ /\ run[k].status = Pending
                   /\ run'[k].status = StatusOf(run[k])
                   /\ run'[k].outcome = OutcomeOf(run[k])
                   /\ calls'[k] = calls[k]
                   /\ credit'[k] = Settlement(run[k], StatusOf(run[k]))
<1>0. PICK k \in Keys : k = worker[w].key
  BY DEF Reserve, StageCalling, CallProvider, Receive, StageResult, Finalize, TypeInv, Placed
<1>1. run[k] \in Run /\ RowSafe(k) /\ RowSettled(k) /\ CallerSafe(w)
  BY DEF SafeInv, TypeInv, TypeOK
<1>2. CASE Reserve(w)
  <2>1. run'[k].status = Pending
    BY <1>0, <1>2 DEF Reserve, NoRun, TypeInv, TypeOK
  <2>2. credit[k] # "committed" /\ credit'[k] # "committed" /\ calls' = calls
    BY <1>0, <1>1, <1>2 DEF Reserve, RowSettled, TypeInv, TypeOK
  <2>3. OnlyRun(k)
    BY <1>0, <1>2 DEF Reserve, OnlyRun, TypeInv, TypeOK
  <2> QED BY <1>0, <1>2, <2>1, <2>2, <2>3 DEF Reserve
<1>3. CASE StageCalling(w) \/ StageResult(w)
  <2>1. run[k].status = Pending /\ UNCHANGED <<calls, credit, usage>>
    BY <1>0, <1>3 DEF StageCalling, StageResult, MayUpdate
  <2>2. \/ run' = [run EXCEPT ![k] = [run[k] EXCEPT !.phase = "calling"]]
        \/ run' = [run EXCEPT ![k] = [run[k] EXCEPT !.phase = "result_ready",
                                                  !.outcome = worker[w].plan]]
    BY <1>0, <1>3 DEF StageCalling, StageResult
  <2>3. run'[k].status = run[k].status
    <3>1. run \in [Keys -> Run] BY DEF TypeInv, TypeOK
    <3>2. /\ [run[k] EXCEPT !.phase = "calling"].status = run[k].status
          /\ [run[k] EXCEPT !.phase = "result_ready", !.outcome = worker[w].plan].status
               = run[k].status
      BY <1>1 DEF Run
    <3> QED BY <2>2, <3>1, <3>2
  <2>4. \A j \in Keys \ {k} : run'[j] = run[j]
    BY <2>2 DEF TypeInv, TypeOK
  <2> QED BY <1>0, <2>1, <2>3, <2>4 DEF OnlyRun
<1>4. CASE CallProvider(w)
  <2>1. calls'[k] = calls[k] + 1 /\ \A j \in Keys \ {k} : calls'[j] = calls[j]
    BY <1>0, <1>4 DEF CallProvider, TypeInv, TypeOK
  <2>2. run[k].status # "absent" /\ calls[k] = 0 /\ run[k].outcome \notin Unasked
    BY <1>0, <1>1, <1>4 DEF CallProvider, CallerSafe, CallSteps
  <2>3. UNCHANGED <<run, credit, usage>>
    BY <1>4 DEF CallProvider
  <2> QED BY <1>0, <2>1, <2>2, <2>3 DEF OnlyRun, SameFacts
<1>5. CASE Receive(w)
  BY <1>0, <1>5 DEF Receive, store, OnlyRun, SameFacts
<1>6. CASE Finalize(w)
  <2>1. run[k].status = Pending /\ Settle(k)
    BY <1>0, <1>6 DEF Finalize, Settleable
  <2> QED BY <1>0, <2>1, SettleEffect
<1> QED BY <1>2, <1>3, <1>4, <1>5, <1>6

\* A terminal outcome and its settlement are final: neither a late result nor a
\* second recovery nor a replay changes them.
THEOREM OutcomesAreFinal == Spec => TerminalIsFinal
<1> DEFINE Final == \A k \in Keys : run[k].status \in Terminal =>
                      /\ run'[k].status = run[k].status
                      /\ run'[k].outcome = run[k].outcome
                      /\ credit'[k] = credit[k]
                      /\ usage'[k] = usage[k]
<1>1. TypeInv /\ SafeInv /\ [Next]_vars => Final
  <2> SUFFICES ASSUME TypeInv, SafeInv, [Next]_vars PROVE Final
    OBVIOUS
  <2>1. CASE Quiet
    BY <2>1 DEF Quiet, SameFacts
  <2>2. CASE ~Quiet
    BY <2>2, StepKinds, LoudEffects DEF OnlyRun, SameFacts, Workers
  <2> QED BY <2>1, <2>2
<1>2. TypeInv /\ SafeInv /\ [Next]_vars => [Final]_vars
  BY <1>1
<1>3. Spec => [][Final]_vars
  BY <1>2, Safe, PTL DEF Spec
<1> QED BY <1>3 DEF TerminalIsFinal

-----------------------------------------------------------------------------
(* The promise to the user *)

Statuses == [k \in Keys |-> PromiseStatus(k)]
Charged == {k \in Keys : credit[k] = "committed"}

LEMMA PromiseInit == Init => Promise!Init
BY DEF Init, Promise!Init, PromiseStatus, NoRun

\* Other runs keep their place in the promise.
LEMMA OthersKeepPromise ==
    ASSUME TypeInv, TypeInv', NEW k \in Keys, OnlyRun(k)
    PROVE  /\ \A j \in Keys \ {k} : PromiseStatus(j)' = PromiseStatus(j)
           /\ \A j \in Keys \ {k} : calls'[j] = calls[j]
           /\ \A j \in Keys \ {k} : credit'[j] = credit[j]
           /\ calls' = [calls EXCEPT ![k] = calls'[k]]
           /\ Statuses' = [Statuses EXCEPT ![k] = PromiseStatus(k)']
<1>1. \A j \in Keys \ {k} : PromiseStatus(j)' = PromiseStatus(j)
  BY DEF OnlyRun, PromiseStatus
<1>2. \A j \in Keys \ {k} : calls'[j] = calls[j] /\ credit'[j] = credit[j]
  BY DEF OnlyRun
<1>3. calls' = [calls EXCEPT ![k] = calls'[k]]
  BY <1>2 DEF TypeInv, TypeOK
<1>4. Statuses' = [Statuses EXCEPT ![k] = PromiseStatus(k)']
  BY <1>1 DEF Statuses
<1> QED BY <1>1, <1>2, <1>3, <1>4

LEMMA PromiseStep ==
    TypeInv /\ TypeInv' /\ SafeInv /\ [Next]_vars => [Promise!Next]_(Promise!vars)
<1> SUFFICES ASSUME TypeInv, TypeInv', SafeInv, [Next]_vars
             PROVE  [Promise!Next]_(Promise!vars)
  OBVIOUS
<1>1. CASE Quiet
  <2>1. \A k \in Keys : PromiseStatus(k)' = PromiseStatus(k)
    BY <1>1 DEF Quiet, SameFacts, PromiseStatus
  <2>2. Statuses' = Statuses
    BY <2>1 DEF Statuses
  <2>3. calls' = calls /\ Charged' = Charged
    BY <1>1 DEF Quiet, Charged
  <2> QED BY <2>2, <2>3 DEF Promise!vars, Statuses, Charged
<1>2. CASE ~Quiet
  <2>1. PICK w \in Workers :
          \/ w \in Executions /\ (\/ Reserve(w) \/ StageCalling(w) \/ CallProvider(w)
                                  \/ Receive(w) \/ StageResult(w))
          \/ Finalize(w)
    BY <1>2, StepKinds DEF Workers
  <2> DEFINE Accepts(k) == /\ run[k].status = "absent" /\ run'[k].status = Pending
                           /\ calls'[k] = calls[k]
                           /\ credit[k] # "committed" /\ credit'[k] # "committed"
             Stages(k) == /\ run[k].status = Pending /\ run'[k].status = Pending
                          /\ calls'[k] = calls[k] /\ credit'[k] = credit[k]
             Asks(k) == /\ SameFacts(k) /\ credit'[k] = credit[k] /\ usage'[k] = usage[k]
                        /\ calls'[k] \in {calls[k], calls[k] + 1}
                        /\ calls'[k] # calls[k] =>
                             /\ run[k].status # "absent"
                             /\ calls[k] = 0
                             /\ run[k].outcome \notin Unasked
             Settles(k) == /\ run[k].status = Pending
                           /\ run'[k].status = StatusOf(run[k])
                           /\ run'[k].outcome = OutcomeOf(run[k])
                           /\ calls'[k] = calls[k]
                           /\ credit'[k] = Settlement(run[k], StatusOf(run[k]))
  <2>2. PICK k \in Keys : OnlyRun(k) /\ (Accepts(k) \/ Stages(k) \/ Asks(k) \/ Settles(k))
    BY <2>1, LoudEffects
  <2>3. run[k] \in Run /\ RowSafe(k) /\ RowSettled(k)
    BY DEF SafeInv, TypeInv, TypeOK
  <2>4. /\ Statuses' = [Statuses EXCEPT ![k] = PromiseStatus(k)']
        /\ calls' = [calls EXCEPT ![k] = calls'[k]]
        /\ \A j \in Keys \ {k} : credit'[j] = credit[j]
    BY <2>2, OthersKeepPromise
  <2>5. /\ Statuses = [j \in Keys |-> PromiseStatus(j)]
        /\ Statuses[k] = PromiseStatus(k)
        /\ calls \in [Keys -> Nat]
    <3>1. Statuses = [j \in Keys |-> PromiseStatus(j)] /\ Statuses[k] = PromiseStatus(k)
      BY DEF Statuses
    <3> QED BY <3>1 DEF TypeInv, TypeOK
  <2>6. CASE Accepts(k)
    <3>1. PromiseStatus(k) = "new" /\ PromiseStatus(k)' = "owed"
      BY <2>6 DEF PromiseStatus
    <3>2. Charged' = Charged /\ calls' = calls
      BY <2>4, <2>5, <2>6 DEF Charged
    <3>3. Promise!Accept(k)
      BY <2>4, <2>5, <3>1, <3>2 DEF Promise!Accept, Statuses, Charged
    <3> QED BY <3>3 DEF Promise!Next
  <2>7. CASE Stages(k)
    <3>1. PromiseStatus(k)' = PromiseStatus(k)
      BY <2>7 DEF PromiseStatus
    <3>2. Statuses' = Statuses /\ calls' = calls /\ Charged' = Charged
      BY <2>4, <2>5, <2>7, <3>1 DEF Charged
    <3> QED BY <3>2 DEF Promise!vars, Statuses, Charged
  <2>8. CASE Asks(k)
    <3>1. PromiseStatus(k)' = PromiseStatus(k)
      BY <2>8 DEF SameFacts, PromiseStatus
    <3>2. Statuses' = Statuses /\ Charged' = Charged
      BY <2>4, <2>5, <2>8, <3>1 DEF Charged
    <3>3. CASE calls'[k] = calls[k]
      BY <2>4, <2>5, <3>2, <3>3 DEF Promise!vars, Statuses, Charged
    <3>4. CASE calls'[k] # calls[k]
      <4>1. PromiseStatus(k) \in {"owed", "withheld"}
        BY <2>3, <2>8, <3>4 DEF PromiseStatus, RowSafe, Unasked, Run
      <4>2. calls[k] = 0 /\ calls'[k] = 1
        BY <2>8, <3>4
      <4>3. Promise!Ask(k)
        BY <2>4, <2>5, <3>2, <4>1, <4>2 DEF Promise!Ask, Statuses, Charged
      <4> QED BY <4>3 DEF Promise!Next
    <3> QED BY <3>3, <3>4
  <2>9. CASE Settles(k)
    <3> DEFINE status == StatusOf(run[k])
               outcome == OutcomeOf(run[k])
    <3>1. /\ status \in Terminal
          /\ status = "succeeded" => outcome = "answer"
          /\ outcome \in {"none"} \cup Outcomes
      BY <2>3, OutcomeTyped
    <3>2. /\ outcome \in Unasked => calls[k] = 0
          /\ outcome = "answer" => calls[k] = 1 /\ run[k].billed
      BY <2>3 DEF OutcomeOf, RowSafe, Unasked, Run
    <3>3. PromiseStatus(k) = "owed" /\ calls' = calls
      BY <2>4, <2>5, <2>9 DEF PromiseStatus
    <3>4. /\ credit[k] # "committed"
          /\ credit'[k] = "committed" <=> status = "succeeded"
      BY <2>3, <2>9, <3>1, <3>2 DEF RowSettled, Settlement, Run
    <3>5. CASE status = "succeeded"
      <4>1. PromiseStatus(k)' = "delivered"
        BY <2>9, <3>5 DEF PromiseStatus
      <4>2. Charged' = Charged \cup {k}
        BY <2>4, <3>4, <3>5 DEF Charged
      <4>3. Promise!Deliver(k)
        BY <2>4, <2>5, <3>1, <3>2, <3>3, <3>5, <4>1, <4>2
           DEF Promise!Deliver, Statuses, Charged
      <4> QED BY <4>3 DEF Promise!Next
    <3>6. CASE status # "succeeded"
      <4>1. PromiseStatus(k)' = IF outcome \in Unasked THEN "unasked" ELSE "withheld"
        BY <2>9, <3>1, <3>6 DEF PromiseStatus, Unasked
      <4>2. Charged' = Charged
        BY <2>4, <3>4, <3>6 DEF Charged
      <4>3. CASE outcome \in Unasked
        <5>1. Promise!ReportUnasked(k)
          BY <2>4, <2>5, <3>2, <3>3, <4>1, <4>2, <4>3
             DEF Promise!ReportUnasked, Statuses, Charged
        <5> QED BY <5>1 DEF Promise!Next
      <4>4. CASE outcome \notin Unasked
        <5>1. Promise!Withhold(k)
          BY <2>4, <2>5, <3>3, <4>1, <4>2, <4>4
             DEF Promise!Withhold, Statuses, Charged
        <5> QED BY <5>1 DEF Promise!Next
      <4> QED BY <4>3, <4>4
    <3> QED BY <3>5, <3>6
  <2> QED BY <2>2, <2>6, <2>7, <2>8, <2>9
<1> QED BY <1>1, <1>2

\* The whole machinery of leases, tokens, staging and recovery is a way of keeping
\* the promise: every step is one of its steps or changes nothing in it.
THEOREM PromiseIsKept == Spec => ImplementsPromise
<1>1. Spec => [](TypeInv /\ SafeInv)
  BY Safe
<1>2. Init => Promise!Init
  BY PromiseInit
<1>3. TypeInv /\ TypeInv' /\ SafeInv /\ [Next]_vars => [Promise!Next]_(Promise!vars)
  BY PromiseStep
<1> QED BY <1>1, <1>2, <1>3, PTL DEF Spec, ImplementsPromise, Promise!Spec

-----------------------------------------------------------------------------
(* The history of the conversation: what a pending request rests on, and   *)
(* what a finished one has left in it.                                     *)

\* Where request k's answer is among the messages.
ShownAt(k) == {i \in DOMAIN messages : messages[i].by = k}

\* Delivered answers whose history has not been rewritten.
Standing == {k \in Keys : run[k].status = "succeeded" /\ ~run[k].invalidated}

OneIsOwed == \A j, k \in Keys : run[j].status = Pending /\ run[k].status = Pending => j = k

HistoryInv ==
    /\ OneIsOwed
    /\ \A k \in Keys : run[k].status = Pending => IsCurrentInput(run[k].input)
    /\ \A k \in Keys : run[k].status # "succeeded" => ShownAt(k) = {}
    /\ \A k \in Standing : \E i : ShownAt(k) = {i}
    /\ IsFiniteSet(Standing) /\ Cardinality(Standing) <= memoryRequested

\* What a step does to the history and to the part of a row that is about it.
SameRow(k) ==
    /\ run'[k].status = run[k].status
    /\ run'[k].input = run[k].input
    /\ run'[k].invalidated = run[k].invalidated

OthersSame(k) == \A j \in Keys \ {k} : SameRow(j)

Calm == (\A k \in Keys : SameRow(k)) /\ UNCHANGED <<messages, memoryRequested>>

Begins(k) ==
    /\ OthersSame(k) /\ UNCHANGED <<messages, memoryRequested>>
    /\ run[k].status = "absent" /\ run'[k].status = Pending
    /\ ConversationIdle /\ IsCurrentInput(run'[k].input)

Ends(k) ==
    /\ OthersSame(k)
    /\ run[k].status = Pending /\ run'[k].status \in Terminal
    /\ run'[k].invalidated = run[k].invalidated
    /\ run'[k].status = "succeeded" =>
         /\ messages' = Append(messages, AnswerMessage(k))
         /\ memoryRequested' = memoryRequested + 1
    /\ run'[k].status # "succeeded" =>
         messages' = messages /\ memoryRequested' \in {memoryRequested, memoryRequested + 1}

Added ==
    /\ \A k \in Keys : SameRow(k)
    /\ ConversationIdle
    /\ UNCHANGED memoryRequested
    /\ \E m \in Message : m.by = None /\ messages' = Append(messages, m)

Rewritten ==
    /\ ConversationIdle
    /\ \A k \in Keys : /\ run'[k].status = run[k].status
                       /\ run[k].status # "absent" => run'[k].invalidated
    /\ memoryRequested' = 0
    /\ \A i \in DOMAIN messages' : i \in DOMAIN messages /\ messages'[i].by = messages[i].by

-----------------------------------------------------------------------------
(* What each action does to the history *)

LEMMA MarksKeepHistory ==
    ASSUME TypeInv, NEW k \in Keys, NEW mark,
           \/ run' = [run EXCEPT ![k] = [run[k] EXCEPT !.leaseOver = mark]]
           \/ run' = [run EXCEPT ![k] = [run[k] EXCEPT !.due = mark]]
           \/ run' = [run EXCEPT ![k] = [run[k] EXCEPT !.quarantined = mark]]
    PROVE  \A j \in Keys : SameRow(j)
<1>1. run[k] \in Run /\ run \in [Keys -> Run]
  BY DEF TypeInv, TypeOK
<1>2. SameRow(k)
  BY <1>1 DEF SameRow, Run
<1>3. \A j \in Keys \ {k} : run'[j] = run[j]
  BY <1>1
<1> QED BY <1>2, <1>3 DEF SameRow

LEMMA ReserveBegins ==
    ASSUME TypeInv, NEW w \in Executions, Reserve(w)
    PROVE  \E k \in Keys : Begins(k)
<1> w \in Workers BY DEF Workers
<1>0. PICK k \in Keys : k = worker[w].key
  BY DEF Reserve, TypeInv, Placed
<1> DEFINE billed == worker[w].plan = "prompt"
           row == [NoRun EXCEPT !.status = Pending,
                     !.phase = IF billed THEN "reserved" ELSE "result_ready",
                     !.token = w, !.billed = billed,
                     !.outcome = IF billed THEN "none" ELSE worker[w].plan,
                     !.input = worker[w].input, !.version = product.version]
<1>1. run' = [run EXCEPT ![k] = row] /\ run \in [Keys -> Run]
  BY <1>0 DEF Reserve, TypeInv, TypeOK
<1>2. row.status = Pending /\ row.input = worker[w].input
  BY DEF NoRun
<1> HIDE DEF row
<1>3. run'[k].status = Pending /\ run'[k].input = worker[w].input
  BY <1>1, <1>2
<1>4. OthersSame(k)
  BY <1>1 DEF OthersSame, SameRow
<1>5. /\ run[k].status = "absent" /\ ConversationIdle
      /\ IsCurrentInput(worker[w].input) /\ UNCHANGED <<messages, memoryRequested>>
  BY <1>0 DEF Reserve, ConditionsHold
<1> QED BY <1>3, <1>4, <1>5 DEF Begins

LEMMA FinalizeEnds ==
    ASSUME TypeInv, NEW w \in Workers, Finalize(w)
    PROVE  \E k \in Keys : Ends(k)
<1>0. PICK k \in Keys : k = worker[w].key
  BY DEF Finalize, TypeInv, Placed
<1>1. Settle(k) /\ run[k].status = Pending /\ run \in [Keys -> Run]
  BY <1>0 DEF Finalize, Settleable, TypeInv, TypeOK
<1> DEFINE status == StatusOf(run[k])
<1>2. status \in Terminal
  BY DEF StatusOf
<1>3. /\ run' = [run EXCEPT ![k].status = status, ![k].phase = "result_ready",
                            ![k].outcome = OutcomeOf(run[k]), ![k].leaseOver = FALSE]
      /\ messages' = IF status = "succeeded" THEN Append(messages, AnswerMessage(k)) ELSE messages
      /\ memoryRequested' = IF NeedsMemoryWork(run[k], status)
                            THEN memoryRequested + 1 ELSE memoryRequested
  BY <1>1 DEF Settle
<1>4. status = "succeeded" => memoryRequested' = memoryRequested + 1
  BY <1>3 DEF NeedsMemoryWork
<1> HIDE DEF status
<1>5. run'[k].status = status /\ run'[k].invalidated = run[k].invalidated
  BY <1>1, <1>3 DEF Run
<1>6. OthersSame(k)
  BY <1>1, <1>3 DEF OthersSame, SameRow
<1> QED BY <1>1, <1>2, <1>3, <1>4, <1>5, <1>6 DEF Ends

LEMMA OwnerRewrites ==
    ASSUME TypeInv, ReplaceMessage \/ RewindMessages
    PROVE  Rewritten
<1>1. run \in [Keys -> Run] /\ messages \in Seq(Message)
  BY DEF TypeInv, TypeOK
<1>2. ConversationIdle /\ InvalidateHistory
  BY DEF ReplaceMessage, RewindMessages, MayEdit
<1>3. \A k \in Keys : /\ run'[k].status = run[k].status
                      /\ run[k].status # "absent" => run'[k].invalidated
  BY <1>1, <1>2 DEF InvalidateHistory, Run
<1>4. \A i \in DOMAIN messages' : i \in DOMAIN messages /\ messages'[i].by = messages[i].by
  <2>1. CASE ReplaceMessage
    <3>1. messages # <<>> /\ messages' = [messages EXCEPT ![Len(messages)].rev = @ + 1]
      BY <2>1 DEF ReplaceMessage
    <3>2. Len(messages) \in DOMAIN messages /\ messages[Len(messages)] \in Message
      BY <1>1, <3>1
    <3> QED BY <1>1, <3>1, <3>2 DEF Message
  <2>2. CASE RewindMessages
    <3>1. PICK i \in DOMAIN messages : messages' = SubSeq(messages, 1, i - 1)
      BY <2>2 DEF RewindMessages
    <3>2. i \in 1 .. Len(messages) /\ Len(messages) \in Nat
      BY <1>1
    <3>3. DOMAIN messages' = 1 .. (i - 1)
          /\ \A j \in 1 .. (i - 1) : messages'[j] = messages[j]
      BY <1>1, <3>1, <3>2
    <3> QED BY <1>1, <3>2, <3>3
  <2> QED BY <2>1, <2>2
<1>5. memoryRequested' = 0
  BY <1>2 DEF InvalidateHistory
<1> QED BY <1>2, <1>3, <1>4, <1>5 DEF Rewritten

LEMMA OwnerAdds ==
    ASSUME TypeInv, CreateMessage
    PROVE  Added
<1> DEFINE m == [id |-> historyVersion + 1, from |-> "user", rev |-> 1, by |-> None]
<1>1. m \in Message /\ m.by = None
  BY DEF TypeInv, TypeOK, Message
<1>2. messages' = Append(messages, m)
  BY DEF CreateMessage
<1> QED BY <1>1, <1>2 DEF CreateMessage, MayEdit, Added, SameRow

\* Every other step leaves the history and its part of the rows alone.
LEMMA HistorySteps ==
    ASSUME TypeInv, [Next]_vars
    PROVE  Calm \/ Added \/ Rewritten \/ \E k \in Keys : Begins(k) \/ Ends(k)
<1>1. run \in [Keys -> Run]
  BY DEF TypeInv, TypeOK
<1>0. CASE UNCHANGED <<run, messages, memoryRequested>>
  BY <1>0 DEF Calm, SameRow
<1>2. ASSUME NEW w \in Executions, StageCalling(w) \/ StageResult(w) PROVE Calm
  <2>1. PICK phase, outcome :
          \/ run' = [run EXCEPT ![worker[w].key].phase = phase]
          \/ run' = [run EXCEPT ![worker[w].key].phase = phase,
                                ![worker[w].key].outcome = outcome]
    BY <1>2 DEF StageCalling, StageResult
  <2>2. \A k \in Keys : SameRow(k)
    BY <1>1, <2>1 DEF SameRow, Run
  <2> QED BY <1>2, <2>2 DEF StageCalling, StageResult, Calm
<1>3. ASSUME NEW w \in Workers, Claim(w) PROVE Calm
  <2>1. \A k \in Keys : SameRow(k)
    BY <1>3, ClaimKeeps DEF SameRow
  <2> QED BY <1>3, <2>1 DEF Claim, Calm
<1>4. ASSUME NEW w \in Workers, Confirm(w) PROVE Calm
  <2>1. worker[w].key \in Keys
    BY <1>4 DEF Confirm, TypeInv, Placed
  <2>2. \/ UNCHANGED run
        \/ \E fatal \in BOOLEAN :
             run' = [run EXCEPT ![worker[w].key] =
                       [run[worker[w].key] EXCEPT !.quarantined = @ \/ fatal]]
    BY <1>4 DEF Confirm
  <2>3. \A k \in Keys : SameRow(k)
    BY <2>1, <2>2, MarksKeepHistory DEF SameRow
  <2> QED BY <1>4, <2>3 DEF Confirm, Calm
<1>5. CASE LeaseExpires \/ BackoffElapses
  <2>1. PICK k \in Keys : \/ run' = [run EXCEPT ![k] = [run[k] EXCEPT !.leaseOver = TRUE]]
                          \/ run' = [run EXCEPT ![k] = [run[k] EXCEPT !.due = TRUE]]
    BY <1>5 DEF LeaseExpires, BackoffElapses
  <2> QED BY <1>5, <2>1, MarksKeepHistory DEF LeaseExpires, BackoffElapses, Calm
<1>6. CASE \E w \in Executions : Execute(w)
  BY <1>0, <1>2, <1>6, ReserveBegins
     DEF Execute, Lookup, Prepare, ReserveNothing, Reread, CallProvider, Receive, StageFails,
         Reconcile, store
<1>7. CASE \E w \in Workers : Complete(w)
  BY <1>0, <1>3, <1>4, <1>7, FinalizeEnds DEF Complete, NoClaim, FinalizeNothing, store
<1>8. CASE Owner \/ Time
  BY <1>0, <1>5, <1>8, OwnerAdds, OwnerRewrites DEF Owner, Time, SwitchVersion, VersionExpires
<1> QED BY <1>0, <1>6, <1>7, <1>8 DEF Next, vars, Scan, ManualRecovery, Stop, store

-----------------------------------------------------------------------------
(* Each kind of step keeps the invariant *)

LEMMA BeginsKeeps ==
    ASSUME TypeInv, HistoryInv, NEW k \in Keys, Begins(k)
    PROVE  HistoryInv'
<1>1. \A j \in Keys : run'[j].status = Pending => j = k
  BY DEF Begins, OthersSame, SameRow, ConversationIdle
<1>2. \A j \in Keys : run'[j].status = "succeeded" <=> run[j].status = "succeeded"
  BY DEF Begins, OthersSame, SameRow
<1>3. Standing' = Standing
  BY <1>2 DEF Standing, Begins, OthersSame, SameRow
<1>4. \A j \in Keys : ShownAt(j)' = ShownAt(j)
  BY DEF ShownAt, Begins
<1>6. (\A j \in Keys : run[j].status = Pending => IsCurrentInput(run[j].input))'
  BY <1>1 DEF Begins, IsCurrentInput, Last
<1>7. OneIsOwed'
  BY <1>1 DEF OneIsOwed
<1>8. (\A j \in Keys : run[j].status # "succeeded" => ShownAt(j) = {})'
  BY <1>2, <1>4 DEF HistoryInv
<1>9. (\A j \in Standing : \E i : ShownAt(j) = {i})'
  BY <1>3, <1>4 DEF HistoryInv, Standing
<1>10. (IsFiniteSet(Standing) /\ Cardinality(Standing) <= memoryRequested)'
  BY <1>3 DEF HistoryInv, Begins
<1> QED BY <1>6, <1>7, <1>8, <1>9, <1>10 DEF HistoryInv

LEMMA CalmKeeps ==
    ASSUME HistoryInv, Calm
    PROVE  HistoryInv'
<1>1. Standing' = Standing
  BY DEF Standing, Calm, SameRow
<1>2. \A j \in Keys : ShownAt(j)' = ShownAt(j)
  BY DEF ShownAt, Calm
<1>3. OneIsOwed'
  BY DEF OneIsOwed, HistoryInv, Calm, SameRow
<1>4. (\A j \in Keys : run[j].status = Pending => IsCurrentInput(run[j].input))'
  BY DEF HistoryInv, Calm, SameRow, IsCurrentInput, Last
<1>5. (\A j \in Keys : run[j].status # "succeeded" => ShownAt(j) = {})'
  BY <1>2 DEF HistoryInv, Calm, SameRow
<1>6. (\A j \in Standing : \E i : ShownAt(j) = {i})'
  BY <1>1, <1>2 DEF HistoryInv, Standing
<1>7. (IsFiniteSet(Standing) /\ Cardinality(Standing) <= memoryRequested)'
  BY <1>1 DEF HistoryInv, Calm
<1> QED BY <1>3, <1>4, <1>5, <1>6, <1>7 DEF HistoryInv

\* A message somebody else has written shows nobody's answer.
LEMMA AppendedShows ==
    ASSUME TypeInv, NEW m, messages' = Append(messages, m), NEW k
    PROVE  ShownAt(k)' = IF m.by = k THEN ShownAt(k) \cup {Len(messages) + 1} ELSE ShownAt(k)
<1>1. messages \in Seq(Message) /\ Len(messages) \in Nat
  BY DEF TypeInv, TypeOK
<1>2. /\ DOMAIN messages' = (DOMAIN messages) \cup {Len(messages) + 1}
      /\ messages'[Len(messages) + 1] = m
      /\ \A i \in DOMAIN messages : messages'[i] = messages[i]
      /\ Len(messages) + 1 \notin DOMAIN messages
  BY <1>1
<1> QED BY <1>2 DEF ShownAt

LEMMA AddedKeeps ==
    ASSUME TypeInv, HistoryInv, Added
    PROVE  HistoryInv'
<1>1. Standing' = Standing
  BY DEF Standing, Added, SameRow
<1>2. PICK m \in Message : m.by = None /\ messages' = Append(messages, m)
  BY DEF Added
<1>3. \A j \in Keys : ShownAt(j)' = ShownAt(j)
  BY <1>2, AppendedShows, ActorAssumption
<1>4. \A j \in Keys : run'[j].status = run[j].status /\ run'[j].status # Pending
  BY DEF Added, SameRow, ConversationIdle
<1>5. (\A j \in Keys : run[j].status # "succeeded" => ShownAt(j) = {})'
  BY <1>3, <1>4 DEF HistoryInv
<1>6. (\A j \in Standing : \E i : ShownAt(j) = {i})'
  BY <1>1, <1>3 DEF HistoryInv, Standing
<1>7. (IsFiniteSet(Standing) /\ Cardinality(Standing) <= memoryRequested)'
  BY <1>1 DEF HistoryInv, Added
<1> QED BY <1>4, <1>5, <1>6, <1>7 DEF HistoryInv, OneIsOwed

LEMMA RewrittenKeeps ==
    ASSUME TypeInv, HistoryInv, Rewritten
    PROVE  HistoryInv'
<1>1. \A j \in Keys : run'[j].status = run[j].status /\ run'[j].status # Pending
  BY DEF Rewritten, ConversationIdle
<1>2. Standing' = {}
  BY <1>1 DEF Standing, Rewritten
<1>3. \A j \in Keys : ShownAt(j)' \subseteq ShownAt(j)
  BY DEF ShownAt, Rewritten
<1>4. (\A j \in Keys : run[j].status # "succeeded" => ShownAt(j) = {})'
  BY <1>1, <1>3 DEF HistoryInv
<1>5. (IsFiniteSet(Standing) /\ Cardinality(Standing) <= memoryRequested)'
  BY <1>2, FS_EmptySet DEF Rewritten
<1>6. (\A j \in Standing : \E i : ShownAt(j) = {i})'
  BY <1>2
<1> QED BY <1>1, <1>4, <1>5, <1>6 DEF HistoryInv, OneIsOwed

LEMMA EndsKeeps ==
    ASSUME TypeInv, HistoryInv, NEW k \in Keys, Ends(k)
    PROVE  HistoryInv'
<1>1. \A j \in Keys : run'[j].status # Pending
  BY DEF Ends, OthersSame, SameRow, HistoryInv, OneIsOwed
<1>2. \A j \in Keys \ {k} : ShownAt(j)' = ShownAt(j)
  BY AppendedShows DEF Ends, AnswerMessage, ShownAt
<1>3. ShownAt(k) = {} /\ k \notin Standing
  BY DEF Ends, HistoryInv, Standing
<1>4. ShownAt(k)' = IF run'[k].status = "succeeded" THEN {Len(messages) + 1} ELSE {}
  BY <1>3, AppendedShows DEF Ends, AnswerMessage, ShownAt
<1>5. Standing' = IF run'[k].status = "succeeded" /\ ~run'[k].invalidated
                  THEN Standing \cup {k} ELSE Standing
  BY <1>3 DEF Standing, Ends, OthersSame, SameRow
<1>6. (\A j \in Keys : run[j].status # "succeeded" => ShownAt(j) = {})'
  BY <1>2, <1>4 DEF HistoryInv, Ends, OthersSame, SameRow
<1>7. (\A j \in Standing : \E i : ShownAt(j) = {i})'
  <2> SUFFICES ASSUME NEW j \in Standing' PROVE \E i : ShownAt(j)' = {i}
    OBVIOUS
  <2>1. CASE j = k
    BY <1>4, <2>1 DEF Standing
  <2>2. CASE j # k
    <3>1. j \in Standing
      BY <1>5, <2>2
    <3>2. j \in Keys \ {k} /\ \E i : ShownAt(j) = {i}
      BY <2>2, <3>1 DEF HistoryInv, Standing
    <3> QED BY <1>2, <3>2
  <2> QED BY <2>1, <2>2
<1>8. (IsFiniteSet(Standing) /\ Cardinality(Standing) <= memoryRequested)'
  <2>1. IsFiniteSet(Standing) /\ Cardinality(Standing) \in Nat
        /\ Cardinality(Standing) <= memoryRequested /\ memoryRequested \in Nat
    BY FS_CardinalityType DEF HistoryInv, TypeInv, TypeOK
  <2>2. IsFiniteSet(Standing \cup {k})
        /\ Cardinality(Standing \cup {k}) = Cardinality(Standing) + 1
    BY <1>3, <2>1, FS_AddElement
  <2>3. CASE run'[k].status = "succeeded"
    <3>1. memoryRequested' = memoryRequested + 1
      BY <2>3 DEF Ends
    <3> QED BY <1>5, <2>1, <2>2, <3>1
  <2>4. CASE run'[k].status # "succeeded"
    <3>1. memoryRequested' \in {memoryRequested, memoryRequested + 1} /\ Standing' = Standing
      BY <1>5, <2>4 DEF Ends
    <3> QED BY <2>1, <3>1
  <2> QED BY <2>3, <2>4
<1> QED BY <1>1, <1>6, <1>7, <1>8 DEF HistoryInv, OneIsOwed

-----------------------------------------------------------------------------
(* The invariant and what follows from it *)

LEMMA HistoryBegins == Init => HistoryInv
<1> SUFFICES ASSUME Init PROVE HistoryInv
  OBVIOUS
<1>1. Standing = {} /\ \A k \in Keys : run[k].status = "absent" /\ ShownAt(k) = {}
  BY DEF Init, Standing, NoRun, ShownAt
<1> QED BY <1>1, FS_EmptySet DEF Init, HistoryInv, OneIsOwed

LEMMA HistoryStep == TypeInv /\ HistoryInv /\ [Next]_vars => HistoryInv'
BY HistorySteps, CalmKeeps, AddedKeeps, RewrittenKeeps, BeginsKeeps, EndsKeeps

LEMMA History == Spec => [](TypeInv /\ HistoryInv)
BY TypeInit, TypeStep, HistoryBegins, HistoryStep, PTL DEF Spec

\* A charged answer (_finish_locked_generation) was asked for once and is shown once
\* while its history stands, nothing else shows a message, and every answer that stands
\* has left its request for memory work behind.
THEOREM DeliveredAnswersAreComplete == Spec => []AnswersAreComplete
<1>1. TypeInv /\ SafeInv /\ HistoryInv => ShownOnceIfCharged
  <2> SUFFICES ASSUME TypeInv, SafeInv, HistoryInv, NEW k \in Keys
               PROVE  /\ run[k].status = "succeeded" => calls[k] = 1
                      /\ run[k].status = "succeeded" /\ ~run[k].invalidated
                             => Cardinality(ShownAt(k)) = 1
                      /\ run[k].status # "succeeded" => ShownAt(k) = {}
    BY DEF ShownOnceIfCharged, ShownAt
  <2>1. run[k].status = "succeeded" => calls[k] = 1
    BY DEF SafeInv, RowSafe
  <2>2. ASSUME run[k].status = "succeeded", ~run[k].invalidated
        PROVE  Cardinality(ShownAt(k)) = 1
    <3>1. PICK i : ShownAt(k) = {i}
      BY <2>2 DEF HistoryInv, Standing
    <3> QED BY <3>1, FS_Singleton
  <2> QED BY <2>1, <2>2 DEF HistoryInv
<1>2. HistoryInv => AnswersRequestMemoryWork
  BY DEF HistoryInv, AnswersRequestMemoryWork, Standing
<1>3. TypeInv /\ SafeInv /\ HistoryInv => AnswersAreComplete
  BY <1>1, <1>2 DEF AnswersAreComplete
<1> QED BY <1>3, Safe, History, PTL

\* While an answer is owed there is no second one, and its input is still the last
\* message at the revision the client named (begin_generation, _invalidate_history).
THEOREM PendingInputStaysCurrent == Spec => []PendingInputIsCurrent
<1>1. HistoryInv => PendingInputIsCurrent
  <2> SUFFICES ASSUME HistoryInv PROVE PendingInputIsCurrent
    OBVIOUS
  <2> DEFINE Owed == {k \in Keys : run[k].status = Pending}
  <2>1. Cardinality(Owed) <= 1
    <3>1. CASE Owed = {}
      BY <3>1, FS_EmptySet
    <3>2. CASE Owed # {}
      <4>1. PICK k \in Owed : Owed = {k}
        BY <3>2 DEF HistoryInv, OneIsOwed
      <4> HIDE DEF Owed
      <4>2. Cardinality(Owed) = 1
        BY <4>1, FS_Singleton
      <4> QED BY <4>2
    <3> QED BY <3>1, <3>2
  <2> QED BY <2>1 DEF HistoryInv, PendingInputIsCurrent
<1> QED BY <1>1, History, PTL

-----------------------------------------------------------------------------
(* Memories for an answer: what a selection leaves *)

\* Rows as they are while a conversation goes on: a memory is of the history it
\* stands in.
MemoriesFit ==
    /\ memories \in [MemoryIds -> MemoryRows \cup {NoMemory}]
    /\ historyRevision \in Nat
    /\ \A i \in MemoryIds : memories[i] # NoMemory => memories[i].revision = historyRevision

\* Memories there are.
Present == {i \in MemoryIds : memories[i] # NoMemory}

\* What a memory says, how large it is and how it ranks.
LEMMA PresentRows ==
    ASSUME MemoriesFit
    PROVE  /\ IsFiniteSet(Present)
           /\ \A i \in Present : /\ i \in Nat /\ i \in MemoryIds
                                 /\ memories[i] \in MemoryRows
                                 /\ memories[i].score \in Nat /\ Size(i) \in Nat
                                 /\ memories[i].text \in Texts
<1>1. IsFiniteSet(Present)
  BY RetrievalAssumption, FS_Subset DEF Present
<1>2. ASSUME NEW i \in Present
      PROVE  /\ i \in Nat /\ i \in MemoryIds
             /\ memories[i] \in MemoryRows
             /\ memories[i].score \in Nat /\ Size(i) \in Nat
             /\ memories[i].text \in Texts
  <2>1. i \in Nat /\ i \in MemoryIds /\ memories[i] \in MemoryRows
    BY RetrievalAssumption DEF Present, MemoriesFit
  <2>2. memories[i].score \in Nat /\ memories[i].text \in Texts
    BY <2>1, RetrievalAssumption DEF MemoryRows
  <2>3. Size(i) \in Nat
    BY <2>2, RetrievalAssumption DEF Size
  <2> QED BY <2>1, <2>2, <2>3
<1> QED BY <1>1, <1>2

\* The ranking is a strict order of all memories.
LEMMA BetterOrders ==
    ASSUME MemoriesFit
    PROVE  /\ \A i \in Present : ~Better(i, i)
           /\ \A i, j \in Present : i # j => (Better(i, j) <=> ~Better(j, i))
           /\ \A i, j, k \in Present : Better(i, j) /\ Better(j, k) => Better(i, k)
<1>1. \A i \in Present : i \in Nat /\ memories[i].score \in Nat
  BY PresentRows
<1> QED BY <1>1 DEF Better

\* Of some memories one is the last in rank.
LEMMA LastInRank ==
    ASSUME MemoriesFit, NEW S \in SUBSET Present, S # {}
    PROVE  \E w \in S : \A j \in S \ {w} : Better(j, w)
<1> DEFINE Good(T) == \E w \in T : \A j \in T \ {w} : Better(j, w)
           Bad == {T \in SUBSET S : T # {} /\ ~Good(T)}
<1>1. SUFFICES ASSUME Bad # {} PROVE FALSE
  OBVIOUS
<1>2. Bad \subseteq SUBSET S /\ IsFiniteSet(S)
  BY PresentRows, FS_Subset
<1>3. PICK T \in Bad : \A U \in (SUBSET T) \ {T} : U \notin Bad
  <2> HIDE DEF Bad
  <2> QED BY <1>1, <1>2, SmallestBad
<1>4. PICK y \in T : TRUE
  OBVIOUS
<1>5. T \ {y} # {}
  <2>1. SUFFICES ASSUME T \ {y} = {} PROVE Good(T)
    OBVIOUS
  <2>2. \A j \in T \ {y} : Better(j, y)
    BY <2>1
  <2> QED BY <2>2
<1>6. Good(T \ {y})
  <2>1. T \ {y} \in (SUBSET T) \ {T} /\ T \ {y} \in SUBSET S
    BY <1>3, <1>4
  <2>2. T \ {y} \notin Bad
    BY <1>3, <2>1
  <2> QED BY <1>5, <2>1, <2>2
<1>7. PICK w \in T \ {y} : \A j \in (T \ {y}) \ {w} : Better(j, w)
  BY <1>6
<1>8. w \in Present /\ y \in Present /\ T \subseteq Present /\ w # y
  OBVIOUS
<1>9. CASE Better(y, w)
  <2>1. \A j \in T \ {w} : Better(j, w)
    BY <1>7, <1>9
  <2> QED BY <2>1
<1>10. CASE Better(w, y)
  <2>1. \A j \in T \ {y} : Better(j, y)
    BY <1>7, <1>8, <1>10, BetterOrders
  <2> QED BY <2>1
<1> QED BY <1>8, <1>9, <1>10, BetterOrders

\* The better ones of what was taken.
Ahead(T, i) == {j \in T : Better(j, i)}

\* A selection of what was found: whoever finds room beside the better ones is taken.
Selects(T, found) == T \in SUBSET found /\ \A i \in found : i \in T <=> Taken(T, found, i)

\* Whether there is room is a question about the better ones alone.
LEMMA TakenByAhead ==
    ASSUME NEW S, NEW T, NEW found, NEW others, NEW i, Ahead(S, i) = Ahead(T, i)
    PROVE  Taken(S, found, i) <=> Taken(T, others, i)
BY DEF Taken, Ahead

\* Some selection can always be made, from the best memory down.
LEMMA SelectionExists ==
    ASSUME MemoriesFit, NEW found \in SUBSET Present
    PROVE  \E T : Selects(T, found)
<1> DEFINE Good(S) == \E T : Selects(T, S)
           Bad == {S \in SUBSET found : ~Good(S)}
<1>1. SUFFICES ASSUME Bad # {} PROVE FALSE
  OBVIOUS
<1>2. Bad \subseteq SUBSET found /\ IsFiniteSet(found)
  BY PresentRows, FS_Subset
<1>3. PICK S \in Bad : \A U \in (SUBSET S) \ {S} : U \notin Bad
  <2> HIDE DEF Bad
  <2> QED BY <1>1, <1>2, SmallestBad
<1>4. S # {}
  <2>1. SUFFICES ASSUME S = {} PROVE Good(S)
    OBVIOUS
  <2>2. Selects({}, S)
    BY <2>1 DEF Selects
  <2> QED BY <2>2
<1>5. S \in SUBSET Present
  OBVIOUS
<1>6. PICK w \in S : \A j \in S \ {w} : Better(j, w)
  BY <1>4, <1>5, LastInRank
<1>7. Good(S \ {w})
  BY <1>3
<1>8. PICK U : Selects(U, S \ {w})
  BY <1>7
<1> DEFINE T == IF Taken(U, S, w) THEN U \cup {w} ELSE U
<1>9. \A j \in S : ~Better(w, j)
  BY <1>5, <1>6, BetterOrders
<1>10. U \subseteq S \ {w} /\ T \in SUBSET S /\ T \ {w} = U
  BY <1>8 DEF Selects
<1>11. \A i \in S : Ahead(T, i) = Ahead(U, i)
  BY <1>9, <1>10 DEF Ahead
<1>12. \A i \in S : /\ Taken(T, S, i) <=> Taken(U, S, i)
                    /\ Taken(T, S, i) <=> Taken(U, S \ {w}, i)
  <2> HIDE DEF T
  <2> QED BY <1>11, TakenByAhead
<1>13. \A i \in S \ {w} : i \in T <=> Taken(T, S, i)
  BY <1>8, <1>10, <1>12 DEF Selects
<1>14. w \in T <=> Taken(T, S, w)
  BY <1>10, <1>12
<1>15. Selects(T, S)
  BY <1>10, <1>13, <1>14 DEF Selects
<1> QED BY <1>3, <1>15

\* So what is chosen is one.
LEMMA ChosenSelects ==
    ASSUME MemoriesFit, NEW found \in SUBSET Present
    PROVE  Selects(Chosen(found), found)
<1>1. \E T \in SUBSET found : \A i \in found : i \in T <=> Taken(T, found, i)
  BY SelectionExists DEF Selects
<1> QED BY <1>1 DEF Chosen, Selects

\* Sizes of some memories: numbers, of which more is never less.
LEMMA SizesAdd ==
    ASSUME MemoriesFit, NEW S \in SUBSET Present
    PROVE  /\ SizeOfAll(S) \in Nat
           /\ \A w \in S : SizeOfAll(S) = SizeOfAll(S \ {w}) + Size(w)
           /\ \A T \in SUBSET S : SizeOfAll(T) <= SizeOfAll(S)
           /\ SizeOfAll({}) = 0
<1> DEFINE W == [i \in Present |-> Size(i)]
<1>1. IsFiniteSet(S) /\ \A i \in S : W[i] \in Nat /\ W[i] \in Int
  BY PresentRows, FS_Subset
<1>2. ASSUME NEW T \in SUBSET S PROVE SizeOfAll(T) = Sum(W, T)
  <2> DEFINE V == [i \in T |-> Size(i)]
  <2>1. SizeOfAll(T) = Sum(V, T)
    BY SumOfFunction DEF SizeOfAll
  <2>2. IsFiniteSet(T) /\ \A i \in T : V[i] = W[i]
    BY <1>1, FS_Subset
  <2> HIDE DEF V, W
  <2>3. Sum(V, T) = Sum(W, T)
    BY <2>2, SumAgrees
  <2> QED BY <2>1, <2>3
<1>3. \A w \in S : W[w] = Size(w)
  OBVIOUS
<1> HIDE DEF W
<1>4. Sum(W, S) \in Nat
  BY <1>1, SumIsNat
<1>5. \A w \in S : Sum(W, S) = W[w] + Sum(W, S \ {w})
  BY <1>1, SumParts
<1>6. \A T \in SUBSET S : Sum(W, T) <= Sum(W, S)
  BY <1>1, SumGrows
<1>7. ASSUME NEW T \in SUBSET S PROVE Sum(W, T) \in Nat
  <2>1. IsFiniteSet(T) /\ \A i \in T : W[i] \in Nat
    BY <1>1, FS_Subset
  <2> QED BY <2>1, SumIsNat
<1>8. \A w \in S : S \ {w} \in SUBSET S
  OBVIOUS
<1>9. Sum(W, {}) = 0
  BY SumEmpty
<1>10. ASSUME NEW w \in S PROVE SizeOfAll(S) = SizeOfAll(S \ {w}) + Size(w)
  <2>1. Sum(W, S \ {w}) \in Nat /\ W[w] \in Nat
    BY <1>1, <1>7
  <2> QED BY <2>1, <1>2, <1>3, <1>5
<1> QED BY <1>2, <1>4, <1>6, <1>9, <1>10

\* A selection stays within its limits, and who is left out finds no room.
LEMMA SelectionFits ==
    ASSUME MemoriesFit, NEW found \in SUBSET Present, NEW T, Selects(T, found)
    PROVE  /\ Cardinality(T) <= ResultLimit /\ SizeOfAll(T) <= TokenBudget
           /\ Cardinality(T) < ResultLimit =>
                \A i \in found \ T : SizeOfAll(T) + Size(i) > TokenBudget
<1>1. T \in SUBSET Present /\ IsFiniteSet(T) /\ Cardinality(T) \in Nat
  BY PresentRows, FS_Subset, FS_CardinalityType DEF Selects
<1>2. ResultLimit \in Nat /\ TokenBudget \in Nat
  BY RetrievalAssumption
<1>3. Cardinality(T) <= ResultLimit /\ SizeOfAll(T) <= TokenBudget
  <2>1. CASE T = {}
    <3>1. Cardinality(T) = 0 /\ SizeOfAll(T) = 0
      BY <2>1, FS_EmptySet, SizesAdd
    <3> QED BY <3>1, <1>2
  <2>2. CASE T # {}
    <3>1. PICK w \in T : \A j \in T \ {w} : Better(j, w)
      BY <1>1, <2>2, LastInRank
    <3>2. Ahead(T, w) = T \ {w}
      BY <1>1, <3>1, BetterOrders DEF Ahead
    <3>3. Taken(T, found, w)
      BY DEF Selects
    <3>4. Cardinality(T \ {w}) < ResultLimit /\ SizeOfAll(T \ {w}) + Size(w) <= TokenBudget
      BY <3>2, <3>3 DEF Taken, Ahead
    <3>5. Cardinality(T \ {w}) = Cardinality(T) - 1
      BY <1>1, FS_RemoveElement
    <3>6. SizeOfAll(T) = SizeOfAll(T \ {w}) + Size(w)
      BY <1>1, SizesAdd
    <3> QED BY <1>1, <1>2, <3>4, <3>5, <3>6
  <2> QED BY <2>1, <2>2
<1>4. ASSUME Cardinality(T) < ResultLimit, NEW i \in found \ T
      PROVE  SizeOfAll(T) + Size(i) > TokenBudget
  <2>1. ~Taken(T, found, i)
    BY DEF Selects
  <2>2. Ahead(T, i) \in SUBSET T
    BY DEF Ahead
  <2>3. Cardinality(Ahead(T, i)) <= Cardinality(T) /\ Cardinality(Ahead(T, i)) \in Nat
    BY <1>1, <2>2, FS_Subset, FS_CardinalityType
  <2>4. ~(SizeOfAll(Ahead(T, i)) + Size(i) <= TokenBudget)
    BY <1>1, <1>2, <1>4, <2>1, <2>3 DEF Taken, Ahead
  <2>5. SizeOfAll(Ahead(T, i)) <= SizeOfAll(T) /\ SizeOfAll(T) \in Nat
    BY <1>1, <2>2, SizesAdd
  <2>6. Ahead(T, i) \in SUBSET Present
    BY <1>1, <2>2
  <2>7. SizeOfAll(Ahead(T, i)) \in Nat
    BY <2>6, SizesAdd
  <2>8. Size(i) \in Nat
    BY PresentRows
  <2> QED BY <1>2, <2>4, <2>5, <2>7, <2>8
<1> QED BY <1>3, <1>4

\* What is chosen, listed in the order of the history.
LEMMA ListedInOrder ==
    ASSUME MemoriesFit, NEW T \in SUBSET Present
    PROVE  Increasing(T, InHistoryOrder(T)) /\ Cardinality(T) \in Nat
<1>1. T \subseteq Nat /\ IsFiniteSet(T)
  BY PresentRows, FS_Subset
<1> QED BY <1>1, Ordering DEF InHistoryOrder

\* A list of memories is as large as the memories in it.
LEMMA SizeOfList ==
    ASSUME MemoriesFit, NEW T \in SUBSET Present, NEW q, Increasing(T, q),
           NEW f, DOMAIN f = 1 .. Cardinality(T), \A n \in DOMAIN f : f[n] = Size(q[n])
    PROVE  SumFunction(f) = SizeOfAll(T)
<1> DEFINE N == 1 .. Cardinality(T)
           W == [i \in T |-> Size(i)]
           X == [n \in N |-> {q[n]}]
<1>1. Cardinality(T) \in Nat /\ IsFiniteSet(T) /\ IsFiniteSet(N)
  <2>1. IsFiniteSet(T)
    BY PresentRows, FS_Subset
  <2>2. Cardinality(T) \in Nat
    BY <2>1, FS_CardinalityType
  <2> QED BY <2>1, <2>2, FS_Interval
<1>2. /\ q \in [N -> T] /\ \A i, j \in N : i < j => q[i] < q[j]
      /\ \A x \in T : \E i \in N : q[i] = x
  BY DEF Increasing
<1>3. \A x \in T : x \in Nat /\ Size(x) \in Nat
  BY PresentRows
<1>4. \A i, j \in N : i # j => q[i] # q[j]
  BY <1>1, <1>2, <1>3
<1>5. \A d \in N : IsFiniteSet(X[d]) /\ f[d] = Sum(W, X[d])
  <2> SUFFICES ASSUME NEW d \in N PROVE IsFiniteSet(X[d]) /\ f[d] = Sum(W, X[d])
    OBVIOUS
  <2>1. q[d] \in T /\ X[d] = {q[d]} /\ W[q[d]] = Size(q[d]) /\ W[q[d]] \in Int
    BY <1>2, <1>3
  <2>2. IsFiniteSet({q[d]})
    BY FS_Singleton
  <2> DEFINE P == {q[d]}
  <2>3. IsFiniteSet(P) /\ (\A x \in P : W[x] \in Int) /\ q[d] \in P /\ P \ {q[d]} = {}
    BY <2>1, <2>2
  <2> HIDE DEF P, W
  <2>4. Sum(W, P) = W[q[d]] + Sum(W, P \ {q[d]})
    BY <2>3, SumParts
  <2>5. Sum(W, P \ {q[d]}) = 0
    BY <2>3, SumEmpty
  <2>6. Sum(W, P) = W[q[d]]
    BY <2>3, <2>4, <2>5
  <2> QED BY <2>1, <2>2, <2>6 DEF P
<1>6. Whole(X, N) = T
  BY <1>2 DEF Whole
<1>7. /\ \A d \in N : \A x \in X[d] : W[x] \in Int
      /\ \A d, e \in N : d # e => X[d] \cap X[e] = {}
  BY <1>2, <1>3, <1>4
<1> HIDE DEF W, X
<1>8. Sum(f, N) = Sum(W, Whole(X, N))
  <2> HIDE DEF N
  <2> QED BY <1>1, <1>5, <1>7, SumOfSums
<1>9. SumFunction(f) = Sum(f, N)
  BY SumOfFunction
<1>10. SizeOfAll(T) = Sum(W, T)
  BY SumOfFunction DEF SizeOfAll, W
<1> QED BY <1>6, <1>8, <1>9, <1>10

-----------------------------------------------------------------------------
(* Memories for an answer: a retrieval while the conversation goes on *)

FoundRows == [id: MemoryIds, row: MemoryRows]

Lookups ==
    [at: {"idle", "embedding", "searching", "found", "used"}, revision: Nat,
     by: Providers \cup {NoMemory}, found: Seq(FoundRows), best: SUBSET MemoryRows]

SpentBy(l) == SumFunction([n \in DOMAIN l.found |-> SizeOf[l.found[n].row.text]])

\* The part of RoomIsUsed about one retrieval.
UsesRoom(l) ==
    /\ Len(l.found) <= ResultLimit
    /\ SpentBy(l) <= TokenBudget
    /\ \A m, n \in DOMAIN l.found : m < n =>
         /\ l.found[m].id < l.found[n].id
         /\ KeyOf[l.found[m].row.text] # KeyOf[l.found[n].row.text]
    /\ Len(l.found) < ResultLimit =>
         \A row \in l.best \ {l.found[n].row : n \in DOMAIN l.found} :
             SpentBy(l) + SizeOf[row.text] > TokenBudget

\* What was found was searchable by the query, and nothing was found before it.
Comparable(l) ==
    /\ l.at = "searching" => l.by \in Providers
    /\ l.at \in {"embedding", "searching"} => l.found = <<>> /\ l.best = {}
    /\ \A n \in DOMAIN l.found : l.found[n].row.by = l.by /\ l.by \in Providers

\* What was found is still there, while the history is the one it was read in.
StillStands(l, ms, rev) ==
    /\ l.revision <= rev
    /\ l.revision = rev =>
         \A n \in DOMAIN l.found : ms[l.found[n].id] = l.found[n].row

LookupsFit ==
    /\ lookup \in [Retrievals -> Lookups]
    /\ \A r \in Retrievals : /\ UsesRoom(lookup[r]) /\ Comparable(lookup[r])
                             /\ StillStands(lookup[r], memories, historyRevision)

RetrievalInv == MemoriesFit /\ provider \in Providers /\ LookupsFit

\* A retrieval that found nothing.
LEMMA EmptyHanded ==
    ASSUME NEW l \in Lookups, l.found = <<>>, l.best = {},
           l.at = "searching" => l.by \in Providers,
           NEW ms, NEW rev \in Nat, l.revision <= rev
    PROVE  UsesRoom(l) /\ Comparable(l) /\ StillStands(l, ms, rev)
<1>1. DOMAIN l.found = {} /\ Len(l.found) = 0
  BY EmptySeq, LenProperties
<1>2. ResultLimit \in Nat /\ TokenBudget \in Nat
  BY RetrievalAssumption
<1>3. SpentBy(l) = 0
  <2> DEFINE f == [n \in DOMAIN l.found |-> SizeOf[l.found[n].row.text]]
  <2>1. DOMAIN f = {}
    BY <1>1
  <2> HIDE DEF f
  <2>2. SumFunction(f) = 0
    BY <2>1, SumOfFunction, SumEmpty
  <2> QED BY <2>2 DEF SpentBy, f
<1>4. UsesRoom(l)
  BY <1>1, <1>2, <1>3 DEF UsesRoom
<1> QED BY <1>1, <1>4 DEF Comparable, StillStands

\* k is the selection of c, by what it holds.
HoldsSelection(k, c) ==
    /\ k.at = "found" /\ DOMAIN k.found = DOMAIN SelectedFrom(c)
    /\ \A n \in DOMAIN k.found : /\ k.found[n].id = SelectedFrom(c)[n]
                                 /\ k.found[n].row = memories[SelectedFrom(c)[n]]
    /\ \A row \in k.best : \E i \in Deduplicated(c) : row = memories[i]

\* The selection of memories of one provider.
LEMMA SelectionIsUsable ==
    ASSUME MemoriesFit, NEW by \in Providers, NEW c \in SUBSET Searchable(by),
           NEW k \in Lookups, HoldsSelection(k, c), k.by = by, k.revision <= historyRevision
    PROVE  UsesRoom(k) /\ Comparable(k) /\ StillStands(k, memories, historyRevision)
<1> DEFINE D == Deduplicated(c)
           T == Chosen(D)
           q == SelectedFrom(c)
           n == Cardinality(T)
           found == k.found
<1>1. /\ c \in SUBSET Present /\ D \in SUBSET c /\ D \in SUBSET Present
      /\ \A i \in c : memories[i].by = by
  BY DEF Searchable, Present, Deduplicated
<1>2. Selects(T, D)
  BY <1>1, ChosenSelects
<1>3. T \in SUBSET D /\ T \in SUBSET Present
  BY <1>1, <1>2 DEF Selects
<1>4. q = InHistoryOrder(T)
  BY DEF SelectedFrom
<1>5. /\ n \in Nat /\ Increasing(T, q) /\ DOMAIN q = 1 .. n /\ q \in [1 .. n -> T]
      /\ \A i, j \in 1 .. n : i < j => q[i] < q[j]
      /\ \A x \in T : \E i \in 1 .. n : q[i] = x
  BY <1>3, <1>4, ListedInOrder DEF Increasing
<1>6. \A i \in D : /\ memories[i].text \in Texts
                   /\ i \in Nat /\ Size(i) = SizeOf[memories[i].text]
                   /\ memories[i].by = by
  BY <1>1, PresentRows DEF Size
<1>7. \A i, j \in D : i # j => KeyOf[memories[i].text] # KeyOf[memories[j].text]
  BY <1>1, BetterOrders DEF Deduplicated, SameContent
<1>8. n <= ResultLimit /\ SizeOfAll(T) <= TokenBudget
      /\ (n < ResultLimit => \A i \in D \ T : SizeOfAll(T) + Size(i) > TokenBudget)
  <2> HIDE DEF D, T
  <2> QED BY <1>1, <1>2, SelectionFits
<1>9. /\ k.at = "found" /\ DOMAIN found = DOMAIN q
      /\ \A m \in DOMAIN found : found[m].id = q[m] /\ found[m].row = memories[q[m]]
      /\ \A row \in k.best : \E i \in D : row = memories[i]
  BY DEF HoldsSelection
<1>10. found \in Seq(FoundRows)
  BY DEF Lookups
<1> HIDE DEF D, T, q, found
<1>11. /\ DOMAIN found = 1 .. n /\ Len(found) = n
       /\ \A m \in 1 .. n : /\ q[m] \in T /\ q[m] \in D
                            /\ found[m].id = q[m] /\ found[m].row = memories[q[m]]
  <2>1. DOMAIN found = 1 .. n /\ Len(found) \in Nat /\ DOMAIN found = 1 .. Len(found)
    BY <1>5, <1>9, <1>10, LenProperties
  <2>2. Len(found) = n
    BY <1>5, <2>1
  <2> QED BY <1>3, <1>5, <1>9, <2>1, <2>2
<1>12. SpentBy(k) = SizeOfAll(T)
  <2> DEFINE f == [m \in DOMAIN found |-> SizeOf[found[m].row.text]]
  <2>1. DOMAIN f = 1 .. Cardinality(T) /\ \A m \in DOMAIN f : f[m] = Size(q[m])
    BY <1>6, <1>11
  <2> HIDE DEF f
  <2>2. SumFunction(f) = SizeOfAll(T)
    BY <1>3, <1>5, <2>1, SizeOfList
  <2> QED BY <2>2 DEF SpentBy, f, found
<1>13. \A i, j \in DOMAIN found : i < j =>
          /\ found[i].id < found[j].id
          /\ KeyOf[found[i].row.text] # KeyOf[found[j].row.text]
  <2> SUFFICES ASSUME NEW i \in 1 .. n, NEW j \in 1 .. n, i < j
               PROVE  /\ found[i].id < found[j].id
                      /\ KeyOf[found[i].row.text] # KeyOf[found[j].row.text]
    BY <1>11
  <2>1. q[i] < q[j] /\ q[i] \in D /\ q[j] \in D
    BY <1>5, <1>11
  <2>2. q[i] # q[j]
    BY <1>6, <2>1
  <2> QED BY <1>7, <1>11, <2>1, <2>2
<1>14. Len(found) < ResultLimit =>
          \A row \in k.best \ {found[m].row : m \in DOMAIN found} :
              SizeOfAll(T) + SizeOf[row.text] > TokenBudget
  <2> SUFFICES ASSUME n < ResultLimit,
                      NEW row \in k.best, \A m \in 1 .. n : row # found[m].row
               PROVE  SizeOfAll(T) + SizeOf[row.text] > TokenBudget
    BY <1>11
  <2>1. PICK i \in D : row = memories[i]
    BY <1>9
  <2>2. i \notin T
    BY <1>5, <1>11, <2>1
  <2> QED BY <1>6, <1>8, <2>1, <2>2
<1>15. UsesRoom(k)
  BY <1>8, <1>11, <1>12, <1>13, <1>14 DEF UsesRoom, found
<1>16. Comparable(k)
  BY <1>6, <1>9, <1>11 DEF Comparable, found
<1>17. StillStands(k, memories, historyRevision)
  BY <1>11 DEF StillStands, found
<1> QED BY <1>15, <1>16, <1>17

\* What a search leaves of a retrieval.
LEMMA SearchFinds ==
    ASSUME MemoriesFit, NEW by \in Providers, NEW c \in SUBSET Searchable(by),
           NEW l \in Lookups, l.by = by, l.revision <= historyRevision
    PROVE  LET k == [l EXCEPT !.at = "found",
                        !.found = [n \in DOMAIN SelectedFrom(c) |->
                                     [id |-> SelectedFrom(c)[n],
                                      row |-> memories[SelectedFrom(c)[n]]]],
                        !.best = {memories[i] : i \in Deduplicated(c)}]
           IN  k \in Lookups /\ UsesRoom(k) /\ Comparable(k)
               /\ StillStands(k, memories, historyRevision)
<1> DEFINE D == Deduplicated(c)
           T == Chosen(D)
           q == SelectedFrom(c)
           found == [n \in DOMAIN q |-> [id |-> q[n], row |-> memories[q[n]]]]
           best == {memories[i] : i \in D}
           k == [l EXCEPT !.at = "found", !.found = found, !.best = best]
<1>1. D \in SUBSET Present /\ \A i \in D : memories[i] \in MemoryRows /\ i \in MemoryIds
  <2>1. D \in SUBSET Present
    BY DEF Searchable, Present, Deduplicated
  <2> QED BY <2>1, PresentRows
<1>2. T \in SUBSET D /\ T \in SUBSET Present
  BY <1>1, ChosenSelects DEF Selects
<1>3. DOMAIN q = 1 .. Cardinality(T) /\ Cardinality(T) \in Nat
      /\ \A n \in DOMAIN q : q[n] \in D
  BY <1>2, ListedInOrder DEF Increasing, SelectedFrom
<1> HIDE DEF q, T, D
<1>4. best \in SUBSET MemoryRows
  BY <1>1
<1>5. found \in [1 .. Cardinality(T) -> FoundRows]
  BY <1>1, <1>3 DEF FoundRows
<1>6. DOMAIN found = DOMAIN q
      /\ \A n \in DOMAIN q : found[n].id = q[n] /\ found[n].row = memories[q[n]]
  OBVIOUS
<1>7. \A row \in best : \E i \in D : row = memories[i]
  OBVIOUS
<1> HIDE DEF found, best
<1>8. found \in Seq(FoundRows)
  BY <1>3, <1>5, SeqDef
<1>9. /\ k \in Lookups /\ k.at = "found" /\ k.found = found /\ k.best = best
      /\ k.by = by /\ k.revision = l.revision
  BY <1>4, <1>8 DEF Lookups
<1> HIDE DEF k
<1>10. HoldsSelection(k, c)
  BY <1>6, <1>7, <1>9 DEF HoldsSelection, q, D
<1>11. k.revision <= historyRevision
  BY <1>9
<1>12. UsesRoom(k) /\ Comparable(k) /\ StillStands(k, memories, historyRevision)
  BY <1>9, <1>10, <1>11, SelectionIsUsable
<1> QED BY <1>9, <1>12 DEF k, found, best, q, D

\* The invariant holds before there is a memory.
LEMMA RetrievalStarts == RetrievalInit => RetrievalInv
<1> SUFFICES ASSUME RetrievalInit PROVE RetrievalInv
  OBVIOUS
<1>1. MemoriesFit
  BY DEF RetrievalInit, MemoriesFit
<1>2. NoLookup \in Lookups /\ NoLookup.found = <<>> /\ NoLookup.best = {}
      /\ NoLookup.at = "idle" /\ NoLookup.revision = 0
  BY EmptySeq DEF NoLookup, Lookups
<1>3. UsesRoom(NoLookup) /\ Comparable(NoLookup) /\ StillStands(NoLookup, memories, historyRevision)
  BY <1>2, EmptyHanded DEF RetrievalInit
<1>4. lookup \in [Retrievals -> Lookups] /\ \A r \in Retrievals : lookup[r] = NoLookup
  BY <1>2 DEF RetrievalInit
<1>5. LookupsFit
  BY <1>3, <1>4 DEF LookupsFit
<1> QED BY <1>1, <1>5 DEF RetrievalInv, RetrievalInit

\* Writers: what a retrieval holds of the memories stays, or the history moves on.
LEMMA WritersKeep ==
    ASSUME RetrievalInv, WriteMemory \/ IndexMemory \/ ChangeProvider \/ Rewind
    PROVE  RetrievalInv'
<1>1. MemoriesFit /\ provider \in Providers /\ LookupsFit
  BY DEF RetrievalInv
<1>2. lookup' = lookup
  BY DEF WriteMemory, IndexMemory, ChangeProvider, Rewind
<1>3. MemoriesFit' /\ provider' \in Providers
  <2>1. CASE WriteMemory
    <3>1. PICK i \in MemoryIds, text \in Texts, score \in Scores :
            memories' = [memories EXCEPT ![i] =
              [text |-> text, score |-> score, revision |-> historyRevision, by |-> NoMemory]]
      BY <2>1 DEF WriteMemory
    <3> DEFINE row == [text |-> text, score |-> score, revision |-> historyRevision, by |-> NoMemory]
    <3>2. row \in MemoryRows /\ row.revision = historyRevision
      BY <1>1 DEF MemoryRows, MemoriesFit
    <3> HIDE DEF row
    <3>3. memories' = [memories EXCEPT ![i] = row]
      BY <3>1 DEF row
    <3>4. historyRevision' = historyRevision /\ provider' = provider
      BY <2>1 DEF WriteMemory
    <3> QED BY <1>1, <3>2, <3>3, <3>4 DEF MemoriesFit
  <2>2. CASE IndexMemory
    <3>1. PICK i \in MemoryIds : memories[i] # NoMemory
                                 /\ memories' = [memories EXCEPT ![i].by = provider]
      BY <2>2 DEF IndexMemory
    <3> DEFINE row == [memories[i] EXCEPT !.by = provider]
    <3>2. memories[i] \in MemoryRows /\ memories[i].revision = historyRevision
      BY <1>1, <3>1 DEF MemoriesFit
    <3>3. row \in MemoryRows /\ row.revision = historyRevision
      BY <1>1, <3>2 DEF MemoryRows
    <3>4. memories' = [memories EXCEPT ![i] = row]
      BY <1>1, <3>1 DEF MemoriesFit
    <3> HIDE DEF row
    <3>5. historyRevision' = historyRevision /\ provider' = provider
      BY <2>2 DEF IndexMemory
    <3> QED BY <1>1, <3>3, <3>4, <3>5 DEF MemoriesFit
  <2>3. CASE ChangeProvider
    BY <1>1, <2>3 DEF ChangeProvider, MemoriesFit
  <2>4. CASE Rewind
    BY <1>1, <2>4 DEF Rewind, MemoriesFit
  <2> QED BY <2>1, <2>2, <2>3, <2>4
<1>4. ASSUME NEW r \in Retrievals PROVE StillStands(lookup[r], memories', historyRevision')
  <2> DEFINE l == lookup[r]
  <2> SUFFICES StillStands(l, memories', historyRevision')
    OBVIOUS
  <2>1. /\ l \in Lookups /\ l.revision \in Nat /\ l.found \in Seq(FoundRows)
        /\ StillStands(l, memories, historyRevision) /\ Comparable(l)
        /\ historyRevision \in Nat
    BY <1>1 DEF LookupsFit, Lookups, MemoriesFit
  <2> HIDE DEF l
  <2>2. \A n \in DOMAIN l.found : l.found[n] \in FoundRows
    BY <2>1, ElementOfSeq, LenProperties
  <2>3. \A n \in DOMAIN l.found : /\ l.found[n].id \in MemoryIds /\ l.found[n].row # NoMemory
                                  /\ l.found[n].row.by # NoMemory
    BY <2>1, <2>2, RetrievalAssumption DEF FoundRows, Comparable
  <2>4. CASE Rewind
    BY <2>1, <2>4 DEF Rewind, StillStands
  <2>5. CASE WriteMemory
    <3>1. PICK i \in MemoryIds, text \in Texts, score \in Scores :
            /\ memories[i] = NoMemory
            /\ memories' = [memories EXCEPT ![i] =
                 [text |-> text, score |-> score, revision |-> historyRevision, by |-> NoMemory]]
      BY <2>5 DEF WriteMemory
    <3>2. \A j \in MemoryIds : j # i => memories'[j] = memories[j]
      BY <1>1, <3>1 DEF MemoriesFit
    <3>3. historyRevision' = historyRevision
      BY <2>5 DEF WriteMemory
    <3> QED BY <2>1, <2>3, <3>1, <3>2, <3>3 DEF StillStands
  <2>6. CASE IndexMemory
    <3>1. PICK i \in MemoryIds : /\ memories[i].by = NoMemory
                                 /\ memories' = [memories EXCEPT ![i].by = provider]
      BY <2>6 DEF IndexMemory
    <3>2. \A j \in MemoryIds : j # i => memories'[j] = memories[j]
      BY <1>1, <3>1 DEF MemoriesFit
    <3>3. historyRevision' = historyRevision
      BY <2>6 DEF IndexMemory
    <3> QED BY <2>1, <2>3, <3>1, <3>2, <3>3 DEF StillStands
  <2>7. CASE ChangeProvider
    BY <2>1, <2>7 DEF ChangeProvider, StillStands
  <2> QED BY <2>4, <2>5, <2>6, <2>7
<1>5. LookupsFit'
  BY <1>1, <1>2, <1>4 DEF LookupsFit
<1> QED BY <1>3, <1>5 DEF RetrievalInv

\* A step of one retrieval.
LEMMA OneLookup ==
    ASSUME RetrievalInv, NEW r \in Retrievals, NEW k \in Lookups,
           UsesRoom(k), Comparable(k), StillStands(k, memories, historyRevision),
           lookup' = [lookup EXCEPT ![r] = k],
           memories' = memories, historyRevision' = historyRevision, provider' = provider
    PROVE  RetrievalInv'
<1>1. MemoriesFit /\ provider \in Providers /\ LookupsFit
  BY DEF RetrievalInv
<1>2. lookup \in [Retrievals -> Lookups]
  BY <1>1 DEF LookupsFit
<1>3. lookup' \in [Retrievals -> Lookups]
      /\ \A s \in Retrievals : lookup'[s] = IF s = r THEN k ELSE lookup[s]
  BY <1>2
<1>4. MemoriesFit' /\ provider' \in Providers
  BY <1>1 DEF MemoriesFit
<1>5. \A s \in Retrievals : /\ UsesRoom(lookup'[s]) /\ Comparable(lookup'[s])
                            /\ StillStands(lookup'[s], memories, historyRevision)
  BY <1>1, <1>3 DEF LookupsFit
<1>6. LookupsFit'
  BY <1>3, <1>5 DEF LookupsFit
<1> QED BY <1>4, <1>6 DEF RetrievalInv

\* Every step of a retrieval.
LEMMA LookupSteps ==
    ASSUME RetrievalInv, NEW r \in Retrievals,
           StartLookup(r) \/ EmbedQuery(r) \/ SearchMemories(r) \/ UseMemories(r) \/ EndLookup(r)
    PROVE  RetrievalInv'
<1> DEFINE l == lookup[r]
<1>1. MemoriesFit /\ provider \in Providers /\ historyRevision \in Nat
  BY DEF RetrievalInv, MemoriesFit
<1>2. /\ l \in Lookups /\ UsesRoom(l) /\ Comparable(l)
      /\ StillStands(l, memories, historyRevision)
      /\ lookup \in [Retrievals -> Lookups]
  BY DEF RetrievalInv, LookupsFit
<1>3. memories' = memories /\ historyRevision' = historyRevision /\ provider' = provider
  BY DEF StartLookup, EmbedQuery, SearchMemories, UseMemories, EndLookup
<1>4. NoLookup \in Lookups /\ NoLookup.found = <<>> /\ NoLookup.best = {}
      /\ NoLookup.at = "idle" /\ NoLookup.revision = 0
  BY EmptySeq DEF NoLookup, Lookups
<1>5. CASE StartLookup(r)
  <2> DEFINE at == IF AnySearchable THEN "embedding" ELSE "found"
             k == [NoLookup EXCEPT !.at = at, !.revision = historyRevision]
  <2>1. lookup' = [lookup EXCEPT ![r] = k]
    BY <1>5 DEF StartLookup
  <2>2. at \in {"embedding", "found"}
    OBVIOUS
  <2> HIDE DEF at
  <2>3. k \in Lookups /\ k.found = <<>> /\ k.best = {} /\ k.at # "searching"
        /\ k.revision = historyRevision
    BY <1>1, <1>4, <2>2 DEF Lookups
  <2> HIDE DEF k
  <2>4. k.at = "searching" => k.by \in Providers
    BY <2>3
  <2>5. k.revision <= historyRevision
    BY <1>1, <2>3
  <2>6. UsesRoom(k) /\ Comparable(k) /\ StillStands(k, memories, historyRevision)
    <3>1. k \in Lookups /\ k.found = <<>> /\ k.best = {} /\ historyRevision \in Nat
      BY <1>1, <2>3
    <3> QED BY <3>1, <2>4, <2>5, EmptyHanded
  <2> QED BY <1>3, <2>1, <2>3, <2>6, OneLookup
<1>6. CASE EmbedQuery(r)
  <2> DEFINE k == [l EXCEPT !.at = "searching", !.by = provider]
  <2>1. lookup' = [lookup EXCEPT ![r] = k] /\ l.at = "embedding"
    BY <1>2, <1>6 DEF EmbedQuery
  <2>2. /\ k \in Lookups /\ k.found = <<>> /\ k.best = {} /\ k.at = "searching"
        /\ k.by \in Providers /\ k.revision <= historyRevision
    BY <1>1, <1>2, <2>1 DEF Lookups, Comparable, StillStands
  <2> HIDE DEF k
  <2>3. UsesRoom(k) /\ Comparable(k) /\ StillStands(k, memories, historyRevision)
    BY <1>1, <2>2, EmptyHanded
  <2> QED BY <1>3, <2>1, <2>2, <2>3, OneLookup
<1>7. CASE SearchMemories(r)
  <2>1. l.at = "searching" /\ l.by \in Providers /\ l.revision <= historyRevision
    BY <1>2, <1>7 DEF SearchMemories, Comparable, StillStands
  <2>2. PICK c \in TopOf(Searchable(l.by)) :
          lookup' = [lookup EXCEPT ![r].at = "found",
              ![r].found = [n \in DOMAIN SelectedFrom(c) |->
                               [id |-> SelectedFrom(c)[n],
                                row |-> memories[SelectedFrom(c)[n]]]],
              ![r].best = {memories[i] : i \in Deduplicated(c)}]
    BY <1>7 DEF SearchMemories
  <2>3. c \in SUBSET Searchable(l.by)
    BY DEF TopOf
  <2> DEFINE k == [l EXCEPT !.at = "found",
                     !.found = [n \in DOMAIN SelectedFrom(c) |->
                                     [id |-> SelectedFrom(c)[n],
                                      row |-> memories[SelectedFrom(c)[n]]]],
                     !.best = {memories[i] : i \in Deduplicated(c)}]
  <2>4. lookup' = [lookup EXCEPT ![r] = k]
    BY <1>2, <2>2 DEF Lookups
  <2>5. k \in Lookups /\ UsesRoom(k) /\ Comparable(k)
        /\ StillStands(k, memories, historyRevision)
    BY <1>1, <1>2, <2>1, <2>3, SearchFinds
  <2> HIDE DEF k
  <2> QED BY <1>3, <2>4, <2>5, OneLookup
<1>8. CASE UseMemories(r)
  <2> DEFINE k == [l EXCEPT !.at = "used"]
  <2>1. lookup' = [lookup EXCEPT ![r] = k]
    BY <1>2, <1>8 DEF UseMemories
  <2>2. /\ k \in Lookups /\ k.found = l.found /\ k.best = l.best /\ k.by = l.by
        /\ k.revision = l.revision /\ k.at = "used"
    BY <1>2 DEF Lookups
  <2> HIDE DEF k, l
  <2>3. SpentBy(k) = SpentBy(l)
    BY <2>2 DEF SpentBy
  <2>4. UsesRoom(k) /\ Comparable(k) /\ StillStands(k, memories, historyRevision)
    BY <1>2, <2>2, <2>3 DEF UsesRoom, Comparable, StillStands
  <2> QED BY <1>3, <2>1, <2>2, <2>4, OneLookup
<1>9. CASE EndLookup(r)
  <2>1. lookup' = [lookup EXCEPT ![r] = NoLookup]
    BY <1>9 DEF EndLookup
  <2>2. NoLookup.revision <= historyRevision
    BY <1>1, <1>4
  <2>3. UsesRoom(NoLookup) /\ Comparable(NoLookup)
        /\ StillStands(NoLookup, memories, historyRevision)
    BY <1>1, <1>4, <2>2, EmptyHanded
  <2> QED BY <1>3, <1>4, <2>1, <2>3, OneLookup
<1> QED BY <1>5, <1>6, <1>7, <1>8, <1>9

\* The invariant holds after every step.
LEMMA RetrievalSteps == RetrievalInv /\ [RetrievalNext]_retrievalVars => RetrievalInv'
<1> SUFFICES ASSUME RetrievalInv, [RetrievalNext]_retrievalVars PROVE RetrievalInv'
  OBVIOUS
<1>1. CASE UNCHANGED retrievalVars
  BY <1>1 DEF retrievalVars, RetrievalInv, MemoriesFit, LookupsFit
<1>2. CASE RetrievalNext
  BY <1>2, WritersKeep, LookupSteps DEF RetrievalNext
<1> QED BY <1>1, <1>2

\* MemoriesAreUsable: whatever is written, indexed, cut back and configured while a
\* retrieval waits, what it found is within the limits, says nothing twice, is in the
\* order of the history, leaves no room for another, and was found by its own vectors.
THEOREM RetrievedMemoriesAreUsable == RetrievalSpec => []MemoriesAreUsable
<1>1. RetrievalInv => MemoriesAreUsable
  <2> SUFFICES ASSUME RetrievalInv PROVE MemoriesAreUsable
    OBVIOUS
  <2>1. \A r \in Retrievals : UsesRoom(lookup[r]) /\ Comparable(lookup[r])
    BY DEF RetrievalInv, LookupsFit
  <2>2. \A r \in Retrievals : Spent(r) = SpentBy(lookup[r])
    BY DEF Spent, SpentBy
  <2>3. RoomIsUsed
    BY <2>1, <2>2 DEF RoomIsUsed, UsesRoom, Rows
  <2>4. VectorsAreComparable
    BY <2>1 DEF VectorsAreComparable, Comparable, Rows
  <2> QED BY <2>3, <2>4 DEF MemoriesAreUsable
<1> QED BY <1>1, RetrievalStarts, RetrievalSteps, PTL DEF RetrievalSpec

\* UsedMemoriesStand: the comparison of the preparation under the lock is enough. A
\* revision that has not moved means that what was found is still there.
THEOREM UsedMemoriesAreCurrent == RetrievalSpec => UsedMemoriesStand
<1> DEFINE Stand ==
        \A r \in Retrievals : lookup[r].at = "found" /\ lookup'[r].at = "used" =>
           \A n \in DOMAIN lookup[r].found :
               /\ memories[lookup[r].found[n].id] = lookup[r].found[n].row
               /\ lookup[r].found[n].row.revision = historyRevision
<1>1. RetrievalInv /\ [RetrievalNext]_retrievalVars => [Stand]_retrievalVars
  <2> SUFFICES ASSUME RetrievalInv, RetrievalNext, NEW r \in Retrievals,
                      lookup[r].at = "found", lookup'[r].at = "used",
                      NEW n \in DOMAIN lookup[r].found
               PROVE  /\ memories[lookup[r].found[n].id] = lookup[r].found[n].row
                      /\ lookup[r].found[n].row.revision = historyRevision
    OBVIOUS
  <2> DEFINE l == lookup[r]
  <2>1. /\ lookup \in [Retrievals -> Lookups] /\ l \in Lookups /\ l.found \in Seq(FoundRows)
        /\ StillStands(l, memories, historyRevision) /\ MemoriesFit
    BY DEF RetrievalInv, LookupsFit, Lookups
  <2>2. ~(WriteMemory \/ IndexMemory \/ ChangeProvider \/ Rewind)
    BY DEF WriteMemory, IndexMemory, ChangeProvider, Rewind
  <2>3. PICK s \in Retrievals : \/ StartLookup(s) \/ EmbedQuery(s) \/ SearchMemories(s)
                                \/ UseMemories(s) \/ EndLookup(s)
    BY <2>2 DEF RetrievalNext
  <2>4. s = r /\ UseMemories(r)
    <3>1. ~StartLookup(s)
      BY <2>1 DEF StartLookup, Lookups, NoLookup
    <3>2. ~EmbedQuery(s)
      BY <2>1 DEF EmbedQuery, Lookups
    <3>3. ~SearchMemories(s)
      BY <2>1 DEF SearchMemories, Lookups
    <3>4. ~EndLookup(s)
      BY <2>1 DEF EndLookup, NoLookup
    <3>5. UseMemories(s)
      BY <2>3, <3>1, <3>2, <3>3, <3>4
    <3>6. s = r
      BY <2>1, <3>5 DEF UseMemories
    <3> QED BY <3>5, <3>6
  <2>5. l.revision = historyRevision
    BY <2>4 DEF UseMemories, StillPrepared
  <2>6. l.found[n] \in FoundRows
    BY <2>1, ElementOfSeq, LenProperties
  <2>7. memories[l.found[n].id] = l.found[n].row
    BY <2>1, <2>5 DEF StillStands
  <2>8. /\ l.found[n].id \in MemoryIds /\ memories[l.found[n].id] # NoMemory
    BY <2>6, <2>7, RetrievalAssumption DEF FoundRows
  <2>9. memories[l.found[n].id].revision = historyRevision
    BY <2>1, <2>8 DEF MemoriesFit
  <2> QED BY <2>7, <2>9
<1>2. UsedMemoriesStand <=> [][Stand]_retrievalVars
  BY DEF UsedMemoriesStand
<1> HIDE DEF Stand
<1> QED BY <1>1, <1>2, RetrievalStarts, RetrievalSteps, PTL DEF RetrievalSpec

-----------------------------------------------------------------------------
(* The browser's history: rows that were once read *)

\* The server's rows: one for an id, none beyond the counters.
StoredFit ==
    /\ rows \subseteq Row /\ IsFiniteSet(rows)
    /\ newest \in 0..MaxId /\ revision \in 1..MaxRevision
    /\ \A m \in rows : m.id <= newest /\ m.rev <= revision
    /\ \A m, k \in rows : m.id = k.id => m = k

\* Rows that were stored at some time: no id is ahead of the server's, no
\* revision ahead of the row's.
KnownTo(S, rs, n) ==
    /\ S \subseteq Row
    /\ \A m \in S : /\ m.id <= n
                    /\ \A k \in rs : k.id = m.id => m.rev <= k.rev

\* Up to a checkpoint nothing is missing and nothing is outdated.
Covers(S, c, rs) ==
    /\ {m \in rs : m.id <= c} \subseteq S
    /\ \A m \in S, k \in rs : m.id = k.id /\ k.id <= c => m = k

Views == [rows : SUBSET Row, label : 0..MaxRevision, cursor : 0..MaxId]

\* A display is right up to its checkpoint while its revision is the server's.
ViewFits(v, rs, n, rev) ==
    /\ v \in Views
    /\ KnownTo(v.rows, rs, n) /\ v.cursor <= n /\ v.label <= rev
    /\ v.label = rev => Covers(v.rows, v.cursor, rs)

ReadRecords ==
    [at : {"label", "rows", "done"}, current : BOOLEAN, again : BOOLEAN, quiet : BOOLEAN,
     onward : BOOLEAN, shown : SUBSET Row, seen : SUBSET Row, cursor : 0..MaxId,
     label : 0..MaxRevision, fresh : 0..MaxRevision]

\* What a read has seen is right in the same way; beyond its checkpoint it has
\* only what it was started with. A quiet read knows the revision, and has
\* everything when it is done.
ReadFits(d, rs, n, rev) ==
    /\ d \in ReadRecords
    /\ KnownTo(d.seen, rs, n) /\ KnownTo(d.shown, rs, n)
    /\ d.cursor <= n /\ d.label <= rev /\ d.fresh <= rev
    /\ d.label = 0 => d.seen = {} /\ d.cursor = 0
    /\ d.label = rev => Covers(d.seen, d.cursor, rs)
    /\ \A m \in d.seen : m.id > d.cursor => d.onward /\ m \in d.shown
    /\ d.at # "done" => d.current
    /\ d.at = "rows" => d.fresh # 0
    /\ d.at = "rows" /\ d.quiet => d.fresh = rev
    /\ d.at = "done" /\ d.quiet => d.label = rev /\ \A m \in rs : m.id <= d.cursor

\* The newest read has what is displayed, as far as it has come.
Keeps(d, v, rs) ==
    \A m \in v.rows \cap rs : d.onward \/ d.at = "done" \/ m.id <= d.cursor => m \in d.seen

Replies == [kind : {"none", "refused", "saved", "answered"}, row : Row \cup {NoRow}]

Pages ==
    [at : {"idle", "creating", "answering", "syncing"}, key : 0..MaxSubmitted,
     message : Row \cup {NoRow}, reply : Replies]

\* A message that was saved was a row, in its first revision.
PageFits(p, rs, n) ==
    /\ p \in Pages
    /\ p.reply.kind = "saved" => KnownTo({p.reply.row}, rs, n) /\ p.reply.row.rev = 1

KeysFit ==
    /\ receipts \in [SubmissionKeys -> 0..MaxId] /\ answering \in 0..MaxId
    /\ sent \subseteq SubmissionKeys

\* A read that may still show what it finds.
IsNewest(ds, r) == ds[r] # NoRow /\ ds[r].current

\* Reads under way, of which one at most is the newest.
ReadsFit(ds, v, rs, n, rev) ==
    /\ ds \in [Reads -> ReadRecords \cup {NoRow}]
    /\ \A r \in Reads : ds[r] # NoRow =>
         /\ ReadFits(ds[r], rs, n, rev)
         /\ ds[r].current /\ v # NoRow => Keeps(ds[r], v, rs)
    /\ \A r, s \in Reads : IsNewest(ds, r) /\ IsNewest(ds, s) => r = s

DisplayInv ==
    /\ StoredFit /\ KeysFit
    /\ PageFits(page, rows, newest)
    /\ view # NoRow => ViewFits(view, rows, newest, revision)
    /\ ReadsFit(reads, view, rows, newest, revision)

-----------------------------------------------------------------------------

\* What the constants are, and that an id and a revision make a row.
LEMMA HistoryNumbers ==
    /\ MaxId \in Nat \ {0} /\ MaxRevision \in Nat \ {0}
    /\ PageSize \in Nat \ {0} /\ MaxSubmitted \in Nat \ {0}
    /\ \A m \in Row : m.id \in Nat \ {0} /\ m.rev \in Nat \ {0} /\ m.id <= MaxId
    /\ \A m, k \in Row : m.id = k.id /\ m.rev = k.rev => m = k
<1>1. /\ MaxId \in Nat \ {0} /\ MaxRevision \in Nat \ {0}
      /\ PageSize \in Nat \ {0} /\ MaxSubmitted \in Nat \ {0}
  BY HistoryAssumption
<1>2. \A m \in Row : m.id \in Nat \ {0} /\ m.rev \in Nat \ {0} /\ m.id <= MaxId
  BY <1>1 DEF Row
<1>3. \A m, k \in Row : m.id = k.id /\ m.rev = k.rev => m = k
  BY DEF Row
<1> QED BY <1>1, <1>2, <1>3

\* Rows that are stored are known, and with known rows they survive a merge.
LEMMA StoredAreKnown ==
    ASSUME StoredFit, NEW S \in SUBSET rows
    PROVE  KnownTo(S, rows, newest)
BY HistoryNumbers DEF StoredFit, KnownTo

\* A merge keeps the greater revision, which a row that is stored has.
LEMMA MergedKnown ==
    ASSUME NEW A, NEW B, NEW rs, NEW n, KnownTo(A, rs, n), KnownTo(B, rs, n)
    PROVE  /\ KnownTo(Merged(A, B), rs, n)
           /\ Merged(A, B) \subseteq A \cup B
           /\ rs \cap (A \cup B) \subseteq Merged(A, B)
BY HistoryNumbers DEF KnownTo, Merged

-----------------------------------------------------------------------------
(* Pages *)

\* The last id of some rows is one of theirs.
LEMMA LastIdOf ==
    ASSUME StoredFit, NEW S \in SUBSET rows, NEW c \in Nat
    PROVE  /\ S = {} => LastId(S, c) = c
           /\ S # {} => \E m \in S : m.id = LastId(S, c)
           /\ \A m \in S : m.id <= LastId(S, c)
<1>1. CASE S = {}
  BY <1>1 DEF LastId
<1>2. CASE S # {}
  <2> DEFINE I == {m.id : m \in S}
  <2>1. IsFiniteSet(S)
    BY FS_Subset DEF StoredFit
  <2>2. IsFiniteSet(I)
    <3>1. IsFiniteSet(1 .. MaxId) /\ I \subseteq 1 .. MaxId
      BY FS_Interval, HistoryNumbers DEF StoredFit, Row
    <3> QED BY <3>1, FS_Subset
  <2>3. I \subseteq Nat /\ I # {}
    BY <1>2, HistoryNumbers DEF StoredFit
  <2>4. LastId(S, c) = Max(I)
    BY <1>2 DEF LastId
  <2> HIDE DEF I
  <2>5. Max(I) \in I /\ \A i \in I : i <= Max(I)
    <3>1. \E x \in I : \A y \in I : x >= y
      BY <2>2, <2>3, LargestOfFinite
    <3> QED BY <2>3, <3>1 DEF Max
  <2> QED BY <1>2, <2>4, <2>5 DEF I
<1> QED BY <1>1, <1>2

\* A page is what follows the checkpoint up to its own last row; the last page
\* is all that follows.
LEMMA PageOf ==
    ASSUME StoredFit, NEW c \in Nat, c <= newest
    PROVE  LET got == Page(c)
               d == LastId(got, c)
           IN  /\ got \subseteq rows /\ d \in Nat /\ c <= d /\ d <= newest
               /\ \A m \in rows : m \in got <=> c < m.id /\ m.id <= d
               /\ ~HasMore(c) => \A m \in rows : m.id <= d
<1> DEFINE got == Page(c)
           d == LastId(got, c)
           Before(m) == {k \in After(c) : k.id < m.id}
<1>1. /\ After(c) \subseteq rows /\ IsFiniteSet(After(c))
      /\ got \subseteq After(c) /\ got \subseteq rows
  BY FS_Subset DEF After, Page, StoredFit
<1>2. \A m \in rows : m.id \in Nat /\ m.id <= newest
  BY HistoryNumbers DEF StoredFit
<1>3. \A m \in After(c) : IsFiniteSet(Before(m)) /\ Cardinality(Before(m)) \in Nat
  BY <1>1, FS_Subset, FS_CardinalityType
<1>4. /\ got = {} => d = c
      /\ got # {} => \E m \in got : m.id = d
      /\ \A m \in got : m.id <= d
  BY <1>1, LastIdOf
<1>5. \A m \in After(c) : m.id > c
  BY DEF After
<1> HIDE DEF d
<1>6. d \in Nat /\ c <= d /\ d <= newest
  <2>1. CASE got = {}
    BY <1>4, <2>1
  <2>2. CASE got # {}
    BY <1>1, <1>2, <1>4, <1>5, <2>2
  <2> QED BY <2>1, <2>2
<1>7. ASSUME NEW m \in rows, c < m.id, m.id <= d PROVE m \in got
  <2>1. got # {}
    BY <1>2, <1>4, <1>7
  <2>2. PICK k \in got : k.id = d
    BY <1>4, <2>1
  <2>3. m \in After(c) /\ k \in After(c)
    BY <1>1, <1>7, <2>2 DEF After
  <2>4. Before(m) \subseteq Before(k)
    BY <1>1, <1>2, <1>7, <2>2, <2>3
  <2>5. Cardinality(Before(m)) <= Cardinality(Before(k))
    BY <1>3, <2>3, <2>4, FS_Subset
  <2>6. Cardinality(Before(k)) < PageSize
    BY <2>2 DEF Page
  <2>7. Cardinality(Before(m)) < PageSize
    <3> HIDE DEF Before
    <3> QED BY <1>3, <2>3, <2>5, <2>6, HistoryNumbers
  <2> QED BY <2>3, <2>7 DEF Page
<1>8. \A m \in rows : m \in got <=> c < m.id /\ m.id <= d
  BY <1>1, <1>4, <1>5, <1>7
<1>9. ASSUME ~HasMore(c), NEW m \in rows PROVE m.id <= d
  <2>1. CASE m.id <= c
    BY <1>2, <1>6, <2>1
  <2>2. CASE ~(m.id <= c)
    <3>1. m \in After(c)
      BY <1>2, <2>2 DEF After
    <3>2. Before(m) \subseteq After(c) /\ Before(m) # After(c)
      BY <1>2, <3>1
    <3>3. Cardinality(Before(m)) < Cardinality(After(c)) /\ Cardinality(After(c)) \in Nat
      BY <1>1, <3>2, FS_Subset, FS_CardinalityType
    <3>4. Cardinality(After(c)) <= PageSize
      BY <1>9, <3>3, HistoryNumbers DEF HasMore
    <3>5. Cardinality(Before(m)) < PageSize
      <4> HIDE DEF Before
      <4> QED BY <1>3, <3>1, <3>3, <3>4, HistoryNumbers
    <3>6. m \in got
      BY <3>1, <3>5 DEF Page
    <3> QED BY <1>4, <3>6
  <2> QED BY <2>1, <2>2
<1> QED BY <1>1, <1>6, <1>8, <1>9 DEF d

\* A page that does not show the history changed extends what is right.
LEMMA CoversMore ==
    ASSUME StoredFit, NEW S, KnownTo(S, rows, newest), NEW c \in Nat, c <= newest,
           Covers(S, c, rows),
           \A m \in S, k \in Page(c) : m.id > c /\ m.id = k.id => m.rev = k.rev
    PROVE  Covers(Merged(S, Page(c)), LastId(Page(c), c), rows)
<1> DEFINE got == Page(c)
           d == LastId(got, c)
           T == Merged(S, got)
<1>1. /\ got \subseteq rows /\ d \in Nat /\ c <= d /\ d <= newest
      /\ \A m \in rows : m \in got <=> c < m.id /\ m.id <= d
  BY PageOf
<1>2. KnownTo(got, rows, newest)
  BY <1>1, StoredAreKnown
<1>3. T \subseteq S \cup got /\ rows \cap (S \cup got) \subseteq T
  BY <1>2, MergedKnown
<1>4. \A m \in rows : m.id \in Nat
  BY HistoryNumbers DEF StoredFit
<1> HIDE DEF got, d, T
<1>5. {m \in rows : m.id <= d} \subseteq T
  BY <1>1, <1>3, <1>4 DEF Covers
<1>6. ASSUME NEW m \in T, NEW k \in rows, m.id = k.id, k.id <= d PROVE m = k
  <2>1. CASE m \in got
    BY <1>1, <1>6, <2>1 DEF StoredFit
  <2>2. CASE m \in S /\ k.id <= c
    BY <1>6, <2>2 DEF Covers
  <2>3. CASE m \in S /\ ~(k.id <= c)
    <3>1. k \in got /\ m.id > c
      BY <1>1, <1>4, <1>6, <2>3
    <3>2. m.rev = k.rev
      BY <1>6, <2>3, <3>1 DEF got
    <3> QED BY <1>6, <2>3, <3>2, HistoryNumbers DEF KnownTo, StoredFit
  <2> QED BY <1>3, <2>1, <2>2, <2>3
<1>7. Covers(T, d, rows)
  BY <1>5, <1>6 DEF Covers
<1> QED BY <1>7 DEF T, d, got

-----------------------------------------------------------------------------
(* Writes of the server *)

\* What holds from one state of the server to a later one: what was known is
\* still known and no row comes back; up to any id that was handed out the rows
\* stay while the revision does.
Later ==
    /\ StoredFit' /\ newest <= newest' /\ revision <= revision'
    /\ \A S : KnownTo(S, rows, newest) =>
         KnownTo(S, rows', newest') /\ S \cap rows' \subseteq rows
    /\ revision' = revision =>
         \A c \in Nat : c <= newest => {m \in rows' : m.id <= c} = {m \in rows : m.id <= c}

\* A new row has an id that nobody knows.
LEMMA StoreIsLater ==
    ASSUME StoredFit, Store, revision' = revision
    PROVE  Later /\ KnownTo({[id |-> newest + 1, rev |-> 1]}, rows', newest')
<1> DEFINE new == [id |-> newest + 1, rev |-> 1]
<1>1. /\ newest' = newest + 1 /\ rows' = rows \cup {new}
      /\ newest \in Nat /\ newest + 1 <= MaxId
  BY HistoryNumbers DEF Store, StoredFit
<1>2. new \in Row /\ new.id = newest + 1 /\ new.rev = 1
  BY <1>1, HistoryNumbers DEF Row
<1> HIDE DEF new
<1>3. \A m \in rows : m \in Row /\ m.id \in Nat /\ m.id <= newest /\ m.rev <= revision
  BY HistoryNumbers DEF StoredFit
<1>4. IsFiniteSet(rows')
  BY <1>1, FS_AddElement DEF StoredFit
<1>5. StoredFit'
  <2>1. rows' \subseteq Row /\ newest' \in 0..MaxId /\ revision' \in 1..MaxRevision
    BY <1>1, <1>2, HistoryNumbers DEF StoredFit
  <2>2. \A m \in rows' : m.id <= newest' /\ m.rev <= revision'
    BY <1>1, <1>2, <1>3, HistoryNumbers DEF StoredFit
  <2>3. \A m, k \in rows' : m.id = k.id => m = k
    BY <1>1, <1>2, <1>3 DEF StoredFit
  <2> QED BY <1>4, <2>1, <2>2, <2>3 DEF StoredFit
<1>6. ASSUME NEW S, KnownTo(S, rows, newest)
      PROVE  KnownTo(S, rows', newest') /\ S \cap rows' \subseteq rows
  <2>1. \A m \in S : m.id \in Nat /\ m.id <= newest
    BY <1>6, HistoryNumbers DEF KnownTo
  <2> QED BY <1>1, <1>2, <1>6, <2>1 DEF KnownTo
<1>7. ASSUME NEW c \in Nat, c <= newest
      PROVE  {m \in rows' : m.id <= c} = {m \in rows : m.id <= c}
  BY <1>1, <1>2, <1>7
<1>8. newest <= newest' /\ revision <= revision'
  BY <1>1, HistoryNumbers DEF StoredFit
<1>9. KnownTo({new}, rows', newest')
  <2>1. \A k \in rows' : k.id = new.id => k = new
    BY <1>1, <1>2, <1>3
  <2> QED BY <1>1, <1>2, <2>1 DEF KnownTo
<1> QED BY <1>5, <1>6, <1>7, <1>8, <1>9 DEF Later, new

\* A replaced row has a revision that nobody knows, and the history another one.
LEMMA ReplaceIsLater ==
    ASSUME StoredFit, OtherReplaces
    PROVE  Later
<1>1. PICK m \in rows : rows' = (rows \ {m}) \cup {[m EXCEPT !.rev = @ + 1]}
  BY DEF OtherReplaces
<1> DEFINE new == [m EXCEPT !.rev = @ + 1]
<1>2. /\ revision' = revision + 1 /\ newest' = newest
      /\ revision \in Nat /\ revision + 1 <= MaxRevision /\ newest \in 0..MaxId
  BY HistoryNumbers DEF OtherReplaces, RaiseRevision, StoredFit
<1>3. \A k \in rows : /\ k \in Row /\ k.id \in Nat /\ k.id <= newest
                      /\ k.rev \in Nat /\ k.rev <= revision
  BY HistoryNumbers DEF StoredFit
<1>4. new \in Row /\ new.id = m.id /\ new.rev = m.rev + 1
  <2>1. m \in Row /\ m.rev + 1 \in 1..MaxRevision
    BY <1>2, <1>3, HistoryNumbers
  <2> QED BY <2>1 DEF Row
<1>5. rows' = (rows \ {m}) \cup {new}
  BY <1>1
<1> HIDE DEF new
<1>6. IsFiniteSet(rows')
  <2>1. IsFiniteSet(rows \ {m})
    BY FS_Subset DEF StoredFit
  <2> QED BY <1>5, <2>1, FS_AddElement
<1>7. StoredFit'
  <2>1. rows' \subseteq Row /\ newest' \in 0..MaxId /\ revision' \in 1..MaxRevision
    BY <1>2, <1>3, <1>4, <1>5, HistoryNumbers
  <2>2. \A k \in rows' : k.id <= newest' /\ k.rev <= revision'
    BY <1>2, <1>3, <1>4, <1>5
  <2>3. \A k, l \in rows' : k.id = l.id => k = l
    BY <1>4, <1>5 DEF StoredFit
  <2> QED BY <1>6, <2>1, <2>2, <2>3 DEF StoredFit
<1>8. ASSUME NEW S, KnownTo(S, rows, newest)
      PROVE  KnownTo(S, rows', newest') /\ S \cap rows' \subseteq rows
  <2>1. \A k \in S : k \in Row /\ k.rev \in Nat /\ (k.id = m.id => k.rev <= m.rev)
    BY <1>8, HistoryNumbers DEF KnownTo
  <2>2. \A k \in S : k # new
    BY <1>3, <1>4, <2>1
  <2>3. \A k \in S, l \in rows' : l.id = k.id => k.rev <= l.rev
    <3>1. ASSUME NEW k \in S, NEW l \in rows', l.id = k.id PROVE k.rev <= l.rev
      <4>1. CASE l = new
        BY <1>3, <1>4, <2>1, <3>1, <4>1
      <4>2. CASE l \in rows
        BY <1>8, <3>1, <4>2 DEF KnownTo
      <4> QED BY <1>5, <4>1, <4>2
    <3> QED BY <3>1
  <2> QED BY <1>2, <1>5, <1>8, <2>2, <2>3 DEF KnownTo
<1>9. newest <= newest' /\ revision <= revision' /\ revision' # revision
  BY <1>2, HistoryNumbers
<1> QED BY <1>7, <1>8, <1>9 DEF Later

\* After a rewind there are fewer rows, and the history has another revision.
LEMMA RewindIsLater ==
    ASSUME StoredFit, OtherRewinds
    PROVE  Later
<1>1. rows' \subseteq rows
  BY DEF OtherRewinds
<1>2. /\ revision' = revision + 1 /\ newest' = newest
      /\ revision \in Nat /\ revision + 1 <= MaxRevision /\ newest \in 0..MaxId
  BY HistoryNumbers DEF OtherRewinds, RaiseRevision, StoredFit
<1>3. \A k \in rows : /\ k \in Row /\ k.id \in Nat /\ k.id <= newest
                      /\ k.rev \in Nat /\ k.rev <= revision
  BY HistoryNumbers DEF StoredFit
<1>4. IsFiniteSet(rows')
  BY <1>1, FS_Subset DEF StoredFit
<1>5. StoredFit'
  <2>1. \A k \in rows' : k.id <= newest' /\ k.rev <= revision'
    BY <1>1, <1>2, <1>3
  <2>2. \A k, l \in rows' : k.id = l.id => k = l
    BY <1>1 DEF StoredFit
  <2>3. rows' \subseteq Row /\ newest' \in 0..MaxId /\ revision' \in 1..MaxRevision
    BY <1>1, <1>2, <1>3, HistoryNumbers
  <2> QED BY <1>4, <2>1, <2>2, <2>3 DEF StoredFit
<1>6. newest <= newest' /\ revision <= revision' /\ revision' # revision
  BY <1>2, HistoryNumbers
<1>7. ASSUME NEW S, KnownTo(S, rows, newest)
      PROVE  KnownTo(S, rows', newest') /\ S \cap rows' \subseteq rows
  BY <1>1, <1>2, <1>7 DEF KnownTo
<1> QED BY <1>5, <1>6, <1>7 DEF Later

\* What was right up to a checkpoint is right later, if the revision says so.
LEMMA CoversLater ==
    ASSUME StoredFit, Later, NEW S, NEW c \in Nat, c <= newest, NEW l \in Nat,
           l <= revision, l = revision => Covers(S, c, rows)
    PROVE  l = revision' => Covers(S, c, rows')
<1> SUFFICES ASSUME l = revision' PROVE Covers(S, c, rows')
  OBVIOUS
<1>1. revision \in Nat /\ revision' \in Nat /\ revision <= revision'
  BY HistoryNumbers DEF Later, StoredFit
<1>2. revision' = revision /\ l = revision
  BY <1>1
<1>3. {m \in rows' : m.id <= c} = {m \in rows : m.id <= c}
  BY <1>2 DEF Later
<1> QED BY <1>2, <1>3 DEF Covers

\* A display stays right through writes.
LEMMA ViewLater ==
    ASSUME StoredFit, Later, NEW v, ViewFits(v, rows, newest, revision)
    PROVE  ViewFits(v, rows', newest', revision')
<1>1. /\ v \in Views /\ KnownTo(v.rows, rows, newest)
      /\ v.cursor \in Nat /\ v.cursor <= newest
      /\ v.label \in Nat /\ v.label <= revision
      /\ v.label = revision => Covers(v.rows, v.cursor, rows)
  BY HistoryNumbers DEF ViewFits, Views
<1>2. v.label = revision' => Covers(v.rows, v.cursor, rows')
  BY <1>1, CoversLater
<1>3. KnownTo(v.rows, rows', newest')
  BY <1>1 DEF Later
<1>4. v.cursor <= newest' /\ v.label <= revision'
  <2>1. {newest, newest', revision, revision'} \subseteq Nat
        /\ newest <= newest' /\ revision <= revision'
    BY HistoryNumbers DEF Later, StoredFit
  <2> QED BY <1>1, <2>1
<1> QED BY <1>1, <1>2, <1>3, <1>4 DEF ViewFits

\* A read stays right through writes, and is no longer quiet.
LEMMA ReadLater ==
    ASSUME StoredFit, Later, NEW d, ReadFits(d, rows, newest, revision)
    PROVE  ReadFits([d EXCEPT !.quiet = FALSE], rows', newest', revision')
<1> DEFINE e == [d EXCEPT !.quiet = FALSE]
<1>1. /\ d \in ReadRecords /\ KnownTo(d.seen, rows, newest) /\ KnownTo(d.shown, rows, newest)
      /\ d.cursor \in Nat /\ d.cursor <= newest
      /\ d.label \in Nat /\ d.label <= revision /\ d.fresh \in Nat /\ d.fresh <= revision
      /\ d.label = revision => Covers(d.seen, d.cursor, rows)
  BY HistoryNumbers DEF ReadFits, ReadRecords
<1>2. /\ e \in ReadRecords /\ e.quiet = FALSE /\ e.at = d.at /\ e.current = d.current
      /\ e.onward = d.onward /\ e.shown = d.shown /\ e.seen = d.seen
      /\ e.cursor = d.cursor /\ e.label = d.label /\ e.fresh = d.fresh
  BY <1>1 DEF ReadRecords
<1> HIDE DEF e
<1>3. e.label = revision' => Covers(e.seen, e.cursor, rows')
  <2>1. d.label = revision' => Covers(d.seen, d.cursor, rows')
    BY <1>1, CoversLater
  <2> QED BY <1>2, <2>1
<1>4. KnownTo(e.seen, rows', newest') /\ KnownTo(e.shown, rows', newest')
  BY <1>1, <1>2 DEF Later
<1>5. e.cursor <= newest' /\ e.label <= revision' /\ e.fresh <= revision'
  <2>1. {newest, newest', revision, revision'} \subseteq Nat
        /\ newest <= newest' /\ revision <= revision'
    BY HistoryNumbers DEF Later, StoredFit
  <2> QED BY <1>1, <1>2, <2>1
<1>6. /\ e.label = 0 => e.seen = {} /\ e.cursor = 0
      /\ \A m \in e.seen : m.id > e.cursor => e.onward /\ m \in e.shown
      /\ e.at # "done" => e.current
      /\ e.at = "rows" => e.fresh # 0
  BY <1>2 DEF ReadFits
<1>7. ReadFits(e, rows', newest', revision')
  BY <1>2, <1>3, <1>4, <1>5, <1>6 DEF ReadFits
<1> QED BY <1>7 DEF e

\* Every write disturbs the reads under way and leaves the display alone.
LEMMA StaleFits ==
    ASSUME DisplayInv, Later, view' = view, reads' = Stale(reads)
    PROVE  /\ view' # NoRow => ViewFits(view', rows', newest', revision')
           /\ ReadsFit(reads', view', rows', newest', revision')
<1>1. StoredFit /\ reads \in [Reads -> ReadRecords \cup {NoRow}]
  BY DEF DisplayInv, ReadsFit
<1>2. view # NoRow => ViewFits(view, rows, newest, revision)
  BY DEF DisplayInv
<1>3. view' # NoRow => ViewFits(view', rows', newest', revision')
  BY <1>1, <1>2, ViewLater
<1>4. ASSUME NEW r \in Reads, reads'[r] # NoRow
      PROVE  /\ reads[r] # NoRow /\ reads'[r].current = reads[r].current
             /\ reads'[r] \in ReadRecords
             /\ ReadFits(reads'[r], rows', newest', revision')
             /\ reads'[r].current /\ view' # NoRow => Keeps(reads'[r], view', rows')
  <2> DEFINE d == reads[r]
             e == [d EXCEPT !.quiet = FALSE]
  <2>1. d # NoRow /\ reads'[r] = e
    BY <1>4 DEF Stale
  <2>2. /\ d \in ReadRecords /\ ReadFits(d, rows, newest, revision)
        /\ d.current /\ view # NoRow => Keeps(d, view, rows)
    BY <1>1, <2>1 DEF DisplayInv, ReadsFit
  <2> HIDE DEF d
  <2>3. ReadFits(e, rows', newest', revision')
    BY <1>1, <2>2, ReadLater
  <2>4. /\ e \in ReadRecords /\ e.current = d.current /\ e.onward = d.onward
        /\ e.at = d.at /\ e.cursor = d.cursor /\ e.seen = d.seen
    BY <2>2 DEF ReadRecords
  <2> HIDE DEF e
  <2>5. ASSUME e.current, view # NoRow PROVE Keeps(e, view, rows')
    <3>1. Keeps(d, view, rows)
      BY <2>2, <2>4, <2>5
    <3>2. view.rows \cap rows' \subseteq rows
      BY <1>2, <2>5 DEF Later, ViewFits
    <3> QED BY <2>4, <3>1, <3>2 DEF Keeps
  <2> QED BY <2>1, <2>3, <2>4, <2>5 DEF d
<1>5. reads' \in [Reads -> ReadRecords \cup {NoRow}]
  <2>1. \A r \in Reads : reads'[r] \in ReadRecords \cup {NoRow}
    BY <1>4
  <2>2. reads' = [r \in Reads |-> reads'[r]]
    BY DEF Stale
  <2> QED BY <2>1, <2>2
<1>6. \A r, s \in Reads : IsNewest(reads', r) /\ IsNewest(reads', s) => r = s
  <2>1. \A r \in Reads : IsNewest(reads', r) => IsNewest(reads, r)
    BY <1>4 DEF IsNewest
  <2> QED BY <2>1 DEF DisplayInv, ReadsFit
<1> QED BY <1>3, <1>4, <1>5, <1>6 DEF ReadsFit

-----------------------------------------------------------------------------
(* Reads *)

\* One read goes on, or ends.
LEMMA OneReadFits ==
    ASSUME ReadsFit(reads, view, rows, newest, revision), NEW r \in Reads, NEW d,
           reads[r] # NoRow, reads' = [reads EXCEPT ![r] = d],
           d = NoRow \/ /\ ReadFits(d, rows, newest, revision)
                        /\ d.current => reads[r].current
                        /\ d.current /\ view # NoRow => Keeps(d, view, rows)
    PROVE  ReadsFit(reads', view, rows, newest, revision)
<1>1. /\ reads \in [Reads -> ReadRecords \cup {NoRow}]
      /\ d \in ReadRecords \cup {NoRow}
  BY DEF ReadsFit, ReadFits
<1>2. /\ reads' \in [Reads -> ReadRecords \cup {NoRow}]
      /\ reads'[r] = d /\ \A s \in Reads \ {r} : reads'[s] = reads[s]
  BY <1>1
<1>3. \A s \in Reads : reads'[s] # NoRow =>
        /\ ReadFits(reads'[s], rows, newest, revision)
        /\ reads'[s].current /\ view # NoRow => Keeps(reads'[s], view, rows)
  BY <1>2 DEF ReadsFit
<1>4. \A s \in Reads : IsNewest(reads', s) => IsNewest(reads, s)
  BY <1>2 DEF IsNewest
<1>5. \A s, o \in Reads : IsNewest(reads', s) /\ IsNewest(reads', o) => s = o
  BY <1>4 DEF ReadsFit
<1> QED BY <1>2, <1>3, <1>5 DEF ReadsFit

\* Whatever is displayed now, a superseded read has no part in it.
LEMMA SupersededFits ==
    ASSUME ReadsFit(reads, view, rows, newest, revision), NEW v
    PROVE  /\ ReadsFit(Superseded, v, rows, newest, revision)
           /\ \A r \in Reads : Superseded[r] # NoRow => ~Superseded[r].current
<1>1. reads \in [Reads -> ReadRecords \cup {NoRow}]
  BY DEF ReadsFit
<1>2. ASSUME NEW r \in Reads, Superseded[r] # NoRow
      PROVE  /\ ReadFits(Superseded[r], rows, newest, revision)
             /\ ~Superseded[r].current
  <2> DEFINE d == reads[r]
             e == [d EXCEPT !.current = FALSE]
  <2>1. d # NoRow /\ d.at = "done" /\ Superseded[r] = e
    BY <1>2 DEF Superseded
  <2>2. d \in ReadRecords /\ ReadFits(d, rows, newest, revision)
    BY <1>1, <2>1 DEF ReadsFit
  <2> HIDE DEF d
  <2>3. /\ e \in ReadRecords /\ e.current = FALSE /\ e.at = d.at /\ e.quiet = d.quiet
        /\ e.onward = d.onward /\ e.shown = d.shown /\ e.seen = d.seen
        /\ e.cursor = d.cursor /\ e.label = d.label /\ e.fresh = d.fresh
    BY <2>2 DEF ReadRecords
  <2> HIDE DEF e
  <2>4. ReadFits(e, rows, newest, revision)
    BY <2>1, <2>2, <2>3 DEF ReadFits
  <2> QED BY <2>1, <2>3, <2>4
<1>3. Superseded \in [Reads -> ReadRecords \cup {NoRow}]
  <2>1. \A r \in Reads : Superseded[r] \in ReadRecords \cup {NoRow}
    BY <1>2 DEF ReadFits
  <2>2. Superseded = [r \in Reads |-> Superseded[r]]
    BY DEF Superseded
  <2> HIDE DEF Superseded
  <2> QED BY <2>1, <2>2
<1>4. \A r \in Reads : ~IsNewest(Superseded, r)
  BY <1>2 DEF IsNewest
<1>5. \A r \in Reads : Superseded[r] # NoRow =>
        /\ ReadFits(Superseded[r], rows, newest, revision)
        /\ Superseded[r].current /\ v # NoRow => Keeps(Superseded[r], v, rows)
  BY <1>2
<1> QED BY <1>2, <1>3, <1>4, <1>5 DEF ReadsFit

\* A read that begins supersedes the others.
LEMMA NewestReadFits ==
    ASSUME ReadsFit(reads, view, rows, newest, revision), NEW r \in Reads, NEW d, NEW v,
           ReadFits(d, rows, newest, revision), v # NoRow => Keeps(d, v, rows),
           reads' = [Superseded EXCEPT ![r] = d]
    PROVE  ReadsFit(reads', v, rows, newest, revision)
<1> DEFINE old == Superseded
<1>1. /\ ReadsFit(old, v, rows, newest, revision)
      /\ \A s \in Reads : old[s] # NoRow => ~old[s].current
  BY SupersededFits
<1>2. reads' = [old EXCEPT ![r] = d]
  OBVIOUS
<1> HIDE DEF old
<1>3. old \in [Reads -> ReadRecords \cup {NoRow}] /\ d \in ReadRecords
  BY <1>1 DEF ReadsFit, ReadFits
<1>4. /\ reads' \in [Reads -> ReadRecords \cup {NoRow}]
      /\ reads'[r] = d /\ \A s \in Reads \ {r} : reads'[s] = old[s]
  BY <1>2, <1>3
<1>5. \A s \in Reads : reads'[s] # NoRow =>
        /\ ReadFits(reads'[s], rows, newest, revision)
        /\ reads'[s].current /\ v # NoRow => Keeps(reads'[s], v, rows)
  BY <1>1, <1>4 DEF ReadsFit
<1>6. \A s, o \in Reads : IsNewest(reads', s) /\ IsNewest(reads', o) => s = o
  <2>1. \A s \in Reads : IsNewest(reads', s) => s = r
    BY <1>1, <1>4 DEF IsNewest
  <2> QED BY <2>1
<1> QED BY <1>4, <1>5, <1>6 DEF ReadsFit

\* A read of everything has nothing yet.
LEMMA FullReadFits ==
    ASSUME StoredFit, NEW again \in BOOLEAN, NEW quiet \in BOOLEAN
    PROVE  /\ ReadFits(FullRead(again, quiet), rows, newest, revision)
           /\ FullRead(again, quiet).current
           /\ \A v : Keeps(FullRead(again, quiet), v, rows)
<1> DEFINE d == FullRead(again, quiet)
<1>1. /\ d.at = "label" /\ d.current /\ ~d.onward /\ d.seen = {} /\ d.shown = {}
      /\ d.cursor = 0 /\ d.label = 0 /\ d.fresh = 0
  BY DEF FullRead
<1>2. d \in ReadRecords
  BY HistoryNumbers DEF FullRead, ReadRecords
<1> HIDE DEF d
<1>3. \A m \in rows : ~(m.id <= 0)
  BY HistoryNumbers DEF StoredFit
<1>4. 0 <= newest /\ 0 <= revision /\ 0 # revision
  BY HistoryNumbers DEF StoredFit
<1>5. KnownTo({}, rows, newest)
  BY DEF KnownTo
<1>6. ReadFits(d, rows, newest, revision)
  BY <1>1, <1>2, <1>3, <1>4, <1>5 DEF ReadFits
<1>7. \A v : Keeps(d, v, rows)
  BY <1>1, <1>3 DEF Keeps
<1> QED BY <1>1, <1>6, <1>7 DEF d

\* A read that goes on from the display begins with all of it.
LEMMA NewReadFits ==
    ASSUME StoredFit, NEW reset \in BOOLEAN,
           view # NoRow => ViewFits(view, rows, newest, revision)
    PROVE  /\ ReadFits(NewRead(reset), rows, newest, revision)
           /\ view # NoRow => Keeps(NewRead(reset), view, rows)
<1>1. CASE reset \/ view = NoRow \/ view.label = 0
  <2>1. NewRead(reset) = FullRead(FALSE, TRUE)
    BY <1>1 DEF NewRead
  <2> QED BY <2>1, FullReadFits
<1>2. CASE ~reset /\ view # NoRow /\ view.label # 0
  <2> DEFINE d == NewRead(reset)
  <2>1. /\ view \in Views /\ KnownTo(view.rows, rows, newest)
        /\ view.cursor <= newest /\ view.label <= revision
        /\ view.label = revision => Covers(view.rows, view.cursor, rows)
    BY <1>2 DEF ViewFits
  <2>2. d = [FullRead(FALSE, TRUE) EXCEPT
              !.onward = TRUE, !.shown = view.rows, !.seen = view.rows,
              !.cursor = view.cursor, !.label = view.label]
    BY <1>2 DEF NewRead
  <2>3. /\ d.at = "label" /\ d.current /\ d.onward /\ d.seen = view.rows
        /\ d.shown = view.rows /\ d.cursor = view.cursor /\ d.label = view.label /\ d.fresh = 0
    BY <2>2 DEF FullRead
  <2>4. d \in ReadRecords
    <3> DEFINE k == FullRead(FALSE, TRUE)
    <3>1. k \in ReadRecords
      BY FullReadFits DEF ReadFits
    <3>2. d = [k EXCEPT !.onward = TRUE, !.shown = view.rows, !.seen = view.rows,
                        !.cursor = view.cursor, !.label = view.label]
      BY <2>2
    <3>3. /\ view.rows \in SUBSET Row /\ view.cursor \in 0..MaxId
          /\ view.label \in 0..MaxRevision
      BY <2>1 DEF Views
    <3> HIDE DEF k, d
    <3> QED BY <3>1, <3>2, <3>3 DEF ReadRecords
  <2> HIDE DEF d
  <2>5. 0 <= revision
    BY HistoryNumbers DEF StoredFit
  <2>6. ReadFits(d, rows, newest, revision)
    BY <1>2, <2>1, <2>3, <2>4, <2>5 DEF ReadFits
  <2>7. Keeps(d, view, rows)
    BY <2>3 DEF Keeps
  <2> QED BY <2>6, <2>7 DEF d
<1> QED BY <1>1, <1>2

\* What a page adds to a read.
PageJoined(d) ==
    [d EXCEPT !.seen = Merged(@, Page(d.cursor)), !.cursor = LastId(Page(d.cursor), @),
              !.label = d.fresh, !.fresh = 0,
              !.at = IF HasMore(d.cursor) THEN "label" ELSE "done"]

\* A page that does not show the history changed makes a read go on rightly.
LEMMA PageJoinedFits ==
    ASSUME StoredFit, NEW d, ReadFits(d, rows, newest, revision), d.at = "rows",
           ~Changed(d, Page(d.cursor))
    PROVE  /\ ReadFits(PageJoined(d), rows, newest, revision)
           /\ PageJoined(d).current
           /\ \A v : KnownTo(v.rows, rows, newest) /\ Keeps(d, v, rows)
                     => Keeps(PageJoined(d), v, rows)
<1> DEFINE got == Page(d.cursor)
           c == LastId(got, d.cursor)
           T == Merged(d.seen, got)
           e == PageJoined(d)
<1>1. /\ d \in ReadRecords /\ KnownTo(d.seen, rows, newest) /\ KnownTo(d.shown, rows, newest)
      /\ d.cursor \in Nat /\ d.cursor <= newest /\ d.current
      /\ d.label \in Nat /\ d.fresh \in Nat \ {0} /\ d.fresh <= revision
      /\ d.label = 0 => d.seen = {} /\ d.cursor = 0
      /\ d.label = revision => Covers(d.seen, d.cursor, rows)
      /\ \A m \in d.seen : m.id > d.cursor => d.onward /\ m \in d.shown
      /\ d.quiet => d.fresh = revision
  BY HistoryNumbers DEF ReadFits, ReadRecords
<1>2. /\ got \subseteq rows /\ c \in Nat /\ d.cursor <= c /\ c <= newest
      /\ \A m \in rows : m \in got <=> d.cursor < m.id /\ m.id <= c
      /\ ~HasMore(d.cursor) => \A m \in rows : m.id <= c
  BY <1>1, PageOf
<1>3. /\ KnownTo(T, rows, newest) /\ T \subseteq d.seen \cup got
      /\ rows \cap (d.seen \cup got) \subseteq T
  <2>1. KnownTo(got, rows, newest)
    BY <1>2, StoredAreKnown
  <2>2. KnownTo(d.seen, rows, newest)
    BY <1>1
  <2> DEFINE A == d.seen
  <2> HIDE DEF got, A
  <2>3. /\ KnownTo(Merged(A, got), rows, newest) /\ Merged(A, got) \subseteq A \cup got
        /\ rows \cap (A \cup got) \subseteq Merged(A, got)
    <3>1. KnownTo(A, rows, newest)
      BY <2>2 DEF A
    <3> QED BY <2>1, <3>1, MergedKnown
  <2> QED BY <2>3 DEF A
<1>4. /\ d.label # 0 => d.label = d.fresh
      /\ d.onward => \A m \in got, k \in d.shown : m.id = k.id => m.rev = k.rev
  BY DEF Changed
<1>5. /\ rows \subseteq Row /\ revision \in 1..MaxRevision /\ newest \in 0..MaxId
      /\ \A m \in rows : m.id \in Nat \ {0}
      /\ \A m \in d.seen \cup T : m.id \in Nat
  BY <1>1, <1>3, HistoryNumbers DEF StoredFit, KnownTo
<1>6. d.fresh = revision => Covers(T, c, rows)
  <2> SUFFICES ASSUME d.fresh = revision PROVE Covers(T, c, rows)
    OBVIOUS
  <2>1. Covers(d.seen, d.cursor, rows)
    <3>1. CASE d.label = 0
      BY <1>1, <1>5, <3>1 DEF Covers
    <3>2. CASE d.label # 0
      BY <1>1, <1>4, <3>2
    <3> QED BY <3>1, <3>2
  <2>2. \A m \in d.seen, k \in got : m.id > d.cursor /\ m.id = k.id => m.rev = k.rev
    BY <1>1, <1>4
  <2> QED BY <1>1, <2>1, <2>2, CoversMore
<1>7. /\ e.seen = T /\ e.cursor = c /\ e.label = d.fresh /\ e.fresh = 0
      /\ e.at = IF HasMore(d.cursor) THEN "label" ELSE "done"
      /\ e.current = d.current /\ e.quiet = d.quiet /\ e.onward = d.onward
      /\ e.shown = d.shown
  BY <1>1 DEF PageJoined, ReadRecords
<1>8. e \in ReadRecords
  <2>1. T \in SUBSET Row /\ c \in 0..MaxId
    BY <1>2, <1>3, <1>5, HistoryNumbers DEF KnownTo
  <2> HIDE DEF T, c, got
  <2>2. e = [d EXCEPT !.seen = T, !.cursor = c, !.label = d.fresh, !.fresh = 0,
                      !.at = IF HasMore(d.cursor) THEN "label" ELSE "done"]
    BY DEF PageJoined, T, c, got
  <2> HIDE DEF e
  <2>3. (IF HasMore(d.cursor) THEN "label" ELSE "done") \in {"label", "rows", "done"}
    OBVIOUS
  <2>4. 0 \in 0..MaxRevision /\ d.fresh \in 0..MaxRevision
    BY <1>1, HistoryNumbers DEF ReadRecords
  <2> QED BY <1>1, <2>1, <2>2, <2>3, <2>4 DEF ReadRecords
<1> HIDE DEF e, T, c, got
<1>9. \A m \in e.seen : m.id > e.cursor => e.onward /\ m \in e.shown
  <2>1. ASSUME NEW m \in T, m.id > c PROVE d.onward /\ m \in d.shown
    <3>1. m \in d.seen
      BY <1>2, <1>3, <1>5, <2>1
    <3>2. m.id > d.cursor
      BY <1>1, <1>2, <1>5, <2>1
    <3> QED BY <1>1, <3>1, <3>2
  <2> QED BY <1>7, <2>1
<1>10. e.at = "done" => \A m \in rows : m.id <= c
  BY <1>2, <1>7
<1>11. ReadFits(e, rows, newest, revision)
  <2>1. /\ e.at # "rows" /\ e.current /\ e.label # 0
        /\ e.cursor <= newest /\ e.label <= revision /\ e.fresh <= revision
        /\ KnownTo(e.seen, rows, newest) /\ KnownTo(e.shown, rows, newest)
    BY <1>1, <1>2, <1>3, <1>5, <1>7, HistoryNumbers
  <2>2. e.label = revision => Covers(e.seen, e.cursor, rows)
    BY <1>6, <1>7
  <2>3. e.at = "done" /\ e.quiet => e.label = revision /\ \A m \in rows : m.id <= e.cursor
    BY <1>1, <1>7, <1>10
  <2> QED BY <1>8, <1>9, <2>1, <2>2, <2>3 DEF ReadFits
<1>12. ASSUME NEW v, KnownTo(v.rows, rows, newest), Keeps(d, v, rows)
       PROVE  Keeps(e, v, rows)
  <2>1. ASSUME NEW m \in v.rows \cap rows, e.onward \/ e.at = "done" \/ m.id <= e.cursor
        PROVE  m \in e.seen
    <3>1. CASE d.onward \/ m.id <= d.cursor
      <4>1. m \in d.seen
        BY <1>12, <3>1 DEF Keeps
      <4> QED BY <1>3, <1>7, <4>1
    <3>2. CASE ~(d.onward \/ m.id <= d.cursor)
      <4>1. m.id <= c
        BY <1>7, <1>10, <2>1, <3>2
      <4>2. m \in got
        BY <1>1, <1>2, <1>5, <3>2, <4>1
      <4> QED BY <1>3, <1>7, <4>2
    <3> QED BY <3>1, <3>2
  <2> QED BY <2>1 DEF Keeps
<1>13. e.current
  BY <1>1, <1>7
<1> QED BY <1>11, <1>12, <1>13 DEF e

\* A saved message that is shown at once.
LEMMA AppendedFits ==
    ASSUME StoredFit, view # NoRow, ViewFits(view, rows, newest, revision), NEW m,
           KnownTo({m}, rows, newest), m.rev = 1
    PROVE  /\ ViewFits(Appended(m), rows, newest, revision)
           /\ view.rows \cap rows \subseteq Appended(m).rows
<1> DEFINE S == view.rows
           T == Merged(S, {m})
           l == IF \E k \in S : k.id = m.id /\ k.rev # m.rev THEN 0 ELSE view.label
           w == Appended(m)
<1>1. /\ view \in Views /\ KnownTo(S, rows, newest)
      /\ view.cursor <= newest /\ view.label <= revision
      /\ view.label = revision => Covers(S, view.cursor, rows)
      /\ view.label \in Nat /\ revision \in Nat \ {0} /\ view.cursor \in Nat
  BY HistoryNumbers DEF ViewFits, StoredFit, Views
<1>2. w = [view EXCEPT !.rows = T, !.label = l]
  BY DEF Appended
<1> HIDE DEF S
<1>3. /\ KnownTo(T, rows, newest) /\ T \subseteq S \cup {m}
      /\ rows \cap (S \cup {m}) \subseteq T
  BY <1>1, MergedKnown
<1>4. l \in 0..MaxRevision /\ l <= revision
      /\ (l = revision => view.label = revision /\ \A k \in S : k.id = m.id => k.rev = m.rev)
  <2>1. CASE \E k \in S : k.id = m.id /\ k.rev # m.rev
    BY <1>1, <2>1, HistoryNumbers
  <2>2. CASE ~\E k \in S : k.id = m.id /\ k.rev # m.rev
    <3>1. l = view.label /\ view.label \in 0..MaxRevision
      BY <1>1, <2>2 DEF Views
    <3> QED BY <1>1, <2>2, <3>1
  <2> QED BY <2>1, <2>2
<1> HIDE DEF T, l, w
<1>5. w \in Views /\ w.rows = T /\ w.label = l /\ w.cursor = view.cursor
  BY <1>1, <1>2, <1>3, <1>4 DEF Views, KnownTo
<1>6. ASSUME l = revision PROVE Covers(T, view.cursor, rows)
  <2>1. Covers(S, view.cursor, rows) /\ \A k \in S : k.id = m.id => k.rev = m.rev
    BY <1>1, <1>4, <1>6
  <2>2. {k \in rows : k.id <= view.cursor} \subseteq T
    BY <1>3, <2>1 DEF Covers
  <2>3. ASSUME NEW k \in rows, m.id = k.id, k.id <= view.cursor PROVE m = k
    <3>1. k \in S
      BY <2>1, <2>3 DEF Covers
    <3>2. k.rev = m.rev /\ k \in Row /\ m \in Row
      BY <2>1, <2>3, <3>1 DEF StoredFit, KnownTo
    <3> QED BY <2>3, <3>2, HistoryNumbers
  <2>4. ASSUME NEW n \in T, NEW k \in rows, n.id = k.id, k.id <= view.cursor PROVE n = k
    <3>1. CASE n \in S
      BY <2>1, <2>4, <3>1 DEF Covers
    <3>2. CASE n = m
      BY <2>3, <2>4, <3>2
    <3> QED BY <1>3, <3>1, <3>2
  <2> QED BY <2>2, <2>4 DEF Covers
<1>7. ViewFits(w, rows, newest, revision)
  BY <1>1, <1>3, <1>4, <1>5, <1>6 DEF ViewFits
<1> QED BY <1>3, <1>5, <1>7 DEF w, S

-----------------------------------------------------------------------------
(* The page *)

\* Answers to the page, and the page that waits for none.
LEMMA RepliesFit ==
    /\ NoReply \in Replies /\ NoReply.kind = "none"
    /\ Refusal \in Replies /\ Refusal.kind = "refused"
    /\ \A m \in Row : Saved(m) \in Replies /\ Saved(m).row = m
    /\ NoSubmission \in Pages /\ NoSubmission.reply = NoReply
BY HistoryNumbers DEF NoReply, Refusal, Saved, NoSubmission, Replies, Pages

\* The page waits for something else, with nothing saved to show.
LEMMA PageTurned ==
    ASSUME NEW p \in Pages, p.reply.kind # "saved", NEW rs, NEW n
    PROVE  PageFits(p, rs, n)
BY DEF PageFits

\* A message that was saved stays known.
LEMMA PageLater ==
    ASSUME Later, PageFits(page, rows, newest)
    PROVE  PageFits(page, rows', newest')
BY DEF PageFits, Later

\* The answer to a creation reaches the page that waits for it, or nobody.
LEMMA RepliedFits ==
    ASSUME NEW rs, NEW n, PageFits(page, rs, n), NEW k, NEW reply \in Replies,
           reply.kind = "saved" => KnownTo({reply.row}, rs, n) /\ reply.row.rev = 1,
           Replied(k, reply)
    PROVE  PageFits(page', rs, n)
<1>1. page \in Pages /\ page' \in {page, [page EXCEPT !.reply = reply]}
  BY DEF PageFits, Replied
<1>2. CASE page' = page
  BY <1>2
<1>3. CASE page' = [page EXCEPT !.reply = reply]
  <2>1. page' \in Pages /\ page'.reply = reply
    BY <1>1, <1>3 DEF Pages
  <2> QED BY <2>1 DEF PageFits
<1> QED BY <1>1, <1>2, <1>3

\* The page goes to another step, and may forget the answer it had.
LEMMA PageGoes ==
    ASSUME NEW rs, NEW n, PageFits(page, rs, n),
           NEW at \in {"idle", "creating", "answering", "syncing"},
           \/ page' = [page EXCEPT !.at = at]
           \/ page' = [page EXCEPT !.at = at, !.reply = NoReply]
           \/ page' = [page EXCEPT !.at = at, !.message = page.reply.row, !.reply = NoReply]
    PROVE  PageFits(page', rs, n)
<1>1. page \in Pages /\ page.reply.row \in Row \cup {NoRow}
  BY DEF PageFits, Pages, Replies
<1>2. CASE page' = [page EXCEPT !.at = at]
  <2>1. page' \in Pages /\ page'.reply = page.reply
    BY <1>1, <1>2 DEF Pages
  <2> QED BY <2>1 DEF PageFits
<1>3. CASE page' = [page EXCEPT !.at = at, !.reply = NoReply]
  <2>1. page' \in Pages /\ page'.reply = NoReply
    BY <1>1, <1>3, RepliesFit DEF Pages
  <2> QED BY <2>1, RepliesFit DEF PageFits
<1>4. CASE page' = [page EXCEPT !.at = at, !.message = page.reply.row, !.reply = NoReply]
  <2>1. page' \in Pages /\ page'.reply = NoReply
    BY <1>1, <1>4, RepliesFit DEF Pages
  <2> QED BY <2>1, RepliesFit DEF PageFits
<1> QED BY <1>2, <1>3, <1>4

-----------------------------------------------------------------------------
(* Steps *)

\* At first nothing is stored, shown or under way.
LEMMA DisplayStarts == HistoryInit => DisplayInv
<1> SUFFICES ASSUME HistoryInit PROVE DisplayInv
  OBVIOUS
<1> USE HistoryNumbers DEF HistoryInit
<1>1. StoredFit
  BY FS_EmptySet DEF StoredFit
<1>2. KeysFit
  BY DEF KeysFit
<1>3. PageFits(page, rows, newest)
  BY RepliesFit DEF PageFits
<1>4. ReadsFit(reads, view, rows, newest, revision)
  BY DEF ReadsFit, IsNewest
<1> QED BY <1>1, <1>2, <1>3, <1>4 DEF DisplayInv

\* A write of the server, with what it answers.
LEMMA WritesFit ==
    ASSUME DisplayInv, Later, view' = view, reads' = Stale(reads), KeysFit',
           PageFits(page', rows', newest')
    PROVE  DisplayInv'
<1>1. StoredFit'
  BY DEF Later
<1> QED BY <1>1, StaleFits DEF DisplayInv

\* Anything else.
LEMMA OthersFit ==
    ASSUME DisplayInv, rows' = rows, newest' = newest, revision' = revision, KeysFit',
           PageFits(page', rows, newest),
           view' # NoRow => ViewFits(view', rows, newest, revision),
           ReadsFit(reads', view', rows, newest, revision)
    PROVE  DisplayInv'
BY DEF DisplayInv, StoredFit

\* Steps of the server and of other devices.
LEMMA ServerFits ==
    ASSUME DisplayInv,
           \/ OtherCreates \/ OtherReplaces \/ OtherRewinds
           \/ \E k \in SubmissionKeys : ServeCreate(k)
           \/ StartAnswer \/ AnswerRefused \/ FinishAnswer
    PROVE  DisplayInv'
<1>1. /\ StoredFit /\ KeysFit /\ PageFits(page, rows, newest)
      /\ view # NoRow => ViewFits(view, rows, newest, revision)
      /\ ReadsFit(reads, view, rows, newest, revision)
  BY DEF DisplayInv
<1>2. CASE OtherCreates
  <2>1. Later /\ view' = view /\ reads' = Stale(reads) /\ page' = page
    BY <1>1, <1>2, StoreIsLater DEF OtherCreates
  <2>2. KeysFit'
    BY <1>1, <1>2 DEF OtherCreates, KeysFit
  <2> QED BY <1>1, <2>1, <2>2, PageLater, WritesFit
<1>3. CASE OtherReplaces
  <2>1. Later /\ view' = view /\ reads' = Stale(reads) /\ page' = page
    BY <1>1, <1>3, ReplaceIsLater DEF OtherReplaces
  <2>2. KeysFit'
    BY <1>1, <1>3 DEF OtherReplaces, KeysFit
  <2> QED BY <1>1, <2>1, <2>2, PageLater, WritesFit
<1>4. CASE OtherRewinds
  <2>1. Later /\ view' = view /\ reads' = Stale(reads) /\ page' = page
    BY <1>1, <1>4, RewindIsLater DEF OtherRewinds
  <2>2. KeysFit'
    BY <1>1, <1>4 DEF OtherRewinds, KeysFit
  <2> QED BY <1>1, <2>1, <2>2, PageLater, WritesFit
<1>5. ASSUME NEW k \in SubmissionKeys, ServeCreate(k) PROVE DisplayInv'
  <2>1. /\ sent' \subseteq SubmissionKeys
        /\ revision' = revision /\ answering' = answering /\ view' = view
    BY <1>1, <1>5 DEF ServeCreate, KeysFit
  <2>2. CASE /\ UNCHANGED <<rows, newest, receipts, reads>>
             /\ \/ Replied(k, Refusal)
                \/ \E m \in Receipt(k) : Replied(k, Saved(m))
    <3>1. PageFits(page', rows, newest)
      <4>1. CASE Replied(k, Refusal)
        BY <1>1, <4>1, RepliesFit, RepliedFits
      <4>2. ASSUME NEW m \in Receipt(k), Replied(k, Saved(m)) PROVE PageFits(page', rows, newest)
        <5>1. m \in rows /\ m.rev = 1 /\ m \in Row
          BY <1>1 DEF Receipt, StoredFit
        <5>2. KnownTo({m}, rows, newest)
          BY <1>1, <5>1, StoredAreKnown
        <5>3. Saved(m) \in Replies /\ Saved(m).row = m
          BY <5>1, RepliesFit
        <5> QED BY <1>1, <4>2, <5>1, <5>2, <5>3, RepliedFits
      <4> QED BY <2>2, <4>1, <4>2
    <3>2. KeysFit'
      BY <1>1, <2>1, <2>2 DEF KeysFit
    <3> QED BY <1>1, <2>1, <2>2, <3>1, <3>2, OthersFit
  <2>3. CASE /\ Store /\ receipts' = [receipts EXCEPT ![k] = newest + 1]
             /\ reads' = Stale(reads)
             /\ Replied(k, Saved([id |-> newest + 1, rev |-> 1]))
    <3> DEFINE new == [id |-> newest + 1, rev |-> 1]
    <3>1. Later /\ KnownTo({new}, rows', newest')
      BY <1>1, <2>1, <2>3, StoreIsLater
    <3>2. PageFits(page, rows', newest')
      BY <1>1, <3>1, PageLater
    <3>3. new \in Row /\ new.rev = 1
      BY <3>1 DEF KnownTo
    <3>4. Replied(k, Saved(new))
      BY <2>3
    <3> HIDE DEF new
    <3>5. Saved(new) \in Replies /\ Saved(new).row = new
      BY <3>3, RepliesFit
    <3>6. PageFits(page', rows', newest')
      BY <3>1, <3>2, <3>3, <3>4, <3>5, RepliedFits
    <3>7. KeysFit'
      <4>1. newest + 1 \in 0..MaxId
        BY <1>1, <2>3, HistoryNumbers DEF Store, StoredFit
      <4> QED BY <1>1, <2>1, <2>3, <4>1 DEF KeysFit
    <3> QED BY <2>1, <2>3, <3>1, <3>6, <3>7, WritesFit
  <2> QED BY <1>5, <2>2, <2>3 DEF ServeCreate
<1>6. CASE StartAnswer
  <2>1. /\ rows' = rows /\ newest' = newest /\ revision' = revision
        /\ view' = view /\ reads' = reads /\ page' = page
    BY <1>6 DEF StartAnswer
  <2>2. KeysFit'
    <3>1. page.message \in Row
      BY <1>1, <1>6 DEF StartAnswer, StoredFit
    <3>2. page.message.id \in 0..MaxId
      BY <3>1, HistoryNumbers
    <3> QED BY <1>1, <1>6, <3>2 DEF StartAnswer, KeysFit
  <2> QED BY <1>1, <2>1, <2>2, OthersFit
<1>7. CASE AnswerRefused
  <2>1. /\ rows' = rows /\ newest' = newest /\ revision' = revision
        /\ view' = view /\ reads' = reads /\ page' = [page EXCEPT !.reply = Refusal]
    BY <1>7 DEF AnswerRefused, server
  <2>2. KeysFit'
    BY <1>1, <1>7 DEF AnswerRefused, KeysFit, server
  <2>3. PageFits(page', rows, newest)
    <3>1. page' \in Pages /\ page'.reply = Refusal
      BY <1>1, <2>1, RepliesFit DEF PageFits, Pages
    <3> QED BY <3>1, RepliesFit, PageTurned
  <2> QED BY <1>1, <2>1, <2>2, <2>3, OthersFit
<1>8. CASE FinishAnswer
  <2>1. /\ answering' = 0 /\ revision' = revision /\ receipts' = receipts
        /\ view' = view /\ sent' = sent
    BY <1>8 DEF FinishAnswer
  <2>2. KeysFit'
    BY <1>1, <2>1, HistoryNumbers DEF KeysFit
  <2>3. ASSUME NEW rs, NEW n, PageFits(page, rs, n) PROVE PageFits(page', rs, n)
    <3>1. page' \in {page, [page EXCEPT !.reply.kind = "answered"]}
      BY <1>8 DEF FinishAnswer
    <3>2. CASE page' = [page EXCEPT !.reply.kind = "answered"]
      <4>1. page.reply \in Replies /\ page \in Pages
        BY <1>1 DEF PageFits, Pages
      <4>2. [page.reply EXCEPT !.kind = "answered"] \in Replies
        BY <4>1 DEF Replies
      <4>3. page' = [page EXCEPT !.reply = [page.reply EXCEPT !.kind = "answered"]]
        BY <3>2
      <4>4. page' \in Pages /\ page'.reply = [page.reply EXCEPT !.kind = "answered"]
        BY <4>1, <4>2, <4>3 DEF Pages
      <4>5. page'.reply.kind = "answered"
        BY <4>1, <4>4 DEF Replies
      <4> QED BY <4>4, <4>5, PageTurned
    <3> QED BY <2>3, <3>1, <3>2
  <2>4. CASE Store /\ reads' = Stale(reads)
    <3>1. Later
      BY <1>1, <2>1, <2>4, StoreIsLater
    <3>2. PageFits(page', rows', newest')
      BY <1>1, <2>3, <3>1, PageLater
    <3> QED BY <2>1, <2>2, <2>4, <3>1, <3>2, WritesFit
  <2>5. CASE UNCHANGED <<rows, newest, reads>>
    BY <1>1, <2>1, <2>2, <2>3, <2>5, OthersFit
  <2> QED BY <1>8, <2>4, <2>5 DEF FinishAnswer
<1> QED BY <1>2, <1>3, <1>4, <1>5, <1>6, <1>7, <1>8

\* What a read that is done shows.
LEMMA ShownFits ==
    ASSUME NEW d, ReadFits(d, rows, newest, revision)
    PROVE  ViewFits([rows |-> d.seen, label |-> d.label, cursor |-> d.cursor],
                    rows, newest, revision)
<1> DEFINE v == [rows |-> d.seen, label |-> d.label, cursor |-> d.cursor]
<1>1. v.rows = d.seen /\ v.label = d.label /\ v.cursor = d.cursor /\ v \in Views
  BY DEF ReadFits, ReadRecords, Views
<1> HIDE DEF v
<1>2. ViewFits(v, rows, newest, revision)
  BY <1>1 DEF ReadFits, ViewFits
<1> QED BY <1>2 DEF v

\* Steps of a read.
LEMMA ReadStepsFit ==
    ASSUME DisplayInv, NEW r \in Reads,
           ReadLabel(r) \/ ReadRows(r) \/ ReadFails(r) \/ Publish(r)
    PROVE  DisplayInv'
<1> DEFINE d == reads[r]
<1>1. /\ StoredFit /\ KeysFit /\ PageFits(page, rows, newest)
      /\ view # NoRow => ViewFits(view, rows, newest, revision)
      /\ ReadsFit(reads, view, rows, newest, revision)
  BY DEF DisplayInv
<1>2. /\ rows' = rows /\ newest' = newest /\ revision' = revision
      /\ receipts' = receipts /\ answering' = answering /\ page' = page /\ sent' = sent
      /\ d # NoRow
  BY DEF ReadLabel, ReadRows, ReadFails, Publish, server
<1>3. KeysFit' /\ PageFits(page', rows, newest)
  BY <1>1, <1>2 DEF KeysFit
<1>4. /\ reads \in [Reads -> ReadRecords \cup {NoRow}] /\ d \in ReadRecords
      /\ ReadFits(d, rows, newest, revision)
      /\ d.current /\ view # NoRow => Keeps(d, view, rows)
  BY <1>1, <1>2 DEF ReadsFit
<1>5. CASE ReadLabel(r)
  <2> DEFINE e == [d EXCEPT !.at = "rows", !.fresh = revision]
  <2>1. reads' = [reads EXCEPT ![r] = e] /\ d.at = "label" /\ view' = view
    BY <1>4, <1>5 DEF ReadLabel
  <2> HIDE DEF d
  <2>2. revision \in 0..MaxRevision /\ revision # 0
    BY <1>1, HistoryNumbers DEF StoredFit
  <2>3. /\ e \in ReadRecords /\ e.at = "rows" /\ e.fresh = revision
        /\ e.current = d.current /\ e.quiet = d.quiet
        /\ e.onward = d.onward /\ e.shown = d.shown /\ e.seen = d.seen
        /\ e.cursor = d.cursor /\ e.label = d.label
    BY <1>4, <2>2 DEF ReadRecords
  <2> HIDE DEF e
  <2>4. revision # 0 /\ revision <= revision
    BY <2>2
  <2>5. ReadFits(e, rows, newest, revision)
    BY <1>4, <2>1, <2>3, <2>4 DEF ReadFits
  <2>6. ASSUME e.current, view # NoRow PROVE Keeps(e, view, rows)
    BY <1>4, <2>1, <2>3, <2>6 DEF Keeps
  <2>7. e.current => reads[r].current
    BY <2>3 DEF d
  <2>8. ReadsFit(reads', view', rows, newest, revision)
    BY <1>1, <1>2, <2>1, <2>5, <2>6, <2>7, OneReadFits DEF d
  <2> QED BY <1>1, <1>2, <1>3, <2>1, <2>8, OthersFit
<1>6. CASE ReadRows(r)
  <2>1. d.at = "rows" /\ view' = view
    BY <1>6 DEF ReadRows
  <2>2. d.current
    BY <1>4, <2>1 DEF ReadFits
  <2> DEFINE e == IF Changed(d, Page(d.cursor))
                  THEN IF d.again THEN NoRow ELSE FullRead(TRUE, d.quiet)
                  ELSE PageJoined(d)
  <2>3. reads' = [reads EXCEPT ![r] = e]
    BY <1>6 DEF ReadRows, PageJoined
  <2>4. e = NoRow \/ /\ ReadFits(e, rows, newest, revision)
                     /\ view # NoRow => Keeps(e, view, rows)
    <3> HIDE DEF d
    <3>1. CASE Changed(d, Page(d.cursor)) /\ d.again
      BY <3>1
    <3>2. CASE Changed(d, Page(d.cursor)) /\ ~d.again
      <4>1. d.quiet \in BOOLEAN
        BY <1>4 DEF ReadRecords
      <4>2. e = FullRead(TRUE, d.quiet)
        BY <3>2
      <4> QED BY <1>1, <4>1, <4>2, FullReadFits
    <3>3. CASE ~Changed(d, Page(d.cursor))
      <4>1. e = PageJoined(d)
        BY <3>3
      <4>2. /\ ReadFits(PageJoined(d), rows, newest, revision)
            /\ \A v : KnownTo(v.rows, rows, newest) /\ Keeps(d, v, rows)
                      => Keeps(PageJoined(d), v, rows)
        BY <1>1, <1>4, <2>1, <3>3, PageJoinedFits
      <4>3. view # NoRow => KnownTo(view.rows, rows, newest) /\ Keeps(d, view, rows)
        BY <1>1, <1>4, <2>2 DEF ViewFits
      <4> HIDE DEF e
      <4> QED BY <4>1, <4>2, <4>3
    <3> QED BY <3>1, <3>2, <3>3
  <2> HIDE DEF e
  <2>5. ReadsFit(reads', view', rows, newest, revision)
    BY <1>1, <1>2, <2>1, <2>2, <2>3, <2>4, OneReadFits
  <2> QED BY <1>1, <1>2, <1>3, <2>1, <2>5, OthersFit
<1>7. CASE ReadFails(r)
  <2>1. reads' = [reads EXCEPT ![r] = NoRow] /\ view' = view
    BY <1>7 DEF ReadFails
  <2>2. ReadsFit(reads', view', rows, newest, revision)
    BY <1>1, <1>2, <2>1, OneReadFits
  <2> QED BY <1>1, <1>2, <1>3, <2>1, <2>2, OthersFit
<1>8. CASE Publish(r)
  <2> DEFINE v == [rows |-> d.seen, label |-> d.label, cursor |-> d.cursor]
  <2>1. reads' = [reads EXCEPT ![r] = NoRow] /\ view' = IF d.current THEN v ELSE view
    BY <1>8 DEF Publish
  <2>2. ViewFits(v, rows, newest, revision)
    <3> HIDE DEF d
    <3> QED BY <1>4, ShownFits
  <2> HIDE DEF v
  <2>3. ReadsFit(reads', view, rows, newest, revision)
    BY <1>1, <1>2, <2>1, OneReadFits
  <2>4. view' # NoRow => ViewFits(view', rows, newest, revision)
    BY <1>1, <2>1, <2>2
  <2>5. ReadsFit(reads', view', rows, newest, revision)
    <3>1. CASE ~d.current
      BY <2>1, <2>3, <3>1
    <3>2. CASE d.current
      <4>1. \A s \in Reads : ~IsNewest(reads', s)
        <5>1. reads'[r] = NoRow /\ \A s \in Reads \ {r} : reads'[s] = reads[s]
          BY <1>4, <2>1
        <5>2. IsNewest(reads, r)
          BY <1>2, <3>2 DEF IsNewest
        <5>3. \A s \in Reads \ {r} : ~IsNewest(reads, s)
          BY <1>1, <5>2 DEF ReadsFit
        <5>4. ASSUME NEW s \in Reads, IsNewest(reads', s) PROVE FALSE
          <6>1. s # r
            BY <5>1, <5>4 DEF IsNewest
          <6>2. IsNewest(reads, s)
            BY <5>1, <5>4, <6>1 DEF IsNewest
          <6> QED BY <5>3, <6>1, <6>2
        <5> QED BY <5>4
      <4>2. \A s \in Reads : reads'[s] # NoRow => ~reads'[s].current
        BY <4>1 DEF IsNewest
      <4> QED BY <2>3, <4>1, <4>2 DEF ReadsFit
    <3> QED BY <3>1, <3>2
  <2> QED BY <1>1, <1>2, <1>3, <2>4, <2>5, OthersFit
<1> QED BY <1>5, <1>6, <1>7, <1>8

\* Steps of the page that start a read.
LEMMA StartsFit ==
    ASSUME DisplayInv, NEW r \in Reads,
           Enter(r) \/ Focus(r) \/ Refused(r) \/ Answered(r)
    PROVE  DisplayInv'
<1>1. /\ StoredFit /\ KeysFit /\ PageFits(page, rows, newest)
      /\ view # NoRow => ViewFits(view, rows, newest, revision)
      /\ ReadsFit(reads, view, rows, newest, revision)
  BY DEF DisplayInv
<1>2. /\ rows' = rows /\ newest' = newest /\ revision' = revision
      /\ receipts' = receipts /\ answering' = answering /\ sent' = sent
  BY DEF Enter, Focus, Refused, Answered, server
<1>3. KeysFit'
  BY <1>1, <1>2 DEF KeysFit
<1>4. PageFits(page', rows, newest)
  <2>1. CASE Enter(r)
    BY <1>1, <2>1, PageGoes DEF Enter
  <2>2. CASE Focus(r)
    BY <1>1, <2>2 DEF Focus
  <2>3. CASE Refused(r)
    <3>1. page' = [NoSubmission EXCEPT !.at = "syncing"]
      BY <2>3 DEF Refused
    <3>2. page' \in Pages /\ page'.reply = NoReply
      BY <3>1, RepliesFit DEF Pages
    <3> QED BY <3>2, RepliesFit, PageTurned
  <2>4. CASE Answered(r)
    BY <1>1, <2>4, PageGoes DEF Answered
  <2> QED BY <2>1, <2>2, <2>3, <2>4
<1>5. CASE Enter(r)
  <2> DEFINE d == FullRead(FALSE, TRUE)
  <2>1. view' = NoRow /\ reads' = [Superseded EXCEPT ![r] = d]
    BY <1>5 DEF Enter
  <2>2. ReadFits(d, rows, newest, revision)
    BY <1>1, FullReadFits
  <2> HIDE DEF d
  <2>3. ReadsFit(reads', view', rows, newest, revision)
    BY <1>1, <2>1, <2>2, NewestReadFits
  <2> QED BY <1>1, <1>2, <1>3, <1>4, <2>1, <2>3, OthersFit
<1>6. CASE ~Enter(r)
  <2>1. view' = view /\ \E reset \in BOOLEAN : StartRead(r, reset)
    BY <1>6 DEF Focus, Refused, Answered
  <2>2. PICK reset \in BOOLEAN : StartRead(r, reset)
    BY <2>1
  <2> DEFINE d == NewRead(reset)
  <2>3. reads' = [Superseded EXCEPT ![r] = d]
    BY <2>2 DEF StartRead
  <2>4. ReadFits(d, rows, newest, revision) /\ (view # NoRow => Keeps(d, view, rows))
    BY <1>1, NewReadFits
  <2> HIDE DEF d
  <2>5. ReadsFit(reads', view', rows, newest, revision)
    BY <1>1, <2>1, <2>3, <2>4, NewestReadFits
  <2> QED BY <1>1, <1>2, <1>3, <1>4, <2>1, <2>5, OthersFit
<1> QED BY <1>5, <1>6

\* Steps of a submission.
LEMMA SubmissionsFit ==
    ASSUME DisplayInv,
           \/ \E k \in SubmissionKeys : Submit(k)
           \/ ResumeWaiting \/ AppendReply \/ GiveUpWaiting \/ SettleWaiting
    PROVE  DisplayInv'
<1>1. /\ StoredFit /\ KeysFit /\ PageFits(page, rows, newest)
      /\ view # NoRow => ViewFits(view, rows, newest, revision)
      /\ ReadsFit(reads, view, rows, newest, revision)
  BY DEF DisplayInv
<1>2. /\ rows' = rows /\ newest' = newest /\ revision' = revision
      /\ receipts' = receipts /\ answering' = answering
  BY DEF Submit, ResumeWaiting, AppendReply, GiveUpWaiting, SettleWaiting, server
<1>3. ASSUME sent' \subseteq SubmissionKeys, view' = view, reads' = reads,
             PageFits(page', rows, newest)
      PROVE  DisplayInv'
  <2>1. KeysFit'
    BY <1>1, <1>2, <1>3 DEF KeysFit
  <2> QED BY <1>1, <1>2, <1>3, <2>1, OthersFit
<1>4. ASSUME NEW k \in SubmissionKeys, Submit(k) PROVE DisplayInv'
  <2>1. page' = [at |-> "creating", key |-> k, message |-> NoRow, reply |-> NoReply]
        /\ sent' = sent \cup {k} /\ view' = view /\ reads' = reads
    BY <1>4 DEF Submit
  <2>2. page' \in Pages /\ page'.reply = NoReply
    BY <2>1, RepliesFit, HistoryNumbers DEF Pages, SubmissionKeys
  <2>3. PageFits(page', rows, newest)
    BY <2>2, RepliesFit, PageTurned
  <2> QED BY <1>1, <1>3, <2>1, <2>3 DEF KeysFit
<1>5. CASE ResumeWaiting
  <2>1. view' = view /\ reads' = reads /\ page.key # 0
        /\ sent' \subseteq sent \cup {page.key}
    BY <1>5 DEF ResumeWaiting
  <2>2. page.key \in SubmissionKeys
    BY <1>1, <2>1, HistoryNumbers DEF PageFits, Pages, SubmissionKeys
  <2>3. PageFits(page', rows, newest)
    BY <1>1, <1>5, PageGoes DEF ResumeWaiting
  <2> QED BY <1>1, <1>3, <2>1, <2>2, <2>3 DEF KeysFit
<1>6. CASE AppendReply
  <2> DEFINE m == page.reply.row
  <2>1. /\ page.reply.kind = "saved" /\ sent' = sent
        /\ view' = IF view = NoRow THEN NoRow ELSE Appended(m)
        /\ reads' = IF view = NoRow THEN reads ELSE Superseded
        /\ page' = [page EXCEPT !.at = "answering", !.message = m, !.reply = NoReply]
    BY <1>6 DEF AppendReply, server
  <2>2. KnownTo({m}, rows, newest) /\ m.rev = 1
    BY <1>1, <2>1 DEF PageFits
  <2>3. PageFits(page', rows, newest)
    BY <1>1, <2>1, PageGoes
  <2> HIDE DEF m
  <2>4. KeysFit'
    BY <1>1, <1>2, <2>1 DEF KeysFit
  <2>5. CASE view = NoRow
    BY <1>1, <1>3, <2>1, <2>3, <2>5 DEF KeysFit
  <2>6. CASE view # NoRow
    <3>1. ViewFits(Appended(m), rows, newest, revision)
      BY <1>1, <2>2, <2>6, AppendedFits
    <3>2. ReadsFit(reads', view', rows, newest, revision)
      BY <1>1, <2>1, <2>6, SupersededFits
    <3>3. view' = Appended(m)
      BY <2>1, <2>6
    <3> QED BY <1>1, <1>2, <2>3, <2>4, <3>1, <3>2, <3>3, OthersFit
  <2> QED BY <2>5, <2>6
<1>7. CASE GiveUpWaiting
  <2>1. PageFits(page', rows, newest)
    BY <1>1, <1>7, PageGoes DEF GiveUpWaiting
  <2> QED BY <1>1, <1>3, <1>7, <2>1 DEF GiveUpWaiting, KeysFit
<1>8. CASE SettleWaiting
  <2>1. PageFits(page', rows, newest)
    <3>1. CASE page' = NoSubmission
      BY <3>1, RepliesFit, PageTurned
    <3>2. CASE page' = [page EXCEPT !.at = "idle"]
      BY <1>1, <3>2, PageGoes
    <3> QED BY <1>8, <3>1, <3>2 DEF SettleWaiting
  <2> QED BY <1>1, <1>3, <1>8, <2>1 DEF SettleWaiting, KeysFit
<1> QED BY <1>4, <1>5, <1>6, <1>7, <1>8

\* Every step keeps the invariant.
LEMMA DisplaySteps == DisplayInv /\ [HistoryNext]_historyVars => DisplayInv'
<1> SUFFICES ASSUME DisplayInv, [HistoryNext]_historyVars PROVE DisplayInv'
  OBVIOUS
<1>1. CASE UNCHANGED historyVars
  BY <1>1 DEF historyVars, DisplayInv, StoredFit, KeysFit, PageFits, ReadsFit, IsNewest
<1>2. CASE HistoryNext
  BY <1>2, ServerFits, ReadStepsFit, StartsFit, SubmissionsFit DEF HistoryNext
<1> QED BY <1>1, <1>2

\* What a quiet read shows is the server's history, up to rows that are gone.
LEMMA QuietReadsShowAll ==
    ASSUME DisplayInv, NEW r \in Reads, Publish(r), Shows(r), reads[r].quiet
    PROVE  /\ rows \subseteq view'.rows
           /\ \A m \in view'.rows : \A k \in rows : m.id = k.id => m = k
<1> DEFINE d == reads[r]
<1>1. d # NoRow /\ d.at = "done" /\ d.current /\ d.quiet
  BY DEF Shows
<1>2. ReadFits(d, rows, newest, revision)
  BY <1>1 DEF DisplayInv, ReadsFit
<1>3. view' = [rows |-> d.seen, label |-> d.label, cursor |-> d.cursor]
  BY <1>1 DEF Publish
<1>4. view'.rows = d.seen
  BY <1>3
<1> HIDE DEF d
<1>5. Covers(d.seen, d.cursor, rows) /\ \A m \in rows : m.id <= d.cursor
  BY <1>1, <1>2 DEF ReadFits
<1> QED BY <1>4, <1>5 DEF Covers

\* What replaces the display has of it all that is still stored.
LEMMA DisplayKeeps ==
    ASSUME DisplayInv, [HistoryNext]_historyVars, view # NoRow, view' # NoRow
    PROVE  view.rows \cap rows \subseteq view'.rows
<1>1. \/ view' = view
      \/ \E r \in Reads : Publish(r) /\ view' # view
      \/ AppendReply
  BY DEF HistoryNext, historyVars, OtherCreates, OtherReplaces, OtherRewinds, ServeCreate,
     StartAnswer, AnswerRefused, FinishAnswer, ReadLabel, ReadRows, ReadFails, Enter, Focus,
     Submit, Refused, Answered, ResumeWaiting, GiveUpWaiting, SettleWaiting
<1>2. ASSUME NEW r \in Reads, Publish(r), view' # view
      PROVE  view.rows \cap rows \subseteq view'.rows
  <2> DEFINE d == reads[r]
  <2>1. /\ d # NoRow /\ d.at = "done" /\ d.current
        /\ view' = [rows |-> d.seen, label |-> d.label, cursor |-> d.cursor]
    BY <1>2 DEF Publish
  <2>2. view'.rows = d.seen
    BY <2>1
  <2>3. Keeps(d, view, rows)
    BY <2>1 DEF DisplayInv, ReadsFit
  <2> HIDE DEF d
  <2> QED BY <2>1, <2>2, <2>3 DEF Keeps
<1>3. CASE AppendReply
  <2> DEFINE m == page.reply.row
  <2>1. view' = Appended(m) /\ KnownTo({m}, rows, newest) /\ m.rev = 1
    BY <1>3 DEF AppendReply, DisplayInv, PageFits
  <2> HIDE DEF m
  <2> QED BY <2>1, AppendedFits DEF DisplayInv
<1> QED BY <1>1, <1>2, <1>3

\* The invariant has the types.
LEMMA DisplayTyped == DisplayInv => HistoryTypeOK
BY HistoryNumbers DEF DisplayInv, StoredFit, KeysFit, ViewFits, Views, HistoryTypeOK

\* Whatever other devices write meanwhile, however reads overlap and whenever a save
\* is confirmed late: a read after the last change leaves out no message and shows
\* none that is outdated, and no message that the server still has leaves the screen
\* (readHistory, appendConfirmedMessage).
THEOREM DisplayStaysWhole == HistorySpec => DisplayIsWhole
<1> DEFINE ReadsAll == \A r \in Reads : Publish(r) /\ Shows(r) /\ reads[r].quiet
             => /\ rows \subseteq view'.rows
                /\ \A m \in view'.rows : \A k \in rows : m.id = k.id => m = k
           Stays == view # NoRow /\ view' # NoRow => view.rows \cap rows \subseteq view'.rows
<1>1. DisplayInv => ReadsAll
  BY QuietReadsShowAll
<1>2. DisplayInv /\ [HistoryNext]_historyVars => Stays
  BY DisplayKeeps
<1>3. DisplayIsWhole <=> []HistoryTypeOK /\ [][ReadsAll]_historyVars /\ [][Stays]_historyVars
  BY DEF DisplayIsWhole, QuietReadsMissNothing, ShownMessagesStay
<1> HIDE DEF ReadsAll, Stays
<1> QED BY <1>1, <1>2, <1>3, DisplayStarts, DisplaySteps, DisplayTyped, PTL DEF HistorySpec

-----------------------------------------------------------------------------
(* Lists in the order of a relation *)

\* R puts the numbers up to N in one order.
Ranks(R, N) ==
    /\ \A i, j \in 1..N : i # j => <<i, j>> \in R \/ <<j, i>> \in R
    /\ \A i, j \in 1..N : <<i, j>> \in R => <<j, i>> \notin R
    /\ \A i, j, k \in 1..N : <<i, j>> \in R /\ <<j, k>> \in R => <<i, k>> \in R

\* A list of the numbers up to N in the order of R.
InOrder(R, N, q) ==
    /\ q \in [1..N -> 1..N]
    /\ \A m, n \in 1..N : m < n => <<q[m], q[n]>> \in R

\* A set of numbers that is not empty has a least one.
LEMMA LeastNumber ==
    ASSUME NEW S, S \subseteq Nat, S # {}
    PROVE  \E m \in S : \A x \in S : m <= x
<1>1. PICK y \in S : TRUE
  OBVIOUS
<1> DEFINE T == {z \in 0..y : y - z \in S}
<1>2. T \subseteq Nat /\ IsFiniteSet(T) /\ 0 \in T
  <2>1. IsFiniteSet(0..y) /\ T \in SUBSET (0..y)
    BY <1>1, FS_Interval
  <2>2. IsFiniteSet(T)
    <3> HIDE DEF T
    <3> QED BY <2>1, FS_Subset
  <2> QED BY <1>1, <2>1, <2>2
<1>3. PICK z \in T : \A x \in T : x <= z
  <2>1. T \subseteq Nat /\ IsFiniteSet(T) /\ T # {}
    BY <1>2
  <2> HIDE DEF T
  <2> QED BY <2>1, LargestOfFinite
<1>4. y - z \in S
  OBVIOUS
<1>5. ASSUME NEW x \in S PROVE y - z <= x
  <2>1. CASE x > y
    BY <1>1, <1>3, <2>1
  <2>2. CASE x <= y
    <3>1. y - x \in 0..y /\ y - (y - x) = x
      BY <1>1, <2>2
    <3>2. y - x <= z
      BY <1>3, <3>1
    <3> QED BY <1>1, <1>3, <3>2
  <2> QED BY <1>1, <2>1, <2>2
<1> QED BY <1>4, <1>5

\* q holds everything, and in no other order.
HoldsAll(R, N, q) ==
    /\ \A m, n \in 1..N : q[m] = q[n] => m = n
    /\ \A i \in 1..N : \E n \in 1..N : q[n] = i
    /\ \A m, n \in 1..N : <<q[m], q[n]>> \in R => m < n

\* A list in the order of R is such a list.
LEMMA OrderHoldsAll ==
    ASSUME NEW N \in Nat, NEW R, Ranks(R, N), NEW q, InOrder(R, N, q)
    PROVE  HoldsAll(R, N, q)
<1>1. ASSUME NEW m \in 1..N, NEW n \in 1..N PROVE m < n \/ m = n \/ n < m
  OBVIOUS
<1>2. \A i \in 1..N : <<i, i>> \notin R
  BY DEF Ranks
<1>3. ASSUME NEW m \in 1..N, NEW n \in 1..N, q[m] = q[n] PROVE m = n
  <2>1. q[m] \in 1..N /\ q[n] \in 1..N
    BY DEF InOrder
  <2>2. ~(m < n) /\ ~(n < m)
    BY <1>2, <1>3, <2>1 DEF InOrder
  <2> QED BY <1>1, <2>2
<1>4. q \in Injection(1..N, 1..N)
  BY <1>3 DEF Injection, IsInjective, InOrder
<1>5. q \in Surjection(1..N, 1..N)
  <2>1. IsFiniteSet(1..N)
    BY FS_Interval
  <2> QED BY <1>4, <2>1, FS_Injection
<1>6. ASSUME NEW m \in 1..N, NEW n \in 1..N, <<q[m], q[n]>> \in R PROVE m < n
  <2>1. q[m] \in 1..N /\ q[n] \in 1..N
    BY DEF InOrder
  <2>2. m # n
    BY <1>2, <1>6, <2>1
  <2>3. ~(n < m)
    BY <1>6, <2>1 DEF InOrder, Ranks
  <2> QED BY <1>1, <2>2, <2>3
<1> QED BY <1>3, <1>5, <1>6 DEF Surjection, HoldsAll

\* There is such a list: everything stands behind those that come before it.
LEMMA OrderExists ==
    ASSUME NEW N \in Nat, NEW R, Ranks(R, N)
    PROVE  \E q : InOrder(R, N, q)
<1> DEFINE Before(i) == {j \in 1..N : <<j, i>> \in R}
           rank == [i \in 1..N |-> Cardinality(Before(i)) + 1]
<1>1. IsFiniteSet(1..N) /\ Cardinality(1..N) = N
  BY FS_Interval
<1>2. ASSUME NEW i \in 1..N
      PROVE  /\ IsFiniteSet(Before(i)) /\ Cardinality(Before(i)) \in Nat
             /\ Cardinality(Before(i)) < N
  <2>1. Before(i) \in SUBSET (1..N) /\ i \notin Before(i)
    BY DEF Ranks
  <2> HIDE DEF Before
  <2>2. /\ IsFiniteSet(Before(i))
        /\ Cardinality(Before(i)) <= N
        /\ Cardinality(Before(i)) = N => Before(i) = 1..N
    BY <1>1, <2>1, FS_Subset
  <2>3. Cardinality(Before(i)) \in Nat
    BY <2>2, FS_CardinalityType
  <2> QED BY <2>1, <2>2, <2>3
<1>3. ASSUME NEW i \in 1..N, NEW j \in 1..N, <<i, j>> \in R
      PROVE  Cardinality(Before(i)) < Cardinality(Before(j))
  <2>1. Before(i) \in SUBSET Before(j)
    BY <1>3 DEF Ranks
  <2>2. i \in Before(j) /\ i \notin Before(i)
    BY <1>3 DEF Ranks
  <2>3. IsFiniteSet(Before(j)) /\ Cardinality(Before(j)) \in Nat /\ Cardinality(Before(i)) \in Nat
    BY <1>2
  <2> HIDE DEF Before
  <2>4. /\ Cardinality(Before(i)) <= Cardinality(Before(j))
        /\ Cardinality(Before(j)) = Cardinality(Before(i)) => Before(j) = Before(i)
    BY <2>1, <2>3, FS_Subset
  <2> QED BY <2>2, <2>3, <2>4
<1>4. rank \in [1..N -> 1..N]
  <2> HIDE DEF Before
  <2> QED BY <1>2
<1>5. ASSUME NEW i \in 1..N, NEW j \in 1..N, <<i, j>> \in R PROVE rank[i] < rank[j]
  <2> HIDE DEF Before
  <2> QED BY <1>2, <1>3, <1>5
<1> HIDE DEF rank
<1>6. ASSUME NEW i \in 1..N, NEW j \in 1..N, rank[i] = rank[j] PROVE i = j
  <2>1. rank[i] \in 1..N
    BY <1>4
  <2>2. <<i, j>> \notin R /\ <<j, i>> \notin R
    BY <1>5, <1>6, <2>1
  <2> QED BY <2>2 DEF Ranks
<1>7. rank \in Injection(1..N, 1..N)
  BY <1>4, <1>6 DEF Injection, IsInjective
<1>8. rank \in Surjection(1..N, 1..N)
  BY <1>1, <1>7, FS_Injection
<1> DEFINE q == [n \in 1..N |-> CHOOSE i \in 1..N : rank[i] = n]
<1>9. \A n \in 1..N : q[n] \in 1..N /\ rank[q[n]] = n
  BY <1>8 DEF Surjection
<1>10. q \in [1..N -> 1..N]
  <2>1. q = [n \in 1..N |-> q[n]]
    OBVIOUS
  <2> HIDE DEF q
  <2> QED BY <1>9, <2>1
<1> HIDE DEF q
<1>11. ASSUME NEW m \in 1..N, NEW n \in 1..N, m < n PROVE <<q[m], q[n]>> \in R
  <2>1. q[m] \in 1..N /\ q[n] \in 1..N /\ rank[q[m]] = m /\ rank[q[n]] = n
    BY <1>9
  <2>2. q[m] # q[n]
    BY <1>11, <2>1
  <2>3. <<q[n], q[m]>> \notin R
    BY <1>5, <1>11, <2>1
  <2> QED BY <2>1, <2>2, <2>3 DEF Ranks
<1> QED BY <1>10, <1>11 DEF InOrder

\* And only one.
LEMMA OneOrder ==
    ASSUME NEW N \in Nat, NEW R, Ranks(R, N),
           NEW p, InOrder(R, N, p), NEW q, InOrder(R, N, q)
    PROVE  p = q
<1> DEFINE Bad == {n \in 1..N : p[n] # q[n]}
<1>1. p \in [1..N -> 1..N] /\ q \in [1..N -> 1..N]
  BY DEF InOrder
<1>2. SUFFICES ASSUME Bad # {} PROVE FALSE
  <2>1. \A n \in 1..N : p[n] = q[n]
    OBVIOUS
  <2> QED BY <1>1, <2>1
<1>3. PICK n \in Bad : \A x \in Bad : n <= x
  <2>1. Bad \subseteq Nat
    OBVIOUS
  <2> HIDE DEF Bad
  <2> QED BY <1>2, <2>1, LeastNumber
<1>4. \A m \in 1..N : m < n => p[m] = q[m]
  BY <1>3
<1>5. n \in 1..N /\ p[n] # q[n] /\ p[n] \in 1..N /\ q[n] \in 1..N
  BY <1>1
<1>6. ASSUME NEW f, NEW g, InOrder(R, N, f), InOrder(R, N, g),
             \A m \in 1..N : m < n => f[m] = g[m], f[n] # g[n]
      PROVE  <<g[n], f[n]>> \in R
  <2>1. f \in [1..N -> 1..N] /\ g \in [1..N -> 1..N] /\ f[n] \in 1..N /\ g[n] \in 1..N
    BY <1>5, <1>6 DEF InOrder
  <2>0. /\ \A i \in 1..N : \E m \in 1..N : g[m] = i
        /\ \A i, m \in 1..N : f[i] = f[m] => i = m
    <3>1. HoldsAll(R, N, f) /\ HoldsAll(R, N, g)
      BY <1>6, OrderHoldsAll
    <3> QED BY <3>1 DEF HoldsAll
  <2>2. PICK k \in 1..N : g[k] = f[n]
    BY <2>0, <2>1
  <2>3. k # n
    BY <1>6, <2>2
  <2>4. ~(k < n)
    <3>1. SUFFICES ASSUME k < n PROVE FALSE
      OBVIOUS
    <3>2. f[k] = f[n]
      BY <1>6, <2>2, <3>1
    <3>3. k = n
      BY <1>5, <2>0, <3>2
    <3> QED BY <2>3, <3>3
  <2>5. n < k
    BY <1>5, <2>3, <2>4
  <2> QED BY <1>5, <1>6, <2>2, <2>5 DEF InOrder
<1>7. <<q[n], p[n]>> \in R /\ <<p[n], q[n]>> \in R
  BY <1>4, <1>5, <1>6
<1> QED BY <1>5, <1>7 DEF Ranks

-----------------------------------------------------------------------------
(* The entries judged in turn *)

\* The walk over the entries, as a table of what it has after n of them.
Walk(entries, ranked, reasons, N, f) ==
    f = [n \in 0..N |-> IF n = 0 THEN Nothing
                        ELSE Judged(entries, ranked[n], reasons[ranked[n]], f[n - 1])]

\* The code's loop is that walk.
LEMMA WalkUnfolds ==
    ASSUME NEW entries, NEW ranked, NEW reasons
    PROVE  JudgedInTurn(entries, ranked, reasons)
             = (CHOOSE f : Walk(entries, ranked, reasons, Len(entries), f))[Len(entries)]
BY DEF JudgedInTurn, Walk

\* Every walk can be made.
LEMMA WalkExists ==
    ASSUME NEW entries, NEW ranked, NEW reasons, NEW N \in Nat
    PROVE  \E f : Walk(entries, ranked, reasons, N, f)
<1> DEFINE Bad == {n \in 0..N : ~\E f : Walk(entries, ranked, reasons, n, f)}
<1>1. SUFFICES ASSUME Bad # {} PROVE FALSE
  OBVIOUS
<1>2. PICK n \in Bad : \A x \in Bad : n <= x
  <2>1. Bad \subseteq Nat
    OBVIOUS
  <2> HIDE DEF Bad
  <2> QED BY <1>1, <2>1, LeastNumber
<1>3. n \in 0..N /\ ~\E f : Walk(entries, ranked, reasons, n, f)
  OBVIOUS
<1>4. n # 0
  <2>1. SUFFICES ASSUME n = 0 PROVE FALSE
    OBVIOUS
  <2> DEFINE f == [m \in 0..0 |-> Nothing]
  <2>2. f = [m \in 0..0 |-> IF m = 0 THEN Nothing
                            ELSE Judged(entries, ranked[m], reasons[ranked[m]], f[m - 1])]
    OBVIOUS
  <2>3. Walk(entries, ranked, reasons, 0, f)
    <3> HIDE DEF f
    <3> QED BY <2>2 DEF Walk
  <2> QED BY <1>3, <2>1, <2>3
<1>5. PICK f : Walk(entries, ranked, reasons, n - 1, f)
  <2>1. n - 1 \in 0..N /\ ~(n <= n - 1)
    BY <1>3, <1>4
  <2>2. n - 1 \notin Bad
    <3> HIDE DEF Bad
    <3> QED BY <1>2, <2>1
  <2> QED BY <2>1, <2>2
<1> DEFINE step(h, m) == Judged(entries, ranked[m], reasons[ranked[m]], h[m - 1])
           g == [m \in 0..n |-> IF m < n THEN f[m] ELSE step(f, n)]
<1>6. /\ f[0] = Nothing
      /\ \A m \in 1..n - 1 : f[m] = step(f, m)
  BY <1>3, <1>4, <1>5 DEF Walk
<1>7. ASSUME NEW m \in 0..n
      PROVE  g[m] = IF m = 0 THEN Nothing ELSE step(g, m)
  <2>1. CASE m = 0
    BY <1>3, <1>4, <1>6, <2>1
  <2>2. CASE m # 0
    <3>1. m - 1 \in 0..n /\ m - 1 < n
      BY <1>3, <2>2
    <3>2. g[m - 1] = f[m - 1]
      BY <3>1
    <3>3. g[m] = step(f, m)
      <4>1. CASE m = n
        BY <1>3, <4>1
      <4>2. CASE m # n
        <5>1. m \in 1..n - 1 /\ m < n
          BY <1>3, <2>2, <4>2
        <5>2. g[m] = f[m]
          BY <5>1
        <5> HIDE DEF g
        <5> QED BY <1>6, <5>1, <5>2
      <4> QED BY <4>1, <4>2
    <3> HIDE DEF g
    <3> QED BY <2>2, <3>2, <3>3
  <2> QED BY <2>1, <2>2
<1>8. g = [m \in 0..n |-> IF m = 0 THEN Nothing ELSE step(g, m)]
  <2>1. g = [m \in 0..n |-> g[m]]
    OBVIOUS
  <2> HIDE DEF g, step
  <2> QED BY <1>7, <2>1
<1>9. Walk(entries, ranked, reasons, n, g)
  <2> HIDE DEF g
  <2> QED BY <1>8 DEF Walk
<1> QED BY <1>3, <1>9

\* What a walk has at its end.
LEMMA WalkEnds ==
    ASSUME NEW entries, NEW ranked, NEW reasons, Len(entries) \in Nat
    PROVE  \E f : /\ Walk(entries, ranked, reasons, Len(entries), f)
                  /\ JudgedInTurn(entries, ranked, reasons) = f[Len(entries)]
<1> DEFINE f == CHOOSE h : Walk(entries, ranked, reasons, Len(entries), h)
<1>1. Walk(entries, ranked, reasons, Len(entries), f)
  BY WalkExists
<1> QED BY <1>1, WalkUnfolds

\* An entry is accepted when it is wanted and its group is not taken yet.
Wants(entries, reasons, i) == reasons[i] = "included" /\ ~Oversized(entries[i])

\* Wanted, and its group is free.
Accepts(entries, reasons, i, so) ==
    Wants(entries, reasons, i) /\ GroupOf(entries[i]) \notin so.groups

\* The best of what is wanted: no wanted entry of its group comes before it.
Best(entries, reasons, R, i) ==
    /\ Wants(entries, reasons, i)
    /\ \A j \in DOMAIN entries \ {i} :
         /\ Wants(entries, reasons, j)
         /\ GroupOf(entries[j]) = GroupOf(entries[i])
         /\ GroupOf(entries[i]) # NoLore
         => <<i, j>> \in R

\* What the walk has after n entries: the best of them, and their groups.
HasBest(entries, ranked, reasons, R, n, so) ==
    /\ so.active \in Seq(DOMAIN entries)
    /\ \A i \in DOMAIN entries :
         (\E k \in DOMAIN so.active : so.active[k] = i)
           <=> \E m \in 1..n : ranked[m] = i /\ Best(entries, reasons, R, i)
    /\ \A g : g \in so.groups
                <=> /\ g # NoLore
                    /\ \E m \in 1..n : /\ Best(entries, reasons, R, ranked[m])
                                       /\ GroupOf(entries[ranked[m]]) = g

\* The next entry is accepted when it is the best of its group: a better one would
\* have been met before it, and the first of them would have taken the group.
LEMMA AcceptsBest ==
    ASSUME NEW entries, NEW reasons, NEW R, NEW ranked, NEW N \in Nat,
           DOMAIN entries = 1..N, Ranks(R, N), InOrder(R, N, ranked),
           NEW n \in 1..N, NEW so, HasBest(entries, ranked, reasons, R, n - 1, so)
    PROVE  Accepts(entries, reasons, ranked[n], so) <=> Best(entries, reasons, R, ranked[n])
<1> DEFINE i == ranked[n]
           B(j) == Best(entries, reasons, R, j)
           W(j) == Wants(entries, reasons, j)
           G(j) == GroupOf(entries[j])
<1>1. /\ ranked \in [1..N -> 1..N]
      /\ \A m \in 1..N : m < n => <<ranked[m], i>> \in R
      /\ HoldsAll(R, N, ranked)
  BY OrderHoldsAll DEF InOrder
<1>2. /\ \A j \in 1..N : <<i, j>> \in R => <<j, i>> \notin R
      /\ \A j \in 1..N \ {i} : <<i, j>> \in R \/ <<j, i>> \in R
      /\ \A j, k, l \in 1..N : <<j, k>> \in R /\ <<k, l>> \in R => <<j, l>> \in R
      /\ \A j, k \in 1..N : j # k => <<j, k>> \in R \/ <<k, j>> \in R
  BY <1>1 DEF Ranks
<1>3. /\ i \in 1..N
      /\ \A j : B(j) <=> /\ W(j)
                         /\ \A k \in 1..N \ {j} : W(k) /\ G(k) = G(j) /\ G(j) # NoLore
                                                    => <<j, k>> \in R
      /\ \A g : g \in so.groups <=> g # NoLore /\ \E m \in 1..n - 1 : B(ranked[m]) /\ G(ranked[m]) = g
      /\ Accepts(entries, reasons, i, so) <=> W(i) /\ G(i) \notin so.groups
  BY <1>1 DEF Best, HasBest, Accepts
<1> HIDE DEF B, W, G, i
<1>4. ASSUME B(i), G(i) \in so.groups PROVE FALSE
  <2>1. PICK m \in 1..n - 1 : B(ranked[m]) /\ G(ranked[m]) = G(i)
    BY <1>3, <1>4
  <2>2. m \in 1..N /\ m < n
    OBVIOUS
  <2>3. <<ranked[m], i>> \in R /\ ranked[m] \in 1..N
    BY <1>1, <2>2
  <2>4. <<i, ranked[m]>> \notin R
    BY <1>2, <2>3
  <2>5. ranked[m] # i
    BY <2>3, <2>4
  <2> QED BY <1>3, <1>4, <2>1, <2>3, <2>4, <2>5
<1>5. ASSUME W(i), G(i) \notin so.groups PROVE B(i)
  <2>1. SUFFICES ASSUME NEW j \in 1..N \ {i}, W(j), G(j) = G(i), G(i) # NoLore,
                        <<i, j>> \notin R
                 PROVE  FALSE
    BY <1>3, <1>5
  <2>2. <<j, i>> \in R
    BY <1>2, <2>1
  <2> DEFINE Rivals == {m \in 1..N : W(ranked[m]) /\ G(ranked[m]) = G(i)}
  <2>3. PICK a \in 1..N : ranked[a] = j
    BY <1>1 DEF HoldsAll
  <2>4. a < n
    BY <1>1, <2>2, <2>3 DEF HoldsAll, i
  <2>5. PICK m \in Rivals : \A x \in Rivals : m <= x
    <3>1. a \in Rivals /\ Rivals \subseteq Nat
      BY <2>1, <2>3
    <3> HIDE DEF Rivals
    <3> QED BY <3>1, LeastNumber
  <2>6. m \in 1..n - 1 /\ m \in 1..N
    <3>1. m <= a
      BY <2>1, <2>3, <2>5
    <3> QED BY <2>4, <3>1
  <2>7. ASSUME NEW k \in 1..N \ {ranked[m]}, W(k), G(k) = G(ranked[m])
        PROVE  <<ranked[m], k>> \in R
    <3>1. PICK b \in 1..N : ranked[b] = k
      BY <1>1 DEF HoldsAll
    <3>2. b \in Rivals
      BY <2>5, <2>7, <3>1
    <3>3. m <= b /\ m # b
      BY <2>5, <2>7, <3>1, <3>2
    <3> QED BY <2>6, <3>1, <3>3 DEF InOrder
  <2>8. B(ranked[m])
    BY <1>3, <2>5, <2>7
  <2> QED BY <1>3, <1>5, <2>1, <2>5, <2>6, <2>8
<1> QED
  <2>1. B(i) => W(i)
    BY <1>3
  <2>2. Accepts(entries, reasons, i, so) <=> B(i)
    BY <1>3, <1>4, <1>5, <2>1
  <2> QED BY <2>2 DEF B, i

\* So the walk keeps what it has.
LEMMA JudgedKeepsBest ==
    ASSUME NEW entries, NEW reasons, NEW R, NEW ranked, NEW N \in Nat,
           DOMAIN entries = 1..N, Ranks(R, N), InOrder(R, N, ranked),
           NEW n \in 1..N, NEW so, HasBest(entries, ranked, reasons, R, n - 1, so)
    PROVE  HasBest(entries, ranked, reasons, R, n,
                   Judged(entries, ranked[n], reasons[ranked[n]], so))
<1> DEFINE i == ranked[n]
           B(j) == Best(entries, reasons, R, j)
           G(j) == GroupOf(entries[j])
           next == Judged(entries, i, reasons[i], so)
<1>1. i \in 1..N
  BY DEF InOrder
<1>2. /\ next.active = IF B(i) THEN Append(so.active, i) ELSE so.active
      /\ next.groups = IF B(i) /\ G(i) # NoLore THEN so.groups \cup {G(i)} ELSE so.groups
  <2>1. /\ next.active = IF Accepts(entries, reasons, i, so)
                         THEN Append(so.active, i) ELSE so.active
        /\ next.groups = IF Accepts(entries, reasons, i, so) /\ G(i) # NoLore
                         THEN so.groups \cup {G(i)} ELSE so.groups
    BY DEF Judged, Accepts, Wants
  <2>2. Accepts(entries, reasons, i, so) <=> B(i)
    BY AcceptsBest
  <2> HIDE DEF i, B, G, next
  <2> QED BY <2>1, <2>2
<1>3. /\ so.active \in Seq(1..N)
      /\ \A j \in 1..N : (\E k \in DOMAIN so.active : so.active[k] = j)
                           <=> \E m \in 1..n - 1 : ranked[m] = j /\ B(j)
      /\ \A g : g \in so.groups
                  <=> g # NoLore /\ \E m \in 1..n - 1 : B(ranked[m]) /\ G(ranked[m]) = g
  BY DEF HasBest
<1>4. \A m : m \in 1..n <=> m \in 1..n - 1 \/ m = n
  OBVIOUS
<1>5. next.active \in Seq(1..N)
  <2>1. Append(so.active, i) \in Seq(1..N)
    <3> HIDE DEF i
    <3> QED BY <1>1, <1>3
  <2> HIDE DEF i, next, B
  <2> QED BY <1>2, <1>3, <2>1
<1>6. \A j : (\E k \in DOMAIN next.active : next.active[k] = j)
               <=> (\E k \in DOMAIN so.active : so.active[k] = j) \/ (B(i) /\ j = i)
  <2>1. CASE B(i)
    <3> DEFINE s == so.active
    <3>1. /\ next.active = Append(s, i) /\ s \in Seq(1..N)
      BY <1>2, <1>3, <2>1
    <3>2. /\ DOMAIN s = 1..Len(s) /\ Len(s) \in Nat
          /\ DOMAIN Append(s, i) = 1..Len(s) + 1
          /\ \A k \in 1..Len(s) : Append(s, i)[k] = s[k]
          /\ Append(s, i)[Len(s) + 1] = i
      <4> HIDE DEF s, i
      <4> QED BY <1>1, <3>1, AppendProperties, LenProperties
    <3>3. \A k : k \in 1..Len(s) + 1 <=> k \in 1..Len(s) \/ k = Len(s) + 1
      BY <3>2
    <3>4. s = so.active
      OBVIOUS
    <3>5. ASSUME NEW j
          PROVE  (\E k \in DOMAIN next.active : next.active[k] = j)
                   <=> (\E k \in DOMAIN s : s[k] = j) \/ j = i
      <4> DEFINE t == Append(s, i)
                 L == Len(s)
      <4>1. (\E k \in 1..L + 1 : t[k] = j) <=> (\E k \in 1..L : t[k] = j) \/ t[L + 1] = j
        <5> HIDE DEF t, L
        <5> QED BY <3>2, <3>3 DEF L
      <4> QED BY <3>1, <3>2, <4>1
    <3> HIDE DEF s, i, next, B
    <3> QED BY <2>1, <3>4, <3>5
  <2>2. CASE ~B(i)
    BY <1>2, <2>2
  <2> QED BY <2>1, <2>2
<1>7. \A j \in 1..N : (\E k \in DOMAIN next.active : next.active[k] = j)
                        <=> \E m \in 1..n : ranked[m] = j /\ B(j)
  <2>1. SUFFICES ASSUME NEW j \in 1..N
                 PROVE  (\E m \in 1..n - 1 : ranked[m] = j /\ B(j)) \/ (B(i) /\ j = i)
                          <=> \E m \in 1..n : ranked[m] = j /\ B(j)
    <3> HIDE DEF B, next, i
    <3> QED BY <1>3, <1>6
  <2> HIDE DEF B
  <2> QED BY <1>4
<1>8. \A g : g \in next.groups
               <=> g # NoLore /\ \E m \in 1..n : B(ranked[m]) /\ G(ranked[m]) = g
  <2> HIDE DEF B, G, next
  <2> QED BY <1>2, <1>3, <1>4
<1> QED
  <2>1. HasBest(entries, ranked, reasons, R, n, next)
    <3> HIDE DEF next
    <3> QED BY <1>5, <1>7, <1>8 DEF HasBest
  <2> QED BY <2>1

\* What is active are the best entries, no other ones.
TakesBest(entries, reasons, R, active) ==
    /\ active \in Seq(DOMAIN entries)
    /\ \A i \in DOMAIN entries : (\E k \in DOMAIN active : active[k] = i)
                                   <=> Best(entries, reasons, R, i)

\* At its end the walk has taken the best of every group.
LEMMA WalkTakesBest ==
    ASSUME NEW entries, NEW reasons, NEW R, NEW ranked, Len(entries) \in Nat,
           DOMAIN entries = 1..Len(entries), Ranks(R, Len(entries)),
           InOrder(R, Len(entries), ranked)
    PROVE  TakesBest(entries, reasons, R, JudgedInTurn(entries, ranked, reasons).active)
<1> DEFINE N == Len(entries)
<1>1. PICK f : Walk(entries, ranked, reasons, N, f) /\ JudgedInTurn(entries, ranked, reasons) = f[N]
  BY WalkEnds
<1>2. /\ f[0] = Nothing
      /\ \A n \in 1..N : f[n] = Judged(entries, ranked[n], reasons[ranked[n]], f[n - 1])
  BY <1>1 DEF Walk
<1> DEFINE Bad == {n \in 0..N : ~HasBest(entries, ranked, reasons, R, n, f[n])}
<1>3. Bad = {}
  <2>1. SUFFICES ASSUME Bad # {} PROVE FALSE
    OBVIOUS
  <2>2. PICK n \in Bad : \A x \in Bad : n <= x
    <3>1. Bad \subseteq Nat
      OBVIOUS
    <3> HIDE DEF Bad
    <3> QED BY <2>1, <3>1, LeastNumber
  <2>3. n \in 0..N /\ ~HasBest(entries, ranked, reasons, R, n, f[n])
    OBVIOUS
  <2>4. CASE n = 0
    <3>1. HasBest(entries, ranked, reasons, R, 0, Nothing)
      <4>1. Nothing.active = <<>> /\ Nothing.groups = {}
        BY DEF Nothing
      <4>2. \A m : m \notin 1..0
        OBVIOUS
      <4>3. <<>> \in Seq(DOMAIN entries) /\ \A k : k \notin DOMAIN <<>>
        OBVIOUS
      <4> QED BY <4>1, <4>2, <4>3 DEF HasBest
    <3> QED BY <1>2, <2>3, <2>4, <3>1
  <2>5. CASE n # 0
    <3>1. n \in 1..N /\ n - 1 \in 0..N /\ ~(n <= n - 1)
      BY <2>3, <2>5
    <3>2. HasBest(entries, ranked, reasons, R, n - 1, f[n - 1])
      <4>1. n - 1 \notin Bad
        <5> HIDE DEF Bad
        <5> QED BY <2>2, <3>1
      <4> QED BY <3>1, <4>1
    <3>3. HasBest(entries, ranked, reasons, R, n, f[n])
      <4>1. HasBest(entries, ranked, reasons, R, n,
                    Judged(entries, ranked[n], reasons[ranked[n]], f[n - 1]))
        <5> HIDE DEF Bad
        <5> QED BY <3>1, <3>2, JudgedKeepsBest
      <4> QED BY <1>2, <3>1, <4>1
    <3> QED BY <2>3, <3>3
  <2> QED BY <2>4, <2>5
<1>4. HasBest(entries, ranked, reasons, R, N, f[N])
  BY <1>3
<1>5. \A i \in DOMAIN entries : \E m \in 1..N : ranked[m] = i
  <2>1. HoldsAll(R, N, ranked)
    <3> HIDE DEF Bad
    <3> QED BY OrderHoldsAll
  <2> HIDE DEF Bad
  <2> QED BY <2>1 DEF HoldsAll
<1>6. /\ f[N].active \in Seq(DOMAIN entries)
      /\ \A i \in DOMAIN entries :
           (\E k \in DOMAIN f[N].active : f[N].active[k] = i)
             <=> \E m \in 1..N : ranked[m] = i /\ Best(entries, reasons, R, i)
  <2> HIDE DEF Bad
  <2> QED BY <1>4 DEF HasBest
<1>7. \A i \in DOMAIN entries : (\E k \in DOMAIN f[N].active : f[N].active[k] = i)
                                  <=> Best(entries, reasons, R, i)
  <2> HIDE DEF Bad, N
  <2> QED BY <1>5, <1>6
<1> HIDE DEF N, Bad
<1> QED BY <1>1, <1>6, <1>7 DEF TakesBest

-----------------------------------------------------------------------------
(* The rank of entries *)

\* Entries as a book has them, and the places of their ids.
LoreFits(entries, place) ==
    /\ Len(entries) \in Nat
    /\ DOMAIN entries = 1..Len(entries)
    /\ \A i \in DOMAIN entries :
         /\ entries[i].priority \in Int
         /\ entries[i].options # NoLore => entries[i].options.order \in Nat
    /\ place \in [DOMAIN entries -> DOMAIN entries]
    /\ \A i, j \in DOMAIN entries : place[i] = place[j] => i = j

\* The order of the sort key, as a relation.
Rank(entries, place) ==
    {r \in (DOMAIN entries) \X (DOMAIN entries) : RanksBefore(entries, place, r[1], r[2])}

\* What the relation says of two entries.
LEMMA RankIs ==
    ASSUME NEW entries, NEW place, NEW i \in DOMAIN entries, NEW j \in DOMAIN entries
    PROVE  <<i, j>> \in Rank(entries, place) <=> RanksBefore(entries, place, i, j)
BY DEF Rank

\* Priority, order and id put the entries in one order.
LEMMA LoreIsRanked ==
    ASSUME NEW entries, NEW place, LoreFits(entries, place)
    PROVE  Ranks(Rank(entries, place), Len(entries))
<1> DEFINE D == 1..Len(entries)
           before(i, j) == RanksBefore(entries, place, i, j)
<1>1. \A i, j \in D : <<i, j>> \in Rank(entries, place) <=> before(i, j)
  BY RankIs DEF LoreFits
<1>2. CASE ~HasOptions(entries)
  <2>1. \A i, j \in D : before(i, j) <=> i < j
    BY <1>2 DEF RanksBefore
  <2>2. Len(entries) \in Nat
    BY DEF LoreFits
  <2> HIDE DEF before
  <2> QED BY <1>1, <2>1, <2>2 DEF Ranks
<1>3. CASE HasOptions(entries)
  <2> DEFINE p(i) == entries[i].priority
             o(i) == OrderOf(entries[i])
             q(i) == place[i]
  <2>1. \A i \in D : p(i) \in Int /\ o(i) \in Int /\ q(i) \in Int
    BY DEF LoreFits, OrderOf
  <2>2. \A i, j \in D : q(i) = q(j) => i = j
    BY DEF LoreFits
  <2>3. \A i, j \in D : before(i, j) <=> \/ p(i) > p(j)
                                         \/ p(i) = p(j) /\ o(i) < o(j)
                                         \/ p(i) = p(j) /\ o(i) = o(j) /\ q(i) < q(j)
    BY <1>3 DEF RanksBefore
  <2> HIDE DEF before, p, o, q
  <2>4. \A i, j \in D : i # j => before(i, j) \/ before(j, i)
    BY <2>1, <2>2, <2>3
  <2>5. \A i, j \in D : before(i, j) => ~before(j, i)
    BY <2>1, <2>3
  <2>6. \A i, j, k \in D : before(i, j) /\ before(j, k) => before(i, k)
    BY <2>1, <2>3
  <2> HIDE DEF D
  <2>7. /\ \A i, j \in D : i # j => <<i, j>> \in Rank(entries, place) \/ <<j, i>> \in Rank(entries, place)
        /\ \A i, j \in D : <<i, j>> \in Rank(entries, place) => <<j, i>> \notin Rank(entries, place)
        /\ \A i, j, k \in D : <<i, j>> \in Rank(entries, place) /\ <<j, k>> \in Rank(entries, place)
                                => <<i, k>> \in Rank(entries, place)
    BY <1>1, <2>4, <2>5, <2>6
  <2> QED BY <2>7 DEF Ranks, D
<1> QED BY <1>2, <1>3

\* Sorting lists them in this order.
LEMMA RankedInOrder ==
    ASSUME NEW entries, NEW place, LoreFits(entries, place)
    PROVE  InOrder(Rank(entries, place), Len(entries), Ranked(entries, place))
<1> DEFINE D == 1..Len(entries)
           Sorted(q) == \A m, n \in D : m < n => RanksBefore(entries, place, q[m], q[n])
<1>1. DOMAIN entries = D /\ Len(entries) \in Nat
  BY DEF LoreFits
<1>2. \A q \in [D -> D] : Sorted(q) <=> InOrder(Rank(entries, place), Len(entries), q)
  <2>1. ASSUME NEW q \in [D -> D], NEW m \in D, NEW n \in D
        PROVE  RanksBefore(entries, place, q[m], q[n])
                 <=> <<q[m], q[n]>> \in Rank(entries, place)
    <3>1. q[m] \in D /\ q[n] \in D
      OBVIOUS
    <3> QED BY <1>1, <3>1, RankIs
  <2> QED BY <2>1 DEF InOrder
<1>3. \E q \in [D -> D] : Sorted(q)
  <2>1. PICK q : InOrder(Rank(entries, place), Len(entries), q)
    BY <1>1, LoreIsRanked, OrderExists
  <2>2. q \in [D -> D]
    BY <2>1 DEF InOrder
  <2> HIDE DEF D, Sorted
  <2> QED BY <1>2, <2>1, <2>2
<1>4. Ranked(entries, place) = CHOOSE q \in [D -> D] : Sorted(q)
  BY <1>1 DEF Ranked
<1> HIDE DEF Sorted, D
<1> QED BY <1>2, <1>3, <1>4

\* What a run of the selector has when it ends: the places of the best entries.
LEMMA DiagnosisTakesBest ==
    ASSUME NEW entries, NEW place, NEW text, NEW spoken, NEW manual,
           LoreFits(entries, place),
           NEW reasons,
           reasons = [i \in DOMAIN entries |-> Activated(entries[i], i, text, spoken, manual)]
    PROVE  TakesBest(entries, reasons, Rank(entries, place),
                     Diagnosed(entries, place, text, spoken, manual).active)
<1>1. /\ Ranks(Rank(entries, place), Len(entries))
      /\ InOrder(Rank(entries, place), Len(entries), Ranked(entries, place))
      /\ Len(entries) \in Nat /\ DOMAIN entries = 1..Len(entries)
  BY LoreIsRanked, RankedInOrder DEF LoreFits
<1>2. Diagnosed(entries, place, text, spoken, manual)
        = JudgedInTurn(entries, Ranked(entries, place), reasons)
  BY DEF Diagnosed
<1> QED BY <1>1, <1>2, WalkTakesBest

-----------------------------------------------------------------------------
(* What the conversation has *)

\* A message: its speaker and the words in it.
Utterance == [by : {"user", "character"}, words : SUBSET LoreWords]

\* The type invariant of the conversation.
LoreTypeInv ==
    /\ book \in Books
    /\ ids \in PlacesOf(book)
    /\ said \in Seq(Utterance)

\* A published book is one, with the ids its copy got.
LEMMA BookFits == ASSUME LoreTypeInv PROVE LoreFits(book, ids)
BY LoreAssumption DEF LoreTypeInv, PlacesOf, LoreFits

\* The selector uses one entry of every exclusive group, the first of those wanted.
LEMMA GroupsHaveOne == ASSUME LoreTypeInv PROVE OneOfEveryGroup
<1> SUFFICES ASSUME said # <<>>, NEW i \in DOMAIN book
             PROVE  Included(i) <=>
                      /\ Wanted(i)
                      /\ \A j \in DOMAIN book \ {i} :
                           Wanted(j) /\ GroupOf(book[j]) = GroupOf(book[i])
                             /\ GroupOf(book[i]) # NoLore => RanksBefore(book, ids, i, j)
  BY DEF OneOfEveryGroup
<1> DEFINE text == said[Len(said)].words
           spoken == LastOf(said, RecentLimit)
           reasons == [j \in DOMAIN book |-> Activated(book[j], j, text, spoken, picked)]
<1>1. LoreFits(book, ids)
  BY BookFits
<1>2. Included(i) <=> Best(book, reasons, Rank(book, ids), i)
  <2> HIDE DEF text, spoken
  <2>1. Included(i) <=> \E k \in DOMAIN Diagnosed(book, ids, text, spoken, picked).active :
                           Diagnosed(book, ids, text, spoken, picked).active[k] = i
    BY DEF Included, ActiveLore, text, spoken
  <2>2. /\ reasons = [j \in DOMAIN book |-> Activated(book[j], j, text, spoken, picked)]
    OBVIOUS
  <2> HIDE DEF reasons
  <2>3. TakesBest(book, reasons, Rank(book, ids),
                  Diagnosed(book, ids, text, spoken, picked).active)
    BY <1>1, <2>2, DiagnosisTakesBest
  <2> QED BY <2>1, <2>3 DEF TakesBest
<1>3. \A j \in DOMAIN book : Wants(book, reasons, j) <=> Wanted(j)
  BY DEF Wants, Wanted
<1> HIDE DEF reasons
<1>4. \A j \in DOMAIN book : <<i, j>> \in Rank(book, ids) <=> RanksBefore(book, ids, i, j)
  BY RankIs
<1> QED BY <1>2, <1>3, <1>4 DEF Best

-----------------------------------------------------------------------------
(* Old messages *)

\* The last of the last messages.
LEMMA LastOfIs ==
    ASSUME NEW S, NEW spoken \in Seq(S), NEW n \in Nat
    PROVE  /\ LastOf(spoken, n) \in Seq(S)
           /\ Len(LastOf(spoken, n)) = IF Len(spoken) > n THEN n ELSE Len(spoken)
           /\ \A i \in 1..Len(LastOf(spoken, n)) :
                LastOf(spoken, n)[i]
                  = spoken[i + (IF Len(spoken) > n THEN Len(spoken) - n ELSE 0)]
<1> DEFINE L == Len(spoken)
           a == IF L > n THEN L - n + 1 ELSE 1
           s == SubSeq(spoken, a, L)
<1>1. L \in Nat /\ a \in 1..L + 1
  BY LenProperties
<1>2. LastOf(spoken, n) = s
  BY DEF LastOf
<1>3. /\ s \in Seq(S)
      /\ Len(s) = IF a <= L THEN L - a + 1 ELSE 0
      /\ \A i \in 1..L - a + 1 : s[i] = spoken[a + i - 1]
  <2> HIDE DEF L, a
  <2> QED BY <1>1, SubSeqProperties DEF L
<1>4. Len(s) = IF L > n THEN n ELSE L
  <2> HIDE DEF s, L
  <2> QED BY <1>1, <1>3
<1>5. \A i \in 1..Len(s) : s[i] = spoken[i + (IF L > n THEN L - n ELSE 0)]
  <2>1. L - a + 1 = Len(s)
    <3> HIDE DEF s, L
    <3> QED BY <1>1, <1>4
  <2>2. \A i \in 1..Len(s) : a + i - 1 = i + (IF L > n THEN L - n ELSE 0)
    <3> HIDE DEF s, L
    <3> QED BY <1>1
  <2> HIDE DEF s, L, a
  <2> QED BY <1>3, <2>1, <2>2
<1> HIDE DEF s, a
<1> QED BY <1>2, <1>3, <1>4, <1>5

\* Fewer of them are the last of the messages themselves.
LEMMA LastOfLast ==
    ASSUME NEW S, NEW spoken \in Seq(S), NEW n \in Nat, NEW d \in 0..n
    PROVE  LastOf(LastOf(spoken, n), d) = LastOf(spoken, d)
<1> DEFINE t == LastOf(spoken, n)
           u == LastOf(t, d)
           v == LastOf(spoken, d)
           L == Len(spoken)
<1>1. L \in Nat /\ d \in Nat /\ d <= n
  BY LenProperties
<1>2. /\ t \in Seq(S)
      /\ Len(t) = IF L > n THEN n ELSE L
      /\ \A i \in 1..Len(t) : t[i] = spoken[i + (IF L > n THEN L - n ELSE 0)]
  BY LastOfIs
<1>3. /\ v \in Seq(S)
      /\ Len(v) = IF L > d THEN d ELSE L
      /\ \A i \in 1..Len(v) : v[i] = spoken[i + (IF L > d THEN L - d ELSE 0)]
  BY <1>1, LastOfIs
<1> HIDE DEF t, v, L
<1>4. /\ u \in Seq(S)
      /\ Len(u) = IF Len(t) > d THEN d ELSE Len(t)
      /\ \A i \in 1..Len(u) : u[i] = t[i + (IF Len(t) > d THEN Len(t) - d ELSE 0)]
  BY <1>1, <1>2, LastOfIs
<1> HIDE DEF u
<1>5. Len(u) = Len(v)
  BY <1>1, <1>2, <1>3, <1>4
<1>6. ASSUME NEW i \in 1..Len(u) PROVE u[i] = v[i]
  <2> DEFINE b == i + (IF Len(t) > d THEN Len(t) - d ELSE 0)
  <2>1. b \in 1..Len(t)
    BY <1>1, <1>2, <1>4
  <2>2. b + (IF L > n THEN L - n ELSE 0) = i + (IF L > d THEN L - d ELSE 0)
    BY <1>1, <1>2, <1>4
  <2>3. u[i] = t[b]
    BY <1>4
  <2>4. t[b] = spoken[b + (IF L > n THEN L - n ELSE 0)]
    <3> HIDE DEF b
    <3> QED BY <1>2, <2>1
  <2>5. v[i] = spoken[i + (IF L > d THEN L - d ELSE 0)]
    BY <1>3, <1>5
  <2> QED BY <2>2, <2>3, <2>4, <2>5
<1>7. u = v
  BY <1>3, <1>4, <1>5, <1>6, SeqEqual
<1> QED BY <1>7 DEF u, v, t

\* An entry looks no further back than the messages an answer reads.
LEMMA HistoryForRecent ==
    ASSUME LoreTypeInv, NEW i \in DOMAIN book, NEW text
    PROVE  HistoryFor(book[i], text, LastOf(said, RecentLimit)) = HistoryFor(book[i], text, said)
<1>1. CASE book[i].options = NoLore
  BY <1>1 DEF HistoryFor
<1>2. CASE book[i].options # NoLore
  <2> DEFINE d == book[i].options.depth
             recent == LastOf(said, RecentLimit)
             alone == IF text = {} THEN <<>> ELSE <<[by |-> "user", words |-> text]>>
  <2>1. RecentLimit \in Nat /\ RecentLimit > 0 /\ d \in 0..RecentLimit /\ said \in Seq(Utterance)
    BY <1>2, LoreAssumption DEF LoreTypeInv
  <2>2. recent = <<>> <=> said = <<>>
    <3>1. /\ recent \in Seq(Utterance) /\ Len(said) \in Nat
          /\ Len(recent) = IF Len(said) > RecentLimit THEN RecentLimit ELSE Len(said)
      BY <2>1, LastOfIs, LenProperties
    <3>2. Len(recent) = 0 <=> Len(said) = 0
      <4> HIDE DEF recent
      <4> QED BY <2>1, <3>1
    <3> HIDE DEF recent
    <3> QED BY <2>1, <3>1, <3>2, EmptySeq
  <2>3. LastOf(recent, d) = LastOf(said, d)
    <3> HIDE DEF d
    <3> QED BY <2>1, LastOfLast
  <2>4. Scanned(book[i], recent) = Scanned(book[i], said)
    <3> HIDE DEF recent
    <3> QED BY <2>3 DEF Scanned
  <2> HIDE DEF recent
  <2>5. HistoryFor(book[i], text, recent) = HistoryFor(book[i], text, said)
    BY <1>2, <2>2, <2>4 DEF HistoryFor
  <2> QED BY <2>5 DEF recent
<1> QED BY <1>1, <1>2

\* So that what was said before them changes no reason.
LEMMA OldMessagesLeaveNoTrace == ASSUME LoreTypeInv PROVE OldMessagesDoNotMatter
<1> DEFINE text == said[Len(said)].words
           recent == LastOf(said, RecentLimit)
<1>1. ASSUME NEW i \in DOMAIN book
      PROVE  Activated(book[i], i, text, recent, picked) = Activated(book[i], i, text, said, picked)
  <2>1. HistoryFor(book[i], text, recent) = HistoryFor(book[i], text, said)
    BY HistoryForRecent
  <2> HIDE DEF recent, text
  <2> QED BY <2>1 DEF Activated
<1>2. [i \in DOMAIN book |-> Activated(book[i], i, text, recent, picked)]
        = [i \in DOMAIN book |-> Activated(book[i], i, text, said, picked)]
  <2> HIDE DEF recent, text
  <2> QED BY <1>1
<1>3. ActiveLore = Diagnosed(book, ids, text, said, picked)
  <2>1. ActiveLore = Diagnosed(book, ids, text, recent, picked)
    BY DEF ActiveLore
  <2> HIDE DEF recent, text
  <2> QED BY <1>2, <2>1 DEF Diagnosed
<1> QED BY <1>3 DEF OldMessagesDoNotMatter

-----------------------------------------------------------------------------
(* Other storage *)

\* b chose what a chose, under the other names the places have there.
Mirrors(D, turned, a, b) ==
    /\ a.active \in Seq(D)
    /\ b.active \in Seq(D)
    /\ Len(b.active) = Len(a.active)
    /\ \A k \in 1..Len(a.active) : b.active[k] = turned[a.active[k]]
    /\ b.groups = a.groups

\* It stays so when both judge the same entry.
LEMMA JudgedMirrors ==
    ASSUME NEW D, NEW turned, NEW a, NEW b, Mirrors(D, turned, a, b),
           NEW entries, NEW reasons, NEW i \in D,
           NEW others, NEW otherReasons, NEW j \in D,
           i = turned[j], others[j] = entries[i], otherReasons[j] = reasons[i]
    PROVE  Mirrors(D, turned, Judged(others, j, otherReasons[j], a),
                   Judged(entries, i, reasons[i], b))
<1> DEFINE a1 == Judged(others, j, otherReasons[j], a)
           b1 == Judged(entries, i, reasons[i], b)
           A == Accepts(entries, reasons, i, b)
           g == GroupOf(entries[i])
<1>1. /\ b1.active = IF A THEN Append(b.active, i) ELSE b.active
      /\ b1.groups = IF A /\ g # NoLore THEN b.groups \cup {g} ELSE b.groups
  BY DEF Judged, Accepts, Wants
<1>2. /\ a1.active = IF A THEN Append(a.active, j) ELSE a.active
      /\ a1.groups = IF A /\ g # NoLore THEN a.groups \cup {g} ELSE a.groups
  <2>1. /\ a1.active = IF Accepts(others, otherReasons, j, a) THEN Append(a.active, j) ELSE a.active
        /\ a1.groups = IF Accepts(others, otherReasons, j, a) /\ GroupOf(others[j]) # NoLore
                       THEN a.groups \cup {GroupOf(others[j])} ELSE a.groups
    BY DEF Judged, Accepts, Wants
  <2>2. Accepts(others, otherReasons, j, a) <=> A
    BY DEF Accepts, Wants, Mirrors
  <2>3. GroupOf(others[j]) = g
    OBVIOUS
  <2> HIDE DEF A, g, a1
  <2> QED BY <2>1, <2>2, <2>3
<1> HIDE DEF a1, b1, A, g
<1>3. CASE A
  <2> DEFINE s == a.active
             t == b.active
  <2>1. /\ s \in Seq(D) /\ t \in Seq(D) /\ Len(t) = Len(s) /\ Len(s) \in Nat
        /\ \A k \in 1..Len(s) : t[k] = turned[s[k]]
        /\ b.groups = a.groups
    BY LenProperties DEF Mirrors
  <2>2. /\ a1.active = Append(s, j) /\ b1.active = Append(t, i) /\ a1.groups = b1.groups
    BY <1>1, <1>2, <1>3, <2>1
  <2> HIDE DEF s, t
  <2>3. /\ Append(s, j) \in Seq(D) /\ Len(Append(s, j)) = Len(s) + 1
        /\ \A k \in 1..Len(s) : Append(s, j)[k] = s[k]
        /\ Append(s, j)[Len(s) + 1] = j
    BY <2>1, AppendProperties
  <2>4. /\ Append(t, i) \in Seq(D) /\ Len(Append(t, i)) = Len(s) + 1
        /\ \A k \in 1..Len(s) : Append(t, i)[k] = t[k]
        /\ Append(t, i)[Len(s) + 1] = i
    BY <2>1, AppendProperties
  <2>5. \A k \in 1..Len(s) + 1 : k \in 1..Len(s) \/ k = Len(s) + 1
    BY <2>1
  <2>6. \A k \in 1..Len(s) + 1 : Append(t, i)[k] = turned[Append(s, j)[k]]
    BY <2>1, <2>3, <2>4, <2>5
  <2> QED BY <2>2, <2>3, <2>4, <2>6 DEF Mirrors, a1, b1
<1>4. CASE ~A
  <2>1. /\ a1.active = a.active /\ b1.active = b.active
        /\ a1.groups = a.groups /\ b1.groups = b.groups
    BY <1>1, <1>2, <1>4
  <2>2. Mirrors(D, turned, a1, b1)
    BY <2>1 DEF Mirrors
  <2> QED BY <2>2 DEF a1, b1
<1> QED BY <1>3, <1>4

\* Two walks that meet the same entries at every turn choose the same.
LEMMA WalksMirror ==
    ASSUME NEW entries, NEW reasons, NEW ranked, NEW others, NEW otherReasons, NEW otherRanked,
           Len(entries) \in Nat, Len(others) = Len(entries), NEW D, NEW turned,
           \A n \in 1..Len(entries) :
              /\ ranked[n] \in D /\ otherRanked[n] \in D
              /\ ranked[n] = turned[otherRanked[n]]
              /\ others[otherRanked[n]] = entries[ranked[n]]
              /\ otherReasons[otherRanked[n]] = reasons[ranked[n]]
    PROVE  Mirrors(D, turned, JudgedInTurn(others, otherRanked, otherReasons),
                   JudgedInTurn(entries, ranked, reasons))
<1> DEFINE N == Len(entries)
<1>1. PICK f : Walk(entries, ranked, reasons, N, f) /\ JudgedInTurn(entries, ranked, reasons) = f[N]
  BY WalkEnds
<1>2. PICK g : /\ Walk(others, otherRanked, otherReasons, N, g)
               /\ JudgedInTurn(others, otherRanked, otherReasons) = g[N]
  <2>1. \E g : /\ Walk(others, otherRanked, otherReasons, Len(others), g)
               /\ JudgedInTurn(others, otherRanked, otherReasons) = g[Len(others)]
    BY WalkEnds
  <2> QED BY <2>1
<1>3. /\ f[0] = Nothing /\ g[0] = Nothing
      /\ \A n \in 1..N : f[n] = Judged(entries, ranked[n], reasons[ranked[n]], f[n - 1])
      /\ \A n \in 1..N : g[n] = Judged(others, otherRanked[n], otherReasons[otherRanked[n]], g[n - 1])
  <2> HIDE DEF N
  <2>1. f[0] = Nothing
        /\ \A n \in 1..N : f[n] = Judged(entries, ranked[n], reasons[ranked[n]], f[n - 1])
    BY <1>1 DEF Walk, N
  <2>2. g[0] = Nothing
        /\ \A n \in 1..N : g[n] = Judged(others, otherRanked[n], otherReasons[otherRanked[n]], g[n - 1])
    BY <1>2 DEF Walk, N
  <2> QED BY <2>1, <2>2
<1> DEFINE Bad == {n \in 0..N : ~Mirrors(D, turned, g[n], f[n])}
<1>4. Bad = {}
  <2>1. SUFFICES ASSUME Bad # {} PROVE FALSE
    OBVIOUS
  <2>2. PICK n \in Bad : \A x \in Bad : n <= x
    <3>1. Bad \subseteq Nat
      OBVIOUS
    <3> HIDE DEF Bad
    <3> QED BY <2>1, <3>1, LeastNumber
  <2>3. n \in 0..N /\ ~Mirrors(D, turned, g[n], f[n])
    OBVIOUS
  <2>4. CASE n = 0
    <3>1. Mirrors(D, turned, Nothing, Nothing)
      <4>1. Nothing.active = <<>>
        BY DEF Nothing
      <4>2. <<>> \in Seq(D) /\ Len(<<>>) = 0
        OBVIOUS
      <4> QED BY <4>1, <4>2 DEF Mirrors
    <3> QED BY <1>3, <2>3, <2>4, <3>1
  <2>5. CASE n # 0
    <3>1. n \in 1..N /\ n - 1 \in 0..N /\ ~(n <= n - 1)
      BY <2>3, <2>5
    <3>2. Mirrors(D, turned, g[n - 1], f[n - 1])
      <4>1. n - 1 \notin Bad
        <5> HIDE DEF Bad
        <5> QED BY <2>2, <3>1
      <4> QED BY <3>1, <4>1
    <3>3. Mirrors(D, turned, g[n], f[n])
      <4> DEFINE i == ranked[n]
                 j == otherRanked[n]
      <4>1. /\ i \in D /\ j \in D /\ i = turned[j] /\ others[j] = entries[i]
            /\ otherReasons[j] = reasons[i]
        BY <3>1
      <4>2. /\ f[n] = Judged(entries, i, reasons[i], f[n - 1])
            /\ g[n] = Judged(others, j, otherReasons[j], g[n - 1])
        BY <1>3, <3>1
      <4>3. Mirrors(D, turned, Judged(others, j, otherReasons[j], g[n - 1]),
                    Judged(entries, i, reasons[i], f[n - 1]))
        <5> HIDE DEF i, j, Bad
        <5> QED BY <3>2, <4>1, JudgedMirrors
      <4> QED BY <4>2, <4>3
    <3> QED BY <2>3, <3>3
  <2> QED BY <2>4, <2>5
<1>5. Mirrors(D, turned, g[N], f[N])
  BY <1>4
<1> QED BY <1>1, <1>2, <1>5

\* The reversed copy of a book with options is chosen from alike: its entries are ranked
\* in the same order, which is the only one, and met with the same reasons.
LEMMA StorageLeavesNoTrace == ASSUME LoreTypeInv PROVE SelectionIgnoresStorage
<1> SUFFICES ASSUME HasOptions(book) PROVE SelectionIgnoresStorage
  BY DEF SelectionIgnoresStorage
<1> DEFINE N == Len(book)
           D == DOMAIN book
           turned == [i \in D |-> Len(book) + 1 - i]
           others == [i \in D |-> book[turned[i]]]
           places == [i \in D |-> ids[turned[i]]]
           text == said[Len(said)].words
           recent == LastOf(said, RecentLimit)
           manual == {turned[i] : i \in picked \cap D}
           reasons == [i \in D |-> Activated(book[i], i, text, recent, picked)]
           otherReasons == [i \in DOMAIN others |-> Activated(others[i], i, text, recent, manual)]
           ranked == Ranked(book, ids)
           otherRanked == Ranked(others, places)
           lore == Diagnosed(book, ids, text, recent, picked)
           other == Diagnosed(others, places, text, recent, manual)
<1> HIDE DEF text, recent
<1>1. LoreFits(book, ids) /\ N \in Nat /\ D = 1..N
  BY BookFits DEF LoreFits
<1>2. \A i \in D : turned[i] \in D /\ turned[turned[i]] = i
  BY <1>1
<1>3. /\ DOMAIN others = D /\ DOMAIN places = D
      /\ \A i \in D : others[i] = book[turned[i]] /\ places[i] = ids[turned[i]]
  OBVIOUS
<1>4. Len(others) = N
  <2>1. others \in Seq({book[i] : i \in D})
    <3>1. \A i \in D : others[i] \in {book[k] : k \in D}
      BY <1>2, <1>3
    <3>2. others \in [1..N -> {book[k] : k \in D}]
      <4>1. others = [i \in D |-> others[i]]
        OBVIOUS
      <4> HIDE DEF others, D, turned
      <4> QED BY <1>1, <3>1, <4>1
    <3> HIDE DEF others, D, turned
    <3> QED BY <1>1, <3>2, SeqDef
  <2>2. Len(others) \in Nat /\ DOMAIN others = 1..Len(others)
    <3> HIDE DEF others
    <3> QED BY <2>1, LenProperties
  <2> HIDE DEF others
  <2> QED BY <1>1, <1>3, <2>2
<1>5. \A i \in D : i \in manual <=> turned[i] \in picked
  BY <1>2
<1> HIDE DEF turned, manual
<1>6. \A i \in D : otherReasons[i] = reasons[turned[i]]
  <2>1. ASSUME NEW i \in D
        PROVE  Activated(others[i], i, text, recent, manual)
                 = Activated(book[turned[i]], turned[i], text, recent, picked)
    <3>1. others[i] = book[turned[i]] /\ (i \in manual <=> turned[i] \in picked)
      BY <1>3, <1>5
    <3> HIDE DEF others, D
    <3> QED BY <3>1 DEF Activated
  <2>2. \A i \in D : otherReasons[i] = Activated(others[i], i, text, recent, manual)
    BY <1>3
  <2>3. \A i \in D : reasons[i] = Activated(book[i], i, text, recent, picked)
    OBVIOUS
  <2> HIDE DEF others, D, otherReasons, reasons
  <2> QED BY <1>2, <2>1, <2>2, <2>3
<1>7. \A i, j \in D : RanksBefore(others, places, i, j) <=> RanksBefore(book, ids, turned[i], turned[j])
  <2>1. HasOptions(others)
    <3>1. PICK i \in D : book[i].options # NoLore
      BY DEF HasOptions
    <3>2. turned[i] \in D /\ others[turned[i]] = book[i]
      BY <1>2, <1>3
    <3> HIDE DEF others, D
    <3> QED BY <1>3, <3>1, <3>2 DEF HasOptions
  <2>2. ASSUME NEW i \in D, NEW j \in D
        PROVE  RanksBefore(others, places, i, j) <=> RanksBefore(book, ids, turned[i], turned[j])
    <3>1. /\ others[i] = book[turned[i]] /\ others[j] = book[turned[j]]
          /\ places[i] = ids[turned[i]] /\ places[j] = ids[turned[j]]
      BY <1>3
    <3> HIDE DEF others, places, D
    <3> QED BY <2>1, <3>1 DEF RanksBefore
  <2> QED BY <2>2
<1>8. LoreFits(others, places)
  <2>1. /\ \A i \in D : /\ book[i].priority \in Int
                        /\ book[i].options # NoLore => book[i].options.order \in Nat
        /\ ids \in [D -> D] /\ \A i, j \in D : ids[i] = ids[j] => i = j
    BY <1>1 DEF LoreFits
  <2>2. \A i \in D : /\ others[i].priority \in Int
                     /\ others[i].options # NoLore => others[i].options.order \in Nat
    <3> HIDE DEF others, D
    <3> QED BY <1>2, <1>3, <2>1
  <2>3. places \in [D -> D]
    BY <1>2, <2>1
  <2>4. \A i, j \in D : places[i] = places[j] => i = j
    <3> HIDE DEF places, D
    <3> QED BY <1>2, <1>3, <2>1
  <2> HIDE DEF others, places
  <2> QED BY <1>1, <1>3, <1>4, <2>2, <2>3, <2>4 DEF LoreFits
<1> DEFINE R == Rank(book, ids)
           p == [n \in D |-> turned[otherRanked[n]]]
<1>9. /\ Ranks(R, N) /\ InOrder(R, N, ranked)
      /\ InOrder(Rank(others, places), N, otherRanked)
  BY <1>1, <1>4, <1>8, LoreIsRanked, RankedInOrder
<1>10. otherRanked \in [D -> D] /\ ranked \in [D -> D]
  BY <1>1, <1>9 DEF InOrder
<1>11. InOrder(R, N, p)
  <2>1. \A n \in D : p[n] \in D /\ p[n] = turned[otherRanked[n]]
    BY <1>2, <1>10
  <2>2. p \in [D -> D]
    <3>1. p = [n \in D |-> p[n]]
      OBVIOUS
    <3> HIDE DEF p
    <3> QED BY <2>1, <3>1
  <2>3. ASSUME NEW m \in D, NEW n \in D, m < n PROVE <<p[m], p[n]>> \in R
    <3>1. <<otherRanked[m], otherRanked[n]>> \in Rank(others, places)
      BY <1>1, <1>9, <2>3 DEF InOrder
    <3>2. RanksBefore(others, places, otherRanked[m], otherRanked[n])
      BY <3>1 DEF Rank
    <3>3. RanksBefore(book, ids, p[m], p[n])
      <4> HIDE DEF others, places, otherRanked, p
      <4> QED BY <1>7, <1>10, <2>1, <3>2
    <3> HIDE DEF p
    <3> QED BY <2>1, <3>3, RankIs
  <2> HIDE DEF p, R
  <2> QED BY <1>1, <2>2, <2>3 DEF InOrder
<1>12. p = ranked
  <2> HIDE DEF p, R, ranked
  <2> QED BY <1>1, <1>9, <1>11, OneOrder
<1>13. \A n \in 1..N : /\ ranked[n] \in D /\ otherRanked[n] \in D
                       /\ ranked[n] = turned[otherRanked[n]]
                       /\ others[otherRanked[n]] = book[ranked[n]]
                       /\ otherReasons[otherRanked[n]] = reasons[ranked[n]]
  <2>1. \A n \in D : p[n] = turned[otherRanked[n]]
    OBVIOUS
  <2> HIDE DEF p, ranked, otherRanked, others, D, reasons, otherReasons
  <2> QED BY <1>1, <1>3, <1>6, <1>10, <1>12, <2>1
<1>14. /\ lore = JudgedInTurn(book, ranked, reasons)
       /\ other = JudgedInTurn(others, otherRanked, otherReasons)
  BY DEF Diagnosed
<1>15. Mirrors(D, turned, other, lore)
  <2>1. Mirrors(D, turned, JudgedInTurn(others, otherRanked, otherReasons),
                JudgedInTurn(book, ranked, reasons))
    <3> HIDE DEF ranked, otherRanked, others, D, reasons, otherReasons
    <3> QED BY <1>1, <1>4, <1>13, WalksMirror
  <2> HIDE DEF lore, other
  <2> QED BY <1>14, <2>1
<1>16. [n \in DOMAIN other.active |-> turned[other.active[n]]] = lore.active
  <2> HIDE DEF lore, other, D
  <2>1. /\ DOMAIN other.active = 1..Len(other.active)
        /\ lore.active \in Seq(D) /\ DOMAIN lore.active = 1..Len(other.active)
        /\ \A k \in 1..Len(other.active) : lore.active[k] = turned[other.active[k]]
    BY <1>15, LenProperties DEF Mirrors
  <2>2. lore.active = [k \in DOMAIN lore.active |-> lore.active[k]]
    BY <2>1
  <2> QED BY <2>1, <2>2
<1>17. ActiveLore = lore
  BY DEF ActiveLore, text, recent
<1> QED
  <2> HIDE DEF lore
  <2>1. [n \in DOMAIN other.active |-> turned[other.active[n]]] = ActiveLore.active
    BY <1>16, <1>17
  <2> QED BY <2>1 DEF SelectionIgnoresStorage, turned, manual, text, recent

-----------------------------------------------------------------------------
(* The prompt *)

\* Lines of a prompt.
Lines == [is : {"rules", "references", "opening", "before", "after", "said"}, of : SUBSET Nat]

\* The lines of a prompt, one by one: b and a tell whether lore stands before and after
\* the history, of which h messages stand before the input.
LineAt(n, plain, before, b, first, h, after, a, input) ==
    IF n = 1 THEN [is |-> "rules", of |-> {}]
    ELSE IF n = 2 THEN [is |-> "references", of |-> plain]
    ELSE IF n = 3 THEN [is |-> "opening", of |-> {}]
    ELSE IF n <= 3 + b THEN [is |-> "before", of |-> before]
    ELSE IF n <= 3 + b + h THEN Line(first + n - 4 - b)
    ELSE IF n <= 3 + b + h + a THEN [is |-> "after", of |-> after]
    ELSE Line(input)

\* A block is one line, or none when it has no lore.
LEMMA BlockIs ==
    ASSUME NEW is \in {"before", "after"}, NEW lore \in SUBSET Nat
    PROVE  \E b \in 0..1 : /\ Block(is, lore) \in Seq(Lines) /\ Len(Block(is, lore)) = b
                           /\ b = 0 <=> lore = {}
                           /\ b = 1 => Block(is, lore)[1] = [is |-> is, of |-> lore]
<1>1. CASE lore = {}
  <2>1. Block(is, lore) = <<>>
    BY <1>1 DEF Block
  <2>2. <<>> \in Seq(Lines) /\ Len(<<>>) = 0
    OBVIOUS
  <2>3. /\ Block(is, lore) \in Seq(Lines) /\ Len(Block(is, lore)) = 0
        /\ 0 = 0 <=> lore = {}
        /\ 0 = 1 => Block(is, lore)[1] = [is |-> is, of |-> lore]
    <3>1. Block(is, lore) \in Seq(Lines) /\ Len(Block(is, lore)) = 0
      BY <2>1, <2>2
    <3> QED BY <1>1, <3>1
  <2>4. 0 \in 0..1
    OBVIOUS
  <2> QED BY <2>3, <2>4
<1>2. CASE lore # {}
  <2> DEFINE e == [is |-> is, of |-> lore]
  <2>1. Block(is, lore) = <<e>>
    BY <1>2 DEF Block
  <2>2. e \in Lines
    BY DEF Lines
  <2> HIDE DEF e
  <2>3. <<e>> \in Seq(Lines) /\ Len(<<e>>) = 1 /\ <<e>>[1] = e
    BY <2>2
  <2> QED BY <1>2, <2>1, <2>3 DEF e
<1> QED BY <1>1, <1>2

\* A function on the numbers up to n is a sequence.
LEMMA FunctionIsSeq ==
    ASSUME NEW S, NEW n \in Nat, NEW f \in [1..n -> S]
    PROVE  f \in Seq(S) /\ Len(f) = n
<1>1. f \in Seq(S)
  BY SeqDef
<1>2. Len(f) \in Nat /\ DOMAIN f = 1..Len(f)
  BY <1>1, LenProperties
<1> QED BY <1>1, <1>2

\* The messages that were read end with the input, which is said at the end.
LEMMA HistoryLinesAre ==
    ASSUME LoreTypeInv, NEW first \in DOMAIN said, NEW recent,
           recent = [i \in 1..(Len(said) - first + 1) |-> first + i - 1]
    PROVE  /\ HistoryLines(recent) \in Seq(Lines)
           /\ Len(HistoryLines(recent)) = Len(said) - first
           /\ \A i \in 1..Len(said) - first : HistoryLines(recent)[i] = Line(first + i - 1)
<1> DEFINE L == Len(said)
           N == L - first + 1
           lines == [i \in 1..L - first |-> Line(recent[i])]
<1>1. L \in Nat /\ first \in 1..L /\ N \in Nat /\ N > 0
  BY LenProperties DEF LoreTypeInv
<1> HIDE DEF L
<1>2. recent \in [1..N -> Nat] /\ \A i \in 1..N : recent[i] = first + i - 1
  BY <1>1 DEF L
<1>3. recent \in Seq(Nat) /\ Len(recent) = N
  <2> HIDE DEF N
  <2> QED BY <1>1, <1>2, FunctionIsSeq
<1>4. recent # <<>> /\ recent[Len(recent)] = L
  <2>1. recent[N] = L
    BY <1>1, <1>2
  <2>2. Len(recent) # 0 => recent # <<>>
    OBVIOUS
  <2> HIDE DEF N
  <2>3. recent # <<>>
    BY <1>1, <1>3, <2>2
  <2> QED BY <1>3, <2>1, <2>3
<1>5. HistoryLines(recent) = lines
  <2>1. Len(recent) - 1 = L - first
    BY <1>1, <1>3
  <2> HIDE DEF N
  <2> QED BY <1>4, <2>1 DEF HistoryLines, L
<1>6. \A i \in 1..L - first : lines[i] = Line(first + i - 1) /\ Line(first + i - 1) \in Lines
  <2>1. ASSUME NEW i \in 1..L - first
        PROVE  recent[i] = first + i - 1 /\ Line(first + i - 1) \in Lines
    <3>1. i \in 1..N /\ first + i - 1 \in Nat
      BY <1>1
    <3>2. \A x \in Nat : Line(x) \in Lines
      BY DEF Line, Lines
    <3> QED BY <1>2, <3>1, <3>2
  <2> QED BY <2>1
<1>7. lines \in [1..L - first -> Lines]
  <2>1. lines = [i \in 1..L - first |-> lines[i]]
    OBVIOUS
  <2> HIDE DEF lines
  <2> QED BY <1>6, <2>1
<1>8. lines \in Seq(Lines) /\ Len(lines) = L - first
  <2>1. L - first \in Nat
    BY <1>1
  <2> HIDE DEF lines
  <2> QED BY <1>7, <2>1, FunctionIsSeq
<1> QED BY <1>5, <1>6, <1>8 DEF L

\* r is q after p.
Joined(p, q, r) ==
    /\ r \in Seq(Lines)
    /\ Len(r) = Len(p) + Len(q)
    /\ \A n \in 1..Len(p) : r[n] = p[n]
    /\ \A n \in Len(p) + 1 .. Len(p) + Len(q) : r[n] = q[n - Len(p)]

\* The parts of a prompt come one after the other.
LEMMA PartsJoin ==
    ASSUME NEW p \in Seq(Lines), NEW q \in Seq(Lines)
    PROVE  Joined(p, q, p \o q)
<1>1. Len(p) \in Nat /\ Len(q) \in Nat
  BY LenProperties
<1>2. /\ p \o q \in Seq(Lines)
      /\ Len(p \o q) = Len(p) + Len(q)
      /\ \A i \in 1..Len(p) + Len(q) : (p \o q)[i] = IF i <= Len(p) THEN p[i] ELSE q[i - Len(p)]
  BY ConcatProperties
<1> QED BY <1>1, <1>2 DEF Joined

\* What is rendered, line by line.
IsPrompt(lines, plain, before, b, first, h, after, a, input) ==
    /\ DOMAIN lines = 1..3 + b + h + a + 1
    /\ Len(lines) = 3 + b + h + a + 1
    /\ \A n \in DOMAIN lines : lines[n] = LineAt(n, plain, before, b, first, h, after, a, input)

\* Line n is that of the message at place n - (3 + b) of the history.
OldPlace(b, h, first, n) ==
    n - (3 + b) \in 1..h /\ first + (n - (3 + b)) - 1 = first + n - 4 - b

\* The places of the history among the lines.
LEMMA OldPlaces ==
    ASSUME NEW b \in 0..1, NEW h \in Nat, NEW first \in Nat, NEW n \in 3 + b + 1 .. 3 + b + h
    PROVE  OldPlace(b, h, first, n)
BY DEF OldPlace

\* The five parts that build_prompt appends are such lines.
LEMMA JoinedLines ==
    ASSUME NEW plain \in SUBSET Nat, NEW before, NEW after,
           NEW b \in 0..1, NEW a \in 0..1, NEW first \in Nat, first > 0, NEW h \in Nat,
           NEW input \in Nat,
           NEW B \in Seq(Lines), Len(B) = b, b = 1 => B[1] = [is |-> "before", of |-> before],
           NEW A \in Seq(Lines), Len(A) = a, a = 1 => A[1] = [is |-> "after", of |-> after],
           NEW H \in Seq(Lines), Len(H) = h, \A i \in 1..h : H[i] = Line(first + i - 1)
    PROVE  IsPrompt(<<[is |-> "rules", of |-> {}], [is |-> "references", of |-> plain],
                      [is |-> "opening", of |-> {}]>> \o B \o H \o A \o <<Line(input)>>,
                    plain, before, b, first, h, after, a, input)
<1> DEFINE at(n) == LineAt(n, plain, before, b, first, h, after, a, input)
           P == <<[is |-> "rules", of |-> {}], [is |-> "references", of |-> plain],
                  [is |-> "opening", of |-> {}]>>
           I == <<Line(input)>>
<1>1. P \in Seq(Lines) /\ Len(P) = 3 /\ \A n \in 1..3 : P[n] = at(n)
  <2>1. P \in Seq(Lines)
    BY DEF Lines
  <2>2. /\ Len(P) = 3
        /\ P[1] = [is |-> "rules", of |-> {}]
        /\ P[2] = [is |-> "references", of |-> plain]
        /\ P[3] = [is |-> "opening", of |-> {}]
    OBVIOUS
  <2>3. at(1) = P[1] /\ at(2) = P[2] /\ at(3) = P[3]
    BY <2>2 DEF LineAt
  <2>4. \A n \in 1..3 : n = 1 \/ n = 2 \/ n = 3
    OBVIOUS
  <2> HIDE DEF P, at
  <2> QED BY <2>1, <2>2, <2>3, <2>4
<1>2. I \in Seq(Lines) /\ Len(I) = 1 /\ I[1] = Line(input)
  <2>1. Line(input) \in Lines
    BY DEF Line, Lines
  <2> QED BY <2>1
<1>3. /\ \A n \in 4..3 + b : at(n) = [is |-> "before", of |-> before]
      /\ \A n \in 3 + b + 1 .. 3 + b + h : at(n) = Line(first + n - 4 - b)
      /\ \A n \in 3 + b + h + 1 .. 3 + b + h + a : at(n) = [is |-> "after", of |-> after]
      /\ at(3 + b + h + a + 1) = Line(input)
  BY DEF LineAt
<1> HIDE DEF P, I, at
<1> DEFINE PB == P \o B
           PBH == PB \o H
           PBHA == PBH \o A
           all == PBHA \o I
<1>4. /\ PB \in Seq(Lines) /\ Len(PB) = 3 + b
      /\ \A n \in 1..3 : PB[n] = P[n]
      /\ \A n \in 3 + 1 .. 3 + b : PB[n] = B[n - 3]
  <2>1. Joined(P, B, PB)
    BY <1>1, PartsJoin
  <2> HIDE DEF PB
  <2> QED BY <1>1, <2>1 DEF Joined
<1>5. \A n \in 1..3 + b : PB[n] = at(n)
  <2>1. ASSUME NEW n \in 4..3 + b PROVE n - 3 = 1 /\ b = 1
    BY <2>1
  <2>2. \A n \in 1..3 + b : n \in 1..3 \/ n \in 4..3 + b
    OBVIOUS
  <2>3. ASSUME NEW n \in 4..3 + b PROVE PB[n] = at(n)
    <3>1. PB[n] = B[1] /\ B[1] = [is |-> "before", of |-> before]
      BY <1>4, <2>1
    <3> QED BY <1>3, <3>1
  <2> HIDE DEF PB
  <2> QED BY <1>1, <1>4, <2>2, <2>3
<1> HIDE DEF PB
<1>6. /\ PBH \in Seq(Lines) /\ Len(PBH) = 3 + b + h
      /\ \A n \in 1..3 + b : PBH[n] = PB[n]
      /\ \A n \in 3 + b + 1 .. 3 + b + h : PBH[n] = H[n - (3 + b)]
  <2>1. Joined(PB, H, PBH)
    BY <1>4, PartsJoin
  <2> HIDE DEF PBH
  <2>2. /\ PBH \in Seq(Lines) /\ Len(PBH) = Len(PB) + Len(H)
        /\ \A n \in 1..Len(PB) : PBH[n] = PB[n]
        /\ \A n \in Len(PB) + 1 .. Len(PB) + Len(H) : PBH[n] = H[n - Len(PB)]
    BY <2>1 DEF Joined
  <2>3. Len(PB) = 3 + b /\ Len(H) = h
    BY <1>4
  <2> QED BY <2>2, <2>3
<1>7. \A n \in 1..3 + b + h : PBH[n] = at(n)
  <2>1. ASSUME NEW n \in 3 + b + 1 .. 3 + b + h
        PROVE  n - (3 + b) \in 1..h /\ first + (n - (3 + b)) - 1 = first + n - 4 - b
    <3>1. OldPlace(b, h, first, n)
      BY ONLY OldPlaces, b \in 0..1, h \in Nat, first \in Nat, <2>1
    <3> QED BY ONLY <3>1 DEF OldPlace
  <2>2. \A n \in 1..3 + b + h : n \in 1..3 + b \/ n \in 3 + b + 1 .. 3 + b + h
    OBVIOUS
  <2>3. ASSUME NEW n \in 3 + b + 1 .. 3 + b + h PROVE PBH[n] = at(n)
    <3>1. PBH[n] = H[n - (3 + b)] /\ H[n - (3 + b)] = Line(first + (n - (3 + b)) - 1)
      BY <1>6, <2>1
    <3> QED BY <1>3, <2>1, <3>1
  <2> HIDE DEF PBH
  <2> QED BY <1>5, <1>6, <2>2, <2>3
<1> HIDE DEF PBH
<1>8. /\ PBHA \in Seq(Lines) /\ Len(PBHA) = 3 + b + h + a
      /\ \A n \in 1..3 + b + h : PBHA[n] = PBH[n]
      /\ \A n \in 3 + b + h + 1 .. 3 + b + h + a : PBHA[n] = A[n - (3 + b + h)]
  <2>1. Joined(PBH, A, PBHA)
    BY <1>6, PartsJoin
  <2> HIDE DEF PBHA
  <2> QED BY <1>6, <2>1 DEF Joined
<1>9. \A n \in 1..3 + b + h + a : PBHA[n] = at(n)
  <2>1. ASSUME NEW n \in 3 + b + h + 1 .. 3 + b + h + a PROVE n - (3 + b + h) = 1 /\ a = 1
    BY <2>1
  <2>2. \A n \in 1..3 + b + h + a : n \in 1..3 + b + h \/ n \in 3 + b + h + 1 .. 3 + b + h + a
    OBVIOUS
  <2>3. ASSUME NEW n \in 3 + b + h + 1 .. 3 + b + h + a PROVE PBHA[n] = at(n)
    <3>1. PBHA[n] = A[1] /\ A[1] = [is |-> "after", of |-> after]
      BY <1>8, <2>1
    <3> QED BY <1>3, <3>1
  <2> HIDE DEF PBHA
  <2> QED BY <1>7, <1>8, <2>2, <2>3
<1> HIDE DEF PBHA
<1>10. /\ all \in Seq(Lines) /\ Len(all) = 3 + b + h + a + 1
       /\ \A n \in 1..3 + b + h + a : all[n] = PBHA[n]
       /\ \A n \in 3 + b + h + a + 1 .. 3 + b + h + a + 1 : all[n] = I[n - (3 + b + h + a)]
  <2>1. Joined(PBHA, I, all)
    BY <1>2, <1>8, PartsJoin
  <2> HIDE DEF all
  <2> QED BY <1>2, <1>8, <2>1 DEF Joined
<1>11. DOMAIN all = 1..3 + b + h + a + 1
  BY <1>10, LenProperties
<1>12. \A n \in 1..3 + b + h + a + 1 : all[n] = at(n)
  <2>1. \A n \in 1..3 + b + h + a + 1 : n \in 1..3 + b + h + a \/ n = 3 + b + h + a + 1
    OBVIOUS
  <2>2. all[3 + b + h + a + 1] = I[1]
    <3>1. 3 + b + h + a + 1 \in 3 + b + h + a + 1 .. 3 + b + h + a + 1
          /\ 3 + b + h + a + 1 - (3 + b + h + a) = 1
      OBVIOUS
    <3> HIDE DEF all
    <3> QED BY <1>10, <3>1
  <2>3. ASSUME NEW n \in 1..3 + b + h + a PROVE all[n] = at(n)
    <3>1. all[n] = PBHA[n]
      BY <1>10
    <3> HIDE DEF all
    <3> QED BY <1>9, <3>1
  <2> HIDE DEF all
  <2>4. all[3 + b + h + a + 1] = at(3 + b + h + a + 1)
    BY <1>2, <1>3, <2>2
  <2> QED BY <2>1, <2>3, <2>4
<1>13. IsPrompt(all, plain, before, b, first, h, after, a, input)
  <2> HIDE DEF all
  <2> QED BY <1>10, <1>11, <1>12 DEF IsPrompt, at
<1> QED BY <1>13 DEF all, PBHA, PBH, PB, P, I

\* A prompt of the lore in three parts and of the history from the first message on.
PromptOf(asked, plain, before, b, first, after, a, input) ==
    /\ plain \cap before = {} /\ plain \cap after = {} /\ before \cap after = {}
    /\ b = 0 <=> before = {}
    /\ a = 0 <=> after = {}
    /\ {asked.lore[i] : i \in DOMAIN asked.lore} = plain \cup before \cup after
    /\ asked.history = first..input
    /\ IsPrompt(asked.lines, plain, before, b, first, input - first, after, a, input)

\* It says everything once.
LEMMA LinesSayAllOnce ==
    ASSUME NEW plain, NEW before, NEW after, NEW b \in 0..1, NEW a \in 0..1,
           NEW input \in Nat, NEW first \in 1..input,
           NEW asked, PromptOf(asked, plain, before, b, first, after, a, input)
    PROVE  SaysAllOnce(asked)
<1> DEFINE h == input - first
           lines == asked.lines
           last == 3 + b + h + a + 1
           is(n) == lines[n].is
           of(n) == lines[n].of
           Old == 3 + b + 1 .. 3 + b + h
           says(n) == IF n = last THEN input ELSE first + n - 4 - b
           OfKind(kind) == {n \in DOMAIN lines : lines[n].is = kind}
           TextOf(n) == CHOOSE i \in lines[n].of : TRUE
<1>0. /\ plain \cap before = {} /\ plain \cap after = {} /\ before \cap after = {}
      /\ b = 0 <=> before = {}
      /\ a = 0 <=> after = {}
      /\ {asked.lore[i] : i \in DOMAIN asked.lore} = plain \cup before \cup after
      /\ asked.history = first..input
  BY DEF PromptOf
<1>1. /\ h \in Nat /\ first \in Nat /\ first > 0 /\ last \in Nat
      /\ DOMAIN lines = 1..last /\ Len(lines) = last
      /\ \A n \in 1..last : lines[n] = LineAt(n, plain, before, b, first, h, after, a, input)
  BY DEF IsPrompt, PromptOf
<1>2. /\ is(1) = "rules" /\ of(1) = {}
      /\ is(2) = "references" /\ of(2) = plain
      /\ is(3) = "opening" /\ of(3) = {}
      /\ \A n \in 4..3 + b : is(n) = "before" /\ of(n) = before
      /\ \A n \in Old : is(n) = "said" /\ of(n) = {says(n)}
      /\ \A n \in 3 + b + h + 1 .. 3 + b + h + a : is(n) = "after" /\ of(n) = after
      /\ is(last) = "said" /\ of(last) = {says(last)}
  <2> HIDE DEF h
  <2>1. lines[1] = [is |-> "rules", of |-> {}]
    <3>1. LineAt(1, plain, before, b, first, h, after, a, input) = [is |-> "rules", of |-> {}]
      BY DEF LineAt
    <3>2. 1 \in 1..last
      BY <1>1
    <3> HIDE DEF last, lines
    <3> QED BY <1>1, <3>1, <3>2
  <2>2. lines[2] = [is |-> "references", of |-> plain]
    BY <1>1 DEF LineAt
  <2>3. lines[3] = [is |-> "opening", of |-> {}]
    BY <1>1 DEF LineAt
  <2>4. \A n \in 4..3 + b : lines[n] = [is |-> "before", of |-> before]
    BY <1>1 DEF LineAt
  <2>5. \A n \in Old : lines[n] = Line(first + n - 4 - b) /\ n # last
    BY <1>1 DEF LineAt
  <2>6. \A n \in 3 + b + h + 1 .. 3 + b + h + a : lines[n] = [is |-> "after", of |-> after]
    BY <1>1 DEF LineAt
  <2>7. lines[last] = Line(input)
    BY <1>1 DEF LineAt
  <2>8. \A x : Line(x).is = "said" /\ Line(x).of = {x}
    BY DEF Line
  <2>9. \A n \in Old : says(n) = first + n - 4 - b
    BY <2>5
  <2>10. says(last) = input
    OBVIOUS
  <2> HIDE DEF says, Old, last, lines
  <2> QED BY <2>1, <2>2, <2>3, <2>4, <2>5, <2>6, <2>7, <2>8, <2>9, <2>10
<1>3. \A n \in 1..last : \/ n = 1 \/ n = 2 \/ n = 3 \/ n \in 4..3 + b \/ n \in Old
                         \/ n \in 3 + b + h + 1 .. 3 + b + h + a \/ n = last
  BY <1>1
<1>4. \A n \in 4..3 + b : n = 4 /\ b = 1
  OBVIOUS
<1>5. \A n \in 3 + b + h + 1 .. 3 + b + h + a : n = last - 1 /\ a = 1
  BY <1>1
<1>6. /\ \A n \in Old : says(n) \in first..input - 1 /\ n < last /\ n > 3 + b
      /\ says(last) = input
      /\ \A m, n \in Old : m < n => says(m) < says(n)
      /\ \A x \in first..input - 1 : \E n \in Old : says(n) = x
  <2>1. \A n \in Old : n # last
    BY <1>1
  <2>2. \A n \in Old : says(n) = first + n - 4 - b
    BY <2>1
  <2>3. ASSUME NEW x \in first..input - 1 PROVE \E n \in Old : says(n) = x
    <3>1. x - first + 4 + b \in Old /\ first + (x - first + 4 + b) - 4 - b = x
      BY <1>1
    <3> HIDE DEF Old, says
    <3> QED BY <2>2, <3>1
  <2>4. \A n \in Old : first + n - 4 - b \in first..input - 1 /\ n < last /\ n > 3 + b
    BY <1>1
  <2>5. says(last) = input
    OBVIOUS
  <2>6. \A m, n \in Old : m < n => first + m - 4 - b < first + n - 4 - b
    BY <1>1
  <2> HIDE DEF says, Old, last
  <2> QED BY <2>2, <2>3, <2>4, <2>5, <2>6
<1>7. \A n \in 1..last : is(n) = "said" <=> n \in Old \/ n = last
  <2> HIDE DEF is, of, says, Old, last, h
  <2> QED BY <1>2, <1>3
<1>8. \A n \in 1..last : /\ is(n) = "before" <=> n \in 4..3 + b
                         /\ is(n) = "after" <=> n \in 3 + b + h + 1 .. 3 + b + h + a
                         /\ is(n) = "references" <=> n = 2
  <2> HIDE DEF is, of, says, Old, last, h
  <2> QED BY <1>2, <1>3
<1>9. \A n \in Old \cup {last} : TextOf(n) = says(n)
  <2>1. \A n \in Old \cup {last} : lines[n].of = {says(n)}
    BY <1>2
  <2>2. \A x : (CHOOSE i \in {x} : TRUE) = x
    OBVIOUS
  <2> HIDE DEF says, Old, last, lines
  <2> QED BY <2>1, <2>2
<1>10. \A n : n \in OfKind("said") <=> n \in Old \/ n = last
  <2>1. \A n \in Old : n \in 1..last
    <3>1. h \in Nat
      BY <1>1
    <3> HIDE DEF h
    <3> QED BY ONLY <3>1, b \in 0..1, a \in 0..1
  <2>2. last \in 1..last
    BY <1>1
  <2>3. \A n : n \in OfKind("said") <=> n \in 1..last /\ is(n) = "said"
    <3>1. \A n : n \in OfKind("said") <=> n \in DOMAIN lines /\ is(n) = "said"
      OBVIOUS
    <3> HIDE DEF OfKind, is, last, lines
    <3>2. DOMAIN lines = 1..last
      BY ONLY <1>1
    <3> QED BY ONLY <3>1, <3>2
  <2> HIDE DEF OfKind, is, Old, last
  <2> QED BY <1>7, <2>1, <2>2, <2>3
<1>11. UNION {lines[n].of : n \in OfKind("references") \cup OfKind("before") \cup OfKind("after")}
         = {asked.lore[i] : i \in DOMAIN asked.lore}
  <2> DEFINE N == OfKind("references") \cup OfKind("before") \cup OfKind("after")
  <2>1. \A n : n \in N <=> \/ n = 2 \/ n \in 4..3 + b \/ n \in 3 + b + h + 1 .. 3 + b + h + a
    <3>1. \A n : n \in N <=> n \in 1..last
                               /\ (is(n) = "references" \/ is(n) = "before" \/ is(n) = "after")
      BY <1>1
    <3>2. /\ 2 \in 1..last
          /\ \A n \in 4..3 + b : n \in 1..last
          /\ \A n \in 3 + b + h + 1 .. 3 + b + h + a : n \in 1..last
      BY <1>1
    <3> HIDE DEF N, is, last, h
    <3> QED BY <1>8, <3>1, <3>2
  <2>2. \A x : (\E n \in N : x \in of(n)) <=> x \in plain \/ x \in before \/ x \in after
    <3>1. ASSUME NEW n \in N PROVE of(n) \subseteq plain \cup before \cup after
      <4> HIDE DEF N, of, is, says, Old, last, h
      <4> QED BY <1>2, <2>1
    <3>2. plain = of(2) /\ 2 \in N
      <4> HIDE DEF N, of, is, says, Old, last, h
      <4> QED BY <1>2, <2>1
    <3>3. ASSUME NEW x \in before PROVE \E n \in N : x \in of(n)
      <4>1. b = 1
        BY <1>0, <3>3
      <4>2. 4 \in 4..3 + b
        BY <4>1
      <4> HIDE DEF N, of, is, says, Old, last, h
      <4>3. of(4) = before /\ 4 \in N
        BY <1>2, <2>1, <4>2
      <4> QED BY <4>3
    <3>4. ASSUME NEW x \in after PROVE \E n \in N : x \in of(n)
      <4>1. a = 1
        BY <1>0, <3>4
      <4>2. 3 + b + h + 1 \in 3 + b + h + 1 .. 3 + b + h + a
        BY <1>1, <4>1
      <4> DEFINE k == 3 + b + h + 1
      <4>3. k \in 3 + b + h + 1 .. 3 + b + h + a
        BY <4>2
      <4> HIDE DEF N, of, is, says, Old, last, h, k
      <4>4. of(k) = after /\ k \in N
        BY <1>2, <2>1, <4>3
      <4> QED BY <4>4
    <3> HIDE DEF N, of
    <3> QED BY <3>1, <3>2, <3>3, <3>4
  <2>3. \A x : x \in UNION {lines[n].of : n \in N} <=> \E n \in N : x \in of(n)
    <3> HIDE DEF N
    <3> QED OBVIOUS
  <2> HIDE DEF N, of
  <2>4. UNION {lines[n].of : n \in N} = plain \cup before \cup after
    BY <2>2, <2>3
  <2> QED BY <1>0, <2>4 DEF N
<1>12. \A m, n \in DOMAIN lines : m # n /\ lines[m].is # "said" =>
         lines[m].of \cap lines[n].of = {} \/ lines[n].is = "said"
  <2>1. SUFFICES ASSUME NEW m \in 1..last, NEW n \in 1..last, m # n, is(m) # "said", is(n) # "said"
                 PROVE  of(m) \cap of(n) = {}
    BY <1>1
  <2>2. ASSUME NEW k \in 1..last, is(k) # "said"
        PROVE  \/ of(k) = {}
               \/ k = 2 /\ of(k) = plain
               \/ k = 4 /\ of(k) = before
               \/ k = last - 1 /\ of(k) = after
    <3>1. CASE k = 1 \/ k = 2 \/ k = 3
      <4> HIDE DEF of, is
      <4> QED BY <1>2, <3>1
    <3>2. CASE k \in 4..3 + b
      <4>1. k = 4
        BY <1>4, <3>2
      <4> HIDE DEF of, is
      <4> QED BY <1>2, <3>2, <4>1
    <3>3. CASE k \in Old \/ k = last
      <4> HIDE DEF of, is, Old
      <4> QED BY <1>2, <2>2, <3>3
    <3>4. CASE k \in 3 + b + h + 1 .. 3 + b + h + a
      <4>1. k = last - 1
        BY <1>5, <3>4
      <4> HIDE DEF of, is, last
      <4> QED BY <1>2, <3>4, <4>1
    <3> HIDE DEF of, is, says, Old, last, h
    <3> QED BY <1>3, <3>1, <3>2, <3>3, <3>4
  <2> HIDE DEF of, is
  <2>3. \/ of(m) = {}
        \/ m = 2 /\ of(m) = plain
        \/ m = 4 /\ of(m) = before
        \/ m = last - 1 /\ of(m) = after
    BY <2>1, <2>2
  <2>4. \/ of(n) = {}
        \/ n = 2 /\ of(n) = plain
        \/ n = 4 /\ of(n) = before
        \/ n = last - 1 /\ of(n) = after
    BY <2>1, <2>2
  <2> DEFINE p == of(m)
             q == of(n)
  <2>5. p \cap q = q \cap p /\ before \cap plain = {} /\ after \cap plain = {}
        /\ after \cap before = {} /\ {} \cap q = {} /\ p \cap {} = {}
    BY <1>0
  <2> HIDE DEF last, p, q
  <2>6. CASE p = {} \/ q = {}
    BY <2>5, <2>6 DEF p, q
  <2>7. CASE m = 2 /\ p = plain
    BY <1>0, <2>1, <2>4, <2>5, <2>6, <2>7 DEF p, q
  <2>8. CASE m = 4 /\ p = before
    BY <1>0, <2>1, <2>4, <2>5, <2>6, <2>8 DEF p, q
  <2>9. CASE m = last - 1 /\ p = after
    BY <1>0, <2>1, <2>4, <2>5, <2>6, <2>9 DEF p, q
  <2> QED BY <2>3, <2>6, <2>7, <2>8, <2>9 DEF p, q
<1>13. {TextOf(n) : n \in OfKind("said")} = asked.history
  <2>1. \A x : (\E n \in OfKind("said") : x = TextOf(n)) <=> x \in first..input
    <3>1. \A x : x \in first..input <=> x \in first..input - 1 \/ x = input
      BY <1>1
    <3> HIDE DEF TextOf, OfKind, Old, says, last
    <3> QED BY <1>6, <1>9, <1>10, <3>1
  <2> HIDE DEF TextOf, OfKind
  <2> QED BY <1>0, <2>1
<1>14. \A m, n \in OfKind("said") : m < n => TextOf(m) < TextOf(n)
  <2>1. ASSUME NEW m \in OfKind("said"), NEW n \in OfKind("said"), m < n
        PROVE  says(m) < says(n)
    <3>1. m \in Old \cup {last} /\ n \in Old \cup {last}
      BY <1>10
    <3>2. CASE m \in Old /\ n \in Old
      <4> HIDE DEF Old, says
      <4> QED BY <1>6, <2>1, <3>2
    <3>3. CASE m \in Old /\ n = last
      <4>1. says(m) \in first..input - 1 /\ says(n) = input
        <5> HIDE DEF Old, says, last
        <5> QED BY <1>6, <3>3
      <4> HIDE DEF says
      <4> QED BY <1>1, <4>1
    <3>4. CASE m = last
      <4>1. n \in Old => n < last
        <5> HIDE DEF Old, says, last
        <5> QED BY <1>6
      <4>2. last \in Int /\ (n \in Old => n \in Int)
        BY <1>1
      <4> HIDE DEF Old, last
      <4> QED BY <2>1, <3>1, <3>4, <4>1, <4>2
    <3> HIDE DEF Old, last, says
    <3> QED BY <3>1, <3>2, <3>3, <3>4
  <2> HIDE DEF TextOf, OfKind, Old, says, last
  <2> QED BY <1>9, <1>10, <2>1
<1>15. \A n \in OfKind("before"), m \in OfKind("said") : n < m
  <2>1. SUFFICES ASSUME NEW n \in OfKind("before"), NEW m \in OfKind("said") PROVE n < m
    OBVIOUS
  <2>2. n \in 4..3 + b
    BY <1>1, <1>8
  <2>3. m \in Old \/ m = last
    BY <1>10
  <2> QED BY <1>1, <2>2, <2>3
<1>16. \A n \in OfKind("after"), m \in OfKind("said") : m > n <=> m = Len(lines)
  <2>1. SUFFICES ASSUME NEW n \in OfKind("after"), NEW m \in OfKind("said")
                 PROVE  m > n <=> m = last
    BY <1>1
  <2>2. n \in 3 + b + h + 1 .. 3 + b + h + a
    BY <1>1, <1>8
  <2>3. m \in Old \/ m = last
    BY <1>10
  <2> QED BY <1>1, <2>2, <2>3
<1> HIDE DEF OfKind, TextOf
<1> QED
  BY <1>11, <1>12, <1>13, <1>14, <1>15, <1>16 DEF SaysAllOnce, OfKind, TextOf

\* What build_prompt renders of chosen entries and of messages up to the input.
LEMMA RenderedSaysAllOnce ==
    ASSUME LoreTypeInv, NEW first \in DOMAIN said, NEW active \in Seq(DOMAIN book),
           NEW recent, recent = [i \in 1..(Len(said) - first + 1) |-> first + i - 1],
           NEW asked,
           asked = [lines |-> Rendered(active, recent), lore |-> active, history |-> first..Len(said)]
    PROVE  SaysAllOnce(asked)
<1> DEFINE lore == {active[i] : i \in DOMAIN active}
           placed == {i \in lore : Positioned(book[i])}
           plain == lore \ placed
           before == {i \in placed : ~Near(book[i])}
           after == {i \in placed : Near(book[i])}
           input == Len(said)
           H == HistoryLines(recent)
           lines == <<[is |-> "rules", of |-> {}], [is |-> "references", of |-> plain],
                      [is |-> "opening", of |-> {}]>>
                      \o Block("before", before) \o H \o Block("after", after) \o <<Line(input)>>
<1>1. input \in Nat /\ first \in 1..input
  BY LenProperties DEF LoreTypeInv
<1>2. plain \in SUBSET Nat /\ before \in SUBSET Nat /\ after \in SUBSET Nat
  <2>1. DOMAIN book \subseteq Nat
    <3>1. Len(book) \in Nat /\ DOMAIN book = 1..Len(book)
      BY BookFits DEF LoreFits
    <3> QED BY <3>1
  <2>2. lore \subseteq DOMAIN book
    BY LenProperties
  <2> HIDE DEF lore
  <2> QED BY <2>1, <2>2
<1>3. /\ plain \cap before = {} /\ plain \cap after = {} /\ before \cap after = {}
      /\ lore = plain \cup before \cup after
  <2> HIDE DEF lore
  <2> QED OBVIOUS
<1>4. H \in Seq(Lines) /\ Len(H) = input - first
      /\ \A i \in 1..input - first : H[i] = Line(first + i - 1)
  BY HistoryLinesAre
<1>5. Rendered(active, recent) = lines
  BY DEF Rendered
<1>6. {asked.lore[i] : i \in DOMAIN asked.lore} = lore
  <2>1. asked.lore = active
    OBVIOUS
  <2> QED BY <2>1
<1>7. asked.history = first..input /\ asked.lines = lines
  <2> HIDE DEF lines
  <2> QED BY <1>5
<1> HIDE DEF lore, plain, before, after, input, H
<1>8. PICK b \in 0..1 : /\ Block("before", before) \in Seq(Lines) /\ Len(Block("before", before)) = b
                        /\ b = 0 <=> before = {}
                        /\ b = 1 => Block("before", before)[1] = [is |-> "before", of |-> before]
  BY <1>2, BlockIs
<1>9. PICK a \in 0..1 : /\ Block("after", after) \in Seq(Lines) /\ Len(Block("after", after)) = a
                        /\ a = 0 <=> after = {}
                        /\ a = 1 => Block("after", after)[1] = [is |-> "after", of |-> after]
  BY <1>2, BlockIs
<1>10. IsPrompt(lines, plain, before, b, first, input - first, after, a, input)
  <2> DEFINE B == Block("before", before)
             A == Block("after", after)
             h == input - first
  <2>1. h \in Nat /\ first \in Nat /\ first > 0
    BY <1>1
  <2>2. /\ B \in Seq(Lines) /\ Len(B) = b
        /\ b = 1 => B[1] = [is |-> "before", of |-> before]
    BY <1>8
  <2>3. /\ A \in Seq(Lines) /\ Len(A) = a
        /\ a = 1 => A[1] = [is |-> "after", of |-> after]
    BY <1>9
  <2>4. H \in Seq(Lines) /\ Len(H) = h /\ \A i \in 1..h : H[i] = Line(first + i - 1)
    BY <1>4
  <2>5. IsPrompt(<<[is |-> "rules", of |-> {}], [is |-> "references", of |-> plain],
                   [is |-> "opening", of |-> {}]>> \o B \o H \o A \o <<Line(input)>>,
                 plain, before, b, first, h, after, a, input)
    <3> HIDE DEF B, A, h
    <3> QED BY <1>1, <1>2, <2>1, <2>2, <2>3, <2>4, JoinedLines
  <2> QED BY <2>5
<1> HIDE DEF lines
<1>11. PromptOf(asked, plain, before, b, first, after, a, input)
  BY <1>3, <1>6, <1>7, <1>8, <1>9, <1>10 DEF PromptOf
<1> QED BY <1>1, <1>8, <1>9, <1>11, LinesSayAllOnce

-----------------------------------------------------------------------------
(* The conversation *)

\* What always holds.
LoreInv == LoreTypeInv /\ PromptSaysAllOnce

\* It holds before anything is said.
LEMMA LoreStarts == ASSUME LoreInit PROVE LoreInv
BY DEF LoreInit, LoreInv, LoreTypeInv, PromptSaysAllOnce

\* No step changes the book or its ids, and what is said is a message.
LEMMA LoreTypesKept == ASSUME LoreTypeInv, [LoreNext]_loreVars PROVE LoreTypeInv'
<1>1. CASE Say
  <2>1. PICK by \in {"user", "character"}, words \in SUBSET LoreWords \ {{}} :
          said' = Append(said, [by |-> by, words |-> words])
    BY <1>1 DEF Say
  <2>2. [by |-> by, words |-> words] \in Utterance
    BY DEF Utterance
  <2>3. said' \in Seq(Utterance)
    BY <2>1, <2>2, AppendProperties DEF LoreTypeInv
  <2> QED BY <1>1, <2>3 DEF Say, LoreTypeInv
<1>2. CASE Pick
  BY <1>2 DEF Pick, LoreTypeInv
<1>3. CASE Answer
  BY <1>3 DEF Answer, LoreTypeInv
<1>4. CASE UNCHANGED loreVars
  BY <1>4 DEF loreVars, LoreTypeInv
<1> QED BY <1>1, <1>2, <1>3, <1>4 DEF LoreNext

\* Only an answer makes a prompt, and it says everything once.
LEMMA PromptsKept ==
    ASSUME LoreInv, [LoreNext]_loreVars
    PROVE  PromptSaysAllOnce'
<1>1. CASE Say \/ Pick
  BY <1>1 DEF Say, Pick, PromptSaysAllOnce
<1>2. CASE Answer
  <2>1. PICK first \in DOMAIN said :
          prompt' = [lines |-> Rendered(ActiveLore.active,
                                        [i \in 1..(Len(said) - first + 1) |-> first + i - 1]),
                     lore |-> ActiveLore.active,
                     history |-> first..Len(said)]
    BY <1>2 DEF Answer
  <2> DEFINE recent == [i \in 1..(Len(said) - first + 1) |-> first + i - 1]
             active == ActiveLore.active
             asked == [lines |-> Rendered(active, recent), lore |-> active,
                       history |-> first..Len(said)]
  <2>2. active \in Seq(DOMAIN book)
    <3> DEFINE text == said[Len(said)].words
               spoken == LastOf(said, RecentLimit)
               reasons == [j \in DOMAIN book |-> Activated(book[j], j, text, spoken, picked)]
    <3>1. LoreFits(book, ids)
      BY BookFits DEF LoreInv
    <3>2. ActiveLore = Diagnosed(book, ids, text, spoken, picked)
      BY DEF ActiveLore
    <3> HIDE DEF text, spoken
    <3>3. TakesBest(book, reasons, Rank(book, ids),
                    Diagnosed(book, ids, text, spoken, picked).active)
      BY <3>1, DiagnosisTakesBest
    <3> QED BY <3>2, <3>3 DEF TakesBest
  <2>3. SaysAllOnce(asked)
    <3>1. /\ recent = [i \in 1..(Len(said) - first + 1) |-> first + i - 1]
          /\ asked = [lines |-> Rendered(active, recent), lore |-> active, history |-> first..Len(said)]
      OBVIOUS
    <3> HIDE DEF recent, active, asked
    <3> QED BY <2>2, <3>1, RenderedSaysAllOnce DEF LoreInv
  <2>4. prompt' = asked
    BY <2>1
  <2>5. SaysAllOnce(prompt')
    BY <2>3, <2>4
  <2> QED BY <2>5 DEF PromptSaysAllOnce
<1>3. CASE UNCHANGED loreVars
  <2>1. prompt' = prompt
    BY <1>3 DEF loreVars
  <2>2. SaysAllOnce(prompt') <=> SaysAllOnce(prompt)
    BY <2>1
  <2> QED BY <2>1, <2>2 DEF LoreInv, PromptSaysAllOnce
<1> QED BY <1>1, <1>2, <1>3 DEF LoreNext

\* So it always holds.
LEMMA LoreInvHolds == LoreSpec => []LoreInv
<1>1. LoreInit => LoreInv
  BY LoreStarts
<1>2. LoreInv /\ [LoreNext]_loreVars => LoreInv'
  BY LoreTypesKept, PromptsKept DEF LoreInv
<1> QED BY <1>1, <1>2, PTL DEF LoreSpec

\* Whatever an author has published and whatever was said, the selector of
\* activation.py uses one entry of every exclusive group, the one that ranks first of
\* those that are wanted, for no old message and whatever way the copy was stored.
THEOREM LoreIsChosenByRank == LoreSpec => []LoreIsWellChosen
<1>1. LoreTypeInv => LoreIsWellChosen
  BY GroupsHaveOne, OldMessagesLeaveNoTrace, StorageLeavesNoTrace DEF LoreIsWellChosen
<1>2. LoreInv => LoreIsWellChosen
  BY <1>1 DEF LoreInv
<1> QED BY <1>2, LoreInvHolds, PTL

\* Every prompt of build_prompt holds the chosen lore and the history that was read
\* once each, in their places, and ends with the input.
THEOREM PromptsSayAllOnce == LoreSpec => []PromptSaysAllOnce
<1>1. LoreInv => PromptSaysAllOnce
  BY DEF LoreInv
<1> QED BY <1>1, LoreInvHolds, PTL
=============================================================================
