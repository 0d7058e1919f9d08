---------------------------- MODULE ReviewCases ----------------------------
(***************************************************************************)
(* Moderation: reports about a user or a work, assessments of reports,     *)
(* and requests for actions based on an assessment.                        *)
(*                                                                         *)
(* Every request of an administrator is one transaction. It takes locks    *)
(* one by one (the advisory lock of its key, the one of its target, rows), *)
(* judges what is committed then, and writes at its commit: other          *)
(* transactions may commit between any two of these steps. A foreign key   *)
(* locks the row it points to when it is written; that lock is taken as    *)
(* exclusive here, which only makes waiting more frequent.                 *)
(***************************************************************************)
EXTENDS Naturals, Sequences, FiniteSets

CONSTANTS Admins, Reports, Assessments, Actions, ReviewWorks, Users,
          TargetOf,  \* the target of each report, which is never changed
          OwnerOf,   \* the user who owns a work
          Filed,     \* reports that are there from the start
          Legacy,    \* of these, the ones copied from the old flags as already reviewed
          Commands,  \* the requests administrators and reporters send
          NoCase

ASSUME ReviewAssumption ==
    /\ Reports \subseteq Nat /\ IsFiniteSet(Reports)
    /\ TargetOf \in [Reports -> ReviewWorks \cup Users] /\ OwnerOf \in [ReviewWorks -> Users]
    /\ Legacy \subseteq Filed /\ Filed \subseteq Reports

VARIABLES reports, assessments, actions, works, tx
reviewVars == <<reports, assessments, actions, works, tx>>

-----------------------------------------------------------------------------
(* Rows. The CHECK constraints of their tables.                             *)

NoReport == [status |-> "none", dup |-> NoCase]
Received == [status |-> "received", dup |-> NoCase]
ReportRows ==
    {row \in [status: {"none", "received", "duplicate", "rejected"},
              dup: Reports \cup {NoCase}] : (row.status = "duplicate") = (row.dup # NoCase)}

AssessmentRows ==
    [target: ReviewWorks \cup Users, reports: SUBSET Reports,
     outcome: {"violation", "no_violation"}, previous: Assessments \cup {NoCase}]

ActionRows ==
    {row \in [assessment: Assessments, target: ReviewWorks \cup Users,
              type: {"suspend", "revoke"}, reverses: Actions \cup {NoCase},
              status: {"pending", "applied", "failed", "cancelled"}] :
        (row.type = "revoke") = (row.reverses # NoCase)}

(* A request names rows of their kinds and one of the listed changes.        *)
ASSUME CommandAssumption ==
    /\ NoCase \notin Reports /\ NoCase \notin Assessments /\ NoCase \notin Actions
    /\ NoCase \notin Commands
    /\ NoCase \notin AssessmentRows /\ NoCase \notin ActionRows
    /\ \A cmd \in Commands :
          /\ cmd.kind \in {"report", "intake", "assess", "act", "cancel"}
          /\ cmd.kind = "intake" => cmd.id \in Reports /\ cmd.dup \in Reports \cup {NoCase}
          /\ cmd.kind = "assess" =>
                /\ cmd.id \in Assessments /\ cmd.previous \in Assessments \cup {NoCase}
                /\ cmd.target \in ReviewWorks \cup Users /\ cmd.reports \in SUBSET Reports
          /\ cmd.kind = "act" =>
                /\ cmd.id \in Actions /\ cmd.reverses \in Actions \cup {NoCase}
                /\ cmd.assessment \in Assessments /\ cmd.type \in {"suspend", "revoke"}
          /\ cmd.kind = "cancel" => cmd.id \in Actions

Idle == [cmd |-> NoCase, todo |-> <<>>, held |-> {}]

ReviewInit ==
    /\ reports = [r \in Reports |-> IF r \in Filed THEN Received ELSE NoReport]
    /\ assessments = [e \in Assessments |-> NoCase]
    /\ actions = [x \in Actions |-> NoCase]
    /\ works = ReviewWorks
    /\ tx = [a \in Admins |-> Idle]

-----------------------------------------------------------------------------
(* Locks *)

KeyLock(cmd) == <<"key", cmd.kind, cmd.id>>
TargetLock(target) == <<"target", target>>
ReportLock(r) == <<"report", r>>
AssessmentLock(e) == <<"assessment", e>>
ActionLock(x) == <<"action", x>>
Judge == <<"judge">>

InOrder(ids) == CHOOSE q \in [1 .. Cardinality(ids) -> ids] :
                    \A i, j \in 1 .. Cardinality(ids) : i < j => q[i] < q[j]

(* Faulty: the reports are locked whatever they are about.                  *)
AllReportsOf(cmd) == cmd.reports

(* list_reports_by_ids locks the reports of the same target in id order.    *)
LockedReportsOf(cmd) == {r \in cmd.reports : TargetOf[r] = cmd.target}

Optional(id, lock) == IF id = NoCase THEN <<>> ELSE <<lock>>

(* Faulty: the chain of duplicates is read while another one is changed.    *)
IntakeStepsWithoutTarget(cmd) ==
    <<ReportLock(cmd.id), Judge>> \o Optional(cmd.dup, ReportLock(cmd.dup))

(* change_report_intake: the target read without a lock decides the key;    *)
(* the report is read again under both.                                     *)
IntakeSteps(cmd) ==
    <<TargetLock(TargetOf[cmd.id]), ReportLock(cmd.id), Judge>>
        \o Optional(cmd.dup, ReportLock(cmd.dup))

AssessmentSteps(cmd) ==
    <<KeyLock(cmd), TargetLock(cmd.target)>> \o Optional(cmd.previous, AssessmentLock(cmd.previous))
        \o [i \in 1 .. Cardinality(LockedReportsOf(cmd)) |->
               ReportLock(InOrder(LockedReportsOf(cmd))[i])]
        \o <<Judge>>

(* Faulty: a new assessment of the target is not waited for.                *)
ActionStepsWithoutTarget(cmd) ==
    <<KeyLock(cmd)>> \o Optional(cmd.reverses, ActionLock(cmd.reverses)) \o <<Judge>>

(* Faulty: two reversals of one action are judged side by side.             *)
ActionStepsWithoutRow(cmd) ==
    <<KeyLock(cmd), TargetLock(assessments[cmd.assessment].target), Judge>>
        \o <<AssessmentLock(cmd.assessment)>>

(* request_action locks the target of the assessment, not the one of the    *)
(* action, and the row of an action it revokes.                             *)
ActionSteps(cmd) ==
    <<KeyLock(cmd), TargetLock(assessments[cmd.assessment].target)>>
        \o Optional(cmd.reverses, ActionLock(cmd.reverses)) \o <<Judge>>
        \o <<AssessmentLock(cmd.assessment)>>

StepsOf(cmd) ==
    CASE cmd.kind = "report" -> <<KeyLock(cmd), Judge>>
      [] cmd.kind = "intake" -> IntakeSteps(cmd)
      [] cmd.kind = "assess" -> AssessmentSteps(cmd)
      [] cmd.kind = "act"    -> ActionSteps(cmd)
      [] cmd.kind = "cancel" -> <<ActionLock(cmd.id), Judge>>

HeldByOther(a, lock) == \E b \in Admins \ {a} : lock \in tx[b].held

-----------------------------------------------------------------------------
(* What a request may do, judged on the committed rows *)

Superseded(e) == \E f \in Assessments : assessments[f] # NoCase /\ assessments[f].previous = e

Assessed(r) == \E e \in Assessments : assessments[e] # NoCase /\ r \in assessments[e].reports

(* The reports met on the way from r: whatever set holds r and, with each    *)
(* report, the one it is a duplicate of, holds them.                        *)
Chain(r) ==
    LET followed == {T \in SUBSET Reports :
                        r \in T /\ \A q \in T : reports[q].dup # NoCase => reports[q].dup \in T}
    IN {q \in Reports : \A T \in followed : q \in T}

(* submit_report: an accessible work, or any user.                          *)
MaySubmit(cmd) ==
    reports[cmd.id].status = "none" /\ (TargetOf[cmd.id] \in ReviewWorks => TargetOf[cmd.id] \in works)

MayChangeIntake(cmd) ==
    /\ reports[cmd.id].status = "received" /\ cmd.id \notin Legacy
    /\ ~Assessed(cmd.id)
    /\ cmd.dup # NoCase =>
          /\ cmd.id \notin Chain(cmd.dup)
          /\ \A q \in Chain(cmd.dup) :
                TargetOf[q] = TargetOf[cmd.id]
                /\ reports[q].status \notin {"none", "rejected"}

(* Faulty: an assessment may be replaced a second time.                     *)
MayAssessAgain(cmd) ==
    /\ cmd.previous # NoCase => assessments[cmd.previous] # NoCase
    /\ \A r \in cmd.reports : TargetOf[r] = cmd.target /\ reports[r].status = "received"

MayAssess(cmd) ==
    /\ cmd.previous # NoCase =>
          /\ assessments[cmd.previous] # NoCase /\ ~Superseded(cmd.previous)
          /\ assessments[cmd.previous].target = cmd.target
    /\ \A r \in cmd.reports : TargetOf[r] = cmd.target /\ reports[r].status = "received"
    /\ cmd.reports \cap Legacy # {} => cmd.acknowledged

Concerns(cmd, e) ==
    \/ cmd.target = assessments[e].target
    \/ assessments[e].target \in works /\ OwnerOf[assessments[e].target] = cmd.target

LiveReversal(x) ==
    \E y \in Actions : actions[y] # NoCase /\ actions[y].reverses = x
                       /\ actions[y].status # "cancelled"

MayRevoke(cmd) ==
    /\ actions[cmd.reverses] # NoCase
    /\ actions[cmd.reverses].status = "applied" /\ actions[cmd.reverses].type # "revoke"
    /\ actions[cmd.reverses].target = cmd.target
    /\ ~LiveReversal(cmd.reverses)

(* Faulty: an assessment that found nothing carries any action.             *)
MayActUnfounded(cmd) ==
    /\ ~Superseded(cmd.assessment) /\ Concerns(cmd, cmd.assessment)
    /\ cmd.reverses # NoCase => MayRevoke(cmd)

MayAct(cmd) ==
    /\ ~Superseded(cmd.assessment)
    /\ cmd.type # "revoke" => assessments[cmd.assessment].outcome = "violation"
    /\ Concerns(cmd, cmd.assessment)
    /\ cmd.reverses # NoCase => MayRevoke(cmd)

MayDo(cmd) ==
    CASE cmd.kind = "report" -> MaySubmit(cmd)
      [] cmd.kind = "intake" -> MayChangeIntake(cmd)
      [] cmd.kind = "assess" -> MayAssess(cmd)
      [] cmd.kind = "act"    -> MayAct(cmd)
      [] cmd.kind = "cancel" -> actions[cmd.id] # NoCase /\ actions[cmd.id].status = "pending"

(* The answer is already stored: the same request returns it, another one   *)
(* with its key is refused; neither writes.                                 *)
Answered(cmd) ==
    CASE cmd.kind = "report" -> reports[cmd.id].status # "none"
      [] cmd.kind = "intake" -> reports[cmd.id] = [status |-> cmd.status, dup |-> cmd.dup]
      [] cmd.kind = "assess" -> assessments[cmd.id] # NoCase
      [] cmd.kind = "act"    -> actions[cmd.id] # NoCase
      [] cmd.kind = "cancel" -> actions[cmd.id] # NoCase /\ actions[cmd.id].status = "cancelled"

-----------------------------------------------------------------------------
(* Steps of a transaction *)

(* What is refused before a transaction begins.                             *)
WellFormedReport(cmd) == cmd.kind = "report" => cmd.id \in Reports
WellFormedIntake(cmd) ==
    cmd.kind = "intake" => /\ cmd.status \in {"duplicate", "rejected"}
                           /\ (cmd.status = "duplicate") = (cmd.dup # NoCase)
WellFormedAssessment(cmd) ==
    cmd.kind = "assess" => /\ cmd.reports # {}
                           /\ cmd.outcome \in {"violation", "no_violation"}
WellFormedAction(cmd) ==
    cmd.kind = "act" => /\ cmd.target \in Users \cup ReviewWorks
                        /\ (cmd.type = "revoke") = (cmd.reverses # NoCase)
WellFormed(cmd) ==
    /\ WellFormedReport(cmd) /\ WellFormedIntake(cmd)
    /\ WellFormedAssessment(cmd) /\ WellFormedAction(cmd)

Begin(a) ==
    /\ tx[a] = Idle
    /\ \E cmd \in Commands :
          /\ WellFormed(cmd)
          /\ cmd.kind = "intake" => reports[cmd.id].status # "none"
          /\ cmd.kind = "act" => assessments[cmd.assessment] # NoCase
          /\ tx' = [tx EXCEPT ![a] = [cmd |-> cmd, todo |-> StepsOf(cmd), held |-> {}]]
    /\ UNCHANGED <<reports, assessments, actions, works>>

Acquire(a) ==
    LET lock == Head(tx[a].todo) IN
    /\ tx[a].todo # <<>> /\ lock # Judge /\ ~HeldByOther(a, lock)
    /\ tx' = [tx EXCEPT ![a].todo = Tail(@), ![a].held = @ \cup {lock}]
    /\ UNCHANGED <<reports, assessments, actions, works>>

Decide(a) ==
    /\ tx[a].todo # <<>> /\ Head(tx[a].todo) = Judge
    /\ ~Answered(tx[a].cmd) /\ MayDo(tx[a].cmd)
    /\ tx' = [tx EXCEPT ![a].todo = Tail(@)]
    /\ UNCHANGED <<reports, assessments, actions, works>>

WriteReport(cmd) ==
    /\ cmd.kind = "report" /\ reports' = [reports EXCEPT ![cmd.id] = Received]
    /\ UNCHANGED <<assessments, actions>>
WriteIntake(cmd) ==
    /\ cmd.kind = "intake"
    /\ reports' = [reports EXCEPT ![cmd.id] = [status |-> cmd.status, dup |-> cmd.dup]]
    /\ UNCHANGED <<assessments, actions>>
WriteAssessment(cmd) ==
    /\ cmd.kind = "assess"
    /\ assessments' = [assessments EXCEPT ![cmd.id] =
           [target |-> cmd.target, reports |-> cmd.reports,
            outcome |-> cmd.outcome, previous |-> cmd.previous]]
    /\ UNCHANGED <<reports, actions>>
WriteAction(cmd) ==
    /\ cmd.kind = "act"
    /\ actions' = [actions EXCEPT ![cmd.id] =
           [assessment |-> cmd.assessment, target |-> cmd.target, type |-> cmd.type,
            reverses |-> cmd.reverses, status |-> "pending"]]
    /\ UNCHANGED <<reports, assessments>>
WriteCancellation(cmd) ==
    /\ cmd.kind = "cancel"
    /\ actions' = [actions EXCEPT ![cmd.id].status = "cancelled"]
    /\ UNCHANGED <<reports, assessments>>

Commit(a) ==
    /\ tx[a].cmd # NoCase /\ tx[a].todo = <<>>
    /\ \/ WriteReport(tx[a].cmd) \/ WriteIntake(tx[a].cmd) \/ WriteAssessment(tx[a].cmd)
       \/ WriteAction(tx[a].cmd) \/ WriteCancellation(tx[a].cmd)
    /\ tx' = [tx EXCEPT ![a] = Idle]
    /\ UNCHANGED works

(* Replayed, refused, cancelled or lost: nothing of it is kept.             *)
Rollback(a) ==
    /\ tx[a] # Idle
    /\ tx' = [tx EXCEPT ![a] = Idle]
    /\ UNCHANGED <<reports, assessments, actions, works>>

(* Outside this module: an executor carries a pending action out, and the   *)
(* owner of a work removes it.                                              *)
Execute(x) ==
    /\ actions[x] # NoCase /\ actions[x].status = "pending" /\ ~\E a \in Admins : ActionLock(x) \in tx[a].held
    /\ \E status \in {"applied", "failed"} : actions' = [actions EXCEPT ![x].status = status]
    /\ UNCHANGED <<reports, assessments, works, tx>>

RemoveWork(w) ==
    /\ w \in works /\ works' = works \ {w}
    /\ UNCHANGED <<reports, assessments, actions, tx>>

ReviewNext ==
    \/ \E a \in Admins : Begin(a) \/ Acquire(a) \/ Decide(a) \/ Commit(a) \/ Rollback(a)
    \/ \E x \in Actions : Execute(x)
    \/ \E w \in ReviewWorks : RemoveWork(w)

ReviewSpec == ReviewInit /\ [][ReviewNext]_reviewVars

-----------------------------------------------------------------------------
(* Properties *)

(* Every duplicate leads, within its own target, to a report that is not a  *)
(* duplicate, and no report that a judgement rests on is ever set aside:    *)
(* however intake and assessment of one target interleave.                  *)
EvidenceStands ==
    /\ \A r \in Reports : \E q \in Chain(r) : reports[q].dup = NoCase
    /\ \A r \in Reports : reports[r].dup # NoCase => TargetOf[reports[r].dup] = TargetOf[r]
    /\ \A r \in Reports : Assessed(r) => reports[r].status = "received"

(* A judgement is replaced at most once, by one of the same target: among   *)
(* the revisions of an assessment exactly one stands.                       *)
OneJudgementStands ==
    \A e, f \in Assessments :
        assessments[e] # NoCase /\ assessments[f] # NoCase /\ assessments[e].previous # NoCase =>
            /\ assessments[e].target = assessments[assessments[e].previous].target
            /\ assessments[e].previous = assessments[f].previous => e = f

(* An applied action has at most one reversal that is not cancelled, also   *)
(* when two reversals rest on assessments of different targets and so hold  *)
(* different target locks.                                                  *)
OneReversal ==
    \A x, y \in Actions :
        /\ actions[x] # NoCase /\ actions[y] # NoCase /\ x # y
        /\ actions[x].reverses # NoCase /\ actions[x].reverses = actions[y].reverses
        => "cancelled" \in {actions[x].status, actions[y].status}

(* No action is requested on the strength of a judgement that has been      *)
(* replaced by then, or that found no violation unless it lifts an action.  *)
ActionsAreGrounded ==
    [][ \A x \in Actions : actions[x] = NoCase /\ actions'[x] # NoCase =>
            /\ ~Superseded(actions'[x].assessment)
            /\ actions'[x].type # "revoke"
                  => assessments[actions'[x].assessment].outcome = "violation" ]_reviewVars

WaitsFor(a, b) ==
    tx[a].todo # <<>> /\ Head(tx[a].todo) \in tx[b].held

(* Locks are taken in one order: no two transactions wait for each other.   *)
NoCircularWait == \A a, b \in Admins : a # b => ~(WaitsFor(a, b) /\ WaitsFor(b, a))

ReviewTypeOK ==
    /\ reports \in [Reports -> ReportRows]
    /\ \A e \in Assessments : assessments[e] # NoCase => assessments[e] \in AssessmentRows
    /\ \A x \in Actions : actions[x] # NoCase => actions[x] \in ActionRows

(* The invariants of reports, judgements and actions taken together.        *)
DecisionsStand == ReviewTypeOK /\ EvidenceStands /\ OneJudgementStands /\ OneReversal
=============================================================================
