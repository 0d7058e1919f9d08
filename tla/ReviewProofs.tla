---------------------------- MODULE ReviewProofs ----------------------------
(***************************************************************************)
(* Proofs about ReviewCases, for any number of reports, judgements,        *)
(* actions, administrators and any set of requests.                        *)
(*                                                                         *)
(* A request walks along a fixed sequence of steps.  When it passes the    *)
(* one where it judges it holds the guards of all that it judges, and two  *)
(* requests hold no guard in common: so what one of them writes leaves     *)
(* what the other has judged, and a judgement is still right when the      *)
(* request commits.  The same walk, with the rank of each lock, shows that *)
(* nobody waits in a circle.                                               *)
(***************************************************************************)
EXTENDS ReviewCases, FiniteSums, SequenceTheorems

-----------------------------------------------------------------------------
(* The steps of a request: the order of its locks, and what it holds when it *)
(* judges                                                                    *)

\* The place of a lock in the one order: key, target, action, judgement, report.
LockRank(lock) ==
    CASE lock[1] = "key" -> 1 [] lock[1] = "target" -> 2 [] lock[1] = "action" -> 3
      [] lock[1] = "assessment" -> 4 [] OTHER -> 5

Before(l, m) == LockRank(l) < LockRank(m) \/ (LockRank(l) = 5 /\ LockRank(m) = 5)

\* The five kinds of locks come one after the other.
LEMMA Ranks ==
    /\ \A cmd : LockRank(KeyLock(cmd)) = 1 /\ KeyLock(cmd) # Judge
    /\ \A t : LockRank(TargetLock(t)) = 2 /\ TargetLock(t) # Judge
    /\ \A x : LockRank(ActionLock(x)) = 3 /\ ActionLock(x) # Judge
    /\ \A e : LockRank(AssessmentLock(e)) = 4 /\ AssessmentLock(e) # Judge
    /\ \A r : LockRank(ReportLock(r)) = 5 /\ ReportLock(r) # Judge
    /\ \A r, q : ReportLock(r) = ReportLock(q) => r = q
<1>1. \A cmd : LockRank(KeyLock(cmd)) = 1 /\ KeyLock(cmd) # Judge
  BY DEF LockRank, KeyLock, Judge
<1>2. \A t : LockRank(TargetLock(t)) = 2 /\ TargetLock(t) # Judge
  BY DEF LockRank, TargetLock, Judge
<1>3. \A x : LockRank(ActionLock(x)) = 3 /\ ActionLock(x) # Judge
  BY DEF LockRank, ActionLock, Judge
<1>4. \A e : LockRank(AssessmentLock(e)) = 4 /\ AssessmentLock(e) # Judge
  BY DEF LockRank, AssessmentLock, Judge
<1>5. \A r : LockRank(ReportLock(r)) = 5 /\ ReportLock(r) # Judge
  BY DEF LockRank, ReportLock, Judge
<1>6. \A r, q : ReportLock(r) = ReportLock(q) => r = q
  BY DEF ReportLock
<1> QED  BY <1>1, <1>2, <1>3, <1>4, <1>5, <1>6

\* What a request locks before it judges.
Optionally(id, lock) == IF id = NoCase THEN {} ELSE {lock}
Guards(cmd) ==
    CASE cmd.kind = "report" -> {KeyLock(cmd)}
      [] cmd.kind = "intake" -> {TargetLock(TargetOf[cmd.id]), ReportLock(cmd.id)}
      [] cmd.kind = "assess" -> {KeyLock(cmd), TargetLock(cmd.target)}
             \cup Optionally(cmd.previous, AssessmentLock(cmd.previous))
             \cup {ReportLock(r) : r \in LockedReportsOf(cmd)}
      [] cmd.kind = "act"    -> {KeyLock(cmd), TargetLock(assessments[cmd.assessment].target)}
             \cup Optionally(cmd.reverses, ActionLock(cmd.reverses))
      [] cmd.kind = "cancel" -> {ActionLock(cmd.id)}

\* The target whose lock stands before every lock of a report.
TargetFor(cmd) == IF cmd.kind = "intake" THEN TargetOf[cmd.id] ELSE cmd.target

Ordered(s) ==
    \A i, j \in 1 .. Len(s) : i < j /\ s[i] # Judge /\ s[j] # Judge => Before(s[i], s[j])

Guarded(s, cmd) ==
    \A g \in Guards(cmd) : \E i, j \in 1 .. Len(s) : i < j /\ s[i] = g /\ g # Judge /\ s[j] = Judge

\* Where a request locks a report after another one, it does so under the
\* target's lock, and the report is of that target, or the one a duplicate
\* is to lead to.
UnderTarget(s, cmd) ==
    \A i, j \in 1 .. Len(s) : i < j /\ LockRank(s[i]) = 5 /\ s[i] # Judge /\ LockRank(s[j]) = 5 /\ s[j] # Judge =>
        /\ \E h \in 1 .. Len(s) : h < i /\ s[h] = TargetLock(TargetFor(cmd))
        /\ \E r \in Reports : s[i] = ReportLock(r) /\ TargetOf[r] = TargetFor(cmd)
        /\ \/ \E q \in Reports : s[j] = ReportLock(q) /\ TargetOf[q] = TargetFor(cmd)
           \/ /\ cmd.kind = "intake" /\ cmd.dup # NoCase /\ s[j] = ReportLock(cmd.dup)
              /\ \A n \in 1 .. Len(s) : j <= n => s[n] # Judge

SoundSteps(s, cmd) ==
    /\ \E L : s \in Seq(L)
    /\ \E j \in 1 .. Len(s) : s[j] = Judge
    /\ Ordered(s) /\ Guarded(s, cmd) /\ UnderTarget(s, cmd)

\* One more step at the end of a sequence.
LEMMA Appended ==
    ASSUME NEW L, NEW s \in Seq(L), NEW x \in L, NEW n \in Nat, Len(s) = n, NEW t, t = s \o <<x>>
    PROVE  /\ t \in Seq(L) /\ Len(t) = n + 1 /\ t[n + 1] = x
           /\ \A i \in 1 .. n : t[i] = s[i]
<1>1. <<x>> \in Seq(L) /\ Len(<<x>>) = 1 /\ <<x>>[1] = x
  OBVIOUS
<1>2. /\ t \in Seq(L) /\ Len(t) = n + 1
      /\ \A i \in 1 .. n + 1 : t[i] = IF i <= n THEN s[i] ELSE <<x>>[i - n]
  BY <1>1, ConcatProperties
<1> QED  BY <1>1, <1>2

\* Each kind of request locks in the one order and judges under its guards.
LEMMA ReportStepsSound ==
    ASSUME NEW cmd \in Commands, cmd.kind = "report"
    PROVE  SoundSteps(StepsOf(cmd), cmd)
<1> DEFINE s == <<KeyLock(cmd), Judge>>
<1>1. StepsOf(cmd) = s
  BY DEF StepsOf
<1>2. Len(s) = 2 /\ s[1] = KeyLock(cmd) /\ s[2] = Judge /\ s \in Seq({KeyLock(cmd), Judge})
  OBVIOUS
<1>3. Guards(cmd) = {KeyLock(cmd)}
  BY DEF Guards
<1> HIDE DEF s
<1>4. \A i \in 1 .. Len(s) : i = 1 \/ i = 2
  BY <1>2
<1>5. Ordered(s)
  BY <1>2, <1>4 DEF Ordered
<1>6. Guarded(s, cmd)
  BY <1>2, <1>3, Ranks DEF Guarded
<1>7. UnderTarget(s, cmd)
  BY <1>2, <1>4 DEF UnderTarget
<1>8. \E j \in 1 .. Len(s) : s[j] = Judge
  BY <1>2
<1> QED  BY <1>1, <1>2, <1>5, <1>6, <1>7, <1>8 DEF SoundSteps

LEMMA CancelStepsSound ==
    ASSUME NEW cmd \in Commands, cmd.kind = "cancel"
    PROVE  SoundSteps(StepsOf(cmd), cmd)
<1> DEFINE s == <<ActionLock(cmd.id), Judge>>
<1>1. StepsOf(cmd) = s
  BY DEF StepsOf
<1>2. Len(s) = 2 /\ s[1] = ActionLock(cmd.id) /\ s[2] = Judge /\ s \in Seq({ActionLock(cmd.id), Judge})
  OBVIOUS
<1>3. Guards(cmd) = {ActionLock(cmd.id)}
  BY DEF Guards
<1> HIDE DEF s
<1>4. \A i \in 1 .. Len(s) : i = 1 \/ i = 2
  BY <1>2
<1>5. Ordered(s)
  BY <1>2, <1>4 DEF Ordered
<1>6. Guarded(s, cmd)
  BY <1>2, <1>3, Ranks DEF Guarded
<1>7. UnderTarget(s, cmd)
  BY <1>2, <1>4 DEF UnderTarget
<1>8. \E j \in 1 .. Len(s) : s[j] = Judge
  BY <1>2
<1> QED  BY <1>1, <1>2, <1>5, <1>6, <1>7, <1>8 DEF SoundSteps

LEMMA IntakeStepsSound ==
    ASSUME NEW cmd \in Commands, cmd.kind = "intake"
    PROVE  SoundSteps(StepsOf(cmd), cmd)
<1> DEFINE T == TargetLock(TargetOf[cmd.id])
           R == ReportLock(cmd.id)
           D == ReportLock(cmd.dup)
           s == StepsOf(cmd)
<1>1. cmd.id \in Reports /\ cmd.dup \in Reports \cup {NoCase}
  BY CommandAssumption
<1>2. s = <<T, R, Judge>> \o Optional(cmd.dup, D)
  BY DEF StepsOf, IntakeSteps
<1>3. Guards(cmd) = {T, R} /\ TargetFor(cmd) = TargetOf[cmd.id]
  BY DEF Guards, TargetFor
<1>4. /\ LockRank(T) = 2 /\ LockRank(R) = 5 /\ LockRank(D) = 5
      /\ T # Judge /\ R # Judge /\ D # Judge
      /\ T = TargetLock(TargetFor(cmd))
  BY Ranks, <1>3
<1>5. /\ s \in Seq({T, R, D, Judge}) /\ s[1] = T /\ s[2] = R /\ s[3] = Judge
      /\ Len(s) = IF cmd.dup = NoCase THEN 3 ELSE 4
      /\ cmd.dup # NoCase => s[4] = D
  <2>1. CASE cmd.dup = NoCase
    <3>1. s = <<T, R, Judge>> \o <<>>  BY <1>2, <2>1 DEF Optional
    <3> HIDE DEF s, T, R, D
    <3>2. <<T, R, Judge>> \in Seq({T, R, D, Judge})  OBVIOUS
    <3>3. s = <<T, R, Judge>>  BY <3>1, <3>2, ConcatEmptySeq
    <3> QED  BY <3>3, <2>1
  <2>2. CASE cmd.dup # NoCase
    <3>1. s = <<T, R, Judge>> \o <<D>>  BY <1>2, <2>2 DEF Optional
    <3> HIDE DEF s, T, R, D
    <3>2. LET p == <<T, R, Judge>> IN
          p \in Seq({T, R, D, Judge}) /\ Len(p) = 3 /\ p[1] = T /\ p[2] = R /\ p[3] = Judge
      OBVIOUS
    <3> DEFINE p == <<T, R, Judge>>
    <3> HIDE DEF p
    <3>3. p \in Seq({T, R, D, Judge}) /\ Len(p) = 3 /\ p[1] = T /\ p[2] = R /\ p[3] = Judge
      BY <3>2 DEF p
    <3>4. s = p \o <<D>>  BY <3>1 DEF p
    <3>5. /\ s \in Seq({T, R, D, Judge}) /\ Len(s) = 4 /\ s[4] = D
          /\ \A i \in 1 .. 3 : s[i] = p[i]
        <4>1. /\ s \in Seq({T, R, D, Judge}) /\ Len(s) = 3 + 1 /\ s[3 + 1] = D
            /\ \A i \in 1 .. 3 : s[i] = p[i]
        BY SMTT(20), <3>3, <3>4, Appended
      <4> QED  BY <4>1
    <3> QED  BY <3>3, <3>5, <2>2
  <2> QED  BY <2>1, <2>2
<1>6. R = ReportLock(cmd.id) /\ D = ReportLock(cmd.dup)
  OBVIOUS
<1> HIDE DEF s, T, R, D
<1>7. \A i \in 1 .. Len(s) : i = 1 \/ i = 2 \/ i = 3 \/ (i = 4 /\ cmd.dup # NoCase)
  BY <1>5
<1>8. Ordered(s)
  <2> SUFFICES ASSUME NEW i \in 1 .. Len(s), NEW j \in 1 .. Len(s), i < j, s[i] # Judge, s[j] # Judge
               PROVE  Before(s[i], s[j])
    BY DEF Ordered
  <2>1. i = 1 \/ i = 2
    BY <1>5, <1>7
  <2>2. j = 2 \/ (j = 4 /\ cmd.dup # NoCase)
    BY <1>5, <1>7
  <2>3. s[i] \in {T, R} /\ s[j] \in {R, D}
    BY <2>1, <2>2, <1>5
  <2> QED  BY <2>3, <1>4 DEF Before
<1>9. Guarded(s, cmd)
  BY <1>3, <1>4, <1>5 DEF Guarded
<1>10. UnderTarget(s, cmd)
  <2> SUFFICES ASSUME NEW i \in 1 .. Len(s), NEW j \in 1 .. Len(s), i < j,
                      LockRank(s[i]) = 5, s[i] # Judge, LockRank(s[j]) = 5, s[j] # Judge
               PROVE  /\ \E h \in 1 .. Len(s) : h < i /\ s[h] = TargetLock(TargetFor(cmd))
                      /\ \E r \in Reports : s[i] = ReportLock(r) /\ TargetOf[r] = TargetFor(cmd)
                      /\ cmd.kind = "intake" /\ cmd.dup # NoCase /\ s[j] = ReportLock(cmd.dup)
                      /\ \A n \in 1 .. Len(s) : j <= n => s[n] # Judge
    BY DEF UnderTarget
  <2>1. i = 2 /\ j = 4 /\ cmd.dup # NoCase
    BY <1>4, <1>5, <1>7
  <2>2. 1 \in 1 .. Len(s) /\ 1 < i /\ s[1] = TargetLock(TargetFor(cmd))
    BY <2>1, <1>5, <1>4
  <2>3. s[i] = ReportLock(cmd.id) /\ TargetOf[cmd.id] = TargetFor(cmd)
    BY <2>1, <1>5, <1>6, <1>3
  <2>4. \A n \in 1 .. Len(s) : j <= n => s[n] # Judge
    BY <2>1, <1>7, <1>5, <1>4
  <2> QED  BY <2>1, <2>2, <2>3, <2>4, <1>1, <1>5, <1>6
<1>11. \E j \in 1 .. Len(s) : s[j] = Judge
  BY <1>5
<1>12. SoundSteps(s, cmd)
  BY <1>5, <1>8, <1>9, <1>10, <1>11 DEF SoundSteps
<1> QED  BY <1>12 DEF s

LEMMA ActStepsSound ==
    ASSUME NEW cmd \in Commands, cmd.kind = "act"
    PROVE  SoundSteps(StepsOf(cmd), cmd)
<1> DEFINE K == KeyLock(cmd)
           T == TargetLock(assessments[cmd.assessment].target)
           X == ActionLock(cmd.reverses)
           E == AssessmentLock(cmd.assessment)
           s == StepsOf(cmd)
<1>1. s = <<K, T>> \o Optional(cmd.reverses, X) \o <<Judge>> \o <<E>>
  BY DEF StepsOf, ActionSteps
<1>2. Guards(cmd) = {K, T} \cup Optionally(cmd.reverses, X)
  BY DEF Guards
<1>3. /\ LockRank(K) = 1 /\ LockRank(T) = 2 /\ LockRank(X) = 3 /\ LockRank(E) = 4
      /\ K # Judge /\ T # Judge /\ X # Judge /\ E # Judge
  BY Ranks
<1>4. CASE cmd.reverses = NoCase
  <2>1. s = (<<K, T>> \o <<>>) \o <<Judge>> \o <<E>>
    BY <1>1, <1>4 DEF Optional
  <2>3. Guards(cmd) = {K, T}
    BY <1>2, <1>4 DEF Optionally
  <2> HIDE DEF s, K, T, X, E
  <2>4. /\ s \in Seq({K, T, E, Judge}) /\ s[1] = K /\ s[2] = T /\ s[3] = Judge /\ s[4] = E /\ Len(s) = 4
    <3> DEFINE L == {K, T, E, Judge}
               p == <<K, T>>
               p1 == p \o <<Judge>>
    <3>1. p \in Seq(L) /\ Len(p) = 2 /\ p[1] = K /\ p[2] = T
      OBVIOUS
    <3>2. K \in L /\ T \in L /\ E \in L /\ Judge \in L
      OBVIOUS
    <3>3. s = (p \o <<>>) \o <<Judge>> \o <<E>>
      BY <2>1
    <3> HIDE DEF p, L
    <3>4. s = p1 \o <<E>>
      BY <3>1, <3>3, ConcatEmptySeq
    <3> HIDE DEF K, T, X, E
    <3>5. p1 \in Seq(L) /\ Len(p1) = 3 /\ p1[1] = K /\ p1[2] = T /\ p1[3] = Judge
      <4>1. /\ p1 \in Seq(L) /\ Len(p1) = 2 + 1 /\ p1[2 + 1] = Judge
            /\ \A i \in 1 .. 2 : p1[i] = p[i]
        <5>1. p1 = p \o <<Judge>>  BY DEF p1
        <5> HIDE DEF p1
        <5> QED  BY <5>1, <3>1, <3>2, Appended
      <4> QED  BY <4>1, <3>1
    <3> HIDE DEF p1
    <3>6. /\ s \in Seq(L) /\ Len(s) = 4 /\ s[4] = E
          /\ \A i \in 1 .. 3 : s[i] = p1[i]
        <4>1. /\ s \in Seq(L) /\ Len(s) = 3 + 1 /\ s[3 + 1] = E
            /\ \A i \in 1 .. 3 : s[i] = p1[i]
        BY SMTT(20), <3>2, <3>4, <3>5, Appended
      <4> QED  BY <4>1
    <3> QED  BY <3>5, <3>6 DEF L
  <2>5. \A i \in 1 .. Len(s) : i = 1 \/ i = 2 \/ i = 3 \/ i = 4
    BY <2>4
  <2>6. Ordered(s)
    <3> SUFFICES ASSUME NEW i \in 1 .. Len(s), NEW j \in 1 .. Len(s), i < j, s[i] # Judge, s[j] # Judge
                 PROVE  Before(s[i], s[j])
      BY DEF Ordered
    <3>1. (i = 1 /\ j = 2) \/ (i = 1 /\ j = 4) \/ (i = 2 /\ j = 4)
      BY <2>4, <2>5
    <3> QED  BY <3>1, <2>4, <1>3 DEF Before
  <2>7. Guarded(s, cmd)
    BY <2>3, <2>4, <1>3 DEF Guarded
  <2>8. UnderTarget(s, cmd)
    BY <2>4, <2>5, <1>3 DEF UnderTarget
  <2>9. \E j \in 1 .. Len(s) : s[j] = Judge
    BY <2>4
  <2>10. SoundSteps(s, cmd)
    BY <2>4, <2>6, <2>7, <2>8, <2>9 DEF SoundSteps
  <2> QED  BY <2>10 DEF s
<1>5. CASE cmd.reverses # NoCase
  <2>1. s = (<<K, T>> \o <<X>>) \o <<Judge>> \o <<E>>
    BY <1>1, <1>5 DEF Optional
  <2>3. Guards(cmd) = {K, T, X}
    BY <1>2, <1>5 DEF Optionally
  <2> HIDE DEF s, K, T, X, E
  <2>4. /\ s \in Seq({K, T, X, E, Judge}) /\ s[1] = K /\ s[2] = T /\ s[3] = X /\ s[4] = Judge /\ s[5] = E
        /\ Len(s) = 5
    <3> DEFINE L == {K, T, X, E, Judge}
               p == <<K, T>>
               p1 == p \o <<X>>
               p2 == p1 \o <<Judge>>
    <3>1. p \in Seq(L) /\ Len(p) = 2 /\ p[1] = K /\ p[2] = T
      OBVIOUS
    <3>2. K \in L /\ T \in L /\ X \in L /\ E \in L /\ Judge \in L
      OBVIOUS
    <3>3. s = p2 \o <<E>>
      BY <2>1
    <3> HIDE DEF p, L
    <3>4. p1 \in Seq(L) /\ Len(p1) = 3 /\ p1[1] = K /\ p1[2] = T /\ p1[3] = X
      <4>1. /\ p1 \in Seq(L) /\ Len(p1) = 2 + 1 /\ p1[2 + 1] = X
            /\ \A i \in 1 .. 2 : p1[i] = p[i]
        <5>1. p1 = p \o <<X>>  BY DEF p1
        <5> HIDE DEF p1
        <5> QED  BY <5>1, <3>1, <3>2, Appended
      <4> QED  BY <4>1, <3>1
    <3> HIDE DEF p1
    <3>5. /\ p2 \in Seq(L) /\ Len(p2) = 4 /\ p2[4] = Judge
          /\ \A i \in 1 .. 3 : p2[i] = p1[i]
        <4>1. /\ p2 \in Seq(L) /\ Len(p2) = 3 + 1 /\ p2[3 + 1] = Judge
            /\ \A i \in 1 .. 3 : p2[i] = p1[i]
        <5>1. p2 = p1 \o <<Judge>>  BY DEF p2
        <5> HIDE DEF p2
        <5> QED  BY SMTT(20), <5>1, <3>2, <3>4, Appended
      <4> QED  BY <4>1
    <3> HIDE DEF p2
    <3> HIDE DEF K, T, X, E
    <3>6. /\ s \in Seq(L) /\ Len(s) = 5 /\ s[5] = E
          /\ \A i \in 1 .. 4 : s[i] = p2[i]
        <4>1. /\ s \in Seq(L) /\ Len(s) = 4 + 1 /\ s[4 + 1] = E
            /\ \A i \in 1 .. 4 : s[i] = p2[i]
        <5>1. E \in L /\ p2 \in Seq(L) /\ Len(p2) = 4
          BY <3>2, <3>5
        <5>2. s = p2 \o <<E>>
          BY <3>3
        <5> HIDE DEF s, L, E, p2
        <5>3. ASSUME NEW n \in Nat, Len(p2) = n
              PROVE  /\ s \in Seq(L) /\ Len(s) = n + 1 /\ s[n + 1] = E
                     /\ \A i \in 1 .. n : s[i] = p2[i]
          <6>1. p2 \in Seq(L) /\ E \in L
            BY <5>1
          <6>2. /\ p2 \o <<E>> \in Seq(L) /\ Len(p2 \o <<E>>) = n + 1 /\ (p2 \o <<E>>)[n + 1] = E
                /\ \A i \in 1 .. n : (p2 \o <<E>>)[i] = p2[i]
            BY <6>1, <5>3, Appended
          <6> QED  BY <6>2, <5>2
        <5> QED  BY <5>1, <5>3
      <4> QED  BY <4>1
    <3> QED  BY <3>4, <3>5, <3>6 DEF L
  <2>5. \A i \in 1 .. Len(s) : i = 1 \/ i = 2 \/ i = 3 \/ i = 4 \/ i = 5
    BY <2>4
  <2>6. Ordered(s)
    <3> SUFFICES ASSUME NEW i \in 1 .. Len(s), NEW j \in 1 .. Len(s), i < j, s[i] # Judge, s[j] # Judge
                 PROVE  Before(s[i], s[j])
      BY DEF Ordered
    <3>1. s[i] \in {K, T, X} /\ s[j] \in {T, X, E} /\ LockRank(s[i]) < LockRank(s[j])
      BY <2>4, <2>5, <1>3
    <3> QED  BY <3>1 DEF Before
  <2>7. Guarded(s, cmd)
    BY <2>3, <2>4, <1>3 DEF Guarded
  <2>8. UnderTarget(s, cmd)
    BY <2>4, <2>5, <1>3 DEF UnderTarget
  <2>9. \E j \in 1 .. Len(s) : s[j] = Judge
    BY <2>4
  <2>10. SoundSteps(s, cmd)
    BY <2>4, <2>6, <2>7, <2>8, <2>9 DEF SoundSteps
  <2> QED  BY <2>10 DEF s
<1> QED  BY <1>4, <1>5

\* The reports of a judgement are locked by rising id.
LEMMA InOrderIsIncreasing ==
    ASSUME NEW S \in SUBSET Reports
    PROVE  Cardinality(S) \in Nat /\ Increasing(S, InOrder(S))
<1>1. S \subseteq Nat /\ IsFiniteSet(S)
  BY ReviewAssumption, FS_Subset
<1> QED  BY <1>1, Ordering DEF InOrder

LEMMA AssessStepsSound ==
    ASSUME NEW cmd \in Commands, cmd.kind = "assess"
    PROVE  SoundSteps(StepsOf(cmd), cmd)
<1> DEFINE K == KeyLock(cmd)
           T == TargetLock(cmd.target)
           E == AssessmentLock(cmd.previous)
           S == LockedReportsOf(cmd)
           n == Cardinality(S)
           q == InOrder(S)
           R == [i \in 1 .. n |-> ReportLock(q[i])]
           L == {K, T, E, Judge} \cup {ReportLock(r) : r \in Reports}
           front == <<K, T>> \o Optional(cmd.previous, E)
           p == Len(front)
           s == StepsOf(cmd)
<1>1. s = front \o R \o <<Judge>>
  BY DEF StepsOf, AssessmentSteps
<1>2. Guards(cmd) = {K, T} \cup Optionally(cmd.previous, E) \cup {ReportLock(r) : r \in S}
  BY DEF Guards
<1>3. /\ LockRank(K) = 1 /\ LockRank(T) = 2 /\ LockRank(E) = 4
      /\ K # Judge /\ T # Judge /\ E # Judge
      /\ \A r : LockRank(ReportLock(r)) = 5 /\ ReportLock(r) # Judge
  BY Ranks
<1>4. S \in SUBSET Reports /\ \A r \in S : r \in Reports /\ TargetOf[r] = cmd.target
  BY CommandAssumption DEF LockedReportsOf
<1>5. n \in Nat /\ q \in [1 .. n -> S] /\ \A x \in S : \E i \in 1 .. n : q[i] = x
  BY <1>4, InOrderIsIncreasing DEF Increasing
<1>6. T = TargetLock(TargetFor(cmd)) /\ TargetFor(cmd) = cmd.target
  BY DEF TargetFor
<1>7. K \in L /\ T \in L /\ E \in L /\ Judge \in L /\ \A r \in Reports : ReportLock(r) \in L
  OBVIOUS
<1>8. /\ front \in Seq(L) /\ p \in {2, 3} /\ front[1] = K /\ front[2] = T
      /\ p = 3 => front[3] = E
      /\ cmd.previous # NoCase => p = 3
  <2> DEFINE f == <<K, T>>
  <2>1. f \in Seq(L) /\ Len(f) = 2 /\ f[1] = K /\ f[2] = T
    BY <1>7
  <2>2. front = IF cmd.previous = NoCase THEN f \o <<>> ELSE f \o <<E>>
    BY DEF Optional
  <2> HIDE DEF f, front, L, K, T, E
  <2>3. CASE cmd.previous = NoCase
    <3>1. front = f
      BY <2>1, <2>2, <2>3, ConcatEmptySeq
    <3> QED  BY <3>1, <2>1, <2>3
  <2>4. CASE cmd.previous # NoCase
    <3>1. front = f \o <<E>>
      BY <2>2, <2>4
    <3>2. front \in Seq(L) /\ Len(front) = 3 /\ front[3] = E /\ \A i \in 1 .. 2 : front[i] = f[i]
        <4>1. /\ front \in Seq(L) /\ Len(front) = 2 + 1 /\ front[2 + 1] = E
            /\ \A i \in 1 .. 2 : front[i] = f[i]
        BY <3>1, <2>1, <1>7, Appended
      <4> QED  BY <4>1
    <3> QED  BY <3>2, <2>1
  <2> QED  BY <2>3, <2>4
<1>9. R \in Seq(L) /\ Len(R) = n /\ \A i \in 1 .. n : R[i] = ReportLock(q[i])
  <2> HIDE DEF q, n, S, L
  <2>1. \A i \in 1 .. n : ReportLock(q[i]) \in L
    BY <1>4, <1>5, <1>7
  <2>2. R \in [1 .. n -> L]
    BY <2>1
  <2>3. R \in Seq(L)
    BY <2>2, <1>5, SeqDef
  <2> QED  BY <2>2, <2>3, <1>5, LenProperties
<1> HIDE DEF R, front, p
<1>10. /\ s \in Seq(L) /\ Len(s) = p + n + 1 /\ s[p + n + 1] = Judge
       /\ \A i \in 1 .. p : s[i] = front[i]
       /\ \A i \in 1 .. n : s[p + i] = ReportLock(q[i])
  <2> HIDE DEF q, n, S, L, s
  <2> DEFINE b == front \o R
  <2>1. p = Len(front)  BY DEF p
  <2>2. /\ b \in Seq(L) /\ Len(b) = p + n
        /\ \A i \in 1 .. p + n : b[i] = IF i <= p THEN front[i] ELSE R[i - p]
    BY <2>1, <1>8, <1>9, ConcatProperties
  <2> HIDE DEF b
  <2>3. s = b \o <<Judge>>
    BY <1>1 DEF b
  <2>4. /\ s \in Seq(L) /\ Len(s) = Len(b) + 1 /\ s[Len(b) + 1] = Judge
        /\ \A i \in 1 .. Len(b) : s[i] = b[i]
    BY <2>2, <2>3, <1>7, Appended
  <2>5. ASSUME NEW i \in 1 .. n PROVE s[p + i] = ReportLock(q[i])
    <3>1. p + i \in 1 .. p + n /\ ~(p + i <= p) /\ (p + i) - p = i
      BY <1>8, <1>5
    <3>2. b[p + i] = R[i]
      BY <3>1, <2>2
    <3> QED  BY <3>1, <3>2, <2>4, <2>2, <1>9
  <2>6. ASSUME NEW i \in 1 .. p PROVE s[i] = front[i]
    <3>1. i \in 1 .. p + n /\ i <= p
      BY <1>8, <1>5
    <3> QED  BY <3>1, <2>4, <2>2
  <2> QED  BY <2>2, <2>4, <2>5, <2>6
<1>11. /\ 1 \in 1 .. Len(s) /\ 2 \in 1 .. Len(s) /\ Len(s) \in Nat
       /\ s[1] = K /\ s[2] = T
       /\ p = 3 => 3 \in 1 .. Len(s) /\ s[3] = E
  BY <1>5, <1>8, <1>10
<1>12. ASSUME NEW i \in 1 .. Len(s)
       PROVE  \/ i = 1 /\ s[i] = K
              \/ i = 2 /\ s[i] = T
              \/ i = 3 /\ p = 3 /\ s[i] = E
              \/ i = Len(s) /\ s[i] = Judge
              \/ i > p /\ \E r \in S : s[i] = ReportLock(r)
  <2>1. i <= p \/ i = p + n + 1 \/ \E j \in 1 .. n : i = p + j
    <3>1. CASE p < i /\ i < p + n + 1
      <4>1. i - p \in 1 .. n /\ i = p + (i - p)
        BY <3>1, <1>5, <1>8
      <4> QED  BY <4>1
    <3> QED  BY <3>1, <1>5, <1>8, <1>10
  <2> HIDE DEF q, n, S, s, K, T, E
  <2>2. CASE i <= p
    BY <2>2, <1>8, <1>10
  <2>3. CASE \E j \in 1 .. n : i = p + j
    <3>1. PICK j \in 1 .. n : i = p + j
      BY <2>3
    <3>2. q[j] \in S /\ i > p
      BY <3>1, <1>5, <1>8
    <3>3. s[i] = ReportLock(q[j])
      BY <3>1, <1>10
    <3> QED  BY <3>2, <3>3
  <2> QED  BY <2>1, <2>2, <2>3, <1>10
<1> HIDE DEF q, n, S, s, K, T, E, L
<1>13. Ordered(s)
  <2> SUFFICES ASSUME NEW i \in 1 .. Len(s), NEW j \in 1 .. Len(s), i < j, s[i] # Judge, s[j] # Judge
               PROVE  Before(s[i], s[j])
    BY DEF Ordered
  <2>1. i \in Nat /\ j \in Nat
    OBVIOUS
  <2>2. CASE i > p /\ LockRank(s[i]) = 5
    <3>1. j > p
      BY <2>1, <2>2, <1>8
    <3>2. LockRank(s[j]) = 5
      BY <3>1, <1>12, <1>3, <1>8, <2>1
    <3> QED  BY <3>2, <2>2 DEF Before
  <2>3. CASE i = 1 /\ LockRank(s[i]) = 1
    <3>1. LockRank(s[j]) \in {2, 4, 5}
      BY <1>12, <1>3, <2>1, <2>3
    <3> QED  BY <3>1, <2>3 DEF Before
  <2>4. CASE i = 2 /\ LockRank(s[i]) = 2
    <3>1. LockRank(s[j]) \in {4, 5}
      BY <1>12, <1>3, <2>1, <2>4
    <3> QED  BY <3>1, <2>4 DEF Before
  <2>5. CASE i = 3 /\ LockRank(s[i]) = 4
    <3>1. LockRank(s[j]) = 5
      BY <1>12, <1>3, <2>1, <2>5
    <3> QED  BY <3>1, <2>5 DEF Before
  <2> QED  BY <2>2, <2>3, <2>4, <2>5, <1>12, <1>3
<1>14. Guarded(s, cmd)
  <2> SUFFICES ASSUME NEW g \in Guards(cmd)
               PROVE  \E i, j \in 1 .. Len(s) : i < j /\ s[i] = g /\ g # Judge /\ s[j] = Judge
    BY DEF Guarded
  <2>1. Len(s) \in 1 .. Len(s) /\ s[Len(s)] = Judge
    BY <1>5, <1>8, <1>10
  <2>2. g # Judge
    BY <1>2, <1>3 DEF Optionally
  <2>3. \E i \in 1 .. Len(s) : s[i] = g
    <3>1. CASE g = K \/ g = T
      BY <3>1, <1>11
    <3>2. CASE g \in Optionally(cmd.previous, E)
      <4>1. g = E /\ cmd.previous # NoCase
        BY <3>2 DEF Optionally
      <4> QED  BY <4>1, <1>8, <1>11
    <3>3. CASE g \in {ReportLock(r) : r \in S}
      <4>1. PICK r \in S : g = ReportLock(r)
        BY <3>3
      <4>2. PICK i \in 1 .. n : q[i] = r
        BY <1>5
      <4>3. p + i \in 1 .. Len(s) /\ s[p + i] = g
        BY <4>1, <4>2, <1>5, <1>8, <1>10
      <4> QED  BY <4>3
    <3> QED  BY <3>1, <3>2, <3>3, <1>2
  <2>4. PICK i \in 1 .. Len(s) : s[i] = g
    BY <2>3
  <2>5. i < Len(s)
    BY <2>1, <2>2, <2>4, <1>11
  <2> QED  BY <2>1, <2>2, <2>4, <2>5
<1>15. UnderTarget(s, cmd)
  <2> SUFFICES ASSUME NEW i \in 1 .. Len(s), NEW j \in 1 .. Len(s), i < j,
                      LockRank(s[i]) = 5, s[i] # Judge, LockRank(s[j]) = 5, s[j] # Judge
               PROVE  /\ \E h \in 1 .. Len(s) : h < i /\ s[h] = TargetLock(TargetFor(cmd))
                      /\ \E r \in Reports : s[i] = ReportLock(r) /\ TargetOf[r] = TargetFor(cmd)
                      /\ \E r \in Reports : s[j] = ReportLock(r) /\ TargetOf[r] = TargetFor(cmd)
    BY DEF UnderTarget
  <2>1. i > p /\ \E r \in S : s[i] = ReportLock(r)
    BY <1>12, <1>3
  <2>2. j > p /\ \E r \in S : s[j] = ReportLock(r)
    BY <1>12, <1>3
  <2>3. 2 < i
    BY <2>1, <1>8
  <2> QED  BY <2>1, <2>2, <2>3, <1>4, <1>6, <1>11
<1>16. \E j \in 1 .. Len(s) : s[j] = Judge
  BY <1>5, <1>8, <1>10
<1>17. SoundSteps(s, cmd)
  BY <1>10, <1>13, <1>14, <1>15, <1>16 DEF SoundSteps
<1> QED  BY <1>17 DEF s

\* So do all requests.
LEMMA StepsSound ==
    ASSUME NEW cmd \in Commands
    PROVE  SoundSteps(StepsOf(cmd), cmd)
BY CommandAssumption, ReportStepsSound, CancelStepsSound, IntakeStepsSound, ActStepsSound,
   AssessStepsSound

-----------------------------------------------------------------------------
(* A request is at a place of its steps *)

\* What a request refers to was there when it began.
Begun(cmd) ==
    /\ WellFormed(cmd)
    /\ cmd.kind = "intake" => reports[cmd.id].status # "none"
    /\ cmd.kind = "act" => assessments[cmd.assessment] # NoCase

\* The first steps are done and their locks held; the others are left.
Walked(cmd, todo, held) ==
    LET s == StepsOf(cmd) IN
    \E k \in 0 .. Len(s) :
        /\ todo = [i \in 1 .. Len(s) - k |-> s[k + i]]
        /\ held = {s[i] : i \in 1 .. k} \ {Judge}

\* The request has judged: nothing to judge is left of its steps.
Judged(todo) == \A i \in 1 .. Len(todo) : todo[i] # Judge

\* It begins with all its steps before it,
LEMMA WalkBegins ==
    ASSUME NEW cmd \in Commands
    PROVE  Walked(cmd, StepsOf(cmd), {}) /\ ~Judged(StepsOf(cmd))
<1> DEFINE s == StepsOf(cmd)
<1>1. PICK L : s \in Seq(L)
  BY StepsSound DEF SoundSteps
<1>2. \E j \in 1 .. Len(s) : s[j] = Judge
  BY StepsSound DEF SoundSteps
<1> HIDE DEF s
<1>3. Len(s) \in Nat /\ s \in [1 .. Len(s) -> L]
  BY <1>1, LenProperties
<1>4. s = [i \in 1 .. Len(s) - 0 |-> s[0 + i]] /\ {} = {s[i] : i \in 1 .. 0} \ {Judge} /\ 0 \in 0 .. Len(s)
  BY <1>3
<1>5. Walked(cmd, s, {})
  BY <1>4 DEF Walked, s
<1> QED  BY <1>2, <1>5 DEF Judged, s

\* What is left of a sequence of steps, as a sequence.
LEMMA Rest ==
    ASSUME NEW L, NEW s \in Seq(L), NEW k \in 0 .. Len(s), NEW todo,
           todo = [i \in 1 .. Len(s) - k |-> s[k + i]]
    PROVE  /\ todo \in Seq(L) /\ Len(todo) = Len(s) - k
           /\ \A i \in 1 .. Len(s) - k : todo[i] = s[k + i]
           /\ todo # <<>> => /\ k + 1 \in 1 .. Len(s) /\ Head(todo) = s[k + 1]
                             /\ Tail(todo) = [i \in 1 .. Len(s) - (k + 1) |-> s[k + 1 + i]]
<1>1. Len(s) \in Nat /\ s \in [1 .. Len(s) -> L] /\ k \in Nat /\ Len(s) - k \in Nat
  BY LenProperties
<1>2. todo \in [1 .. Len(s) - k -> L]
  <2>1. ASSUME NEW i \in 1 .. Len(s) - k PROVE k + i \in 1 .. Len(s)
    BY <1>1
  <2> QED  BY <2>1, <1>1
<1>3. todo \in Seq(L)
  BY <1>1, <1>2, SeqDef
<1>4. Len(todo) = Len(s) - k
  BY <1>1, <1>2, <1>3, LenProperties
<1>5. ASSUME todo # <<>>
      PROVE  /\ k + 1 \in 1 .. Len(s) /\ Head(todo) = s[k + 1]
             /\ Tail(todo) = [i \in 1 .. Len(s) - (k + 1) |-> s[k + 1 + i]]
  <2>1. Len(todo) # 0
    BY <1>3, <1>5, EmptySeq
  <2>2. Len(s) - k >= 1 /\ k + 1 \in 1 .. Len(s) /\ 1 \in 1 .. Len(s) - k
    <3>1. \A n \in Nat : \A j \in 0 .. n : n - j # 0 => n - j >= 1 /\ j + 1 \in 1 .. n /\ 1 \in 1 .. n - j
      OBVIOUS
    <3>2. Len(s) \in Nat /\ k \in 0 .. Len(s) /\ Len(s) - k # 0
      BY <2>1, <1>1, <1>4
    <3> QED  BY <3>1, <3>2
  <2>3. Head(todo) = todo[1]
    BY <1>3, <1>5
  <2>4. todo[1] = s[k + 1]
    BY <2>2
  <2>5. Tail(todo) = [i \in 1 .. Len(todo) - 1 |-> todo[i + 1]]
    <3>1. /\ Tail(todo) \in Seq(L) /\ Len(Tail(todo)) = Len(todo) - 1
          /\ \A i \in 1 .. Len(Tail(todo)) : Tail(todo)[i] = todo[i + 1]
      BY <1>3, <1>5, HeadTailProperties
    <3>2. Tail(todo) = [i \in 1 .. Len(Tail(todo)) |-> Tail(todo)[i]]
      BY <3>1, LenProperties
    <3> QED  BY <3>1, <3>2
  <2>6. Len(todo) - 1 = Len(s) - (k + 1)
    BY <1>1, <1>4
  <2>7. ASSUME NEW i \in 1 .. Len(s) - (k + 1) PROVE todo[i + 1] = s[k + 1 + i]
    <3>1. i + 1 \in 1 .. Len(s) - k /\ k + (i + 1) = k + 1 + i
      BY <1>1
    <3> QED  BY <3>1
  <2> QED  BY <2>2, <2>3, <2>4, <2>5, <2>6, <2>7
<1> QED  BY <1>1, <1>3, <1>4, <1>5

\* and each step it takes leads to the next place.
LEMMA WalkGoesOn ==
    ASSUME NEW cmd \in Commands, NEW todo, NEW held, Walked(cmd, todo, held), todo # <<>>
    PROVE  /\ Head(todo) # Judge => Walked(cmd, Tail(todo), held \cup {Head(todo)})
           /\ Head(todo) = Judge => Walked(cmd, Tail(todo), held)
           /\ Head(todo) # Judge /\ Judged(Tail(todo)) => Judged(todo)
<1> DEFINE s == StepsOf(cmd)
<1>1. PICK L : s \in Seq(L)
  BY StepsSound DEF SoundSteps
<1>2. PICK k \in 0 .. Len(s) : /\ todo = [i \in 1 .. Len(s) - k |-> s[k + i]]
                               /\ held = {s[i] : i \in 1 .. k} \ {Judge}
  BY DEF Walked
<1> HIDE DEF s
<1>3. Len(s) \in Nat /\ k \in Nat
  BY <1>1, LenProperties
<1>4. /\ k + 1 \in 0 .. Len(s) /\ Head(todo) = s[k + 1]
      /\ Tail(todo) = [i \in 1 .. Len(s) - (k + 1) |-> s[k + 1 + i]]
  BY <1>1, <1>2, <1>3, Rest
<1>5. {s[i] : i \in 1 .. k + 1} = {s[i] : i \in 1 .. k} \cup {s[k + 1]}
  <2>1. 1 .. k + 1 = (1 .. k) \cup {k + 1}
    BY <1>3
  <2> QED  BY <2>1
<1>6. ASSUME Head(todo) # Judge PROVE Walked(cmd, Tail(todo), held \cup {Head(todo)})
  <2>1. held \cup {Head(todo)} = {s[i] : i \in 1 .. k + 1} \ {Judge}
    BY <1>2, <1>4, <1>5, <1>6
  <2> QED  BY <2>1, <1>4 DEF Walked, s
<1>7. ASSUME Head(todo) = Judge PROVE Walked(cmd, Tail(todo), held)
  <2>1. held = {s[i] : i \in 1 .. k + 1} \ {Judge}
    BY <1>2, <1>4, <1>5, <1>7
  <2> QED  BY <2>1, <1>4 DEF Walked, s
<1>8. ASSUME Head(todo) # Judge, Judged(Tail(todo)) PROVE Judged(todo)
  <2>1. todo \in Seq(L)
    BY <1>1, <1>2, Rest
  <2>2. Len(todo) \in Nat /\ Len(Tail(todo)) = Len(todo) - 1 /\ Head(todo) = todo[1]
        /\ \A i \in 1 .. Len(todo) - 1 : Tail(todo)[i] = todo[i + 1]
    BY <2>1, HeadTailProperties, LenProperties
  <2>3. ASSUME NEW i \in 1 .. Len(todo) PROVE todo[i] # Judge
    <3>1. CASE i = 1
      BY <3>1, <2>2, <1>8
    <3>2. CASE i # 1
      <4>1. i - 1 \in 1 .. Len(todo) - 1 /\ (i - 1) + 1 = i
        BY <3>2, <2>2
      <4> QED  BY <4>1, <2>2, <1>8 DEF Judged
    <3> QED  BY <3>1, <3>2
  <2> QED  BY <2>3 DEF Judged
<1> QED  BY <1>6, <1>7, <1>8

\* One who has judged holds all that the judgement rests on.
LEMMA JudgedUnderGuards ==
    ASSUME NEW cmd \in Commands, NEW todo, NEW held, Walked(cmd, todo, held), Judged(todo)
    PROVE  Guards(cmd) \subseteq held
<1> DEFINE s == StepsOf(cmd)
<1>1. PICK L : s \in Seq(L)
  BY StepsSound DEF SoundSteps
<1>2. Guarded(s, cmd)
  BY StepsSound DEF SoundSteps
<1>3. PICK k \in 0 .. Len(s) : /\ todo = [i \in 1 .. Len(s) - k |-> s[k + i]]
                               /\ held = {s[i] : i \in 1 .. k} \ {Judge}
  BY DEF Walked
<1> HIDE DEF s
<1>4. Len(s) \in Nat /\ k \in Nat
  BY <1>1, LenProperties
<1>5. Len(todo) = Len(s) - k /\ \A i \in 1 .. Len(s) - k : todo[i] = s[k + i]
  BY <1>1, <1>3, Rest
<1> SUFFICES ASSUME NEW g \in Guards(cmd) PROVE g \in held
  OBVIOUS
<1>6. PICK i \in 1 .. Len(s), j \in 1 .. Len(s) : i < j /\ s[i] = g /\ g # Judge /\ s[j] = Judge
  BY <1>2 DEF Guarded
<1>7. j <= k
  <2> SUFFICES ASSUME k < j PROVE FALSE
    BY <1>4
  <2>1. j - k \in 1 .. Len(s) - k /\ k + (j - k) = j
    BY <1>4
  <2>2. todo[j - k] = Judge /\ j - k \in 1 .. Len(todo)
    BY <2>1, <1>5, <1>6
  <2> QED  BY <2>2 DEF Judged
<1>8. i \in 1 .. k
  BY <1>4, <1>6, <1>7
<1> QED  BY <1>3, <1>6, <1>8

\* One who waits holds only locks that come before the one it waits for.
LEMMA WaitsInOrder ==
    ASSUME NEW cmd \in Commands, NEW todo, NEW held, Walked(cmd, todo, held),
           todo # <<>>, Head(todo) # Judge, NEW h \in held
    PROVE  /\ Before(h, Head(todo))
           /\ LockRank(h) = 5 /\ LockRank(Head(todo)) = 5 =>
                 /\ TargetLock(TargetFor(cmd)) \in held
                 /\ \E r \in Reports : h = ReportLock(r) /\ TargetOf[r] = TargetFor(cmd)
                 /\ \/ \E q \in Reports : Head(todo) = ReportLock(q) /\ TargetOf[q] = TargetFor(cmd)
                    \/ /\ cmd.kind = "intake" /\ cmd.dup # NoCase /\ Head(todo) = ReportLock(cmd.dup)
                       /\ Judged(todo)
<1> DEFINE s == StepsOf(cmd)
<1>1. PICK L : s \in Seq(L)
  BY StepsSound DEF SoundSteps
<1>2. Ordered(s) /\ UnderTarget(s, cmd)
  BY StepsSound DEF SoundSteps
<1>3. PICK k \in 0 .. Len(s) : /\ todo = [i \in 1 .. Len(s) - k |-> s[k + i]]
                               /\ held = {s[i] : i \in 1 .. k} \ {Judge}
  BY DEF Walked
<1> HIDE DEF s
<1>4. Len(s) \in Nat /\ k \in Nat
  BY <1>1, LenProperties
<1>5. Len(todo) = Len(s) - k /\ \A i \in 1 .. Len(s) - k : todo[i] = s[k + i]
  BY <1>1, <1>3, Rest
<1>6. k + 1 \in 1 .. Len(s) /\ Head(todo) = s[k + 1]
  BY <1>1, <1>3, Rest
<1>7. PICK i \in 1 .. k : h = s[i]
  BY <1>3
<1>8. h # Judge /\ i \in 1 .. Len(s) /\ i < k + 1
  BY <1>3, <1>4
<1>9. Before(h, Head(todo))
  BY <1>2, <1>6, <1>7, <1>8 DEF Ordered
<1>10. ASSUME LockRank(h) = 5, LockRank(Head(todo)) = 5
       PROVE  /\ TargetLock(TargetFor(cmd)) \in held
              /\ \E r \in Reports : h = ReportLock(r) /\ TargetOf[r] = TargetFor(cmd)
              /\ \/ \E q \in Reports : Head(todo) = ReportLock(q) /\ TargetOf[q] = TargetFor(cmd)
                 \/ /\ cmd.kind = "intake" /\ cmd.dup # NoCase /\ Head(todo) = ReportLock(cmd.dup)
                    /\ Judged(todo)
  <2> DEFINE j == k + 1
  <2>1. /\ j \in 1 .. Len(s) /\ i < j /\ LockRank(s[i]) = 5 /\ s[i] # Judge
        /\ LockRank(s[j]) = 5 /\ s[j] # Judge /\ Head(todo) = s[j]
    BY <1>6, <1>7, <1>8, <1>10
  <2> HIDE DEF j
  <2>2. /\ \E m \in 1 .. Len(s) : m < i /\ s[m] = TargetLock(TargetFor(cmd))
        /\ \E r \in Reports : s[i] = ReportLock(r) /\ TargetOf[r] = TargetFor(cmd)
        /\ \/ \E q \in Reports : s[j] = ReportLock(q) /\ TargetOf[q] = TargetFor(cmd)
           \/ /\ cmd.kind = "intake" /\ cmd.dup # NoCase /\ s[j] = ReportLock(cmd.dup)
              /\ \A n \in 1 .. Len(s) : j <= n => s[n] # Judge
    BY <2>1, <1>2, <1>8 DEF UnderTarget
  <2>3. TargetLock(TargetFor(cmd)) \in held
    <3>1. PICK m \in 1 .. Len(s) : m < i /\ s[m] = TargetLock(TargetFor(cmd))
      BY <2>2
    <3>2. m \in 1 .. k
      BY <3>1, <1>4
    <3> QED  BY <3>1, <3>2, <1>3, Ranks
  <2>4. ASSUME \A n \in 1 .. Len(s) : j <= n => s[n] # Judge PROVE Judged(todo)
    <3>1. ASSUME NEW n \in 1 .. Len(todo) PROVE todo[n] # Judge
      <4>1. k + n \in 1 .. Len(s) /\ j <= k + n /\ todo[n] = s[k + n]
        BY <1>4, <1>5 DEF j
      <4> QED  BY <4>1, <2>4
    <3> QED  BY <3>1 DEF Judged
  <2> QED  BY <2>1, <2>2, <2>3, <2>4, <1>7
<1> QED  BY <1>9, <1>10

-----------------------------------------------------------------------------
(* What a request has judged, and what others write meanwhile *)

RowsFit ==
    /\ reports \in [Reports -> ReportRows]
    /\ assessments \in [Assessments -> AssessmentRows \cup {NoCase}]
    /\ actions \in [Actions -> ActionRows \cup {NoCase}]

Stands(cmd) ==
    /\ cmd.kind = "report" => reports[cmd.id].status = "none"
    /\ cmd.kind = "intake" => MayChangeIntake(cmd)
    /\ cmd.kind = "assess" => assessments[cmd.id] = NoCase /\ MayAssess(cmd)
    /\ cmd.kind = "act" =>
          /\ actions[cmd.id] = NoCase /\ ~Superseded(cmd.assessment)
          /\ cmd.type # "revoke" => assessments[cmd.assessment].outcome = "violation"
          /\ cmd.reverses # NoCase => MayRevoke(cmd)
    /\ cmd.kind = "cancel" => actions[cmd.id] # NoCase /\ actions[cmd.id].status = "pending"

PreviousStand ==
    \A e \in Assessments : assessments[e] # NoCase /\ assessments[e].previous # NoCase =>
        assessments[assessments[e].previous] # NoCase

-----------------------------------------------------------------------------
\* The reports one is a duplicate of, directly or not, as what all closed sets share.
DupClosed(rows, T) == \A q \in T : rows[q].dup # NoCase => rows[q].dup \in T
ChainIn(rows, r) ==
    {q \in Reports : \A T \in SUBSET Reports : r \in T /\ DupClosed(rows, T) => q \in T}

\* The model says the same, of this state and the next.
LEMMA ChainIsIn == \A r : Chain(r) = ChainIn(reports, r)
  BY DEF Chain, ChainIn, DupClosed

LEMMA ChainIsInNext == \A r : Chain(r)' = ChainIn(reports', r)
  BY DEF Chain, ChainIn, DupClosed

\* A report is a duplicate of something or it is not.
LEMMA ReportRowFacts ==
    ASSUME NEW row \in ReportRows
    PROVE  /\ row.dup \in Reports \cup {NoCase} /\ (row.status = "duplicate") = (row.dup # NoCase)
           /\ row.status \in {"none", "received", "duplicate", "rejected"}
  BY DEF ReportRows

\* A chain holds its start and is closed.
LEMMA ChainFacts ==
    ASSUME NEW rows \in [Reports -> ReportRows], NEW r \in Reports
    PROVE  /\ r \in ChainIn(rows, r) /\ ChainIn(rows, r) \subseteq Reports
           /\ DupClosed(rows, ChainIn(rows, r))
           /\ \A T \in SUBSET Reports : r \in T /\ DupClosed(rows, T) => ChainIn(rows, r) \subseteq T
<1>1. ASSUME NEW q \in ChainIn(rows, r), rows[q].dup # NoCase PROVE rows[q].dup \in ChainIn(rows, r)
  <2>1. q \in Reports /\ rows[q].dup \in Reports
    BY <1>1, ReportRowFacts DEF ChainIn
  <2>2. ASSUME NEW T \in SUBSET Reports, r \in T, DupClosed(rows, T) PROVE rows[q].dup \in T
    <3>1. q \in T
      BY <1>1, <2>2 DEF ChainIn
    <3> QED  BY <3>1, <2>2, <1>1 DEF DupClosed
  <2> QED  BY <2>1, <2>2 DEF ChainIn
<1>2. DupClosed(rows, ChainIn(rows, r))
  BY <1>1 DEF DupClosed
<1> QED  BY <1>2 DEF ChainIn

\* Who is outside of a chain does not change it,
LEMMA ChainUnchanged ==
    ASSUME NEW rows \in [Reports -> ReportRows], NEW new \in [Reports -> ReportRows],
           NEW r \in Reports, NEW id, id \notin ChainIn(rows, r),
           \A q \in Reports \ {id} : new[q].dup = rows[q].dup
    PROVE  ChainIn(new, r) = ChainIn(rows, r)
<1> DEFINE C == ChainIn(rows, r)
           D == ChainIn(new, r)
<1>1. r \in C /\ C \subseteq Reports /\ DupClosed(rows, C)
  BY ChainFacts
<1>2. r \in D /\ D \subseteq Reports /\ DupClosed(new, D)
  BY ChainFacts
<1> HIDE DEF C, D
<1>3. id \notin C
  BY DEF C
<1>4. DupClosed(new, C)
  BY <1>1, <1>3 DEF DupClosed
<1>5. D \subseteq C
  BY <1>1, <1>4, ChainFacts DEF D
<1>6. DupClosed(rows, D)
  BY <1>2, <1>3, <1>5 DEF DupClosed
<1>7. C \subseteq D
  BY <1>2, <1>6, ChainFacts DEF C
<1> QED  BY <1>5, <1>7 DEF C, D

\* and one new link adds at most the chain it leads to.
LEMMA ChainGrows ==
    ASSUME NEW rows \in [Reports -> ReportRows], NEW new \in [Reports -> ReportRows],
           NEW r \in Reports, NEW id \in Reports, rows[id].dup = NoCase,
           \A q \in Reports \ {id} : new[q].dup = rows[q].dup
    PROVE  ChainIn(rows, r) \subseteq ChainIn(new, r)
<1> DEFINE D == ChainIn(new, r)
<1>1. r \in D /\ D \subseteq Reports /\ DupClosed(new, D)
  BY ChainFacts
<1> HIDE DEF D
<1>2. DupClosed(rows, D)
  BY <1>1 DEF DupClosed
<1>3. ChainIn(rows, r) \subseteq D
  BY <1>1, <1>2, ChainFacts
<1> QED  BY <1>3 DEF D

-----------------------------------------------------------------------------
Rivals(ca, cb) ==
    /\ ca \in Commands /\ cb \in Commands /\ Begun(ca) /\ Begun(cb)
    /\ Stands(ca) /\ Stands(cb)
    /\ \A g : ~(g \in Guards(ca) /\ g \in Guards(cb))

\* What each judgement rests on, spelled out.
LEMMA GuardsAre ==
    ASSUME NEW cmd \in Commands
    PROVE  /\ cmd.kind \in {"report", "assess", "act"} => KeyLock(cmd) \in Guards(cmd)
           /\ cmd.kind = "intake" => TargetLock(TargetOf[cmd.id]) \in Guards(cmd)
           /\ cmd.kind = "assess" => TargetLock(cmd.target) \in Guards(cmd)
           /\ cmd.kind = "assess" /\ cmd.previous # NoCase => AssessmentLock(cmd.previous) \in Guards(cmd)
           /\ cmd.kind = "act" => TargetLock(assessments[cmd.assessment].target) \in Guards(cmd)
           /\ cmd.kind = "act" /\ cmd.reverses # NoCase => ActionLock(cmd.reverses) \in Guards(cmd)
           /\ cmd.kind = "cancel" => ActionLock(cmd.id) \in Guards(cmd)
<1>1. CASE cmd.kind = "report"  BY <1>1 DEF Guards
<1>2. CASE cmd.kind = "intake"  BY <1>2 DEF Guards
<1>3. CASE cmd.kind = "assess"  BY <1>3 DEF Guards, Optionally
<1>4. CASE cmd.kind = "act"     BY <1>4 DEF Guards, Optionally
<1>5. CASE cmd.kind = "cancel"  BY <1>5 DEF Guards
<1> QED  BY <1>1, <1>2, <1>3, <1>4, <1>5, CommandAssumption

\* Rivals write and judge different rows.
LEMMA RivalKeys ==
    ASSUME NEW ca, NEW cb, Rivals(ca, cb)
    PROVE  /\ ca.kind \in {"report", "assess", "act"} /\ cb.kind = ca.kind => ca.id # cb.id
           /\ ca.kind = "intake" /\ cb.kind = "intake" => TargetOf[ca.id] # TargetOf[cb.id]
           /\ ca.kind = "intake" /\ cb.kind = "assess" => TargetOf[ca.id] # cb.target
           /\ ca.kind = "assess" /\ cb.kind = "intake" => ca.target # TargetOf[cb.id]
           /\ ca.kind = "assess" /\ cb.kind = "act" => ca.target # assessments[cb.assessment].target
           /\ ca.kind = "assess" /\ cb.kind = "assess" /\ ca.previous # NoCase => ca.previous # cb.previous
           /\ ca.kind = "act" /\ cb.kind = "act" /\ ca.reverses # NoCase => ca.reverses # cb.reverses
           /\ ca.kind = "cancel" /\ cb.kind = "cancel" => ca.id # cb.id
<1>1. ca \in Commands /\ cb \in Commands /\ \A g : ~(g \in Guards(ca) /\ g \in Guards(cb))
  BY DEF Rivals
<1>2. ca.kind = cb.kind /\ ca.id = cb.id => KeyLock(ca) = KeyLock(cb)
  BY DEF KeyLock
<1> QED  BY <1>1, <1>2, GuardsAre

\* What is written for one request leaves what another one has judged.
LEMMA ReportLeaves ==
    ASSUME NEW ca, NEW cb, RowsFit, RowsFit', Rivals(ca, cb), WriteReport(ca)
    PROVE  Stands(cb)'
<1>1. /\ ca \in Commands /\ cb \in Commands /\ ca.kind = "report" /\ Begun(ca) /\ Begun(cb)
      /\ reports[ca.id].status = "none" /\ Stands(cb)
  BY DEF Rivals, Stands, WriteReport
<1>2. ca.id \in Reports
  BY <1>1 DEF Begun, WellFormed, WellFormedReport
<1>3. /\ reports \in [Reports -> ReportRows] /\ reports' \in [Reports -> ReportRows]
      /\ reports'[ca.id] = Received /\ \A q \in Reports \ {ca.id} : reports'[q] = reports[q]
      /\ assessments' = assessments /\ actions' = actions
  BY <1>2 DEF RowsFit, WriteReport
<1>4. CASE cb.kind = "report"
  <2>1. cb.id \in Reports /\ cb.id # ca.id
    BY <1>1, <1>4, RivalKeys DEF Begun, WellFormed, WellFormedReport
  <2> QED  BY <2>1, <1>1, <1>3, <1>4 DEF Stands
<1>5. CASE cb.kind = "intake"
  <2>1. MayChangeIntake(cb) /\ cb.id \in Reports /\ cb.dup \in Reports \cup {NoCase}
    BY <1>1, <1>5, CommandAssumption DEF Stands
  <2>2. reports'[cb.id].status = "received"
    BY <2>1, <1>1, <1>3 DEF MayChangeIntake
  <2>3. ~Assessed(cb.id)'
    BY <2>1, <1>3 DEF MayChangeIntake, Assessed
  <2>4. ASSUME cb.dup # NoCase
        PROVE  /\ cb.id \notin Chain(cb.dup)'
               /\ \A q \in Chain(cb.dup)' : TargetOf[q] = TargetOf[cb.id] /\ reports'[q].status \notin {"none", "rejected"}
    <3>1. cb.id \notin Chain(cb.dup)
          /\ \A q \in Chain(cb.dup) : TargetOf[q] = TargetOf[cb.id] /\ reports[q].status \notin {"none", "rejected"}
      BY <2>1, <2>4 DEF MayChangeIntake
    <3>2. ca.id \notin ChainIn(reports, cb.dup)
      BY <3>1, <1>1, ChainIsIn
    <3>3. Chain(cb.dup)' = Chain(cb.dup)
      BY <3>2, <2>1, <2>4, <1>3, ChainUnchanged, ChainIsIn, ChainIsInNext
    <3>4. \A q \in Chain(cb.dup) : q \in Reports /\ q # ca.id
      BY <3>2, ChainIsIn DEF ChainIn
    <3> QED  BY <3>1, <3>3, <3>4, <1>3
  <2>5. MayChangeIntake(cb)'
    BY <2>1, <2>2, <2>3, <2>4 DEF MayChangeIntake
  <2> QED  BY <2>5, <1>5 DEF Stands
<1>6. CASE cb.kind = "assess"
  <2>1. assessments[cb.id] = NoCase /\ MayAssess(cb) /\ cb.reports \subseteq Reports
    BY <1>1, <1>6, CommandAssumption DEF Stands
  <2>2. \A r \in cb.reports : TargetOf[r] = cb.target /\ reports'[r].status = "received"
    BY <2>1, <1>1, <1>3 DEF MayAssess
  <2>3. MayAssess(cb)'
    BY <2>1, <2>2, <1>3 DEF MayAssess, Superseded
  <2> QED  BY <2>1, <2>3, <1>3, <1>6 DEF Stands
<1>7. CASE cb.kind = "act" \/ cb.kind = "cancel"
  BY <1>1, <1>3, <1>7 DEF Stands, Superseded, MayRevoke, LiveReversal
<1> QED  BY <1>1, <1>4, <1>5, <1>6, <1>7, CommandAssumption

LEMMA IntakeLeaves ==
    ASSUME NEW ca, NEW cb, RowsFit, RowsFit', Rivals(ca, cb), WriteIntake(ca)
    PROVE  Stands(cb)'
<1>1. /\ ca \in Commands /\ cb \in Commands /\ ca.kind = "intake" /\ Begun(ca) /\ Begun(cb)
      /\ MayChangeIntake(ca) /\ Stands(cb)
  BY DEF Rivals, Stands, WriteIntake
<1>2. ca.id \in Reports /\ reports[ca.id].status = "received"
  BY <1>1, CommandAssumption DEF MayChangeIntake
<1>3. /\ reports \in [Reports -> ReportRows] /\ reports' \in [Reports -> ReportRows]
      /\ \A q \in Reports \ {ca.id} : reports'[q] = reports[q]
      /\ assessments' = assessments /\ actions' = actions
  BY <1>2 DEF RowsFit, WriteIntake
<1>4. CASE cb.kind = "report"
  <2>1. cb.id \in Reports /\ cb.id # ca.id
    BY <1>1, <1>2, <1>4 DEF Begun, WellFormed, WellFormedReport, Stands
  <2> QED  BY <2>1, <1>1, <1>3, <1>4 DEF Stands
<1>5. CASE cb.kind = "intake"
  <2>1. MayChangeIntake(cb) /\ cb.id \in Reports /\ cb.dup \in Reports \cup {NoCase}
    BY <1>1, <1>5, CommandAssumption DEF Stands
  <2>2. TargetOf[ca.id] # TargetOf[cb.id]
    BY <1>1, <1>5, RivalKeys
  <2>3. reports'[cb.id].status = "received" /\ ~Assessed(cb.id)'
    BY <2>1, <2>2, <1>3 DEF MayChangeIntake, Assessed
  <2>4. ASSUME cb.dup # NoCase
        PROVE  /\ cb.id \notin Chain(cb.dup)'
               /\ \A q \in Chain(cb.dup)' : TargetOf[q] = TargetOf[cb.id] /\ reports'[q].status \notin {"none", "rejected"}
    <3>1. cb.id \notin Chain(cb.dup)
          /\ \A q \in Chain(cb.dup) : TargetOf[q] = TargetOf[cb.id] /\ reports[q].status \notin {"none", "rejected"}
      BY <2>1, <2>4 DEF MayChangeIntake
    <3>2. ca.id \notin ChainIn(reports, cb.dup)
      BY <3>1, <2>2, ChainIsIn
    <3>3. Chain(cb.dup)' = Chain(cb.dup)
      BY <3>2, <2>1, <2>4, <1>3, ChainUnchanged, ChainIsIn, ChainIsInNext
    <3>4. \A q \in Chain(cb.dup) : q \in Reports /\ q # ca.id
      BY <3>2, ChainIsIn DEF ChainIn
    <3> QED  BY <3>1, <3>3, <3>4, <1>3
  <2>5. MayChangeIntake(cb)'
    BY <2>1, <2>3, <2>4 DEF MayChangeIntake
  <2> QED  BY <2>5, <1>5 DEF Stands
<1>6. CASE cb.kind = "assess"
  <2>1. assessments[cb.id] = NoCase /\ MayAssess(cb) /\ cb.reports \subseteq Reports
    BY <1>1, <1>6, CommandAssumption DEF Stands
  <2>2. TargetOf[ca.id] # cb.target
    BY <1>1, <1>6, RivalKeys
  <2>3. \A r \in cb.reports : TargetOf[r] = cb.target /\ reports'[r].status = "received"
    BY <2>1, <2>2, <1>3 DEF MayAssess
  <2>4. MayAssess(cb)'
    BY <2>1, <2>3, <1>3 DEF MayAssess, Superseded
  <2> QED  BY <2>1, <2>4, <1>3, <1>6 DEF Stands
<1>7. CASE cb.kind = "act" \/ cb.kind = "cancel"
  BY <1>1, <1>3, <1>7 DEF Stands, Superseded, MayRevoke, LiveReversal
<1> QED  BY <1>1, <1>4, <1>5, <1>6, <1>7, CommandAssumption

LEMMA AssessmentLeaves ==
    ASSUME NEW ca, NEW cb, RowsFit, RowsFit', Rivals(ca, cb), WriteAssessment(ca)
    PROVE  Stands(cb)'
<1>1. /\ ca \in Commands /\ cb \in Commands /\ ca.kind = "assess" /\ Begun(ca) /\ Begun(cb)
      /\ assessments[ca.id] = NoCase /\ MayAssess(ca) /\ Stands(cb)
  BY DEF Rivals, Stands, WriteAssessment
<1>2. ca.id \in Assessments
  BY <1>1, CommandAssumption
<1>3. /\ assessments'[ca.id] # NoCase
      /\ assessments'[ca.id].previous = ca.previous /\ assessments'[ca.id].reports = ca.reports
      /\ \A e \in Assessments \ {ca.id} : assessments'[e] = assessments[e]
      /\ reports' = reports /\ actions' = actions
  <2>1. assessments'[ca.id] = [target |-> ca.target, reports |-> ca.reports,
                               outcome |-> ca.outcome, previous |-> ca.previous]
    BY <1>2 DEF RowsFit, WriteAssessment
  <2>2. assessments'[ca.id] \in AssessmentRows
    BY <1>1, <1>2, <2>1, CommandAssumption DEF AssessmentRows, Begun, WellFormed,
       WellFormedAssessment
  <2> QED  BY <1>2, <2>1, <2>2, CommandAssumption DEF RowsFit, WriteAssessment
<1>4. CASE cb.kind = "report" \/ cb.kind = "cancel"
  BY <1>1, <1>3, <1>4 DEF Stands
<1>5. CASE cb.kind = "intake"
  <2>1. MayChangeIntake(cb) /\ ca.target # TargetOf[cb.id]
    BY <1>1, <1>5, RivalKeys DEF Stands
  <2>2. cb.id \notin ca.reports
    BY <2>1, <1>1 DEF MayAssess
  <2>3. ~Assessed(cb.id)'
    BY <2>1, <2>2, <1>3 DEF MayChangeIntake, Assessed
  <2>4. \A r : Chain(r)' = Chain(r)
    BY <1>3 DEF Chain
  <2>5. MayChangeIntake(cb)'
    BY <2>1, <2>3, <2>4, <1>3 DEF MayChangeIntake
  <2> QED  BY <2>5, <1>5 DEF Stands
<1>6. CASE cb.kind = "assess"
  <2>1. /\ assessments[cb.id] = NoCase /\ MayAssess(cb) /\ cb.id # ca.id /\ cb.id \in Assessments
        /\ cb.previous \in Assessments \cup {NoCase}
        /\ ca.previous # NoCase => ca.previous # cb.previous
    BY <1>1, <1>6, CommandAssumption, RivalKeys DEF Stands
  <2>2. assessments'[cb.id] = NoCase
    BY <2>1, <1>3
  <2>3. ASSUME cb.previous # NoCase
        PROVE  /\ assessments'[cb.previous] = assessments[cb.previous] /\ ~Superseded(cb.previous)'
    <3>1. assessments[cb.previous] # NoCase /\ ~Superseded(cb.previous) /\ cb.previous \in Assessments
      BY <2>1, <2>3 DEF MayAssess
    <3>2. assessments'[cb.previous] = assessments[cb.previous]
      BY <3>1, <1>1, <1>3
    <3>3. ~Superseded(cb.previous)'
      BY <3>1, <2>1, <2>3, <1>3 DEF Superseded
    <3> QED  BY <3>2, <3>3
  <2>4. MayAssess(cb)'
    BY <2>1, <2>3, <1>3 DEF MayAssess
  <2> QED  BY <2>2, <2>4, <1>6 DEF Stands
<1>7. CASE cb.kind = "act"
  <2>1. /\ actions[cb.id] = NoCase /\ ~Superseded(cb.assessment) /\ cb.assessment \in Assessments
        /\ assessments[cb.assessment] # NoCase /\ ca.target # assessments[cb.assessment].target
    BY <1>1, <1>7, CommandAssumption, RivalKeys DEF Stands, Begun
  <2>2. assessments'[cb.assessment] = assessments[cb.assessment]
    BY <2>1, <1>1, <1>3
  <2>3. ca.previous # cb.assessment
    BY <2>1, <1>1, CommandAssumption DEF MayAssess
  <2>4. ~Superseded(cb.assessment)'
    BY <2>1, <2>3, <1>3 DEF Superseded
  <2>5. cb.reverses # NoCase => MayRevoke(cb)'
    BY <1>1, <1>3, <1>7 DEF Stands, MayRevoke, LiveReversal
  <2> QED  BY <2>1, <2>2, <2>4, <2>5, <1>1, <1>3, <1>7 DEF Stands
<1> QED  BY <1>1, <1>4, <1>5, <1>6, <1>7, CommandAssumption

LEMMA ActionLeaves ==
    ASSUME NEW ca, NEW cb, RowsFit, RowsFit', Rivals(ca, cb), WriteAction(ca)
    PROVE  Stands(cb)'
<1>1. /\ ca \in Commands /\ cb \in Commands /\ ca.kind = "act" /\ Begun(cb)
      /\ actions[ca.id] = NoCase /\ Stands(cb)
  BY DEF Rivals, Stands, WriteAction
<1>2. ca.id \in Actions
  BY <1>1, CommandAssumption
<1>3. /\ actions'[ca.id].reverses = ca.reverses
      /\ \A x \in Actions \ {ca.id} : actions'[x] = actions[x]
      /\ reports' = reports /\ assessments' = assessments
  BY <1>2 DEF RowsFit, WriteAction
<1>4. CASE cb.kind = "act"
  <2>1. cb.id # ca.id /\ cb.id \in Actions /\ cb.reverses \in Actions \cup {NoCase}
        /\ (cb.reverses # NoCase => cb.reverses # ca.reverses)
    BY <1>1, <1>4, CommandAssumption, RivalKeys
  <2>2. ASSUME cb.reverses # NoCase PROVE MayRevoke(cb)'
    <3>1. MayRevoke(cb)
      BY <1>1, <1>4, <2>2 DEF Stands
    <3>2. actions'[cb.reverses] = actions[cb.reverses]
      BY <3>1, <2>1, <2>2, <1>1, <1>3 DEF MayRevoke
    <3>3. ~LiveReversal(cb.reverses)'
      BY <3>1, <2>1, <2>2, <1>3 DEF MayRevoke, LiveReversal
    <3> QED  BY <3>1, <3>2, <3>3 DEF MayRevoke
  <2> QED  BY <2>1, <2>2, <1>1, <1>3, <1>4 DEF Stands, Superseded
<1>5. CASE cb.kind = "cancel"
  <2>1. cb.id \in Actions /\ cb.id # ca.id
    BY <1>1, <1>5, CommandAssumption DEF Stands
  <2> QED  BY <2>1, <1>1, <1>3, <1>5 DEF Stands
<1>6. CASE cb.kind \in {"report", "intake", "assess"}
  <2>1. \A r : Chain(r)' = Chain(r)
    BY <1>3 DEF Chain
  <2> QED  BY <2>1, <1>1, <1>3, <1>6 DEF Stands, MayChangeIntake, MayAssess, Assessed, Superseded
<1> QED  BY <1>1, <1>4, <1>5, <1>6, CommandAssumption

\* An action changes its status only; one that was pending before.
Settled(x, status) ==
    /\ actions'[x] # NoCase /\ actions'[x].status = status /\ actions'[x].type = actions[x].type
    /\ actions'[x].target = actions[x].target /\ actions'[x].reverses = actions[x].reverses
    /\ actions'[x].assessment = actions[x].assessment
    /\ actions'[x] \in ActionRows
    /\ \A y \in Actions \ {x} : actions'[y] = actions[y]

\* An action that is carried out or given up keeps what it is about.
LEMMA Settles ==
    ASSUME RowsFit, NEW x \in Actions, NEW status \in {"applied", "failed", "cancelled"},
           actions[x] # NoCase, actions' = [actions EXCEPT ![x].status = status]
    PROVE  Settled(x, status) /\ actions' \in [Actions -> ActionRows \cup {NoCase}]
<1>1. actions[x] \in ActionRows /\ actions \in [Actions -> ActionRows \cup {NoCase}]
  BY DEF RowsFit
<1>2. actions'[x] = [actions[x] EXCEPT !.status = status] /\ \A y \in Actions \ {x} : actions'[y] = actions[y]
  BY <1>1
<1>3. \A row \in ActionRows :
          LET new == [row EXCEPT !.status = status] IN
          /\ new \in ActionRows /\ new.status = status /\ new.type = row.type /\ new.target = row.target
          /\ new.reverses = row.reverses /\ new.assessment = row.assessment
  BY DEF ActionRows
<1>4. actions'[x] \in ActionRows /\ actions'[x] # NoCase
  BY <1>1, <1>2, <1>3, CommandAssumption
<1>5. actions' \in [Actions -> ActionRows \cup {NoCase}]
  BY <1>1, <1>2, <1>4
<1> QED  BY <1>1, <1>2, <1>3, <1>4, <1>5 DEF Settled

LEMMA SettlingLeaves ==
    ASSUME NEW cb \in Commands, RowsFit, NEW x \in Actions, NEW status \in {"applied", "failed", "cancelled"},
           actions[x] # NoCase, actions[x].status = "pending", Settled(x, status), UNCHANGED <<reports, assessments>>,
           Stands(cb), cb.kind = "cancel" => cb.id # x
    PROVE  Stands(cb)'
<1>1. CASE cb.kind = "act"
  <2>1. cb.id \in Actions /\ cb.reverses \in Actions \cup {NoCase} /\ actions[cb.id] = NoCase
    BY <1>1, CommandAssumption DEF Stands
  <2>2. actions'[cb.id] = NoCase
    BY <2>1 DEF Settled
  <2>3. ASSUME cb.reverses # NoCase PROVE MayRevoke(cb)'
    <3>1. MayRevoke(cb)
      BY <1>1, <2>3 DEF Stands
    <3>2. cb.reverses \in Actions /\ cb.reverses # x
      BY <3>1, <2>1, <2>3 DEF MayRevoke
    <3>3. actions'[cb.reverses] = actions[cb.reverses]
      BY <3>2 DEF Settled
    <3>4. ~LiveReversal(cb.reverses)'
      <4>1. ASSUME NEW y \in Actions, actions'[y] # NoCase, actions'[y].reverses = cb.reverses,
                   actions'[y].status # "cancelled"
            PROVE  actions[y] # NoCase /\ actions[y].reverses = cb.reverses /\ actions[y].status # "cancelled"
        BY <4>1 DEF Settled
      <4> QED  BY <4>1, <3>1 DEF MayRevoke, LiveReversal
    <3> QED  BY <3>1, <3>3, <3>4 DEF MayRevoke
  <2> QED  BY <2>2, <2>3, <1>1 DEF Stands, Superseded
<1>2. CASE cb.kind = "cancel"
  <2>1. cb.id \in Actions /\ cb.id # x
    BY <1>2, CommandAssumption
  <2> QED  BY <2>1, <1>2 DEF Stands, Settled
<1>3. CASE cb.kind \in {"report", "intake", "assess"}
  <2>1. \A r : Chain(r)' = Chain(r)
    BY DEF Chain
  <2> QED  BY <2>1, <1>3 DEF Stands, MayChangeIntake, MayAssess, Assessed, Superseded
<1> QED  BY <1>1, <1>2, <1>3, CommandAssumption

-----------------------------------------------------------------------------
(* What a request writes, once it has judged, keeps the rows right *)

\* What no request may undo: a report that was filed, a judgement.
RowsKept ==
    /\ \A r \in Reports : reports[r].status # "none" => reports'[r].status # "none"
    /\ \A e \in Assessments : assessments[e] # NoCase => assessments'[e] = assessments[e]

\* What always holds of the rows.
RowsStand == RowsFit /\ EvidenceStands /\ OneJudgementStands /\ OneReversal /\ PreviousStand

\* A request that may write: it has judged, and what it judged still stands.
Ready(cmd) == cmd \in Commands /\ Begun(cmd) /\ Stands(cmd)

LEMMA ReportWritten ==
    ASSUME NEW cmd, RowsStand, Ready(cmd), WriteReport(cmd)
    PROVE  RowsStand' /\ RowsKept
<1>1. cmd.id \in Reports /\ reports[cmd.id].status = "none"
  BY DEF Ready, Begun, WellFormed, WellFormedReport, Stands, WriteReport
<1>2. Received \in ReportRows /\ Received.status = "received" /\ Received.dup = NoCase
  BY CommandAssumption DEF Received, ReportRows
<1>3. /\ reports' \in [Reports -> ReportRows] /\ reports \in [Reports -> ReportRows]
      /\ reports'[cmd.id].status = "received" /\ reports'[cmd.id].dup = NoCase
      /\ \A q \in Reports \ {cmd.id} : reports'[q] = reports[q]
      /\ assessments' = assessments /\ actions' = actions
  BY <1>1, <1>2 DEF WriteReport, RowsStand, RowsFit
<1>4. reports[cmd.id].dup = NoCase
  BY <1>1, <1>3, ReportRowFacts
<1>5. \A r \in Reports : Chain(r)' = Chain(r)
  <2>1. ASSUME NEW r \in Reports PROVE Chain(r)' = Chain(r)
    <3>1. NoCase \notin ChainIn(reports, r)
      BY CommandAssumption DEF ChainIn
    <3>2. \A q \in Reports \ {NoCase} : reports'[q].dup = reports[q].dup
      BY <1>3, <1>4
    <3> QED  BY <3>1, <3>2, <1>3, ChainUnchanged, ChainIsIn, ChainIsInNext
  <2> QED  BY <2>1
<1>6. \A q \in Reports : reports'[q].dup = reports[q].dup
  BY <1>3, <1>4
<1>7. EvidenceStands'
  <2>1. \A r \in Reports : \E q \in Chain(r)' : reports'[q].dup = NoCase
    <3>1. ASSUME NEW r \in Reports PROVE \E q \in Chain(r)' : reports'[q].dup = NoCase
      <4>1. PICK q \in Chain(r) : reports[q].dup = NoCase
        BY DEF RowsStand, EvidenceStands
      <4>2. q \in Reports
        BY DEF Chain
      <4> QED  BY <4>1, <4>2, <1>5, <1>6
    <3> QED  BY <3>1
  <2>2. \A r \in Reports : reports'[r].dup # NoCase => TargetOf[reports'[r].dup] = TargetOf[r]
    BY <1>6 DEF RowsStand, EvidenceStands
  <2>3. \A r \in Reports : Assessed(r)' => reports'[r].status = "received"
    BY <1>3 DEF RowsStand, EvidenceStands, Assessed
  <2> QED  BY <2>1, <2>2, <2>3 DEF EvidenceStands
<1> QED  BY <1>1, <1>3, <1>7 DEF RowsStand, RowsFit, RowsKept, OneJudgementStands, OneReversal,
   PreviousStand

LEMMA IntakeWritten ==
    ASSUME NEW cmd, RowsStand, Ready(cmd), WriteIntake(cmd)
    PROVE  RowsStand' /\ RowsKept
<1>1. /\ cmd \in Commands /\ cmd.kind = "intake" /\ cmd.id \in Reports /\ MayChangeIntake(cmd)
      /\ cmd.dup \in Reports \cup {NoCase}
      /\ cmd.status \in {"duplicate", "rejected"} /\ (cmd.status = "duplicate") = (cmd.dup # NoCase)
  BY CommandAssumption DEF Ready, Begun, WellFormed, WellFormedIntake, Stands, WriteIntake
<1> DEFINE row == [status |-> cmd.status, dup |-> cmd.dup]
<1>2. row \in ReportRows /\ row.status = cmd.status /\ row.dup = cmd.dup
  BY <1>1 DEF ReportRows
<1> HIDE DEF row
<1>3. reports' = [reports EXCEPT ![cmd.id] = row] /\ assessments' = assessments /\ actions' = actions
  BY DEF WriteIntake, row
<1>4. /\ reports' \in [Reports -> ReportRows] /\ reports \in [Reports -> ReportRows]
      /\ reports'[cmd.id].status = cmd.status /\ reports'[cmd.id].dup = cmd.dup
      /\ \A q \in Reports \ {cmd.id} : reports'[q] = reports[q]
  BY <1>1, <1>2, <1>3 DEF RowsStand, RowsFit
<1>5. reports[cmd.id].status = "received" /\ ~Assessed(cmd.id) /\ reports[cmd.id].dup = NoCase
  BY <1>1, <1>4, ReportRowFacts DEF MayChangeIntake
<1>6. \A q \in Reports \ {cmd.id} : reports'[q].dup = reports[q].dup
  BY <1>4
<1>7. ASSUME NEW r \in Reports, cmd.id \notin Chain(r)
      PROVE  \E q \in Chain(r)' : reports'[q].dup = NoCase
  <2>1. Chain(r)' = Chain(r)
    BY <1>4, <1>6, <1>7, ChainUnchanged, ChainIsIn, ChainIsInNext
  <2>2. PICK q \in Chain(r) : reports[q].dup = NoCase
    BY DEF RowsStand, EvidenceStands
  <2>3. q \in Reports /\ q # cmd.id
    BY <1>7 DEF Chain
  <2> QED  BY <2>1, <2>2, <2>3, <1>6
<1>8. ASSUME NEW r \in Reports, cmd.id \in Chain(r)
      PROVE  \E q \in Chain(r)' : reports'[q].dup = NoCase
  <2> DEFINE D == ChainIn(reports', r)
  <2>1. cmd.id \in D
    <3>1. ChainIn(reports, r) \subseteq D
      BY <1>1, <1>4, <1>5, <1>6, ChainGrows
    <3> QED  BY <3>1, <1>8, ChainIsIn
  <2>2. CASE cmd.dup = NoCase
    BY <2>1, <2>2, <1>4, ChainIsInNext
  <2>3. CASE cmd.dup # NoCase
    <3>1. cmd.id \notin Chain(cmd.dup) /\ cmd.dup \in Reports
      BY <1>1, <2>3 DEF MayChangeIntake
    <3>2. PICK q \in ChainIn(reports', cmd.dup) : reports'[q].dup = NoCase
      BY <3>1, <1>7, ChainIsInNext
    <3>3. D \subseteq Reports /\ DupClosed(reports', D)
      BY <1>4, ChainFacts
    <3>4. cmd.dup \in D
      BY <2>1, <2>3, <3>3, <1>4 DEF DupClosed
    <3>5. ChainIn(reports', cmd.dup) \subseteq D
      BY <3>1, <3>3, <3>4, <1>4, ChainFacts
    <3> QED  BY <3>2, <3>5, ChainIsInNext
  <2> QED  BY <2>2, <2>3
<1>9. \A r \in Reports : reports'[r].dup # NoCase => TargetOf[reports'[r].dup] = TargetOf[r]
  <2>1. ASSUME cmd.dup # NoCase PROVE TargetOf[cmd.dup] = TargetOf[cmd.id]
    <3>1. cmd.dup \in ChainIn(reports, cmd.dup)
      BY <1>1, <1>4, <2>1, ChainFacts
    <3> QED  BY <3>1, <2>1, <1>1, ChainIsIn DEF MayChangeIntake
  <2> QED  BY <2>1, <1>4 DEF RowsStand, EvidenceStands
<1>10. \A r \in Reports : Assessed(r)' => reports'[r].status = "received"
  BY <1>3, <1>4, <1>5 DEF RowsStand, EvidenceStands, Assessed
<1>11. EvidenceStands'
  BY <1>7, <1>8, <1>9, <1>10 DEF EvidenceStands
<1>12. RowsKept
  BY <1>1, <1>3, <1>4 DEF RowsKept
<1> QED  BY <1>3, <1>4, <1>11, <1>12 DEF RowsStand, RowsFit, OneJudgementStands, OneReversal,
   PreviousStand

LEMMA AssessmentWritten ==
    ASSUME NEW cmd, RowsStand, Ready(cmd), WriteAssessment(cmd)
    PROVE  RowsStand' /\ RowsKept
<1>1. /\ cmd \in Commands /\ cmd.kind = "assess" /\ cmd.id \in Assessments
      /\ cmd.previous \in Assessments \cup {NoCase}
      /\ assessments[cmd.id] = NoCase /\ MayAssess(cmd)
      /\ cmd.target \in ReviewWorks \cup Users /\ cmd.reports \in SUBSET Reports
      /\ cmd.outcome \in {"violation", "no_violation"}
  BY CommandAssumption DEF Ready, Begun, WellFormed, WellFormedAssessment, Stands, WriteAssessment
<1> DEFINE row == [target |-> cmd.target, reports |-> cmd.reports,
                   outcome |-> cmd.outcome, previous |-> cmd.previous]
<1>2. /\ row \in AssessmentRows /\ row.target = cmd.target /\ row.reports = cmd.reports
      /\ row.previous = cmd.previous
  BY <1>1 DEF AssessmentRows
<1> HIDE DEF row
<1>3. assessments' = [assessments EXCEPT ![cmd.id] = row] /\ reports' = reports /\ actions' = actions
  BY DEF WriteAssessment, row
<1>4. /\ assessments' \in [Assessments -> AssessmentRows \cup {NoCase}]
      /\ assessments'[cmd.id] = row /\ row # NoCase
      /\ \A e \in Assessments \ {cmd.id} : assessments'[e] = assessments[e]
  BY <1>1, <1>2, <1>3, CommandAssumption DEF RowsStand, RowsFit
<1>5. RowsKept
  BY <1>1, <1>3, <1>4 DEF RowsKept
<1>6. EvidenceStands'
  <2>1. \A r : Chain(r)' = Chain(r)
    BY <1>3 DEF Chain
  <2>2. \A r \in Reports : Assessed(r)' => reports'[r].status = "received"
    <3>1. ASSUME NEW r \in Reports, NEW e \in Assessments, assessments'[e] # NoCase, r \in assessments'[e].reports
          PROVE  reports'[r].status = "received"
      <4>1. CASE e = cmd.id
        BY <4>1, <3>1, <1>1, <1>2, <1>3, <1>4 DEF MayAssess
      <4>2. CASE e # cmd.id
        BY <4>2, <3>1, <1>3, <1>4 DEF RowsStand, EvidenceStands, Assessed
      <4> QED  BY <4>1, <4>2
    <3> QED  BY <3>1 DEF Assessed
  <2> QED  BY <2>1, <2>2, <1>3 DEF RowsStand, EvidenceStands
<1>7. ASSUME cmd.previous # NoCase
      PROVE  /\ cmd.previous \in Assessments \ {cmd.id} /\ assessments[cmd.previous] # NoCase
             /\ assessments[cmd.previous].target = cmd.target
             /\ \A f \in Assessments : assessments[f] # NoCase => assessments[f].previous # cmd.previous
  BY <1>1, <1>7 DEF MayAssess, Superseded
<1>8. PreviousStand'
  <2>1. ASSUME NEW e \in Assessments, assessments'[e] # NoCase, assessments'[e].previous # NoCase
        PROVE  assessments'[assessments'[e].previous] # NoCase
    <3>1. CASE e = cmd.id
      BY <3>1, <2>1, <1>2, <1>4, <1>7
    <3>2. CASE e # cmd.id
      <4>1. /\ assessments'[e] = assessments[e] /\ assessments[assessments[e].previous] # NoCase
            /\ assessments[e] \in AssessmentRows
        BY <3>2, <2>1, <1>4 DEF RowsStand, PreviousStand, RowsFit
      <4>2. assessments[e].previous \in Assessments
        BY <4>1, <2>1 DEF AssessmentRows
      <4> QED  BY <4>1, <4>2, <1>1, <1>4
    <3> QED  BY <3>1, <3>2
  <2> QED  BY <2>1 DEF PreviousStand
<1>9. OneJudgementStands'
  <2>1. ASSUME NEW e \in Assessments, NEW f \in Assessments, assessments'[e] # NoCase, assessments'[f] # NoCase,
               assessments'[e].previous # NoCase
        PROVE  /\ assessments'[e].target = assessments'[assessments'[e].previous].target
               /\ assessments'[e].previous = assessments'[f].previous => e = f
    <3>1. CASE e = cmd.id
      <4>1. /\ assessments'[e].target = assessments'[assessments'[e].previous].target
            /\ assessments'[e].previous = cmd.previous
        BY <3>1, <2>1, <1>2, <1>4, <1>7
      <4>2. f # cmd.id => assessments'[f].previous # cmd.previous
        BY <3>1, <2>1, <1>2, <1>4, <1>7
      <4> QED  BY <3>1, <4>1, <4>2
    <3>2. CASE e # cmd.id
      <4>1. /\ assessments'[e] = assessments[e] /\ assessments[assessments[e].previous] # NoCase
            /\ assessments[e] \in AssessmentRows
            /\ assessments[e].target = assessments[assessments[e].previous].target
        BY <3>2, <2>1, <1>4 DEF RowsStand, PreviousStand, RowsFit, OneJudgementStands
      <4>2. assessments[e].previous \in Assessments \ {cmd.id}
        BY <4>1, <2>1, <1>1 DEF AssessmentRows
      <4>3. CASE f = cmd.id
        <5>1. assessments'[f].previous = cmd.previous
          BY <4>3, <1>2, <1>4
        <5>2. assessments[e].previous # cmd.previous
          BY <4>1, <2>1, <1>7
        <5> QED  BY <5>1, <5>2, <4>1, <4>2, <1>4
      <4>4. CASE f # cmd.id
        BY <4>4, <4>1, <4>2, <2>1, <1>4 DEF RowsStand, OneJudgementStands
      <4> QED  BY <4>3, <4>4
    <3> QED  BY <3>1, <3>2
  <2> QED  BY <2>1 DEF OneJudgementStands
<1> QED  BY <1>3, <1>4, <1>5, <1>6, <1>8, <1>9 DEF RowsStand, RowsFit, OneReversal

LEMMA ActionWritten ==
    ASSUME NEW cmd, RowsStand, Ready(cmd), WriteAction(cmd)
    PROVE  RowsStand' /\ RowsKept
<1>1. /\ cmd \in Commands /\ cmd.kind = "act" /\ cmd.id \in Actions /\ cmd.reverses \in Actions \cup {NoCase}
      /\ cmd.assessment \in Assessments /\ cmd.target \in ReviewWorks \cup Users
      /\ cmd.type \in {"suspend", "revoke"} /\ (cmd.type = "revoke") = (cmd.reverses # NoCase)
      /\ actions[cmd.id] = NoCase
      /\ cmd.reverses # NoCase => ~LiveReversal(cmd.reverses)
  BY CommandAssumption DEF Ready, Begun, WellFormed, WellFormedAction, Stands, WriteAction,
     MayRevoke
<1> DEFINE row == [assessment |-> cmd.assessment, target |-> cmd.target, type |-> cmd.type,
                   reverses |-> cmd.reverses, status |-> "pending"]
<1>2. row \in ActionRows /\ row.reverses = cmd.reverses
  BY <1>1 DEF ActionRows
<1> HIDE DEF row
<1>3. actions' = [actions EXCEPT ![cmd.id] = row] /\ reports' = reports /\ assessments' = assessments
  BY DEF WriteAction, row
<1>4. /\ actions' \in [Actions -> ActionRows \cup {NoCase}]
      /\ actions'[cmd.id] = row /\ row # NoCase
      /\ \A x \in Actions \ {cmd.id} : actions'[x] = actions[x]
  BY <1>1, <1>2, <1>3, CommandAssumption DEF RowsStand, RowsFit
<1>5. EvidenceStands' /\ OneJudgementStands' /\ PreviousStand' /\ RowsKept
  BY <1>3 DEF RowsStand, EvidenceStands, OneJudgementStands, PreviousStand, RowsKept, Chain,
     Assessed
<1>6. OneReversal'
  <2>1. ASSUME NEW x \in Actions, NEW y \in Actions, actions'[x] # NoCase, actions'[y] # NoCase, x # y,
               actions'[x].reverses # NoCase, actions'[x].reverses = actions'[y].reverses
        PROVE  "cancelled" \in {actions'[x].status, actions'[y].status}
    <3>1. CASE x # cmd.id /\ y # cmd.id
      BY <3>1, <2>1, <1>4 DEF RowsStand, OneReversal
    <3>2. CASE x = cmd.id
      <4>1. actions'[y] = actions[y] /\ actions[y].reverses = cmd.reverses /\ cmd.reverses # NoCase
        BY <3>2, <2>1, <1>2, <1>4
      <4>2. actions[y].status = "cancelled"
        BY <4>1, <2>1, <1>1 DEF LiveReversal
      <4> QED  BY <4>1, <4>2
    <3>3. CASE y = cmd.id
      <4>1. actions'[x] = actions[x] /\ actions[x].reverses = cmd.reverses /\ cmd.reverses # NoCase
        BY <3>3, <2>1, <1>2, <1>4
      <4>2. actions[x].status = "cancelled"
        BY <4>1, <2>1, <1>1 DEF LiveReversal
      <4> QED  BY <4>1, <4>2
    <3> QED  BY <3>1, <3>2, <3>3
  <2> QED  BY <2>1 DEF OneReversal
<1> QED  BY <1>3, <1>4, <1>5, <1>6 DEF RowsStand, RowsFit

LEMMA SettlingKeeps ==
    ASSUME RowsStand, NEW x \in Actions, NEW status \in {"applied", "failed", "cancelled"},
           actions[x] # NoCase, actions[x].status = "pending",
           actions' = [actions EXCEPT ![x].status = status], UNCHANGED <<reports, assessments>>
    PROVE  RowsStand' /\ RowsKept /\ Settled(x, status)
<1>1. Settled(x, status) /\ actions' \in [Actions -> ActionRows \cup {NoCase}]
  BY Settles DEF RowsStand
<1>2. EvidenceStands' /\ OneJudgementStands' /\ PreviousStand' /\ RowsKept
  BY DEF RowsStand, EvidenceStands, OneJudgementStands, PreviousStand, RowsKept, Chain, Assessed
<1>3. \A y \in Actions : actions'[y] # NoCase =>
          /\ actions[y] # NoCase /\ actions'[y].reverses = actions[y].reverses
          /\ actions[y].status = "cancelled" => actions'[y].status = "cancelled"
  BY <1>1 DEF Settled
<1>4. OneReversal'
  BY <1>3 DEF RowsStand, OneReversal
<1> QED  BY <1>1, <1>2, <1>4 DEF RowsStand, RowsFit

-----------------------------------------------------------------------------
(* The transactions *)

TxForm == tx = [a \in Admins |-> [cmd |-> tx[a].cmd, todo |-> tx[a].todo, held |-> tx[a].held]]

RequestFits(a) ==
    \/ tx[a].cmd = NoCase /\ tx[a].todo = <<>> /\ tx[a].held = {}
    \/ tx[a].cmd \in Commands /\ Begun(tx[a].cmd) /\ Walked(tx[a].cmd, tx[a].todo, tx[a].held)

LocksExclude == \A a, b \in Admins : a # b => tx[a].held \cap tx[b].held = {}

TxFit == TxForm /\ (\A a \in Admins : RequestFits(a)) /\ LocksExclude

JudgementStands(a) == tx[a].cmd # NoCase /\ Judged(tx[a].todo) => Stands(tx[a].cmd)

ReviewInv == RowsStand /\ TxFit /\ \A a \in Admins : JudgementStands(a)

Moved(a, c, t, h) ==
    /\ TxForm' /\ tx'[a].cmd = c /\ tx'[a].todo = t /\ tx'[a].held = h
    /\ \A b \in Admins \ {a} : tx'[b] = tx[b]

\* The ways in which one transaction moves.
LEMMA MovedWhole ==
    ASSUME TxForm, NEW a \in Admins, NEW c, NEW t, NEW h,
           tx' = [tx EXCEPT ![a] = [cmd |-> c, todo |-> t, held |-> h]]
    PROVE  Moved(a, c, t, h)
  BY DEF TxForm, Moved

LEMMA MovedOn ==
    ASSUME TxForm, NEW a \in Admins, NEW t, tx' = [tx EXCEPT ![a].todo = t]
    PROVE  Moved(a, tx[a].cmd, t, tx[a].held)
  BY DEF TxForm, Moved

LEMMA MovedHolding ==
    ASSUME TxForm, NEW a \in Admins, NEW t, NEW h, tx' = [tx EXCEPT ![a].todo = t, ![a].held = h]
    PROVE  Moved(a, tx[a].cmd, t, h)
<1> DEFINE row == tx[a]
           mid == [row EXCEPT !.todo = t]
           new == [mid EXCEPT !.held = h]
<1>1. row = [cmd |-> row.cmd, todo |-> row.todo, held |-> row.held]
  BY DEF TxForm
<1>2. tx' = [tx EXCEPT ![a] = new]
  BY DEF TxForm
<1> HIDE DEF row
<1>3. mid = [cmd |-> row.cmd, todo |-> t, held |-> row.held]
  BY <1>1
<1> HIDE DEF mid
<1>4. new = [cmd |-> row.cmd, todo |-> t, held |-> h]
  BY <1>3
<1> HIDE DEF new
<1> QED  BY <1>2, <1>4, MovedWhole DEF row

\* A place in the steps does not depend on what others do.
LEMMA StepsStay ==
    ASSUME RowsKept, NEW cmd \in Commands, Begun(cmd), NEW t, NEW h, Walked(cmd, t, h)
    PROVE  Begun(cmd)' /\ Walked(cmd, t, h)'
<1>1. Begun(cmd)'
  BY CommandAssumption DEF Begun, RowsKept, WellFormed, WellFormedReport, WellFormedIntake,
     WellFormedAssessment, WellFormedAction
<1>2. StepsOf(cmd)' = StepsOf(cmd)
  <2>1. CASE cmd.kind = "act"
    <3>1. assessments'[cmd.assessment] = assessments[cmd.assessment]
      BY <2>1, CommandAssumption DEF Begun, RowsKept
    <3>2. ActionSteps(cmd)' = ActionSteps(cmd)
      BY <3>1 DEF ActionSteps, KeyLock, TargetLock, Optional, ActionLock, AssessmentLock, Judge
    <3> QED  BY <3>2, <2>1 DEF StepsOf
  <2>2. CASE cmd.kind \in {"report", "intake", "assess", "cancel"}
    BY <2>2 DEF StepsOf, IntakeSteps, AssessmentSteps, KeyLock, TargetLock, Optional, ReportLock,
       ActionLock,
       AssessmentLock, Judge, LockedReportsOf, InOrder
  <2> QED  BY <2>1, <2>2, CommandAssumption
<1>3. Walked(cmd, t, h)'
  BY <1>2 DEF Walked, Judge
<1> QED  BY <1>1, <1>3

LEMMA TxKeeps ==
    ASSUME TxFit, RowsKept, NEW a \in Admins, NEW c, NEW t, NEW h, Moved(a, c, t, h),
           \/ c = NoCase /\ t = <<>> /\ h = {}
           \/ c \in Commands /\ Begun(c)' /\ Walked(c, t, h)',
           \A b \in Admins \ {a} : h \cap tx[b].held = {}
    PROVE  TxFit'
<1>1. TxForm'
  BY DEF Moved
<1>2. ASSUME NEW b \in Admins PROVE RequestFits(b)'
  <2>1. CASE b = a
    BY <2>1 DEF RequestFits, Moved
  <2>2. CASE b # a
    <3> DEFINE cb == tx[b].cmd
               tb == tx[b].todo
               hb == tx[b].held
    <3>1. tx'[b].cmd = cb /\ tx'[b].todo = tb /\ tx'[b].held = hb
      BY <2>2 DEF Moved
    <3>2. \/ cb = NoCase /\ tb = <<>> /\ hb = {}
          \/ cb \in Commands /\ Begun(cb) /\ Walked(cb, tb, hb)
      BY DEF TxFit, RequestFits
    <3> QED
      <4>1. PICK cc, tt, hh : cc = cb /\ tt = tb /\ hh = hb
        OBVIOUS
      <4>2. ASSUME cc \in Commands, Begun(cc), Walked(cc, tt, hh)
            PROVE  Begun(cc)' /\ Walked(cc, tt, hh)'
        BY <4>2, StepsStay
      <4>3. tx'[b].cmd = cc /\ tx'[b].todo = tt /\ tx'[b].held = hh
        BY <3>1, <4>1
      <4>4. \/ cc = NoCase /\ tt = <<>> /\ hh = {}
            \/ cc \in Commands /\ Begun(cc) /\ Walked(cc, tt, hh)
        BY <3>2, <4>1
      <4> HIDE DEF cb, tb, hb
      <4> QED  BY <4>2, <4>3, <4>4 DEF RequestFits
  <2> QED  BY <2>1, <2>2
<1>3. LocksExclude'
  BY DEF TxFit, LocksExclude, Moved
<1> QED  BY <1>1, <1>2, <1>3 DEF TxFit

\* Steps that write nothing.
LEMMA RowsSame ==
    ASSUME RowsStand, UNCHANGED <<reports, assessments, actions>>
    PROVE  RowsStand' /\ RowsKept /\ \A cmd : Stands(cmd) => Stands(cmd)'
<1>1. RowsStand' /\ RowsKept
  BY DEF RowsStand, RowsFit, EvidenceStands, OneJudgementStands, OneReversal, PreviousStand,
     RowsKept, Chain, Assessed
<1>2. \A cmd : Stands(cmd) => Stands(cmd)'
  <2>1. /\ \A r : Chain(r)' = Chain(r) /\ Assessed(r)' = Assessed(r)
        /\ \A e : Superseded(e)' = Superseded(e) /\ LiveReversal(e)' = LiveReversal(e)
    BY DEF Chain, Assessed, Superseded, LiveReversal
  <2> QED  BY <2>1 DEF Stands, MayChangeIntake, MayAssess, MayRevoke
<1> QED  BY <1>1, <1>2

\* A request that was judged still stands after the rows did not change.
LEMMA JudgementsKeep ==
    ASSUME ReviewInv, UNCHANGED <<reports, assessments, actions>>,
           NEW a \in Admins, NEW c, NEW t, NEW h, Moved(a, c, t, h),
           c # NoCase /\ Judged(t) => Stands(c)
    PROVE  \A b \in Admins : JudgementStands(b)'
<1>1. ASSUME NEW cmd, Stands(cmd) PROVE Stands(cmd)'
  BY <1>1, RowsSame DEF ReviewInv
<1>2. ASSUME NEW b \in Admins PROVE JudgementStands(b)'
  <2>1. PICK cc, tt : cc = tx'[b].cmd /\ tt = tx'[b].todo
    OBVIOUS
  <2>2. cc # NoCase /\ Judged(tt) => Stands(cc)
    BY <2>1 DEF Moved, ReviewInv, JudgementStands
  <2>3. Judged(tt)' = Judged(tt)
    BY DEF Judged, Judge
  <2> QED  BY <2>1, <2>2, <2>3, <1>1 DEF JudgementStands
<1> QED  BY <1>2

\* Every step of every actor keeps the invariant.
LEMMA BeginKeeps ==
    ASSUME ReviewInv, NEW a \in Admins, Begin(a)
    PROVE  ReviewInv'
<1>1. PICK cmd \in Commands :
         /\ WellFormed(cmd)
         /\ cmd.kind = "intake" => reports[cmd.id].status # "none"
         /\ cmd.kind = "act" => assessments[cmd.assessment] # NoCase
         /\ tx' = [tx EXCEPT ![a] = [cmd |-> cmd, todo |-> StepsOf(cmd), held |-> {}]]
  BY DEF Begin
<1>2. UNCHANGED <<reports, assessments, actions>>
  BY DEF Begin
<1> DEFINE s == StepsOf(cmd)
<1>3. Moved(a, cmd, s, {})
  BY <1>1, MovedWhole DEF ReviewInv, TxFit
<1>4. Begun(cmd) /\ Walked(cmd, s, {}) /\ ~Judged(s)
  BY <1>1, WalkBegins DEF Begun
<1>5. RowsStand' /\ RowsKept
  BY <1>2, RowsSame DEF ReviewInv
<1>6. PICK t : t = s
  OBVIOUS
<1> HIDE DEF s
<1>7. Moved(a, cmd, t, {}) /\ Begun(cmd)' /\ Walked(cmd, t, {})' /\ ~Judged(t)
  BY <1>3, <1>4, <1>5, <1>6, StepsStay
<1>8. TxFit'
  BY <1>5, <1>7, TxKeeps DEF ReviewInv
<1>9. \A b \in Admins : JudgementStands(b)'
  BY <1>2, <1>7, JudgementsKeep
<1> QED  BY <1>5, <1>8, <1>9 DEF ReviewInv

LEMMA AcquireKeeps ==
    ASSUME ReviewInv, NEW a \in Admins, Acquire(a)
    PROVE  ReviewInv'
<1> DEFINE cmd0 == tx[a].cmd
           lock == Head(tx[a].todo)
<1>1. /\ tx[a].todo # <<>> /\ lock # Judge /\ ~HeldByOther(a, lock)
      /\ tx' = [tx EXCEPT ![a].todo = Tail(@), ![a].held = @ \cup {lock}]
      /\ UNCHANGED <<reports, assessments, actions>>
  BY DEF Acquire
<1>2. PICK cmd, t0, h0, t, h : /\ cmd = tx[a].cmd /\ t0 = tx[a].todo /\ h0 = tx[a].held
                               /\ t = Tail(t0) /\ h = h0 \cup {lock}
  OBVIOUS
<1>3. tx' = [tx EXCEPT ![a].todo = t, ![a].held = h]
  <2>1. TxForm  BY DEF ReviewInv, TxFit
  <2>2. tx' = [tx EXCEPT ![a] = [[tx[a] EXCEPT !.todo = Tail(@)] EXCEPT !.held = @ \cup {lock}]]
    BY <1>1, <2>1 DEF TxForm
  <2> QED  BY <2>1, <2>2, <1>2 DEF TxForm
<1>4. Moved(a, cmd, t, h)
  BY <1>2, <1>3, MovedHolding DEF ReviewInv, TxFit
<1>5. cmd \in Commands /\ Begun(cmd) /\ Walked(cmd, t0, h0)
  BY <1>1, <1>2 DEF ReviewInv, TxFit, RequestFits
<1>6. Walked(cmd, t, h) /\ (Judged(t) => Judged(t0))
  BY <1>1, <1>2, <1>5, WalkGoesOn
<1>7. RowsStand' /\ RowsKept
  BY <1>1, RowsSame DEF ReviewInv
<1>8. Begun(cmd)' /\ Walked(cmd, t, h)'
  BY <1>5, <1>6, <1>7, StepsStay
<1>9. \A b \in Admins \ {a} : h \cap tx[b].held = {}
  BY <1>1, <1>2 DEF ReviewInv, TxFit, LocksExclude, HeldByOther
<1>10. TxFit'
  BY <1>4, <1>5, <1>7, <1>8, <1>9, TxKeeps DEF ReviewInv
<1>11. cmd # NoCase /\ Judged(t) => Stands(cmd)
  BY <1>2, <1>6 DEF ReviewInv, JudgementStands
<1>12. \A b \in Admins : JudgementStands(b)'
  BY <1>1, <1>4, <1>11, JudgementsKeep
<1> QED  BY <1>7, <1>10, <1>12 DEF ReviewInv

LEMMA DecideKeeps ==
    ASSUME ReviewInv, NEW a \in Admins, Decide(a)
    PROVE  ReviewInv'
<1>1. /\ tx[a].todo # <<>> /\ Head(tx[a].todo) = Judge
      /\ ~Answered(tx[a].cmd) /\ MayDo(tx[a].cmd)
      /\ tx' = [tx EXCEPT ![a].todo = Tail(@)]
      /\ UNCHANGED <<reports, assessments, actions>>
  BY DEF Decide
<1>2. PICK cmd, t0, h, t : cmd = tx[a].cmd /\ t0 = tx[a].todo /\ h = tx[a].held /\ t = Tail(t0)
  OBVIOUS
<1>3. tx' = [tx EXCEPT ![a].todo = t]
  BY <1>1, <1>2
<1>4. Moved(a, cmd, t, h)
  BY <1>2, <1>3, MovedOn DEF ReviewInv, TxFit
<1>5. cmd \in Commands /\ Begun(cmd) /\ Walked(cmd, t0, h)
  BY <1>1, <1>2 DEF ReviewInv, TxFit, RequestFits
<1>6. Walked(cmd, t, h)
  BY <1>1, <1>2, <1>5, WalkGoesOn
<1>7. RowsStand' /\ RowsKept
  BY <1>1, RowsSame DEF ReviewInv
<1>8. Begun(cmd)' /\ Walked(cmd, t, h)'
  BY <1>5, <1>6, <1>7, StepsStay
<1>9. \A b \in Admins \ {a} : h \cap tx[b].held = {}
  BY <1>2 DEF ReviewInv, TxFit, LocksExclude
<1>10. TxFit'
  BY <1>4, <1>5, <1>7, <1>8, <1>9, TxKeeps DEF ReviewInv
<1>11. Stands(cmd)
  <2>1. ~Answered(cmd) /\ MayDo(cmd)
    BY <1>1, <1>2
  <2>2. CASE cmd.kind = "report"  BY <2>1, <2>2 DEF MayDo, MaySubmit, Stands
  <2>3. CASE cmd.kind = "intake"  BY <2>1, <2>3 DEF MayDo, Stands
  <2>4. CASE cmd.kind = "assess"  BY <2>1, <2>4 DEF MayDo, Answered, Stands
  <2>5. CASE cmd.kind = "act"     BY <2>1, <2>5 DEF MayDo, MayAct, Answered, Stands
  <2>6. CASE cmd.kind = "cancel"  BY <2>1, <2>6 DEF MayDo, Stands
  <2> QED  BY <2>2, <2>3, <2>4, <2>5, <2>6, <1>5, CommandAssumption
<1>12. \A b \in Admins : JudgementStands(b)'
  BY <1>1, <1>4, <1>11, JudgementsKeep
<1> QED  BY <1>7, <1>10, <1>12 DEF ReviewInv

LEMMA MovedIdle ==
    ASSUME TxForm, NEW a \in Admins, tx' = [tx EXCEPT ![a] = Idle]
    PROVE  Moved(a, NoCase, <<>>, {})
<1>1. tx' = [tx EXCEPT ![a] = [cmd |-> NoCase, todo |-> <<>>, held |-> {}]]
  BY DEF Idle
<1> QED  BY <1>1, MovedWhole

LEMMA RollbackKeeps ==
    ASSUME ReviewInv, NEW a \in Admins, Rollback(a)
    PROVE  ReviewInv'
<1>1. UNCHANGED <<reports, assessments, actions>> /\ tx' = [tx EXCEPT ![a] = Idle]
  BY DEF Rollback
<1>2. RowsStand' /\ RowsKept
  BY <1>1, RowsSame DEF ReviewInv
<1>3. Moved(a, NoCase, <<>>, {})
  BY <1>1, MovedIdle DEF ReviewInv, TxFit
<1>4. TxFit'
  BY <1>2, <1>3, TxKeeps DEF ReviewInv
<1>5. \A b \in Admins : JudgementStands(b)'
  BY <1>1, <1>3, JudgementsKeep
<1> QED  BY <1>2, <1>4, <1>5 DEF ReviewInv

LEMMA CommitKeeps ==
    ASSUME ReviewInv, NEW a \in Admins, Commit(a)
    PROVE  ReviewInv'
<1>1. tx[a].cmd # NoCase /\ tx[a].todo = <<>> /\ tx' = [tx EXCEPT ![a] = Idle]
  BY DEF Commit
<1>2. PICK ca, ha : ca = tx[a].cmd /\ ha = tx[a].held
  OBVIOUS
<1>3. WriteReport(ca) \/ WriteIntake(ca) \/ WriteAssessment(ca) \/ WriteAction(ca) \/ WriteCancellation(ca)
  BY <1>2 DEF Commit
<1>4. ca \in Commands /\ Begun(ca) /\ Walked(ca, <<>>, ha)
  BY <1>1, <1>2 DEF ReviewInv, TxFit, RequestFits
<1>5. Judged(<<>>)
  BY DEF Judged
<1>6. Stands(ca) /\ Guards(ca) \subseteq ha
  BY <1>1, <1>2, <1>4, <1>5, JudgedUnderGuards DEF ReviewInv, JudgementStands
<1>7. RowsStand /\ RowsFit
  BY DEF ReviewInv, RowsStand
<1>8. ASSUME WriteCancellation(ca)
      PROVE  /\ ca.kind = "cancel" /\ ca.id \in Actions /\ actions[ca.id] # NoCase /\ actions[ca.id].status = "pending"
             /\ UNCHANGED <<reports, assessments>> /\ Settled(ca.id, "cancelled")
             /\ RowsStand' /\ RowsKept
  <2>1. /\ ca.kind = "cancel" /\ UNCHANGED <<reports, assessments>>
        /\ actions' = [actions EXCEPT ![ca.id].status = "cancelled"]
    BY <1>8 DEF WriteCancellation
  <2>2. ca.id \in Actions /\ actions[ca.id] # NoCase /\ actions[ca.id].status = "pending"
    BY <2>1, <1>4, <1>6, CommandAssumption DEF Stands
  <2> QED  BY <2>1, <2>2, <1>7, SettlingKeeps
<1>9. RowsStand' /\ RowsKept
  <2>1. Ready(ca)
    BY <1>4, <1>6 DEF Ready
  <2> QED  BY <2>1, <1>3, <1>7, <1>8, ReportWritten, IntakeWritten, AssessmentWritten, ActionWritten
<1>10. Moved(a, NoCase, <<>>, {})
  BY <1>1, MovedIdle DEF ReviewInv, TxFit
<1>11. TxFit'
  BY <1>9, <1>10, TxKeeps DEF ReviewInv
<1>12. ASSUME NEW b \in Admins PROVE JudgementStands(b)'
  <2>1. PICK cb, tb, hb : cb = tx'[b].cmd /\ tb = tx'[b].todo /\ hb = tx[b].held
    OBVIOUS
  <2> SUFFICES ASSUME cb # NoCase, Judged(tb) PROVE Stands(cb)'
    <3>1. Judged(tb)' = Judged(tb)
      BY DEF Judged, Judge
    <3> QED  BY <3>1, <2>1 DEF JudgementStands
  <2>2. b # a /\ tx'[b] = tx[b]
    BY <2>1, <1>10 DEF Moved
  <2>3. cb \in Commands /\ Begun(cb) /\ Walked(cb, tb, hb) /\ Stands(cb)
    BY <2>1, <2>2 DEF ReviewInv, TxFit, RequestFits, JudgementStands
  <2>4. Guards(cb) \subseteq hb
    BY <2>3, JudgedUnderGuards
  <2>5. ha \cap hb = {}
    BY <2>1, <2>2, <1>2 DEF ReviewInv, TxFit, LocksExclude
  <2>6. Rivals(ca, cb)
    BY <2>3, <2>4, <2>5, <1>4, <1>6 DEF Rivals
  <2>7. RowsFit'
    BY <1>9 DEF RowsStand
  <2>8. CASE WriteCancellation(ca)
    BY <2>3, <2>6, <2>8, <1>7, <1>8, RivalKeys, SettlingLeaves
  <2> QED  BY <2>6, <2>7, <2>8, <1>3, <1>7, ReportLeaves, IntakeLeaves, AssessmentLeaves,
     ActionLeaves
<1> QED  BY <1>9, <1>11, <1>12 DEF ReviewInv

LEMMA ExecuteKeeps ==
    ASSUME ReviewInv, NEW x \in Actions, Execute(x)
    PROVE  ReviewInv'
<1>1. /\ actions[x] # NoCase /\ actions[x].status = "pending" /\ ~\E a \in Admins : ActionLock(x) \in tx[a].held
      /\ UNCHANGED <<reports, assessments, tx>>
  BY DEF Execute
<1>2. PICK status \in {"applied", "failed"} : actions' = [actions EXCEPT ![x].status = status]
  BY DEF Execute
<1>3. RowsStand' /\ RowsKept /\ Settled(x, status)
  BY <1>1, <1>2, SettlingKeeps DEF ReviewInv
<1>4. ASSUME NEW b \in Admins PROVE RequestFits(b)' /\ JudgementStands(b)'
  <2>1. PICK cb, tb, hb : cb = tx[b].cmd /\ tb = tx[b].todo /\ hb = tx[b].held
    OBVIOUS
  <2>2. \/ cb = NoCase /\ tb = <<>> /\ hb = {}
        \/ cb \in Commands /\ Begun(cb) /\ Walked(cb, tb, hb)
    BY <2>1 DEF ReviewInv, TxFit, RequestFits
  <2>3. tx'[b].cmd = cb /\ tx'[b].todo = tb /\ tx'[b].held = hb
    BY <1>1, <2>1
  <2>4. RequestFits(b)'
    BY <2>2, <2>3, <1>3, StepsStay DEF RequestFits
  <2>5. ASSUME cb # NoCase, Judged(tb) PROVE Stands(cb)'
    <3>1. cb \in Commands /\ Stands(cb) /\ Guards(cb) \subseteq hb
      BY <2>1, <2>2, <2>5, JudgedUnderGuards DEF ReviewInv, JudgementStands
    <3>2. cb.kind = "cancel" => cb.id # x
      BY <3>1, <1>1, <2>1, GuardsAre
    <3>3. RowsFit
      BY DEF ReviewInv, RowsStand
    <3> QED  BY <3>1, <3>2, <3>3, <1>1, <1>3, SettlingLeaves
  <2>6. Judged(tb)' = Judged(tb)
    BY DEF Judged, Judge
  <2> QED  BY <2>3, <2>4, <2>5, <2>6 DEF JudgementStands
<1>5. TxFit'
  BY <1>1, <1>4 DEF ReviewInv, TxFit, TxForm, LocksExclude
<1> QED  BY <1>3, <1>4, <1>5 DEF ReviewInv

LEMMA StandStill ==
    ASSUME ReviewInv, UNCHANGED <<reports, assessments, actions, tx>>
    PROVE  ReviewInv'
<1>1. RowsStand' /\ RowsKept
  BY RowsSame DEF ReviewInv
<1>2. ASSUME NEW b \in Admins PROVE RequestFits(b)' /\ JudgementStands(b)'
  <2>1. PICK cb, tb, hb : cb = tx[b].cmd /\ tb = tx[b].todo /\ hb = tx[b].held
    OBVIOUS
  <2>2. /\ \/ cb = NoCase /\ tb = <<>> /\ hb = {}
           \/ cb \in Commands /\ Begun(cb) /\ Walked(cb, tb, hb)
        /\ cb # NoCase /\ Judged(tb) => Stands(cb)
    BY <2>1 DEF ReviewInv, TxFit, RequestFits, JudgementStands
  <2>3. tx'[b].cmd = cb /\ tx'[b].todo = tb /\ tx'[b].held = hb
    BY <2>1
  <2>4. RequestFits(b)'
    BY <2>2, <2>3, <1>1, StepsStay DEF RequestFits
  <2>5. Judged(tb)' = Judged(tb) /\ (Stands(cb) => Stands(cb)')
    BY RowsSame DEF Judged, Judge, ReviewInv
  <2> QED  BY <2>2, <2>3, <2>4, <2>5 DEF JudgementStands
<1>3. TxFit'
  BY <1>2 DEF ReviewInv, TxFit, TxForm, LocksExclude
<1> QED  BY <1>1, <1>2, <1>3 DEF ReviewInv

\* The invariant holds from the start and in all states.
LEMMA ReviewStarts == ReviewInit => ReviewInv
<1> SUFFICES ASSUME ReviewInit PROVE ReviewInv
  OBVIOUS
<1>1. \A r \in Reports : reports[r] \in ReportRows /\ reports[r].dup = NoCase
  BY CommandAssumption DEF ReviewInit, Received, NoReport, ReportRows
<1>2. RowsFit
  BY <1>1 DEF ReviewInit, RowsFit
<1>3. \A r \in Reports : r \in Chain(r)
  BY DEF Chain
<1>4. /\ \A e \in Assessments : assessments[e] = NoCase
      /\ \A x \in Actions : actions[x] = NoCase
  BY DEF ReviewInit
<1>5. EvidenceStands /\ OneJudgementStands /\ OneReversal /\ PreviousStand
  BY <1>1, <1>3, <1>4 DEF EvidenceStands, Assessed, OneJudgementStands, OneReversal, PreviousStand
<1>6. \A a \in Admins : tx[a].cmd = NoCase /\ tx[a].todo = <<>> /\ tx[a].held = {}
  BY DEF ReviewInit, Idle
<1>7. TxForm
  BY <1>6 DEF ReviewInit, TxForm, Idle
<1> QED  BY <1>2, <1>5, <1>6, <1>7 DEF ReviewInv, RowsStand, TxFit, RequestFits, LocksExclude,
   JudgementStands

LEMMA ReviewSteps == ReviewInv /\ [ReviewNext]_reviewVars => ReviewInv'
<1> SUFFICES ASSUME ReviewInv, [ReviewNext]_reviewVars PROVE ReviewInv'
  OBVIOUS
<1>1. CASE \E a \in Admins : Begin(a) \/ Acquire(a) \/ Decide(a) \/ Commit(a) \/ Rollback(a)
  BY <1>1, BeginKeeps, AcquireKeeps, DecideKeeps, CommitKeeps, RollbackKeeps
<1>2. CASE \E x \in Actions : Execute(x)
  BY <1>2, ExecuteKeeps
<1>3. CASE \E w \in ReviewWorks : RemoveWork(w)
  BY <1>3, StandStill DEF RemoveWork
<1>4. CASE UNCHANGED reviewVars
  BY <1>4, StandStill DEF reviewVars
<1> QED  BY <1>1, <1>2, <1>3, <1>4 DEF ReviewNext

LEMMA ReviewHolds == ReviewSpec => []ReviewInv
  BY ReviewStarts, ReviewSteps, PTL DEF ReviewSpec

\* Whatever requests do at once, every judgement was passed on reports that it
\* could be passed on, none is replaced twice, and no action is taken back twice:
\* what the service checks before its transaction writes still holds when it does.
THEOREM DecisionsLast == ReviewSpec => []DecisionsStand
<1>1. ReviewInv => DecisionsStand
  BY DEF ReviewInv, RowsStand, RowsFit, DecisionsStand, ReviewTypeOK
<1> QED  BY <1>1, ReviewHolds, PTL

\* Who waits for whom: the one waited for holds the lock, and waits for a later one.
LEMMA WaitingMeets ==
    ASSUME ReviewInv, NEW a \in Admins, NEW b \in Admins, a # b, WaitsFor(a, b), WaitsFor(b, a)
    PROVE  \E r \in Reports : /\ Head(tx[a].todo) = ReportLock(r) /\ TargetOf[r] = TargetFor(tx[a].cmd)
                              /\ TargetOf[r] = TargetFor(tx[b].cmd)
                              /\ TargetLock(TargetFor(tx[a].cmd)) \in tx[a].held
                              /\ TargetLock(TargetFor(tx[b].cmd)) \in tx[b].held
<1>1. PICK ca, ta, ha, cb, tb, hb :
         /\ ca = tx[a].cmd /\ ta = tx[a].todo /\ ha = tx[a].held
         /\ cb = tx[b].cmd /\ tb = tx[b].todo /\ hb = tx[b].held
  OBVIOUS
<1>2. ta # <<>> /\ Head(ta) \in hb /\ tb # <<>> /\ Head(tb) \in ha
  BY <1>1 DEF WaitsFor
<1>3. /\ ca \in Commands /\ Walked(ca, ta, ha)
      /\ cb \in Commands /\ Walked(cb, tb, hb)
  BY <1>1, <1>2 DEF ReviewInv, TxFit, RequestFits
<1>4. Judge \notin ha /\ Judge \notin hb
  BY <1>3 DEF Walked
<1>5. Before(Head(tb), Head(ta)) /\ Before(Head(ta), Head(tb))
  BY <1>2, <1>3, <1>4, WaitsInOrder
<1>6. LockRank(Head(ta)) = 5 /\ LockRank(Head(tb)) = 5
  <2>1. \A lock : LockRank(lock) \in 1 .. 5
    BY DEF LockRank
  <2> QED  BY <2>1, <1>5 DEF Before
<1>7. /\ TargetLock(TargetFor(ca)) \in ha
      /\ \E r \in Reports : Head(tb) = ReportLock(r) /\ TargetOf[r] = TargetFor(ca)
      /\ \/ \E q \in Reports : Head(ta) = ReportLock(q) /\ TargetOf[q] = TargetFor(ca)
         \/ ca.kind = "intake" /\ ca.dup # NoCase /\ Head(ta) = ReportLock(ca.dup) /\ Judged(ta)
  BY <1>2, <1>3, <1>4, <1>6, WaitsInOrder
<1>8. /\ TargetLock(TargetFor(cb)) \in hb
      /\ \E r \in Reports : Head(ta) = ReportLock(r) /\ TargetOf[r] = TargetFor(cb)
  BY <1>2, <1>3, <1>4, <1>6, WaitsInOrder
<1>9. PICK r \in Reports : Head(ta) = ReportLock(r) /\ TargetOf[r] = TargetFor(cb)
  BY <1>8
<1>10. TargetOf[r] = TargetFor(ca)
  <2>1. CASE \E q \in Reports : Head(ta) = ReportLock(q) /\ TargetOf[q] = TargetFor(ca)
    BY <2>1, <1>9, Ranks
  <2>2. CASE ca.kind = "intake" /\ ca.dup # NoCase /\ Head(ta) = ReportLock(ca.dup) /\ Judged(ta)
    <3>1. MayChangeIntake(ca) /\ r = ca.dup
      BY <2>2, <1>1, <1>3, <1>9, Ranks, CommandAssumption DEF ReviewInv, JudgementStands, Stands
    <3>2. r \in Chain(ca.dup)
      BY <3>1 DEF Chain
    <3> QED  BY <2>2, <3>1, <3>2 DEF MayChangeIntake, TargetFor
  <2> QED  BY <2>1, <2>2, <1>7
<1> QED  BY <1>1, <1>7, <1>8, <1>9, <1>10

\* No set of requests wait for each other: keys, targets, actions, judgements and
\* reports are locked in this order, and reports of one target are locked by one
\* request at a time.
THEOREM RequestsNeverWaitInCircles == ReviewSpec => []NoCircularWait
<1>1. ReviewInv => NoCircularWait
  <2> SUFFICES ASSUME ReviewInv, NEW a \in Admins, NEW b \in Admins, a # b, WaitsFor(a, b), WaitsFor(b, a)
               PROVE  FALSE
    BY DEF NoCircularWait
  <2>1. TargetFor(tx[a].cmd) = TargetFor(tx[b].cmd)
        /\ TargetLock(TargetFor(tx[a].cmd)) \in tx[a].held /\ TargetLock(TargetFor(tx[b].cmd)) \in tx[b].held
    BY WaitingMeets
  <2> QED  BY <2>1 DEF ReviewInv, TxFit, LocksExclude
<1> QED  BY <1>1, ReviewHolds, PTL

\* An action is only taken on a violation that was found, by the judgement it names,
\* unless it takes an earlier action back.
THEOREM ActionsRestOnJudgements == ReviewSpec => ActionsAreGrounded
<1> DEFINE Grounded ==
      \A x \in Actions : actions[x] = NoCase /\ actions'[x] # NoCase =>
            /\ ~Superseded(actions'[x].assessment)
            /\ actions'[x].type # "revoke"
                  => assessments[actions'[x].assessment].outcome = "violation"
<1>1. ReviewInv /\ [ReviewNext]_reviewVars => [Grounded]_reviewVars
  <2> SUFFICES ASSUME ReviewInv, [ReviewNext]_reviewVars, NEW x \in Actions, actions[x] = NoCase, actions'[x] # NoCase
               PROVE  /\ ~Superseded(actions'[x].assessment)
                      /\ actions'[x].type # "revoke"
                            => assessments[actions'[x].assessment].outcome = "violation"
    OBVIOUS
  <2>1. actions' # actions
    OBVIOUS
  <2>2. ASSUME NEW y \in Actions, NEW status \in {"applied", "failed", "cancelled"}, actions[y] # NoCase,
               actions' = [actions EXCEPT ![y].status = status]
        PROVE  FALSE
    BY <2>2 DEF ReviewInv, RowsStand, RowsFit
  <2>3. ~\E y \in Actions : Execute(y)
    BY <2>2 DEF Execute
  <2>4. PICK a \in Admins : Commit(a)
    BY <2>1, <2>3 DEF ReviewNext, reviewVars, Begin, Acquire, Decide, Rollback, RemoveWork
  <2>5. PICK cmd : cmd = tx[a].cmd /\ tx[a].todo = <<>> /\ cmd # NoCase
    BY <2>4 DEF Commit
  <2>6. cmd \in Commands /\ Stands(cmd)
    <3>1. Judged(<<>>)
      BY DEF Judged
    <3> QED  BY <3>1, <2>5 DEF ReviewInv, JudgementStands, TxFit, RequestFits
  <2>7. ~WriteCancellation(cmd)
    BY <2>2, <2>6, CommandAssumption DEF WriteCancellation, Stands
  <2>8. WriteAction(cmd)
    BY <2>1, <2>4, <2>5, <2>7 DEF Commit, WriteReport, WriteIntake, WriteAssessment
  <2>9. x = cmd.id /\ actions'[x].assessment = cmd.assessment /\ actions'[x].type = cmd.type
    BY <2>8 DEF WriteAction, ReviewInv, RowsStand, RowsFit
  <2> QED  BY <2>6, <2>8, <2>9 DEF Stands, WriteAction
<1>2. ActionsAreGrounded <=> [][Grounded]_reviewVars
  BY DEF ActionsAreGrounded
<1> HIDE DEF Grounded
<1> QED  BY <1>1, <1>2, ReviewHolds, PTL DEF ReviewSpec
=============================================================================
