------------------------ MODULE Notifications_proofs ------------------------
(***************************************************************************)
(* Proofs about Notifications for any number of notifications, workers,    *)
(* requests, tries and faults.  JobInv says who holds a job and how many   *)
(* tries it has left; nothing else is inductive without it, because a      *)
(* worker that fails puts its job back without a look at who else has it.  *)
(* On top of it each property has a part of its own, which says what the   *)
(* processes under way have read, mailed and marked.                       *)
(***************************************************************************)
EXTENDS Notifications, FiniteSetTheorems, TLAPS

\* Who is under way is so with a notification; who is not holds nothing.
KnowsItsNote ==
  \A p \in Proc : IF at[p].phase = "idle" THEN at[p] = AtRest ELSE at[p].note \in Note

\* A worker under way holds the job of its notification, and alone.
HoldsItsJob ==
  /\ \A w \in Worker : at[w].phase # "idle" =>
       /\ job[at[w].note].state = "active"
       /\ at[w].phase \notin {"created", "cancelling"}
  /\ \A w, u \in Worker : at[w].phase # "idle" /\ at[w].note = at[u].note => w = u

\* A notification between queue() and its job has none, and one request at it.
JobNotYet ==
  /\ \A r \in Request : at[r].phase = "created" => job[at[r].note].state = "none"
  /\ \A r, q \in Request :
       at[r].phase = "created" /\ at[q].phase = "created" /\ at[r].note = at[q].note
         => r = q

\* Without a row there is no job, and nobody is at it.
NothingWithoutRow ==
  \A n \in Note : row[n] = "NONE" =>
    job[n].state = "none" /\ \A p \in Proc : at[p].note # n

\* A job that is not over has a try left.
TryLeft ==
  \A n \in Note : job[n].state # "gone" => job[n].failed < MaxTries

JobInv ==
  /\ TypeOK
  /\ KnowsItsNote
  /\ HoldsItsJob
  /\ JobNotYet
  /\ NothingWithoutRow
  /\ TryLeft

\* What MailedOnce rests on: alone at the notification, a process sees whether
\* it was mailed.
IsAt(p, n) == at[p].note = n /\ at[p].phase # "created"
Alone(n) == \A p, q \in Proc : IsAt(p, n) /\ IsAt(q, n) => p = q
Quiet(n) == ~raced[n] /\ ~hit[n]

\* Once it is mailed, its row or the process that mailed it says so.
MailKnown(n) ==
  /\ Alone(n)
  /\ mails[n] <= 1
  /\ mails[n] = 1 =>
       row[n] = "SENT" \/ \E p \in Proc : at[p].note = n /\ at[p].phase = "accepted"
  /\ row[n] = "SENT" => \A p \in Proc : ~IsAt(p, n)

MailSeen == \A n \in Note : Quiet(n) => MailKnown(n)

\* What ScheduleMatchesTries rests on: alone, a process knows the attempts.
AttemptsKnown ==
  \A n \in Note, p \in Proc : Quiet(n) /\ at[p].note = n =>
    /\ at[p].phase = "read" => at[p].seen = attempts[n]
    /\ at[p].phase \in {"marked", "accepted", "refused"} => at[p].seen + 1 = attempts[n]

-----------------------------------------------------------------------------
(* Jobs and types. *)

LEMMA JobInit == Init => JobInv
BY NotificationsAssumption
DEF Init, JobInv, TypeOK, KnowsItsNote, HoldsItsJob, JobNotYet, NothingWithoutRow,
    TryLeft, AtRest, Phase, Status, JobState, Note, Proc

JobRow == [state : JobState, failed : 0 .. MaxTries, stalled : BOOLEAN]

\* A job whose state changes is a job.
LEMMA JobTyped ==
  ASSUME NEW jobs \in [Note -> JobRow], NEW n \in Note, NEW s \in JobState
  PROVE  /\ [jobs EXCEPT ![n].state = s] \in [Note -> JobRow]
         /\ [jobs EXCEPT ![n].stalled = TRUE, ![n].state = s] \in [Note -> JobRow]
BY DEF JobRow

\* Every step keeps them, whoever fails in between.
LEMMA JobNext == JobInv /\ [Next]_vars => JobInv'
<1> SUFFICES ASSUME JobInv, [Next]_vars PROVE JobInv'
  OBVIOUS
<1> USE NotificationsAssumption
<1> USE DEF JobInv, TypeOK, KnowsItsNote, HoldsItsJob, JobNotYet, NothingWithoutRow,
            TryLeft, AtRest, Phase, Status, JobState, Proc
<1>1. ASSUME NEW p \in Proc, MarkProcessing(p) PROVE JobInv'
  BY <1>1 DEF MarkProcessing
<1>2. ASSUME NEW p \in Proc, ProviderAccepts(p) PROVE JobInv'
  BY <1>2 DEF ProviderAccepts, Note
<1>3. ASSUME NEW p \in Proc, ProviderRefuses(p) PROVE JobInv'
  BY <1>3 DEF ProviderRefuses
<1>4. ASSUME NEW p \in Proc, MarkSent(p) PROVE JobInv'
  <2>1. TypeOK'
    <3>1. at[p].note \in Note
      BY <1>4 DEF MarkSent
    <3>2. job' \in [Note -> JobRow]
      <4>1. job \in [Note -> JobRow] /\ "gone" \in JobState
        BY DEF JobRow
      <4>2. [job EXCEPT ![at[p].note].state = "gone"] \in [Note -> JobRow]
        BY <3>1, <4>1, JobTyped
      <4> HIDE DEF TypeOK, JobInv
      <4> QED BY <1>4, <4>1, <4>2 DEF MarkSent, JobDone
    <3> QED BY <1>4, <3>1, <3>2 DEF MarkSent, JobRow
  <2>2. KnowsItsNote'
    BY <1>4 DEF MarkSent, JobDone
  <2>3. HoldsItsJob'
    BY <1>4 DEF MarkSent, JobDone
  <2>4. JobNotYet'
    BY <1>4 DEF MarkSent, JobDone
  <2>5. NothingWithoutRow'
    BY <1>4 DEF MarkSent, JobDone
  <2>6. TryLeft'
    BY <1>4 DEF MarkSent, JobDone
  <2> QED BY <2>1, <2>2, <2>3, <2>4, <2>5, <2>6
<1>5. ASSUME NEW p \in Proc, MarkFailed(p) PROVE JobInv'
  <2>1. TypeOK'
    <3>1. at[p].note \in Note
      BY <1>5 DEF MarkFailed, Failing
    <3>2. job' \in [Note -> [state : JobState, failed : 0 .. MaxTries, stalled : BOOLEAN]]
      BY <1>5, <3>1 DEF MarkFailed, Failing, JobFails, TriesLeft
    <3>3. NextAttempt(p) \in BOOLEAN
      BY DEF NextAttempt
    <3> QED BY <1>5, <3>1, <3>2, <3>3 DEF MarkFailed
  <2>2. KnowsItsNote'
    BY <1>5 DEF MarkFailed, Failing, JobFails, TriesLeft
  <2>3. HoldsItsJob'
    BY <1>5 DEF MarkFailed, Failing, JobFails, TriesLeft
  <2>4. JobNotYet'
    BY <1>5 DEF MarkFailed, Failing, JobFails, TriesLeft
  <2>5. NothingWithoutRow'
    BY <1>5 DEF MarkFailed, Failing, JobFails, TriesLeft
  <2>6. TryLeft'
    BY <1>5 DEF MarkFailed, Failing, JobFails, TriesLeft
  <2> QED BY <2>1, <2>2, <2>3, <2>4, <2>5, <2>6
<1>6. ASSUME NEW p \in Proc, AnswerLost(p) PROVE JobInv'
  BY <1>6 DEF AnswerLost, Fault, Note
<1>7. ASSUME NEW p \in Proc, MarkSentFails(p) PROVE JobInv'
  BY <1>7 DEF MarkSentFails, Fault
<1>8. ASSUME NEW p \in Proc, WriteFails(p) PROVE JobInv'
  <2>1. TypeOK'
    BY <1>8 DEF WriteFails, Failing, JobFails, TriesLeft, Fault
  <2>2. KnowsItsNote'
    BY <1>8 DEF WriteFails, Failing, JobFails, TriesLeft, Fault
  <2>3. HoldsItsJob'
    BY <1>8 DEF WriteFails, Failing, JobFails, TriesLeft, Fault
  <2>4. JobNotYet'
    BY <1>8 DEF WriteFails, Failing, JobFails, TriesLeft, Fault
  <2>5. NothingWithoutRow'
    BY <1>8 DEF WriteFails, Failing, JobFails, TriesLeft, Fault
  <2>6. TryLeft'
    BY <1>8 DEF WriteFails, Failing, JobFails, TriesLeft, Fault
  <2> QED BY <2>1, <2>2, <2>3, <2>4, <2>5, <2>6
<1>9. ASSUME NEW p \in Proc, Crash(p) PROVE JobInv'
  <2>1. at[p].note \in Note
    BY <1>9 DEF Crash
  <2>2. TypeOK'
    <3>1. job' \in [Note -> JobRow]
      <4>1. job \in [Note -> JobRow] /\ {"gone", "waiting"} \subseteq JobState
        BY DEF JobRow
      <4>2. \A s \in JobState :
              [job EXCEPT ![at[p].note].stalled = TRUE, ![at[p].note].state = s] \in [Note -> JobRow]
        BY <2>1, <4>1, JobTyped
      <4> DEFINE s == IF job[at[p].note].stalled THEN "gone" ELSE "waiting"
                 moved == [job EXCEPT ![at[p].note].stalled = TRUE, ![at[p].note].state = s]
      <4>3. s \in JobState
        BY <4>1
      <4>4. job' = job \/ job' = moved
        BY <1>9 DEF Crash
      <4>5. moved \in [Note -> JobRow]
        BY <4>2, <4>3
      <4> HIDE DEF moved, s
      <4> QED BY <4>1, <4>4, <4>5
    <3>2. mails' \in [Note -> Nat]
      BY <1>9, <2>1 DEF Crash
    <3>3. at' \in [Proc -> [phase : Phase, note : Note \cup {NoNote}, seen : Nat]]
      BY <1>9 DEF Crash
    <3>4. faults' \in Nat /\ hit' \in [Note -> BOOLEAN]
      BY <1>9, <2>1 DEF Crash, Fault
    <3>5. UNCHANGED <<row, attempts, due, retries, raced>>
      BY <1>9 DEF Crash
    <3> QED BY <3>1, <3>2, <3>3, <3>4, <3>5 DEF JobRow
  <2>3. KnowsItsNote'
    BY <1>9, <2>1 DEF Crash
  <2>4. HoldsItsJob'
    BY <1>9, <2>1 DEF Crash
  <2>5. JobNotYet'
    BY <1>9, <2>1 DEF Crash
  <2>6. NothingWithoutRow'
    BY <1>9, <2>1 DEF Crash
  <2>7. TryLeft'
    BY <1>9, <2>1 DEF Crash
  <2> QED BY <2>2, <2>3, <2>4, <2>5, <2>6, <2>7
<1>10. ASSUME NEW r \in Request, Enqueue(r) PROVE JobInv'
  <2>1. at[r].note \in Note
    BY <1>10 DEF Enqueue
  <2>2. TypeOK'
    <3>1. job' \in [Note -> JobRow]
      <4>1. job \in [Note -> JobRow] /\ "waiting" \in JobState
        BY DEF JobRow
      <4> QED BY <1>10, <2>1, <4>1, JobTyped DEF Enqueue
    <3> QED BY <1>10, <3>1 DEF Enqueue, JobRow
  <2>3. KnowsItsNote'
    BY <1>10 DEF Enqueue
  <2>4. HoldsItsJob'
    BY <1>10, <2>1 DEF Enqueue
  <2>5. JobNotYet'
    BY <1>10, <2>1 DEF Enqueue
  <2>6. NothingWithoutRow'
    BY <1>10, <2>1 DEF Enqueue
  <2>7. TryLeft'
    BY <1>10, <2>1 DEF Enqueue
  <2> QED BY <2>2, <2>3, <2>4, <2>5, <2>6, <2>7
<1>11. ASSUME NEW r \in Request, EnqueueSkipped(r) PROVE JobInv'
  BY <1>11 DEF EnqueueSkipped
<1>12. ASSUME NEW r \in Request, SendInline(r) PROVE JobInv'
  BY <1>12 DEF SendInline, Begin
<1>13. ASSUME NEW r \in Request, MarkCancelled(r) PROVE JobInv'
  BY <1>13 DEF MarkCancelled
<1>14. ASSUME NEW r \in Request, NEW n \in Note, Queue(r, n) PROVE JobInv'
  BY <1>14 DEF Queue
<1>15. ASSUME NEW r \in Request, NEW n \in Note, Retry(r, n) PROVE JobInv'
  BY <1>15 DEF Retry, Begin
<1>16. ASSUME NEW r \in Request, NEW n \in Note, CancelRead(r, n) PROVE JobInv'
  BY <1>16 DEF CancelRead, Begin
<1>17. ASSUME NEW w \in Worker, NEW n \in Note, Take(w, n) PROVE JobInv'
  <2>1. CASE Unsent(n)
    <3>1. at' = [at EXCEPT ![w] = [phase |-> "read", note |-> n, seen |-> attempts[n]]]
      BY <1>17, <2>1 DEF Take, Begin
    <3>2. job' = [job EXCEPT ![n].state = "active"]
      BY <1>17, <2>1 DEF Take, Begin
    <3>3. raced' \in [Note -> BOOLEAN]
      BY <1>17, <2>1 DEF Take, Begin
    <3>4. at[w] = AtRest /\ job[n].state = "waiting"
          /\ UNCHANGED <<row, attempts, due, mails, retries, faults, hit>>
      BY <1>17 DEF Take
    <3>5. TypeOK'
      <4>1. job' \in [Note -> [state : JobState, failed : 0 .. MaxTries, stalled : BOOLEAN]]
        BY <3>2
      <4>2. at' \in [Proc -> [phase : Phase, note : Note \cup {NoNote}, seen : Nat]]
        BY <3>1
      <4> QED BY <3>3, <3>4, <4>1, <4>2
    <3>6. \A u \in Worker : at[u].note # n
      <4> SUFFICES ASSUME NEW u \in Worker, at[u].note = n PROVE FALSE
        OBVIOUS
      <4>1. at[u].phase # "idle"
        BY DEF NotificationsAssumption
      <4> QED BY <3>4, <4>1
    <3>7. KnowsItsNote' /\ HoldsItsJob'
      <4>1. KnowsItsNote'
        BY <3>1
      <4>2. HoldsItsJob'
        BY <3>1, <3>2, <3>6
      <4> QED BY <4>1, <4>2
    <3>8. JobNotYet'
      BY <3>1, <3>2, <3>4
    <3>9. NothingWithoutRow'
      BY <3>1, <3>2, <3>4
    <3>10. TryLeft'
      BY <3>2, <3>4
    <3> QED BY <3>5, <3>7, <3>8, <3>9, <3>10
  <2>2. CASE ~Unsent(n)
    <3>1. job' = [job EXCEPT ![n].state = "gone"]
      BY <1>17, <2>2 DEF Take, JobDone
    <3>2. job[n].state = "waiting"
          /\ UNCHANGED <<row, attempts, due, mails, retries, faults, hit, at, raced>>
      BY <1>17, <2>2 DEF Take
    <3> QED BY <3>1, <3>2
  <2> QED BY <2>1, <2>2
<1>18. ASSUME UNCHANGED vars PROVE JobInv'
  BY <1>18 DEF vars
<1> HIDE DEF JobInv
<1> QED
  BY <1>1, <1>2, <1>3, <1>4, <1>5, <1>6, <1>7, <1>8, <1>9, <1>10, <1>11, <1>12,
     <1>13, <1>14, <1>15, <1>16, <1>17, <1>18 DEF Next, Advance

\* Every variable keeps its type: a job fails no more often than it may.
THEOREM TypeCorrect == Spec => []TypeOK
<1>1. JobInv => TypeOK
  BY DEF JobInv
<1> QED BY JobInit, JobNext, <1>1, PTL DEF Spec

-----------------------------------------------------------------------------
(* A row in PROCESSING. *)

\* Whoever leaves has marked the row, or was hit by a fault.
LEMMA OwnedNext == JobInv /\ ProcessingIsOwned /\ [Next]_vars => ProcessingIsOwned'
<1> SUFFICES ASSUME JobInv, ProcessingIsOwned, [Next]_vars PROVE ProcessingIsOwned'
  OBVIOUS
<1> USE DEF JobInv, TypeOK, KnowsItsNote, ProcessingIsOwned, At, Proc, Phase
<1>1. ASSUME NEW p \in Proc, MarkProcessing(p) PROVE ProcessingIsOwned'
  BY <1>1 DEF MarkProcessing
<1>2. ASSUME NEW p \in Proc, ProviderAccepts(p) PROVE ProcessingIsOwned'
  BY <1>2 DEF ProviderAccepts
<1>3. ASSUME NEW p \in Proc, ProviderRefuses(p) PROVE ProcessingIsOwned'
  BY <1>3 DEF ProviderRefuses
<1>4. ASSUME NEW p \in Proc, MarkSent(p) PROVE ProcessingIsOwned'
  BY <1>4 DEF MarkSent, AtRest
<1>5. ASSUME NEW p \in Proc, MarkFailed(p) PROVE ProcessingIsOwned'
  BY <1>5 DEF MarkFailed, AtRest, Failing
<1>6. ASSUME NEW p \in Proc, AnswerLost(p) PROVE ProcessingIsOwned'
  BY <1>6 DEF AnswerLost, Fault
<1>7. ASSUME NEW p \in Proc, MarkSentFails(p) PROVE ProcessingIsOwned'
  BY <1>7 DEF MarkSentFails, Fault
<1>8. ASSUME NEW p \in Proc, WriteFails(p) PROVE ProcessingIsOwned'
  BY <1>8 DEF WriteFails, Fault, Failing
<1>9. ASSUME NEW p \in Proc, Crash(p) PROVE ProcessingIsOwned'
  BY <1>9 DEF Crash, Fault
<1>10. ASSUME NEW r \in Request, Enqueue(r) PROVE ProcessingIsOwned'
  BY <1>10 DEF Enqueue, AtRest
<1>11. ASSUME NEW r \in Request, EnqueueSkipped(r) PROVE ProcessingIsOwned'
  BY <1>11 DEF EnqueueSkipped, AtRest
<1>12. ASSUME NEW r \in Request, SendInline(r) PROVE ProcessingIsOwned'
  BY <1>12 DEF SendInline, Begin
<1>13. ASSUME NEW r \in Request, MarkCancelled(r) PROVE ProcessingIsOwned'
  BY <1>13 DEF MarkCancelled
<1>14. ASSUME NEW r \in Request, NEW n \in Note, Queue(r, n) PROVE ProcessingIsOwned'
  BY <1>14 DEF Queue, AtRest
<1>15. ASSUME NEW r \in Request, NEW n \in Note, Retry(r, n) PROVE ProcessingIsOwned'
  BY <1>15 DEF Retry, Begin, AtRest
<1>16. ASSUME NEW r \in Request, NEW n \in Note, CancelRead(r, n) PROVE ProcessingIsOwned'
  BY <1>16 DEF CancelRead, Begin, AtRest
<1>17. ASSUME NEW w \in Worker, NEW n \in Note, Take(w, n) PROVE ProcessingIsOwned'
  BY <1>17 DEF Take, Begin, AtRest
<1>18. ASSUME UNCHANGED vars PROVE ProcessingIsOwned'
  BY <1>18 DEF vars
<1> HIDE DEF ProcessingIsOwned
<1> QED
  BY <1>1, <1>2, <1>3, <1>4, <1>5, <1>6, <1>7, <1>8, <1>9, <1>10,
     <1>11, <1>12, <1>13, <1>14, <1>15, <1>16, <1>17, <1>18
     DEF Next, Advance
-----------------------------------------------------------------------------
(* Mails. *)

\* What a process that is under way reaches next, at its notification or at rest.
Onward(p, x) ==
  /\ IsAt(p, at[p].note) /\ at[p].note \in Note
  /\ at' = [at EXCEPT ![p] = x]
  /\ x = AtRest \/ (x.note = at[p].note /\ x.phase # "created")

\* Nothing is written of any notification but n.
OnlyOf(n) ==
  \A m \in Note \ {n} :
    row'[m] = row[m] /\ mails'[m] = mails[m] /\ raced'[m] = raced[m] /\ hit'[m] = hit[m]

\* Where a process moves on, the other notifications are as they were.
LEMMA OthersStay ==
  ASSUME JobInv, NEW p \in Proc, NEW x, Onward(p, x),
         NEW m \in Note, m # at[p].note
  PROVE  \A q \in Proc : /\ IsAt(q, m)' <=> IsAt(q, m)
                         /\ at'[q].note = m <=> at[q].note = m
                         /\ at[q].note = m => at'[q] = at[q]
<1> SUFFICES ASSUME NEW q \in Proc
             PROVE  /\ IsAt(q, m)' <=> IsAt(q, m)
                    /\ at'[q].note = m <=> at[q].note = m
                    /\ at[q].note = m => at'[q] = at[q]
  OBVIOUS
<1>1. CASE q = p
  <2>1. at'[q] = x /\ at[q].note # m
    BY <1>1 DEF Onward, JobInv, TypeOK
  <2>2. x.note # m
    BY NotificationsAssumption DEF Onward, AtRest, NotificationsAssumption
  <2> QED BY <2>1, <2>2 DEF IsAt
<1>2. CASE q # p
  BY <1>2 DEF Onward, IsAt, JobInv, TypeOK
<1> QED BY <1>1, <1>2

\* A process that goes on alone leaves a mail it has sent known.
LEMMA MovesOn ==
  ASSUME JobInv, MailSeen, NEW p \in Proc, NEW x, NEW n \in Note,
         Onward(p, x), n = at[p].note,
         OnlyOf(n), ~hit'[n] => UNCHANGED <<raced, hit>>,
         Quiet(n) /\ ~hit'[n] =>
           /\ mails'[n] <= 1
           /\ mails'[n] = 1 => row'[n] = "SENT" \/ (x.note = n /\ x.phase = "accepted")
           /\ row'[n] = "SENT" => x = AtRest
  PROVE  MailSeen'
<1> SUFFICES ASSUME NEW m \in Note, Quiet(m)' PROVE MailKnown(m)'
  BY DEF MailSeen
<1>1. CASE m # n
  <2>1. Quiet(m) /\ MailKnown(m)
    BY <1>1 DEF OnlyOf, Quiet, MailSeen
  <2>2. \A q \in Proc : /\ IsAt(q, m)' <=> IsAt(q, m)
                        /\ at'[q].note = m <=> at[q].note = m
                        /\ at[q].note = m => at'[q] = at[q]
    BY <1>1, OthersStay
  <2>3. row'[m] = row[m] /\ mails'[m] = mails[m]
    BY <1>1 DEF OnlyOf
  <2> QED BY <2>1, <2>2, <2>3 DEF MailKnown, Alone
<1>2. CASE m = n
  <2>1. Quiet(n) /\ MailKnown(n) /\ ~hit'[n]
    BY <1>2 DEF Quiet, MailSeen
  <2>2. at'[p] = x /\ \A q \in Proc \ {p} : at'[q] = at[q] /\ ~IsAt(q, n)
    BY <2>1 DEF Onward, MailKnown, Alone, JobInv, TypeOK
  <2>3. Alone(n)'
    BY <1>2, <2>2 DEF Alone, IsAt
  <2>4. mails'[n] <= 1
    BY <2>1
  <2>5. mails'[n] = 1 =>
          row'[n] = "SENT" \/ \E q \in Proc : at'[q].note = n /\ at'[q].phase = "accepted"
    BY <2>1, <2>2 DEF Onward
  <2>6. row'[n] = "SENT" => \A q \in Proc : ~IsAt(q, n)'
    BY NotificationsAssumption, <2>1, <2>2 DEF IsAt, AtRest, NotificationsAssumption
  <2> QED BY <1>2, <2>3, <2>4, <2>5, <2>6 DEF MailKnown
<1> QED BY <1>1, <1>2

\* A process that begins is alone with a notification it knows, or has raced.
LEMMA Begins ==
  ASSUME JobInv, MailSeen, NEW p \in Proc, NEW n \in Note, NEW phase,
         Begin(p, n, phase), phase # "created", Unsent(n),
         \A m \in Note : ~IsAt(p, m), UNCHANGED <<row, mails, hit>>
  PROVE  MailSeen'
<1> SUFFICES ASSUME NEW m \in Note, Quiet(m)' PROVE MailKnown(m)'
  BY DEF MailSeen
<1>1. /\ at'[p] = [phase |-> phase, note |-> n, seen |-> attempts[n]]
      /\ \A q \in Proc \ {p} : at'[q] = at[q]
      /\ raced' = [raced EXCEPT ![n] = @ \/ At(n) \ {p} # {}]
  BY DEF Begin, JobInv, TypeOK
<1>2. CASE m # n
  <2>1. Quiet(m)
    BY <1>1, <1>2 DEF Quiet, JobInv, TypeOK
  <2>2. \A q \in Proc : IsAt(q, m)' <=> IsAt(q, m)
    BY <1>1, <1>2 DEF IsAt
  <2>3. \A q \in Proc : at[q].note = m /\ at[q].phase = "accepted" => at'[q] = at[q]
    BY <1>1 DEF IsAt
  <2> QED BY <2>1, <2>2, <2>3 DEF MailKnown, Alone, MailSeen
<1>3. CASE m = n
  <2>1. Quiet(n) /\ \A q \in Proc \ {p} : ~IsAt(q, n)
    <3>1. ~raced[n] /\ At(n) \ {p} = {} /\ ~hit[n]
      BY <1>1, <1>3 DEF Quiet, JobInv, TypeOK
    <3> QED BY <3>1 DEF At, IsAt, Quiet
  <2>2. mails[n] # 1 /\ mails[n] <= 1 /\ row[n] # "SENT"
    BY <2>1 DEF MailSeen, MailKnown, Unsent, IsAt
  <2>3. Alone(n)'
    BY <1>1, <2>1 DEF Alone, IsAt
  <2> QED BY <1>3, <2>2, <2>3 DEF MailKnown
<1> QED BY <1>2, <1>3

\* Whoever queues is not yet at the notification.
LEMMA NobodyMoves ==
  ASSUME JobInv, MailSeen, UNCHANGED <<mails, raced, hit>>,
         \A q \in Proc, m \in Note : IsAt(q, m)' <=> IsAt(q, m),
         \A q \in Proc : at[q].phase = "accepted" => at'[q] = at[q],
         \A m \in Note : row'[m] = "SENT" <=> row[m] = "SENT"
  PROVE  MailSeen'
<1> SUFFICES ASSUME NEW m \in Note, Quiet(m)' PROVE MailKnown(m)'
  BY DEF MailSeen
<1> QED BY DEF MailSeen, MailKnown, Quiet, Alone

\* A process that is neither done nor has seen its mail accepted is at a
\* notification that was never mailed.
LEMMA NotMailedYet ==
  ASSUME JobInv, MailSeen, NEW p \in Proc, NEW n \in Note, IsAt(p, n), Quiet(n),
         at[p].phase # "accepted"
  PROVE  mails[n] = 0
<1>1. row[n] # "SENT" /\ \A q \in Proc : IsAt(q, n) => q = p
  BY DEF MailSeen, MailKnown, Alone
<1>2. mails[n] # 1
  BY <1>1 DEF MailSeen, MailKnown, IsAt
<1>3. mails[n] <= 1 /\ mails[n] \in Nat
  BY DEF MailSeen, MailKnown, JobInv, TypeOK
<1> QED BY <1>2, <1>3

\* Whoever is under way is at a notification.
LEMMA Noted ==
  ASSUME JobInv, NEW p \in Proc, at[p].phase # "idle"
  PROVE  /\ at[p].note \in Note
         /\ at[p].phase # "created" => IsAt(p, at[p].note)
BY DEF JobInv, KnowsItsNote, IsAt

\* A process that goes on to its next phase, alone, leaves what is known.
LEMMA GoesOn ==
  ASSUME JobInv, MailSeen, NEW p \in Proc, NEW n \in Note, NEW phase,
         n = at[p].note, IsAt(p, n), at[p].phase # "idle", phase # "created",
         at' = [at EXCEPT ![p].phase = phase], OnlyOf(n),
         \/ hit'[n]
         \/ /\ UNCHANGED <<raced, hit>>
            /\ at[p].phase # "accepted"
            /\ row'[n] # "SENT" \/ row'[n] = row[n]
            /\ mails'[n] = IF phase = "accepted" THEN mails[n] + 1 ELSE mails[n]
  PROVE  MailSeen'
<1> DEFINE x == [at[p] EXCEPT !.phase = phase]
<1>1. Onward(p, x) /\ x.note = n /\ x.phase = phase
  BY DEF Onward, IsAt, JobInv, TypeOK
<1>2. Quiet(n) /\ at[p].phase # "accepted" => mails[n] = 0 /\ row[n] # "SENT"
  BY NotMailedYet DEF MailSeen, MailKnown
<1>3. Quiet(n) /\ ~hit'[n] =>
        /\ mails'[n] <= 1
        /\ mails'[n] = 1 => row'[n] = "SENT" \/ (x.note = n /\ x.phase = "accepted")
        /\ row'[n] = "SENT" => x = AtRest
  BY <1>1, <1>2
<1> HIDE DEF x
<1> QED BY <1>1, <1>3, MovesOn

\* So does one that leaves, unless its mail was accepted and it marks no SENT.
LEMMA Leaves ==
  ASSUME JobInv, MailSeen, NEW p \in Proc, NEW n \in Note,
         n = at[p].note, IsAt(p, n), at' = [at EXCEPT ![p] = AtRest], OnlyOf(n),
         \/ hit'[n]
         \/ /\ UNCHANGED <<raced, hit, mails>>
            /\ row'[n] = "SENT" \/ at[p].phase # "accepted"
  PROVE  MailSeen'
<1>1. Onward(p, AtRest)
  BY DEF Onward, IsAt
<1>2. Quiet(n) /\ at[p].phase # "accepted" => mails[n] = 0
  BY NotMailedYet
<1>3. Quiet(n) => mails[n] <= 1
  BY DEF MailSeen, MailKnown
<1>4. Quiet(n) /\ ~hit'[n] =>
        /\ mails'[n] <= 1
        /\ mails'[n] = 1 => row'[n] = "SENT" \/ (AtRest.note = n /\ AtRest.phase = "accepted")
        /\ row'[n] = "SENT" => AtRest = AtRest
  BY <1>2, <1>3
<1> QED BY <1>1, <1>4, MovesOn

\* No step makes a second mail of a quiet notification possible.
LEMMA MailNext == JobInv /\ MailSeen /\ [Next]_vars => MailSeen'
<1> SUFFICES ASSUME JobInv, MailSeen, [Next]_vars PROVE MailSeen'
  OBVIOUS
<1>1. ASSUME NEW p \in Proc, MarkProcessing(p) PROVE MailSeen'
  <2>1. PICK n \in Note : n = at[p].note /\ IsAt(p, n)
    BY <1>1, Noted DEF MarkProcessing
  <2>2. OnlyOf(n) /\ at[p].phase # "idle"
    BY <1>1, <2>1 DEF MarkProcessing, OnlyOf, JobInv, TypeOK
  <2> QED BY <1>1, <2>1, <2>2, GoesOn DEF MarkProcessing, JobInv, TypeOK
<1>2. ASSUME NEW p \in Proc, ProviderAccepts(p) PROVE MailSeen'
  <2>1. PICK n \in Note : n = at[p].note /\ IsAt(p, n)
    BY <1>2, Noted DEF ProviderAccepts
  <2>2. OnlyOf(n) /\ at[p].phase # "idle"
    BY <1>2, <2>1 DEF ProviderAccepts, OnlyOf, JobInv, TypeOK
  <2> QED BY <1>2, <2>1, <2>2, GoesOn DEF ProviderAccepts, JobInv, TypeOK
<1>3. ASSUME NEW p \in Proc, ProviderRefuses(p) PROVE MailSeen'
  <2>1. PICK n \in Note : n = at[p].note /\ IsAt(p, n)
    BY <1>3, Noted DEF ProviderRefuses
  <2>2. OnlyOf(n) /\ at[p].phase # "idle"
    BY <1>3, <2>1 DEF ProviderRefuses, OnlyOf, JobInv, TypeOK
  <2> QED BY <1>3, <2>1, <2>2, GoesOn DEF ProviderRefuses, JobInv, TypeOK
<1>4. ASSUME NEW p \in Proc, AnswerLost(p) PROVE MailSeen'
  <2>1. PICK n \in Note : n = at[p].note /\ IsAt(p, n)
    BY <1>4, Noted DEF AnswerLost, Fault
  <2>2. OnlyOf(n) /\ at[p].phase # "idle"
    BY <1>4, <2>1 DEF AnswerLost, Fault, OnlyOf, JobInv, TypeOK
  <2> QED BY <1>4, <2>1, <2>2, GoesOn DEF AnswerLost, Fault, JobInv, TypeOK
<1>5. ASSUME NEW p \in Proc, MarkSentFails(p) PROVE MailSeen'
  <2>1. PICK n \in Note : n = at[p].note /\ IsAt(p, n)
    BY <1>5, Noted DEF MarkSentFails, Fault
  <2>2. OnlyOf(n) /\ at[p].phase # "idle"
    BY <1>5, <2>1 DEF MarkSentFails, Fault, OnlyOf, JobInv, TypeOK
  <2> QED BY <1>5, <2>1, <2>2, GoesOn DEF MarkSentFails, Fault, JobInv, TypeOK
<1>6. ASSUME NEW p \in Proc, MarkSent(p) PROVE MailSeen'
  <2>1. PICK n \in Note : n = at[p].note /\ IsAt(p, n)
    BY <1>6, Noted DEF MarkSent
  <2>2. OnlyOf(n) /\ at[p].phase # "idle"
    BY <1>6, <2>1 DEF MarkSent, OnlyOf, JobInv, TypeOK
  <2> QED BY <1>6, <2>1, <2>2, Leaves DEF MarkSent, JobInv, TypeOK
<1>7. ASSUME NEW p \in Proc, MarkFailed(p) PROVE MailSeen'
  <2>1. PICK n \in Note : n = at[p].note /\ IsAt(p, n)
    BY <1>7, Noted DEF MarkFailed, Failing
  <2>2. OnlyOf(n) /\ at[p].phase # "idle"
    BY <1>7, <2>1 DEF MarkFailed, Failing, OnlyOf, JobInv, TypeOK
  <2> QED BY <1>7, <2>1, <2>2, Leaves DEF MarkFailed, Failing, JobInv, TypeOK
<1>8. ASSUME NEW p \in Proc, WriteFails(p) PROVE MailSeen'
  <2>1. PICK n \in Note : n = at[p].note /\ IsAt(p, n)
    BY <1>8, Noted DEF WriteFails, Failing, Fault
  <2>2. OnlyOf(n) /\ at[p].phase # "idle"
    BY <1>8, <2>1 DEF WriteFails, Failing, Fault, OnlyOf, JobInv, TypeOK
  <2> QED BY <1>8, <2>1, <2>2, Leaves DEF WriteFails, Failing, Fault, JobInv, TypeOK
<1>9. ASSUME NEW p \in Request, MarkCancelled(p) PROVE MailSeen'
  <2>1. PICK n \in Note : n = at[p].note /\ IsAt(p, n)
    BY <1>9, Noted DEF MarkCancelled, Proc
  <2>2. OnlyOf(n) /\ at[p].phase # "idle"
    BY <1>9, <2>1 DEF MarkCancelled, Proc, OnlyOf, JobInv, TypeOK
  <2> QED BY <1>9, <2>1, <2>2, Leaves DEF MarkCancelled, Proc, JobInv, TypeOK
<1>10. ASSUME NEW p \in Proc, Crash(p) PROVE MailSeen'
  <2>1. at[p].note \in Note
    BY <1>10, Noted DEF Crash
  <2>2. OnlyOf(at[p].note) /\ hit'[at[p].note]
    BY <1>10, <2>1 DEF Crash, Fault, OnlyOf, JobInv, TypeOK
  <2>3. CASE at[p].phase = "created"
    <3>1. \A q \in Proc, m \in Note : IsAt(q, m)' => IsAt(q, m) /\ at'[q] = at[q]
      BY NotificationsAssumption, <1>10, <2>3
      DEF Crash, IsAt, AtRest, JobInv, TypeOK, NotificationsAssumption
    <3>2. \A q \in Proc, m \in Note : IsAt(q, m) => IsAt(q, m)' /\ at'[q] = at[q]
      BY <1>10, <2>3 DEF Crash, IsAt, JobInv, TypeOK
    <3> QED
      BY <1>10, <2>3, <3>1, <3>2
      DEF Crash, Fault, MailSeen, MailKnown, Quiet, Alone, JobInv, TypeOK
  <2>4. CASE at[p].phase # "created"
    <3>1. IsAt(p, at[p].note)
      BY <1>10, <2>4, Noted DEF Crash
    <3> QED BY <1>10, <2>1, <2>2, <3>1, Leaves DEF Crash
  <2> QED BY <2>3, <2>4
<1>11. ASSUME NEW r \in Request, Enqueue(r) PROVE MailSeen'
  BY NotificationsAssumption, <1>11, NobodyMoves
  DEF Enqueue, IsAt, AtRest, Proc, JobInv, TypeOK, NotificationsAssumption
<1>12. ASSUME NEW r \in Request, EnqueueSkipped(r) PROVE MailSeen'
  BY NotificationsAssumption, <1>12, NobodyMoves
  DEF EnqueueSkipped, IsAt, AtRest, Proc, JobInv, TypeOK, NotificationsAssumption
<1>13. ASSUME NEW r \in Request, SendInline(r) PROVE MailSeen'
  <2>1. at[r].note \in Note /\ \A m \in Note : ~IsAt(r, m)
    BY <1>13, Noted DEF SendInline, IsAt, Proc
  <2> QED BY <1>13, <2>1, Begins DEF SendInline, Proc
<1>14. ASSUME NEW r \in Request, NEW n \in Note, Queue(r, n) PROVE MailSeen'
  BY NotificationsAssumption, <1>14, NobodyMoves
  DEF Queue, IsAt, AtRest, Proc, JobInv, TypeOK, NotificationsAssumption
<1>15. ASSUME NEW r \in Request, NEW n \in Note, Retry(r, n) PROVE MailSeen'
  <2>1. \A m \in Note : ~IsAt(r, m)
    BY NotificationsAssumption, <1>15 DEF Retry, IsAt, AtRest, NotificationsAssumption
  <2> QED BY <1>15, <2>1, Begins DEF Retry, Proc
<1>16. ASSUME NEW r \in Request, NEW n \in Note, CancelRead(r, n) PROVE MailSeen'
  <2>1. \A m \in Note : ~IsAt(r, m)
    BY NotificationsAssumption, <1>16 DEF CancelRead, IsAt, AtRest, NotificationsAssumption
  <2> QED BY <1>16, <2>1, Begins DEF CancelRead, Proc
<1>17. ASSUME NEW w \in Worker, NEW n \in Note, Take(w, n) PROVE MailSeen'
  <2>1. CASE Unsent(n)
    <3>1. \A m \in Note : ~IsAt(w, m)
      BY NotificationsAssumption, <1>17 DEF Take, IsAt, AtRest, NotificationsAssumption
    <3> QED BY <1>17, <2>1, <3>1, Begins DEF Take, Proc
  <2>2. CASE ~Unsent(n)
    BY <1>17, <2>2, NobodyMoves DEF Take, IsAt
  <2> QED BY <2>1, <2>2
<1>18. ASSUME UNCHANGED vars PROVE MailSeen'
  BY <1>18, NobodyMoves DEF vars, IsAt
<1> QED
  BY <1>1, <1>2, <1>3, <1>4, <1>5, <1>6, <1>7, <1>8, <1>9, <1>10, <1>11, <1>12,
     <1>13, <1>14, <1>15, <1>16, <1>17, <1>18 DEF Next, Advance

\* A row says SENT once its mail is out, and then nobody is at it.
LEMMA MailInit == Init => MailSeen
BY NotificationsAssumption
DEF Init, MailSeen, MailKnown, Alone, IsAt, AtRest, NotificationsAssumption

\* Alone at a notification no fault hits, nobody mails it twice, however often it is
\* retried by hand or by its job.
THEOREM MailsOnce == Spec => []MailedOnce
<1>1. MailSeen => MailedOnce
  BY DEF MailSeen, MailKnown, MailedOnce, Quiet
<1> QED BY JobInit, JobNext, MailInit, MailNext, <1>1, PTL DEF Spec

\* None of the ways out of processById leaves a row in PROCESSING, for any number of
\* workers and requests.
THEOREM ProcessingOwned == Spec => []ProcessingIsOwned
<1>1. Init => ProcessingIsOwned
  BY DEF Init, ProcessingIsOwned
<1> QED BY JobInit, JobNext, OwnedNext, <1>1, PTL DEF Spec

-----------------------------------------------------------------------------
(* What a quiet notification's process has read. *)

\* Only the process that is alone counts, so what it read stays true.
LEMMA KnownNext == JobInv /\ MailSeen /\ AttemptsKnown /\ [Next]_vars => AttemptsKnown'
<1> SUFFICES ASSUME JobInv, MailSeen, AttemptsKnown, [Next]_vars PROVE AttemptsKnown'
  OBVIOUS
<1> USE DEF JobInv, TypeOK, AttemptsKnown, Proc, Phase, Quiet, IsAt
<1>1. ASSUME NEW p \in Proc, MarkProcessing(p) PROVE AttemptsKnown'
  BY <1>1 DEF MarkProcessing, Alone, MailSeen, MailKnown
<1>2. ASSUME NEW p \in Proc, ProviderAccepts(p) PROVE AttemptsKnown'
  BY <1>2 DEF ProviderAccepts
<1>3. ASSUME NEW p \in Proc, ProviderRefuses(p) PROVE AttemptsKnown'
  BY <1>3 DEF ProviderRefuses
<1>4. ASSUME NEW p \in Proc, MarkSent(p) PROVE AttemptsKnown'
  BY <1>4 DEF MarkSent, AtRest
<1>5. ASSUME NEW p \in Proc, MarkFailed(p) PROVE AttemptsKnown'
  BY <1>5 DEF MarkFailed, Failing, AtRest
<1>6. ASSUME NEW p \in Proc, AnswerLost(p) PROVE AttemptsKnown'
  BY <1>6 DEF AnswerLost, Fault
<1>7. ASSUME NEW p \in Proc, MarkSentFails(p) PROVE AttemptsKnown'
  BY <1>7 DEF MarkSentFails, Fault
<1>8. ASSUME NEW p \in Proc, WriteFails(p) PROVE AttemptsKnown'
  BY <1>8 DEF WriteFails, Failing, Fault, AtRest
<1>9. ASSUME NEW p \in Proc, Crash(p) PROVE AttemptsKnown'
  BY <1>9 DEF Crash, Fault, AtRest
<1>10. ASSUME NEW r \in Request, Enqueue(r) PROVE AttemptsKnown'
  BY <1>10 DEF Enqueue, AtRest
<1>11. ASSUME NEW r \in Request, EnqueueSkipped(r) PROVE AttemptsKnown'
  BY <1>11 DEF EnqueueSkipped, AtRest
<1>12. ASSUME NEW r \in Request, SendInline(r) PROVE AttemptsKnown'
  BY <1>12 DEF SendInline, Begin, AtRest, At
<1>13. ASSUME NEW r \in Request, MarkCancelled(r) PROVE AttemptsKnown'
  BY <1>13 DEF MarkCancelled, AtRest
<1>14. ASSUME NEW r \in Request, NEW n \in Note, Queue(r, n) PROVE AttemptsKnown'
  BY <1>14 DEF Queue, AtRest
<1>15. ASSUME NEW r \in Request, NEW n \in Note, Retry(r, n) PROVE AttemptsKnown'
  BY <1>15 DEF Retry, Begin, AtRest, At
<1>16. ASSUME NEW r \in Request, NEW n \in Note, CancelRead(r, n) PROVE AttemptsKnown'
  BY <1>16 DEF CancelRead, Begin, AtRest, At
<1>17. ASSUME NEW w \in Worker, NEW n \in Note, Take(w, n) PROVE AttemptsKnown'
  <2>1. CASE Unsent(n)
    BY <1>17, <2>1 DEF Take, Begin, AtRest, At
  <2>2. CASE ~Unsent(n)
    BY <1>17, <2>2 DEF Take
  <2> QED BY <2>1, <2>2
<1>18. ASSUME UNCHANGED vars PROVE AttemptsKnown'
  BY <1>18 DEF vars
<1> HIDE DEF AttemptsKnown
<1> QED
  BY <1>1, <1>2, <1>3, <1>4, <1>5, <1>6, <1>7, <1>8, <1>9, <1>10,
     <1>11, <1>12, <1>13, <1>14, <1>15, <1>16, <1>17, <1>18
     DEF Next, Advance

\* The schedule computed from what was read is that of the count in the row.
LEMMA ScheduleNext == JobInv /\ AttemptsKnown /\ ScheduleMatchesTries /\ [Next]_vars => ScheduleMatchesTries'
<1> SUFFICES ASSUME JobInv, AttemptsKnown, ScheduleMatchesTries, [Next]_vars PROVE ScheduleMatchesTries'
  OBVIOUS
<1> USE DEF JobInv, TypeOK, ScheduleMatchesTries, Note, Proc
<1>1. ASSUME NEW p \in Proc, MarkProcessing(p) PROVE ScheduleMatchesTries'
  BY <1>1 DEF MarkProcessing
<1>2. ASSUME NEW p \in Proc, ProviderAccepts(p) PROVE ScheduleMatchesTries'
  BY <1>2 DEF ProviderAccepts
<1>3. ASSUME NEW p \in Proc, ProviderRefuses(p) PROVE ScheduleMatchesTries'
  BY <1>3 DEF ProviderRefuses
<1>4. ASSUME NEW p \in Proc, MarkSent(p) PROVE ScheduleMatchesTries'
  BY <1>4 DEF MarkSent, AtRest
<1>5. ASSUME NEW p \in Proc, MarkFailed(p) PROVE ScheduleMatchesTries'
  BY NotificationsAssumption, <1>5 DEF AttemptsKnown, Quiet, Phase, MarkFailed, Failing, AtRest, NextAttempt
<1>6. ASSUME NEW p \in Proc, AnswerLost(p) PROVE ScheduleMatchesTries'
  BY <1>6 DEF AnswerLost, Fault
<1>7. ASSUME NEW p \in Proc, MarkSentFails(p) PROVE ScheduleMatchesTries'
  BY <1>7 DEF MarkSentFails, Fault
<1>8. ASSUME NEW p \in Proc, WriteFails(p) PROVE ScheduleMatchesTries'
  BY <1>8 DEF WriteFails, Failing, Fault, AtRest
<1>9. ASSUME NEW p \in Proc, Crash(p) PROVE ScheduleMatchesTries'
  BY <1>9 DEF Crash, Fault, AtRest
<1>10. ASSUME NEW r \in Request, Enqueue(r) PROVE ScheduleMatchesTries'
  BY <1>10 DEF Enqueue, AtRest
<1>11. ASSUME NEW r \in Request, EnqueueSkipped(r) PROVE ScheduleMatchesTries'
  BY <1>11 DEF EnqueueSkipped, AtRest
<1>12. ASSUME NEW r \in Request, SendInline(r) PROVE ScheduleMatchesTries'
  BY <1>12 DEF SendInline, Begin, AtRest, At
<1>13. ASSUME NEW r \in Request, MarkCancelled(r) PROVE ScheduleMatchesTries'
  BY <1>13 DEF MarkCancelled, AtRest
<1>14. ASSUME NEW r \in Request, NEW n \in Note, Queue(r, n) PROVE ScheduleMatchesTries'
  BY <1>14 DEF Queue, AtRest
<1>15. ASSUME NEW r \in Request, NEW n \in Note, Retry(r, n) PROVE ScheduleMatchesTries'
  BY <1>15 DEF Retry, Begin, AtRest, At
<1>16. ASSUME NEW r \in Request, NEW n \in Note, CancelRead(r, n) PROVE ScheduleMatchesTries'
  BY <1>16 DEF CancelRead, Begin, AtRest, At
<1>17. ASSUME NEW w \in Worker, NEW n \in Note, Take(w, n) PROVE ScheduleMatchesTries'
  BY <1>17 DEF Take, Begin, AtRest, At
<1>18. ASSUME UNCHANGED vars PROVE ScheduleMatchesTries'
  BY <1>18 DEF vars
<1> HIDE DEF ScheduleMatchesTries
<1> QED
  BY <1>1, <1>2, <1>3, <1>4, <1>5, <1>6, <1>7, <1>8, <1>9, <1>10,
     <1>11, <1>12, <1>13, <1>14, <1>15, <1>16, <1>17, <1>18
     DEF Next, Advance

\* A failed mail has a next attempt exactly while it has tries left, for any number of
\* tries, though it is computed from what was read before this try was counted.
THEOREM SchedulesMatch == Spec => []ScheduleMatchesTries
<1>1. Init => AttemptsKnown /\ ScheduleMatchesTries
  BY DEF Init, AttemptsKnown, ScheduleMatchesTries, AtRest, Note
<1> QED
  BY JobInit, JobNext, MailInit, MailNext, KnownNext, ScheduleNext, <1>1, PTL DEF Spec

-----------------------------------------------------------------------------
(* The number of tries. *)

\* The tries a job has begun to count, or the one of a notification sent inline.
Spent(n) ==
  CASE job[n].state = "none" ->
         IF row[n] = "NONE" \/ \E r \in Request : at[r].phase = "created" /\ at[r].note = n
         THEN 0 ELSE 1
    [] job[n].state = "waiting" -> job[n].failed
    [] job[n].state = "active" ->
         IF \E w \in Worker : at[w].note = n /\ at[w].phase = "read"
         THEN job[n].failed ELSE job[n].failed + 1
    [] job[n].state = "gone" -> MaxTries

\* The requests about to count a try of their own.
Reading(n) == {r \in Request : at[r].note = n /\ at[r].phase = "read"}

\* Every try counted in the row was one of the job's or one asked for by hand.
TriesCounted(n) == attempts[n] + Cardinality(Reading(n)) <= retries[n] + Spent(n)

\* That holds of every notification no fault hit.
TriesKnown == \A n \in Note : hit[n] \/ TriesCounted(n)

\* There are finitely many of them.
LEMMA ReadingCount ==
  ASSUME NEW n
  PROVE  IsFiniteSet(Reading(n)) /\ Cardinality(Reading(n)) \in Nat
BY NotificationsAssumption, FS_Subset, FS_CardinalityType
DEF NotificationsAssumption, Reading

\* A job has at most MaxTries tries to spend.
LEMMA SpentBounded ==
  ASSUME JobInv, NEW n \in Note
  PROVE  Spent(n) \in 0 .. MaxTries
<1>1. job[n].state \in JobState /\ job[n].failed \in 0 .. MaxTries
  BY DEF JobInv, TypeOK
<1>2. job[n].state # "gone" => job[n].failed + 1 <= MaxTries
  BY NotificationsAssumption, <1>1 DEF NotificationsAssumption, JobInv, TryLeft
<1> QED BY NotificationsAssumption, <1>1, <1>2 DEF NotificationsAssumption, Spent, JobState

\* A step that counts nothing of n and gives back no try keeps the count.
LEMMA Uncounted ==
  ASSUME JobInv, JobInv', NEW n \in Note, TriesCounted(n),
         attempts'[n] = attempts[n], retries'[n] = retries[n],
         Reading(n)' = Reading(n), Spent(n) <= Spent(n)'
  PROVE  TriesCounted(n)'
<1>1. Cardinality(Reading(n)) \in Nat /\ Spent(n) \in Nat
  BY NotificationsAssumption, ReadingCount, SpentBounded DEF NotificationsAssumption
<1>2. Spent(n)' \in Nat
  <2>1. job'[n].state \in JobState /\ job'[n].failed \in 0 .. MaxTries
    BY DEF JobInv, TypeOK
  <2> QED BY NotificationsAssumption, <2>1 DEF NotificationsAssumption, Spent, JobState
<1> QED BY <1>1, <1>2 DEF TriesCounted, JobInv, TypeOK

\* A step that counts a try takes it from the job, or from a request about to.
LEMMA TriesNext == JobInv /\ JobInv' /\ TriesKnown /\ [Next]_vars => TriesKnown'
<1> SUFFICES ASSUME JobInv, JobInv', TriesKnown, [Next]_vars, NEW m \in Note, ~hit'[m]
             PROVE  TriesCounted(m)'
  BY DEF TriesKnown
<1> USE NotificationsAssumption
<1>0. ~hit[m] => TriesCounted(m)
  BY DEF TriesKnown
<1>a. job[m].failed \in Nat /\ job[m].state \in JobState
  BY DEF JobInv, TypeOK
<1>s. Spent(m) \in 0 .. MaxTries
  BY SpentBounded
<1>1. ASSUME NEW p \in Proc, ProviderAccepts(p) PROVE TriesCounted(m)'
  <2>1. ~hit[m] /\ attempts'[m] = attempts[m] /\ retries'[m] = retries[m]
    BY <1>1 DEF ProviderAccepts, JobInv, TypeOK
  <2>2. Reading(m)' = Reading(m)
    BY <1>1
    DEF ProviderAccepts, Reading, JobInv, TypeOK, KnowsItsNote, HoldsItsJob,
        JobNotYet, NothingWithoutRow, TryLeft, AtRest, Phase, JobState, Proc
  <2>3. Spent(m) <= Spent(m)'
    BY <1>1, <1>a
    DEF ProviderAccepts, Spent, JobInv, TypeOK, KnowsItsNote, HoldsItsJob, JobNotYet,
        NothingWithoutRow, TryLeft, AtRest, Phase, JobState, Proc
  <2> QED BY <1>0, <2>1, <2>2, <2>3, Uncounted
<1>2. ASSUME NEW p \in Proc, ProviderRefuses(p) PROVE TriesCounted(m)'
  <2>1. ~hit[m] /\ attempts'[m] = attempts[m] /\ retries'[m] = retries[m]
    BY <1>2 DEF ProviderRefuses, JobInv, TypeOK
  <2>2. Reading(m)' = Reading(m)
    BY <1>2
    DEF ProviderRefuses, Reading, JobInv, TypeOK, KnowsItsNote, HoldsItsJob,
        JobNotYet, NothingWithoutRow, TryLeft, AtRest, Phase, JobState, Proc
  <2>3. Spent(m) <= Spent(m)'
    BY <1>2, <1>a
    DEF ProviderRefuses, Spent, JobInv, TypeOK, KnowsItsNote, HoldsItsJob, JobNotYet,
        NothingWithoutRow, TryLeft, AtRest, Phase, JobState, Proc
  <2> QED BY <1>0, <2>1, <2>2, <2>3, Uncounted
<1>3. ASSUME NEW p \in Proc, MarkSent(p) PROVE TriesCounted(m)'
  <2>1. ~hit[m] /\ attempts'[m] = attempts[m] /\ retries'[m] = retries[m]
    BY <1>3 DEF MarkSent, JobDone, JobInv, TypeOK
  <2>2. Reading(m)' = Reading(m)
    BY <1>3
    DEF MarkSent, JobDone, Reading, JobInv, TypeOK, KnowsItsNote, HoldsItsJob,
        JobNotYet, NothingWithoutRow, TryLeft, AtRest, Phase, JobState, Proc
  <2>3. Spent(m) <= Spent(m)'
    BY <1>3, <1>a
    DEF MarkSent, JobDone, Spent, JobInv, TypeOK, KnowsItsNote, HoldsItsJob,
        JobNotYet, NothingWithoutRow, TryLeft, AtRest, Phase, JobState, Proc
  <2> QED BY <1>0, <2>1, <2>2, <2>3, Uncounted
<1>4. ASSUME NEW p \in Proc, MarkFailed(p) PROVE TriesCounted(m)'
  <2>1. ~hit[m] /\ attempts'[m] = attempts[m] /\ retries'[m] = retries[m]
    BY <1>4 DEF MarkFailed, Failing, JobFails, TriesLeft, JobInv, TypeOK
  <2>2. Reading(m)' = Reading(m)
    BY <1>4
    DEF MarkFailed, Failing, JobFails, TriesLeft, Reading, JobInv, TypeOK,
        KnowsItsNote, HoldsItsJob, JobNotYet, NothingWithoutRow, TryLeft, AtRest,
        Phase, JobState, Proc
  <2>3. Spent(m) <= Spent(m)'
    <3>1. at[p].note \in Note /\ at[p].phase \in {"refused", "marked"}
      BY <1>4 DEF MarkFailed, Failing, JobInv, TypeOK, KnowsItsNote
    <3>2. \A q \in Proc : at'[q] = IF q = p THEN AtRest ELSE at[q]
      BY <1>4 DEF MarkFailed, JobInv, TypeOK
    <3>3. CASE p \in Worker /\ at[p].note = m
      <4>1. job[m].state = "active" /\ \A w \in Worker : at[w].note = m => w = p
        BY <3>1, <3>3 DEF JobInv, HoldsItsJob
      <4>2. Spent(m) = job[m].failed + 1
        BY <3>1, <4>1 DEF Spent
      <4>3. (job'[m].state = "waiting" /\ job'[m].failed = job[m].failed + 1)
            \/ job'[m].state = "gone"
        BY <1>4, <3>1, <3>3 DEF MarkFailed, JobFails, JobInv, TypeOK
      <4>4. job[m].failed + 1 <= MaxTries
        BY <1>a, <4>1 DEF JobInv, TryLeft, NotificationsAssumption
      <4>5. Spent(m)' = job[m].failed + 1 \/ Spent(m)' = MaxTries
        BY <4>3 DEF Spent
      <4> QED BY <1>a, <4>2, <4>4, <4>5 DEF NotificationsAssumption
    <3>4. CASE ~(p \in Worker /\ at[p].note = m)
      <4>1. job'[m] = job[m]
        BY <1>4, <3>1, <3>4 DEF MarkFailed, JobFails, JobInv, TypeOK
      <4>2. \A w \in Worker : at'[w].note = m /\ at'[w].phase = "read" <=>
                              at[w].note = m /\ at[w].phase = "read"
        BY <3>1, <3>2 DEF AtRest, Proc
      <4>3. \A r \in Request : at'[r].phase = "created" /\ at'[r].note = m <=>
                               at[r].phase = "created" /\ at[r].note = m
        BY <3>1, <3>2 DEF AtRest, Proc
      <4>4. row'[m] = "NONE" <=> row[m] = "NONE"
        BY <1>4, <3>1 DEF MarkFailed, JobInv, TypeOK, NothingWithoutRow
      <4> QED BY <1>a, <1>s, <4>1, <4>2, <4>3, <4>4 DEF Spent, JobState
    <3> QED BY <3>3, <3>4
  <2> QED BY <1>0, <2>1, <2>2, <2>3, Uncounted
<1>5. ASSUME NEW p \in Proc, AnswerLost(p) PROVE TriesCounted(m)'
  <2>1. ~hit[m] /\ attempts'[m] = attempts[m] /\ retries'[m] = retries[m]
    BY <1>5 DEF AnswerLost, Fault, JobInv, TypeOK
  <2>2. Reading(m)' = Reading(m)
    BY <1>5
    DEF AnswerLost, Fault, Reading, JobInv, TypeOK, KnowsItsNote, HoldsItsJob,
        JobNotYet, NothingWithoutRow, TryLeft, AtRest, Phase, JobState, Proc
  <2>3. Spent(m) <= Spent(m)'
    BY <1>5, <1>a
    DEF AnswerLost, Fault, Spent, JobInv, TypeOK, KnowsItsNote, HoldsItsJob,
        JobNotYet, NothingWithoutRow, TryLeft, AtRest, Phase, JobState, Proc
  <2> QED BY <1>0, <2>1, <2>2, <2>3, Uncounted
<1>6. ASSUME NEW p \in Proc, MarkSentFails(p) PROVE TriesCounted(m)'
  <2>1. ~hit[m] /\ attempts'[m] = attempts[m] /\ retries'[m] = retries[m]
    BY <1>6 DEF MarkSentFails, Fault, JobInv, TypeOK
  <2>2. Reading(m)' = Reading(m)
    BY <1>6
    DEF MarkSentFails, Fault, Reading, JobInv, TypeOK, KnowsItsNote, HoldsItsJob,
        JobNotYet, NothingWithoutRow, TryLeft, AtRest, Phase, JobState, Proc
  <2>3. Spent(m) <= Spent(m)'
    BY <1>6, <1>a
    DEF MarkSentFails, Fault, Spent, JobInv, TypeOK, KnowsItsNote, HoldsItsJob,
        JobNotYet, NothingWithoutRow, TryLeft, AtRest, Phase, JobState, Proc
  <2> QED BY <1>0, <2>1, <2>2, <2>3, Uncounted
<1>7. ASSUME NEW p \in Proc, WriteFails(p) PROVE TriesCounted(m)'
  <2>1. at[p].note \in Note /\ at[p].note # m
    BY <1>7 DEF WriteFails, Failing, Fault, JobInv, TypeOK, KnowsItsNote
  <2>2. ~hit[m] /\ attempts'[m] = attempts[m] /\ retries'[m] = retries[m] /\ job'[m] = job[m]
    BY <1>7, <2>1 DEF WriteFails, JobFails, Fault, JobInv, TypeOK
  <2>3. Reading(m)' = Reading(m) /\ \A w \in Proc : at[w].note = m => at'[w] = at[w]
    BY <1>7, <2>1 DEF WriteFails, Reading, AtRest, JobInv, TypeOK, Proc
  <2>4. \A w \in Proc : at'[w].note = m => at'[w] = at[w]
    BY <1>7, <2>1 DEF WriteFails, AtRest, JobInv, TypeOK, NotificationsAssumption
  <2>5. Spent(m)' = Spent(m)
    BY <1>7, <2>2, <2>3, <2>4 DEF WriteFails, Spent, Proc, JobState, JobInv, TypeOK
  <2> QED BY <1>0, <2>2, <2>3, <2>5, <1>s, Uncounted
<1>8. ASSUME NEW p \in Proc, Crash(p) PROVE TriesCounted(m)'
  <2>1. at[p].note \in Note /\ at[p].note # m
    BY <1>8 DEF Crash, Fault, JobInv, TypeOK, KnowsItsNote
  <2>2. ~hit[m] /\ attempts'[m] = attempts[m] /\ retries'[m] = retries[m] /\ row'[m] = row[m]
    BY <1>8, <2>1 DEF Crash, Fault, JobInv, TypeOK
  <2>3. job'[m] = job[m]
    BY <1>8, <2>1 DEF Crash, JobInv, TypeOK
  <2>4. \A q \in Proc : at'[q] = IF q = p THEN AtRest ELSE at[q]
    BY <1>8 DEF Crash, JobInv, TypeOK
  <2>5. \A q \in Proc : at[q].note = m \/ at'[q].note = m => at'[q] = at[q]
    BY <2>1, <2>4 DEF AtRest, NotificationsAssumption
  <2>6. Reading(m)' = Reading(m)
    BY <2>5 DEF Reading, Proc
  <2>7. Spent(m)' = Spent(m)
    BY <2>2, <2>3, <2>5 DEF Spent, Proc
  <2> QED BY <1>0, <2>2, <2>6, <2>7, <1>s, Uncounted
<1>9. ASSUME NEW r \in Request, Enqueue(r) PROVE TriesCounted(m)'
  <2>1. ~hit[m] /\ attempts'[m] = attempts[m] /\ retries'[m] = retries[m]
    BY <1>9 DEF Enqueue, JobInv, TypeOK
  <2>2. Reading(m)' = Reading(m)
    BY <1>9
    DEF Enqueue, Reading, JobInv, TypeOK, KnowsItsNote, HoldsItsJob, JobNotYet,
        NothingWithoutRow, TryLeft, AtRest, Phase, JobState, Proc
  <2>3. Spent(m) <= Spent(m)'
    BY <1>9, <1>a
    DEF Enqueue, Spent, JobInv, TypeOK, KnowsItsNote, HoldsItsJob, JobNotYet,
        NothingWithoutRow, TryLeft, AtRest, Phase, JobState, Proc
  <2> QED BY <1>0, <2>1, <2>2, <2>3, Uncounted
<1>10. ASSUME NEW r \in Request, EnqueueSkipped(r) PROVE TriesCounted(m)'
  <2>1. ~hit[m] /\ attempts'[m] = attempts[m] /\ retries'[m] = retries[m]
    BY <1>10 DEF EnqueueSkipped, JobInv, TypeOK
  <2>2. Reading(m)' = Reading(m)
    BY <1>10
    DEF EnqueueSkipped, Reading, JobInv, TypeOK, KnowsItsNote, HoldsItsJob, JobNotYet,
        NothingWithoutRow, TryLeft, AtRest, Phase, JobState, Proc
  <2>3. Spent(m) <= Spent(m)'
    BY <1>10, <1>a
    DEF EnqueueSkipped, Spent, JobInv, TypeOK, KnowsItsNote, HoldsItsJob, JobNotYet,
        NothingWithoutRow, TryLeft, AtRest, Phase, JobState, Proc
  <2> QED BY <1>0, <2>1, <2>2, <2>3, Uncounted
<1>11. ASSUME NEW r \in Request, MarkCancelled(r) PROVE TriesCounted(m)'
  <2>1. ~hit[m] /\ attempts'[m] = attempts[m] /\ retries'[m] = retries[m]
    BY <1>11 DEF MarkCancelled, JobInv, TypeOK
  <2>2. Reading(m)' = Reading(m)
    BY <1>11
    DEF MarkCancelled, Reading, JobInv, TypeOK, KnowsItsNote, HoldsItsJob, JobNotYet,
        NothingWithoutRow, TryLeft, AtRest, Phase, JobState, Proc
  <2>3. Spent(m) <= Spent(m)'
    BY <1>11, <1>a
    DEF MarkCancelled, Spent, JobInv, TypeOK, KnowsItsNote, HoldsItsJob, JobNotYet,
        NothingWithoutRow, TryLeft, AtRest, Phase, JobState, Proc
  <2> QED BY <1>0, <2>1, <2>2, <2>3, Uncounted
<1>12. ASSUME NEW r \in Request, NEW n \in Note, Queue(r, n) PROVE TriesCounted(m)'
  <2>1. ~hit[m] /\ attempts'[m] = attempts[m] /\ retries'[m] = retries[m]
    BY <1>12 DEF Queue, JobInv, TypeOK
  <2>2. Reading(m)' = Reading(m)
    BY <1>12
    DEF Queue, Reading, JobInv, TypeOK, KnowsItsNote, HoldsItsJob, JobNotYet,
        NothingWithoutRow, TryLeft, AtRest, Phase, JobState, Proc
  <2>3. Spent(m) <= Spent(m)'
    BY <1>12, <1>a
    DEF Queue, Spent, JobInv, TypeOK, KnowsItsNote, HoldsItsJob, JobNotYet,
        NothingWithoutRow, TryLeft, AtRest, Phase, JobState, Proc
  <2> QED BY <1>0, <2>1, <2>2, <2>3, Uncounted
<1>13. ASSUME NEW r \in Request, NEW n \in Note, CancelRead(r, n) PROVE TriesCounted(m)'
  <2>1. ~hit[m] /\ attempts'[m] = attempts[m] /\ retries'[m] = retries[m]
    BY <1>13 DEF CancelRead, Begin, JobInv, TypeOK
  <2>2. Reading(m)' = Reading(m)
    BY <1>13
    DEF CancelRead, Begin, Reading, JobInv, TypeOK, KnowsItsNote, HoldsItsJob,
        JobNotYet, NothingWithoutRow, TryLeft, AtRest, Phase, JobState, Proc
  <2>3. Spent(m) <= Spent(m)'
    BY <1>13, <1>a
    DEF CancelRead, Begin, Spent, JobInv, TypeOK, KnowsItsNote, HoldsItsJob,
        JobNotYet, NothingWithoutRow, TryLeft, AtRest, Phase, JobState, Proc
  <2> QED BY <1>0, <2>1, <2>2, <2>3, Uncounted
<1>14. ASSUME NEW w \in Worker, NEW n \in Note, Take(w, n) PROVE TriesCounted(m)'
  <2>1. ~hit[m] /\ attempts'[m] = attempts[m] /\ retries'[m] = retries[m] /\ row' = row
    BY <1>14 DEF Take, JobInv, TypeOK
  <2>2. \A r \in Request : at'[r] = at[r]
    BY <1>14 DEF Take, Begin, JobInv, TypeOK, Proc, NotificationsAssumption
  <2>3. Reading(m)' = Reading(m)
    BY <2>2 DEF Reading
  <2>4. CASE m = n /\ Unsent(n)
    <3>1. job[m].state = "waiting" /\ job'[m].state = "active" /\ job'[m].failed = job[m].failed
      BY <1>14, <2>4 DEF Take, JobInv, TypeOK
    <3>2. at'[w].note = m /\ at'[w].phase = "read"
      BY <1>14, <2>4 DEF Take, Begin, JobInv, TypeOK, Proc
    <3>3. Spent(m)' = Spent(m)
      BY <3>1, <3>2 DEF Spent
    <3> QED BY <1>0, <1>s, <2>1, <2>3, <3>3, Uncounted
  <2>5. CASE m = n /\ ~Unsent(n)
    <3>1. job[m].state = "waiting" /\ job'[m].state = "gone"
      BY <1>14, <2>5 DEF Take, JobDone, JobInv, TypeOK
    <3>2. Spent(m) <= Spent(m)'
      BY <1>s, <3>1 DEF Spent
    <3> QED BY <1>0, <2>1, <2>3, <3>2, Uncounted
  <2>6. CASE m # n
    <3>1. job'[m] = job[m]
      BY <1>14, <2>6 DEF Take, JobDone, JobInv, TypeOK
    <3>2. \A u \in Worker : at[u].note = m => at'[u] = at[u]
      BY <1>14, <2>6 DEF Take, Begin, AtRest, JobInv, TypeOK, Proc, NotificationsAssumption
    <3>3. \A u \in Worker : at'[u].note = m => at'[u] = at[u]
      BY <1>14, <2>6 DEF Take, Begin, JobInv, TypeOK, Proc
    <3>4. Spent(m)' = Spent(m)
      BY <1>a, <2>1, <2>2, <3>1, <3>2, <3>3 DEF Spent, JobState
    <3> QED BY <1>0, <1>s, <2>1, <2>3, <3>4, Uncounted
  <2> QED BY <2>4, <2>5, <2>6
<1>15. ASSUME NEW p \in Proc, MarkProcessing(p) PROVE TriesCounted(m)'
  <2>1. ~hit[m] /\ retries'[m] = retries[m] /\ job' = job
    BY <1>15 DEF MarkProcessing, JobInv, TypeOK
  <2>2. at[p].note \in Note /\ row[at[p].note] # "NONE"
    BY <1>15 DEF MarkProcessing, JobInv, KnowsItsNote, NothingWithoutRow
  <2>3. \A q \in Proc : at'[q] = IF q = p THEN [at[q] EXCEPT !.phase = "marked"] ELSE at[q]
    BY <1>15 DEF MarkProcessing, JobInv, TypeOK
  <2>4. row'[m] = "NONE" <=> row[m] = "NONE"
    BY <1>15, <2>2 DEF MarkProcessing, JobInv, TypeOK
  <2>5. \A r \in Request : at'[r].phase = "created" /\ at'[r].note = m <=>
                           at[r].phase = "created" /\ at[r].note = m
    BY <1>15, <2>3 DEF MarkProcessing, Proc, JobInv, TypeOK
  <2>6. CASE at[p].note # m
    <3>1. attempts'[m] = attempts[m]
      BY <1>15, <2>6 DEF MarkProcessing, JobInv, TypeOK
    <3>2. Reading(m)' = Reading(m)
      BY <2>3, <2>6 DEF Reading, Proc, JobInv, TypeOK
    <3>3. \A w \in Worker : at'[w].note = m /\ at'[w].phase = "read" <=>
                            at[w].note = m /\ at[w].phase = "read"
      BY <2>3, <2>6 DEF Proc, JobInv, TypeOK
    <3>4. Spent(m)' = Spent(m)
      BY <1>a, <2>1, <2>4, <2>5, <3>3 DEF Spent, JobState
    <3> QED BY <1>0, <1>s, <2>1, <3>1, <3>2, <3>4, Uncounted
  <2>7. (attempts'[m] = attempts[m] + 1 /\ attempts[m] \in Nat) \/ at[p].note # m
    BY <1>15 DEF MarkProcessing, JobInv, TypeOK
  <2>8. CASE at[p].note = m /\ p \in Worker
    <3>1. job[m].state = "active" /\ \A w \in Worker : at[w].note = m => w = p
      BY <1>15, <2>8 DEF MarkProcessing, JobInv, HoldsItsJob
    <3>2. Spent(m) = job[m].failed
      BY <1>15, <2>8, <3>1 DEF Spent, MarkProcessing
    <3>3. \A w \in Worker : ~(at'[w].note = m /\ at'[w].phase = "read")
      BY <2>3, <3>1 DEF Proc, JobInv, TypeOK
    <3>4. Spent(m)' = job[m].failed + 1
      BY <2>1, <3>1, <3>3 DEF Spent
    <3>5. Reading(m)' = Reading(m)
      BY <2>3, <2>8 DEF Reading, Proc, NotificationsAssumption
    <3>6. Cardinality(Reading(m)) \in Nat /\ retries[m] \in Nat
      BY ReadingCount DEF JobInv, TypeOK
    <3> QED BY <1>0, <1>a, <2>1, <2>7, <2>8, <3>2, <3>4, <3>5, <3>6 DEF TriesCounted
  <2>9. CASE at[p].note = m /\ p \in Request
    <3>1. Reading(m)' = Reading(m) \ {p} /\ p \in Reading(m)
      BY <1>15, <2>3, <2>9 DEF Reading, Proc, MarkProcessing, JobInv, TypeOK
    <3>2. Cardinality(Reading(m)') = Cardinality(Reading(m)) - 1
          /\ Cardinality(Reading(m)) \in Nat
      BY <3>1, ReadingCount, FS_RemoveElement
    <3>3. \A w \in Worker : at'[w] = at[w]
      BY <2>3, <2>9 DEF Proc, NotificationsAssumption
    <3>4. Spent(m)' = Spent(m)
      BY <1>a, <2>1, <2>4, <2>5, <3>3 DEF Spent, JobState
    <3>5. retries[m] \in Nat
      BY DEF JobInv, TypeOK
    <3> QED BY <1>0, <1>s, <2>1, <2>7, <2>9, <3>2, <3>4, <3>5 DEF TriesCounted, NotificationsAssumption
  <2> QED BY <2>6, <2>8, <2>9 DEF Proc
<1>16. ASSUME NEW r \in Request, NEW n \in Note, Retry(r, n) PROVE TriesCounted(m)'
  <2>1. ~hit[m] /\ attempts' = attempts /\ job' = job /\ row' = row
    BY <1>16 DEF Retry
  <2>2. \A q \in Proc : at'[q] = IF q = r THEN [phase |-> "read", note |-> n, seen |-> attempts[n]]
                                 ELSE at[q]
    BY <1>16 DEF Retry, Begin, JobInv, TypeOK, Proc
  <2>3. \A q \in Request : at'[q].phase = "created" /\ at'[q].note = m <=>
                           at[q].phase = "created" /\ at[q].note = m
    BY <1>16, <2>2 DEF Retry, AtRest, Proc
  <2>4. Spent(m)' = Spent(m)
    BY <1>a, <2>1, <2>2, <2>3 DEF Spent, JobState, Proc, NotificationsAssumption
  <2>5. CASE m # n
    <3>1. Reading(m)' = Reading(m)
      BY <1>16, <2>2, <2>5 DEF Reading, Proc, Retry, AtRest
    <3>2. retries'[m] = retries[m]
      BY <1>16, <2>5 DEF Retry, JobInv, TypeOK
    <3> QED BY <1>0, <1>s, <2>1, <2>4, <3>1, <3>2, Uncounted
  <2>6. CASE m = n
    <3>1. Reading(m)' = Reading(m) \cup {r} /\ r \notin Reading(m)
      BY <1>16, <2>2, <2>6 DEF Reading, Proc, Retry, AtRest
    <3>2. Cardinality(Reading(m)') = Cardinality(Reading(m)) + 1
          /\ Cardinality(Reading(m)) \in Nat
      BY <3>1, ReadingCount, FS_AddElement
    <3>3. retries'[m] = retries[m] + 1 /\ retries[m] \in Nat /\ attempts[m] \in Nat
      BY <1>16, <2>6 DEF Retry, JobInv, TypeOK
    <3> QED BY <1>0, <1>s, <2>1, <2>4, <3>2, <3>3 DEF TriesCounted, NotificationsAssumption
  <2> QED BY <2>5, <2>6
<1>17. ASSUME NEW r \in Request, SendInline(r) PROVE TriesCounted(m)'
  <2>1. ~hit[m] /\ UNCHANGED <<attempts, retries, job, row>> /\ at[r].note \in Note
    BY <1>17 DEF SendInline, JobInv, KnowsItsNote, Proc
  <2>2. \A q \in Proc : at'[q] = IF q = r THEN [phase |-> "read", note |-> at[r].note,
                                               seen |-> attempts[at[r].note]]
                                 ELSE at[q]
    BY <1>17 DEF SendInline, Begin, JobInv, TypeOK, Proc
  <2>3. CASE m # at[r].note
    <3>1. Reading(m)' = Reading(m)
      BY <2>2, <2>3 DEF Reading, Proc
    <3>2. \A q \in Request : at'[q].phase = "created" /\ at'[q].note = m <=>
                             at[q].phase = "created" /\ at[q].note = m
      BY <2>2, <2>3 DEF Proc
    <3>3. Spent(m)' = Spent(m)
      BY <1>a, <2>1, <2>2, <3>2 DEF Spent, JobState, Proc, NotificationsAssumption
    <3> QED BY <1>0, <1>s, <2>1, <3>1, <3>3, Uncounted
  <2>4. CASE m = at[r].note
    <3>1. Reading(m)' = Reading(m) \cup {r} /\ r \notin Reading(m)
      BY <1>17, <2>2, <2>4 DEF Reading, Proc, SendInline
    <3>2. Cardinality(Reading(m)') = Cardinality(Reading(m)) + 1
          /\ Cardinality(Reading(m)) \in Nat
      BY <3>1, ReadingCount, FS_AddElement
    <3>3. job[m].state = "none" /\ row[m] # "NONE"
      BY <1>17, <2>4 DEF SendInline, JobInv, JobNotYet, NothingWithoutRow, Proc
    <3>4. Spent(m) = 0
      BY <1>17, <2>4, <3>3 DEF Spent, SendInline
    <3>5. \A q \in Request : ~(at'[q].phase = "created" /\ at'[q].note = m)
      BY <1>17, <2>2, <2>4 DEF SendInline, JobInv, JobNotYet, Proc
    <3>6. Spent(m)' = 1
      BY <2>1, <3>3, <3>5 DEF Spent
    <3>7. retries[m] \in Nat /\ attempts[m] \in Nat
      BY DEF JobInv, TypeOK
    <3> QED BY <1>0, <2>1, <3>2, <3>4, <3>6, <3>7 DEF TriesCounted
  <2> QED BY <2>3, <2>4
<1>18. ASSUME UNCHANGED vars PROVE TriesCounted(m)'
  <2>1. ~hit[m] /\ Reading(m)' = Reading(m) /\ Spent(m)' = Spent(m)
    BY <1>18 DEF vars, Reading, Spent
  <2> QED BY <1>0, <1>s, <1>18, <2>1, Uncounted DEF vars
<1> QED
  BY <1>1, <1>2, <1>3, <1>4, <1>5, <1>6, <1>7, <1>8, <1>9, <1>10, <1>11, <1>12,
     <1>13, <1>14, <1>15, <1>16, <1>17, <1>18 DEF Next, Advance

\* However many retry by hand, a notification no fault hit counts at most the tries of
\* its job and one for each retry.
THEOREM TriesAreBounded == Spec => []TriesBounded
<1>1. Init => TriesKnown
  <2> SUFFICES ASSUME Init, NEW n \in Note PROVE TriesCounted(n)
    BY DEF TriesKnown
  <2>1. Reading(n) = {}
    BY DEF Init, Reading, AtRest, Proc
  <2>2. Spent(n) = 0
    BY DEF Init, Spent
  <2> QED BY <2>1, <2>2, FS_EmptySet DEF Init, TriesCounted
<1>2. JobInv /\ TriesKnown => TriesBounded
  <2> SUFFICES ASSUME JobInv, TriesKnown, NEW n \in Note, ~hit[n]
               PROVE  attempts[n] <= MaxTries + retries[n]
    BY DEF TriesBounded
  <2>1. Spent(n) \in 0 .. MaxTries /\ Cardinality(Reading(n)) \in Nat
    BY SpentBounded, ReadingCount
  <2> QED
    BY NotificationsAssumption, <2>1
    DEF TriesKnown, TriesCounted, JobInv, TypeOK, NotificationsAssumption
<1> QED BY JobInit, JobNext, TriesNext, <1>1, <1>2, PTL DEF Spec

-----------------------------------------------------------------------------
(* The safety half of EnqueuedSettles: no notification is left to nobody. *)

\* An active job is in the hands of a worker.
ActiveIsHeld ==
  \A n \in Note : job[n].state = "active" => \E w \in Worker : at[w].note = n

\* A job that is over has been tried, or a fault hit it.
GoneWasTried ==
  \A n \in Note : job[n].state = "gone" => row[n] # "QUEUED" \/ hit[n]

\* Who answers for a notification that got its job: the queue, a worker, the
\* row itself, or the request that works on it after the job is over.
Accounted(n) ==
  \/ hit[n]
  \/ job[n].state \in {"none", "waiting"}
  \/ \E w \in Worker : at[w].note = n
  \/ Settled(n)
  \/ \E r \in Request : at[r].note = n /\ at[r].phase \in {"marked", "accepted", "refused"}

\* A worker lets go of a job only by putting it back or finishing it.
LEMMA HeldNext == JobInv /\ ActiveIsHeld /\ [Next]_vars => ActiveIsHeld'
<1> SUFFICES ASSUME JobInv, ActiveIsHeld, [Next]_vars PROVE ActiveIsHeld'
  OBVIOUS
<1> USE NotificationsAssumption
<1> USE DEF JobInv, TypeOK, KnowsItsNote, ActiveIsHeld, Proc
<1>1. ASSUME NEW p \in Proc, MarkProcessing(p) PROVE ActiveIsHeld'
  BY <1>1 DEF MarkProcessing
<1>2. ASSUME NEW p \in Proc, ProviderAccepts(p) PROVE ActiveIsHeld'
  BY <1>2 DEF ProviderAccepts
<1>3. ASSUME NEW p \in Proc, ProviderRefuses(p) PROVE ActiveIsHeld'
  BY <1>3 DEF ProviderRefuses
<1>4. ASSUME NEW p \in Proc, MarkSent(p) PROVE ActiveIsHeld'
  BY <1>4 DEF MarkSent, JobDone, AtRest
<1>5. ASSUME NEW p \in Proc, MarkFailed(p) PROVE ActiveIsHeld'
  BY <1>5 DEF MarkFailed, Failing, JobFails, AtRest
<1>6. ASSUME NEW p \in Proc, AnswerLost(p) PROVE ActiveIsHeld'
  BY <1>6 DEF AnswerLost, Fault
<1>7. ASSUME NEW p \in Proc, MarkSentFails(p) PROVE ActiveIsHeld'
  BY <1>7 DEF MarkSentFails, Fault
<1>8. ASSUME NEW p \in Proc, WriteFails(p) PROVE ActiveIsHeld'
  BY <1>8 DEF WriteFails, Failing, Fault, JobFails, AtRest
<1>9. ASSUME NEW p \in Proc, Crash(p) PROVE ActiveIsHeld'
  BY <1>9 DEF Crash, Fault, AtRest
<1>10. ASSUME NEW r \in Request, Enqueue(r) PROVE ActiveIsHeld'
  BY <1>10 DEF Enqueue, AtRest
<1>11. ASSUME NEW r \in Request, EnqueueSkipped(r) PROVE ActiveIsHeld'
  BY <1>11 DEF EnqueueSkipped, AtRest
<1>12. ASSUME NEW r \in Request, SendInline(r) PROVE ActiveIsHeld'
  BY <1>12 DEF SendInline, Begin
<1>13. ASSUME NEW r \in Request, MarkCancelled(r) PROVE ActiveIsHeld'
  BY <1>13 DEF MarkCancelled, AtRest
<1>14. ASSUME NEW r \in Request, NEW n \in Note, Queue(r, n) PROVE ActiveIsHeld'
  BY <1>14 DEF Queue, AtRest
<1>15. ASSUME NEW r \in Request, NEW n \in Note, Retry(r, n) PROVE ActiveIsHeld'
  BY <1>15 DEF Retry, Begin, AtRest
<1>16. ASSUME NEW r \in Request, NEW n \in Note, CancelRead(r, n) PROVE ActiveIsHeld'
  BY <1>16 DEF CancelRead, Begin, AtRest
<1>17. ASSUME NEW w \in Worker, NEW n \in Note, Take(w, n) PROVE ActiveIsHeld'
  <2>1. CASE Unsent(n)
    <3>1. at' = [at EXCEPT ![w] = [phase |-> "read", note |-> n, seen |-> attempts[n]]]
      BY <1>17, <2>1 DEF Take, Begin
    <3>2. job' = [job EXCEPT ![n].state = "active"] /\ at[w] = AtRest
      BY <1>17, <2>1 DEF Take
    <3>3. at'[w].note = n /\ \A u \in Worker \ {w} : at'[u] = at[u]
      BY <3>1
    <3>4. \A m \in Note \ {n} : job'[m] = job[m] /\ at[w].note # m
      BY <3>2 DEF AtRest
    <3> QED BY <3>3, <3>4
  <2>2. CASE ~Unsent(n)
    <3>1. job' = [job EXCEPT ![n].state = "gone"] /\ UNCHANGED <<row, hit, at>>
      BY <1>17, <2>2 DEF Take, JobDone
    <3> QED BY <3>1, <2>2 DEF Unsent
  <2> QED BY <2>1, <2>2
<1>18. ASSUME UNCHANGED vars PROVE ActiveIsHeld'
  BY <1>18 DEF vars
<1> HIDE DEF ActiveIsHeld
<1> QED
  BY <1>1, <1>2, <1>3, <1>4, <1>5, <1>6, <1>7, <1>8, <1>9, <1>10,
     <1>11, <1>12, <1>13, <1>14, <1>15, <1>16, <1>17, <1>18
     DEF Next, Advance

\* Without a fault a job ends with a mark on its row, and no mark is QUEUED.
LEMMA TriedNext == JobInv /\ GoneWasTried /\ [Next]_vars => GoneWasTried'
<1> SUFFICES ASSUME JobInv, GoneWasTried, [Next]_vars PROVE GoneWasTried'
  OBVIOUS
<1> USE NotificationsAssumption
<1> USE DEF JobInv, TypeOK, KnowsItsNote, NothingWithoutRow, GoneWasTried, Proc
<1>1. ASSUME NEW p \in Proc, MarkProcessing(p) PROVE GoneWasTried'
  BY <1>1 DEF MarkProcessing
<1>2. ASSUME NEW p \in Proc, ProviderAccepts(p) PROVE GoneWasTried'
  BY <1>2 DEF ProviderAccepts
<1>3. ASSUME NEW p \in Proc, ProviderRefuses(p) PROVE GoneWasTried'
  BY <1>3 DEF ProviderRefuses
<1>4. ASSUME NEW p \in Proc, MarkSent(p) PROVE GoneWasTried'
  BY <1>4 DEF MarkSent, JobDone, AtRest
<1>5. ASSUME NEW p \in Proc, MarkFailed(p) PROVE GoneWasTried'
  BY <1>5 DEF MarkFailed, Failing, JobFails, AtRest
<1>6. ASSUME NEW p \in Proc, AnswerLost(p) PROVE GoneWasTried'
  BY <1>6 DEF AnswerLost, Fault
<1>7. ASSUME NEW p \in Proc, MarkSentFails(p) PROVE GoneWasTried'
  BY <1>7 DEF MarkSentFails, Fault
<1>8. ASSUME NEW p \in Proc, WriteFails(p) PROVE GoneWasTried'
  BY <1>8 DEF WriteFails, Failing, Fault, JobFails, AtRest
<1>9. ASSUME NEW p \in Proc, Crash(p) PROVE GoneWasTried'
  BY <1>9 DEF Crash, Fault, AtRest
<1>10. ASSUME NEW r \in Request, Enqueue(r) PROVE GoneWasTried'
  BY <1>10 DEF Enqueue, AtRest
<1>11. ASSUME NEW r \in Request, EnqueueSkipped(r) PROVE GoneWasTried'
  BY <1>11 DEF EnqueueSkipped, AtRest
<1>12. ASSUME NEW r \in Request, SendInline(r) PROVE GoneWasTried'
  BY <1>12 DEF SendInline, Begin
<1>13. ASSUME NEW r \in Request, MarkCancelled(r) PROVE GoneWasTried'
  BY <1>13 DEF MarkCancelled, AtRest
<1>14. ASSUME NEW r \in Request, NEW n \in Note, Queue(r, n) PROVE GoneWasTried'
  BY <1>14 DEF Queue, AtRest
<1>15. ASSUME NEW r \in Request, NEW n \in Note, Retry(r, n) PROVE GoneWasTried'
  BY <1>15 DEF Retry, Begin, AtRest
<1>16. ASSUME NEW r \in Request, NEW n \in Note, CancelRead(r, n) PROVE GoneWasTried'
  BY <1>16 DEF CancelRead, Begin, AtRest
<1>17. ASSUME NEW w \in Worker, NEW n \in Note, Take(w, n) PROVE GoneWasTried'
  <2>1. CASE Unsent(n)
    <3>1. job' = [job EXCEPT ![n].state = "active"] /\ UNCHANGED <<row, hit>>
      BY <1>17, <2>1 DEF Take
    <3> QED BY <3>1
  <2>2. CASE ~Unsent(n)
    <3>1. job' = [job EXCEPT ![n].state = "gone"] /\ UNCHANGED <<row, hit, at>>
      BY <1>17, <2>2 DEF Take, JobDone
    <3> QED BY <3>1, <2>2 DEF Unsent
  <2> QED BY <2>1, <2>2
<1>18. ASSUME UNCHANGED vars PROVE GoneWasTried'
  BY <1>18 DEF vars
<1> HIDE DEF GoneWasTried
<1> QED
  BY <1>1, <1>2, <1>3, <1>4, <1>5, <1>6, <1>7, <1>8, <1>9, <1>10,
     <1>11, <1>12, <1>13, <1>14, <1>15, <1>16, <1>17, <1>18
     DEF Next, Advance

\* Every notification that got its job and was hit by no fault is waiting for a
\* worker, in a worker's hands, settled, or in the hands of a request that is
\* about to mark it: no race of workers, retries and cancellations leaves one
\* whose job is over and whose row says QUEUED or PROCESSING with nobody at it.
THEOREM NoneIsStranded == Spec => [](\A n \in Note : Accounted(n))
<1>1. Init => ActiveIsHeld /\ GoneWasTried /\ ProcessingIsOwned
  BY DEF Init, ActiveIsHeld, GoneWasTried, ProcessingIsOwned
<1>2. JobInv /\ ActiveIsHeld /\ GoneWasTried /\ ProcessingIsOwned
        => \A n \in Note : Accounted(n)
  <2> SUFFICES ASSUME JobInv, ActiveIsHeld, GoneWasTried, ProcessingIsOwned,
                      NEW n \in Note, ~hit[n]
               PROVE  Accounted(n)
    BY DEF Accounted
  <2>1. job[n].state \in JobState /\ row[n] \in Status
    BY DEF JobInv, TypeOK
  <2>2. CASE job[n].state \in {"none", "waiting"}
    BY <2>2 DEF Accounted
  <2>3. CASE job[n].state = "active"
    BY <2>3 DEF ActiveIsHeld, Accounted
  <2>4. CASE job[n].state = "gone"
    <3>1. row[n] \notin {"NONE", "QUEUED"}
      BY <2>4 DEF GoneWasTried, JobInv, NothingWithoutRow
    <3>2. CASE row[n] = "PROCESSING"
      BY <3>2 DEF ProcessingIsOwned, At, Accounted, Proc
    <3>3. CASE row[n] # "PROCESSING"
      BY <2>1, <2>4, <3>1, <3>3 DEF Settled, Accounted, Status
    <3> QED BY <3>2, <3>3
  <2> QED BY <2>1, <2>2, <2>3, <2>4 DEF JobState
<1> QED BY <1>1, <1>2, JobInit, JobNext, HeldNext, TriedNext, OwnedNext, PTL DEF Spec
=============================================================================
