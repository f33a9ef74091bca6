---------------------------- MODULE Notifications ----------------------------
(***************************************************************************)
(* The outbox of SmartLight: NotificationService with the BullMQ job that  *)
(* carries a notification to a worker and the provider that mails it.      *)
(*                                                                         *)
(* Every mark on a row is one unconditional UPDATE; what processById read  *)
(* before it may be stale by then.  A notification has at most one job,    *)
(* but an administrator may retry or cancel it meanwhile.                  *)
(*                                                                         *)
(* Bodies, templates and provider message ids are left out.  Definitions   *)
(* no action uses are mutants: the definition after each, with a           *)
(* plausible bug.                                                          *)
(***************************************************************************)
EXTENDS Naturals, FiniteSets

CONSTANTS
  Mail,         \* notifications with an e-mail recipient
  Undeliverable,\* notifications of another channel, or with a user id alone
  Worker,       \* slots of the BullMQ worker
  Request,      \* requests of administrators handled at the same time
  NoNote,
  MaxTries,     \* MAX_RETRY_ATTEMPTS
  MaxRetries,   \* bound: retries by hand of a notification
  MaxFaults     \* bound: crashes, failed writes and lost answers altogether

Note == Mail \cup Undeliverable
Proc == Worker \cup Request

ASSUME NotificationsAssumption ==
  /\ Mail \cap Undeliverable = {}
  /\ Worker \cap Request = {}
  /\ IsFiniteSet(Request)
  /\ NoNote \notin Note
  /\ MaxTries \in Nat \ {0}
  /\ MaxRetries \in Nat
  /\ MaxFaults \in Nat

VARIABLES
  row,       \* notification.status, "NONE" without a row
  attempts,  \* notification.attempts
  due,       \* is notification.next_attempt_at set?
  job,       \* the BullMQ job: its state and the tries that failed
  at,        \* what each process does, to which notification, attempts it read
  mails,     \* external: mails the provider took
  retries,   \* retries by hand so far
  faults,    \* faults so far
  hit,       \* history: did a fault hit the notification?
  raced      \* history: did two processes work on it at once?

vars == <<row, attempts, due, job, at, mails, retries, faults, hit, raced>>

Status == {"NONE", "QUEUED", "PROCESSING", "SENT", "FAILED", "CANCELLED"}
JobState == {"none", "waiting", "active", "gone"}
Phase == {"idle", "created", "read", "marked", "accepted", "refused", "cancelling"}
AtRest == [phase |-> "idle", note |-> NoNote, seen |-> 0]

TypeOK ==
  /\ row \in [Note -> Status]
  /\ attempts \in [Note -> Nat]
  /\ due \in [Note -> BOOLEAN]
  /\ job \in [Note -> [state : JobState, failed : 0 .. MaxTries, stalled : BOOLEAN]]
  /\ at \in [Proc -> [phase : Phase, note : Note \cup {NoNote}, seen : Nat]]
  /\ mails \in [Note -> Nat]
  /\ retries \in [Note -> Nat]
  /\ faults \in Nat
  /\ hit \in [Note -> BOOLEAN]
  /\ raced \in [Note -> BOOLEAN]

Init ==
  /\ row = [n \in Note |-> "NONE"]
  /\ attempts = [n \in Note |-> 0]
  /\ due = [n \in Note |-> FALSE]
  /\ job = [n \in Note |-> [state |-> "none", failed |-> 0, stalled |-> FALSE]]
  /\ at = [p \in Proc |-> AtRest]
  /\ mails = [n \in Note |-> 0]
  /\ retries = [n \in Note |-> 0]
  /\ faults = 0
  /\ hit = [n \in Note |-> FALSE]
  /\ raced = [n \in Note |-> FALSE]

-----------------------------------------------------------------------------
(* Queueing. *)

\* queue() renders a template and inserts the row.
Queue(r, n) ==
  /\ at[r] = AtRest
  /\ row[n] = "NONE"
  /\ row' = [row EXCEPT ![n] = "QUEUED"]
  /\ at' = [at EXCEPT ![r] = [phase |-> "created", note |-> n, seen |-> 0]]
  /\ UNCHANGED <<attempts, due, job, mails, retries, faults, hit, raced>>

\* It adds a job for it,
Enqueue(r) ==
  /\ at[r].phase = "created"
  /\ job' = [job EXCEPT ![at[r].note].state = "waiting"]
  /\ at' = [at EXCEPT ![r] = AtRest]
  /\ UNCHANGED <<row, attempts, due, mails, retries, faults, hit, raced>>

\* or fails to, which is only logged, or is told to send immediately and does
\* not: that is left to queueAndWait.
EnqueueSkipped(r) ==
  /\ at[r].phase = "created"
  /\ at' = [at EXCEPT ![r] = AtRest]
  /\ UNCHANGED <<row, attempts, due, job, mails, retries, faults, hit, raced>>

-----------------------------------------------------------------------------
(* processById. *)

\* The processes between their first read of n and their last write to it.
At(n) == {p \in Proc : at[p].note = n /\ at[p].phase # "created"}

\* p reads n and means to change it; it may not be the only one.
Begin(p, n, phase) ==
  /\ at' = [at EXCEPT ![p] = [phase |-> phase, note |-> n, seen |-> attempts[n]]]
  /\ raced' = [raced EXCEPT ![n] = @ \/ At(n) \ {p} # {}]

UnsentIgnored(n) == TRUE
Unsent(n) == row[n] # "SENT"

\* Only a worker has a job to settle: done, to be tried again, or given up.
JobDone(p, n) ==
  job' = IF p \in Worker THEN [job EXCEPT ![n].state = "gone"] ELSE job

TriesLeftOneMore(n) == job[n].failed < MaxTries
TriesLeft(n) == job[n].failed + 1 < MaxTries

JobFails(p, n) ==
  job' = IF p \in Worker
         THEN [job EXCEPT ![n].failed = @ + 1,
                          ![n].state = IF TriesLeft(n) THEN "waiting" ELSE "gone"]
         ELSE job

\* A worker takes a job; of a notification that was sent nothing is left to do.
Take(w, n) ==
  /\ at[w] = AtRest
  /\ job[n].state = "waiting"
  /\ IF Unsent(n)
     THEN /\ Begin(w, n, "read")
          /\ job' = [job EXCEPT ![n].state = "active"]
     ELSE /\ JobDone(w, n)
          /\ UNCHANGED <<at, raced>>
  /\ UNCHANGED <<row, attempts, due, mails, retries, faults, hit>>

\* retry(); of a notification that was sent nothing is left to do.
Retry(r, n) ==
  /\ at[r] = AtRest
  /\ row[n] # "NONE"
  /\ retries[n] < MaxRetries
  /\ Unsent(n)
  /\ retries' = [retries EXCEPT ![n] = @ + 1]
  /\ Begin(r, n, "read")
  /\ UNCHANGED <<row, attempts, due, job, mails, faults, hit>>

\* queueAndWait processes what it has queued itself.
SendInline(r) ==
  /\ at[r].phase = "created"
  /\ Unsent(at[r].note)
  /\ Begin(r, at[r].note, "read")
  /\ UNCHANGED <<row, attempts, due, job, mails, retries, faults, hit>>

MarkProcessing(p) ==
  LET n == at[p].note IN
  /\ at[p].phase = "read"
  /\ row' = [row EXCEPT ![n] = "PROCESSING"]
  /\ attempts' = [attempts EXCEPT ![n] = @ + 1]
  /\ at' = [at EXCEPT ![p].phase = "marked"]
  /\ UNCHANGED <<due, job, mails, retries, faults, hit, raced>>

\* External: the provider takes the mail.
ProviderAccepts(p) ==
  /\ at[p].phase = "marked"
  /\ at[p].note \in Mail
  /\ mails' = [mails EXCEPT ![at[p].note] = @ + 1]
  /\ at' = [at EXCEPT ![p].phase = "accepted"]
  /\ UNCHANGED <<row, attempts, due, job, retries, faults, hit, raced>>

ProviderRefuses(p) ==
  /\ at[p].phase = "marked"
  /\ at[p].note \in Mail
  /\ at' = [at EXCEPT ![p].phase = "refused"]
  /\ UNCHANGED <<row, attempts, due, job, mails, retries, faults, hit, raced>>

MarkSent(p) ==
  LET n == at[p].note IN
  /\ at[p].phase = "accepted"
  /\ row' = [row EXCEPT ![n] = "SENT"]
  /\ JobDone(p, n)
  /\ at' = [at EXCEPT ![p] = AtRest]
  /\ UNCHANGED <<attempts, due, mails, retries, faults, hit, raced>>

\* computeNextAttemptAt of the attempts read at the beginning and this one.
NextAttemptOneMore(p) == at[p].note \in Mail /\ at[p].seen < MaxTries
NextAttempt(p) == at[p].note \in Mail /\ at[p].seen + 1 < MaxTries

\* What is marked as failed: a refused mail, or one there is no way to send.
FailingRefused(p) == at[p].phase = "refused"
Failing(p) ==
  \/ at[p].phase = "refused"
  \/ at[p].phase = "marked" /\ at[p].note \in Undeliverable

\* A try that throws before it marks anything.
MarkFailedThrows(p) ==
  LET n == at[p].note IN
  /\ Failing(p)
  /\ JobFails(p, n)
  /\ at' = [at EXCEPT ![p] = AtRest]
  /\ UNCHANGED <<row, attempts, due, mails, retries, faults, hit, raced>>

MarkFailed(p) ==
  LET n == at[p].note IN
  /\ Failing(p)
  /\ row' = [row EXCEPT ![n] = "FAILED"]
  /\ due' = [due EXCEPT ![n] = NextAttempt(p)]
  /\ JobFails(p, n)
  /\ at' = [at EXCEPT ![p] = AtRest]
  /\ UNCHANGED <<attempts, mails, retries, faults, hit, raced>>

-----------------------------------------------------------------------------
(* cancel: a read, and a write that does not look again. *)

CancelRead(r, n) ==
  /\ at[r] = AtRest
  /\ row[n] # "NONE"
  /\ Unsent(n)
  /\ Begin(r, n, "cancelling")
  /\ UNCHANGED <<row, attempts, due, job, mails, retries, faults, hit>>

MarkCancelled(r) ==
  /\ at[r].phase = "cancelling"
  /\ row' = [row EXCEPT ![at[r].note] = "CANCELLED"]
  /\ at' = [at EXCEPT ![r] = AtRest]
  /\ UNCHANGED <<attempts, due, job, mails, retries, faults, hit, raced>>

-----------------------------------------------------------------------------
(* Faults. *)

Fault(n) ==
  /\ faults < MaxFaults
  /\ faults' = faults + 1
  /\ hit' = [hit EXCEPT ![n] = TRUE]

\* The provider takes the mail and its answer is lost.
AnswerLost(p) ==
  /\ at[p].phase = "marked"
  /\ at[p].note \in Mail
  /\ Fault(at[p].note)
  /\ mails' = [mails EXCEPT ![at[p].note] = @ + 1]
  /\ at' = [at EXCEPT ![p].phase = "refused"]
  /\ UNCHANGED <<row, attempts, due, job, retries, raced>>

\* markSent shares its try with the provider: when it fails, the mail counts
\* as refused.
MarkSentFails(p) ==
  /\ at[p].phase = "accepted"
  /\ Fault(at[p].note)
  /\ at' = [at EXCEPT ![p].phase = "refused"]
  /\ UNCHANGED <<row, attempts, due, job, mails, retries, raced>>

\* Any other write that fails ends processById, or cancel.
WriteFails(p) ==
  /\ at[p].phase \in {"read", "cancelling"} \/ Failing(p)
  /\ Fault(at[p].note)
  /\ JobFails(p, at[p].note)
  /\ at' = [at EXCEPT ![p] = AtRest]
  /\ UNCHANGED <<row, attempts, due, mails, retries, raced>>

\* The process dies.  BullMQ gives a stalled job to another worker once; a
\* mail under way may still be taken.
Crash(p) ==
  LET n == at[p].note IN
  /\ at[p].phase # "idle"
  /\ Fault(n)
  /\ \/ mails' = mails
     \/ /\ at[p].phase = "marked" /\ n \in Mail
        /\ mails' = [mails EXCEPT ![n] = @ + 1]
  /\ job' = IF p \in Worker
            THEN [job EXCEPT ![n].stalled = TRUE,
                             ![n].state = IF job[n].stalled THEN "gone" ELSE "waiting"]
            ELSE job
  /\ at' = [at EXCEPT ![p] = AtRest]
  /\ UNCHANGED <<row, attempts, due, retries, raced>>

-----------------------------------------------------------------------------
Advance(p) ==
  \/ MarkProcessing(p)
  \/ ProviderAccepts(p)
  \/ ProviderRefuses(p)
  \/ MarkSent(p)
  \/ MarkFailed(p)

Next ==
  \/ \E p \in Proc :
       \/ Advance(p)
       \/ AnswerLost(p)
       \/ MarkSentFails(p)
       \/ WriteFails(p)
       \/ Crash(p)
  \/ \E r \in Request :
       \/ Enqueue(r)
       \/ EnqueueSkipped(r)
       \/ SendInline(r)
       \/ MarkCancelled(r)
       \/ \E n \in Note : Queue(r, n) \/ Retry(r, n) \/ CancelRead(r, n)
  \/ \E w \in Worker, n \in Note : Take(w, n)

Spec == Init /\ [][Next]_vars

(***************************************************************************)
(* A BullMQ worker takes every waiting job some time, and whoever has      *)
(* begun to process a notification gets on, crashes aside.  Requests that  *)
(* queue, retry or cancel owe nothing.                                     *)
(***************************************************************************)
Fairness ==
  /\ \A p \in Proc : WF_vars(Advance(p))
  /\ \A n \in Note : WF_vars(\E w \in Worker : Take(w, n))

FairSpec == Spec /\ Fairness

-----------------------------------------------------------------------------
(* Properties. *)

\* A notification nobody else worked on meanwhile and no fault hit is mailed at
\* most once, however often it is retried, by its job or by hand, and cancelled:
\* the check of SENT at the head of processById and of cancel is enough then.
MailedOnce ==
  \A n \in Note : raced[n] \/ hit[n] \/ mails[n] <= 1

\* A row says PROCESSING only while somebody is at it, or after a fault: none of
\* the ways out of processById leaves it so, also when several processes write
\* to the row in turns.
ProcessingIsOwned ==
  \A n \in Note :
    row[n] = "PROCESSING" =>
      \/ hit[n]
      \/ \E p \in At(n) : at[p].phase \in {"marked", "accepted", "refused"}

\* A failed mail has a next attempt exactly while it has tries left, though
\* processById computes it from the attempts it read before it counted its own.
ScheduleMatchesTries ==
  \A n \in Mail :
    row[n] = "FAILED" /\ ~raced[n] /\ ~hit[n] =>
      (due[n] <=> attempts[n] < MaxTries)

\* The job of a notification and the retries by hand share the row's count, and
\* the job gives up after MAX_RETRY_ATTEMPTS tries of its own: a provider that is
\* down is not asked for ever.
TriesBounded ==
  \A n \in Note : ~hit[n] => attempts[n] <= MaxTries + retries[n]

\* A notification that got its job ends as sent, failed or cancelled, with no job
\* left, unless a fault hit it.
Settled(n) ==
  /\ job[n].state = "gone"
  /\ row[n] \in {"SENT", "FAILED", "CANCELLED"}

EnqueuedSettles ==
  \A n \in Note : job[n].state = "waiting" ~> Settled(n) \/ hit[n]
=============================================================================
