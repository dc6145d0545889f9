------------------------------ MODULE OrderTasks ------------------------------
(***************************************************************************)
(* The Celery worker beside OrderService: celery_tasks/email_tasks.py and  *)
(* notification_tasks.py (create_notification_task).  A published task may *)
(* start at once, while the transaction that published it is still open,   *)
(* or much later.                                                          *)
(*                                                                         *)
(* The mails of AuthService carry all they say in their arguments; they    *)
(* compete for the same worker and are retried in the same way.            *)
(***************************************************************************)
EXTENDS OrderService

CONSTANTS AccountMails,   \* those of "verification", "welcome", "reset" that are sent
          MaxRetries      \* max_retries of every task
ASSUME RetriesAssumption == MaxRetries \in Nat
ASSUME MailsAssumption == AccountMails \subseteq {"verification", "welcome", "reset"}

VARIABLES posted,    \* account mails published by AuthService
          outcome,   \* how the task ended, or "waiting"
          tries,     \* retries so far
          effects    \* mails sent or Notification rows created by it

worker  == <<posted, outcome, tries, effects>>
allVars == <<vars, worker>>

Mail == [task : {"account"}, mail : AccountMails]
Job  == Task \cup Mail

TasksInit == /\ Init
             /\ posted = {}
             /\ outcome = [t \in Job |-> "waiting"]
             /\ tries = [t \in Job |-> 0]
             /\ effects = [t \in Job |-> 0]

\* register, verify_email, resend_verification_email and forgot_password.
Post(t) == /\ t \notin posted
           /\ posted' = posted \cup {t}
           /\ UNCHANGED <<vars, outcome, tries, effects>>

Published == queue \cup posted
Waiting(t) == t \in Published /\ outcome[t] = "waiting"

\* Mutant: the mail is sent from the task's arguments, without the order.
RunnableAlways(t) == Waiting(t)

\* The confirmation needs the committed order; a notification only its recipient,
\* an account mail nothing.
Runnable(t) == Waiting(t) /\ (t.task = "email" => orders[t.order] # None)

Settle(t, how) == outcome' = [outcome EXCEPT ![t] = how]

\* The order is not there: logged, returned, never retried.
DropMail(t) == /\ Waiting(t)
               /\ t.task = "email" /\ orders[t.order] = None
               /\ Settle(t, "dropped")
               /\ UNCHANGED <<vars, posted, tries, effects>>

Succeed(t) == /\ Runnable(t)
              /\ effects' = [effects EXCEPT ![t] = @ + 1]
              /\ Settle(t, "done")
              /\ UNCHANGED <<vars, posted, tries>>

\* Mutant: the retries are not counted.
FailForever(t, n) == /\ Runnable(t)
                     /\ effects' = [effects EXCEPT ![t] = IF @ < MaxRetries THEN @ + n ELSE @]
                     /\ tries' = [tries EXCEPT ![t] = (@ + 1) % 2]
                     /\ UNCHANGED <<vars, posted, outcome>>

\* The mail server or the database reports an error, before (n = 0) or after
\* (n = 1) it has done its work: self.retry, until the retries are used up.
Fail(t, n) == /\ Runnable(t)
              /\ effects' = [effects EXCEPT ![t] = @ + n]
              /\ IF tries[t] < MaxRetries
                 THEN tries' = [tries EXCEPT ![t] = @ + 1] /\ UNCHANGED outcome
                 ELSE Settle(t, "gave up") /\ UNCHANGED tries
              /\ UNCHANGED <<vars, posted>>

\* Tasks are acknowledged when they are taken (acks_late is not set): a worker
\* that dies takes its task along.
WorkerDies(t) == /\ Waiting(t)
                 /\ Settle(t, "lost")
                 /\ UNCHANGED <<vars, posted, tries, effects>>

Run(t) == DropMail(t) \/ Succeed(t) \/ \E n \in {0, 1} : Fail(t, n)

TasksNext == \/ Next /\ UNCHANGED worker
             \/ \E t \in Mail : Post(t)
             \/ \E t \in Published : Run(t) \/ WorkerDies(t)

TasksSpec == TasksInit /\ [][TasksNext]_allVars

\* A worker process is always there to take the next task.
FairTasksSpec == TasksSpec /\ Fairness /\ \A t \in Job : WF_allVars(Run(t))

------------------------------------------------------------------------------
\* Nobody gets a confirmation mail for an order that does not exist, although
\* the mail is queued by a transaction that may still roll back.
MailOnlyForOrders ==
    \A t \in Job : t.task = "email" /\ effects[t] > 0 => orders[t.order] # None

\* A mail or notification repeated by retries is repeated max_retries times at most.
EffectsBounded == \A t \in Job : effects[t] <= MaxRetries + 1

\* Every published task ends: retries are bounded.
EveryTaskSettles == \A t \in Job : t \in Published ~> outcome[t] # "waiting"
==============================================================================
