----------------------------- MODULE TaskTable -----------------------------
(***************************************************************************)
(* The rows of the Postgres table "Task" and the statements that change    *)
(* them.  Each operator is one method of PrismaTaskRepository (or one SQL  *)
(* helper of whisper-server/tasks.py), as a function from the row before   *)
(* the statement to the row after it.                                      *)
(*                                                                         *)
(* Kept of a row: status, the session whose recording it processes, the    *)
(* payload's transport override, the attempt counter and the lease.  The   *)
(* lease (lockedUntil against now()) has three values: "none" (NULL),      *)
(* "held" (in the future), "expired" (in the past).  Timestamps, logs and  *)
(* error texts are left out.                                               *)
(***************************************************************************)
EXTENDS Naturals

CONSTANTS
  Workers,      \* the TaskWorker processes
  NoWorker,     \* lockedBy = NULL
  Sessions,     \* course sessions; a session has at most one recording row
  NoSession,    \* the session of a row that was never inserted
  MaxAttempts   \* Task.maxAttempts

ASSUME TableAssumption ==
  /\ NoWorker \notin Workers
  /\ NoSession \notin Sessions
  /\ MaxAttempts \in Nat \ {0}

\* Statuses a Node worker moves a row through while it holds it.
NodeOwned == {"CLAIMED", "TRANSCODING", "THUMBNAIL", "EXTRACTING_AUDIO",
              "UPLOADING_AUDIO"}

\* Statuses claimNext leaves to the Python server.
PythonOwned == {"HANDED_OFF", "TRANSCRIBING", "SUMMARIZING"}

Terminal == {"COMPLETED", "FAILED", "CANCELED"}

Status == {"PENDING"} \cup NodeOwned \cup PythonOwned \cup Terminal

\* "ABSENT" is a row not yet inserted, "DELETED" one that a recording's
\* deletion took with it (onDelete: Cascade).
Missing == {"ABSENT", "DELETED"}

TaskRow == [status   : Status \cup Missing,
            session  : Sessions \cup {NoSession},
            push     : BOOLEAN,
            attempts : 0 .. MaxAttempts,
            lockedBy : Workers \cup {NoWorker},
            lease    : {"none", "held", "expired"}]

NoRow == [status |-> "ABSENT", session |-> NoSession, push |-> FALSE,
          attempts |-> 0, lockedBy |-> NoWorker, lease |-> "none"]

-----------------------------------------------------------------------------
Created(s) == [NoRow EXCEPT !.status = "PENDING", !.session = s]

\* Mutant: terminal rows excluded, Python's not (the wording of the port's
\* doc comment, "non-terminal status whose lease expired").
RunnableNonTerminal(row) ==
  \/ row.status = "PENDING"
  \/ row.status \notin Terminal \cup Missing /\ row.lease # "held"

\* Mutant: no comparison of lockedUntil with now().
RunnableUnlocked(row) ==
  \/ row.status = "PENDING"
  \/ row.status \in NodeOwned /\ row.lease = "none"

\* The WHERE clause of claimNext: PENDING whatever the lock says, or a
\* node-owned row without a valid lease.
Runnable(row) ==
  \/ row.status = "PENDING"
  \/ row.status \in NodeOwned /\ row.lease # "held"

Claimed(row, w) ==
  [row EXCEPT !.status = "CLAIMED", !.lockedBy = w, !.lease = "held"]

\* updateStatus and the server's set_status look at nothing but the id.
WithStatus(row, st) == [row EXCEPT !.status = st]

HeartBeaten(row, w) ==
  IF row.lockedBy = w THEN [row EXCEPT !.lease = "held"] ELSE row

\* releaseLock clears the lock whoever holds it.
Unlocked(row) == [row EXCEPT !.lockedBy = NoWorker, !.lease = "none"]

\* markCompleted, cancel, mark_completed, mark_failed and the boot sweep.
Closed(row, st) == [Unlocked(row) EXCEPT !.status = st]

\* Mutant: the attempts are counted but never compared.
FailureRetried(row, seen) ==
  [Unlocked(row) EXCEPT !.attempts = seen + 1, !.status = "PENDING"]

\* Mutant: > for >=.
FailureRecordedLate(row, seen) ==
  LET giveUp == seen + 1 > MaxAttempts
  IN [Unlocked(row) EXCEPT
        !.attempts = IF giveUp THEN MaxAttempts ELSE seen + 1,
        !.status   = IF giveUp THEN "FAILED" ELSE "PENDING"]

\* recordFailure, which counts from the attempts it read earlier in its
\* transaction.  The counter stops at MaxAttempts: nothing tells a higher
\* value from it.
FailureRecorded(row, seen) ==
  LET giveUp == seen + 1 >= MaxAttempts
  IN [Unlocked(row) EXCEPT
        !.attempts = IF giveUp THEN MaxAttempts ELSE seen + 1,
        !.status   = IF giveUp THEN "FAILED" ELSE "PENDING"]
=============================================================================
