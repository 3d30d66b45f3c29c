--------------------------- MODULE TaskOwnership ---------------------------
(***************************************************************************)
(* What the task queue promises: a task belongs to one party at a time.    *)
(* It waits in the queue, a Node worker has it, the Python server has it,  *)
(* or it is finished; it goes to Python only from a worker, back to the    *)
(* queue only from a worker, and from "finished" nowhere.                  *)
(***************************************************************************)
CONSTANT Tasks

VARIABLE owner

Init == owner = [t \in Tasks |-> "nobody"]

Pass(t, from, to) == owner[t] = from /\ owner' = [owner EXCEPT ![t] = to]

Submit(t) == Pass(t, "nobody", "queue")
Take(t) == Pass(t, "queue", "worker")
GiveBack(t) == Pass(t, "worker", "queue")
HandOver(t) == Pass(t, "worker", "python")
Finish(t) == Pass(t, "worker", "finished") \/ Pass(t, "python", "finished")

\* The Python server gives up on several of its tasks at once.
Sweep ==
  \E given \in SUBSET {t \in Tasks : owner[t] = "python"} :
    owner' = [t \in Tasks |-> IF t \in given THEN "finished" ELSE owner[t]]

Next ==
  \/ Sweep
  \/ \E t \in Tasks :
       Submit(t) \/ Take(t) \/ GiveBack(t) \/ HandOver(t) \/ Finish(t)

Spec == Init /\ [][Next]_owner
=============================================================================
