------------------------- MODULE RecordingPipelineMC -------------------------
(***************************************************************************)
(* Model values and symmetry for model checking RecordingPipeline.         *)
(***************************************************************************)
EXTENDS RecordingPipeline, TLC

CONSTANTS w1, w2, r1, r2, q1, q2, q3, s1, s2

OneWorker == {w1}
TwoWorkers == {w1, w2}
OneRun == {r1}
TwoRuns == {r1, r2}
OneRequest == {q1}
TwoRequests == {q1, q2}
ThreeRequests == {q1, q2, q3}
OneSession == {s1}
TwoSessions == {s1, s2}
OneTask == {1}
TwoTasks == {1, 2}

\* Workers, runs, requests and sessions are interchangeable; tasks are not,
\* being claimed in order.
Symmetry == UNION {Permutations(S) : S \in {Workers, Runs, Requests, Sessions}}
=============================================================================
