---------------------------- MODULE WhisperServer ----------------------------
(***************************************************************************)
(* The Python side of the pipeline: the background task _process_task of   *)
(* whisper-server/server.py, one per accepted hand-off, and the sweep the  *)
(* server makes when it boots.  It writes to the same database rows        *)
(* directly; its UPDATEs of a row that is gone change nothing, silently.   *)
(* Nothing stops two runs on one task.                                     *)
(***************************************************************************)
EXTENDS PipelineState

RunAt(r, pc) == run[r].pc = pc
RunGoto(r, pc) == run' = [run EXCEPT ![r].pc = pc]
EndRun(r) == run' = [run EXCEPT ![r] = FreeRun]

\* UPDATE "Task" ... WHERE id = t
TaskSet(t, row) ==
  tasks' = IF Exists(t) THEN [tasks EXCEPT ![t] = row] ELSE tasks

\* UPDATE "SessionRecording" ... WHERE id = the recording of t
RecordingSet(t, rec) ==
  recs' = IF Exists(t) THEN [recs EXCEPT ![SessionOf(t)] = rec] ELSE recs

\* get_recording_id, then set_status(TRANSCRIBING).  Without a row the run
\* marks it failed, which changes nothing, and ends.
RunStart(r) ==
  LET t == run[r].task
  IN /\ RunAt(r, "start")
     /\ TaskSet(t, WithStatus(tasks[t], "TRANSCRIBING"))
     /\ IF Exists(t) THEN RunGoto(r, "whisper") ELSE EndRun(r)
     /\ UNCHANGED <<recs, live, store, worker, request, faults>>

\* Segments came out and are saved.
RunTranscribes(r) ==
  LET t == run[r].task
  IN /\ RunAt(r, "whisper")
     /\ RecordingSet(t, [recs[SessionOf(t)] EXCEPT !.transcript = run[r].audio])
     /\ RunGoto(r, "summarize")
     /\ UNCHANGED <<tasks, live, store, worker, request, faults>>

\* No usable segment: the task is completed without a transcript.
RunSilent(r) ==
  LET t == run[r].task
  IN /\ RunAt(r, "whisper")
     /\ TaskSet(t, Closed(tasks[t], "COMPLETED"))
     /\ EndRun(r)
     /\ UNCHANGED <<recs, live, store, worker, request, faults>>

RunSummarizes(r) ==
  LET t == run[r].task
  IN /\ RunAt(r, "summarize")
     /\ TaskSet(t, WithStatus(tasks[t], "SUMMARIZING"))
     /\ RunGoto(r, "llm")
     /\ UNCHANGED <<recs, live, store, worker, request, faults>>

\* The gather of summary and chapters: each may fail on its own without
\* failing the run, so the summary is saved or it is not.
RunSummary(r) ==
  LET t == run[r].task
  IN /\ RunAt(r, "llm")
     /\ \/ RecordingSet(t, [recs[SessionOf(t)] EXCEPT !.autoSummary = run[r].audio])
        \/ UNCHANGED recs
     /\ RunGoto(r, "finish")
     /\ UNCHANGED <<tasks, live, store, worker, request, faults>>

RunFinish(r) ==
  LET t == run[r].task
  IN /\ RunAt(r, "finish")
     /\ TaskSet(t, Closed(tasks[t], "COMPLETED"))
     /\ RunGoto(r, "log")
     /\ UNCHANGED <<recs, live, store, worker, request, faults>>

\* The last entry of the log; when it cannot be written, the completed task
\* is marked failed (RunFails).
RunLogs(r) ==
  /\ RunAt(r, "log")
  /\ EndRun(r)
  /\ UNCHANGED <<tasks, recs, live, store, worker, request, faults>>

\* Mutant: the exception ends the run and nothing more.
RunDies(r) ==
  /\ ~RunAt(r, "free")
  /\ EndRun(r)
  /\ UNCHANGED <<tasks, recs, live, store, worker, request, faults>>

\* Whisper raised, or a database call did after its retries: mark_failed.
RunFails(r) ==
  LET t == run[r].task
  IN /\ ~RunAt(r, "free")
     /\ TaskSet(t, Closed(tasks[t], "FAILED"))
     /\ EndRun(r)
     /\ UNCHANGED <<recs, live, store, worker, request, faults>>

\* A fault like the server's death, for one run: mark_failed fails too, after
\* its retries.  The run is over and the row is as it was.
RunUnrecorded(r) ==
  /\ ~RunAt(r, "free")
  /\ Fault("restart")
  /\ EndRun(r)
  /\ UNCHANGED <<tasks, recs, live, store, worker, request>>

\* The process dies and is started again.  Background tasks live in memory
\* and are lost.  The boot fails the python-owned rows untouched for 30
\* minutes: some of those that are stuck, and none whose lease a heartbeat
\* has just renewed.
Restart ==
  /\ Fault("restart")
  /\ run' = [r \in Runs |-> FreeRun]
  /\ \E swept \in SUBSET {t \in Tasks : /\ tasks[t].status \in PythonOwned
                                        /\ tasks[t].lease # "held"} :
       tasks' = [t \in Tasks |-> IF t \in swept THEN Closed(tasks[t], "FAILED")
                                 ELSE tasks[t]]
  /\ UNCHANGED <<recs, live, store, worker, request>>

RunStep(r) ==
  \/ RunStart(r) \/ RunTranscribes(r) \/ RunSilent(r) \/ RunSummarizes(r)
  \/ RunSummary(r) \/ RunFinish(r) \/ RunLogs(r) \/ RunFails(r)
=============================================================================
