------------------------------ MODULE Session ------------------------------
(***************************************************************************)
(* The two threads of the application: the window (widgets/window.c, the   *)
(* main loop of main.c) and the worker that executes a script; the engine  *)
(* mutex they share and the flags with which the window stops the worker   *)
(* (bridge/db_api.c, table/heap.c).                                        *)
(*                                                                         *)
(* Every access to an atomic flag is a step of its own. What a statement   *)
(* does is abstracted to its outcome; statements that change data always   *)
(* end, the scan of a SELECT may go on for ever unless it is stopped.      *)
(***************************************************************************)
EXTENDS Integers, Sequences, FiniteSets

CONSTANTS
  MaxTabs,         \* MAX_RESULT_TABS
  MaxStatements    \* bound: statements of a script

ASSUME SessionAssumption ==
  MaxTabs \in Nat \ {0} /\ MaxStatements \in Nat

VARIABLES
  (* the window thread *)
  gui,               \* where it is
  quitting,          \* app_window_destroy has begun
  job,               \* app->job # NULL
  shown,             \* what the last finish_run showed
  (* RunJob *)
  script, keep_going,
  outcomes,          \* of the statements executed so far
  grids,             \* the statements whose result sets are kept
  cancel, cancelled,
  (* the worker thread and the engine *)
  worker,            \* where it is; "ended" from j->done = 1 on
  mutex,             \* g_db_mutex: "free" or its owner
  result,            \* of the statement in execution
  cancel_requested, read_running, scan_cancel   \* g_..., g_sv_scan_cancel

vars == <<gui, quitting, job, shown, script, keep_going, outcomes, grids, cancel,
          cancelled, worker, mutex, result, cancel_requested, read_running, scan_cancel>>
windowVars == <<gui, quitting, job, shown, script, keep_going, cancel>>
flagVars   == <<cancel_requested, read_running, scan_cancel>>

Kinds    == {"SELECT", "other"}
Success  == {"rows", "done"}         \* with and without columns
Outcomes == Success \cup {"error", "cancelled"}
Scripts  == UNION {[1 .. n -> Kinds] : n \in 1 .. MaxStatements}
Reports  == {"none", "error", "cancelled", "results", "ok"}
GuiSteps == {"idle", "inline", "stop_request", "stop_load", "stop_scan", "join",
             "call", "in_call", "closing", "closed"}
WorkerSteps == {"ended", "check", "lock", "begin", "read_check", "read_start",
                "scan", "read_end", "read_result", "write", "unlock"}

Init ==
  /\ gui = "idle" /\ quitting = FALSE /\ job = FALSE /\ shown = "none"
  /\ script = <<>> /\ keep_going = FALSE
  /\ outcomes = <<>> /\ grids = <<>> /\ cancel = FALSE /\ cancelled = FALSE
  /\ worker = "ended" /\ mutex = "free" /\ result = "done"
  /\ cancel_requested = FALSE /\ read_running = FALSE /\ scan_cancel = FALSE

-----------------------------------------------------------------------------
(* The worker: run_worker *)

Goto(step) == worker' = step
Executed   == Len(outcomes)

NeverStops == FALSE                   \* mutant: the flag is not looked at
Stops      == cancel

(* The head of the loop *)
NextStatement ==
  /\ worker = "check"
  /\ IF Executed = Len(script) THEN Goto("ended") /\ UNCHANGED cancelled
     ELSE IF Stops             THEN Goto("ended") /\ cancelled' = TRUE
     ELSE                           Goto("lock")  /\ UNCHANGED cancelled
  /\ UNCHANGED <<windowVars, outcomes, grids, mutex, result, flagVars>>

Lock ==
  /\ worker = "lock" /\ mutex = "free"
  /\ mutex' = "worker" /\ Goto("begin")
  /\ UNCHANGED <<windowVars, outcomes, grids, cancelled, result, flagVars>>

(* db_execute: a statement that does not parse ends here. Only a SELECT    *)
(* announces that it can be interrupted.                                   *)
ParseError ==
  /\ worker = "begin"
  /\ result' = "error" /\ Goto("unlock")
  /\ UNCHANGED <<windowVars, outcomes, grids, cancelled, mutex, flagVars>>

BeginRead ==
  /\ worker = "begin" /\ script[Executed + 1] = "SELECT"
  /\ read_running' = TRUE /\ Goto("read_check")
  /\ UNCHANGED <<windowVars, outcomes, grids, cancelled, mutex, result,
                 cancel_requested, scan_cancel>>

BeginWrite ==
  /\ worker = "begin" /\ script[Executed + 1] # "SELECT"
  /\ Goto("write")
  /\ UNCHANGED <<windowVars, outcomes, grids, cancelled, mutex, result, flagVars>>

(* A stop requested before read_running was set *)
StopUnseen == FALSE                   \* mutant: the check is missing
StopSeen   == cancel_requested

CheckRequested ==
  /\ worker = "read_check"
  /\ scan_cancel' = (scan_cancel \/ StopSeen) /\ Goto("read_start")
  /\ UNCHANGED <<windowVars, outcomes, grids, cancelled, mutex, result,
                 cancel_requested, read_running>>

StartRead ==
  /\ worker = "read_start"
  /\ Goto(IF scan_cancel THEN "read_end" ELSE "scan")
  /\ UNCHANGED <<windowVars, outcomes, grids, cancelled, mutex, result, flagVars>>

(* executor_run of a SELECT: to its end, or until heap_scan_next sees the  *)
(* flag.                                                                   *)
ScanEnds ==
  /\ worker = "scan"
  /\ result' \in {"rows", "error"} /\ Goto("read_end")
  /\ UNCHANGED <<windowVars, outcomes, grids, cancelled, mutex, flagVars>>

ScanStops ==
  /\ worker = "scan" /\ scan_cancel
  /\ Goto("read_end")
  /\ UNCHANGED <<windowVars, outcomes, grids, cancelled, mutex, result, flagVars>>

EndRead ==
  /\ worker = "read_end"
  /\ read_running' = FALSE /\ Goto("read_result")
  /\ UNCHANGED <<windowVars, outcomes, grids, cancelled, mutex, result,
                 cancel_requested, scan_cancel>>

ReadResult ==
  /\ worker = "read_result"
  /\ result' = IF scan_cancel THEN "cancelled" ELSE result
  /\ scan_cancel' = FALSE /\ Goto("unlock")
  /\ UNCHANGED <<windowVars, outcomes, grids, cancelled, mutex, cancel_requested,
                 read_running>>

(* executor_run of any other statement; its scans look at scan_cancel too. *)
Write ==
  /\ worker = "write"
  /\ result' \in Success \cup {"error"} /\ Goto("unlock")
  /\ UNCHANGED <<windowVars, outcomes, grids, cancelled, mutex, flagVars>>

(* The last MaxTabs result sets are kept. *)
Kept(s, n)     == Append(IF Len(s) = MaxTabs THEN Tail(s) ELSE s, n)

Breaks == result = "cancelled" \/ (result = "error" /\ ~keep_going)

Unlock ==
  /\ worker = "unlock"
  /\ mutex' = "free"
  /\ outcomes' = Append(outcomes, result)
  /\ grids' = IF result = "rows" THEN Kept(grids, Executed + 1) ELSE grids
  /\ Goto(IF Breaks THEN "ended" ELSE "check")
  /\ UNCHANGED <<windowVars, cancelled, result, flagVars>>

WorkerStep ==
  \/ NextStatement \/ ParseError \/ BeginRead \/ BeginWrite
  \/ CheckRequested \/ StartRead \/ ScanStops \/ EndRead \/ ReadResult
  \/ Write \/ Unlock

-----------------------------------------------------------------------------
(* The window *)
jobVars == <<script, keep_going, outcomes, grids, cancelled>>

ClearsRequest   == cancel_requested' = FALSE /\ UNCHANGED scan_cancel   \* mutant
db_clear_cancel == cancel_requested' = FALSE /\ scan_cancel' = FALSE

(* run_text, after busy_guard. Without a thread it calls run_worker.       *)
Run(s, keep, threaded) ==
  /\ gui = "idle" /\ ~job
  /\ db_clear_cancel
  /\ job' = TRUE
  /\ script' = s /\ keep_going' = keep
  /\ outcomes' = <<>> /\ grids' = <<>> /\ cancel' = FALSE /\ cancelled' = FALSE
  /\ Goto("check")
  /\ gui' = IF threaded THEN "idle" ELSE "inline"
  /\ UNCHANGED <<quitting, shown, mutex, result, read_running>>

InlineEnds ==
  /\ gui = "inline" /\ worker = "ended"
  /\ gui' = "idle"
  /\ UNCHANGED <<quitting, job, shown, jobVars, cancel, worker, mutex, result, flagVars>>

(* app_window_cancel: job->cancel, then db_request_cancel *)
Stop ==
  /\ gui = "idle" /\ job
  /\ cancel' = TRUE /\ gui' = "stop_request"
  /\ UNCHANGED <<quitting, job, shown, jobVars, worker, mutex, result, flagVars>>

(* The main loop ends: app_window_destroy, which does the same. *)
JoinAtOnce  == "join"                 \* mutant: the engine is not told
QuitRequest == "stop_request"

Quit ==
  /\ gui = "idle"
  /\ quitting' = TRUE
  /\ IF job THEN cancel' = TRUE /\ gui' = QuitRequest
            ELSE gui' = "closing" /\ UNCHANGED cancel
  /\ UNCHANGED <<job, shown, jobVars, worker, mutex, result, flagVars>>

AfterRequest == IF quitting THEN "join" ELSE "idle"

StoreRequest ==
  /\ gui = "stop_request"
  /\ cancel_requested' = TRUE /\ gui' = "stop_load"
  /\ UNCHANGED <<quitting, job, shown, jobVars, cancel, worker, mutex, result,
                 read_running, scan_cancel>>

LoadReading ==
  /\ gui = "stop_load"
  /\ gui' = IF read_running THEN "stop_scan" ELSE AfterRequest
  /\ UNCHANGED <<quitting, job, shown, jobVars, cancel, worker, mutex, result, flagVars>>

StoreScanCancel ==
  /\ gui = "stop_scan"
  /\ scan_cancel' = TRUE /\ gui' = AfterRequest
  /\ UNCHANGED <<quitting, job, shown, jobVars, cancel, worker, mutex, result,
                 cancel_requested, read_running>>

(* finish_run. An error is shown unless the script went on after it and    *)
(* something succeeded; j->failed is the first failure.                    *)
Failures == {i \in DOMAIN outcomes : outcomes[i] \notin Success}
Failed   == IF Failures = {} THEN "none"
            ELSE outcomes[CHOOSE i \in Failures : \A j \in Failures : i <= j]

StopPressed == cancel                 \* mutant: also when everything had been executed
Interrupted == cancelled \/ Failed = "cancelled"

Report ==
  IF Failed = "error" /\ ~(keep_going /\ Executed > Cardinality(Failures)) THEN "error"
  ELSE IF Interrupted  THEN "cancelled"
  ELSE IF grids # <<>> THEN "results"
  ELSE "ok"

(* update_session and refresh_tree at the end of finish_run call the       *)
(* engine.                                                                 *)
FinishRun ==
  /\ job' = FALSE
  /\ shown' = Report
  /\ db_clear_cancel
  /\ gui' = "call"
  /\ UNCHANGED <<quitting, jobVars, cancel, worker, mutex, result, read_running>>

(* app_window_tick sees j->done. *)
Tick ==
  /\ gui = "idle" /\ job /\ worker = "ended"
  /\ FinishRun

(* platform_thread_join of app_window_destroy *)
NotJoined == TRUE                     \* mutant: the thread is not waited for
Joined    == worker = "ended"

Destroy ==
  /\ gui = "join" /\ Joined
  /\ FinishRun

(* Commit, rollback, explorer, CSV import, dump: behind busy_guard or a    *)
(* menu entry that is disabled.                                            *)
Call ==
  /\ gui = "idle" /\ ~job
  /\ gui' = "call"
  /\ UNCHANGED <<quitting, job, shown, jobVars, cancel, worker, mutex, result, flagVars>>

(* "Refresh explorer" of the View menu has no guard. *)
RefreshExplorer ==
  /\ gui = "idle"
  /\ gui' = "call"
  /\ UNCHANGED <<quitting, job, shown, jobVars, cancel, worker, mutex, result, flagVars>>

EnterCall ==
  /\ gui = "call" /\ mutex = "free"
  /\ mutex' = "gui" /\ gui' = "in_call"
  /\ UNCHANGED <<quitting, job, shown, jobVars, cancel, worker, result, flagVars>>

EndCall ==
  /\ gui = "in_call"
  /\ mutex' = "free" /\ gui' = IF quitting THEN "closing" ELSE "idle"
  /\ UNCHANGED <<quitting, job, shown, jobVars, cancel, worker, result, flagVars>>

(* db_shutdown *)
Shutdown ==
  /\ gui = "closing" /\ mutex = "free"
  /\ gui' = "closed"
  /\ UNCHANGED <<quitting, job, shown, jobVars, cancel, worker, mutex, result, flagVars>>

WindowStep ==
  \/ InlineEnds \/ StoreRequest \/ LoadReading \/ StoreScanCancel
  \/ Destroy \/ EndCall \/ Shutdown

Next ==
  \/ WorkerStep \/ Lock \/ ScanEnds
  \/ \E s \in Scripts, keep, threaded \in BOOLEAN : Run(s, keep, threaded)
  \/ Stop \/ Quit \/ Call \/ RefreshExplorer
  \/ Tick \/ EnterCall
  \/ WindowStep

(* Both threads go on; the scan of a SELECT need not end by itself. The    *)
(* main loop ticks after every round of events, and each thread gets the   *)
(* mutex when it is free again and again.                                  *)
Fairness ==
  /\ WF_vars(WorkerStep)
  /\ WF_vars(WindowStep)
  /\ SF_vars(Tick)
  /\ SF_vars(Lock) /\ SF_vars(EnterCall)

Spec == Init /\ [][Next]_vars /\ Fairness

-----------------------------------------------------------------------------
(* Types; at most MAX_RESULT_TABS result sets are kept. *)
TypeOK ==
  /\ gui \in GuiSteps /\ worker \in WorkerSteps
  /\ quitting \in BOOLEAN /\ job \in BOOLEAN /\ shown \in Reports
  /\ script \in Seq(Kinds) /\ keep_going \in BOOLEAN
  /\ outcomes \in Seq(Outcomes) /\ Len(outcomes) <= Len(script)
  /\ grids \in Seq(Nat) /\ Len(grids) <= MaxTabs
  /\ cancel \in BOOLEAN /\ cancelled \in BOOLEAN
  /\ mutex \in {"free", "worker", "gui"} /\ result \in Outcomes
  /\ cancel_requested \in BOOLEAN /\ read_running \in BOOLEAN /\ scan_cancel \in BOOLEAN

(* A statement that changes data never runs with scan_cancel set: its      *)
(* scans would end early and it would change only some of the rows         *)
(* (heap.h:36). The window may have read read_running of the SELECT before *)
(* it and store the flag much later.                                       *)
WritesUninterrupted == worker = "write" => ~scan_cancel

(* Nothing is cancelled unless Stop was pressed in the same run: no flag   *)
(* of an earlier run is left.                                              *)
OnlyStopCancels ==
  job /\ ~cancel => ~cancelled /\ \A i \in DOMAIN outcomes : outcomes[i] # "cancelled"

(* The message says "cancelled" only when a statement was interrupted or   *)
(* skipped (window.c:3995), results or success of a script that stops at   *)
(* errors mean that all of it was executed, and the result sets shown are  *)
(* the last ones.                                                          *)
ReportIsHonest ==
  LET withRows == {i \in DOMAIN outcomes : outcomes[i] = "rows"}
      last == {i \in withRows : Cardinality({j \in withRows : j > i}) < MaxTabs}
  IN  ~job /\ shown # "none" =>
        /\ shown = "cancelled" =>
             Executed < Len(script) \/ outcomes[Executed] = "cancelled"
        /\ shown \in {"results", "ok"} /\ ~keep_going =>
             Executed = Len(script) /\ \A i \in DOMAIN outcomes : outcomes[i] \in Success
        /\ {grids[k] : k \in DOMAIN grids} = last

(* The engine is shut down only after the worker has ended. *)
EngineOutlivesRun == gui \in {"closing", "closed"} => worker = "ended" /\ ~job

(* Stop ends the run, even when the SELECT would scan for ever. *)
StopEnds == job /\ cancel ~> ~job

(* Closing the window ends the program, whatever the worker is doing. *)
QuitCloses == quitting ~> gui = "closed"

=============================================================================
