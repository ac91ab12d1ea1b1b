------------------------------- MODULE Service -------------------------------
(***************************************************************************)
(* The service shell (Common/ServiceBase.h, TConsoleService) around the    *)
(* controller (LogoControl/LogoControl.cpp, main_function): the thread     *)
(* that runs serviceMain, the thread the control handler runs on, SvcRemove*)
(* in a process of its own, and - external - the service control manager.  *)
(*                                                                         *)
(* Abstractions.  dwControlsAccepted is one bit, as STOP and SHUTDOWN are  *)
(* always set together; a call of setServiceStatus is two steps, the stores*)
(* into status_ and the call of SetServiceStatus, which reads status_      *)
(* again.  Controls that change nothing, exit codes and logging are left   *)
(* out.  As a console program there is no manager, and Ctrl+C comes on a   *)
(* thread of its own.                                                      *)
(***************************************************************************)
EXTENDS Naturals

CONSTANTS
  Modes,           \* "service", "console"
  MaxStarts,       \* bound: starts of the process
  MaxFaults        \* bound: crashes, failures of RegisterServiceCtrlHandlerEx
                   \*   and of CoInitialize

ASSUME ModesAssumption == Modes \subseteq {"service", "console"}
ASSUME BoundsAssumption == MaxStarts \in Nat \ {0} /\ MaxFaults \in Nat

VARIABLES
  mode,
  main,            \* where serviceMain is; "none" without a process
  handler,         \* the control handler: "idle", "stop", "report", "event"
  status,          \* status_: [state, accepts], shared and not locked
  quit,            \* hEventQuit_, which stays set
  controller,      \* ctrlr exists: its server listens, its boards connect
  scm,             \* the manager's [state, accepts]
  restart,         \* the manager's failure action is due
  remover,         \* SvcRemove: "idle", "query", "control", "poll", "delete", "done"
  present,         \* the manager's entry is not deleted
  starts, faults,
  hindered         \* history: why a stop may go unseen in this life of the process

processVars == <<main, handler, status, quit, controller>>
scmVars == <<scm, restart, present, starts>>
vars == <<mode, processVars, scmVars, remover, faults, hindered>>

States == {"STOPPED", "START_PENDING", "RUNNING", "STOP_PENDING"}
Statuses == [state : States, accepts : BOOLEAN]
Stopped == [state |-> "STOPPED", accepts |-> FALSE]

Init ==
  /\ mode \in Modes
  /\ main = "none" /\ handler = "idle" /\ status = Stopped
  /\ quit = FALSE /\ controller = FALSE
  /\ scm = Stopped /\ restart = FALSE /\ present = TRUE
  /\ remover = "idle" /\ starts = 0 /\ faults = 0 /\ hindered = {}

Fault == faults < MaxFaults /\ faults' = faults + 1

-----------------------------------------------------------------------------
(* setServiceStatus.                                                       *)

\* Seeded fault: controls are accepted while the service starts.
StoredAlways(state) == [state |-> state, accepts |-> TRUE]

\* The stores into status_.
Stored(state) == [state |-> state, accepts |-> state # "START_PENDING"]

\* SetServiceStatus(hServiceStatus_, &status_), not in console mode.
Reports == scm' = IF mode = "console" THEN scm ELSE status

-----------------------------------------------------------------------------
(* The manager (external), as the shell uses it.                           *)

\* start(): the process, its dispatcher and the thread of serviceMain.
Starts ==
  /\ main' = "register" /\ handler' = "idle"
  /\ status' = [state |-> "START_PENDING", accepts |-> FALSE]
  /\ quit' = FALSE /\ controller' = FALSE
  /\ hindered' = IF remover = "poll" THEN {"started"} ELSE {}
  /\ scm' = IF mode = "console" THEN scm ELSE status'
  /\ starts < MaxStarts /\ starts' = starts + 1

Start ==
  /\ main = "none" /\ present /\ scm.state = "STOPPED" /\ ~restart
  /\ Starts
  /\ UNCHANGED <<mode, restart, present, remover, faults>>

\* SC_ACTION_RESTART with no delay, after a process that ended unannounced.
Restart ==
  /\ restart /\ restart' = FALSE
  /\ IF present /\ scm.state = "STOPPED" /\ starts < MaxStarts
       THEN Starts
       ELSE UNCHANGED <<processVars, scm, starts, hindered>>
  /\ UNCHANGED <<mode, present, remover, faults>>

Crash ==
  /\ main # "none" /\ Fault
  /\ main' = "none" /\ handler' = "idle" /\ controller' = FALSE
  /\ IF mode = "console"
       THEN UNCHANGED <<scm, restart>>
       ELSE scm' = Stopped /\ restart' = (scm.state # "STOPPED")
  /\ UNCHANGED <<mode, status, quit, present, starts, remover, hindered>>

\* The dispatcher returns once STOPPED is reported; without a manager, when
\* serviceMain does.
ProcessEnds ==
  /\ main # "none" /\ handler = "idle"
  /\ IF mode = "console" THEN main = "done" ELSE scm.state = "STOPPED"
  /\ main' = "none"
  /\ UNCHANGED <<mode, handler, status, quit, controller, scmVars, remover, faults, hindered>>

\* A control goes to the handler: a stop in the state RUNNING only, the system's
\* shutdown while the mask allows it, Ctrl+C once its handler is set.
Controllable ==
  /\ main # "none" /\ handler = "idle"
  /\ IF mode = "console" THEN main \notin {"none", "register"}
                         ELSE scm.accepts /\ scm.state # "STOPPED"

\* A control and the end of serviceMain overlap: both store into status_.
Overlap(ending, busy) == IF ending /\ busy THEN {"overlap"} ELSE {}

Ending == main \in {"stopping", "reportStopped", "done"}

BeginsControl ==
  handler' = "stop" /\ hindered' = hindered \cup Overlap(Ending, TRUE)

Control ==
  /\ Controllable /\ BeginsControl
  /\ UNCHANGED <<mode, main, status, quit, controller, scmVars, remover, faults>>

-----------------------------------------------------------------------------
(* onStop, onShutdown.                                                     *)

\* Seeded fault: the end is reported by the handler.
StopAtOnce ==
  /\ handler = "stop" /\ handler' = "report"
  /\ status' = Stored("STOPPED")
  /\ UNCHANGED <<mode, main, quit, controller, scmVars, remover, faults, hindered>>

OnStop ==
  /\ handler = "stop" /\ handler' = "report"
  /\ status' = Stored("STOP_PENDING")
  /\ UNCHANGED <<mode, main, quit, controller, scmVars, remover, faults, hindered>>

HandlerReports ==
  /\ handler = "report" /\ handler' = "event"
  /\ Reports
  /\ UNCHANGED <<mode, main, status, quit, controller, restart, present, starts, remover,
                 faults, hindered>>

\* Seeded fault: the event is reset like one made by CreateEvent(.., FALSE, ..).
NoEvent ==
  /\ handler = "event" /\ handler' = "idle"
  /\ quit' = (main = "wait")
  /\ UNCHANGED <<mode, main, status, controller, scmVars, remover, faults, hindered>>

SetsEvent ==
  /\ handler = "event" /\ handler' = "idle" /\ quit' = TRUE
  /\ UNCHANGED <<mode, main, status, controller, scmVars, remover, faults, hindered>>

-----------------------------------------------------------------------------
(* serviceMain and run.                                                    *)

MainGoes(from, to) == main = from /\ main' = to

Register ==
  /\ MainGoes("register", "startPending")
  /\ UNCHANGED <<mode, handler, status, quit, controller, scmVars, remover, faults, hindered>>

\* hServiceStatus_ is null: return, with nothing reported.
RegisterFails ==
  /\ mode = "service" /\ MainGoes("register", "lost") /\ Fault
  /\ UNCHANGED <<mode, handler, status, quit, controller, scmVars, remover, hindered>>

Stores(from, to, state) ==
  /\ MainGoes(from, to) /\ status' = Stored(state)
  /\ UNCHANGED <<mode, handler, quit, controller, scmVars, remover, faults, hindered>>

ReportsOf(from, to) ==
  /\ MainGoes(from, to) /\ Reports
  /\ UNCHANGED <<mode, handler, status, quit, controller, restart, present, starts, remover,
                 faults, hindered>>

StatusOfMain ==
  \/ Stores("startPending", "reportStart", "START_PENDING")
  \/ ReportsOf("reportStart", "run")
  \/ Stores("run", "reportRunning", "RUNNING")
  \/ ReportsOf("reportRunning", "app")
  \/ Stores("stopping", "reportStopped", "STOPPED")
  \/ ReportsOf("reportStopped", "done")

\* main_function: without COM it returns at once, else the controller is made.
AppStarts ==
  \/ /\ MainGoes("app", "stopping") /\ Fault
     /\ UNCHANGED controller
     /\ hindered' = hindered \cup Overlap(TRUE, handler # "idle")
  \/ /\ MainGoes("app", "wait") /\ controller' = TRUE
     /\ UNCHANGED <<faults, hindered>>

AppMain ==
  /\ AppStarts
  /\ UNCHANGED <<mode, handler, status, quit, scmVars, remover>>

\* Seeded fault: run returns before the controller is destroyed.
LeavesController ==
  /\ quit /\ MainGoes("wait", "stopping")
  /\ UNCHANGED <<mode, handler, status, quit, controller, scmVars, remover, faults, hindered>>

\* WaitForSingleObject returns, and ~ControllerClass with it.
AppEnds ==
  /\ quit /\ MainGoes("wait", "stopping") /\ controller' = FALSE
  /\ hindered' = hindered \cup Overlap(TRUE, handler # "idle")
  /\ UNCHANGED <<mode, handler, status, quit, scmVars, remover, faults>>

-----------------------------------------------------------------------------
(* SvcRemove.                                                              *)

RemoverGoes(from, to) == remover = from /\ remover' = to

Remove ==
  /\ mode = "service" /\ present /\ RemoverGoes("idle", "query")
  /\ UNCHANGED <<mode, processVars, scmVars, faults, hindered>>

Query ==
  /\ RemoverGoes("query", IF scm.state = "STOPPED" THEN "delete" ELSE "control")
  /\ UNCHANGED <<mode, processVars, scmVars, faults, hindered>>

\* ControlServiceEx, once.  The manager refuses it in any state but RUNNING.
RemoverControls ==
  /\ RemoverGoes("control", "poll")
  /\ IF scm.state = "RUNNING"
       THEN Controllable /\ BeginsControl
       ELSE /\ hindered' = hindered \cup
                 (IF scm.state = "START_PENDING" THEN {"refused"} ELSE {})
            /\ UNCHANGED handler
  /\ UNCHANGED <<mode, main, status, quit, controller, scmVars, faults>>

\* Seeded fault: it is enough that the service is stopping.
PollsStopping ==
  /\ scm.state = "STOP_PENDING" /\ RemoverGoes("poll", "delete")
  /\ UNCHANGED <<mode, processVars, scmVars, faults, hindered>>

\* while (QueryServiceStatus(...)), every 500 ms.
Polls ==
  /\ scm.state = "STOPPED" /\ RemoverGoes("poll", "delete")
  /\ UNCHANGED <<mode, processVars, scmVars, faults, hindered>>

Delete ==
  /\ RemoverGoes("delete", "done") /\ present' = FALSE
  /\ UNCHANGED <<mode, processVars, scm, restart, starts, faults, hindered>>

-----------------------------------------------------------------------------
ServiceMain == Register \/ RegisterFails \/ StatusOfMain \/ AppMain \/ AppEnds

Handler == OnStop \/ HandlerReports \/ SetsEvent

SvcRemove == Query \/ RemoverControls \/ Polls \/ Delete

Next ==
  \/ Start \/ Restart \/ Crash \/ ProcessEnds \/ Control
  \/ ServiceMain \/ Handler \/ Remove \/ SvcRemove

Spec == Init /\ [][Next]_vars

\* Threads and processes are scheduled; nothing makes a user start, stop or
\* remove the service.
FairSpec ==
  /\ Spec
  /\ WF_vars(ServiceMain) /\ WF_vars(Handler) /\ WF_vars(ProcessEnds)
  /\ WF_vars(Restart) /\ WF_vars(SvcRemove)

-----------------------------------------------------------------------------
(* Properties.                                                             *)

TypeOK ==
  /\ mode \in Modes
  /\ main \in {"none", "register", "startPending", "reportStart", "run", "reportRunning",
               "app", "wait", "stopping", "reportStopped", "done", "lost"}
  /\ handler \in {"idle", "stop", "report", "event"}
  /\ status \in Statuses /\ scm \in Statuses
  /\ quit \in BOOLEAN /\ controller \in BOOLEAN /\ restart \in BOOLEAN /\ present \in BOOLEAN
  /\ remover \in {"idle", "query", "control", "poll", "delete", "done"}
  /\ starts \in 0..MaxStarts /\ faults \in 0..MaxFaults
  /\ hindered \subseteq {"overlap", "refused", "started"}

\* The controls are accepted from the state RUNNING on: no stop comes early
\* enough for the thread's RUNNING to be reported after the handler's
\* STOP_PENDING.
NoRunningAfterStop ==
  [][scm.state = "STOP_PENDING" => scm'.state # "RUNNING"]_vars

\* A service the manager shows as stopped has no controller left: the next
\* start finds the port and the cards free.
StoppedIsGone == mode = "service" /\ scm.state = "STOPPED" => ~controller

\* "When the Run function returns, the service has stopped."  It is seen to, but
\* for the case of a control that overlaps with the end: status_ is not locked,
\* and the handler's STOP_PENDING then takes the place of STOPPED.
StopReported ==
  (mode = "service" /\ main = "stopping") ~> (scm.state = "STOPPED" \/ "overlap" \in hindered)

\* No stop that reached the handler is lost, whenever it came: also a Ctrl+C
\* before the controller is made ends the program, as the quit event stays set.
QuitEnds == (handler # "idle") ~> (main = "none" \/ "overlap" \in hindered)

StopsEnd == StopReported /\ QuitEnds

\* SvcRemove asks for the stop once and then polls without end: it comes to the
\* deletion unless the stop was refused, the service was started again before
\* the poll saw it stopped (by a user, or by the manager after a crash), or its
\* end was never reported.
RemoveEnds == (remover = "poll") ~> (remover # "poll" \/ hindered # {})

=============================================================================
