---------------------------- MODULE Notifications ----------------------------
(***************************************************************************)
(* Telegram notifications (app/notifier.py) and the lifespan of the        *)
(* controller (app/main.py).  Each notification is an asyncio task of its  *)
(* own that nobody awaits before shutdown.  asyncio keeps a weak reference *)
(* to it only, so ControllerRuntime retains it until its done callback     *)
(* runs.  What the monitor task does between notifications is Controller.  *)
(***************************************************************************)
CONSTANT Tasks                      \* notifications of one lifespan; a bound

VARIABLES
    life,       \* lifespan: starting, serving, stopping, closing, stopped; failed, ended
    monitor,    \* monitor_task: none, running, dead, cancelling, cancelled
    task,       \* task -> none, scheduled, sending, cancelled, ended, collected
    retained,   \* _notification_tasks
    gathered    \* tasks, in close

vars == <<life, monitor, task, retained, gathered>>

Unfinished == {"scheduled", "sending", "cancelled"}

Init ==
    /\ life = "starting" /\ monitor = "none"
    /\ task = [t \in Tasks |-> "none"]
    /\ retained = {} /\ gathered = {}

-----------------------------------------------------------------------------
(* Notifications. *)

Retain(t) == retained \cup {t}

\* _notify, called by the monitor's callback; only when Telegram is configured.
Notify(t) ==
    /\ monitor = "running" /\ task[t] = "none"
    /\ task' = [task EXCEPT ![t] = "scheduled"]
    /\ retained' = Retain(t)
    /\ UNCHANGED <<life, monitor, gathered>>

\* _send_safely up to the request.
StartSending(t) ==
    /\ task[t] = "scheduled"
    /\ task' = [task EXCEPT ![t] = "sending"]
    /\ UNCHANGED <<life, monitor, retained, gathered>>

\* How a task may end; one that waits and that nothing retains may also be
\* taken by the garbage collector.
Ends(t) == {"ended"} \cup (IF t \in retained THEN {} ELSE {"collected"})

\* The answer, an error or the timeout of 5 s, all swallowed; or the
\* CancelledError, which `except Exception` does not catch.
Finish(t) ==
    /\ task[t] \in {"sending", "cancelled"}
    /\ \E end \in Ends(t) : task' = [task EXCEPT ![t] = end]
    /\ UNCHANGED <<life, monitor, retained, gathered>>

\* Mutant of Forgotten: no done callback.
ForgottenMutant(t) == retained

Forgotten(t) == retained \ {t}

\* The done callback, a later turn of the loop.
Discard(t) ==
    /\ task[t] = "ended" /\ t \in retained
    /\ retained' = Forgotten(t)
    /\ UNCHANGED <<life, monitor, task, gathered>>

-----------------------------------------------------------------------------
(* lifespan. *)

\* Settings or the Docker client may fail; then there is no runtime.
Start ==
    /\ life = "starting"
    /\ \/ life' = "serving" /\ monitor' = "running"
       \/ life' = "failed" /\ UNCHANGED monitor
    /\ UNCHANGED <<task, retained, gathered>>

\* An exception of the callback ends the monitor task; nobody looks at it.
MonitorDies ==
    /\ monitor = "running"
    /\ monitor' = "dead"
    /\ UNCHANGED <<life, task, retained, gathered>>

\* Mutant of Cancelled: the monitor is awaited without being cancelled.
CancelledMutant(m) == m

\* Task.cancel: no effect on a task that is done.
Cancelled(m) == IF m = "running" THEN "cancelling" ELSE m

Stop ==
    /\ life = "serving"
    /\ life' = "stopping" /\ monitor' = Cancelled(monitor)
    /\ UNCHANGED <<task, retained, gathered>>

\* CancelledError is raised where the monitor waits and nothing on its way
\* catches it: no notification follows a cancellation.
MonitorEnds ==
    /\ monitor = "cancelling"
    /\ monitor' = "cancelled"
    /\ UNCHANGED <<life, task, retained, gathered>>

CancelAll(tasks) ==
    [t \in Tasks |-> IF t \in tasks /\ task[t] \in Unfinished THEN "cancelled" ELSE task[t]]

\* close, up to gather.
Close ==
    /\ life = "stopping" /\ monitor = "cancelled"
    /\ gathered' = retained
    /\ task' = CancelAll(retained)
    /\ life' = "closing"
    /\ UNCHANGED <<monitor, retained>>

\* The await raises what the monitor died of, and close is skipped.
ReRaise ==
    /\ life = "stopping" /\ monitor = "dead"
    /\ life' = "failed"
    /\ UNCHANGED <<monitor, task, retained, gathered>>

\* Mutant of GatherDone: the tasks are cancelled and not awaited.
GatherDoneMutant == TRUE

GatherDone == \A t \in gathered : task[t] = "ended"

Closed ==
    /\ life = "closing" /\ GatherDone
    /\ life' = "stopped"
    /\ UNCHANGED <<monitor, task, retained, gathered>>

\* The server gives up after a failed lifespan and asyncio.run cancels what
\* is left.
LoopEnds ==
    /\ life = "failed"
    /\ life' = "ended" /\ task' = CancelAll(Tasks)
    /\ UNCHANGED <<monitor, retained, gathered>>

-----------------------------------------------------------------------------
TaskStep(t) == StartSending(t) \/ Finish(t) \/ Discard(t)

LifeStep == MonitorEnds \/ Close \/ ReRaise \/ Closed \/ LoopEnds

Next ==
    \/ Start \/ MonitorDies \/ Stop \/ LifeStep
    \/ \E t \in Tasks : Notify(t) \/ TaskStep(t)

\* The loop runs every task that is ready; a request ends by its timeout.
Fairness == WF_vars(LifeStep) /\ \A t \in Tasks : WF_vars(TaskStep(t))

Spec == Init /\ [][Next]_vars /\ Fairness

-----------------------------------------------------------------------------
(* Properties. *)

\* close, lifespan: when a shutdown returns normally no notification is
\* running and none can start, whatever was being sent, was just scheduled or
\* had finished without its callback when the snapshot was taken.
ShutdownDrains ==
    life = "stopped" =>
        monitor = "cancelled" /\ \A t \in Tasks : task[t] \in {"none", "ended"}

\* _notify, _send_safely: every notification runs to an end and is then no
\* longer retained: none is collected half-way and the set does not leak,
\* also when the monitor has died or the server is stopped in between.
NotificationsEnd ==
    \A t \in Tasks : task[t] = "scheduled" ~> task[t] = "ended" /\ t \notin retained

\* lifespan: a shutdown ends, whether the monitor is waiting or died before,
\* and whatever the notifications do.
ShutdownEnds == life = "stopping" ~> life \in {"stopped", "ended"}

=============================================================================
