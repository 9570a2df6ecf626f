-------------------------- MODULE NotificationsProofs --------------------------
(***************************************************************************)
(* A normal shutdown leaves no notification behind, for any number of them.  *)
(* The inductive invariant is the reason: a task that is not done is         *)
(* retained, so the snapshot that close takes misses none, and the monitor   *)
(* that could add one is done before close runs.                             *)
(***************************************************************************)
EXTENDS Notifications, TLAPS

Types ==
    /\ task \in [Tasks -> {"none", "ended"} \cup Unfinished]
    /\ retained \subseteq Tasks

\* asyncio's weak reference is never the only one to a task that is not done.
Referenced == \A t \in Tasks : task[t] \in Unfinished => t \in retained

\* Where the lifespan is, the monitor and the tasks it waits for.
Stage ==
    /\ life \in {"closing", "stopped"} => monitor = "cancelled"
    /\ life = "closing" => \A t \in Tasks : task[t] \in Unfinished => t \in gathered
    /\ life = "stopped" => \A t \in Tasks : task[t] \notin Unfinished

Inv == Types /\ Referenced /\ Stage

(***************************************************************************)
(* The invariant holds when the process starts.                              *)
(***************************************************************************)
LEMMA InitInv == Init => Inv
BY DEF Init, Inv, Types, Referenced, Stage, Unfinished

(***************************************************************************)
(* A notification that starts, ends or is forgotten keeps the invariant: it  *)
(* is retained from _notify until its done callback has run.                 *)
(***************************************************************************)
LEMMA TaskKeeps ==
    ASSUME Inv, NEW t \in Tasks, Notify(t) \/ TaskStep(t)
    PROVE  Inv'
<1> USE DEF Inv, Types, Referenced, Stage, Unfinished
<1>1. CASE Notify(t)
  BY <1>1 DEF Notify, Retain
<1>2. CASE StartSending(t)
  BY <1>2 DEF StartSending
<1>3. CASE Finish(t)
  <2>1. task' = [task EXCEPT ![t] = "ended"]
    BY <1>3 DEF Finish, Ends
  <2> QED BY <1>3, <2>1 DEF Finish
<1>4. CASE Discard(t)
  BY <1>4 DEF Discard, Forgotten
<1> QED BY <1>1, <1>2, <1>3, <1>4 DEF TaskStep

(***************************************************************************)
(* The lifespan keeps it: the snapshot of close holds every task that is     *)
(* not done, and gather waits for all of them.                               *)
(***************************************************************************)
LEMMA LifeKeeps ==
    ASSUME Inv, Start \/ MonitorDies \/ Stop \/ LifeStep
    PROVE  Inv'
<1> USE DEF Inv, Types, Referenced, Stage, Unfinished
<1>1. CASE Start
  BY <1>1 DEF Start
<1>2. CASE MonitorDies \/ MonitorEnds
  BY <1>2 DEF MonitorDies, MonitorEnds
<1>3. CASE Stop
  BY <1>3 DEF Stop
<1>4. CASE Close
  BY <1>4 DEF Close, CancelAll
<1>5. CASE ReRaise
  BY <1>5 DEF ReRaise
<1>6. CASE Closed
  BY <1>6 DEF Closed, GatherDone
<1>7. CASE LoopEnds
  BY <1>7 DEF LoopEnds, CancelAll
<1> QED BY <1>1, <1>2, <1>3, <1>4, <1>5, <1>6, <1>7 DEF LifeStep

(***************************************************************************)
(* The invariant holds throughout.                                           *)
(***************************************************************************)
LEMMA Invariant == Spec => []Inv
<1>1. Inv /\ [Next]_vars => Inv'
  <2>1. Inv /\ UNCHANGED vars => Inv'
    BY DEF vars, Inv, Types, Referenced, Stage
  <2> QED BY <2>1, TaskKeeps, LifeKeeps DEF Next
<1> QED BY InitInv, <1>1, PTL DEF Spec

(***************************************************************************)
(* close and lifespan: when a shutdown returns normally the monitor is       *)
(* cancelled and every notification there was has ended, whatever was being  *)
(* sent, was just scheduled or had finished without its callback at the      *)
(* snapshot.                                                                 *)
(***************************************************************************)
THEOREM ShutdownIsClean == Spec => []ShutdownDrains
<1>1. Inv => ShutdownDrains
  BY DEF Inv, Types, Stage, ShutdownDrains
<1> QED BY <1>1, Invariant, PTL

(***************************************************************************)
(* _notify: no notification is ever lost to the garbage collector half-way,  *)
(* though nobody awaits it: the set of the runtime refers to it until it is  *)
(* done.                                                                     *)
(***************************************************************************)
THEOREM NoneIsCollected == Spec => [](Referenced /\ \A t \in Tasks : task[t] # "collected")
<1>1. Inv => Referenced /\ \A t \in Tasks : task[t] # "collected"
  BY DEF Inv, Types, Unfinished
<1> QED BY <1>1, Invariant, PTL

=============================================================================
