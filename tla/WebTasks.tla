------------------------------ MODULE WebTasks ------------------------------
(***************************************************************************)
(* Tasks of the web app over its local store                               *)
(* (apps/web/src/tasks.ts over localStore.ts): a call reads the record,    *)
(* writes the whole record back and then stores an event, with an await    *)
(* after each, so that calls on one task interleave there.  An event bears *)
(* the time its record was written, not the time it is stored itself.      *)
(***************************************************************************)
EXTENDS Naturals

CONSTANTS
  TaskCalls,   \* calls that may overlap
  Texts,       \* title, notes and tags
  MaxPuts      \* bound: records written

ASSUME TasksAssumption == MaxPuts \in Nat

VARIABLES
  task,        \* the record, a set of at most one
  puts,        \* records written so far: the time
  taskEvents,  \* the events stored
  taskCall,    \* per call: what it is doing, a set of at most one
  reverted     \* history: an update wrote back a status that had changed since

tasksVars == <<task, puts, taskEvents, taskCall, reverted>>

Statuses == {"todo", "done", "archived"}

(* completedAt and archivedAt are set with the status they belong to.       *)
WithStatus(t, status) ==
  [t EXCEPT !.status = status, !.completed = (status = "done"), !.archived = (status = "archived")]

TasksInit ==
  /\ task = {} /\ puts = 0 /\ taskEvents = {}
  /\ taskCall = [p \in TaskCalls |-> {}]
  /\ reverted = FALSE

(* putTask, and what the call's event will say.                             *)
Put(p, t, type) ==
  /\ puts < MaxPuts
  /\ task' = {t} /\ puts' = puts + 1
  /\ taskCall' = [taskCall EXCEPT ![p] = {[step |-> "emit", type |-> type, at |-> puts', status |-> t.status]}]
  /\ UNCHANGED taskEvents

(* createTask: nothing looks whether the id is taken.                       *)
CreateTask(p, text, status) ==
  /\ taskCall[p] = {}
  /\ Put(p, WithStatus([text |-> text, status |-> status, completed |-> FALSE, archived |-> FALSE], status),
         "task.created")
  /\ reverted' = FALSE

(* requireTask: updateTask and setTaskStatus begin with what is stored.     *)
Read(p, type, want) ==
  /\ taskCall[p] = {} /\ task # {}
  /\ taskCall' = [taskCall EXCEPT ![p] = {[step |-> "put", type |-> type, want |-> want, read |-> task]}]
  /\ UNCHANGED <<task, puts, taskEvents, reverted>>

UpdateTask(p) ==
  \E c \in taskCall[p] : \E t \in (IF c.step = "put" THEN c.read ELSE {}) :
    /\ c.type = "task.updated"
    /\ Put(p, [t EXCEPT !.text = c.want], c.type)
    /\ reverted' = (reverted \/ \E now \in task : now.status # t.status)

(* Mutant: a change of status is told as an update.                         *)
SetTaskStatusUntold(p) ==
  \E c \in taskCall[p] : \E t \in (IF c.step = "put" THEN c.read ELSE {}) :
    /\ c.type = "task.status_changed"
    /\ t.status # c.want
    /\ Put(p, WithStatus(t, c.want), "task.updated")
    /\ reverted' = FALSE

(* setTaskStatus returns early when the status it read is the one it is to  *)
(* set.                                                                     *)
SetTaskStatus(p) ==
  \E c \in taskCall[p] : \E t \in (IF c.step = "put" THEN c.read ELSE {}) :
    /\ c.type = "task.status_changed"
    /\ \/ /\ t.status = c.want
          /\ taskCall' = [taskCall EXCEPT ![p] = {}]
          /\ UNCHANGED <<task, puts, taskEvents, reverted>>
       \/ /\ t.status # c.want
          /\ Put(p, WithStatus(t, c.want), c.type)
          /\ reverted' = FALSE

(* emitTaskEvent, and the call returns.                                     *)
EmitTaskEvent(p) ==
  \E c \in taskCall[p] :
    /\ c.step = "emit"
    /\ taskEvents' = taskEvents \cup {[type |-> c.type, at |-> c.at, status |-> c.status]}
    /\ taskCall' = [taskCall EXCEPT ![p] = {}]
    /\ UNCHANGED <<task, puts, reverted>>

TasksNext ==
  \E p \in TaskCalls :
    \/ \E text \in Texts, status \in Statuses : CreateTask(p, text, status)
    \/ \E text \in Texts : Read(p, "task.updated", text)
    \/ \E status \in Statuses : Read(p, "task.status_changed", status)
    \/ UpdateTask(p) \/ SetTaskStatus(p) \/ EmitTaskEvent(p)

TasksSpec == TasksInit /\ [][TasksNext]_tasksVars

-----------------------------------------------------------------------------
SaysStatus(e) == e.type \in {"task.created", "task.status_changed"}

(* However calls on a task overlap, its stamps agree with its status, and   *)
(* once they are over the latest event about the status (listTaskEvents     *)
(* sorts by time) names the status stored - unless an update wrote back a   *)
(* status that was changed between its read and its write, of which no      *)
(* event tells: that lost update is how the code is, and the property says  *)
(* that it is the only way, and that the next change of status ends it.     *)
EventsTellTheTask ==
  \A t \in task :
    /\ t.completed = (t.status = "done") /\ t.archived = (t.status = "archived")
    /\ (\A p \in TaskCalls : taskCall[p] = {}) =>
         \/ reverted
         \/ \E e \in taskEvents :
              /\ SaysStatus(e) /\ e.status = t.status
              /\ \A other \in taskEvents : SaysStatus(other) => other.at <= e.at
=============================================================================
