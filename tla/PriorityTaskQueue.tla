--------------------------- MODULE PriorityTaskQueue ---------------------------
(***************************************************************************)
(* The ordered map of class PriorityTaskQueue.  A queue is a set of        *)
(* entries; an entry carries the map's key (priority, sequence) and the    *)
(* request of the task stored under it.  The code keeps the key apart from *)
(* the request's own priority and sequence, and finds a task again only by *)
(* recomputing the key from them: the two can disagree, so both are here.  *)
(***************************************************************************)
EXTENDS Naturals

Entry(task, priority, sequence) ==
  [task |-> task, priority |-> priority, sequence |-> sequence]

SameKey(e, f) == e.priority = f.priority /\ e.sequence = f.sequence

\* Key::operator<: the highest priority first, then the oldest request.
Before(e, f) ==
  \/ e.priority > f.priority
  \/ e.priority = f.priority /\ e.sequence < f.sequence

\* m_tasks.begin(): the entry Pop takes.
IsTop(e, queue) == e \in queue /\ \A f \in queue \ {e} : Before(e, f)

Top(queue) == CHOOSE e \in queue : IsTop(e, queue)

TopPriority(queue) == Top(queue).priority
TopSequence(queue) == Top(queue).sequence

\* std::map::emplace: a key already present keeps its task.
Emplace(queue, e) ==
  queue \cup {f \in {e} : \A g \in queue : ~SameKey(f, g)}

Push(queue, task, priority, sequence) ==
  Emplace(queue, Entry(task, priority, sequence))

\* find(KeyOf(priority, sequence)), and the task found is the one asked for.
Finds(queue, task, priority, sequence) ==
  Entry(task, priority, sequence) \in queue

Remove(queue, task, priority, sequence) ==
  queue \ {Entry(task, priority, sequence)}

Reprioritize(queue, task, priority, sequence, newPriority) ==
  Emplace(Remove(queue, task, priority, sequence),
          Entry(task, newPriority, sequence))
================================================================================
