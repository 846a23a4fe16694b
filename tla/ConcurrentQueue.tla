-------------------------- MODULE ConcurrentQueue ---------------------------
(***************************************************************************)
(* The bounded queue between threads (DataStructures/ConcurrentQueue.h).   *)
(* m_mutex makes each function one step, except that a wait gives it up:   *)
(* a thread that finds its condition false joins the waiters of a condition *)
(* variable and goes on after a notification, or spuriously.               *)
(***************************************************************************)
EXTENDS Naturals, Sequences

CONSTANT capacity       \* of the circular buffer (2500 in PBFParser)
ASSUME CapacityAssumption == capacity \in Nat \ {0}

VARIABLES
    m_internal_queue,
    m_not_full,         \* threads waiting in push
    m_not_empty         \* threads waiting in wait_and_pop

queue == <<m_internal_queue, m_not_full, m_not_empty>>

Ready(t) == t \notin m_not_full \cup m_not_empty

\* notify_one on the waiters before it, with the waiters after it.
notify_one(waiters, remaining) ==
    \/ waiters = {} /\ remaining = {}
    \/ \E t \in waiters : remaining = waiters \ {t}

\* Mutant: no wait for room; the full circular buffer overwrites its oldest element.
push_overwriting(t, data) ==
    /\ Ready(t)
    /\ m_internal_queue' = IF Len(m_internal_queue) < capacity
                           THEN Append(m_internal_queue, data)
                           ELSE Append(Tail(m_internal_queue), data)
    /\ notify_one(m_not_empty, m_not_empty')
    /\ UNCHANGED m_not_full

push(t, data) ==
    /\ Ready(t)
    /\ Len(m_internal_queue) < capacity
    /\ m_internal_queue' = Append(m_internal_queue, data)
    /\ notify_one(m_not_empty, m_not_empty')
    /\ UNCHANGED m_not_full

push_waits(t) ==
    /\ Ready(t)
    /\ ~(Len(m_internal_queue) < capacity)
    /\ m_not_full' = m_not_full \cup {t}
    /\ UNCHANGED <<m_internal_queue, m_not_empty>>

\* Mutant: a producer that waits for room is not notified.
pop_silently(t) ==
    /\ Ready(t)
    /\ m_internal_queue # <<>>
    /\ m_internal_queue' = Tail(m_internal_queue)
    /\ UNCHANGED <<m_not_full, m_not_empty>>

\* wait_and_pop once there is data, and try_pop; the value is Head(m_internal_queue).
pop(t) ==
    /\ Ready(t)
    /\ m_internal_queue # <<>>
    /\ m_internal_queue' = Tail(m_internal_queue)
    /\ notify_one(m_not_full, m_not_full')
    /\ UNCHANGED m_not_empty

pop_waits(t) ==
    /\ Ready(t)
    /\ m_internal_queue = <<>>
    /\ m_not_empty' = m_not_empty \cup {t}
    /\ UNCHANGED <<m_internal_queue, m_not_full>>

spurious_wakeup(t) ==
    /\ ~Ready(t)
    /\ m_not_full' = m_not_full \ {t}
    /\ m_not_empty' = m_not_empty \ {t}
    /\ UNCHANGED m_internal_queue

QueueInit == m_internal_queue = <<>> /\ m_not_full = {} /\ m_not_empty = {}
=============================================================================
