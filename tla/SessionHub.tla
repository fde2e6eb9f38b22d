----------------------------- MODULE SessionHub -----------------------------
(***************************************************************************)
(* SessionHub of src/web.rs: one lock object per web session, created on   *)
(* demand and removed when it has not been used for session_idle_ttl.      *)
(* Stream runs and /api/send take the session's lock for their whole run.  *)
(* A task looks the lock up under the hub's mutex and locks it afterwards, *)
(* so what it holds in between is only a reference.                        *)
(***************************************************************************)
EXTENDS FiniteSets

CONSTANTS
    Session, Task,
    Lock,            \* lock objects; an unreferenced one can be reused
    NoLock, NoTask

ASSUME HubAssumption == NoLock \notin Lock /\ NoTask \notin Task

VARIABLES
    locks,     \* SessionHub.locks
    stale,     \* whether last_touch is more than session_idle_ttl ago
    holder,    \* the task that has locked the object
    pc,        \* where each task is
    session,   \* the session it works for
    ref        \* the lock object it refers to

vars == <<locks, stale, holder, pc, session, ref>>

TypeOK ==
    /\ locks \in [Session -> Lock \cup {NoLock}]
    /\ stale \in [Session -> BOOLEAN]
    /\ holder \in [Lock -> Task \cup {NoTask}]
    /\ pc \in [Task -> {"out", "waiting", "running"}]
    /\ session \in [Task -> Session]
    /\ ref \in [Task -> Lock \cup {NoLock}]

Init ==
    /\ locks = [s \in Session |-> NoLock]
    /\ stale = [s \in Session |-> FALSE]
    /\ holder = [l \in Lock |-> NoTask]
    /\ pc = [t \in Task |-> "out"]
    /\ session \in [Task -> Session]
    /\ ref = [t \in Task |-> NoLock]

-----------------------------------------------------------------------------
Present(s) == locks[s] # NoLock

\* Mutant of Removable: a lock that is free is taken to be unused.
RemovableIfFree(s) == Present(s) /\ stale[s] /\ holder[locks[s]] = NoTask

\* strong_count(&entry.lock) == 1 && entry.lock.try_lock().is_ok()
Removable(s) ==
    /\ Present(s) /\ stale[s]
    /\ \A t \in Task : ref[t] # locks[s]
    /\ holder[locks[s]] = NoTask

Kept(s) == [z \in Session |-> IF z # s /\ Removable(z) THEN NoLock ELSE locks[z]]

\* lock_for: every other session's unused lock goes, this one's is found or made.
LockFor(t, s) ==
    /\ pc[t] = "out"
    /\ \/ Present(s) /\ locks' = Kept(s)
       \/ /\ ~Present(s)
          /\ \E l \in Lock :
                /\ \A z \in Session : Kept(s)[z] # l
                /\ \A u \in Task : ref[u] # l
                /\ locks' = [Kept(s) EXCEPT ![s] = l]
    /\ ref' = [ref EXCEPT ![t] = locks'[s]]
    /\ stale' = [stale EXCEPT ![s] = FALSE]
    /\ session' = [session EXCEPT ![t] = s]
    /\ pc' = [pc EXCEPT ![t] = "waiting"]
    /\ UNCHANGED holder

\* lock.lock().await: the oldest waiter first, here any of them.
Enter(t) ==
    /\ pc[t] = "waiting"
    /\ holder[ref[t]] = NoTask
    /\ holder' = [holder EXCEPT ![ref[t]] = t]
    /\ pc' = [pc EXCEPT ![t] = "running"]
    /\ UNCHANGED <<locks, stale, session, ref>>

\* The run is over, or its future was dropped: the guard and the reference go.
Leave(t) ==
    /\ pc[t] \in {"waiting", "running"}
    /\ holder' = [holder EXCEPT ![ref[t]] = IF pc[t] = "running" THEN NoTask ELSE @]
    /\ pc' = [pc EXCEPT ![t] = "out"]
    /\ ref' = [ref EXCEPT ![t] = NoLock]
    /\ UNCHANGED <<locks, stale, session>>

\* Time passes, runs of any length included.
Age(s) ==
    /\ Present(s) /\ ~stale[s]
    /\ stale' = [stale EXCEPT ![s] = TRUE]
    /\ UNCHANGED <<locks, holder, pc, session, ref>>

Next ==
    \/ \E t \in Task : Enter(t) \/ Leave(t) \/ \E s \in Session : LockFor(t, s)
    \/ \E s \in Session : Age(s)

Spec == Init /\ [][Next]_vars

-----------------------------------------------------------------------------
(***************************************************************************)
(* Properties                                                              *)
(***************************************************************************)
\* A session has one run at a time, however long runs last and however often
\* other sessions clean up.
OneRunPerSession ==
    \A t, u \in Task :
        pc[t] = "running" /\ pc[u] = "running" /\ session[t] = session[u] => t = u

\* The inductive invariant: a reference is to the lock the map has for that
\* session, and an object's holder is the running task that refers to it.
RefsCurrent ==
    /\ \A t \in Task : ref[t] = NoLock <=> pc[t] = "out"
    /\ \A t \in Task : ref[t] # NoLock => ref[t] = locks[session[t]]
    /\ \A s, z \in Session : Present(s) /\ locks[s] = locks[z] => s = z
    /\ \A t \in Task, l \in Lock : holder[l] = t <=> pc[t] = "running" /\ ref[t] = l

HubInv == TypeOK /\ RefsCurrent

=============================================================================
