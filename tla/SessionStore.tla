---------------------------- MODULE SessionStore ----------------------------
(***************************************************************************)
(* The in-memory session store (app/infrastructure/memory.py).             *)
(*                                                                         *)
(* Everything runs on one asyncio event loop.  A section under the index   *)
(* lock never suspends, so it is one atomic step; the only places where a  *)
(* request gives up the loop are the wait for a session's own lock and the *)
(* body of the transaction, which may await the model provider.  A         *)
(* transaction whose body awaits is three steps of its task: Begin (the    *)
(* section under the index lock, and the acquisition when the lock is      *)
(* free), Wake (the acquisition after a wait) and Commit or Abort.  A body *)
(* that awaits nothing runs in the very step that gets the lock (Through). *)
(*                                                                         *)
(* asyncio.Lock is fair: a task that finds the lock held, or free with     *)
(* tasks queued on it, joins the queue; a release wakes the head, which    *)
(* acquires only when the loop runs it.                                    *)
(***************************************************************************)
EXTENDS Integers, Sequences, FiniteSets

CONSTANTS SessionIds,   \* every id secrets.token_urlsafe may hand out
          Tasks,        \* the request handlers that may run at once
          Contents,     \* what a session may hold
          NewContents,  \* what a session may hold when it is created
          Step,         \* <<before, after>>: what a transaction body may do
          Ttl,          \* session lifetime
          MaxSessions,  \* capacity of the store
          Instants,     \* the moments the clock may show (a bound of the model)
          Start,        \* the moment the process starts
          Absent,       \* no entry under an id
          NoTask,       \* a free lock
          NoSession     \* the target of an idle task

(* A stored session: its content and the time of its last write. *)
Session == [content : Contents, updatedAt : Instants]

ASSUME SentinelsAssumption ==
    /\ Absent \notin Contents
    /\ Absent \notin Session
    /\ NoTask \notin Tasks
    /\ NoSession \notin SessionIds
ASSUME IdsAssumption == IsFiniteSet(SessionIds)
ASSUME NewContentsAssumption == NewContents \subseteq Contents
ASSUME LimitsAssumption ==
    /\ Ttl \in Nat \ {0}
    /\ MaxSessions \in Nat \ {0}
ASSUME ClockAssumption == Instants \subseteq Nat /\ Start \in Instants

VARIABLES
    sessions,   \* _sessions: id -> the stored session, or Absent
    lockKeys,   \* the ids with an entry in _session_locks
    issued,     \* the ids handed out so far (random ids never repeat)
    holder,     \* holder[s]: the task that holds the lock of session s
    waiters,    \* waiters[s]: the tasks queued on that lock, in order
    pc,         \* pc[t]: "idle", "waiting" for a lock, "inside" the body
    target,     \* target[t]: the session the transaction of t is about
    working,    \* working[t]: the working copy the body of t reads
    clock       \* the clock of the store

lockVars == <<holder, waiters>>
taskVars == <<pc, target, working>>
vars == <<sessions, lockKeys, issued, lockVars, taskVars, clock>>

TypeOK ==
    /\ sessions \in [SessionIds -> Session \cup {Absent}]
    /\ lockKeys \subseteq SessionIds
    /\ issued \subseteq SessionIds
    /\ holder \in [SessionIds -> Tasks \cup {NoTask}]
    /\ waiters \in [SessionIds -> Seq(Tasks)]
    /\ pc \in [Tasks -> {"idle", "waiting", "inside"}]
    /\ target \in [Tasks -> SessionIds \cup {NoSession}]
    /\ working \in [Tasks -> Contents \cup {Absent}]
    /\ clock \in Instants

-----------------------------------------------------------------------------
(* The index: which sessions there are, and which of them are too old.     *)

Present == {s \in SessionIds : sessions[s] # Absent}

Expired(s) == sessions[s] # Absent /\ clock - sessions[s].updatedAt > Ttl

ExpiredIds == {s \in SessionIds : Expired(s)}

Without(ids) ==
    [s \in SessionIds |-> IF s \in ids THEN Absent ELSE sessions[s]]

(* Mutant of Forget: the locks are left behind. *)
ForgetKeepsLocks(ids) ==
    /\ sessions' = Without(ids)
    /\ UNCHANGED lockKeys

(* Forgetting sessions drops their entry and their lock from the two maps. *)
(* Tasks that wait for such a lock, or hold it, keep their reference to it. *)
Forget(ids) ==
    /\ sessions' = Without(ids)
    /\ lockKeys' = lockKeys \ ids

Init ==
    /\ sessions = [s \in SessionIds |-> Absent]
    /\ lockKeys = {}
    /\ issued = {}
    /\ holder = [s \in SessionIds |-> NoTask]
    /\ waiters = [s \in SessionIds |-> <<>>]
    /\ pc = [t \in Tasks |-> "idle"]
    /\ target = [t \in Tasks |-> NoSession]
    /\ working = [t \in Tasks |-> Absent]
    /\ clock = Start

(* create: purge, refuse when full, else a fresh id with its own lock. *)
Create(s, c) ==
    /\ s \notin issued
    /\ c \in NewContents
    /\ Cardinality(Present \ ExpiredIds) < MaxSessions
    /\ sessions' = [Without(ExpiredIds) EXCEPT
                       ![s] = [content |-> c, updatedAt |-> clock]]
    /\ lockKeys' = (lockKeys \ ExpiredIds) \cup {s}
    /\ issued' = issued \cup {s}
    /\ UNCHANGED <<lockVars, taskVars, clock>>

(* create when the store is full (SessionCapacityError): the purge that    *)
(* came first stays done.                                                  *)
CreateRefused ==
    /\ Cardinality(Present \ ExpiredIds) >= MaxSessions
    /\ Forget(ExpiredIds)
    /\ UNCHANGED <<issued, lockVars, taskVars, clock>>

(* count, which the metrics endpoint calls. *)
Count ==
    /\ Forget(ExpiredIds)
    /\ UNCHANGED <<issued, lockVars, taskVars, clock>>

(* get: an expired session is dropped on the way to SessionExpiredError;   *)
(* the other outcomes (found, not found) only read.                        *)
Get(s) ==
    /\ s \in issued
    /\ Forget({s} \cap ExpiredIds)
    /\ UNCHANGED <<issued, lockVars, taskVars, clock>>

(* delete: takes the index lock only, never the lock of the session. *)
Delete(s) ==
    /\ s \in issued
    /\ Forget({s})
    /\ UNCHANGED <<issued, lockVars, taskVars, clock>>

-----------------------------------------------------------------------------
(* Transactions.                                                           *)

(* Mutant of Admitted: a missing lock is no obstacle. *)
AdmittedWithoutLock(s) == sessions[s] # Absent /\ ~Expired(s)

(* Mutant of Admitted: the age is not looked at. *)
AdmittedAtAnyAge(s) == sessions[s] # Absent /\ s \in lockKeys

(* What the section under the index lock needs to let a transaction go on. *)
(* The lock of a session is looked up last: a stored session without a     *)
(* lock makes that lookup raise KeyError.                                  *)
Admitted(s) ==
    /\ sessions[s] # Absent
    /\ ~Expired(s)
    /\ s \in lockKeys

(* transaction raises before it reaches the lock: not found, expired (and  *)
(* dropped), or no lock under this id.                                     *)
BeginRefused(t, s) ==
    /\ pc[t] = "idle"
    /\ s \in issued
    /\ ~Admitted(s)
    /\ Forget({s} \cap ExpiredIds)
    /\ UNCHANGED <<issued, lockVars, taskVars, clock>>

(* What a transaction body may make of the copy it was given. *)
Makes(before, after) == after \in Contents /\ <<before, after>> \in Step

(* Mutant of LockFree: no lock at all. *)
LockFreeAlways(s) == TRUE

LockFree(s) == holder[s] = NoTask /\ waiters[s] = <<>>

(* Mutant of WriteBack: the deadline is stored instead of the time. *)
WriteBackDeadline(s, c) ==
    sessions' = [sessions EXCEPT
                   ![s] = [content |-> c, updatedAt |-> clock + Ttl]]

(* The write-back at the end of a body: whatever the map holds by now. *)
WriteBack(s, c) ==
    sessions' = [sessions EXCEPT ![s] = [content |-> c, updatedAt |-> clock]]

(* Mutant of Acquire: the copy is taken, the lock is not. *)
AcquireNothing(t, s) ==
    /\ UNCHANGED holder
    /\ pc' = [pc EXCEPT ![t] = "inside"]
    /\ target' = [target EXCEPT ![t] = s]
    /\ working' = [working EXCEPT ![t] = sessions[s].content]

(* The task t gets the lock of s and copies the session. *)
Acquire(t, s) ==
    /\ holder' = [holder EXCEPT ![s] = t]
    /\ pc' = [pc EXCEPT ![t] = "inside"]
    /\ target' = [target EXCEPT ![t] = s]
    /\ working' = [working EXCEPT ![t] = sessions[s].content]

BeginAcquire(t, s) ==
    /\ pc[t] = "idle"
    /\ s \in issued
    /\ Admitted(s)
    /\ LockFree(s)
    /\ Acquire(t, s)
    /\ UNCHANGED <<sessions, lockKeys, issued, waiters, clock>>

BeginWait(t, s) ==
    /\ pc[t] = "idle"
    /\ s \in issued
    /\ Admitted(s)
    /\ ~LockFree(s)
    /\ waiters' = [waiters EXCEPT ![s] = Append(@, t)]
    /\ pc' = [pc EXCEPT ![t] = "waiting"]
    /\ target' = [target EXCEPT ![t] = s]
    /\ UNCHANGED <<sessions, lockKeys, issued, holder, working, clock>>

(* The body awaits nothing: lock, copy, body, write-back and release are   *)
(* one step.                                                               *)
BeginThrough(t, s, c) ==
    /\ pc[t] = "idle"
    /\ s \in issued
    /\ Admitted(s)
    /\ LockFree(s)
    /\ Makes(sessions[s].content, c)
    /\ WriteBack(s, c)
    /\ UNCHANGED <<lockKeys, issued, lockVars, taskVars, clock>>

(* Mutant of Woken: the task acquires and stays in the queue. *)
WokenStaysQueued(t, s) ==
    /\ pc[t] = "waiting"
    /\ target[t] = s
    /\ holder[s] = NoTask
    /\ waiters[s] # <<>>
    /\ Head(waiters[s]) = t
    /\ UNCHANGED waiters

(* The head of the queue of a released lock, when the loop runs it. *)
Woken(t, s) ==
    /\ pc[t] = "waiting"
    /\ target[t] = s
    /\ holder[s] = NoTask
    /\ waiters[s] # <<>>
    /\ Head(waiters[s]) = t
    /\ waiters' = [waiters EXCEPT ![s] = Tail(@)]

(* The session is read again under its lock.  Its age is not: a session    *)
(* that expired during the wait is used.                                   *)
WakeAcquire(t, s) ==
    /\ Woken(t, s)
    /\ sessions[s] # Absent
    /\ Acquire(t, s)
    /\ UNCHANGED <<sessions, lockKeys, issued, clock>>

(* The task t is done with its transaction. *)
Leave(t) ==
    /\ pc' = [pc EXCEPT ![t] = "idle"]
    /\ target' = [target EXCEPT ![t] = NoSession]
    /\ working' = [working EXCEPT ![t] = Absent]

(* The session was removed during the wait: SessionNotFoundError, and the  *)
(* lock is released again.                                                 *)
WakeMissing(t, s) ==
    /\ Woken(t, s)
    /\ sessions[s] = Absent
    /\ Leave(t)
    /\ UNCHANGED <<sessions, lockKeys, issued, holder, clock>>

(* A body that waits for nothing runs in the step that gets the lock. *)
WakeThrough(t, s, c) ==
    /\ Woken(t, s)
    /\ sessions[s] # Absent
    /\ Makes(sessions[s].content, c)
    /\ WriteBack(s, c)
    /\ Leave(t)
    /\ UNCHANGED <<lockKeys, issued, holder, clock>>

(* The body ended normally after a wait: its result is written back. *)
Commit(t, s, c) ==
    /\ pc[t] = "inside"
    /\ target[t] = s
    /\ Makes(working[t], c)
    /\ WriteBack(s, c)
    /\ holder' = [holder EXCEPT ![s] = NoTask]
    /\ Leave(t)
    /\ UNCHANGED <<lockKeys, issued, waiters, clock>>

(* Mutant of Abort: an exception leaves the lock taken. *)
AbortKeepsLock(t, s) ==
    /\ pc[t] = "inside"
    /\ target[t] = s
    /\ Leave(t)
    /\ UNCHANGED <<sessions, lockKeys, issued, lockVars, clock>>

(* The body raised: nothing is written, the lock is released. *)
Abort(t, s) ==
    /\ pc[t] = "inside"
    /\ target[t] = s
    /\ holder' = [holder EXCEPT ![s] = NoTask]
    /\ Leave(t)
    /\ UNCHANGED <<sessions, lockKeys, issued, waiters, clock>>

Tick ==
    /\ clock' \in {later \in Instants : later > clock}
    /\ UNCHANGED <<sessions, lockKeys, issued, lockVars, taskVars>>

Begin(t, s) ==
    \/ BeginRefused(t, s) \/ BeginAcquire(t, s) \/ BeginWait(t, s)
    \/ \E c \in Contents : BeginThrough(t, s, c)
Wake(t, s) ==
    \/ WakeAcquire(t, s) \/ WakeMissing(t, s)
    \/ \E c \in Contents : WakeThrough(t, s, c)
End(t, s) == Abort(t, s) \/ \E c \in Contents : Commit(t, s, c)

Index(s) == Get(s) \/ Delete(s) \/ \E c \in NewContents : Create(s, c)

Next ==
    \/ CreateRefused
    \/ Count
    \/ Tick
    \/ \E s \in SessionIds : Index(s)
    \/ \E t \in Tasks, s \in SessionIds : Begin(t, s) \/ Wake(t, s) \/ End(t, s)

Spec == Init /\ [][Next]_vars

-----------------------------------------------------------------------------
(* Properties.                                                             *)

(* At most one transaction body runs on a session at any time, and it runs *)
(* as the holder of the session's lock (memory.py, async with lock).       *)
MutualExclusion ==
    /\ \A t \in Tasks : pc[t] = "inside" => holder[target[t]] = t
    /\ \A t, u \in Tasks :
           pc[t] = "inside" /\ pc[u] = "inside" /\ target[t] = target[u] => t = u

(* The copy a body works on is what the map holds for as long as the body  *)
(* runs, unless the session was removed under it: the write-back at the    *)
(* end of the body can never undo the turn of another request.             *)
WorkingCopyCurrent ==
    \A t \in Tasks :
        LET s == target[t] IN
        pc[t] = "inside" /\ sessions[s] # Absent
            => working[t] = sessions[s].content

(* The queue of a lock lists the tasks that wait for it, each once: nobody *)
(* waits without being queued, which would be a wait for ever.             *)
Queued(q) == {q[i] : i \in DOMAIN q}

NoRepeats(q) == \A i, j \in DOMAIN q : q[i] = q[j] => i = j

WaitingFor(s) == {t \in Tasks : pc[t] = "waiting" /\ target[t] = s}

QueueExact ==
    \A s \in SessionIds :
        Queued(waiters[s]) = WaitingFor(s) /\ NoRepeats(waiters[s])

(* The inductive strengthening of the two: what ties the tasks to the      *)
(* locks.  A task in a transaction, and a stored session, have an id that   *)
(* was handed out (so no create can replace it), and a held lock belongs   *)
(* to a task that is inside the body.                                      *)
TasksKnowTheirSession ==
    \A t \in Tasks :
        /\ pc[t] # "idle" => target[t] \in issued
        /\ pc[t] = "inside" => working[t] \in Contents

HolderIsInside ==
    \A s \in SessionIds :
        holder[s] # NoTask => pc[holder[s]] = "inside" /\ target[holder[s]] = s

StoredIdsIssued == Present \subseteq issued

StoreInv ==
    /\ TypeOK
    /\ StoredIdsIssued
    /\ TasksKnowTheirSession
    /\ HolderIsInside
    /\ MutualExclusion
    /\ WorkingCopyCurrent

(* Only stored sessions have an entry in _session_locks, and there are     *)
(* never more of these than the capacity allows: the two maps are purged   *)
(* together.  (The map of sessions itself can outgrow the capacity, by     *)
(* sessions that come back at a commit.)                                   *)
LocksWithinCapacity ==
    /\ lockKeys \subseteq Present
    /\ Cardinality(lockKeys) <= MaxSessions

(* A session that came back without a lock is frozen once the tasks that   *)
(* already knew its lock are gone: no later request can change it, each of *)
(* them fails at the lock lookup; it can only be removed.                  *)
OrphanFrozen ==
    [][\A s \in Present \ lockKeys :
           LockFree(s) => sessions'[s] \in {sessions[s], Absent}]_vars

(* What the documentation promises of a delete: the session is removed     *)
(* from the process, and so never comes back.                              *)
RemovedStaysRemoved ==
    [][\A s \in issued : sessions[s] = Absent => sessions'[s] = Absent]_vars

(* Every transaction that starts ends, with or without a wait, whatever is *)
(* deleted or expires meanwhile (under the fairness of AgentService).      *)
EveryTransactionEnds == \A t \in Tasks : pc[t] # "idle" ~> pc[t] = "idle"

(* The store implements the atomic map of module AtomicStore.              *)
StoredContent ==
    [s \in SessionIds |->
        IF sessions[s] = Absent THEN Absent ELSE sessions[s].content]

Atomic == INSTANCE AtomicStore WITH content <- StoredContent

ImplementsAtomicStore == Atomic!Spec

=============================================================================
