------------------------- MODULE SessionStoreProofs -------------------------
(***************************************************************************)
(* Theorems about SessionStore and SessionAge, for every set of tasks, every finite set   *)
(* of ids, every content and transaction relation, every lifetime and      *)
(* every capacity.                                                         *)
(***************************************************************************)
EXTENDS SessionAge, TLAPS, FiniteSetTheorems, SequenceTheorems

(* Every step of the store keeps the types of its variables. *)
LEMMA TypeInductive == TypeOK /\ [Next]_vars => TypeOK'
<1> SUFFICES ASSUME TypeOK, [Next]_vars PROVE TypeOK'
  OBVIOUS
<1> USE DEF TypeOK
<1>1. CASE CreateRefused
  BY <1>1 DEF CreateRefused, Forget, Without, lockVars, taskVars
<1>2. CASE Count
  BY <1>2 DEF Count, Forget, Without, lockVars, taskVars
<1>3. CASE Tick
  BY <1>3 DEF Tick, lockVars, taskVars
<1>4. ASSUME NEW s \in SessionIds, Get(s) PROVE TypeOK'
  BY <1>4 DEF Get, Forget, Without, lockVars, taskVars
<1>5. ASSUME NEW s \in SessionIds, Delete(s) PROVE TypeOK'
  BY <1>5 DEF Delete, Forget, Without, lockVars, taskVars
<1>6. ASSUME NEW s \in SessionIds, NEW c \in NewContents, Create(s, c)
      PROVE TypeOK'
  <2>1. [content |-> c, updatedAt |-> clock] \in Session
    BY NewContentsAssumption DEF Session
  <2> QED
    BY <1>6, <2>1 DEF Create, Without, lockVars, taskVars
<1>7. ASSUME NEW t \in Tasks, NEW s \in SessionIds, BeginRefused(t, s)
      PROVE TypeOK'
  BY <1>7 DEF BeginRefused, Forget, Without, lockVars, taskVars
<1>8. ASSUME NEW t \in Tasks, NEW s \in SessionIds, BeginAcquire(t, s)
      PROVE TypeOK'
  BY <1>8 DEF BeginAcquire, Admitted, Acquire, Session
<1>9. ASSUME NEW t \in Tasks, NEW s \in SessionIds, BeginWait(t, s)
      PROVE TypeOK'
  <2>1. Append(waiters[s], t) \in Seq(Tasks)
    OBVIOUS
  <2> QED
    BY <1>9, <2>1 DEF BeginWait
<1>10. ASSUME NEW t \in Tasks, NEW s \in SessionIds, WakeAcquire(t, s)
       PROVE TypeOK'
  <2>1. Tail(waiters[s]) \in Seq(Tasks)
    BY <1>10, HeadTailProperties DEF WakeAcquire, Woken
  <2> QED
    BY <1>10, <2>1 DEF WakeAcquire, Woken, Acquire, Session
<1>11. ASSUME NEW t \in Tasks, NEW s \in SessionIds, WakeMissing(t, s)
       PROVE TypeOK'
  <2>1. Tail(waiters[s]) \in Seq(Tasks)
    BY <1>11, HeadTailProperties DEF WakeMissing, Woken
  <2> QED
    BY <1>11, <2>1 DEF WakeMissing, Woken, Leave
<1>12. ASSUME NEW t \in Tasks, NEW s \in SessionIds, Abort(t, s)
       PROVE TypeOK'
  BY <1>12 DEF Abort, Leave
<1>13. ASSUME NEW t \in Tasks, NEW s \in SessionIds, NEW c \in Contents,
              Commit(t, s, c)
       PROVE TypeOK'
  <2>1. [content |-> c, updatedAt |-> clock] \in Session
    BY DEF Session
  <2> QED
    BY <1>13, <2>1 DEF WriteBack, Commit, Leave
<1>14. ASSUME NEW t \in Tasks, NEW s \in SessionIds, NEW c \in Contents,
              BeginThrough(t, s, c)
       PROVE TypeOK'
  <2>1. [content |-> c, updatedAt |-> clock] \in Session
    BY DEF Session
  <2> QED
    BY <1>14, <2>1 DEF WriteBack, BeginThrough, lockVars, taskVars
<1>15. ASSUME NEW t \in Tasks, NEW s \in SessionIds, NEW c \in Contents,
              WakeThrough(t, s, c)
       PROVE TypeOK'
  <2>1. [content |-> c, updatedAt |-> clock] \in Session
    BY DEF Session
  <2>2. Tail(waiters[s]) \in Seq(Tasks)
    BY <1>15, HeadTailProperties DEF WakeThrough, Woken
  <2> QED
    BY <1>15, <2>1, <2>2 DEF WriteBack, WakeThrough, Woken, Leave
<1>16. CASE UNCHANGED vars
  BY <1>16 DEF vars, lockVars, taskVars
<1> QED
  BY <1>1, <1>2, <1>3, <1>4, <1>5, <1>6, <1>7, <1>8, <1>9, <1>10, <1>11,
     <1>12, <1>13, <1>14, <1>15, <1>16
  DEF Next, Index, Begin, Wake, End

(* The variables of the store keep their types: no operation puts a task,  *)
(* a lock or a session into a state the code has no name for.              *)
THEOREM StoreTypeCorrect == Spec => []TypeOK
<1>1. Init => TypeOK
  BY ClockAssumption DEF Init, TypeOK
<1> QED
  BY <1>1, TypeInductive, PTL DEF Spec

-----------------------------------------------------------------------------
(* Steps under the index lock only remove sessions and touch no task and   *)
(* no lock in use, so whatever ties tasks to locks survives them.          *)
LEMMA ForgetKeepsInv ==
  ASSUME StoreInv, TypeOK', NEW ids \in SUBSET SessionIds,
         Forget(ids), UNCHANGED <<issued, lockVars, taskVars>>
  PROVE  StoreInv'
<1> USE DEF StoreInv, TypeOK, lockVars, taskVars
<1>1. TasksKnowTheirSession' /\ HolderIsInside' /\ MutualExclusion'
  BY DEF TasksKnowTheirSession, HolderIsInside, MutualExclusion
<1>2. \A s \in SessionIds : sessions'[s] # Absent => sessions'[s] = sessions[s]
  BY DEF Forget, Without
<1>3. WorkingCopyCurrent'
  BY <1>2 DEF WorkingCopyCurrent, MutualExclusion, TasksKnowTheirSession
<1>4. StoredIdsIssued'
  BY <1>2 DEF StoredIdsIssued, Present
<1> QED
  BY <1>1, <1>3, <1>4

(* A new session gets an id nobody works under.                            *)
LEMMA CreateKeepsInv ==
  ASSUME StoreInv, TypeOK', NEW s \in SessionIds, NEW c \in NewContents,
         Create(s, c)
  PROVE  StoreInv'
<1> USE DEF StoreInv, TypeOK, lockVars, taskVars, Create
<1>1. TasksKnowTheirSession' /\ HolderIsInside' /\ MutualExclusion'
  BY DEF TasksKnowTheirSession, HolderIsInside, MutualExclusion
<1>2. \A i \in SessionIds \ {s} :
         sessions'[i] # Absent => sessions'[i] = sessions[i]
  BY DEF Without
<1>3. \A t \in Tasks : pc[t] = "inside" => target[t] \in SessionIds \ {s}
  BY DEF TasksKnowTheirSession
<1>4. WorkingCopyCurrent'
  BY <1>2, <1>3 DEF WorkingCopyCurrent
<1>5. StoredIdsIssued'
  BY <1>2 DEF StoredIdsIssued, Present
<1> QED
  BY <1>1, <1>4, <1>5

(* Entering a body: the lock was free, so nobody was inside this session.  *)
LEMMA AcquireKeepsInv ==
  ASSUME StoreInv, TypeOK', NEW t \in Tasks, NEW s \in issued,
         pc[t] # "inside", holder[s] = NoTask, sessions[s] # Absent,
         Acquire(t, s), UNCHANGED <<sessions, issued>>
  PROVE  StoreInv'
<1> USE DEF StoreInv, TypeOK, Acquire
<1>1. s \in SessionIds
  OBVIOUS
<1>2. sessions[s].content \in Contents
  BY <1>1 DEF Session
<1>3. \A u \in Tasks : pc[u] = "inside" => target[u] # s
  BY SentinelsAssumption DEF MutualExclusion
<1>4. TasksKnowTheirSession'
  BY <1>1, <1>2 DEF TasksKnowTheirSession
<1>5. HolderIsInside'
  BY <1>1 DEF HolderIsInside
<1>6. MutualExclusion'
  BY <1>1, <1>3 DEF MutualExclusion
<1>7. WorkingCopyCurrent'
  BY <1>1 DEF WorkingCopyCurrent
<1>8. StoredIdsIssued'
  BY DEF StoredIdsIssued, Present
<1> QED
  BY <1>4, <1>5, <1>6, <1>7, <1>8

(* A body that runs in one step writes a session nobody else works on.     *)
LEMMA ThroughKeepsInv ==
  ASSUME StoreInv, TypeOK', NEW t \in Tasks, NEW s \in issued,
         NEW c \in Contents, pc[t] # "inside", holder[s] = NoTask,
         WriteBack(s, c), Leave(t) \/ UNCHANGED taskVars,
         UNCHANGED <<holder, issued>>
  PROVE  StoreInv'
<1> USE DEF StoreInv, TypeOK, Leave, taskVars
<1>1. \A u \in Tasks : pc[u] = "inside" => target[u] # s
  BY SentinelsAssumption DEF MutualExclusion
<1>2. \A u \in Tasks : pc'[u] = "inside" =>
         pc[u] = "inside" /\ target'[u] = target[u] /\ working'[u] = working[u]
  OBVIOUS
<1>3. TasksKnowTheirSession'
  BY DEF TasksKnowTheirSession
<1>4. HolderIsInside'
  BY DEF HolderIsInside
<1>5. MutualExclusion'
  BY <1>2 DEF MutualExclusion
<1>6. WorkingCopyCurrent'
  BY <1>1, <1>2 DEF WorkingCopyCurrent, WriteBack, TasksKnowTheirSession
<1>7. StoredIdsIssued'
  BY DEF StoredIdsIssued, Present, WriteBack
<1> QED
  BY <1>3, <1>4, <1>5, <1>6, <1>7

(* Leaving a body gives the lock back; what it wrote is nobody else's      *)
(* working copy.                                                           *)
LEMMA LeaveBodyKeepsInv ==
  ASSUME StoreInv, TypeOK', NEW t \in Tasks, NEW s \in SessionIds,
         pc[t] = "inside", target[t] = s,
         holder' = [holder EXCEPT ![s] = NoTask], Leave(t), UNCHANGED issued,
         \A i \in SessionIds \ {s} : sessions'[i] = sessions[i]
  PROVE  StoreInv'
<1> USE DEF StoreInv, TypeOK, Leave
<1>1. \A u \in Tasks : u # t /\ pc[u] = "inside" => target[u] # s
  BY DEF MutualExclusion
<1>2. holder[s] = t
  BY DEF MutualExclusion
<1>3. TasksKnowTheirSession'
  BY DEF TasksKnowTheirSession
<1>4. HolderIsInside'
  BY <1>2 DEF HolderIsInside
<1>5. MutualExclusion'
  BY <1>1, SentinelsAssumption DEF MutualExclusion
<1>6. WorkingCopyCurrent'
  BY <1>1 DEF WorkingCopyCurrent, TasksKnowTheirSession
<1>7. StoredIdsIssued'
  BY DEF StoredIdsIssued, Present, TasksKnowTheirSession
<1> QED
  BY <1>3, <1>4, <1>5, <1>6, <1>7

(* Every step of the store keeps its inductive invariant.                  *)
LEMMA StoreInvInductive == StoreInv /\ [Next]_vars => StoreInv'
<1> SUFFICES ASSUME StoreInv, [Next]_vars PROVE StoreInv'
  OBVIOUS
<1>0. TypeOK'
  BY TypeInductive DEF StoreInv
<1>1. CASE CreateRefused \/ Count
  BY <1>0, <1>1, ForgetKeepsInv DEF CreateRefused, Count, ExpiredIds
<1>2. CASE Tick \/ UNCHANGED vars
  <2>1. /\ TasksKnowTheirSession' /\ HolderIsInside'
        /\ MutualExclusion' /\ WorkingCopyCurrent' /\ StoredIdsIssued'
    BY <1>2 DEF Tick, vars, lockVars, taskVars, StoreInv,
       TasksKnowTheirSession, HolderIsInside, MutualExclusion,
       WorkingCopyCurrent, StoredIdsIssued, Present
  <2> QED
    BY <1>0, <2>1 DEF StoreInv
<1>3. ASSUME NEW s \in SessionIds, Get(s) \/ Delete(s) PROVE StoreInv'
  BY <1>0, <1>3, ForgetKeepsInv DEF Get, Delete
<1>4. ASSUME NEW s \in SessionIds, NEW c \in NewContents, Create(s, c)
      PROVE StoreInv'
  BY <1>0, <1>4, CreateKeepsInv
<1>5. ASSUME NEW t \in Tasks, NEW s \in SessionIds, BeginRefused(t, s)
      PROVE StoreInv'
  BY <1>0, <1>5, ForgetKeepsInv DEF BeginRefused
<1>6. ASSUME NEW t \in Tasks, NEW s \in SessionIds, BeginAcquire(t, s)
      PROVE StoreInv'
  BY <1>0, <1>6, AcquireKeepsInv DEF BeginAcquire, Admitted, LockFree
<1>7. ASSUME NEW t \in Tasks, NEW s \in SessionIds, BeginWait(t, s)
      PROVE StoreInv'
  <2> USE <1>7 DEF BeginWait, StoreInv, TypeOK
  <2>1. TasksKnowTheirSession' /\ HolderIsInside'
    BY DEF TasksKnowTheirSession, HolderIsInside
  <2>2. MutualExclusion' /\ WorkingCopyCurrent' /\ StoredIdsIssued'
    BY DEF MutualExclusion, WorkingCopyCurrent, StoredIdsIssued, Present
  <2> QED
    BY <1>0, <2>1, <2>2
<1>8. ASSUME NEW t \in Tasks, NEW s \in SessionIds, WakeAcquire(t, s)
      PROVE StoreInv'
  <2>1. s \in issued
    BY <1>8 DEF WakeAcquire, Woken, StoreInv, TasksKnowTheirSession
  <2> QED
    BY <1>0, <1>8, <2>1, AcquireKeepsInv DEF WakeAcquire, Woken
<1>9. ASSUME NEW t \in Tasks, NEW s \in SessionIds, WakeMissing(t, s)
      PROVE StoreInv'
  <2> USE <1>9 DEF WakeMissing, Woken, Leave, StoreInv, TypeOK
  <2>1. TasksKnowTheirSession' /\ HolderIsInside'
    BY DEF TasksKnowTheirSession, HolderIsInside
  <2>2. MutualExclusion' /\ WorkingCopyCurrent' /\ StoredIdsIssued'
    BY DEF MutualExclusion, WorkingCopyCurrent, StoredIdsIssued, Present
  <2> QED
    BY <1>0, <2>1, <2>2
<1>10. ASSUME NEW t \in Tasks, NEW s \in SessionIds, End(t, s)
       PROVE StoreInv'
  BY <1>0, <1>10, LeaveBodyKeepsInv
  DEF End, Abort, WriteBack, Commit, StoreInv, TypeOK
<1>11. ASSUME NEW t \in Tasks, NEW s \in SessionIds, NEW c \in Contents,
              BeginThrough(t, s, c)
       PROVE StoreInv'
  BY <1>0, <1>11, ThroughKeepsInv DEF BeginThrough, LockFree, lockVars
<1>12. ASSUME NEW t \in Tasks, NEW s \in SessionIds, NEW c \in Contents,
              WakeThrough(t, s, c)
       PROVE StoreInv'
  <2>1. s \in issued
    BY <1>12 DEF WakeThrough, Woken, StoreInv, TasksKnowTheirSession
  <2> QED
    BY <1>0, <1>12, <2>1, ThroughKeepsInv DEF WakeThrough, Woken
<1> QED
  BY <1>1, <1>2, <1>3, <1>4, <1>5, <1>6, <1>7, <1>8, <1>9, <1>10, <1>11, <1>12
  DEF Next, Index, Begin, Wake

(* The inductive invariant of the store holds throughout. *)
LEMMA StoreInvInit == Init => StoreInv
BY ClockAssumption, SentinelsAssumption
DEF Init, StoreInv, TypeOK, TasksKnowTheirSession, HolderIsInside,
    MutualExclusion, WorkingCopyCurrent, StoredIdsIssued, Present

LEMMA StoreInvCorrect == Spec => []StoreInv
BY StoreInvInit, StoreInvInductive, PTL DEF Spec

(* At most one transaction body runs on a session, as its lock's holder,   *)
(* for any number of tasks, sessions and removals.                         *)
THEOREM StoreMutualExclusion == Spec => []MutualExclusion
<1>1. StoreInv => MutualExclusion
  BY DEF StoreInv
<1> QED
  BY <1>1, StoreInvCorrect, PTL

(* No update is lost: what a body works on is what the store holds for as  *)
(* long as it runs, unless the session was removed under it.               *)
THEOREM StoreWorkingCopyCurrent == Spec => []WorkingCopyCurrent
<1>1. StoreInv => WorkingCopyCurrent
  BY DEF StoreInv
<1> QED
  BY <1>1, StoreInvCorrect, PTL

-----------------------------------------------------------------------------
(* The two maps of the index and the capacity.                             *)

(* Every step keeps the locks within the stored sessions and the capacity. *)
LEMMA CapacityInductive ==
  StoreInv /\ LocksWithinCapacity /\ [Next]_vars => LocksWithinCapacity'
<1> SUFFICES ASSUME StoreInv, LocksWithinCapacity, [Next]_vars
             PROVE  LocksWithinCapacity'
  OBVIOUS
<1> USE DEF StoreInv, TypeOK, LocksWithinCapacity
<1>0. IsFiniteSet(Present) /\ IsFiniteSet(lockKeys)
  BY IdsAssumption, FS_Subset DEF Present
<1>1. ASSUME NEW ids \in SUBSET SessionIds, Forget(ids)
      PROVE  LocksWithinCapacity'
  <2>1. lockKeys' \subseteq Present'
    BY <1>1 DEF Forget, Without, Present
  <2>2. lockKeys' \in SUBSET lockKeys
    BY <1>1 DEF Forget
  <2>3. Cardinality(lockKeys') <= Cardinality(lockKeys)
    BY <1>0, <2>2, FS_Subset
  <2>4. Cardinality(lockKeys') \in Nat /\ Cardinality(lockKeys) \in Nat
    BY <1>0, <2>2, FS_Subset, FS_CardinalityType
  <2> QED
    BY <2>1, <2>3, <2>4, LimitsAssumption
<1>2. CASE CreateRefused \/ Count
  BY <1>1, <1>2 DEF CreateRefused, Count, ExpiredIds
<1>3. ASSUME NEW s \in SessionIds, Get(s) \/ Delete(s)
      PROVE  LocksWithinCapacity'
  BY <1>1, <1>3 DEF Get, Delete
<1>4. ASSUME NEW s \in SessionIds, NEW c \in NewContents, Create(s, c)
      PROVE  LocksWithinCapacity'
  <2> DEFINE kept == lockKeys \ ExpiredIds
             live == Present \ ExpiredIds
  <2>1. kept \in SUBSET live /\ IsFiniteSet(live)
    BY <1>0, FS_Subset
  <2>2. /\ IsFiniteSet(kept)
        /\ Cardinality(kept) <= Cardinality(live)
        /\ Cardinality(kept) \in Nat /\ Cardinality(live) \in Nat
    BY <2>1, FS_Subset, FS_CardinalityType
  <2>3. Cardinality(live) < MaxSessions /\ lockKeys' = kept \cup {s}
    BY <1>4 DEF Create
  <2>4. Cardinality(lockKeys') <= Cardinality(kept) + 1
    <3>1. Cardinality(kept \cup {s})
             = IF s \in kept THEN Cardinality(kept) ELSE Cardinality(kept) + 1
      BY <2>2, FS_AddElement
    <3> HIDE DEF kept
    <3> QED
      BY <2>2, <2>3, <3>1
  <2>5. Cardinality(lockKeys') \in Nat
    BY <2>2, <2>3, FS_AddElement, FS_CardinalityType
  <2>6. Cardinality(lockKeys') <= MaxSessions
    BY <2>2, <2>3, <2>4, <2>5, LimitsAssumption
  <2>7. [content |-> c, updatedAt |-> clock] # Absent
    BY SentinelsAssumption, NewContentsAssumption DEF Session
  <2>8. lockKeys' \subseteq Present'
    BY <1>4, <2>3, <2>7 DEF Create, Without, Present
  <2> QED
    BY <2>6, <2>8
<1>5. ASSUME NEW t \in Tasks, NEW s \in SessionIds, BeginRefused(t, s)
      PROVE  LocksWithinCapacity'
  BY <1>1, <1>5 DEF BeginRefused
<1>6. ASSUME NEW s \in SessionIds, NEW c \in Contents, WriteBack(s, c),
             UNCHANGED lockKeys
      PROVE  LocksWithinCapacity'
  <2>1. [content |-> c, updatedAt |-> clock] # Absent
    BY SentinelsAssumption DEF Session
  <2> QED
    BY <1>6, <2>1 DEF WriteBack, Present
<1>7. ASSUME UNCHANGED <<sessions, lockKeys>> PROVE LocksWithinCapacity'
  BY <1>7 DEF Present
<1>8. CASE Tick \/ UNCHANGED vars
  BY <1>7, <1>8 DEF Tick, vars
<1>9. ASSUME NEW t \in Tasks, NEW s \in SessionIds,
             \/ BeginAcquire(t, s) \/ BeginWait(t, s)
             \/ WakeAcquire(t, s) \/ WakeMissing(t, s) \/ Abort(t, s)
      PROVE  LocksWithinCapacity'
  BY <1>7, <1>9 DEF BeginAcquire, BeginWait, WakeAcquire, WakeMissing, Abort
<1>10. ASSUME NEW t \in Tasks, NEW s \in SessionIds, NEW c \in Contents,
              \/ BeginThrough(t, s, c) \/ WakeThrough(t, s, c)
              \/ Commit(t, s, c)
       PROVE  LocksWithinCapacity'
  BY <1>6, <1>10 DEF BeginThrough, WakeThrough, Commit
<1> QED
  BY <1>2, <1>3, <1>4, <1>5, <1>8, <1>9, <1>10
  DEF Next, Index, Begin, Wake, End

(* The locks kept never outnumber the capacity, and each belongs to a      *)
(* stored session, whatever comes back at a commit.                        *)
THEOREM StoreLocksWithinCapacity == Spec => []LocksWithinCapacity
<1>1. Init => LocksWithinCapacity
  BY FS_EmptySet, LimitsAssumption DEF Init, LocksWithinCapacity, Present
<1> QED
  BY <1>1, CapacityInductive, StoreInvCorrect, PTL DEF Spec

-----------------------------------------------------------------------------
(* The queues of the locks.                                                *)

(* A task that joins a queue it is not in is its one new member. *)
LEMMA QueueAppend ==
  ASSUME NEW T, NEW q \in Seq(T), NEW t \in T,
         t \notin Queued(q), NoRepeats(q)
  PROVE  /\ Queued(Append(q, t)) = Queued(q) \cup {t}
         /\ NoRepeats(Append(q, t))
<1> DEFINE r == Append(q, t)
<1>1. /\ Len(q) \in Nat /\ DOMAIN q = 1..Len(q)
      /\ DOMAIN r = 1..(Len(q) + 1)
      /\ \A i \in 1..Len(q) : r[i] = q[i]
      /\ r[Len(q) + 1] = t
  OBVIOUS
<1> HIDE DEF r
<1>2. Queued(r) = Queued(q) \cup {t}
  BY <1>1 DEF Queued
<1>3. NoRepeats(r)
  BY <1>1 DEF Queued, NoRepeats
<1> QED
  BY <1>2, <1>3 DEF r

(* A task that leaves the head of a queue without repeats leaves it. *)
LEMMA QueueTail ==
  ASSUME NEW T, NEW q \in Seq(T), q # <<>>, NoRepeats(q)
  PROVE  /\ Queued(Tail(q)) = Queued(q) \ {Head(q)}
         /\ NoRepeats(Tail(q))
<1> DEFINE r == Tail(q)
<1>1. /\ Len(q) \in Nat \ {0} /\ DOMAIN q = 1..Len(q)
      /\ DOMAIN r = 1..(Len(q) - 1)
      /\ \A i \in 1..(Len(q) - 1) : r[i] = q[i + 1]
      /\ Head(q) = q[1]
  OBVIOUS
<1> HIDE DEF r
<1>2. Queued(r) \subseteq Queued(q) \ {Head(q)}
  BY <1>1 DEF Queued, NoRepeats
<1>3. ASSUME NEW x \in Queued(q), x # Head(q) PROVE x \in Queued(r)
  <2>1. PICK i \in 1..Len(q) : x = q[i]
    BY <1>1 DEF Queued
  <2>2. i - 1 \in 1..(Len(q) - 1) /\ x = r[i - 1]
    BY <1>1, <1>3, <2>1
  <2> QED
    BY <1>1, <2>2 DEF Queued
<1>4. NoRepeats(r)
  BY <1>1 DEF NoRepeats
<1> QED
  BY <1>2, <1>3, <1>4 DEF r

LEMMA QueueInductive ==
  StoreInv /\ QueueExact /\ [Next]_vars => QueueExact'
<1> SUFFICES ASSUME StoreInv, QueueExact, [Next]_vars PROVE QueueExact'
  OBVIOUS
<1> USE DEF StoreInv, TypeOK, QueueExact
<1>1. ASSUME UNCHANGED <<waiters, pc, target>> PROVE QueueExact'
  BY <1>1 DEF WaitingFor
<1>2. CASE CreateRefused \/ Count \/ Tick \/ UNCHANGED vars
  BY <1>1, <1>2 DEF CreateRefused, Count, Tick, vars, lockVars, taskVars
<1>3. ASSUME NEW s \in SessionIds, Index(s) PROVE QueueExact'
  BY <1>1, <1>3 DEF Index, Get, Delete, Create, lockVars, taskVars
<1>4. ASSUME NEW t \in Tasks, NEW s \in SessionIds,
             BeginRefused(t, s) \/ \E c \in Contents : BeginThrough(t, s, c)
      PROVE  QueueExact'
  BY <1>1, <1>4 DEF BeginRefused, BeginThrough, lockVars, taskVars
<1>5. ASSUME NEW t \in Tasks, NEW s \in SessionIds,
             BeginAcquire(t, s) \/ End(t, s)
      PROVE  QueueExact'
  <2>1. \A i \in SessionIds : WaitingFor(i)' = WaitingFor(i)
    BY <1>5 DEF BeginAcquire, Acquire, End, Abort, WriteBack, Commit, Leave, WaitingFor
  <2> QED
    BY <1>5, <2>1 DEF BeginAcquire, End, Abort, WriteBack, Commit
<1>6. ASSUME NEW t \in Tasks, NEW s \in SessionIds, BeginWait(t, s)
      PROVE  QueueExact'
  <2>1. /\ WaitingFor(s)' = WaitingFor(s) \cup {t}
        /\ \A i \in SessionIds \ {s} : WaitingFor(i)' = WaitingFor(i)
    BY <1>6 DEF BeginWait, WaitingFor
  <2>2. t \notin Queued(waiters[s])
    BY <1>6 DEF BeginWait, WaitingFor
  <2>3. /\ Queued(Append(waiters[s], t)) = Queued(waiters[s]) \cup {t}
        /\ NoRepeats(Append(waiters[s], t))
    BY <2>2, QueueAppend
  <2> QED
    BY <1>6, <2>1, <2>3 DEF BeginWait
<1>7. ASSUME NEW t \in Tasks, NEW s \in SessionIds, Wake(t, s)
      PROVE  QueueExact'
  <2>1. /\ waiters[s] # <<>> /\ Head(waiters[s]) = t
        /\ waiters' = [waiters EXCEPT ![s] = Tail(@)]
    BY <1>7 DEF Wake, WakeAcquire, WakeMissing, WakeThrough, Woken
  <2>2. /\ WaitingFor(s)' = WaitingFor(s) \ {t}
        /\ \A i \in SessionIds \ {s} : WaitingFor(i)' = WaitingFor(i)
    BY <1>7 DEF Wake, WakeAcquire, WakeMissing, WakeThrough, Woken, Acquire,
       Leave, WaitingFor
  <2>3. /\ Queued(Tail(waiters[s])) = Queued(waiters[s]) \ {t}
        /\ NoRepeats(Tail(waiters[s]))
    BY <2>1, QueueTail
  <2> QED
    BY <2>1, <2>2, <2>3
<1> QED
  BY <1>2, <1>3, <1>4, <1>5, <1>6, <1>7 DEF Next, Begin

(* The queue of each lock is exactly the tasks that wait for it: no wait   *)
(* is forgotten, none is queued twice.                                     *)
THEOREM StoreQueueExact == Spec => []QueueExact
<1>1. Init => QueueExact
  BY DEF Init, QueueExact, Queued, NoRepeats, WaitingFor
<1> QED
  BY <1>1, QueueInductive, StoreInvCorrect, PTL DEF Spec

-----------------------------------------------------------------------------
(* Properties of single steps.                                             *)

(* A session that came back without its lock can only be removed. *)
THEOREM StoreOrphanFrozen == Spec => OrphanFrozen
<1> DEFINE Frozen(s) == LockFree(s) => sessions'[s] \in {sessions[s], Absent}
<1>1. StoreInv /\ [Next]_vars => \A s \in Present \ lockKeys : Frozen(s)
  <2> SUFFICES ASSUME StoreInv, [Next]_vars, NEW s \in Present \ lockKeys,
                      LockFree(s)
               PROVE  sessions'[s] \in {sessions[s], Absent}
    OBVIOUS
  <2> USE DEF StoreInv, TypeOK, Present
  <2>1. CASE CreateRefused \/ Count
    BY <2>1 DEF CreateRefused, Count, Forget, Without
  <2>2. CASE Tick \/ UNCHANGED vars
    BY <2>2 DEF Tick, vars
  <2>3. ASSUME NEW i \in SessionIds, Get(i) \/ Delete(i)
        PROVE  sessions'[s] \in {sessions[s], Absent}
    BY <2>3 DEF Get, Delete, Forget, Without
  <2>4. ASSUME NEW i \in SessionIds, NEW c \in NewContents, Create(i, c)
        PROVE  sessions'[s] \in {sessions[s], Absent}
    <3>1. CASE i = s
      \* a create never hits a stored session: stored ids have been issued
      <4>1. s \notin issued
        BY <2>4, <3>1 DEF Create
      <4> QED
        BY <3>1, <4>1 DEF StoredIdsIssued
    <3>2. CASE i # s
      BY <2>4, <3>2 DEF Create, Without
    <3> QED
      BY <3>1, <3>2
  <2>5. ASSUME NEW t \in Tasks, NEW i \in SessionIds,
               Begin(t, i) \/ Wake(t, i)
        PROVE  sessions'[s] \in {sessions[s], Absent}
    \* a body that runs at once needs a stored lock, or a place in the queue
    <3>1. CASE Begin(t, i)
      BY <3>1 DEF Begin, BeginRefused, BeginAcquire, BeginWait, BeginThrough,
         Admitted, WriteBack, Forget, Without
    <3>2. CASE Wake(t, i)
      BY <3>2 DEF Wake, WakeAcquire, WakeMissing, WakeThrough, Woken,
         LockFree, WriteBack
    <3> QED
      BY <2>5, <3>1, <3>2
  <2>6. ASSUME NEW t \in Tasks, NEW i \in SessionIds, End(t, i)
        PROVE  sessions'[s] \in {sessions[s], Absent}
    \* a body that ends is the holder of the lock, and the lock of s is free
    <3>1. holder[i] = t
      BY <2>6 DEF End, Abort, WriteBack, Commit, MutualExclusion
    <3>2. i # s
      BY <3>1, SentinelsAssumption DEF LockFree
    <3> QED
      BY <2>6, <3>2 DEF End, Abort, WriteBack, Commit
  <2> QED
    BY <2>1, <2>2, <2>3, <2>4, <2>5, <2>6 DEF Next, Index
<1> QED
  BY <1>1, StoreInvCorrect, PTL DEF Spec, OrphanFrozen

-----------------------------------------------------------------------------
(* The age of the session a request works on.                              *)

Kept(s) == sessions'[s] = sessions[s] \/ sessions'[s] = Absent

WrittenNow(s) == sessions'[s] # Absent /\ sessions'[s].updatedAt = clock

GoesOn(t) == pc[t] # "idle" /\ target'[t] = target[t]

FindsItYoung(t) ==
    /\ pc[t] = "idle"
    /\ target'[t] \in SessionIds /\ sessions[target'[t]] # Absent
    /\ ~Expired(target'[t])
    /\ UNCHANGED <<sessions, clock>>

(* What a step of the store means for ages: the clock never goes back, a   *)
(* session that is stored anew is stored as of now, and a task that is in  *)
(* a transaction was in it before or finds its session young.              *)
LEMMA AgesInAStep ==
  ASSUME StoreInv, [Next]_vars
  PROVE  /\ clock \in Nat /\ clock' \in Nat /\ clock <= clock'
         /\ \A s \in SessionIds : Kept(s) \/ WrittenNow(s)
         /\ \A t \in Tasks : pc'[t] # "idle" => GoesOn(t) \/ FindsItYoung(t)
<1> USE DEF StoreInv, TypeOK
<1> DEFINE Timed == clock \in Nat /\ clock' \in Nat /\ clock <= clock'
           Stored == \A s \in SessionIds : Kept(s) \/ WrittenNow(s)
           Working == \A t \in Tasks : pc'[t] # "idle" => GoesOn(t) \/ FindsItYoung(t)
<1>0. clock \in Nat /\ clock' = clock => Timed
  BY ClockAssumption
<1>c. clock \in Nat
  BY ClockAssumption
<1>1. ASSUME CreateRefused \/ Count PROVE Timed /\ Stored /\ Working
  <2>1. Stored
    BY <1>1 DEF CreateRefused, Count, Forget, Without, Kept
  <2>2. Working /\ clock' = clock
    BY <1>1 DEF CreateRefused, Count, taskVars, GoesOn
  <2> QED
    BY <1>0, <1>c, <2>1, <2>2
<1>2. ASSUME UNCHANGED vars PROVE Timed /\ Stored /\ Working
  <2>1. Stored
    BY <1>2 DEF vars, Kept
  <2>2. Working /\ clock' = clock
    BY <1>2 DEF vars, taskVars, GoesOn
  <2> QED
    BY <1>0, <1>c, <2>1, <2>2
<1>3. ASSUME Tick PROVE Timed /\ Stored /\ Working
  <2>1. Stored
    BY <1>3 DEF Tick, Kept
  <2>2. Working
    BY <1>3 DEF Tick, taskVars, GoesOn
  <2>3. Timed
    BY <1>3, ClockAssumption DEF Tick
  <2> QED
    BY <2>1, <2>2, <2>3
<1>4. ASSUME NEW i \in SessionIds, Get(i) \/ Delete(i)
      PROVE  Timed /\ Stored /\ Working
  <2>1. Stored
    BY <1>4 DEF Get, Delete, Forget, Without, Kept
  <2>2. Working /\ clock' = clock
    BY <1>4 DEF Get, Delete, taskVars, GoesOn
  <2> QED
    BY <1>0, <1>c, <2>1, <2>2
<1>5. ASSUME NEW i \in SessionIds, NEW c \in NewContents, Create(i, c)
      PROVE  Timed /\ Stored /\ Working
  <2>1. [content |-> c, updatedAt |-> clock] # Absent
    BY SentinelsAssumption, NewContentsAssumption DEF Session
  <2>2. Stored
    BY <1>5, <2>1 DEF Create, Without, Kept, WrittenNow
  <2>3. Working /\ clock' = clock
    BY <1>5 DEF Create, taskVars, GoesOn
  <2> QED
    BY <1>0, <1>c, <2>2, <2>3
<1>6. ASSUME NEW u \in Tasks, NEW i \in SessionIds, BeginRefused(u, i)
      PROVE  Timed /\ Stored /\ Working
  <2>1. Stored
    BY <1>6 DEF BeginRefused, Forget, Without, Kept
  <2>2. Working /\ clock' = clock
    BY <1>6 DEF BeginRefused, taskVars, GoesOn
  <2> QED
    BY <1>0, <1>c, <2>1, <2>2
<1>7. ASSUME NEW u \in Tasks, NEW i \in SessionIds,
             BeginAcquire(u, i) \/ BeginWait(u, i)
      PROVE  Timed /\ Stored /\ Working
  <2>1. Stored /\ clock' = clock
    BY <1>7 DEF BeginAcquire, BeginWait, Kept
  <2>2. /\ pc[u] = "idle" /\ sessions[i] # Absent /\ ~Expired(i)
        /\ target' = [target EXCEPT ![u] = i] /\ UNCHANGED <<sessions, clock>>
        /\ \A t \in Tasks \ {u} : pc'[t] = pc[t]
    BY <1>7 DEF BeginAcquire, BeginWait, Admitted, Acquire
  <2>3. FindsItYoung(u)
    BY <2>2 DEF FindsItYoung
  <2>4. \A t \in Tasks \ {u} : target'[t] = target[t]
    BY <2>2
  <2>5. Working
    BY <2>2, <2>3, <2>4 DEF GoesOn
  <2> QED
    BY <1>0, <1>c, <2>1, <2>5
<1>8. ASSUME NEW c \in Contents, NEW i \in SessionIds, WriteBack(i, c)
      PROVE  Stored
  <2>1. [content |-> c, updatedAt |-> clock] # Absent
    BY SentinelsAssumption DEF Session
  <2> QED
    BY <1>8, <2>1 DEF WriteBack, Kept, WrittenNow
<1>9. ASSUME NEW u \in Tasks, Leave(u) PROVE Working
  BY <1>9 DEF Leave, GoesOn
<1>10. ASSUME NEW u \in Tasks, NEW i \in SessionIds, NEW c \in Contents,
              BeginThrough(u, i, c)
       PROVE  Timed /\ Stored /\ Working
  <2>1. Working /\ clock' = clock
    BY <1>10 DEF BeginThrough, taskVars, GoesOn
  <2> QED
    BY <1>0, <1>c, <1>8, <1>10, <2>1 DEF BeginThrough
<1>11. ASSUME NEW u \in Tasks, NEW i \in SessionIds, WakeAcquire(u, i)
       PROVE  Timed /\ Stored /\ Working
  <2>1. Stored /\ clock' = clock
    BY <1>11 DEF WakeAcquire, Kept
  <2>2. Working
    BY <1>11 DEF WakeAcquire, Woken, Acquire, GoesOn
  <2> QED
    BY <1>0, <1>c, <2>1, <2>2
<1>12. ASSUME NEW u \in Tasks, NEW i \in SessionIds,
              WakeMissing(u, i) \/ Abort(u, i)
       PROVE  Timed /\ Stored /\ Working
  <2>1. Stored /\ clock' = clock /\ Leave(u)
    BY <1>12 DEF WakeMissing, Abort, Kept
  <2> QED
    BY <1>0, <1>c, <1>9, <2>1
<1>13. ASSUME NEW u \in Tasks, NEW i \in SessionIds, NEW c \in Contents,
              WakeThrough(u, i, c) \/ Commit(u, i, c)
       PROVE  Timed /\ Stored /\ Working
  <2>1. WriteBack(i, c) /\ Leave(u) /\ clock' = clock
    BY <1>13 DEF WakeThrough, Commit
  <2> QED
    BY <1>0, <1>c, <1>8, <1>9, <2>1
<1> HIDE DEF Timed, Stored, Working
<1> QED
  <2>1. Timed /\ Stored /\ Working
    BY <1>1, <1>2, <1>3, <1>4, <1>5, <1>6, <1>7, <1>10, <1>11, <1>12, <1>13
    DEF Next, Index, Begin, Wake, End
  <2> QED
    BY <2>1 DEF Timed, Stored, Working

(* The inductive invariant about ages.                                     *)
LEMMA AgeInvInductive ==
  ASSUME StoreInv, AgeInv, [AgeNext]_ageVars
  PROVE  AgeInv'
<1> USE DEF AgeInv
<1>1. CASE UNCHANGED ageVars
  BY <1>1 DEF ageVars, vars, lockVars, taskVars, YoungWhenLookedUp
<1>2. CASE AgeNext
  <2>1. /\ clock \in Nat /\ clock' \in Nat /\ clock <= clock'
        /\ \A s \in SessionIds : Kept(s) \/ WrittenNow(s)
        /\ \A t \in Tasks : pc'[t] # "idle" => GoesOn(t) \/ FindsItYoung(t)
    BY <1>2, AgesInAStep DEF AgeNext
  <2>2. \A t \in Tasks :
           since'[t] = IF pc[t] = "idle" \/ pc'[t] = "idle" THEN clock' ELSE since[t]
    BY <1>2 DEF AgeNext
  <2>3. since' \in [Tasks -> Nat] /\ \A t \in Tasks : since'[t] <= clock'
    <3>1. since' = [t \in Tasks |->
                      IF pc[t] = "idle" \/ pc'[t] = "idle" THEN clock' ELSE since[t]]
      BY <1>2 DEF AgeNext
    <3>2. \A t \in Tasks : since[t] \in Nat /\ since[t] <= clock
      OBVIOUS
    <3>3. \A t \in Tasks : since'[t] \in Nat /\ since'[t] <= clock'
      BY <2>1, <2>2, <3>2
    <3> QED
      BY <3>1, <3>3
  <2>4. ASSUME NEW t \in Tasks, pc'[t] # "idle", sessions'[target'[t]] # Absent
        PROVE  since'[t] <= sessions'[target'[t]].updatedAt + Ttl
    <3> DEFINE s == target'[t]
    <3>1. Ttl \in Nat /\ since[t] \in Nat /\ since[t] <= clock
      BY LimitsAssumption
    <3>2. CASE GoesOn(t)
      <4>1. /\ pc[t] # "idle" /\ target[t] = s /\ s \in SessionIds
            /\ since'[t] = since[t]
        BY <2>2, <2>4, <3>2 DEF GoesOn, StoreInv, TypeOK, TasksKnowTheirSession
      <4>2. CASE Kept(s)
        <5>1. sessions'[s] = sessions[s] /\ sessions[s] # Absent
          BY <2>4, <4>2 DEF Kept
        <5> QED
          BY <4>1, <5>1 DEF YoungWhenLookedUp
      <4>3. CASE WrittenNow(s)
        <5>1. sessions'[s].updatedAt = clock
          BY <4>3 DEF WrittenNow
        <5> QED
          BY <2>1, <3>1, <4>1, <5>1
      <4> QED
        BY <2>1, <4>1, <4>2, <4>3
    <3>3. CASE FindsItYoung(t)
      <4>1. /\ since'[t] = clock /\ s \in SessionIds /\ sessions[s] # Absent
            /\ sessions'[s] = sessions[s] /\ ~Expired(s)
        BY <2>2, <3>3 DEF FindsItYoung
      <4>2. sessions[s].updatedAt \in Nat
        BY <4>1, ClockAssumption DEF StoreInv, TypeOK, Session
      <4>3. ~(clock - sessions[s].updatedAt > Ttl)
        BY <4>1 DEF Expired
      <4> HIDE DEF s
      <4>4. clock <= sessions[s].updatedAt + Ttl
        BY <2>1, <3>1, <4>2, <4>3
      <4> QED
        BY <4>1, <4>4 DEF s
    <3> QED
      BY <2>1, <2>4, <3>2, <3>3
  <2> QED
    BY <2>3, <2>4 DEF YoungWhenLookedUp
<1> QED
  BY <1>1, <1>2

(* An expired session is used only in a step that ends the wait or the     *)
(* body of a request that was under way on it.                             *)
LEMMA ExpiredIsUsedFromWithin ==
  ASSUME StoreInv, [Next]_vars, NEW s \in ExpiredIds, Used(s)
  PROVE  \E t \in Tasks : pc[t] # "idle" /\ target[t] = s /\ pc'[t] # pc[t]
<1> USE DEF StoreInv, TypeOK
<1>0. s \in SessionIds /\ sessions[s] # Absent /\ Expired(s)
  BY DEF ExpiredIds, Expired
<1>1. CASE CreateRefused \/ Count \/ Tick \/ UNCHANGED vars
  BY <1>0, <1>1 DEF CreateRefused, Count, Tick, Forget, Without, vars, lockVars, Used
<1>2. ASSUME NEW i \in SessionIds, Get(i) \/ Delete(i) PROVE FALSE
  BY <1>0, <1>2 DEF Get, Delete, Forget, Without, lockVars, Used
<1>3. ASSUME NEW i \in SessionIds, NEW c \in NewContents, Create(i, c) PROVE FALSE
  <2>1. i # s
    BY <1>0, <1>3 DEF Create, StoredIdsIssued, Present
  <2> QED
    BY <1>0, <1>3, <2>1 DEF Create, Without, lockVars, Used
<1>4. ASSUME NEW t \in Tasks, NEW i \in SessionIds, Begin(t, i) PROVE FALSE
  <2>1. CASE BeginRefused(t, i)
    BY <1>0, <2>1 DEF BeginRefused, Forget, Without, lockVars, Used
  <2>2. CASE BeginWait(t, i)
    BY <2>2 DEF BeginWait, Used
  <2>3. CASE BeginAcquire(t, i) \/ \E c \in Contents : BeginThrough(t, i, c)
    <3>1. i # s
      BY <1>0, <2>3 DEF BeginAcquire, BeginThrough, Admitted
    <3> QED
      BY <1>0, <2>3, <3>1
      DEF BeginAcquire, Acquire, BeginThrough, WriteBack, lockVars, Used
  <2> QED
    BY <1>4, <2>1, <2>2, <2>3 DEF Begin
<1>5. ASSUME NEW t \in Tasks, NEW i \in SessionIds, Wake(t, i)
      PROVE  pc[t] # "idle" /\ target[t] = s /\ pc'[t] # pc[t]
  <2>1. pc[t] = "waiting" /\ target[t] = i /\ pc'[t] # "waiting"
    BY <1>5 DEF Wake, WakeAcquire, WakeMissing, WakeThrough, Woken, Acquire, Leave
  <2>2. i = s
    <3> SUFFICES ASSUME i # s PROVE FALSE
      OBVIOUS
    <3>1. holder'[s] = holder[s] /\ sessions'[s] = sessions[s]
      BY <1>0, <1>5 DEF Wake, WakeAcquire, WakeMissing, WakeThrough, Acquire, WriteBack
    <3> QED
      BY <3>1 DEF Used
  <2> QED
    BY <2>1, <2>2
<1>6. ASSUME NEW t \in Tasks, NEW i \in SessionIds, End(t, i)
      PROVE  pc[t] # "idle" /\ target[t] = s /\ pc'[t] # pc[t]
  <2>1. pc[t] = "inside" /\ target[t] = i /\ pc'[t] # "inside"
    BY <1>6 DEF End, Abort, Commit, Leave
  <2>2. i = s
    <3> SUFFICES ASSUME i # s PROVE FALSE
      OBVIOUS
    <3>1. holder'[s] = holder[s] /\ sessions'[s] = sessions[s]
      BY <1>0, <1>6 DEF End, Abort, Commit, WriteBack
    <3> QED
      BY <3>1 DEF Used
  <2> QED
    BY <2>1, <2>2
<1> QED
  BY <1>1, <1>2, <1>3, <1>4, <1>5, <1>6 DEF Next, Index, Used

(* No request that comes after a session has expired ever gets hold of it, *)
(* for any number of requests, sessions, removals and write-backs.         *)
THEOREM StoreExpiredServesEarlierOnly == AgeSpec => ExpiredServesEarlierOnly
<1> DEFINE Earlier(s) ==
             Used(s) => \E t \in Tasks :
                           /\ target[t] = s /\ pc'[t] # pc[t]
                           /\ since[t] <= sessions[s].updatedAt + Ttl
<1>1. AgeInit => StoreInv /\ AgeInv
  <2> SUFFICES ASSUME AgeInit PROVE StoreInv /\ AgeInv
    OBVIOUS
  <2>1. StoreInv
    BY StoreInvInit DEF AgeInit
  <2>2. AgeInv
    BY ClockAssumption DEF AgeInit, Init, AgeInv, YoungWhenLookedUp
  <2> QED
    BY <2>1, <2>2
<1>2. [AgeNext]_ageVars => [Next]_vars
  BY DEF AgeNext, ageVars
<1>3. StoreInv /\ AgeInv /\ [AgeNext]_ageVars => (StoreInv /\ AgeInv)'
  BY <1>2, StoreInvInductive, AgeInvInductive
<1>4. StoreInv /\ AgeInv /\ [AgeNext]_ageVars => \A s \in ExpiredIds : Earlier(s)
  <2> SUFFICES ASSUME StoreInv, AgeInv, [Next]_vars, NEW s \in ExpiredIds, Used(s)
               PROVE  \E t \in Tasks :
                         /\ target[t] = s /\ pc'[t] # pc[t]
                         /\ since[t] <= sessions[s].updatedAt + Ttl
    BY <1>2
  <2>1. PICK t \in Tasks : pc[t] # "idle" /\ target[t] = s /\ pc'[t] # pc[t]
    BY ExpiredIsUsedFromWithin
  <2>2. sessions[s] # Absent
    BY DEF ExpiredIds, Expired
  <2> QED
    BY <2>1, <2>2 DEF AgeInv, YoungWhenLookedUp
<1> QED
  BY <1>1, <1>3, <1>4, PTL DEF AgeSpec, ExpiredServesEarlierOnly

-----------------------------------------------------------------------------
(* Refinement.                                                             *)

(* The store implements the atomic map: every committed transaction is one *)
(* atomic step computed from the content it replaces, unless the entry was *)
(* removed while the transaction ran.                                      *)
THEOREM StoreImplementsAtomicStore == Spec => ImplementsAtomicStore
<1>1. Init => Atomic!Init
  BY DEF Init, Atomic!Init, StoredContent
<1>2. StoreInv /\ [Next]_vars => [Atomic!Next]_(Atomic!vars)
  <2> SUFFICES ASSUME StoreInv, [Next]_vars
               PROVE  Atomic!Next \/ UNCHANGED Atomic!vars
    OBVIOUS
  <2> USE DEF StoreInv, TypeOK, Atomic!vars
  <2>1. ASSUME NEW ids \in SUBSET SessionIds, Forget(ids), UNCHANGED issued
        PROVE  Atomic!Remove
    <3>1. StoredContent' = Atomic!Survivors(ids)
      BY <2>1 DEF Forget, Without, StoredContent, Atomic!Survivors
    <3> QED
      BY <2>1, <3>1 DEF Atomic!Remove
  <2>0. ASSUME NEW s \in SessionIds, NEW c \in Contents, WriteBack(s, c)
        PROVE  StoredContent' = [StoredContent EXCEPT ![s] = c]
    <3>1. [content |-> c, updatedAt |-> clock] # Absent
      BY SentinelsAssumption DEF Session
    <3> QED
      BY <2>0, <3>1 DEF WriteBack, StoredContent
  <2>2. CASE CreateRefused \/ Count
    BY <2>1, <2>2 DEF CreateRefused, Count, ExpiredIds, Atomic!Next
  <2>3. CASE Tick \/ UNCHANGED vars
    BY <2>3 DEF Tick, vars, StoredContent
  <2>4. ASSUME NEW s \in SessionIds, Get(s) \/ Delete(s) PROVE Atomic!Next
    BY <2>1, <2>4 DEF Get, Delete, Atomic!Next
  <2>5. ASSUME NEW s \in SessionIds, NEW c \in NewContents, Create(s, c)
        PROVE  Atomic!Next
    <3>1. StoredContent' = [Atomic!Survivors(ExpiredIds) EXCEPT ![s] = c]
      <4>1. [content |-> c, updatedAt |-> clock] # Absent
        BY SentinelsAssumption, NewContentsAssumption DEF Session
      <4> QED
        BY <2>5, <4>1 DEF Create, Without, StoredContent, Atomic!Survivors
    <3>2. ExpiredIds \in SUBSET SessionIds
      BY DEF ExpiredIds
    <3>3. Atomic!Create(s)
      BY <2>5, <3>1, <3>2 DEF Create, Atomic!Create
    <3> QED
      BY <3>3 DEF Atomic!Next
  <2>6. ASSUME NEW t \in Tasks, NEW s \in SessionIds, BeginRefused(t, s)
        PROVE  Atomic!Next
    BY <2>1, <2>6 DEF BeginRefused, Atomic!Next
  <2>7. ASSUME NEW t \in Tasks, NEW s \in SessionIds,
               \/ BeginAcquire(t, s) \/ BeginWait(t, s)
               \/ WakeAcquire(t, s) \/ WakeMissing(t, s) \/ Abort(t, s)
        PROVE  UNCHANGED Atomic!vars
    BY <2>7 DEF BeginAcquire, BeginWait, WakeAcquire, WakeMissing, Abort,
       StoredContent
  <2>8. ASSUME NEW t \in Tasks, NEW s \in SessionIds, NEW c \in Contents,
               Commit(t, s, c)
        PROVE  Atomic!Next
    <3>1. StoredContent' = [StoredContent EXCEPT ![s] = c]
      BY <2>0, <2>8 DEF Commit
    <3>2. working[t] \in Contents /\ <<working[t], c>> \in Step
      BY <2>8 DEF Makes, Commit, TasksKnowTheirSession
    <3>3. CASE sessions[s] = Absent
      <4>1. s \in issued /\ StoredContent[s] = Absent /\ UNCHANGED issued
        BY <2>8, <3>3 DEF WriteBack, Commit, TasksKnowTheirSession, StoredContent
      <4>2. Atomic!Reinstate(s)
        BY <3>1, <3>2, <4>1 DEF Atomic!Reinstate
      <4> QED
        BY <4>2 DEF Atomic!Next
    <3>4. CASE sessions[s] # Absent
      <4>1. StoredContent[s] = working[t] /\ UNCHANGED issued
        BY <2>8, <3>4 DEF WriteBack, Commit, WorkingCopyCurrent, StoredContent
      <4>2. Atomic!Update(s)
        BY <3>1, <3>2, <4>1, SentinelsAssumption DEF Atomic!Update
      <4> QED
        BY <4>2 DEF Atomic!Next
    <3> QED
      BY <3>3, <3>4
  <2>9. ASSUME NEW t \in Tasks, NEW s \in SessionIds, NEW c \in Contents,
               BeginThrough(t, s, c) \/ WakeThrough(t, s, c)
        PROVE  Atomic!Next
    <3>1. StoredContent' = [StoredContent EXCEPT ![s] = c]
      BY <2>0, <2>9 DEF BeginThrough, WakeThrough
    <3>2. /\ StoredContent[s] = sessions[s].content /\ UNCHANGED issued
          /\ StoredContent[s] \in Contents
          /\ <<StoredContent[s], c>> \in Step
      BY <2>9 DEF Makes, BeginThrough, Admitted, WakeThrough, StoredContent,
         Session
    <3>3. Atomic!Update(s)
      BY <3>1, <3>2, SentinelsAssumption DEF Atomic!Update
    <3> QED
      BY <3>3 DEF Atomic!Next
  <2> QED
    BY <2>2, <2>3, <2>4, <2>5, <2>6, <2>7, <2>8, <2>9
    DEF Next, Index, Begin, Wake, End
<1> QED
  BY <1>1, <1>2, StoreInvCorrect, PTL
  DEF Spec, ImplementsAtomicStore, Atomic!Spec

=============================================================================
