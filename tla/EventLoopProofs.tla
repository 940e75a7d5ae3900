-------------------------- MODULE EventLoopProofs ---------------------------
(* Proofs about EventLoop, for any number of threads: at most one thread   *)
(* is in possession of the events lock, each thread that changes the       *)
(* descriptors has one unit of pollfd_modify, and each that has written    *)
(* has one byte in the control pipe.                                       *)
EXTENDS EventLoop, FiniteSetTheorems, TLAPS

Holding == {"setactive", "fds", "poll", "handle", "signal", "clearactive", "unlock",
            "read", "change", "unmodify"}
Modifying == {"modify", "write", "giveup", "lock", "read", "change", "unmodify"}

\* The threads that have raised pollfd_modify, and those with a byte in the pipe.
Raised == {t \in Threads : op[t] # "none" /\ pc[t] # "modify"}
Written == {t \in Threads : op[t] # "none" /\ pc[t] \in {"lock", "setactive", "read"}}

Types ==
  /\ pc \in [Threads -> Labels]
  /\ op \in [Threads -> {"none", "open", "close"}]
  /\ xfer \in [Threads -> {"none", "flying", "ready", "done"}]
  /\ fds \in SUBSET Users
  /\ polled \in [Threads -> SUBSET Users] /\ revents \in [Threads -> SUBSET Users]
  /\ events_lock \in Threads \cup {None}
  /\ event_handler_active \in BOOLEAN

LockHeld == \A t \in Threads : pc[t] \in Holding <=> events_lock = t
OpKnown ==
  \A t \in Threads : /\ pc[t] \in Modifying => op[t] # "none"
                     /\ op[t] # "none" => pc[t] \in Modifying \cup {"setactive"}
Counted == pollfd_modify = Cardinality(Raised) /\ pipe = Cardinality(Written)

LoopInv == Types /\ LockHeld /\ OpKnown /\ Counted

USE EventLoopAssumption

LEMMA TypesStep == ASSUME Types, LockHeld, [Next]_vars PROVE Types'
<1> USE DEF Types, Labels, Goto, At, context, local, Readable
<1>1. CASE UNCHANGED vars
  BY <1>1 DEF vars, state
<1>2. ASSUME NEW t \in Threads, Changing(t) PROVE Types'
  BY <1>2 DEF Changing, Modify, WritePipe, WriteFails, GiveUp, ReadPipe, Change, Unmodify
<1>3. ASSUME NEW t \in Threads, Handling(t) PROVE Types'
  <2>1. CASE PollReturns(t)
    <3>1. Readable(t) \in SUBSET Users
      OBVIOUS
    <3> QED
      BY <2>1, <3>1 DEF PollReturns
  <2>2. ASSUME NEW d \in Users, Handle(t, d) PROVE Types'
    BY <2>2 DEF Handle, Threads
  <2>3. CASE PollBegins(t)
    BY <2>3 DEF PollBegins
  <2> QED
    BY <1>3, <2>1, <2>2, <2>3 DEF Handling, CheckAgain, Return, TryLockEvents, TryLock, SetActive,
       Handled, ClearActive, Unlock, TestModify, TestActive, WaitTimesOut
<1>4. ASSUME NEW t \in Threads, Locking(t) PROVE Types'
  BY <1>4 DEF Locking, LockEvents, LockWaiters, Broadcast, Wake
<1>5. ASSUME NEW t \in Threads, Submit(t) \/ HandleEvents(t) \/ Open(t) \/ Close(t) \/ Ready(t)
      PROVE Types'
  BY <1>5 DEF Submit, HandleEvents, Open, Close, Ready
<1> QED
  BY <1>1, <1>2, <1>3, <1>4, <1>5 DEF Next

LEMMA LockStep == ASSUME Types, LockHeld, OpKnown, [Next]_vars PROVE LockHeld'
<1> USE DEF Types, Labels, Goto, At, context, local, LockHeld, Holding
<1>1. CASE UNCHANGED vars
  BY <1>1 DEF vars, state
<1>2. ASSUME NEW t \in Threads, Changing(t) PROVE LockHeld'
  BY <1>2 DEF Changing, Modify, WritePipe, WriteFails, GiveUp, ReadPipe, Change, Unmodify
<1>3. ASSUME NEW t \in Threads, Handling(t) PROVE LockHeld'
  BY <1>3 DEF Handling, CheckAgain, Return, TryLockEvents, TryLock, SetActive, PollBegins,
     PollReturns, Handle, Handled, ClearActive, Unlock, TestModify, TestActive, WaitTimesOut
<1>4. ASSUME NEW t \in Threads, Locking(t) PROVE LockHeld'
  BY <1>4 DEF Locking, LockEvents, LockWaiters, Broadcast, Wake
<1>5. ASSUME NEW t \in Threads, Submit(t) \/ HandleEvents(t) \/ Open(t) \/ Close(t) \/ Ready(t)
      PROVE LockHeld'
  BY <1>5 DEF Submit, HandleEvents, Open, Close, Ready
<1> QED
  BY <1>1, <1>2, <1>3, <1>4, <1>5 DEF Next

LEMMA OpStep == ASSUME Types, OpKnown, [Next]_vars PROVE OpKnown'
<1> USE DEF Types, Labels, Goto, At, context, local, OpKnown, Modifying
<1>1. CASE UNCHANGED vars
  BY <1>1 DEF vars, state
<1>2. ASSUME NEW t \in Threads, Changing(t) PROVE OpKnown'
  BY <1>2 DEF Changing, Modify, WritePipe, WriteFails, GiveUp, ReadPipe, Change, Unmodify
<1>3. ASSUME NEW t \in Threads, Handling(t) PROVE OpKnown'
  BY <1>3 DEF Handling, CheckAgain, Return, TryLockEvents, TryLock, SetActive, PollBegins,
     PollReturns, Handle, Handled, ClearActive, Unlock, TestModify, TestActive, WaitTimesOut
<1>4. ASSUME NEW t \in Threads, Locking(t) PROVE OpKnown'
  BY <1>4 DEF Locking, LockEvents, LockWaiters, Broadcast, Wake
<1>5. ASSUME NEW t \in Threads, Submit(t) \/ HandleEvents(t) \/ Open(t) \/ Close(t) \/ Ready(t)
      PROVE OpKnown'
  BY <1>5 DEF Submit, HandleEvents, Open, Close, Ready
<1> QED
  BY <1>1, <1>2, <1>3, <1>4, <1>5 DEF Next

(* Raised and Written change by the thread that moves, if at all.          *)
LEMMA Subsets == IsFiniteSet(Raised) /\ IsFiniteSet(Written)
  BY FS_Subset DEF Raised, Written, Threads, EventLoopAssumption

LEMMA Plus ==
  ASSUME NEW S, IsFiniteSet(S), NEW x, x \notin S
  PROVE  Cardinality(S \cup {x}) = Cardinality(S) + 1
  BY FS_AddElement

LEMMA Minus ==
  ASSUME NEW S, IsFiniteSet(S), NEW x \in S
  PROVE  Cardinality(S \ {x}) = Cardinality(S) - 1
  BY FS_RemoveElement

LEMMA CountStep == ASSUME Types, OpKnown, Counted, [Next]_vars PROVE Counted'
<1> USE DEF Types, Labels, Goto, At, context, local, OpKnown, Modifying
<1>0. /\ pollfd_modify = Cardinality(Raised) /\ pipe = Cardinality(Written)
      /\ IsFiniteSet(Raised) /\ IsFiniteSet(Written)
  BY Subsets DEF Counted
<1>same. ASSUME Raised' = Raised, Written' = Written, UNCHANGED <<pollfd_modify, pipe>> PROVE Counted'
  BY <1>0, <1>same DEF Raised, Written, Counted
<1>1. CASE UNCHANGED vars
  <2>1. Raised' = Raised /\ Written' = Written
    BY <1>1 DEF Raised, Written, vars, state
  <2> QED
    BY <1>1, <1>same, <2>1 DEF vars, state
<1>2. ASSUME NEW t \in Threads, Changing(t) PROVE Counted'
  <2>1. CASE Modify(t)
    <3>1. Raised' = Raised \cup {t} /\ t \notin Raised /\ Written' = Written
      BY <2>1 DEF Raised, Written, Modify
    <3> QED
      BY <2>1, <1>0, <3>1, Plus DEF Modify, Counted
  <2>2. CASE WritePipe(t)
    <3>1. Raised' = Raised /\ Written' = Written \cup {t} /\ t \notin Written
      BY <2>2 DEF Raised, Written, WritePipe
    <3> QED
      BY <2>2, <1>0, <3>1, Plus DEF WritePipe, Counted
  <2>3. CASE WriteFails(t)
    <3>1. Raised' = Raised /\ Written' = Written
      BY <2>3 DEF Raised, Written, WriteFails
    <3> QED
      BY <2>3, <1>same, <3>1 DEF WriteFails
  <2>4. CASE GiveUp(t)
    <3>1. Raised' = Raised \ {t} /\ t \in Raised /\ Written' = Written
      BY <2>4 DEF Raised, Written, GiveUp
    <3> QED
      BY <2>4, <1>0, <3>1, Minus DEF GiveUp, Counted
  <2>5. CASE ReadPipe(t)
    <3>1. Raised' = Raised /\ Written' = Written \ {t} /\ t \in Written
      BY <2>5 DEF Raised, Written, ReadPipe
    <3> QED
      BY <2>5, <1>0, <3>1, Minus DEF ReadPipe, Counted
  <2>6. CASE Change(t)
    <3>1. Raised' = Raised /\ Written' = Written
      BY <2>6 DEF Raised, Written, Change
    <3> QED
      BY <2>6, <1>same, <3>1 DEF Change
  <2>7. CASE Unmodify(t)
    <3>1. Raised' = Raised \ {t} /\ t \in Raised /\ Written' = Written
      BY <2>7 DEF Raised, Written, Unmodify
    <3> QED
      BY <2>7, <1>0, <3>1, Minus DEF Unmodify, Counted
  <2> QED
    BY <1>2, <2>1, <2>2, <2>3, <2>4, <2>5, <2>6, <2>7 DEF Changing
<1>3. ASSUME NEW t \in Threads, Handling(t) PROVE Counted'
  <2>1. Raised' = Raised /\ Written' = Written
    BY <1>3 DEF Raised, Written, Handling, CheckAgain, Return, TryLockEvents, TryLock, SetActive, PollBegins,
       PollReturns, Handle, Handled, ClearActive, Unlock, TestModify, TestActive, WaitTimesOut
  <2>2. UNCHANGED <<pollfd_modify, pipe>>
    BY <1>3 DEF Handling, CheckAgain, Return, TryLockEvents, TryLock, SetActive, PollBegins,
       PollReturns, Handle, Handled, ClearActive, Unlock, TestModify, TestActive, WaitTimesOut
  <2> QED
    BY <1>same, <2>1, <2>2
<1>4. ASSUME NEW t \in Threads, Locking(t) PROVE Counted'
  <2>1. Raised' = Raised /\ Written' = Written
    BY <1>4 DEF Raised, Written, Locking, LockEvents, LockWaiters, Broadcast, Wake
  <2> QED
    BY <1>4, <1>same, <2>1 DEF Locking, LockEvents, LockWaiters, Broadcast, Wake
<1>5. ASSUME NEW t \in Threads, Submit(t) \/ HandleEvents(t) \/ Open(t) \/ Close(t) \/ Ready(t)
      PROVE Counted'
  <2>1. Raised' = Raised /\ Written' = Written
    BY <1>5 DEF Raised, Written, Submit, HandleEvents, Open, Close, Ready
  <2> QED
    BY <1>5, <1>same, <2>1 DEF Submit, HandleEvents, Open, Close, Ready
<1> QED
  BY <1>1, <1>2, <1>3, <1>4, <1>5 DEF Next
-----------------------------------------------------------------------------
(* What a step may do to the descriptors a thread polls: that needs the    *)
(* events lock, unless the write to the control pipe failed.               *)
NoGivingUp == \A t \in Threads : pc[t] # "giveup"
Followed == NoGivingUp /\ PollsOpen /\ SeesOpened

LEMMA FollowedStep ==
  ASSUME reliable, Types, LockHeld, OpKnown, Followed, [Next]_vars PROVE Followed'
<1> USE DEF Types, Labels, Goto, At, context, local, LockHeld, Holding, OpKnown, Modifying,
            Followed, NoGivingUp, PollsOpen, SeesOpened, Polling
<1>1. CASE UNCHANGED vars
  BY <1>1 DEF vars, state
<1>2. ASSUME NEW t \in Threads, Changing(t) PROVE Followed'
  BY <1>2 DEF Changing, Modify, WritePipe, WriteFails, GiveUp, ReadPipe, Change, Unmodify
<1>3. ASSUME NEW t \in Threads, Handling(t) PROVE Followed'
  BY <1>3 DEF Handling, CheckAgain, Return, TryLockEvents, TryLock, SetActive, PollBegins,
     PollReturns, Handle, Handled, ClearActive, Unlock, TestModify, TestActive, WaitTimesOut
<1>4. ASSUME NEW t \in Threads, Locking(t) PROVE Followed'
  BY <1>4 DEF Locking, LockEvents, LockWaiters, Broadcast, Wake
<1>5. ASSUME NEW t \in Threads, Submit(t) \/ HandleEvents(t) \/ Open(t) \/ Close(t) \/ Ready(t)
      PROVE Followed'
  <2>1. CASE Open(t)
    BY <2>1 DEF Open
  <2>2. CASE Close(t)
    BY <2>2 DEF Close
  <2> QED
    BY <1>5, <2>1, <2>2 DEF Submit, HandleEvents, Ready
<1> QED
  BY <1>1, <1>2, <1>3, <1>4, <1>5 DEF Next
-----------------------------------------------------------------------------
LEMMA InitHolds == ASSUME Init PROVE LoopInv /\ Followed
<1> USE DEF Init, Labels
<1>1. Types /\ LockHeld /\ OpKnown
  BY DEF Types, LockHeld, Holding, OpKnown, Modifying, EventLoopAssumption
<1>2. Raised = {} /\ Written = {}
  BY DEF Raised, Written
<1>3. Counted
  BY <1>2, FS_EmptySet DEF Counted
<1>4. Followed
  BY DEF Followed, NoGivingUp, PollsOpen, SeesOpened, Polling
<1> QED
  BY <1>1, <1>3, <1>4 DEF LoopInv

LEMMA LoopInvHolds == Spec => []LoopInv
<1>1. ASSUME LoopInv, [Next]_vars PROVE LoopInv'
  BY <1>1, TypesStep, LockStep, OpStep, CountStep DEF LoopInv
<1> QED
  BY InitHolds, <1>1, PTL DEF Spec

(* Type correctness: each thread holds at most one unit of pollfd_modify   *)
(* and one byte of the control pipe.                                       *)
THEOREM EventTypeCorrect == Spec => []TypeOK
<1>1. LoopInv => TypeOK
  <2> SUFFICES ASSUME LoopInv PROVE TypeOK
    OBVIOUS
  <2>1. Cardinality(Raised) \in 0 .. Cardinality(Threads)
    BY Subsets, FS_Subset, FS_CardinalityType DEF Raised, Threads, EventLoopAssumption
  <2>2. Cardinality(Written) \in 0 .. Cardinality(Threads)
    BY Subsets, FS_Subset, FS_CardinalityType DEF Written, Threads, EventLoopAssumption
  <2> QED
    BY <2>1, <2>2 DEF LoopInv, Types, Counted, TypeOK
<1> QED
  BY LoopInvHolds, <1>1, PTL

(* A thread that opened or closed a device finds a byte in the pipe when   *)
(* it reads, whoever's byte it is and even if other writes fail.           *)
THEOREM ReadsItsByte == Spec => []PipeHasByte
<1>1. LoopInv => PipeHasByte
  <2> SUFFICES ASSUME LoopInv, NEW t \in Threads, pc[t] = "read" PROVE pipe > 0
    BY DEF PipeHasByte
  <2>1. t \in Written
    BY DEF LoopInv, OpKnown, Modifying, Written
  <2>2. Cardinality(Written) \in Nat /\ Cardinality(Written) # 0
    BY <2>1, Subsets, FS_CardinalityType, FS_EmptySet
  <2> QED
    BY <2>2 DEF LoopInv, Counted
<1> QED
  BY LoopInvHolds, <1>1, PTL

LEMMA ReliableHolds == Spec => [](reliable => Followed)
<1>1. [Next]_vars => reliable' = reliable
  BY DEF Next, vars
<1>2. LoopInv /\ (reliable => Followed) /\ [Next]_vars => (reliable => Followed)'
  BY <1>1, FollowedStep DEF LoopInv
<1>3. Init => (reliable => Followed)
  BY InitHolds
<1> QED
  BY <1>2, <1>3, LoopInvHolds, PTL DEF Spec

(* If the control pipe can always be written to, nobody polls or handles a *)
(* descriptor that was closed, or goes on polling without one that was     *)
(* opened.                                                                 *)
THEOREM DescriptorsFollowed == Spec => [](PollsOpen /\ SeesOpened)
<1>1. (reliable => Followed) => PollsOpen /\ SeesOpened
  BY DEF Followed, PollsOpen, SeesOpened
<1> QED
  BY ReliableHolds, <1>1, PTL
-----------------------------------------------------------------------------
ActiveAt == {"fds", "poll", "handle", "signal", "clearactive", "read", "change", "unmodify"}
ActiveKnown == event_handler_active => \E t \in Threads : pc[t] \in ActiveAt

LEMMA ActiveStep ==
  ASSUME Types, LockHeld, OpKnown, ActiveKnown, [Next]_vars PROVE ActiveKnown'
<1> USE DEF Types, Labels, Goto, At, context, local, LockHeld, Holding, OpKnown, Modifying,
            ActiveKnown, ActiveAt
<1>1. CASE UNCHANGED vars
  BY <1>1 DEF vars, state
<1>2. ASSUME NEW t \in Threads, Changing(t) PROVE ActiveKnown'
  BY <1>2 DEF Changing, Modify, WritePipe, WriteFails, GiveUp, ReadPipe, Change, Unmodify
<1>3. ASSUME NEW t \in Threads, Handling(t) PROVE ActiveKnown'
  <2>1. CASE CheckAgain(t) \/ Return(t) \/ TryLockEvents(t) \/ TryLock(t) \/ SetActive(t)
    BY <2>1 DEF CheckAgain, Return, TryLockEvents, TryLock, SetActive
  <2>2. CASE PollBegins(t) \/ PollReturns(t) \/ (\E d \in Users : Handle(t, d)) \/ Handled(t)
    BY <2>2 DEF PollBegins, PollReturns, Handle, Handled
  <2>3. CASE ClearActive(t) \/ Unlock(t) \/ TestModify(t) \/ TestActive(t) \/ WaitTimesOut(t)
    BY <2>3 DEF ClearActive, Unlock, TestModify, TestActive, WaitTimesOut
  <2> QED
    BY <1>3, <2>1, <2>2, <2>3 DEF Handling
<1>4. ASSUME NEW t \in Threads, Locking(t) PROVE ActiveKnown'
  <2>1. CASE Broadcast(t)
    <3> SUFFICES ASSUME event_handler_active, NEW u \in Threads, pc[u] \in ActiveAt
                 PROVE  pc'[u] \in ActiveAt
      BY <2>1 DEF Broadcast
    <3> QED
      BY <2>1 DEF Broadcast
  <2> QED
    BY <1>4, <2>1 DEF Locking, LockEvents, LockWaiters, Wake
<1>5. ASSUME NEW t \in Threads, Submit(t) \/ HandleEvents(t) \/ Open(t) \/ Close(t) \/ Ready(t)
      PROVE ActiveKnown'
  BY <1>5 DEF Submit, HandleEvents, Open, Close, Ready
<1> QED
  BY <1>1, <1>2, <1>3, <1>4, <1>5 DEF Next

LEMMA AwakeStep ==
  ASSUME reliable, NoGivingUp, LoopInv, ActiveKnown, SomebodyAwake, [Next]_vars PROVE SomebodyAwake'
<1> USE DEF Types, Labels, Goto, At, context, local, SomebodyAwake, Polling
<1>0. Types /\ OpKnown /\ reliable
  BY DEF LoopInv
<1>1. CASE UNCHANGED vars
  BY <1>1 DEF vars, state
<1>2. ASSUME NEW t \in Threads, Changing(t) PROVE SomebodyAwake'
  BY <1>0, <1>2 DEF NoGivingUp, OpKnown, Modifying,
     Changing, Modify, WritePipe, WriteFails, GiveUp, ReadPipe, Change, Unmodify
<1>3. ASSUME NEW t \in Threads, Handling(t) PROVE SomebodyAwake'
  <2>1. CASE TestModify(t)
    <3>1. pollfd_modify # 0 => \E u \in Threads : op[u] # "none"
      <4> SUFFICES ASSUME pollfd_modify # 0, Raised = {} PROVE FALSE
        BY DEF Raised
      <4> QED
        BY FS_EmptySet DEF LoopInv, Counted
    <3> QED
      BY <1>0, <2>1, <3>1 DEF TestModify
  <2>2. CASE TestActive(t)
    BY <1>0, <2>2 DEF TestActive, ActiveKnown, ActiveAt, OpKnown, Modifying
  <2> QED
    BY <1>0, <1>3, <2>1, <2>2 DEF Handling, CheckAgain, Return, TryLockEvents, TryLock, SetActive,
       PollBegins, PollReturns, Handle, Handled, ClearActive, Unlock, WaitTimesOut
<1>4. ASSUME NEW t \in Threads, Locking(t) PROVE SomebodyAwake'
  <2>1. CASE Broadcast(t)
    <3>1. \A u \in Threads : pc'[u] # "sleep"
      BY <1>0, <2>1 DEF Broadcast
    <3> QED
      BY <3>1
  <2> QED
    BY <1>0, <1>4, <2>1 DEF Locking, LockEvents, LockWaiters, Wake
<1>5. ASSUME NEW t \in Threads, Submit(t) \/ HandleEvents(t) \/ Open(t) \/ Close(t) \/ Ready(t)
      PROVE SomebodyAwake'
  BY <1>0, <1>5 DEF Submit, HandleEvents, Open, Close, Ready
<1> QED
  BY <1>1, <1>2, <1>3, <1>4, <1>5 DEF Next

(* If the control pipe can always be written to, no thread sleeps on the   *)
(* condition variable unless another one is about to wake it.              *)
THEOREM WaitersAreNotAlone == Spec => []SomebodyAwake
<1>1. Init => ActiveKnown /\ SomebodyAwake
  BY DEF Init, ActiveKnown, SomebodyAwake
<1>2. LoopInv /\ (reliable => Followed) /\ ActiveKnown /\ SomebodyAwake /\ [Next]_vars
        => (ActiveKnown /\ SomebodyAwake)'
  <2> SUFFICES ASSUME LoopInv, reliable => Followed, ActiveKnown, SomebodyAwake,
                      [Next]_vars
               PROVE  ActiveKnown' /\ SomebodyAwake'
    OBVIOUS
  <2>1. ActiveKnown'
    BY ActiveStep DEF LoopInv
  <2>2. CASE reliable
    BY <2>1, <2>2, AwakeStep DEF Followed
  <2>3. CASE ~reliable
    <3>1. reliable' = reliable
      BY DEF Next, vars
    <3> QED
      BY <2>1, <2>3, <3>1 DEF SomebodyAwake
  <2> QED
    BY <2>1, <2>2, <2>3
<1> QED
  BY LoopInvHolds, ReliableHolds, <1>1, <1>2, PTL DEF Spec
=============================================================================
