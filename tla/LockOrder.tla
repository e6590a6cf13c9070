------------------------------- MODULE LockOrder -------------------------------
(***************************************************************************)
(* Critical sections and the early detection of deadlocks                  *)
(* (utility/include/sync.h, utility/src/sync.cpp, with CHECK_LOCKORDER as  *)
(* configure.ac defines it): the order in which two locks are taken is     *)
(* recorded before the thread waits for the second, and the program stops  *)
(* at the first pair that has been taken in both orders.                   *)
(***************************************************************************)
EXTENDS Naturals, Sequences, FiniteSets

CONSTANTS LockThreads,
          CriticalSections,
          MaxDepth,  \* bound of a thread's lock stack
          NoThread, NoLock

ASSUME LockAssumption ==
  NoThread \notin LockThreads /\ NoLock \notin CriticalSections /\ MaxDepth \in Nat

VARIABLES
  stack,     \* g_lock_stack of each thread: the locks entered, in order
  wanted,    \* the lock a thread waits for
  leaving,   \* the lock a thread has taken off its stack and not unlocked yet
  owner,     \* of each recursive_mutex, the thread that owns it
  orders,    \* lock_orders_: pairs of locks, the first held when the second was entered
  alarm      \* potential_deadlock_detected: assert(false), the process is gone

lockState == <<stack, wanted, leaving, owner, orders, alarm>>

Waits(t) == wanted[t] # NoLock
Leaves(t) == leaving[t] # NoLock
Top(s) == s[Len(s)]
Positions(s, c) == {i \in DOMAIN s : s[i] = c}

-----------------------------------------------------------------------------

\* The locks of a stack below the first entry of c.
Before(s, c) == {s[i] : i \in {j \in DOMAIN s : \A k \in 1..j : s[k] # c}}

\* PushLock puts c on the stack, records its order and compares.
PushLock_AfterLocking(t, c) ==
  /\ stack' = [stack EXCEPT ![t] = Append(@, c)]
  /\ UNCHANGED <<orders, alarm>>

PushLock(t, c) ==
  LET new == Before(stack[t], c) \X {c}
  IN /\ stack' = [stack EXCEPT ![t] = Append(@, c)]
     /\ orders' = orders \cup new
     /\ alarm' = \E p \in new : <<p[2], p[1]>> \in orders

\* LOCK(cs): Enter calls EnterCritical, then lock.lock().
Enter(t, c) ==
  /\ ~Waits(t) /\ ~Leaves(t)
  /\ Len(stack[t]) < MaxDepth
  /\ PushLock(t, c)
  /\ wanted' = [wanted EXCEPT ![t] = c]
  /\ UNCHANGED <<leaving, owner>>

\* A recursive mutex is free for the thread that owns it.
Free(t, c) == owner[c] \in {NoThread, t}

Acquire(t) ==
  /\ Waits(t)
  /\ Free(t, wanted[t])
  /\ owner' = [owner EXCEPT ![wanted[t]] = t]
  /\ wanted' = [wanted EXCEPT ![t] = NoLock]
  /\ UNCHANGED <<stack, leaving, orders, alarm>>

\* TRY_LOCK(cs): the order is recorded as for LOCK; a lock that is not obtained is popped
\* again.
TryEnter(t, c) ==
  /\ ~Waits(t) /\ ~Leaves(t)
  /\ Len(stack[t]) < MaxDepth
  /\ PushLock(t, c)
  /\ Free(t, c)
  /\ owner' = [owner EXCEPT ![c] = t]
  /\ UNCHANGED <<wanted, leaving>>

TryFails(t, c) ==
  LET new == Before(stack[t], c) \X {c}
  IN /\ ~Waits(t) /\ ~Leaves(t)
     /\ Len(stack[t]) < MaxDepth
     /\ ~Free(t, c)
     /\ orders' = orders \cup new
     /\ alarm' = \E p \in new : <<p[2], p[1]>> \in orders
     /\ UNCHANGED <<stack, wanted, leaving, owner>>

\* The end of the scope of the lock entered last: ~MutexLock takes it off the stack, then
\* its member unlocks the mutex, which is free once it was unlocked as often as locked.
LeaveCritical(t) ==
  /\ ~Waits(t) /\ ~Leaves(t)
  /\ stack[t] # <<>>
  /\ leaving' = [leaving EXCEPT ![t] = Top(stack[t])]
  /\ stack' = [stack EXCEPT ![t] = SubSeq(@, 1, Len(@) - 1)]
  /\ UNCHANGED <<wanted, owner, orders, alarm>>

Unlock(t) ==
  /\ Leaves(t)
  /\ owner' = IF Positions(stack[t], leaving[t]) = {} THEN [owner EXCEPT ![leaving[t]] = NoThread] ELSE owner
  /\ leaving' = [leaving EXCEPT ![t] = NoLock]
  /\ UNCHANGED <<stack, wanted, orders, alarm>>

OrdersOf(c) == {p \in orders : c \in {p[1], p[2]}}

\* ~CriticalSection of a lock nobody has: DeleteLock drops its orders.  Each of its two
\* loops goes on from an element it has just erased, so it drops all or stops early.
DeleteLock(c) ==
  /\ owner[c] = NoThread
  /\ \A t \in LockThreads : Positions(stack[t], c) = {}
  /\ OrdersOf(c) # {}
  /\ \E dropped \in SUBSET OrdersOf(c) : dropped # {} /\ orders' = orders \ dropped
  /\ UNCHANGED <<stack, wanted, leaving, owner, alarm>>

-----------------------------------------------------------------------------

LockInit ==
  /\ stack = [t \in LockThreads |-> <<>>]
  /\ wanted = [t \in LockThreads |-> NoLock]
  /\ leaving = [t \in LockThreads |-> NoLock]
  /\ owner = [c \in CriticalSections |-> NoThread]
  /\ orders = {}
  /\ alarm = FALSE

LockNext ==
  /\ ~alarm
  /\ \/ \E t \in LockThreads :
          \/ \E c \in CriticalSections : Enter(t, c) \/ TryEnter(t, c) \/ TryFails(t, c)
          \/ Acquire(t)
          \/ LeaveCritical(t) \/ Unlock(t)
     \/ \E c \in CriticalSections : DeleteLock(c)

LockSpec == LockInit /\ [][LockNext]_lockState

-----------------------------------------------------------------------------
(* Properties. *)

LockTypeOK ==
  /\ stack \in [LockThreads -> Seq(CriticalSections)]
  /\ wanted \in [LockThreads -> CriticalSections \cup {NoLock}]
  /\ leaving \in [LockThreads -> CriticalSections \cup {NoLock}]
  /\ owner \in [CriticalSections -> LockThreads \cup {NoThread}]
  /\ orders \subseteq CriticalSections \X CriticalSections
  /\ alarm \in BOOLEAN

\* The stack without the lock that is still waited for.
Held(t) ==
  {stack[t][i] : i \in IF Waits(t) THEN 1..(Len(stack[t]) - 1) ELSE DOMAIN stack[t]}

\* A thread owns what its stack says, and the lock it is about to unlock: the detector and
\* the mutexes agree (MutexLock, sync.h:30-76).
StackIsOwned ==
  \A t \in LockThreads, c \in CriticalSections : owner[c] = t <=> c \in Held(t) \/ leaving[t] = c

\* "Early deadlock detection" (sync.cpp:14): two threads that wait for one another's
\* locks have raised the alarm, for the orders are recorded before the wait.  A ring
\* of three threads has no pair in both orders and is not seen.
MutualWaitRaisesAlarm ==
  \A t, u \in LockThreads :
    t # u /\ Waits(t) /\ Waits(u) /\ wanted[t] \in Held(u) /\ wanted[u] \in Held(t) => alarm

\* While a lock is held, the orders of what was entered above it are on record, also
\* after other locks were deleted.
HeldOrdersRecorded ==
  \A t \in LockThreads : \A i, j \in DOMAIN stack[t] :
    i < j /\ Positions(SubSeq(stack[t], 1, j - 1), stack[t][j]) = {}
      => <<stack[t][i], stack[t][j]>> \in orders

\* The detector of deadlocks has the truth on record, and tells it in time.
LocksSafe == LockTypeOK /\ StackIsOwned /\ MutualWaitRaisesAlarm /\ HeldOrdersRecorded
=============================================================================
