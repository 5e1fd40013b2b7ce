---------------------------- MODULE MessageHolder ----------------------------
(****************************************************************************)
(* klk::MessageHolderBase and its two subclasses                            *)
(* (src/common/messageholder.cpp): the mailbox of a module.  Everything     *)
(* under m_wait_mutex is one step; pthread_cond_(timed)wait splits get() in *)
(* two, the second of which runs when the thread has left the wait set.     *)
(*                                                                          *)
(*   SyncRes = FALSE  MessageHolder4Standard: a deque, waits without limit  *)
(*   SyncRes = TRUE   MessageHolder4SyncRes: one slot (a sequence of length *)
(*                    at most 1), waits TIMEINTERVAL4SYNCRES seconds        *)
(*                                                                          *)
(* The module has the operations as actions on the holder's variables; the  *)
(* modules that extend it say which threads call them.  add() of a null     *)
(* message and add() to a stopped holder return ERROR and change nothing.   *)
(****************************************************************************)
EXTENDS Naturals, Sequences

CONSTANTS
    SyncRes,   \* which subclass
    NoMsg      \* what a failed get() leaves in its out parameter

VARIABLES
    m_container,   \* MessageHolder4Standard::m_container, or the slot m_msg
    m_stop,        \* add() rejects, get() fails
    m_wait_exit,   \* the waiting get() has a reason to return
    m_wait_loop,   \* a get() is in its wait loop
    waiters        \* the threads blocked on m_wait_cond

holderVars == <<m_container, m_stop, m_wait_exit, m_wait_loop, waiters>>

HolderInit ==
    /\ m_container = <<>>
    /\ m_stop = FALSE
    /\ m_wait_exit = FALSE
    /\ m_wait_loop = FALSE
    /\ waiters = {}

empty == m_container = <<>>

\* the bug of an add() that does not wake the getter
noWake == UNCHANGED <<m_wait_exit, waiters>>

\* "stop waiting": m_wait_exit and the broadcast, only if a get() is waiting
wake ==
    IF m_wait_loop
    THEN m_wait_exit' = TRUE /\ waiters' = {}
    ELSE UNCHANGED <<m_wait_exit, waiters>>

\* the bug of an add() at the wrong end
addFront(msg) == m_container' = <<msg>> \o m_container

addUnsafe(msg) ==
    m_container' = IF SyncRes THEN <<msg>> ELSE Append(m_container, msg)

\* an accepted add(); m_stop rejects the message
add(msg) ==
    /\ ~m_stop
    /\ addUnsafe(msg)
    /\ wake
    /\ UNCHANGED <<m_stop, m_wait_loop>>

-----------------------------------------------------------------------------
\* get()

\* The thread enters its wait loop, or goes back into it after a wakeup.
sleep(t) ==
    /\ m_wait_loop' = TRUE
    /\ waiters' = waiters \cup {t}
    /\ UNCHANGED <<m_container, m_stop, m_wait_exit>>

mustSleep == empty /\ ~m_wait_exit

\* the bug of a get() that looks at the container before it looks at m_stop
gotAnyway == IF empty THEN NoMsg ELSE Head(m_container)

\* What get() returns once it does not wait any more
got == IF m_stop \/ empty THEN NoMsg ELSE Head(m_container)

\* the bug of a get() that leaves the message in the container
finishKeepingMsg ==
    /\ m_wait_loop' = FALSE
    /\ m_wait_exit' = FALSE
    /\ UNCHANGED <<m_container, m_stop, waiters>>

\* the end of get(): both flags are reset, then m_stop decides
finish ==
    /\ m_wait_loop' = FALSE
    /\ m_wait_exit' = FALSE
    /\ m_container' = IF m_stop \/ empty THEN m_container ELSE Tail(m_container)
    /\ UNCHANGED <<m_stop, waiters>>

\* A blocked thread leaves the wait set by itself: a spurious wakeup, or the
\* end of the interval when there is one.
leaveWaitSet(t) ==
    /\ t \in waiters
    /\ waiters' = waiters \ {t}
    /\ UNCHANGED <<m_container, m_stop, m_wait_exit, m_wait_loop>>

\* After the wait: without interval the loop condition is tested again, with
\* an interval every return of pthread_cond_timedwait ends the loop.
sleepsAgain == ~SyncRes /\ ~m_wait_exit

-----------------------------------------------------------------------------
\* the bug of a stop() that does not clear the container
keepAll == UNCHANGED holderVars

\* stop() of the subclasses: the container is cleared before the lock is
\* taken, so another thread may run between the two.  (Its clear() is a step
\* that may fall before or after every add() and get() it overlaps.)
stopClear ==
    /\ m_container' = <<>>
    /\ UNCHANGED <<m_stop, m_wait_exit, m_wait_loop, waiters>>

\* MessageHolderBase::stop
stopBase ==
    /\ m_stop' = TRUE
    /\ wake
    /\ UNCHANGED <<m_container, m_wait_loop>>

\* start(): the flags only; the container keeps what it holds
start ==
    /\ m_stop' = FALSE
    /\ m_wait_loop' = FALSE
    /\ m_wait_exit' = FALSE
    /\ UNCHANGED <<m_container, waiters>>

=============================================================================
