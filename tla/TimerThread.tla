----------------------------- MODULE TimerThread -----------------------------
(****************************************************************************)
(* The timer threads of a module (klk::mod::TimerThread and                 *)
(* klk::mod::Scheduler, src/common/modulescheduler.cpp): each calls a       *)
(* function of the module every m_intrv seconds, waiting on an Event in     *)
(* between, and polls its stop trigger.  Module::postMainLoop has the       *)
(* scheduler stop them one after the other (Scheduler::stopThreadByInfo:    *)
(* stop(), then join); Module::preMainLoop of the next life of the module   *)
(* starts them again.                                                       *)
(****************************************************************************)
EXTENDS Event, Naturals

CONSTANT Timers     \* the timer threads of the module

VARIABLES
    m_wait,   \* the Event of each timer
    m_sem,    \* the semaphore of each timer's stop trigger
    pc,       \* where each timer thread is
    late,     \* late[t]: calls of its function begun after Thread::stop
    ctl,      \* what the scheduler has done to each timer
    m_stop    \* the stop flag of the scheduler: stop() of all was called

vars == <<m_wait, m_sem, pc, late, ctl, m_stop>>

Init ==
    /\ m_wait = [t \in Timers |-> NewEvent]
    /\ m_sem = [t \in Timers |-> 0]
    /\ pc = [t \in Timers |-> "enter"]
    /\ late = [t \in Timers |-> 0]
    /\ ctl = [t \in Timers |-> "running"]
    /\ m_stop = FALSE

Goto(t, from, to) == pc[t] = from /\ pc' = [pc EXCEPT ![t] = to]
Ctl(t, from, to) == ctl[t] = from /\ ctl' = [ctl EXCEPT ![t] = to]
SetEvent(t, e) == m_wait' = [m_wait EXCEPT ![t] = e]
SetSem(t, n) == m_sem' = [m_sem EXCEPT ![t] = n]

All(what) == \A t \in Timers : ctl[t] = what

-----------------------------------------------------------------------------
\* m_wait.startWait(m_intrv): it ends at the first return of
\* pthread_cond_timedwait, whatever the reason
startWait(t) ==
    /\ \/ /\ Goto(t, "enter", "asleep")
          /\ ~m_wait[t].m_exit
          /\ SetEvent(t, Block(m_wait[t]))
       \/ /\ Goto(t, "asleep", "check")
          /\ ~m_wait[t].blocked
          /\ SetEvent(t, Leave(m_wait[t]))
    /\ UNCHANGED <<m_sem, late, ctl, m_stop>>

intervalOver(t) ==
    /\ m_wait[t].blocked
    /\ SetEvent(t, Unblock(m_wait[t]))
    /\ UNCHANGED <<m_sem, pc, late, ctl, m_stop>>

\* while (!isStopped())
check(t) ==
    /\ \/ Goto(t, "check", "call") /\ m_sem[t] = 0 /\ UNCHANGED m_sem
       \/ Goto(t, "check", "checkT") /\ m_sem[t] > 0 /\ SetSem(t, m_sem[t] - 1)
       \/ Goto(t, "checkT", "exited") /\ SetSem(t, m_sem[t] + 1)
    /\ UNCHANGED <<m_wait, late, ctl, m_stop>>

\* m_f() begins (its exceptions are caught) ...
callFunction(t) ==
    /\ Goto(t, "call", "inCall")
    /\ late' = [late EXCEPT ![t] = IF ctl[t] = "running" \/ @ = 2 THEN @ ELSE @ + 1]
    /\ UNCHANGED <<m_wait, m_sem, ctl, m_stop>>

\* ... and ends
functionEnds(t) ==
    /\ Goto(t, "inCall", "enter")
    /\ UNCHANGED <<m_wait, m_sem, late, ctl, m_stop>>

-----------------------------------------------------------------------------
\* base::Scheduler::stop: no thread is started from now on
stop ==
    /\ All("running") /\ ~m_stop
    /\ m_stop' = TRUE
    /\ UNCHANGED <<m_wait, m_sem, pc, late, ctl>>

\* the bug of a stop() that wakes the thread before it sets the trigger
stopSwapped(t) ==
    /\ m_stop
    /\ \/ /\ Ctl(t, "running", "stopWait")
          /\ \A u \in Timers : ctl[u] \in {"running", "joined"}
          /\ SetEvent(t, StopWait(m_wait[t])) /\ UNCHANGED m_sem
       \/ Ctl(t, "stopWait", "join") /\ SetSem(t, 1) /\ UNCHANGED m_wait
    /\ UNCHANGED <<pc, late, m_stop>>

\* the bug of a stop() that does not set the trigger
stopWaitOnly(t) ==
    /\ m_stop
    /\ \/ /\ Ctl(t, "running", "stopWait")
          /\ \A u \in Timers : ctl[u] \in {"running", "joined"}
          /\ UNCHANGED <<m_sem, m_wait>>
       \/ Ctl(t, "stopWait", "join") /\ SetEvent(t, StopWait(m_wait[t])) /\ UNCHANGED m_sem
    /\ UNCHANGED <<pc, late, m_stop>>

\* stopThreadByInfo for each timer in turn: not stopped yet, so
\* TimerThread::stop(): Thread::stop, then m_wait.stopWait
stopTimer(t) ==
    /\ m_stop
    /\ \/ /\ Ctl(t, "running", "stopWait")
          /\ \A u \in Timers : ctl[u] \in {"running", "joined"}
          /\ m_sem[t] = 0 /\ SetSem(t, 1) /\ UNCHANGED m_wait
       \/ Ctl(t, "stopWait", "join") /\ SetEvent(t, StopWait(m_wait[t])) /\ UNCHANGED m_sem
    /\ UNCHANGED <<pc, late, m_stop>>

join(t) ==
    /\ Ctl(t, "join", "joined")
    /\ pc[t] = "exited"
    /\ UNCHANGED <<m_wait, m_sem, pc, late, m_stop>>

\* mod::Scheduler::start: clear() ...
clear ==
    /\ All("joined") /\ m_stop
    /\ m_stop' = FALSE
    /\ UNCHANGED <<m_wait, m_sem, pc, late, ctl>>

\* ... then startThread for each timer: init() and pthread_create (the event
\* is not touched)
startThread(t) ==
    /\ ~m_stop
    /\ Ctl(t, "joined", "running")
    /\ SetSem(t, 0)
    /\ pc' = [pc EXCEPT ![t] = "enter"]
    /\ late' = [late EXCEPT ![t] = 0]
    /\ UNCHANGED <<m_wait, m_stop>>

TimerStep(t) == startWait(t) \/ check(t) \/ callFunction(t) \/ functionEnds(t)
StopStep(t) == stopTimer(t) \/ join(t)

Next ==
    \/ \E t \in Timers :
        TimerStep(t) \/ intervalOver(t) \/ StopStep(t) \/ startThread(t)
    \/ stop \/ clear

Spec == Init /\ [][Next]_vars

\* The threads keep running, functions return and intervals end; a stop()
\* that was begun is finished.  Nobody has to stop or start the module.
FairSpec ==
    /\ Spec
    /\ \A t \in Timers :
        WF_vars(TimerStep(t)) /\ WF_vars(intervalOver(t)) /\ WF_vars(StopStep(t))

-----------------------------------------------------------------------------
\* The function is called at most once after stop(): the call that the last
\* test of isStopped() had allowed.
AtMostOneLateCall == \A t \in Timers : late[t] <= 1

\* Stopping the scheduler ends every timer, at the latest when its running
\* interval is over: each join returns and the module can be unloaded.
StopJoins ==
    m_stop ~> All("joined")

=============================================================================
