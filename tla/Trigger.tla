------------------------------- MODULE Trigger -------------------------------
(****************************************************************************)
(* klk::Trigger (src/common/thread.cpp): the stop flag of every thread,     *)
(* scheduler and factory of the server, built on a counting semaphore whose *)
(* positive value means "stopped".                                          *)
(*                                                                          *)
(* isStopped() is not a read: it takes a token with sem_trywait and puts it *)
(* back with sem_post, and wait() takes and puts back too.  Probers are the *)
(* threads with a loop "while (!isStopped())" (Module::start, the timer     *)
(* threads, the database reconnect loop), Waiters the threads in wait()     *)
(* (the main threads of the server and of the launcher).                    *)
(****************************************************************************)
EXTENDS Semaphore, FiniteSets

CONSTANTS
    Probers,     \* threads that poll isStopped() until it answers true
    Waiters,     \* threads that block in wait()
    MaxStops,    \* bound on the calls of stop() between two calls of init()
    MaxSignals   \* bound on the handled signals that interrupt sem_wait(), by strays

ASSUME TriggerAssumption ==
    /\ IsFiniteSet(Probers) /\ IsFiniteSet(Waiters)
    /\ Probers \cap Waiters = {}
    /\ MaxStops \in Nat /\ MaxSignals \in Nat

VARIABLES
    pc,        \* where each thread is in isStopped() or wait()
    stops,     \* number of stop() calls since init()
    strays     \* tokens that come from no stop() since init(): see interrupted, init

vars == <<m_sem, pc, stops, strays>>

Threads == Probers \cup Waiters

\* The threads that have a token to give back: the next thing they do is post.
Holders == {t \in Threads : pc[t] = "restore"}

Init ==
    /\ m_sem = 0
    /\ pc = [t \in Threads |-> "idle"]
    /\ stops = 0
    /\ strays = 0

Goto(t, from, to) ==
    /\ pc[t] = from
    /\ pc' = [pc EXCEPT ![t] = to]

-----------------------------------------------------------------------------
\* isStopped(), as while (!isStopped()) calls it

callIsStopped(p) ==
    /\ Goto(p, "idle", "probe")
    /\ UNCHANGED <<m_sem, stops, strays>>

\* sem_trywait fails: isLocked() is true, isStopped() false, the loop goes on
seesActive(p) ==
    /\ Goto(p, "probe", "idle")
    /\ busy
    /\ UNCHANGED <<stops, strays>>

takeToken(p) ==
    /\ Goto(p, "probe", "restore")
    /\ take
    /\ UNCHANGED <<stops, strays>>

\* the bug of a prober that keeps the token
forgetToken(t) ==
    /\ Goto(t, "restore", "returned")
    /\ UNCHANGED <<m_sem, stops, strays>>

\* "restore prev state": the call returns; isStopped() answers true
giveBack(t) ==
    /\ Goto(t, "restore", "returned")
    /\ post
    /\ UNCHANGED <<stops, strays>>

-----------------------------------------------------------------------------
\* wait(): sem_wait, then giveBack

callWait(w) ==
    /\ Goto(w, "idle", "wait")
    /\ UNCHANGED <<m_sem, stops, strays>>

\* the bug of a wait() that does not wait
skipWait(w) ==
    /\ Goto(w, "wait", "restore")
    /\ UNCHANGED <<m_sem, stops, strays>>

acquired(w) ==
    /\ Goto(w, "wait", "restore")
    /\ take
    /\ UNCHANGED <<stops, strays>>

\* A handled signal ends sem_wait with EINTR, which BaseSemaphore::wait
\* swallows: wait() goes on to post a token it never took.
interrupted(w) ==
    /\ strays < MaxSignals
    /\ m_sem = 0
    /\ Goto(w, "wait", "restore")
    /\ strays' = strays + 1
    /\ UNCHANGED <<m_sem, stops>>

-----------------------------------------------------------------------------
\* the bug of a stop() that does nothing the second time
stopOnce ==
    /\ stops < MaxStops
    /\ m_sem' = IF stops = 0 THEN m_sem + 1 ELSE m_sem
    /\ stops' = stops + 1
    /\ UNCHANGED <<pc, strays>>

stop ==
    /\ stops < MaxStops
    /\ post
    /\ stops' = stops + 1
    /\ UNCHANGED <<pc, strays>>

\* init() when the owner starts its thread again.  Who is inside isStopped()
\* stays there: a token it has taken is posted into the new semaphore, a stop
\* that nobody made.  (Under a blocked sem_wait, sem_init is undefined; wait()
\* is only used on the application's trigger, which is initialised once.)
init ==
    /\ \A w \in Waiters : pc[w] # "wait"
    /\ reinit
    /\ pc' = [t \in Threads |-> IF pc[t] = "returned" THEN "idle" ELSE pc[t]]
    /\ stops' = 0
    /\ strays' = Cardinality(Holders)

ProberStep(p) == callIsStopped(p) \/ seesActive(p) \/ takeToken(p) \/ giveBack(p)
WaiterStep(w) == callWait(w) \/ acquired(w) \/ giveBack(w)

Next ==
    \/ \E p \in Probers : ProberStep(p)
    \/ \E w \in Waiters : WaiterStep(w) \/ interrupted(w)
    \/ stop
    \/ init

Spec == Init /\ [][Next]_vars

\* Threads keep running; nobody has to call stop() or to be interrupted.
FairSpec ==
    /\ Spec
    /\ \A p \in Probers : WF_vars(ProberStep(p))
    /\ \A w \in Waiters : WF_vars(WaiterStep(w))

-----------------------------------------------------------------------------
\* Type correctness of the counter, the program counters and the histories.
TypeOK ==
    /\ m_sem \in Nat
    /\ pc \in [Threads -> {"idle", "probe", "wait", "restore", "returned"}]
    /\ stops \in Nat
    /\ strays \in Nat

\* Tokens are conserved: the counter and the tokens that threads inside
\* isStopped() and wait() still have to give back add up to the stop() calls
\* since init(), the interrupted waits and the tokens of before
\* (klksemaphore.cpp "restore prev state", thread.cpp "restore stopped state").
Conservation ==
    m_sem + Cardinality(Holders) = stops + strays

\* A stop() is never lost: once it was called the counter is positive whenever
\* no thread is between taking and giving back a token, so the next
\* isStopped() answers true and the next wait() returns.  (While another thread
\* has the token isStopped() answers false although stop() was called.)
StopNotLost ==
    stops > 0 /\ Holders = {} => m_sem > 0

\* No false stop: without a stop() (and a stray token) isStopped() has answered
\* true to nobody and wait() has returned to nobody.
NoFalseStop ==
    stops = 0 /\ strays = 0 => \A t \in Threads : pc[t] \notin {"restore", "returned"}

\* The counting semaphore is a flag to everybody who asks (StopFlag): no stop()
\* is invented and none is lost, however often it was called, although
\* isStopped() takes the token that says so away for a moment.
Flag == INSTANCE StopFlag WITH
    raised <- stops + strays > 0,
    call <- [t \in Threads |-> CASE pc[t] \in {"probe", "wait"} -> "asking"
                                 [] pc[t] = "restore" -> "leaving"
                                 [] pc[t] = "returned" -> "told"
                                 [] OTHER -> "idle"]
ImplementsFlag == Flag!Spec

\* Every thread in wait() returns after a stop(), and every polling loop ends
\* (or the trigger is initialised again after the users have left).
StopReleasesAll ==
    \A t \in Threads : (stops > 0 /\ pc[t] \in {"wait", "probe", "restore"}) ~> (pc[t] = "returned" \/ stops = 0)

=============================================================================
