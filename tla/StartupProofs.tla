---------------------------- MODULE StartupProofs ----------------------------
(****************************************************************************)
(* isStarted() is never true too early, and not late as long as the module  *)
(* is not unloaded and no start fails outside the handlers; waitStart()     *)
(* tells the truth under the conditions named.  For any number of loaders,  *)
(* timeouts and unloads.                                                    *)
(****************************************************************************)
EXTENDS Startup, TLAPS

USE StartupAssumption

\* The inductive invariant
IInv == TypeOK /\ NotStartedEarly

-----------------------------------------------------------------------------
\* Passing a checkpoint takes one from the count, but not below zero.
LEMMA PassOne ==
    ASSUME TypeOK, passStartupCheckpoint
    PROVE  /\ m_checkpoint_count' \in Nat /\ m_sem' \in Nat
           /\ m_checkpoint_count' >= m_checkpoint_count - 1
BY DEF TypeOK, passStartupCheckpoint, post

\* The invariant holds in the initial state.
LEMMA InitIInv == Init => IInv
<1>. SUFFICES ASSUME Init PROVE IInv
    OBVIOUS
<1>1. /\ m_stop \in BOOLEAN /\ closed \in BOOLEAN /\ failed \in BOOLEAN
      /\ ~m_stop /\ ~closed /\ ~failed
    BY Zenon DEF Init
<1>2. TypeOK
    BY <1>1 DEF Init, TypeOK
<1>3. NotStartedEarly
    BY <1>1 DEF Init, NotStartedEarly, Left
<1>. QED
    BY <1>2, <1>3 DEF IInv

\* Every step keeps the types.
LEMMA NextTypeOK == TypeOK /\ [Next]_vars => TypeOK'
<1>. SUFFICES ASSUME TypeOK, [Next]_vars PROVE TypeOK'
    OBVIOUS
<1>. USE DEF TypeOK, moduleVars, stopVars, boundVars, Thread, Loader
<1>1. ASSUME NEW l \in Loaders, startModuleThread(l) PROVE TypeOK'
    <2>1. loader' \in [Loaders -> {"idle", "waitStart", "wait", "timedOut", "loaded", "failed"}]
        BY <1>1 DEF startModuleThread
    <2>2. loads' \in [Loaders -> Nat]
        BY <1>1 DEF startModuleThread
    <2>3. m_checkpoint_count' \in Nat /\ m_sem' \in Nat /\ thread' \in {"off", "pre", "pass", "loop", "get", "asleep", "processDB", "exited"}
        BY <1>1 DEF startModuleThread, init, reinit
    <2>4. m_stop' \in BOOLEAN /\ closed' \in BOOLEAN /\ failed' \in BOOLEAN
        BY <1>1, Zenon DEF startModuleThread, init
    <2>. QED
        BY <1>1, <2>1, <2>2, <2>3, <2>4 DEF startModuleThread
<1>2. ASSUME NEW l \in Loaders, LoaderStep(l) PROVE TypeOK'
    BY <1>2 DEF LoaderStep, waitStart, waitOver, waitTimeout, take, busy, post
<1>3. CASE preMainLoop
    <2>1. failed' \in BOOLEAN
        BY <1>3, Zenon DEF preMainLoop
    <2>2. initMsgs' \in Nat
        BY <1>3 DEF preMainLoop
    <2>. QED
        BY <1>3, <2>1, <2>2 DEF preMainLoop
<1>4. CASE initialStartupDone \/ initFromDB
    <2>1. failed' \in BOOLEAN
        BY <1>4, Zenon DEF initialStartupDone, initFromDB
    <2>2. m_checkpoint_count' \in Nat /\ m_sem' \in Nat
        BY <1>4, PassOne DEF initialStartupDone, initFromDB
    <2>. QED
        BY <1>4, <2>1, <2>2 DEF initialStartupDone, initFromDB
<1>5. CASE testStop \/ getInitMsg \/ otherMessage
    BY <1>5 DEF testStop, getInitMsg, otherMessage
<1>6. CASE unload
    <2>1. m_stop' \in BOOLEAN /\ closed' \in BOOLEAN
        BY <1>6, Zenon DEF unload
    <2>2. /\ unloads' \in Nat /\ initMsgs' \in Nat
          /\ thread' \in {"off", "pre", "pass", "loop", "get", "asleep", "processDB", "exited"}
          /\ unloader' \in {"idle", "clear", "close", "join"}
        BY <1>6 DEF unload
    <2>. QED
        BY <1>6, <2>1, <2>2 DEF unload
<1>7. CASE UNCHANGED vars
    BY <1>7 DEF vars
<1>. QED
    BY <1>1, <1>2, <1>3, <1>4, <1>5, <1>6, <1>7 DEF Next, ThreadStep

\* Every step keeps the checkpoints counted.
LEMMA NextCounted == IInv /\ [Next]_vars => NotStartedEarly'
<1>. SUFFICES ASSUME IInv, [Next]_vars PROVE NotStartedEarly'
    OBVIOUS
<1>. TypeOK /\ NotStartedEarly /\ m_checkpoint_count \in Nat /\ initMsgs \in Nat
    BY DEF IInv, TypeOK
<1>. USE DEF NotStartedEarly, Left, moduleVars, stopVars, Thread
<1>1. ASSUME NEW l \in Loaders, startModuleThread(l) PROVE NotStartedEarly'
    BY <1>1 DEF startModuleThread, init
<1>2. ASSUME NEW l \in Loaders, LoaderStep(l) PROVE NotStartedEarly'
    BY <1>2 DEF LoaderStep, waitStart, waitOver, waitTimeout
<1>3. CASE preMainLoop
    BY <1>3 DEF preMainLoop
<1>4. CASE initialStartupDone \/ initFromDB
    BY <1>4, PassOne DEF initialStartupDone, initFromDB
<1>5. CASE testStop \/ getInitMsg \/ otherMessage
    BY <1>5 DEF testStop, getInitMsg, otherMessage
<1>6. CASE unload
    BY <1>6 DEF unload
<1>7. CASE UNCHANGED vars
    BY <1>7 DEF vars
<1>. QED
    BY <1>1, <1>2, <1>3, <1>4, <1>5, <1>6, <1>7 DEF Next, ThreadStep

\* The invariant holds in every reachable state.
LEMMA Inductive == Spec => []IInv
<1>1. IInv /\ [Next]_vars => IInv'
    BY NextTypeOK, NextCounted DEF IInv
<1>. QED
    BY InitIInv, <1>1, PTL DEF Spec

\* isStarted() and isLoaded() never report a module whose thread has still a
\* checkpoint to pass.
THEOREM NeverStartedEarly == Spec => []NotStartedEarly
<1>1. IInv => NotStartedEarly
    BY DEF IInv
<1>. QED
    BY <1>1, Inductive, PTL

-----------------------------------------------------------------------------
\* Before the first unload the count is exact as long as no start fails: no stop,
\* one start, and what the thread has still to pass is what is registered.
Exact ==
    /\ unloads = 0 => ~m_stop /\ ~closed /\ unloader = "idle"
    /\ unloads = 0 /\ ~failed =>
        /\ thread # "exited"
        /\ m_checkpoint_count = Left
        /\ thread \in {"off", "pre"} => initMsgs = 0

\* The count is exact in the initial state and every step keeps it so.
LEMMA ExactInvariant == Spec => []Exact
<1>. USE DEF Left
<1>1. Init => Exact
    <2>1. Init => ~m_stop /\ ~closed /\ ~failed
        BY Zenon DEF Init
    <2>. QED
        BY <2>1 DEF Init, Exact
<1>2. IInv /\ Exact /\ [Next]_vars => Exact'
    <2>. SUFFICES ASSUME IInv, Exact, [Next]_vars PROVE Exact'
        OBVIOUS
    <2>. TypeOK
        BY DEF IInv
    <2>. USE DEF TypeOK, Exact, moduleVars, stopVars, boundVars, Thread
    <2>1. ASSUME NEW l \in Loaders, startModuleThread(l) PROVE Exact'
        BY <2>1 DEF startModuleThread, init
    <2>2. ASSUME NEW l \in Loaders, LoaderStep(l) PROVE Exact'
        BY <2>2 DEF LoaderStep, waitStart, waitOver, waitTimeout
    <2>3. CASE preMainLoop
        BY <2>3 DEF preMainLoop
    <2>4. CASE initialStartupDone \/ initFromDB
        BY <2>4 DEF initialStartupDone, initFromDB, passStartupCheckpoint
    <2>5. CASE testStop \/ getInitMsg \/ otherMessage
        BY <2>5 DEF testStop, getInitMsg, otherMessage
    <2>6. CASE unload
        BY <2>6 DEF unload
    <2>7. CASE UNCHANGED vars
        BY <2>7 DEF vars
    <2>. QED
        BY <2>1, <2>2, <2>3, <2>4, <2>5, <2>6, <2>7 DEF Next, ThreadStep
<1>. QED
    BY <1>1, <1>2, Inductive, PTL DEF Spec

\* isStarted() answers true as soon as the thread has passed its checkpoints, in
\* spite of timeouts, retries and exceptions of processDB, unless the module was
\* unloaded or a start failed before (moduledb.cpp:114 adds to what an earlier
\* start has left).
THEOREM ReportedInTime == Spec => []ReportedUnlessUnloaded
<1>1. Exact => ReportedUnlessUnloaded
    BY DEF Exact, ReportedUnlessUnloaded, StartedIsReported
<1>. QED
    BY <1>1, ExactInvariant, PTL

-----------------------------------------------------------------------------
\* A token of m_start_sem stands for a finished startup, or for an interval that
\* has run out (klksemaphore.cpp:100 posts one); a loader that waits although the
\* startup is over has its token, or there is another loader to have taken it.
Tokens ==
    /\ m_sem > 0 => m_checkpoint_count = 0 \/ timeouts > 0
    /\ \A l \in Loaders :
        /\ loader[l] = "timedOut" => timeouts > 0
        /\ loader[l] # "idle" => loads[l] > 0
        /\ loader[l] = "wait" /\ m_checkpoint_count = 0 =>
              m_sem > 0 \/ \E k \in Loaders \ {l} : loads[k] > 0

\* Every step keeps the tokens in order.
LEMMA TokensInvariant == Spec => []Tokens
<1>1. Init => Tokens
    BY DEF Init, Tokens
<1>2. IInv /\ Tokens /\ [Next]_vars => Tokens'
    <2>. SUFFICES ASSUME IInv, Tokens, [Next]_vars PROVE Tokens'
        OBVIOUS
    <2>. TypeOK
        BY DEF IInv
    <2>. USE DEF TypeOK, Tokens, moduleVars, stopVars, boundVars, Thread, Loader
    <2>1. ASSUME NEW l \in Loaders, startModuleThread(l) PROVE Tokens'
        BY <2>1 DEF startModuleThread, init, reinit
    <2>2. ASSUME NEW l \in Loaders, LoaderStep(l) PROVE Tokens'
        BY <2>2 DEF LoaderStep, waitStart, waitOver, waitTimeout, take, busy, post
    <2>3. CASE preMainLoop \/ testStop \/ getInitMsg \/ otherMessage \/ unload
        BY <2>3 DEF preMainLoop, testStop, getInitMsg, otherMessage, unload
    <2>4. CASE initialStartupDone \/ initFromDB
        BY <2>4 DEF initialStartupDone, initFromDB, passStartupCheckpoint, post
    <2>5. CASE UNCHANGED vars
        BY <2>5 DEF vars
    <2>. QED
        BY <2>1, <2>2, <2>3, <2>4, <2>5 DEF Next, ThreadStep
<1>. QED
    BY <1>1, <1>2, Inductive, PTL DEF Spec

\* waitStart() returns early only after an interval has run out somewhere, and
\* throws for a started module only if another loader could take its token.
THEOREM WaitStartTruthful == Spec => WaitStartIsTruthful
<1>. DEFINE Truthful(l) ==
        /\ loader[l] \in {"waitStart", "wait"} /\ loader'[l] = "loaded"
            => m_checkpoint_count = 0 \/ timeouts > 0
        /\ loader[l] = "wait" /\ loader'[l] = "timedOut"
            => m_checkpoint_count > 0 \/ \E k \in Loaders \ {l} : loads[k] > 0
<1>1. IInv /\ Tokens /\ [Next]_vars => [\A l \in Loaders : Truthful(l)]_vars
    <2>. SUFFICES ASSUME IInv, Tokens, Next, NEW k \in Loaders PROVE Truthful(k)
        OBVIOUS
    <2>. TypeOK
        BY DEF IInv
    <2>. USE DEF TypeOK, Tokens, moduleVars, stopVars, boundVars, Thread, Loader
    <2>1. ASSUME NEW l \in Loaders, startModuleThread(l) PROVE Truthful(k)
        BY <2>1 DEF startModuleThread
    <2>2. ASSUME NEW l \in Loaders, LoaderStep(l) PROVE Truthful(k)
        BY <2>2 DEF LoaderStep, waitStart, waitOver, waitTimeout, take, busy, post
    <2>3. CASE ThreadStep \/ otherMessage \/ unload
        BY <2>3 DEF ThreadStep, preMainLoop, testStop, getInitMsg, otherMessage, unload,
                    initialStartupDone, initFromDB
    <2>. QED
        BY <2>1, <2>2, <2>3 DEF Next
<1>. QED
    BY <1>1, Inductive, TokensInvariant, PTL DEF Spec, WaitStartIsTruthful

=============================================================================
