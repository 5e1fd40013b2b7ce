------------------------------- MODULE Startup -------------------------------
(****************************************************************************)
(* The startup of a module with a database (Module and ModuleWithDB in      *)
(* src/common/module.cpp and moduledb.cpp) as ModuleFactory::load waits for *)
(* it.  init() registers two checkpoints, one passed before the main loop   *)
(* and one when the INITFROMDB message has been processed; the last one to  *)
(* pass posts m_start_sem.  load() may be called by several threads at once *)
(* and again after it failed, and the module may be unloaded meanwhile, by  *)
(* one thread at a time.  A thread that ends by an exception stays in the   *)
(* scheduler's list until it is unloaded.                                   *)
(****************************************************************************)
EXTENDS Semaphore

CONSTANTS
    Loaders,       \* threads that call ModuleFactory::load
    MaxLoads,      \* bound on the calls of load by one thread
    MaxTimeouts,   \* bound on the intervals of waitStart that run out
    MaxUnloads     \* bound on the calls of ModuleFactory::unload

ASSUME StartupAssumption ==
    MaxLoads \in Nat /\ MaxTimeouts \in Nat /\ MaxUnloads \in Nat

VARIABLES
    m_checkpoint_count,   \* checkpoints registered and not passed
    thread,     \* where the module's thread is; "off": not in the scheduler
    initMsgs,   \* INITFROMDB messages in the mailbox
    m_stop,     \* the module's trigger: it was told to stop
    closed,     \* m_stop of its mailbox: add() and get() fail
    unloader,   \* how far Module::stop() of an unload has got
    failed,     \* a start failed where nobody passes the checkpoints
    loader,     \* where each loader is
    loads,      \* calls of load by each loader
    timeouts,   \* intervals that ran out
    unloads     \* calls of unload

\* m_sem is the value of m_start_sem
stopVars == <<m_stop, closed, unloader>>
moduleVars == <<m_checkpoint_count, m_sem, thread, initMsgs, stopVars, failed>>
boundVars == <<loads, timeouts, unloads>>
vars == <<moduleVars, loader, boundVars>>

Init ==
    /\ m_checkpoint_count = 0
    /\ m_sem = 0
    /\ thread = "off"
    /\ initMsgs = 0
    /\ m_stop = FALSE
    /\ closed = FALSE
    /\ unloader = "idle"
    /\ failed = FALSE
    /\ loader = [l \in Loaders |-> "idle"]
    /\ loads = [l \in Loaders |-> 0]
    /\ timeouts = 0
    /\ unloads = 0

Thread(from, to) == thread = from /\ thread' = to
Loader(l, from, to) ==
    /\ loader[l] = from
    /\ loader' = [loader EXCEPT ![l] = to]

-----------------------------------------------------------------------------
\* the bug of a pass that posts for every checkpoint
passEager ==
    /\ m_checkpoint_count' = IF m_checkpoint_count <= 1 THEN 0 ELSE m_checkpoint_count - 1
    /\ post

passStartupCheckpoint ==
    IF m_checkpoint_count <= 1
    THEN m_checkpoint_count' = 0 /\ post
    ELSE m_checkpoint_count' = m_checkpoint_count - 1 /\ UNCHANGED m_sem

\* the bug of registering the first checkpoint only
initOne ==
    /\ reinit
    /\ m_checkpoint_count' = m_checkpoint_count + 1
    /\ m_stop' = FALSE /\ closed' = FALSE

\* ModuleWithDB::init: what a start before has left in the count and in the
\* mailbox stays there
init ==
    /\ reinit
    /\ m_checkpoint_count' = m_checkpoint_count + 2
    /\ m_stop' = FALSE /\ closed' = FALSE

-----------------------------------------------------------------------------
\* load: startModuleThread under m_lock, nothing if the thread is listed.  The
\* pthread may not come up after init(): the load fails.
startModuleThread(l) ==
    /\ loads[l] < MaxLoads
    /\ loader[l] \in {"idle", "loaded", "failed"}
    /\ loads' = [loads EXCEPT ![l] = @ + 1]
    /\ \/ /\ thread = "off" /\ thread' = "pre"
          /\ init
          /\ loader' = [loader EXCEPT ![l] = "waitStart"]
          /\ UNCHANGED failed
       \/ /\ thread = "off"
          /\ init
          /\ failed' = TRUE
          /\ loader' = [loader EXCEPT ![l] = "failed"]
          /\ UNCHANGED thread
       \/ /\ thread # "off"
          /\ loader' = [loader EXCEPT ![l] = "waitStart"]
          /\ UNCHANGED <<m_checkpoint_count, m_sem, thread, m_stop, closed, failed>>
    /\ UNCHANGED <<initMsgs, unloader, timeouts, unloads>>

\* waitStart: if (!isStarted()), under m_checkpoint_mutex ...
waitStart(l) ==
    /\ Loader(l, "waitStart", IF m_checkpoint_count > 0 THEN "wait" ELSE "loaded")
    /\ UNCHANGED <<moduleVars, boundVars>>

\* ... m_start_sem.timedwait takes the token
waitOver(l) ==
    /\ Loader(l, "wait", "loaded")
    /\ take
    /\ UNCHANGED <<m_checkpoint_count, thread, initMsgs, stopVars, failed, boundVars>>

\* ... or the interval is over: an exception, after "restore initial state"
\* has posted a token although none was taken
waitTimeout(l) ==
    /\ \/ /\ Loader(l, "wait", "timedOut")
          /\ busy
          /\ timeouts < MaxTimeouts /\ timeouts' = timeouts + 1
       \/ /\ Loader(l, "timedOut", "failed")
          /\ post
          /\ UNCHANGED timeouts
    /\ UNCHANGED <<m_checkpoint_count, thread, initMsgs, stopVars, failed, loads, unloads>>

-----------------------------------------------------------------------------
\* ModuleWithDB::preMainLoop: INITFROMDB to itself (refused by a mailbox that
\* is stopped).  A thread that cannot be started or a message that cannot be
\* made throws: Module::start ends and no checkpoint is passed.
preMainLoop ==
    /\ \/ /\ Thread("pre", "pass")
          /\ initMsgs' = IF closed THEN initMsgs ELSE initMsgs + 1
          /\ UNCHANGED failed
       \/ /\ Thread("pre", "exited")
          /\ failed' = TRUE
          /\ UNCHANGED initMsgs
    /\ UNCHANGED <<m_checkpoint_count, m_sem, stopVars, loader, boundVars>>

\* ... then Module::start passes the first checkpoint
initialStartupDone ==
    /\ Thread("pass", "loop")
    /\ passStartupCheckpoint
    /\ UNCHANGED <<initMsgs, stopVars, failed, loader, boundVars>>

\* while (isStopped() == false)
testStop ==
    /\ Thread("loop", IF m_stop THEN "exited" ELSE "get")
    /\ UNCHANGED <<m_checkpoint_count, m_sem, initMsgs, stopVars, failed, loader, boundVars>>

\* get(): it waits for a message, fails on a mailbox that is stopped, or takes
\* the message and processDB runs ...
getInitMsg ==
    /\ \/ /\ initMsgs = 0
          /\ Thread("get", "asleep")
          /\ UNCHANGED initMsgs
       \/ /\ initMsgs > 0 /\ closed
          /\ Thread("get", "loop")
          /\ UNCHANGED initMsgs
       \/ /\ initMsgs > 0 /\ ~closed
          /\ Thread("get", "processDB")
          /\ initMsgs' = initMsgs - 1
    /\ UNCHANGED <<m_checkpoint_count, m_sem, stopVars, failed, loader, boundVars>>

\* another message comes and is processed
otherMessage ==
    /\ ~closed
    /\ Thread("asleep", "loop")
    /\ UNCHANGED <<m_checkpoint_count, m_sem, initMsgs, stopVars, failed, loader, boundVars>>

\* the bug of a std::exception that leaves the checkpoint behind
initOrThrow ==
    /\ Thread("processDB", "loop")
    /\ \/ passStartupCheckpoint /\ UNCHANGED failed
       \/ UNCHANGED <<m_checkpoint_count, m_sem>> /\ failed' \in {failed, TRUE}
    /\ UNCHANGED <<initMsgs, stopVars, loader, boundVars>>

\* ... and the checkpoint is passed, whether it returned or threw a
\* std::exception; any other exception leaves it
initFromDB ==
    /\ Thread("processDB", "loop")
    /\ \/ passStartupCheckpoint /\ UNCHANGED failed
       \/ UNCHANGED <<m_checkpoint_count, m_sem>> /\ failed' = TRUE
    /\ UNCHANGED <<initMsgs, stopVars, loader, boundVars>>

-----------------------------------------------------------------------------
\* unload: Module::stop is the trigger, the unlocked clear of the mailbox and
\* its flag, which wakes a get() that waits; then join and eraseThread
unload ==
    /\ \/ /\ unloader = "idle" /\ unloader' = "clear"
          /\ thread # "off"
          /\ unloads < MaxUnloads
          /\ unloads' = unloads + 1
          /\ m_stop' = TRUE
          /\ UNCHANGED <<initMsgs, closed, thread>>
       \/ /\ unloader = "clear" /\ unloader' = "close"
          /\ initMsgs' = 0
          /\ UNCHANGED <<m_stop, closed, thread, unloads>>
       \/ /\ unloader = "close" /\ unloader' = "join"
          /\ closed' = TRUE
          /\ thread' = IF thread = "asleep" THEN "loop" ELSE thread
          /\ UNCHANGED <<m_stop, initMsgs, unloads>>
       \/ /\ unloader = "join" /\ unloader' = "idle"
          /\ Thread("exited", "off")
          /\ UNCHANGED <<m_stop, initMsgs, closed, unloads>>
    /\ UNCHANGED <<m_checkpoint_count, m_sem, failed, loader, loads, timeouts>>

ThreadStep == preMainLoop \/ initialStartupDone \/ testStop \/ getInitMsg \/ initFromDB
LoaderStep(l) == waitStart(l) \/ waitOver(l) \/ waitTimeout(l)

Next ==
    \/ \E l \in Loaders : startModuleThread(l) \/ LoaderStep(l)
    \/ ThreadStep
    \/ otherMessage
    \/ unload

Spec == Init /\ [][Next]_vars

\* Threads keep running and intervals end; nobody has to load or unload.
FairSpec ==
    /\ Spec
    /\ WF_vars(ThreadStep)
    /\ \A l \in Loaders : WF_vars(LoaderStep(l))

-----------------------------------------------------------------------------
\* The checkpoints that the module's thread has still to pass: the initial one,
\* one for the INITFROMDB it will send, one for each it has sent
Left ==
    (IF thread \in {"pre", "pass"} THEN 1 ELSE 0)
    + (IF thread = "pre" /\ ~closed THEN 1 ELSE 0)
    + initMsgs
    + (IF thread = "processDB" THEN 1 ELSE 0)

\* Type correctness of the count, the thread and the loaders.
TypeOK ==
    /\ m_checkpoint_count \in Nat
    /\ m_sem \in Nat
    /\ thread \in {"off", "pre", "pass", "loop", "get", "asleep", "processDB", "exited"}
    /\ initMsgs \in Nat
    /\ m_stop \in BOOLEAN /\ closed \in BOOLEAN /\ failed \in BOOLEAN
    /\ unloader \in {"idle", "clear", "close", "join"}
    /\ loader \in [Loaders -> {"idle", "waitStart", "wait", "timedOut", "loaded", "failed"}]
    /\ loads \in [Loaders -> Nat]
    /\ timeouts \in Nat /\ unloads \in Nat

\* isStarted() is never true too early: while the module's thread has a
\* checkpoint to pass the count is not zero, whatever starts and stops came
\* before (isLoaded answers from it).
NotStartedEarly == Left <= m_checkpoint_count

\* What imodule.h:180 says of waitStart: "Waits until the module will finish
\* its startup procedure".  It returns only when no checkpoint is left, or
\* after an interval has run out somewhere before (and left its token).
\* It throws for the exceeded timeout (imodule.h:185) only if the module has
\* not finished its startup by then, or another loader was there to take the
\* one token.
WaitStartIsTruthful ==
    [][\A l \in Loaders :
        /\ loader[l] \in {"waitStart", "wait"} /\ loader'[l] = "loaded"
            => m_checkpoint_count = 0 \/ timeouts > 0
        /\ loader[l] = "wait" /\ loader'[l] = "timedOut"
            => m_checkpoint_count > 0 \/ \E k \in Loaders \ {l} : loads[k] > 0]_vars

\* What imodule.h:195 says of isStarted(): "true all initialization
\* checkpoints were pass".  A running module whose thread has passed them all
\* is reported as started.
StartedIsReported ==
    thread \in {"loop", "get", "asleep"} /\ ~m_stop /\ Left = 0 => m_checkpoint_count = 0

\* The same as long as the module was not unloaded and no start failed outside
\* the handlers that pass the checkpoint: timeouts, retries and the
\* std::exceptions of processDB leave no checkpoint behind.
ReportedUnlessUnloaded ==
    unloads = 0 /\ ~failed => StartedIsReported

\* A module whose thread was started becomes started, and stays so, whatever
\* the loaders do, unless it is unloaded, preMainLoop throws (module.cpp:140),
\* an exception that is no std::exception leaves initFromDB (moduledb.cpp:126)
\* or an earlier pthread_create failed after init().
StartupFinishes ==
    thread = "pre" ~> \/ unloads > 0 \/ failed
                      \/ [](m_checkpoint_count = 0 \/ unloads > 0)

=============================================================================
