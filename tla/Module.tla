------------------------------- MODULE Module -------------------------------
(****************************************************************************)
(* The life of one klk::Module (src/common/module.cpp) composed of its      *)
(* mailbox (MessageHolder) and its stop trigger (Semaphore):                *)
(*                                                                          *)
(*   main     the module's thread: Module::start, processMessage            *)
(*   sender   other threads in Module::addMessage                           *)
(*   ctl      the thread that unloads and loads the module again:           *)
(*            Scheduler::stopThreadByInfo (Module::stop, join), then        *)
(*            Scheduler::startThread (Module::init, pthread_create)         *)
(*                                                                          *)
(* Every isStopped() is the two steps of Trigger: take a token, give it     *)
(* back.  Messages are numbered in the order in which they are accepted.    *)
(*                                                                          *)
(* What the same functions do to the module's other objects is in other     *)
(* modules: m_sync_container in SyncCall, the timer threads in TimerThread, *)
(* the checkpoints and m_start_sem in Startup.                              *)
(****************************************************************************)
EXTENDS MessageHolder, Semaphore

CONSTANTS
    Senders,     \* threads that call addMessage
    main,        \* the module's own thread
    MaxMsgs,     \* bound on the accepted messages
    MaxStarts    \* bound on the incarnations of the module

ASSUME ModuleAssumption ==
    /\ SyncRes = FALSE
    /\ main \notin Senders
    /\ MaxMsgs \in Nat /\ MaxStarts \in Nat \ {0}
    /\ NoMsg \notin 1..MaxMsgs

VARIABLES
    mainPc,    \* where the module's thread is
    ctl,       \* where the unloading and loading thread is
    sender,    \* where each sender is in addMessage
    cur,       \* the message being processed
    handled,   \* messages processed, in order
    born,      \* born[i]: the incarnation that accepted message i; the next one
               \* if that was between the clear and the flag of stop()
    starts     \* number of incarnations so far

vars == <<holderVars, m_sem, mainPc, ctl, sender, cur, handled, born, starts>>
history == <<handled, born, starts>>

MainPc == {"off", "pre", "check", "checkT", "get", "asleep", "error", "errorT",
           "process", "post", "exited"}
CtlPc == {"running", "clear", "base", "join", "stopped", "assert", "assertT",
          "startHolder", "create", "assertFailed", "skipT", "skipped"}
SenderPc == {"idle", "probe", "restore", "refused", "refusedT", "threw"}

Init ==
    /\ HolderInit
    /\ m_sem = 0
    /\ mainPc = "pre"
    /\ ctl = "running"
    /\ sender = [s \in Senders |-> "idle"]
    /\ cur = NoMsg
    /\ handled = <<>>
    /\ born = <<>>
    /\ starts = 1

Main(from, to) == mainPc = from /\ mainPc' = to
Ctl(from, to) == ctl = from /\ ctl' = to
Sender(s, from, to) ==
    /\ sender[s] = from
    /\ sender' = [sender EXCEPT ![s] = to]

-----------------------------------------------------------------------------
\* Module::start and Module::processMessage

\* preMainLoop and passStartupCheckpoint, or an exception
preMainLoop ==
    /\ Main("pre", "check") \/ Main("pre", "post")
    /\ UNCHANGED <<holderVars, m_sem, ctl, sender, cur, history>>

\* while (isStopped() == false)
mainCheck ==
    /\ \/ Main("check", "get") /\ busy
       \/ Main("check", "checkT") /\ take
       \/ Main("checkT", "post") /\ post
    /\ UNCHANGED <<holderVars, ctl, sender, cur, history>>

\* m_container.get(msg) returns: OK with a message or ERROR
getReturns(from) ==
    /\ finish
    /\ cur' = got
    /\ Main(from, IF got = NoMsg THEN "error" ELSE "process")
    /\ UNCHANGED <<m_sem, ctl, sender, history>>

mainGet ==
    \/ /\ mustSleep
       /\ Main("get", "asleep") /\ sleep(main)
       /\ UNCHANGED <<m_sem, ctl, sender, cur, history>>
    \/ /\ ~mustSleep
       /\ getReturns("get")

\* back from pthread_cond_wait
mainWakes ==
    /\ mainPc = "asleep" /\ main \notin waiters
    /\ \/ /\ sleepsAgain
          /\ sleep(main)
          /\ UNCHANGED <<m_sem, mainPc, ctl, sender, cur, history>>
       \/ /\ ~sleepsAgain
          /\ getReturns("asleep")

spuriousWakeup ==
    /\ leaveWaitSet(main)
    /\ UNCHANGED <<m_sem, mainPc, ctl, sender, cur, history>>

\* processMessage after a failed get(): isStopped() decides what is logged
mainError ==
    /\ \/ Main("error", "check") /\ busy
       \/ Main("error", "errorT") /\ take
       \/ Main("errorT", "check") /\ post
    /\ UNCHANGED <<holderVars, ctl, sender, cur, history>>

\* m_processor.process(msg); an exception of the handler is caught
process ==
    /\ Main("process", "check")
    /\ handled' = Append(handled, cur)
    /\ cur' = NoMsg
    /\ UNCHANGED <<holderVars, m_sem, ctl, sender, born, starts>>

postMainLoop ==
    /\ Main("post", "exited")
    /\ UNCHANGED <<holderVars, m_sem, ctl, sender, cur, history>>

-----------------------------------------------------------------------------
\* Module::addMessage for everything but SYNC_RES

\* The incarnation a message accepted now belongs to
incarnation == IF ctl = "base" THEN starts + 1 ELSE starts

addMessage(s) ==
    /\ \/ /\ Len(born) < MaxMsgs
          /\ add(Len(born) + 1)
          /\ born' = Append(born, incarnation)
          /\ Sender(s, "idle", "probe")
       \/ /\ m_stop
          /\ Sender(s, "idle", "refused")
          /\ UNCHANGED <<holderVars, born>>
    /\ UNCHANGED <<m_sem, mainPc, ctl, cur, handled, starts>>

\* if (!isStopped()) BOOST_ASSERT(rc == OK): a refused message is an exception
\* in the sender when the module does not look stopped
senderCheck(s) ==
    /\ \/ Sender(s, "probe", "idle") /\ busy
       \/ Sender(s, "probe", "restore") /\ take
       \/ Sender(s, "restore", "idle") /\ post
       \/ Sender(s, "refused", "threw") /\ busy
       \/ Sender(s, "refused", "refusedT") /\ take
       \/ Sender(s, "refusedT", "idle") /\ post
    /\ UNCHANGED <<holderVars, mainPc, ctl, cur, history>>

-----------------------------------------------------------------------------
\* Unload: Scheduler::stopThreadByInfo

\* isStopped() is false, so Module::stop: first Thread::stop ...
stopThread ==
    /\ m_sem = 0
    /\ post
    /\ Ctl("running", "clear")
    /\ UNCHANGED <<holderVars, mainPc, sender, cur, history>>

\* isStopped() is true: the module is dropped from the scheduler's list, its
\* thread neither stopped nor joined
skipStop ==
    /\ \/ Ctl("running", "skipT") /\ take
       \/ Ctl("skipT", "skipped") /\ post
    /\ UNCHANGED <<holderVars, mainPc, sender, cur, history>>

\* ... then m_container.stop()
stopContainer ==
    /\ \/ Ctl("clear", "base") /\ stopClear
       \/ Ctl("base", "join") /\ stopBase
    /\ UNCHANGED <<m_sem, mainPc, sender, cur, history>>

\* pthread_join
join ==
    /\ mainPc = "exited"
    /\ Ctl("join", "stopped")
    /\ mainPc' = "off"
    /\ UNCHANGED <<holderVars, m_sem, sender, cur, history>>

-----------------------------------------------------------------------------
\* Load: Module::init, then pthread_create

initTrigger ==
    /\ starts < MaxStarts
    /\ Ctl("stopped", "assert")
    /\ reinit
    /\ UNCHANGED <<holderVars, mainPc, sender, cur, history>>

\* BOOST_ASSERT(isStopped() == false)
initAssert ==
    /\ \/ Ctl("assert", "startHolder") /\ busy
       \/ Ctl("assert", "assertT") /\ take
       \/ Ctl("assertT", "assertFailed") /\ post
    /\ UNCHANGED <<holderVars, mainPc, sender, cur, history>>

initHolder ==
    /\ Ctl("startHolder", "create")
    /\ start
    /\ starts' = starts + 1
    /\ UNCHANGED <<m_sem, mainPc, sender, cur, handled, born>>

createThread ==
    /\ Ctl("create", "running")
    /\ mainPc' = "pre"
    /\ UNCHANGED <<holderVars, m_sem, sender, cur, history>>

-----------------------------------------------------------------------------
MainStep ==
    \/ preMainLoop \/ mainCheck \/ mainGet \/ mainWakes
    \/ mainError \/ process \/ postMainLoop
StopStep == stopContainer \/ join
InitStep == initAssert \/ initHolder \/ createThread

Next ==
    \/ MainStep
    \/ spuriousWakeup
    \/ \E s \in Senders : addMessage(s) \/ senderCheck(s)
    \/ stopThread \/ skipStop \/ StopStep
    \/ initTrigger \/ InitStep

Spec == Init /\ [][Next]_vars

\* Threads keep running: the module's thread, a sender inside addMessage, and
\* the controller once it has begun to stop or to start the module.
FairSpec ==
    /\ Spec
    /\ WF_vars(MainStep)
    /\ \A s \in Senders : WF_vars(senderCheck(s))
    /\ WF_vars(StopStep)
    /\ WF_vars(InitStep)

-----------------------------------------------------------------------------
\* Type correctness of the module's state and of the histories.
TypeOK ==
    /\ m_container \in Seq(1..MaxMsgs)
    /\ m_stop \in BOOLEAN /\ m_wait_exit \in BOOLEAN /\ m_wait_loop \in BOOLEAN
    /\ waiters \in SUBSET {main}
    /\ m_sem \in Nat
    /\ mainPc \in MainPc
    /\ ctl \in CtlPc
    /\ sender \in [Senders -> SenderPc]
    /\ cur \in 1..MaxMsgs \cup {NoMsg}
    /\ handled \in Seq(1..MaxMsgs)
    /\ born \in Seq(Nat) /\ Len(born) <= MaxMsgs
    /\ starts \in Nat

\* No lost wakeup: when the module's thread is blocked in get() there is no
\* message to get and no wakeup it has missed (m_wait_loop tells add() and
\* stop() about every sleeper, messageholder.cpp:140 and 209).
NoLostWakeup ==
    main \in waiters => empty /\ ~m_wait_exit /\ m_wait_loop

Ordered(s) == \A i, j \in DOMAIN s : i < j => s[i] < s[j]

\* Messages are handled in the order in which addMessage accepted them and
\* none is handled twice, over restarts too.
InOrder ==
    /\ Ordered(handled) /\ Ordered(m_container)
    /\ \A i \in DOMAIN handled, j \in DOMAIN m_container : handled[i] < m_container[j]
    /\ cur # NoMsg => /\ \A i \in DOMAIN handled : handled[i] < cur
                      /\ \A j \in DOMAIN m_container : cur < m_container[j]

\* A module's thread that has exited has left nothing behind in the holder: it
\* is not in the wait set and the next start() does not meet a waiting get().
ExitedIsNotWaiting ==
    mainPc \in {"off", "pre", "exited"} => waiters = {} /\ ~m_wait_loop /\ ~m_wait_exit

\* A stop() throws the waiting messages away: what was accepted before its
\* clear is never processed by a later incarnation of the module.  (start()
\* keeps what was accepted between the clear and the flag.)
RestartIsClean ==
    mainPc = "process" => born[cur] >= starts

\* Every accepted message is taken by the module's thread unless the module
\* is stopped.
MessagesTaken ==
    \A m \in 1..MaxMsgs :
        (\E i \in DOMAIN m_container : m_container[i] = m)
            ~> (m_stop \/ mainPc \in {"post", "exited"} \/ \A i \in DOMAIN m_container : m_container[i] # m)

\* The mailbox of the module implements the abstract one.
Mail == INSTANCE Mailbox WITH
    None <- NoMsg, open <- ~m_stop, posted <- Len(born),
    queue <- m_container, inHand <- cur, done <- handled

ImplementsMailbox == Mail!Spec

-----------------------------------------------------------------------------
\* What messageholder.h says of get(): "the method will wait until stop or
\* add will be called".  Once the holder is stopped no get() sleeps for ever.
GetEndsAfterStop ==
    (m_stop /\ mainPc = "asleep") ~> mainPc # "asleep"

=============================================================================
