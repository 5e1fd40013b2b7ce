------------------------------ MODULE Scheduler ------------------------------
(****************************************************************************)
(* klk::base::Scheduler (src/common/scheduler.cpp): starts, stops and joins *)
(* the threads of modules and applications.  Its own m_lock guards the list *)
(* m_threads, but stopping and joining happen outside it, and the stop      *)
(* triggers (of the scheduler and of each thread) are semaphores whose      *)
(* isStopped() takes a token and gives it back in a second step.            *)
(*                                                                          *)
(* A managed thread object may be started again after it was erased from    *)
(* the list; each start creates a pthread with a new id.  Any client may    *)
(* start and stop any object.  Two things go wrong then, and the histories  *)
(* `contested` and `late` record them: two stopThread() calls for the same  *)
(* object overlap, and the second one erases whatever the list then has of  *)
(* it; and a client inside isStopped() has the token of m_stop in its       *)
(* hands, so that a startThread() finds the scheduler not stopped after     *)
(* stop() has taken its copy of the list.                                   *)
(****************************************************************************)
EXTENDS Naturals, FiniteSets

CONSTANTS
    Threads,     \* managed IThread objects
    Starters,    \* client threads that call startThread
    Stoppers,    \* client threads that call stopThread
    StopAlls,    \* the client thread that calls stop(), once, as its last call
    MaxLives,    \* bound on the pthreads created for one object
    MaxStarts    \* bound on the pthreads created for all of them

Clients == Starters \cup Stoppers \cup StopAlls

ASSUME SchedulerAssumption ==
    /\ MaxLives \in Nat \ {0} /\ MaxStarts \in Nat
    /\ \A c, d \in StopAlls : c = d
    /\ StopAlls \cap (Starters \cup Stoppers) = {}
    /\ "free" \notin Clients

VARIABLES
    m_threads,   \* the list: id of the pthread per listed object, 0 if absent
    m_stop,      \* semaphore of the scheduler's trigger
    m_lock,      \* holder of the lock between two steps, or "free"
    sem,         \* semaphore of each object's trigger
    lives,       \* pthreads created for each object so far
    life,        \* life[t][i]: "no", "loop", "seen" (has the token), "exited"
    pc,          \* where each client is
    info,        \* the ThreadInfo each client works on: <<object, id>>
    todo,        \* ThreadInfos of the copy of the list stop() has still to handle
    contested,   \* history: objects for which two stopThread() calls overlapped
    late         \* history: objects started when stop() had its copy of the list and
                 \* another client was inside isStopped()

vars == <<m_threads, m_stop, m_lock, sem, lives, life, pc, info, todo, contested, late>>
threadVars == <<sem, lives, life>>
histories == <<contested, late>>

Ids == 1..MaxLives
NoInfo == <<"none", 0>>
Infos == Threads \X Ids
Listed == {i \in Infos : m_threads[i[1]] = i[2]}
Created == {i \in Infos : life[i[1]][i[2]] # "no"}
Running(t) == {i \in Ids : life[t][i] \in {"loop", "seen"}}

\* A client that is past getThreadInfo() has a ThreadInfo in its hands.
Works(c) == pc[c] \in {"byInfo", "byInfoT", "stop", "join", "done"}

\* Neither has happened to the object.
Regular(t) == t \notin contested /\ t \notin late

\* stop() has its copy of the list, and a client in isStopped() has the token.
Slips ==
    /\ \E a \in StopAlls : pc[a] \notin {"idle", "copy"}
    /\ \E c \in Stoppers : pc[c] = "ignoredT"

Init ==
    /\ m_threads = [t \in Threads |-> 0]
    /\ m_stop = 0
    /\ m_lock = "free"
    /\ sem = [t \in Threads |-> 0]
    /\ lives = [t \in Threads |-> 0]
    /\ life = [t \in Threads |-> [i \in Ids |-> "no"]]
    /\ pc = [c \in Clients |-> "idle"]
    /\ info = [c \in Clients |-> NoInfo]
    /\ todo = [c \in Clients |-> {}]
    /\ contested = {} /\ late = {}

Goto(c, from, to) == pc[c] = from /\ pc' = [pc EXCEPT ![c] = to]
Free == m_lock = "free"

-----------------------------------------------------------------------------
\* init() (the trigger is created anew), pthread_create and push
create(t) ==
    /\ lives[t] < MaxLives /\ Cardinality(Created) < MaxStarts
    /\ sem' = [sem EXCEPT ![t] = 0]
    /\ lives' = [lives EXCEPT ![t] = @ + 1]
    /\ life' = [life EXCEPT ![t][lives[t] + 1] = "loop"]
    /\ m_threads' = [m_threads EXCEPT ![t] = lives[t] + 1]
    /\ late' = IF Slips THEN late \cup {t} ELSE late
    /\ UNCHANGED <<m_stop, m_lock, pc, info, todo, contested>>

\* the bug of a scheduler that does not look for the thread in its list
startTwice(c, t) ==
    /\ Free /\ pc[c] = "idle"
    /\ m_stop = 0
    /\ create(t)

\* the bug of a scheduler that starts threads after stop()
startAlways(c, t) ==
    /\ Free /\ pc[c] = "idle"
    /\ m_threads[t] = 0
    /\ create(t)

\* startThread, all under m_lock: isStopped() finds no token in m_stop and the
\* object is not listed.
startThread(c, t) ==
    /\ Free /\ pc[c] = "idle"
    /\ m_stop = 0
    /\ m_threads[t] = 0
    /\ create(t)

\* startThread of a stopped scheduler: isStopped() takes the token and gives it
\* back, nothing is started
startRefused(c) ==
    /\ \/ Goto(c, "idle", "refusedT") /\ Free /\ m_stop > 0 /\ m_stop' = m_stop - 1 /\ m_lock' = c
       \/ Goto(c, "refusedT", "idle") /\ m_stop' = m_stop + 1 /\ m_lock' = "free"
    /\ UNCHANGED <<m_threads, threadVars, info, todo, histories>>

-----------------------------------------------------------------------------
\* stopThread: isStopped() of the scheduler, without the lock
stopThread(c) ==
    /\ \/ Goto(c, "idle", "getInfo") /\ m_stop = 0 /\ UNCHANGED m_stop
       \/ Goto(c, "idle", "ignoredT") /\ m_stop > 0 /\ m_stop' = m_stop - 1
       \/ Goto(c, "ignoredT", "idle") /\ m_stop' = m_stop + 1
    /\ UNCHANGED <<m_threads, m_lock, threadVars, info, todo, histories>>

\* getThreadInfo: an exception if the thread is not in the list
getThreadInfo(c, t) ==
    /\ Free
    /\ IF m_threads[t] = 0
       THEN Goto(c, "getInfo", "idle") /\ UNCHANGED <<info, contested>>
       ELSE /\ Goto(c, "getInfo", "byInfo")
            /\ info' = [info EXCEPT ![c] = <<t, m_threads[t]>>]
            /\ contested' = IF \E d \in Stoppers : Works(d) /\ info[d][1] = t
                            THEN contested \cup {t} ELSE contested
    /\ UNCHANGED <<m_threads, m_stop, m_lock, threadVars, todo, late>>

\* eraseThread: the entry of the object, whatever its id
eraseThread(c) ==
    /\ Free
    /\ c \in Stoppers /\ Goto(c, "done", "idle")
    /\ m_threads' = [m_threads EXCEPT ![info[c][1]] = 0]
    /\ info' = [info EXCEPT ![c] = NoInfo]
    /\ UNCHANGED <<m_stop, m_lock, threadVars, todo, histories>>

-----------------------------------------------------------------------------
\* the bug of a stopThreadByInfo that does not join
noJoin(c) ==
    LET t == info[c][1]
        i == info[c][2]
    IN  /\ \/ Goto(c, "byInfo", "stop") /\ sem[t] = 0 /\ UNCHANGED sem
           \/ Goto(c, "byInfo", "byInfoT") /\ sem[t] > 0 /\ sem' = [sem EXCEPT ![t] = @ - 1]
           \/ Goto(c, "byInfoT", "done") /\ sem' = [sem EXCEPT ![t] = @ + 1]
           \/ Goto(c, "stop", "done") /\ sem' = [sem EXCEPT ![t] = @ + 1]
        /\ UNCHANGED <<m_threads, m_stop, m_lock, lives, life, info, todo, histories>>

\* the bug of a stopThreadByInfo that joins without stop()
noStop(c) ==
    LET t == info[c][1]
        i == info[c][2]
    IN  /\ \/ Goto(c, "byInfo", "join") /\ UNCHANGED sem
           \/ Goto(c, "join", "done") /\ life[t][i] = "exited" /\ UNCHANGED sem
        /\ UNCHANGED <<m_threads, m_stop, m_lock, lives, life, info, todo, histories>>

\* stopThreadByInfo, without the lock: already stopped, then no join; else
\* stop() and join, which glibc refuses while another thread joins the same one
stopThreadByInfo(c) ==
    LET t == info[c][1]
        i == info[c][2]
    IN  /\ \/ Goto(c, "byInfo", "stop") /\ sem[t] = 0 /\ UNCHANGED sem
           \/ Goto(c, "byInfo", "byInfoT") /\ sem[t] > 0 /\ sem' = [sem EXCEPT ![t] = @ - 1]
           \/ Goto(c, "byInfoT", "done") /\ sem' = [sem EXCEPT ![t] = @ + 1]
           \/ Goto(c, "stop", "join") /\ sem' = [sem EXCEPT ![t] = @ + 1]
           \/ /\ Goto(c, "join", "done") /\ UNCHANGED sem
              /\ \/ life[t][i] = "exited"
                 \/ \E d \in Clients \ {c} : pc[d] = "join" /\ info[d] = info[c]
        /\ UNCHANGED <<m_threads, m_stop, m_lock, lives, life, info, todo, histories>>

-----------------------------------------------------------------------------
\* stop() of all threads: the trigger under the lock; the copy of the list
\* under the lock, taken again; every ThreadInfo without it; then the list is
\* cleared under the lock
stopAll(c) ==
    /\ \/ /\ Goto(c, "idle", "copy") /\ Free
          /\ m_stop' = m_stop + 1
          /\ UNCHANGED <<m_threads, info, todo>>
       \/ /\ Goto(c, "copy", "next") /\ Free
          /\ todo' = [todo EXCEPT ![c] = Listed]
          /\ UNCHANGED <<m_threads, m_stop, info>>
       \/ /\ pc[c] \in {"next", "done"}
          /\ \E i \in todo[c] :
                /\ info' = [info EXCEPT ![c] = i]
                /\ todo' = [todo EXCEPT ![c] = @ \ {i}]
          /\ pc' = [pc EXCEPT ![c] = "byInfo"]
          /\ UNCHANGED <<m_threads, m_stop>>
       \/ /\ pc[c] \in {"next", "done"} /\ todo[c] = {} /\ Free
          /\ pc' = [pc EXCEPT ![c] = "returned"]
          /\ m_threads' = [t \in Threads |-> 0]
          /\ UNCHANGED <<m_stop, info, todo>>
    /\ UNCHANGED <<m_lock, threadVars, histories>>

-----------------------------------------------------------------------------
\* A pthread runs its object's loop while (!isStopped()), or ends by itself
threadLoop(t, i) ==
    /\ \/ /\ life[t][i] = "loop" /\ sem[t] > 0
          /\ sem' = [sem EXCEPT ![t] = @ - 1]
          /\ life' = [life EXCEPT ![t][i] = "seen"]
       \/ /\ life[t][i] = "seen"
          /\ sem' = [sem EXCEPT ![t] = @ + 1]
          /\ life' = [life EXCEPT ![t][i] = "exited"]
    /\ UNCHANGED <<m_threads, m_stop, m_lock, lives, pc, info, todo, histories>>

threadEnds(t, i) ==
    /\ life[t][i] = "loop"
    /\ life' = [life EXCEPT ![t][i] = "exited"]
    /\ UNCHANGED <<m_threads, m_stop, m_lock, sem, lives, pc, info, todo, histories>>

\* The steps of calls that have begun
Step(c) ==
    \/ c \in Starters /\ pc[c] = "refusedT" /\ startRefused(c)
    \/ c \in Stoppers /\ pc[c] = "ignoredT" /\ stopThread(c)
    \/ c \in Stoppers /\ \E t \in Threads : getThreadInfo(c, t)
    \/ stopThreadByInfo(c)
    \/ eraseThread(c)
    \/ c \in StopAlls /\ pc[c] # "idle" /\ stopAll(c)

Next ==
    \/ \E c \in Starters, t \in Threads : startThread(c, t)
    \/ \E c \in Starters : pc[c] = "idle" /\ startRefused(c)
    \/ \E c \in Stoppers : pc[c] = "idle" /\ stopThread(c)
    \/ \E c \in StopAlls : pc[c] = "idle" /\ stopAll(c)
    \/ \E c \in Clients : Step(c)
    \/ \E t \in Threads, i \in Ids : threadLoop(t, i) \/ threadEnds(t, i)

Spec == Init /\ [][Next]_vars

\* Clients finish the calls they have begun, whatever others do with m_lock (a
\* mutex that starves nobody), and threads poll their trigger.
FairSpec ==
    /\ Spec
    /\ \A c \in Clients : SF_vars(Step(c))
    /\ \A t \in Threads, i \in Ids : WF_vars(threadLoop(t, i))

-----------------------------------------------------------------------------
\* An object never runs in two pthreads at once (scheduler.cpp:243 "and only
\* one time"), unless it was contested or started late.
OneLife == \A t \in Threads : Regular(t) => Cardinality(Running(t)) <= 1

\* Every running pthread can be stopped: it is the one in the list, or in the
\* hands of a client that is stopping it, among any number of clients that start
\* and stop.  Only of an object for which two stopThread() calls have overlapped
\* may the list lose a running pthread, and stop() one that was started late.
RunningIsKnown ==
    \A t \in Threads : Regular(t) => \A i \in Running(t) :
        \/ m_threads[t] = i
        \/ \E c \in Clients : info[c] = <<t, i>> \/ <<t, i>> \in todo[c]

\* stop() leaves nothing behind ("Stops all threads", scheduler.h:176): when
\* it has returned a pthread runs only if another client is joining it in
\* stopThread, if it was started late, or if its object was contested.
StopLeavesNothing ==
    \A c \in StopAlls : pc[c] = "returned" =>
        \A t \in Threads : Regular(t) => \A i \in Running(t) :
            \E d \in Stoppers : info[d] = <<t, i>> /\ pc[d] \in {"stop", "join"}

\* The scheduler keeps what ThreadPool promises: a thread starts when the last
\* one of its object has ended, stopThread() does not return before the thread
\* has ended unless stop() of all is joining it, and nothing starts once stop()
\* has begun unless a client is just asking whether it has.
Pool == INSTANCE ThreadPool WITH
    Clients <- Stoppers,
    alive <- {i \in Infos : i[2] \in Running(i[1])},
    waited <- {w \in Stoppers \X Infos :
                  info[w[1]] = w[2] /\ pc[w[1]] \in {"byInfo", "byInfoT", "stop", "join"}},
    asking <- {c \in Stoppers : pc[c] = "ignoredT"},
    state <- IF \A c \in StopAlls : pc[c] = "idle" THEN "open"
             ELSE IF \E c \in StopAlls : pc[c] = "copy" THEN "stopping"
             ELSE IF \E c \in StopAlls : pc[c] = "returned" THEN "closed" ELSE "joining"
ImplementsPool == Pool!Spec

\* A call of stopThread or stop() returns: nobody joins a thread that was not
\* told to stop, unless its trigger was made anew by the start of an object that
\* was contested or of one started late.
StopReturns ==
    \A c \in Clients : pc[c] \in {"byInfo", "join"} ~>
        (pc[c] \in {"idle", "returned"} \/ (pc[c] = "join" /\ ~Regular(info[c][1])))

=============================================================================
