----------------------------- MODULE Connections -----------------------------
(****************************************************************************)
(* The threads of the HTTP streamer (src/app/http-streamer): the out thread *)
(* accepts clients and starts a connection thread for each; the input       *)
(* thread of a route reads the stream and hands it to the connections of    *)
(* its path; connection threads cannot join themselves, so they are queued  *)
(* for the stop thread; the module's main thread adds and deletes routes    *)
(* and stops everything at the end.                                         *)
(*                                                                          *)
(* The model has one route.  Clients ask for its path as it is configured,  *)
(* or with other slashes around it: the input is found for both, but it     *)
(* sends data to, and stops, the former only.  Critical sections of the     *)
(* container locks are single steps.  The triggers of the connection        *)
(* container and of the scheduler are semaphores, of which a client inside  *)
(* isStopped() holds the token: meanwhile others take them for not stopped. *)
(* Module UdpInput has the semaphore by which UDP inputs count connections. *)
(****************************************************************************)
EXTENDS Event, Naturals, Sequences, FiniteSets

CONSTANTS
    Conns,      \* connection threads
    Inputs,     \* InThread objects, a new one each time the route is added
    None,       \* no connection, no input
    Out,        \* the out thread
    Stopper     \* the stop thread

Main == "main"      \* the module's main thread

ASSUME ConnectionsAssumption ==
    /\ IsFiniteSet(Conns)
    /\ None \notin Conns \cup Inputs
    /\ Conns \cap Inputs = {}
    /\ {Out, Stopper, Main} \cap (Conns \cup Inputs \cup {None}) = {}
    /\ Out # Stopper /\ Main \notin {Out, Stopper}

VARIABLES
    m_list,     \* ConnectThreadContainer: the connections it knows
    conStop,    \* ConnectThreadContainer: semaphore of the trigger
    inlist,     \* InThreadContainer: the input of the path
    m_data,     \* StopThread: the queue
    m_wait,     \* StopThread: the Event
    missed,     \* history: queued, or the stop thread if it was stopped, when
                \* the stop thread was between its test and its wait
    m_threads,  \* base::Scheduler: the registered threads, the newest first
    schedStop,  \* base::Scheduler: semaphore of the trigger
    stopped,    \* threads whose trigger was stopped
    pc,         \* where each thread is
    m_path,     \* connections whose path is that of the route with the same slashes
    in,         \* the input each connection is served by
    cur,        \* the thread the stop thread, the out thread, main work on
    copy,       \* threads base::Scheduler::stop() has yet to stop
    hung,       \* running connections stopped by the hang-up detection
    late        \* history: running connections started after copy was made

vars == <<m_list, conStop, inlist, m_data, m_wait, missed, m_threads, schedStop, stopped, pc, m_path,
          in, cur, copy, hung, late>>
listVars == <<m_list, conStop, inlist>>
queueVars == <<m_data, m_wait, missed>>
schedVars == <<m_threads, schedStop, copy>>
connVars == <<m_path, in>>
histVars == <<hung, late>>
Threads == Conns \cup Inputs \cup {Out, Stopper}

Init ==
    /\ m_list = {} /\ conStop = 0 /\ inlist = None
    /\ m_data = <<>> /\ m_wait = NewEvent /\ missed = {}
    /\ m_threads = <<Out, Stopper>> /\ schedStop = 0 /\ copy = <<>>
    /\ stopped = {}
    /\ pc = [t \in Threads \cup {Main} |->
                CASE t \in Conns \cup Inputs -> "new" [] t = Stopper -> "check" [] OTHER -> "idle"]
    /\ m_path = {}
    /\ in = [c \in Conns |-> None]
    /\ cur = [t \in {Out, Stopper, Main} |-> None]
    /\ hung = {} /\ late = {}

Goto(t, from, to) == pc[t] = from /\ pc' = [pc EXCEPT ![t] = to]
Hold(t, x) == cur' = [cur EXCEPT ![t] = x]
Registered(t) == \E k \in DOMAIN m_threads : m_threads[k] = t
\* the list without the entry of t, if it has one
Without(s, t) ==
    IF \E k \in DOMAIN s : s[k] = t
    THEN LET k == CHOOSE k \in DOMAIN s : s[k] = t
         IN  SubSeq(s, 1, k - 1) \o SubSeq(s, k + 1, Len(s))
    ELSE s
Alive(t) == pc[t] \notin {"new", "listed", "exited"}

-----------------------------------------------------------------------------
\* stopWait() of the stop thread's event finds nobody in the wait
Unaware == pc[Stopper] \in {"check", "wait"}

\* StopThread::addConnectThread for a sequence of connections
addConnectThread(s) ==
    /\ m_data' = m_data \o s
    /\ m_wait' = IF s = <<>> THEN m_wait ELSE StopWait(m_wait)
    /\ missed' = IF Unaware THEN missed \cup {s[k] : k \in DOMAIN s} ELSE missed

\* ConnectThreadContainer::stopThreads: the connections whose path is equal to
\* that of the input
stopThreads ==
    LET S == m_list \cap m_path
    IN  /\ \E s \in [1..Cardinality(S) -> S] : {s[k] : k \in DOMAIN s} = S /\ addConnectThread(s)
        /\ m_list' = m_list \ S

-----------------------------------------------------------------------------
\* the bug of a thread that runs before the scheduler has it in its list
startLate ==
    \/ \E c \in Conns :
          /\ pc[Out] = "idle" /\ pc[c] = "new"
          /\ conStop = 0 /\ m_list' = m_list \cup {c} /\ Hold(Out, c)
          /\ pc' = [pc EXCEPT ![c] = "request", ![Out] = "start"]
          /\ UNCHANGED <<conStop, inlist, queueVars, schedVars, stopped, connVars, histVars>>
    \/ /\ Goto(Out, "start", "idle") /\ Hold(Out, None)
       /\ m_threads' = <<cur[Out]>> \o m_threads
       /\ UNCHANGED <<listVars, queueVars, schedStop, copy, stopped, connVars, histVars>>

\* OutThread::start, startConnectThread: dropped if the container is stopped, else
\* into the list, and then to the scheduler
startConnectThread ==
    /\ \/ \E c \in Conns :
             /\ pc[Out] = "idle" /\ pc[c] = "new" /\ conStop = 0
             /\ m_list' = m_list \cup {c} /\ Hold(Out, c)
             /\ pc' = [pc EXCEPT ![c] = "listed", ![Out] = "start"]
             /\ UNCHANGED conStop
       \/ /\ Goto(Out, "idle", "asked") /\ conStop > 0 /\ conStop' = conStop - 1
          /\ UNCHANGED <<m_list, cur>>
       \/ Goto(Out, "asked", "idle") /\ conStop' = conStop + 1 /\ UNCHANGED <<m_list, cur>>
    /\ UNCHANGED <<inlist, queueVars, schedVars, stopped, connVars, histVars>>

\* base::Scheduler::startThread: registers and creates the thread under one lock,
\* or ignores it when the scheduler is stopped
startThread ==
    /\ \/ /\ pc[Out] = "start" /\ schedStop = 0 /\ Hold(Out, None)
          /\ m_threads' = <<cur[Out]>> \o m_threads
          /\ pc' = [pc EXCEPT ![Out] = "idle", ![cur[Out]] = "request"]
          /\ late' = IF pc[Main] \in {"next", "join"} THEN late \cup {cur[Out]} ELSE late
          /\ UNCHANGED schedStop
       \/ /\ Goto(Out, "start", "refused") /\ schedStop > 0 /\ schedStop' = schedStop - 1
          /\ UNCHANGED <<m_threads, cur, late>>
       \/ /\ Goto(Out, "refused", "idle") /\ schedStop' = schedStop + 1 /\ Hold(Out, None)
          /\ UNCHANGED <<m_threads, late>>
    /\ UNCHANGED <<listVars, queueVars, copy, stopped, connVars, hung>>

outEnds ==
    /\ Out \in stopped /\ Goto(Out, "idle", "exited")
    /\ UNCHANGED <<listVars, queueVars, schedVars, stopped, connVars, cur, histVars>>

OutStep == startConnectThread \/ startThread \/ outEnds

-----------------------------------------------------------------------------
\* processRequest, parseRequest: no request comes, or a bad one; the path is
\* already set when the HTTP version turns out to be bad; or the request is good,
\* for whatever path
processRequest(c) ==
    /\ Goto(c, "request", "notify") \/ Goto(c, "request", "lookup")
    /\ m_path' \in {m_path, m_path \cup {c}}
    /\ UNCHANGED <<listVars, queueVars, schedVars, stopped, in, cur, histVars>>

\* getInThread, processResponse: NOT_FOUND if the path has no input, which is
\* looked up with the slashes trimmed; else OK, or an exception without reader or
\* client, or the end for a HEAD
processResponse(c) ==
    /\ \/ Goto(c, "lookup", "notify") /\ UNCHANGED in
       \/ inlist # None /\ Goto(c, "lookup", "serving") /\ in' = [in EXCEPT ![c] = inlist]
    /\ UNCHANGED <<listVars, queueVars, schedVars, stopped, m_path, cur, histVars>>

\* processData: stopped, or the client leaves, or no data within the interval
processData(c) ==
    /\ Goto(c, "serving", "notify") /\ in' = [in EXCEPT ![c] = None]
    /\ UNCHANGED <<listVars, queueVars, schedVars, stopped, m_path, cur, histVars>>

\* notifyStopConnectThread
notifyStop(c) ==
    /\ \/ /\ Goto(c, "notify", "tail") /\ conStop = 0 /\ UNCHANGED conStop
          /\ IF c \notin m_list THEN UNCHANGED <<queueVars, m_list>>
             ELSE addConnectThread(<<c>>) /\ m_list' = m_list \ {c}
       \/ /\ Goto(c, "notify", "asked") /\ conStop > 0 /\ conStop' = conStop - 1
          /\ UNCHANGED <<queueVars, m_list>>
       \/ Goto(c, "asked", "tail") /\ conStop' = conStop + 1 /\ UNCHANGED <<queueVars, m_list>>
    /\ UNCHANGED <<inlist, schedVars, stopped, connVars, cur, histVars>>

\* the rest of start() and of start_thread()
connectionEnds(c) ==
    /\ Goto(c, "tail", "exited") /\ hung' = hung \ {c} /\ late' = late \ {c}
    /\ UNCHANGED <<listVars, queueVars, schedVars, stopped, connVars, cur>>

ConnStep(c) ==
    \/ processRequest(c) \/ processResponse(c)
    \/ processData(c) \/ notifyStop(c) \/ connectionEnds(c)

-----------------------------------------------------------------------------
\* InThread::start, doLoop: a stopped input leaves the loops
inLoop(i) ==
    /\ i \in stopped
    /\ Goto(i, "read", "exited") \/ Goto(i, "final", "exited")
    /\ UNCHANGED <<listVars, queueVars, schedVars, stopped, connVars, cur, histVars>>

\* doLoopAction: data for the connections with the path, one of which may have
\* hung up; or an exception of the reader
doLoopAction(i) ==
    /\ \/ Goto(i, "read", "final") /\ UNCHANGED <<conStop, stopped, hung>>
       \/ /\ pc[i] = "read" /\ conStop = 0
          /\ \E c \in m_list \cap m_path :
                stopped' = stopped \cup {c} /\ hung' = hung \cup ({c} \ stopped)
          /\ UNCHANGED <<pc, conStop>>
       \/ /\ Goto(i, "read", "asked") /\ conStop > 0 /\ conStop' = conStop - 1
          /\ UNCHANGED <<stopped, hung>>
       \/ Goto(i, "asked", "read") /\ conStop' = conStop + 1 /\ UNCHANGED <<stopped, hung>>
    /\ UNCHANGED <<m_list, inlist, queueVars, schedVars, connVars, cur, late>>

\* The end of a round of InThread::start: the connections of the path are
\* stopped, the input is looked up by its path; not finding itself it dies
finalClearing(i) ==
    /\ \/ i \notin stopped /\ Goto(i, "final", "self") /\ UNCHANGED <<m_list, queueVars>>
       \/ inlist = i /\ Goto(i, "self", "read") /\ stopThreads
       \/ inlist # i /\ Goto(i, "self", "exited") /\ UNCHANGED <<m_list, queueVars>>
    /\ UNCHANGED <<conStop, inlist, schedVars, stopped, connVars, cur, histVars>>

InputStep(i) == inLoop(i) \/ finalClearing(i)

-----------------------------------------------------------------------------
\* the bug of a drain that takes one connection for each wakeup
drainOne ==
    /\ \/ Stopper \in stopped /\ Goto(Stopper, "check", "exited") /\ UNCHANGED <<queueVars, cur>>
       \/ Stopper \notin stopped /\ Goto(Stopper, "check", "wait") /\ UNCHANGED <<queueVars, cur>>
       \/ /\ Goto(Stopper, "wait", "asleep")
          /\ m_wait' = Block(m_wait) /\ UNCHANGED <<m_data, missed, cur>>
       \/ /\ Goto(Stopper, "asleep", "drain") /\ ~m_wait.blocked
          /\ m_wait' = Leave(m_wait) /\ UNCHANGED <<m_data, missed, cur>>
       \/ Goto(Stopper, "drain", "check") /\ UNCHANGED <<queueVars, cur>>
       \/ /\ m_data # <<>> /\ Stopper \notin stopped /\ Goto(Stopper, "drain", "info")
          /\ Hold(Stopper, Head(m_data)) /\ m_data' = Tail(m_data)
          /\ missed' = missed \ {Head(m_data)} /\ UNCHANGED m_wait
    /\ UNCHANGED <<listVars, schedVars, stopped, connVars, histVars>>

\* StopThread::start: the loop, the wait, the queue
stopThreadLoop ==
    /\ \/ Stopper \in stopped /\ Goto(Stopper, "check", "exited") /\ UNCHANGED <<queueVars, cur>>
       \/ Stopper \notin stopped /\ Goto(Stopper, "check", "wait") /\ UNCHANGED <<queueVars, cur>>
       \/ /\ Goto(Stopper, "wait", "asleep")
          /\ m_wait' = Block(m_wait) /\ UNCHANGED <<m_data, missed, cur>>
       \/ /\ Goto(Stopper, "asleep", "drain") /\ ~m_wait.blocked
          /\ m_wait' = Leave(m_wait) /\ UNCHANGED <<m_data, missed, cur>>
       \/ /\ m_data = <<>> \/ Stopper \in stopped
          /\ Goto(Stopper, "drain", "check") /\ UNCHANGED <<queueVars, cur>>
       \/ /\ m_data # <<>> /\ Stopper \notin stopped /\ Goto(Stopper, "drain", "info")
          /\ Hold(Stopper, Head(m_data)) /\ m_data' = Tail(m_data)
          /\ missed' = missed \ {Head(m_data)} /\ UNCHANGED m_wait
    /\ UNCHANGED <<listVars, schedVars, stopped, connVars, histVars>>

\* base::Scheduler::stopThread of a connection: nothing if the scheduler is
\* stopped, an exception, which start() catches, if it is not registered
stopThread ==
    /\ \/ Goto(Stopper, "info", "getInfo") /\ schedStop = 0 /\ UNCHANGED <<schedStop, cur>>
       \/ /\ Goto(Stopper, "info", "ask") /\ schedStop > 0 /\ schedStop' = schedStop - 1
          /\ UNCHANGED cur
       \/ Goto(Stopper, "ask", "drain") /\ schedStop' = schedStop + 1 /\ Hold(Stopper, None)
       \/ Registered(cur[Stopper]) /\ Goto(Stopper, "getInfo", "tell") /\ UNCHANGED <<schedStop, cur>>
       \/ /\ ~Registered(cur[Stopper]) /\ Goto(Stopper, "getInfo", "check")
          /\ Hold(Stopper, None) /\ UNCHANGED schedStop
    /\ UNCHANGED <<listVars, queueVars, m_threads, copy, stopped, connVars, histVars>>

\* the bug of not waiting for the end of the thread
noJoin ==
    LET c == cur[Stopper]
    IN  /\ \/ c \in stopped /\ Goto(Stopper, "tell", "erase") /\ UNCHANGED <<stopped, hung>>
           \/ c \notin stopped /\ Goto(Stopper, "tell", "stop") /\ UNCHANGED <<stopped, hung>>
           \/ Goto(Stopper, "stop", "erase") /\ stopped' = stopped \cup {c} /\ UNCHANGED hung
        /\ UNCHANGED <<listVars, queueVars, schedVars, connVars, cur, late>>

\* stopThreadByInfo of a connection, not joined if it is stopped already.  The
\* join is refused while the main thread joins the same thread
stopThreadByInfo ==
    LET c == cur[Stopper]
    IN  /\ \/ c \in stopped /\ Goto(Stopper, "tell", "erase") /\ UNCHANGED <<stopped, hung>>
           \/ c \notin stopped /\ Goto(Stopper, "tell", "stop") /\ UNCHANGED <<stopped, hung>>
           \/ /\ Goto(Stopper, "stop", "join") /\ stopped' = stopped \cup {c}
              /\ hung' = hung \ {c}
           \/ /\ Goto(Stopper, "join", "erase") /\ UNCHANGED <<stopped, hung>>
              /\ pc[c] = "exited" \/ (pc[Main] = "join" /\ cur[Main] = c)
        /\ UNCHANGED <<listVars, queueVars, schedVars, connVars, cur, late>>

eraseThread ==
    /\ Goto(Stopper, "erase", "drain") /\ Hold(Stopper, None)
    /\ m_threads' = Without(m_threads, cur[Stopper])
    /\ UNCHANGED <<listVars, queueVars, schedStop, copy, stopped, connVars, histVars>>

StopperStep == stopThreadLoop \/ stopThread \/ stopThreadByInfo \/ eraseThread

-----------------------------------------------------------------------------
\* InThreadContainer::addInfo: a new input, started and listed under the lock
addInfo ==
    /\ pc[Main] = "idle" /\ inlist = None
    /\ \E i \in Inputs :
          /\ pc[i] = "new" /\ pc' = [pc EXCEPT ![i] = "read"]
          /\ inlist' = i /\ m_threads' = <<i>> \o m_threads
    /\ UNCHANGED <<m_list, conStop, queueVars, schedStop, copy, stopped, connVars, cur, histVars>>

\* stop() of a thread: its trigger, and the event of the stop thread
stopOf(t) ==
    /\ stopped' = stopped \cup {t}
    /\ m_wait' = IF t = Stopper THEN StopWait(m_wait) ELSE m_wait
    /\ missed' = IF t = Stopper /\ pc[Stopper] = "wait" THEN missed \cup {t} ELSE missed

\* the bug of looking at the connections before the input is unlisted
connsFirst ==
    /\ \/ /\ inlist # None /\ Goto(Main, "idle", "delJoin") /\ Hold(Main, inlist) /\ stopOf(inlist)
          /\ UNCHANGED <<m_list, inlist, m_data, m_threads>>
       \/ /\ Goto(Main, "delJoin", "delConns") /\ pc[cur[Main]] = "exited" /\ stopThreads
          /\ m_threads' = Without(m_threads, cur[Main])
          /\ UNCHANGED <<inlist, stopped, cur>>
       \/ /\ Goto(Main, "delConns", "idle") /\ inlist' = None /\ Hold(Main, None)
          /\ UNCHANGED <<m_list, queueVars, m_threads, stopped>>
    /\ UNCHANGED <<conStop, schedStop, copy, connVars, histVars>>

\* InThreadContainer::delInfo: stop and join the input, unlist it, then stop the
\* connections of its path
delInfo ==
    /\ \/ /\ inlist # None /\ Goto(Main, "idle", "delJoin") /\ Hold(Main, inlist) /\ stopOf(inlist)
          /\ UNCHANGED <<m_list, inlist, m_data, m_threads>>
       \/ /\ Goto(Main, "delJoin", "delConns") /\ pc[cur[Main]] = "exited"
          /\ m_threads' = Without(m_threads, cur[Main]) /\ inlist' = None
          /\ UNCHANGED <<m_list, queueVars, stopped, cur>>
       \/ /\ Goto(Main, "delConns", "idle") /\ stopThreads /\ Hold(Main, None)
          /\ UNCHANGED <<inlist, m_threads, stopped>>
    /\ UNCHANGED <<conStop, schedStop, copy, connVars, histVars>>

\* Factory::stop, base::Scheduler::stop: the triggers of the container and of the
\* scheduler, a copy of the list; at the end the list is cleared
stop ==
    /\ \/ /\ Goto(Main, "idle", "schedStop") /\ conStop' = conStop + 1
          /\ UNCHANGED <<m_threads, schedStop, copy>>
       \/ /\ Goto(Main, "schedStop", "schedCopy") /\ schedStop' = schedStop + 1
          /\ UNCHANGED <<conStop, m_threads, copy>>
       \/ /\ Goto(Main, "schedCopy", "next") /\ copy' = m_threads
          /\ UNCHANGED <<conStop, m_threads, schedStop>>
       \/ /\ copy = <<>> /\ Goto(Main, "next", "clear") /\ m_threads' = <<>>
          /\ UNCHANGED <<conStop, schedStop, copy>>
    /\ UNCHANGED <<m_list, inlist, queueVars, stopped, connVars, cur, histVars>>

\* stopThreadByInfo for the threads of the copy: those that are stopped already
\* are not joined.  (Test and stop() in one step: what stops the thread in between
\* may as well do so right after.)
stopNext ==
    /\ \/ /\ pc[Main] = "next" /\ copy # <<>> /\ copy' = Tail(copy)
          /\ IF Head(copy) \in stopped THEN UNCHANGED <<pc, cur, stopped, m_wait, missed>>
             ELSE Goto(Main, "next", "join") /\ Hold(Main, Head(copy)) /\ stopOf(Head(copy))
       \/ /\ Goto(Main, "join", "next") /\ Hold(Main, None)
          /\ pc[cur[Main]] = "exited" \/ (pc[Stopper] = "join" /\ cur[Stopper] = cur[Main])
          /\ UNCHANGED <<copy, stopped, m_wait, missed>>
    /\ UNCHANGED <<listVars, m_data, m_threads, schedStop, connVars, histVars>>

\* Factory::clear: the containers and the threads of the factory
clear ==
    /\ Goto(Main, "clear", "done")
    /\ m_list' = {} /\ inlist' = None /\ m_data' = <<>>
    /\ UNCHANGED <<conStop, m_wait, missed, schedVars, stopped, connVars, cur, histVars>>

Next ==
    \/ OutStep
    \/ \E c \in Conns : ConnStep(c)
    \/ \E i \in Inputs : InputStep(i) \/ doLoopAction(i)
    \/ StopperStep
    \/ addInfo \/ delInfo \/ stop \/ stopNext \/ clear

Spec == Init /\ [][Next]_vars

-----------------------------------------------------------------------------
\* stopThread() never throws in the stop thread: although a connection is listed
\* before it is registered with the scheduler (conthread.cpp:542), it is
\* registered by the time it can be queued; and it is erased only once, also when
\* base::Scheduler::stop() clears the list behind an isStopped() that was false.
StopNeverThrows == pc[Stopper] = "getInfo" => Registered(cur[Stopper])

\* "now stop all connection threads associate with the current input thread"
\* (inthread.cpp:437): when delInfo() is over, no connection that asked for the
\* path as configured and is served by the deleted input is left in the list,
\* however late it was with its request.  (Not so for one that asked with other
\* slashes: getThreadByPath() trims them, inthread.cpp:382, and stopThreads()
\* compares the paths as they are, conthread.cpp:581.)
OrphansAreStopped ==
    \A c \in m_list \cap m_path :
        in[c] \notin {None, inlist} => pc[Main] = "delConns"

\* A connection thread that runs is referred to by a list, the scheduler or the
\* queue, so its object exists, also when the factory has been cleared; unless
\* the hang-up detection has stopped it: then the scheduler takes it for finished
\* and does not join (scheduler.cpp:352); or it was started after base::Scheduler::
\* stop() had made its copy, by the out thread that asked while the stop thread
\* had the token of m_stop (scheduler.cpp:235, :269).
NoUseAfterFree ==
    \A c \in Conns : Alive(c) =>
        \/ Registered(c) \/ c \in m_list \cup hung \cup late
        \/ \E j \in DOMAIN m_data : m_data[j] = c
        \/ \E t \in {Out, Stopper, Main} : cur[t] = c

\* The stop thread does not sleep next to a queue or to its own stop(), but for
\* what came after it had looked at its trigger (stopthread.cpp:62) and before it
\* was in its wait (:64): such a connection stays until the next one comes, and
\* such a stop() is never seen, so that Factory::stop() joins for ever.
SleepsOnlyUnaware ==
    m_wait.blocked =>
        /\ \A j \in DOMAIN m_data : m_data[j] \in missed
        /\ Stopper \in stopped => Stopper \in missed

=============================================================================
