------------------------------ MODULE UdpInput ------------------------------
(****************************************************************************)
(* klk::http::InUDPThread (src/app/http-streamer/inudp.cpp): a UDP input of *)
(* the HTTP streamer joins its multicast group and reads only while it has  *)
(* connections.  A semaphore counts them: a connection posts to it, and     *)
(* then passes m_init_lock, so that it goes on when the input has a reader; *)
(* the input holds that lock while it waits for the first one.              *)
(*                                                                          *)
(* The model has one path.  The input may be deleted and added again, and   *)
(* the streamer may be stopped (base::Scheduler::stop: each thread in turn  *)
(* is told to stop and joined).  How connections are listed, queued and     *)
(* stopped one by one is in module Connections; here a connection may end   *)
(* at any time.                                                             *)
(****************************************************************************)
EXTENDS Naturals, FiniteSets

CONSTANTS
    Conns,      \* connection threads
    Inputs,     \* InUDPThread objects, a new one each time the route is added
    None        \* no thread

ASSUME UdpInputAssumption == None \notin Conns \cup Inputs /\ Conns \cap Inputs = {}

VARIABLES
    pc,         \* where each thread is
    inlist,     \* InThreadContainer: the input of the path
    in,         \* the input each connection has found, until it uncounts itself
    m_sem,      \* the connections, as each input counts them
    m_reader,   \* inputs with a reader
    stopped,    \* threads whose trigger was stopped
    main,       \* where the module's main thread is
    cur,        \* the thread it joins
    left,       \* threads base::Scheduler::stop() has yet to stop
    lost        \* history: a token of m_sem was taken by the wrong party

vars == <<pc, inlist, in, m_sem, m_reader, stopped, main, cur, left, lost>>
mainVars == <<stopped, main, cur, left, inlist>>

Init ==
    /\ pc = [t \in Conns \cup Inputs |-> "new"]
    /\ inlist = None
    /\ in = [c \in Conns |-> None]
    /\ m_sem = [i \in Inputs |-> 0] /\ m_reader = {}
    /\ stopped = {}
    /\ main = "idle" /\ cur = None /\ left = {}
    /\ lost = FALSE

Goto(t, from, to) == pc[t] = from /\ pc' = [pc EXCEPT ![t] = to]
MainGoto(from, to) == main = from /\ main' = to
Post(i) == m_sem' = [m_sem EXCEPT ![i] = @ + 1]
Take(i) == m_sem[i] > 0 /\ m_sem' = [m_sem EXCEPT ![i] = @ - 1]
\* m_init_lock of an input
Locked(i) == pc[i] \in {"semWait", "init"}
\* connections that have posted to the semaphore of an input, and not taken back
Counted(i) == {c \in Conns : in[c] = i /\ pc[c] # "count"}

-----------------------------------------------------------------------------
\* A connection thread is started and has its request: a good one, or one whose
\* HTTP version is bad, which is found when the path is already set
processRequest(c) ==
    /\ main \in {"idle", "delJoin", "delRemove"}
    /\ Goto(c, "new", "lookup") \/ Goto(c, "new", "ending")
    /\ UNCHANGED <<in, m_sem, m_reader, mainVars, lost>>

\* getInThread: the input of the path; NOT_FOUND if there is none
getInThread(c) ==
    /\ \/ inlist = None /\ Goto(c, "lookup", "ending") /\ UNCHANGED in
       \/ inlist # None /\ Goto(c, "lookup", "count") /\ in' = [in EXCEPT ![c] = inlist]
    /\ UNCHANGED <<m_sem, m_reader, mainVars, lost>>

\* increaseConnectionCount: post, then through m_init_lock
increaseConnectionCount(c) ==
    /\ \/ Goto(c, "count", "initLock") /\ Post(in[c])
       \/ Goto(c, "initLock", "reader") /\ ~Locked(in[c]) /\ UNCHANGED m_sem
    /\ UNCHANGED <<in, m_reader, mainVars, lost>>

\* processResponse: an exception without reader or client; a HEAD is done
processResponse(c) ==
    /\ \/ Goto(c, "reader", "ending")
       \/ Goto(c, "reader", "serving") /\ in[c] \in m_reader
    /\ UNCHANGED <<in, m_sem, m_reader, mainVars, lost>>

\* processData: stopped; or the client leaves, or no data within the interval
processDataStopped(c) ==
    /\ c \in stopped /\ Goto(c, "serving", "ending")
    /\ UNCHANGED <<in, m_sem, m_reader, mainVars, lost>>

processDataFails(c) ==
    /\ Goto(c, "serving", "ending")
    /\ UNCHANGED <<in, m_sem, m_reader, mainVars, lost>>

\* The end of ConnectThread::start: decreaseConnectionCount() of the input the
\* path has now; trywait takes a token if there is one
decreaseConnectionCount(c) ==
    /\ Goto(c, "ending", "exited")
    /\ in' = [in EXCEPT ![c] = None]
    /\ IF inlist # None
       THEN \/ Take(inlist) /\ lost' = (lost \/ in[c] # inlist)
            \/ m_sem[inlist] = 0 /\ UNCHANGED <<m_sem, lost>>
       ELSE UNCHANGED <<m_sem, lost>>
    /\ UNCHANGED <<m_reader, mainVars>>

ConnStep(c) ==
    \/ getInThread(c) \/ increaseConnectionCount(c) \/ processResponse(c)
    \/ processDataStopped(c) \/ decreaseConnectionCount(c)

-----------------------------------------------------------------------------
\* InThread::start: while (!isStopped()), resetReader(); doLoop(), in it
\* resetListener(), before m_init_lock is taken
inLoop(i) ==
    /\ \/ i \in stopped /\ Goto(i, "loop", "exited") /\ UNCHANGED m_reader
       \/ i \notin stopped /\ Goto(i, "loop", "initReader") /\ m_reader' = m_reader \ {i}
    /\ UNCHANGED <<in, m_sem, mainVars, lost>>

\* the bug of not giving the token back
initKeepsToken(i) ==
    /\ \/ Goto(i, "initReader", "semWait") /\ UNCHANGED <<m_sem, m_reader>>
       \/ Goto(i, "semWait", "init") /\ Take(i) /\ UNCHANGED m_reader
       \/ i \in stopped /\ Goto(i, "init", "data") /\ UNCHANGED <<m_sem, m_reader>>
       \/ /\ i \notin stopped /\ Goto(i, "init", "data")
          /\ m_reader' = m_reader \cup {i} /\ UNCHANGED m_sem
    /\ UNCHANGED <<in, mainVars, lost>>

\* initReader: m_init_lock; wait for a connection; the listener and the reader,
\* and the token is given back; or an exception, and it is not
initReader(i) ==
    /\ \/ Goto(i, "initReader", "semWait") /\ UNCHANGED <<m_sem, m_reader, lost>>
       \/ Goto(i, "semWait", "init") /\ Take(i) /\ UNCHANGED <<m_reader, lost>>
       \/ i \in stopped /\ Goto(i, "init", "data") /\ UNCHANGED <<m_sem, m_reader, lost>>
       \/ /\ i \notin stopped /\ Goto(i, "init", "data")
          /\ m_reader' = m_reader \cup {i} /\ Post(i) /\ UNCHANGED lost
       \/ /\ i \notin stopped /\ Goto(i, "init", "final")
          /\ lost' = TRUE /\ UNCHANGED <<m_sem, m_reader>>
    /\ UNCHANGED <<in, mainVars>>

\* doLoop: leaves if isLocked(), which takes a token and gives it back
doLoop(i) ==
    /\ \/ i \in stopped /\ Goto(i, "data", "loop") /\ UNCHANGED m_sem
       \/ i \notin stopped /\ m_sem[i] = 0 /\ Goto(i, "data", "final") /\ UNCHANGED m_sem
       \/ i \notin stopped /\ Goto(i, "data", "probe") /\ Take(i)
       \/ Goto(i, "probe", "read") /\ Post(i)
       \/ i \in stopped /\ Goto(i, "read", "data") /\ UNCHANGED m_sem
    /\ UNCHANGED <<in, m_reader, mainVars, lost>>

\* doLoopAction: data comes, or an exception of the reader
doLoopAction(i) ==
    /\ Goto(i, "read", "data") \/ Goto(i, "read", "final")
    /\ UNCHANGED <<in, m_sem, m_reader, mainVars, lost>>

\* The end of a round: the connections of the path are queued for their stop
finalClearing(i) ==
    /\ Goto(i, "final", "loop")
    /\ stopped' = IF i \in stopped THEN stopped
                  ELSE stopped \cup {c \in Conns : pc[c] \notin {"new", "exited"}}
    /\ UNCHANGED <<in, m_sem, m_reader, inlist, main, cur, left, lost>>

InputStep(i) == inLoop(i) \/ initReader(i) \/ doLoop(i) \/ finalClearing(i)

-----------------------------------------------------------------------------
\* addInfo: a new input, started and listed under the lock
addInfo ==
    /\ main = "idle" /\ inlist = None
    /\ \E i \in Inputs : pc[i] = "new" /\ pc' = [pc EXCEPT ![i] = "loop"] /\ inlist' = i
    /\ UNCHANGED <<in, m_sem, m_reader, stopped, main, cur, left, lost>>

\* the bug of a stop() that forgets the wait for connections
stopNoPost(t) == stopped' = stopped \cup {t} /\ UNCHANGED m_sem

\* stop() of a thread; InUDPThread::stop ends the wait for connections
stopOf(t) ==
    /\ stopped' = stopped \cup {t}
    /\ IF t \in Inputs THEN Post(t) ELSE UNCHANGED m_sem

\* delInfo: stop and join the input, unlist it; its connections are queued
delInfo ==
    /\ \/ /\ inlist # None /\ MainGoto("idle", "delJoin") /\ cur' = inlist /\ stopOf(inlist)
          /\ UNCHANGED inlist
       \/ /\ MainGoto("delJoin", "delRemove") /\ pc[cur] = "exited"
          /\ UNCHANGED <<inlist, stopped, m_sem, cur>>
       \/ /\ MainGoto("delRemove", "idle") /\ inlist' = None /\ cur' = None
          /\ stopped' = stopped \cup {c \in Conns : pc[c] \notin {"new", "exited"}}
          /\ UNCHANGED m_sem
    /\ UNCHANGED <<pc, in, m_reader, left, lost>>

\* Factory::stop, base::Scheduler::stop: the threads in any order
stop ==
    /\ \/ /\ MainGoto("idle", "next") /\ left' = {t \in Conns \cup Inputs : pc[t] # "new"}
          /\ UNCHANGED <<stopped, m_sem, cur>>
       \/ /\ MainGoto("next", "join")
          /\ \E t \in left \ stopped : left' = left \ {t} /\ cur' = t /\ stopOf(t)
       \/ /\ MainGoto("join", "next") /\ pc[cur] = "exited" /\ cur' = None
          /\ UNCHANGED <<stopped, m_sem, left>>
       \/ /\ MainGoto("next", "done") /\ left \subseteq stopped /\ left' = {}
          /\ UNCHANGED <<stopped, m_sem, cur>>
    /\ UNCHANGED <<pc, in, m_reader, inlist, lost>>

MainStep == main # "idle" /\ (delInfo \/ stop)

Next ==
    \/ \E c \in Conns : processRequest(c) \/ ConnStep(c) \/ processDataFails(c)
    \/ \E i \in Inputs : InputStep(i) \/ doLoopAction(i)
    \/ addInfo \/ delInfo \/ stop

Spec == Init /\ [][Next]_vars

\* The threads run, and a mutex that is free again and again is obtained.
\* Clients, data, route changes and the stop need not come.
FairSpec ==
    /\ Spec
    /\ \A c \in Conns : WF_vars(ConnStep(c)) /\ SF_vars(increaseConnectionCount(c))
    /\ \A i \in Inputs : WF_vars(InputStep(i))
    /\ WF_vars(MainStep)

-----------------------------------------------------------------------------
\* The semaphore covers the connections an input has, so it is not kept from
\* reading while there are clients, unless a token was taken by the wrong party:
\* an initialisation that failed (inudp.cpp:98), or a connection that ends without
\* having been counted by this input (conthread.cpp:116).
TokensCoverConnections ==
    \A i \in Inputs :
        ~lost /\ i \notin stopped =>
            m_sem[i] + (IF pc[i] \in {"init", "probe"} THEN 1 ELSE 0) >= Cardinality(Counted(i))

\* Factory::stop() returns, although it joins connections that wait for
\* m_init_lock, which the input keeps while it waits for a token; unless a token
\* was taken by the wrong party.
StopEnds == main = "next" ~> (main = "done" \/ lost)

=============================================================================
