---------------------------- MODULE ServiceProofs ----------------------------
(****************************************************************************)
(* The list of running applications is right and stopApplications() leaves  *)
(* nothing behind, for any number of applications, AppInfos, database       *)
(* changes and crashes, with the excuses the properties name; and the       *)
(* service refines Supervisor.                                              *)
(****************************************************************************)
EXTENDS Service, TLAPS

USE ServiceAssumption

Active == {"fork", "setPid", "wait", "remove"}
Stopping == {"term", "timedJoin", "kill", "join"}

\* What the steps read and write has its shape.
Shape ==
    /\ m_apps \subseteq Infos /\ stops \subseteq Infos /\ cur \in Infos
    /\ app \in [Infos -> Apps]
    /\ mon \in [Infos -> {"none", "add", "ended"} \cup Active]
    /\ child \in [Infos -> {"none"} \cup Alive \cup Zombie]
    /\ starts \subseteq Apps /\ db \subseteq Apps

\* A process belongs to a monitor that waits for it.
ChildIsWaitedFor == \A i \in Infos : child[i] # "none" => mon[i] \in {"setPid", "wait"}

\* A monitor past add() is listed, unless a second one was started.
ActiveIsListed == \A i \in Infos : mon[i] \in Active /\ app[i] \notin dup => i \in m_apps

\* While the service stops, each monitor is still on the copied list, is being
\* stopped, or has one of the excuses of StopIsComplete.
StopProgress ==
    unloading =>
        /\ pc \notin {"idle", "starting"}
        /\ pc = "stopped" => stops = {}
        /\ \A i \in Infos : \/ mon[i] \in {"none", "ended"}
                            \/ i \in stops
                            \/ i = cur /\ pc \in Stopping
                            \/ i \in escaped \/ app[i] \in dup
                            \/ pc = "dead"

StoppedOnlyAtEnd == pc = "stopped" => unloading

\* The inductive invariant
IInv ==
    /\ Shape /\ ListedIsMonitored /\ ChildIsWaitedFor /\ ActiveIsListed
    /\ StopProgress /\ StoppedOnlyAtEnd

-----------------------------------------------------------------------------
\* The initial states: nothing is listed and no monitor runs.
LEMMA InitIInv == Init => IInv
<1>. SUFFICES ASSUME Init PROVE IInv
    OBVIOUS
<1>1. (CHOOSE a \in Apps : TRUE) \in Apps /\ (CHOOSE i \in Infos : TRUE) \in Infos
    BY ServiceAssumption
<1>2. Shape
    BY <1>1 DEF Init, Shape
<1>3. ~unloading
    BY Zenon DEF Init
<1>. QED
    BY <1>2, <1>3 DEF Init, IInv, ListedIsMonitored, ChildIsWaitedFor, ActiveIsListed,
        StopProgress, StoppedOnlyAtEnd, Active

\* A step of the main thread that starts nothing leaves the monitors alone.
LEMMA MainIInv ==
    ASSUME IInv, processDB \/ postMainLoop \/ nextStop \/ sigterm \/ timedJoin \/ sigkill \/ join
    PROVE  IInv'
<1>. USE DEF IInv, Shape, ListedIsMonitored, ChildIsWaitedFor, ActiveIsListed,
        StopProgress, StoppedOnlyAtEnd, Active, Stopping, Goto
<1>1. CASE processDB
    BY <1>1 DEF processDB
<1>2. CASE postMainLoop
    BY <1>2 DEF postMainLoop, dbVars
<1>3. CASE nextStop
    BY <1>3 DEF nextStop, dbVars
<1>4. CASE sigterm
    BY <1>4 DEF sigterm, killFailed, signalGroup, Exists, dbVars, Alive, Zombie
<1>5. CASE timedJoin
    BY <1>5 DEF timedJoin, dbVars
<1>6. CASE sigkill
    BY <1>6 DEF sigkill, killFailed, Exists, dbVars, Alive, Zombie
<1>7. CASE join
    BY <1>7 DEF join, dbVars
<1>. QED
    BY <1>1, <1>2, <1>3, <1>4, <1>5, <1>6, <1>7

\* Starting an application: the new monitor is at add() in a free slot.
LEMMA StartIInv == ASSUME IInv, nextStart PROVE IInv'
<1>. USE DEF IInv, Shape, ListedIsMonitored, ChildIsWaitedFor, ActiveIsListed,
        StopProgress, StoppedOnlyAtEnd, Active, Stopping, Goto, dbVars
<1>1. CASE pc = "starting" /\ starts = {} /\ pc' = "idle" /\ UNCHANGED <<app, mon, child, starts>>
    BY <1>1 DEF nextStart
<1>2. ASSUME NEW a \in starts, starts' = starts \ {a}, pc = "starting", UNCHANGED pc, newMonitor(a)
      PROVE  IInv'
    <2>. DEFINE free == {i \in Infos : mon[i] \in {"none", "ended"}}
                new == CHOOSE i \in free : TRUE
    <2>1. new \in free
        BY <1>2 DEF newMonitor
    <2>2. app' = [app EXCEPT ![new] = a] /\ mon' = [mon EXCEPT ![new] = "add"] /\ child' = child
        BY <1>2 DEF newMonitor
    <2>3. a \in Apps /\ new \in Infos /\ mon[new] \in {"none", "ended"} /\ new \notin m_apps
        BY <1>2, <2>1
    <2>. HIDE DEF new, free
    <2>. QED
        BY <1>2, <2>2, <2>3 DEF nextStart
<1>3. ASSUME NEW a \in starts, starts' = starts \ {a}, pc = "starting", UNCHANGED pc,
             noThread \/ alreadyLoaded
      PROVE  IInv'
    BY <1>3 DEF nextStart, noThread, alreadyLoaded, signalGroup, Alive, Zombie
<1>. QED
    BY <1>1, <1>2, <1>3 DEF nextStart, startApplication

\* A step of a monitor.
LEMMA MonitorIInv == ASSUME IInv, NEW i \in Infos, Monitor(i) PROVE IInv'
<1>. USE DEF IInv, Shape, ListedIsMonitored, ChildIsWaitedFor, ActiveIsListed,
        StopProgress, StoppedOnlyAtEnd, Active, Stopping, Step, dbVars, mainVars, Alive, Zombie
<1>1. CASE monitorAdd(i)
    BY <1>1 DEF monitorAdd, Listed
<1>2. CASE monitorFork(i)
    BY <1>2 DEF monitorFork
<1>3. CASE monitorSetPid(i)
    BY <1>3 DEF monitorSetPid
<1>4. CASE monitorWait(i)
    BY <1>4 DEF monitorWait
<1>5. CASE monitorRemove(i)
    BY <1>5 DEF monitorRemove, Listed
<1>. QED
    BY <1>1, <1>2, <1>3, <1>4, <1>5 DEF Monitor

\* The applications' own steps and the database's.
LEMMA OutsideIInv ==
    ASSUME IInv, changeDB \/ \E i \in Infos : appExits(i) \/ appCrashes(i)
    PROVE  IInv'
<1>. USE DEF IInv, Shape, ListedIsMonitored, ChildIsWaitedFor, ActiveIsListed,
        StopProgress, StoppedOnlyAtEnd, Active, Stopping, dbVars, mainVars, Alive, Zombie
<1>1. CASE changeDB
    BY <1>1 DEF changeDB
<1>2. CASE \E i \in Infos : appExits(i) \/ appCrashes(i)
    BY <1>2 DEF appExits, appCrashes
<1>. QED
    BY <1>1, <1>2

\* Every step preserves the invariant.
LEMMA NextIInv == IInv /\ [Next]_vars => IInv'
<1>. SUFFICES ASSUME IInv, [Next]_vars PROVE IInv'
    OBVIOUS
<1>1. CASE UNCHANGED vars
    BY <1>1 DEF vars, IInv, Shape, ListedIsMonitored, ChildIsWaitedFor, ActiveIsListed,
        StopProgress, StoppedOnlyAtEnd
<1>. QED
    BY <1>1, MainIInv, StartIInv, MonitorIInv, OutsideIInv DEF Next, Main

THEOREM Inductive == Spec => []IInv
BY InitIInv, NextIInv, PTL DEF Spec

-----------------------------------------------------------------------------
\* The storage has no stale and no double entry: whatever stopApplication() is
\* called for has a monitor that will wait for the process (appinfo.cpp:146-174).
THEOREM ListIsRight == Spec => []ListedIsMonitored
<1>1. IInv => ListedIsMonitored
    BY DEF IInv
<1>. QED
    BY <1>1, Inductive, PTL

\* Every process of an application can be found by way of the list, unless two
\* monitors were started for the application.
THEOREM RunningAlwaysListed == Spec => []RunningIsListed
<1>1. IInv => RunningIsListed
    BY DEF IInv, RunningIsListed, ChildIsWaitedFor, ActiveIsListed, Active
<1>. QED
    BY <1>1, Inductive, PTL

\* An application has at most one process, with the same excuse.
THEOREM NeverRunsTwice == Spec => []RunsOnce
<1>1. IInv => RunsOnce
    BY DEF IInv, RunsOnce, Running, Alive, ChildIsWaitedFor, ActiveIsListed, Active,
        ListedIsMonitored
<1>. QED
    BY <1>1, Inductive, PTL

\* When the service has stopped, the only applications left are those it could
\* not see and those kill() failed for.
THEOREM StopLeavesNone == Spec => []StopIsComplete
<1>1. IInv => StopIsComplete
    <2>. SUFFICES ASSUME IInv, pc = "stopped", NEW i \in Infos
                  PROVE  \/ mon[i] \in {"none", "ended"} /\ child[i] = "none"
                         \/ i \in escaped \/ app[i] \in dup
        BY DEF StopIsComplete
    <2>1. unloading
        BY Zenon DEF IInv, StoppedOnlyAtEnd
    <2>. QED
        BY <2>1 DEF IInv, StopProgress, Stopping, ChildIsWaitedFor
<1>. QED
    BY <1>1, Inductive, PTL
-----------------------------------------------------------------------------
\* The refinement of Supervisor.  What it needs to know of the pids: the one an
\* AppInfo has is not of a later process than the last, a monitor before add()
\* has not forked, and a process was forked.
Pids ==
    \A i \in Infos :
        /\ forks[i] \in Nat /\ m_pid[i] \in Nat /\ m_pid[i] <= forks[i]
        /\ mon[i] = "add" => forks[i] = 0
        /\ child[i] # "none" => forks[i] > 0

\* The arrays a slot is described by are functions.
Slots ==
    /\ forks \in [Infos -> Nat] /\ m_pid \in [Infos -> Nat]
    /\ mon \in [Infos -> {"none", "add", "ended"} \cup Active]
    /\ child \in [Infos -> {"none"} \cup Alive \cup Zombie]

LEMMA PidsInvariant == Spec => [](Slots /\ Pids)
<1>1. Init => Slots /\ Pids
    BY DEF Init, Slots, Pids, Alive, Zombie, Active
<1>2. IInv /\ Slots /\ Pids /\ [Next]_vars => (Slots /\ Pids)'
    <2>. SUFFICES ASSUME IInv, Slots, Pids, [Next]_vars PROVE (Slots /\ Pids)'
        OBVIOUS
    <2>. cur \in Infos /\ (\A i \in Infos : child[i] # "none" => mon[i] \in {"setPid", "wait"})
        BY DEF IInv, Shape, ChildIsWaitedFor
    <2>. USE DEF Slots, Pids, Alive, Zombie, Active, Step, dbVars, mainVars
    <2>1. CASE changeDB \/ processDB \/ postMainLoop \/ nextStop \/ timedJoin \/ join \/ UNCHANGED vars
        BY <2>1 DEF changeDB, processDB, postMainLoop, nextStop, timedJoin, join, vars
    <2>2. CASE sigterm \/ sigkill
        BY <2>2 DEF sigterm, sigkill, killFailed, signalGroup, Exists
    <2>3. CASE nextStart
        <3>1. CASE UNCHANGED <<m_pid, mon, forks>> /\ (UNCHANGED child \/ signalGroup)
            BY <2>3, <3>1 DEF nextStart, signalGroup
        <3>2. ASSUME NEW a \in starts, newMonitor(a) PROVE (Slots /\ Pids)'
            <4>. DEFINE free == {i \in Infos : mon[i] \in {"none", "ended"}}
                        new == CHOOSE i \in free : TRUE
            <4>1. new \in free
                BY <3>2 DEF newMonitor
            <4>2. /\ mon' = [mon EXCEPT ![new] = "add"] /\ child' = child
                  /\ m_pid' = [m_pid EXCEPT ![new] = 0] /\ forks' = [forks EXCEPT ![new] = 0]
                BY <3>2 DEF newMonitor
            <4>3. new \in Infos /\ mon[new] \in {"none", "ended"}
                BY <4>1
            <4>. HIDE DEF new, free
            <4>. QED
                BY <4>2, <4>3
        <3>. QED
            BY <2>3, <3>1, <3>2 DEF nextStart, startApplication, noThread, alreadyLoaded
    <2>4. ASSUME NEW i \in Infos, Monitor(i) \/ appExits(i) \/ appCrashes(i) PROVE (Slots /\ Pids)'
        <3>1. CASE monitorAdd(i) \/ monitorRemove(i)
            BY <3>1 DEF monitorAdd, monitorRemove
        <3>2. CASE monitorFork(i)
            BY <3>2 DEF monitorFork
        <3>3. CASE monitorSetPid(i)
            BY <3>3 DEF monitorSetPid
        <3>4. CASE monitorWait(i)
            BY <3>4 DEF monitorWait
        <3>5. CASE appExits(i) \/ appCrashes(i)
            BY <3>5 DEF appExits, appCrashes
        <3>. QED
            BY <2>4, <3>1, <3>2, <3>3, <3>4, <3>5 DEF Monitor
    <2>. QED
        BY <2>1, <2>2, <2>3, <2>4 DEF Next, Main
<1>. QED
    BY <1>1, <1>2, Inductive, PTL DEF Spec

-----------------------------------------------------------------------------
stageView == IF ~unloading THEN "open" ELSE IF pc = "stopped" THEN "closed" ELSE "closing"
supView == <<processes, toStart, crashedBefore, dup, escaped, stageView>>

\* The steps of the supervisor, one lemma each: from the change of its state to
\* its action
LEMMA ViewMonitor ==
    ASSUME NEW a \in Apps, NEW i \in Infos, stageView = "open",
           a \in dup \/ \A j \in Infos : <<a, j>> \notin processes,
           \A b \in Apps : <<b, i>> \notin processes \cup toStart,
           toStart' = toStart \cup {<<a, i>>},
           UNCHANGED <<processes, crashedBefore, dup, escaped, stageView>>
    PROVE  [Supervision!Next]_Supervision!vars
BY DEF Supervision!Next, Supervision!Monitor, Supervision!Single, stageView

LEMMA ViewStart ==
    ASSUME NEW a \in Apps, NEW i \in Infos, <<a, i>> \in toStart,
           a \in dup \/ \A j \in Infos : <<a, j>> \notin processes,
           processes' = processes \cup {<<a, i>>}, toStart' = toStart \ {<<a, i>>},
           UNCHANGED <<crashedBefore, dup, escaped, stageView>>
    PROVE  [Supervision!Next]_Supervision!vars
BY DEF Supervision!Next, Supervision!Start, Supervision!Single, stageView

LEMMA ViewCrash ==
    ASSUME NEW a \in Apps, NEW i \in Infos, <<a, i>> \in processes,
           processes' = processes \ {<<a, i>>}, toStart' = toStart \cup {<<a, i>>},
           crashedBefore' = crashedBefore \cup {<<a, i>>},
           UNCHANGED <<dup, escaped, stageView>>
    PROVE  [Supervision!Next]_Supervision!vars
BY DEF Supervision!Next, Supervision!Crash, stageView

LEMMA ViewEnd ==
    ASSUME NEW a \in Apps, NEW i \in Infos, <<a, i>> \in processes,
           processes' = processes \ {<<a, i>>},
           crashedBefore' = crashedBefore \ {<<a, i>>},
           UNCHANGED <<toStart, dup, escaped, stageView>>
    PROVE  [Supervision!Next]_Supervision!vars
BY DEF Supervision!Next, Supervision!End, stageView

LEMMA ViewGiveUp ==
    ASSUME NEW a \in Apps, NEW i \in Infos, <<a, i>> \in toStart,
           toStart' = toStart \ {<<a, i>>}, crashedBefore' = crashedBefore \ {<<a, i>>},
           dup' \in {dup, dup \cup {a}},
           UNCHANGED <<processes, escaped, stageView>>
    PROVE  [Supervision!Next]_Supervision!vars
BY DEF Supervision!Next, Supervision!GiveUp, stageView

LEMMA ViewOverlook ==
    ASSUME NEW i \in Infos, \A a \in Apps : <<a, i>> \in processes => <<a, i>> \in crashedBefore,
           escaped' = escaped \cup {i},
           UNCHANGED <<processes, toStart, crashedBefore, dup, stageView>>
    PROVE  [Supervision!Next]_Supervision!vars
BY DEF Supervision!Next, Supervision!Overlook, stageView

LEMMA ViewClose ==
    ASSUME stageView = "open", stageView' = "closing",
           escaped' \subseteq {i \in Infos : \E a \in Apps : <<a, i>> \in toStart},
           UNCHANGED <<processes, toStart, crashedBefore, dup>>
    PROVE  [Supervision!Next]_Supervision!vars
BY DEF Supervision!Next, Supervision!Close, stageView

LEMMA ViewClosed ==
    ASSUME stageView = "closing", stageView' = "closed",
           \A p \in processes \cup toStart : p[1] \in dup \/ p[2] \in escaped,
           UNCHANGED <<processes, toStart, crashedBefore, dup, escaped>>
    PROVE  [Supervision!Next]_Supervision!vars
BY DEF Supervision!Next, Supervision!Closed, stageView

LEMMA ViewSame == ASSUME UNCHANGED supView PROVE [Supervision!Next]_Supervision!vars
BY DEF Supervision!vars, supView, stageView

-----------------------------------------------------------------------------
\* What is seen of a monitor: nothing changes if its application, the number of
\* its forks, and what it has and has to start stay.
LEMMA SlotsSame ==
    ASSUME UNCHANGED <<app, forks>>,
           \A i \in Infos : /\ child'[i] \in Alive <=> child[i] \in Alive
                            /\ child'[i] = "crashed" \/ mon'[i] \in {"add", "fork"}
                               <=> child[i] = "crashed" \/ mon[i] \in {"add", "fork"}
    PROVE  UNCHANGED <<processes, toStart, crashedBefore>>
<1>1. processes' = processes
    BY DEF processes
<1>2. toStart' = toStart
    BY DEF toStart
<1>. QED
    BY <1>1, <1>2 DEF crashedBefore

\* Nothing is seen when the service is created.
LEMMA InitSupervisor == Init => Supervision!Init
<1>. SUFFICES ASSUME Init PROVE Supervision!Init
    OBVIOUS
<1>1. processes = {} /\ toStart = {} /\ crashedBefore = {}
    BY DEF Init, processes, toStart, crashedBefore, Alive
<1>2. stageView = "open"
    <2>1. ~unloading
        BY Zenon DEF Init
    <2>. QED
        BY <2>1 DEF stageView
<1>3. dup = {} /\ escaped = {}
    BY DEF Init
<1>. QED
    BY <1>1, <1>2, <1>3 DEF Supervision!Init, stageView

\* The main thread's steps: the stop closes the supervisor at its beginning and
\* at its end, a kill() that fails overlooks a monitor, SIGKILL ends a process;
\* a signal that only tells it to end is not seen.
LEMMA MainMaps ==
    ASSUME IInv, Slots, Pids,
           processDB \/ postMainLoop \/ nextStop \/ sigterm \/ timedJoin \/ sigkill \/ join
    PROVE  [Supervision!Next]_Supervision!vars
<1>. Shape /\ StopProgress /\ ChildIsWaitedFor
    BY DEF IInv
<1>. cur \in Infos /\ app[cur] \in Apps
    BY DEF Shape
<1>1. CASE processDB \/ timedJoin \/ join \/ (nextStop /\ (~unloading \/ stops # {}))
    <2>1. UNCHANGED <<app, mon, forks, child, dup, escaped, unloading>>
        BY <1>1 DEF processDB, timedJoin, join, nextStop
    <2>2. stageView' = stageView
        BY <1>1, <2>1 DEF stageView, processDB, timedJoin, join, nextStop, Goto
    <2>. QED
        BY <2>1, <2>2, SlotsSame, ViewSame DEF supView
<1>2. CASE nextStop /\ unloading /\ stops = {}
    <2>1. UNCHANGED <<app, mon, forks, child, dup, escaped, unloading>> /\ pc = "stopping" /\ pc' = "stopped"
        BY <1>2 DEF nextStop, Goto
    <2>2. UNCHANGED <<processes, toStart, crashedBefore>>
        BY <2>1, SlotsSame
    <2>3. stageView = "closing" /\ stageView' = "closed"
        BY <1>2, <2>1 DEF stageView
    <2>4. ASSUME NEW p \in processes \cup toStart PROVE p[1] \in dup \/ p[2] \in escaped
        <3>1. p[2] \in Infos /\ app[p[2]] = p[1] /\ mon[p[2]] \notin {"none", "ended"}
            BY <2>4 DEF processes, toStart, ChildIsWaitedFor, Alive
        <3>. QED
            BY <1>2, <2>1, <3>1 DEF StopProgress, Stopping
    <2>. QED
        BY <2>1, <2>2, <2>3, <2>4, ViewClosed
<1>3. CASE postMainLoop
    <2>1. /\ UNCHANGED <<app, mon, forks, child, dup>> /\ ~unloading /\ unloading' = TRUE
          /\ pc' = "stopping" /\ escaped' = {i \in Infos : mon[i] = "add"}
        BY <1>3 DEF postMainLoop, Goto
    <2>2. UNCHANGED <<processes, toStart, crashedBefore>>
        BY <2>1, SlotsSame
    <2>3. stageView = "open" /\ stageView' = "closing"
        BY <2>1 DEF stageView
    <2>4. escaped' \subseteq {i \in Infos : \E a \in Apps : <<a, i>> \in toStart}
        BY <2>1 DEF toStart, Shape
    <2>. QED
        BY <2>1, <2>2, <2>3, <2>4, ViewClose
<1>4. ASSUME killFailed, UNCHANGED <<app, mon, forks, dup, unloading>>, pc # "stopped"
      PROVE  [Supervision!Next]_Supervision!vars
    <2>1. UNCHANGED <<processes, toStart, crashedBefore>>
        BY <1>4, SlotsSame DEF killFailed
    <2>2. stageView' = stageView
        BY <1>4 DEF stageView, killFailed
    <2>3. child[cur] \in Alive => forks[cur] > 1
        BY <1>4 DEF killFailed, Exists, Pids, Alive
    <2>4. \A a \in Apps : <<a, cur>> \in processes => <<a, cur>> \in crashedBefore
        BY <2>3 DEF processes, crashedBefore
    <2>. QED
        BY <1>4, <2>1, <2>2, <2>4, ViewOverlook DEF killFailed
<1>5. CASE sigterm
    <2>1. UNCHANGED <<app, mon, forks, dup, unloading>> /\ pc = "term"
        BY <1>5 DEF sigterm
    <2>2. CASE ~killFailed
        <3>1. escaped' = escaped /\ pc' = "timedJoin"
            BY <1>5, <2>2 DEF sigterm
        <3>2. \A i \in Infos : child'[i] = child[i] \/ (child[i] = "up" /\ child'[i] = "told")
            BY <1>5, <2>2 DEF sigterm, signalGroup, Slots
        <3>3. stageView' = stageView
            BY <2>1, <3>1 DEF stageView
        <3>. QED
            BY <2>1, <3>1, <3>2, <3>3, SlotsSame, ViewSame DEF supView, Alive
    <2>. QED
        BY <1>4, <2>1, <2>2
<1>6. CASE sigkill
    <2>1. UNCHANGED <<app, mon, forks, dup, unloading>> /\ pc = "kill"
        BY <1>6 DEF sigkill
    <2>2. CASE ~killFailed
        <3>1. escaped' = escaped /\ pc' \in {"join", "dead"}
            BY <1>6, <2>2 DEF sigkill
        <3>2. stageView' = stageView
            BY <2>1, <3>1 DEF stageView
        <3>3. CASE child' = child
            BY <2>1, <3>1, <3>2, <3>3, SlotsSame, ViewSame DEF supView
        <3>4. CASE child' = [child EXCEPT ![cur] = IF @ \in Alive THEN "killed" ELSE @] /\ child' # child
            <4>1. child[cur] \in Alive /\ child'[cur] = "killed"
                  /\ \A i \in Infos \ {cur} : child'[i] = child[i]
                BY <3>4 DEF Slots
            <4>2. mon[cur] \in {"setPid", "wait"}
                BY <4>1 DEF ChildIsWaitedFor, Alive
            <4>3. toStart' = toStart /\ <<app[cur], cur>> \notin toStart
                BY <2>1, <4>1, <4>2 DEF toStart, Alive
            <4>4. <<app[cur], cur>> \in processes /\ processes' = processes \ {<<app[cur], cur>>}
                BY <2>1, <4>1 DEF processes, Alive
            <4>5. crashedBefore' = crashedBefore \ {<<app[cur], cur>>}
                BY <2>1, <4>3, <4>4 DEF crashedBefore
            <4>. QED
                BY <2>1, <3>1, <3>2, <4>3, <4>4, <4>5, ViewEnd
        <3>. QED
            BY <1>6, <2>2, <3>3, <3>4 DEF sigkill
    <2>. QED
        BY <1>4, <2>1, <2>2
<1>. QED
    BY <1>1, <1>2, <1>3, <1>5, <1>6

\* A new monitor has no process and is started only while the service is open,
\* for an application that is not listed: then it has no process, unless two
\* monitors were started for it.
LEMMA StartMaps ==
    ASSUME IInv, Slots, Pids, nextStart
    PROVE  [Supervision!Next]_Supervision!vars
<1>. Shape /\ StopProgress /\ ChildIsWaitedFor /\ ActiveIsListed
    BY DEF IInv
<1>1. pc = "starting" /\ pc' \in {"starting", "idle"} /\ ~unloading
      /\ UNCHANGED <<dup, escaped, unloading>>
    BY DEF nextStart, Goto, StopProgress
<1>2. stageView = "open" /\ stageView' = stageView
    BY <1>1 DEF stageView
<1>3. CASE UNCHANGED <<app, mon, forks>> /\ (UNCHANGED child \/ signalGroup)
    <2>1. \A i \in Infos : child'[i] = child[i] \/ (child[i] = "up" /\ child'[i] = "told")
        BY <1>3 DEF signalGroup
    <2>. QED
        BY <1>1, <1>2, <1>3, <2>1, SlotsSame, ViewSame DEF supView, Alive
<1>4. ASSUME NEW a \in starts, Listed(a) = {}, newMonitor(a)
      PROVE  [Supervision!Next]_Supervision!vars
    <2>. DEFINE free == {i \in Infos : mon[i] \in {"none", "ended"}}
                new == CHOOSE i \in free : TRUE
    <2>1. new \in free
        BY <1>4 DEF newMonitor
    <2>2. /\ app' = [app EXCEPT ![new] = a] /\ mon' = [mon EXCEPT ![new] = "add"]
          /\ child' = child /\ forks' = [forks EXCEPT ![new] = 0]
        BY <1>4 DEF newMonitor
    <2>3. a \in Apps /\ new \in Infos /\ mon[new] \in {"none", "ended"} /\ child[new] = "none"
        BY <2>1 DEF Shape, ChildIsWaitedFor
    <2>. HIDE DEF new, free
    <2>4. \A b \in Apps : <<b, new>> \notin processes \cup toStart
        BY <2>3 DEF processes, toStart, Alive
    <2>5. app'[new] = a /\ mon'[new] = "add" /\ forks'[new] = 0
          /\ \A i \in Infos \ {new} : app'[i] = app[i] /\ mon'[i] = mon[i] /\ forks'[i] = forks[i]
        BY <2>2, <2>3 DEF Shape, Slots
    <2>6. processes' = processes
        BY <2>2, <2>3, <2>5 DEF processes, Alive
    <2>7. toStart' = toStart \cup {<<a, new>>}
        BY <2>2, <2>3, <2>4, <2>5 DEF toStart
    <2>8. crashedBefore' = crashedBefore
        BY <2>4, <2>5, <2>6, <2>7 DEF crashedBefore, processes, toStart
    <2>9. a \in dup \/ \A j \in Infos : <<a, j>> \notin processes
        BY <1>4 DEF processes, ChildIsWaitedFor, ActiveIsListed, Active, Alive, Listed
    <2>. QED
        BY <1>1, <1>2, <2>3, <2>4, <2>6, <2>7, <2>8, <2>9, ViewMonitor
<1>. QED
    BY <1>3, <1>4 DEF nextStart, startApplication, noThread, alreadyLoaded

\* The monitor's steps: fork() starts a process, of an application that has none
\* unless two monitors were started for it; a failing add() or fork() gives up.
\* The supervisor sees nothing of the pid, of waitpid() and of the removal.
LEMMA MonitorMaps ==
    ASSUME IInv, Slots, Pids, NEW i \in Infos, Monitor(i)
    PROVE  [Supervision!Next]_Supervision!vars
<1>. Shape /\ ChildIsWaitedFor /\ ActiveIsListed /\ ListedIsMonitored
    BY DEF IInv
<1>. DEFINE p == <<app[i], i>>
<1>1. UNCHANGED <<app, escaped, pc, unloading>>
    BY DEF Monitor, monitorAdd, monitorFork, monitorSetPid, monitorWait, monitorRemove, mainVars
<1>2. stageView' = stageView
    BY <1>1 DEF stageView
<1>3. app[i] \in Apps /\ (mon[i] \in {"add", "fork"} => p \in toStart /\ p \notin processes)
    BY DEF Shape, toStart, processes, ChildIsWaitedFor, Alive
<1>4. \A j \in Infos \ {i} : child'[j] = child[j] /\ mon'[j] = mon[j] /\ forks'[j] = forks[j]
    BY DEF Slots, Monitor, monitorAdd, monitorFork, monitorSetPid, monitorWait, monitorRemove, Step
<1>5. ASSUME UNCHANGED <<forks, dup>>,
             /\ child'[i] \in Alive <=> child[i] \in Alive
             /\ child'[i] = "crashed" \/ mon'[i] \in {"add", "fork"}
                <=> child[i] = "crashed" \/ mon[i] \in {"add", "fork"}
      PROVE  [Supervision!Next]_Supervision!vars
    <2>1. UNCHANGED <<processes, toStart, crashedBefore>>
        BY <1>1, <1>4, <1>5, SlotsSame
    <2>. QED
        BY <1>1, <1>2, <1>5, <2>1, ViewSame DEF supView
<1>6. ASSUME mon[i] \in {"add", "fork"}, mon'[i] = "remove", UNCHANGED <<forks, child>>,
             dup' \in {dup, dup \cup {app[i]}}
      PROVE  [Supervision!Next]_Supervision!vars
    <2>1. processes' = processes
        BY <1>1, <1>6 DEF processes
    <2>2. child[i] = "none"
        BY <1>6 DEF ChildIsWaitedFor
    <2>3. toStart' = toStart \ {p}
        BY <1>1, <1>4, <1>6, <2>2 DEF toStart
    <2>4. crashedBefore' = crashedBefore \ {p}
        BY <1>3, <1>6, <2>1, <2>3 DEF crashedBefore
    <2>. QED
        BY <1>1, <1>2, <1>3, <1>6, <2>1, <2>3, <2>4, ViewGiveUp
<1>7. CASE monitorAdd(i)
    <2>1. mon[i] = "add" /\ UNCHANGED <<forks, child>>
        BY <1>7 DEF monitorAdd, Step
    <2>2. \/ mon'[i] = "fork" /\ dup' = dup
          \/ mon'[i] = "remove" /\ dup' = dup \cup {app[i]}
        BY <1>7 DEF monitorAdd, Step, Slots
    <2>. QED
        BY <1>5, <1>6, <2>1, <2>2
<1>8. CASE monitorFork(i) /\ UNCHANGED forks
    <2>1. mon[i] = "fork" /\ mon'[i] = "remove" /\ UNCHANGED <<child, dup>>
        BY <1>8 DEF monitorFork, Step, Slots
    <2>. QED
        BY <1>6, <1>8, <2>1
<1>9. CASE monitorFork(i) /\ forks' # forks
    <2>1. /\ mon[i] = "fork" /\ mon'[i] = "setPid" /\ child'[i] = "up" /\ forks'[i] = forks[i] + 1
          /\ UNCHANGED dup
        BY <1>9 DEF monitorFork, Step, Slots
    <2>2. child[i] = "none"
        BY <2>1 DEF ChildIsWaitedFor
    <2>3. processes' = processes \cup {p}
        BY <1>1, <1>3, <1>4, <2>1 DEF processes, Alive
    <2>4. toStart' = toStart \ {p}
        BY <1>1, <1>4, <2>1, <2>2 DEF toStart
    <2>5. forks[i] \in Nat
        BY DEF Pids
    <2>6. crashedBefore' = crashedBefore
        <3>1. ASSUME NEW q \in processes \cup toStart, q # p
              PROVE  q[2] \in Infos /\ forks'[q[2]] = forks[q[2]]
            <4>1. q = <<q[1], q[2]>> /\ q[2] \in Infos /\ app[q[2]] = q[1]
                BY <3>1 DEF processes, toStart
            <4>. QED
                BY <1>4, <3>1, <4>1
        <3>. QED
            BY <1>3, <2>1, <2>3, <2>4, <2>5, <3>1 DEF crashedBefore
    <2>7. app[i] \in dup \/ \A j \in Infos : <<app[i], j>> \notin processes
        <3>. SUFFICES ASSUME app[i] \notin dup, NEW j \in Infos, <<app[i], j>> \in processes
                      PROVE  FALSE
            OBVIOUS
        <3>1. app[j] = app[i] /\ mon[j] \in {"setPid", "wait"}
            BY DEF processes, ChildIsWaitedFor, Alive
        <3>2. i \in m_apps /\ j \in m_apps
            BY <2>1, <3>1 DEF ActiveIsListed, Active
        <3>. QED
            BY <2>1, <3>1, <3>2 DEF ListedIsMonitored
    <2>. QED
        BY <1>1, <1>2, <1>3, <2>1, <2>3, <2>4, <2>6, <2>7, ViewStart
<1>10. CASE monitorSetPid(i) \/ monitorRemove(i)
    <2>1. UNCHANGED <<forks, child, dup>> /\ {mon[i], mon'[i]} \cap {"add", "fork"} = {}
        BY <1>10 DEF monitorSetPid, monitorRemove, Step, Slots
    <2>. QED
        BY <1>5, <2>1
<1>11. CASE monitorWait(i)
    <2>1. /\ UNCHANGED <<forks, dup>> /\ mon[i] = "wait" /\ child[i] \in Zombie /\ child'[i] = "none"
          /\ mon'[i] = IF child[i] = "crashed" THEN "fork" ELSE "remove"
        BY <1>11 DEF monitorWait, Step, Slots
    <2>. QED
        BY <1>5, <2>1 DEF Alive, Zombie
<1>. QED
    BY <1>7, <1>8, <1>9, <1>10, <1>11 DEF Monitor

\* The database is not seen; a process ends or crashes.
LEMMA OutsideMaps ==
    ASSUME IInv, Slots, Pids,
           changeDB \/ \E i \in Infos : appExits(i) \/ appCrashes(i)
    PROVE  [Supervision!Next]_Supervision!vars
<1>. Shape /\ ChildIsWaitedFor
    BY DEF IInv
<1>1. UNCHANGED <<app, mon, forks, dup, escaped, pc, unloading>>
    BY DEF changeDB, appExits, appCrashes, mainVars
<1>2. stageView' = stageView
    BY <1>1 DEF stageView
<1>3. CASE changeDB
    <2>1. child' = child
        BY <1>3 DEF changeDB
    <2>. QED
        BY <1>1, <1>2, <2>1, SlotsSame, ViewSame DEF supView
<1>4. ASSUME NEW i \in Infos, appExits(i) \/ appCrashes(i)
      PROVE  [Supervision!Next]_Supervision!vars
    <2>. DEFINE p == <<app[i], i>>
    <2>1. /\ child[i] \in Alive /\ child'[i] \in {"exited", "crashed"}
          /\ \A j \in Infos \ {i} : child'[j] = child[j]
        BY <1>4 DEF appExits, appCrashes, Slots
    <2>2. app[i] \in Apps /\ mon[i] \in {"setPid", "wait"} /\ forks[i] > 0
        BY <2>1 DEF Shape, ChildIsWaitedFor, Pids, Alive
    <2>3. p \in processes /\ p \notin toStart /\ processes' = processes \ {p}
        BY <1>1, <2>1, <2>2 DEF processes, toStart, Alive
    <2>4. CASE child'[i] = "exited"
        <3>1. toStart' = toStart
            BY <1>1, <2>1, <2>2, <2>4 DEF toStart, Alive
        <3>2. crashedBefore' = crashedBefore \ {p}
            BY <1>1, <2>3, <3>1 DEF crashedBefore
        <3>. QED
            BY <1>1, <1>2, <2>2, <2>3, <3>1, <3>2, ViewEnd
    <2>5. CASE child'[i] = "crashed"
        <3>1. toStart' = toStart \cup {p}
            BY <1>1, <2>1, <2>2, <2>5 DEF toStart, Alive
        <3>2. crashedBefore' = crashedBefore \cup {p}
            BY <1>1, <2>2, <2>3, <3>1 DEF crashedBefore
        <3>. QED
            BY <1>1, <1>2, <2>2, <2>3, <3>1, <3>2, ViewCrash
    <2>. QED
        BY <2>1, <2>4, <2>5
<1>. QED
    BY <1>3, <1>4

LEMMA NextSupervisor ==
    IInv /\ Slots /\ Pids /\ [Next]_vars => [Supervision!Next]_Supervision!vars
<1>. SUFFICES ASSUME IInv, Slots, Pids, [Next]_vars PROVE [Supervision!Next]_Supervision!vars
    OBVIOUS
<1>1. CASE UNCHANGED vars
    <2>1. UNCHANGED <<app, mon, forks, child, dup, escaped, pc, unloading>>
        BY <1>1 DEF vars
    <2>2. UNCHANGED <<processes, toStart, crashedBefore>>
        BY <2>1, SlotsSame
    <2>3. stageView' = stageView
        BY <2>1 DEF stageView
    <2>. QED
        BY <2>1, <2>2, <2>3, ViewSame DEF supView
<1>. QED
    BY <1>1, MainMaps, StartMaps, MonitorMaps, OutsideMaps DEF Next, Main

\* ImplementsSupervisor: what the monitor threads (service.cpp:399) and
\* stopApplication (service.cpp:251) do together is what Supervisor promises:
\* a process is started for a new monitor or after a crash, never after an exit
\* or a kill, is the only one of its application, and nothing outlives the stop,
\* with the excuses that dup and escaped record.
THEOREM SupervisorImplemented == Spec => ImplementsSupervisor
BY Inductive, PidsInvariant, InitSupervisor, NextSupervisor, PTL
   DEF Spec, ImplementsSupervisor, Supervision!Spec

=============================================================================
