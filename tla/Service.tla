------------------------------- MODULE Service -------------------------------
(****************************************************************************)
(* klk::srv::Service (src/modules/service): the module of the media server  *)
(* that runs the applications listed in the database.  The main thread      *)
(* compares the list with m_apps on every CHANGEDB message; each started    *)
(* application has an AppInfo and a monitor thread that forks the launcher, *)
(* waits for the child and forks it again when it died of a crash signal.   *)
(*                                                                          *)
(* An AppInfo is a slot of Infos.  A monitor has one child at a time, so    *)
(* the pid of a child is its number among the forks of its monitor, and 0   *)
(* the pid of an AppInfo that was never set.  Pids are not reused.          *)
(****************************************************************************)
EXTENDS Naturals

CONSTANTS
    Apps,         \* applications, by uuid
    Infos,        \* AppInfo objects; one is taken again when nobody refers to it
    MaxChanges,   \* bound on the CHANGEDB messages
    MaxForks      \* bound on the forks of one monitor: it crashes MaxForks - 1 times

ASSUME ServiceAssumption ==
    Apps # {} /\ Infos # {} /\ MaxForks \in Nat \ {0} /\ MaxChanges \in Nat

VARIABLES
    db,        \* the applications the database lists for this host
    pending,   \* INITFROMDB and CHANGEDB messages not yet processed
    changes,   \* CHANGEDB messages sent so far
    m_apps,    \* AppInfoStorage: the AppInfos listed as running
    app,       \* the application of each AppInfo
    m_pid,     \* m_pid of each AppInfo
    mon,       \* where the monitor thread of each AppInfo is
    forks,     \* forks of the monitor so far; the last one is its child
    child,     \* the child process of the monitor
    pc,        \* where the main thread is
    stops,     \* AppInfos stopApplication() is still to be called for
    starts,    \* applications startApplication() is still to be called for
    cur,       \* the AppInfo being stopped
    unloading, \* postMainLoop() has been entered
    dup,       \* history: applications for which add() met its assertion
    escaped    \* history: AppInfos the final stop overlooked or gave up

vars == <<db, pending, changes, m_apps, app, m_pid, mon, forks, child,
          pc, stops, starts, cur, unloading, dup, escaped>>
dbVars == <<db, pending, changes>>
mainVars == <<pc, stops, starts, cur, unloading>>

Init ==
    /\ db \in SUBSET Apps
    /\ pending = 1
    /\ changes = 0
    /\ m_apps = {}
    /\ app \in [Infos -> {CHOOSE a \in Apps : TRUE}]
    /\ m_pid = [i \in Infos |-> 0]
    /\ mon = [i \in Infos |-> "none"]
    /\ forks = [i \in Infos |-> 0]
    /\ child = [i \in Infos |-> "none"]
    /\ pc = "idle"
    /\ stops = {}
    /\ starts = {}
    /\ cur \in {CHOOSE i \in Infos : TRUE}
    /\ unloading = FALSE
    /\ dup = {}
    /\ escaped = {}

Alive == {"up", "told"}
Zombie == {"exited", "crashed", "killed"}
Listed(a) == {i \in m_apps : app[i] = a}
Running(a) == {i \in Infos : app[i] = a /\ child[i] \in Alive}
\* kill() finds the process: it runs or nobody has waited for it yet
Exists(i) == m_pid[i] = forks[i] /\ child[i] # "none"
Goto(from, to) == pc = from /\ pc' = to
Step(i, from, to) == pc # "dead" /\ mon[i] = from /\ mon' = [mon EXCEPT ![i] = to]

-----------------------------------------------------------------------------
\* The database is changed and the module told so
changeDB ==
    /\ changes < MaxChanges /\ ~unloading
    /\ changes' = changes + 1
    /\ pending' = pending + 1
    /\ db' \in SUBSET Apps
    /\ UNCHANGED <<m_apps, app, m_pid, mon, forks, child, mainVars, dup, escaped>>

\* processDB: the list of the database and AppInfoStorage::getMissing; an
\* exception of getApplications() ends it, and the message is gone
processDB ==
    /\ pending > 0 /\ ~unloading
    /\ pending' = pending - 1
    /\ \/ /\ Goto("idle", "stopping")
          /\ stops' = {i \in m_apps : app[i] \notin db}
          /\ starts' = db
       \/ pc = "idle" /\ UNCHANGED <<pc, stops, starts>>
    /\ UNCHANGED <<db, changes, m_apps, app, m_pid, mon, forks, child, cur, unloading, dup, escaped>>

\* postMainLoop: stopApplications() works on a copy of m_apps, which a monitor
\* that has not yet run add() is missing from
postMainLoop ==
    /\ Goto("idle", "stopping")
    /\ ~unloading /\ unloading' = TRUE
    /\ stops' = m_apps
    /\ escaped' = {i \in Infos : mon[i] = "add"}
    /\ UNCHANGED <<dbVars, m_apps, app, m_pid, mon, forks, child, starts, cur, dup>>

-----------------------------------------------------------------------------
\* stopApplication: the next AppInfo of the list, or the list is done
nextStop ==
    /\ \/ /\ Goto("stopping", "term")
          /\ \E i \in stops : cur' = i /\ stops' = stops \ {i}
       \/ /\ stops = {}
          /\ Goto("stopping", IF unloading THEN "stopped" ELSE "starting")
          /\ UNCHANGED <<stops, cur>>
    /\ UNCHANGED <<dbVars, m_apps, app, m_pid, mon, forks, child, starts, unloading, dup, escaped>>

\* kill(0, SIGTERM) goes to the process group of the server: the children that
\* have not yet called setsid() are in it.
signalGroup ==
    \E hit \in SUBSET {i \in Infos : child[i] = "up"} :
        child' = [i \in Infos |-> IF i \in hit THEN "told" ELSE child[i]]

\* kill() fails: no process has the pid
killFailed ==
    /\ m_pid[cur] # 0 /\ ~Exists(cur)
    /\ pc' = "stopping"
    /\ escaped' = escaped \cup {cur}
    /\ UNCHANGED child

\* kill(info->getPid(), SIGTERM)
sigterm ==
    /\ pc = "term"
    /\ \/ killFailed
       \/ /\ m_pid[cur] # 0 /\ Exists(cur)
          /\ pc' = "timedJoin"
          /\ child' = [child EXCEPT ![cur] = IF @ = "up" THEN "told" ELSE @]
          /\ UNCHANGED escaped
       \/ /\ m_pid[cur] = 0
          /\ pc' = "timedJoin"
          /\ signalGroup
          /\ UNCHANGED escaped
    /\ UNCHANGED <<dbVars, m_apps, app, m_pid, mon, forks, stops, starts, cur, unloading, dup>>

\* the bug of giving up after the five seconds
noSigkill ==
    /\ Goto("timedJoin", "stopping")
    /\ UNCHANGED <<dbVars, m_apps, app, m_pid, mon, forks, child, stops, starts, cur,
                   unloading, dup, escaped>>

\* timed_join: the monitor has ended, or five seconds have passed
timedJoin ==
    /\ \/ Goto("timedJoin", "stopping") /\ mon[cur] = "ended"
       \/ Goto("timedJoin", "kill") /\ mon[cur] # "ended"
    /\ UNCHANGED <<dbVars, m_apps, app, m_pid, mon, forks, child, stops, starts, cur,
                   unloading, dup, escaped>>

\* kill(info->getPid(), SIGKILL), with the pid of now; pid 0 ends the server
sigkill ==
    /\ pc = "kill"
    /\ \/ killFailed
       \/ /\ m_pid[cur] # 0 /\ Exists(cur)
          /\ pc' = "join"
          /\ child' = [child EXCEPT ![cur] = IF @ \in Alive THEN "killed" ELSE @]
          /\ UNCHANGED escaped
       \/ /\ m_pid[cur] = 0
          /\ pc' = "dead"
          /\ UNCHANGED <<child, escaped>>
    /\ UNCHANGED <<dbVars, m_apps, app, m_pid, mon, forks, stops, starts, cur, unloading, dup>>

\* thread->join(), without limit
join ==
    /\ Goto("join", "stopping") /\ mon[cur] = "ended"
    /\ UNCHANGED <<dbVars, m_apps, app, m_pid, mon, forks, child, stops, starts, cur,
                   unloading, dup, escaped>>

-----------------------------------------------------------------------------
\* A new AppInfo, in a slot nobody uses (which of them makes no difference), and
\* its monitor thread
newMonitor(a) ==
    LET free == {i \in Infos : mon[i] \in {"none", "ended"}}
        new == CHOOSE i \in free : TRUE
    IN  /\ free # {}
        /\ app' = [app EXCEPT ![new] = a]
        /\ m_pid' = [m_pid EXCEPT ![new] = 0]
        /\ forks' = [forks EXCEPT ![new] = 0]
        /\ mon' = [mon EXCEPT ![new] = "add"]
        /\ UNCHANGED child

\* The thread cannot be created: stopApplication() of an AppInfo whose pid is 0
noThread ==
    /\ signalGroup
    /\ UNCHANGED <<app, m_pid, mon, forks>>

alreadyLoaded == UNCHANGED <<app, m_pid, mon, forks, child>>

\* startApplication: nothing if an AppInfo of the application is listed
startApplication(a) ==
    \/ Listed(a) # {} /\ alreadyLoaded
    \/ Listed(a) = {} /\ (newMonitor(a) \/ noThread)

nextStart ==
    /\ \/ /\ pc = "starting" /\ UNCHANGED pc
          /\ \E a \in starts : starts' = starts \ {a} /\ startApplication(a)
       \/ /\ Goto("starting", "idle") /\ starts = {}
          /\ UNCHANGED <<app, m_pid, mon, forks, child, starts>>
    /\ UNCHANGED <<dbVars, m_apps, stops, cur, unloading, dup, escaped>>

-----------------------------------------------------------------------------
\* the bug of listing the AppInfo only after the fork
addLate(i) ==
    /\ Step(i, "add", "fork")
    /\ UNCHANGED <<dbVars, m_apps, app, m_pid, forks, child, mainVars, dup, escaped>>

\* the bug of an add() that does not look for the application
addTwice(i) ==
    /\ Step(i, "add", "fork")
    /\ m_apps' = m_apps \cup {i}
    /\ UNCHANGED <<dbVars, app, m_pid, forks, child, mainVars, dup, escaped>>

\* doApplicationMonitor, the beginning: m_apps.add(info), which asserts that the
\* application is not listed; the assertion throws to the end of the monitor
monitorAdd(i) ==
    /\ \/ /\ Listed(app[i]) = {}
          /\ Step(i, "add", "fork")
          /\ m_apps' = m_apps \cup {i}
          /\ UNCHANGED dup
       \/ /\ Listed(app[i]) # {}
          /\ Step(i, "add", "remove")
          /\ dup' = dup \cup {app[i]}
          /\ UNCHANGED m_apps
    /\ UNCHANGED <<dbVars, app, m_pid, forks, child, mainVars, escaped>>

\* fork(), or its failure
monitorFork(i) ==
    /\ \/ /\ Step(i, "fork", "setPid")
          /\ forks[i] < MaxForks
          /\ forks' = [forks EXCEPT ![i] = @ + 1]
          /\ child' = [child EXCEPT ![i] = "up"]
       \/ Step(i, "fork", "remove") /\ UNCHANGED <<forks, child>>
    /\ UNCHANGED <<dbVars, m_apps, app, m_pid, mainVars, dup, escaped>>

\* info->setPid(pid)
monitorSetPid(i) ==
    /\ Step(i, "setPid", "wait")
    /\ m_pid' = [m_pid EXCEPT ![i] = forks[i]]
    /\ UNCHANGED <<dbVars, m_apps, app, forks, child, mainVars, dup, escaped>>

\* the bug of starting the application again whatever signal it died of
restartAlways(i) ==
    /\ child[i] \in Zombie
    /\ Step(i, "wait", IF child[i] # "exited" /\ forks[i] < MaxForks THEN "fork" ELSE "remove")
    /\ child' = [child EXCEPT ![i] = "none"]
    /\ UNCHANGED <<dbVars, m_apps, app, m_pid, forks, mainVars, dup, escaped>>

\* the bug of taking every death for the end of the application
restartNever(i) ==
    /\ child[i] \in Zombie
    /\ Step(i, "wait", "remove")
    /\ child' = [child EXCEPT ![i] = "none"]
    /\ UNCHANGED <<dbVars, m_apps, app, m_pid, forks, mainVars, dup, escaped>>

\* waitpid(): after SIGSEGV, SIGABRT or SIGBUS the application is started again.
\* (It waits for a child of its own with all signals masked, so it cannot fail.)
monitorWait(i) ==
    /\ child[i] \in Zombie
    /\ Step(i, "wait", IF child[i] = "crashed" THEN "fork" ELSE "remove")
    /\ child' = [child EXCEPT ![i] = "none"]
    /\ UNCHANGED <<dbVars, m_apps, app, m_pid, forks, mainVars, dup, escaped>>

\* m_apps.remove(info): whatever AppInfo of the application is listed
monitorRemove(i) ==
    /\ Step(i, "remove", "ended")
    /\ m_apps' = m_apps \ Listed(app[i])
    /\ UNCHANGED <<dbVars, app, m_pid, forks, child, mainVars, dup, escaped>>

\* The application's process: main() returns, or a crash signal
appExits(i) ==
    /\ child[i] \in Alive
    /\ child' = [child EXCEPT ![i] = "exited"]
    /\ UNCHANGED <<dbVars, m_apps, app, m_pid, mon, forks, mainVars, dup, escaped>>

appCrashes(i) ==
    /\ child[i] \in Alive /\ forks[i] < MaxForks
    /\ child' = [child EXCEPT ![i] = "crashed"]
    /\ UNCHANGED <<dbVars, m_apps, app, m_pid, mon, forks, mainVars, dup, escaped>>

Monitor(i) ==
    monitorAdd(i) \/ monitorFork(i) \/ monitorSetPid(i) \/ monitorWait(i) \/ monitorRemove(i)
Main == nextStop \/ sigterm \/ timedJoin \/ sigkill \/ join \/ nextStart

Next ==
    \/ changeDB \/ processDB \/ postMainLoop
    \/ Main
    \/ \E i \in Infos : Monitor(i) \/ appExits(i) \/ appCrashes(i)

Spec == Init /\ [][Next]_vars

\* The threads of the server run; nothing is assumed of the applications
FairSpec ==
    /\ Spec
    /\ WF_vars(processDB)
    /\ WF_vars(Main)
    /\ \A i \in Infos : WF_vars(Monitor(i))

-----------------------------------------------------------------------------
\* Type correctness of the storage, the monitors, the children and the lists.
TypeOK ==
    /\ db \subseteq Apps /\ starts \subseteq Apps /\ dup \subseteq Apps
    /\ pending \in Nat /\ changes \in 0..MaxChanges
    /\ m_apps \subseteq Infos /\ stops \subseteq Infos /\ escaped \subseteq Infos
    /\ app \in [Infos -> Apps]
    /\ m_pid \in [Infos -> 0..MaxForks]
    /\ mon \in [Infos -> {"none", "add", "fork", "setPid", "wait", "remove", "ended"}]
    /\ forks \in [Infos -> 0..MaxForks]
    /\ child \in [Infos -> {"none"} \cup Alive \cup Zombie]
    /\ pc \in {"idle", "stopping", "term", "timedJoin", "kill", "join", "starting",
               "stopped", "dead"}
    /\ cur \in Infos
    /\ unloading \in BOOLEAN

\* No stale entry: a listed AppInfo has a monitor that has not ended, so its pid
\* is the one of a process nobody else has waited for, or 0; and an application
\* is listed once.
ListedIsMonitored ==
    /\ \A i \in m_apps : mon[i] \in {"fork", "setPid", "wait", "remove"}
    /\ \A i, j \in m_apps : app[i] = app[j] => i = j

\* An application runs once, unless two monitors were started for it before the
\* first was listed (service.cpp:213 looks in a list that the monitor fills).
RunsOnce ==
    \A a \in Apps \ dup : \A i, j \in Running(a) : i = j

\* Every running application can be found to be stopped: its AppInfo is listed,
\* with the same excuse (the second monitor removes the entry of the first).
RunningIsListed ==
    \A i \in Infos : child[i] # "none" /\ app[i] \notin dup => i \in m_apps

\* stopApplications() leaves nothing behind: when the service has stopped no
\* application runs and none will be started again, with three excuses: a second
\* monitor unlisted it; its monitor had not yet listed it when the list was
\* copied (service.cpp:196); kill() failed because it had just crashed
\* (service.cpp:262 and 279).
StopIsComplete ==
    pc = "stopped" =>
        \A i \in Infos : \/ mon[i] \in {"none", "ended"} /\ child[i] = "none"
                        \/ i \in escaped \/ app[i] \in dup

\* The service keeps what Supervisor promises: a process is started for a new
\* monitor or after a crash, never after an exit or a kill; it is the only one of
\* its application; no monitor is started once the stop has begun, and none that
\* matters is left when it is over; each with the excuses above.
processes == {p \in Apps \X Infos : app[p[2]] = p[1] /\ child[p[2]] \in Alive}
toStart == {p \in Apps \X Infos :
               app[p[2]] = p[1] /\ (mon[p[2]] \in {"add", "fork"} \/ child[p[2]] = "crashed")}
crashedBefore == {p \in processes : forks[p[2]] > 1} \cup {p \in toStart : forks[p[2]] > 0}
Supervision == INSTANCE Supervisor WITH
    procs <- processes,
    due <- toStart,
    again <- crashedBefore,
    doubled <- dup,
    overlooked <- escaped,
    state <- IF ~unloading THEN "open" ELSE IF pc = "stopped" THEN "closed" ELSE "closing"
ImplementsSupervisor == Supervision!Spec

\* A crashed application is started again: its monitor comes to fork() once
\* more, whatever the main thread is doing.
CrashIsHandled ==
    \A i \in Infos : child[i] = "crashed" ~> (mon[i] = "fork" \/ pc = "dead")

\* SIGKILL ends stopApplication(): join() after it returns.  (Not so when the
\* application crashes between the timeout and the signal: then the signal goes
\* to a dead process and join() waits for its successor.)
KillEndsTheStop ==
    \A i \in Infos :
        (pc = "join" /\ cur = i /\ child[i] = "killed") ~> pc # "join"

=============================================================================
