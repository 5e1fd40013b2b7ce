---------------------------- MODULE ModuleFactory ----------------------------
(****************************************************************************)
(* klk::ModuleFactory with klk::mod::Dependency (src/common/modfactory.cpp, *)
(* src/common/mod/dep.cpp) as the server uses them: the main thread loads   *)
(* the roots, waits for the stop event and calls unloadAll(), while the     *)
(* thread of one module, the host, carries out load commands of the CLI.    *)
(*                                                                          *)
(* load() is recursive: a loader has a stack of frames.  Whatever throws in *)
(* one of them unwinds the stack.  The scheduler is taken by its interface; *)
(* module Scheduler has its inside.                                         *)
(****************************************************************************)
EXTENDS Naturals, Sequences, FiniteSets

CONSTANTS
    Mods,        \* module ids
    Installed,   \* those the library factory can create
    Declared,    \* the dependencies each module adds when it is registered
    Roots,       \* sequence of the modules startModules() loads
    Host,        \* the module whose thread runs the load commands
    MaxLoads     \* bound on the load commands

ASSUME ModuleFactoryAssumption ==
    /\ Installed \subseteq Mods /\ Host \in Mods
    /\ Declared \in [Mods -> SUBSET Mods]
    /\ Roots \in Seq(Mods) /\ MaxLoads \in Nat
    \* its CLI commands make the host depend on the adapter (module.cpp:342)
    /\ Declared[Host] \ {Host} # {}

Loaders == {"main", "cli"}

VARIABLES
    m_modules,   \* modules created and registered
    vertices,    \* of the dependency graph
    edges,       \* <<child, parent>>
    m_lock,      \* holder of the factory's lock between two steps, or "free"
    stack,       \* frames of each loader, the innermost first
    m_threads,   \* modules in the list of the scheduler
    m_stop,      \* the scheduler has been stopped
    thread,      \* the thread of each module
    pc,          \* where the main thread is
    root,        \* the root to be loaded next
    left,        \* what unloadAll() has yet to unload
    order,       \* the edges getSortedList() saw
    cur,         \* what is being unloaded
    loads,       \* load commands so far
    late         \* history: modules started after getSortedList()

vars == <<m_modules, vertices, edges, m_lock, stack, m_threads, m_stop, thread, pc,
          root, left, order, cur, loads, late>>
graphVars == <<vertices, edges>>
schedVars == <<m_threads, m_stop, thread>>
mainVars == <<pc, root, left, order, cur>>
histVars == <<loads, late>>

Frame(m) == [id |-> m, at |-> "get", todo |-> {}]

Init ==
    /\ m_modules = {}
    /\ vertices = {} /\ edges = {}
    /\ m_lock = "free"
    /\ stack = [l \in Loaders |-> << >>]
    /\ m_threads = {}
    /\ m_stop = FALSE
    /\ thread = [m \in Mods |-> "off"]
    /\ pc = "start"
    /\ root = 1
    /\ left = {} /\ order = {}
    /\ cur = Host
    /\ loads = 0
    /\ late = {}

Top(l) == Head(stack[l])
At(l, where) == stack[l] # << >> /\ Top(l).at = where
\* The innermost frame goes on
Goto(l, where, todo) ==
    stack' = [stack EXCEPT ![l] = <<[Top(l) EXCEPT !.at = where, !.todo = todo]>> \o Tail(@)]
\* An exception: every frame of the recursion rethrows it
Failed == [id |-> Host, at |-> "threw", todo |-> {}]
Throw(l) == stack' = [stack EXCEPT ![l] = <<Failed>>]

\* What depth_first_search() with the cycle detector finds: modules each of
\* which has an edge to another of them
HasCycle(E) == \E S \in SUBSET Mods : S # {} /\ \A m \in S : \E n \in S : <<m, n>> \in E

-----------------------------------------------------------------------------
\* getModule4Start, under m_lock: a known module, a new one that is to be
\* registered, or an exception
getModule4Start(l) ==
    /\ At(l, "get") /\ m_lock = "free"
    /\ LET m == Top(l).id IN
       \/ m \in m_modules /\ Goto(l, "known", {}) /\ UNCHANGED m_lock
       \/ m \in Installed \ m_modules /\ Goto(l, "register", Declared[m]) /\ m_lock' = l
       \/ m \notin Installed \cup m_modules /\ Throw(l) /\ UNCHANGED m_lock
    /\ UNCHANGED <<m_modules, graphVars, schedVars, mainVars, histVars>>

\* the bug of a Dependency that lets a cycle in
addUnchecked(l) ==
    /\ At(l, "register")
    /\ \E parent \in Top(l).todo :
          /\ Goto(l, "register", Top(l).todo \ {parent})
          /\ vertices' = vertices \cup {Top(l).id, parent}
          /\ edges' = edges \cup {<<Top(l).id, parent>>}
    /\ UNCHANGED <<m_modules, m_lock, schedVars, mainVars, histVars>>

\* Dependency::addDependency for one of the declared modules.  An edge that
\* would close a cycle is taken out again, its vertices stay, and the assertion
\* in Module::addDependency() throws.
addDependency(l) ==
    /\ At(l, "register")
    /\ \E parent \in Top(l).todo :
          LET child == Top(l).id
              E == edges \cup {<<child, parent>>}
              next == Goto(l, "register", Top(l).todo \ {parent})
          IN  \/ /\ child = parent
                 /\ next /\ UNCHANGED <<graphVars, m_lock>>
              \/ /\ child # parent /\ ~HasCycle(E)
                 /\ next /\ UNCHANGED m_lock
                 /\ vertices' = vertices \cup {child, parent} /\ edges' = E
              \/ /\ child # parent /\ HasCycle(E)
                 /\ Throw(l) /\ m_lock' = "free"
                 /\ vertices' = vertices \cup {child, parent} /\ UNCHANGED edges
    /\ UNCHANGED <<m_modules, schedVars, mainVars, histVars>>

\* addModule: what has registered its processors is a known module
addModule(l) ==
    /\ At(l, "register") /\ Top(l).todo = {}
    /\ Goto(l, "known", {})
    /\ m_modules' = m_modules \cup {Top(l).id}
    /\ m_lock' = "free"
    /\ UNCHANGED <<graphVars, schedVars, mainVars, histVars>>

\* the bug of a load() that leaves its dependencies to others
getNoDependency(l) ==
    /\ At(l, "known")
    /\ Goto(l, "deps", {})
    /\ UNCHANGED <<m_modules, graphVars, m_lock, schedVars, mainVars, histVars>>

\* Dependency::getDependency, under the graph's own lock only
getDependency(l) ==
    /\ At(l, "known")
    /\ Goto(l, "deps", {d \in Mods : <<Top(l).id, d>> \in edges})
    /\ UNCHANGED <<m_modules, graphVars, m_lock, schedVars, mainVars, histVars>>

\* load(*i): the next dependency, in a frame of its own
loadDependency(l) ==
    /\ At(l, "deps")
    /\ \/ \E d \in Top(l).todo :
             stack' = [stack EXCEPT ![l] =
                 <<Frame(d), [Top(l) EXCEPT !.todo = @ \ {d}]>> \o Tail(@)]
       \/ Top(l).todo = {} /\ Goto(l, "start", {})
    /\ UNCHANGED <<m_modules, graphVars, m_lock, schedVars, mainVars, histVars>>

\* startModuleThread, under m_lock; a stopped scheduler ignores the call
startModuleThread(l) ==
    /\ At(l, "start") /\ m_lock = "free" /\ m_lock' = l
    /\ Goto(l, "check", {})
    /\ LET m == Top(l).id IN
       \/ /\ m \notin m_threads /\ ~m_stop
          /\ m_threads' = m_threads \cup {m}
          /\ thread' = [thread EXCEPT ![m] = "starting"]
          /\ late' = IF pc \in {"start", "loaded"} THEN late ELSE late \cup {m}
       \/ (m \in m_threads \/ m_stop) /\ UNCHANGED <<m_threads, thread, late>>
    /\ UNCHANGED <<m_modules, graphVars, m_stop, mainVars, loads>>

\* ... and its last assertion, before the lock is released
checkStarted(l) ==
    /\ At(l, "check") /\ m_lock' = "free"
    /\ \/ Top(l).id \in m_threads /\ Goto(l, "wait", {})
       \/ Top(l).id \notin m_threads /\ Throw(l)
    /\ UNCHANGED <<m_modules, graphVars, schedVars, mainVars, histVars>>

\* waitStart(60): the module has come up, or an exception after a minute
waitStart(l) ==
    /\ At(l, "wait")
    /\ \/ thread[Top(l).id] # "starting" /\ stack' = [stack EXCEPT ![l] = Tail(@)]
       \/ thread[Top(l).id] = "starting" /\ Throw(l)
    /\ UNCHANGED <<m_modules, graphVars, m_lock, schedVars, mainVars, histVars>>

load(l) ==
    \/ getModule4Start(l) \/ addDependency(l) \/ addModule(l) \/ getDependency(l)
    \/ loadDependency(l) \/ startModuleThread(l) \/ checkStarted(l) \/ waitStart(l)

-----------------------------------------------------------------------------
\* startModules: load() of the roots, one after the other
startModules ==
    /\ pc = "start" /\ stack["main"] = << >>
    /\ \/ /\ root <= Len(Roots)
          /\ stack' = [stack EXCEPT !["main"] = <<Frame(Roots[root])>>]
          /\ root' = root + 1 /\ UNCHANGED pc
       \/ root > Len(Roots) /\ pc' = "loaded" /\ UNCHANGED <<root, stack>>
    /\ UNCHANGED <<m_modules, graphVars, m_lock, schedVars, left, order, cur, histVars>>

\* The exception of a load command is the answer of the CLI, that of a root
\* ends the server
caught(l) ==
    /\ At(l, "threw")
    /\ stack' = [stack EXCEPT ![l] = << >>]
    /\ pc' = IF l = "main" THEN "failed" ELSE pc
    /\ UNCHANGED <<m_modules, graphVars, m_lock, schedVars, root, left, order, cur, histVars>>

\* isLoaded, which the load commands look at
isLoaded(m) == m \in m_modules /\ m \in m_threads /\ thread[m] # "starting"

\* LoadModuleCommand in the thread of the host
loadCommand ==
    /\ loads < MaxLoads /\ loads' = loads + 1
    /\ thread[Host] \in {"on", "told"} /\ stack["cli"] = << >>
    /\ \E m \in Installed : ~isLoaded(m) /\ stack' = [stack EXCEPT !["cli"] = <<Frame(m)>>]
    /\ UNCHANGED <<m_modules, graphVars, m_lock, schedVars, mainVars, late>>

\* The thread of a module: its startup, and its end once it was told to stop.
\* The host ends when the command it is carrying out has.  A thread that was told
\* between isStopped() and get() sleeps in get() for ever (messageholder.cpp:138,
\* GetEndsAfterStop of module Module).
moduleThread(m) ==
    /\ \/ thread[m] = "starting" /\ thread' = [thread EXCEPT ![m] = "on"]
       \/ /\ thread[m] = "told" /\ (m = Host => stack["cli"] = << >>)
          /\ \E end \in {"off", "asleep"} : thread' = [thread EXCEPT ![m] = end]
    /\ UNCHANGED <<m_modules, graphVars, m_lock, stack, m_threads, m_stop, mainVars, histVars>>

-----------------------------------------------------------------------------
\* unloadAll: getSortedList of the graph as it is now
unloadAll ==
    /\ pc = "loaded" /\ pc' = "next"
    /\ left' = vertices /\ order' = edges
    /\ UNCHANGED <<m_modules, graphVars, m_lock, stack, schedVars, root, cur, histVars>>

\* the bug of a sort that puts the dependencies first
dependencyFirst(m) == \A n \in left : <<m, n>> \notin order

\* getSortedList is a topological order: nothing left depends on the next one
sortedNext(m) == \A n \in left : <<n, m>> \notin order

\* stop() of a thread that has not ended
Told(m) == [thread EXCEPT ![m] = IF @ \in {"starting", "on"} THEN "told" ELSE @]

\* the bug of a stopThread that joins only
joinOnly(m) == UNCHANGED thread

\* Scheduler::stopThreadByInfo, as far as the join
stopThreadByInfo(m) == thread' = Told(m)

\* unload(id): getModule under m_lock ...
unload ==
    /\ pc = "next" /\ m_lock = "free"
    /\ \E m \in left :
          /\ sortedNext(m)
          /\ cur' = m /\ left' = left \ {m}
          /\ pc' = IF m \in m_modules THEN "unload" ELSE "next"
    /\ UNCHANGED <<m_modules, graphVars, m_lock, stack, schedVars, root, order, histVars>>

\* ... then isStarted and stopThread without it
stopThread ==
    /\ pc = "unload"
    /\ \/ cur \notin m_threads /\ pc' = "check" /\ UNCHANGED thread
       \/ cur \in m_threads /\ pc' = "join" /\ stopThreadByInfo(cur)
    /\ UNCHANGED <<m_modules, graphVars, m_lock, stack, m_threads, m_stop, root, left, order, cur,
                   histVars>>

\* the join is over and the entry erased
eraseThread ==
    /\ pc = "join" /\ thread[cur] = "off" /\ pc' = "check"
    /\ m_threads' = m_threads \ {cur}
    /\ UNCHANGED <<m_modules, graphVars, m_lock, stack, m_stop, thread, root, left, order, cur,
                   histVars>>

\* the last assertion of unload(); it throws through unloadAll(), which is over
checkUnloaded ==
    /\ pc = "check"
    /\ pc' = IF cur \in m_threads THEN "aborted" ELSE "next"
    /\ UNCHANGED <<m_modules, graphVars, m_lock, stack, schedVars, root, left, order, cur, histVars>>

clear ==
    /\ pc = "next" /\ left = {} /\ pc' = "cleared"
    /\ vertices' = {} /\ edges' = {}
    /\ UNCHANGED <<m_modules, m_lock, stack, schedVars, root, left, order, cur, histVars>>

\* the bug of an unloadAll() that trusts the graph
noStopAll ==
    /\ pc = "cleared" /\ pc' = "done"
    /\ UNCHANGED <<m_modules, graphVars, m_lock, stack, schedVars, root, left, order, cur, histVars>>

\* Scheduler::stop: no more starts; a copy of the list, then each is stopped and
\* joined, then the list is cleared
stopAll ==
    /\ \/ /\ pc = "cleared" /\ pc' = "stopNext"
          /\ m_stop' = TRUE /\ left' = m_threads
          /\ UNCHANGED <<m_threads, thread, cur>>
       \/ /\ pc = "stopNext" /\ pc' = "stopJoin"
          /\ \E m \in left : cur' = m /\ left' = left \ {m} /\ stopThreadByInfo(m)
          /\ UNCHANGED <<m_threads, m_stop>>
       \/ /\ pc = "stopJoin" /\ thread[cur] = "off" /\ pc' = "stopNext"
          /\ UNCHANGED <<m_threads, m_stop, thread, left, cur>>
       \/ /\ pc = "stopNext" /\ left = {} /\ pc' = "done"
          /\ m_threads' = {}
          /\ UNCHANGED <<m_stop, thread, left, cur>>
    /\ UNCHANGED <<m_modules, graphVars, m_lock, stack, root, order, histVars>>

Main == startModules \/ unload \/ stopThread \/ eraseThread \/ checkUnloaded \/ clear \/ stopAll

Next ==
    \/ Main \/ unloadAll \/ loadCommand
    \/ \E l \in Loaders : load(l) \/ caught(l)
    \/ \E m \in Mods : moduleThread(m)

Spec == Init /\ [][Next]_vars

\* Every thread runs; the stop event and the commands need not come
FairSpec ==
    /\ Spec
    /\ WF_vars(Main)
    /\ \A l \in Loaders : WF_vars(load(l) \/ caught(l))
    /\ \A m \in Mods : WF_vars(moduleThread(m))

-----------------------------------------------------------------------------
\* The recursion of load() ends: no module waits for itself to be loaded, also
\* when two threads load, the declared dependencies are cyclic (dep.cpp:119-127)
\* or the graph is cleared meanwhile.
NoRecursion ==
    \A l \in Loaders : \A j, k \in 1..Len(stack[l]) :
        stack[l][j].id = stack[l][k].id => j = k

\* A module is started when all it depends on has been, whichever thread started
\* it, unless unloadAll() is taking things down.
DependenciesUp ==
    pc \in {"start", "loaded"} =>
        \A m \in m_threads : \A d \in Declared[m] \ {m} : d \in m_threads

\* unloadAll() stops a module when nothing that depends on it runs any more,
\* except what a load command started after the order was computed.
DependentsFirst ==
    [][\A d \in Mods :
          pc = "unload" /\ thread[d] # "told" /\ thread'[d] = "told"
              => \A m \in m_threads \ {d} : d \in Declared[m] => m \in late]_vars

\* When unloadAll() returns no module is left: no thread, no entry in the list.
UnloadAllLeavesNothing ==
    pc = "done" => m_threads = {} /\ \A m \in Mods : thread[m] = "off"

\* The main thread is in a join that never returns: the thread it told to stop
\* went to sleep in get() afterwards.
JoinsSleeper == pc \in {"join", "stopJoin"} /\ thread[cur] = "asleep"

\* unloadAll() comes to an end, although it joins a thread that may be loading,
\* unless one of the modules is caught between its test of isStopped() and
\* get() (modfactory.cpp:242; the hang itself is the finding about module.cpp).
UnloadAllEnds == pc = "next" ~> pc \in {"done", "aborted"} \/ JoinsSleeper

=============================================================================
