# Kalinka: TLA+ models, checks and proofs

Kalinka is a media server written in C++ with pthreads.  A server process loads
*modules* (shared libraries); each module has a thread of its own, a mailbox
and optional timer threads.  Modules talk to each other by synchronous and
asynchronous messages, are loaded and unloaded at run time, and the
applications (HTTP streamer, transcoder, DVB streamer) run further worker
threads.  Nearly all of its concurrency is built from a few primitives under
`src/common`: a semaphore, a stop trigger, an event, a message holder and a
scheduler of threads.  This project models these primitives, the modules and the
module factory built on them, and the parts of the server and of the
applications that start, serve and stop threads or processes.

Paths below are relative to the repository.

## 1. Inventory

| Component | State | Operations | What makes it correct |
|---|---|---|---|
| semaphore, `src/common/klksemaphore.cpp` | one counter | `wait`, `timedwait`, `trywait`, `post`, `isLocked`, `init` | tokens are neither lost nor invented |
| trigger, `src/common/thread.cpp` | a semaphore; positive means stopped | `stop`, `isStopped`, `wait`, `init` | a stop reaches every polling and waiting thread; no false stops |
| event, `src/common/thread.cpp` | `m_exit`, `m_loop`, condition variable | `startWait`, `stopWait` | a wait ends when it should; flags do not leak into the next wait |
| message holder, `src/common/messageholder.cpp` | deque or one slot, `m_stop`, `m_wait_exit`, `m_wait_loop` | `add`, `get`, `start`, `stop` | no lost wakeup, FIFO, nothing twice |
| module, `src/common/module.cpp`, `moduledb.cpp` | two holders, trigger, checkpoints, `m_start_sem` | `start`, `addMessage`, `sendSyncMessage`, `stop`, `init`, `waitStart` | messages handled in order, calls end with their own answer, startup reported when and only when done |
| timer threads, `src/common/modulescheduler.cpp` | trigger and event per timer | `start`, `stop` | no calls after the module is stopped; joins return |
| scheduler, `src/common/scheduler.cpp` | list of threads, trigger | `startThread`, `stopThread`, `stop` | one pthread per object; stop forgets nobody |
| module factory, `src/common/modfactory.cpp` | list of modules, scheduler | `load`, `unload`, `unloadAll` | dependencies first, unload in reverse |
| dependency graph, `src/common/mod/dep.cpp` | boost graph | `addDependency`, `rmDependency`, `getDependency`, `getSortedList` | acyclic, topological order |
| library factory and module descriptions, `src/common/libfactory.cpp`, `mod/info.cpp` | lists of libraries | load, query | - |
| processor and message factory, `src/common/processor.cpp`, `msgfactory.cpp` | table of handlers, UUID counter | `process`, `getMessage` | handler of the right type; fresh UUIDs |
| message core, `src/modules/msgcore` | registered receivers | dispatch of asynchronous messages | every receiver gets each message once |
| service, `src/modules/service` | list of running applications, one monitor thread and child process each | `processDB`, start, stop, `waitpid`, restart after a crash; load command | an application runs once, can be found to be stopped, and does not outlive the server |
| adapter and checkdb modules | ICE adapter | sync calls to other modules | no mutual waiting |
| HTTP streamer: threads, `src/app/http-streamer` | containers of connections and inputs, queue of the stop thread | accept, serve, hang up, notify, stop; add and delete routes | connections are stopped once and joined, none outlives its object or its input |
| HTTP streamer: UDP input, `inudp.cpp` | semaphore of connections, `m_init_lock`, reader | count, uncount, init, read, stop | reads exactly while there are clients; stops |
| transcoder, `src/app/transcode`, `src/common/gst/gstthread.cpp` | tasks, pipelines, storage lock, events | playback rounds, `processDB`, EOS, stop | no join under a lock the joined thread wants; no thread outlives its pipeline |
| DVB streamer and scanner, `src/app/dvb` | tuners, plugins | tune, scan | - |
| launcher and server, `src/app/launcher`, `src/server` | trigger, factory | start, wait, stop | stops after the last module |
| database, sockets, SNMP, GStreamer wrapper, configuration, XML, CLI, logging | external libraries | I/O | - |
| installer, client, webmin | - | front ends | - |

**How the parts interact.**  The module factory starts a module through the
scheduler (`init`, `pthread_create`), then waits for its startup
(`waitStart`); it stops it with `Scheduler::stopThreadByInfo` (`stop`, join).
Modules send by calling `addMessage` of the receiver in the sender's thread;
the receiver's thread handles the message.  A synchronous caller waits in its
own one-slot holder, into which the receiver's thread puts the answer.  Timer
threads run functions of the module in their own threads and may send
synchronous messages too, as may the ICE threads of the adapter.  The service
runs the applications as child processes; each is a launcher with a module
factory of its own.  In the applications the base scheduler runs connections,
inputs and pipelines; a thread that has to end asks another one (the stop
thread, the processor of events) to stop and join it.

**What is hard.**  All waiting is by flags and condition variables that are
signalled only if a waiter has announced itself; `isStopped()` *changes* the
semaphore for a moment; several methods do their work outside the lock they
appear to use (`Scheduler::stop`, `MessageHolder4Standard::stop`); objects are
reused for the next life of a module; intervals run out while the answer is on
its way; a list is copied, or a pid read, and acted on when it has changed; a
thread that has been told to stop is taken for one that has ended.  The hazards, with the lines where they bite and the properties aimed
at them, are listed in `PROJECT.json`.

## 2. Modules and how they correspond to the code

A critical section of a mutex is one step.  Whatever is not under a mutex is
split at every access to shared state, so `isStopped()` is always two steps
(`sem_trywait`, then `sem_post` if a token was taken).  `pthread_cond_wait`
splits a critical section in two; a thread leaves the wait set when it is
signalled or by itself.  Definitions named after a bug ("the bug of ...") are
mutated forms of the definition below them; no specification uses them.

| Module | Code | State and actions |
|---|---|---|
| `Semaphore` | `klksemaphore.cpp` | `m_sem`; `post`, `take`, `busy`, `reinit` are one libc call each |
| `Trigger` | `Trigger` in `thread.cpp` | any number of threads polling `isStopped()` and blocked in `wait()`, `stop()`, `init()` while others are inside `isStopped()` (their tokens go into the new semaphore), interrupted waits (EINTR is swallowed by `BaseSemaphore::wait`) |
| `StopFlag` | abstract | what a trigger promises: a flag with `Raise`, `Lower` and threads that `Ask` and are answered `Yes` or `No` |
| `MessageHolder` | `messageholder.cpp` | the holder's five variables and its operations, for both subclasses (`SyncRes`); extended by `Module` and `SyncCall` |
| `Mailbox` | abstract | what a mailbox promises: `Post`, `Take`, `Finish`, `Discard`, `Close`, `Reopen` |
| `Module` | `Module` in `module.cpp` | composition of `MessageHolder` and `Semaphore` with the module's thread, senders, and the thread that unloads it and loads it again |
| `SyncCall` | `Module::sendSyncMessage`, `Processor::processSync` | the one-slot holder with calling threads, sends that fail, and receivers that answer late or never; UUIDs are taken again when nothing of their last call is left, so the number of calls has no bound |
| `Rpc` | abstract | what a synchronous call promises: `Call` or `Refuse`, `Answer` or `Ignore`, `Return` with the own answer, or `Fail` |
| `Event` | `Event` in `thread.cpp` | an event as a record, its critical sections as operators |
| `TimerThread` | `modulescheduler.cpp` | an event and a trigger per timer; the timers' loop, stop, join and restart |
| `Scheduler` | `scheduler.cpp` | the list under `m_lock`, all that happens outside it, the managed pthreads, and any number of clients that start and stop any object |
| `ThreadPool` | abstract | what the scheduler promises: `Start` and `End` of a thread, `Ask` and `Answered`, `Stop` and `Stopped`, `Advance` and `Closed` |
| `Startup` | `module.cpp`, `moduledb.cpp`, `modfactory.cpp` | checkpoints, `m_start_sem`, loaders with timeouts and retries, exceptions of the startup, `Module::stop()` of an unload by its three steps |
| `ModuleFactory`, `MCModuleFactory` | `modfactory.cpp`, `mod/dep.cpp`, `server/main.cpp`, the load command of the service | modules, graph, factory lock, scheduler list; a stack of frames for each of the two threads that load; `unloadAll` and `unload` step by step; module threads that may sleep through their stop.  The MC module gives the declared dependencies |
| `Service` | `modules/service/service.cpp`, `appinfo.cpp` | database list, `m_apps`, monitors, child processes; the main thread's start and stop with SIGTERM, five seconds, SIGKILL, join |
| `Supervisor` | abstract | what the service promises: `Monitor`, `Start`, `Crash`, `End` of a process, `GiveUp`, `Overlook`, `Close` and `Closed` |
| `Transcode` | `app/transcode` (`trans.cpp`, `transscheduler.cpp`, `pipeline.cpp`), `gst/gstthread.cpp` | one source: its stored pipeline, the pipelines' threads, the quit sources in the shared GMainContext, and the timer, main and processor threads that work on them |
| `Connections`, `MCConnections` | `app/http-streamer` (`conthread.cpp`, `inthread.cpp`, `outthread.cpp`, `stopthread.cpp`, `factory.cpp`) | composition of `Event` with the containers, the stop thread's queue and the base scheduler, up to `Factory::clear()`; one route, whose path a client writes as configured or with other slashes |
| `UdpInput` | `app/http-streamer/inudp.cpp`, `conthread.cpp` | the semaphore that counts connections, `m_init_lock`, the input's rounds, deletion and the final stop |
| `TriggerProofs`, `ModuleProofs`, `SyncCallProofs`, `StartupProofs`, `ServiceProofs`, `ModuleFactoryProofs`, `SchedulerProofs`, `ConnectionsProofs` | | theorems of the module of that name; `TriggerProofs` also of `TimerThread`, `ConnectionsProofs` of `UdpInput` |

`Module`, `SyncCall`, `TimerThread` and `Startup` are four views of one class:
each takes one of the objects a module owns (mailbox, response holder, timers,
checkpoints) with all the operations on it.  They share no variable in the code
except the stop of the module, which each of them contains.

The modules of the applications take the base scheduler by its steps (registered
under the lock, told to stop, joined unless already stopped, erased); `Scheduler`
has the detail of `m_lock`.  Its trigger is a semaphore there too: while one
client is inside `isStopped()` of a stopped scheduler, another one finds it not
stopped.  This matters, because each application has three clients: timer,
processor and main thread of the transcoder; out, stop and main thread of the
streamer.  An object that is created and destroyed is a slot of a finite
set that is taken again only when nothing refers to it.

Data is abstracted to what the properties tell apart: a message is its number
in the order of acceptance, a response is its UUID, an interval is the freedom
to end at any time, `processDB` and a handler may succeed or throw without a
visible difference, a process is the number of its fork, a request is good, bad
or bad after its path was read.  History variables (`handled`, `born`, `answered`,
`trapped`, `strays`, `failed`, `contested`, `late`, `dup`, `escaped`, `missed`, `lost`)
and bounds (`Max...`) are named as such where they are
declared.

## 3. Runs

| Run | Module, cfg | Instance | Distinct states | Properties |
|---|---|---|---|---|
| `trigger` | `Trigger`, `MCTrigger` | 2 polling, 2 waiting threads, 3 stops between two starts, 1 signal | @trigger | `Conservation`, `ImplementsFlag`, `StopReleasesAll` |
| `module` | `Module`, `MCModule` | 2 senders, 3 messages, 2 incarnations | 151,856 | `NoLostWakeup`, `InOrder`, `RestartIsClean`, `MessagesTaken`, `ImplementsMailbox` |
| `sync_call` | `SyncCall`, `MCSyncCall` | 2 callers, 2 receivers, 3 UUIDs in use at once, any number of calls | @sync_call | `AnswersMatch`, `ImplementsRpc`, `CallEnds` |
| `timer_thread` | `TimerThread`, `MCTimerThread` | 2 timers, unbounded restarts | 640 | `AtMostOneLateCall`, `StopJoins` |
| `scheduler` | `Scheduler`, `MCScheduler` | 2 objects, 2 pthreads in all, 2 clients that start and stop, 1 that stops all | @scheduler | `ImplementsPool`, `RunningIsKnown`, `StopLeavesNothing`, `StopReturns` |
| `startup` | `Startup`, `MCStartup` | 2 loaders, 3 loads each, 3 timeouts, 2 unloads | @startup | `NotStartedEarly`, `ReportedUnlessUnloaded`, `WaitStartIsTruthful`, `StartupFinishes` |
| `modfactory` | `MCModuleFactory` | 6 modules (2 roots, a cycle, one not installed), 2 load commands | @modfactory | `NoRecursion`, `DependenciesUp`, `UnloadAllLeavesNothing`, `DependentsFirst`, `UnloadAllEnds` |
| `service` | `Service`, `MCService` | 2 applications, 2 monitors, 1 change of the database, 1 crash per monitor | @service | `ImplementsSupervisor`, `RunningIsListed`, `StopIsComplete`, `CrashIsHandled`, `KillEndsTheStop` |
| `transcode` | `Transcode`, `MCTranscode` | 1 task, 2 pipeline objects, 2 threads started, 1 change, 1 EOS or error | @transcode | `NoUseAfterFree`, `StopLeavesNone`, `StopEnds` |
| `connections` | `MCConnections` | 2 connections, 2 inputs (one route deleted and added again) | @connections | `StopNeverThrows`, `OrphansAreStopped`, `NoUseAfterFree`, `SleepsOnlyUnaware` |
| `udp_input` | `UdpInput`, `MCUdpInput` | 2 connections, 2 inputs | 343,324 | `TokensCoverConnections`, `StopEnds` |
| `module_hang` | `Module`, `MCModuleHang` | as `module` | violation | `GetEndsAfterStop` |

**What the passing runs show.**

* `trigger`: although `isStopped()` takes the token away for a moment, the
  counter and the tokens in flight always add up to the stops, the interrupted
  waits and what was in flight at `init()`; a single `stop()` releases every waiting and polling thread.  To those
  who ask it is the flag of `StopFlag`: true is answered only after a stop (or an
  interrupted wait), and false after a stop only while another thread has the
  token.
* `module`: with the mailbox, the trigger and the unload interleaved at every
  step, the module's thread never sleeps next to a message, handles messages in
  order and at most once over restarts, never processes a message that a
  `stop()` has cleared, and the whole behaves as the abstract `Mailbox`.
* `sync_call`: a late answer never ends a later call, although two threads share
  the one-slot holder.  Every call ends, unless answers to other calls keep coming
  for ever and each of them restarts its interval.  The calls are those of `Rpc`:
  a call returns with its own answer or fails, never both.
* `timer_thread`: the timer function runs at most once after `stop()`, and every
  join returns, over any number of restarts.
* `scheduler`: among clients that start and stop the same objects in any order,
  and a `stop()` of all, two things can go wrong with an object: two
  `stopThread()` calls for it overlap (`contested`), or it is started after
  `stop()` has its copy of the list while another client is inside `isStopped()`
  (`late`).  Any other object is the pool's of `ThreadPool`: it has one pthread at
  a time, which is listed or in the hands of one who joins it, `stopThread` returns
  when it has ended or leaves that to a `stop()` of all on its way, and that
  leaves only what another client is joining.
* `startup`: a module is never reported started too early; `waitStart` returns
  early only after an interval has run out somewhere, throws for a started
  module only if another loader was there to take the token, and a module that is not
  unloaded always becomes started, even if `processDB` throws a `std::exception`,
  unless its start failed outside the handlers (`failed`).
* `modfactory`: with two threads loading, declared cycles, self-dependencies and
  modules that are not installed, the recursion of `load` meets no module twice,
  a started module has its dependencies started, `unloadAll` stops dependents
  first (except what was loaded after it had sorted) and leaves no thread.  It
  ends, although it joins a thread that may be in the middle of a load, unless a
  module thread sleeps through its stop (`JoinsSleeper`, the hang of `module_hang`).
* `service`: the service is the `Supervisor`: an application has one process,
  started for a new monitor or after a crash and never after an exit or a kill.
  The process is in the list, and `stopApplications` leaves none; the exceptions
  are named in the properties (below).  A crash leads to a new fork whatever the main thread does, and a
  SIGKILL that finds the process ends the wait.
* `transcode`: no pipeline thread and no quit source outlives its object or the
  application, except for the pipelines named by `OutOfReach`; `stop()` returns
  although it joins with `m_storage_lock` held, because pipeline threads never take
  that lock, unless somebody joins a pipeline whose stop was lost (`Stuck`).
* `connections`: the stop thread never asks the scheduler for a thread it does
  not know, although a connection is listed before it is registered; a
  connection that asked for the path as configured and found its input just before
  `delInfo` is stopped with the others; a running connection's object exists, also
  after the factory was cleared, unless it hung up or was started `late`; the stop
  thread sleeps only next to connections, and to a stop, that came between its test
  of `isStopped()` and its wait.
* `udp_input`: the semaphore covers the counted connections and the final stop
  ends, although it joins connections that wait for a lock the input holds;
  both unless a token was taken by the wrong party.

**Bounds.**  Every bound is a guard on a named constant (`MaxStops`,
`MaxSignals`, `MaxMsgs`, `MaxStarts`, `MaxLives`, `MaxLoads`, `MaxTimeouts`,
`MaxUnloads`, `MaxChanges`, `MaxForks`, `MaxReports`) or the size of a set.  Two
threads of each kind are the least with which tokens and flags are contended
between equals; two incarnations are one restart, after which the code's objects
are in a state they were in before; three messages let one be in hand, one queued
and one arriving; three UUIDs give the late answer of one call to the next while
another thread's is open, over and over, since UUIDs are taken again.  In
`scheduler` two pthreads are one object started twice, with the second start
between the steps of two stops, or two objects; the third client is the one that
stops all while the second is inside `isStopped()`.  In `service` two monitors are enough for two of one
application or one each, and two forks for a crash at every moment and what
follows it; in `transcode` two pipeline objects let one be stored while the
thread of the other ends and leaves its quit sources to it, and two starts let one
object be started again;
in `connections` and `udp_input` two inputs are one deletion with a successor
under the same path, and two connections one that has its token and one that
takes it.  `MCModuleFactory` has a chain of three, a cycle of two, a
self-dependency and a missing module, which are the cases `addDependency` and
`load` tell apart.  `Trigger` and `TimerThread` need no bound on restarts.  Where
the invariant is proved (section 4) the bounds do not matter.

Symmetry is used in `connections` only, for the connections and for the inputs;
that run checks safety only, and `CHOOSE` in its module picks positions in a list, never
one of them.

**Deadlock** is checked for `trigger` and `timer_thread`.  The other systems may
stop: a module may be unloaded for good, the server or the application ends, a
bound may be used up, or (as below) a thread may really sleep for ever.

**Fairness.**  Weak fairness of the steps of a running thread, of the end of an
interval and of a call once begun: the kernel schedules runnable threads, and
timeouts are finite.  In `udp_input` also strong fairness of passing
`m_init_lock`, and in `scheduler` of passing `m_lock`: a mutex that is free again
and again is obtained in the end.  In `transcode` one condition covers all threads
but the timer: some of them goes on as long as one can, and each does finitely
many steps, so none is passed over; the timer's rounds need not come.
Nothing external is fair: nobody has to call `stop()`, to send, to answer, to
load or to unload; an application need not end when it is told to; clients, data
and bus messages need not come.  Handlers and timer functions are assumed to
return.

### Where the code and its comments part

One run ends in a violation on purpose; `findings` in `PROJECT.json` quotes the
comment it contradicts.

* `module_hang`: `get()` looks at `m_stop` only after its wait loop.  If the
  whole `Module::stop()` falls between the module's test of `isStopped()` and
  its `get()`, the thread sleeps, nobody may add a message any more, and the
  unloading thread waits in join.

The properties document further places, each as the exact condition under which
it can happen; without the condition TLC finds the behaviour described.

* `isStopped()` may answer false after a `stop()` while another thread has the
  token (`No` of `StopFlag` says: only then).  Consequences: the assertion of
  `addMessage` may fail for a stopped module, the assertion of `Module::init`
  may fail (`ctl = "assertFailed"` is reachable when a sender gives its token
  back to the recreated semaphore), and `startThread` may slip past `stop()` of
  all when a third client is inside `stopThread` (`scheduler.cpp:235`, `:269`).
  If `stop()` has its copy of the list by then, the thread is not stopped: `late`
  in `Scheduler`, `Transcode` and `Connections`.  `scheduler.h:176` says "Stops all
  threads".
* A handled signal ends `Trigger::wait` and leaves the trigger stopped
  (`Interrupt` of `StopFlag`).
* `start()` of a holder keeps what was accepted between the clear and the flag
  of `stop()` (`RestartIsClean`, through `incarnation`).
* The one-slot holder overwrites: with two receivers a late answer can replace
  a good one, and with two calling threads in one module the assertion of
  `get()` fails and a response may be slept through until the interval ends.
  `AnswersMatch` holds all the same.
* A response to another call, rejected at `module.cpp:314`, starts the interval of
  the caller again.  As long as such responses keep coming a call whose receiver is
  dead does not end (the second disjunct of `CallEnds`; without it TLC finds the
  cycle, in which another thread of the module calls and gives up for ever).
* A `stop()` that meets a timer thread in its function is noticed one interval
  later (`StopJoins` still holds).
* A second `stopThread` of the same object does not join but erases the entry the
  object has then (`scheduler.cpp:284`).  If the object was started again in
  between, its pthread is off the list, and it can be started a second time,
  although `:243` says "and only one time".  The start makes the trigger anew, so a
  stop may also be lost and its join never return.  `contested` records that two
  stops of an object overlapped; the properties say that nothing else leads there,
  and that no other object is touched.
* `timedwait` posts a token after a timeout, and one token serves one loader
  only (both in `WaitStartIsTruthful`).  `init()` adds checkpoints and nothing
  resets them, so a module unloaded before it has processed INITFROMDB is never
  reported as started in its next life (`ReportedUnlessUnloaded`).  The same holds
  when `preMainLoop` throws (`module.cpp:140`), when what leaves `processDB` is no
  `std::exception` (`moduledb.cpp:126`), or when the pthread of an earlier start
  could not be created after `init()` (`failed`).
* `modfactory`: a module thread that was told to stop between its test of
  `isStopped()` and `get()` sleeps for ever (`module_hang`), and `unloadAll` never
  returns from its join (`JoinsSleeper` in `UnloadAllEnds`).
* `service`: two CHANGEDB messages in a row start two monitors for one
  application, because the list in which `startApplication` looks is filled by
  the monitor; the second one fails in `add()` and removes the entry of the
  first (`dup`).  The final stop overlooks a monitor that has not yet run, and
  gives up an application that crashed just before `kill()` (`escaped`).  For
  an AppInfo whose pid is still 0 `kill()` goes to the server's process group,
  and SIGKILL then ends the server (`pc = "dead"`).
* `transcode`: a stop that comes before the loop of a pipeline runs has no
  effect, and the join waits for the end of the stream (`lost`).  A thread
  whose start failed removes its watch and looks stopped while it still works
  (`"unwatched"` in `OutOfReach`).  All loops run on the default GMainContext
  (`gstthread.cpp:237`): a quit source that was attached when its loop had quit
  already, which takes two stoppers, stays there, and the next loop of any pipeline
  dispatches it, with the address of an object that may be gone or be a new
  pipeline (`contested`).  A task added to a playing pipeline gets no branch, and
  `addTask` after `stop()` stores a pipeline that the assertion of the
  scheduler's destructor (`transscheduler.cpp:66`) does not expect.
* `connections`: a connection queued between the stop thread's test of
  `isStopped()` (`stopthread.cpp:62`) and its wait (`:64`) stays in the queue until
  the next one comes.  A `stop()` of the stop thread in that moment is never seen,
  and `Factory::stop()` does not return from its join (both are `missed`).  A
  connection that the hang-up detection has stopped looks finished to the scheduler,
  which drops it without a join (`hung`).  A client that asks for the path of a route
  with other slashes is served by its input (`inthread.cpp:382` trims the path),
  but gets no data and is not stopped with it (`conthread.cpp:581` compares the
  paths as they are), against `inthread.cpp:437`: `OrphansAreStopped` is about the
  clients that write the path as it is configured.
* `udp_input`: a connection that ends without having been counted (a bad HTTP
  version is found when the path is already set, or the route was added again)
  takes the token of another one, and a failed initialisation keeps its token
  (`lost`).  The input then waits for a token with `m_init_lock` held, which the
  counted connection waits for: neither ends before another client comes, and
  the stop may hang.  In the other direction, a `trywait` that meets the probe
  of `isLocked()` leaves a token too many, and the input reads without clients.

## 4. Proofs

TLAPS checks every theorem below for all values of the constants that satisfy
the named assumptions, which TLC evaluates in the runs:

* `TriggerAssumption`: finite disjoint thread sets, natural bounds;
* `ModuleAssumption`: the module's thread is no sender, `NoMsg` is no message
  number, the standard holder;
* `SyncCallAssumption`: the one-slot holder, `NoMsg` is no UUID;
* `StartupAssumption`: natural bounds;
* `ServiceAssumption`: some application, some AppInfo, natural bounds;
* `SchedulerAssumption`: a positive bound on the lives of an object; `stop()` is
  called by one client, as its last call, which starts and stops nothing else;
* `ConnectionsAssumption`: finitely many connections; connections, inputs and
  the three other threads are different;
* `ModuleFactoryAssumption`: the installed modules and the roots are modules, and
  the host of the load command depends on another module.  The last is so
  because the service has CLI commands, which make a module depend on the
  adapter (`module.cpp:342`, `service.cpp:131`): the host is a vertex of
  the graph and `unloadAll` takes it down before it clears the graph.  Otherwise
  a load command might still be at work then.

The theorems of `SchedulerProofs` are about any number of clients, each of which
may start and stop any object.  `TimerThread` and `UdpInput` are proved about as
instances (`Timer`, `Udp`) in the module of the component they are
built on; the instance takes the constants and variables of the same name.

| Theorem | Statement |
|---|---|
| `TriggerProofs!TypeCorrect`, `TokensConserved`, `NoFalseStops`, `StopsNotLost` | `Spec => []TypeOK`, `[]Conservation`, `[]NoFalseStop`, `[]StopNotLost` |
| `ModuleProofs!TypeCorrect`, `NoWakeupLost`, `ExitIsClean`, `HandledInOrder` | `[]TypeOK`, `[]NoLostWakeup`, `[]ExitedIsNotWaiting`, `[]InOrder` |
| `TriggerProofs!FlagImplemented` | `Spec => ImplementsFlag`: the trigger refines `StopFlag` |
| `TriggerProofs!OneLateCall` | `Timer!Spec => []Timer!AtMostOneLateCall` |
| `ModuleProofs!RestartsClean` | `[]RestartIsClean` |
| `ModuleProofs!MailboxImplemented` | `Spec => ImplementsMailbox`: the module refines `Mailbox` |
| `SyncCallProofs!TypeCorrect`, `AnswersAlwaysMatch`, `CallsEndOnce` | `[]TypeOK`, `[]AnswersMatch`, `[]OneEndPerCall` |
| `SyncCallProofs!RpcImplemented` | `Spec => ImplementsRpc`: the synchronous call refines `Rpc` |
| `StartupProofs!NeverStartedEarly`, `ReportedInTime`, `WaitStartTruthful` | `[]NotStartedEarly`, `[]ReportedUnlessUnloaded`, `WaitStartIsTruthful` (an action property) |
| `ServiceProofs!ListIsRight`, `RunningAlwaysListed`, `NeverRunsTwice`, `StopLeavesNone` | `[]ListedIsMonitored`, `[]RunningIsListed`, `[]RunsOnce`, `[]StopIsComplete` |
| `ServiceProofs!SupervisorImplemented` | `Spec => ImplementsSupervisor`: the service refines `Supervisor` |
| `ModuleFactoryProofs!RecursionEnds`, `UpInOrder`, `NothingLeft`, `DownInOrder` | `[]NoRecursion`, `[]DependenciesUp`, `[]UnloadAllLeavesNothing`, `DependentsFirst` (an action property) |
| `SchedulerProofs!RunsOnce`, `NoneForgotten`, `NothingLeft` | `[]OneLife`, `[]RunningIsKnown`, `[]StopLeavesNothing` |
| `SchedulerProofs!PoolImplemented` | `Spec => ImplementsPool`: the scheduler refines `ThreadPool` |
| `ConnectionsProofs!NeverThrows`, `NoOrphans`, `ObjectsExist`, `StopThreadAware` | `[]StopNeverThrows`, `[]OrphansAreStopped`, `[]NoUseAfterFree`, `[]SleepsOnlyUnaware` |
| `ConnectionsProofs!ConnectionsCovered` | `Udp!Spec => []Udp!TokensCoverConnections` |

**Trigger.**  `IInv == TypeOK /\ Conservation /\ NoFalseStop`.  Conservation
counts holders of a token with `Cardinality`, so each action is a lemma about a
finite set gaining or losing one element.  Without conservation `NoFalseStop`
is not inductive: a token in the semaphore could come from nowhere.  The
refinement needs conservation twice (`TokenIsSomewhere`): a token that is taken means
that the flag is up, and a semaphore found empty while the flag is up means that
somebody else has the token.

**Timers.**  `TimerStopped`: once a timer's trigger has been stopped its token is in the
semaphore or in the hand of the timer itself, so no later test of `isStopped()`
allows a call; the one call that may still come is that of a timer past its test.

**Module.**  `IInv` adds four facts to `TypeOK` and `InOrder`: `Stopped` (while the
module is unloaded it has no thread), `Waiting` (`m_wait_loop` is set exactly
while the thread is in its wait loop, and a thread still in the wait set has
nothing to get and no wakeup to see), `Hand` (a message is in hand
exactly while it is processed) and `Numbers` (no message has a number above the
number accepted).  The last is what makes `InOrder` inductive: a new message
must be above all others.  The refinement uses the same invariant: the initial
states correspond, and each step is one of `Mailbox` or leaves its variables
alone.  `RestartIsClean` needs `Clean`: what is in the mailbox was accepted by this
incarnation, and by the next one after the clear of `stop()`; nothing is
accepted between the flag of `stop()` and `start()`.

**SyncCall.**  `IInv` adds `Slot` (a response in the slot was put there by a
receiver), `Fresh` (two callers never have the same UUID), `Open` (a call that has not ended has no
answer and has sent no trap) and `NotTrapped` (no answer belongs to a call that
has sent the trap).  The proof does not use
who is waiting on the holder or its flags, which is why the theorem holds for
several threads of one module although the assertion of `get()` does not.  For
the refinement `Once` is added: a request is in one receiver's mailbox, once, so
that who takes it out leaves none behind.  Handing over a request is `Call`, a
response `Answer`, a lost request `Ignore`, a send that fails `Refuse`, and a
`get()` that comes back is `Return` or `Fail` according to what it got, or is not
seen when the loop of `sendSyncMessage` goes on; intervals and restarts of the
holder are not seen either.

**Startup.**  `NotStartedEarly` counts the checkpoints the thread has still to
pass: the initial one, one for the INITFROMDB it will send, and one for each it has
sent, also those that a start before left in the mailbox.  It is inductive with the
types alone.
`ReportedUnlessUnloaded` needs equality where the first needs a bound: `Exact` says
that before the first unload, and unless a start has failed, the count is what is
left to pass.
`WaitStartIsTruthful` follows from `Tokens`: a token of `m_start_sem` stands for a
finished startup or for an interval that ran out, and a loader that waits after
the startup has its token or there is another loader.

**Service.**  `IInv` is `Shape` with `ListedIsMonitored` (a listed AppInfo has a
monitor that has not ended, and an application is listed once),
`ChildIsWaitedFor` (a process belongs to a monitor that waits for it),
`ActiveIsListed` (a monitor past `add()` is listed, unless a second one was
started), `StopProgress` (while the service stops, each monitor is still on the
copied list, is being stopped, has ended, or is excused) and
`StoppedOnlyAtEnd`.  `RunsOnce` follows from the first three: two processes of one
application would be two listed AppInfos.  `StopProgress` is what
`StopIsComplete` needs: at its end the copied list is empty.
The refinement adds `Pids`, proved on top of `IInv`: the pid of an AppInfo is
never ahead of the forks of its monitor, and what runs was forked.  So a
`kill()` that fails while the process runs had the pid of an earlier one, which
crashed: it is the `Overlook` of `Supervisor`, which is allowed for nothing
else.  `SlotsSame` takes care of the steps the supervisor does not see (the pid
is set, a zombie is waited for, a signal is sent but not yet acted on).

**ModuleFactory.**  `Stacks` is the heart: each frame of `load()` but the innermost
waits for the next one, and there is an edge of the graph from its module to
that one's.  As the graph has no cycle (`Graph`; `addDependency` rolls back an
edge that would close one), no module is on a stack twice: `NoRecursion`.
This stays so when two threads load, because edges are only added until the
graph is cleared, and then nobody loads: `HostGoesDown` and `WhoLoads`.  A frame
also remembers that what it has been through is up, which is `DependenciesUp`
when it starts its module.  `Sorted` (what was up when the order was computed
is in the order, and yet to be unloaded) gives `DependentsFirst`, `AllStopped` gives
`UnloadAllLeavesNothing`.

**Scheduler.**  The invariant is one per object, for the objects that are neither
`contested` nor `late`: `Object`.  `Latest`: whatever a list or a client knows of it
is its latest pthread.  `OneStopper`: one client at a time works on it in
`stopThread`, and until that client erases it only `stop()` takes it off the list.
`SomebodyJoins`: a pthread that was told to stop and runs is being joined, wherever
the token of its trigger is at the moment (in the semaphore, in the hand of the
pthread, or in that of a client inside `isStopped()`); so a client that finds it
stopped may go on without a join only if another one joins.  `Accounted`: until
`stop()` has its copy what runs is in the list, afterwards it is in the copy, in
hand, or joined by another client.  `Tokens` says where the token of a stopped
scheduler is, hence that a start after the copy slips past a client inside
`isStopped()`, which makes it `late`.  The refinement maps a
pthread that runs to a thread of the pool, a client inside `stopThreadByInfo` to one
who waits for it, and the place of `stop()` to the state of the pool.

**Connections.**  `OnePlace` and `ToStopIsRegistered` (a started connection that is listed,
queued or in the stop thread's hands is registered until `stop()` of all is over) give
`StopNeverThrows`, with `Ending`: the out thread and the stop thread are
registered, hence told and joined before the list is cleared, so that neither is
inside the scheduler any more when it is.  `Sleeper` relates the event to the place of the stop thread:
what is queued while it is blocked, or about to be, was missed, and so was its own
stop.  `ToldIsJoined`, `AllTold`
and `Kept` say who keeps the object of a running connection, up to the clear of
the factory; `Known` ties the
place of a connection in its code to its path and its input, which
`OrphansAreStopped` needs.

**UdpInput.**  `TokensCoverConnections` is inductive with the shape of the state
alone; each step is a lemma on cardinalities: a connection is counted and a token posted, one
is uncounted and at most one token taken, or neither.

Only model-checked: the properties that say that something happens
(`StopReleasesAll`, `MessagesTaken`, `CallEnds`, `StopJoins`, `StopReturns`, `StartupFinishes`,
`UnloadAllEnds`, `CrashIsHandled`, `KillEndsTheStop` and the two `StopEnds`).  They
need fairness, which is out of the prover's reach.  Every invariant and every action
property of the other runs is proved, and so are the five refinements (`Mailbox`,
`StopFlag`, `Rpc`, `ThreadPool`, `Supervisor`).  They imply invariants that were checked on
their own before and stay as theorems: `NoFalseStop`, `OneEndPerCall`,
`OneLife`, `RunsOnce`.  The properties of `Transcode` are model-checked only: its
threads may be told to stop with the `ThreadInfo` of an earlier one, and an object
may be taken by a new pipeline while quit sources still point to it; an inductive
invariant of that has not been written yet.

## 5. What is not modelled, and why

Most of the repository is I/O, construction of media pipelines, formatting,
front ends and third-party code, with no protocol of its own; the models cover
the parts in which threads, processes and locks meet.

* `sendASyncMessage`, the message core and the table of handlers: next in the
  plan.  In `SyncCall` the receivers are an abstraction: a queue of requests
  answered in order, at any time or never.
* What a data race does to the inside of a `std::deque`: the unlocked
  `m_container.clear()` is one step, before or after the critical sections it
  overlaps.
* EINTR of `sem_trywait` and `sem_timedwait`: an interrupted `timedwait` is like
  a timeout; `sem_trywait` does not block.
* Null messages (`add` refuses them and changes nothing), failures of
  `pthread_create` except in `Startup`, of `pthread_mutex_init`, memory exhaustion.
* `Trigger::init()` while somebody is blocked in `sem_wait` of the old semaphore,
  which POSIX leaves undefined: nobody waits for a trigger that is initialised again.
* The logging assertion `KLKASSERT` has no effect on control in a release build;
  `BOOST_ASSERT` throws (`configure.ac` enables the handler of `exception.cpp`) and is modelled as
  an exception of the calling thread.
* `Dependency::rmDependency`, which only a unit test calls; the lists of
  resources and of module descriptions.
* Service: CPU and memory statistics, answers to messages; reuse of pids by the
  kernel; a failure of `waitpid` (`service.cpp:430` would take it for an exit): it
  waits for a child of its own in a thread that masks the signals
  the server handles (`scheduler.cpp:111`), so there is none.
* HTTP streamer: the queue of data of a connection and its rates; updates of a
  route in place (`updateInfo`), and `setOutRoute()`, which stops the out thread and
  starts it again.
* Transcoder: a second thread of a pipeline object beside one that runs and has lost
  its loop to the `clean()` of a failed start; other sources than one, but for the
  context their loops share; the reuse of a joined pthread id; a failing state
  change to NULL; what is inside a pipeline, the crontab of a task (a task may match
  or expire at any round), the SNMP table, bus resets of ieee1394.
* DVB streamer, scanner, resources and devices: device lists and I/O.
* I/O (database, sockets, SNMP, GStreamer, ICE), parsing and formatting, the
  front ends; third-party code (`flvstreamer`, `getstream2`).

## 6. Plan

Done, in this order: `Semaphore`, `Trigger`, `MessageHolder`, `Module` with
`Mailbox`, `SyncCall`, `Event`, `TimerThread`, `Scheduler`, `Startup`,
`ModuleFactory`, `Service`, `Transcode`, `Connections` (with the stop thread),
`UdpInput`, the eight proof modules, and the abstract specifications `StopFlag`,
`Rpc`, `ThreadPool` and `Supervisor`.

Next, the most important first:

1. `Dispatch`: processor, message factory and the message core; asynchronous
   messages to all registered receivers while modules come and go.
2. `SyncMesh`: several modules that call each other synchronously from their
   main threads (composition of `Module` and `SyncCall`), mutual waiting until
   the intervals end.
