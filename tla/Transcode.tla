------------------------------ MODULE Transcode ------------------------------
(****************************************************************************)
(* The transcode application (src/app/transcode) on top of gst::Thread      *)
(* (src/common/gst/gstthread.cpp).  A source has one pipeline, with a       *)
(* thread that runs a GMainLoop; tasks are added to and deleted from it.    *)
(* Three threads call the scheduler: the timer (doSchedulePlayback), the    *)
(* module's main thread (processDB, postMainLoop) and the processor, which  *)
(* stops pipelines that reported EOS or an error.                           *)
(*                                                                          *)
(* The model has the tasks of one source: pipelines of different sources    *)
(* share the locks, the processor and the default GMainContext, in which    *)
(* the loop of any pipeline dispatches the quit sources of all.  A Pipeline *)
(* object is a slot of Pipes, taken again when nothing refers to it; a quit *)
(* source has its address only.  The base scheduler is taken by its steps:  *)
(* its trigger m_stop is a semaphore, of which a client inside isStopped()  *)
(* holds the token.  Module Scheduler has the detail of its lock.           *)
(****************************************************************************)
EXTENDS Naturals, FiniteSets

CONSTANTS
    Tasks,       \* the tasks of the source, by uuid
    Pipes,       \* Pipeline objects
    NoPipe,      \* the null pointer
    MaxChanges,  \* bound on the CHANGEDB messages
    MaxStarts,   \* bound on the threads started for pipelines
    MaxReports   \* bound on the EOS and errors their buses report

ASSUME TranscodeAssumption ==
    NoPipe \notin Pipes /\ {MaxChanges, MaxStarts, MaxReports} \subseteq Nat

Actors == {"timer", "main", "proc"}

VARIABLES
    db,          \* the tasks of the database
    m_info,      \* the configured tasks, as the module knows them
    m_pipelines, \* the pipeline stored for the source
    locked,      \* stop() holds m_storage_lock
    tasks,       \* m_storage of each Pipeline
    branch,      \* the tasks that got a branch of the tee
    m_threads,   \* pipelines in the list of the base scheduler
    m_stop,      \* semaphore of the base scheduler's trigger
    copied,      \* base::Scheduler::stop() has its copy of the list
    th,          \* where the thread of each pipeline is
    bus,         \* m_bus_id is set: gst::Thread::isStopped() is false
    loop,        \* m_loop is set
    quit,        \* the idle sources with quitCallback of each pipeline
    events,      \* events the processor has yet to take
    pc,          \* where each actor is
    pipe,        \* the pipeline each actor holds
    todo,        \* tasks each actor has yet to handle
    task,        \* the task each actor is handling
    copy,        \* pipelines base::Scheduler::stop() has yet to stop
    changes,     \* CHANGEDB messages so far
    starts,      \* threads started so far
    reports,     \* EOS and errors so far
    stale,       \* actors whose ThreadInfo is that of an ended thread
    lost,        \* history: pipelines with a thread whose stop() found no running loop
    contested,   \* history: pipelines for which two stopThreadByInfo() overlapped
    late         \* history: pipelines with a thread started after the copy was made

vars == <<db, m_info, m_pipelines, locked, tasks, branch, m_threads, m_stop, copied, th, bus,
          loop, quit, events, pc, pipe, todo, task, copy, changes, starts, reports, stale,
          lost, contested, late>>
storeVars == <<db, m_info, m_pipelines, locked>>
threadVars == <<th, bus, loop, quit>>
pipeVars == <<tasks, branch, threadVars>>
schedVars == <<m_threads, m_stop, copied, copy>>
listVars == <<todo, task>>
boundVars == <<changes, starts, reports>>
histVars == <<stale, lost, contested, late>>

\* The first CHANGEDB, at startup, has been processed: all tasks are known
Init ==
    /\ db = Tasks /\ m_info = Tasks
    /\ m_pipelines = NoPipe /\ locked = FALSE
    /\ tasks = [p \in Pipes |-> {}] /\ branch = [p \in Pipes |-> {}]
    /\ m_threads = {} /\ m_stop = 0 /\ copied = FALSE /\ copy = {}
    /\ th = [p \in Pipes |-> "none"]
    /\ bus = [p \in Pipes |-> FALSE] /\ loop = [p \in Pipes |-> FALSE]
    /\ quit = [p \in Pipes |-> 0]
    /\ events = 0
    /\ pc = [a \in Actors |-> "idle"]
    /\ pipe = [a \in Actors |-> NoPipe]
    /\ todo = [a \in Actors |-> {}]
    /\ task \in [Actors -> {CHOOSE t \in Tasks : TRUE}]
    /\ changes = 0 /\ starts = 0 /\ reports = 0
    /\ stale = {} /\ lost = {} /\ contested = {} /\ late = {}

Live == {"created", "run", "eos", "quit", "cleaned", "failed", "unwatched"}
Looping == {p \in Pipes : th[p] \in {"run", "eos"}}
Referenced(p) == p \in m_threads \/ p \in copy \/ m_pipelines = p \/ \E a \in Actors : pipe[a] = p
\* The actor is in stopThreadByInfo() or eraseThread() with a ThreadInfo of p
Stops(a, p) == pipe[a] = p /\ pc[a] \in {"byInfo", "stop", "attach", "join", "erase"}
\* Two stops of one pipeline overlap once a takes its ThreadInfo, and nothing is
\* left of them when its thread, its quit sources and those that stop it are gone
ContestedBy(a, p) == IF \E b \in Actors \ {a} : Stops(b, p) THEN contested \cup {p} ELSE contested
Remains(p) == th[p] \in Live \/ quit[p] > 0 \/ \E a \in Actors : Stops(a, p)
settle == contested' = {p \in contested : Remains(p)'}
\* The clock of a playing branch is past zero
Playing(t) == \E p \in Pipes : t \in branch[p] /\ th[p] = "run"

Becomes(p, from, to) == th[p] \in from /\ th' = [th EXCEPT ![p] = to]
Goto(a, from, to) == pc[a] = from /\ pc' = [pc EXCEPT ![a] = to]
Hold(a, from, to, p) == Goto(a, from, to) /\ pipe' = [pipe EXCEPT ![a] = p]
\* The call of the scheduler is over, normally or by an exception the caller
\* catches: the processor is back at its queue, the others at their lists
Return(a, from) == Hold(a, from, IF a = "proc" THEN "idle" ELSE "dels", NoPipe)

-----------------------------------------------------------------------------
\* An EOS or ERROR event for the processor
addEvent == events' = events + 1 /\ reports < MaxReports /\ reports' = reports + 1

\* gst::Thread::start: the pipeline plays and the loop runs, or setState fails,
\* with an ERROR event if the watch is there, and clean() follows
startLoop(p) ==
    /\ \/ Becomes(p, {"created"}, "run") /\ UNCHANGED <<events, reports>>
       \/ Becomes(p, {"created"}, "failed") /\ bus[p] /\ addEvent
       \/ Becomes(p, {"created"}, "failed") /\ ~bus[p] /\ UNCHANGED <<events, reports>>
    /\ UNCHANGED <<storeVars, tasks, branch, bus, loop, quit, schedVars, pc, pipe, listVars,
                   changes, starts, histVars>>

\* callBus: EOS or an error, once; the loop goes on without the watch.  A failed
\* pause() or play() of a running pipeline reports the same ERROR
callBus(p) ==
    /\ Becomes(p, {"run"}, "eos") /\ bus[p] /\ addEvent
    /\ UNCHANGED <<storeVars, tasks, branch, bus, loop, quit, schedVars, pc, pipe, listVars,
                   changes, starts, histVars>>

\* quitCallback and stopLoop, for some of the sources of p in one iteration of a
\* loop, that of p or of any other pipeline: the watch is removed, and the loop
\* of p quits if it runs and m_loop is still set
quitCallback(p) ==
    /\ \E n \in 1..quit[p] : quit' = [quit EXCEPT ![p] = @ - n]
    /\ bus' = [bus EXCEPT ![p] = FALSE]
    /\ th' = IF p \in Looping /\ loop[p] THEN [th EXCEPT ![p] = "quit"] ELSE th
    /\ UNCHANGED <<storeVars, tasks, branch, loop, events, schedVars, pc, pipe, listVars,
                   boundVars, stale, lost, late>>
    /\ settle

\* Pipeline::clean, gst::Thread::clean: the tasks and the watch; the rest.  A
\* quit source of the pipeline stays in the context
clean(p) ==
    /\ \/ /\ th[p] \in {"quit", "failed"}
          /\ th' = [th EXCEPT ![p] = IF @ = "quit" THEN "cleaned" ELSE "unwatched"]
          /\ tasks' = [tasks EXCEPT ![p] = {}] /\ branch' = [branch EXCEPT ![p] = {}]
          /\ bus' = [bus EXCEPT ![p] = FALSE]
          /\ UNCHANGED <<loop, lost, late>>
       \/ /\ th[p] \in {"cleaned", "unwatched"}
          /\ th' = [th EXCEPT ![p] = "none"] /\ loop' = [loop EXCEPT ![p] = FALSE]
          /\ lost' = lost \ {p} /\ late' = late \ {p}
          /\ UNCHANGED <<tasks, branch, bus>>
    /\ UNCHANGED <<storeVars, quit, events, schedVars, pc, pipe, listVars, boundVars, stale>>
    /\ settle

\* A loop that runs dispatches what is in the context
PipelineThread(p) == startLoop(p) \/ clean(p) \/ (Looping # {} /\ quitCallback(p))

-----------------------------------------------------------------------------
\* base::Scheduler::stopThread: isStopped(), which takes the token and gives it
\* back; nothing once the scheduler is stopped
stopThread(a) ==
    /\ \/ Goto(a, "stopThread", "getInfo") /\ m_stop = 0 /\ UNCHANGED m_stop
       \/ Goto(a, "stopThread", "ask") /\ m_stop > 0 /\ m_stop' = m_stop - 1
       \/ Goto(a, "ask", "stopped") /\ m_stop' = m_stop + 1
    /\ UNCHANGED <<storeVars, pipeVars, events, m_threads, copied, copy, pipe, listVars,
                   boundVars, histVars>>

\* getThreadInfo: an exception if the pipeline is not listed, which stop() catches
getThreadInfo(a) ==
    /\ \/ /\ pipe[a] \in m_threads /\ Goto(a, "getInfo", "byInfo") /\ UNCHANGED pipe
          /\ contested' = ContestedBy(a, pipe[a])
       \/ /\ pipe[a] \notin m_threads /\ UNCHANGED contested
          /\ IF locked /\ a = "main" THEN Goto(a, "getInfo", "stopped") /\ UNCHANGED pipe
                                     ELSE Return(a, "getInfo")
    /\ UNCHANGED <<storeVars, pipeVars, events, schedVars, listVars, boundVars, stale, lost, late>>

\* Where stopThreadByInfo() returns to: base::Scheduler::stop() or stopThread()
After(a) == IF a = "main" /\ copied THEN "baseNext" ELSE "erase"

\* the bug of not joining what has been told to stop
tellOnly(a) ==
    LET p == pipe[a]
    IN  /\ \/ Goto(a, "byInfo", After(a)) /\ ~bus[p] /\ UNCHANGED <<quit, lost>>
           \/ Goto(a, "byInfo", "stop") /\ bus[p] /\ UNCHANGED <<quit, lost>>
           \/ Goto(a, "stop", "attach") /\ p \in Looping /\ loop[p] /\ UNCHANGED <<quit, lost>>
           \/ Goto(a, "stop", After(a)) /\ ~(p \in Looping /\ loop[p]) /\ UNCHANGED <<quit, lost>>
           \/ /\ Goto(a, "attach", After(a)) /\ UNCHANGED lost
              /\ quit' = IF loop[p] THEN [quit EXCEPT ![p] = @ + 1] ELSE quit
        /\ UNCHANGED <<storeVars, tasks, branch, th, bus, loop, events, schedVars, pipe, listVars,
                       boundVars, stale, late>>
        /\ settle

\* the bug of joining what has not been told to stop
joinOnly(a) ==
    /\ \/ Goto(a, "byInfo", "join")
       \/ Goto(a, "join", After(a)) /\ (th[pipe[a]] \notin Live \/ a \in stale)
    /\ UNCHANGED <<storeVars, pipeVars, events, schedVars, pipe, listVars, boundVars, histVars>>

\* stopThreadByInfo: isStopped() looks at the watch.  stop() tests under
\* m_loop_lock whether the loop runs, and then, without the lock, attaches the
\* quit source if m_loop is still set.  The join of the thread id in the info is
\* refused while another actor joins the same id
stopThreadByInfo(a) ==
    LET p == pipe[a]
    IN  /\ \/ Goto(a, "byInfo", After(a)) /\ ~bus[p] /\ UNCHANGED <<quit, lost>>
           \/ Goto(a, "byInfo", "stop") /\ bus[p] /\ UNCHANGED <<quit, lost>>
           \/ Goto(a, "stop", "attach") /\ p \in Looping /\ loop[p] /\ UNCHANGED <<quit, lost>>
           \/ /\ Goto(a, "stop", "join") /\ ~(p \in Looping /\ loop[p]) /\ UNCHANGED quit
              /\ lost' = IF th[p] = "created" THEN lost \cup {p} ELSE lost
           \/ /\ Goto(a, "attach", "join") /\ UNCHANGED lost
              /\ quit' = IF loop[p] THEN [quit EXCEPT ![p] = @ + 1] ELSE quit
           \/ /\ Goto(a, "join", After(a)) /\ UNCHANGED <<quit, lost>>
              /\ \/ th[p] \notin Live \/ a \in stale
                 \/ \E b \in Actors \ (stale \cup {a}) : pipe[b] = p /\ pc[b] = "join"
        /\ UNCHANGED <<storeVars, tasks, branch, th, bus, loop, events, schedVars, pipe, listVars,
                       boundVars, stale, late>>
        /\ settle

\* eraseThread: the entry of the pipeline, also if it has been started again
eraseThread(a) ==
    /\ Goto(a, "erase", "stopped")
    /\ m_threads' = m_threads \ {pipe[a]}
    /\ stale' = stale \ {a}
    /\ UNCHANGED <<storeVars, pipeVars, events, m_stop, copied, copy, pipe, listVars, boundVars,
                   lost, late>>
    /\ settle

\* stopPipeline: the pipeline stored now; at the end whatever is stored then
stopPipeline(a) ==
    /\ ~locked
    /\ \/ /\ m_pipelines # NoPipe /\ Hold(a, "stopPipeline", "stopThread", m_pipelines)
          /\ UNCHANGED m_pipelines
       \/ m_pipelines = NoPipe /\ Return(a, "stopPipeline") /\ UNCHANGED m_pipelines
       \/ Return(a, "stopped") /\ m_pipelines' = NoPipe
    /\ UNCHANGED <<db, m_info, locked, pipeVars, events, schedVars, listVars, boundVars, histVars>>

\* processEvents, processStopEvent: stopPipeline for the source of the event
processEvent ==
    /\ events > 0 /\ events' = events - 1
    /\ ~locked
    /\ \/ m_pipelines # NoPipe /\ Hold("proc", "idle", "stopThread", m_pipelines)
       \/ m_pipelines = NoPipe /\ Hold("proc", "idle", "idle", NoPipe)
    /\ UNCHANGED <<storeVars, pipeVars, schedVars, listVars, boundVars, histVars>>

\* stop() of the processor: it ends at its next isStopped(), with the events that
\* came after its last look or after one that failed still in the queue
processorEnd ==
    /\ pc["main"] = "baseNext" /\ copy = {} /\ Goto("proc", "idle", "ended")
    /\ UNCHANGED <<storeVars, pipeVars, events, schedVars, pipe, listVars, boundVars, histVars>>

-----------------------------------------------------------------------------
\* Scheduler::delTask for the next task of a list: its pipeline, if there is one
delTask(a) ==
    /\ ~locked /\ pc[a] = "dels"
    /\ \E t \in todo[a] : todo' = [todo EXCEPT ![a] = @ \ {t}] /\ task' = [task EXCEPT ![a] = t]
    /\ \/ m_pipelines # NoPipe /\ Hold(a, "dels", "del", m_pipelines)
       \/ m_pipelines = NoPipe /\ UNCHANGED <<pc, pipe>>
    /\ UNCHANGED <<storeVars, pipeVars, events, schedVars, boundVars, histVars>>

\* Pipeline::delTask: a task without a branch is an exception, and so may be the
\* state change and the removal of a branch; the task stays then
delFromPipeline(a) ==
    LET p == pipe[a]
        t == task[a]
    IN  /\ pc[a] = "del"
        /\ \/ /\ t \in tasks[p] /\ Return(a, "del")
              /\ UNCHANGED <<tasks, branch>>
           \/ /\ t \notin tasks[p] \ branch[p] /\ Goto(a, "del", "empty")
              /\ tasks' = [tasks EXCEPT ![p] = @ \ {t}]
              /\ branch' = [branch EXCEPT ![p] = @ \ {t}]
              /\ UNCHANGED pipe
        /\ UNCHANGED <<storeVars, threadVars, events, schedVars, listVars, boundVars, histVars>>

\* pipeline->empty(), which is no longer true when stopPipeline() acts on it
checkEmpty(a) ==
    /\ pc[a] = "empty"
    /\ \/ tasks[pipe[a]] = {} /\ Goto(a, "empty", "stopPipeline") /\ UNCHANGED pipe
       \/ tasks[pipe[a]] # {} /\ Return(a, "empty")
    /\ UNCHANGED <<storeVars, pipeVars, events, schedVars, listVars, boundVars, histVars>>

SchedulerCall(a) ==
    \/ stopThread(a) \/ getThreadInfo(a) \/ stopThreadByInfo(a) \/ eraseThread(a)
    \/ stopPipeline(a) \/ delTask(a) \/ delFromPipeline(a) \/ checkEmpty(a)

-----------------------------------------------------------------------------
\* doSchedulePlayback, in halves: tasks that play may have expired.  The timer
\* stays idle for an empty list, which changes nothing
getStopList ==
    /\ Goto("timer", "idle", "dels")
    /\ \E S \in (SUBSET {t \in m_info : Playing(t)}) \ {{}} : todo' = [todo EXCEPT !["timer"] = S]
    /\ UNCHANGED <<storeVars, pipeVars, events, schedVars, pipe, task, boundVars, histVars>>

\* the list is done: playPipelines of the pipelines it affects
playPipelines ==
    /\ todo["timer"] = {} /\ ~locked /\ pc["timer"] \in {"dels", "adds"}
    /\ \/ m_pipelines # NoPipe /\ Hold("timer", pc["timer"], "play", m_pipelines)
       \/ m_pipelines = NoPipe /\ Hold("timer", pc["timer"], "idle", NoPipe)
    /\ UNCHANGED <<storeVars, pipeVars, events, schedVars, todo, task, boundVars, histVars>>

\* playPipeline: nothing new for a listed pipeline.  startThread: a stopped
\* scheduler ignores it, once isStopped() has taken the token and given it back
playPipeline ==
    LET p == pipe["timer"]
    IN  /\ \/ /\ p \in m_threads /\ UNCHANGED m_stop
              /\ Hold("timer", "play", "idle", NoPipe)
           \/ /\ p \notin m_threads /\ m_stop > 0 /\ m_stop' = m_stop - 1
              /\ Goto("timer", "play", "refused") /\ UNCHANGED pipe
           \/ m_stop' = m_stop + 1 /\ Hold("timer", "refused", "idle", NoPipe)
        /\ UNCHANGED <<storeVars, pipeVars, events, m_threads, copied, copy, todo, task,
                       boundVars, histVars>>

\* startThread of a scheduler whose trigger has no token, all under its m_lock.
\* init() may fail, and does for a pipeline without tasks or with a loop that is
\* still there: then clean() takes tasks, watch and m_loop, also of a thread that
\* runs.  (A second thread beside one that has lost its loop is not followed.)
startThread ==
    LET p == pipe["timer"]
    IN  /\ p \notin m_threads /\ m_stop = 0
        /\ Hold("timer", "play", "idle", NoPipe)
        /\ \/ /\ tasks[p] # {} /\ ~loop[p] /\ th[p] \notin Live
              /\ starts < MaxStarts /\ starts' = starts + 1
              /\ th' = [th EXCEPT ![p] = "created"]
              /\ bus' = [bus EXCEPT ![p] = TRUE] /\ loop' = [loop EXCEPT ![p] = TRUE]
              /\ branch' = [branch EXCEPT ![p] = tasks[p]]
              /\ m_threads' = m_threads \cup {p}
              /\ stale' = stale \cup {a \in Actors : Stops(a, p)}
              /\ late' = IF copied THEN late \cup {p} ELSE late
              /\ UNCHANGED tasks
           \/ /\ tasks' = [tasks EXCEPT ![p] = {}] /\ branch' = [branch EXCEPT ![p] = {}]
              /\ bus' = [bus EXCEPT ![p] = FALSE] /\ loop' = [loop EXCEPT ![p] = FALSE]
              /\ UNCHANGED <<th, m_threads, starts, stale, late>>
        /\ UNCHANGED <<storeVars, quit, events, m_stop, copied, copy, todo, task, changes, reports, lost,
                       contested>>

\* the second half: tasks that match and do not play
getStartList ==
    /\ Goto("timer", "idle", "adds")
    /\ \E S \in (SUBSET {t \in m_info : ~Playing(t)}) \ {{}} : todo' = [todo EXCEPT !["timer"] = S]
    /\ UNCHANGED <<storeVars, pipeVars, events, schedVars, pipe, task, boundVars, histVars>>

\* Scheduler::addTask: the stored pipeline or a new one, whose memory a quit
\* source of a destroyed one may still point to
addTask ==
    /\ ~locked /\ pc["timer"] = "adds"
    /\ \E t \in todo["timer"] :
          todo' = [todo EXCEPT !["timer"] = @ \ {t}] /\ task' = [task EXCEPT !["timer"] = t]
    /\ \/ /\ m_pipelines # NoPipe /\ Hold("timer", "adds", "add", m_pipelines)
          /\ UNCHANGED <<m_pipelines, pipeVars>>
       \/ /\ m_pipelines = NoPipe
          /\ LET free == {p \in Pipes : ~Referenced(p) /\ th[p] \notin Live}
                 new == CHOOSE p \in free : TRUE
             IN  /\ free # {}
                 /\ Hold("timer", "adds", "add", new)
                 /\ m_pipelines' = new
                 /\ tasks' = [tasks EXCEPT ![new] = {}] /\ branch' = [branch EXCEPT ![new] = {}]
                 /\ th' = [th EXCEPT ![new] = "none"]
                 /\ bus' = [bus EXCEPT ![new] = FALSE] /\ loop' = [loop EXCEPT ![new] = FALSE]
                 /\ UNCHANGED quit
    /\ UNCHANGED <<db, m_info, locked, events, schedVars, boundVars, histVars>>

\* Pipeline::addTask: one that is there already is an exception
addToPipeline ==
    /\ Hold("timer", "add", "adds", NoPipe)
    /\ tasks' = [tasks EXCEPT ![pipe["timer"]] = @ \cup {task["timer"]}]
    /\ UNCHANGED <<storeVars, branch, threadVars, events, schedVars, listVars, boundVars, histVars>>

\* The timer ends between two rounds when Module::postMainLoop() stops it
timerEnd ==
    /\ pc["main"] = "timerStop" /\ Goto("timer", "idle", "ended")
    /\ UNCHANGED <<storeVars, pipeVars, events, schedVars, pipe, listVars, boundVars, histVars>>

Timer ==
    \/ SchedulerCall("timer") \/ playPipelines \/ playPipeline \/ startThread
    \/ addTask \/ addToPipeline \/ timerEnd

-----------------------------------------------------------------------------
\* processDB: what is gone from the database is deleted first, and known to be
\* gone only afterwards
processDB ==
    /\ Goto("main", "idle", "dels")
    /\ changes < MaxChanges /\ changes' = changes + 1
    /\ db' \in SUBSET Tasks \ {db}
    /\ todo' = [todo EXCEPT !["main"] = m_info \ db']
    /\ UNCHANGED <<m_info, m_pipelines, locked, pipeVars, events, schedVars, pipe, task, starts, reports, histVars>>

processedDB ==
    /\ todo["main"] = {} /\ Goto("main", "dels", "idle")
    /\ m_info' = db
    /\ UNCHANGED <<db, m_pipelines, locked, pipeVars, events, schedVars, pipe, listVars, boundVars, histVars>>

\* postMainLoop, Scheduler::stop: stopThread of the stored pipeline with the
\* lock held; its isStopped() finds no token, which only main itself will post
stop ==
    /\ ~locked /\ locked' = TRUE
    /\ \/ m_pipelines # NoPipe /\ Hold("main", "idle", "getInfo", m_pipelines)
       \/ m_pipelines = NoPipe /\ Hold("main", "idle", "stopped", NoPipe)
    /\ UNCHANGED <<db, m_info, m_pipelines, pipeVars, events, schedVars, listVars, boundVars, histVars>>

clear ==
    /\ locked /\ locked' = FALSE
    /\ Hold("main", "stopped", "baseStop", NoPipe)
    /\ m_pipelines' = NoPipe
    /\ UNCHANGED <<db, m_info, pipeVars, events, schedVars, listVars, boundVars, histVars>>

\* the bug of a stop() that knows the stored pipelines only
noBaseStop ==
    /\ \/ /\ Hold("main", "baseStop", "baseNext", NoPipe)
          /\ m_stop' = m_stop + 1 /\ copied' = TRUE
       \/ pc["proc"] = "ended" /\ Hold("main", "baseNext", "timerStop", NoPipe) /\ UNCHANGED <<m_stop, copied>>
       \/ pc["timer"] = "ended" /\ Hold("main", "timerStop", "done", NoPipe) /\ UNCHANGED <<m_stop, copied>>
    /\ UNCHANGED <<storeVars, pipeVars, events, m_threads, copy, listVars, boundVars, histVars>>

\* base::Scheduler::stop: the trigger; a copy of the list, each thread of it
\* stopped, the processor, which is the oldest, last; the list is cleared.  Then
\* the timers are stopped.
baseStop ==
    /\ \/ /\ Hold("main", "baseStop", "baseCopy", NoPipe) /\ m_stop' = m_stop + 1
          /\ UNCHANGED <<m_threads, copied, copy, stale, contested>>
       \/ /\ Hold("main", "baseCopy", "baseNext", NoPipe)
          /\ copied' = TRUE /\ copy' = m_threads
          /\ UNCHANGED <<m_threads, m_stop, stale, contested>>
       \/ /\ \E p \in copy :
                /\ Hold("main", "baseNext", "byInfo", p) /\ copy' = copy \ {p}
                /\ contested' = ContestedBy("main", p)
                /\ stale' = IF p \in late THEN stale \cup {"main"} ELSE stale \ {"main"}
          /\ UNCHANGED <<m_threads, m_stop, copied>>
       \/ /\ copy = {} /\ pc["proc"] = "ended" /\ Hold("main", "baseNext", "timerStop", NoPipe)
          /\ m_threads' = {} /\ UNCHANGED <<m_stop, copied, copy, stale, contested>>
       \/ /\ pc["timer"] = "ended" /\ Hold("main", "timerStop", "done", NoPipe)
          /\ UNCHANGED <<schedVars, stale, contested>>
    /\ UNCHANGED <<storeVars, pipeVars, events, listVars, boundVars, lost, late>>

Main == SchedulerCall("main") \/ processedDB \/ clear \/ baseStop
Processor == SchedulerCall("proc") \/ processEvent \/ processorEnd

Next ==
    \/ processDB \/ stop \/ Main
    \/ getStopList \/ getStartList \/ Timer
    \/ Processor
    \/ \E p \in Pipes : PipelineThread(p) \/ callBus(p) \/ quitCallback(p)

Spec == Init /\ [][Next]_vars

Threads == Main \/ Processor \/ \E p \in Pipes : PipelineThread(p)

\* Some thread runs as long as one can, the timer aside, whose rounds need not
\* come any more than changes, the stop and bus messages.  Each of the others does
\* finitely many steps, so that none of them is passed over for ever.
FairSpec == Spec /\ WF_vars(Threads)

-----------------------------------------------------------------------------
\* What the code leaves out of the scheduler's reach: a thread whose start has
\* failed and that has removed its watch, so that nobody joins it while it cleans
\* up; a pipeline that two actors were stopping at once, whose second quit source
\* and whose erased entry (scheduler.cpp:284) meet its next thread; and a thread
\* started after base::Scheduler::stop() had made its copy, by a timer that asked
\* while the processor had the token of m_stop (scheduler.cpp:235, :269).
OutOfReach(p) == th[p] = "unwatched" \/ p \in contested \cup late

\* What the scheduler's destructor is about (transscheduler.cpp:65): no thread and
\* no quit source in the GMainContext uses a Pipeline that has been destroyed,
\* unless it is out of reach.
NoUseAfterFree ==
    \A p \in Pipes : th[p] \in Live \/ quit[p] > 0 => Referenced(p) \/ OutOfReach(p)

\* When the application has stopped, no pipeline in reach runs: also none that
\* the timer started while stop() was on its way to the copy of the list, and
\* none that stopPipeline() took out of the store while it was started again.
StopLeavesNone == pc["main"] = "done" => \A p \in Pipes : th[p] \in Live => OutOfReach(p)

\* An actor joins a pipeline that nothing will stop: its stop() found the loop not
\* running yet (gstthread.cpp:196), or two actors were stopping it.
Stuck == \E a \in Actors : pc[a] = "join" /\ pipe[a] \in lost \cup contested

\* stop() returns although it joins with m_storage_lock held, which the processor
\* and the timer wait for, unless somebody is stuck for ever.
StopEnds == (locked ~> pc["main"] \in {"timerStop", "done"}) \/ <>[]Stuck

=============================================================================
