--------------------------- MODULE SchedulerProofs ---------------------------
(****************************************************************************)
(* base::Scheduler for any number of objects, of clients that start and     *)
(* stop them, and of starts: an object that was never contested and never   *)
(* started late runs once, is never forgotten and is left running by no     *)
(* stop(); and the scheduler is what module ThreadPool promises.            *)
(****************************************************************************)
EXTENDS Scheduler, FiniteSetTheorems, TLAPS

USE SchedulerAssumption

ClientPc == {"idle", "refusedT", "getInfo", "ignoredT", "byInfo", "byInfoT", "stop", "join", "done"}
AllPc == {"idle", "copy", "next", "byInfo", "byInfoT", "stop", "join", "done", "returned"}

\* What the steps read and write has its shape.
Shape ==
    /\ m_threads \in [Threads -> Nat] /\ m_stop \in Nat
    /\ sem \in [Threads -> Nat] /\ lives \in [Threads -> Nat]
    /\ \A t \in Threads : lives[t] <= MaxLives /\ m_threads[t] <= MaxLives
    /\ life \in [Threads -> [Ids -> {"no", "loop", "seen", "exited"}]]
    /\ pc \in [Clients -> ClientPc \cup AllPc]
    /\ \A c \in Clients : IF c \in StopAlls THEN pc[c] \in AllPc
                          ELSE IF c \in Stoppers THEN pc[c] \in ClientPc
                          ELSE pc[c] \in {"idle", "refusedT"}
    /\ info \in [Clients -> Infos \cup {NoInfo}]
    /\ \A c \in Clients : Works(c) => info[c] \in Infos
    /\ todo \in [Clients -> SUBSET Infos]

\* A stopped scheduler has its token, or a client in isStopped() holds it: the
\* one in startThread() under the lock.  Any other has none.
Tokens ==
    /\ m_stop > 0 \/ (\E c \in Clients : pc[c] \in {"refusedT", "ignoredT"}) =>
          \E a \in StopAlls : pc[a] # "idle"
    /\ \A a \in StopAlls : pc[a] # "idle" =>
          m_stop > 0 \/ \E c \in Clients : pc[c] \in {"refusedT", "ignoredT"}
    /\ \A c \in Clients : pc[c] = "refusedT" => m_lock = c

\* What is known of an object is its latest life.
Last(t) == <<t, lives[t]>>
Runs(t) == lives[t] \in Ids /\ life[t][lives[t]] \in {"loop", "seen"}
Before == \A a \in StopAlls : pc[a] \in {"idle", "copy"}
Latest(t) ==
    /\ \A i \in Ids : life[t][i] \in {"loop", "seen"} => i = lives[t]
    /\ m_threads[t] \in {0, lives[t]}
    /\ \A c \in Clients : Works(c) /\ info[c][1] = t => info[c] = Last(t)
    /\ \A a \in StopAlls : pc[a] \notin {"idle", "copy"} =>
          \A i \in todo[a] : i[1] = t => i = Last(t)

\* One stopThread() at a time works on an object, and till it erases the object
\* only stop() takes it from the list.
OneStopper(t) ==
    /\ \A c, d \in Stoppers :
          Works(c) /\ Works(d) /\ info[c][1] = t /\ info[d][1] = t => c = d
    /\ \A c \in Stoppers : Before /\ Works(c) /\ info[c][1] = t => m_threads[t] # 0

\* The trigger of an object was stopped, wherever its token is now.
Posted(t) ==
    \/ sem[t] > 0
    \/ \E i \in Ids : life[t][i] = "seen"
    \/ \E c \in Clients : pc[c] = "byInfoT" /\ info[c][1] = t

Joins(c, t) == pc[c] = "join" /\ info[c] = Last(t)

\* Who was told to stop and still runs is being joined; a stopThread() that did
\* not join to the end has left that to stop().
SomebodyJoins(t) ==
    /\ Runs(t) /\ Posted(t) => \E c \in Clients : Joins(c, t)
    /\ \A c \in Stoppers : Runs(t) /\ pc[c] = "done" /\ info[c] = Last(t) =>
          \E a \in StopAlls : Joins(a, t)

\* Until stop() has its copy what runs is in the list; then it is yet to be
\* handled, or being handled, or joined by another client.
Accounted(t) ==
    Runs(t) =>
        /\ Before => m_threads[t] = lives[t]
        /\ \A a \in StopAlls : pc[a] \notin {"idle", "copy"} =>
              \/ Last(t) \in todo[a]
              \/ info[a] = Last(t) /\ pc[a] \in {"byInfo", "byInfoT", "stop", "join"}
              \/ \E d \in Stoppers : Joins(d, t)

Object(t) == Latest(t) /\ OneStopper(t) /\ SomebodyJoins(t) /\ Accounted(t)

\* The inductive invariant
IInv ==
    /\ Shape /\ Tokens
    /\ \A a \in StopAlls : pc[a] = "returned" => todo[a] = {}
    /\ \A t \in Threads : Regular(t) => Object(t)
-----------------------------------------------------------------------------
\* Nothing runs and nothing is known when the scheduler is created.
LEMMA InitInvariant == Init => IInv
<1>. SUFFICES ASSUME Init PROVE IInv
  OBVIOUS
<1>1. \A c \in Clients : pc[c] = "idle"
  BY DEF Init
<1>2. Shape
  BY <1>1 DEF Shape, Init, Works, ClientPc, AllPc
<1>3. Tokens /\ \A a \in StopAlls : pc[a] = "returned" => todo[a] = {}
  BY <1>1 DEF Tokens, Clients, Init
<1>4. ASSUME NEW t \in Threads PROVE Object(t)
  <2>1. \A i \in Ids : life[t][i] = "no"
    BY DEF Init
  <2>2. ~Runs(t)
    BY <2>1 DEF Runs
  <2>3. \A c \in Clients : ~Works(c) /\ pc[c] = "idle"
    BY <1>1 DEF Works
  <2>4. Latest(t)
    BY <2>1, <2>3 DEF Latest, Init, Clients
  <2>5. OneStopper(t)
    BY <2>3 DEF OneStopper, Clients
  <2> QED BY <2>2, <2>3, <2>4, <2>5 DEF Object, SomebodyJoins, Accounted
<1> QED BY <1>2, <1>3, <1>4 DEF IInv

\* A client that moves outside stopThreadByInfo() and is neither stop() does
\* nothing to an object.
LEMMA Unmoved ==
    ASSUME IInv, NEW c \in Clients \ StopAlls, ~Works(c), ~Works(c)',
           \A d \in Clients : d # c => pc'[d] = pc[d],
           UNCHANGED <<m_threads, sem, lives, life, info, todo, contested, late>>
    PROVE  /\ \A a \in StopAlls : pc'[a] = "returned" => todo'[a] = {}
           /\ \A t \in Threads : Regular(t)' => Object(t)'
<1>1. \A a \in StopAlls : pc'[a] = pc[a] /\ a \in Clients
  BY DEF Clients
<1>2. ASSUME NEW d \in Clients
      PROVE  /\ Works(d)' = Works(d)
             /\ pc'[d] \in {"byInfo", "byInfoT", "stop", "join", "done"}
                 \/ pc[d] \in {"byInfo", "byInfoT", "stop", "join", "done"} => pc'[d] = pc[d]
  BY DEF Works
<1>3. Before' = Before
  BY <1>1 DEF Before
<1>4. ASSUME NEW t \in Threads, Regular(t)' PROVE Object(t)'
  <2>1. Object(t)
    BY <1>4 DEF IInv, Regular
  <2>2. Runs(t)' = Runs(t) /\ Last(t)' = Last(t)
    BY DEF Runs, Last
  <2>3. \A d \in Clients : Joins(d, t)' = Joins(d, t)
    BY <1>2, <2>2 DEF Joins
  <2>4. Posted(t)' = Posted(t)
    BY <1>2 DEF Posted
  <2>5. Latest(t)'
    BY <1>1, <1>2, <2>1, <2>2 DEF Object, Latest
  <2>6. OneStopper(t)'
    BY <1>2, <1>3, <2>1 DEF Object, OneStopper, Clients
  <2>7. SomebodyJoins(t)'
    BY <1>2, <2>1, <2>2, <2>3, <2>4 DEF Object, SomebodyJoins, Clients
  <2>8. Accounted(t)'
    BY <1>1, <1>3, <2>1, <2>2, <2>3 DEF Object, Accounted, Clients
  <2> QED BY <2>5, <2>6, <2>7, <2>8 DEF Object
<1> QED BY <1>1, <1>4 DEF IInv

\* startRefused and stopThread: a token at most goes and comes back.
LEMMA PollKeeps ==
    ASSUME IInv, NEW c \in Clients,
           (c \in Starters /\ startRefused(c)) \/ (c \in Stoppers /\ stopThread(c))
    PROVE  IInv'
<1>1. Shape /\ Tokens /\ c \notin StopAlls
  BY DEF IInv
<1>2. /\ pc[c] \in {"refusedT", "ignoredT", "idle"}
      /\ pc'[c] \in {"idle", "getInfo", "ignoredT", "refusedT"}
      /\ c \notin Stoppers => pc'[c] \in {"idle", "refusedT"}
      /\ \A d \in Clients : d # c => pc'[d] = pc[d]
      /\ UNCHANGED <<m_threads, sem, lives, life, info, todo, contested, late>>
  BY <1>1 DEF startRefused, stopThread, Goto, threadVars, histories, Shape
<1>3. ~Works(c) /\ ~Works(c)'
  BY <1>2 DEF Works
<1>4. Shape'
  <2>1. pc' \in [Clients -> ClientPc \cup AllPc] /\ m_stop' \in Nat
    BY <1>1 DEF startRefused, stopThread, Goto, Shape, ClientPc
  <2>2. \A d \in Clients : IF d \in StopAlls THEN pc'[d] \in AllPc
                           ELSE IF d \in Stoppers THEN pc'[d] \in ClientPc
                           ELSE pc'[d] \in {"idle", "refusedT"}
    BY <1>1, <1>2 DEF Shape, ClientPc
  <2>3. \A d \in Clients : Works(d)' => info'[d] \in Infos
    BY <1>1, <1>2, <1>3 DEF Shape, Works
  <2> QED BY <2>1, <2>2, <2>3, <1>1, <1>2 DEF Shape
<1>5. Tokens'
  <2>1. \A a \in StopAlls : pc'[a] = pc[a]
    BY <1>1, <1>2 DEF Clients
  <2>2. \/ pc'[c] \in {"refusedT", "ignoredT"}
        \/ m_stop' > 0
        \/ m_stop' = m_stop /\ pc[c] = "idle"
    BY <1>1 DEF startRefused, stopThread, Goto, Shape
  <2>3. ASSUME NEW a \in StopAlls, pc'[a] # "idle"
        PROVE  m_stop' > 0 \/ \E d \in Clients : pc'[d] \in {"refusedT", "ignoredT"}
    BY <1>1, <1>2, <2>1, <2>2, <2>3 DEF Tokens
  <2>4. ASSUME NEW d \in Clients, pc'[d] = "refusedT"
        PROVE  m_lock' = d
    <3>1. CASE startRefused(c)
      <4>1. \A e \in Clients : e # c => pc[e] # "refusedT"
        BY <3>1, <1>1 DEF Tokens, startRefused, Goto, Free, Shape
      <4> QED BY <3>1, <4>1, <2>4, <1>1, <1>2 DEF startRefused, Goto, Shape
    <3>2. CASE stopThread(c)
      BY <3>2, <2>4, <1>1, <1>2 DEF stopThread, Goto, Shape, Tokens
    <3> QED BY <3>1, <3>2
  <2>5. ASSUME m_stop' > 0 \/ \E d \in Clients : pc'[d] \in {"refusedT", "ignoredT"}
        PROVE  \E a \in StopAlls : pc'[a] # "idle"
    <3>1. pc[c] \in {"refusedT", "ignoredT"} \/ m_stop > 0 \/ (m_stop' = m_stop /\ pc'[c] \notin {"refusedT", "ignoredT"})
      BY <1>1 DEF startRefused, stopThread, Goto, Shape
    <3>2. m_stop > 0 \/ \E d \in Clients : pc[d] \in {"refusedT", "ignoredT"}
      BY <3>1, <2>5, <1>2
    <3> QED BY <3>2, <2>1, <1>1 DEF Tokens
  <2> QED BY <2>3, <2>4, <2>5 DEF Tokens
<1> QED BY <1>1, <1>2, <1>3, <1>4, <1>5, Unmoved DEF IInv

\* Who starts an object when stop() has its copy has slipped past it.  Otherwise
\* the object does not run and no stopThread() works on it.
LEMMA StartFresh ==
    ASSUME IInv, NEW c \in Clients, NEW t \in Threads, startThread(c, t), t \notin contested
    PROVE  \/ t \in late'
           \/ /\ Before /\ ~Runs(t)
              /\ \A i \in Ids : life[t][i] \notin {"loop", "seen"}
              /\ \A d \in Clients : ~(Works(d) /\ info[d][1] = t)
<1>. SUFFICES ASSUME t \notin late'
              PROVE  /\ Before /\ ~Runs(t)
                     /\ \A i \in Ids : life[t][i] \notin {"loop", "seen"}
                     /\ \A d \in Clients : ~(Works(d) /\ info[d][1] = t)
  OBVIOUS
<1>1. Shape /\ Tokens /\ m_stop = 0 /\ m_lock = "free" /\ m_threads[t] = 0
  BY DEF IInv, startThread, Free
<1>2. t \notin late
  BY DEF startThread, create
<1>3. Object(t)
  BY <1>2 DEF IInv, Regular
<1>4. ASSUME NEW a \in StopAlls, pc[a] \notin {"idle", "copy"} PROVE FALSE
  <2>1. PICK d \in Clients : pc[d] \in {"refusedT", "ignoredT"}
    BY <1>1, <1>4 DEF Tokens
  <2>2. pc[d] = "ignoredT"
    BY <1>1, <2>1 DEF Tokens
  <2>3. d \in Stoppers
    BY <1>1, <2>2 DEF Shape, AllPc
  <2> QED BY <1>4, <2>2, <2>3 DEF startThread, create, Slips
<1>5. Before
  BY <1>4 DEF Before
<1>6. ~Runs(t)
  BY <1>1, <1>3, <1>5 DEF Object, Accounted, Runs, Ids
<1>7. \A i \in Ids : life[t][i] \notin {"loop", "seen"}
  BY <1>3, <1>6 DEF Object, Latest, Runs
<1>8. ASSUME NEW d \in Clients, Works(d), info[d][1] = t PROVE FALSE
  <2>1. d \in Stoppers
    BY <1>1, <1>5, <1>8 DEF Shape, Before, Works, Clients
  <2> QED BY <2>1, <1>1, <1>3, <1>5, <1>8 DEF Object, OneStopper
<1> QED BY <1>5, <1>6, <1>7, <1>8

\* startThread starts an object that does not run and that no stopThread() works
\* on, or starts it late.
LEMMA StartKeeps ==
    ASSUME IInv, NEW c \in Clients, NEW t \in Threads, startThread(c, t)
    PROVE  IInv'
<1>1. Shape /\ Tokens
  BY DEF IInv
<1>2. /\ lives[t] < MaxLives /\ m_stop = 0 /\ m_threads[t] = 0 /\ m_lock = "free"
      /\ lives[t] \in Nat /\ lives[t] + 1 \in Ids
      /\ UNCHANGED <<m_stop, m_lock, pc, info, todo, contested>>
  BY <1>1 DEF startThread, create, Free, Shape, Ids
<1>3. /\ lives'[t] = lives[t] + 1 /\ sem'[t] = 0 /\ m_threads'[t] = lives[t] + 1
      /\ life'[t][lives[t] + 1] = "loop"
      /\ \A i \in Ids : i # lives[t] + 1 => life'[t][i] = life[t][i]
      /\ \A u \in Threads : u # t => /\ lives'[u] = lives[u] /\ sem'[u] = sem[u]
                                     /\ life'[u] = life[u] /\ m_threads'[u] = m_threads[u]
  BY <1>1, <1>2 DEF startThread, create, Shape
<1>4. Shape'
  <2>1. m_threads' \in [Threads -> Nat] /\ sem' \in [Threads -> Nat] /\ lives' \in [Threads -> Nat]
    BY <1>1, <1>2 DEF startThread, create, Shape
  <2>2. \A u \in Threads : lives'[u] <= MaxLives /\ m_threads'[u] <= MaxLives
    BY <1>1, <1>2, <1>3 DEF Shape
  <2>3. life' \in [Threads -> [Ids -> {"no", "loop", "seen", "exited"}]]
    BY <1>1, <1>2 DEF startThread, create, Shape
  <2>4. \A d \in Clients : Works(d)' => info'[d] \in Infos
    BY <1>1, <1>2 DEF Shape, Works
  <2> QED BY <2>1, <2>2, <2>3, <2>4, <1>1, <1>2 DEF Shape
<1>5. Tokens'
  BY <1>1, <1>2 DEF Tokens
<1>6. ASSUME NEW u \in Threads, Regular(u)' PROVE Regular(u)
  BY <1>2, <1>6 DEF startThread, create, Regular
<1>7. \A d \in Clients : Works(d)' = Works(d)
  BY <1>2 DEF Works
<1>8. Before' = Before
  BY <1>2 DEF Before
<1>9. ASSUME NEW u \in Threads, u # t, Regular(u)' PROVE Object(u)'
  <2>1. Object(u)
    BY <1>6, <1>9 DEF IInv
  <2>2. Runs(u)' = Runs(u) /\ Last(u)' = Last(u) /\ Posted(u)' = Posted(u)
    BY <1>2, <1>3, <1>9 DEF Runs, Last, Posted
  <2>3. \A d \in Clients : Joins(d, u)' = Joins(d, u)
    BY <1>2, <2>2 DEF Joins
  <2>4. Latest(u)'
    BY <1>2, <1>3, <1>7, <1>9, <2>1, <2>2 DEF Object, Latest
  <2>5. OneStopper(u)'
    BY <1>2, <1>3, <1>7, <1>8, <1>9, <2>1 DEF Object, OneStopper, Clients
  <2>6. SomebodyJoins(u)'
    BY <1>2, <2>1, <2>2, <2>3 DEF Object, SomebodyJoins, Clients
  <2>7. Accounted(u)'
    BY <1>2, <1>3, <1>8, <1>9, <2>1, <2>2, <2>3 DEF Object, Accounted, Clients
  <2> QED BY <2>4, <2>5, <2>6, <2>7 DEF Object
<1>11. ASSUME Regular(t)' PROVE Object(t)'
  <2>1. Object(t)
    BY <1>6, <1>11 DEF IInv
  <2>2. /\ Before /\ ~Runs(t)
        /\ \A i \in Ids : life[t][i] \notin {"loop", "seen"}
        /\ \A d \in Clients : ~(Works(d) /\ info[d][1] = t)
    BY <1>2, <1>11, StartFresh DEF Regular
  <2>5. Last(t)' = <<t, lives[t] + 1>>
    BY <1>3 DEF Last
  <2>6. \A d \in Clients : ~Joins(d, t)' /\ ~(Works(d)' /\ info'[d][1] = t)
                           /\ ~(pc'[d] = "done" /\ info'[d] = Last(t)')
    BY <1>2, <1>7, <2>2, <2>5 DEF Joins, Works
  <2>7. ~Posted(t)'
    BY <1>3, <2>2, <2>6 DEF Posted, Works
  <2>8. Latest(t)'
    BY <1>2, <1>3, <1>8, <2>2, <2>6 DEF Latest, Before
  <2>9. OneStopper(t)'
    BY <2>6 DEF OneStopper, Clients
  <2>10. SomebodyJoins(t)'
    BY <2>6, <2>7 DEF SomebodyJoins, Clients
  <2>11. Accounted(t)'
    BY <1>2, <1>3, <1>8, <2>2 DEF Accounted, Before
  <2> QED BY <2>8, <2>9, <2>10, <2>11 DEF Object
<1>12. \A a \in StopAlls : pc'[a] = "returned" => todo'[a] = {}
  BY <1>2 DEF IInv
<1> QED BY <1>4, <1>5, <1>9, <1>11, <1>12 DEF IInv

\* getThreadInfo finds the latest life, and is alone with it.
LEMMA GetKeeps ==
    ASSUME IInv, NEW c \in Stoppers, NEW t \in Threads, getThreadInfo(c, t)
    PROVE  IInv'
<1>1. Shape /\ Tokens /\ c \in Clients /\ c \notin StopAlls
  BY DEF IInv, Clients
<1>2. /\ pc[c] = "getInfo" /\ ~Works(c)
      /\ \A d \in Clients : d # c => pc'[d] = pc[d]
      /\ UNCHANGED <<m_threads, m_stop, m_lock, sem, lives, life, todo, late>>
  BY <1>1 DEF getThreadInfo, Goto, threadVars, Shape, Works
<1>3. pc' \in [Clients -> ClientPc \cup AllPc] /\ pc'[c] \in {"idle", "byInfo"}
  BY <1>1 DEF getThreadInfo, Goto, Shape, ClientPc
<1>4. Tokens'
  BY <1>1, <1>2, <1>3 DEF Tokens, Clients
<1>5. CASE pc'[c] = "idle" /\ UNCHANGED <<info, contested>>
  <2>1. ~Works(c)'
    BY <1>5 DEF Works
  <2>2. Shape'
    BY <1>1, <1>2, <1>3, <1>5, <2>1 DEF Shape, ClientPc, Works
  <2> QED BY <1>1, <1>2, <1>4, <1>5, <2>1, <2>2, Unmoved DEF IInv
<1>6. CASE /\ m_threads[t] # 0 /\ pc'[c] = "byInfo"
           /\ info' = [info EXCEPT ![c] = <<t, m_threads[t]>>]
           /\ contested' = IF \E d \in Stoppers : Works(d) /\ info[d][1] = t
                           THEN contested \cup {t} ELSE contested
  <2>1. info'[c] = <<t, m_threads[t]>> /\ \A d \in Clients : d # c => info'[d] = info[d]
    BY <1>1, <1>6 DEF Shape
  <2>a. /\ \A d \in Clients : d # c => Works(d)' = Works(d)
        /\ Works(c)'
    BY <1>2, <1>6 DEF Works
  <2>b. Before' = Before
    BY <1>1, <1>2 DEF Before, Clients
  <2>2. ASSUME NEW u \in Threads, Regular(u)'
        PROVE  /\ Object(u)
               /\ u = t => ~\E d \in Stoppers : Works(d) /\ info[d][1] = t
    BY <2>2, <1>2, <1>6 DEF IInv, Regular
  <2>3. ASSUME NEW u \in Threads, Regular(u)' PROVE Object(u)'
    <3>1. Object(u)
      BY <2>2, <2>3
    <3>2. Runs(u)' = Runs(u) /\ Last(u)' = Last(u)
      BY <1>2 DEF Runs, Last
    <3>3. \A d \in Clients : Joins(d, u)' = Joins(d, u)
      BY <1>2, <1>6, <2>1, <3>2 DEF Joins
    <3>4. Posted(u)' = Posted(u)
      BY <1>2, <1>6, <2>1 DEF Posted
    <3>5. m_threads[u] \in {0, lives[u]}
      BY <3>1 DEF Object, Latest
    <3>6. Latest(u)'
      BY <1>1, <1>2, <1>6, <2>1, <2>a, <3>1, <3>2, <3>5 DEF Object, Latest, Last, Clients
    <3>7. OneStopper(u)'
      BY <1>1, <1>2, <1>6, <2>1, <2>2, <2>3, <2>a, <2>b, <3>1 DEF Object, OneStopper, Clients
    <3>8. SomebodyJoins(u)'
      BY <1>2, <1>6, <2>1, <3>1, <3>2, <3>3, <3>4 DEF Object, SomebodyJoins, Clients
    <3>9. Accounted(u)'
      BY <1>1, <1>2, <2>1, <2>b, <3>1, <3>2, <3>3 DEF Object, Accounted, Clients
    <3> QED BY <3>6, <3>7, <3>8, <3>9 DEF Object
  <2>4. Shape'
    <3>1. m_threads[t] \in Nat /\ m_threads[t] # 0 /\ m_threads[t] <= MaxLives
      BY <1>1, <1>6 DEF Shape
    <3>2. info'[c] \in Infos
      BY <3>1, <2>1, <1>1, <1>6 DEF Infos, Ids, Shape
    <3>3. info' \in [Clients -> Infos \cup {NoInfo}]
      BY <3>2, <2>1, <1>1, <1>6 DEF Shape
    <3>4. \A d \in Clients : Works(d)' => info'[d] \in Infos
      BY <3>2, <2>1, <2>a, <1>1 DEF Shape
    <3> QED BY <3>3, <3>4, <1>1, <1>2, <1>3 DEF Shape, ClientPc
  <2>5. \A a \in StopAlls : pc'[a] = "returned" => todo'[a] = {}
    BY <1>1, <1>2 DEF IInv, Clients
  <2> QED BY <1>4, <2>3, <2>4, <2>5 DEF IInv
<1>7. \/ pc'[c] = "idle" /\ UNCHANGED <<info, contested>>
      \/ pc'[c] = "byInfo" /\ m_threads[t] # 0
  BY <1>1 DEF getThreadInfo, Goto, Shape
<1> QED BY <1>5, <1>6, <1>7 DEF getThreadInfo

\* eraseThread takes an object from the list that does not run, or that stop()
\* is joining.
LEMMA EraseKeeps ==
    ASSUME IInv, NEW c \in Clients, eraseThread(c)
    PROVE  IInv'
<1>1. Shape /\ Tokens /\ c \in Stoppers /\ c \notin StopAlls
  BY DEF IInv, eraseThread
<1> DEFINE t == info[c][1]
<1>2. /\ pc[c] = "done" /\ pc'[c] = "idle" /\ Works(c) /\ ~Works(c)'
      /\ \A d \in Clients : d # c => pc'[d] = pc[d] /\ info'[d] = info[d]
      /\ UNCHANGED <<m_stop, m_lock, sem, lives, life, todo, contested, late>>
  BY <1>1 DEF eraseThread, Goto, threadVars, histories, Shape, Works
<1>3. t \in Threads
  BY <1>1, <1>2 DEF Shape, Infos
<1>4. m_threads'[t] = 0 /\ \A u \in Threads : u # t => m_threads'[u] = m_threads[u]
  BY <1>1, <1>3 DEF eraseThread, Shape
<1>5. \A d \in Clients : d # c => Works(d)' = Works(d)
  BY <1>2 DEF Works
<1>6. Before' = Before
  BY <1>1, <1>2 DEF Before, Clients
<1>7. Shape'
  <2>1. pc' \in [Clients -> ClientPc \cup AllPc] /\ info' \in [Clients -> Infos \cup {NoInfo}]
        /\ m_threads' \in [Threads -> Nat]
    BY <1>1 DEF eraseThread, Goto, Shape, ClientPc
  <2>2. \A d \in Clients : Works(d)' => info'[d] \in Infos
    BY <1>1, <1>2, <1>5 DEF Shape
  <2>3. \A u \in Threads : m_threads'[u] <= MaxLives
    BY <1>1, <1>4 DEF Shape
  <2> QED BY <2>1, <2>2, <2>3, <1>1, <1>2 DEF Shape, ClientPc
<1>8. Tokens'
  BY <1>1, <1>2 DEF Tokens, Clients
<1>9. ASSUME NEW u \in Threads, Regular(u)' PROVE Object(u)'
  <2>1. Object(u)
    BY <1>2, <1>9 DEF IInv, Regular
  <2>2. Runs(u)' = Runs(u) /\ Last(u)' = Last(u)
    BY <1>2 DEF Runs, Last
  <2>3. \A d \in Clients : Joins(d, u)' = Joins(d, u)
    BY <1>2, <2>2 DEF Joins
  <2>4. Posted(u)' = Posted(u)
    BY <1>2 DEF Posted
  <2>5. Latest(u)'
    BY <1>1, <1>2, <1>4, <1>5, <2>1, <2>2 DEF Object, Latest, Clients
  <2>6. OneStopper(u)'
    <3>1. ASSUME NEW d \in Stoppers, Works(d)', info'[d][1] = u
          PROVE  d # c /\ Works(d) /\ info[d][1] = u /\ d \in Clients
      BY <3>1, <1>2, <1>5 DEF Clients
    <3>2. ASSUME NEW d \in Stoppers, Before, Works(d)', info'[d][1] = u
          PROVE  m_threads'[u] # 0
      <4>1. m_threads[u] # 0
        BY <3>1, <3>2, <2>1 DEF Object, OneStopper
      <4>2. u # t
        BY <3>1, <3>2, <2>1, <1>1, <1>2 DEF Object, OneStopper
      <4> QED BY <4>1, <4>2, <1>4
    <3> QED BY <3>1, <3>2, <1>6, <2>1 DEF Object, OneStopper
  <2>7. SomebodyJoins(u)'
    BY <1>2, <2>1, <2>2, <2>3, <2>4 DEF Object, SomebodyJoins, Clients
  <2>8. Accounted(u)'
    <3>1. ASSUME Runs(u), Before PROVE m_threads'[u] = lives[u]
      <4>1. CASE u = t
        <5>1. info[c] = Last(u)
          BY <4>1, <2>1, <1>2 DEF Object, Latest
        <5>2. PICK a \in StopAlls : Joins(a, u)
          BY <5>1, <3>1, <2>1, <1>1, <1>2 DEF Object, SomebodyJoins
        <5> QED BY <5>2, <3>1 DEF Before, Joins
      <4>2. CASE u # t
        BY <4>2, <3>1, <2>1, <1>4 DEF Object, Accounted
      <4> QED BY <4>1, <4>2
    <3> QED BY <3>1, <1>1, <1>2, <1>6, <2>1, <2>2, <2>3 DEF Object, Accounted, Clients
  <2> QED BY <2>5, <2>6, <2>7, <2>8 DEF Object
<1>10. \A a \in StopAlls : pc'[a] = "returned" => todo'[a] = {}
  BY <1>1, <1>2 DEF IInv, Clients
<1> QED BY <1>7, <1>8, <1>9, <1>10 DEF IInv

\* The steps of stop() outside stopThreadByInfo
LEMMA StopAllKeeps ==
    ASSUME IInv, NEW c \in StopAlls, stopAll(c)
    PROVE  IInv'
<1>1. Shape /\ Tokens /\ c \in Clients /\ c \notin Stoppers /\ \A a \in StopAlls : a = c
  BY DEF IInv, Clients
<1>2. /\ pc[c] \in {"idle", "copy", "next", "done"}
      /\ pc'[c] \in {"copy", "next", "byInfo", "returned"}
      /\ \A d \in Clients : d # c => pc'[d] = pc[d] /\ info'[d] = info[d]
      /\ UNCHANGED <<m_lock, sem, lives, life, contested, late>>
  BY <1>1 DEF stopAll, Goto, threadVars, histories, Shape
<1>3. pc' \in [Clients -> ClientPc \cup AllPc] /\ pc'[c] \in AllPc
  BY <1>1, <1>2 DEF stopAll, Goto, Shape, AllPc
<1>4. \A d \in Clients : d # c => Works(d)' = Works(d)
  BY <1>2 DEF Works
<1>5. Tokens'
  <2>1. m_stop' > 0 \/ (m_stop' = m_stop /\ pc[c] # "idle")
    BY <1>1 DEF stopAll, Goto, Shape
  <2>2. \A d \in Clients : pc[d] \in {"refusedT", "ignoredT"} => pc'[d] = pc[d]
    BY <1>2
  <2>3. \A d \in Clients : pc'[d] = "refusedT" => pc[d] = "refusedT"
    BY <1>2
  <2> QED BY <2>1, <2>2, <2>3, <1>1, <1>2 DEF Tokens
<1>6. ASSUME NEW u \in Threads, Regular(u)'
      PROVE  /\ Object(u) /\ Runs(u)' = Runs(u) /\ Last(u)' = Last(u)
             /\ Posted(u)' = Posted(u)
             /\ \A d \in Clients : Joins(d, u)' = Joins(d, u)
             /\ SomebodyJoins(u)'
  <2>1. Object(u)
    BY <1>2, <1>6 DEF IInv, Regular
  <2>2. Runs(u)' = Runs(u) /\ Last(u)' = Last(u)
    BY <1>2 DEF Runs, Last
  <2>3. \A d \in Clients : Joins(d, u)' = Joins(d, u)
    BY <1>1, <1>2, <2>2 DEF Joins
  <2>4. Posted(u)' = Posted(u)
    BY <1>1, <1>2 DEF Posted
  <2>5. SomebodyJoins(u)'
    BY <1>1, <1>2, <2>1, <2>2, <2>3, <2>4 DEF Object, SomebodyJoins, Clients
  <2> QED BY <2>1, <2>2, <2>3, <2>4, <2>5
<1>7. ASSUME pc'[c] # "byInfo" PROVE \A d \in Clients : Works(d)' => Works(d) /\ d # c
  BY <1>2, <1>4, <1>7 DEF Works
<1>8. CASE Goto(c, "idle", "copy") /\ m_stop' = m_stop + 1 /\ UNCHANGED <<m_threads, info, todo>>
  <2>1. pc[c] = "idle" /\ pc'[c] = "copy" /\ Before' /\ Before
    BY <1>1, <1>8 DEF Goto, Shape, Before
  <2>2. Shape'
    BY <2>1, <1>1, <1>2, <1>3, <1>7, <1>8 DEF Shape
  <2>3. ASSUME NEW u \in Threads, Regular(u)' PROVE Object(u)'
    <3>1. Latest(u)'
      BY <1>1, <1>2, <1>6, <1>7, <1>8, <2>1, <2>3 DEF Object, Latest
    <3>2. OneStopper(u)'
      BY <1>1, <1>6, <1>7, <1>8, <2>1, <2>3 DEF Object, OneStopper, Clients
    <3>3. Accounted(u)'
      BY <1>1, <1>2, <1>6, <1>8, <2>1, <2>3 DEF Object, Accounted
    <3> QED BY <3>1, <3>2, <3>3, <1>6, <2>3 DEF Object
  <2>4. \A a \in StopAlls : pc'[a] = "returned" => todo'[a] = {}
    BY <1>1, <2>1
  <2> QED BY <2>2, <2>3, <2>4, <1>5 DEF IInv
<1>9. CASE Goto(c, "copy", "next") /\ todo' = [todo EXCEPT ![c] = Listed]
           /\ UNCHANGED <<m_threads, m_stop, info>>
  <2>1. pc[c] = "copy" /\ pc'[c] = "next" /\ todo'[c] = Listed /\ Before /\ ~Before'
    BY <1>1, <1>9 DEF Goto, Shape, Before
  <2>2. Shape'
    BY <2>1, <1>1, <1>2, <1>3, <1>7, <1>9 DEF Shape, Listed
  <2>3. ASSUME NEW u \in Threads, Regular(u)' PROVE Object(u)'
    <3>1. \A i \in Listed : i[1] = u => i = Last(u)
      BY <1>6, <2>3 DEF Listed, Infos, Ids, Object, Latest, Last
    <3>2. Latest(u)'
      BY <1>1, <1>2, <1>6, <1>7, <1>9, <2>1, <2>3, <3>1 DEF Object, Latest
    <3>3. OneStopper(u)'
      BY <1>1, <1>6, <1>7, <1>9, <2>1, <2>3 DEF Object, OneStopper, Clients
    <3>4. Runs(u) => Last(u) \in Listed
      BY <1>6, <2>1, <2>3 DEF Object, Accounted, Runs, Last, Listed, Infos
    <3>5. Accounted(u)'
      BY <1>1, <1>6, <2>1, <2>3, <3>4 DEF Accounted
    <3> QED BY <3>2, <3>3, <3>5, <1>6, <2>3 DEF Object
  <2>4. \A a \in StopAlls : pc'[a] = "returned" => todo'[a] = {}
    BY <1>1, <2>1
  <2> QED BY <2>2, <2>3, <2>4, <1>5 DEF IInv
<1>10. ASSUME NEW i \in todo[c], pc[c] \in {"next", "done"},
              info' = [info EXCEPT ![c] = i], todo' = [todo EXCEPT ![c] = @ \ {i}],
              pc' = [pc EXCEPT ![c] = "byInfo"], UNCHANGED <<m_threads, m_stop>>
       PROVE  IInv'
  <2>1. pc'[c] = "byInfo" /\ info'[c] = i /\ todo'[c] = todo[c] \ {i} /\ ~Before /\ ~Before'
        /\ i \in Infos
    BY <1>10, <1>1 DEF Shape, Before
  <2>2. Shape'
    <3>1. info' \in [Clients -> Infos \cup {NoInfo}] /\ todo' \in [Clients -> SUBSET Infos]
      BY <2>1, <1>1, <1>10 DEF Shape
    <3>2. \A d \in Clients : Works(d)' => info'[d] \in Infos
      BY <2>1, <1>1, <1>2, <1>4 DEF Shape
    <3> QED BY <3>1, <3>2, <1>1, <1>2, <1>3, <1>10 DEF Shape
  <2>3. ASSUME NEW u \in Threads, Regular(u)' PROVE Object(u)'
    <3>1. i[1] = u => i = Last(u)
      BY <1>6, <1>10, <2>3 DEF Object, Latest
    <3>2. Latest(u)'
      BY <1>1, <1>2, <1>4, <1>6, <1>10, <2>1, <2>3, <3>1 DEF Object, Latest
    <3>3. OneStopper(u)'
      BY <1>1, <1>2, <1>4, <1>6, <1>10, <2>1, <2>3 DEF Object, OneStopper, Clients
    <3>4. Accounted(u)'
      BY <1>1, <1>6, <1>10, <2>1, <2>3, <3>1 DEF Object, Accounted, Joins
    <3> QED BY <3>2, <3>3, <3>4, <1>6, <2>3 DEF Object
  <2>4. \A a \in StopAlls : pc'[a] = "returned" => todo'[a] = {}
    BY <1>1, <2>1
  <2> QED BY <2>2, <2>3, <2>4, <1>5 DEF IInv
<1>11. CASE /\ pc[c] \in {"next", "done"} /\ todo[c] = {}
            /\ pc' = [pc EXCEPT ![c] = "returned"]
            /\ m_threads' = [t \in Threads |-> 0]
            /\ UNCHANGED <<m_stop, info, todo>>
  <2>1. pc'[c] = "returned" /\ todo'[c] = {} /\ ~Before /\ ~Before'
    BY <1>11, <1>1 DEF Shape, Before
  <2>2. Shape'
    BY <2>1, <1>1, <1>2, <1>3, <1>7, <1>11 DEF Shape
  <2>3. ASSUME NEW u \in Threads, Regular(u)' PROVE Object(u)'
    <3>1. Latest(u)'
      BY <1>1, <1>2, <1>6, <1>7, <1>11, <2>1, <2>3 DEF Object, Latest
    <3>2. OneStopper(u)'
      BY <1>1, <1>6, <1>7, <1>11, <2>1, <2>3 DEF Object, OneStopper, Clients
    <3>3. Accounted(u)'
      BY <1>1, <1>6, <1>11, <2>1, <2>3 DEF Object, Accounted, Joins
    <3> QED BY <3>1, <3>2, <3>3, <1>6, <2>3 DEF Object
  <2>4. \A a \in StopAlls : pc'[a] = "returned" => todo'[a] = {}
    BY <1>1, <2>1
  <2> QED BY <2>2, <2>3, <2>4, <1>5 DEF IInv
<1> QED BY <1>8, <1>9, <1>10, <1>11 DEF stopAll

\* Another client joins the object: stop() if this one is in stopThread().
LeftToAnother(c, t) ==
    \E d \in Clients \ {c} : /\ Joins(d, t)
                             /\ c \in Stoppers => d \in StopAlls
                             /\ c \in StopAlls => d \in Stoppers

\* A client that is done in stopThreadByInfo() has left the object to another
\* one that joins, or the object has exited.
LEMMA DoneLeaves ==
    ASSUME IInv, NEW c \in Clients, NEW t \in Threads, stopThreadByInfo(c),
           info[c][1] = t, Object(t), pc'[c] = "done", Runs(t)
    PROVE  LeftToAnother(c, t)
<1>1. Shape /\ c \in Stoppers \cup StopAlls /\ pc[c] \in {"byInfo", "byInfoT", "stop", "join"}
  BY DEF IInv, stopThreadByInfo, Goto, Shape
<1>2. Works(c) /\ info[c] = Last(t)
  BY <1>1 DEF Works, Object, Latest
<1>3. PICK d \in Clients \ {c} : Joins(d, t)
  <2>1. CASE pc[c] = "byInfoT"
    <3>1. Posted(t)
      BY <2>1 DEF Posted
    <3>2. PICK d \in Clients : Joins(d, t)
      BY <3>1 DEF Object, SomebodyJoins
    <3> QED BY <2>1, <3>2 DEF Joins
  <2>2. CASE pc[c] = "join"
    <3>1. life[t][info[c][2]] # "exited"
      BY <1>2 DEF Runs, Last
    <3> QED BY <2>2, <3>1, <1>2, <1>1 DEF stopThreadByInfo, Goto, Shape, Joins
  <2> QED BY <2>1, <2>2, <1>1 DEF stopThreadByInfo, Goto, Shape
<1>4. Works(d) /\ info[d][1] = t
  BY <1>3 DEF Joins, Works, Last
<1>5. d \in Stoppers \cup StopAlls
  BY <1>1, <1>3 DEF Joins, Shape
<1>6. c \in Stoppers => d \notin Stoppers
  BY <1>2, <1>4 DEF Object, OneStopper
<1> QED BY <1>1, <1>3, <1>5, <1>6 DEF LeftToAnother

\* stopThreadByInfo: who does not join to the end finds the trigger stopped or
\* another client joining, and that one joins what still runs.
LEMMA ByInfoKeeps ==
    ASSUME IInv, NEW c \in Clients, stopThreadByInfo(c)
    PROVE  IInv'
<1>1. Shape /\ Tokens /\ c \in Stoppers \cup StopAlls
  BY DEF IInv, stopThreadByInfo, Goto, Shape
<1>2. /\ pc[c] \in {"byInfo", "byInfoT", "stop", "join"}
      /\ pc'[c] \in {"byInfoT", "stop", "join", "done"}
      /\ \A d \in Clients : d # c => pc'[d] = pc[d]
      /\ UNCHANGED <<m_threads, m_stop, m_lock, lives, life, info, todo, contested, late>>
  BY <1>1 DEF stopThreadByInfo, Goto, histories, Shape
<1>3. PICK t \in Threads : info[c][1] = t /\ info[c] \in Infos /\ Works(c)
  BY <1>1, <1>2 DEF Shape, Infos, Works
<1>4. sem' \in [Threads -> Nat] /\ \A u \in Threads : u # t => sem'[u] = sem[u]
  <2>1. PICK n \in Nat : sem' = sem \/ sem' = [sem EXCEPT ![t] = n]
    <3>1. sem[t] \in Nat /\ (sem[t] > 0 => sem[t] - 1 \in Nat) /\ sem[t] + 1 \in Nat
      BY <1>1, <1>3 DEF Shape
    <3> QED BY <3>1, <1>3 DEF stopThreadByInfo
  <2> QED BY <2>1, <1>1, <1>3 DEF Shape
<1>5. \/ pc[c] = "byInfo" /\ pc'[c] = "stop" /\ sem' = sem
      \/ pc[c] = "byInfo" /\ pc'[c] = "byInfoT" /\ sem[t] > 0
      \/ pc[c] = "byInfoT" /\ pc'[c] = "done" /\ sem'[t] > 0
      \/ pc[c] = "stop" /\ pc'[c] = "join" /\ sem'[t] > 0
      \/ /\ pc[c] = "join" /\ pc'[c] = "done" /\ sem' = sem
         /\ \/ life[t][info[c][2]] = "exited"
            \/ \E d \in Clients \ {c} : pc[d] = "join" /\ info[d] = info[c]
  BY <1>1, <1>3 DEF stopThreadByInfo, Goto, Shape
<1>6. \A d \in Clients : Works(d)' = Works(d)
  BY <1>2 DEF Works
<1>7. Before' = Before /\ \A a \in StopAlls : pc'[a] \in {"idle", "copy"} <=> pc[a] \in {"idle", "copy"}
  BY <1>2 DEF Before, Clients
<1>8. Shape'
  <2>1. pc' \in [Clients -> ClientPc \cup AllPc]
    BY <1>1 DEF stopThreadByInfo, Goto, Shape, ClientPc
  <2>2. pc'[c] \in ClientPc /\ pc'[c] \in AllPc
    BY <1>2 DEF ClientPc, AllPc
  <2>3. \A d \in Clients : Works(d)' => info'[d] \in Infos
    BY <1>1, <1>2, <1>6 DEF Shape
  <2> QED BY <2>1, <2>2, <2>3, <1>1, <1>2, <1>4 DEF Shape
<1>9. Tokens'
  <2>1. \A d \in Clients : (pc'[d] = "refusedT" <=> pc[d] = "refusedT")
                         /\ (pc'[d] = "ignoredT" <=> pc[d] = "ignoredT")
    BY <1>2
  <2>2. \A a \in StopAlls : pc'[a] # "idle" <=> pc[a] # "idle"
    BY <1>2 DEF Clients
  <2> QED BY <2>1, <2>2, <1>1, <1>2 DEF Tokens
<1>10. ASSUME Object(t), pc'[c] = "done", Runs(t)
       PROVE  LeftToAnother(c, t)
  BY <1>3, <1>10, DoneLeaves
<1>11. ASSUME NEW u \in Threads, Regular(u)' PROVE Object(u)'
  <2>1. Object(u)
    BY <1>2, <1>11 DEF IInv, Regular
  <2>2. Runs(u)' = Runs(u) /\ Last(u)' = Last(u)
    BY <1>2 DEF Runs, Last
  <2>3. Latest(u)'
    BY <1>2, <1>6, <1>7, <2>1, <2>2 DEF Object, Latest
  <2>4. OneStopper(u)'
    BY <1>2, <1>6, <1>7, <2>1 DEF Object, OneStopper, Clients
  <2>5. \A d \in Clients : d # c => Joins(d, u)' = Joins(d, u)
    BY <1>2, <2>2 DEF Joins
  <2>6. CASE u # t
    <3>1. ~Joins(c, u) /\ ~Joins(c, u)' /\ info[c] # Last(u)
      BY <2>6, <1>2, <1>3, <2>2 DEF Joins, Last
    <3>2. Posted(u)' = Posted(u)
      BY <2>6, <1>2, <1>3, <1>4 DEF Posted
    <3>3. SomebodyJoins(u)'
      BY <3>1, <3>2, <1>2, <2>1, <2>2, <2>5 DEF Object, SomebodyJoins, Clients
    <3>4. Accounted(u)'
      BY <3>1, <1>2, <1>7, <2>1, <2>2, <2>5 DEF Object, Accounted, Clients
    <3> QED BY <2>3, <2>4, <3>3, <3>4 DEF Object
  <2>7. CASE u = t
    <3>1. info[c] = Last(t) /\ info'[c] = Last(t)'
      BY <2>1, <2>2, <2>7, <1>2, <1>3 DEF Object, Latest
    <3>2. pc'[c] = "join" => Joins(c, t)'
      BY <3>1 DEF Joins
    <3>3. ASSUME Runs(t)', Posted(t)'
          PROVE  \E d \in Clients : Joins(d, t)'
      <4>1. CASE pc'[c] = "done"
        BY <4>1, <3>3, <1>10, <2>1, <2>2, <2>5, <2>7 DEF LeftToAnother
      <4>2. CASE pc'[c] \in {"byInfoT", "stop"}
        <5>1. Posted(t)
          BY <4>2, <3>3, <1>2, <1>5 DEF Posted
        <5>2. PICK d \in Clients : Joins(d, t)
          BY <5>1, <3>3, <2>1, <2>2, <2>7 DEF Object, SomebodyJoins
        <5>3. d # c
          BY <4>2, <5>2, <1>5 DEF Joins
        <5> QED BY <5>2, <5>3, <2>5, <2>7
      <4> QED BY <3>2, <4>1, <4>2, <1>2
    <3>4. ASSUME NEW e \in Stoppers, Runs(t)', pc'[e] = "done", info'[e] = Last(t)'
          PROVE  \E a \in StopAlls : Joins(a, t)'
      <4>1. CASE e = c
        <5>1. PICK d \in Clients \ {c} : Joins(d, t) /\ d \in StopAlls
          BY <4>1, <3>4, <1>10, <2>1, <2>2, <2>7 DEF LeftToAnother
        <5> QED BY <5>1, <2>5, <2>7
      <4>2. CASE e # c
        <5>1. e \in Clients /\ pc[e] = "done" /\ info[e] = Last(t) /\ Works(e)
          BY <4>2, <3>4, <1>2, <2>2, <2>7 DEF Clients, Works
        <5>2. PICK a \in StopAlls : Joins(a, t)
          BY <5>1, <3>4, <2>1, <2>2, <2>7 DEF Object, SomebodyJoins
        <5>3. ASSUME a = c PROVE FALSE
          <6>1. pc[c] = "join" /\ pc'[c] = "done"
            BY <5>2, <5>3, <1>5 DEF Joins
          <6>2. PICK d \in Clients : Joins(d, t) /\ d \in Stoppers
            BY <6>1, <5>3, <3>4, <1>10, <2>1, <2>2, <2>7 DEF LeftToAnother
          <6>3. Works(d) /\ info[d][1] = t /\ info[e][1] = t
            BY <5>1, <6>2 DEF Joins, Works, Last
          <6>4. d = e
            BY <5>1, <6>2, <6>3, <2>1, <2>7 DEF Object, OneStopper
          <6> QED BY <5>1, <6>2, <6>4 DEF Joins
        <5> QED BY <5>2, <5>3, <2>5, <2>7 DEF Clients
      <4> QED BY <4>1, <4>2
    <3>5. SomebodyJoins(t)'
      BY <3>3, <3>4 DEF SomebodyJoins
    <3>6. ASSUME Runs(t), NEW a \in StopAlls, pc[a] \notin {"idle", "copy"}
          PROVE  \/ Last(t) \in todo[a]
                 \/ info[a] = Last(t) /\ pc'[a] \in {"byInfo", "byInfoT", "stop", "join"}
                 \/ \E d \in Stoppers : Joins(d, t)'
      <4>1. \/ Last(t) \in todo[a]
            \/ info[a] = Last(t) /\ pc[a] \in {"byInfo", "byInfoT", "stop", "join"}
            \/ \E d \in Stoppers : Joins(d, t)
        BY <3>6, <2>1, <2>7 DEF Object, Accounted
      <4>2. CASE a = c
        <5>1. CASE pc'[c] = "done"
          <6>1. PICK d \in Clients \ {c} : Joins(d, t) /\ d \in Stoppers
            BY <5>1, <4>2, <3>6, <1>10, <2>1, <2>7 DEF LeftToAnother
          <6> QED BY <6>1, <2>5, <2>7
        <5> QED BY <5>1, <4>2, <3>1, <1>2
      <4>3. CASE a # c /\ pc'[c] = "done" /\ c \in Stoppers
        <5>1. PICK d \in Clients \ {c} : Joins(d, t) /\ d \in StopAlls
          BY <4>3, <3>6, <1>10, <2>1, <2>7 DEF LeftToAnother
        <5>2. d = a
          BY <5>1
        <5> QED BY <5>1, <5>2, <4>3, <1>2 DEF Joins
      <4>4. CASE a # c /\ pc'[c] # "done"
        <5>1. \A d \in Stoppers : Joins(d, t) => Joins(d, t)'
          BY <4>4, <1>5, <2>5, <2>7 DEF Joins, Clients
        <5> QED BY <5>1, <4>1, <4>4, <1>2 DEF Clients
      <4> QED BY <4>2, <4>3, <4>4, <1>1
    <3>7. Accounted(t)'
      BY <3>6, <1>2, <1>7, <2>1, <2>2, <2>7 DEF Object, Accounted
    <3> QED BY <2>3, <2>4, <2>7, <3>5, <3>7 DEF Object
  <2> QED BY <2>6, <2>7
<1>12. \A a \in StopAlls : pc'[a] = "returned" => todo'[a] = {}
  BY <1>2 DEF IInv, Clients
<1> QED BY <1>8, <1>9, <1>11, <1>12 DEF IInv

\* A pthread takes the token of its trigger, gives it back and ends.
LEMMA ThreadKeeps ==
    ASSUME IInv, NEW t \in Threads, NEW i \in Ids, threadLoop(t, i) \/ threadEnds(t, i)
    PROVE  IInv'
<1>1. Shape /\ Tokens
  BY DEF IInv
<1>2. /\ life[t][i] \in {"loop", "seen"}
      /\ UNCHANGED <<m_threads, m_stop, m_lock, lives, pc, info, todo, contested, late>>
  BY DEF threadLoop, threadEnds, histories
<1>3. PICK s \in {"seen", "exited"} :
          /\ life' = [life EXCEPT ![t][i] = s]
          /\ s = "seen" => sem[t] > 0
  BY DEF threadLoop, threadEnds
<1>4. /\ life' \in [Threads -> [Ids -> {"no", "loop", "seen", "exited"}]]
      /\ life'[t][i] = s
      /\ \A u \in Threads, j \in Ids : <<u, j>> # <<t, i>> => life'[u][j] = life[u][j]
  BY <1>1, <1>3 DEF Shape
<1>5. sem' \in [Threads -> Nat] /\ \A u \in Threads : u # t => sem'[u] = sem[u]
  BY <1>1 DEF threadLoop, threadEnds, Shape
<1>6. \A d \in Clients : Works(d)' = Works(d)
  BY <1>2 DEF Works
<1>7. Before' = Before
  BY <1>2 DEF Before
<1>8. Shape'
  <2>1. \A d \in Clients : Works(d)' => info'[d] \in Infos
    BY <1>1, <1>2, <1>6 DEF Shape
  <2> QED BY <2>1, <1>1, <1>2, <1>4, <1>5 DEF Shape
<1>9. Tokens'
  BY <1>1, <1>2 DEF Tokens
<1>10. ASSUME NEW u \in Threads, Regular(u)' PROVE Object(u)'
  <2>1. Object(u)
    BY <1>2, <1>10 DEF IInv, Regular
  <2>2. Last(u)' = Last(u) /\ \A d \in Clients : Joins(d, u)' = Joins(d, u)
    BY <1>2 DEF Last, Joins
  <2>3. \A j \in Ids : life'[u][j] \in {"loop", "seen"} => life[u][j] \in {"loop", "seen"}
    BY <1>2, <1>4
  <2>4. Runs(u)' => Runs(u)
    BY <2>3, <1>2 DEF Runs
  <2>5. ASSUME Runs(u)', Posted(u)' PROVE Posted(u)
    <3>1. CASE u = t
      <4>1. i = lives[t]
        BY <3>1, <2>1, <1>2 DEF Object, Latest
      <4>2. s = "seen"
        BY <4>1, <3>1, <2>5, <1>2, <1>4 DEF Runs
      <4> QED BY <4>2, <3>1, <1>3 DEF Posted
    <3>2. CASE u # t
      BY <3>2, <2>5, <1>2, <1>4, <1>5 DEF Posted
    <3> QED BY <3>1, <3>2
  <2>6. Latest(u)'
    BY <1>2, <1>6, <2>1, <2>2, <2>3 DEF Object, Latest
  <2>7. OneStopper(u)'
    BY <1>2, <1>6, <1>7, <2>1 DEF Object, OneStopper, Clients
  <2>8. SomebodyJoins(u)'
    BY <1>2, <2>1, <2>2, <2>4, <2>5 DEF Object, SomebodyJoins, Clients
  <2>9. Accounted(u)'
    BY <1>2, <1>7, <2>1, <2>2, <2>4 DEF Object, Accounted, Clients
  <2> QED BY <2>6, <2>7, <2>8, <2>9 DEF Object
<1>11. \A a \in StopAlls : pc'[a] = "returned" => todo'[a] = {}
  BY <1>2 DEF IInv
<1> QED BY <1>8, <1>9, <1>10, <1>11 DEF IInv
-----------------------------------------------------------------------------
\* Every step keeps the invariant.
LEMMA NextInvariant == ASSUME IInv, [Next]_vars PROVE IInv'
<1>. Starters \subseteq Clients /\ Stoppers \subseteq Clients /\ StopAlls \subseteq Clients
  BY DEF Clients
<1>1. CASE \E c \in Starters, t \in Threads : startThread(c, t)
  BY <1>1, StartKeeps
<1>2. CASE \E c \in Starters : startRefused(c)
  BY <1>2, PollKeeps
<1>3. CASE \E c \in Stoppers : stopThread(c)
  BY <1>3, PollKeeps
<1>4. CASE \E c \in StopAlls : stopAll(c)
  BY <1>4, StopAllKeeps
<1>5. CASE \E c \in Clients : stopThreadByInfo(c)
  BY <1>5, ByInfoKeeps
<1>6. CASE \E c \in Clients : eraseThread(c)
  BY <1>6, EraseKeeps
<1>7. CASE \E c \in Stoppers, t \in Threads : getThreadInfo(c, t)
  BY <1>7, GetKeeps
<1>8. CASE \E t \in Threads, i \in Ids : threadLoop(t, i) \/ threadEnds(t, i)
  BY <1>8, ThreadKeeps
<1>9. CASE UNCHANGED vars
  <2>1. UNCHANGED <<m_threads, m_stop, m_lock, sem, lives, life, pc, info, todo, contested, late>>
    BY <1>9 DEF vars
  <2>2. Shape' = Shape
    BY <2>1 DEF Shape, Works
  <2>3. Tokens' = Tokens
    BY <2>1 DEF Tokens
  <2>4. ASSUME NEW t \in Threads PROVE Regular(t)' = Regular(t) /\ Object(t)' = Object(t)
    <3>1. /\ Runs(t)' = Runs(t) /\ Posted(t)' = Posted(t) /\ Last(t)' = Last(t)
          /\ Before' = Before /\ Regular(t)' = Regular(t)
      BY <2>1 DEF Runs, Posted, Last, Before, Regular
    <3>2. \A c \in Clients : Works(c)' = Works(c) /\ Joins(c, t)' = Joins(c, t)
      BY <2>1 DEF Works, Joins, Last
    <3>3. Latest(t)' = Latest(t)
      BY <2>1, <3>1, <3>2 DEF Latest
    <3>4. OneStopper(t)' = OneStopper(t)
      BY <2>1, <3>1, <3>2 DEF OneStopper, Clients
    <3>5. SomebodyJoins(t)' = SomebodyJoins(t)
      BY <2>1, <3>1, <3>2 DEF SomebodyJoins, Clients
    <3>6. Accounted(t)' = Accounted(t)
      BY <2>1, <3>1, <3>2 DEF Accounted, Clients
    <3> QED BY <3>1, <3>3, <3>4, <3>5, <3>6 DEF Object
  <2> QED BY <2>1, <2>2, <2>3, <2>4 DEF IInv
<1> QED BY <1>1, <1>2, <1>3, <1>4, <1>5, <1>6, <1>7, <1>8, <1>9 DEF Next, Step

\* The inductive invariant holds for any set of objects and clients.
THEOREM Invariant == Spec => []IInv
<1>1. Init => IInv
  BY InitInvariant
<1>2. IInv /\ [Next]_vars => IInv'
  BY NextInvariant
<1> QED BY <1>1, <1>2, PTL DEF Spec

\* startThread never gives an object a second pthread while one runs, although
\* it only looks for the object in its list (scheduler.cpp:243-257), unless two
\* stopThread() calls for it overlapped or it was started late.
THEOREM RunsOnce == Spec => []OneLife
<1>1. ASSUME IInv PROVE OneLife
  <2>1. ASSUME NEW t \in Threads, Regular(t)
        PROVE  Cardinality(Running(t)) <= 1
    <3>1. Running(t) \subseteq {lives[t]}
      BY <1>1, <2>1 DEF IInv, Object, Latest, Running
    <3>2. IsFiniteSet({lives[t]}) /\ Cardinality({lives[t]}) = 1
      BY FS_Singleton
    <3>3. Cardinality(Running(t)) <= Cardinality({lives[t]})
      BY <3>1, <3>2, FS_Subset
    <3> QED BY <3>2, <3>3
  <2> QED BY <2>1 DEF OneLife
<1> QED BY <1>1, Invariant, PTL

\* A pthread that runs is in the list, in the copy of stop() or in the hands of
\* a client: eraseThread, which drops the entry of an object whatever its id
\* (scheduler.cpp:377), forgets one only if two stopThread() calls overlapped.
THEOREM NoneForgotten == Spec => []RunningIsKnown
<1>1. ASSUME IInv PROVE RunningIsKnown
  <2>1. ASSUME NEW t \in Threads, Regular(t), NEW i \in Running(t)
        PROVE  \/ m_threads[t] = i
               \/ \E c \in Clients : info[c] = <<t, i>> \/ <<t, i>> \in todo[c]
    <3>1. Object(t)
      BY <1>1, <2>1 DEF IInv
    <3>2. i = lives[t] /\ Runs(t) /\ Last(t) = <<t, i>>
      BY <2>1, <3>1 DEF Object, Latest, Running, Runs, Last
    <3>3. CASE Before
      BY <3>1, <3>2, <3>3 DEF Object, Accounted
    <3>4. CASE ~Before
      <4>1. PICK a \in StopAlls : pc[a] \notin {"idle", "copy"}
        BY <3>4 DEF Before
      <4> QED BY <4>1, <3>1, <3>2 DEF Object, Accounted, Joins, Clients
    <3> QED BY <3>3, <3>4
  <2> QED BY <2>1 DEF RunningIsKnown
<1> QED BY <1>1, Invariant, PTL

\* When stop() has returned a pthread that still runs was told to stop and is
\* waited for by another client, unless its object was contested or started
\* late.
THEOREM NothingLeft == Spec => []StopLeavesNothing
<1>1. ASSUME IInv PROVE StopLeavesNothing
  <2>1. ASSUME NEW c \in StopAlls, pc[c] = "returned",
               NEW t \in Threads, Regular(t), NEW i \in Running(t)
        PROVE  \E d \in Stoppers : info[d] = <<t, i>> /\ pc[d] \in {"stop", "join"}
    <3>1. Object(t) /\ todo[c] = {}
      BY <1>1, <2>1 DEF IInv
    <3>2. i = lives[t] /\ Runs(t) /\ Last(t) = <<t, i>>
      BY <2>1, <3>1 DEF Object, Latest, Running, Runs, Last
    <3>3. PICK d \in Stoppers : Joins(d, t)
      BY <2>1, <3>1, <3>2 DEF Object, Accounted
    <3> QED BY <3>2, <3>3 DEF Joins
  <2> QED BY <2>1 DEF StopLeavesNothing
<1> QED BY <1>1, Invariant, PTL
-----------------------------------------------------------------------------
\* The abstract state of ThreadPool in the terms of the clients
aliveThreads == {i \in Infos : i[2] \in Running(i[1])}
waitedThreads == {w \in Stoppers \X Infos :
                    info[w[1]] = w[2] /\ pc[w[1]] \in {"byInfo", "byInfoT", "stop", "join"}}
askingClients == {c \in Stoppers : pc[c] = "ignoredT"}
poolState == IF \A c \in StopAlls : pc[c] = "idle" THEN "open"
             ELSE IF \E c \in StopAlls : pc[c] = "copy" THEN "stopping"
             ELSE IF \E c \in StopAlls : pc[c] = "returned" THEN "closed" ELSE "joining"

\* How far the pool is closed is where the only stop() is.
LEMMA PoolState ==
    /\ poolState = "open" <=> \A a \in StopAlls : pc[a] = "idle"
    /\ poolState \in {"open", "stopping"} <=> Before
    /\ \A a \in StopAlls :
          /\ pc[a] = "copy" => poolState = "stopping"
          /\ pc[a] = "returned" => poolState = "closed"
          /\ pc[a] \notin {"idle", "copy", "returned"} => poolState = "joining"
BY DEF poolState, Before

\* Before anything is started the pool is empty and open.
LEMMA InitPool == Init => Pool!Init
<1>. SUFFICES ASSUME Init PROVE Pool!Init
  OBVIOUS
<1>1. \A t \in Threads, i \in Ids : life[t][i] = "no"
  BY DEF Init
<1>2. aliveThreads = {}
  BY <1>1 DEF aliveThreads, Infos, Running
<1>3. waitedThreads = {} /\ askingClients = {} /\ poolState = "open"
  BY DEF waitedThreads, askingClients, poolState, Init, Clients
<1> QED BY <1>2, <1>3 DEF Init, Pool!Init, aliveThreads, waitedThreads, askingClients, poolState

\* The steps of the pool, from the abstract state
LEMMA PoolStart ==
    ASSUME NEW t \in Threads, NEW i \in Ids, poolState = "open" \/ askingClients # {},
           late' = IF poolState \in {"joining", "closed"} THEN late \cup {t} ELSE late,
           \/ t \in contested \/ t \in late'
           \/ /\ \A j \in Ids : <<t, j>> \notin aliveThreads
              /\ \A c \in Stoppers, j \in Ids : <<c, <<t, j>>>> \notin waitedThreads,
           aliveThreads' = aliveThreads \cup {<<t, i>>},
           UNCHANGED <<waitedThreads, askingClients, poolState, contested>>
    PROVE  [Pool!Next]_Pool!vars
<1>1. Pool!Start(t, i)
  BY DEF Pool!Start, Pool!Has, Pool!Waited, aliveThreads, waitedThreads, askingClients, poolState
<1> QED BY <1>1 DEF Pool!Next

LEMMA PoolEnd ==
    ASSUME NEW t \in Threads, NEW i \in Ids, <<t, i>> \in aliveThreads,
           aliveThreads' = aliveThreads \ {<<t, i>>},
           UNCHANGED <<waitedThreads, askingClients, poolState, contested, late>>
    PROVE  [Pool!Next]_Pool!vars
<1>1. Pool!End(t, i)
  BY DEF Pool!End, aliveThreads, waitedThreads, askingClients, poolState
<1> QED BY <1>1 DEF Pool!Next

LEMMA PoolAsk ==
    ASSUME NEW c \in Stoppers,
           \/ askingClients' = askingClients \ {c}
           \/ poolState # "open" /\ askingClients' = askingClients \cup {c},
           UNCHANGED <<aliveThreads, waitedThreads, poolState, contested, late>>
    PROVE  [Pool!Next]_Pool!vars
<1>1. Pool!Ask(c) \/ Pool!Answered(c)
  BY DEF Pool!Ask, Pool!Answered, aliveThreads, waitedThreads, askingClients, poolState
<1> QED BY <1>1 DEF Pool!Next

LEMMA PoolStop ==
    ASSUME NEW c \in Stoppers, NEW t \in Threads, NEW i \in Ids,
           waitedThreads' = waitedThreads \cup {<<c, <<t, i>>>>},
           contested' \in {contested, contested \cup {t}},
           (\E d \in Stoppers, j \in Ids : <<d, <<t, j>>>> \in waitedThreads) => t \in contested',
           UNCHANGED <<aliveThreads, askingClients, poolState, late>>
    PROVE  [Pool!Next]_Pool!vars
<1>1. Pool!Stop(c, t, i)
  BY DEF Pool!Stop, Pool!Waited, aliveThreads, waitedThreads, askingClients, poolState
<1> QED BY <1>1 DEF Pool!Next

LEMMA PoolStopped ==
    ASSUME NEW c \in Stoppers, NEW t \in Threads, NEW i \in Ids, <<c, <<t, i>>>> \in waitedThreads,
           <<t, i>> \notin aliveThreads \/ poolState = "joining" \/ t \in contested \/ t \in late,
           waitedThreads' = waitedThreads \ {<<c, <<t, i>>>>},
           UNCHANGED <<aliveThreads, askingClients, poolState, contested, late>>
    PROVE  [Pool!Next]_Pool!vars
<1>1. Pool!Stopped(c, t, i)
  BY DEF Pool!Stopped, aliveThreads, waitedThreads, askingClients, poolState
<1> QED BY <1>1 DEF Pool!Next

LEMMA PoolCloses ==
    ASSUME \/ poolState = "open" /\ poolState' = "stopping"
           \/ poolState = "stopping" /\ poolState' = "joining"
           \/ /\ poolState = "joining" /\ poolState' = "closed"
              /\ \A t \in Threads, i \in Ids : <<t, i>> \in aliveThreads =>
                    \/ t \in contested \/ t \in late
                    \/ \E c \in Stoppers, j \in Ids : <<c, <<t, j>>>> \in waitedThreads,
           UNCHANGED <<aliveThreads, waitedThreads, askingClients, contested, late>>
    PROVE  [Pool!Next]_Pool!vars
<1>1. Pool!Advance \/ Pool!Closed
  BY DEF Pool!Advance, Pool!Closed, Pool!Has, Pool!Waited, aliveThreads, waitedThreads,
         askingClients, poolState
<1> QED BY <1>1 DEF Pool!Next

LEMMA PoolStutters ==
    ASSUME UNCHANGED <<aliveThreads, waitedThreads, askingClients, poolState, contested, late>>
    PROVE  [Pool!Next]_Pool!vars
BY DEF Pool!vars, aliveThreads, waitedThreads, askingClients, poolState

\* A step that leaves stop() where it is does not change how far the pool is.
LEMMA SamePoolState ==
    ASSUME \A a \in StopAlls : pc'[a] = pc[a]
    PROVE  poolState' = poolState
BY DEF poolState

\* startThread starts an object that has no thread and that no stopThread() works
\* on, before stop() has begun; after that only past a client in isStopped().
LEMMA StartMaps ==
    ASSUME IInv, NEW c \in Clients, NEW t \in Threads, startThread(c, t)
    PROVE  [Pool!Next]_Pool!vars
<1>1. Shape /\ Tokens /\ m_stop = 0 /\ m_lock = "free"
  BY DEF IInv, startThread, Free
<1>2. lives[t] + 1 \in Ids /\ UNCHANGED <<pc, info, contested>>
  BY <1>1 DEF startThread, create, Shape, Ids
<1>3. waitedThreads' = waitedThreads /\ askingClients' = askingClients /\ poolState' = poolState
  BY <1>2 DEF waitedThreads, askingClients, poolState
<1>4. aliveThreads' = aliveThreads \cup {<<t, lives[t] + 1>>}
  <2>1. /\ life'[t][lives[t] + 1] = "loop"
        /\ \A u \in Threads, j \in Ids : <<u, j>> # <<t, lives[t] + 1>> => life'[u][j] = life[u][j]
    BY <1>1, <1>2 DEF startThread, create, Shape
  <2> QED BY <2>1, <1>2 DEF aliveThreads, Infos, Running
<1>5. ASSUME poolState # "open" PROVE askingClients # {}
  <2>1. PICK d \in Clients : pc[d] \in {"refusedT", "ignoredT"}
    BY <1>1, <1>5, PoolState DEF Tokens
  <2>2. pc[d] = "ignoredT" /\ d \in Stoppers
    BY <1>1, <2>1 DEF Tokens, Shape, AllPc
  <2> QED BY <2>2 DEF askingClients
<1>6. late' = IF poolState \in {"joining", "closed"} THEN late \cup {t} ELSE late
  <2>1. poolState \in {"open", "stopping", "joining", "closed"}
    BY DEF poolState
  <2>2. Slips <=> poolState \in {"joining", "closed"}
    BY <1>5, <2>1, PoolState DEF Slips, Before, askingClients
  <2> QED BY <2>2 DEF startThread, create
<1>7. \/ t \in contested \/ t \in late'
      \/ /\ \A j \in Ids : <<t, j>> \notin aliveThreads
         /\ \A d \in Stoppers, j \in Ids : <<d, <<t, j>>>> \notin waitedThreads
  <2>1. ASSUME t \notin contested, t \notin late'
        PROVE  /\ \A j \in Ids : life[t][j] \notin {"loop", "seen"}
               /\ \A d \in Clients : ~(Works(d) /\ info[d][1] = t)
    BY <2>1, StartFresh
  <2>2. ASSUME t \notin contested, t \notin late', NEW j \in Ids
        PROVE  /\ <<t, j>> \notin aliveThreads
               /\ \A d \in Stoppers : <<d, <<t, j>>>> \notin waitedThreads
    <3>1. <<t, j>> \notin aliveThreads
      BY <2>1, <2>2 DEF aliveThreads, Running
    <3>2. \A d \in Stoppers : <<d, <<t, j>>>> \in waitedThreads => Works(d) /\ info[d][1] = t
      BY DEF waitedThreads, Works
    <3> QED BY <3>1, <3>2, <2>1, <2>2 DEF Clients
  <2> QED BY <2>2
<1> QED BY <1>2, <1>3, <1>4, <1>5, <1>6, <1>7, PoolStart

\* isStopped() of the scheduler in startThread and stopThread, and eraseThread,
\* which comes when the stop is over
LEMMA PollMaps ==
    ASSUME IInv, NEW c \in Clients,
           \/ c \in Starters /\ startRefused(c)
           \/ c \in Stoppers /\ stopThread(c)
           \/ eraseThread(c)
    PROVE  [Pool!Next]_Pool!vars
<1>1. Shape /\ Tokens /\ c \notin StopAlls
  BY DEF IInv, eraseThread
<1>2. /\ \A d \in Clients : d # c => pc'[d] = pc[d] /\ info'[d] = info[d]
      /\ pc[c] \notin {"byInfo", "byInfoT", "stop", "join"}
      /\ pc'[c] \notin {"byInfo", "byInfoT", "stop", "join"}
      /\ UNCHANGED <<life, contested, late>>
  BY <1>1 DEF startRefused, stopThread, eraseThread, Goto, threadVars, histories, Shape
<1>3. aliveThreads' = aliveThreads /\ waitedThreads' = waitedThreads /\ poolState' = poolState
  <2>1. aliveThreads' = aliveThreads
    BY <1>2 DEF aliveThreads, Running
  <2>2. waitedThreads' = waitedThreads
    BY <1>2 DEF waitedThreads, Clients
  <2>3. poolState' = poolState
    BY <1>1, <1>2, SamePoolState DEF Clients
  <2> QED BY <2>1, <2>2, <2>3
<1>4. CASE c \in Stoppers /\ stopThread(c)
  <2>1. \/ askingClients' = askingClients
        \/ askingClients' = askingClients \ {c}
        \/ askingClients' = askingClients \cup {c} /\ m_stop > 0
    BY <1>1, <1>2, <1>4 DEF stopThread, Goto, Shape, askingClients, Clients
  <2>2. m_stop > 0 => poolState # "open"
    BY <1>1, PoolState DEF Tokens
  <2> QED BY <2>1, <2>2, <1>2, <1>3, <1>4, PoolAsk, PoolStutters
<1>5. CASE startRefused(c) \/ eraseThread(c)
  <2>1. pc[c] # "ignoredT" /\ pc'[c] # "ignoredT"
    BY <1>1, <1>5 DEF startRefused, eraseThread, Goto, Shape
  <2>2. askingClients' = askingClients
    BY <2>1, <1>2 DEF askingClients, Clients
  <2> QED BY <2>2, <1>2, <1>3, PoolStutters
<1> QED BY <1>4, <1>5

\* getThreadInfo that finds its object begins a stop.
LEMMA GetMaps ==
    ASSUME IInv, NEW c \in Stoppers, NEW t \in Threads, getThreadInfo(c, t)
    PROVE  [Pool!Next]_Pool!vars
<1>1. Shape /\ c \in Clients /\ c \notin StopAlls
  BY DEF IInv, Clients
<1>2. /\ pc[c] = "getInfo" /\ pc'[c] \in {"idle", "byInfo"}
      /\ \A d \in Clients : d # c => pc'[d] = pc[d]
      /\ UNCHANGED <<life, late>>
  BY <1>1 DEF getThreadInfo, Goto, threadVars, Shape
<1>3. aliveThreads' = aliveThreads /\ askingClients' = askingClients /\ poolState' = poolState
  <2>1. aliveThreads' = aliveThreads
    BY <1>2 DEF aliveThreads, Running
  <2>2. askingClients' = askingClients
    BY <1>2 DEF askingClients, Clients
  <2>3. poolState' = poolState
    BY <1>1, <1>2, SamePoolState DEF Clients
  <2> QED BY <2>1, <2>2, <2>3
<1>4. CASE pc'[c] = "idle" /\ UNCHANGED <<info, contested>>
  <2>1. waitedThreads' = waitedThreads
    BY <1>2, <1>4 DEF waitedThreads, Clients
  <2> QED BY <2>1, <1>2, <1>3, <1>4, PoolStutters
<1>5. CASE /\ m_threads[t] # 0 /\ pc'[c] = "byInfo"
           /\ info' = [info EXCEPT ![c] = <<t, m_threads[t]>>]
           /\ contested' = IF \E d \in Stoppers : Works(d) /\ info[d][1] = t
                           THEN contested \cup {t} ELSE contested
  <2>1. m_threads[t] \in Ids
    BY <1>1, <1>5 DEF Shape, Ids
  <2>2. info'[c] = <<t, m_threads[t]>> /\ \A d \in Clients : d # c => info'[d] = info[d]
    BY <1>1, <1>5 DEF Shape
  <2>3. waitedThreads' = waitedThreads \cup {<<c, <<t, m_threads[t]>>>>}
    <3>1. ASSUME NEW w \in Stoppers \X Infos
          PROVE  w \in waitedThreads' <=> w \in waitedThreads \/ w = <<c, <<t, m_threads[t]>>>>
      BY <2>2, <1>2, <1>5 DEF waitedThreads, Clients
    <3>2. <<c, <<t, m_threads[t]>>>> \in Stoppers \X Infos
      BY <2>1 DEF Infos
    <3>3. waitedThreads \subseteq Stoppers \X Infos /\ waitedThreads' \subseteq Stoppers \X Infos
      BY DEF waitedThreads
    <3> QED BY <3>1, <3>2, <3>3
  <2>4. (\E d \in Stoppers, j \in Ids : <<d, <<t, j>>>> \in waitedThreads) => t \in contested'
    BY <1>5 DEF waitedThreads, Works
  <2>5. contested' \in {contested, contested \cup {t}}
    BY <1>5
  <2> QED BY <2>1, <2>3, <2>4, <2>5, <1>2, <1>3, PoolStop
<1>6. \/ pc'[c] = "idle" /\ UNCHANGED <<info, contested>>
      \/ pc'[c] = "byInfo" /\ m_threads[t] # 0
  BY <1>1 DEF getThreadInfo, Goto, Shape
<1> QED BY <1>4, <1>5, <1>6 DEF getThreadInfo

\* stopThreadByInfo of a stopThread() returns when the thread it joins has ended,
\* or at once if another one stops it: then stop() is the one that joins.
LEMMA ByInfoMaps ==
    ASSUME IInv, NEW c \in Clients, stopThreadByInfo(c)
    PROVE  [Pool!Next]_Pool!vars
<1>1. Shape /\ c \in Stoppers \cup StopAlls
  BY DEF IInv, stopThreadByInfo, Goto, Shape
<1>2. /\ pc[c] \in {"byInfo", "byInfoT", "stop", "join"}
      /\ pc'[c] \in {"byInfoT", "stop", "join", "done"}
      /\ \A d \in Clients : d # c => pc'[d] = pc[d]
      /\ UNCHANGED <<life, lives, info, contested, late>>
  BY <1>1 DEF stopThreadByInfo, Goto, histories, Shape
<1>3. PICK t \in Threads, i \in Ids : info[c] = <<t, i>> /\ info[c][1] = t /\ Works(c)
  BY <1>1, <1>2 DEF Shape, Infos, Works
<1>4. aliveThreads' = aliveThreads /\ askingClients' = askingClients /\ poolState' = poolState
  <2>1. aliveThreads' = aliveThreads
    BY <1>2 DEF aliveThreads, Running
  <2>2. askingClients' = askingClients
    BY <1>2 DEF askingClients, Clients
  <2>3. poolState' = poolState
    BY <1>2 DEF poolState, Clients
  <2> QED BY <2>1, <2>2, <2>3
<1>5. CASE c \notin Stoppers \/ pc'[c] # "done"
  <2>1. waitedThreads' = waitedThreads
    BY <1>2, <1>5 DEF waitedThreads, Clients
  <2> QED BY <2>1, <1>2, <1>4, PoolStutters
<1>6. CASE c \in Stoppers /\ pc'[c] = "done"
  <2>1. <<c, <<t, i>>>> \in waitedThreads
    BY <1>2, <1>3, <1>6 DEF waitedThreads, Infos
  <2>2. waitedThreads' = waitedThreads \ {<<c, <<t, i>>>>}
    <3>1. ASSUME NEW w \in Stoppers \X Infos
          PROVE  w \in waitedThreads' <=> w \in waitedThreads /\ w # <<c, <<t, i>>>>
      BY <1>2, <1>3, <1>6 DEF waitedThreads, Clients
    <3>2. waitedThreads \subseteq Stoppers \X Infos /\ waitedThreads' \subseteq Stoppers \X Infos
      BY DEF waitedThreads
    <3> QED BY <3>1, <3>2
  <2>3. ASSUME <<t, i>> \in aliveThreads, Regular(t) PROVE poolState = "joining"
    <3>1. Object(t)
      BY <2>3 DEF IInv
    <3>2. Runs(t)
      BY <2>3, <3>1 DEF aliveThreads, Running, Object, Latest, Runs
    <3>3. LeftToAnother(c, t)
      BY <3>1, <3>2, <1>3, <1>6, DoneLeaves
    <3>4. PICK a \in StopAlls : Joins(a, t)
      BY <3>3, <1>6 DEF LeftToAnother
    <3> QED BY <3>4, PoolState DEF Joins
  <2> QED BY <2>1, <2>2, <2>3, <1>2, <1>4, <1>6, PoolStopped DEF Regular
<1> QED BY <1>5, <1>6

\* stop() begins to close the pool when it posts the scheduler's trigger and
\* knows its threads with its copy of the list; it has closed the pool when every
\* entry of the copy was handled, and then only other clients join.
LEMMA StopAllMaps ==
    ASSUME IInv, NEW c \in StopAlls, stopAll(c)
    PROVE  [Pool!Next]_Pool!vars
<1>1. Shape /\ c \in Clients /\ c \notin Stoppers /\ \A a \in StopAlls : a = c
  BY DEF IInv, Clients
<1>2. /\ \A d \in Clients : d # c => pc'[d] = pc[d] /\ info'[d] = info[d]
      /\ UNCHANGED <<life, contested, late>>
      /\ \/ pc[c] = "idle" /\ pc'[c] = "copy"
         \/ pc[c] = "copy" /\ pc'[c] = "next"
         \/ pc[c] \in {"next", "done"} /\ pc'[c] = "byInfo"
         \/ pc[c] \in {"next", "done"} /\ pc'[c] = "returned" /\ todo[c] = {}
  BY <1>1 DEF stopAll, Goto, threadVars, histories, Shape
<1>3. aliveThreads' = aliveThreads /\ waitedThreads' = waitedThreads /\ askingClients' = askingClients
  <2>1. aliveThreads' = aliveThreads
    BY <1>2 DEF aliveThreads, Running
  <2>2. \A d \in Stoppers : pc'[d] = pc[d] /\ info'[d] = info[d]
    BY <1>1, <1>2 DEF Clients
  <2> QED BY <2>1, <2>2 DEF waitedThreads, askingClients
<1>4. CASE pc[c] = "idle" /\ pc'[c] = "copy"
  <2>1. poolState = "open" /\ poolState' = "stopping"
    BY <1>1, <1>4 DEF poolState
  <2> QED BY <2>1, <1>2, <1>3, PoolCloses
<1>5. CASE pc[c] = "copy" /\ pc'[c] = "next"
  <2>1. poolState = "stopping" /\ poolState' = "joining"
    BY <1>1, <1>5 DEF poolState
  <2> QED BY <2>1, <1>2, <1>3, PoolCloses
<1>6. CASE pc[c] \in {"next", "done"} /\ pc'[c] = "byInfo"
  <2>1. poolState' = poolState
    BY <1>1, <1>6 DEF poolState
  <2> QED BY <2>1, <1>2, <1>3, PoolStutters
<1>7. CASE pc[c] \in {"next", "done"} /\ pc'[c] = "returned" /\ todo[c] = {}
  <2>1. poolState = "joining" /\ poolState' = "closed"
    BY <1>1, <1>7 DEF poolState
  <2>2. ASSUME NEW t \in Threads, NEW i \in Ids, <<t, i>> \in aliveThreads, Regular(t)
        PROVE  \E d \in Stoppers, j \in Ids : <<d, <<t, j>>>> \in waitedThreads
    <3>1. Object(t)
      BY <2>2 DEF IInv
    <3>2. Runs(t) /\ lives[t] \in Ids
      BY <2>2, <3>1 DEF aliveThreads, Running, Object, Latest, Runs
    <3>3. PICK d \in Stoppers : Joins(d, t)
      BY <3>1, <3>2, <1>7 DEF Object, Accounted
    <3>4. <<d, <<t, lives[t]>>>> \in waitedThreads
      BY <3>2, <3>3 DEF waitedThreads, Joins, Last, Infos
    <3> QED BY <3>2, <3>4
  <2> QED BY <2>1, <2>2, <1>2, <1>3, PoolCloses DEF Regular
<1> QED BY <1>2, <1>4, <1>5, <1>6, <1>7

\* A pthread that ends
LEMMA ThreadMaps ==
    ASSUME IInv, NEW t \in Threads, NEW i \in Ids, threadLoop(t, i) \/ threadEnds(t, i)
    PROVE  [Pool!Next]_Pool!vars
<1>1. Shape
  BY DEF IInv
<1>2. life[t][i] \in {"loop", "seen"} /\ UNCHANGED <<pc, info, contested, late>>
  BY DEF threadLoop, threadEnds, histories
<1>3. waitedThreads' = waitedThreads /\ askingClients' = askingClients /\ poolState' = poolState
  BY <1>2 DEF waitedThreads, askingClients, poolState
<1>4. PICK s \in {"seen", "exited"} : life' = [life EXCEPT ![t][i] = s]
  BY DEF threadLoop, threadEnds
<1>5. /\ life'[t][i] = s
      /\ \A u \in Threads, j \in Ids : <<u, j>> # <<t, i>> => life'[u][j] = life[u][j]
  BY <1>1, <1>4 DEF Shape
<1>6. CASE s = "seen"
  <2>1. aliveThreads' = aliveThreads
    BY <1>2, <1>5, <1>6 DEF aliveThreads, Infos, Running
  <2> QED BY <2>1, <1>2, <1>3, PoolStutters
<1>7. CASE s = "exited"
  <2>1. <<t, i>> \in aliveThreads
    BY <1>2 DEF aliveThreads, Infos, Running
  <2>2. aliveThreads' = aliveThreads \ {<<t, i>>}
    BY <1>5, <1>7 DEF aliveThreads, Infos, Running
  <2> QED BY <2>1, <2>2, <1>2, <1>3, PoolEnd
<1> QED BY <1>6, <1>7

\* Every step of the scheduler is a step of the pool, or the pool does not see it.
LEMMA NextPool == ASSUME IInv, [Next]_vars PROVE [Pool!Next]_Pool!vars
<1>. Starters \subseteq Clients /\ Stoppers \subseteq Clients /\ StopAlls \subseteq Clients
  BY DEF Clients
<1>1. CASE \E c \in Starters, t \in Threads : startThread(c, t)
  BY <1>1, StartMaps
<1>2. CASE \E c \in Starters : startRefused(c)
  BY <1>2, PollMaps
<1>3. CASE \E c \in Stoppers : stopThread(c)
  BY <1>3, PollMaps
<1>4. CASE \E c \in StopAlls : stopAll(c)
  BY <1>4, StopAllMaps
<1>5. CASE \E c \in Clients : stopThreadByInfo(c)
  BY <1>5, ByInfoMaps
<1>6. CASE \E c \in Clients : eraseThread(c)
  BY <1>6, PollMaps
<1>7. CASE \E c \in Stoppers, t \in Threads : getThreadInfo(c, t)
  BY <1>7, GetMaps
<1>8. CASE \E t \in Threads, i \in Ids : threadLoop(t, i) \/ threadEnds(t, i)
  BY <1>8, ThreadMaps
<1>9. CASE UNCHANGED vars
  BY <1>9, PoolStutters DEF vars, aliveThreads, Running, waitedThreads, askingClients, poolState
<1> QED BY <1>1, <1>2, <1>3, <1>4, <1>5, <1>6, <1>7, <1>8, <1>9 DEF Next, Step

\* The scheduler implements ThreadPool, for any number of clients.  So
\* startThread never gives an object a second thread and waits for a stopThread()
\* of it; stopThread() has ended the thread when it returns, unless stop() is on
\* its way to do so (scheduler.cpp:345-359); and stop(), which works on a copy of
\* the list without the lock (scheduler.cpp:297-322), returns when nothing runs
\* that nobody joins: for every object but those that two clients stopped at a
\* time and those started late.
THEOREM PoolImplemented == Spec => ImplementsPool
<1>1. Init => Pool!Init
  BY InitPool
<1>2. IInv /\ [Next]_vars => [Pool!Next]_Pool!vars
  BY NextPool
<1> QED BY <1>1, <1>2, Invariant, PTL DEF Spec, ImplementsPool, Pool!Spec

=============================================================================
