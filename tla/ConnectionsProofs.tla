-------------------------- MODULE ConnectionsProofs --------------------------
(****************************************************************************)
(* The threads of the HTTP streamer, for any number of connections and      *)
(* inputs: the stop thread never throws; no connection outlives its input,  *)
(* if it asked for the path as configured, or its object, unless it hung up *)
(* or slipped past stop(); and the stop thread sleeps only next to what     *)
(* came between its test and its wait.  Then its UDP inputs, as module      *)
(* UdpInput has them: the semaphore of an input covers the connections it   *)
(* counts.                                                                  *)
(****************************************************************************)
EXTENDS Connections, FiniteSetTheorems, TLAPS

USE ConnectionsAssumption

In(s, x) == \E k \in DOMAIN s : s[k] = x
Distinct(s) == \A j, k \in DOMAIN s : s[j] = s[k] => j = k

ConnPc == {"new", "listed", "request", "lookup", "serving", "notify", "asked", "tail", "exited"}
InputPc == {"new", "read", "asked", "final", "self", "exited"}
\* Where the stop thread has a connection in its hands.
Handling == {"info", "ask", "getInfo", "tell", "stop", "join", "erase"}
StopperPc == {"check", "wait", "asleep", "drain", "exited"} \cup Handling
MainPc == {"idle", "delJoin", "delConns", "schedStop", "schedCopy", "next", "join", "clear", "done"}
OutPc == {"idle", "asked", "start", "refused", "exited"}

\* Where each thread can be.
PcShape ==
    /\ pc \in [Threads \cup {Main} -> ConnPc \cup InputPc \cup StopperPc \cup MainPc \cup OutPc]
    /\ \A c \in Conns : pc[c] \in ConnPc
    /\ \A i \in Inputs : pc[i] \in InputPc
    /\ pc[Out] \in OutPc /\ pc[Stopper] \in StopperPc /\ pc[Main] \in MainPc

\* What the steps read and write has its shape.
Shape ==
    /\ m_list \subseteq Conns /\ conStop \in Nat /\ inlist \in Inputs \cup {None}
    /\ m_data \in Seq(Conns) /\ m_wait \in Events /\ missed \subseteq Conns \cup {Stopper}
    /\ m_threads \in Seq(Threads) /\ schedStop \in Nat /\ copy \in Seq(Threads)
    /\ stopped \subseteq Threads /\ hung \subseteq Conns /\ late \subseteq Conns
    /\ m_path \subseteq Conns /\ in \in [Conns -> Inputs \cup {None}]
    /\ cur \in [{Out, Stopper, Main} -> Threads \cup {None}]
    /\ PcShape

Started(c) == pc[c] \notin {"new", "listed"}
\* stop() of all has joined what it has told and emptied the list.
Over == pc[Main] \in {"clear", "done"}
\* The main thread joins t.
MainJoins(t) == pc[Main] = "join" /\ cur[Main] = t

\* What the out thread, the stop thread and the main thread hold.
Holds ==
    /\ IF pc[Out] \in {"start", "refused"} THEN cur[Out] \in Conns /\ pc[cur[Out]] = "listed"
       ELSE cur[Out] = None
    /\ IF pc[Stopper] \in Handling THEN cur[Stopper] \in Conns ELSE cur[Stopper] = None
    /\ IF pc[Main] \in {"delJoin", "delConns"} THEN cur[Main] \in Inputs
       ELSE IF pc[Main] = "join" THEN cur[Main] \in stopped ELSE cur[Main] = None

\* Only a started connection has a path, is queued, is registered or stopped.
Known ==
    \A c \in Conns :
        /\ c \in m_path \cup stopped \/ c = cur[Stopper] => Started(c)
        /\ In(m_data, c) \/ In(m_threads, c) \/ In(copy, c) => Started(c)
        /\ in[c] # None => pc[c] = "serving"
        /\ pc[c] = "new" => c \notin m_list

\* A connection is in the list, in the queue or in the hands of the stop thread.
OnePlace ==
    /\ Distinct(m_data)
    /\ \A c \in Conns : In(m_data, c) => c \notin m_list
    /\ cur[Stopper] \notin m_list /\ ~In(m_data, cur[Stopper])

\* What is still to be stopped is registered, until stop() of all is over.
ToStopIsRegistered ==
    ~Over =>
        \A c \in Conns :
            (c \in m_list /\ Started(c)) \/ In(m_data, c) \/ c = cur[Stopper] => In(m_threads, c)

\* The event and the stop thread; what it is not aware of was missed.
Sleeper ==
    /\ m_wait.m_loop <=> pc[Stopper] = "asleep"
    /\ m_wait.blocked => m_wait.m_loop
    /\ m_wait.blocked \/ pc[Stopper] = "wait" \/ (pc[Stopper] = "check" /\ Stopper \notin stopped) =>
          \A c \in Conns : In(m_data, c) => c \in missed
    /\ (m_wait.blocked \/ pc[Stopper] = "wait") /\ Stopper \in stopped => Stopper \in missed

\* A running connection that was told to stop is being joined, or hung up.
ToldIsJoined ==
    /\ \A c \in Conns :
        Alive(c) /\ c \in stopped =>
            \/ c \in hung
            \/ cur[Stopper] = c /\ pc[Stopper] = "join"
            \/ MainJoins(c)
    /\ pc[Stopper] = "erase" =>
          ~Alive(cur[Stopper]) \/ cur[Stopper] \in hung \/ MainJoins(cur[Stopper])

\* stop() of all has told every registered thread that runs, or has it in its
\* copy, or the thread came too late for the copy.
AllTold ==
    pc[Main] \in {"next", "join"} =>
        \A t \in Conns \cup {Out, Stopper} :
            In(m_threads, t) => t \in stopped \cup late \/ In(copy, t) \/ (t \in Conns /\ ~Alive(t))

\* The out thread and the stop thread are registered and joined by stop() of all.
Ending ==
    \A t \in {Out, Stopper} :
        /\ t \in stopped => pc[t] = "exited" \/ MainJoins(t)
        /\ IF Over THEN pc[t] = "exited" ELSE In(m_threads, t)

\* A running connection is registered or joined by the main thread; or it hung up,
\* or it came too late for stop() of all.
Kept ==
    \A c \in Conns : Alive(c) =>
        c \in hung \cup late \/ (~Over /\ (In(m_threads, c) \/ MainJoins(c)))

\* The inductive invariant
IInv ==
    /\ Shape /\ Holds /\ Known /\ OnePlace /\ ToStopIsRegistered
    /\ Sleeper /\ ToldIsJoined /\ AllTold /\ Ending /\ Kept /\ OrphansAreStopped

-----------------------------------------------------------------------------
\* What is in two lists put together.
LEMMA ConcatIn ==
    ASSUME NEW S, NEW s \in Seq(S), NEW t \in Seq(S)
    PROVE  /\ s \o t \in Seq(S)
           /\ \A x : In(s \o t, x) <=> In(s, x) \/ In(t, x)
<1>1. ASSUME NEW x, In(s \o t, x) PROVE In(s, x) \/ In(t, x)
    <2>1. PICK k \in DOMAIN (s \o t) : (s \o t)[k] = x
        BY <1>1 DEF In
    <2>2. CASE k <= Len(s)
        BY <2>1, <2>2 DEF In
    <2>3. CASE k > Len(s)
        <3>1. k - Len(s) \in DOMAIN t /\ t[k - Len(s)] = x
            BY <2>1, <2>3
        <3>. QED
            BY <3>1 DEF In
    <2>. QED
        BY <2>1, <2>2, <2>3
<1>2. ASSUME NEW x, In(s, x) PROVE In(s \o t, x)
    <2>1. PICK k \in DOMAIN s : s[k] = x
        BY <1>2 DEF In
    <2>2. k \in DOMAIN (s \o t) /\ (s \o t)[k] = x
        BY <2>1
    <2>. QED
        BY <2>2 DEF In
<1>3. ASSUME NEW x, In(t, x) PROVE In(s \o t, x)
    <2>1. PICK k \in DOMAIN t : t[k] = x
        BY <1>3 DEF In
    <2>2. Len(s) + k \in DOMAIN (s \o t) /\ (s \o t)[Len(s) + k] = x
        BY <2>1
    <2>. QED
        BY <2>2 DEF In
<1>. QED
    BY <1>1, <1>2, <1>3

\* Two lists without repetition that have nothing in common.
LEMMA ConcatDistinct ==
    ASSUME NEW S, NEW s \in Seq(S), NEW t \in Seq(S), Distinct(s), Distinct(t),
           \A x : ~(In(s, x) /\ In(t, x))
    PROVE  Distinct(s \o t)
<1>. SUFFICES ASSUME NEW j \in DOMAIN (s \o t), NEW k \in DOMAIN (s \o t), (s \o t)[j] = (s \o t)[k]
              PROVE  j = k
    BY DEF Distinct
<1>. /\ j \in 1..(Len(s) + Len(t)) /\ k \in 1..(Len(s) + Len(t))
     /\ Len(s) \in Nat /\ Len(t) \in Nat /\ DOMAIN s = 1..Len(s) /\ DOMAIN t = 1..Len(t)
    OBVIOUS
<1>1. CASE j <= Len(s) /\ k <= Len(s)
    BY <1>1 DEF Distinct
<1>2. CASE j > Len(s) /\ k > Len(s)
    <2>1. /\ j - Len(s) \in DOMAIN t /\ t[j - Len(s)] = (s \o t)[j]
          /\ k - Len(s) \in DOMAIN t /\ t[k - Len(s)] = (s \o t)[k]
        BY <1>2
    <2>2. j - Len(s) = k - Len(s)
        BY <2>1 DEF Distinct
    <2>. QED
        BY <2>2
<1>3. CASE j <= Len(s) /\ k > Len(s)
    <2>1. s[j] = (s \o t)[j] /\ j \in DOMAIN s /\ k - Len(s) \in DOMAIN t /\ t[k - Len(s)] = (s \o t)[k]
        BY <1>3
    <2>. QED
        BY <2>1 DEF In
<1>4. CASE j > Len(s) /\ k <= Len(s)
    <2>1. s[k] = (s \o t)[k] /\ k \in DOMAIN s /\ j - Len(s) \in DOMAIN t /\ t[j - Len(s)] = (s \o t)[j]
        BY <1>4
    <2>. QED
        BY <2>1 DEF In
<1>. QED
    BY <1>1, <1>2, <1>3, <1>4

\* The front and the rest of a list.
LEMMA HeadTail ==
    ASSUME NEW S, NEW s \in Seq(S), s # <<>>
    PROVE  /\ Head(s) \in S /\ Tail(s) \in Seq(S)
           /\ \A x : In(s, x) <=> x = Head(s) \/ In(Tail(s), x)
           /\ Distinct(s) => Distinct(Tail(s)) /\ ~In(Tail(s), Head(s))
<1>1. /\ Head(s) \in S /\ Tail(s) \in Seq(S) /\ 1 \in DOMAIN s /\ Head(s) = s[1]
      /\ \A k \in DOMAIN Tail(s) : k \in Nat \ {0} /\ k + 1 \in DOMAIN s /\ Tail(s)[k] = s[k + 1]
    OBVIOUS
<1>2. ASSUME NEW x, In(s, x) PROVE x = Head(s) \/ In(Tail(s), x)
    <2>1. PICK k \in DOMAIN s : s[k] = x
        BY <1>2 DEF In
    <2>2. CASE k = 1
        BY <2>1, <2>2, <1>1
    <2>3. CASE k # 1
        <3>1. k - 1 \in DOMAIN Tail(s) /\ Tail(s)[k - 1] = x
            BY <2>1, <2>3
        <3>. QED
            BY <3>1 DEF In
    <2>. QED
        BY <2>2, <2>3
<1>3. ASSUME NEW x, x = Head(s) \/ In(Tail(s), x) PROVE In(s, x)
    BY <1>1, <1>3 DEF In
<1>4. ASSUME Distinct(s) PROVE Distinct(Tail(s))
    <2>. SUFFICES ASSUME NEW j \in DOMAIN Tail(s), NEW k \in DOMAIN Tail(s), Tail(s)[j] = Tail(s)[k] PROVE j = k
        BY DEF Distinct
    <2>1. j + 1 = k + 1
        BY <1>1, <1>4 DEF Distinct
    <2>. QED
        BY <2>1, <1>1
<1>5. ASSUME Distinct(s), In(Tail(s), Head(s)) PROVE FALSE
    <2>1. PICK k \in DOMAIN Tail(s) : Tail(s)[k] = Head(s)
        BY <1>5 DEF In
    <2>2. k + 1 = 1
        BY <2>1, <1>1, <1>5 DEF Distinct
    <2>. QED
        BY <2>2, <1>1
<1>. QED
    BY <1>1, <1>2, <1>3, <1>4, <1>5

\* Taking the entry of one thread out of the list keeps the others.
LEMMA WithoutIn ==
    ASSUME NEW S, NEW s \in Seq(S), NEW t
    PROVE  /\ Without(s, t) \in Seq(S)
           /\ \A x : In(Without(s, t), x) => In(s, x)
           /\ \A x : In(s, x) /\ x # t => In(Without(s, t), x)
<1>1. CASE ~\E k \in DOMAIN s : s[k] = t
    BY <1>1 DEF Without
<1>2. CASE \E k \in DOMAIN s : s[k] = t
    <2>. DEFINE n == CHOOSE k \in DOMAIN s : s[k] = t
                a == SubSeq(s, 1, n - 1)
                b == SubSeq(s, n + 1, Len(s))
    <2>1. n \in DOMAIN s /\ s[n] = t /\ n \in 1..Len(s) /\ Len(s) \in Nat
        BY <1>2
    <2>2. Without(s, t) = a \o b
        BY <1>2 DEF Without
    <2>. HIDE DEF n
    <2>3. a \in Seq(S) /\ DOMAIN a = 1..(n - 1) /\ \A k \in 1..(n - 1) : a[k] = s[k]
        BY <2>1
    <2>4. b \in Seq(S) /\ DOMAIN b = 1..(Len(s) - n) /\ \A k \in 1..(Len(s) - n) : b[k] = s[n + k]
        BY <2>1
    <2>. HIDE DEF a, b
    <2>5. ASSUME NEW x, In(a, x) \/ In(b, x) PROVE In(s, x)
        <3>1. CASE In(a, x)
            BY <3>1, <2>1, <2>3 DEF In
        <3>2. CASE In(b, x)
            <4>1. PICK k \in DOMAIN b : b[k] = x
                BY <3>2 DEF In
            <4>2. n + k \in DOMAIN s /\ s[n + k] = x
                BY <4>1, <2>1, <2>4
            <4>. QED
                BY <4>2 DEF In
        <3>. QED
            BY <2>5, <3>1, <3>2
    <2>6. ASSUME NEW x, In(s, x), x # t PROVE In(a, x) \/ In(b, x)
        <3>1. PICK k \in DOMAIN s : s[k] = x
            BY <2>6 DEF In
        <3>2. CASE k < n
            BY <3>1, <3>2, <2>1, <2>3 DEF In
        <3>3. CASE k > n
            <4>1. k - n \in DOMAIN b /\ b[k - n] = x
                BY <3>1, <3>3, <2>1, <2>4
            <4>. QED
                BY <4>1 DEF In
        <3>. QED
            BY <3>1, <3>2, <3>3, <2>6, <2>1
    <2>. QED
        BY <2>2, <2>3, <2>4, <2>5, <2>6, ConcatIn
<1>. QED
    BY <1>1, <1>2

\* One more registered thread, at the front.
LEMMA PrependIn ==
    ASSUME NEW S, NEW s \in Seq(S), NEW t \in S
    PROVE  <<t>> \o s \in Seq(S) /\ \A x : In(<<t>> \o s, x) <=> x = t \/ In(s, x)
<1>1. <<t>> \in Seq(S) /\ \A x : In(<<t>>, x) <=> x = t
    BY DEF In
<1>. QED
    BY <1>1, ConcatIn

\* An empty list.
LEMMA EmptyIn == \A x : ~In(<<>>, x)
BY DEF In

-----------------------------------------------------------------------------
\* What queueing a set of listed connections does.
Queues(Q) ==
    /\ m_list' = m_list \ Q
    /\ m_data' \in Seq(Conns) /\ Distinct(m_data')
    /\ \A x : In(m_data', x) <=> In(m_data, x) \/ x \in Q
    /\ m_wait' \in Events /\ missed' \subseteq Conns \cup {Stopper} /\ missed \subseteq missed'
    /\ m_wait'.m_loop <=> m_wait.m_loop
    /\ m_wait'.blocked => m_wait.blocked /\ (m_wait.m_loop => Q = {})
    /\ Unaware => Q \subseteq missed'

\* addConnectThread of a list that names each of the connections once.
LEMMA Queueing ==
    ASSUME IInv, NEW Q \in SUBSET m_list, NEW s \in Seq(Conns), Distinct(s),
           \A x : In(s, x) <=> x \in Q, addConnectThread(s), m_list' = m_list \ Q
    PROVE  Queues(Q)
<1>. Shape /\ OnePlace
    BY DEF IInv
<1>1. \A x : ~(In(m_data, x) /\ In(s, x))
    BY DEF OnePlace, Shape
<1>2. /\ m_data' \in Seq(Conns) /\ Distinct(m_data')
      /\ \A x : In(m_data', x) <=> In(m_data, x) \/ x \in Q
    BY <1>1, ConcatIn, ConcatDistinct DEF addConnectThread, OnePlace, Shape
<1>3. s = <<>> => Q = {}
    BY EmptyIn
<1>4. /\ m_wait' \in Events
      /\ m_wait'.m_loop <=> m_wait.m_loop
      /\ m_wait'.blocked => m_wait.blocked /\ (m_wait.m_loop => Q = {})
    BY <1>3 DEF addConnectThread, Shape, StopWait, Events
<1>5. {s[k] : k \in DOMAIN s} = Q
    BY DEF In
<1>6. missed' = IF Unaware THEN missed \cup Q ELSE missed
    BY <1>5 DEF addConnectThread
<1>. QED
    BY <1>2, <1>4, <1>6 DEF Queues, Shape

\* stopThreads queues the connections of the path, each once.
LEMMA StopThreadsQueues == ASSUME IInv, stopThreads PROVE Queues(m_list \cap m_path)
<1>. DEFINE S == m_list \cap m_path
            n == Cardinality(S)
<1>. Shape
    BY DEF IInv
<1>1. IsFiniteSet(S) /\ S \subseteq Conns
    BY FS_Subset, ConnectionsAssumption DEF Shape
<1>2. n \in Nat /\ IsFiniteSet(1..n) /\ Cardinality(1..n) = n
    BY <1>1, FS_CardinalityType, FS_Interval
<1>3. PICK s \in [1..n -> S] : {s[k] : k \in DOMAIN s} = S /\ addConnectThread(s)
    BY DEF stopThreads
<1>. HIDE DEF n, S
<1>4. s \in Surjection(1..n, S)
    BY <1>3 DEF Surjection
<1>5. s \in Injection(1..n, S)
    BY <1>2, <1>4, FS_SurjSameCardinalityImpliesInj DEF n
<1>6. Distinct(s)
    BY <1>3, <1>5 DEF Injection, IsInjective, Distinct
<1>7. s \in Seq(Conns) /\ \A x : In(s, x) <=> x \in S
    BY <1>1, <1>2, <1>3 DEF In
<1>8. m_list' = m_list \ S /\ S \in SUBSET m_list
    BY DEF stopThreads, S
<1>. QED
    BY <1>3, <1>6, <1>7, <1>8, Queueing DEF S

\* Queueing started connections keeps them in one place, registered and not
\* forgotten by the sleeping stop thread.
LEMMA QueuesKeeps ==
    ASSUME IInv, NEW Q \in SUBSET m_list, \A c \in Q : Started(c), Queues(Q),
           UNCHANGED <<m_threads, stopped, cur[Stopper]>>,
           \A c \in Conns : Started(c)' <=> Started(c),
           pc'[Stopper] = pc[Stopper], ~Over' => ~Over
    PROVE  OnePlace' /\ ToStopIsRegistered' /\ Sleeper'
<1>. Shape /\ OnePlace /\ ToStopIsRegistered /\ Sleeper /\ Holds
    BY DEF IInv
<1>0. None \notin m_list
    BY ConnectionsAssumption DEF Shape
<1>1. OnePlace'
    BY <1>0 DEF OnePlace, Queues, Shape, Holds
<1>2. ToStopIsRegistered'
    BY DEF ToStopIsRegistered, Queues, Shape
<1>3. Sleeper'
    BY DEF Sleeper, Queues, Shape, Unaware
<1>. QED
    BY <1>1, <1>2, <1>3

\* A step that tells no running connection to stop, and starts none that was told.
LEMMA ToldKept ==
    ASSUME ToldIsJoined, Holds, UNCHANGED <<cur[Stopper], pc[Stopper]>>,
           pc[Main] = "join" => UNCHANGED <<cur[Main], pc[Main]>>,
           \A c \in Conns : Alive(c)' =>
               \/ Alive(c) /\ (c \in stopped' => c \in stopped) /\ (c \in hung => c \in hung')
               \/ c \notin stopped' /\ c # cur[Stopper]
    PROVE  ToldIsJoined'
<1>1. ASSUME NEW c \in Conns, Alive(c)', c \in stopped'
      PROVE  c \in hung' \/ (cur'[Stopper] = c /\ pc'[Stopper] = "join") \/ MainJoins(c)'
    BY <1>1 DEF ToldIsJoined, MainJoins
<1>2. ASSUME pc'[Stopper] = "erase", pc'[cur'[Stopper]] \notin {"new", "listed", "exited"}, cur'[Stopper] \notin hung'
      PROVE  pc'[Main] = "join" /\ cur'[Main] = cur'[Stopper]
    <2>1. cur[Stopper] \in Conns
        BY <1>2 DEF Holds, Handling
    <2>2. Alive(cur[Stopper]) /\ cur[Stopper] \notin hung
        BY <2>1, <1>2 DEF Alive
    <2>3. MainJoins(cur[Stopper])
        BY <2>2, <1>2 DEF ToldIsJoined
    <2>. QED
        BY <2>3 DEF MainJoins
<1>. QED
    BY <1>1, <1>2 DEF ToldIsJoined, Alive, MainJoins

\* Where a thread of each kind can be.
PcOf(t) ==
    IF t \in Conns THEN ConnPc ELSE IF t \in Inputs THEN InputPc
    ELSE IF t = Out THEN OutPc ELSE IF t = Stopper THEN StopperPc ELSE MainPc

\* One thread moves and the others stay where they are.
LEMMA Moves ==
    ASSUME Shape, NEW t \in Threads \cup {Main}, NEW to \in PcOf(t), pc' = [pc EXCEPT ![t] = to]
    PROVE  /\ PcShape' /\ pc'[t] = to
           /\ \A c \in Conns : c # t => pc'[c] = pc[c]
           /\ \A i \in Inputs : i # t => pc'[i] = pc[i]
           /\ Out # t => pc'[Out] = pc[Out]
           /\ Stopper # t => pc'[Stopper] = pc[Stopper]
           /\ Main # t => pc'[Main] = pc[Main]
<1>1. /\ pc'[t] = to
      /\ \A x \in Threads \cup {Main} : x # t => pc'[x] = pc[x]
      /\ Conns \cup Inputs \cup {Out, Stopper, Main} = Threads \cup {Main}
    BY DEF Shape, PcShape, Threads
<1>2. /\ \A c \in Conns : c # t => pc'[c] = pc[c]
      /\ \A i \in Inputs : i # t => pc'[i] = pc[i]
      /\ Out # t => pc'[Out] = pc[Out]
      /\ Stopper # t => pc'[Stopper] = pc[Stopper]
      /\ Main # t => pc'[Main] = pc[Main]
    BY <1>1
<1>3. to \in ConnPc \cup InputPc \cup StopperPc \cup MainPc \cup OutPc
    BY DEF PcOf
<1>4. pc' \in [Threads \cup {Main} -> ConnPc \cup InputPc \cup StopperPc \cup MainPc \cup OutPc]
    BY <1>3 DEF Shape, PcShape
<1>5. /\ \A c \in Conns : pc'[c] \in ConnPc
      /\ \A i \in Inputs : pc'[i] \in InputPc
    BY <1>1, <1>2 DEF Shape, PcShape, PcOf
<1>6. pc'[Out] \in OutPc /\ pc'[Stopper] \in StopperPc /\ pc'[Main] \in MainPc
    BY <1>1, <1>2 DEF Shape, PcShape, PcOf
<1>. QED
    BY <1>1, <1>2, <1>4, <1>5, <1>6 DEF PcShape

\* A step of another thread than the main and the stop thread that registers and
\* tells nobody.
LEMMA Calm ==
    ASSUME IInv, UNCHANGED <<m_threads, copy, stopped, cur[Stopper], cur[Main]>>,
           pc'[Stopper] = pc[Stopper], pc'[Main] = pc[Main], pc[Out] = "exited" => pc'[Out] = "exited",
           \A c \in Conns : /\ Alive(c)' => Alive(c) /\ (c \in hung => c \in hung')
                            /\ Alive(c)' => (c \in late => c \in late')
    PROVE  ToldIsJoined' /\ AllTold' /\ Ending' /\ Kept'
<1>. Shape /\ Holds /\ ToldIsJoined /\ AllTold /\ Ending /\ Kept
    BY DEF IInv
<1>1. ToldIsJoined'
    BY ToldKept
<1>2. AllTold'
    <2>1. late \cap {Out, Stopper} = {}
        BY DEF Shape
    <2>2. ASSUME NEW c \in Conns, c \in late PROVE c \in late' \/ ~Alive(c)'
        BY <2>2
    <2>. QED
        BY <2>1, <2>2 DEF AllTold
<1>3. Ending'
    BY DEF Ending, MainJoins, Over
<1>4. Kept'
    BY DEF Kept, MainJoins, Over
<1>. QED
    BY <1>1, <1>2, <1>3, <1>4

\* Such a step that also leaves the list of the connections and the queue alone,
\* and starts no connection.
LEMMA Quiet ==
    ASSUME IInv, UNCHANGED <<m_list, queueVars, m_threads, copy, stopped, cur[Stopper], cur[Main]>>,
           pc'[Stopper] = pc[Stopper], pc'[Main] = pc[Main], pc[Out] = "exited" => pc'[Out] = "exited",
           \A c \in Conns : /\ Started(c)' <=> Started(c)
                            /\ Alive(c)' => Alive(c) /\ (c \in hung => c \in hung')
                            /\ Alive(c)' => (c \in late => c \in late')
    PROVE  OnePlace' /\ ToStopIsRegistered' /\ Sleeper' /\ ToldIsJoined' /\ AllTold' /\ Ending' /\ Kept'
<1>. OnePlace /\ ToStopIsRegistered /\ Sleeper
    BY DEF IInv
<1>. USE DEF queueVars
<1>1. OnePlace' /\ Sleeper'
    BY DEF OnePlace, Sleeper
<1>2. ToStopIsRegistered'
    BY DEF ToStopIsRegistered, Over
<1>3. ToldIsJoined' /\ AllTold' /\ Ending' /\ Kept'
    BY Calm
<1>. QED
    BY <1>1, <1>2, <1>3

-----------------------------------------------------------------------------
\* The invariant holds in the initial state.
LEMMA InitIInv == Init => IInv
<1>. SUFFICES ASSUME Init PROVE IInv
    OBVIOUS
<1>1. conStop \in Nat /\ schedStop \in Nat
    BY DEF Init
<1>2. /\ pc \in [Threads \cup {Main} -> {"new", "check", "idle"}]
      /\ \A t \in Conns \cup Inputs : pc[t] = "new"
      /\ pc[Stopper] = "check" /\ pc[Out] = "idle" /\ pc[Main] = "idle"
    BY DEF Init, Threads
<1>3. m_wait \in Events /\ ~m_wait.m_loop /\ ~m_wait.blocked
    BY DEF Init, NewEvent, Events
<1>4. /\ m_threads \in Seq(Threads) /\ \A c \in Conns : ~In(m_threads, c)
      /\ In(m_threads, Out) /\ In(m_threads, Stopper)
    <2>1. m_threads = <<Out, Stopper>> /\ {Out, Stopper} \subseteq Threads
        BY DEF Init, Threads
    <2>2. DOMAIN m_threads = {1, 2} /\ m_threads[1] = Out /\ m_threads[2] = Stopper
        BY <2>1
    <2>. QED
        BY <2>1, <2>2 DEF In
<1>5. Shape
    BY <1>1, <1>2, <1>3, <1>4 DEF Init, Shape, PcShape, OutPc, Threads, ConnPc, InputPc, StopperPc, MainPc
<1>6. Holds /\ Known
    BY <1>1, <1>2, <1>4, EmptyIn DEF Init, Holds, Known, Started, Handling
<1>7. OnePlace /\ ToStopIsRegistered /\ Sleeper
    BY <1>2, <1>3, EmptyIn DEF Init, OnePlace, ToStopIsRegistered, Sleeper, Distinct
<1>8. ToldIsJoined /\ AllTold /\ Ending /\ Kept /\ OrphansAreStopped
    BY <1>2, <1>4 DEF Init, ToldIsJoined, AllTold, Ending, Kept, Alive, OrphansAreStopped, Over
<1>. QED
    BY <1>5, <1>6, <1>7, <1>8 DEF IInv

\* A client is accepted, and its thread listed.
LEMMA StartConnectIInv == ASSUME IInv, startConnectThread PROVE IInv'
<1>. USE DEF queueVars, schedVars, connVars, histVars
<1>. Shape /\ Holds /\ Known /\ OnePlace /\ ToStopIsRegistered /\ Sleeper /\ OrphansAreStopped
    BY DEF IInv
<1>0. /\ UNCHANGED <<inlist, queueVars, schedVars, stopped, connVars, histVars>>
      /\ Out \notin Conns \cup Inputs /\ Out # Stopper /\ Out # Main /\ Out \in Threads \cup {Main}
    BY DEF startConnectThread, Threads
<1>1. ASSUME NEW c \in Conns, pc[Out] = "idle", pc[c] = "new",
             m_list' = m_list \cup {c}, cur' = [cur EXCEPT ![Out] = c],
             pc' = [pc EXCEPT ![c] = "listed", ![Out] = "start"], UNCHANGED conStop
      PROVE  IInv'
    <2>0. /\ \A t \in Threads \cup {Main} : t \notin {c, Out} => pc'[t] = pc[t]
          /\ pc'[c] = "listed" /\ pc'[Out] = "start" /\ c \notin {Out, Stopper, Main}
          /\ pc'[Stopper] = pc[Stopper] /\ pc'[Main] = pc[Main]
          /\ \A i \in Inputs : pc'[i] = pc[i]
          /\ \A d \in Conns \ {c} : pc'[d] = pc[d]
          /\ cur'[Out] = c /\ cur'[Stopper] = cur[Stopper] /\ cur'[Main] = cur[Main]
          /\ \A d \in Conns : (Alive(d)' <=> Alive(d)) /\ (Started(d)' <=> Started(d))
        BY <1>0, <1>1 DEF Shape, PcShape, OutPc, Threads, Alive, Started
    <2>1. Shape'
        BY <1>0, <1>1, <2>0 DEF Shape, PcShape, OutPc, ConnPc, Threads
    <2>2. Holds'
        BY <1>0, <1>1, <2>0 DEF Shape, PcShape, OutPc, Holds, Threads
    <2>3. Known'
        BY <1>0, <1>1, <2>0 DEF Shape, PcShape, OutPc, Known, Threads, Started
    <2>4. c # cur[Stopper] /\ ~In(m_data, c) /\ in[c] = None
        BY <1>1 DEF Known, Started
    <2>5. OnePlace'
        BY <1>0, <1>1, <2>0, <2>4 DEF OnePlace
    <2>6. Sleeper'
        BY <1>0, <1>1, <2>0 DEF Sleeper
    <2>7. ToStopIsRegistered'
        BY <1>0, <1>1, <2>0, <2>4 DEF ToStopIsRegistered, Started, Over
    <2>8. ToldIsJoined' /\ AllTold' /\ Ending' /\ Kept'
        BY <1>0, <1>1, <2>0, Calm
    <2>9. OrphansAreStopped'
        BY <1>0, <1>1, <2>0, <2>4 DEF OrphansAreStopped, Shape
    <2>. QED
        BY <2>1, <2>2, <2>3, <2>5, <2>6, <2>7, <2>8, <2>9 DEF IInv
<1>2. ASSUME NEW from \in {"idle", "asked"}, NEW to \in {"idle", "asked"}, Goto(Out, from, to),
             conStop' \in Nat, UNCHANGED <<m_list, cur>>
      PROVE  IInv'
    <2>1. /\ PcShape' /\ pc[Out] = from /\ pc'[Out] = to
          /\ \A c \in Conns : pc'[c] = pc[c]
          /\ pc'[Stopper] = pc[Stopper] /\ pc'[Main] = pc[Main]
        BY <1>0, <1>2, Moves DEF PcOf, OutPc, Goto
    <2>2. Shape' /\ Holds' /\ Known' /\ OrphansAreStopped'
        <3>1. Shape'
            BY <1>0, <1>2, <2>1 DEF Shape
        <3>2. Holds'
            BY <1>0, <1>2, <2>1 DEF Holds
        <3>3. Known' /\ OrphansAreStopped'
            BY <1>0, <1>2, <2>1 DEF Known, OrphansAreStopped, Started
        <3>. QED
            BY <3>1, <3>2, <3>3
    <2>3. OnePlace' /\ ToStopIsRegistered' /\ Sleeper' /\ ToldIsJoined' /\ AllTold' /\ Ending' /\ Kept'
        BY <1>0, <1>2, <2>1, Quiet DEF Started, Alive
    <2>. QED
        BY <2>2, <2>3 DEF IInv
<1>3. CASE Goto(Out, "idle", "asked") /\ conStop > 0 /\ conStop' = conStop - 1 /\ UNCHANGED <<m_list, cur>>
    <2>1. conStop' \in Nat
        BY <1>3 DEF Shape
    <2>. QED
        BY <1>2, <1>3, <2>1
<1>4. CASE Goto(Out, "asked", "idle") /\ conStop' = conStop + 1 /\ UNCHANGED <<m_list, cur>>
    <2>1. conStop' \in Nat
        BY <1>4 DEF Shape
    <2>. QED
        BY <1>2, <1>4, <2>1
<1>. QED
    BY <1>1, <1>3, <1>4 DEF startConnectThread, Hold

\* The thread of the client is registered and started, or ignored.
LEMMA StartThreadIInv == ASSUME IInv, startThread PROVE IInv'
<1>. USE DEF listVars, queueVars, schedVars, connVars
<1>. Shape /\ Holds /\ Known /\ OnePlace /\ ToStopIsRegistered /\ Sleeper /\ AllTold /\ Ending /\ Kept
     /\ ToldIsJoined /\ OrphansAreStopped
    BY DEF IInv
<1>0. /\ UNCHANGED <<listVars, queueVars, copy, stopped, connVars, hung>>
      /\ Out \notin Conns \cup Inputs /\ Out # Stopper /\ Out # Main /\ Out \in Threads \cup {Main}
    BY DEF startThread, Threads
<1>1. CASE /\ pc[Out] = "start" /\ schedStop = 0 /\ Hold(Out, None)
           /\ m_threads' = <<cur[Out]>> \o m_threads
           /\ pc' = [pc EXCEPT ![Out] = "idle", ![cur[Out]] = "request"]
           /\ late' = IF pc[Main] \in {"next", "join"} THEN late \cup {cur[Out]} ELSE late
           /\ UNCHANGED schedStop
    <2>. PICK c \in Conns : c = cur[Out] /\ pc[c] = "listed"
        BY <1>1 DEF Holds
    <2>0. /\ \A t \in Threads \cup {Main} : t \notin {c, Out} => pc'[t] = pc[t]
          /\ pc'[c] = "request" /\ pc'[Out] = "idle"
          /\ pc'[Stopper] = pc[Stopper] /\ pc'[Main] = pc[Main]
          /\ \A i \in Inputs : pc'[i] = pc[i]
          /\ \A d \in Conns \ {c} : pc'[d] = pc[d]
          /\ cur' \in [{Out, Stopper, Main} -> Threads \cup {None}]
          /\ cur'[Out] = None /\ cur'[Stopper] = cur[Stopper] /\ cur'[Main] = cur[Main]
          /\ \A d \in Conns \ {c} : (Alive(d)' <=> Alive(d)) /\ (Started(d)' <=> Started(d))
          /\ Started(c)' /\ Alive(c)' /\ ~Started(c)
        BY <1>0, <1>1 DEF Shape, PcShape, OutPc, Threads, Alive, Started, Hold
    <2>1. m_threads' \in Seq(Threads) /\ \A x : In(m_threads', x) <=> x = c \/ In(m_threads, x)
        BY <1>1, PrependIn DEF Shape, Threads
    <2>2. ~Over
        BY <1>0, <1>1 DEF Ending
    <2>3. Shape'
        BY <1>0, <1>1, <2>0, <2>1 DEF Shape, PcShape, OutPc, ConnPc, Threads
    <2>4. Holds'
        BY <1>0, <1>1, <2>0 DEF Shape, PcShape, OutPc, Holds
    <2>a. c # cur[Stopper] /\ ~In(m_data, c) /\ c \notin m_path \cup stopped /\ in[c] = None
        BY <2>0 DEF Known
    <2>5. Known'
        BY <1>0, <1>1, <2>0, <2>1, <2>a DEF Known
    <2>6. OrphansAreStopped'
        BY <1>0, <1>1, <2>0 DEF OrphansAreStopped
    <2>7. OnePlace'
        BY <1>0, <1>1, <2>0 DEF OnePlace
    <2>8. Sleeper'
        BY <1>0, <1>1, <2>0 DEF Sleeper
    <2>9. ToStopIsRegistered'
        BY <1>0, <1>1, <2>0, <2>1 DEF ToStopIsRegistered, Over
    <2>10. ToldIsJoined'
        <3>1. \A d \in Conns : Alive(d)' => Alive(d) \/ (d \notin stopped' /\ d # cur[Stopper])
            BY <1>0, <1>1, <2>0, <2>a DEF Alive
        <3>. QED
            BY <1>0, <1>1, <2>0, <3>1, ToldKept
    <2>11. AllTold'
        BY <1>0, <1>1, <2>0, <2>1 DEF AllTold, Alive
    <2>12. Ending'
        BY <1>0, <1>1, <2>0, <2>1, <2>2 DEF Ending, MainJoins, Over
    <2>13. Kept'
        BY <1>0, <1>1, <2>0, <2>1, <2>2 DEF Kept, MainJoins, Over
    <2>. QED
        BY <2>3, <2>4, <2>5, <2>6, <2>7, <2>8, <2>9, <2>10, <2>11, <2>12, <2>13 DEF IInv
<1>2. ASSUME NEW from \in {"start", "refused"}, NEW to \in {"idle", "refused"}, Goto(Out, from, to),
             schedStop' \in Nat, UNCHANGED <<m_threads, late>>,
             (to = "refused" /\ UNCHANGED cur) \/ (to = "idle" /\ Hold(Out, None))
      PROVE  IInv'
    <2>1. /\ PcShape' /\ pc[Out] = from /\ pc'[Out] = to
          /\ \A c \in Conns : pc'[c] = pc[c]
          /\ pc'[Stopper] = pc[Stopper] /\ pc'[Main] = pc[Main]
        BY <1>0, <1>2, Moves DEF PcOf, OutPc, Goto
    <2>2. /\ cur' \in [{Out, Stopper, Main} -> Threads \cup {None}]
          /\ cur'[Stopper] = cur[Stopper] /\ cur'[Main] = cur[Main]
          /\ cur'[Out] = IF to = "idle" THEN None ELSE cur[Out]
        BY <1>0, <1>2 DEF Hold, Shape
    <2>3. Shape'
        BY <1>0, <1>2, <2>1, <2>2 DEF Shape
    <2>4. Holds'
        BY <1>0, <1>2, <2>1, <2>2 DEF Holds
    <2>5. Known' /\ OrphansAreStopped'
        BY <1>0, <1>2, <2>1, <2>2 DEF Known, OrphansAreStopped, Started
    <2>6. OnePlace' /\ ToStopIsRegistered' /\ Sleeper' /\ ToldIsJoined' /\ AllTold' /\ Ending' /\ Kept'
        BY <1>0, <1>2, <2>1, <2>2, Quiet DEF Started, Alive
    <2>. QED
        BY <2>3, <2>4, <2>5, <2>6 DEF IInv
<1>3. CASE /\ Goto(Out, "start", "refused") /\ schedStop > 0 /\ schedStop' = schedStop - 1
           /\ UNCHANGED <<m_threads, cur, late>>
    <2>1. schedStop' \in Nat
        BY <1>3 DEF Shape
    <2>. QED
        BY <1>2, <1>3, <2>1
<1>4. CASE /\ Goto(Out, "refused", "idle") /\ schedStop' = schedStop + 1 /\ Hold(Out, None)
           /\ UNCHANGED <<m_threads, late>>
    <2>1. schedStop' \in Nat
        BY <1>4 DEF Shape
    <2>. QED
        BY <1>2, <1>4, <2>1
<1>. QED
    BY <1>1, <1>3, <1>4 DEF startThread

\* The out thread ends.
LEMMA OutEndsIInv == ASSUME IInv, outEnds PROVE IInv'
<1>. USE DEF listVars, queueVars, schedVars, connVars, histVars, outEnds, Goto
<1>. Shape /\ Holds /\ Known /\ OrphansAreStopped
    BY DEF IInv
<1>0. Out \notin Conns \cup Inputs /\ Out # Stopper /\ Out # Main
    OBVIOUS
<1>1. /\ PcShape' /\ pc'[Out] = "exited"
      /\ \A c \in Conns : pc'[c] = pc[c]
      /\ pc'[Stopper] = pc[Stopper] /\ pc'[Main] = pc[Main]
    BY <1>0, Moves DEF PcOf, OutPc, Threads
<1>2. Shape'
    BY <1>1 DEF Shape
<1>3. Holds' /\ Known' /\ OrphansAreStopped'
    BY <1>1 DEF Holds, Known, OrphansAreStopped, Started
<1>4. OnePlace' /\ ToStopIsRegistered' /\ Sleeper' /\ ToldIsJoined' /\ AllTold' /\ Ending' /\ Kept'
    BY <1>1, Quiet DEF Started, Alive
<1>. QED
    BY <1>2, <1>3, <1>4 DEF IInv

\* A connection serves its client, asks to be stopped, and ends.
LEMMA ConnIInv == ASSUME IInv, NEW c \in Conns, ConnStep(c) PROVE IInv'
<1>. USE DEF listVars, queueVars, schedVars, connVars, histVars
<1>. Shape /\ Holds /\ Known /\ OrphansAreStopped
    BY DEF IInv
<1>0. c \in Threads \cup {Main} /\ c \notin Inputs /\ c \notin {Out, Stopper, Main}
    BY DEF Threads
<1>m. ASSUME NEW from \in ConnPc \ {"new", "listed", "exited"}, NEW to \in ConnPc \ {"new", "listed"}, Goto(c, from, to)
      PROVE  /\ PcShape' /\ pc[c] = from /\ pc'[c] = to
             /\ \A d \in Conns \ {c} : pc'[d] = pc[d]
             /\ pc'[Out] = pc[Out] /\ pc'[Stopper] = pc[Stopper] /\ pc'[Main] = pc[Main]
             /\ \A d \in Conns : (Started(d)' <=> Started(d)) /\ (Alive(d)' => Alive(d))
             /\ pc[Out] \in {"start", "refused"} => cur[Out] # c
    <2>1. to \in PcOf(c) /\ pc[c] = from
        BY <1>m DEF PcOf, Goto
    <2>2. /\ PcShape' /\ pc'[c] = to
          /\ \A d \in Conns \ {c} : pc'[d] = pc[d]
          /\ pc'[Out] = pc[Out] /\ pc'[Stopper] = pc[Stopper] /\ pc'[Main] = pc[Main]
        BY <1>0, <1>m, <2>1, Moves DEF Goto
    <2>3. \A d \in Conns : (Started(d)' <=> Started(d)) /\ (Alive(d)' => Alive(d))
        BY <2>1, <2>2, <1>m DEF Started, Alive
    <2>4. pc[Out] \in {"start", "refused"} => cur[Out] # c
        BY <2>1 DEF Holds
    <2>. QED
        BY <2>1, <2>2, <2>3, <2>4
<1>1. CASE processRequest(c) \/ processResponse(c) \/ processData(c)
    <2>1. PICK from \in ConnPc \ {"new", "listed", "exited"}, to \in ConnPc \ {"new", "listed"} : Goto(c, from, to)
        BY <1>1 DEF processRequest, processResponse, processData, ConnPc
    <2>2. /\ m_path' \in SUBSET Conns /\ \A d \in m_path' : d \in m_path \/ d = c
          /\ UNCHANGED <<listVars, queueVars, schedVars, stopped, cur, histVars>>
        BY <1>1 DEF processRequest, processResponse, processData, Shape
    <2>3. /\ in' \in [Conns -> Inputs \cup {None}]
          /\ \A d \in Conns \ {c} : in'[d] = in[d]
          /\ in'[c] \in {None, inlist}
          /\ in'[c] # None => pc'[c] = "serving"
        <3>1. CASE processRequest(c)
            <4>1. UNCHANGED in /\ pc[c] = "request"
                BY <3>1 DEF processRequest, Goto
            <4>. QED
                BY <4>1 DEF Known, Shape
        <3>2. CASE processResponse(c)
            <4>1. /\ pc[c] = "lookup"
                  /\ \/ UNCHANGED in /\ pc'[c] = "notify"
                     \/ in' = [in EXCEPT ![c] = inlist] /\ pc'[c] = "serving"
                BY <3>2, <1>0 DEF processResponse, Goto, Shape, PcShape
            <4>2. in[c] = None
                BY <4>1 DEF Known
            <4>. QED
                BY <4>1, <4>2 DEF Shape
        <3>3. CASE processData(c)
            <4>1. in' = [in EXCEPT ![c] = None] /\ pc'[c] = "notify"
                BY <3>3, <1>0 DEF processData, Goto, Shape, PcShape
            <4>. QED
                BY <4>1 DEF Shape
        <3>. QED
            BY <1>1, <3>1, <3>2, <3>3
    <2>4. /\ PcShape' /\ pc[c] = from /\ pc'[c] = to
          /\ \A d \in Conns \ {c} : pc'[d] = pc[d]
          /\ pc'[Out] = pc[Out] /\ pc'[Stopper] = pc[Stopper] /\ pc'[Main] = pc[Main]
          /\ \A d \in Conns : (Started(d)' <=> Started(d)) /\ (Alive(d)' => Alive(d))
          /\ pc[Out] \in {"start", "refused"} => cur[Out] # c
        BY <2>1, <1>m
    <2>5. Shape'
        BY <2>2, <2>3, <2>4 DEF Shape
    <2>6. Holds'
        BY <2>2, <2>4 DEF Holds
    <2>7. Known'
        <3>1. Started(c)
            BY <2>4 DEF Started
        <3>. QED
            BY <3>1, <2>2, <2>3, <2>4 DEF Known, Started
    <2>8. OrphansAreStopped'
        <3>1. in[c] = None \/ pc[c] = "serving"
            BY DEF Known
        <3>2. in[c] = None \/ in'[c] = None
            BY <1>1, <3>1 DEF processRequest, processResponse, processData, Goto, Shape
        <3>3. ASSUME NEW d \in m_list' \cap m_path', in'[d] \notin {None, inlist'} PROVE pc'[Main] = "delConns"
            <4>1. d # c /\ d \in m_list \cap m_path /\ in[d] \notin {None, inlist}
                BY <2>2, <2>3, <3>3 DEF Shape
            <4>. QED
                BY <4>1, <2>4 DEF OrphansAreStopped
        <3>. QED
            BY <3>3 DEF OrphansAreStopped
    <2>9. OnePlace' /\ ToStopIsRegistered' /\ Sleeper' /\ ToldIsJoined' /\ AllTold' /\ Ending' /\ Kept'
        BY <2>2, <2>4, Quiet
    <2>. QED
        BY <2>5, <2>6, <2>7, <2>8, <2>9 DEF IInv
<1>2. CASE connectionEnds(c)
    <2>1. /\ Goto(c, "tail", "exited") /\ hung' = hung \ {c} /\ late' = late \ {c}
          /\ UNCHANGED <<listVars, queueVars, schedVars, stopped, connVars, cur>>
        BY <1>2 DEF connectionEnds
    <2>2. /\ PcShape' /\ pc[c] = "tail" /\ pc'[c] = "exited"
          /\ \A d \in Conns \ {c} : pc'[d] = pc[d]
          /\ pc'[Out] = pc[Out] /\ pc'[Stopper] = pc[Stopper] /\ pc'[Main] = pc[Main]
          /\ \A d \in Conns : (Started(d)' <=> Started(d)) /\ (Alive(d)' => Alive(d))
          /\ pc[Out] \in {"start", "refused"} => cur[Out] # c
        BY <2>1, <1>m DEF ConnPc
    <2>3. Shape'
        BY <2>1, <2>2 DEF Shape
    <2>4. Holds'
        BY <2>1, <2>2 DEF Holds
    <2>5. Known' /\ OrphansAreStopped'
        BY <2>1, <2>2 DEF Known, Started, OrphansAreStopped
    <2>6. ~Alive(c)'
        BY <2>2 DEF Alive
    <2>7. OnePlace' /\ ToStopIsRegistered' /\ Sleeper' /\ ToldIsJoined' /\ AllTold' /\ Ending' /\ Kept'
        BY <2>1, <2>2, <2>6, Quiet
    <2>. QED
        BY <2>3, <2>4, <2>5, <2>7 DEF IInv
<1>3. CASE notifyStop(c)
    <2>1. /\ UNCHANGED <<inlist, schedVars, stopped, connVars, cur, histVars>>
          /\ \/ Goto(c, "notify", "tail") \/ Goto(c, "notify", "asked") \/ Goto(c, "asked", "tail")
          /\ conStop' \in Nat
        BY <1>3 DEF notifyStop, Shape
    <2>2. /\ PcShape' /\ pc[c] \in {"notify", "asked"} /\ pc'[c] \in {"asked", "tail"}
          /\ \A d \in Conns \ {c} : pc'[d] = pc[d]
          /\ pc'[Out] = pc[Out] /\ pc'[Stopper] = pc[Stopper] /\ pc'[Main] = pc[Main]
          /\ \A d \in Conns : (Started(d)' <=> Started(d)) /\ (Alive(d)' => Alive(d))
          /\ pc[Out] \in {"start", "refused"} => cur[Out] # c
        BY <2>1, <1>m DEF ConnPc
    <2>3. Holds'
        BY <2>1, <2>2 DEF Holds
    <2>4. CASE UNCHANGED <<queueVars, m_list>>
        <3>1. Shape'
            BY <2>1, <2>2, <2>4 DEF Shape
        <3>2. Known' /\ OrphansAreStopped'
            BY <2>1, <2>2, <2>4 DEF Known, Started, OrphansAreStopped
        <3>3. OnePlace' /\ ToStopIsRegistered' /\ Sleeper' /\ ToldIsJoined' /\ AllTold' /\ Ending' /\ Kept'
            BY <2>1, <2>2, <2>4, Quiet
        <3>. QED
            BY <2>3, <3>1, <3>2, <3>3 DEF IInv
    <2>5. CASE c \in m_list /\ addConnectThread(<<c>>) /\ m_list' = m_list \ {c}
        <3>1. <<c>> \in Seq(Conns) /\ Distinct(<<c>>) /\ \A x : In(<<c>>, x) <=> x \in {c}
            BY DEF In, Distinct
        <3>2. Queues({c})
            BY <2>5, <3>1, Queueing
        <3>3. Started(c)
            BY <2>2 DEF Started
        <3>4. OnePlace' /\ ToStopIsRegistered' /\ Sleeper'
            BY <2>1, <2>2, <2>5, <3>2, <3>3, QueuesKeeps DEF Over
        <3>5. Shape'
            BY <2>1, <2>2, <3>2 DEF Shape, Queues
        <3>6. Known' /\ OrphansAreStopped'
            BY <2>1, <2>2, <3>2, <3>3 DEF Known, Started, OrphansAreStopped, Queues
        <3>7. ToldIsJoined' /\ AllTold' /\ Ending' /\ Kept'
            BY <2>1, <2>2, Calm
        <3>. QED
            BY <2>3, <3>4, <3>5, <3>6, <3>7 DEF IInv
    <2>. QED
        BY <1>3, <2>4, <2>5 DEF notifyStop
<1>. QED
    BY <1>1, <1>2, <1>3 DEF ConnStep

\* An input reads, stops the connections of its path, and ends; its hang-up
\* detection stops a connection.
LEMMA InputIInv == ASSUME IInv, NEW i \in Inputs, InputStep(i) \/ doLoopAction(i) PROVE IInv'
<1>. USE DEF listVars, queueVars, schedVars, connVars, histVars
<1>. Shape /\ Holds /\ Known /\ OrphansAreStopped /\ ToldIsJoined /\ AllTold /\ Ending /\ Kept
    BY DEF IInv
<1>m. ASSUME NEW from, NEW to \in InputPc, Goto(i, from, to)
      PROVE  /\ PcShape'
             /\ \A d \in Conns : pc'[d] = pc[d] /\ (Started(d)' <=> Started(d)) /\ (Alive(d)' => Alive(d))
             /\ pc'[Out] = pc[Out] /\ pc'[Stopper] = pc[Stopper] /\ pc'[Main] = pc[Main]
    <2>0. i \in Threads \cup {Main} /\ i \notin Conns /\ i \notin {Out, Stopper, Main} /\ to \in PcOf(i)
        BY DEF Threads, PcOf
    <2>1. /\ PcShape' /\ \A d \in Conns : pc'[d] = pc[d]
          /\ pc'[Out] = pc[Out] /\ pc'[Stopper] = pc[Stopper] /\ pc'[Main] = pc[Main]
        BY <2>0, <1>m, Moves DEF Goto
    <2>. QED
        BY <2>1 DEF Started, Alive
<1>1. ASSUME NEW from, NEW to \in InputPc, Goto(i, from, to), conStop' \in Nat,
             UNCHANGED <<m_list, inlist, queueVars, schedVars, stopped, connVars, cur, histVars>>
      PROVE  IInv'
    <2>1. /\ PcShape'
          /\ \A d \in Conns : pc'[d] = pc[d] /\ (Started(d)' <=> Started(d)) /\ (Alive(d)' => Alive(d))
          /\ pc'[Out] = pc[Out] /\ pc'[Stopper] = pc[Stopper] /\ pc'[Main] = pc[Main]
        BY <1>1, <1>m
    <2>2. Shape' /\ Holds'
        BY <1>1, <2>1 DEF Shape, Holds
    <2>3. Known' /\ OrphansAreStopped'
        BY <1>1, <2>1 DEF Known, OrphansAreStopped
    <2>4. OnePlace' /\ ToStopIsRegistered' /\ Sleeper' /\ ToldIsJoined' /\ AllTold' /\ Ending' /\ Kept'
        BY <1>1, <2>1, Quiet
    <2>. QED
        BY <2>2, <2>3, <2>4 DEF IInv
<1>2. ASSUME Goto(i, "self", "read"), stopThreads,
             UNCHANGED <<conStop, inlist, schedVars, stopped, connVars, cur, histVars>>
      PROVE  IInv'
    <2>1. /\ PcShape'
          /\ \A d \in Conns : pc'[d] = pc[d] /\ (Started(d)' <=> Started(d)) /\ (Alive(d)' => Alive(d))
          /\ pc'[Out] = pc[Out] /\ pc'[Stopper] = pc[Stopper] /\ pc'[Main] = pc[Main]
        BY <1>2, <1>m DEF InputPc
    <2>2. /\ Queues(m_list \cap m_path) /\ m_list \cap m_path \in SUBSET m_list
          /\ \A c \in m_list \cap m_path : Started(c)
        BY <1>2, StopThreadsQueues DEF Known, Shape
    <2>3. OnePlace' /\ ToStopIsRegistered' /\ Sleeper'
        BY <1>2, <2>1, <2>2, QueuesKeeps DEF Over
    <2>4. Shape' /\ Holds'
        BY <1>2, <2>1, <2>2 DEF Shape, Holds, Queues
    <2>5. Known' /\ OrphansAreStopped'
        BY <1>2, <2>1, <2>2 DEF Known, OrphansAreStopped, Queues
    <2>6. ToldIsJoined' /\ AllTold' /\ Ending' /\ Kept'
        BY <1>2, <2>1, Calm
    <2>. QED
        BY <2>3, <2>4, <2>5, <2>6 DEF IInv
<1>3. ASSUME NEW c \in m_list \cap m_path, stopped' = stopped \cup {c}, hung' = hung \cup ({c} \ stopped),
             UNCHANGED <<pc, m_list, inlist, conStop, queueVars, schedVars, connVars, cur, late>>
      PROVE  IInv'
    <2>1. c \in Conns /\ Started(c) /\ c \in Threads /\ c # Stopper /\ c # Out
        BY DEF Shape, Known, Threads
    <2>2. Shape'
        BY <1>3, <2>1 DEF Shape, PcShape
    <2>3. Holds' /\ OrphansAreStopped'
        BY <1>3 DEF Holds, OrphansAreStopped
    <2>4. Known'
        BY <1>3, <2>1 DEF Known, Started
    <2>5. OnePlace' /\ ToStopIsRegistered' /\ Sleeper'
        BY <1>3, <2>1 DEF IInv, OnePlace, ToStopIsRegistered, Started, Sleeper, Over
    <2>6. ToldIsJoined'
        BY <1>3 DEF ToldIsJoined, Alive, MainJoins
    <2>7. AllTold' /\ Ending' /\ Kept'
        <3>1. AllTold'
            BY <1>3 DEF AllTold, Alive
        <3>2. Ending' /\ Kept'
            BY <1>3, <2>1 DEF Ending, Kept, Alive, MainJoins, Over
        <3>. QED
            BY <3>1, <3>2
    <2>. QED
        BY <2>2, <2>3, <2>4, <2>5, <2>6, <2>7 DEF IInv
<1>4. CASE inLoop(i)
    <2>1. \E from : Goto(i, from, "exited")
        BY <1>4 DEF inLoop
    <2>. QED
        BY <1>1, <1>4, <2>1 DEF inLoop, InputPc, Shape
<1>5. CASE finalClearing(i)
    <2>1. CASE Goto(i, "final", "self") /\ UNCHANGED <<m_list, queueVars>>
        BY <1>1, <1>5, <2>1 DEF finalClearing, InputPc, Shape
    <2>2. CASE Goto(i, "self", "exited") /\ UNCHANGED <<m_list, queueVars>>
        BY <1>1, <1>5, <2>2 DEF finalClearing, InputPc, Shape
    <2>3. CASE Goto(i, "self", "read") /\ stopThreads
        BY <1>2, <1>5, <2>3 DEF finalClearing
    <2>. QED
        BY <1>5, <2>1, <2>2, <2>3 DEF finalClearing
<1>6. CASE doLoopAction(i)
    <2>1. CASE Goto(i, "read", "final") /\ UNCHANGED <<conStop, stopped, hung>>
        BY <1>1, <1>6, <2>1 DEF doLoopAction, InputPc, Shape
    <2>2. CASE /\ UNCHANGED <<pc, conStop>>
               /\ \E c \in m_list \cap m_path : stopped' = stopped \cup {c} /\ hung' = hung \cup ({c} \ stopped)
        BY <1>3, <1>6, <2>2 DEF doLoopAction
    <2>3. CASE Goto(i, "read", "asked") /\ conStop > 0 /\ conStop' = conStop - 1 /\ UNCHANGED <<stopped, hung>>
        <3>1. conStop' \in Nat
            BY <2>3 DEF Shape
        <3>. QED
            BY <1>1, <1>6, <2>3, <3>1 DEF doLoopAction, InputPc
    <2>4. CASE Goto(i, "asked", "read") /\ conStop' = conStop + 1 /\ UNCHANGED <<stopped, hung>>
        <3>1. conStop' \in Nat
            BY <2>4 DEF Shape
        <3>. QED
            BY <1>1, <1>6, <2>4, <3>1 DEF doLoopAction, InputPc
    <2>. QED
        BY <1>6, <2>1, <2>2, <2>3, <2>4 DEF doLoopAction
<1>. QED
    BY <1>4, <1>5, <1>6 DEF InputStep

\* The stop thread moves: what holds of all the threads still does.
LEMMA StopperMoves ==
    ASSUME IInv, NEW from, NEW to \in StopperPc, Goto(Stopper, from, to)
    PROVE  /\ PcShape' /\ pc[Stopper] = from /\ pc'[Stopper] = to
           /\ \A d \in Conns : pc'[d] = pc[d] /\ (Started(d)' <=> Started(d)) /\ (Alive(d)' <=> Alive(d))
           /\ pc'[Out] = pc[Out] /\ pc'[Main] = pc[Main]
<1>0. /\ Shape /\ Stopper \in Threads \cup {Main} /\ Stopper \notin Conns /\ Stopper \notin {Out, Main}
      /\ to \in PcOf(Stopper)
    BY DEF IInv, Threads, PcOf
<1>1. /\ PcShape' /\ pc'[Stopper] = to /\ \A d \in Conns : pc'[d] = pc[d]
      /\ pc'[Out] = pc[Out] /\ pc'[Main] = pc[Main]
    BY <1>0, Moves DEF Goto
<1>. QED
    BY <1>1 DEF Started, Alive, Goto

\* What the stop thread holds, once it has let go of it.
LEMMA StopperLetsGo ==
    ASSUME IInv, Hold(Stopper, None)
    PROVE  /\ cur' \in [{Out, Stopper, Main} -> Threads \cup {None}]
           /\ cur'[Stopper] = None /\ cur'[Out] = cur[Out] /\ cur'[Main] = cur[Main]
BY DEF Hold, IInv, Shape

\* A step of the stop thread that leaves the lists, the queue and the triggers
\* alone: it keeps the connection it holds, or lets go of it.
LEMMA StopperQuiet ==
    ASSUME IInv, NEW from \in StopperPc \ {"exited"}, NEW to \in StopperPc, Goto(Stopper, from, to),
           UNCHANGED <<listVars, m_data, m_threads, copy, stopped, connVars, histVars>>,
           schedStop' \in Nat, m_wait' \in Events, missed' = missed, Sleeper',
           \/ UNCHANGED cur /\ (to \in Handling <=> from \in Handling)
           \/ Hold(Stopper, None) /\ to \notin Handling,
           from = "join" => to = "erase",
           to = "erase" => \/ ~Alive(cur[Stopper]) \/ cur[Stopper] \in hung
                           \/ MainJoins(cur[Stopper])
    PROVE  IInv'
<1>. USE DEF listVars, connVars, histVars
<1>. Shape /\ Holds /\ Known /\ OnePlace /\ ToStopIsRegistered /\ ToldIsJoined /\ AllTold /\ Ending /\ Kept
     /\ OrphansAreStopped
    BY DEF IInv
<1>1. /\ PcShape' /\ pc[Stopper] = from /\ pc'[Stopper] = to
      /\ \A d \in Conns : pc'[d] = pc[d] /\ (Started(d)' <=> Started(d)) /\ (Alive(d)' <=> Alive(d))
      /\ pc'[Out] = pc[Out] /\ pc'[Main] = pc[Main]
    BY StopperMoves
<1>2. /\ cur' \in [{Out, Stopper, Main} -> Threads \cup {None}]
      /\ cur'[Out] = cur[Out] /\ cur'[Main] = cur[Main]
      /\ cur'[Stopper] = IF to \in Handling THEN cur[Stopper] ELSE None
    <2>1. CASE UNCHANGED cur /\ (to \in Handling <=> from \in Handling)
        BY <1>1, <2>1 DEF Shape, Holds
    <2>2. CASE Hold(Stopper, None) /\ to \notin Handling
        BY <2>2, StopperLetsGo
    <2>. QED
        BY <2>1, <2>2
<1>3. cur[Stopper] = None \/ cur[Stopper] \in Conns
    BY DEF Holds
<1>4. None \notin m_list /\ ~In(m_data, None) /\ None \notin Conns
    BY DEF Shape, In
<1>5. to \in Handling => from \in Handling
    OBVIOUS
<1>6. Shape'
    BY <1>1, <1>2 DEF Shape
<1>7. Holds'
    BY <1>1, <1>2, <1>5 DEF Holds
<1>8. Known' /\ OrphansAreStopped'
    BY <1>1, <1>2, <1>4 DEF Known, OrphansAreStopped
<1>9. OnePlace'
    BY <1>2, <1>4 DEF OnePlace
<1>10. ToStopIsRegistered'
    BY <1>1, <1>2, <1>4 DEF ToStopIsRegistered, Over
<1>11. ToldIsJoined'
    <2>1. ASSUME NEW c \in Conns, Alive(c)', c \in stopped'
          PROVE  c \in hung' \/ (cur'[Stopper] = c /\ pc'[Stopper] = "join") \/ MainJoins(c)'
        <3>1. c \in hung \/ (cur[Stopper] = c /\ pc[Stopper] = "join") \/ MainJoins(c)
            BY <1>1, <2>1 DEF ToldIsJoined
        <3>2. ASSUME cur[Stopper] = c, pc[Stopper] = "join" PROVE c \in hung \/ MainJoins(c)
            BY <1>1, <2>1, <3>2
        <3>. QED
            BY <1>1, <1>2, <3>1, <3>2 DEF MainJoins
    <2>2. (pc[Stopper] = "erase" => ~Alive(cur[Stopper]) \/ cur[Stopper] \in hung \/ MainJoins(cur[Stopper]))'
        <3>. SUFFICES ASSUME to = "erase"
                      PROVE  (~Alive(cur[Stopper]) \/ cur[Stopper] \in hung \/ MainJoins(cur[Stopper]))'
            BY <1>1
        <3>1. cur'[Stopper] = cur[Stopper] /\ cur[Stopper] \in Conns
            BY <1>1, <1>2, <1>5 DEF Holds, Handling
        <3>. QED
            BY <1>1, <1>2, <3>1 DEF MainJoins, Alive
    <2>. QED
        BY <2>1, <2>2 DEF ToldIsJoined
<1>12. AllTold'
    BY <1>1 DEF AllTold
<1>13. Ending'
    BY <1>1, <1>2 DEF Ending, MainJoins, Over
<1>14. Kept'
    BY <1>1, <1>2 DEF Kept, MainJoins, Over
<1>. QED
    BY <1>6, <1>7, <1>8, <1>9, <1>10, <1>11, <1>12, <1>13, <1>14 DEF IInv

\* The loop of the stop thread: its trigger, the wait on the event, the queue.
LEMMA StopThreadLoopIInv == ASSUME IInv, stopThreadLoop PROVE IInv'
<1>. USE DEF listVars, queueVars, schedVars, connVars, histVars
<1>. Shape /\ Holds /\ Known /\ OnePlace /\ ToStopIsRegistered /\ Sleeper /\ ToldIsJoined /\ AllTold /\ Ending /\ Kept
     /\ OrphansAreStopped
    BY DEF IInv
<1>0. UNCHANGED <<listVars, schedVars, stopped, connVars, histVars>>
    BY DEF stopThreadLoop
<1>1. ASSUME NEW from \in {"check", "wait", "asleep", "drain"}, NEW to \in {"exited", "wait", "asleep", "drain", "check"},
             Goto(Stopper, from, to), UNCHANGED <<m_data, missed, cur>>, m_wait' \in Events, Sleeper'
      PROVE  IInv'
    <2>1. from \in StopperPc \ {"exited"} /\ to \in StopperPc /\ from \notin Handling /\ to \notin Handling
        BY DEF StopperPc, Handling
    <2>2. schedStop' \in Nat
        BY <1>0 DEF Shape
    <2>. QED
        BY <1>0, <1>1, <2>1, <2>2, StopperQuiet DEF Handling
<1>2. CASE Stopper \in stopped /\ Goto(Stopper, "check", "exited") /\ UNCHANGED <<queueVars, cur>>
    <2>1. pc[Stopper] = "check" /\ pc'[Stopper] = "exited"
        BY <1>2, StopperMoves DEF StopperPc
    <2>2. Sleeper'
        BY <1>0, <1>2, <2>1 DEF Sleeper
    <2>. QED
        BY <1>1, <1>2, <2>2 DEF Shape
<1>3. CASE Stopper \notin stopped /\ Goto(Stopper, "check", "wait") /\ UNCHANGED <<queueVars, cur>>
    <2>1. pc[Stopper] = "check" /\ pc'[Stopper] = "wait"
        BY <1>3, StopperMoves DEF StopperPc
    <2>2. Sleeper'
        BY <1>0, <1>3, <2>1 DEF Sleeper
    <2>. QED
        BY <1>1, <1>3, <2>2 DEF Shape
<1>4. CASE Goto(Stopper, "wait", "asleep") /\ m_wait' = Block(m_wait) /\ UNCHANGED <<m_data, missed, cur>>
    <2>1. pc[Stopper] = "wait" /\ pc'[Stopper] = "asleep"
        BY <1>4, StopperMoves DEF StopperPc
    <2>2. m_wait' \in Events /\ m_wait'.m_loop
        BY <1>4 DEF Block, Events, Shape
    <2>3. Sleeper'
        BY <1>0, <1>4, <2>1, <2>2 DEF Sleeper
    <2>. QED
        BY <1>1, <1>4, <2>2, <2>3
<1>5. CASE /\ Goto(Stopper, "asleep", "drain") /\ ~m_wait.blocked
           /\ m_wait' = Leave(m_wait) /\ UNCHANGED <<m_data, missed, cur>>
    <2>1. pc[Stopper] = "asleep" /\ pc'[Stopper] = "drain"
        BY <1>5, StopperMoves DEF StopperPc
    <2>2. m_wait' \in Events /\ ~m_wait'.m_loop /\ ~m_wait'.blocked
        BY <1>5 DEF Leave, Events, Shape
    <2>3. Sleeper'
        BY <1>0, <1>5, <2>1, <2>2 DEF Sleeper
    <2>. QED
        BY <1>1, <1>5, <2>2, <2>3
<1>6. CASE /\ m_data = <<>> \/ Stopper \in stopped
           /\ Goto(Stopper, "drain", "check") /\ UNCHANGED <<queueVars, cur>>
    <2>1. pc[Stopper] = "drain" /\ pc'[Stopper] = "check"
        BY <1>6, StopperMoves DEF StopperPc
    <2>2. Sleeper'
        BY <1>0, <1>6, <2>1, EmptyIn DEF Sleeper
    <2>. QED
        BY <1>1, <1>6, <2>2 DEF Shape
<1>7. CASE /\ m_data # <<>> /\ Stopper \notin stopped /\ Goto(Stopper, "drain", "info")
           /\ Hold(Stopper, Head(m_data)) /\ m_data' = Tail(m_data)
           /\ missed' = missed \ {Head(m_data)} /\ UNCHANGED m_wait
    <2>1. /\ PcShape' /\ pc[Stopper] = "drain" /\ pc'[Stopper] = "info"
          /\ \A d \in Conns : pc'[d] = pc[d] /\ (Started(d)' <=> Started(d)) /\ (Alive(d)' <=> Alive(d))
          /\ pc'[Out] = pc[Out] /\ pc'[Main] = pc[Main]
        BY <1>7, StopperMoves DEF StopperPc, Handling
    <2>2. PICK c \in Conns : c = Head(m_data)
        BY <1>7, HeadTail DEF Shape
    <2>3. /\ m_data' \in Seq(Conns) /\ Distinct(m_data') /\ ~In(m_data', c)
          /\ \A x : In(m_data, x) <=> x = c \/ In(m_data', x)
        BY <1>7, <2>2, HeadTail DEF Shape, OnePlace
    <2>4. /\ cur' \in [{Out, Stopper, Main} -> Threads \cup {None}]
          /\ cur'[Stopper] = c /\ cur'[Out] = cur[Out] /\ cur'[Main] = cur[Main] /\ cur[Stopper] = None
        BY <1>7, <2>1, <2>2 DEF Hold, Shape, Holds, Threads, Handling
    <2>5. Shape' /\ Holds'
        BY <1>0, <1>7, <2>1, <2>2, <2>3, <2>4 DEF Shape, Holds, Handling
    <2>6. Known' /\ OrphansAreStopped'
        BY <1>0, <2>1, <2>3, <2>4 DEF Known, OrphansAreStopped
    <2>7. OnePlace' /\ ToStopIsRegistered'
        BY <1>0, <2>1, <2>3, <2>4 DEF OnePlace, ToStopIsRegistered, Shape, Over
    <2>8. Sleeper'
        BY <1>0, <1>7, <2>1 DEF Sleeper
    <2>9. ToldIsJoined'
        BY <1>0, <2>1, <2>4 DEF ToldIsJoined, MainJoins
    <2>10. AllTold' /\ Ending' /\ Kept'
        BY <1>0, <2>1, <2>4 DEF AllTold, Ending, Kept, MainJoins, Over
    <2>. QED
        BY <2>5, <2>6, <2>7, <2>8, <2>9, <2>10 DEF IInv
<1>. QED
    BY <1>2, <1>3, <1>4, <1>5, <1>6, <1>7 DEF stopThreadLoop

\* A step of the stop thread away from its wait leaves the event alone.
LEMMA SleeperAway ==
    ASSUME IInv, pc[Stopper] \in Handling, pc'[Stopper] \in Handling \cup {"drain"}, UNCHANGED m_wait
    PROVE  Sleeper'
BY DEF IInv, Sleeper, Handling

\* The stop thread asks the scheduler for a connection, which is registered.
LEMMA StopThreadIInv == ASSUME IInv, stopThread PROVE IInv'
<1>. USE DEF listVars, queueVars, schedVars, connVars, histVars
<1>. Shape /\ Holds /\ ToStopIsRegistered /\ Ending
    BY DEF IInv
<1>0. UNCHANGED <<listVars, queueVars, m_threads, copy, stopped, connVars, histVars>>
    BY DEF stopThread
<1>1. ASSUME NEW from \in {"info", "ask", "getInfo"}, NEW to \in {"getInfo", "ask", "tell", "drain"}, Goto(Stopper, from, to),
             schedStop' \in Nat, (UNCHANGED cur /\ to # "drain") \/ (Hold(Stopper, None) /\ to = "drain")
      PROVE  IInv'
    <2>1. from \in StopperPc \ {"exited"} /\ to \in StopperPc /\ from \in Handling
        BY DEF StopperPc, Handling
    <2>2. pc[Stopper] = from /\ pc'[Stopper] = to
        BY <1>1, <2>1, StopperMoves
    <2>3. Sleeper' /\ m_wait' \in Events
        BY <1>0, <2>1, <2>2, SleeperAway DEF Handling, Shape
    <2>. QED
        BY <1>0, <1>1, <2>1, <2>3, StopperQuiet DEF Handling
<1>2. CASE Goto(Stopper, "info", "getInfo") /\ schedStop = 0 /\ UNCHANGED <<schedStop, cur>>
    BY <1>1, <1>2 DEF Shape
<1>3. CASE /\ Goto(Stopper, "info", "ask") /\ schedStop > 0 /\ schedStop' = schedStop - 1
           /\ UNCHANGED cur
    <2>1. schedStop' \in Nat
        BY <1>3 DEF Shape
    <2>. QED
        BY <1>1, <1>3, <2>1
<1>4. CASE Goto(Stopper, "ask", "drain") /\ schedStop' = schedStop + 1 /\ Hold(Stopper, None)
    <2>1. schedStop' \in Nat
        BY <1>4 DEF Shape
    <2>. QED
        BY <1>1, <1>4, <2>1
<1>5. CASE Registered(cur[Stopper]) /\ Goto(Stopper, "getInfo", "tell") /\ UNCHANGED <<schedStop, cur>>
    BY <1>1, <1>5 DEF Shape
<1>6. CASE ~Registered(cur[Stopper]) /\ Goto(Stopper, "getInfo", "check")
    <2>1. pc[Stopper] = "getInfo"
        BY <1>6 DEF Goto
    <2>2. cur[Stopper] \in Conns /\ ~Over
        BY <2>1 DEF Holds, Handling, Ending
    <2>. QED
        BY <1>6, <2>2 DEF ToStopIsRegistered, Registered, In
<1>. QED
    BY <1>2, <1>3, <1>4, <1>5, <1>6 DEF stopThread

\* It tells the connection to stop, and waits for its end.
LEMMA StopThreadByInfoIInv == ASSUME IInv, stopThreadByInfo PROVE IInv'
<1>. USE DEF listVars, queueVars, schedVars, connVars, histVars
<1>. Shape /\ Holds /\ Known /\ OnePlace /\ ToStopIsRegistered /\ Sleeper /\ ToldIsJoined /\ AllTold /\ Ending /\ Kept
     /\ OrphansAreStopped
    BY DEF IInv
<1>0. UNCHANGED <<listVars, queueVars, schedVars, connVars, cur, late>>
    BY DEF stopThreadByInfo
<1>1. PICK c \in Conns : c = cur[Stopper]
    BY DEF stopThreadByInfo, Goto, Holds, Handling
<1>2. ASSUME NEW from \in {"tell", "join"}, NEW to \in {"stop", "erase"}, Goto(Stopper, from, to),
             UNCHANGED <<stopped, hung>>, from = "join" => to = "erase",
             to = "erase" => ~Alive(c) \/ c \in hung \/ MainJoins(c)
      PROVE  IInv'
    <2>1. /\ from \in StopperPc \ {"exited"} /\ to \in StopperPc /\ from \in Handling /\ to \in Handling
          /\ schedStop' \in Nat
        BY <1>0 DEF StopperPc, Handling, Shape
    <2>2. pc[Stopper] = from /\ pc'[Stopper] = to
        BY <1>2, <2>1, StopperMoves
    <2>3. Sleeper' /\ m_wait' \in Events
        BY <1>0, <2>1, <2>2, SleeperAway DEF Shape
    <2>. QED
        BY <1>0, <1>1, <1>2, <2>1, <2>3, StopperQuiet
<1>3. CASE c \in stopped /\ Goto(Stopper, "tell", "erase") /\ UNCHANGED <<stopped, hung>>
    <2>1. Alive(c) => c \in hung \/ MainJoins(c)
        BY <1>3 DEF ToldIsJoined, Goto
    <2>. QED
        BY <1>2, <1>3, <2>1
<1>4. CASE c \notin stopped /\ Goto(Stopper, "tell", "stop") /\ UNCHANGED <<stopped, hung>>
    BY <1>2, <1>4
<1>5. CASE Goto(Stopper, "stop", "join") /\ stopped' = stopped \cup {c} /\ hung' = hung \ {c}
    <2>1. /\ PcShape' /\ pc[Stopper] = "stop" /\ pc'[Stopper] = "join"
          /\ \A d \in Conns : pc'[d] = pc[d] /\ (Started(d)' <=> Started(d)) /\ (Alive(d)' <=> Alive(d))
          /\ pc'[Out] = pc[Out] /\ pc'[Main] = pc[Main]
        BY <1>5, StopperMoves DEF StopperPc, Handling
    <2>2. /\ c \in Threads /\ c # Stopper /\ c # Out /\ Started(c)
          /\ ~Over /\ In(m_threads, c)
        BY <1>1, <2>1 DEF Known, Ending, ToStopIsRegistered, Threads
    <2>3. Shape' /\ Holds'
        BY <1>0, <1>1, <1>5, <2>1, <2>2 DEF Shape, Holds, Handling
    <2>4. Known' /\ OrphansAreStopped'
        BY <1>0, <1>5, <2>1, <2>2 DEF Known, OrphansAreStopped
    <2>5. OnePlace' /\ ToStopIsRegistered' /\ Sleeper'
        BY <1>0, <1>5, <2>1, <2>2 DEF OnePlace, ToStopIsRegistered, Sleeper, Over
    <2>6. ToldIsJoined'
        BY <1>0, <1>1, <1>5, <2>1 DEF ToldIsJoined, MainJoins
    <2>7. AllTold'
        BY <1>0, <1>5, <2>1 DEF AllTold
    <2>8. Ending'
        BY <1>0, <1>5, <2>1, <2>2 DEF Ending, MainJoins, Over
    <2>9. Kept'
        BY <1>0, <1>5, <2>1, <2>2 DEF Kept, MainJoins, Over
    <2>. QED
        BY <2>3, <2>4, <2>5, <2>6, <2>7, <2>8, <2>9 DEF IInv
<1>6. CASE /\ Goto(Stopper, "join", "erase") /\ UNCHANGED <<stopped, hung>>
           /\ pc[c] = "exited" \/ MainJoins(c)
    BY <1>2, <1>6 DEF Alive
<1>. QED
    BY <1>1, <1>3, <1>4, <1>5, <1>6 DEF stopThreadByInfo, MainJoins

\* The entry of the connection leaves the list.
LEMMA EraseThreadIInv == ASSUME IInv, eraseThread PROVE IInv'
<1>. USE DEF listVars, queueVars, schedVars, connVars, histVars
<1>. Shape /\ Holds /\ Known /\ OnePlace /\ ToStopIsRegistered /\ Sleeper /\ ToldIsJoined /\ AllTold /\ Ending /\ Kept
     /\ OrphansAreStopped
    BY DEF IInv
<1>0. /\ UNCHANGED <<listVars, queueVars, schedStop, copy, stopped, connVars, histVars>>
      /\ Goto(Stopper, "erase", "drain") /\ Hold(Stopper, None) /\ m_threads' = Without(m_threads, cur[Stopper])
    BY DEF eraseThread
<1>1. /\ PcShape' /\ pc[Stopper] = "erase" /\ pc'[Stopper] = "drain"
      /\ \A d \in Conns : pc'[d] = pc[d] /\ (Started(d)' <=> Started(d)) /\ (Alive(d)' <=> Alive(d))
      /\ pc'[Out] = pc[Out] /\ pc'[Main] = pc[Main]
    BY <1>0, StopperMoves DEF StopperPc
<1>2. PICK c \in Conns : c = cur[Stopper]
    BY <1>1 DEF Holds, Handling
<1>3. /\ cur' \in [{Out, Stopper, Main} -> Threads \cup {None}]
      /\ cur'[Stopper] = None /\ cur'[Out] = cur[Out] /\ cur'[Main] = cur[Main]
    BY <1>0, StopperLetsGo
<1>4. /\ m_threads' \in Seq(Threads)
      /\ \A x : In(m_threads', x) => In(m_threads, x)
      /\ \A x : In(m_threads, x) /\ x # c => In(m_threads', x)
    BY <1>0, <1>2, WithoutIn DEF Shape
<1>5. (Alive(c) => c \in hung \/ MainJoins(c)) /\ ~Over /\ c # Out /\ c # Stopper
    BY <1>1, <1>2 DEF ToldIsJoined, Ending
<1>6. None \notin m_list /\ ~In(m_data, None) /\ None \notin Conns
    BY DEF Shape, In
<1>7. Shape' /\ Holds'
    BY <1>0, <1>1, <1>3, <1>4 DEF Shape, Holds, Handling
<1>8. Known' /\ OrphansAreStopped'
    BY <1>0, <1>1, <1>3, <1>4, <1>6 DEF Known, OrphansAreStopped
<1>9. OnePlace' /\ Sleeper'
    BY <1>0, <1>1, <1>3, <1>6 DEF OnePlace, Sleeper
<1>10. ToStopIsRegistered'
    BY <1>0, <1>1, <1>2, <1>3, <1>4, <1>6 DEF ToStopIsRegistered, OnePlace, Over
<1>11. ToldIsJoined'
    BY <1>0, <1>1, <1>3 DEF ToldIsJoined, MainJoins
<1>12. AllTold'
    BY <1>0, <1>1, <1>4 DEF AllTold
<1>13. Ending'
    BY <1>0, <1>1, <1>3, <1>4, <1>5 DEF Ending, MainJoins, Over
<1>14. Kept'
    BY <1>0, <1>1, <1>3, <1>4, <1>5 DEF Kept, MainJoins, Over
<1>. QED
    BY <1>7, <1>8, <1>9, <1>10, <1>11, <1>12, <1>13, <1>14 DEF IInv

\* The main thread moves.
LEMMA MainMoves ==
    ASSUME IInv, NEW from, NEW to \in MainPc, Goto(Main, from, to)
    PROVE  /\ PcShape' /\ pc[Main] = from /\ pc'[Main] = to
           /\ \A d \in Conns : pc'[d] = pc[d] /\ (Started(d)' <=> Started(d)) /\ (Alive(d)' <=> Alive(d))
           /\ pc'[Out] = pc[Out] /\ pc'[Stopper] = pc[Stopper]
<1>0. /\ Shape /\ Main \in Threads \cup {Main} /\ Main \notin Conns /\ Main \notin Inputs /\ Main \notin {Out, Stopper}
      /\ to \in PcOf(Main)
    BY DEF IInv, PcOf
<1>1. /\ PcShape' /\ pc'[Main] = to /\ \A d \in Conns : pc'[d] = pc[d]
      /\ pc'[Out] = pc[Out] /\ pc'[Stopper] = pc[Stopper]
    BY <1>0, Moves DEF Goto
<1>. QED
    BY <1>1 DEF Started, Alive, Goto

\* What the main thread holds, once it has taken x.
LEMMA MainHolds ==
    ASSUME IInv, NEW x \in Threads \cup {None}, Hold(Main, x)
    PROVE  /\ cur' \in [{Out, Stopper, Main} -> Threads \cup {None}]
           /\ cur'[Main] = x /\ cur'[Out] = cur[Out] /\ cur'[Stopper] = cur[Stopper]
BY DEF Hold, IInv, Shape

\* A route is added: a new input.
LEMMA AddInfoIInv == ASSUME IInv, addInfo PROVE IInv'
<1>. USE DEF listVars, queueVars, schedVars, connVars, histVars
<1>. Shape /\ Holds /\ Known /\ OnePlace /\ ToStopIsRegistered /\ Sleeper /\ ToldIsJoined /\ AllTold /\ Ending /\ Kept
     /\ OrphansAreStopped
    BY DEF IInv
<1>0. /\ UNCHANGED <<m_list, conStop, queueVars, schedStop, copy, stopped, connVars, cur, histVars>>
      /\ pc[Main] = "idle" /\ inlist = None
    BY DEF addInfo
<1>1. PICK i \in Inputs : pc' = [pc EXCEPT ![i] = "read"] /\ inlist' = i /\ m_threads' = <<i>> \o m_threads
    BY DEF addInfo
<1>2. i \in Threads \cup {Main} /\ i \notin Conns /\ i \notin {Out, Stopper, Main} /\ "read" \in PcOf(i)
    BY DEF Threads, PcOf, InputPc
<1>3. /\ PcShape' /\ \A d \in Conns : pc'[d] = pc[d]
      /\ pc'[Out] = pc[Out] /\ pc'[Stopper] = pc[Stopper] /\ pc'[Main] = pc[Main]
    BY <1>1, <1>2, Moves
<1>4. m_threads' \in Seq(Threads) /\ \A x : In(m_threads', x) <=> x = i \/ In(m_threads, x)
    BY <1>1, PrependIn DEF Shape, Threads
<1>5. Shape' /\ Holds'
    BY <1>0, <1>1, <1>3, <1>4 DEF Shape, Holds
<1>6. Known' /\ OrphansAreStopped'
    BY <1>0, <1>1, <1>2, <1>3, <1>4 DEF Known, Started, OrphansAreStopped
<1>7. OnePlace' /\ ToStopIsRegistered' /\ Sleeper'
    BY <1>0, <1>3, <1>4 DEF OnePlace, ToStopIsRegistered, Started, Sleeper, Over
<1>8. ToldIsJoined'
    BY <1>0, <1>3, ToldKept DEF Alive
<1>9. AllTold' /\ Ending' /\ Kept'
    BY <1>0, <1>3, <1>4 DEF AllTold, Ending, Kept, Alive, MainJoins, Over
<1>. QED
    BY <1>5, <1>6, <1>7, <1>8, <1>9 DEF IInv

\* A route is deleted: its input is joined and unlisted, its connections queued.
LEMMA DelInfoIInv == ASSUME IInv, delInfo PROVE IInv'
<1>. USE DEF listVars, queueVars, schedVars, connVars, histVars
<1>. Shape /\ Holds /\ Known /\ OnePlace /\ ToStopIsRegistered /\ Sleeper /\ ToldIsJoined /\ AllTold /\ Ending /\ Kept
     /\ OrphansAreStopped
    BY DEF IInv
<1>0. UNCHANGED <<conStop, schedStop, copy, connVars, histVars>>
    BY DEF delInfo
<1>1. CASE /\ inlist # None /\ Goto(Main, "idle", "delJoin") /\ Hold(Main, inlist) /\ stopOf(inlist)
           /\ UNCHANGED <<m_list, inlist, m_data, m_threads>>
    <2>1. /\ PcShape' /\ pc[Main] = "idle" /\ pc'[Main] = "delJoin"
          /\ \A d \in Conns : pc'[d] = pc[d] /\ (Started(d)' <=> Started(d)) /\ (Alive(d)' <=> Alive(d))
          /\ pc'[Out] = pc[Out] /\ pc'[Stopper] = pc[Stopper]
        BY <1>1, MainMoves DEF MainPc
    <2>2. inlist \in Inputs /\ inlist \in Threads /\ inlist \notin Conns /\ inlist # Stopper /\ inlist # Out
        BY <1>1 DEF Shape, Threads
    <2>3. /\ cur' \in [{Out, Stopper, Main} -> Threads \cup {None}]
          /\ cur'[Main] = inlist /\ cur'[Out] = cur[Out] /\ cur'[Stopper] = cur[Stopper]
        BY <1>1, <2>2, MainHolds
    <2>4. stopped' = stopped \cup {inlist} /\ m_wait' = m_wait /\ missed' = missed
        BY <1>1, <2>2 DEF stopOf
    <2>5. Shape' /\ Holds'
        BY <1>0, <1>1, <2>1, <2>2, <2>3, <2>4 DEF Shape, Holds
    <2>6. Known' /\ OrphansAreStopped'
        BY <1>0, <1>1, <2>1, <2>2, <2>3, <2>4 DEF Known, OrphansAreStopped
    <2>7. OnePlace' /\ ToStopIsRegistered' /\ Sleeper'
        BY <1>0, <1>1, <2>1, <2>2, <2>3, <2>4 DEF OnePlace, ToStopIsRegistered, Sleeper, Over
    <2>8. ToldIsJoined'
        BY <1>0, <1>1, <2>1, <2>2, <2>3, <2>4, ToldKept
    <2>9. AllTold' /\ Ending' /\ Kept'
        BY <1>0, <1>1, <2>1, <2>2, <2>3, <2>4 DEF AllTold, Ending, Kept, MainJoins, Over
    <2>. QED
        BY <2>5, <2>6, <2>7, <2>8, <2>9 DEF IInv
<1>2. CASE /\ Goto(Main, "delJoin", "delConns") /\ m_threads' = Without(m_threads, cur[Main]) /\ inlist' = None
           /\ UNCHANGED <<m_list, queueVars, stopped, cur>>
    <2>1. /\ PcShape' /\ pc[Main] = "delJoin" /\ pc'[Main] = "delConns"
          /\ \A d \in Conns : pc'[d] = pc[d] /\ (Started(d)' <=> Started(d)) /\ (Alive(d)' <=> Alive(d))
          /\ pc'[Out] = pc[Out] /\ pc'[Stopper] = pc[Stopper]
        BY <1>2, MainMoves DEF MainPc
    <2>2. cur[Main] \notin Conns \cup {Out, Stopper}
        BY <2>1 DEF Holds
    <2>3. /\ m_threads' \in Seq(Threads)
          /\ \A x : In(m_threads', x) => In(m_threads, x)
          /\ \A x : In(m_threads, x) /\ x # cur[Main] => In(m_threads', x)
        BY <1>2, WithoutIn DEF Shape
    <2>4. \A t \in Conns \cup {Out, Stopper} : In(m_threads', t) <=> In(m_threads, t)
        BY <2>2, <2>3
    <2>5. Shape' /\ Holds'
        BY <1>0, <1>2, <2>1, <2>3 DEF Shape, Holds
    <2>6. Known' /\ OrphansAreStopped'
        BY <1>0, <1>2, <2>1, <2>4 DEF Known, OrphansAreStopped
    <2>7. OnePlace' /\ ToStopIsRegistered' /\ Sleeper'
        BY <1>0, <1>2, <2>1, <2>4 DEF OnePlace, ToStopIsRegistered, Sleeper, Over
    <2>8. ToldIsJoined'
        BY <1>0, <1>2, <2>1, <2>4, ToldKept
    <2>9. AllTold' /\ Ending' /\ Kept'
        BY <1>0, <1>2, <2>1, <2>4 DEF AllTold, Ending, Kept, MainJoins, Over
    <2>. QED
        BY <2>5, <2>6, <2>7, <2>8, <2>9 DEF IInv
<1>3. CASE Goto(Main, "delConns", "idle") /\ stopThreads /\ Hold(Main, None) /\ UNCHANGED <<inlist, m_threads, stopped>>
    <2>1. /\ PcShape' /\ pc[Main] = "delConns" /\ pc'[Main] = "idle"
          /\ \A d \in Conns : pc'[d] = pc[d] /\ (Started(d)' <=> Started(d)) /\ (Alive(d)' <=> Alive(d))
          /\ pc'[Out] = pc[Out] /\ pc'[Stopper] = pc[Stopper]
        BY <1>3, MainMoves DEF MainPc
    <2>2. /\ cur' \in [{Out, Stopper, Main} -> Threads \cup {None}]
          /\ cur'[Main] = None /\ cur'[Out] = cur[Out] /\ cur'[Stopper] = cur[Stopper]
        BY <1>3, MainHolds
    <2>3. /\ Queues(m_list \cap m_path) /\ m_list \cap m_path \in SUBSET m_list
          /\ \A c \in m_list \cap m_path : Started(c)
        BY <1>3, StopThreadsQueues DEF Known, Shape
    <2>4. OnePlace' /\ ToStopIsRegistered' /\ Sleeper'
        BY <1>3, <2>1, <2>2, <2>3, QueuesKeeps DEF Over
    <2>5. Shape' /\ Holds'
        BY <1>0, <1>3, <2>1, <2>2, <2>3 DEF Shape, Holds, Queues
    <2>6. Known'
        BY <1>0, <1>3, <2>1, <2>2, <2>3 DEF Known, Queues
    <2>7. OrphansAreStopped'
        BY <1>0, <2>3 DEF OrphansAreStopped, Queues, Known, Shape
    <2>8. ToldIsJoined'
        BY <1>0, <1>3, <2>1, <2>2, ToldKept
    <2>9. AllTold' /\ Ending' /\ Kept'
        BY <1>0, <1>3, <2>1, <2>2 DEF AllTold, Ending, Kept, MainJoins, Over
    <2>. QED
        BY <2>4, <2>5, <2>6, <2>7, <2>8, <2>9 DEF IInv
<1>. QED
    BY <1>1, <1>2, <1>3 DEF delInfo

\* The end: the triggers, a copy of the registered threads, and, when all of them
\* have been told and joined, an empty list.
LEMMA StopIInv == ASSUME IInv, stop PROVE IInv'
<1>. USE DEF listVars, queueVars, schedVars, connVars, histVars
<1>. Shape /\ Holds /\ Known /\ OnePlace /\ ToStopIsRegistered /\ Sleeper /\ ToldIsJoined /\ AllTold /\ Ending /\ Kept
     /\ OrphansAreStopped
    BY DEF IInv
<1>0. UNCHANGED <<m_list, inlist, queueVars, stopped, connVars, cur, histVars>>
    BY DEF stop
<1>1. ASSUME NEW from \in {"idle", "schedStop"}, NEW to \in {"schedStop", "schedCopy"}, Goto(Main, from, to),
             conStop' \in Nat, schedStop' \in Nat, UNCHANGED <<m_threads, copy>>
      PROVE  IInv'
    <2>1. /\ PcShape' /\ pc[Main] = from /\ pc'[Main] = to
          /\ \A d \in Conns : pc'[d] = pc[d] /\ (Started(d)' <=> Started(d)) /\ (Alive(d)' <=> Alive(d))
          /\ pc'[Out] = pc[Out] /\ pc'[Stopper] = pc[Stopper]
        BY <1>1, MainMoves DEF MainPc
    <2>2. Shape' /\ Holds'
        BY <1>0, <1>1, <2>1 DEF Shape, Holds
    <2>3. Known' /\ OrphansAreStopped'
        BY <1>0, <1>1, <2>1 DEF Known, OrphansAreStopped
    <2>4. OnePlace' /\ ToStopIsRegistered' /\ Sleeper'
        BY <1>0, <1>1, <2>1 DEF OnePlace, ToStopIsRegistered, Sleeper, Over
    <2>5. ToldIsJoined'
        BY <1>0, <1>1, <2>1, ToldKept
    <2>6. AllTold' /\ Ending' /\ Kept'
        BY <1>0, <1>1, <2>1 DEF AllTold, Ending, Kept, MainJoins, Over
    <2>. QED
        BY <2>2, <2>3, <2>4, <2>5, <2>6 DEF IInv
<1>2. CASE Goto(Main, "idle", "schedStop") /\ conStop' = conStop + 1 /\ UNCHANGED <<m_threads, schedStop, copy>>
    <2>1. conStop' \in Nat /\ schedStop' \in Nat
        BY <1>2 DEF Shape
    <2>. QED
        BY <1>1, <1>2, <2>1
<1>3. CASE Goto(Main, "schedStop", "schedCopy") /\ schedStop' = schedStop + 1 /\ UNCHANGED <<conStop, m_threads, copy>>
    <2>1. conStop' \in Nat /\ schedStop' \in Nat
        BY <1>3 DEF Shape
    <2>. QED
        BY <1>1, <1>3, <2>1
<1>4. CASE Goto(Main, "schedCopy", "next") /\ copy' = m_threads /\ UNCHANGED <<conStop, m_threads, schedStop>>
    <2>1. /\ PcShape' /\ pc[Main] = "schedCopy" /\ pc'[Main] = "next"
          /\ \A d \in Conns : pc'[d] = pc[d] /\ (Started(d)' <=> Started(d)) /\ (Alive(d)' <=> Alive(d))
          /\ pc'[Out] = pc[Out] /\ pc'[Stopper] = pc[Stopper]
        BY <1>4, MainMoves DEF MainPc
    <2>2. Shape' /\ Holds'
        BY <1>0, <1>4, <2>1 DEF Shape, Holds
    <2>3. Known' /\ OrphansAreStopped'
        BY <1>0, <1>4, <2>1 DEF Known, OrphansAreStopped
    <2>4. OnePlace' /\ ToStopIsRegistered' /\ Sleeper'
        BY <1>0, <1>4, <2>1 DEF OnePlace, ToStopIsRegistered, Sleeper, Over
    <2>5. ToldIsJoined'
        BY <1>0, <1>4, <2>1, ToldKept
    <2>6. AllTold' /\ Ending' /\ Kept'
        BY <1>0, <1>4, <2>1 DEF AllTold, Ending, Kept, MainJoins, Over
    <2>. QED
        BY <2>2, <2>3, <2>4, <2>5, <2>6 DEF IInv
<1>5. CASE copy = <<>> /\ Goto(Main, "next", "clear") /\ m_threads' = <<>> /\ UNCHANGED <<conStop, schedStop, copy>>
    <2>1. /\ PcShape' /\ pc[Main] = "next" /\ pc'[Main] = "clear"
          /\ \A d \in Conns : pc'[d] = pc[d] /\ (Started(d)' <=> Started(d)) /\ (Alive(d)' <=> Alive(d))
          /\ pc'[Out] = pc[Out] /\ pc'[Stopper] = pc[Stopper]
        BY <1>5, MainMoves DEF MainPc
    <2>2. m_threads' \in Seq(Threads) /\ \A x : ~In(m_threads', x) /\ ~In(copy, x)
        BY <1>5, EmptyIn
    <2>3. Shape' /\ Holds'
        BY <1>0, <1>5, <2>1, <2>2 DEF Shape, Holds
    <2>4. Known' /\ OrphansAreStopped'
        BY <1>0, <1>5, <2>1, <2>2 DEF Known, OrphansAreStopped
    <2>5. OnePlace' /\ ToStopIsRegistered' /\ Sleeper'
        BY <1>0, <1>5, <2>1 DEF OnePlace, ToStopIsRegistered, Sleeper, Over
    <2>6. ToldIsJoined' /\ AllTold'
        BY <1>0, <1>5, <2>1, ToldKept DEF AllTold
    <2>7. \A t \in {Out, Stopper} : pc[t] = "exited"
        <3>1. {Out, Stopper} \cap late = {}
            BY DEF Shape
        <3>. QED
            BY <2>1, <2>2, <3>1 DEF Ending, AllTold, MainJoins, Over
    <2>8. Ending'
        BY <1>0, <2>1, <2>7 DEF Ending, Over
    <2>9. ASSUME NEW c \in Conns, Alive(c) PROVE c \in hung \cup late
        <3>1. c \in hung \cup late \/ c \in stopped
            BY <2>1, <2>2, <2>9 DEF Kept, AllTold, MainJoins
        <3>. QED
            BY <2>1, <2>7, <2>9, <3>1 DEF ToldIsJoined, MainJoins
    <2>10. Kept'
        BY <1>0, <2>1, <2>9 DEF Kept
    <2>. QED
        BY <2>3, <2>4, <2>5, <2>6, <2>8, <2>10 DEF IInv
<1>. QED
    BY <1>2, <1>3, <1>4, <1>5 DEF stop

\* A thread of the copy is skipped, or told to stop, and joined.
LEMMA StopNextIInv == ASSUME IInv, stopNext PROVE IInv'
<1>. USE DEF listVars, queueVars, schedVars, connVars, histVars
<1>. Shape /\ Holds /\ Known /\ OnePlace /\ ToStopIsRegistered /\ Sleeper /\ ToldIsJoined /\ AllTold /\ Ending /\ Kept
     /\ OrphansAreStopped
    BY DEF IInv
<1>0. UNCHANGED <<listVars, m_data, m_threads, schedStop, connVars, histVars>>
    BY DEF stopNext
<1>1. CASE /\ pc[Main] = "next" /\ copy # <<>> /\ copy' = Tail(copy)
           /\ Head(copy) \in stopped /\ UNCHANGED <<pc, cur, stopped, m_wait, missed>>
    <2>1. /\ copy' \in Seq(Threads)
          /\ \A x : In(copy, x) <=> x = Head(copy) \/ In(copy', x)
        BY <1>1, HeadTail DEF Shape
    <2>2. Shape' /\ Holds'
        BY <1>0, <1>1, <2>1 DEF Shape, PcShape, Holds
    <2>3. Known' /\ OrphansAreStopped'
        BY <1>0, <1>1, <2>1 DEF Known, Started, OrphansAreStopped
    <2>4. OnePlace' /\ ToStopIsRegistered' /\ Sleeper'
        BY <1>0, <1>1 DEF OnePlace, ToStopIsRegistered, Sleeper, Started, Over
    <2>5. ToldIsJoined' /\ Ending' /\ Kept'
        BY <1>0, <1>1 DEF ToldIsJoined, Ending, Kept, Alive, MainJoins, Over
    <2>6. AllTold'
        BY <1>0, <1>1, <2>1 DEF AllTold, Alive
    <2>. QED
        BY <2>2, <2>3, <2>4, <2>5, <2>6 DEF IInv
<1>2. CASE /\ pc[Main] = "next" /\ copy # <<>> /\ copy' = Tail(copy) /\ Head(copy) \notin stopped
           /\ Goto(Main, "next", "join") /\ Hold(Main, Head(copy)) /\ stopOf(Head(copy))
    <2>1. PICK h \in Threads : h = Head(copy)
        BY <1>2, HeadTail DEF Shape
    <2>2. copy' \in Seq(Threads) /\ \A x : In(copy, x) <=> x = h \/ In(copy', x)
        BY <1>2, <2>1, HeadTail DEF Shape
    <2>3. /\ PcShape' /\ pc[Main] = "next" /\ pc'[Main] = "join"
          /\ \A d \in Conns : pc'[d] = pc[d] /\ (Started(d)' <=> Started(d)) /\ (Alive(d)' <=> Alive(d))
          /\ pc'[Out] = pc[Out] /\ pc'[Stopper] = pc[Stopper]
        BY <1>2, MainMoves DEF MainPc
    <2>4. /\ cur' \in [{Out, Stopper, Main} -> Threads \cup {None}]
          /\ cur'[Main] = h /\ cur'[Out] = cur[Out] /\ cur'[Stopper] = cur[Stopper]
        BY <1>2, <2>1, MainHolds
    <2>5. /\ stopped' = stopped \cup {h} /\ m_wait' \in Events
          /\ m_wait'.m_loop <=> m_wait.m_loop
          /\ m_wait'.blocked => m_wait.blocked /\ (m_wait.m_loop => h # Stopper)
          /\ missed' = IF h = Stopper /\ pc[Stopper] = "wait" THEN missed \cup {h} ELSE missed
        BY <1>2, <2>1 DEF stopOf, StopWait, Events, Shape
    <2>6. \A c \in Conns : c = h => Started(c)
        BY <2>2 DEF Known
    <2>7. Shape' /\ Holds'
        <3>1. missed' \in SUBSET (Conns \cup {Stopper})
            BY <2>5 DEF Shape
        <3>2. Shape'
            BY <1>0, <2>1, <2>2, <2>3, <2>4, <2>5, <3>1 DEF Shape
        <3>3. Holds'
            BY <1>0, <2>3, <2>4, <2>5 DEF Holds
        <3>. QED
            BY <3>2, <3>3
    <2>8. Known' /\ OrphansAreStopped'
        BY <1>0, <2>2, <2>3, <2>4, <2>5, <2>6 DEF Known, OrphansAreStopped
    <2>9. OnePlace' /\ ToStopIsRegistered'
        BY <1>0, <2>3, <2>4 DEF OnePlace, ToStopIsRegistered, Over
    <2>10. Sleeper'
        BY <1>0, <2>3, <2>5 DEF Sleeper
    <2>11. ToldIsJoined'
        BY <1>0, <2>3, <2>4, <2>5 DEF ToldIsJoined, MainJoins, Alive, Holds, Handling
    <2>12. AllTold'
        BY <1>0, <2>2, <2>3, <2>5 DEF AllTold
    <2>13. Ending'
        BY <1>0, <2>3, <2>4, <2>5 DEF Ending, MainJoins, Over
    <2>14. Kept'
        BY <1>0, <2>3, <2>4 DEF Kept, MainJoins, Over
    <2>. QED
        BY <2>7, <2>8, <2>9, <2>10, <2>11, <2>12, <2>13, <2>14 DEF IInv
<1>3. CASE /\ Goto(Main, "join", "next") /\ Hold(Main, None)
           /\ pc[cur[Main]] = "exited" \/ (pc[Stopper] = "join" /\ cur[Stopper] = cur[Main])
           /\ UNCHANGED <<copy, stopped, m_wait, missed>>
    <2>1. /\ PcShape' /\ pc[Main] = "join" /\ pc'[Main] = "next"
          /\ \A d \in Conns : pc'[d] = pc[d] /\ (Started(d)' <=> Started(d)) /\ (Alive(d)' <=> Alive(d))
          /\ pc'[Out] = pc[Out] /\ pc'[Stopper] = pc[Stopper]
        BY <1>3, MainMoves DEF MainPc
    <2>2. /\ cur' \in [{Out, Stopper, Main} -> Threads \cup {None}]
          /\ cur'[Main] = None /\ cur'[Out] = cur[Out] /\ cur'[Stopper] = cur[Stopper]
        BY <1>3, MainHolds
    <2>3. ASSUME pc[Stopper] = "join" PROVE cur[Stopper] \in Conns /\ In(m_threads, cur[Stopper])
        BY <2>1, <2>3 DEF Holds, Handling, ToStopIsRegistered, Over
    <2>4. Shape' /\ Holds'
        BY <1>0, <1>3, <2>1, <2>2 DEF Shape, Holds
    <2>5. Known' /\ OrphansAreStopped'
        BY <1>0, <1>3, <2>1, <2>2 DEF Known, OrphansAreStopped
    <2>6. OnePlace' /\ ToStopIsRegistered' /\ Sleeper'
        BY <1>0, <1>3, <2>1, <2>2 DEF OnePlace, ToStopIsRegistered, Sleeper, Over
    <2>7. ToldIsJoined'
        <3>1. \A d \in Conns : Alive(d) /\ d \in stopped => d \in hung \/ (cur[Stopper] = d /\ pc[Stopper] = "join")
            BY <1>3 DEF ToldIsJoined, MainJoins, Alive
        <3>2. pc[Stopper] = "erase" => ~Alive(cur[Stopper]) \/ cur[Stopper] \in hung
            BY <1>3 DEF ToldIsJoined, MainJoins, Alive
        <3>3. pc[Stopper] = "erase" => cur[Stopper] \in Conns
            BY DEF Holds, Handling
        <3>. QED
            BY <1>0, <1>3, <2>1, <2>2, <3>1, <3>2, <3>3 DEF ToldIsJoined, Alive
    <2>8. AllTold'
        BY <1>0, <1>3, <2>1 DEF AllTold
    <2>9. Ending'
        <3>1. \A t \in {Out, Stopper} : t \in stopped => pc[t] = "exited"
            BY <1>3, <2>3 DEF Ending, MainJoins
        <3>. QED
            BY <1>0, <1>3, <2>1, <3>1 DEF Ending, Over
    <2>10. Kept'
        <3>1. \A c \in Conns : Alive(c) /\ MainJoins(c) => In(m_threads, c)
            BY <1>3, <2>3 DEF MainJoins, Alive
        <3>. QED
            BY <1>0, <2>1, <3>1 DEF Kept, Over
    <2>. QED
        BY <2>4, <2>5, <2>6, <2>7, <2>8, <2>9, <2>10 DEF IInv
<1>. QED
    BY <1>1, <1>2, <1>3 DEF stopNext

\* The factory drops its containers.
LEMMA ClearIInv == ASSUME IInv, clear PROVE IInv'
<1>. USE DEF listVars, queueVars, schedVars, connVars, histVars
<1>. Shape /\ Holds /\ Known /\ OnePlace /\ ToStopIsRegistered /\ Sleeper /\ ToldIsJoined /\ AllTold /\ Ending /\ Kept
     /\ OrphansAreStopped
    BY DEF IInv
<1>0. /\ m_list' = {} /\ inlist' = None /\ m_data' = <<>>
      /\ UNCHANGED <<conStop, m_wait, missed, schedVars, stopped, connVars, cur, histVars>>
      /\ Goto(Main, "clear", "done")
    BY DEF clear
<1>1. /\ PcShape' /\ pc[Main] = "clear" /\ pc'[Main] = "done"
      /\ \A d \in Conns : pc'[d] = pc[d] /\ (Started(d)' <=> Started(d)) /\ (Alive(d)' <=> Alive(d))
      /\ pc'[Out] = pc[Out] /\ pc'[Stopper] = pc[Stopper]
    BY <1>0, MainMoves DEF MainPc
<1>2. m_data' \in Seq(Conns) /\ \A x : ~In(m_data', x)
    BY <1>0, EmptyIn
<1>3. Shape' /\ Holds'
    BY <1>0, <1>1, <1>2 DEF Shape, Holds
<1>4. Known' /\ OrphansAreStopped'
    BY <1>0, <1>1, <1>2 DEF Known, OrphansAreStopped
<1>5. OnePlace' /\ ToStopIsRegistered' /\ Sleeper'
    BY <1>0, <1>1, <1>2 DEF OnePlace, Distinct, ToStopIsRegistered, Sleeper, Over
<1>6. ToldIsJoined'
    BY <1>0, <1>1, ToldKept
<1>7. AllTold' /\ Ending' /\ Kept'
    BY <1>0, <1>1 DEF AllTold, Ending, Kept, MainJoins, Over
<1>. QED
    BY <1>3, <1>4, <1>5, <1>6, <1>7 DEF IInv

\* Nothing changes.
LEMMA StutterIInv == ASSUME IInv, UNCHANGED vars PROVE IInv'
<1>. USE DEF IInv, vars
<1>1. Shape' /\ Holds'
    BY DEF Shape, PcShape, Holds
<1>2. Known' /\ OnePlace' /\ ToStopIsRegistered'
    BY DEF Known, OnePlace, ToStopIsRegistered, Started, Over
<1>3. Sleeper' /\ AllTold' /\ OrphansAreStopped'
    BY DEF Sleeper, AllTold, OrphansAreStopped, Alive
<1>4. ToldIsJoined' /\ Ending' /\ Kept'
    BY DEF ToldIsJoined, Ending, Kept, Alive, MainJoins, Over
<1>. QED
    BY <1>1, <1>2, <1>3, <1>4

\* The invariant is inductive.
THEOREM Invariant == Spec => []IInv
<1>1. IInv /\ [Next]_vars => IInv'
    BY StartConnectIInv, StartThreadIInv, OutEndsIInv, ConnIInv, InputIInv, StopThreadLoopIInv, StopThreadIInv,
       StopThreadByInfoIInv, EraseThreadIInv, AddInfoIInv, DelInfoIInv, StopIInv, StopNextIInv, ClearIInv,
       StutterIInv DEF Next, OutStep, StopperStep
<1>. QED
    BY InitIInv, <1>1, PTL DEF Spec

-----------------------------------------------------------------------------
\* base::Scheduler::stopThread never throws in the stop thread, whatever the
\* number of clients and routes: a connection that is queued or in its hands is
\* registered with the scheduler until stop() has joined the stop thread itself.
THEOREM NeverThrows == Spec => []StopNeverThrows
<1>1. IInv => StopNeverThrows
    BY DEF IInv, Holds, Handling, ToStopIsRegistered, Ending, StopNeverThrows, Registered, In
<1>. QED
    BY <1>1, Invariant, PTL

\* delInfo() leaves no connection of the deleted input in the list, however late
\* that connection was with its request, if it asked for the path as configured
\* (inthread.cpp:382 trims the slashes, conthread.cpp:581 does not).
THEOREM NoOrphans == Spec => []OrphansAreStopped
<1>1. IInv => OrphansAreStopped
    BY DEF IInv
<1>. QED
    BY <1>1, Invariant, PTL

\* A running connection thread is referred to by somebody, also after the factory
\* is cleared, unless the hang-up detection stopped it (scheduler.cpp:352) or it
\* slipped past base::Scheduler::stop() (scheduler.cpp:235, :269).
THEOREM ObjectsExist == Spec => []NoUseAfterFree
<1>1. IInv => NoUseAfterFree
    BY DEF IInv, Kept, MainJoins, NoUseAfterFree, Registered, In
<1>. QED
    BY <1>1, Invariant, PTL

\* The stop thread sleeps only next to what came between its look at the trigger
\* and its wait (stopthread.cpp:62-64): connections that wait for the next one,
\* and a stop() that is lost.
THEOREM StopThreadAware == Spec => []SleepsOnlyUnaware
<1>1. IInv => SleepsOnlyUnaware
    BY DEF IInv, Sleeper, SleepsOnlyUnaware, In, Shape
<1>. QED
    BY <1>1, Invariant, PTL

-----------------------------------------------------------------------------
\* The UDP inputs of the same threads (module UdpInput): the semaphore with
\* which an input counts its connections.

VARIABLES m_sem, m_reader, main, left, lost

Udp == INSTANCE UdpInput

UdpPc == {"new", "lookup", "count", "initLock", "reader", "serving", "ending", "exited",
          "loop", "initReader", "semWait", "init", "data", "probe", "read", "final"}

\* What the steps read and write has its shape.
UdpShape ==
    /\ m_sem \in [Inputs -> Nat]
    /\ pc \in [Conns \cup Inputs -> UdpPc]
    /\ in \in [Conns -> Inputs \cup {None}] /\ inlist \in Inputs \cup {None}
    /\ \A c \in Conns : pc[c] = "count" => in[c] \in Inputs
    /\ lost \in BOOLEAN

\* The tokens of an input: in its semaphore, and the one in its hands
Tokens(i) == m_sem[i] + (IF pc[i] \in {"init", "probe"} THEN 1 ELSE 0)

\* The inductive invariant of the UDP inputs
UdpIInv == UdpShape /\ Udp!TokensCoverConnections

\* The instance counts as this module does.
LEMMA UdpCardinality == \A S : Udp!Cardinality(S) = Cardinality(S)
BY DEF Udp!Cardinality, Cardinality

\* The connections an input counts are finitely many.
LEMMA CountedFinite ==
    ASSUME NEW i \in Inputs
    PROVE  IsFiniteSet(Udp!Counted(i)) /\ Cardinality(Udp!Counted(i)) \in Nat
<1>1. Udp!Counted(i) \subseteq Conns
    BY DEF Udp!Counted
<1>. QED
    BY <1>1, FS_Subset, FS_CardinalityType

\* The tokens cover the connections after a step that leaves both as they were,
\* or takes connections away ...
LEMMA CoverKept ==
    ASSUME UdpShape, UdpShape', Udp!TokensCoverConnections, NEW i \in Inputs, ~lost, i \notin stopped,
           Tokens(i)' >= Tokens(i), Udp!Counted(i)' \subseteq Udp!Counted(i)
    PROVE  Tokens(i)' >= Cardinality(Udp!Counted(i))'
<1>1. Cardinality(Udp!Counted(i)') <= Cardinality(Udp!Counted(i)) /\ Cardinality(Udp!Counted(i)') \in Nat
    BY CountedFinite, FS_Subset, FS_CardinalityType
<1>2. Tokens(i) \in Nat /\ Tokens(i)' \in Nat
    BY DEF UdpShape, Tokens
<1>3. Tokens(i) >= Cardinality(Udp!Counted(i)) /\ Cardinality(Udp!Counted(i)) \in Nat
    BY CountedFinite, UdpCardinality DEF Udp!TokensCoverConnections, Tokens
<1>. QED
    BY <1>1, <1>2, <1>3

\* ... counts one connection with a new token ...
LEMMA CoverPosted ==
    ASSUME UdpShape, UdpShape', Udp!TokensCoverConnections, NEW i \in Inputs, ~lost, i \notin stopped,
           NEW c, Tokens(i)' = Tokens(i) + 1, Udp!Counted(i)' \subseteq Udp!Counted(i) \cup {c}
    PROVE  Tokens(i)' >= Cardinality(Udp!Counted(i))'
<1>1. Cardinality(Udp!Counted(i) \cup {c}) <= Cardinality(Udp!Counted(i)) + 1
      /\ IsFiniteSet(Udp!Counted(i) \cup {c}) /\ Cardinality(Udp!Counted(i) \cup {c}) \in Nat
    BY CountedFinite, FS_AddElement, FS_CardinalityType
<1>2. Cardinality(Udp!Counted(i)') <= Cardinality(Udp!Counted(i) \cup {c})
      /\ Cardinality(Udp!Counted(i)') \in Nat
    BY <1>1, FS_Subset, FS_CardinalityType
<1>3. Tokens(i) >= Cardinality(Udp!Counted(i)) /\ Cardinality(Udp!Counted(i)) \in Nat /\ Tokens(i) \in Nat
    BY CountedFinite, UdpCardinality DEF Udp!TokensCoverConnections, Tokens, UdpShape
<1>. QED
    BY <1>1, <1>2, <1>3

\* ... or takes away one connection and its token.
LEMMA CoverTaken ==
    ASSUME UdpShape, UdpShape', Udp!TokensCoverConnections, NEW i \in Inputs, ~lost, i \notin stopped,
           NEW c \in Udp!Counted(i), Tokens(i)' = Tokens(i) - 1,
           Udp!Counted(i)' \subseteq Udp!Counted(i) \ {c}
    PROVE  Tokens(i)' >= Cardinality(Udp!Counted(i))'
<1>1. Cardinality(Udp!Counted(i) \ {c}) = Cardinality(Udp!Counted(i)) - 1
      /\ IsFiniteSet(Udp!Counted(i) \ {c}) /\ Cardinality(Udp!Counted(i) \ {c}) \in Nat
    BY CountedFinite, FS_RemoveElement, FS_CardinalityType
<1>2. Cardinality(Udp!Counted(i)') <= Cardinality(Udp!Counted(i) \ {c})
      /\ Cardinality(Udp!Counted(i)') \in Nat
    BY <1>1, FS_Subset, FS_CardinalityType
<1>3. Tokens(i) >= Cardinality(Udp!Counted(i)) /\ Cardinality(Udp!Counted(i)) \in Nat /\ Tokens(i) \in Nat
    BY CountedFinite, UdpCardinality DEF Udp!TokensCoverConnections, Tokens, UdpShape
<1>. QED
    BY <1>1, <1>2, <1>3

\* What remains to be shown of a step, once it keeps the shape
LEMMA CoverSuffices ==
    ASSUME \A i \in Inputs : ~lost' /\ i \notin stopped' => Tokens(i)' >= Cardinality(Udp!Counted(i))'
    PROVE  Udp!TokensCoverConnections'
BY UdpCardinality DEF Udp!TokensCoverConnections, Tokens

-----------------------------------------------------------------------------
\* No input exists and nobody is connected.
LEMMA UdpInit == Udp!Init => UdpIInv
<1>. SUFFICES ASSUME Udp!Init PROVE UdpIInv
    OBVIOUS
<1>1. UdpShape
    BY DEF Udp!Init, UdpShape, UdpPc
<1>2. \A i \in Inputs : Udp!Counted(i) = {}
    BY DEF Udp!Init, Udp!Counted
<1>3. Udp!TokensCoverConnections
    BY <1>1, <1>2, FS_EmptySet, UdpCardinality DEF Udp!TokensCoverConnections, UdpShape
<1>. QED
    BY <1>1, <1>3 DEF UdpIInv

\* A step of a connection between its count and its end
LEMMA UdpConnServed ==
    ASSUME UdpIInv, NEW c \in Conns,
           \/ Udp!processRequest(c) \/ Udp!getInThread(c) \/ Udp!processResponse(c)
           \/ Udp!processDataStopped(c) \/ Udp!processDataFails(c)
    PROVE  UdpIInv'
<1>1. UdpShape /\ Udp!TokensCoverConnections
    BY DEF UdpIInv
<1>2. /\ UNCHANGED <<m_sem, stopped, inlist, lost>>
      /\ \A t \in Conns \cup Inputs : t # c => pc'[t] = pc[t]
      /\ \A d \in Conns : d # c => in'[d] = in[d]
      /\ pc[c] \in {"new", "lookup", "reader", "serving"}
      /\ \/ in'[c] = in[c] /\ pc'[c] # "count"
         \/ pc'[c] = "count" /\ in'[c] = inlist /\ inlist # None
    BY <1>1 DEF UdpShape, Udp!processRequest, Udp!getInThread, Udp!processResponse, Udp!processDataStopped,
        Udp!processDataFails, Udp!Goto, UdpPc, Udp!mainVars
<1>3. UdpShape'
    BY <1>1, <1>2 DEF UdpShape, Udp!processRequest, Udp!getInThread, Udp!processResponse,
        Udp!processDataStopped, Udp!processDataFails, Udp!Goto, UdpPc
<1>4. \A i \in Inputs : Udp!Counted(i)' \subseteq Udp!Counted(i)
    BY <1>2 DEF Udp!Counted
<1>5. \A i \in Inputs : Tokens(i)' = Tokens(i)
    BY <1>2 DEF Tokens
<1>6. \A i \in Inputs : Tokens(i)' >= Tokens(i)
    BY <1>1, <1>5 DEF Tokens, UdpShape
<1>. QED
    BY <1>1, <1>2, <1>3, <1>4, <1>6, CoverKept, CoverSuffices DEF UdpIInv

\* increaseConnectionCount posts before it passes m_init_lock.
LEMMA UdpConnCounted ==
    ASSUME UdpIInv, NEW c \in Conns, Udp!increaseConnectionCount(c)
    PROVE  UdpIInv'
<1>1. UdpShape /\ Udp!TokensCoverConnections
    BY DEF UdpIInv
<1>2. /\ UNCHANGED <<in, stopped, inlist, lost>>
      /\ \A t \in Conns \cup Inputs : t # c => pc'[t] = pc[t]
      /\ pc[c] \in {"count", "initLock"} /\ pc'[c] \in {"initLock", "reader"}
    BY <1>1 DEF UdpShape, Udp!increaseConnectionCount, Udp!Goto, UdpPc, Udp!mainVars
<1>3. UdpShape'
    BY <1>1, <1>2 DEF UdpShape, Udp!increaseConnectionCount, Udp!Goto, UdpPc, Udp!Post
<1>4. ASSUME NEW i \in Inputs, ~lost', i \notin stopped'
      PROVE  Tokens(i)' >= Cardinality(Udp!Counted(i))'
    <2>1. CASE pc[c] = "count" /\ in[c] = i
        <3>1. m_sem'[i] = m_sem[i] + 1
            BY <2>1, <1>1 DEF UdpShape, Udp!increaseConnectionCount, Udp!Goto, UdpPc, Udp!Post
        <3>2. Tokens(i)' = Tokens(i) + 1
            BY <3>1, <1>1, <1>2 DEF Tokens, UdpShape
        <3>3. Udp!Counted(i)' \subseteq Udp!Counted(i) \cup {c}
            BY <1>2 DEF Udp!Counted
        <3>. QED
            BY <3>2, <3>3, <1>1, <1>2, <1>3, <1>4, CoverPosted
    <2>2. CASE pc[c] # "count" \/ in[c] # i
        <3>1. m_sem'[i] = m_sem[i]
            BY <2>2, <1>1 DEF UdpShape, Udp!increaseConnectionCount, Udp!Goto, UdpPc, Udp!Post
        <3>2. Tokens(i)' >= Tokens(i)
            BY <3>1, <1>1, <1>2 DEF Tokens, UdpShape
        <3>3. Udp!Counted(i)' \subseteq Udp!Counted(i)
            BY <2>2, <1>2 DEF Udp!Counted
        <3>. QED
            BY <3>2, <3>3, <1>1, <1>2, <1>3, <1>4, CoverKept
    <2>. QED
        BY <2>1, <2>2
<1>. QED
    BY <1>3, <1>4, CoverSuffices DEF UdpIInv

\* decreaseConnectionCount takes a token of the input the path has now: its own,
\* or the histories say so.
LEMMA UdpConnEnds ==
    ASSUME UdpIInv, NEW c \in Conns, Udp!decreaseConnectionCount(c)
    PROVE  UdpIInv'
<1>1. UdpShape /\ Udp!TokensCoverConnections
    BY DEF UdpIInv
<1>2. /\ UNCHANGED <<stopped, inlist>>
      /\ \A t \in Conns \cup Inputs : t # c => pc'[t] = pc[t]
      /\ \A d \in Conns : d # c => in'[d] = in[d]
      /\ pc[c] = "ending" /\ pc'[c] = "exited" /\ in'[c] = None
    BY <1>1 DEF UdpShape, Udp!decreaseConnectionCount, Udp!Goto, UdpPc, Udp!mainVars
<1>3. \/ m_sem' = m_sem /\ lost' = lost
      \/ /\ inlist \in Inputs /\ m_sem[inlist] > 0
         /\ m_sem' = [m_sem EXCEPT ![inlist] = @ - 1] /\ lost' = (lost \/ in[c] # inlist)
    BY <1>1 DEF UdpShape, Udp!decreaseConnectionCount, Udp!Take
<1>4. UdpShape'
    <2>1. m_sem' \in [Inputs -> Nat]
        BY <1>1, <1>3 DEF UdpShape
    <2>2. lost' \in BOOLEAN
        BY <1>1, <1>3, Zenon DEF UdpShape
    <2>3. pc' \in [Conns \cup Inputs -> UdpPc]
        BY <1>1 DEF UdpShape, Udp!decreaseConnectionCount, Udp!Goto, UdpPc
    <2>4. in' \in [Conns -> Inputs \cup {None}]
        BY <1>1 DEF UdpShape, Udp!decreaseConnectionCount
    <2>. QED
        BY <2>1, <2>2, <2>3, <2>4, <1>1, <1>2 DEF UdpShape
<1>5. ASSUME NEW i \in Inputs, ~lost', i \notin stopped'
      PROVE  Tokens(i)' >= Cardinality(Udp!Counted(i))'
    <2>1. ~lost
        BY <1>3, <1>5
    <2>2. Udp!Counted(i)' \subseteq Udp!Counted(i) \ {c}
        BY <1>2 DEF Udp!Counted
    <2>3. CASE m_sem'[i] = m_sem[i]
        <3>1. Tokens(i)' >= Tokens(i)
            BY <2>3, <1>1, <1>2 DEF Tokens, UdpShape
        <3>. QED
            BY <3>1, <2>1, <2>2, <1>1, <1>2, <1>4, <1>5, CoverKept
    <2>4. CASE m_sem'[i] # m_sem[i]
        <3>1. inlist = i /\ in[c] = i /\ m_sem'[i] = m_sem[i] - 1
            BY <2>4, <1>1, <1>3, <1>5 DEF UdpShape
        <3>2. Tokens(i)' = Tokens(i) - 1
            BY <3>1, <1>1, <1>2 DEF Tokens, UdpShape
        <3>3. c \in Udp!Counted(i)
            BY <3>1, <1>2 DEF Udp!Counted
        <3>. QED
            BY <3>2, <3>3, <2>1, <2>2, <1>1, <1>2, <1>4, <1>5, CoverTaken
    <2>. QED
        BY <2>3, <2>4
<1>. QED
    BY <1>4, <1>5, CoverSuffices DEF UdpIInv

\* An input gives back the token it takes, unless its initialisation fails or it
\* is stopped.
LEMMA UdpInputKeeps ==
    ASSUME UdpIInv, NEW j \in Inputs, Udp!InputStep(j) \/ Udp!doLoopAction(j)
    PROVE  UdpIInv'
<1>1. UdpShape /\ Udp!TokensCoverConnections
    BY DEF UdpIInv
<1>2. /\ UNCHANGED <<in, inlist>> /\ stopped \subseteq stopped'
      /\ \A t \in Conns \cup Inputs : t # j => pc'[t] = pc[t]
    BY <1>1 DEF UdpShape, Udp!InputStep, Udp!inLoop, Udp!initReader, Udp!doLoop, Udp!finalClearing,
        Udp!doLoopAction, Udp!Goto, UdpPc, Udp!mainVars
<1>3. UdpShape' /\ (lost => lost')
    <2>1. m_sem' \in [Inputs -> Nat]
        BY <1>1 DEF UdpShape, Udp!InputStep, Udp!inLoop, Udp!initReader, Udp!doLoop, Udp!finalClearing,
            Udp!doLoopAction, Udp!Post, Udp!Take
    <2>2. pc' \in [Conns \cup Inputs -> UdpPc]
        BY <1>1 DEF UdpShape, Udp!InputStep, Udp!inLoop, Udp!initReader, Udp!doLoop, Udp!finalClearing,
            Udp!doLoopAction, Udp!Goto, UdpPc
    <2>3. lost' \in BOOLEAN /\ (lost => lost')
        BY <1>1 DEF UdpShape, Udp!InputStep, Udp!inLoop, Udp!initReader, Udp!doLoop, Udp!finalClearing,
            Udp!doLoopAction
    <2>. QED
        BY <2>1, <2>2, <2>3, <1>1, <1>2 DEF UdpShape
<1>4. \A i \in Inputs : Udp!Counted(i)' \subseteq Udp!Counted(i)
    BY <1>2 DEF Udp!Counted
<1>5. ASSUME NEW i \in Inputs, ~lost', i \notin stopped'
      PROVE  Tokens(i)' >= Tokens(i)
    <2>1. CASE Udp!inLoop(j) \/ Udp!finalClearing(j) \/ Udp!doLoopAction(j)
        BY <2>1, <1>1, <1>5 DEF Tokens, UdpShape, Udp!inLoop, Udp!finalClearing, Udp!doLoopAction, Udp!Goto, UdpPc
    <2>2. CASE Udp!initReader(j)
        BY <2>2, <1>1, <1>2, <1>5 DEF Tokens, UdpShape, Udp!initReader, Udp!Goto, UdpPc, Udp!Take, Udp!Post
    <2>3. CASE Udp!doLoop(j)
        BY <2>3, <1>1, <1>2, <1>5 DEF Tokens, UdpShape, Udp!doLoop, Udp!Goto, UdpPc, Udp!Take, Udp!Post
    <2>. QED
        BY <2>1, <2>2, <2>3 DEF Udp!InputStep
<1>. QED
    BY <1>1, <1>2, <1>3, <1>4, <1>5, CoverKept, CoverSuffices DEF UdpIInv

\* The main thread adds, deletes and stops inputs; stop() adds a token at most.
LEMMA UdpMainKeeps ==
    ASSUME UdpIInv, Udp!addInfo \/ Udp!delInfo \/ Udp!stop
    PROVE  UdpIInv'
<1>1. UdpShape /\ Udp!TokensCoverConnections
    BY DEF UdpIInv
<1>2. UNCHANGED <<in, lost>> /\ stopped \subseteq stopped'
    BY <1>1 DEF Udp!addInfo, Udp!delInfo, Udp!stop, Udp!stopOf
<1>3. /\ m_sem' \in [Inputs -> Nat]
      /\ \A i \in Inputs : m_sem'[i] >= m_sem[i]
    <2>1. m_sem' = m_sem \/ \E i \in Inputs : m_sem' = [m_sem EXCEPT ![i] = @ + 1]
        BY DEF Udp!addInfo, Udp!delInfo, Udp!stop, Udp!stopOf, Udp!Post
    <2>. QED
        BY <2>1, <1>1 DEF UdpShape
<1>4. pc' = pc \/ \E i \in Inputs : pc[i] = "new" /\ pc' = [pc EXCEPT ![i] = "loop"]
    BY DEF Udp!addInfo, Udp!delInfo, Udp!stop
<1>5. UdpShape'
    <2>1. inlist' = inlist \/ inlist' \in Inputs \/ inlist' = None
        BY DEF Udp!addInfo, Udp!delInfo, Udp!stop
    <2>2. pc' \in [Conns \cup Inputs -> UdpPc] /\ \A c \in Conns : pc'[c] = pc[c]
        BY <1>1, <1>4 DEF UdpShape, UdpPc
    <2>. QED
        BY <2>1, <2>2, <1>1, <1>2, <1>3 DEF UdpShape
<1>6. \A i \in Inputs : Udp!Counted(i)' \subseteq Udp!Counted(i)
    BY <1>1, <1>2, <1>4 DEF Udp!Counted, UdpShape
<1>7. \A i \in Inputs : Tokens(i)' >= Tokens(i)
    <2>1. \A i \in Inputs : pc'[i] \in {"init", "probe"} <=> pc[i] \in {"init", "probe"}
        BY <1>1, <1>4 DEF UdpShape
    <2>. QED
        BY <2>1, <1>1, <1>3 DEF Tokens, UdpShape
<1>. QED
    BY <1>1, <1>2, <1>5, <1>6, <1>7, CoverKept, CoverSuffices DEF UdpIInv

\* Every step keeps the invariant of the UDP inputs.
LEMMA UdpNext == UdpIInv /\ [Udp!Next]_Udp!vars => UdpIInv'
<1>. SUFFICES ASSUME UdpIInv, [Udp!Next]_Udp!vars PROVE UdpIInv'
    OBVIOUS
<1>1. CASE UNCHANGED Udp!vars
    BY <1>1 DEF Udp!vars, UdpIInv, UdpShape, Udp!TokensCoverConnections, Udp!Counted
<1>. QED
    BY <1>1, UdpConnServed, UdpConnCounted, UdpConnEnds, UdpInputKeeps, UdpMainKeeps
       DEF Udp!Next, Udp!ConnStep

\* However many clients come and go while the input polls its semaphore, it holds
\* a token for each connection it counts, unless a token was taken by the wrong
\* party (inudp.cpp:98, conthread.cpp:116).
THEOREM ConnectionsCovered == Udp!Spec => []Udp!TokensCoverConnections
<1>1. UdpIInv => Udp!TokensCoverConnections
    BY DEF UdpIInv
<1>. QED
    BY <1>1, UdpInit, UdpNext, PTL DEF Udp!Spec

=============================================================================
