--------------------------- MODULE TriggerProofs ---------------------------
(****************************************************************************)
(* What Trigger guarantees for any number of threads, stops and signals.    *)
(* The argument: the tokens in the semaphore and in the hands of threads    *)
(* are the stops and the strays (interrupted waits, tokens taken before     *)
(* init()), counted once each.  So the semaphore is a flag, as module       *)
(* StopFlag has it.  Then what that gives the timer threads of a module,    *)
(* which poll such a trigger.                                               *)
(****************************************************************************)
EXTENDS Trigger, FiniteSetTheorems, TLAPS

\* The inductive invariant
IInv == TypeOK /\ Conservation /\ NoFalseStop

USE TriggerAssumption

-----------------------------------------------------------------------------
\* The number of threads with a token to give back is a natural number.
LEMMA HoldersFinite ==
    IsFiniteSet(Holders) /\ Cardinality(Holders) \in Nat
<1>1. IsFiniteSet(Threads)
    BY FS_Union DEF Threads
<1>2. Holders \in SUBSET Threads
    BY DEF Holders
<1>. QED
    BY <1>1, <1>2, FS_Subset, FS_CardinalityType

\* A thread that goes to "restore" is one holder more.
LEMMA HolderAdded ==
    ASSUME TypeOK, NEW t \in Threads, pc[t] # "restore",
           pc' = [pc EXCEPT ![t] = "restore"]
    PROVE  Cardinality(Holders') = Cardinality(Holders) + 1
<1>1. Holders' = Holders \cup {t} /\ t \notin Holders
    BY DEF TypeOK, Holders
<1>. QED
    BY <1>1, HoldersFinite, FS_AddElement

\* A thread that leaves "restore" is one holder less.
LEMMA HolderRemoved ==
    ASSUME TypeOK, NEW t \in Threads, pc[t] = "restore",
           pc' = [pc EXCEPT ![t] = "returned"]
    PROVE  Cardinality(Holders') = Cardinality(Holders) - 1
<1>1. Holders' = Holders \ {t} /\ t \in Holders
    BY DEF TypeOK, Holders
<1>. QED
    BY <1>1, HoldersFinite, FS_RemoveElement

\* A step of a thread that neither takes nor gives back a token leaves the
\* holders as they are.
LEMMA HoldersSame ==
    ASSUME TypeOK, NEW t \in Threads, pc[t] # "restore",
           NEW to \in {"idle", "probe", "wait"}, pc' = [pc EXCEPT ![t] = to]
    PROVE  Holders' = Holders
BY DEF TypeOK, Holders

-----------------------------------------------------------------------------
\* The invariant holds in the initial state.
LEMMA InitIInv == Init => IInv
<1>. SUFFICES ASSUME Init PROVE IInv
    OBVIOUS
<1>1. TypeOK
    BY DEF Init, TypeOK
<1>2. Holders = {}
    BY DEF Init, Holders
<1>3. Conservation
    BY <1>2, FS_EmptySet DEF Init, Conservation
<1>4. NoFalseStop
    BY DEF Init, NoFalseStop
<1>. QED
    BY <1>1, <1>3, <1>4 DEF IInv

\* Every step keeps the types.
LEMMA NextTypeOK == TypeOK /\ [Next]_vars => TypeOK'
<1>. SUFFICES ASSUME TypeOK, [Next]_vars PROVE TypeOK'
    OBVIOUS
<1>. USE DEF TypeOK, Goto, Threads
<1>1. ASSUME NEW p \in Probers, ProberStep(p) PROVE TypeOK'
    BY <1>1 DEF ProberStep, callIsStopped, seesActive, takeToken, giveBack, busy, take, post
<1>2. ASSUME NEW w \in Waiters, WaiterStep(w) \/ interrupted(w) PROVE TypeOK'
    BY <1>2 DEF WaiterStep, callWait, acquired, giveBack, interrupted, take, post
<1>3. CASE stop
    BY <1>3 DEF stop, post
<1>4. CASE init
    BY <1>4, HoldersFinite DEF init, reinit
<1>5. CASE UNCHANGED vars
    BY <1>5 DEF vars
<1>. QED
    BY <1>1, <1>2, <1>3, <1>4, <1>5 DEF Next

\* Every step conserves the tokens.
LEMMA NextConservation == IInv /\ [Next]_vars => Conservation'
<1>. SUFFICES ASSUME IInv, [Next]_vars PROVE Conservation'
    OBVIOUS
<1>. TypeOK /\ Conservation
    BY DEF IInv
<1>. m_sem \in Nat /\ stops \in Nat /\ strays \in Nat
    BY DEF TypeOK
<1>. Cardinality(Holders) \in Nat
    BY HoldersFinite
<1>. Probers \subseteq Threads /\ Waiters \subseteq Threads
    BY DEF Threads
<1>1. ASSUME NEW t \in Threads, callIsStopped(t) \/ seesActive(t) \/ callWait(t)
      PROVE  Conservation'
    <2>1. Holders' = Holders
        BY <1>1, HoldersSame DEF callIsStopped, seesActive, callWait, Goto
    <2>. QED
        BY <1>1, <2>1 DEF Conservation, callIsStopped, seesActive, callWait, busy
<1>2. ASSUME NEW t \in Threads, takeToken(t) \/ acquired(t)
      PROVE  Conservation'
    <2>1. Cardinality(Holders') = Cardinality(Holders) + 1
        BY <1>2, HolderAdded DEF takeToken, acquired, Goto
    <2>. QED
        BY <1>2, <2>1 DEF Conservation, takeToken, acquired, take
<1>3. ASSUME NEW t \in Threads, giveBack(t)
      PROVE  Conservation'
    <2>1. Cardinality(Holders') = Cardinality(Holders) - 1
        BY <1>3, HolderRemoved DEF giveBack, Goto
    <2>. QED
        BY <1>3, <2>1 DEF Conservation, giveBack, post
<1>4. ASSUME NEW t \in Threads, interrupted(t)
      PROVE  Conservation'
    <2>1. Cardinality(Holders') = Cardinality(Holders) + 1
        BY <1>4, HolderAdded DEF interrupted, Goto
    <2>. QED
        BY <1>4, <2>1 DEF Conservation, interrupted
<1>5. CASE stop
    <2>1. Holders' = Holders
        BY <1>5 DEF stop, Holders
    <2>. QED
        BY <1>5, <2>1 DEF Conservation, stop, post
<1>6. CASE init
    <2>1. Holders' = Holders
        BY <1>6 DEF init, Holders, TypeOK
    <2>. QED
        BY <1>6, <2>1 DEF Conservation, init, reinit
<1>7. CASE UNCHANGED vars
    <2>1. Holders' = Holders
        BY <1>7 DEF vars, Holders
    <2>. QED
        BY <1>7, <2>1 DEF Conservation, vars
<1>. QED
    BY <1>1, <1>2, <1>3, <1>4, <1>5, <1>6, <1>7 DEF Next, ProberStep, WaiterStep

\* No step lets a thread see a stop that nobody made: a token that can be
\* taken or given back comes from a stop or from an interrupted wait.
LEMMA NextNoFalseStop == IInv /\ [Next]_vars => NoFalseStop'
<1>. SUFFICES ASSUME IInv, [Next]_vars, stops' = 0, strays' = 0, NEW u \in Threads
              PROVE  pc'[u] \notin {"restore", "returned"}
    BY DEF NoFalseStop
<1>. TypeOK /\ Conservation /\ NoFalseStop
    BY DEF IInv
<1>. Cardinality(Holders) \in Nat
    BY HoldersFinite
<1>1. CASE init
    <2>1. Holders = {}
        BY <1>1, HoldersFinite, FS_EmptySet DEF init
    <2>. QED
        BY <1>1, <2>1 DEF init, Holders, TypeOK
<1>2. CASE ~init
    <2>1. stops = 0 /\ strays = 0
        BY <1>2 DEF Next, vars, TypeOK, ProberStep, WaiterStep, callIsStopped, seesActive,
            takeToken, giveBack, callWait, acquired, interrupted, stop
    <2>2. m_sem = 0
        BY <2>1 DEF Conservation, TypeOK
    <2>3. \A t \in Threads : pc[t] \notin {"restore", "returned"}
        BY <2>1 DEF NoFalseStop
    <2>. QED
        BY <1>2, <2>1, <2>2, <2>3 DEF Next, vars, TypeOK, Threads, Goto, ProberStep, WaiterStep,
            callIsStopped, seesActive, takeToken, giveBack, callWait, acquired, interrupted, stop, take
<1>. QED
    BY <1>1, <1>2

\* The invariant is inductive.
LEMMA IInvInvariant == Spec => []IInv
<1>1. IInv /\ [Next]_vars => IInv'
    BY NextTypeOK, NextConservation, NextNoFalseStop DEF IInv
<1>. QED
    BY InitIInv, <1>1, PTL DEF Spec

-----------------------------------------------------------------------------
\* Type correctness of the trigger's state.
THEOREM TypeCorrect == Spec => []TypeOK
BY IInvInvariant, PTL DEF IInv

\* Trigger::isStopped and Trigger::wait conserve the tokens of the semaphore.
THEOREM TokensConserved == Spec => []Conservation
BY IInvInvariant, PTL DEF IInv

\* isStopped() answers true and wait() returns to nobody before a stop().
THEOREM NoFalseStops == Spec => []NoFalseStop
BY IInvInvariant, PTL DEF IInv

\* A stop() is found by whoever asks when no other thread is inside isStopped()
\* or wait() with the token in its hands.
THEOREM StopsNotLost == Spec => []StopNotLost
<1>1. IInv => StopNotLost
    <2>. SUFFICES ASSUME IInv, stops > 0, Holders = {} PROVE m_sem > 0
        BY DEF StopNotLost
    <2>. QED
        BY FS_EmptySet DEF IInv, TypeOK, Conservation
<1>. QED
    BY <1>1, IInvInvariant, PTL
-----------------------------------------------------------------------------
\* The refinement of StopFlag: its state as the trigger has it
raisedView == stops + strays > 0
callView == [t \in Threads |-> CASE pc[t] \in {"probe", "wait"} -> "asking"
                                 [] pc[t] = "restore" -> "leaving"
                                 [] pc[t] = "returned" -> "told"
                                 [] OTHER -> "idle"]

\* What a thread does to itself is done to its part of the view.
LEMMA CallMoves ==
    ASSUME TypeOK, NEW t \in Threads, NEW to, pc' = [pc EXCEPT ![t] = to]
    PROVE  /\ to \in {"probe", "wait"} => callView' = [callView EXCEPT ![t] = "asking"]
           /\ to = "restore" => callView' = [callView EXCEPT ![t] = "leaving"]
           /\ to = "returned" => callView' = [callView EXCEPT ![t] = "told"]
           /\ to = "idle" => callView' = [callView EXCEPT ![t] = "idle"]
<1>1. pc'[t] = to /\ \A u \in Threads : u # t => pc'[u] = pc[u]
    BY DEF TypeOK
<1>. QED
    BY <1>1 DEF callView

\* Nobody has asked and the flag is down when the trigger is created.
LEMMA InitFlag == Init => Flag!Init
<1>. SUFFICES ASSUME Init PROVE Flag!Init
    OBVIOUS
<1>1. ~raisedView
    BY DEF Init, raisedView
<1>2. callView = [t \in Threads |-> "idle"]
    BY DEF Init, callView
<1>. QED
    BY <1>1, <1>2 DEF Flag!Init, raisedView, callView

\* While a stop() counts and the semaphore is empty somebody has its token.
LEMMA TokenIsSomewhere ==
    ASSUME TypeOK, Conservation
    PROVE  /\ raisedView /\ m_sem = 0 => Holders # {}
           /\ m_sem > 0 => raisedView
<1>1. m_sem \in Nat /\ stops \in Nat /\ strays \in Nat /\ Cardinality(Holders) \in Nat
    BY HoldersFinite DEF TypeOK
<1>2. Holders = {} => Cardinality(Holders) = 0
    BY FS_EmptySet
<1>. QED
    BY <1>1, <1>2 DEF Conservation, raisedView

\* Every step of the trigger is a step of the flag; a stop() that comes again
\* is not seen.
LEMMA NextFlag == IInv /\ [Next]_vars => [Flag!Next]_Flag!vars
<1>. SUFFICES ASSUME IInv, [Next]_vars PROVE [Flag!Next]_Flag!vars
    OBVIOUS
<1>. TypeOK /\ Conservation
    BY DEF IInv
<1>. stops \in Nat /\ strays \in Nat /\ raisedView \in BOOLEAN
    BY DEF TypeOK, raisedView
<1>. Probers \subseteq Threads /\ Waiters \subseteq Threads
    BY DEF Threads
<1>1. ASSUME NEW t \in Threads, callIsStopped(t) \/ callWait(t)
      PROVE  [Flag!Next]_Flag!vars
    <2>1. callView[t] = "idle" /\ callView' = [callView EXCEPT ![t] = "asking"] /\ raisedView' = raisedView
        BY <1>1, CallMoves DEF callIsStopped, callWait, Goto, callView, raisedView
    <2>2. Flag!Ask(t)
        BY <2>1 DEF Flag!Ask, Flag!Goto, callView, raisedView
    <2>. QED
        BY <2>2 DEF Flag!Next
<1>2. ASSUME NEW t \in Threads, seesActive(t)
      PROVE  [Flag!Next]_Flag!vars
    <2>1. callView[t] = "asking" /\ callView' = [callView EXCEPT ![t] = "idle"] /\ raisedView' = raisedView
        BY <1>2, CallMoves DEF seesActive, Goto, callView, raisedView
    <2>2. ~raisedView \/ \E u \in Threads \ {t} : callView[u] = "leaving"
        <3>1. raisedView => Holders # {}
            BY <1>2, TokenIsSomewhere DEF seesActive, busy
        <3>2. \A u \in Holders : u \in Threads \ {t} /\ callView[u] = "leaving"
            BY <1>2 DEF Holders, seesActive, Goto, callView
        <3>. QED
            BY <3>1, <3>2
    <2>3. Flag!No(t)
        BY <2>1, <2>2 DEF Flag!No, Flag!Goto, callView, raisedView
    <2>. QED
        BY <2>3 DEF Flag!Next
<1>3. ASSUME NEW t \in Threads, takeToken(t) \/ acquired(t)
      PROVE  [Flag!Next]_Flag!vars
    <2>1. callView[t] = "asking" /\ callView' = [callView EXCEPT ![t] = "leaving"] /\ raisedView' = raisedView
        BY <1>3, CallMoves DEF takeToken, acquired, Goto, callView, raisedView
    <2>2. raisedView
        BY <1>3, TokenIsSomewhere DEF takeToken, acquired, take
    <2>3. Flag!Yes(t)
        BY <2>1, <2>2 DEF Flag!Yes, Flag!Goto, callView, raisedView
    <2>. QED
        BY <2>3 DEF Flag!Next
<1>4. ASSUME NEW t \in Threads, giveBack(t)
      PROVE  [Flag!Next]_Flag!vars
    <2>1. callView[t] = "leaving" /\ callView' = [callView EXCEPT ![t] = "told"] /\ raisedView' = raisedView
        BY <1>4, CallMoves DEF giveBack, Goto, callView, raisedView
    <2>2. Flag!Leave(t)
        BY <2>1 DEF Flag!Leave, Flag!Goto, callView, raisedView
    <2>. QED
        BY <2>2 DEF Flag!Next
<1>5. ASSUME NEW t \in Threads, interrupted(t)
      PROVE  [Flag!Next]_Flag!vars
    <2>1. callView[t] = "asking" /\ callView' = [callView EXCEPT ![t] = "leaving"]
        BY <1>5, CallMoves DEF interrupted, Goto, callView
    <2>2. raisedView' = TRUE
        BY <1>5 DEF interrupted, raisedView
    <2>3. Flag!Interrupt(t)
        BY <2>1, <2>2 DEF Flag!Interrupt, Flag!Goto, callView, raisedView
    <2>. QED
        BY <2>3 DEF Flag!Next
<1>6. CASE stop
    <2>1. callView' = callView
        BY <1>6 DEF stop, callView
    <2>2. raisedView' = TRUE
        BY <1>6 DEF stop, raisedView
    <2>3. Flag!Raise
        BY <2>1, <2>2 DEF Flag!Raise, callView, raisedView
    <2>. QED
        BY <2>3 DEF Flag!Next
<1>7. CASE init
    <2>1. callView' = [t \in Threads |-> IF callView[t] = "told" THEN "idle" ELSE callView[t]]
        BY <1>7 DEF init, callView, TypeOK
    <2>2. raisedView' = (Holders # {})
        <3>1. Cardinality(Holders) \in Nat /\ (Holders = {} <=> Cardinality(Holders) = 0)
            BY HoldersFinite, FS_EmptySet
        <3>. QED
            BY <1>7, <3>1 DEF init, raisedView
    <2>3. Holders # {} <=> \E t \in Threads : callView[t] = "leaving"
        BY DEF Holders, callView, TypeOK
    <2>4. Flag!Lower
        BY <2>1, <2>2, <2>3 DEF Flag!Lower, callView, raisedView
    <2>. QED
        BY <2>4 DEF Flag!Next
<1>8. CASE UNCHANGED vars
    BY <1>8 DEF vars, Flag!vars
<1>. QED
    BY <1>1, <1>2, <1>3, <1>4, <1>5, <1>6, <1>7, <1>8 DEF Next, ProberStep, WaiterStep

\* A Trigger is a flag: isStopped() answers true and wait() returns only after a
\* stop() (or an interrupted wait), and after a stop() isStopped() answers false
\* to nobody but those who ask while another thread has the token, between
\* sem_trywait and sem_post (klksemaphore.cpp:145-165) or in wait()
\* (thread.cpp:238-243).
THEOREM FlagImplemented == Spec => ImplementsFlag
BY IInvInvariant, InitFlag, NextFlag, PTL DEF Spec, ImplementsFlag, Flag!Spec
-----------------------------------------------------------------------------
\* The timer threads (module TimerThread), any number of them

CONSTANT Timers
VARIABLES m_wait, late, ctl, m_stop

Timer == INSTANCE TimerThread

\* What the steps of a timer read and write has its shape.
TimerShape ==
    /\ m_sem \in [Timers -> Nat] /\ late \in [Timers -> Nat]
    /\ pc \in [Timers -> {"enter", "asleep", "check", "checkT", "call", "inCall", "exited"}]
    /\ ctl \in [Timers -> {"running", "stopWait", "join", "joined"}]

\* Before stop() no call is late.  After it the trigger is stopped, the token
\* perhaps in the hands of the timer, so that no test of isStopped() allows a
\* call: the one a test before stop() has allowed has not begun, or is counted.
TimerStopped ==
    \A t \in Timers :
        IF ctl[t] = "running" THEN late[t] = 0
        ELSE /\ m_sem[t] > 0 \/ pc[t] = "checkT"
             /\ late[t] = 0 \/ (late[t] = 1 /\ pc[t] # "call")

\* The inductive invariant of the timers
TimerIInv == TimerShape /\ TimerStopped

\* The timers have just been started.
LEMMA TimerInit == Timer!Init => TimerIInv
BY DEF Timer!Init, TimerIInv, TimerShape, TimerStopped

\* A step of one timer, or of the scheduler for it
LEMMA TimerKeeps ==
    ASSUME TimerIInv, NEW t \in Timers,
           Timer!TimerStep(t) \/ Timer!intervalOver(t) \/ Timer!StopStep(t) \/ Timer!startThread(t)
    PROVE  TimerIInv'
<1>. USE DEF TimerIInv, TimerShape, TimerStopped
<1>1. CASE Timer!startWait(t)
    BY <1>1 DEF Timer!startWait, Timer!Goto
<1>2. CASE Timer!check(t)
    BY <1>2 DEF Timer!check, Timer!Goto, Timer!SetSem
<1>3. CASE Timer!callFunction(t)
    BY <1>3 DEF Timer!callFunction, Timer!Goto
<1>4. CASE Timer!functionEnds(t)
    BY <1>4 DEF Timer!functionEnds, Timer!Goto
<1>5. CASE Timer!intervalOver(t)
    BY <1>5 DEF Timer!intervalOver
<1>6. CASE Timer!stopTimer(t)
    BY <1>6 DEF Timer!stopTimer, Timer!Ctl, Timer!SetSem
<1>7. CASE Timer!join(t)
    BY <1>7 DEF Timer!join, Timer!Ctl
<1>8. CASE Timer!startThread(t)
    BY <1>8 DEF Timer!startThread, Timer!Ctl, Timer!SetSem
<1>. QED
    BY <1>1, <1>2, <1>3, <1>4, <1>5, <1>6, <1>7, <1>8 DEF Timer!TimerStep, Timer!StopStep

\* Every step keeps the invariant of the timers.
LEMMA TimerNext == TimerIInv /\ [Timer!Next]_Timer!vars => TimerIInv'
<1>. SUFFICES ASSUME TimerIInv, [Timer!Next]_Timer!vars PROVE TimerIInv'
    OBVIOUS
<1>1. CASE Timer!stop \/ Timer!clear \/ UNCHANGED Timer!vars
    BY <1>1 DEF Timer!stop, Timer!clear, Timer!vars, TimerIInv, TimerShape, TimerStopped
<1>. QED
    BY <1>1, TimerKeeps DEF Timer!Next

\* A timer calls its function at most once after its stop(): the call that the
\* last isStopped() before it had allowed (modulescheduler.cpp:64-76).
THEOREM OneLateCall == Timer!Spec => []Timer!AtMostOneLateCall
<1>1. TimerIInv => Timer!AtMostOneLateCall
    BY DEF TimerIInv, TimerShape, TimerStopped, Timer!AtMostOneLateCall
<1>. QED
    BY <1>1, TimerInit, TimerNext, PTL DEF Timer!Spec

=============================================================================
