---------------------------- MODULE ModuleProofs ----------------------------
(****************************************************************************)
(* What Module guarantees for any number of senders, messages and restarts: *)
(* no wakeup of the module's thread is lost, messages are handled in order, *)
(* none outlives a restart, and the module implements the abstract Mailbox. *)
(****************************************************************************)
EXTENDS Module, TLAPS

USE ModuleAssumption

\* While the controller has the module stopped there is no thread.
Stopped ==
    ctl \in {"stopped", "assert", "assertT", "startHolder", "create"} => mainPc = "off"

\* How the flags of the holder, the wait set and the thread go together.
Waiting ==
    /\ m_wait_loop <=> mainPc = "asleep"
    /\ m_wait_exit => m_wait_loop
    /\ m_wait_loop /\ ~m_wait_exit => empty
    /\ main \in waiters => m_wait_loop /\ ~m_wait_exit

\* The thread has a message exactly when it is processing one.
Hand == cur # NoMsg <=> mainPc = "process"

\* The numbers of all messages have been handed out.
Numbers ==
    /\ \A i \in DOMAIN handled : handled[i] <= Len(born)
    /\ \A i \in DOMAIN m_container : m_container[i] <= Len(born)
    /\ cur # NoMsg => cur <= Len(born)

\* The inductive invariant
IInv == TypeOK /\ Stopped /\ Waiting /\ Hand /\ Numbers /\ InOrder

-----------------------------------------------------------------------------
\* A number above all others goes to the end of an ordered sequence.
LEMMA AppendOrdered ==
    ASSUME NEW s \in Seq(Nat), NEW m \in Nat, Ordered(s),
           \A i \in DOMAIN s : s[i] < m
    PROVE  Ordered(Append(s, m))
BY DEF Ordered

\* What is true of all elements of a sequence is true of its front and rest.
LEMMA TailElements ==
    ASSUME NEW s \in Seq(Nat), s # <<>>
    PROVE  /\ 1 \in DOMAIN s /\ Head(s) = s[1]
           /\ \A i \in DOMAIN Tail(s) : i + 1 \in DOMAIN s /\ Tail(s)[i] = s[i + 1]
OBVIOUS

\* The front of an ordered sequence is below the rest, which is ordered.
LEMMA TailOrdered ==
    ASSUME NEW s \in Seq(Nat), s # <<>>, Ordered(s)
    PROVE  /\ Ordered(Tail(s))
           /\ \A i \in DOMAIN Tail(s) : Head(s) < Tail(s)[i]
<1>1. Tail(s) \in Seq(Nat) /\ DOMAIN Tail(s) \subseteq Nat \ {0}
    OBVIOUS
<1>2. ASSUME NEW i \in DOMAIN Tail(s), NEW j \in DOMAIN Tail(s), i < j
      PROVE  Tail(s)[i] < Tail(s)[j]
    <2>1. i + 1 < j + 1
        BY <1>1, <1>2
    <2>. QED
        BY <1>2, <2>1, TailElements DEF Ordered
<1>3. ASSUME NEW i \in DOMAIN Tail(s) PROVE Head(s) < Tail(s)[i]
    <2>1. 1 < i + 1
        BY <1>1
    <2>. QED
        BY <2>1, TailElements DEF Ordered
<1>. QED
    BY <1>2, <1>3 DEF Ordered

\* The two ways in which get() returns to the module's thread.
LEMMA GetReturns ==
    ASSUME TypeOK, NEW from, getReturns(from)
    PROVE  \/ /\ cur' = NoMsg
              /\ mainPc' = "error"
              /\ m_container' = m_container
           \/ /\ ~m_stop /\ m_container # <<>>
              /\ cur' = Head(m_container) /\ cur' \in 1..MaxMsgs
              /\ mainPc' = "process"
              /\ m_container' = Tail(m_container) /\ m_container' \in Seq(1..MaxMsgs)
<1>1. CASE m_stop \/ m_container = <<>>
    BY <1>1 DEF getReturns, finish, got, empty, Main
<1>2. CASE ~m_stop /\ m_container # <<>>
    <2>1. Head(m_container) \in 1..MaxMsgs /\ Tail(m_container) \in Seq(1..MaxMsgs)
        BY <1>2 DEF TypeOK
    <2>. QED
        BY <1>2, <2>1 DEF getReturns, finish, got, empty, Main
<1>. QED
    BY <1>1, <1>2

-----------------------------------------------------------------------------
\* The invariant holds in the initial state.
LEMMA InitIInv == Init => IInv
<1>. SUFFICES ASSUME Init PROVE IInv
    OBVIOUS
<1>. USE DEF Init, HolderInit
<1>1. TypeOK
    <2>1. m_stop \in BOOLEAN /\ m_wait_exit \in BOOLEAN /\ m_wait_loop \in BOOLEAN
        BY Zenon
    <2>2. m_container \in Seq(1..MaxMsgs) /\ handled \in Seq(1..MaxMsgs) /\ born \in Seq(Nat)
        OBVIOUS
    <2>3. sender \in [Senders -> SenderPc]
        BY DEF SenderPc
    <2>. QED
        BY <2>1, <2>2, <2>3 DEF TypeOK, MainPc, CtlPc
<1>2. Stopped /\ Waiting /\ Hand
    BY DEF Stopped, Waiting, Hand, empty
<1>3. Numbers /\ InOrder
    BY DEF Numbers, InOrder, Ordered
<1>. QED
    BY <1>1, <1>2, <1>3 DEF IInv

\* Every step keeps the types.
LEMMA NextTypeOK == IInv /\ [Next]_vars => TypeOK'
<1>. SUFFICES ASSUME IInv, [Next]_vars PROVE TypeOK'
    OBVIOUS
<1>. TypeOK /\ Hand
    BY DEF IInv
<1>. USE DEF TypeOK, MainPc, CtlPc, SenderPc, holderVars, history, Main, Ctl, Sender
<1>1. CASE preMainLoop \/ mainCheck \/ mainError \/ postMainLoop
    BY <1>1 DEF preMainLoop, mainCheck, mainError, postMainLoop, busy, take, post
<1>2. ASSUME NEW from, getReturns(from) PROVE TypeOK'
    BY <1>2, GetReturns DEF getReturns, finish
<1>3. CASE mainGet
    BY <1>3, <1>2 DEF mainGet, sleep
<1>4. CASE mainWakes
    BY <1>4, <1>2 DEF mainWakes, sleep
<1>5. CASE process
    BY <1>5 DEF process, Hand
<1>6. CASE spuriousWakeup
    BY <1>6 DEF spuriousWakeup, leaveWaitSet
<1>7. ASSUME NEW s \in Senders, addMessage(s) PROVE TypeOK'
    <2>1. CASE add(Len(born) + 1) /\ Len(born) < MaxMsgs
        <3>1. m_container' \in Seq(1..MaxMsgs)
            BY <2>1 DEF add, addUnsafe
        <3>2. m_wait_exit' \in BOOLEAN /\ waiters' \in SUBSET {main}
            BY <2>1 DEF add, wake
        <3>3. born' \in Seq(Nat) /\ Len(born') <= MaxMsgs
            <4>1. Append(born, incarnation) \in Seq(Nat) /\ Len(Append(born, incarnation)) = Len(born) + 1
                BY DEF incarnation
            <4>2. born' = Append(born, incarnation) \/ born' = born
                BY <1>7 DEF addMessage
            <4>3. Len(born) + 1 <= MaxMsgs
                BY <2>1
            <4>4. Len(born') <= MaxMsgs
                BY <4>1, <4>2, <4>3
            <4>. QED
                BY <4>1, <4>2, <4>4
        <3>. QED
            BY <1>7, <2>1, <3>1, <3>2, <3>3 DEF addMessage, add
    <2>2. CASE UNCHANGED <<holderVars, born>>
        BY <1>7, <2>2 DEF addMessage
    <2>. QED
        BY <1>7, <2>1, <2>2 DEF addMessage
<1>8. ASSUME NEW s \in Senders, senderCheck(s) PROVE TypeOK'
    <2>1. sender' \in [Senders -> SenderPc]
        BY <1>8 DEF senderCheck
    <2>2. m_sem' \in Nat
        BY <1>8 DEF senderCheck, busy, take, post
    <2>. QED
        BY <1>8, <2>1, <2>2 DEF senderCheck
<1>9. CASE stopThread \/ skipStop \/ join \/ initTrigger \/ initAssert \/ createThread
    BY <1>9 DEF stopThread, skipStop, join, initTrigger, initAssert, createThread,
        busy, take, post, reinit
<1>10. CASE stopContainer
    <2>1. m_container' \in Seq(1..MaxMsgs)
        <3>1. <<>> \in Seq(1..MaxMsgs)
            OBVIOUS
        <3>2. m_container' = <<>> \/ m_container' = m_container
            BY <1>10 DEF stopContainer, stopClear, stopBase
        <3>. QED
            BY <3>1, <3>2
    <2>2. m_stop' \in BOOLEAN /\ m_wait_exit' \in BOOLEAN
        BY <1>10, Zenon DEF stopContainer, stopClear, stopBase, wake
    <2>3. waiters' \in SUBSET {main}
        BY <1>10 DEF stopContainer, stopClear, stopBase, wake
    <2>. QED
        BY <1>10, <2>1, <2>2, <2>3 DEF stopContainer, stopClear, stopBase
<1>11. CASE initHolder
    <2>1. m_stop' \in BOOLEAN /\ m_wait_exit' \in BOOLEAN /\ m_wait_loop' \in BOOLEAN
        BY <1>11, Zenon DEF initHolder, start
    <2>. QED
        BY <1>11, <2>1 DEF initHolder, start
<1>12. CASE UNCHANGED vars
    BY <1>12 DEF vars
<1>. QED
    BY <1>1, <1>3, <1>4, <1>5, <1>6, <1>7, <1>8, <1>9, <1>10, <1>11, <1>12
    DEF Next, MainStep, StopStep, InitStep

\* Every step keeps the flags, the wait set and the thread together.
LEMMA NextWaiting == IInv /\ [Next]_vars => Stopped' /\ Waiting' /\ Hand'
<1>. SUFFICES ASSUME IInv, [Next]_vars PROVE Stopped' /\ Waiting' /\ Hand'
    OBVIOUS
<1>. TypeOK /\ Stopped /\ Waiting /\ Hand
    BY DEF IInv
<1>. waiters \subseteq {main}
    BY DEF TypeOK
<1>. USE DEF Stopped, Waiting, Hand, empty, holderVars, history, Main, Ctl, Sender
<1>1. CASE preMainLoop \/ mainCheck \/ mainError \/ postMainLoop
    BY <1>1 DEF preMainLoop, mainCheck, mainError, postMainLoop
<1>2. ASSUME NEW from \in {"get", "asleep"}, getReturns(from), main \notin waiters
      PROVE  Stopped' /\ Waiting' /\ Hand'
    BY <1>2, GetReturns DEF getReturns, finish
<1>3. CASE mainGet
    BY <1>3, <1>2 DEF mainGet, sleep, mustSleep
<1>4. CASE mainWakes
    BY <1>4, <1>2 DEF mainWakes, sleep, sleepsAgain
<1>5. CASE process
    BY <1>5 DEF process
<1>6. CASE spuriousWakeup
    BY <1>6 DEF spuriousWakeup, leaveWaitSet
<1>7. ASSUME NEW s \in Senders, addMessage(s) PROVE Stopped' /\ Waiting' /\ Hand'
    BY <1>7 DEF addMessage, add, wake
<1>8. ASSUME NEW s \in Senders, senderCheck(s) PROVE Stopped' /\ Waiting' /\ Hand'
    BY <1>8 DEF senderCheck
<1>9. CASE stopThread \/ skipStop \/ join \/ initTrigger \/ initAssert \/ createThread
    BY <1>9 DEF stopThread, skipStop, join, initTrigger, initAssert, createThread
<1>10. CASE stopContainer
    BY <1>10 DEF stopContainer, stopClear, stopBase, wake
<1>11. CASE initHolder
    BY <1>11 DEF initHolder, start
<1>12. CASE UNCHANGED vars
    BY <1>12 DEF vars
<1>. QED
    BY <1>1, <1>3, <1>4, <1>5, <1>6, <1>7, <1>8, <1>9, <1>10, <1>11, <1>12
    DEF Next, MainStep, StopStep, InitStep

\* Every step keeps the messages in order.
LEMMA NextInOrder == IInv /\ [Next]_vars => Numbers' /\ InOrder'
<1>. SUFFICES ASSUME IInv, [Next]_vars PROVE Numbers' /\ InOrder'
    OBVIOUS
<1>. TypeOK /\ Hand /\ Numbers /\ InOrder
    BY DEF IInv
<1>0. /\ m_container \in Seq(Nat) /\ handled \in Seq(Nat)
      /\ Len(born) \in Nat
      /\ cur # NoMsg => cur \in Nat
    BY DEF TypeOK
<1>. USE DEF holderVars, history, Main
<1>1. ASSUME UNCHANGED <<m_container, cur, handled, born>>
      PROVE  Numbers' /\ InOrder'
    BY <1>1 DEF Numbers, InOrder, Ordered
<1>2. ASSUME NEW from \in {"get", "asleep"}, getReturns(from)
      PROVE  Numbers' /\ InOrder'
    <2>. UNCHANGED <<handled, born>>
        BY <1>2 DEF getReturns
    <2>1. cur = NoMsg
        BY <1>2 DEF getReturns, Hand
    <2>2. CASE cur' = NoMsg /\ m_container' = m_container
        BY <2>2 DEF Numbers, InOrder, Ordered
    <2>3. CASE /\ m_container # <<>>
               /\ cur' = Head(m_container) /\ m_container' = Tail(m_container)
        <3>1. /\ Ordered(m_container')
              /\ \A i \in DOMAIN m_container' : cur' < m_container'[i]
            BY <1>0, <2>3, TailOrdered DEF InOrder
        <3>2. /\ 1 \in DOMAIN m_container /\ cur' = m_container[1]
              /\ \A i \in DOMAIN m_container' :
                    i + 1 \in DOMAIN m_container /\ m_container'[i] = m_container[i + 1]
            BY <1>0, <2>3, TailElements
        <3>3. Numbers'
            BY <3>2 DEF Numbers
        <3>4. InOrder'
            BY <3>1, <3>2 DEF InOrder, Ordered
        <3>. QED
            BY <3>3, <3>4
    <2>. QED
        BY <1>2, <2>2, <2>3, GetReturns
<1>3. CASE mainGet
    BY <1>3, <1>1, <1>2 DEF mainGet, sleep
<1>4. CASE mainWakes
    BY <1>4, <1>1, <1>2 DEF mainWakes, sleep
<1>5. CASE process
    <2>1. cur # NoMsg /\ cur \in Nat /\ cur' = NoMsg
        BY <1>0, <1>5 DEF process, Hand
    <2>2. handled' = Append(handled, cur) /\ UNCHANGED <<m_container, born>>
        BY <1>5 DEF process
    <2>3. Ordered(handled')
        BY <1>0, <2>1, <2>2, AppendOrdered DEF InOrder
    <2>4. \A i \in DOMAIN handled' : (i \in DOMAIN handled /\ handled'[i] = handled[i]) \/ handled'[i] = cur
        BY <1>0, <2>1, <2>2
    <2>5. Numbers'
        BY <2>1, <2>2, <2>4 DEF Numbers
    <2>6. InOrder'
        BY <2>1, <2>2, <2>3, <2>4 DEF InOrder, Ordered
    <2>. QED
        BY <2>5, <2>6
<1>6. ASSUME NEW s \in Senders, addMessage(s) PROVE Numbers' /\ InOrder'
    <2>. DEFINE m == Len(born) + 1
    <2>1. CASE m_container' = Append(m_container, m) /\ born' = Append(born, incarnation)
        <3>. UNCHANGED <<cur, handled>>
            BY <1>6 DEF addMessage
        <3>0. Len(born') = m /\ m \in Nat /\ m > Len(born)
            BY <1>0, <2>1 DEF TypeOK, incarnation
        <3>1. \A i \in DOMAIN m_container' :
                (i \in DOMAIN m_container /\ m_container'[i] = m_container[i]) \/ m_container'[i] = m
            BY <1>0, <2>1, <3>0
        <3>2. /\ \A i \in DOMAIN m_container : m_container[i] \in Nat /\ m_container[i] < m
              /\ \A i \in DOMAIN handled : handled[i] \in Nat /\ handled[i] < m
              /\ cur # NoMsg => cur < m
            BY <1>0, <3>0 DEF Numbers
        <3>3. Ordered(m_container')
            BY <1>0, <2>1, <3>0, <3>2, AppendOrdered DEF InOrder
        <3>4. Numbers'
            BY <1>0, <3>0, <3>1, <3>2 DEF Numbers
        <3>5. InOrder'
            BY <3>1, <3>2, <3>3 DEF InOrder, Ordered
        <3>. QED
            BY <3>4, <3>5
    <2>2. CASE UNCHANGED <<m_container, born>>
        BY <1>6, <1>1, <2>2 DEF addMessage
    <2>. QED
        BY <1>6, <2>1, <2>2 DEF addMessage, add, addUnsafe
<1>7. CASE stopContainer
    <2>1. CASE m_container' = <<>>
        BY <1>7, <2>1 DEF stopContainer, Numbers, InOrder, Ordered
    <2>2. CASE UNCHANGED m_container
        BY <1>7, <1>1, <2>2 DEF stopContainer
    <2>. QED
        BY <1>7, <2>1, <2>2 DEF stopContainer, stopClear, stopBase
<1>8. CASE preMainLoop \/ mainCheck \/ mainError \/ postMainLoop \/ spuriousWakeup
    BY <1>8, <1>1 DEF preMainLoop, mainCheck, mainError, postMainLoop, spuriousWakeup, leaveWaitSet
<1>9. ASSUME NEW s \in Senders, senderCheck(s) PROVE Numbers' /\ InOrder'
    BY <1>9, <1>1 DEF senderCheck
<1>10. CASE stopThread \/ skipStop \/ join \/ initTrigger \/ initAssert \/ createThread \/ initHolder
    BY <1>10, <1>1 DEF stopThread, skipStop, join, initTrigger, initAssert, createThread, initHolder, start
<1>11. CASE UNCHANGED vars
    BY <1>11, <1>1 DEF vars
<1>. QED
    BY <1>3, <1>4, <1>5, <1>6, <1>7, <1>8, <1>9, <1>10, <1>11 DEF Next, MainStep, StopStep, InitStep

\* The invariant is inductive.
LEMMA IInvInvariant == Spec => []IInv
<1>1. IInv /\ [Next]_vars => IInv'
    BY NextTypeOK, NextWaiting, NextInOrder DEF IInv
<1>. QED
    BY InitIInv, <1>1, PTL DEF Spec

-----------------------------------------------------------------------------
\* Type correctness of the module's state.
THEOREM TypeCorrect == Spec => []TypeOK
BY IInvInvariant, PTL DEF IInv

\* The module's thread never sleeps in get() next to a message or a wakeup
\* (MessageHolderBase::add, get and stop).
THEOREM NoWakeupLost == Spec => []NoLostWakeup
<1>1. IInv => NoLostWakeup
    BY DEF IInv, Waiting, NoLostWakeup
<1>. QED
    BY <1>1, IInvInvariant, PTL

\* A module's thread that has exited left the holder clean.
THEOREM ExitIsClean == Spec => []ExitedIsNotWaiting
<1>1. IInv => ExitedIsNotWaiting
    BY DEF IInv, TypeOK, Waiting, ExitedIsNotWaiting
<1>. QED
    BY <1>1, IInvInvariant, PTL

\* Messages are processed in the order in which addMessage accepted them,
\* and none twice.
THEOREM HandledInOrder == Spec => []InOrder
BY IInvInvariant, PTL DEF IInv

-----------------------------------------------------------------------------
\* The initial state of the module is one of the abstract mailbox.
LEMMA InitMail == Init => Mail!Init
<1>. SUFFICES ASSUME Init PROVE Mail!Init
    OBVIOUS
<1>1. (~m_stop) = TRUE
    BY Zenon DEF Init, HolderInit
<1>. QED
    BY <1>1 DEF Init, HolderInit, Mail!Init

\* Every step of the module is a step of the abstract mailbox or leaves it.
LEMMA NextMail == IInv /\ [Next]_vars => [Mail!Next]_Mail!vars
<1>. SUFFICES ASSUME IInv, [Next]_vars PROVE [Mail!Next]_Mail!vars
    OBVIOUS
<1>. TypeOK /\ Hand
    BY DEF IInv
<1>. USE DEF holderVars, history, Main
<1>1. ASSUME UNCHANGED <<m_stop, m_container, cur, handled, born>>
      PROVE  [Mail!Next]_Mail!vars
    BY <1>1 DEF Mail!vars
<1>2. ASSUME NEW from \in {"get", "asleep"}, getReturns(from)
      PROVE  [Mail!Next]_Mail!vars
    <2>. UNCHANGED <<m_stop, handled, born>>
        BY <1>2 DEF getReturns, finish
    <2>1. cur = NoMsg
        BY <1>2 DEF getReturns, Hand
    <2>2. CASE cur' = NoMsg /\ m_container' = m_container
        BY <1>1, <2>1, <2>2
    <2>3. CASE /\ ~m_stop /\ m_container # <<>>
               /\ cur' = Head(m_container) /\ m_container' = Tail(m_container)
        BY <2>1, <2>3 DEF Mail!Next, Mail!Take
    <2>. QED
        BY <1>2, <2>2, <2>3, GetReturns
<1>3. CASE mainGet
    BY <1>3, <1>1, <1>2 DEF mainGet, sleep
<1>4. CASE mainWakes
    BY <1>4, <1>1, <1>2 DEF mainWakes, sleep
<1>5. CASE process
    BY <1>5 DEF process, Hand, Mail!Next, Mail!Finish
<1>6. ASSUME NEW s \in Senders, addMessage(s) PROVE [Mail!Next]_Mail!vars
    <2>1. CASE add(Len(born) + 1) /\ born' = Append(born, incarnation)
        <3>1. Len(born') = Len(born) + 1
            BY <2>1 DEF TypeOK, incarnation
        <3>. QED
            BY <1>6, <2>1, <3>1 DEF addMessage, add, addUnsafe, Mail!Next, Mail!Post
    <2>2. CASE UNCHANGED <<holderVars, born>>
        BY <1>6, <1>1, <2>2 DEF addMessage
    <2>. QED
        BY <1>6, <2>1, <2>2 DEF addMessage
<1>7. CASE stopContainer
    <2>1. CASE stopClear
        BY <1>7, <2>1 DEF stopContainer, stopClear, Mail!Next, Mail!Discard
    <2>2. CASE stopBase
        <3>1. (~m_stop)' = FALSE
            BY <2>2, Zenon DEF stopBase
        <3>. QED
            BY <1>7, <2>2, <3>1 DEF stopContainer, stopBase, Mail!Next, Mail!Close
    <2>. QED
        BY <1>7, <2>1, <2>2 DEF stopContainer
<1>8. CASE initHolder
    <2>1. CASE m_stop
        <3>1. (~m_stop)' = TRUE
            BY <1>8, Zenon DEF initHolder, start
        <3>. QED
            BY <1>8, <2>1, <3>1 DEF initHolder, start, Mail!Next, Mail!Reopen
    <2>2. CASE ~m_stop
        <3>1. m_stop' = m_stop
            BY <1>8, <2>2, Zenon DEF initHolder, start, TypeOK
        <3>. QED
            BY <1>8, <1>1, <3>1 DEF initHolder, start
    <2>. QED
        BY <2>1, <2>2
<1>9. CASE preMainLoop \/ mainCheck \/ mainError \/ postMainLoop \/ spuriousWakeup
    BY <1>9, <1>1 DEF preMainLoop, mainCheck, mainError, postMainLoop, spuriousWakeup, leaveWaitSet
<1>10. ASSUME NEW s \in Senders, senderCheck(s) PROVE [Mail!Next]_Mail!vars
    BY <1>10, <1>1 DEF senderCheck
<1>11. CASE stopThread \/ skipStop \/ join \/ initTrigger \/ initAssert \/ createThread
    BY <1>11, <1>1 DEF stopThread, skipStop, join, initTrigger, initAssert, createThread
<1>12. CASE UNCHANGED vars
    BY <1>12, <1>1 DEF vars
<1>. QED
    BY <1>3, <1>4, <1>5, <1>6, <1>7, <1>8, <1>9, <1>10, <1>11, <1>12 DEF Next, MainStep, StopStep, InitStep

\* The module implements the abstract mailbox: what it does to its messages
\* under every interleaving is to accept, take, finish, discard, close and
\* reopen, as Mailbox allows.
THEOREM MailboxImplemented == Spec => ImplementsMailbox
BY IInvInvariant, InitMail, NextMail, PTL DEF Spec, ImplementsMailbox, Mail!Spec

-----------------------------------------------------------------------------
\* The controller is past the clear of stop() and has not counted a new start.
Cleared == {"base", "join", "stopped", "assert", "assertT", "startHolder"}

\* What is in the mailbox was accepted by this incarnation, and after the clear
\* of stop() by the next one; between the flag of stop() and start() nothing is
\* accepted; what is in hand is not older than the incarnation.
Clean ==
    /\ \A i \in DOMAIN m_container : born[m_container[i]] >= starts
    /\ ctl \in Cleared =>
          \A i \in DOMAIN m_container : born[m_container[i]] >= starts + 1
    /\ ctl \in Cleared \ {"base"} => m_stop
    /\ cur # NoMsg => born[cur] >= starts

\* A step that changes neither the mailbox, the hand nor the counts, and does not
\* bring the controller past the clear.
LEMMA CleanSame ==
    ASSUME Clean, UNCHANGED <<m_container, m_stop, cur, born, starts>>,
           ctl' \in Cleared => ctl \in Cleared /\ (ctl' # "base" => ctl # "base")
    PROVE  Clean'
BY DEF Clean, Cleared

\* Every step keeps the mailbox clean.
LEMMA NextClean == IInv /\ Clean /\ [Next]_vars => Clean'
<1>. SUFFICES ASSUME IInv, Clean, [Next]_vars PROVE Clean'
    OBVIOUS
<1>. TypeOK /\ Stopped /\ Hand /\ Numbers
    BY DEF IInv
<1>. USE DEF TypeOK, holderVars, history, Main, Ctl
<1>1. ASSUME NEW from, getReturns(from) PROVE Clean'
    <2>1. CASE m_stop \/ empty
        BY <1>1, <2>1 DEF getReturns, finish, got, Clean
    <2>2. CASE ~(m_stop \/ empty)
        <3>1. m_container # <<>> /\ cur' = Head(m_container) /\ m_container' = Tail(m_container)
            BY <1>1, <2>2 DEF getReturns, finish, got, empty
        <3>2. /\ 1 \in DOMAIN m_container /\ Head(m_container) = m_container[1]
              /\ \A i \in DOMAIN m_container' : i + 1 \in DOMAIN m_container /\ m_container'[i] = m_container[i + 1]
            BY <3>1
        <3>3. UNCHANGED <<m_stop, born, starts, ctl>>
            BY <1>1 DEF getReturns, finish
        <3>. QED
            BY <3>1, <3>2, <3>3 DEF Clean
    <2>. QED
        BY <2>1, <2>2
<1>2. CASE preMainLoop \/ mainCheck \/ mainError \/ postMainLoop \/ spuriousWakeup
    BY <1>2, CleanSame DEF preMainLoop, mainCheck, mainError, postMainLoop, spuriousWakeup, leaveWaitSet
<1>3. CASE mainGet \/ mainWakes
    BY <1>3, <1>1, CleanSame DEF mainGet, mainWakes, sleep
<1>4. CASE process
    BY <1>4 DEF process, Clean
<1>5. ASSUME NEW s \in Senders, addMessage(s) PROVE Clean'
    <2>1. CASE m_stop
        BY <1>5, <2>1, CleanSame DEF addMessage, add
    <2>2. CASE ~m_stop
        <3>1. /\ m_container' = Append(m_container, Len(born) + 1)
              /\ born' = Append(born, incarnation)
              /\ UNCHANGED <<m_stop, ctl, cur, starts>>
            BY <1>5, <2>2, ModuleAssumption DEF addMessage, add, addUnsafe
        <3>2. incarnation \in Nat /\ incarnation >= starts /\ (ctl = "base" => incarnation = starts + 1)
            BY DEF incarnation
        <3>3. /\ born'[Len(born) + 1] = incarnation
              /\ \A m \in 1..Len(born) : born'[m] = born[m]
            BY <3>1, <3>2
        <3>4. \A i \in DOMAIN m_container' :
                 \/ i \in DOMAIN m_container /\ m_container'[i] = m_container[i] /\ m_container[i] \in 1..Len(born)
                 \/ m_container'[i] = Len(born) + 1
            BY <3>1 DEF Numbers
        <3>5. cur # NoMsg => cur \in 1..Len(born)
            BY DEF Numbers
        <3>6. ctl \in Cleared => ctl = "base"
            BY <2>2 DEF Clean
        <3>7. ASSUME NEW i \in DOMAIN m_container'
              PROVE  /\ born'[m_container'[i]] >= starts
                     /\ ctl \in Cleared => born'[m_container'[i]] >= starts + 1
            <4>1. CASE i \in DOMAIN m_container /\ m_container'[i] = m_container[i] /\ m_container[i] \in 1..Len(born)
                BY <4>1, <3>3 DEF Clean
            <4>2. CASE m_container'[i] = Len(born) + 1
                BY <4>2, <3>2, <3>3, <3>6
            <4>. QED
                BY <3>4, <4>1, <4>2
        <3>8. cur # NoMsg => born'[cur] >= starts
            BY <3>3, <3>5 DEF Clean
        <3>. QED
            BY <3>1, <3>6, <3>7, <3>8 DEF Clean
    <2>. QED
        BY <2>1, <2>2
<1>6. ASSUME NEW s \in Senders, senderCheck(s) PROVE Clean'
    BY <1>6, CleanSame DEF senderCheck
<1>7. CASE stopThread \/ skipStop
    BY <1>7, CleanSame DEF stopThread, skipStop, Cleared
<1>8. CASE stopContainer
    <2>. UNCHANGED <<cur, born, starts>>
        BY <1>8 DEF stopContainer
    <2>1. CASE ctl = "clear"
        <3>1. ctl' = "base" /\ m_container' = <<>>
            BY <1>8, <2>1 DEF stopContainer, stopClear
        <3>. QED
            BY <3>1 DEF Clean, Cleared
    <2>2. CASE ctl = "base"
        <3>1. ctl' = "join" /\ m_container' = m_container
            BY <1>8, <2>2 DEF stopContainer, stopBase
        <3>2. m_stop'
            BY <1>8, <2>2, Zenon DEF stopContainer, stopBase
        <3>. QED
            BY <2>2, <3>1, <3>2 DEF Clean, Cleared
    <2>. QED
        BY <1>8, <2>1, <2>2 DEF stopContainer
<1>9. CASE join \/ initTrigger \/ initAssert \/ createThread
    BY <1>9, CleanSame DEF join, initTrigger, initAssert, createThread, Cleared
<1>10. CASE initHolder
    <2>1. cur = NoMsg
        BY <1>10 DEF initHolder, Stopped, Hand
    <2>. QED
        BY <1>10, <2>1 DEF initHolder, start, Clean, Cleared
<1>11. CASE UNCHANGED vars
    BY <1>11, CleanSame DEF vars
<1>. QED
    BY <1>2, <1>3, <1>4, <1>5, <1>6, <1>7, <1>8, <1>9, <1>10, <1>11 DEF Next, MainStep, StopStep, InitStep

\* No message that was accepted before the clear of a stop() is handled by a later
\* life of the module, for any number of senders, messages and restarts.
THEOREM RestartsClean == Spec => []RestartIsClean
<1>1. Init => Clean
    BY DEF Init, HolderInit, Clean, Cleared
<1>2. IInv /\ Clean => RestartIsClean
    BY DEF IInv, Hand, Clean, RestartIsClean
<1>. QED
    BY <1>1, <1>2, NextClean, IInvInvariant, PTL DEF Spec

=============================================================================
