---------------------------- MODULE SyncCallProofs ----------------------------
(****************************************************************************)
(* What sendSyncMessage guarantees for any number of calling threads,       *)
(* receivers, calls and UUIDs: an answer belongs to the call it ends, and a *)
(* call ends once.  The argument: UUIDs are fresh, so two callers never     *)
(* wait for the same one, and only responses that were sent reach the slot. *)
(* Then that all of it is a remote procedure call as module Rpc has it.     *)
(****************************************************************************)
EXTENDS SyncCall, TLAPS

USE SyncCallAssumption

\* What is in the slot was sent.
Slot == \A i \in DOMAIN m_container : m_container[i] \in answered

\* No two callers wait for the same UUID.
Fresh == \A c, d \in Callers : uuid[c] # NoMsg /\ uuid[c] = uuid[d] => c = d

\* A call that has not ended has no answer and has sent no trap.
Open ==
    \A c \in Callers : caller[c] # "idle" =>
        uuid[c] # NoMsg /\ result[c] = NoMsg /\ uuid[c] \notin trapped

\* No answer belongs to a call that has sent the trap.
NotTrapped == \A c \in Callers : result[c] \notin trapped

\* The inductive invariant
IInv == TypeOK /\ Slot /\ Fresh /\ Open /\ NotTrapped /\ AnswersMatch

-----------------------------------------------------------------------------
\* What get() returns is nothing, or was in the slot.
LEMMA GotType ==
    ASSUME TypeOK
    PROVE  /\ got = NoMsg \/ (got \in Uuids /\ \E i \in DOMAIN m_container : got = m_container[i])
           /\ finish => /\ m_container' = m_container \/ m_container' = <<>>
                        /\ m_container' \in Seq(Uuids) /\ Len(m_container') <= 1
<1>. m_container \in Seq(Uuids) /\ Len(m_container) <= 1
    BY DEF TypeOK
<1>1. CASE m_container = <<>>
    BY <1>1 DEF got, empty, finish
<1>2. CASE m_container # <<>>
    <2>1. 1 \in DOMAIN m_container /\ Head(m_container) = m_container[1] /\ Head(m_container) \in Uuids
        BY <1>2
    <2>2. Tail(m_container) = <<>>
        BY <1>2
    <2>3. got = NoMsg \/ got = Head(m_container)
        BY DEF got
    <2>4. ASSUME finish PROVE m_container' = m_container \/ m_container' = <<>>
        BY <2>2, <2>4 DEF finish
    <2>5. <<>> \in Seq(Uuids) /\ Len(<<>>) <= 1
        OBVIOUS
    <2>. QED
        BY <2>1, <2>3, <2>4, <2>5
<1>. QED
    BY <1>1, <1>2

\* The invariant holds in the initial state.
LEMMA InitIInv == Init => IInv
<1>. SUFFICES ASSUME Init PROVE IInv
    OBVIOUS
<1>1. TypeOK
    <2>1. m_stop \in BOOLEAN /\ m_wait_exit \in BOOLEAN /\ m_wait_loop \in BOOLEAN
        BY Zenon DEF Init, HolderInit
    <2>2. <<>> \in Seq(Uuids) /\ Len(<<>>) <= 1
        OBVIOUS
    <2>. QED
        BY <2>1, <2>2 DEF Init, HolderInit, TypeOK
<1>2. Slot /\ Fresh /\ Open /\ NotTrapped /\ AnswersMatch
    BY DEF Init, HolderInit, Slot, Fresh, Open, NotTrapped, AnswersMatch
<1>. QED
    BY <1>1, <1>2 DEF IInv

\* Every step keeps the types.
LEMMA NextTypeOK == IInv /\ [Next]_vars => TypeOK'
<1>. SUFFICES ASSUME IInv, [Next]_vars PROVE TypeOK'
    OBVIOUS
<1>. TypeOK /\ Open
    BY DEF IInv
<1>. USE DEF TypeOK, holderVars, callVars
<1>1. ASSUME NEW c \in Callers, NEW r \in Receivers, sendRequest(c, r) PROVE TypeOK'
    <2>1. PICK u \in Uuids : sendWith(c, r, u)
        BY <1>1 DEF sendRequest
    <2>2. Append(inbox[r], u) \in Seq(Uuids)
        OBVIOUS
    <2>3. inbox' \in [Receivers -> Seq(Uuids)]
        BY <2>1, <2>2 DEF sendWith
    <2>4. uuid' \in [Callers -> Uuids \cup {NoMsg}] /\ result' \in [Callers -> Uuids \cup {NoMsg}]
        BY <2>1 DEF sendWith
    <2>5. caller' \in [Callers -> {"idle", "get", "asleep"}]
        BY <2>1 DEF sendWith
    <2>6. answered' \in SUBSET Uuids /\ trapped' \in SUBSET Uuids
        BY <2>1 DEF sendWith
    <2>. QED
        BY <2>1, <2>3, <2>4, <2>5, <2>6 DEF sendWith
<1>10. ASSUME NEW c \in Callers, sendFails(c) PROVE TypeOK'
    BY <1>10 DEF sendFails
<1>2. ASSUME NEW c \in Callers, getReturns(c), caller[c] # "idle" PROVE TypeOK'
    <2>1. m_container' \in Seq(Uuids) /\ Len(m_container') <= 1
        BY <1>2, GotType DEF getReturns
    <2>2. got \in Uuids \cup {NoMsg}
        BY GotType
    <2>3. caller' \in [Callers -> {"idle", "get", "asleep"}]
        BY <1>2 DEF getReturns
    <2>4. result' \in [Callers -> Uuids \cup {NoMsg}]
        BY <1>2, <2>2 DEF getReturns
    <2>5. trapped' \in SUBSET Uuids
        <3>1. uuid[c] \in Uuids
            BY <1>2 DEF Open
        <3>2. trapped' = trapped \/ trapped' = trapped \cup {uuid[c]}
            BY <1>2 DEF getReturns
        <3>. QED
            BY <3>1, <3>2
    <2>. QED
        BY <1>2, <2>1, <2>3, <2>4, <2>5 DEF getReturns, finish
<1>3. ASSUME NEW c \in Callers, CallerStep(c) PROVE TypeOK'
    <2>1. CASE caller[c] # "idle" /\ getReturns(c)
        BY <2>1, <1>2
    <2>2. CASE sleep(c) /\ get(c) /\ ~getReturns(c)
        BY <2>2 DEF get, sleep
    <2>. QED
        BY <1>3, <2>1, <2>2 DEF CallerStep, get, wakes
<1>4. ASSUME NEW c \in Callers, timeout(c) PROVE TypeOK'
    BY <1>4 DEF timeout, leaveWaitSet
<1>5. ASSUME NEW r \in Receivers, respond(r) PROVE TypeOK'
    <2>1. Head(inbox[r]) \in Uuids /\ Tail(inbox[r]) \in Seq(Uuids)
        BY <1>5 DEF respond
    <2>2. m_container' = <<Head(inbox[r])>>
        BY <1>5 DEF respond, add, addUnsafe
    <2>3. m_container' \in Seq(Uuids) /\ Len(m_container') <= 1
        BY <2>1, <2>2
    <2>4. m_wait_exit' \in BOOLEAN /\ waiters' \in SUBSET Callers
        BY <1>5 DEF respond, add, wake
    <2>5. inbox' \in [Receivers -> Seq(Uuids)] /\ answered' \in SUBSET Uuids
        BY <1>5, <2>1 DEF respond
    <2>. QED
        BY <1>5, <2>3, <2>4, <2>5 DEF respond, add
<1>6. ASSUME NEW r \in Receivers, dropRequest(r) PROVE TypeOK'
    <2>1. Tail(inbox[r]) \in Seq(Uuids)
        BY <1>6 DEF dropRequest
    <2>2. inbox' \in [Receivers -> Seq(Uuids)]
        BY <1>6, <2>1 DEF dropRequest
    <2>. QED
        BY <1>6, <2>2 DEF dropRequest
<1>7. CASE stopHolder
    <2>1. m_container' = <<>> \/ m_container' = m_container
        BY <1>7 DEF stopHolder, stopClear, stopBase
    <2>2. m_container' \in Seq(Uuids) /\ Len(m_container') <= 1
        <3>1. <<>> \in Seq(Uuids) /\ Len(<<>>) <= 1
            OBVIOUS
        <3>. QED
            BY <2>1, <3>1
    <2>3. m_stop' \in BOOLEAN /\ m_wait_exit' \in BOOLEAN
        BY <1>7, Zenon DEF stopHolder, stopClear, stopBase, wake
    <2>4. waiters' \in SUBSET Callers /\ stopping' \in {"no", "cleared", "yes"}
        BY <1>7 DEF stopHolder, stopClear, stopBase, wake
    <2>. QED
        BY <1>7, <2>2, <2>3, <2>4 DEF stopHolder, stopClear, stopBase
<1>8. CASE startHolder
    <2>1. m_stop' \in BOOLEAN /\ m_wait_exit' \in BOOLEAN /\ m_wait_loop' \in BOOLEAN
        BY <1>8, Zenon DEF startHolder, start
    <2>. QED
        BY <1>8, <2>1 DEF startHolder, start
<1>9. CASE UNCHANGED vars
    BY <1>9 DEF vars
<1>. QED
    BY <1>1, <1>3, <1>4, <1>5, <1>6, <1>7, <1>8, <1>9, <1>10 DEF Next

\* Every step keeps answers, traps and UUIDs together.
LEMMA NextAnswers ==
    IInv /\ [Next]_vars => Slot' /\ Fresh' /\ Open' /\ NotTrapped' /\ AnswersMatch'
<1>. DEFINE Inv == Slot /\ Fresh /\ Open /\ NotTrapped /\ AnswersMatch
<1>. SUFFICES ASSUME IInv, [Next]_vars PROVE Inv'
    OBVIOUS
<1>. TypeOK /\ Slot /\ Fresh /\ Open /\ NotTrapped /\ AnswersMatch
    BY DEF IInv
<1>. /\ trapped \subseteq Uuids /\ answered \subseteq Uuids
     /\ caller \in [Callers -> {"idle", "get", "asleep"}]
     /\ uuid \in [Callers -> Uuids \cup {NoMsg}]
     /\ result \in [Callers -> Uuids \cup {NoMsg}]
    BY DEF TypeOK
<1>. USE DEF Slot, Fresh, Open, NotTrapped, AnswersMatch, holderVars, callVars
<1>0. ASSUME UNCHANGED <<caller, uuid, result, answered, trapped>>,
             m_container' = m_container \/ m_container' = <<>>
      PROVE  Inv'
    BY <1>0
<1>1. ASSUME NEW c \in Callers, NEW r \in Receivers, sendRequest(c, r) PROVE Inv'
    <2>1. PICK u \in Uuids \ inUse : sendWith(c, r, u)
        BY <1>1 DEF sendRequest
    <2>2. /\ \A d \in Callers : uuid[d] # u
          /\ \A i \in DOMAIN m_container : m_container[i] # u
        BY <2>1 DEF inUse, Range
    <2>3. Slot' /\ NotTrapped' /\ AnswersMatch'
        BY <2>1, <2>2 DEF sendWith
    <2>4. Fresh'
        BY <2>1, <2>2 DEF sendWith
    <2>5. Open'
        BY <2>1, <2>2 DEF sendWith
    <2>. QED
        BY <2>3, <2>4, <2>5
<1>9. ASSUME NEW c \in Callers, sendFails(c) PROVE Inv'
    BY <1>9 DEF sendFails
<1>2. ASSUME NEW c \in Callers, getReturns(c), caller[c] # "idle" PROVE Inv'
    <2>0. m_container' = m_container \/ m_container' = <<>>
        BY <1>2, GotType DEF getReturns
    <2>1. UNCHANGED <<uuid, answered>>
        BY <1>2 DEF getReturns
    <2>2. got # NoMsg => got \in answered
        BY GotType
    <2>3. Slot'
        BY <2>0, <2>1
    <2>4. CASE got = NoMsg
        <3>1. trapped' = trapped \cup {uuid[c]} /\ UNCHANGED result
              /\ caller' = [caller EXCEPT ![c] = "idle"]
            BY <1>2, <2>4 DEF getReturns
        <3>2. Fresh' /\ Open' /\ AnswersMatch'
            BY <1>2, <2>1, <3>1
        <3>3. NotTrapped'
            BY <1>2, <2>1, <3>1
        <3>. QED
            BY <2>3, <3>2, <3>3
    <2>5. CASE got # NoMsg
        <3>1. UNCHANGED trapped
            BY <1>2, <2>5 DEF getReturns
        <3>2. CASE got = uuid[c]
            <4>1. result' = [result EXCEPT ![c] = got] /\ caller' = [caller EXCEPT ![c] = "idle"]
                BY <1>2, <2>5, <3>2 DEF getReturns, accepts
            <4>. QED
                BY <1>2, <2>1, <2>2, <2>3, <2>5, <3>1, <3>2, <4>1
        <3>3. CASE got # uuid[c]
            <4>1. result' = result /\ caller' = [caller EXCEPT ![c] = "get"]
                BY <1>2, <2>5, <3>3 DEF getReturns, accepts
            <4>. QED
                BY <1>2, <2>1, <2>3, <3>1, <4>1
        <3>. QED
            BY <3>2, <3>3
    <2>. QED
        BY <2>4, <2>5
<1>3. ASSUME NEW c \in Callers, CallerStep(c) PROVE Inv'
    <2>1. CASE caller[c] # "idle" /\ getReturns(c)
        BY <2>1, <1>2
    <2>2. CASE sleep(c) /\ get(c) /\ ~getReturns(c)
        <3>1. /\ caller[c] = "get" /\ caller' = [caller EXCEPT ![c] = "asleep"]
              /\ UNCHANGED <<uuid, result, answered, trapped, m_container>>
            BY <2>2 DEF get, sleep
        <3>. QED
            BY <3>1
    <2>. QED
        BY <1>3, <2>1, <2>2 DEF CallerStep, get, wakes
<1>4. ASSUME NEW c \in Callers, timeout(c) PROVE Inv'
    BY <1>0, <1>4 DEF timeout, leaveWaitSet
<1>5. ASSUME NEW r \in Receivers, respond(r) PROVE Inv'
    BY <1>5 DEF respond, add, addUnsafe
<1>6. ASSUME NEW r \in Receivers, dropRequest(r) PROVE Inv'
    BY <1>0, <1>6 DEF dropRequest
<1>7. CASE stopHolder \/ startHolder
    BY <1>0, <1>7 DEF stopHolder, stopClear, stopBase, startHolder, start
<1>8. CASE UNCHANGED vars
    BY <1>0, <1>8 DEF vars
<1>. QED
    BY <1>1, <1>3, <1>4, <1>5, <1>6, <1>7, <1>8, <1>9 DEF Next

\* The invariant is inductive.
LEMMA IInvInvariant == Spec => []IInv
<1>1. IInv /\ [Next]_vars => IInv'
    BY NextTypeOK, NextAnswers DEF IInv
<1>. QED
    BY InitIInv, <1>1, PTL DEF Spec

-----------------------------------------------------------------------------
\* Type correctness of the calls.
THEOREM TypeCorrect == Spec => []TypeOK
BY IInvInvariant, PTL DEF IInv

\* A late response is never taken for the answer to another call
\* (Module::sendSyncMessage compares the UUIDs).
THEOREM AnswersAlwaysMatch == Spec => []AnswersMatch
BY IInvInvariant, PTL DEF IInv

\* A call of sendSyncMessage ends once: with an answer nobody else has, or
\* with the trap.
THEOREM CallsEndOnce == Spec => []OneEndPerCall
<1>1. IInv => OneEndPerCall
    BY DEF IInv, Fresh, NotTrapped, AnswersMatch, OneEndPerCall
<1>. QED
    BY <1>1, IInvInvariant, PTL
-----------------------------------------------------------------------------
\* A request is in one mailbox, once.
Once ==
    \A r, q \in Receivers : \A i \in DOMAIN inbox[r], j \in DOMAIN inbox[q] :
        inbox[r][i] = inbox[q][j] => r = q /\ i = j

\* What the first request leaves behind when it is taken out
LEMMA TakesOne ==
    ASSUME TypeOK, Once, NEW r \in Receivers, inbox[r] # <<>>,
           inbox' = [inbox EXCEPT ![r] = Tail(@)]
    PROVE  Once' /\ Head(inbox[r]) \in pending /\ pending' = pending \ {Head(inbox[r])}
<1>. DEFINE h == Head(inbox[r])
<1>1. /\ inbox \in [Receivers -> Seq(Uuids)] /\ inbox[r] \in Seq(Uuids)
    BY DEF TypeOK
<1>2. /\ 1 \in DOMAIN inbox[r] /\ h = inbox[r][1]
      /\ \A i \in DOMAIN Tail(inbox[r]) : i + 1 \in DOMAIN inbox[r] /\ Tail(inbox[r])[i] = inbox[r][i + 1]
      /\ \A i \in DOMAIN inbox[r] : i # 1 => i - 1 \in DOMAIN Tail(inbox[r])
                                              /\ Tail(inbox[r])[i - 1] = inbox[r][i]
    BY <1>1
<1>3. inbox'[r] = Tail(inbox[r]) /\ \A q \in Receivers \ {r} : inbox'[q] = inbox[q]
    BY <1>1
<1>8. DOMAIN Tail(inbox[r]) \subseteq Nat
    BY <1>1, <1>2
<1>4. Once'
    BY <1>2, <1>3, <1>8 DEF Once
<1>5. h \in pending
    BY <1>2 DEF pending, Range
<1>6. \A q \in Receivers : \A j \in DOMAIN inbox'[q] : inbox'[q][j] \in pending \ {h}
    <2>. SUFFICES ASSUME NEW q \in Receivers, NEW j \in DOMAIN inbox'[q]
                  PROVE  inbox'[q][j] \in pending \ {h}
        OBVIOUS
    <2>1. CASE q = r
        <3>0. j \in DOMAIN Tail(inbox[r]) /\ inbox'[q][j] = Tail(inbox[r])[j] /\ DOMAIN Tail(inbox[r]) \subseteq Nat \ {0}
            BY <1>1, <1>2, <1>3, <2>1
        <3>1. j + 1 # 1 /\ j + 1 \in DOMAIN inbox[r] /\ inbox'[q][j] = inbox[r][j + 1]
            BY <1>2, <3>0
        <3>2. inbox[r][j + 1] # h
            BY <1>2, <3>1 DEF Once
        <3>. QED
            BY <3>1, <3>2 DEF pending, Range
    <2>2. CASE q # r
        <3>1. j \in DOMAIN inbox[q] /\ inbox'[q][j] = inbox[q][j]
            BY <1>3, <2>2
        <3>2. inbox[q][j] # h
            BY <1>2, <2>2, <3>1 DEF Once
        <3>. QED
            BY <3>1, <3>2 DEF pending, Range
    <2>. QED
        BY <2>1, <2>2
<1>7. \A q \in Receivers : \A i \in DOMAIN inbox[q] : inbox[q][i] # h => inbox[q][i] \in pending'
    <2>. SUFFICES ASSUME NEW q \in Receivers, NEW i \in DOMAIN inbox[q], inbox[q][i] # h
                  PROVE  inbox[q][i] \in pending'
        OBVIOUS
    <2>1. CASE q = r
        <3>1. i # 1 /\ i - 1 \in DOMAIN inbox'[r] /\ inbox'[r][i - 1] = inbox[r][i]
            BY <1>2, <1>3, <2>1
        <3>. QED
            BY <2>1, <3>1 DEF pending, Range
    <2>2. CASE q # r
        BY <1>3, <2>2 DEF pending, Range
    <2>. QED
        BY <2>1, <2>2
<1>. QED
    BY <1>4, <1>5, <1>6, <1>7 DEF pending, Range

\* A request goes out once.
LEMMA OnceInvariant == Spec => []Once
<1>1. Init => Once
    BY DEF Init, Once
<1>2. IInv /\ Once /\ [Next]_vars => Once'
    <2>. SUFFICES ASSUME IInv, Once, [Next]_vars PROVE Once'
        OBVIOUS
    <2>. TypeOK
        BY DEF IInv
    <2>. inbox \in [Receivers -> Seq(Uuids)]
        BY DEF TypeOK
    <2>1. ASSUME NEW c \in Callers, NEW r \in Receivers, sendRequest(c, r) PROVE Once'
        <3>1. PICK u \in Uuids \ inUse : sendWith(c, r, u)
            BY <2>1 DEF sendRequest
        <3>2. \A q \in Receivers : \A i \in DOMAIN inbox[q] : inbox[q][i] # u
            BY <3>1 DEF inUse, pending, Range
        <3>3. inbox'[r] = Append(inbox[r], u) /\ \A q \in Receivers \ {r} : inbox'[q] = inbox[q]
            BY <3>1 DEF sendWith
        <3>4. \A i \in DOMAIN inbox'[r] :
                  \/ i \in DOMAIN inbox[r] /\ inbox'[r][i] = inbox[r][i]
                  \/ i = Len(inbox[r]) + 1 /\ inbox'[r][i] = u
            BY <3>3
        <3>. QED
            <4>. SUFFICES ASSUME NEW p \in Receivers, NEW q \in Receivers,
                                 NEW i \in DOMAIN inbox'[p], NEW j \in DOMAIN inbox'[q],
                                 inbox'[p][i] = inbox'[q][j]
                          PROVE  p = q /\ i = j
                BY DEF Once
            <4>1. CASE p = r /\ q = r
                BY <3>2, <3>4, <4>1 DEF Once
            <4>2. CASE p = r /\ q # r
                <5>1. j \in DOMAIN inbox[q] /\ inbox'[q][j] = inbox[q][j] /\ inbox[q][j] # u
                    BY <3>2, <3>3, <4>2
                <5>2. i \in DOMAIN inbox[r] /\ inbox'[p][i] = inbox[r][i]
                    BY <3>4, <4>2, <5>1
                <5>. QED
                    BY <4>2, <5>1, <5>2 DEF Once
            <4>3. CASE p # r /\ q = r
                <5>1. i \in DOMAIN inbox[p] /\ inbox'[p][i] = inbox[p][i] /\ inbox[p][i] # u
                    BY <3>2, <3>3, <4>3
                <5>2. j \in DOMAIN inbox[r] /\ inbox'[q][j] = inbox[r][j]
                    BY <3>4, <4>3, <5>1
                <5>. QED
                    BY <4>3, <5>1, <5>2 DEF Once
            <4>4. CASE p # r /\ q # r
                BY <3>3, <4>4 DEF Once
            <4>. QED
                BY <4>1, <4>2, <4>3, <4>4
    <2>2. ASSUME NEW r \in Receivers, respond(r) \/ dropRequest(r) PROVE Once'
        BY <2>2, TakesOne DEF respond, dropRequest
    <2>3. CASE UNCHANGED inbox
        BY <2>3 DEF Once
    <2>. QED
        BY <2>1, <2>2, <2>3 DEF Next, CallerStep, get, wakes, getReturns, timeout, sendFails,
                                stopHolder, startHolder, callVars, vars
<1>. QED
    BY <1>1, <1>2, IInvInvariant, PTL DEF Spec

\* Nobody has called yet.
LEMMA InitRpc == Init => Calls!Init
BY DEF Init, Calls!Init, pending, Range

\* Every step is one of a remote procedure call or leaves the calls alone.
LEMMA NextRpc == IInv /\ Once /\ [Next]_vars => [Calls!Next]_Calls!vars
<1>. SUFFICES ASSUME IInv, Once, [Next]_vars PROVE [Calls!Next]_Calls!vars
    OBVIOUS
<1>. TypeOK /\ Slot /\ Open
    BY DEF IInv
<1>. /\ caller \in [Callers -> {"idle", "get", "asleep"}]
     /\ uuid \in [Callers -> Uuids \cup {NoMsg}]
     /\ result \in [Callers -> Uuids \cup {NoMsg}]
    BY DEF TypeOK
<1>. DEFINE busy == [c \in Callers |-> IF caller[c] = "idle" THEN NoMsg ELSE uuid[c]]
<1>1. ASSUME UNCHANGED <<inbox, answered, result, trapped>>, busy' = busy
      PROVE  [Calls!Next]_Calls!vars
    BY <1>1 DEF Calls!vars, pending
<1>2. ASSUME NEW c \in Callers, NEW r \in Receivers, sendRequest(c, r)
      PROVE  Calls!Next
    <2>1. PICK u \in Uuids \ inUse : sendWith(c, r, u)
        BY <1>2 DEF sendRequest
    <2>2. u \notin pending /\ \A d \in Callers : uuid[d] # u
        BY <2>1 DEF inUse
    <2>3. \A d \in Callers : busy[d] # u /\ result[d] # u
        BY <2>2, SyncCallAssumption DEF IInv, AnswersMatch
    <2>4. busy' = [busy EXCEPT ![c] = u]
        BY <2>1 DEF sendWith
    <2>5. pending' = pending \cup {u}
        <3>1. inbox'[r] = Append(inbox[r], u) /\ \A q \in Receivers \ {r} : inbox'[q] = inbox[q]
            BY <2>1 DEF sendWith, TypeOK
        <3>2. Range(inbox'[r]) = Range(inbox[r]) \cup {u}
            <4>1. inbox[r] \in Seq(Uuids)
                BY DEF TypeOK
            <4>2. /\ DOMAIN Append(inbox[r], u) = DOMAIN inbox[r] \cup {Len(inbox[r]) + 1}
                  /\ \A i \in DOMAIN inbox[r] : Append(inbox[r], u)[i] = inbox[r][i]
                  /\ Append(inbox[r], u)[Len(inbox[r]) + 1] = u
                BY <4>1
            <4>. QED
                BY <3>1, <4>2 DEF Range
        <3>. QED
            BY <3>1, <3>2 DEF pending
    <2>6. Calls!Call(c, u)
        BY <2>1, <2>2, <2>3, <2>4, <2>5 DEF sendWith, Calls!Call
    <2>. QED
        BY <2>6 DEF Calls!Next
<1>10. ASSUME NEW c \in Callers, sendFails(c) PROVE Calls!Next
    <2>1. busy' = busy /\ busy[c] = NoMsg /\ pending' = pending
        BY <1>10 DEF sendFails, pending
    <2>2. Calls!Refuse(c)
        BY <1>10, <2>1 DEF sendFails, Calls!Refuse
    <2>. QED
        BY <2>2 DEF Calls!Next
<1>3. ASSUME NEW c \in Callers, getReturns(c), caller[c] # "idle"
      PROVE  [Calls!Next]_Calls!vars
    <2>1. UNCHANGED <<uuid, answered, inbox>> /\ busy[c] = uuid[c] /\ uuid[c] # NoMsg
          /\ pending' = pending
        BY <1>3 DEF getReturns, Open, pending
    <2>2. got # NoMsg => got \in answered
        BY GotType DEF Slot
    <2>3. CASE got = NoMsg
        <3>1. trapped' = trapped \cup {uuid[c]} /\ result' = result
              /\ caller' = [caller EXCEPT ![c] = "idle"]
            BY <1>3, <2>3 DEF getReturns
        <3>2. busy' = [busy EXCEPT ![c] = NoMsg]
            BY <2>1, <3>1
        <3>3. Calls!Fail(c)
            BY <2>1, <3>1, <3>2 DEF Calls!Fail
        <3>. QED
            BY <3>3 DEF Calls!Next
    <2>4. CASE got # NoMsg /\ got = uuid[c]
        <3>1. trapped' = trapped /\ result' = [result EXCEPT ![c] = uuid[c]]
              /\ caller' = [caller EXCEPT ![c] = "idle"]
            BY <1>3, <2>4 DEF getReturns, accepts
        <3>2. busy' = [busy EXCEPT ![c] = NoMsg]
            BY <2>1, <3>1
        <3>3. uuid[c] \in answered \ trapped
            BY <1>3, <2>2, <2>4 DEF Open
        <3>4. Calls!Return(c)
            BY <2>1, <3>1, <3>2, <3>3 DEF Calls!Return
        <3>. QED
            BY <3>4 DEF Calls!Next
    <2>5. CASE got # NoMsg /\ got # uuid[c]
        <3>1. trapped' = trapped /\ result' = result /\ caller' = [caller EXCEPT ![c] = "get"]
            BY <1>3, <2>5 DEF getReturns, accepts
        <3>2. busy' = busy
            BY <1>3, <2>1, <3>1
        <3>. QED
            BY <1>1, <2>1, <3>1, <3>2
    <2>. QED
        BY <2>3, <2>4, <2>5
<1>4. ASSUME NEW c \in Callers, CallerStep(c) PROVE [Calls!Next]_Calls!vars
    <2>1. CASE caller[c] # "idle" /\ getReturns(c)
        BY <2>1, <1>3
    <2>2. CASE sleep(c) /\ get(c) /\ ~getReturns(c)
        <3>1. /\ caller[c] = "get" /\ caller' = [caller EXCEPT ![c] = "asleep"]
              /\ UNCHANGED <<uuid, result, inbox, answered, trapped>>
            BY <2>2 DEF get
        <3>2. busy' = busy
            BY <3>1
        <3>. QED
            BY <1>1, <3>1, <3>2
    <2>. QED
        BY <1>4, <2>1, <2>2 DEF CallerStep, get, wakes
<1>5. ASSUME NEW r \in Receivers, respond(r) PROVE Calls!Next
    <2>1. Head(inbox[r]) \in pending /\ pending' = pending \ {Head(inbox[r])}
        BY <1>5, TakesOne DEF respond
    <2>2. busy' = busy
        BY <1>5 DEF respond
    <2>3. Calls!Answer(Head(inbox[r]))
        BY <1>5, <2>1, <2>2 DEF respond, Calls!Answer
    <2>. QED
        BY <2>1, <2>3 DEF Calls!Next
<1>6. CASE UNCHANGED <<caller, uuid, result, inbox, answered, trapped>>
    BY <1>1, <1>6
<1>7. ASSUME NEW c \in Callers, timeout(c) PROVE [Calls!Next]_Calls!vars
    BY <1>6, <1>7 DEF timeout, callVars
<1>8. ASSUME NEW r \in Receivers, dropRequest(r) PROVE Calls!Next
    <2>1. Head(inbox[r]) \in pending /\ pending' = pending \ {Head(inbox[r])}
        BY <1>8, TakesOne DEF dropRequest
    <2>2. busy' = busy
        BY <1>8 DEF dropRequest
    <2>3. Calls!Ignore(Head(inbox[r]))
        BY <1>8, <2>1, <2>2 DEF dropRequest, Calls!Ignore
    <2>. QED
        BY <2>1, <2>3 DEF Calls!Next
<1>9. CASE stopHolder \/ startHolder \/ UNCHANGED vars
    BY <1>6, <1>9 DEF stopHolder, startHolder, callVars, vars
<1>. QED
    BY <1>2, <1>4, <1>5, <1>7, <1>8, <1>9, <1>10 DEF Next

\* sendSyncMessage() implements the remote procedure call: a call returns with
\* its own answer or fails, and never both, for any number of threads,
\* receivers, late responses, stops and restarts.
THEOREM RpcImplemented == Spec => ImplementsRpc
BY IInvInvariant, OnceInvariant, InitRpc, NextRpc, PTL DEF Spec, ImplementsRpc, Calls!Spec

=============================================================================
