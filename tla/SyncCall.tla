------------------------------ MODULE SyncCall ------------------------------
(****************************************************************************)
(* Module::sendSyncMessage (src/common/module.cpp): threads of one module   *)
(* send a SYNC_REQ to a receiver module each and wait for the SYNC_RES with *)
(* the same UUID in the module's one-slot m_sync_container (MessageHolder   *)
(* with SyncRes = TRUE).                                                    *)
(*                                                                          *)
(* Callers are the threads of the requesting module that call it: its main  *)
(* thread, its timer threads, the ICE dispatch threads of the adapter.      *)
(* Receivers answer their requests in order, at any time, also long after   *)
(* the caller has given up.  A response is its UUID.  A UUID is taken again  *)
(* only when nothing of its last call is left, so that the number of calls  *)
(* has no bound; UUIDs in use at once are bounded by Uuids.                  *)
(****************************************************************************)
EXTENDS MessageHolder, Functions

CONSTANTS
    Callers,       \* threads of the requesting module
    Receivers,     \* modules that answer
    Uuids          \* bound on the UUIDs in use at once

ASSUME SyncCallAssumption ==
    /\ SyncRes = TRUE
    /\ NoMsg \notin Uuids

VARIABLES
    caller,     \* "idle", "get" (about to enter get()) or "asleep" in it
    uuid,       \* the UUID each caller waits for, NoMsg before its first call
    result,     \* the UUID of the response that ended its last call, or NoMsg
    inbox,      \* the requests in each receiver's mailbox
    answered,   \* UUIDs of the responses put into the slot
    trapped,    \* UUIDs of the calls that sent MODULE_DNT_RESPONDE
    stopping    \* progress of postMainLoop's m_sync_container.stop()

callVars == <<caller, uuid, result, inbox, answered, trapped>>
vars == <<holderVars, callVars, stopping>>

Init ==
    /\ HolderInit
    /\ caller = [c \in Callers |-> "idle"]
    /\ uuid = [c \in Callers |-> NoMsg]
    /\ result = [c \in Callers |-> NoMsg]
    /\ inbox = [r \in Receivers |-> <<>>]
    /\ answered = {}
    /\ trapped = {}
    /\ stopping = "no"

-----------------------------------------------------------------------------
\* requests a receiver has still to answer
pending == UNION {Range(inbox[r]) : r \in Receivers}

\* UUIDs of which a caller, a receiver or the slot still holds a message
inUse == {uuid[c] : c \in Callers} \cup pending \cup Range(m_container)

\* getMessage (a UUID) and receiver->addMessage(in)
sendWith(c, r, u) ==
    /\ caller[c] = "idle"
    /\ uuid' = [uuid EXCEPT ![c] = u]
    /\ result' = [result EXCEPT ![c] = NoMsg]
    /\ inbox' = [inbox EXCEPT ![r] = Append(@, u)]
    /\ answered' = answered \ {u}
    /\ trapped' = trapped \ {u}
    /\ caller' = [caller EXCEPT ![c] = "get"]
    /\ UNCHANGED <<holderVars, stopping>>

\* the bug of a caller that sends its old message, with the old UUID, again
sendOld(c, r) ==
    \E u \in Uuids :
        /\ u = uuid[c] \/ (uuid[c] = NoMsg /\ u \notin inUse)
        /\ u \notin pending
        /\ sendWith(c, r, u)

sendRequest(c, r) == \E u \in Uuids \ inUse : sendWith(c, r, u)

\* getModule() returns NULL, or addMessage() throws: the exception leaves
\* sendSyncMessage() before it waits, and nothing was sent
sendFails(c) ==
    /\ caller[c] = "idle"
    /\ uuid' = [uuid EXCEPT ![c] = NoMsg]
    /\ result' = [result EXCEPT ![c] = NoMsg]
    /\ UNCHANGED <<holderVars, caller, inbox, answered, trapped, stopping>>

\* the bug of a caller that takes any response for its own
acceptAny(c, msg) == msg # NoMsg

\* out->getUUID() != in->getUUID() rejects the response
accepts(c, msg) == msg = uuid[c]

\* m_sync_container.get(out) returns.  ERROR: trap and exception.  OK: the
\* call ends if the UUID is the right one, else the loop waits again.
getReturns(c) ==
    /\ finish
    /\ \/ /\ got = NoMsg
          /\ trapped' = trapped \cup {uuid[c]}
          /\ caller' = [caller EXCEPT ![c] = "idle"]
          /\ UNCHANGED result
       \/ /\ got # NoMsg
          /\ caller' = [caller EXCEPT ![c] = IF accepts(c, got) THEN "idle" ELSE "get"]
          /\ result' = [result EXCEPT ![c] = IF accepts(c, got) THEN got ELSE @]
          /\ UNCHANGED trapped
    /\ UNCHANGED <<uuid, inbox, answered, stopping>>

get(c) ==
    /\ caller[c] = "get"
    /\ \/ /\ mustSleep
          /\ sleep(c)
          /\ caller' = [caller EXCEPT ![c] = "asleep"]
          /\ UNCHANGED <<uuid, result, inbox, answered, trapped, stopping>>
       \/ /\ ~mustSleep
          /\ getReturns(c)

\* back from pthread_cond_timedwait, whatever it returned
wakes(c) ==
    /\ caller[c] = "asleep" /\ c \notin waiters
    /\ getReturns(c)

\* The interval is over (or pthread_cond_timedwait returned early, which the
\* code does not tell apart): the thread leaves the wait set and has to get
\* the mutex back before wakes(c).  Other threads may come first.
timeout(c) ==
    /\ leaveWaitSet(c)
    /\ UNCHANGED <<callVars, stopping>>

-----------------------------------------------------------------------------
\* The receiver's thread: Processor::processSync ends in addMessage(out)
respond(r) ==
    /\ inbox[r] # <<>>
    /\ add(Head(inbox[r]))
    /\ answered' = answered \cup {Head(inbox[r])}
    /\ inbox' = [inbox EXCEPT ![r] = Tail(@)]
    /\ UNCHANGED <<caller, uuid, result, trapped, stopping>>

\* No response: the receiver was stopped and rejected or cleared the request,
\* has no processor for it, or the requester's holder is stopped
dropRequest(r) ==
    /\ inbox[r] # <<>>
    /\ inbox' = [inbox EXCEPT ![r] = Tail(@)]
    /\ UNCHANGED <<holderVars, caller, uuid, result, answered, trapped, stopping>>

\* Module::postMainLoop: m_sync_container.stop()
stopHolder ==
    /\ \/ stopping = "no" /\ stopping' = "cleared" /\ stopClear
       \/ stopping = "cleared" /\ stopping' = "yes" /\ stopBase
    /\ UNCHANGED callVars

\* Module::init of the next life: m_sync_container.start().  The module's
\* threads that call have been joined by then (postMainLoop).
startHolder ==
    /\ stopping = "yes"
    /\ \A c \in Callers : caller[c] = "idle"
    /\ stopping' = "no"
    /\ start
    /\ UNCHANGED callVars

CallerStep(c) == get(c) \/ wakes(c)

Next ==
    \/ \E c \in Callers, r \in Receivers : sendRequest(c, r)
    \/ \E c \in Callers : sendFails(c)
    \/ \E c \in Callers : CallerStep(c) \/ timeout(c)
    \/ \E r \in Receivers : respond(r) \/ dropRequest(r)
    \/ stopHolder \/ startHolder

Spec == Init /\ [][Next]_vars

\* Callers keep running and intervals end; receivers need not answer.
FairSpec ==
    /\ Spec
    /\ \A c \in Callers : WF_vars(CallerStep(c)) /\ WF_vars(timeout(c))

-----------------------------------------------------------------------------
\* Type correctness of the slot, the callers and the histories.
TypeOK ==
    /\ m_container \in Seq(Uuids) /\ Len(m_container) <= 1
    /\ m_stop \in BOOLEAN /\ m_wait_exit \in BOOLEAN /\ m_wait_loop \in BOOLEAN
    /\ waiters \in SUBSET Callers
    /\ caller \in [Callers -> {"idle", "get", "asleep"}]
    /\ uuid \in [Callers -> Uuids \cup {NoMsg}]
    /\ result \in [Callers -> Uuids \cup {NoMsg}]
    /\ inbox \in [Receivers -> Seq(Uuids)]
    /\ answered \in SUBSET Uuids
    /\ trapped \in SUBSET Uuids
    /\ stopping \in {"no", "cleared", "yes"}

\* A late response to a call that was given up is never taken for the answer
\* to a later call, whoever waits (module.cpp:314).
AnswersMatch ==
    \A c \in Callers : result[c] # NoMsg => result[c] = uuid[c] /\ result[c] \in answered

\* One response ends at most one call, and a call that has sent the trap is
\* never answered as well.
OneEndPerCall ==
    /\ \A c, d \in Callers : result[c] # NoMsg /\ result[c] = result[d] => c = d
    /\ \A c \in Callers : result[c] \notin trapped

\* sendSyncMessage() is a remote procedure call as Rpc has it: a call returns
\* with its own answer or fails, never both, however late responses, stops and
\* other callers meet in the one slot.
Calls == INSTANCE Rpc WITH
    None <- NoMsg,
    Numbers <- Uuids,
    due <- pending,
    open <- [c \in Callers |-> IF caller[c] = "idle" THEN NoMsg ELSE uuid[c]],
    answers <- answered,
    reply <- result,
    failed <- trapped
ImplementsRpc == Calls!Spec

\* get() hands a response to c that is not its own: the caller waits again,
\* for the whole interval
rejects(c) ==
    /\ CallerStep(c)
    /\ caller'[c] = "get"

\* Every call ends, with the answer or the exception, unless responses to
\* other calls come for ever and keep meeting the caller: each of them starts
\* the interval of TIMEINTERVAL4SYNCRES again (module.cpp:285-323).  The
\* number of calls has no bound, so that the excuse is a real one.
CallEnds ==
    \A c \in Callers :
        (caller[c] # "idle" ~> caller[c] = "idle") \/ []<><<rejects(c)>>_vars

=============================================================================
