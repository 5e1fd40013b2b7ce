----------------------------- MODULE ThreadPool -----------------------------
(****************************************************************************)
(* What the scheduler promises to those who own the threads: an object has  *)
(* one thread at a time; stopThread() returns when the thread has ended, or *)
(* leaves that to a stop() of all; a stop() of all lets nothing start any   *)
(* more and returns when nothing runs but what somebody else waits for.     *)
(* The promise is off for an object that two clients stop at a time; and    *)
(* while a client asks whether stop() has begun another one may start a     *)
(* thread late, which stop() then leaves.                                   *)
(****************************************************************************)
CONSTANTS
    Clients,   \* those who call stopThread()
    Threads,   \* managed objects
    Ids        \* names of the threads of one object

VARIABLES
    alive,       \* the threads: object and name
    waited,      \* who works on which thread in stopThread()
    asking,      \* clients that are being told that stop() has begun
    state,       \* "open", "stopping" (stop() has begun), "joining" (it knows its
                 \* threads) or "closed"
    contested,   \* objects that two clients have worked on at a time
    late         \* objects started when stop() knew its threads already, while
                 \* somebody asked

vars == <<alive, waited, asking, state, contested, late>>

Has(t) == \E i \in Ids : <<t, i>> \in alive
Waited(t) == \E c \in Clients, i \in Ids : <<c, <<t, i>>>> \in waited

Init ==
    /\ alive = {} /\ waited = {} /\ asking = {} /\ state = "open"
    /\ contested = {} /\ late = {}

Start(t, i) ==
    /\ state = "open" \/ asking # {}
    /\ late' = IF state \in {"joining", "closed"} THEN late \cup {t} ELSE late
    /\ t \in contested \/ t \in late' \/ (~Has(t) /\ ~Waited(t))
    /\ alive' = alive \cup {<<t, i>>}
    /\ UNCHANGED <<waited, asking, state, contested>>

End(t, i) ==
    /\ <<t, i>> \in alive
    /\ alive' = alive \ {<<t, i>>}
    /\ UNCHANGED <<waited, asking, state, contested, late>>

Ask(c) ==
    /\ state # "open"
    /\ asking' = asking \cup {c}
    /\ UNCHANGED <<alive, waited, state, contested, late>>

Answered(c) ==
    /\ asking' = asking \ {c}
    /\ UNCHANGED <<alive, waited, state, contested, late>>

Stop(c, t, i) ==
    /\ waited' = waited \cup {<<c, <<t, i>>>>}
    /\ contested' \in {contested, contested \cup {t}}
    /\ Waited(t) => t \in contested'
    /\ UNCHANGED <<alive, asking, state, late>>

Stopped(c, t, i) ==
    /\ <<c, <<t, i>>>> \in waited
    /\ <<t, i>> \notin alive \/ state = "joining" \/ t \in contested \/ t \in late
    /\ waited' = waited \ {<<c, <<t, i>>>>}
    /\ UNCHANGED <<alive, asking, state, contested, late>>

Advance ==
    /\ \/ state = "open" /\ state' = "stopping"
       \/ state = "stopping" /\ state' = "joining"
    /\ UNCHANGED <<alive, waited, asking, contested, late>>

Closed ==
    /\ state = "joining" /\ state' = "closed"
    /\ \A t \in Threads : Has(t) => Waited(t) \/ t \in contested \/ t \in late
    /\ UNCHANGED <<alive, waited, asking, contested, late>>

Next ==
    \/ \E t \in Threads, i \in Ids : Start(t, i) \/ End(t, i)
    \/ \E c \in Clients : Ask(c) \/ Answered(c)
    \/ \E c \in Clients, t \in Threads, i \in Ids : Stop(c, t, i) \/ Stopped(c, t, i)
    \/ Advance \/ Closed

Spec == Init /\ [][Next]_vars

=============================================================================
