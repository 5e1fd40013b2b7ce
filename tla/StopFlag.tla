------------------------------ MODULE StopFlag ------------------------------
(****************************************************************************)
(* What a Trigger promises to those who ask it: it is a flag that stop()    *)
(* raises and init() lowers.  Who is answered "stopped" asked a raised      *)
(* flag, and a raised flag answers "not stopped" only while another thread  *)
(* has got the other answer and not yet left.  A wait() that a signal       *)
(* interrupts raises the flag, and init() cannot lower it while a thread    *)
(* has got the answer and not yet left.                                     *)
(****************************************************************************)
CONSTANT Threads   \* threads that ask

VARIABLES
    raised,   \* the flag
    call      \* each thread: "idle", "asking", "leaving" (answered) or "told"

vars == <<raised, call>>

Init ==
    /\ raised = FALSE
    /\ call = [t \in Threads |-> "idle"]

Goto(t, from, to) == call[t] = from /\ call' = [call EXCEPT ![t] = to]

Ask(t) == Goto(t, "idle", "asking") /\ UNCHANGED raised

No(t) ==
    /\ Goto(t, "asking", "idle")
    /\ ~raised \/ \E u \in Threads \ {t} : call[u] = "leaving"
    /\ UNCHANGED raised

Yes(t) == Goto(t, "asking", "leaving") /\ raised /\ UNCHANGED raised

Interrupt(t) == Goto(t, "asking", "leaving") /\ raised' = TRUE

Leave(t) == Goto(t, "leaving", "told") /\ UNCHANGED raised

Raise == raised' = TRUE /\ UNCHANGED call

Lower ==
    /\ raised' = (\E t \in Threads : call[t] = "leaving")
    /\ call' = [t \in Threads |-> IF call[t] = "told" THEN "idle" ELSE call[t]]

Next ==
    \/ \E t \in Threads : Ask(t) \/ No(t) \/ Yes(t) \/ Interrupt(t) \/ Leave(t)
    \/ Raise \/ Lower

Spec == Init /\ [][Next]_vars

=============================================================================
