--------------------------------- MODULE Rpc ---------------------------------
(****************************************************************************)
(* What a synchronous call promises to the threads of a module: calls have  *)
(* numbers; a receiver answers what was called, at any time, also when the  *)
(* call has failed; a call returns with its own answer or fails, and never  *)
(* both.  A number is taken again only when the receivers are done with it. *)
(****************************************************************************)

CONSTANTS
    Callers,   \* threads that call
    Numbers,   \* what calls are told apart by
    None       \* no call, no answer

VARIABLES
    due,       \* calls the receivers have not dealt with
    open,      \* the call each thread is in
    answers,   \* calls a receiver has answered
    reply,     \* the answer each thread got to its last call
    failed     \* calls that ended without an answer

vars == <<due, open, answers, reply, failed>>

Init ==
    /\ due = {}
    /\ open = [c \in Callers |-> None]
    /\ answers = {}
    /\ reply = [c \in Callers |-> None]
    /\ failed = {}

Call(c, n) ==
    /\ open[c] = None
    /\ n \notin due
    /\ \A d \in Callers : open[d] # n /\ reply[d] # n
    /\ due' = due \cup {n}
    /\ open' = [open EXCEPT ![c] = n]
    /\ reply' = [reply EXCEPT ![c] = None]
    /\ answers' = answers \ {n}
    /\ failed' = failed \ {n}

\* there is nobody to call
Refuse(c) ==
    /\ open[c] = None
    /\ reply' = [reply EXCEPT ![c] = None]
    /\ UNCHANGED <<due, open, answers, failed>>

Answer(n) ==
    /\ n \in due
    /\ due' = due \ {n}
    /\ answers' = answers \cup {n}
    /\ UNCHANGED <<open, reply, failed>>

\* a call that is never answered
Ignore(n) ==
    /\ n \in due
    /\ due' = due \ {n}
    /\ UNCHANGED <<open, answers, reply, failed>>

Return(c) ==
    /\ open[c] \in answers \ failed
    /\ reply' = [reply EXCEPT ![c] = open[c]]
    /\ open' = [open EXCEPT ![c] = None]
    /\ UNCHANGED <<due, answers, failed>>

Fail(c) ==
    /\ open[c] # None
    /\ failed' = failed \cup {open[c]}
    /\ open' = [open EXCEPT ![c] = None]
    /\ UNCHANGED <<due, answers, reply>>

Next ==
    \/ \E c \in Callers : Refuse(c) \/ Return(c) \/ Fail(c)
    \/ \E c \in Callers, n \in Numbers : Call(c, n)
    \/ \E n \in due : Answer(n) \/ Ignore(n)

Spec == Init /\ [][Next]_vars

=============================================================================
