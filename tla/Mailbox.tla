------------------------------- MODULE Mailbox -------------------------------
(****************************************************************************)
(* What a module's mailbox promises to the rest of the server: messages are *)
(* numbered as they are accepted; while the mailbox is open the module      *)
(* takes them one at a time from the front; unloading the module closes the *)
(* mailbox and may throw away what is in it, and only that.                 *)
(****************************************************************************)
EXTENDS Naturals, Sequences

CONSTANT None    \* nothing in hand

VARIABLES
    open,      \* messages are accepted and taken
    posted,    \* number of messages accepted
    queue,     \* accepted, not taken, not thrown away
    inHand,    \* the message the module works on
    done       \* messages the module has finished, in order

vars == <<open, posted, queue, inHand, done>>

Init ==
    /\ open = TRUE
    /\ posted = 0
    /\ queue = <<>>
    /\ inHand = None
    /\ done = <<>>

Post ==
    /\ open
    /\ posted' = posted + 1
    /\ queue' = Append(queue, posted + 1)
    /\ UNCHANGED <<open, inHand, done>>

Take ==
    /\ open
    /\ inHand = None
    /\ queue # <<>>
    /\ inHand' = Head(queue)
    /\ queue' = Tail(queue)
    /\ UNCHANGED <<open, posted, done>>

Finish ==
    /\ inHand # None
    /\ done' = Append(done, inHand)
    /\ inHand' = None
    /\ UNCHANGED <<open, posted, queue>>

Discard ==
    /\ queue' = <<>>
    /\ UNCHANGED <<open, posted, inHand, done>>

Close ==
    /\ open' = FALSE
    /\ UNCHANGED <<posted, queue, inHand, done>>

Reopen ==
    /\ ~open
    /\ open' = TRUE
    /\ UNCHANGED <<posted, queue, inHand, done>>

Next == Post \/ Take \/ Finish \/ Discard \/ Close \/ Reopen

Spec == Init /\ [][Next]_vars

=============================================================================
