-------------------------------- MODULE Event --------------------------------
(****************************************************************************)
(* klk::Event (src/common/thread.cpp): a thread waits in startWait() for an *)
(* interval or without limit, others end the wait with stopWait().  One     *)
(* thread at a time waits on an event.                                      *)
(*                                                                          *)
(* An event is a record; the operators are what one critical section of     *)
(* m_wait_mutex does to it.  pthread_cond_(timed)wait splits startWait() in *)
(* two: the thread blocks, and goes on when it has left the wait set.       *)
(****************************************************************************)

NewEvent == [m_exit |-> FALSE, m_loop |-> FALSE, blocked |-> FALSE]

\* The values an event can have
Events == [m_exit : BOOLEAN, m_loop : BOOLEAN, blocked : BOOLEAN]

\* startWait(): into the wait loop, or once more into it
Block(e) == [e EXCEPT !.m_loop = TRUE, !.blocked = TRUE]

\* a spurious wakeup, or the end of the interval
Unblock(e) == [e EXCEPT !.blocked = FALSE]

\* out of the wait loop: both flags are reset, startWait() returns
Leave(e) == [e EXCEPT !.m_exit = FALSE, !.m_loop = FALSE]

\* stopWait(): nothing unless a thread is in the wait loop
StopWait(e) == IF e.m_loop THEN [e EXCEPT !.m_exit = TRUE, !.blocked = FALSE] ELSE e

=============================================================================
