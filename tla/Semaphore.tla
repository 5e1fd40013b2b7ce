------------------------------ MODULE Semaphore ------------------------------
(****************************************************************************)
(* klk::BaseSemaphore (src/common/klksemaphore.cpp): a counter shared by    *)
(* threads, created with the value 0.  Each operator is the effect of one   *)
(* atomic libc call of the class on the counter; the methods that make two  *)
(* calls (isLocked, Trigger::wait) are put together from two steps by the   *)
(* modules that extend this one, because another thread may run in between. *)
(****************************************************************************)
EXTENDS Naturals

VARIABLE m_sem   \* the value of the POSIX semaphore

\* sem_post
post == m_sem' = m_sem + 1

\* sem_wait, sem_trywait and sem_timedwait when they succeed
take ==
    /\ m_sem > 0
    /\ m_sem' = m_sem - 1

\* sem_trywait answers EAGAIN: the semaphore "is locked"
busy ==
    /\ m_sem = 0
    /\ UNCHANGED m_sem

\* UnNamedSemaphore::init: sem_init on the live object, whatever its value
reinit == m_sem' = 0

=============================================================================
