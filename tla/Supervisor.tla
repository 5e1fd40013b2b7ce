----------------------------- MODULE Supervisor -----------------------------
(****************************************************************************)
(* What the service promises of the applications: a monitor starts one      *)
(* process, and another one only after a crash; an application has one      *)
(* process, unless two monitors were started for it; when the service has   *)
(* closed nothing is left but what it overlooked.                           *)
(****************************************************************************)
CONSTANTS
    Apps,    \* applications
    Infos    \* monitors

VARIABLES
    procs,        \* <<a, i>>: i has a process of a
    due,          \* <<a, i>>: i has yet to start a process of a
    again,        \* those of both whose process has crashed before
    doubled,      \* applications for which two monitors were started
    overlooked,   \* monitors the stop missed or gave up
    state         \* "open", "closing" or "closed"

vars == <<procs, due, again, doubled, overlooked, state>>

Init ==
    /\ procs = {} /\ due = {} /\ again = {}
    /\ doubled = {} /\ overlooked = {}
    /\ state = "open"

\* one process per application
Single(a) == a \in doubled \/ \A j \in Infos : <<a, j>> \notin procs

Monitor(a, i) ==
    /\ state = "open" /\ Single(a)
    /\ \A b \in Apps : <<b, i>> \notin procs \cup due
    /\ due' = due \cup {<<a, i>>}
    /\ UNCHANGED <<procs, again, doubled, overlooked, state>>

Start(a, i) ==
    /\ <<a, i>> \in due /\ Single(a)
    /\ procs' = procs \cup {<<a, i>>}
    /\ due' = due \ {<<a, i>>}
    /\ UNCHANGED <<again, doubled, overlooked, state>>

Crash(a, i) ==
    /\ <<a, i>> \in procs
    /\ procs' = procs \ {<<a, i>>}
    /\ due' = due \cup {<<a, i>>}
    /\ again' = again \cup {<<a, i>>}
    /\ UNCHANGED <<doubled, overlooked, state>>

End(a, i) ==
    /\ <<a, i>> \in procs
    /\ procs' = procs \ {<<a, i>>}
    /\ again' = again \ {<<a, i>>}
    /\ UNCHANGED <<due, doubled, overlooked, state>>

\* no process can be started, or the application has a monitor
GiveUp(a, i) ==
    /\ <<a, i>> \in due
    /\ due' = due \ {<<a, i>>}
    /\ again' = again \ {<<a, i>>}
    /\ doubled' \in {doubled, doubled \cup {a}}
    /\ UNCHANGED <<procs, overlooked, state>>

\* whose process has just crashed, or was started again
Overlook(i) ==
    /\ \A a \in Apps : <<a, i>> \in procs => <<a, i>> \in again
    /\ overlooked' = overlooked \cup {i}
    /\ UNCHANGED <<procs, due, again, doubled, state>>

\* what has not begun may be missed
Close ==
    /\ state = "open" /\ state' = "closing"
    /\ overlooked' \subseteq {i \in Infos : \E a \in Apps : <<a, i>> \in due}
    /\ UNCHANGED <<procs, due, again, doubled>>

Closed ==
    /\ state = "closing" /\ state' = "closed"
    /\ \A p \in procs \cup due : p[1] \in doubled \/ p[2] \in overlooked
    /\ UNCHANGED <<procs, due, again, doubled, overlooked>>

Next ==
    \/ \E a \in Apps, i \in Infos :
          Monitor(a, i) \/ Start(a, i) \/ Crash(a, i) \/ End(a, i) \/ GiveUp(a, i)
    \/ \E i \in Infos : Overlook(i)
    \/ Close \/ Closed

Spec == Init /\ [][Next]_vars

=============================================================================
