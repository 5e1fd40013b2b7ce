------------------------- MODULE ModuleFactoryProofs -------------------------
(****************************************************************************)
(* The module factory for any set of modules, whatever they declare: the    *)
(* recursion of load() ends, dependencies are up before what depends on     *)
(* them and go down after it, and unloadAll() leaves nothing.               *)
(****************************************************************************)
EXTENDS ModuleFactory, TLAPS

USE ModuleFactoryAssumption

FrameAt == {"get", "register", "known", "deps", "start", "check", "wait", "threw"}
Frames == [id : Mods, at : FrameAt, todo : SUBSET Mods]

\* What the steps read and write has its shape.
Shape ==
    /\ m_modules \subseteq Mods /\ vertices \subseteq Mods /\ edges \subseteq Mods \X Mods
    /\ stack \in [Loaders -> Seq(Frames)]
    /\ m_threads \subseteq Mods /\ thread \in [Mods -> {"off", "starting", "on", "told", "asleep"}]
    /\ pc \in {"start", "loaded", "failed", "next", "unload", "join", "check", "aborted",
               "cleared", "stopNext", "stopJoin", "done"}
    /\ root \in Nat \ {0} /\ left \subseteq Mods /\ cur \in Mods

\* unloadAll() has not begun; the graph has been cleared.
Early == pc \in {"start", "loaded"}
Cleared == pc \in {"cleared", "stopNext", "stopJoin", "done"}

\* What counts as up: all that is started, until unloadAll() takes things down.
UpSet == IF Early THEN m_threads ELSE Mods

\* What a frame of load() has seen to at its place in the code, with the edges E,
\* the registered modules M and the modules U that are up.
FrameOk(f, E, M, U) ==
    /\ f.at = "register" => \A d \in Declared[f.id] \ {f.id} : d \in f.todo \/ <<f.id, d>> \in E
    /\ f.at \in {"known", "deps", "start", "check", "wait"} => f.id \in M
    /\ f.at = "deps" => \A d \in f.todo : <<f.id, d>> \in E
    /\ f.at \in {"start", "check", "wait"} => Declared[f.id] \ {f.id} \subseteq U
    /\ f.at = "wait" => f.id \in U

\* The innermost frame, and a frame that waits for the one it has called.
Innermost(f, U) == f.at = "deps" => Declared[f.id] \ {f.id} \subseteq U \cup f.todo
Calls(f, g, E, U) ==
    /\ f.at = "deps" /\ <<f.id, g.id>> \in E
    /\ Declared[f.id] \ {f.id} \subseteq U \cup f.todo \cup {g.id}

StackOk(s, E, M, U) ==
    \A k \in 1..Len(s) :
        /\ FrameOk(s[k], E, M, U)
        /\ k = 1 => Innermost(s[k], U)
        /\ k > 1 => Calls(s[k], s[k - 1], E, U)
Stacks == \A l \in Loaders : StackOk(stack[l], edges, m_modules, UpSet)

\* The graph has no cycle, and an edge has its vertex.
Graph ==
    /\ ~HasCycle(edges)
    /\ \A m, d \in Mods : <<m, d>> \in edges => m \in vertices

\* A running module is in the scheduler's list, and what is there is registered;
\* what is registered is in the graph with all it declares.
Registered ==
    /\ \A m \in Mods : thread[m] # "off" => m \in m_threads
    /\ m_threads \subseteq m_modules
    /\ ~Cleared => \A m \in m_modules : \A d \in Declared[m] \ {m} : <<m, d>> \in edges

\* The main thread loads only before unloadAll(), the host only while it runs.
WhoLoads ==
    /\ pc # "start" => stack["main"] = << >>
    /\ thread[Host] \in {"off", "starting"} => stack["cli"] = << >>

\* unloadAll() takes the host down before it clears the graph.
HostGoesDown ==
    /\ pc \in {"next", "unload", "join", "check"} =>
          thread[Host] = "off" \/ Host \in left \/ (pc \in {"unload", "join"} /\ cur = Host)
    /\ Cleared => thread[Host] = "off"

\* stop() of the scheduler has the rest of the running modules in its copy.
AllStopped ==
    /\ pc \in {"stopNext", "stopJoin", "done"} =>
          \A m \in Mods : thread[m] # "off" => m \in left \/ (pc = "stopJoin" /\ m = cur)
    /\ pc = "done" => left = {} /\ m_threads = {}

\* What was up when unloadAll() sorted the graph is in its order, and yet to be
\* unloaded.
Sorted ==
    /\ pc \in {"next", "unload", "join", "check"} =>
          \A m \in m_threads \ late : \A d \in Declared[m] \ {m} :
              <<m, d>> \in order /\ (m \in left \/ (pc \in {"unload", "join"} /\ cur = m))
    /\ pc = "unload" => sortedNext(cur)

\* The inductive invariant
IInv ==
    /\ Shape /\ Stacks /\ Graph /\ Registered /\ WhoLoads
    /\ HostGoesDown /\ AllStopped /\ Sorted /\ DependenciesUp

-----------------------------------------------------------------------------
\* A stack stays good when the graph, the registered modules and what is up grow.
LEMMA StackGrows ==
    ASSUME NEW s \in Seq(Frames), NEW E, NEW M, NEW U, NEW E2, NEW M2, NEW U2,
           StackOk(s, E, M, U), E \subseteq E2, M \subseteq M2, U \subseteq U2
    PROVE  StackOk(s, E2, M2, U2)
<1>. SUFFICES ASSUME NEW k \in 1..Len(s)
              PROVE  /\ FrameOk(s[k], E2, M2, U2)
                     /\ k = 1 => Innermost(s[k], U2)
                     /\ k > 1 => Calls(s[k], s[k - 1], E2, U2)
    BY DEF StackOk
<1>1. /\ FrameOk(s[k], E, M, U)
      /\ k = 1 => Innermost(s[k], U)
      /\ k > 1 => Calls(s[k], s[k - 1], E, U)
    BY DEF StackOk
<1>2. FrameOk(s[k], E2, M2, U2)
    BY <1>1 DEF FrameOk
<1>3. k = 1 => Innermost(s[k], U2)
    BY <1>1 DEF Innermost
<1>4. k > 1 => Calls(s[k], s[k - 1], E2, U2)
    BY <1>1 DEF Calls
<1>. QED
    BY <1>2, <1>3, <1>4

\* The innermost frame goes on.
LEMMA StackGoes ==
    ASSUME NEW s \in Seq(Frames), s # << >>, NEW E, NEW M, NEW U, StackOk(s, E, M, U),
           NEW f \in Frames, f.id = Head(s).id, FrameOk(f, E, M, U), Innermost(f, U)
    PROVE  <<f>> \o Tail(s) \in Seq(Frames) /\ StackOk(<<f>> \o Tail(s), E, M, U)
<1>. DEFINE r == <<f>> \o Tail(s)
<1>1. /\ r \in Seq(Frames) /\ Len(r) = Len(s) /\ r[1] = f /\ \A k \in 2..Len(s) : r[k] = s[k]
      /\ Len(s) \in Nat \ {0} /\ Head(s) = s[1]
    OBVIOUS
<1>. HIDE DEF r
<1>2. ASSUME NEW k \in 1..Len(r)
      PROVE  /\ FrameOk(r[k], E, M, U)
             /\ k = 1 => Innermost(r[k], U)
             /\ k > 1 => Calls(r[k], r[k - 1], E, U)
    <2>1. CASE k = 1
        BY <1>1, <2>1
    <2>2. CASE k > 1
        <3>1. /\ k \in 1..Len(s) /\ r[k] = s[k] /\ r[k - 1].id = s[k - 1].id
            BY <1>1, <2>2
        <3>2. FrameOk(s[k], E, M, U) /\ Calls(s[k], s[k - 1], E, U)
            BY <2>2, <3>1 DEF StackOk
        <3>. QED
            BY <2>2, <3>1, <3>2 DEF Calls
    <2>. QED
        BY <2>1, <2>2
<1>. QED
    BY <1>1, <1>2 DEF StackOk, r

\* The innermost frame calls load() for one of its dependencies.
LEMMA StackCalls ==
    ASSUME NEW s \in Seq(Frames), s # << >>, NEW E, NEW M, NEW U, StackOk(s, E, M, U),
           Head(s).at = "deps", NEW d \in Head(s).todo
    PROVE  LET r == <<Frame(d), [Head(s) EXCEPT !.todo = @ \ {d}]>> \o Tail(s)
           IN  r \in Seq(Frames) /\ StackOk(r, E, M, U)
<1>. DEFINE g == [Head(s) EXCEPT !.todo = @ \ {d}]
            r == <<Frame(d), g>> \o Tail(s)
<1>1. Head(s) \in Frames /\ Head(s) = s[1] /\ Len(s) \in Nat \ {0}
    OBVIOUS
<1>2. Frame(d) \in Frames /\ Frame(d).id = d /\ Frame(d).at = "get"
    BY <1>1 DEF Frame, Frames, FrameAt
<1>3. g \in Frames /\ g.id = s[1].id /\ g.at = "deps" /\ g.todo = s[1].todo \ {d}
    BY <1>1 DEF Frames
<1>. HIDE DEF g
<1>4. <<Frame(d), g>> \in Seq(Frames) /\ Tail(s) \in Seq(Frames) /\ Len(<<Frame(d), g>>) = 2 /\ Len(Tail(s)) = Len(s) - 1
    BY <1>2, <1>3, <1>1
<1>5. /\ r \in Seq(Frames) /\ Len(r) = Len(s) + 1
      /\ r[1] = Frame(d) /\ r[2] = g /\ \A k \in 3..(Len(s) + 1) : r[k] = s[k - 1]
    BY <1>4, <1>1
<1>. HIDE DEF r
<1>6. ASSUME NEW k \in 1..Len(r)
      PROVE  /\ FrameOk(r[k], E, M, U)
             /\ k = 1 => Innermost(r[k], U)
             /\ k > 1 => Calls(r[k], r[k - 1], E, U)
    <2>1. CASE k = 1
        BY <1>2, <1>5, <2>1 DEF FrameOk, Innermost
    <2>2. CASE k = 2
        <3>1. FrameOk(s[1], E, M, U) /\ Innermost(s[1], U)
            BY <1>1 DEF StackOk
        <3>2. FrameOk(g, E, M, U)
            BY <1>1, <1>3, <3>1 DEF FrameOk
        <3>3. Calls(g, Frame(d), E, U)
            <4>1. <<g.id, d>> \in E
                BY <1>1, <1>3, <3>1 DEF FrameOk
            <4>2. Declared[g.id] \ {g.id} \subseteq U \cup g.todo \cup {d}
                BY <1>1, <1>3, <3>1 DEF Innermost
            <4>. QED
                BY <1>2, <1>3, <4>1, <4>2 DEF Calls
        <3>. QED
            BY <1>5, <2>2, <3>2, <3>3
    <2>3. CASE k > 2
        <3>0. k \in 3..(Len(s) + 1) /\ k - 1 \in 1..Len(s) /\ k - 1 > 1
            BY <1>1, <1>5, <2>3
        <3>1. k - 1 \in 1..Len(s) /\ k - 1 > 1 /\ r[k] = s[k - 1] /\ r[k - 1].id = s[(k - 1) - 1].id
            <4>1. CASE k = 3
                BY <1>3, <1>5, <3>0, <4>1
            <4>2. CASE k > 3
                <5>1. k - 1 \in 3..(Len(s) + 1)
                    BY <1>1, <3>0, <4>2
                <5>. QED
                    BY <1>5, <3>0, <5>1
            <4>. QED
                BY <3>0, <4>1, <4>2
        <3>2. FrameOk(s[k - 1], E, M, U) /\ Calls(s[k - 1], s[(k - 1) - 1], E, U)
            BY <3>1 DEF StackOk
        <3>. QED
            BY <2>3, <3>1, <3>2 DEF Calls
    <2>. QED
        BY <1>1, <1>5, <2>1, <2>2, <2>3
<1>. QED
    BY <1>5, <1>6 DEF StackOk, r, g

\* load() returns to the frame that called it.
LEMMA StackReturns ==
    ASSUME NEW s \in Seq(Frames), s # << >>, NEW E, NEW M, NEW U, StackOk(s, E, M, U),
           Head(s).at = "wait"
    PROVE  Tail(s) \in Seq(Frames) /\ StackOk(Tail(s), E, M, U)
<1>1. /\ Tail(s) \in Seq(Frames) /\ Len(Tail(s)) = Len(s) - 1 /\ Len(s) \in Nat \ {0} /\ Head(s) = s[1]
      /\ \A k \in 1..(Len(s) - 1) : Tail(s)[k] = s[k + 1]
    OBVIOUS
<1>2. ASSUME NEW k \in 1..Len(Tail(s))
      PROVE  /\ FrameOk(Tail(s)[k], E, M, U)
             /\ k = 1 => Innermost(Tail(s)[k], U)
             /\ k > 1 => Calls(Tail(s)[k], Tail(s)[k - 1], E, U)
    <2>1. k + 1 \in 1..Len(s) /\ k + 1 > 1 /\ Tail(s)[k] = s[k + 1] /\ (k + 1) - 1 = k
        BY <1>1
    <2>2. FrameOk(s[k + 1], E, M, U) /\ Calls(s[k + 1], s[k], E, U)
        BY <2>1 DEF StackOk
    <2>3. CASE k = 1
        <3>1. s[1].id \in U
            BY <1>1 DEF StackOk, FrameOk
        <3>2. Innermost(s[k + 1], U)
            BY <2>2, <2>3, <3>1 DEF Calls, Innermost
        <3>. QED
            BY <2>1, <2>2, <2>3, <3>2
    <2>4. CASE k > 1
        <3>1. Tail(s)[k - 1] = s[k]
            BY <1>1, <2>4
        <3>. QED
            BY <2>1, <2>2, <2>4, <3>1
    <2>. QED
        BY <2>3, <2>4, <1>1
<1>. QED
    BY <1>1, <1>2 DEF StackOk

\* A stack of one frame that has not begun, or has failed; no frame.
LEMMA StackNew ==
    ASSUME NEW f \in Frames, f.at \in {"get", "threw"}, NEW E, NEW M, NEW U
    PROVE  <<f>> \in Seq(Frames) /\ StackOk(<<f>>, E, M, U)
<1>1. <<f>> \in Seq(Frames) /\ Len(<<f>>) = 1 /\ <<f>>[1] = f
    OBVIOUS
<1>2. FrameOk(f, E, M, U) /\ Innermost(f, U)
    BY DEF FrameOk, Innermost
<1>3. \A k \in 1..Len(<<f>>) : k = 1 /\ <<f>>[k] = f
    BY <1>1
<1>. QED
    BY <1>1, <1>2, <1>3 DEF StackOk

LEMMA StackEmpty == \A E, M, U : << >> \in Seq(Frames) /\ StackOk(<< >>, E, M, U)
<1>1. << >> \in Seq(Frames) /\ Len(<< >>) = 0
    OBVIOUS
<1>. QED
    BY <1>1 DEF StackOk

\* No module waits for itself: the frames between its two would be a cycle.
LEMMA NoRepetition ==
    ASSUME NEW s \in Seq(Frames), NEW M, NEW U, NEW E, StackOk(s, E, M, U), ~HasCycle(E),
           NEW j \in 1..Len(s), NEW k \in 1..Len(s), j < k
    PROVE  s[j].id # s[k].id
<1>. SUFFICES ASSUME s[j].id = s[k].id PROVE FALSE
    OBVIOUS
<1>. DEFINE S == {s[i].id : i \in j..k}
<1>1. \A i \in 1..Len(s) : s[i] \in Frames
    OBVIOUS
<1>2. S \in SUBSET Mods /\ s[j].id \in S
    <2>1. \A i \in j..k : i \in 1..Len(s) /\ s[i].id \in Mods
        BY <1>1 DEF Frames
    <2>2. j \in j..k
        OBVIOUS
    <2>. QED
        BY <2>1, <2>2
<1>3. ASSUME NEW i \in (j + 1)..k PROVE <<s[i].id, s[i - 1].id>> \in E /\ s[i - 1].id \in S
    <2>1. i \in 1..Len(s) /\ i > 1 /\ i - 1 \in j..k
        OBVIOUS
    <2>. QED
        BY <2>1 DEF StackOk, Calls
<1>4. ASSUME NEW m \in S PROVE \E n \in S : <<m, n>> \in E
    <2>1. PICK i \in j..k : m = s[i].id
        OBVIOUS
    <2>2. CASE i = j
        <3>1. k \in (j + 1)..k /\ m = s[k].id
            BY <2>1, <2>2
        <3>. QED
            BY <3>1, <1>3
    <2>3. CASE i # j
        <3>1. i \in (j + 1)..k
            BY <2>1, <2>3
        <3>. QED
            BY <3>1, <2>1, <1>3
    <2>. QED
        BY <2>2, <2>3
<1>. QED
    BY <1>2, <1>4 DEF HasCycle

-----------------------------------------------------------------------------
\* The invariant holds in the initial state.
LEMMA InitIInv == Init => IInv
<1>. SUFFICES ASSUME Init PROVE IInv
    OBVIOUS
<1>1. \A l \in Loaders : stack[l] = << >>
    BY DEF Init
<1>2. /\ Shape /\ \A m \in Mods : thread[m] = "off"
    BY StackEmpty, <1>1 DEF Init, Shape
<1>3. Stacks
    BY <1>1, StackEmpty DEF Stacks
<1>4. Graph
    BY DEF Init, Graph, HasCycle
<1>5. Registered /\ WhoLoads /\ HostGoesDown /\ AllStopped /\ Sorted /\ DependenciesUp
    BY <1>1, <1>2 DEF Init, Registered, WhoLoads, HostGoesDown, AllStopped, Sorted, DependenciesUp, Loaders, Cleared
<1>. QED
    BY <1>2, <1>3, <1>4, <1>5 DEF IInv

\* One loader changes its stack.
LEMMA StackSteps ==
    ASSUME Shape, Stacks, NEW l \in Loaders, NEW r \in Seq(Frames), stack' = [stack EXCEPT ![l] = r],
           StackOk(r, edges', m_modules', UpSet'),
           edges \subseteq edges', m_modules \subseteq m_modules', UpSet \subseteq UpSet'
    PROVE  /\ stack' \in [Loaders -> Seq(Frames)] /\ Stacks'
           /\ stack'[l] = r /\ \A j \in Loaders : j # l => stack'[j] = stack[j]
<1>1. /\ stack' \in [Loaders -> Seq(Frames)]
      /\ stack'[l] = r /\ \A j \in Loaders : j # l => stack'[j] = stack[j]
    BY DEF Shape
<1>2. ASSUME NEW j \in Loaders PROVE StackOk(stack'[j], edges', m_modules', UpSet')
    <2>1. CASE j = l
        BY <1>1, <2>1
    <2>2. CASE j # l
        <3>1. stack[j] \in Seq(Frames) /\ StackOk(stack[j], edges, m_modules, UpSet) /\ stack'[j] = stack[j]
            BY <1>1, <2>2 DEF Shape, Stacks
        <3>. QED
            BY <3>1, StackGrows
    <2>. QED
        BY <2>1, <2>2
<1>. QED
    BY <1>1, <1>2 DEF Stacks

\* No stack changes.
LEMMA StacksStay ==
    ASSUME Shape, Stacks, stack' = stack,
           edges \subseteq edges', m_modules \subseteq m_modules', UpSet \subseteq UpSet'
    PROVE  Stacks'
<1>1. ASSUME NEW j \in Loaders PROVE StackOk(stack'[j], edges', m_modules', UpSet')
    <2>1. stack[j] \in Seq(Frames) /\ StackOk(stack[j], edges, m_modules, UpSet)
        BY DEF Shape, Stacks
    <2>. QED
        BY <2>1, StackGrows
<1>. QED
    BY <1>1 DEF Stacks

\* The innermost frame of a loader goes on.
LEMMA GotoSteps ==
    ASSUME Shape, Stacks, NEW l \in Loaders, stack[l] # << >>,
           NEW where \in FrameAt, NEW todo \in SUBSET Mods, Goto(l, where, todo),
           edges \subseteq edges', m_modules \subseteq m_modules', UpSet \subseteq UpSet',
           \A f \in Frames :
               f.id = Top(l).id /\ f.at = where /\ f.todo = todo =>
                   FrameOk(f, edges', m_modules', UpSet') /\ Innermost(f, UpSet')
    PROVE  /\ stack' \in [Loaders -> Seq(Frames)] /\ Stacks'
           /\ \A j \in Loaders : j # l => stack'[j] = stack[j]
<1>. DEFINE s == stack[l]
            f == [Top(l) EXCEPT !.at = where, !.todo = todo]
<1>1. s \in Seq(Frames) /\ s # << >> /\ Head(s) = Top(l) /\ Head(s) \in Frames
    BY DEF Shape, Top
<1>2. f \in Frames /\ f.id = Top(l).id /\ f.at = where /\ f.todo = todo
    BY <1>1 DEF Frames
<1>3. StackOk(s, edges', m_modules', UpSet')
    BY <1>1, StackGrows DEF Stacks
<1>4. stack' = [stack EXCEPT ![l] = <<f>> \o Tail(s)]
    BY DEF Goto, Shape
<1>. HIDE DEF f, s
<1>5. <<f>> \o Tail(s) \in Seq(Frames) /\ StackOk(<<f>> \o Tail(s), edges', m_modules', UpSet')
    BY <1>1, <1>2, <1>3, StackGoes
<1>. QED
    BY <1>4, <1>5, StackSteps

\* Something throws in a frame.
LEMMA ThrowSteps ==
    ASSUME Shape, Stacks, NEW l \in Loaders, Throw(l),
           edges \subseteq edges', m_modules \subseteq m_modules', UpSet \subseteq UpSet'
    PROVE  /\ stack' \in [Loaders -> Seq(Frames)] /\ Stacks'
           /\ \A j \in Loaders : j # l => stack'[j] = stack[j]
<1>1. Failed \in Frames /\ Failed.at = "threw"
    BY DEF Failed, Frames, FrameAt
<1>2. <<Failed>> \in Seq(Frames) /\ StackOk(<<Failed>>, edges', m_modules', UpSet')
    BY <1>1, StackNew
<1>. QED
    BY <1>2, StackSteps DEF Throw

\* A step of a loader that changes nothing but its stack.
LEMMA StackIInv ==
    ASSUME IInv, NEW l \in Loaders, stack[l] # << >>, stack' \in [Loaders -> Seq(Frames)], Stacks',
           \A j \in Loaders : j # l => stack'[j] = stack[j],
           UNCHANGED <<m_modules, graphVars, schedVars, mainVars, histVars>>
    PROVE  IInv'
<1>. USE DEF IInv, graphVars, schedVars, mainVars, histVars
<1>1. Shape' /\ Graph'
    BY DEF Shape, Graph
<1>2. Registered' /\ HostGoesDown' /\ AllStopped' /\ Sorted' /\ DependenciesUp'
    BY DEF Registered, HostGoesDown, AllStopped, Sorted, sortedNext, DependenciesUp, Cleared
<1>3. WhoLoads'
    BY DEF WhoLoads, Loaders
<1>. QED
    BY <1>1, <1>2, <1>3

\* What a loader finds at the top of its stack.
LEMMA TopOk ==
    ASSUME Shape, Stacks, NEW l \in Loaders, stack[l] # << >>
    PROVE  /\ Top(l) \in Frames /\ Top(l).id \in Mods /\ Top(l).todo \subseteq Mods /\ Top(l).at \in FrameAt
           /\ stack[l] \in Seq(Frames) /\ StackOk(stack[l], edges, m_modules, UpSet)
           /\ FrameOk(Top(l), edges, m_modules, UpSet) /\ Innermost(Top(l), UpSet)
<1>1. stack[l] \in Seq(Frames) /\ StackOk(stack[l], edges, m_modules, UpSet)
    BY DEF Shape, Stacks
<1>2. 1 \in 1..Len(stack[l]) /\ Top(l) = stack[l][1] /\ Top(l) \in Frames
    BY <1>1 DEF Top
<1>3. FrameOk(Top(l), edges, m_modules, UpSet) /\ Innermost(Top(l), UpSet)
    BY <1>1, <1>2 DEF StackOk
<1>. QED
    BY <1>1, <1>2, <1>3 DEF Frames

\* A step of load() that changes neither the graph nor the lists.
LEMMA QuietLoadIInv ==
    ASSUME IInv, NEW l \in Loaders,
           getModule4Start(l) \/ getDependency(l) \/ loadDependency(l) \/ checkStarted(l) \/ waitStart(l)
    PROVE  IInv'
<1>. Shape /\ Stacks /\ Registered
    BY DEF IInv
<1>0. stack[l] # << >>
    BY DEF getModule4Start, getDependency, loadDependency, checkStarted, waitStart, At
<1>1. UNCHANGED <<m_modules, graphVars, schedVars, mainVars, histVars>>
    BY DEF getModule4Start, getDependency, loadDependency, checkStarted, waitStart
<1>2. UNCHANGED <<m_modules, edges, UpSet>>
    BY <1>1 DEF graphVars, schedVars, mainVars, UpSet, Early
<1>3. /\ Top(l) \in Frames /\ Top(l).id \in Mods /\ Top(l).todo \subseteq Mods
      /\ stack[l] \in Seq(Frames) /\ StackOk(stack[l], edges, m_modules, UpSet)
      /\ FrameOk(Top(l), edges, m_modules, UpSet) /\ Innermost(Top(l), UpSet)
    BY <1>0, TopOk
<1>. DEFINE Good == /\ stack' \in [Loaders -> Seq(Frames)] /\ Stacks'
                    /\ \A j \in Loaders : j # l => stack'[j] = stack[j]
<1>4. CASE getModule4Start(l)
    <2>1. CASE Top(l).id \in m_modules /\ Goto(l, "known", {})
        <3>1. \A f \in Frames : f.id = Top(l).id /\ f.at = "known" /\ f.todo = {} =>
                  FrameOk(f, edges', m_modules', UpSet') /\ Innermost(f, UpSet')
            BY <1>2, <2>1 DEF FrameOk, Innermost
        <3>2. Good
            BY <1>0, <1>2, <2>1, <3>1, GotoSteps DEF FrameAt
        <3>. QED
            BY <1>0, <1>1, <3>2, StackIInv
    <2>2. CASE Goto(l, "register", Declared[Top(l).id])
        <3>1. \A f \in Frames : f.id = Top(l).id /\ f.at = "register" /\ f.todo = Declared[Top(l).id] =>
                  FrameOk(f, edges', m_modules', UpSet') /\ Innermost(f, UpSet')
            BY DEF FrameOk, Innermost
        <3>2. Declared[Top(l).id] \in SUBSET Mods
            BY <1>3
        <3>3. Good
            BY <1>0, <1>2, <2>2, <3>1, <3>2, GotoSteps DEF FrameAt
        <3>. QED
            BY <1>0, <1>1, <3>3, StackIInv
    <2>3. CASE Throw(l)
        <3>1. Good
            BY <1>2, <2>3, ThrowSteps
        <3>. QED
            BY <1>0, <1>1, <3>1, StackIInv
    <2>. QED
        BY <1>4, <2>1, <2>2, <2>3 DEF getModule4Start
<1>5. CASE getDependency(l)
    <2>. DEFINE T == {d \in Mods : <<Top(l).id, d>> \in edges}
    <2>1. Top(l).id \in m_modules /\ Goto(l, "deps", T)
        BY <1>3, <1>5 DEF getDependency, At, FrameOk
    <2>2. Declared[Top(l).id] \ {Top(l).id} \subseteq UpSet \cup T
        <3>1. CASE Cleared
            BY <1>3, <3>1 DEF Cleared, UpSet, Early
        <3>2. CASE ~Cleared
            BY <1>3, <2>1, <3>2 DEF Registered
        <3>. QED
            BY <3>1, <3>2
    <2>3. \A f \in Frames : f.id = Top(l).id /\ f.at = "deps" /\ f.todo = T =>
              FrameOk(f, edges', m_modules', UpSet') /\ Innermost(f, UpSet')
        BY <1>2, <2>1, <2>2 DEF FrameOk, Innermost
    <2>4. T \in SUBSET Mods
        OBVIOUS
    <2>. HIDE DEF T
    <2>5. Good
        BY <1>0, <1>2, <2>1, <2>3, <2>4, GotoSteps DEF FrameAt
    <2>. QED
        BY <1>0, <1>1, <2>5, StackIInv
<1>6. CASE loadDependency(l)
    <2>1. ASSUME NEW d \in Top(l).todo,
                 stack' = [stack EXCEPT ![l] = <<Frame(d), [Top(l) EXCEPT !.todo = @ \ {d}]>> \o Tail(@)]
          PROVE  Good
        <3>. DEFINE r == <<Frame(d), [Top(l) EXCEPT !.todo = @ \ {d}]>> \o Tail(stack[l])
        <3>1. r \in Seq(Frames) /\ StackOk(r, edges, m_modules, UpSet)
            BY <1>0, <1>3, <1>6, <2>1, StackCalls DEF Top, loadDependency, At
        <3>2. stack' = [stack EXCEPT ![l] = r]
            BY <2>1 DEF Shape
        <3>. HIDE DEF r
        <3>. QED
            BY <1>2, <3>1, <3>2, StackSteps
    <2>2. ASSUME Top(l).todo = {}, Goto(l, "start", {}) PROVE Good
        <3>1. \A f \in Frames : f.id = Top(l).id /\ f.at = "start" /\ f.todo = {} =>
                  FrameOk(f, edges', m_modules', UpSet') /\ Innermost(f, UpSet')
            BY <1>2, <1>3, <1>6, <2>2 DEF FrameOk, Innermost, loadDependency, At
        <3>. QED
            BY <1>0, <1>2, <2>2, <3>1, GotoSteps DEF FrameAt
    <2>3. Good
        BY <1>6, <2>1, <2>2 DEF loadDependency
    <2>. QED
        BY <1>0, <1>1, <2>3, StackIInv
<1>7. CASE checkStarted(l)
    <2>1. ASSUME Top(l).id \in m_threads, Goto(l, "wait", {}) PROVE Good
        <3>1. Top(l).id \in UpSet
            BY <1>3, <2>1 DEF UpSet
        <3>2. \A f \in Frames : f.id = Top(l).id /\ f.at = "wait" /\ f.todo = {} =>
                  FrameOk(f, edges', m_modules', UpSet') /\ Innermost(f, UpSet')
            BY <1>2, <1>3, <1>7, <3>1 DEF FrameOk, Innermost, checkStarted, At
        <3>. QED
            BY <1>0, <1>2, <2>1, <3>2, GotoSteps DEF FrameAt
    <2>2. ASSUME Throw(l) PROVE Good
        BY <1>2, <2>2, ThrowSteps
    <2>3. Good
        BY <1>7, <2>1, <2>2 DEF checkStarted
    <2>. QED
        BY <1>0, <1>1, <2>3, StackIInv
<1>8. CASE waitStart(l)
    <2>1. ASSUME stack' = [stack EXCEPT ![l] = Tail(@)] PROVE Good
        <3>1. Tail(stack[l]) \in Seq(Frames) /\ StackOk(Tail(stack[l]), edges, m_modules, UpSet)
            BY <1>0, <1>3, <1>8, StackReturns DEF Top, waitStart, At
        <3>2. stack' = [stack EXCEPT ![l] = Tail(stack[l])]
            BY <2>1 DEF Shape
        <3>. QED
            BY <1>2, <3>1, <3>2, StackSteps
    <2>2. ASSUME Throw(l) PROVE Good
        BY <1>2, <2>2, ThrowSteps
    <2>3. Good
        BY <1>8, <2>1, <2>2 DEF waitStart
    <2>. QED
        BY <1>0, <1>1, <2>3, StackIInv
<1>. QED
    BY <1>4, <1>5, <1>6, <1>7, <1>8

\* A step of a loader that changes the graph or registers a module.
LEMMA GraphIInv ==
    ASSUME IInv, NEW l \in Loaders, stack[l] # << >>, stack' \in [Loaders -> Seq(Frames)], Stacks',
           \A j \in Loaders : j # l => stack'[j] = stack[j],
           m_modules' \subseteq Mods, vertices' \subseteq Mods, edges' \subseteq Mods \X Mods,
           Graph', Registered', UNCHANGED <<schedVars, mainVars, histVars>>
    PROVE  IInv'
<1>. USE DEF IInv, schedVars, mainVars, histVars
<1>1. Shape'
    BY DEF Shape
<1>2. HostGoesDown' /\ AllStopped' /\ Sorted' /\ DependenciesUp'
    BY DEF HostGoesDown, AllStopped, Sorted, sortedNext, DependenciesUp, Cleared
<1>3. WhoLoads'
    BY DEF WhoLoads, Loaders
<1>. QED
    BY <1>1, <1>2, <1>3

\* A dependency is added to the graph, or would close a cycle.
LEMMA AddDependencyIInv == ASSUME IInv, NEW l \in Loaders, addDependency(l) PROVE IInv'
<1>. USE DEF graphVars
<1>. Shape /\ Stacks /\ Graph /\ Registered
    BY DEF IInv
<1>0. stack[l] # << >> /\ Top(l).at = "register"
    BY DEF addDependency, At
<1>1. UNCHANGED <<m_modules, schedVars, mainVars, histVars>>
    BY DEF addDependency
<1>2. UNCHANGED <<m_modules, m_threads, thread, pc, UpSet>>
    BY <1>1 DEF schedVars, mainVars, UpSet, Early
<1>3. /\ Top(l) \in Frames /\ Top(l).id \in Mods /\ Top(l).todo \subseteq Mods
      /\ FrameOk(Top(l), edges, m_modules, UpSet)
    BY <1>0, TopOk
<1>. DEFINE child == Top(l).id
<1>4. PICK parent \in Top(l).todo :
        \/ /\ child = parent /\ Goto(l, "register", Top(l).todo \ {parent}) /\ UNCHANGED graphVars
        \/ /\ child # parent /\ ~HasCycle(edges \cup {<<child, parent>>})
           /\ Goto(l, "register", Top(l).todo \ {parent})
           /\ vertices' = vertices \cup {child, parent} /\ edges' = edges \cup {<<child, parent>>}
        \/ Throw(l) /\ vertices' = vertices \cup {child, parent} /\ UNCHANGED edges
    BY DEF addDependency
<1>5. parent \in Mods /\ Top(l).todo \ {parent} \in SUBSET Mods
    BY <1>3
<1>6. /\ edges \subseteq edges' /\ edges' \subseteq Mods \X Mods /\ vertices' \subseteq Mods
      /\ \A m, d \in Mods : <<m, d>> \in edges' => <<m, d>> \in edges \/ (m = child /\ m \in vertices')
      /\ vertices \subseteq vertices'
    <2>1. edges \subseteq Mods \X Mods /\ vertices \subseteq Mods /\ child \in Mods /\ parent \in Mods
        BY <1>3, <1>5 DEF Shape
    <2>2. \/ edges' = edges /\ (vertices' = vertices \/ vertices' = vertices \cup {child, parent})
          \/ edges' = edges \cup {<<child, parent>>} /\ vertices' = vertices \cup {child, parent}
        BY <1>4
    <2>. HIDE DEF child
    <2>3. <<child, parent>> \in Mods \X Mods
        BY <2>1
    <2>4. CASE edges' = edges
        BY <2>1, <2>2, <2>4
    <2>5. CASE edges' = edges \cup {<<child, parent>>} /\ vertices' = vertices \cup {child, parent}
        BY <2>1, <2>3, <2>5
    <2>. QED
        BY <2>2, <2>4, <2>5
<1>7. Graph'
    <2>1. ~HasCycle(edges')
        BY <1>4 DEF Graph
    <2>. QED
        BY <1>6, <2>1 DEF Graph, HasCycle
<1>8. Registered'
    BY <1>2, <1>6 DEF Registered, Cleared
<1>9. /\ stack' \in [Loaders -> Seq(Frames)] /\ Stacks'
      /\ \A j \in Loaders : j # l => stack'[j] = stack[j]
    <2>1. CASE Throw(l)
        BY <1>2, <1>6, <2>1, ThrowSteps
    <2>2. CASE Goto(l, "register", Top(l).todo \ {parent}) /\ (child = parent \/ <<child, parent>> \in edges')
        <3>1. \A f \in Frames : f.id = child /\ f.at = "register" /\ f.todo = Top(l).todo \ {parent} =>
                  FrameOk(f, edges', m_modules', UpSet') /\ Innermost(f, UpSet')
            BY <1>0, <1>3, <1>6, <2>2 DEF FrameOk, Innermost
        <3>. QED
            BY <1>0, <1>2, <1>5, <1>6, <2>2, <3>1, GotoSteps DEF FrameAt
    <2>. QED
        BY <1>4, <2>1, <2>2
<1>. QED
    BY <1>0, <1>1, <1>6, <1>7, <1>8, <1>9, GraphIInv DEF Shape

\* A module that has added all it declares becomes a known one.
LEMMA AddModuleIInv == ASSUME IInv, NEW l \in Loaders, addModule(l) PROVE IInv'
<1>. USE DEF graphVars
<1>. Shape /\ Stacks /\ Graph /\ Registered
    BY DEF IInv
<1>0. /\ stack[l] # << >> /\ Top(l).at = "register" /\ Top(l).todo = {} /\ Goto(l, "known", {})
      /\ m_modules' = m_modules \cup {Top(l).id}
      /\ UNCHANGED <<graphVars, schedVars, mainVars, histVars>>
    BY DEF addModule, At
<1>1. UNCHANGED <<m_threads, thread, pc, UpSet>>
    BY <1>0 DEF schedVars, mainVars, UpSet, Early
<1>2. Top(l).id \in Mods /\ FrameOk(Top(l), edges, m_modules, UpSet)
    BY <1>0, TopOk
<1>3. Registered'
    BY <1>0, <1>1, <1>2 DEF Registered, Cleared, FrameOk
<1>4. Graph'
    BY <1>0 DEF Graph
<1>5. \A f \in Frames : f.id = Top(l).id /\ f.at = "known" /\ f.todo = {} =>
          FrameOk(f, edges', m_modules', UpSet') /\ Innermost(f, UpSet')
    BY <1>0 DEF FrameOk, Innermost
<1>6. /\ stack' \in [Loaders -> Seq(Frames)] /\ Stacks'
      /\ \A j \in Loaders : j # l => stack'[j] = stack[j]
    <2>1. edges \subseteq edges' /\ m_modules \subseteq m_modules' /\ UpSet \subseteq UpSet'
        BY <1>0, <1>1
    <2>2. "known" \in FrameAt /\ {} \in SUBSET Mods
        BY DEF FrameAt
    <2>3. stack[l] # << >> /\ Goto(l, "known", {})
        BY <1>0
    <2>. QED
        BY <1>5, <2>1, <2>2, <2>3, GotoSteps
<1>. QED
    BY <1>0, <1>2, <1>3, <1>4, <1>6, GraphIInv DEF Shape

\* The thread of a module is started.
LEMMA StartModuleThreadIInv == ASSUME IInv, NEW l \in Loaders, startModuleThread(l) PROVE IInv'
<1>. USE DEF graphVars, mainVars
<1>. Shape /\ Stacks /\ Graph /\ Registered /\ WhoLoads /\ HostGoesDown /\ AllStopped /\ Sorted /\ DependenciesUp
    BY DEF IInv
<1>. DEFINE m == Top(l).id
<1>0. /\ stack[l] # << >> /\ Top(l).at = "start" /\ Goto(l, "check", {})
      /\ UNCHANGED <<m_modules, graphVars, m_stop, mainVars>>
    BY DEF startModuleThread, At
<1>1. m \in Mods /\ FrameOk(Top(l), edges, m_modules, UpSet)
    BY <1>0, TopOk
<1>2. m \in m_modules /\ Declared[m] \ {m} \subseteq UpSet
    BY <1>0, <1>1 DEF FrameOk
<1>3. \/ /\ m \notin m_threads /\ m_threads' = m_threads \cup {m}
         /\ thread' = [thread EXCEPT ![m] = "starting"]
         /\ late' = IF Early THEN late ELSE late \cup {m}
      \/ UNCHANGED <<m_threads, thread, late>>
    BY DEF startModuleThread, Early
<1>4. UpSet \subseteq UpSet' /\ m_threads \subseteq m_threads' /\ m_threads' \subseteq Mods
    BY <1>0, <1>1, <1>3 DEF UpSet, Early, Shape
<1>5. /\ stack' \in [Loaders -> Seq(Frames)] /\ Stacks'
      /\ \A j \in Loaders : j # l => stack'[j] = stack[j]
    <2>1. \A f \in Frames : f.id = m /\ f.at = "check" /\ f.todo = {} =>
              FrameOk(f, edges', m_modules', UpSet') /\ Innermost(f, UpSet')
        BY <1>0, <1>2, <1>4 DEF FrameOk, Innermost
    <2>. QED
        BY <1>0, <1>4, <2>1, GotoSteps DEF FrameAt
<1>6. Shape' /\ Graph'
    <2>1. thread' \in [Mods -> {"off", "starting", "on", "told", "asleep"}]
        BY <1>1, <1>3 DEF Shape
    <2>2. Shape'
        BY <1>0, <1>4, <1>5, <2>1 DEF Shape
    <2>3. Graph'
        BY <1>0 DEF Graph
    <2>. QED
        BY <2>2, <2>3
<1>. HIDE DEF m
<1>7. CASE UNCHANGED <<m_threads, thread, late>>
    <2>1. Registered' /\ HostGoesDown' /\ AllStopped' /\ Sorted' /\ DependenciesUp'
        BY <1>0, <1>7 DEF Registered, HostGoesDown, AllStopped, Sorted, sortedNext, DependenciesUp, Cleared
    <2>2. WhoLoads'
        BY <1>0, <1>5, <1>7 DEF WhoLoads, Loaders
    <2>. QED
        BY <1>5, <1>6, <2>1, <2>2 DEF IInv
<1>8. CASE /\ m \notin m_threads /\ m_threads' = m_threads \cup {m}
           /\ thread' = [thread EXCEPT ![m] = "starting"]
           /\ late' = IF Early THEN late ELSE late \cup {m}
    \* who loads is the main thread, or the host, which is up
    <2>1. ~Cleared /\ (l = "cli" => thread[Host] \notin {"off", "starting"}) /\ (l = "main" => pc = "start")
        BY <1>0 DEF WhoLoads, HostGoesDown, Loaders, Cleared
    <2>2. /\ thread[m] = "off" /\ (m = Host => l = "main")
          /\ \A n \in Mods : n # m => thread'[n] = thread[n]
          /\ thread'[m] = "starting"
        BY <1>1, <1>8, <2>1 DEF Registered, Shape, Loaders
    <2>3. Registered'
        BY <1>0, <1>2, <1>8, <2>2 DEF Registered, Cleared
    <2>4. WhoLoads'
        <3>1. m = Host => stack["cli"] = << >> /\ stack'["cli"] = stack["cli"]
            BY <1>5, <2>2 DEF WhoLoads, Loaders
        <3>. QED
            BY <1>0, <1>5, <2>2, <3>1 DEF WhoLoads, Loaders
    <2>5. HostGoesDown' /\ AllStopped'
        BY <1>0, <2>1, <2>2 DEF HostGoesDown, AllStopped, Cleared
    <2>6. Sorted'
        BY <1>0, <1>8 DEF Sorted, sortedNext, Early
    <2>7. DependenciesUp'
        BY <1>0, <1>2, <1>8 DEF DependenciesUp, UpSet, Early
    <2>. QED
        BY <1>5, <1>6, <2>3, <2>4, <2>5, <2>6, <2>7 DEF IInv
<1>. QED
    BY <1>3, <1>7, <1>8 DEF m

\* load() of a root, or of what a command names; the end of a failed one.
LEMMA BeginIInv ==
    ASSUME IInv, startModules \/ loadCommand \/ \E l \in Loaders : caught(l)
    PROVE  IInv'
<1>. USE DEF graphVars, schedVars, mainVars, histVars
<1>. Shape /\ Stacks /\ Graph /\ Registered /\ WhoLoads /\ HostGoesDown /\ AllStopped /\ Sorted /\ DependenciesUp
    BY DEF IInv
<1>0. UNCHANGED <<m_modules, graphVars, schedVars, left, order, cur, late>>
    BY DEF startModules, loadCommand, caught
<1>1. ASSUME NEW l \in Loaders, NEW r \in Seq(Frames), stack' = [stack EXCEPT ![l] = r],
             \A E, M, U : StackOk(r, E, M, U),
             pc' \in {pc, "failed"}, pc' # pc => pc = "start" /\ r = << >> /\ l = "main",
             l = "main" /\ pc # "start" => r = << >>,
             l = "cli" /\ thread[Host] \in {"off", "starting"} => r = << >>,
             root' \in Nat \ {0}
      PROVE  IInv'
    <2>1. UpSet \subseteq UpSet'
        BY <1>0, <1>1 DEF UpSet, Early, Shape
    <2>2. /\ stack' \in [Loaders -> Seq(Frames)] /\ Stacks'
          /\ stack'[l] = r /\ \A j \in Loaders : j # l => stack'[j] = stack[j]
        BY <1>0, <1>1, <2>1, StackSteps
    <2>3. Shape' /\ Graph'
        BY <1>0, <1>1, <2>2 DEF Shape, Graph
    <2>4. WhoLoads'
        BY <1>0, <1>1, <2>2 DEF WhoLoads, Loaders
    <2>5. Registered' /\ HostGoesDown' /\ AllStopped' /\ Sorted'
        BY <1>0, <1>1 DEF Registered, HostGoesDown, AllStopped, Sorted, sortedNext, Cleared
    <2>6. DependenciesUp'
        BY <1>0, <1>1 DEF DependenciesUp
    <2>. QED
        BY <2>2, <2>3, <2>4, <2>5, <2>6 DEF IInv
<1>2. CASE startModules
    <2>1. CASE /\ pc = "start" /\ root <= Len(Roots) /\ root' = root + 1 /\ UNCHANGED pc
               /\ stack' = [stack EXCEPT !["main"] = <<Frame(Roots[root])>>]
        <3>1. Frame(Roots[root]) \in Frames /\ Frame(Roots[root]).at = "get"
            BY <2>1 DEF Shape, Frame, Frames, FrameAt
        <3>2. /\ <<Frame(Roots[root])>> \in Seq(Frames)
              /\ \A E, M, U : StackOk(<<Frame(Roots[root])>>, E, M, U)
            BY <3>1, StackNew
        <3>3. root' \in Nat \ {0}
            BY <2>1 DEF Shape
        <3>. QED
            BY <1>1, <2>1, <3>2, <3>3 DEF Loaders
    <2>2. CASE pc = "start" /\ stack["main"] = << >> /\ pc' = "loaded" /\ UNCHANGED <<root, stack>>
        <3>1. UpSet' = UpSet
            BY <1>0, <2>2 DEF UpSet, Early
        <3>2. Stacks'
            BY <1>0, <2>2, <3>1, StacksStay
        <3>3. Shape' /\ Graph' /\ WhoLoads'
            BY <1>0, <2>2 DEF Shape, Graph, WhoLoads
        <3>4. Registered' /\ HostGoesDown' /\ AllStopped' /\ Sorted' /\ DependenciesUp'
            BY <1>0, <2>2 DEF Registered, HostGoesDown, AllStopped, Sorted, Cleared, DependenciesUp
        <3>. QED
            BY <3>2, <3>3, <3>4 DEF IInv
    <2>. QED
        BY <1>2, <2>1, <2>2 DEF startModules
<1>3. CASE loadCommand
    <2>1. PICK m \in Installed : stack' = [stack EXCEPT !["cli"] = <<Frame(m)>>]
        BY <1>3 DEF loadCommand
    <2>2. Frame(m) \in Frames /\ Frame(m).at = "get"
        BY DEF Frame, Frames, FrameAt
    <2>3. <<Frame(m)>> \in Seq(Frames) /\ \A E, M, U : StackOk(<<Frame(m)>>, E, M, U)
        BY <2>2, StackNew
    <2>4. UNCHANGED <<pc, root>> /\ thread[Host] \in {"on", "told"}
        BY <1>3 DEF loadCommand
    <2>. QED
        BY <1>1, <2>1, <2>3, <2>4 DEF Loaders, Shape
<1>4. ASSUME NEW l \in Loaders, caught(l) PROVE IInv'
    <2>1. /\ stack[l] # << >> /\ stack' = [stack EXCEPT ![l] = << >>] /\ UNCHANGED root
          /\ pc' = IF l = "main" THEN "failed" ELSE pc
        BY <1>4 DEF caught, At
    <2>2. l = "main" => pc = "start"
        BY <2>1 DEF WhoLoads
    <2>. QED
        BY <1>1, <2>1, <2>2, StackEmpty DEF Shape
<1>. QED
    BY <1>2, <1>3, <1>4

\* The thread of a module comes up, or ends.
LEMMA ModuleThreadIInv == ASSUME IInv, NEW m \in Mods, moduleThread(m) PROVE IInv'
<1>. USE DEF graphVars, mainVars, histVars
<1>. Shape /\ Stacks /\ Graph /\ Registered /\ WhoLoads /\ HostGoesDown /\ AllStopped /\ Sorted /\ DependenciesUp
    BY DEF IInv
<1>0. /\ UNCHANGED <<m_modules, graphVars, m_lock, stack, m_threads, m_stop, mainVars, histVars>>
      /\ \/ thread[m] = "starting" /\ thread' = [thread EXCEPT ![m] = "on"]
         \/ /\ thread[m] = "told" /\ (m = Host => stack["cli"] = << >>)
            /\ \E end \in {"off", "asleep"} : thread' = [thread EXCEPT ![m] = end]
    BY DEF moduleThread
<1>1. /\ thread' \in [Mods -> {"off", "starting", "on", "told", "asleep"}]
      /\ \A n \in Mods : n # m => thread'[n] = thread[n]
      /\ thread[m] # "off" /\ thread'[m] \in {"on", "off", "asleep"}
      /\ thread'[m] \in {"off", "asleep"} /\ m = Host => stack["cli"] = << >>
    BY <1>0 DEF Shape
<1>2. UNCHANGED UpSet
    BY <1>0 DEF UpSet, Early
<1>3. Stacks'
    BY <1>0, <1>2, StacksStay
<1>4. Shape' /\ Graph'
    BY <1>0, <1>1 DEF Shape, Graph
<1>5. Registered' /\ WhoLoads' /\ HostGoesDown'
    BY <1>0, <1>1 DEF Registered, WhoLoads, HostGoesDown, Cleared
<1>6. AllStopped' /\ Sorted' /\ DependenciesUp'
    BY <1>0, <1>1 DEF AllStopped, Sorted, sortedNext, DependenciesUp
<1>. QED
    BY <1>3, <1>4, <1>5, <1>6 DEF IInv

\* unloadAll(): the order, one module after the other, and the clearing.
LEMMA UnloadIInv ==
    ASSUME IInv, unloadAll \/ unload \/ stopThread \/ eraseThread \/ checkUnloaded \/ clear
    PROVE  IInv'
<1>. USE DEF graphVars, schedVars, mainVars, histVars
<1>. Shape /\ Stacks /\ Graph /\ Registered /\ WhoLoads /\ HostGoesDown /\ AllStopped /\ Sorted /\ DependenciesUp
    BY DEF IInv
<1>0. UNCHANGED <<m_modules, stack, root, late>>
    BY DEF unloadAll, unload, stopThread, eraseThread, checkUnloaded, clear
<1>u. pc' \notin {"start", "loaded"} /\ UpSet \subseteq UpSet'
    BY DEF unloadAll, unload, stopThread, eraseThread, checkUnloaded, clear, UpSet, Early, Shape
<1>d. DependenciesUp' /\ ~Early'
    BY <1>u DEF DependenciesUp, Early
<1>1. CASE unloadAll
    <2>1. /\ pc = "loaded" /\ pc' = "next" /\ left' = vertices /\ order' = edges
          /\ UNCHANGED <<graphVars, schedVars, cur>>
        BY <1>1 DEF unloadAll
    <2>2. Shape' /\ Graph' /\ WhoLoads' /\ Registered' /\ AllStopped'
        BY <1>0, <2>1 DEF Shape, Graph, WhoLoads, Registered, AllStopped, Cleared
    <2>3. \A m \in m_threads : \A d \in Declared[m] \ {m} : <<m, d>> \in edges /\ m \in vertices
        BY <2>1 DEF Registered, Cleared, Graph, Shape
    <2>4. Sorted'
        BY <1>0, <2>1, <2>3 DEF Sorted
    <2>5. HostGoesDown'
        BY <2>1, <2>3 DEF HostGoesDown, Registered, Cleared
    <2>6. Stacks'
        BY <1>0, <1>u, <2>1, StacksStay
    <2>. QED
        BY <1>d, <2>2, <2>4, <2>5, <2>6 DEF IInv
<1>2. CASE unload
    <2>1. PICK m \in left :
            /\ sortedNext(m) /\ cur' = m /\ left' = left \ {m}
            /\ pc' = IF m \in m_modules THEN "unload" ELSE "next"
        BY <1>2 DEF unload
    <2>2. pc = "next" /\ UNCHANGED <<graphVars, m_threads, m_stop, thread, order>>
        BY <1>2 DEF unload
    <2>3. Shape' /\ Graph' /\ AllStopped'
        BY <1>0, <2>1, <2>2 DEF Shape, Graph, AllStopped
    <2>4. Registered' /\ WhoLoads'
        BY <1>0, <2>1, <2>2 DEF Registered, WhoLoads, Cleared
    <2>5. HostGoesDown'
        BY <2>1, <2>2 DEF HostGoesDown, Cleared, Registered
    <2>6. Sorted'
        BY <1>0, <2>1, <2>2 DEF Sorted, sortedNext, Registered
    <2>7. Stacks'
        BY <1>0, <1>u, <2>2, StacksStay
    <2>. QED
        BY <1>d, <2>3, <2>4, <2>5, <2>6, <2>7 DEF IInv
<1>6. CASE stopThread
    <2>1. /\ \/ cur \notin m_threads /\ pc' = "check" /\ UNCHANGED thread
             \/ cur \in m_threads /\ pc' = "join" /\ thread' = Told(cur)
        BY <1>6 DEF stopThread, stopThreadByInfo
    <2>2. pc = "unload" /\ UNCHANGED <<graphVars, m_threads, m_stop, left, cur, order>>
        BY <1>6 DEF stopThread
    <2>3. /\ thread' \in [Mods -> {"off", "starting", "on", "told", "asleep"}]
          /\ \A n \in Mods : \/ thread'[n] = thread[n]
                             \/ n = cur /\ thread[n] # "off" /\ thread'[n] = "told" /\ pc' = "join"
        BY <2>1 DEF Told, Shape
    <2>4. Shape' /\ Graph' /\ AllStopped'
        BY <1>0, <2>1, <2>2, <2>3 DEF Shape, Graph, AllStopped
    <2>5. Registered' /\ WhoLoads'
        BY <1>0, <2>1, <2>2, <2>3 DEF Registered, WhoLoads, Cleared
    <2>6. HostGoesDown'
        BY <2>1, <2>2, <2>3 DEF HostGoesDown, Cleared, Registered
    <2>7. Sorted'
        BY <1>0, <2>1, <2>2 DEF Sorted
    <2>8. Stacks'
        BY <1>0, <1>u, <2>2, StacksStay
    <2>. QED
        BY <1>d, <2>4, <2>5, <2>6, <2>7, <2>8 DEF IInv
<1>3. CASE eraseThread
    <2>1. /\ pc = "join" /\ thread[cur] = "off" /\ pc' = "check" /\ m_threads' = m_threads \ {cur}
          /\ UNCHANGED <<graphVars, m_stop, thread, left, order, cur>>
        BY <1>3 DEF eraseThread
    <2>2. Shape' /\ Graph' /\ AllStopped' /\ WhoLoads'
        BY <1>0, <2>1 DEF Shape, Graph, AllStopped, WhoLoads
    <2>3. Registered' /\ HostGoesDown' /\ Sorted'
        BY <1>0, <2>1 DEF Registered, HostGoesDown, Sorted, Cleared
    <2>4. Stacks'
        BY <1>0, <1>u, <2>1, StacksStay
    <2>. QED
        BY <1>d, <2>2, <2>3, <2>4 DEF IInv
<1>4. CASE checkUnloaded
    <2>1. /\ pc = "check" /\ pc' \in {"aborted", "next"}
          /\ UNCHANGED <<graphVars, schedVars, left, order, cur>>
        BY <1>4 DEF checkUnloaded
    <2>2. Shape' /\ Graph' /\ AllStopped' /\ WhoLoads'
        BY <1>0, <2>1 DEF Shape, Graph, AllStopped, WhoLoads
    <2>3. Registered' /\ HostGoesDown' /\ Sorted'
        BY <1>0, <2>1 DEF Registered, HostGoesDown, Sorted, Cleared
    <2>4. Stacks'
        BY <1>0, <1>u, <2>1, StacksStay
    <2>. QED
        BY <1>d, <2>2, <2>3, <2>4 DEF IInv
<1>5. CASE clear
    <2>1. /\ pc = "next" /\ left = {} /\ pc' = "cleared" /\ vertices' = {} /\ edges' = {}
          /\ UNCHANGED <<schedVars, left, order, cur>>
        BY <1>5 DEF clear
    <2>2. thread[Host] = "off" /\ \A l \in Loaders : stack[l] = << >>
        BY <2>1 DEF HostGoesDown, WhoLoads, Loaders
    <2>3. Shape' /\ Graph' /\ AllStopped' /\ WhoLoads'
        BY <1>0, <2>1 DEF Shape, Graph, HasCycle, AllStopped, WhoLoads
    <2>4. Registered' /\ HostGoesDown' /\ Sorted'
        BY <1>0, <2>1, <2>2 DEF Registered, HostGoesDown, Sorted, Cleared
    <2>5. Stacks'
        BY <1>0, <2>2, StackEmpty DEF Stacks
    <2>. QED
        BY <1>d, <2>3, <2>4, <2>5 DEF IInv
<1>. QED
    BY <1>1, <1>2, <1>3, <1>4, <1>5, <1>6

\* stop() of the scheduler.
LEMMA StopAllIInv == ASSUME IInv, stopAll PROVE IInv'
<1>. USE DEF graphVars, schedVars, mainVars, histVars
<1>. Shape /\ Stacks /\ Graph /\ Registered /\ WhoLoads /\ HostGoesDown /\ AllStopped /\ Sorted /\ DependenciesUp
    BY DEF IInv
<1>0. UNCHANGED <<m_modules, graphVars, stack, root, order, late>>
    BY DEF stopAll
<1>1. Cleared /\ Cleared' /\ pc' \in {"stopNext", "stopJoin", "done"}
    BY DEF stopAll, Cleared
<1>2. UpSet \subseteq UpSet'
    BY <1>1 DEF UpSet, Early, Cleared, Shape
<1>3. Stacks'
    BY <1>0, <1>2, StacksStay
<1>4. Graph' /\ Sorted' /\ DependenciesUp'
    BY <1>0, <1>1 DEF Graph, Sorted, DependenciesUp, Cleared
<1>5. CASE /\ pc = "cleared" /\ pc' = "stopNext" /\ left' = m_threads /\ UNCHANGED <<m_threads, thread, cur>>
    BY <1>0, <1>1, <1>3, <1>4, <1>5 DEF IInv, Shape, Registered, WhoLoads, HostGoesDown, AllStopped, Cleared
<1>6. ASSUME NEW m \in left, pc = "stopNext", pc' = "stopJoin", cur' = m, left' = left \ {m}, thread' = Told(m),
             UNCHANGED m_threads
      PROVE  IInv'
    <2>1. /\ thread' \in [Mods -> {"off", "starting", "on", "told", "asleep"}]
          /\ \A n \in Mods : thread'[n] = thread[n] \/ (n = m /\ thread[n] # "off" /\ thread'[n] = "told")
        BY <1>6 DEF Told, Shape
    <2>2. Shape' /\ Registered'
        BY <1>0, <1>1, <1>6, <2>1 DEF Shape, Registered
    <2>3. WhoLoads' /\ HostGoesDown' /\ AllStopped'
        BY <1>0, <1>6, <2>1 DEF WhoLoads, HostGoesDown, AllStopped, Cleared
    <2>. QED
        BY <1>3, <1>4, <2>2, <2>3 DEF IInv
<1>7. CASE pc = "stopJoin" /\ thread[cur] = "off" /\ pc' = "stopNext" /\ UNCHANGED <<m_threads, thread, left, cur>>
    BY <1>0, <1>1, <1>3, <1>4, <1>7 DEF IInv, Shape, Registered, WhoLoads, HostGoesDown, AllStopped, Cleared
<1>8. CASE pc = "stopNext" /\ left = {} /\ pc' = "done" /\ m_threads' = {} /\ UNCHANGED <<thread, left, cur>>
    BY <1>0, <1>1, <1>3, <1>4, <1>8 DEF IInv, Shape, Registered, WhoLoads, HostGoesDown, AllStopped, Cleared
<1>. QED
    BY <1>5, <1>6, <1>7, <1>8 DEF stopAll, stopThreadByInfo

\* Nothing changes.
LEMMA StutterIInv == ASSUME IInv, UNCHANGED vars PROVE IInv'
<1>. USE DEF IInv, vars
<1>1. UNCHANGED UpSet
    BY DEF UpSet, Early
<1>2. Stacks'
    BY <1>1, StacksStay
<1>3. Shape' /\ Graph' /\ Registered' /\ WhoLoads'
    BY DEF Shape, Graph, Registered, WhoLoads, Cleared
<1>4. HostGoesDown' /\ AllStopped' /\ Sorted' /\ DependenciesUp'
    BY DEF HostGoesDown, AllStopped, Sorted, sortedNext, DependenciesUp, Cleared
<1>. QED
    BY <1>2, <1>3, <1>4

\* The invariant is inductive.
THEOREM Invariant == Spec => []IInv
<1>1. IInv /\ [Next]_vars => IInv'
    BY QuietLoadIInv, AddDependencyIInv, AddModuleIInv, StartModuleThreadIInv, BeginIInv, ModuleThreadIInv,
       UnloadIInv, StopAllIInv, StutterIInv DEF Next, Main, load
<1>. QED
    BY InitIInv, <1>1, PTL DEF Spec

-----------------------------------------------------------------------------
\* The recursion of load() never meets a module it is already loading, whatever
\* the modules declare and whoever loads: addDependency() keeps the graph acyclic,
\* and the host has ended before unloadAll() clears the graph.
THEOREM RecursionEnds == Spec => []NoRecursion
<1>1. ASSUME IInv PROVE NoRecursion
    <2>. SUFFICES ASSUME NEW l \in Loaders, NEW j \in 1..Len(stack[l]), NEW k \in 1..Len(stack[l]),
                         stack[l][j].id = stack[l][k].id, j # k
                  PROVE  FALSE
        BY DEF NoRecursion
    <2>1. stack[l] \in Seq(Frames) /\ StackOk(stack[l], edges, m_modules, UpSet) /\ ~HasCycle(edges)
        BY <1>1 DEF IInv, Shape, Stacks, Graph
    <2>2. j < k \/ k < j
        BY <2>1
    <2>. QED
        BY <2>1, <2>2, NoRepetition
<1>. QED
    BY <1>1, Invariant, PTL

\* What is started has all it depends on started before, whichever thread loads.
THEOREM UpInOrder == Spec => []DependenciesUp
<1>1. IInv => DependenciesUp
    BY DEF IInv
<1>. QED
    BY <1>1, Invariant, PTL

\* When unloadAll() returns no module runs and none is listed.
THEOREM NothingLeft == Spec => []UnloadAllLeavesNothing
<1>1. IInv => UnloadAllLeavesNothing
    BY DEF IInv, AllStopped, UnloadAllLeavesNothing
<1>. QED
    BY <1>1, Invariant, PTL

\* unloadAll() stops a module after all that depends on it, except what a load
\* command started once the order was computed.
THEOREM DownInOrder == Spec => DependentsFirst
<1>1. ASSUME IInv, [Next]_vars, NEW d \in Mods, pc = "unload", thread[d] # "told", thread'[d] = "told",
             NEW m \in m_threads \ {d}, d \in Declared[m]
      PROVE  m \in late
    <2>. Shape /\ Sorted
        BY <1>1 DEF IInv
    <2>1. stopThread
        <3>1. ASSUME NEW n \in Mods, moduleThread(n) PROVE FALSE
            BY <1>1, <3>1 DEF moduleThread, Shape
        <3>2. ASSUME NEW l \in Loaders, load(l) PROVE FALSE
            <4>1. \/ UNCHANGED thread \/ thread' = [thread EXCEPT ![Top(l).id] = "starting"]
                BY <3>2 DEF load, getModule4Start, addDependency, addModule, getDependency, loadDependency,
                            startModuleThread, checkStarted, waitStart, schedVars
            <4>. QED
                BY <1>1, <4>1 DEF Shape
        <3>3. UNCHANGED vars \/ startModules \/ unload \/ eraseThread \/ checkUnloaded \/ clear \/ unloadAll \/ loadCommand
                \/ (\E l \in Loaders : caught(l)) => UNCHANGED thread
            BY DEF vars, startModules, unload, eraseThread, checkUnloaded, clear, unloadAll, loadCommand, caught, schedVars
        <3>4. ~stopAll \/ UNCHANGED thread
            BY <1>1 DEF stopAll
        <3>. QED
            BY <1>1, <3>1, <3>2, <3>3, <3>4 DEF Next, Main
    <2>2. d = cur /\ sortedNext(d)
        <3>1. UNCHANGED thread \/ thread' = Told(cur)
            BY <2>1 DEF stopThread, stopThreadByInfo
        <3>2. cur = d
            BY <1>1, <3>1 DEF Told, Shape
        <3>. QED
            BY <1>1, <3>2 DEF Sorted
    <2>. QED
        BY <1>1, <2>2 DEF Sorted, sortedNext, Shape
<1>2. IInv /\ [Next]_vars => [\A d \in Mods :
            pc = "unload" /\ thread[d] # "told" /\ thread'[d] = "told"
                => \A m \in m_threads \ {d} : d \in Declared[m] => m \in late]_vars
    BY <1>1
<1>. QED
    BY <1>2, Invariant, PTL DEF Spec, DependentsFirst

=============================================================================
