----------------------------- MODULE LauncherProofs -----------------------------
(***************************************************************************)
(* What the launcher leaves behind, whatever the services, other programs    *)
(* and signals do.  The invariant follows the three loops of stop_children:  *)
(* what a loop still has to visit, and what is known of every service it has *)
(* visited, although services go on dying and forking meanwhile.             *)
(***************************************************************************)
EXTENDS Launcher, SequenceTheorems, TLAPS

Shapes ==
    /\ pc \in Locations /\ service \in Services
    /\ children \in Seq(Services) /\ left \in Seq(Services)
    /\ process \in [Services -> Alive \cup {"absent", "exited", "reaped"}]
    /\ descendant \subseteq Services /\ told \subseteq Services /\ cut \subseteq Services

Before == Starting \cup {"supervise"}
Loops == {"terminate", "grace", "kill"}

\* Whatever was started is remembered, with all that it started itself.
StartedIsRemembered ==
    \A s \in Services : process[s] # "absent" \/ s \in descendant => s \in Range(children)

\* A loop visits services that were started.
LoopsVisitChildren == pc \in Loops => Range(left) \subseteq Range(children)

\* The first loop tells every service to stop; the later ones find them told.
AllAreTold ==
    /\ pc = "terminate" => Range(children) \subseteq told \cup Range(left)
    /\ pc \in {"grace", "kill"} => Range(children) \subseteq told

\* The second loop passes a living service only when the deadline has passed.
AllAreAwaited ==
    /\ pc = "grace" => \A s \in Services \ Range(left) : process[s] \in Alive => deadline = "passed"
    /\ pc = "kill" => \A s \in Services : process[s] \in Alive => deadline = "passed"

\* The third loop leaves neither a child nor a descendant of a service it has visited.
VisitedAreGone ==
    pc = "kill" => \A s \in Services \ Range(left) :
        process[s] \in {"absent", "reaped"} /\ s \notin descendant

NothingIsCutBefore == pc \in Before \cup {"terminate", "grace"} => cut = {}

IInv ==
    /\ Shapes /\ StartedIsRemembered /\ LoopsVisitChildren /\ AllAreTold /\ AllAreAwaited
    /\ VisitedAreGone /\ NothingIsCutBefore
    /\ NothingOutlivesTheLauncher /\ GraceBeforeKill

--------------------------------------------------------------------------------
(* Lists of services.                                                          *)

LEMMA ReverseRange ==
    ASSUME NEW s \in Seq(Services)
    PROVE  Reverse(s) \in Seq(Services) /\ Range(Reverse(s)) = Range(s)
<1>1. Len(s) \in Nat /\ \A i \in 1..Len(s) : s[i] \in Services /\ (Len(s) - i) + 1 \in 1..Len(s)
    OBVIOUS
<1>2. Reverse(s) \in [1..Len(s) -> Services]
    BY <1>1 DEF Reverse
<1>3. Reverse(s) \in Seq(Services)
    BY <1>1, <1>2
<1>4. ASSUME NEW x \in Range(s) PROVE x \in Range(Reverse(s))
    <2>1. PICK i \in 1..Len(s) : x = s[i]
        BY <1>4 DEF Range
    <2>2. Reverse(s)[(Len(s) - i) + 1] = s[(Len(s) - ((Len(s) - i) + 1)) + 1]
        BY <1>1 DEF Reverse
    <2>3. (Len(s) - ((Len(s) - i) + 1)) + 1 = i
        BY <1>1
    <2> QED BY <2>1, <2>2, <2>3, <1>1, <1>2 DEF Range
<1>5. ASSUME NEW x \in Range(Reverse(s)) PROVE x \in Range(s)
    BY <1>1, <1>2, <1>5 DEF Range, Reverse
<1> QED BY <1>3, <1>4, <1>5

LEMMA HeadTailRange ==
    ASSUME NEW s \in Seq(Services), s # <<>>
    PROVE  /\ Head(s) \in Services /\ Tail(s) \in Seq(Services)
           /\ Range(s) = {Head(s)} \cup Range(Tail(s))
<1>1. /\ Head(s) = s[1] /\ Tail(s) \in Seq(Services) /\ Len(s) \in Nat \ {0}
      /\ Len(Tail(s)) = Len(s) - 1 /\ \A i \in 1..(Len(s) - 1) : Tail(s)[i] = s[i + 1]
    OBVIOUS
<1>2. ASSUME NEW x \in Range(s) PROVE x \in {Head(s)} \cup Range(Tail(s))
    <2>1. PICK i \in 1..Len(s) : x = s[i]
        BY <1>2 DEF Range
    <2>2. CASE i = 1
        BY <2>1, <2>2, <1>1
    <2>3. CASE i # 1
        <3>1. i - 1 \in 1..(Len(s) - 1) /\ (i - 1) + 1 = i
            BY <2>3, <1>1
        <3>2. x = Tail(s)[i - 1] /\ i - 1 \in DOMAIN Tail(s)
            BY <2>1, <3>1, <1>1
        <3> QED BY <3>2 DEF Range
    <2> QED BY <2>2, <2>3
<1>3. Range(Tail(s)) \subseteq Range(s)
    <2> SUFFICES ASSUME NEW i \in 1..(Len(s) - 1) PROVE Tail(s)[i] \in Range(s)
        BY <1>1 DEF Range
    <2> QED BY <1>1 DEF Range
<1>4. Head(s) \in Range(s) /\ Head(s) \in Services
    BY <1>1 DEF Range
<1> QED BY <1>1, <1>2, <1>3, <1>4

LEMMA AppendRange ==
    ASSUME NEW s \in Seq(Services), NEW x \in Services
    PROVE  Append(s, x) \in Seq(Services) /\ Range(Append(s, x)) = Range(s) \cup {x}
<1>1. /\ Append(s, x) \in Seq(Services) /\ Len(s) \in Nat /\ Len(Append(s, x)) = Len(s) + 1
      /\ Append(s, x)[Len(s) + 1] = x /\ \A i \in 1..Len(s) : Append(s, x)[i] = s[i]
    OBVIOUS
<1>2. Range(s) \cup {x} \subseteq Range(Append(s, x))
    BY <1>1 DEF Range
<1>3. Range(Append(s, x)) \subseteq Range(s) \cup {x}
    BY <1>1 DEF Range
<1> QED BY <1>1, <1>2, <1>3

LEMMA EmptyRange == Range(<<>>) = {}
PROOF BY DEF Range

LEMMA IInvInit == Init => IInv
<1> SUFFICES ASSUME Init PROVE IInv
    OBVIOUS
<1>1. Shapes
    BY DEF Init, Shapes, Locations, Starting, Services
<1> QED BY <1>1, EmptyRange
    DEF Init, IInv, StartedIsRemembered, LoopsVisitChildren, AllAreTold, AllAreAwaited, VisitedAreGone,
        NothingIsCutBefore, NothingOutlivesTheLauncher, GraceBeforeKill, Loops, Before, Starting

--------------------------------------------------------------------------------
(* Starting and supervising.                                                   *)

\* A step that goes from one place before the stop to another.
LEMMA StayingKeeps ==
    ASSUME IInv, pc \in Before, pc' \in Before, service' \in Services,
           UNCHANGED <<children, left, deadline, system>>
    PROVE  IInv'
PROOF BY DEF IInv, Shapes, StartedIsRemembered, LoopsVisitChildren, AllAreTold, AllAreAwaited,
             VisitedAreGone, NothingIsCutBefore, NothingOutlivesTheLauncher, GraceBeforeKill,
             Loops, Before, Locations, Starting, system

LEMMA LeaveKeeps ==
    ASSUME IInv, pc \in Before, NEW exit, Leave(exit, children), UNCHANGED system
    PROVE  IInv'
<1>1. left' \in Seq(Services) /\ Range(left') = Range(children)
    BY ReverseRange DEF Leave, IInv, Shapes
<1>2. children' = children /\ pc' = "terminate" /\ service' = service
    BY DEF Leave
<1> QED BY <1>1, <1>2
    DEF IInv, Shapes, StartedIsRemembered, LoopsVisitChildren, AllAreTold, AllAreAwaited,
        VisitedAreGone, NothingIsCutBefore, NothingOutlivesTheLauncher, GraceBeforeKill,
        Loops, Before, Locations, Starting, system

LEMMA BeforeKeeps ==
    ASSUME IInv, CheckPort \/ FindSources \/ Start \/ Wait \/ Ask \/ Supervise
    PROVE  IInv'
<1>1. pc \in Before
    BY DEF CheckPort, FindSources, Start, Wait, Ask, Supervise, Before, Starting
<1>2. CASE Fail
    BY <1>1, <1>2, LeaveKeeps DEF Fail
<1>3. CASE Stop
    BY <1>1, <1>3, LeaveKeeps DEF Stop
<1>4. CASE \E place \in Before : Goto(place)
    BY <1>1, <1>4, StayingKeeps DEF Goto, IInv, Shapes
<1>5. CASE \E place, next \in Before : Proceed(place, next)
    BY <1>1, <1>5, StayingKeeps DEF Proceed, Services
<1> QED BY <1>2, <1>3, <1>4, <1>5
    DEF CheckPort, FindSources, Start, Wait, Ask, Supervise, Before, Starting

LEMMA SpawnKeeps ==
    ASSUME IInv, Spawn
    PROVE  IInv'
<1>1. pc = "spawn" /\ pc \in Before /\ service \in Services /\ children \in Seq(Services)
    BY DEF Spawn, Before, Starting, IInv, Shapes
<1>2. CASE Fail
    BY <1>1, <1>2, LeaveKeeps DEF Fail
<1>3. CASE ~ Fail
    <2>1. /\ process' = [process EXCEPT ![service] = "booting"]
          /\ UNCHANGED <<descendant, told, foreign, cut>>
          /\ children' = Append(children, service) /\ service' = service /\ deadline' = deadline
          /\ \/ pc' = "wait" /\ left' = left
             \/ pc' = "terminate" /\ left' = Reverse(Append(children, service))
        BY <1>3 DEF Spawn, Leave
    <2>2. children' \in Seq(Services) /\ Range(children') = Range(children) \cup {service}
        BY <1>1, <2>1, AppendRange
    <2>3. left' \in Seq(Services) /\ (pc' = "terminate" => Range(left') = Range(children'))
        BY <2>1, <2>2, ReverseRange DEF IInv, Shapes
    <2>4. Shapes'
        BY <2>1, <2>2, <2>3, <1>1 DEF IInv, Shapes, Locations, Starting, Alive
    <2>5. StartedIsRemembered'
        BY <2>1, <2>2, <1>1 DEF IInv, Shapes, StartedIsRemembered
    <2> QED BY <1>1, <2>1, <2>3, <2>4, <2>5
        DEF IInv, LoopsVisitChildren, AllAreTold, AllAreAwaited, VisitedAreGone, NothingIsCutBefore,
            NothingOutlivesTheLauncher, GraceBeforeKill, Loops, Before, Starting
<1> QED BY <1>2, <1>3

--------------------------------------------------------------------------------
(* The three loops.                                                            *)

LEMMA TerminateKeeps ==
    ASSUME IInv, Terminate
    PROVE  IInv'
<1>1. /\ Head(left) \in Services /\ left' \in Seq(Services)
      /\ Range(left) = {Head(left)} \cup Range(left')
    BY HeadTailRange DEF Terminate, IInv, Shapes
<1> QED BY <1>1
    DEF Terminate, IInv, Shapes, StartedIsRemembered, LoopsVisitChildren, AllAreTold, AllAreAwaited,
        VisitedAreGone, NothingIsCutBefore, NothingOutlivesTheLauncher, GraceBeforeKill, Loops, Before

\* A loop begins with all services, newest first.
LEMMA LoopStarts ==
    ASSUME IInv, left' = Reverse(children)
    PROVE  left' \in Seq(Services) /\ Range(left') = Range(children)
PROOF BY ReverseRange DEF IInv, Shapes

LEMMA StartGraceKeeps ==
    ASSUME IInv, StartGrace
    PROVE  IInv'
<1>1. left' \in Seq(Services) /\ Range(left') = Range(children)
    BY LoopStarts DEF StartGrace
<1>2. Range(children) \subseteq told /\ cut = {}
    BY EmptyRange DEF StartGrace, IInv, AllAreTold, NothingIsCutBefore
<1>3. \A s \in Services : process[s] \in Alive => s \in Range(children)
    BY DEF IInv, StartedIsRemembered, Alive
<1> QED BY <1>1, <1>2, <1>3
    DEF StartGrace, IInv, Shapes, StartedIsRemembered, LoopsVisitChildren, AllAreTold, AllAreAwaited,
        VisitedAreGone, NothingIsCutBefore, NothingOutlivesTheLauncher, GraceBeforeKill, Loops, Before,
        Locations, Starting, system

LEMMA DeadlineKeeps ==
    ASSUME IInv, DeadlinePasses
    PROVE  IInv'
PROOF BY DEF DeadlinePasses, IInv, Shapes, StartedIsRemembered, LoopsVisitChildren, AllAreTold,
             AllAreAwaited, VisitedAreGone, NothingIsCutBefore, NothingOutlivesTheLauncher,
             GraceBeforeKill, system

LEMMA AwaitKeeps ==
    ASSUME IInv, Await
    PROVE  IInv'
<1>1. /\ Head(left) \in Services /\ left' \in Seq(Services)
      /\ Range(left) = {Head(left)} \cup Range(left') /\ Head(left) \in Range(children)
    BY HeadTailRange DEF Await, IInv, Shapes, LoopsVisitChildren, Loops
<1>2. /\ \A s \in Services : process'[s] = process[s] \/ (s = Head(left) /\ process'[s] = "reaped")
      /\ process' \in [Services -> Alive \cup {"absent", "exited", "reaped"}]
      /\ process'[Head(left)] \in Alive => deadline = "passed"
    BY <1>1 DEF Await, IInv, Shapes, GivesUp, Alive
<1>3. Shapes' /\ StartedIsRemembered'
    BY <1>1, <1>2 DEF Await, IInv, Shapes, StartedIsRemembered
<1>4. AllAreAwaited'
    BY <1>1, <1>2 DEF Await, IInv, AllAreAwaited, Alive
<1> QED BY <1>1, <1>3, <1>4
    DEF Await, IInv, LoopsVisitChildren, AllAreTold, VisitedAreGone, NothingIsCutBefore,
        NothingOutlivesTheLauncher, GraceBeforeKill, Loops, Before

LEMMA StartKillingKeeps ==
    ASSUME IInv, StartKilling
    PROVE  IInv'
<1>1. left' \in Seq(Services) /\ Range(left') = Range(children)
    BY LoopStarts DEF StartKilling
<1>2. \A s \in Services \ Range(left') : process[s] = "absent" /\ s \notin descendant
    BY <1>1 DEF IInv, StartedIsRemembered
<1>3. \A s \in Services : process[s] \in Alive => deadline = "passed"
    BY EmptyRange DEF StartKilling, IInv, AllAreAwaited
<1> QED BY <1>1, <1>2, <1>3
    DEF StartKilling, IInv, Shapes, StartedIsRemembered, LoopsVisitChildren, AllAreTold, AllAreAwaited,
        VisitedAreGone, NothingIsCutBefore, NothingOutlivesTheLauncher, GraceBeforeKill, Loops, Before,
        Locations, Starting, system

LEMMA KillKeeps ==
    ASSUME IInv, Kill
    PROVE  IInv'
<1>1. /\ Head(left) \in Services /\ left' \in Seq(Services)
      /\ Range(left) = {Head(left)} \cup Range(left') /\ Head(left) \in Range(children)
    BY HeadTailRange DEF Kill, IInv, Shapes, LoopsVisitChildren, Loops
<1>2. /\ \A s \in Services \ {Head(left)} : process'[s] = process[s]
      /\ process'[Head(left)] = "reaped" /\ descendant' = descendant \ {Head(left)}
      /\ cut' = IF process[Head(left)] \in Alive THEN cut \cup {Head(left)} ELSE cut
    BY <1>1 DEF Kill, KilledGroup, IInv, Shapes
<1>3. Shapes' /\ StartedIsRemembered'
    BY <1>1, <1>2 DEF Kill, IInv, Shapes, StartedIsRemembered
<1>4. AllAreAwaited' /\ VisitedAreGone'
    BY <1>1, <1>2 DEF Kill, IInv, AllAreAwaited, VisitedAreGone, Alive
<1>5. GraceBeforeKill'
    BY <1>1, <1>2 DEF Kill, IInv, AllAreAwaited, AllAreTold, GraceBeforeKill
<1> QED BY <1>1, <1>3, <1>4, <1>5
    DEF Kill, IInv, LoopsVisitChildren, AllAreTold, NothingIsCutBefore, NothingOutlivesTheLauncher,
        Loops, Before, Starting

LEMMA ReturnKeeps ==
    ASSUME IInv, Return
    PROVE  IInv'
<1>1. \A s \in Services : process[s] \in {"absent", "reaped"} /\ s \notin descendant
    BY EmptyRange DEF Return, IInv, VisitedAreGone
<1> QED BY <1>1
    DEF Return, Goto, IInv, Shapes, StartedIsRemembered, LoopsVisitChildren, AllAreTold, AllAreAwaited,
        VisitedAreGone, NothingIsCutBefore, NothingOutlivesTheLauncher, GraceBeforeKill, Loops, Before,
        Locations, Starting, system

--------------------------------------------------------------------------------
(* Around the launcher.                                                        *)

\* A service that is gone neither comes back nor forks.
LEMMA ServiceKeeps ==
    ASSUME IInv, NEW s \in Services,
           Boot(s) \/ BeginStop(s) \/ Exit(s) \/ Fork(s) \/ DescendantEnds(s) \/ ForeignMoves(s)
    PROVE  IInv'
<1>1. UNCHANGED <<main, told, cut>>
    BY DEF Boot, BeginStop, Exit, Fork, DescendantEnds, ForeignMoves, ChildMoves
<1>2. /\ \A r \in Services : \/ process'[r] = process[r]
                             \/ process[r] \in Alive /\ process'[r] \in {"serving", "stopping", "exited"}
      /\ process' \in [Services -> Alive \cup {"absent", "exited", "reaped"}]
    BY DEF Boot, BeginStop, Exit, Fork, DescendantEnds, ForeignMoves, ChildMoves, Alive, IInv, Shapes
<1>3. \A r \in Services : r \in descendant' => r \in descendant \/ process[r] \in Alive
    BY DEF Boot, BeginStop, Exit, Fork, DescendantEnds, ForeignMoves, ChildMoves, Alive
<1>4. descendant' \subseteq Services
    BY DEF Boot, BeginStop, Exit, Fork, DescendantEnds, ForeignMoves, ChildMoves, IInv, Shapes
<1>5. Shapes' /\ StartedIsRemembered'
    BY <1>1, <1>2, <1>3, <1>4 DEF IInv, Shapes, StartedIsRemembered, main, Alive
<1>6. AllAreAwaited'
    BY <1>1, <1>2 DEF IInv, AllAreAwaited, main
<1>7. VisitedAreGone' /\ NothingOutlivesTheLauncher'
    BY <1>1, <1>2, <1>3, <1>4 DEF IInv, VisitedAreGone, NothingOutlivesTheLauncher, main, Alive, Shapes
<1> QED BY <1>1, <1>5, <1>6, <1>7
    DEF IInv, LoopsVisitChildren, AllAreTold, NothingIsCutBefore, GraceBeforeKill, main

LEMMA LauncherKilledKeeps ==
    ASSUME IInv, LauncherKilled
    PROVE  IInv'
PROOF BY DEF LauncherKilled, Goto, IInv, Shapes, StartedIsRemembered, LoopsVisitChildren, AllAreTold,
             AllAreAwaited, VisitedAreGone, NothingIsCutBefore, NothingOutlivesTheLauncher,
             GraceBeforeKill, Loops, Before, Locations, Starting, system

\* A signal is only recorded, and nothing in the invariant depends on it.
LEMMA SignalKeeps ==
    ASSUME IInv, UNCHANGED <<pc, service, children, left, deadline, system>>
    PROVE  IInv'
PROOF BY DEF IInv, Shapes, StartedIsRemembered, LoopsVisitChildren, AllAreTold, AllAreAwaited,
             VisitedAreGone, NothingIsCutBefore, NothingOutlivesTheLauncher, GraceBeforeKill, system

LEMMA StepKeeps == IInv /\ [Next]_vars => IInv'
<1> SUFFICES ASSUME IInv, [Next]_vars PROVE IInv'
    OBVIOUS
<1>1. CASE LauncherStep
    BY <1>1, BeforeKeeps, SpawnKeeps, TerminateKeeps, StartGraceKeeps, DeadlineKeeps, AwaitKeeps,
       StartKillingKeeps, KillKeeps, ReturnKeeps DEF LauncherStep
<1>2. CASE Environment
    <2>1. CASE \E signum \in Signals : Signal(signum)
        BY <2>1, SignalKeeps DEF Signal
    <2> QED BY <1>2, <2>1, LauncherKilledKeeps, ServiceKeeps DEF Environment
<1>3. CASE UNCHANGED vars
    BY <1>3, SignalKeeps DEF vars, main
<1> QED BY <1>1, <1>2, <1>3 DEF Next

\* The invariant above holds in every reachable state, for any signals and any number of
\* ports that other programs take (main, stop_children).
THEOREM LauncherInvariant == Spec => []IInv
<1> QED BY IInvInit, StepKeeps, PTL DEF Spec

\* However the application ends, a launcher that returned left no service and no process
\* that a service had started (the three loops of stop_children).
THEOREM NothingIsOrphaned == Spec => []NothingOutlivesTheLauncher
<1> QED BY LauncherInvariant, PTL DEF IInv

\* No service is killed that was not told to stop, or before the deadline that both
\* services share has passed (child.wait with the rest of the 8 seconds).
THEOREM GraceIsGiven == Spec => []GraceBeforeKill
<1> QED BY LauncherInvariant, PTL DEF IInv

--------------------------------------------------------------------------------
(* Why stopping ends.                                                          *)

\* A service is started once: the one whose turn it is has no process yet.
StartedOnce ==
    /\ pc \in {"check", "sources"} => Range(children) = {}
    /\ pc \in {"start", "spawn"} => service \notin Range(children)
    /\ pc \in {"start", "spawn", "wait", "ask"} /\ service = "API" => "UI" \notin Range(children)

\* The loop that waits has a deadline, running or passed.
GraceHasADeadline == pc = "grace" => deadline \in {"running", "passed"}

\* The application is on its way out: a stop is requested, a service is lost, or
\* stop_children is at work.
Ending == pc \in Loops \/ (pc \in Before /\ (stop_signal # NoSignal \/ SomeChildExited))

\* The launcher's steps to its end, once it is on the way out.
StepsLeft ==
    CASE pc = "check" -> 3 * Len(children) + (IF service = "API" THEN 14 ELSE 13)
      [] pc = "sources" -> 3 * Len(children) + 12
      [] pc = "ask" -> 3 * Len(children) + 11
      [] pc = "start" -> 3 * Len(children) + 10
      [] pc = "spawn" -> 3 * Len(children) + 9
      [] pc \in {"wait", "supervise"} -> 3 * Len(children) + 5
      [] pc = "terminate" -> 2 * Len(children) + Len(left) + 4
      [] pc = "grace" -> Len(children) + Len(left) + (IF deadline = "running" THEN 3 ELSE 2)
      [] pc = "kill" -> Len(left) + 1
      [] OTHER -> 0

\* The steps left are a natural number.
LEMMA StepsLeftIsNatural == IInv => StepsLeft \in Nat /\ Len(children) \in Nat /\ Len(left) \in Nat
PROOF BY DEF IInv, Shapes, StepsLeft

LEMMA ReverseLength ==
    ASSUME NEW s \in Seq(Services)
    PROVE  Len(Reverse(s)) = Len(s)
PROOF BY DEF Reverse

LEMMA StartedOnceInit == Init => StartedOnce /\ GraceHasADeadline
PROOF BY EmptyRange DEF Init, StartedOnce, GraceHasADeadline

\* A service is taken up only after the one before it, and never again.
LEMMA StartedOnceKept ==
    ASSUME IInv, StartedOnce, GraceHasADeadline, [Next]_vars
    PROVE  StartedOnce' /\ GraceHasADeadline'
<1>1. CASE Environment \/ UNCHANGED vars
    BY <1>1 DEF Environment, Signal, LauncherKilled, Goto, Boot, BeginStop, Exit, Fork, DescendantEnds,
                ForeignMoves, ChildMoves, vars, main, StartedOnce, GraceHasADeadline
<1>2. CASE pc' = "terminate" \/ pc' = "kill" \/ pc' = "done"
    BY <1>2 DEF StartedOnce, GraceHasADeadline
<1>3. CASE Spawn
    <2>1. CASE pc' = "terminate"
        BY <2>1 DEF StartedOnce, GraceHasADeadline
    <2>2. CASE pc' # "terminate"
        <3>1. pc' = "wait" /\ children' = Append(children, service) /\ service' = service
            BY <1>3, <2>2 DEF Spawn, Fail, Leave
        <3>2. Range(children') = Range(children) \cup {service}
            BY <3>1, AppendRange DEF IInv, Shapes
        <3>3. "UI" \in Range(children) => service # "API"
            BY <1>3 DEF Spawn, IInv, StartedOnce
        <3> QED BY <3>1, <3>2, <3>3 DEF StartedOnce, GraceHasADeadline
    <2> QED BY <2>1, <2>2
<1>4. CASE (CheckPort \/ Ask) /\ pc' # "terminate"
    <2>1. service \in {"API", "UI"}
        BY DEF IInv, Shapes, Services
    <2>2. CASE Goto("wait")
        BY <1>4, <2>2 DEF CheckPort, Ask, Goto, StartedOnce, GraceHasADeadline
    <2>3. CASE pc = "check" /\ Proceed("check", "sources")
        BY <2>1, <2>3 DEF Proceed, StartedOnce, GraceHasADeadline
    <2>4. CASE pc = "ask" /\ Proceed("start", "supervise")
        BY <2>1, <2>4 DEF Proceed, StartedOnce, GraceHasADeadline
    <2> QED BY <1>4, <2>2, <2>3, <2>4 DEF CheckPort, Ask, Fail, Leave
<1>5. CASE (FindSources \/ Start \/ Wait \/ Supervise) /\ pc' # "terminate"
    BY <1>5 DEF FindSources, Start, Wait, Supervise, Fail, Stop, Leave, Goto, StartedOnce, GraceHasADeadline
<1>6. CASE StartGrace \/ DeadlinePasses \/ Await
    BY <1>6 DEF StartGrace, DeadlinePasses, Await, StartedOnce, GraceHasADeadline
<1>7. CASE Terminate \/ StartKilling \/ Kill \/ Return
    BY <1>7 DEF Terminate, StartKilling, Kill, Return, Goto, StartedOnce, GraceHasADeadline
<1> QED BY <1>1, <1>2, <1>3, <1>4, <1>5, <1>6, <1>7 DEF Next, LauncherStep

\* The measure at each place.
LEMMA StepsLeftAt ==
    /\ pc = "check" => StepsLeft = 3 * Len(children) + (IF service = "API" THEN 14 ELSE 13)
    /\ pc = "sources" => StepsLeft = 3 * Len(children) + 12
    /\ pc = "ask" => StepsLeft = 3 * Len(children) + 11
    /\ pc = "start" => StepsLeft = 3 * Len(children) + 10
    /\ pc = "spawn" => StepsLeft = 3 * Len(children) + 9
    /\ pc \in {"wait", "supervise"} => StepsLeft = 3 * Len(children) + 5
    /\ pc = "terminate" => StepsLeft = 2 * Len(children) + Len(left) + 4
    /\ pc = "grace" => StepsLeft = Len(children) + Len(left) + (IF deadline = "running" THEN 3 ELSE 2)
    /\ pc = "kill" => StepsLeft = Len(left) + 1
    /\ pc \in {"done", "killed"} => StepsLeft = 0
PROOF BY DEF StepsLeft

\* The same in the next state.
LEMMA StepsLeftNext ==
    /\ pc' = "check" => StepsLeft' = 3 * Len(children') + (IF service' = "API" THEN 14 ELSE 13)
    /\ pc' = "sources" => StepsLeft' = 3 * Len(children') + 12
    /\ pc' = "ask" => StepsLeft' = 3 * Len(children') + 11
    /\ pc' = "start" => StepsLeft' = 3 * Len(children') + 10
    /\ pc' = "spawn" => StepsLeft' = 3 * Len(children') + 9
    /\ pc' \in {"wait", "supervise"} => StepsLeft' = 3 * Len(children') + 5
    /\ pc' = "terminate" => StepsLeft' = 2 * Len(children') + Len(left') + 4
    /\ pc' = "grace" => StepsLeft' = Len(children') + Len(left') + (IF deadline' = "running" THEN 3 ELSE 2)
    /\ pc' = "kill" => StepsLeft' = Len(left') + 1
    /\ pc' \in {"done", "killed"} => StepsLeft' = 0
PROOF BY DEF StepsLeft

\* Leaving main() with the services started so far, from any place but "spawn".
LEMMA LeaveIsNearer ==
    ASSUME IInv, pc \in Before, NEW exit, Leave(exit, children)
    PROVE  StepsLeft' < StepsLeft
<1>1. Len(children) \in Nat /\ Len(left') = Len(children)
    BY ReverseLength DEF Leave, IInv, Shapes
<1>2. StepsLeft' = 3 * Len(children) + 4
    BY <1>1, StepsLeftNext DEF Leave
<1>3. StepsLeft >= 3 * Len(children) + 5
    BY <1>1, StepsLeftAt DEF Before, Starting
<1> QED BY <1>1, <1>2, <1>3, StepsLeftIsNatural

\* A service that is started adds to what the stop has to do, but less than was counted.
LEMMA SpawnIsNearer ==
    ASSUME IInv, Spawn
    PROVE  StepsLeft' < StepsLeft
<1>1. CASE Fail
    BY <1>1, LeaveIsNearer DEF Spawn, Fail, Before, Starting
<1>2. CASE ~ Fail
    <2>0. children \in Seq(Services) /\ service \in Services /\ Len(children) \in Nat
        BY DEF IInv, Shapes
    <2>1. children' = Append(children, service) /\ Len(children) \in Nat /\ children' \in Seq(Services)
        <3>1. children' = Append(children, service)
            BY <1>2 DEF Spawn, Leave
        <3> QED BY <2>0, <3>1, AppendRange
    <2>2. Len(children') = Len(children) + 1
        BY <2>1 DEF IInv, Shapes
    <2>3. pc' = "wait" \/ (pc' = "terminate" /\ Len(left') = Len(children'))
        BY <1>2, <2>1, ReverseLength DEF Spawn, Leave
    <2>4. StepsLeft = 3 * Len(children) + 9
        BY StepsLeftAt DEF Spawn
    <2>5. StepsLeft' = 3 * Len(children') + 5 \/ StepsLeft' = 3 * Len(children') + 4
        BY <2>1, <2>2, <2>3, StepsLeftNext
    <2> QED BY <2>1, <2>2, <2>4, <2>5
<1> QED BY <1>1, <1>2

\* One round of a loop of stop_children.
LEMMA RoundIsNearer ==
    ASSUME IInv, Terminate \/ Await \/ Kill
    PROVE  StepsLeft' < StepsLeft
<1>1. /\ left # <<>> /\ left' = Tail(left) /\ pc' = pc /\ children' = children /\ deadline' = deadline
      /\ pc \in Loops
    BY DEF Terminate, Await, Kill, Loops
<1>2. Len(left) \in Nat /\ Len(left') = Len(left) - 1 /\ Len(children) \in Nat
    BY <1>1 DEF IInv, Shapes
<1> QED BY <1>1, <1>2, StepsLeftAt, StepsLeftNext DEF Loops

\* From one loop to the next, and from the last one back to the caller.
LEMMA TurnIsNearer ==
    ASSUME IInv, StartGrace \/ DeadlinePasses \/ StartKilling \/ Return
    PROVE  StepsLeft' < StepsLeft
<1>1. Len(children) \in Nat /\ Len(left) \in Nat /\ Len(Reverse(children)) = Len(children)
    BY ReverseLength DEF IInv, Shapes
<1>2. CASE StartGrace
    BY <1>1, <1>2, StepsLeftAt, StepsLeftNext DEF StartGrace
<1>3. CASE DeadlinePasses
    BY <1>1, <1>3, StepsLeftAt, StepsLeftNext DEF DeadlinePasses
<1>4. CASE StartKilling
    BY <1>1, <1>4, StepsLeftAt, StepsLeftNext DEF StartKilling
<1>5. CASE Return
    BY <1>1, <1>5, StepsLeftAt, StepsLeftNext DEF Return, Goto
<1> QED BY <1>2, <1>3, <1>4, <1>5

\* On the way out every step of the launcher brings it nearer to its end: no wait for
\* health begins any more.
LEMMA StepIsNearer ==
    ASSUME IInv, Ending, LauncherStep
    PROVE  StepsLeft' < StepsLeft
<1>1. Len(children) \in Nat /\ service \in {"API", "UI"}
    BY DEF IInv, Shapes, Services
<1>2. CASE (CheckPort \/ FindSources \/ Start \/ Wait \/ Ask \/ Supervise) /\ Fail
    <2>1. pc \in Before
        BY <1>2 DEF CheckPort, FindSources, Start, Wait, Ask, Supervise, Before, Starting
    <2> QED BY <1>2, <2>1, LeaveIsNearer DEF Fail
<1>3. CASE (Wait \/ Supervise) /\ ~ Fail
    <2>1. Stop /\ pc \in Before
        BY <1>3 DEF Wait, Supervise, Ending, Loops, Before, Starting
    <2> QED BY <2>1, LeaveIsNearer DEF Stop
<1>4. CASE (CheckPort \/ Ask) /\ ~ Fail
    BY <1>1, <1>4, StepsLeftAt, StepsLeftNext DEF CheckPort, Ask, Goto, Proceed
<1>5. CASE (FindSources \/ Start) /\ ~ Fail
    BY <1>1, <1>5, StepsLeftAt, StepsLeftNext DEF FindSources, Start, Goto
<1> QED BY <1>2, <1>3, <1>4, <1>5, SpawnIsNearer, RoundIsNearer, TurnIsNearer DEF LauncherStep

\* Nothing around the launcher sets it back.
LEMMA EnvironmentDoesNotDelay ==
    ASSUME IInv, Environment \/ UNCHANGED vars
    PROVE  StepsLeft' <= StepsLeft
<1>1. CASE LauncherKilled
    BY <1>1, StepsLeftNext, StepsLeftIsNatural DEF LauncherKilled, Goto
<1>2. CASE ~ LauncherKilled
    <2>1. UNCHANGED <<pc, service, children, left, deadline>>
        BY <1>2 DEF Environment, Signal, Boot, BeginStop, Exit, Fork, DescendantEnds, ForeignMoves, ChildMoves, vars, main
    <2>2. StepsLeft' = StepsLeft
        BY <2>1 DEF StepsLeft
    <2> QED BY <2>2, StepsLeftIsNatural
<1> QED BY <1>1, <1>2

\* A request to stop is not taken back and a lost service not brought back.
LEMMA EndingStays ==
    ASSUME IInv, StartedOnce, Ending, [Next]_vars
    PROVE  Ending' \/ pc' \in {"done", "killed"}
<1>1. ASSUME pc \in Loops PROVE Ending' \/ pc' \in {"done", "killed"}
    BY <1>1 DEF Loops, Ending, Next, LauncherStep, CheckPort, FindSources, Start, Spawn, Wait, Ask, Supervise,
       Terminate, StartGrace, DeadlinePasses, Await, StartKilling, Kill, Return, Goto,
       Environment, Signal, LauncherKilled, Boot, BeginStop, Exit, Fork, DescendantEnds, ForeignMoves, ChildMoves,
       vars, main
<1>2. ASSUME pc \in Before PROVE pc' \in Before \cup {"terminate", "killed"}
    BY <1>2 DEF Before, Starting, Next, LauncherStep, CheckPort, FindSources, Start, Spawn, Wait, Ask, Supervise,
       Terminate, StartGrace, DeadlinePasses, Await, StartKilling, Kill, Return, Goto, Fail, Stop, Leave, Proceed,
       Environment, Signal, LauncherKilled, Boot, BeginStop, Exit, Fork, DescendantEnds, ForeignMoves, ChildMoves,
       vars, main
<1>3. ASSUME pc \in Before, stop_signal # NoSignal PROVE stop_signal' # NoSignal
    <2>1. \/ \E signum \in Signals : stop_signal' = signum
          \/ stop_signal' = stop_signal
        BY <1>3 DEF Before, Starting, Next, LauncherStep, CheckPort, FindSources, Start, Spawn, Wait, Ask, Supervise,
           Terminate, StartGrace, DeadlinePasses, Await, StartKilling, Kill, Return, Goto, Fail, Stop, Leave, Proceed,
           Environment, Signal, LauncherKilled, Boot, BeginStop, Exit, Fork, DescendantEnds, ForeignMoves, ChildMoves,
           vars, main
    <2> QED BY <1>3, <2>1, SignalAssumption
<1>4. ASSUME pc \in Before, SomeChildExited PROVE SomeChildExited'
    <2>1. PICK i \in DOMAIN children : process[children[i]] = "exited"
        BY <1>4 DEF SomeChildExited
    <2>2. children \in Seq(Services) /\ process \in [Services -> Alive \cup {"absent", "exited", "reaped"}]
        BY DEF IInv, Shapes
    <2>3. children[i] \in Services /\ children[i] \in Range(children)
        BY <2>1, <2>2 DEF Range
    <2>4. CASE Spawn /\ ~ Fail
        <3>1. children' = Append(children, service) /\ process' = [process EXCEPT ![service] = "booting"]
            BY <2>4 DEF Spawn, Leave
        <3>2. service # children[i]
            BY <2>3, <2>4 DEF Spawn, StartedOnce
        <3>3. i \in DOMAIN children' /\ children'[i] = children[i]
            BY <2>1, <2>2, <3>1 DEF IInv, Shapes
        <3>4. process'[children[i]] = "exited"
            BY <2>1, <2>2, <2>3, <3>1, <3>2
        <3> QED BY <3>3, <3>4 DEF SomeChildExited
    <2>5. CASE Environment
        <3>1. children' = children /\ \A s \in Services : process[s] = "exited" => process'[s] = "exited"
            BY <2>2, <2>5 DEF Environment, Signal, LauncherKilled, Goto, Boot, BeginStop, Exit, Fork, DescendantEnds,
               ForeignMoves, ChildMoves, main, system, Alive
        <3> QED BY <2>1, <2>3, <3>1 DEF SomeChildExited
    <2>6. CASE ~ (Spawn /\ ~ Fail) /\ ~ Environment
        <3>1. children' = children /\ process' = process
            BY <1>4, <2>6 DEF Before, Starting, Next, LauncherStep, CheckPort, FindSources, Start, Spawn, Wait, Ask,
               Supervise, Terminate, StartGrace, DeadlinePasses, Await, StartKilling, Kill, Return, Goto, Fail, Stop,
               Leave, Proceed, vars, main, system
        <3> QED BY <2>1, <3>1 DEF SomeChildExited
    <2> QED BY <2>4, <2>5, <2>6
<1> QED BY <1>1, <1>2, <1>3, <1>4 DEF Ending, Loops

\* The reason why the launcher ends (StopEnds): once a stop is requested or a service is
\* lost it stays on its way out, every step it takes then brings it nearer to its end, and
\* nothing a service, a signal or another program does sets it back; the one loop that
\* waits for services has a deadline (wait_healthy, main, stop_children).
THEOREM StopComesNearer ==
    Spec =>
        /\ []GraceHasADeadline
        /\ [][Ending =>
                 /\ StepsLeft \in Nat
                 /\ LauncherStep => StepsLeft' < StepsLeft
                 /\ StepsLeft' <= StepsLeft
                 /\ Ending' \/ pc' \in {"done", "killed"}]_vars
<1>1. Spec => [](IInv /\ StartedOnce /\ GraceHasADeadline)
    <2>1. IInv /\ StartedOnce /\ GraceHasADeadline /\ [Next]_vars
              => (IInv /\ StartedOnce /\ GraceHasADeadline)'
        BY StepKeeps, StartedOnceKept
    <2>2. Init => IInv /\ StartedOnce /\ GraceHasADeadline
        BY IInvInit, StartedOnceInit
    <2> QED BY <2>1, <2>2, PTL DEF Spec
<1>2. ASSUME IInv, StartedOnce, Ending, [Next]_vars PROVE StepsLeft' <= StepsLeft
    <2>1. IInv'
        BY <1>2, StepKeeps
    <2>2. StepsLeft' \in Int
        <3>1. Len(children') \in Nat /\ Len(left') \in Nat
            BY <2>1 DEF IInv, Shapes
        <3> QED BY <3>1 DEF StepsLeft
    <2>3. CASE LauncherStep
        BY <1>2, <2>2, <2>3, StepIsNearer, StepsLeftIsNatural
    <2> QED BY <1>2, <2>3, EnvironmentDoesNotDelay DEF Next
<1>3. IInv /\ StartedOnce /\ [Next]_vars =>
          [Ending =>
              /\ StepsLeft \in Nat
              /\ LauncherStep => StepsLeft' < StepsLeft
              /\ StepsLeft' <= StepsLeft
              /\ Ending' \/ pc' \in {"done", "killed"}]_vars
    BY <1>2, StepIsNearer, StepsLeftIsNatural, EndingStays
<1> QED BY <1>1, <1>3, PTL DEF Spec

================================================================================
