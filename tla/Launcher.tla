------------------------------- MODULE Launcher -------------------------------
(***************************************************************************)
(* scripts/run_app.py: one process that starts the API and then the buyer   *)
(* UI, watches both, and stops both with everything they started.           *)
(*                                                                         *)
(* The launcher is one thread; a signal handler only records the request.   *)
(* Each service runs in a process group of its own, so it may leave         *)
(* descendants behind, and a program outside may take a port between the    *)
(* check and the bind.  The API does not exit before its planning queue is  *)
(* empty (Service.close), so how long a service takes to stop is not known. *)
(* Time is abstract: a timeout or a deadline may pass at any moment.        *)
(***************************************************************************)
EXTENDS Naturals, Sequences, FiniteSets, SequencesExt

CONSTANTS
    Signals,        \* signal numbers the launcher handles: SIGINT and SIGTERM
    NoSignal,
    MaxForeign      \* BOUND: ports in the hands of other programs after the start

\* A request to stop can be told from none.
ASSUME SignalAssumption == NoSignal \notin Signals

VARIABLES
    pc,             \* where main() is
    service,        \* the service that is being checked or started
    stop_signal,    \* the last stop request
    code,           \* exit code of main(), once it is decided
    children,       \* services started, in order
    left,           \* services the current loop of stop_children has not come to
    deadline,       \* the 8 seconds of stop_children: "none", "running", "passed"
    process,        \* [Services -> stage of the direct child]
    descendant,     \* services whose group holds a living descendant of the child
    told,           \* services whose group got SIGTERM from the launcher
    foreign,        \* services whose port another program holds
    cut             \* HISTORY: services killed while their child was alive

main == <<pc, service, stop_signal, code, children, left, deadline>>
system == <<process, descendant, told, foreign, cut>>
vars == <<main, system>>

Services == {"API", "UI"}

\* Stages of a child: "exited" is a zombie, "reaped" is gone.
Alive == {"booting", "serving", "stopping"}

Starting == {"check", "sources", "start", "spawn", "wait", "ask"}

Locations == Starting \cup {"supervise", "terminate", "grace", "kill", "done", "killed"}

Running == pc \notin {"done", "killed"}

Init ==
    /\ pc = "check" /\ service = "API" /\ stop_signal = NoSignal /\ code = 0
    /\ children = <<>> /\ left = <<>> /\ deadline = "none"
    /\ process = [s \in Services |-> "absent"]
    /\ descendant = {} /\ told = {} /\ cut = {}
    /\ foreign \in SUBSET Services

--------------------------------------------------------------------------------
(* Starting the services.                                                   *)

Goto(place) ==
    /\ pc' = place
    /\ UNCHANGED <<service, stop_signal, code, children, left, deadline, system>>

\* The API comes first; what follows the last service is next.
Proceed(place, next) ==
    /\ pc' = IF service = "API" THEN place ELSE next
    /\ service' = IF service = "API" THEN "UI" ELSE "API"
    /\ UNCHANGED <<stop_signal, code, children, left, deadline, system>>

\* Every way out of main() passes through stop_children, newest service first.
Leave(exit, started) ==
    /\ pc' = "terminate" /\ code' = exit
    /\ children' = started /\ left' = Reverse(started)
    /\ UNCHANGED <<service, stop_signal, deadline>>

Fail == Leave(1, children) /\ UNCHANGED system

Stop == stop_signal # NoSignal /\ Leave(128 + stop_signal, children) /\ UNCHANGED system

\* require_free_port of the API and of the UI, before anything is started.
CheckPort ==
    /\ pc = "check"
    /\ IF service \in foreign THEN Fail ELSE Proceed("check", "sources")

\* source_directory: an unreadable archive or a wrong path ends the start.
FindSources ==
    /\ pc = "sources"
    /\ Goto("start") \/ Fail

\* start() asks once; a signal may still arrive before the process exists.
Start ==
    /\ pc = "start"
    /\ Goto(IF stop_signal = NoSignal THEN "spawn" ELSE "wait")

\* Popen fails; or there is a child, remembered before the message about it, which may
\* still fail, is printed.
Spawn ==
    /\ pc = "spawn"
    /\ \/ Fail
       \/ /\ process' = [process EXCEPT ![service] = "booting"]
          /\ UNCHANGED <<descendant, told, foreign, cut>>
          /\ \/ /\ pc' = "wait" /\ children' = Append(children, service)
                /\ UNCHANGED <<service, stop_signal, code, left, deadline>>
             \/ Leave(1, Append(children, service))

\* check_children looks at every service started so far.
SomeChildExited == \E i \in DOMAIN children : process[children[i]] = "exited"

\* The head of wait_healthy's loop: the stop request, a lost child, the timeout.
Wait ==
    /\ pc = "wait"
    /\ \/ Stop
       \/ stop_signal = NoSignal /\ Fail
       \/ stop_signal = NoSignal /\ ~ SomeChildExited /\ Goto("ask")

\* A health request is answered by whoever holds the port.
Answers == process[service] = "serving" \/ service \in foreign

\* The request of one round and the second look at the children; it goes on when a stop
\* is requested meanwhile, and an answer is then still taken.
Ask ==
    /\ pc = "ask"
    /\ \/ SomeChildExited /\ Fail
       \/ Answers /\ ~ SomeChildExited /\ Proceed("start", "supervise")
       \/ Goto("wait")

\* The loop of main(): a child may be looked at just before the request is seen.
Supervise ==
    /\ pc = "supervise"
    /\ Stop \/ (SomeChildExited /\ Fail)

--------------------------------------------------------------------------------
(* stop_children: three loops over the services, newest first.              *)

\* SIGTERM goes to the group, also when the child has exited and descendants live on.
Terminate ==
    /\ pc = "terminate" /\ left # <<>>
    /\ told' = told \cup {Head(left)} /\ left' = Tail(left)
    /\ UNCHANGED <<pc, service, stop_signal, code, children, deadline, process, descendant, foreign, cut>>

StartGrace ==
    /\ pc = "terminate" /\ left = <<>>
    /\ pc' = "grace" /\ deadline' = "running" /\ left' = Reverse(children)
    /\ UNCHANGED <<service, stop_signal, code, children, system>>

DeadlinePasses ==
    /\ deadline = "running" /\ pc = "grace"
    /\ deadline' = "passed"
    /\ UNCHANGED <<pc, service, stop_signal, code, children, left, system>>

\* Faulty variant: the whole deadline goes to the first service that is awaited.
FirstAwaitedOnly == deadline = "passed" \/ Len(left) < Len(children)

\* Faulty variant: child.wait() without a timeout.
NeverGivesUp == FALSE

\* One deadline for all services: a wait ends early only when it has passed.
GivesUp == deadline = "passed"

\* child.wait with what is left of the deadline: reaped, or left for the last loop.
Await ==
    /\ pc = "grace" /\ left # <<>>
    /\ LET s == Head(left)
       IN  IF process[s] \in Alive THEN GivesUp /\ UNCHANGED process
           ELSE process' = [process EXCEPT ![s] = "reaped"]
    /\ left' = Tail(left)
    /\ UNCHANGED <<pc, service, stop_signal, code, children, deadline, descendant, told, foreign, cut>>

StartKilling ==
    /\ pc = "grace" /\ left = <<>>
    /\ pc' = "kill" /\ left' = Reverse(children)
    /\ UNCHANGED <<service, stop_signal, code, children, deadline, system>>

\* Faulty variant: a group is killed only while its leader is alive.
KilledWithItsLeader(s) == IF process[s] \in Alive THEN {s} ELSE {}

\* SIGKILL goes to every group, whatever became of the child that led it.
KilledGroup(s) == {s}

\* The group is killed and the child reaped.
Kill ==
    /\ pc = "kill" /\ left # <<>>
    /\ LET s == Head(left)
       IN  /\ process' = [process EXCEPT ![s] = "reaped"]
           /\ descendant' = descendant \ KilledGroup(s)
           /\ cut' = IF process[s] \in Alive THEN cut \cup {s} ELSE cut
    /\ left' = Tail(left)
    /\ UNCHANGED <<pc, service, stop_signal, code, children, deadline, told, foreign>>

Return ==
    /\ pc = "kill" /\ left = <<>>
    /\ Goto("done")

LauncherStep ==
    \/ CheckPort \/ FindSources \/ Start \/ Spawn \/ Wait \/ Ask \/ Supervise
    \/ Terminate \/ StartGrace \/ DeadlinePasses \/ Await \/ StartKilling \/ Kill \/ Return

--------------------------------------------------------------------------------
(* What happens around the launcher.                                        *)

\* request_stop runs between any two instructions until the handlers are restored; a
\* later signal replaces an earlier one.
Signal(signum) ==
    /\ Running /\ stop_signal # signum
    /\ stop_signal' = signum
    /\ UNCHANGED <<pc, service, code, children, left, deadline, system>>

\* SIGKILL or power loss: no finally clause runs.
LauncherKilled == Running /\ Goto("killed")

ChildMoves(s, from, to) ==
    /\ process[s] \in from
    /\ process' = [process EXCEPT ![s] = to]
    /\ UNCHANGED <<main, descendant, told, foreign, cut>>

\* lifespan, then the bind, which fails when the port was taken meanwhile.
Boot(s) == s \notin foreign /\ ChildMoves(s, {"booting"}, "serving")

\* After SIGTERM a service frees its port first; the API then waits for its queue.
BeginStop(s) == s \in told /\ ChildMoves(s, {"serving"}, "stopping")

\* A service exits after SIGTERM, because it cannot bind, or on its own.
Exit(s) == ChildMoves(s, Alive, "exited")

\* A service may start processes of its own; told to stop, they may or may not.
Fork(s) ==
    /\ process[s] \in {"booting", "serving"} /\ s \notin descendant
    /\ descendant' = descendant \cup {s}
    /\ UNCHANGED <<main, process, told, foreign, cut>>

DescendantEnds(s) ==
    /\ s \in descendant
    /\ descendant' = descendant \ {s}
    /\ UNCHANGED <<main, process, told, foreign, cut>>

\* Another program takes a free port, or gives it up.
ForeignMoves(s) ==
    /\ process[s] # "serving"
    /\ foreign' = IF s \in foreign THEN foreign \ {s} ELSE foreign \cup {s}
    /\ Cardinality(foreign') <= MaxForeign
    /\ UNCHANGED <<main, process, descendant, told, cut>>

Environment ==
    \/ \E signum \in Signals : Signal(signum)
    \/ LauncherKilled
    \/ \E s \in Services :
          \/ Boot(s) \/ BeginStop(s) \/ Exit(s) \/ Fork(s) \/ DescendantEnds(s) \/ ForeignMoves(s)

Next == LauncherStep \/ Environment

Spec == Init /\ [][Next]_vars

\* The launcher's thread keeps running and time passes.  A service owes nothing: it may
\* ignore SIGTERM for ever.
FairSpec == Spec /\ WF_vars(LauncherStep)

--------------------------------------------------------------------------------
(* Properties.                                                             *)

TypeOK ==
    /\ pc \in Locations /\ service \in Services
    /\ stop_signal \in Signals \cup {NoSignal}
    /\ code \in {0, 1} \cup {128 + signum : signum \in Signals}
    /\ children \in Seq(Services) /\ left \in Seq(Services)
    /\ deadline \in {"none", "running", "passed"}
    /\ process \in [Services -> Alive \cup {"absent", "exited", "reaped"}]
    /\ descendant \subseteq Services /\ told \subseteq Services
    /\ foreign \subseteq Services /\ cut \subseteq Services

\* A launcher that returned left nothing of its application behind - no service, no
\* zombie and no process a service had started - whichever of failure, crash of a child
\* or stop request ended it, and whenever that came; an orphaned coordinator would write
\* to the data directory beside the next one (children, stop_children, the groups).
NothingOutlivesTheLauncher ==
    pc = "done" =>
        /\ \A s \in Services : process[s] \in {"absent", "reaped"}
        /\ descendant = {}

\* A service is killed only after its own SIGTERM and the whole grace period: the time
\* one service takes to stop is not taken from the other, so the API has its 8 seconds to
\* finish the job at hand (Service.close) even if the UI hangs.
GraceBeforeKill == cut # {} => cut \subseteq told /\ deadline = "passed"

\* Once a stop is requested or a service is lost, the launcher ends, even if a service
\* ignores SIGTERM: nobody waits for a service without limit.
StopEnds ==
    (Running /\ (stop_signal # NoSignal \/ SomeChildExited)) ~> ~ Running

================================================================================
