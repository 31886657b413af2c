---------------------------- MODULE MCEventLoops ----------------------------
(***************************************************************************)
(* Model-checking instance of the two servers that use an event library.   *)
(* A run checks both: the first state chooses which of them serves the     *)
(* clients of Sockets, and the other does not run.  AsioEcho is here for   *)
(* its liveness; MCAsioEcho has larger bounds, but symmetry.               *)
(***************************************************************************)
EXTENDS Sockets

CONSTANTS MaxStarts, Session

VARIABLES
  program,                             \* the server that runs
  base, sunPath, starts, output,       \* of LibeventEcho
  live, socket_, data_, ops, out, ready \* of AsioEcho

eventVars == <<base, sunPath, starts, output>>
asioVars == <<live, socket_, data_, ops, out, ready>>
vars == <<program, sockets, eventVars, asioVars>>

Event == INSTANCE LibeventEcho
Asio == INSTANCE AsioEcho

\* A program that does not run starts in one of its initial states.
Init ==
  /\ program \in {"libevent", "asio"}
  /\ Event!Init /\ Asio!Init
  /\ program # "asio" => live = {CHOOSE s \in Session : TRUE}

\* One program runs and the variables of the other keep their values; that
\* of asio has its own descriptor table, socket_, and buffers, data_.
EventRuns == program = "libevent" /\ UNCHANGED <<program, asioVars>>
AsioRuns == program = "asio" /\ UNCHANGED <<program, fdt, errno, buf, eventVars>>

EventNext == Event!Next /\ EventRuns
AsioNext == Asio!Next /\ AsioRuns

Next == EventNext \/ AsioNext

Spec == Init /\ [][Next]_vars

\* The fairness of both, each for the case that it runs (only one does, so the
\* first conjunct is the loop of whichever it is).
Loop ==
  \/ EventRuns /\ (\/ Event!Listen \/ Event!AcceptConn \/ Event!AcceptNone
                   \/ Event!AcceptError \/ Event!Exit)
  \/ AsioRuns /\ Asio!Handles

FairSpec ==
  /\ Spec
  /\ WF_vars(Loop)
  /\ \A fd \in FD : /\ WF_vars(EventRuns /\ Event!ReadCb(fd))
                    /\ WF_vars(EventRuns /\ Event!Flush(fd))
                    /\ WF_vars(EventRuns /\ Event!EventCb(fd))
  /\ \A s \in Session : WF_vars(AsioRuns /\ Asio!Completes(s))

\* LibeventEcho: the output buffer holds exactly what was not yet sent.
OutputIsTheRest == program = "libevent" => Event!OutputIsTheRest

\* LibeventEcho: what is sent comes back.
ComesBack == program = "libevent" => Event!ComesBack

\* LibeventEcho: a restart fails.
ServesOnce == Event!ServesOnce

\* AsioEcho: what is sent comes back, ended connections are closed.
EveryoneIsServed == program = "asio" => Asio!EveryoneIsServed
=============================================================================
