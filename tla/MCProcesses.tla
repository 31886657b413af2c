---------------------------- MODULE MCProcesses ----------------------------
(***************************************************************************)
(* Model-checking instance of the programs made of processes that meet in  *)
(* pipes, FIFOs, connections, queues, semaphores and wait().  They have    *)
(* nothing to do with each other: the first state chooses one of them, and *)
(* the variables of all others keep their values.                          *)
(***************************************************************************)
EXTENDS Pipeline

CONSTANTS
  Letter, MaxLine,                                   \* of CommandLine
  Client, Telnet, NoClient, Text, Answer, AskFor,    \* of ServerClient
  MaxWords, MaxVisits, BufWords, PipeWords,          \* of FifoRelay
  MaxSent, MaxMsg,                                   \* of PosixMq
  Run, Guest, NoRun, MaxSum,                         \* of Semaphores
  MaxOthers                                          \* of MsgQueue

VARIABLES
  program,
  s,
  srv, slave, queue, client, wire, arrived, answer, other,
  atHome, relay, len, buf, outfd, typist, infd, typed, inFifo, outFifo,
  visits, reading, taken, written, got,
  kind, q, count, Empty, receiver, md, message, file,
  sets, keyed, sum, owner, refuses, waits, step, semid, newest, alone,
  parent2, childp,
  msgs, others, before, child, rcv, mtext, saved

Line == INSTANCE CommandLine
Server == INSTANCE ServerClient
Fifo == INSTANCE FifoRelay
Queue == INSTANCE PosixMq
Sem == INSTANCE Semaphores
Zombie == INSTANCE Zombies WITH parent <- parent2
Msg == INSTANCE MsgQueue

lineVars == <<s>>
serverVars == <<srv, slave, queue, client, wire, arrived, answer, other>>
fifoVars == <<atHome, relay, len, buf, outfd, typist, infd, typed, inFifo, outFifo,
              visits, reading, taken, written, got>>
queueVars == <<kind, q, count, Empty, receiver, md, message, file>>
semVars == <<sets, keyed, sum, owner, refuses, waits, step, semid, newest, alone>>
zombieVars == <<parent2, childp>>
msgVars == <<msgs, others, before, child, rcv, mtext, saved>>
all == <<program, vars, lineVars, serverVars, fifoVars, queueVars, semVars, zombieVars,
         msgVars>>

\* Semaphores: of what cannot be told apart, one first state: nothing more is
\* known of a set that is not there or that refuses everybody, and semop() never
\* comes to the values of one in which semaphore 0 is not 0.  The guest finds a set
\* of its own only if its runs have made it.
SetFound ==
  /\ owner[1] # "guest"
  /\ keyed = 0 => refuses = {} /\ ~waits
  /\ keyed = 0 \/ refuses = {"host", "guest"} => owner[1] = "other" /\ ~waits
  /\ keyed = 0 \/ refuses = {"host", "guest"} \/ waits => sum[1] = 0

\* Semaphores: the runs of one user are alike, and start in the order of their
\* numbers.
InOrder ==
  \A r, t \in Run : r < t /\ Sem!User(r) = Sem!User(t) /\ step[r] = "start" => step[t] = "start"

\* The programs that do not run start in one of their initial states.
AllInit ==
  /\ Init /\ Line!Init /\ Server!Init /\ Zombie!Init
  /\ program \in {"pipeline", "line", "server", "fifo", "queue", "semaphores", "zombies", "messages"}
  /\ Fifo!Init /\ (program # "fifo" => atHome)
  /\ Queue!Init /\ (program # "queue" => kind = "absent")
  /\ Sem!Init /\ SetFound /\ (program # "semaphores" => keyed = 0)
  /\ Msg!Init /\ (program # "messages" => others = 0 /\ mtext = <<"empty">> /\ child = "send")

Runs(p) == program = p /\ UNCHANGED program

PipelineRuns ==
  Runs("pipeline") /\ UNCHANGED <<lineVars, serverVars, fifoVars, queueVars, semVars, zombieVars, msgVars>>
LineRuns ==
  Runs("line") /\ UNCHANGED <<vars, serverVars, fifoVars, queueVars, semVars, zombieVars, msgVars>>
ServerRuns ==
  Runs("server") /\ UNCHANGED <<vars, lineVars, fifoVars, queueVars, semVars, zombieVars, msgVars>>
FifoRuns ==
  Runs("fifo") /\ UNCHANGED <<vars, lineVars, serverVars, queueVars, semVars, zombieVars, msgVars>>
QueueRuns ==
  Runs("queue") /\ UNCHANGED <<vars, lineVars, serverVars, fifoVars, semVars, zombieVars, msgVars>>
SemRuns ==
  Runs("semaphores") /\ UNCHANGED <<vars, lineVars, serverVars, fifoVars, queueVars, zombieVars, msgVars>>
ZombieRuns ==
  Runs("zombies") /\ UNCHANGED <<vars, lineVars, serverVars, fifoVars, queueVars, semVars, msgVars>>
MsgRuns ==
  Runs("messages") /\ UNCHANGED <<vars, lineVars, serverVars, fifoVars, queueVars, semVars, zombieVars>>

PipelineNext == Next /\ PipelineRuns
LineNext == Line!Getline /\ LineRuns
ServerNext == Server!Next /\ ServerRuns
FifoNext == Fifo!Next /\ FifoRuns
QueueNext == Queue!Next /\ QueueRuns
SemNext == Sem!Next /\ SemRuns /\ InOrder'
ZombieNext == Zombie!Next /\ ZombieRuns
MsgNext == Msg!Next /\ MsgRuns

AllNext ==
  \/ PipelineNext \/ LineNext \/ ServerNext \/ FifoNext
  \/ QueueNext \/ SemNext \/ ZombieNext \/ MsgNext

\* The fairness of every program, for the case that it runs.
AllSpec ==
  /\ AllInit /\ [][AllNext]_all
  /\ WF_all(PipelineRuns /\ Parent)
  /\ \A k \in Command : /\ WF_all(PipelineRuns /\ (Exec(k) \/ ExecFails(k)))
                        /\ WF_all(PipelineRuns /\ (Write(k) \/ Exit(k)))
  /\ WF_all(ServerRuns /\ Server!Server)
  /\ WF_all(ServerRuns /\ (\E c \in Client : Server!Arrive(c)))
  /\ \A c \in Client \ Telnet : WF_all(ServerRuns /\ Server!Runs(c))
  /\ WF_all(QueueRuns /\ Queue!Receiver)
  /\ WF_all(ZombieRuns /\ (Zombie!SavePid \/ Zombie!Wait))
  /\ WF_all(ZombieRuns /\ Zombie!Adopted)

\* Pipeline: its properties are its own (InputIsNeighbour, FullForEver);
\* the parent comes to its end or a command fills its pipe.
PipelineEnds == program = "pipeline" => ReturnsOrFull

\* CommandLine: nothing of the line is lost or moved.
CommandsAreTheLine == Line!CommandsAreTheLine

\* CommandLine: a null name for every gap between bars.
NullNameIsGap == Line!NullNameIsGap

\* ServerClient: no client waits for ever.
EveryClientEnds == program = "server" => Server!EveryClientEnds

\* FifoRelay: only what was typed, in order, comes out.
OnlyTypedComesOut == Fifo!OnlyTypedComesOut

\* PosixMq: the first message with a byte is saved.
FirstIsWritten == program = "queue" => Queue!FirstIsWritten

\* Semaphores: a run that nobody overlaps is right.
AloneIsRight == Sem!AloneIsRight

\* Zombies: a killed child is collected.
NoZombie == program = "zombies" => Zombie!NoZombie

\* MsgQueue: the child's message stops every later one.
NothingPassesTheChild == Msg!NothingPassesTheChild
=============================================================================
