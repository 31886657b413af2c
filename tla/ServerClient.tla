---------------------------- MODULE ServerClient ----------------------------
(***************************************************************************)
(* "burkley sockets, multiplex/server-client": server.c answers one        *)
(* connection at a time, with blocking calls on both sides.  It takes what *)
(* a single recv() gives, sends its answer and closes.  client.c sends its *)
(* text, takes what a single recv() gives and closes.                      *)
(*                                                                         *)
(* TCP is external: a byte that was sent arrives sooner or later, and a    *)
(* socket that is closed with bytes unread, or that bytes reach later,     *)
(* resets the connection.  Clients are programs that may be killed; those  *)
(* of Telnet are typed by hand (line 51 of server.c) and owe nothing.      *)
(***************************************************************************)
EXTENDS Integers, Sequences

CONSTANTS
  Client,   \* the clients, each run once
  Telnet,   \* those among them that are not client.c
  NoClient,
  Text,     \* the 6 bytes a client sends
  Answer,   \* the 3 bytes of "OK!"
  AskFor    \* the 10 bytes recv() of the server asks for

VARIABLES
  srv,      \* the server is in accept(), recv(), send() or close()
  slave,    \* the client whose connection is slaveSocket
  queue,    \* connections not yet accepted, in their order
  client,   \* client[c]: the call the client is in
  wire,     \* wire[c]: bytes of the client on their way
  arrived,  \* arrived[c]: bytes at the server, not received
  answer,   \* answer[c]: bytes of the answer, not received
  other     \* other[c]: the server's end is "open", "closed" or "reset"

vars == <<srv, slave, queue, client, wire, arrived, answer, other>>

Init ==
  /\ srv = "accept" /\ slave = NoClient /\ queue = <<>>
  /\ client = [c \in Client |-> "connect"]
  /\ wire = [c \in Client |-> 0]
  /\ arrived = [c \in Client |-> 0]
  /\ answer = [c \in Client |-> 0]
  /\ other = [c \in Client |-> "open"]

(***************************************************************************)
(* The server.                                                             *)
(***************************************************************************)

Gone(c) == client[c] \in {"ended", "killed"}

Accept ==
  /\ srv = "accept" /\ queue # <<>>
  /\ slave' = Head(queue) /\ queue' = Tail(queue)
  /\ srv' = "recv"
  /\ UNCHANGED <<client, wire, arrived, answer, other>>

\* Mutant: waits for as many bytes as it asks for.
FullBuffer(c) == arrived[c] >= AskFor \/ (Gone(c) /\ wire[c] = 0)

\* recv() returns with what there is, or at the end of the stream.
Receivable(c) == arrived[c] > 0 \/ (Gone(c) /\ wire[c] = 0)

Recv ==
  /\ srv = "recv" /\ Receivable(slave)
  /\ arrived' = [arrived EXCEPT ![slave] = IF @ > AskFor THEN @ - AskFor ELSE 0]
  /\ srv' = "send"
  /\ UNCHANGED <<slave, queue, client, wire, answer, other>>

\* A client that has gone gets nothing; MSG_NOSIGNAL keeps the server alive.
Send ==
  /\ srv = "send"
  /\ answer' = [answer EXCEPT ![slave] = IF Gone(slave) THEN 0 ELSE Answer]
  /\ srv' = "close"
  /\ UNCHANGED <<slave, queue, client, wire, arrived, other>>

Close ==
  /\ srv = "close"
  /\ other' = [other EXCEPT ![slave] = IF arrived[slave] > 0 THEN "reset" ELSE "closed"]
  /\ slave' = NoClient
  /\ srv' = "accept"
  /\ UNCHANGED <<queue, client, wire, arrived, answer>>

Server == Accept \/ Recv \/ Send \/ Close

(***************************************************************************)
(* A client and the network.                                               *)
(***************************************************************************)

Connect(c) ==
  /\ client[c] = "connect"
  /\ queue' = Append(queue, c)
  /\ client' = [client EXCEPT ![c] = "send"]
  /\ UNCHANGED <<srv, slave, wire, arrived, answer, other>>

SendText(c) ==
  /\ client[c] = "send"
  /\ wire' = [wire EXCEPT ![c] = Text]
  /\ client' = [client EXCEPT ![c] = "recv"]
  /\ UNCHANGED <<srv, slave, queue, arrived, answer, other>>

\* Any part of the answer, 0 or -1: what the client prints is its own text
\* with as many bytes replaced.
RecvAnswer(c) ==
  /\ client[c] = "recv"
  /\ answer[c] > 0 \/ other[c] # "open"
  /\ client' = [client EXCEPT ![c] = "close"]
  /\ \E left \in 0 .. answer[c] :
       /\ answer[c] > 0 /\ left = answer[c] => other[c] = "reset"
       /\ answer' = [answer EXCEPT ![c] = left]
  /\ UNCHANGED <<srv, slave, queue, wire, arrived, other>>

End(c) ==
  /\ client[c] = "close"
  /\ client' = [client EXCEPT ![c] = "ended"]
  /\ UNCHANGED <<srv, slave, queue, wire, arrived, answer, other>>

Runs(c) == Connect(c) \/ SendText(c) \/ RecvAnswer(c) \/ End(c)

Killed(c) ==
  /\ client[c] \notin {"connect", "ended", "killed"}
  /\ client' = [client EXCEPT ![c] = "killed"]
  /\ UNCHANGED <<srv, slave, queue, wire, arrived, answer, other>>

Arrive(c) ==
  /\ wire[c] > 0
  /\ wire' = [wire EXCEPT ![c] = @ - 1]
  /\ IF other[c] = "open"
     THEN arrived' = [arrived EXCEPT ![c] = @ + 1] /\ UNCHANGED other
     ELSE other' = [other EXCEPT ![c] = "reset"] /\ UNCHANGED arrived
  /\ UNCHANGED <<srv, slave, queue, client, answer>>

Next == Server \/ \E c \in Client : Runs(c) \/ Killed(c) \/ Arrive(c)

Spec == Init /\ [][Next]_vars

\* The server, the programs client.c and the network go on.
FairSpec ==
  /\ Spec
  /\ WF_vars(Server)
  /\ WF_vars(\E c \in Client : Arrive(c))
  /\ \A c \in Client \ Telnet : WF_vars(Runs(c))

(***************************************************************************)
(* Properties.                                                             *)
(***************************************************************************)

\* The server is stuck in recv(): somebody has connected and types nothing.
HeldUp == srv = "recv" /\ slave \in Telnet /\ client[slave] = "send"

\* Every client.c ends, or is killed, though both sides wait for each other
\* with a single recv() of a size that the other side never sends, though the
\* stream comes in parts and others are killed in the middle; it can only be
\* held up for ever by somebody who connects and never types anything.
EveryClientEnds ==
  \A c \in Client \ Telnet : (client[c] = "send") ~> (Gone(c) \/ []HeldUp)
=============================================================================
