-------------------------------- MODULE Sockets --------------------------------
(***************************************************************************)
(* Guest sockets over host connections (src/src/network.rs).               *)
(*                                                                         *)
(* Every call locks the one table of sockets and holds the lock while the  *)
(* host reads or writes the connection: a receiver that waits for its peer *)
(* keeps every other call waiting.  The host connects before the lock is   *)
(* taken.  Behind the guest's destination is a peer that says nothing, the *)
(* program's own echo server, or nobody.                                   *)
(***************************************************************************)
EXTENDS Integers, Sequences, SequencesExt

CONSTANTS
  NetCallers,  \* guest threads
  FirstSocket, \* first number of a socket
  MaxSockets,  \* bound: sockets made
  Nobody       \* no thread, no call, no connection

ASSUME SocketsAssumption == FirstSocket \in Nat /\ MaxSockets \in Nat

VARIABLES
  listening,   \* the echo server has its port
  sockets,     \* ACTIVE_SOCKETS: connections by descriptor
  nextSocket,  \* SOCKET_COUNTER
  conns,       \* host connections, in the order they were made
  request,     \* the call each thread is in
  holder       \* the thread that holds the lock while its peer is silent

socketVars == <<listening, sockets, nextSocket, conns, request, holder>>

\* What the server puts before each piece it sends back: "Echo: ".
Mark == 0

InitSockets ==
  /\ listening \in BOOLEAN
  /\ sockets = << >> /\ nextSocket = FirstSocket
  /\ conns = << >>
  /\ request = [t \in NetCallers |-> Nobody]
  /\ holder = Nobody

Numbers == FirstSocket .. nextSocket - 1

Unlocked == holder = Nobody

Asks(t, op, fd) == request' = [request EXCEPT ![t] = [op |-> op, fd |-> fd, conn |-> Nobody]]
Answers(t)      == request' = [request EXCEPT ![t] = Nobody]
In(t, op)       == request[t] # Nobody /\ request[t].op = op

\* A stream that nothing refers to any more is closed.
Dropped(c) == IF c = Nobody THEN conns ELSE [conns EXCEPT ![c].open = FALSE]

At(fd) == IF fd \in DOMAIN sockets THEN sockets[fd] ELSE Nobody

-------------------------------------------------------------------------------
\* sceNetSocket gives out a number; there is nothing in the table yet.
Socket(t) ==
  /\ Unlocked
  /\ nextSocket < FirstSocket + MaxSockets
  /\ nextSocket' = nextSocket + 1
  /\ UNCHANGED <<listening, sockets, conns, request, holder>>

\* sceNetConnect, sceNetSend, sceNetRecv and sceNetSocketClose are called.
Call(t, op, fd) ==
  /\ Asks(t, op, fd)
  /\ UNCHANGED <<listening, sockets, nextSocket, conns, holder>>

\* The host connects: to the peer that was meant, failing that to the program's
\* own server, failing that to nobody, which is success as well.
HostConnect(t, peer) ==
  /\ In(t, "connect")
  /\ peer = "echo" => listening
  /\ peer = "none" => ~listening
  /\ IF peer = "none" THEN Answers(t) /\ UNCHANGED conns
     ELSE /\ conns' = Append(conns, [peer |-> peer, open |-> TRUE, up |-> << >>, down |-> << >>,
                                     sent |-> 0, received |-> << >>])
          /\ request' = [request EXCEPT ![t].op = "insert", ![t].conn = Len(conns) + 1]
  /\ UNCHANGED <<listening, sockets, nextSocket, holder>>

\* The new stream takes the place of one that was there.
InsertStream(t) ==
  /\ In(t, "insert")
  /\ Unlocked
  /\ conns' = Dropped(At(request[t].fd))
  /\ sockets' = [d \in DOMAIN sockets \cup {request[t].fd} |->
                   IF d = request[t].fd THEN request[t].conn ELSE sockets[d]]
  /\ Answers(t)
  /\ UNCHANGED <<listening, nextSocket, holder>>

\* sceNetSend, which pretends to have sent when there is no connection.
Send(t) ==
  /\ In(t, "send")
  /\ Unlocked
  /\ LET c == At(request[t].fd) IN
     IF c = Nobody THEN UNCHANGED conns
     ELSE conns' = [conns EXCEPT ![c].sent = @ + 1, ![c].up = Append(@, conns[c].sent + 1)]
  /\ Answers(t)
  /\ UNCHANGED <<listening, sockets, nextSocket, holder>>

\* sceNetRecv takes the lock and reads; no connection is the end of the data.
Recv(t) ==
  /\ In(t, "recv")
  /\ Unlocked
  /\ IF At(request[t].fd) = Nobody THEN Answers(t) /\ UNCHANGED holder
     ELSE /\ holder' = t
          /\ request' = [request EXCEPT ![t].op = "reading"]
  /\ UNCHANGED <<listening, sockets, nextSocket, conns>>

\* What has arrived is read, all of it or the first part.
Receive(t, n) ==
  /\ In(t, "reading")
  /\ LET c == sockets[request[t].fd] IN
     /\ n \in 1 .. Len(conns[c].down)
     /\ conns' = [conns EXCEPT ![c].received = @ \o SubSeq(conns[c].down, 1, n),
                               ![c].down = SubSeq(@, n + 1, Len(@))]
  /\ holder' = Nobody
  /\ Answers(t)
  /\ UNCHANGED <<listening, sockets, nextSocket>>

\* sceNetSocketClose and sceNetClose: 0, whether there was a connection or not.
CloseSocket(t) ==
  /\ In(t, "close")
  /\ Unlocked
  /\ conns' = Dropped(At(request[t].fd))
  /\ sockets' = [d \in DOMAIN sockets \ {request[t].fd} |-> sockets[d]]
  /\ Answers(t)
  /\ UNCHANGED <<listening, nextSocket, holder>>

\* Defect: what does not fit into one write of the host is lost.
EchoOnePart(c, n) ==
  /\ conns[c].peer = "echo"
  /\ n \in 1 .. Len(conns[c].up)
  /\ conns' = [conns EXCEPT ![c].up = SubSeq(@, n + 1, Len(@)),
       ![c].down = IF conns[c].open THEN @ \o <<Mark, conns[c].up[1]>> ELSE @]
  /\ UNCHANGED <<listening, sockets, nextSocket, request, holder>>

\* Defect: the server serves its connections one after the other.
EchoInTurn(c, n) ==
  /\ conns[c].peer = "echo"
  /\ \A d \in 1 .. c - 1 : conns[d].peer = "echo" => ~conns[d].open
  /\ n \in 1 .. Len(conns[c].up)
  /\ conns' = [conns EXCEPT ![c].up = SubSeq(@, n + 1, Len(@)),
       ![c].down = IF conns[c].open THEN @ \o <<Mark>> \o SubSeq(conns[c].up, 1, n) ELSE @]
  /\ UNCHANGED <<listening, sockets, nextSocket, request, holder>>

\* A thread of the server sends back what it has read at once.  What the guest
\* has sent is still read after it has closed; the answer is lost then.
Echo(c, n) ==
  /\ conns[c].peer = "echo"
  /\ n \in 1 .. Len(conns[c].up)
  /\ conns' = [conns EXCEPT ![c].up = SubSeq(@, n + 1, Len(@)),
       ![c].down = IF conns[c].open THEN @ \o <<Mark>> \o SubSeq(conns[c].up, 1, n) ELSE @]
  /\ UNCHANGED <<listening, sockets, nextSocket, request, holder>>

-------------------------------------------------------------------------------
\* The steps of a call that is under way, and of the server's threads.
Continue(t) ==
  \/ \E peer \in {"silent", "echo", "none"} : HostConnect(t, peer)
  \/ InsertStream(t)
  \/ Send(t)
  \/ Recv(t)
  \/ In(t, "reading") /\ \E n \in 1 .. Len(conns[sockets[request[t].fd]].down) : Receive(t, n)
  \/ CloseSocket(t)

Serve(c) == \E n \in 1 .. Len(conns[c].up) : Echo(c, n)

\* What a connection has received and what is on its way to it are the first
\* bytes that were sent over it, in their order and each of them once, however
\* the host cuts the stream into pieces (initialize_network's server, sceNetSend,
\* sceNetRecv).
EchoesInOrder ==
  \A c \in DOMAIN conns :
    LET back == conns[c].received \o conns[c].down
        echoed == {i \in DOMAIN back : back[i] # Mark} IN
    /\ \E n \in 0 .. conns[c].sent : {back[i] : i \in echoed} = 1 .. n
    /\ \A i, j \in echoed : i < j => back[i] < back[j]

\* A receiver whose peer has nothing to answer waits with the lock for ever.
Hopeless ==
  /\ holder # Nobody
  /\ LET c == conns[sockets[request[holder].fd]]
     IN  c.peer = "silent" \/ (c.up = << >> /\ c.down = << >>)

\* Every network call returns, unless somebody waits for an answer to nothing:
\* what has been sent to the server comes back and lets the receiver and
\* whoever waits for the lock go on (sceNetRecv, initialize_network).
CallsReturn == \A t \in NetCallers : request[t] # Nobody ~> (request[t] = Nobody \/ Hopeless)
===============================================================================
