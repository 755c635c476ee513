------------------------------ MODULE EventLoop ------------------------------
(***************************************************************************)
(* Server, ConnectionManager, EpollManager and CgiOrchestrator together:   *)
(* connections are accepted, requests read and answered, scripts started   *)
(* and collected, by one thread that handles a batch of events at a time.  *)
(*                                                                         *)
(* A request is a pair <<connection, number>> and so is the response to it. *)
(* Bytes, HTTP and the life of one script are abstracted: RequestFramer    *)
(* and CgiSession model them.                                              *)
(***************************************************************************)
EXTENDS EpollTable, Functions

CONSTANTS
  Listeners,      \* listening sockets, one per ServerBlock
  MaxRequests,    \* bound: requests a peer sends on one connection
  BodyAllowed,    \* requests for scripts may have a body
  LargeResponses, \* a response may exceed the room in a socket's send buffer
  HangUps,        \* ways a peer may leave: a subset of {"finished", "reset"}
  Signals         \* a stop signal may arrive

ASSUME ConfigAssumption ==
  /\ MaxFd \in Nat /\ MaxRequests \in Nat
  /\ BodyAllowed \in BOOLEAN /\ LargeResponses \in BOOLEAN
  /\ HangUps \subseteq {"finished", "reset"} /\ Signals \in BOOLEAN

VARIABLES
  (* the server process, in the kernel *)
  table,         \* file behind each descriptor, or None
  regs,          \* epoll registrations
  (* ConnectionManager *)
  clients,       \* _clients: connection served under a descriptor, or None
  clientConfig,  \* _clientServerConfigs: listener whose ServerBlock was copied, or None
  readBuffer,    \* _requestReadBuffers: complete requests received and not popped
  writeBuffer,   \* ClientSocket::_writeBuffer of each connection
  (* CgiOrchestrator *)
  sessions,      \* _sessions: scripts in the order they were started
  sessionOf,     \* per script: client descriptor, request, pipe descriptors, _finished
  (* Server::run *)
  server,        \* "entering" or "blocked" in epoll_wait, "handling", "stopped", "killed", "threw"
  batch,         \* events of the batch not handled yet; an event is a registration or an accept
  stop,          \* g_stopRequested
  (* peers *)
  stage,         \* "new", "queued", "open", "closed"
  peer,          \* "talking", "finished" (sent FIN), "reset"
  arrived,       \* listener a connection came through
  backlog,       \* connections waiting for accept, per listener
  sent,          \* requests the peer has sent
  inbox,         \* of these, requests the server has not received
  popped,        \* requests the server has taken from the read buffer
  got,           \* responses that reached the peer whole
  cut,           \* a response reached the peer only in part
  (* scripts *)
  script,        \* "new", "running", "doomed", "dead"
  inherited,     \* files a script's process holds besides its own
  eof            \* the script's output is closed

kernelVars  == <<table, regs>>
managerVars == <<clients, clientConfig, readBuffer, writeBuffer>>
cgiVars     == <<sessions, sessionOf>>
loopVars    == <<server, batch, stop>>
peerVars    == <<stage, peer, arrived, backlog, sent, inbox, popped, got, cut>>
scriptVars  == <<script, inherited, eof>>
vars == <<kernelVars, managerVars, cgiVars, loopVars, peerVars, scriptVars>>

NoSession == [client |-> NoFd, request |-> None, w |-> NoFd, r |-> NoFd, finished |-> FALSE]
Requests  == Conns \X (1..MaxRequests)

TypeOK ==
  /\ table \in [Fds -> Files \cup {None}]
  /\ regs \subseteq Registrations
  /\ clients \in [Fds -> Conns \cup {None}]
  /\ clientConfig \in [Fds -> Listeners \cup {None}]
  /\ readBuffer \in [Fds -> 0..MaxRequests]
  /\ writeBuffer \in [Conns -> Seq(Requests)] /\ got \in [Conns -> Seq(Requests)]
  /\ sessions \in Seq(Scripts)
  /\ sessionOf \in [Scripts -> [client : Fds \cup {NoFd}, request : Requests \cup {None},
                                w : Fds \cup {NoFd}, r : Fds \cup {NoFd}, finished : BOOLEAN]]
  /\ server \in {"entering", "blocked", "handling", "stopped", "killed", "threw"}
  /\ batch \subseteq Registrations \cup [accept : Listeners]
  /\ stage \in [Conns -> {"new", "queued", "open", "closed"}]
  /\ peer \in [Conns -> {"talking", "finished", "reset"}]
  /\ arrived \in [Conns -> Listeners \cup {None}]
  /\ backlog \in [Listeners -> Seq(Conns)]
  /\ sent \in [Conns -> 0..MaxRequests] /\ inbox \in [Conns -> 0..MaxRequests]
  /\ popped \in [Conns -> 0..MaxRequests]
  /\ cut \in [Conns -> BOOLEAN] /\ stop \in BOOLEAN
  /\ script \in [Scripts -> {"new", "running", "doomed", "dead"}]
  /\ inherited \in [Scripts -> SUBSET Files] /\ eof \in [Scripts -> BOOLEAN]

Init ==
  /\ table = [f \in Fds |-> None] /\ regs = {}
  /\ clients = [f \in Fds |-> None] /\ clientConfig = [f \in Fds |-> None]
  /\ readBuffer = [f \in Fds |-> 0] /\ writeBuffer = [c \in Conns |-> <<>>]
  /\ sessions = <<>> /\ sessionOf = [k \in Scripts |-> NoSession]
  /\ server = "entering" /\ batch = {} /\ stop = FALSE
  /\ stage = [c \in Conns |-> "new"] /\ peer = [c \in Conns |-> "talking"]
  /\ arrived = [c \in Conns |-> None] /\ backlog = [l \in Listeners |-> <<>>]
  /\ sent = [c \in Conns |-> 0] /\ inbox = [c \in Conns |-> 0] /\ popped = [c \in Conns |-> 0]
  /\ got = [c \in Conns |-> <<>>] /\ cut = [c \in Conns |-> FALSE]
  /\ script = [k \in Scripts |-> "new"] /\ inherited = [k \in Scripts |-> {}]
  /\ eof = [k \in Scripts |-> FALSE]

-----------------------------------------------------------------------------
(* Readiness, and the wait for it.                                         *)

Alive(k)      == script[k] \in {"running", "doomed"}
HeldByScripts == UNION {inherited[k] : k \in {j \in Scripts : Alive(j)}}

\* The script has read its whole input: nobody holds the write end any more.
InputEnded(k) == WriteEnd(k) \notin OpenFiles(table) \cup HeldByScripts

FileReady(file, ev) ==
  \/ \E c \in Conns : file = ConnFile(c) /\ \/ ev = "out"
                                            \/ inbox[c] > 0 \/ peer[c] # "talking"
  \/ \E k \in Scripts : file = WriteEnd(k)
  \/ \E k \in Scripts : file = ReadEnd(k) /\ eof[k]

ReadyEvents == {r \in regs : FileReady(r.file, r.ev)}
                 \cup {[accept |-> l] : l \in {m \in Listeners : backlog[m] # <<>>}}

\* From the test of shouldStop to the wait itself.
EnterWait ==
  /\ server = "entering"
  /\ server' = "blocked"
  /\ UNCHANGED <<batch, stop, kernelVars, managerVars, cgiVars, peerVars, scriptVars>>

\* epoll_wait returns what is ready; it has no timeout.
WaitReturns ==
  /\ server = "blocked"
  /\ ReadyEvents # {}
  /\ server' = "handling"
  /\ batch' = ReadyEvents
  /\ UNCHANGED <<stop, kernelVars, managerVars, cgiVars, peerVars, scriptVars>>

\* SIGINT or SIGTERM.  A blocked epoll_wait fails with EINTR and run tests the
\* flag again; at any other moment the flag is all that remains of the signal.
StopSignal ==
  /\ Signals /\ ~stop
  /\ server \in {"entering", "blocked", "handling"}
  /\ stop' = TRUE
  /\ server' = IF server = "blocked" THEN "stopped" ELSE server
  /\ UNCHANGED <<batch, kernelVars, managerVars, cgiVars, peerVars, scriptVars>>

Takes(e) ==
  /\ server = "handling"
  /\ e \in batch
  /\ batch' = batch \ {e}
  /\ UNCHANGED stop

-----------------------------------------------------------------------------
(* acceptNewClient.                                                        *)

\* Fault: the listener's entry is not found.
FaultNoConfig(l) == None

\* The ServerBlock that is copied for a connection is its listener's.
ListenerConfig(l) == l

\* Fault: a connection is registered for output too early.
FaultInterest == "out"

InitialInterest == "in"

\* accept until it fails: the queue is empty or no descriptor is left.
AcceptNewClients(l) ==
  /\ Takes([accept |-> l])
  /\ LET q == backlog[l]
         n == IF Len(q) < Cardinality(FreeFds(table)) THEN Len(q) ELSE Cardinality(FreeFds(table))
         fdOf(i) == NthFree(table, i)
         new == {fdOf(i) : i \in 1..n}
         conn(f) == q[CHOOSE i \in 1..n : fdOf(i) = f]
         opened  == [f \in Fds |-> IF f \in new THEN ConnFile(conn(f)) ELSE table[f]]
     IN /\ table' = opened
        /\ server' = IF \A f \in new : MayAdd(regs, opened, f) THEN server ELSE "threw"
        /\ regs' = regs \cup {[fd |-> f, file |-> ConnFile(conn(f)), ev |-> InitialInterest] : f \in new}
        /\ clients' = [f \in Fds |-> IF f \in new THEN conn(f) ELSE clients[f]]
        /\ clientConfig' = [f \in Fds |-> IF f \in new THEN ListenerConfig(l) ELSE clientConfig[f]]
        /\ stage' = [c \in Conns |-> IF \E f \in new : conn(f) = c THEN "open" ELSE stage[c]]
        /\ backlog' = [backlog EXCEPT ![l] = SubSeq(q, n + 1, Len(q))]
  /\ UNCHANGED <<readBuffer, writeBuffer, cgiVars, peer, arrived, sent, inbox, popped,
                 got, cut, scriptVars>>

-----------------------------------------------------------------------------
(* Descriptors given back.                                                 *)

\* Fault: the end that carries the body is forgotten.
FaultReadEndOnly(k) == {sessionOf[k].r} \ {NoFd}

PipeFds(k) == {sessionOf[k].w, sessionOf[k].r} \ {NoFd}

\* Descriptors in "closed" are closed, those in "removed" were unregistered before.
Release(removed, closed) ==
  LET t == CloseFds(table, closed)
  IN /\ table' = t
     /\ regs' = Prune(RemoveFds(regs, table, removed), OpenFiles(t) \cup HeldByScripts)

\* The executors of K are deleted: scripts still running get SIGKILL.
Doom(K) == script' = [k \in Scripts |-> IF k \in K /\ script[k] = "running" THEN "doomed" ELSE script[k]]

Forget(K) == sessionOf' = [k \in Scripts |-> IF k \in K THEN NoSession ELSE sessionOf[k]]

\* Fault: a client's script outlives its connection.
FaultNoCancel(fd) == {}

\* cancelForClient finds the first session of the descriptor, and stops there.
CancelledFor(fd) ==
  LET mine == {i \in DOMAIN sessions : sessionOf[sessions[i]].client = fd}
  IN IF mine = {} THEN {} ELSE {sessions[CHOOSE i \in mine : \A j \in mine : i <= j]}

\* Fault: what was received for the last client of the number is kept.
FaultBufferKept(fd) ==
  /\ clients' = [clients EXCEPT ![fd] = None]
  /\ clientConfig' = [clientConfig EXCEPT ![fd] = None]
  /\ UNCHANGED readBuffer

\* Fault: the deleted client stays in the table.
FaultPointerKept(fd) ==
  /\ clientConfig' = [clientConfig EXCEPT ![fd] = None]
  /\ readBuffer' = [readBuffer EXCEPT ![fd] = 0]
  /\ UNCHANGED clients

\* The number forgets its client: configuration, received bytes and socket.
Unserve(fd) ==
  /\ clients' = [clients EXCEPT ![fd] = None]
  /\ clientConfig' = [clientConfig EXCEPT ![fd] = None]
  /\ readBuffer' = [readBuffer EXCEPT ![fd] = 0]

DisconnectClient(fd) ==
  LET K    == CancelledFor(fd)
      gone == {fd} \cup UNION {PipeFds(k) : k \in K}
  IN /\ Release(gone, gone)
     /\ Unserve(fd)
     /\ stage' = [stage EXCEPT ![clients[fd]] = "closed"]
     /\ sessions' = Only(sessions, Scripts \ K)
     /\ Forget(K)
     /\ Doom(K)

-----------------------------------------------------------------------------
(* handleEventByIndex: which handler an event goes to is decided by what   *)
(* its number denotes when the event is handled.                           *)

IsCgiFd(fd) == \E i \in DOMAIN sessions : fd \in PipeFds(sessions[i])

ForClient(e) == Takes(e) /\ e \in Registrations /\ ~IsCgiFd(e.fd)

\* An event for a number that serves nobody is dropped.
DropEvent(e) ==
  /\ ForClient(e)
  /\ clients[e.fd] = None
  /\ UNCHANGED <<server, kernelVars, managerVars, cgiVars, peerVars, scriptVars>>

\* A pipe's event for a number that serves a client by now may come with EPOLLHUP
\* or EPOLLERR alone, which the loop does not look at.  A socket's never does.
IgnoreHangUp(e) ==
  /\ ForClient(e)
  /\ clients[e.fd] # None /\ e.file \notin {ConnFile(c) : c \in Conns}
  /\ UNCHANGED <<server, kernelVars, managerVars, cgiVars, peerVars, scriptVars>>

-----------------------------------------------------------------------------
(* handleClientRead.                                                       *)

Reads(e, c) == ForClient(e) /\ e.ev = "in" /\ clients[e.fd] = c /\ c # None

\* recv fails: there is nothing to read, or the reset is reported.
ReceiveFails(e, c) ==
  /\ Reads(e, c)
  /\ inbox[c] = 0 /\ peer[c] # "finished"
  /\ UNCHANGED <<server, kernelVars, managerVars, cgiVars, peerVars, scriptVars>>

\* recv returns 0.
ReceiveEnd(e, c) ==
  /\ Reads(e, c)
  /\ inbox[c] = 0 /\ peer[c] # "talking"
  /\ DisconnectClient(e.fd)
  /\ UNCHANGED <<server, writeBuffer, peer, arrived, backlog, sent, inbox, popped, got, cut,
                 inherited, eof>>

\* recv returns a part of a request, and no complete one is in the buffer.
ReceivePart(e, c) ==
  /\ Reads(e, c)
  /\ inbox[c] > 0 /\ readBuffer[e.fd] = 0
  /\ UNCHANGED <<server, kernelVars, managerVars, cgiVars, peerVars, scriptVars>>

\* recv returns bytes that complete n more requests, and one request is popped,
\* the first of these or one that was complete before.
ReceiveRequest(e, c, n) ==
  /\ Reads(e, c)
  /\ inbox[c] > 0 /\ n \in 0..inbox[c] /\ readBuffer[e.fd] + n > 0
  /\ inbox' = [inbox EXCEPT ![c] = @ - n]
  /\ readBuffer' = [readBuffer EXCEPT ![e.fd] = @ + n - 1]
  /\ popped' = [popped EXCEPT ![c] = @ + 1]
  /\ UNCHANGED <<clients, clientConfig, stage, peer, arrived, backlog, sent, got, cut>>

\* Fault: a response is queued and the socket's interest stays as it is.
FaultNotArmed(R, t, S) == R

\* queueResponse: the sockets are watched for room to send.
Armed(R, t, S) == ModifyFds(R, t, S, "out")

\* A response of a method handler, an error response, or 502 when no script can
\* be started: queueResponse.
AnswerDirectly(e, c, n) ==
  /\ ReceiveRequest(e, c, n)
  /\ writeBuffer' = [writeBuffer EXCEPT ![c] = Append(@, <<c, popped[c] + 1>>)]
  /\ regs' = Armed(regs, table, {e.fd})
  /\ server' = IF MayModify(regs, table, e.fd) THEN server ELSE "threw"
  /\ UNCHANGED <<table, cgiVars, scriptVars>>

\* startCgi: two pipes, fork, and the parent's ends registered.  Nothing is
\* opened close-on-exec, so that the script keeps every file the server has
\* open, except the two ends it closes itself.
StartCgi(e, c, n, k, body) ==
  /\ ReceiveRequest(e, c, n)
  /\ script[k] = "new"
  /\ Cardinality(FreeFds(table)) >= 4
  /\ LET w == NthFree(table, 2)
         r == NthFree(table, 3)
         withRead == [table EXCEPT ![r] = ReadEnd(k)]
         opened   == IF body THEN [withRead EXCEPT ![w] = WriteEnd(k)] ELSE withRead
         readReg  == AddFd(regs, opened, r, "in")
     IN /\ table' = opened
        /\ server' = IF MayAdd(regs, opened, r) /\ (body => MayAdd(readReg, opened, w))
                     THEN server ELSE "threw"
        /\ regs' = IF body THEN AddFd(readReg, opened, w, "out") ELSE readReg
        /\ sessionOf' = [sessionOf EXCEPT ![k] =
             [client |-> e.fd, request |-> <<c, popped[c] + 1>>,
              w |-> IF body THEN w ELSE NoFd, r |-> r, finished |-> FALSE]]
  /\ sessions' = Append(sessions, k)
  /\ script' = [script EXCEPT ![k] = "running"]
  /\ inherited' = [inherited EXCEPT ![k] = OpenFiles(table)]
  /\ UNCHANGED <<writeBuffer, eof>>

-----------------------------------------------------------------------------
(* handleClientWrite.                                                      *)

Writes(e, c) == ForClient(e) /\ e.ev = "out" /\ clients[e.fd] = c /\ c # None

\* Everything is sent, or there was nothing to send: the client is disconnected.
FlushAll(e, c) ==
  /\ Writes(e, c)
  /\ peer[c] # "reset" \/ writeBuffer[c] = <<>>
  /\ got' = [got EXCEPT ![c] = @ \o writeBuffer[c]]
  /\ writeBuffer' = [writeBuffer EXCEPT ![c] = <<>>]
  /\ DisconnectClient(e.fd)
  /\ UNCHANGED <<server, peer, arrived, backlog, sent, inbox, popped, cut, inherited, eof>>

\* send takes a part: flushWriteBuffer reports the rest like a failure, and the
\* client is disconnected.
FlushPart(e, c) ==
  /\ Writes(e, c)
  /\ LargeResponses /\ peer[c] # "reset" /\ writeBuffer[c] # <<>>
  /\ cut' = [cut EXCEPT ![c] = TRUE]
  /\ DisconnectClient(e.fd)
  /\ UNCHANGED <<server, writeBuffer, peer, arrived, backlog, sent, inbox, popped, got,
                 inherited, eof>>

\* send fails on a reset connection: the response stays queued, or the failure
\* is EPIPE and SIGPIPE ends the server.
FlushFails(e, c) ==
  /\ Writes(e, c)
  /\ peer[c] = "reset" /\ writeBuffer[c] # <<>>
  /\ server' \in {server, "killed"}
  /\ UNCHANGED <<kernelVars, managerVars, cgiVars, peerVars, scriptVars>>

-----------------------------------------------------------------------------
(* CgiOrchestrator::handleEvent.                                           *)

ForScript(e, k) == Takes(e) /\ e \in Registrations /\ k \in Range(sessions)

\* A hang-up is reported with every registration, and only an ended pipe has one.
HangsUp(e) == \E k \in Scripts : e.file = ReadEnd(k)

ToWriteEnd(e, k) == ForScript(e, k) /\ sessionOf[k].w = e.fd /\ (e.ev = "out" \/ HangsUp(e))
ToReadEnd(e, k)  == ForScript(e, k) /\ sessionOf[k].r = e.fd /\ e.ev = "in"

\* Fault: the pipe stays open behind the last byte of the body.
FaultStaysOpen(e, k) == UNCHANGED <<kernelVars, sessionOf, inherited>>

\* Closed before removeFd is asked to unregister the number, to no effect.
WriteEndCloses(e, k) ==
  /\ Release({}, {e.fd})
  /\ sessionOf' = [sessionOf EXCEPT ![k].w = NoFd]
  /\ UNCHANGED inherited

\* The last byte of the body is written.
CgiBodySent(e, k) ==
  /\ ToWriteEnd(e, k) /\ script[k] = "running"
  /\ WriteEndCloses(e, k)
  /\ UNCHANGED <<server, managerVars, sessions, peerVars, script, eof>>

\* Part of the body is written, or nothing; nobody reads: SIGPIPE.
CgiBodyPending(e, k) ==
  /\ ToWriteEnd(e, k)
  /\ server' = IF script[k] = "dead" THEN "killed" ELSE server
  /\ UNCHANGED <<kernelVars, managerVars, cgiVars, peerVars, scriptVars>>

\* End of the output: closed before removeFd, as above.
CgiOutputEnds(e, k) ==
  /\ ToReadEnd(e, k) /\ eof[k]
  /\ Release({}, {e.fd})
  /\ sessionOf' = [sessionOf EXCEPT ![k].r = NoFd, ![k].finished = TRUE]
  /\ UNCHANGED <<server, managerVars, sessions, peerVars, scriptVars>>

\* The flags ask for nothing that this end can do, or a read finds nothing.
CgiEventIgnored(e, k) ==
  /\ ForScript(e, k) /\ e.fd \in PipeFds(k)
  /\ ~ToWriteEnd(e, k) /\ ~(ToReadEnd(e, k) /\ eof[k])
  /\ UNCHANGED <<server, kernelVars, managerVars, cgiVars, peerVars, scriptVars>>

-----------------------------------------------------------------------------
(* dispatchCgiResponses ends the batch, and run tests the flag.            *)

\* Fault: a response is queued without a look at the table of clients.
FaultUnchecked(k) == TRUE

HasClient(k) == clients[sessionOf[k].client] # None

\* The scripts of E, each finished or given up, are collected; the response of
\* each goes to whoever is served under the client's number now.
DispatchCgiResponses(E) ==
  LET finished  == {k \in E : sessionOf[k].finished}
      servedBy(k) == clients[sessionOf[k].client]
      answered  == {k \in E : HasClient(k)}
      answersTo(c) == Only(sessions, {k \in E : servedBy(k) = c})
      t         == CloseFds(table, UNION {PipeFds(k) : k \in E})
      kept      == Prune(RemoveFds(regs, table, UNION {PipeFds(k) : k \in finished}),
                         OpenFiles(t) \cup HeldByScripts)
  IN /\ server = "handling" /\ batch = {}
     /\ {k \in Range(sessions) : sessionOf[k].finished} \subseteq E
     /\ E \subseteq Range(sessions)
     /\ table' = t
     /\ regs' = Armed(kept, t, {sessionOf[k].client : k \in answered})
     /\ writeBuffer' = [c \in Conns |-> writeBuffer[c] \o
          [i \in DOMAIN answersTo(c) |-> sessionOf[answersTo(c)[i]].request]]
     /\ sessions' = Only(sessions, Scripts \ E)
     /\ Forget(E)
     /\ Doom(E)
     /\ server' = IF \A k \in answered : MayModify(kept, t, sessionOf[k].client)
                  THEN IF stop THEN "stopped" ELSE "entering"
                  ELSE "threw"
     /\ UNCHANGED <<batch, stop, clients, clientConfig, readBuffer, peerVars, inherited, eof>>

-----------------------------------------------------------------------------
(* Peers and scripts.                                                      *)

Connect(c, l) ==
  /\ stage[c] = "new"
  /\ stage' = [stage EXCEPT ![c] = "queued"]
  /\ arrived' = [arrived EXCEPT ![c] = l]
  /\ backlog' = [backlog EXCEPT ![l] = Append(@, c)]
  /\ UNCHANGED <<kernelVars, managerVars, cgiVars, loopVars, peer, sent, inbox, popped, got, cut,
                 scriptVars>>

SendRequest(c) ==
  /\ stage[c] = "open" /\ peer[c] = "talking" /\ sent[c] < MaxRequests
  /\ sent' = [sent EXCEPT ![c] = @ + 1]
  /\ inbox' = [inbox EXCEPT ![c] = @ + 1]
  /\ UNCHANGED <<kernelVars, managerVars, cgiVars, loopVars, stage, peer, arrived, backlog, popped,
                 got, cut, scriptVars>>

Leave(c) ==
  /\ stage[c] = "open" /\ peer[c] = "talking"
  /\ \E h \in HangUps : peer' = [peer EXCEPT ![c] = h]
  /\ UNCHANGED <<kernelVars, managerVars, cgiVars, loopVars, stage, arrived, backlog, sent, inbox,
                 popped, got, cut, scriptVars>>

\* A process ends and gives back what it inherited.
ScriptEnds(k) ==
  /\ Alive(k)
  /\ script' = [script EXCEPT ![k] = "dead"]
  /\ eof' = [eof EXCEPT ![k] = TRUE]
  /\ regs' = Prune(regs, OpenFiles(table) \cup
                         UNION {inherited[j] : j \in {i \in Scripts \ {k} : Alive(i)}})
  /\ UNCHANGED <<table, managerVars, cgiVars, loopVars, peerVars, inherited>>

-----------------------------------------------------------------------------
HandleEvent ==
  \/ \E l \in Listeners : AcceptNewClients(l)
  \/ \E e \in batch : DropEvent(e) \/ IgnoreHangUp(e)
  \/ \E e \in batch, c \in Conns :
       \/ ReceiveFails(e, c) \/ ReceiveEnd(e, c) \/ ReceivePart(e, c)
       \/ \E n \in 0..MaxRequests :
            \/ AnswerDirectly(e, c, n)
            \/ \E k \in Scripts, body \in {FALSE, BodyAllowed} : StartCgi(e, c, n, k, body)
       \/ FlushAll(e, c) \/ FlushPart(e, c) \/ FlushFails(e, c)
  \/ \E e \in batch, k \in Scripts :
       \/ CgiBodySent(e, k) \/ CgiBodyPending(e, k)
       \/ CgiOutputEnds(e, k) \/ CgiEventIgnored(e, k)

EndBatch == \E E \in SUBSET Scripts : DispatchCgiResponses(E)

PeerStep == \E c \in Conns :
  \/ \E l \in Listeners : Connect(c, l)
  \/ SendRequest(c) \/ Leave(c)

ScriptStep == \E k \in Scripts : ScriptEnds(k)

LoopStep == EnterWait \/ WaitReturns \/ HandleEvent \/ EndBatch

Next == LoopStep \/ StopSignal \/ PeerStep \/ ScriptStep

Spec == Init /\ [][Next]_vars

\* The loop goes on by itself.
LoopSpec == Spec /\ WF_vars(LoopStep)

\* As before, with scripts that read their input to its end, end once it has
\* ended, and die when they are killed.
FairSpec ==
  /\ LoopSpec
  /\ \A k \in Scripts : /\ WF_vars((script[k] = "doomed" \/ InputEnded(k)) /\ ScriptEnds(k))
                         /\ SF_vars(\E e \in batch : CgiBodySent(e, k))

-----------------------------------------------------------------------------
(* Safety.                                                                 *)

Running == server \in {"entering", "blocked", "handling"}

\* The table of clients and the kernel agree: a number serves a connection
\* exactly while it denotes that connection's socket, the socket is then
\* registered, so that modifyFd cannot throw out of run, and no registration of a
\* socket outlives its number, also while scripts hold copies of the socket: no
\* event of a gone client can be reported.
ClientsAreOpen ==
  /\ \A f \in Fds, c \in Conns :
       /\ clients[f] = c <=> table[f] = ConnFile(c)
       /\ clients[f] = c => MayModify(regs, table, f)
  /\ \A r \in regs : (\E c \in Conns : r.file = ConnFile(c)) => table[r.fd] = r.file

\* Every pipe end the server holds belongs to a listed session that knows its
\* number: nothing is leaked by a cancel, a failed script or an end of output.
PipesAreOwned ==
  \A f \in Fds, k \in Scripts :
    /\ table[f] = WriteEnd(k) <=> sessionOf[k].w = f
    /\ table[f] = ReadEnd(k) <=> sessionOf[k].r = f
    /\ sessionOf[k].r = f => k \in Range(sessions) /\ MayModify(regs, table, f)

\* What is queued for a peer or has reached it answers a request of its own.
AnswersAt(c)   == Range(writeBuffer[c]) \cup Range(got[c])
OwnAnswersOnly == \A c \in Conns : \A a \in AnswersAt(c) : a[1] = c

\* As long as nobody sends a second request, answers reach those who asked, also
\* when the number of a client was another's while the script ran: the number of
\* a listed session is still that client's.  One client that sends two is enough
\* to lead a third client's answer astray: two sessions of one number are
\* cancelled for one, whoever started them.
Patient(c) == sent[c] <= 1
PatientAnswersAreOwn ==
  (\A c \in Conns : Patient(c)) =>
     /\ OwnAnswersOnly
     /\ \A k \in Range(sessions) :
          clients[sessionOf[k].client] = sessionOf[k].request[1]

\* What is kept for a number belongs to the connection it serves now: the bytes of
\* an earlier one are never taken for its requests, none is lost, and it is served
\* with the configuration of the listener it came through.
NothingIsInherited ==
  \A f \in Fds :
    IF clients[f] = None THEN clientConfig[f] = None
    ELSE LET c == clients[f]
         IN /\ sent[c] = inbox[c] + readBuffer[f] + popped[c]
            /\ clientConfig[f] = arrived[c]

\* No failed epoll_ctl is thrown out of run: a response is only ever queued for
\* a number whose present file is registered, and a new file is not registered
\* under its number before, although registrations outlive their numbers.
NeverThrows == server # "threw"

\* The server hangs up only on a peer that left or that was sent a response, or
\* for an output event of another file: mostly of a script's pipe that had the
\* connection's number before, earlier in the batch or, where a second script has
\* inherited the pipe, at any time.  No input event and no event of its own
\* socket ever cuts off a peer that waits.
ClosedForAReason ==
  [][\A c \in Conns : stage[c] = "open" /\ stage'[c] = "closed" =>
       \/ peer[c] # "talking" \/ got'[c] # <<>> \/ cut'[c]
       \/ \E e \in (batch \ batch') \cap Registrations : e.ev = "out" /\ e.file # ConnFile(c)]_vars

\* A peer that stays is sent its response before the server hangs up.
HangUpsHaveAReason ==
  \A c \in Conns : stage[c] = "closed" => peer[c] # "talking" \/ got[c] # <<>> \/ cut[c]

\* A response that is begun is sent to its end.
ResponsesAreWhole == \A c \in Conns : ~cut[c]

(* Liveness.                                                               *)

\* A queued response is sent, or the peer is gone.
ResponsesAreSent ==
  \A c \in Conns : writeBuffer[c] # <<>> ~> stage[c] = "closed" \/ peer[c] = "reset" \/ ~Running

\* A session comes to an end even though scripts inherit each other's pipes.
SessionsEnd == \A k \in Scripts : k \in Range(sessions) ~> k \notin Range(sessions) \/ ~Running
=============================================================================
