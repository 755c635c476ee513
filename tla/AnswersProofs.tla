---------------------------- MODULE AnswersProofs ----------------------------
(* What TLAPS proves of EventLoop about answers: whose they are, and why        *)
(* connections are closed.                                                     *)
EXTENDS EventLoopProofs

-----------------------------------------------------------------------------
(* Whose the answers are.                                                  *)

\* Two sessions are never for the same request, and each is for one that was taken.
AskedOnce ==
  \A k \in Range(sessions) :
    /\ sessionOf[k].request[2] <= popped[sessionOf[k].request[1]]
    /\ \A j \in Range(sessions) : sessionOf[j].request = sessionOf[k].request => j = k

PatientInv == AskedOnce /\ PatientAnswersAreOwn

AllPatient == \A c \in Conns : Patient(c)

LEMMA InitPatientInv == Init => PatientInv
<1> SUFFICES ASSUME Init PROVE PatientInv
  OBVIOUS
<1>1. Range(sessions) = {}
  BY DEF Init, Range
<1>2. \A c \in Conns : Range(writeBuffer[c]) = {} /\ Range(got[c]) = {}
  BY DEF Init, Range
<1>3. QED
  BY <1>1, <1>2 DEF PatientInv, AskedOnce, PatientAnswersAreOwn, OwnAnswersOnly, AnswersAt

LEMMA ListedScripts ==
  ASSUME IInv
  PROVE  /\ Range(sessions) \subseteq Scripts
         /\ \A k \in Range(sessions) :
              /\ sessionOf[k].client \in Fds /\ sessionOf[k].request \in Requests
              /\ sessionOf[k].request[1] \in Conns
<1>1. Range(sessions) \subseteq Scripts
  BY DEF IInv, TypeOK, Range
<1>2. QED
  BY <1>1 DEF IInv, SessionInv, Requests

\* A step that starts no script, takes the number of no listed session from its
\* client, and adds to no peer's answers but its own.
LEMMA PatientKept ==
  ASSUME IInv, PatientInv,
         \A c \in Conns : sent'[c] >= sent[c] /\ popped'[c] >= popped[c],
         \A c \in Conns : sent[c] \in Nat /\ sent'[c] \in Nat /\ popped[c] \in Nat /\ popped'[c] \in Nat,
         Range(sessions') \subseteq Range(sessions),
         \A k \in Range(sessions') : /\ sessionOf'[k].client = sessionOf[k].client
                                     /\ sessionOf'[k].request = sessionOf[k].request,
         AllPatient => \A k \in Range(sessions') :
                         clients'[sessionOf[k].client] = clients[sessionOf[k].client],
         AllPatient => \A c \in Conns : \A a \in AnswersAt(c)' : a \in AnswersAt(c) \/ a[1] = c
  PROVE  PatientInv'
<1>1. AskedOnce'
  <2>1. ASSUME NEW k \in Range(sessions')
        PROVE  sessionOf[k].request[2] <= popped'[sessionOf[k].request[1]]
    <3>1. sessionOf[k].request[1] \in Conns /\ sessionOf[k].request[2] \in Nat
      BY ListedScripts, ConfigAssumption DEF Requests
    <3>2. sessionOf[k].request[2] <= popped[sessionOf[k].request[1]]
      BY DEF PatientInv, AskedOnce
    <3>3. QED
      BY <3>1, <3>2
  <2>2. QED
    BY <2>1 DEF PatientInv, AskedOnce
<1>2. ASSUME AllPatient'
      PROVE  AllPatient
  BY <1>2 DEF AllPatient, Patient
<1>3. ASSUME AllPatient'
      PROVE  /\ OwnAnswersOnly'
             /\ \A k \in Range(sessions') : clients'[sessionOf'[k].client] = sessionOf'[k].request[1]
  <2>1. /\ OwnAnswersOnly
        /\ \A k \in Range(sessions) : clients[sessionOf[k].client] = sessionOf[k].request[1]
    BY <1>2, <1>3 DEF PatientInv, PatientAnswersAreOwn, AllPatient
  <2>2. OwnAnswersOnly'
    BY <1>2, <1>3, <2>1 DEF OwnAnswersOnly
  <2>3. QED
    BY <1>2, <1>3, <2>1, <2>2
<1>4. QED
  BY <1>1, <1>3 DEF PatientInv, PatientAnswersAreOwn, AllPatient

\* What is sent is counted, and never uncounted.
LEMMA CountersGrow ==
  ASSUME IInv, IInv', [Next]_vars
  PROVE  /\ \A c \in Conns : sent'[c] >= sent[c] /\ popped'[c] >= popped[c]
         /\ \A c \in Conns : sent[c] \in Nat /\ sent'[c] \in Nat /\ popped[c] \in Nat /\ popped'[c] \in Nat
<1>1. /\ sent \in [Conns -> 0..MaxRequests] /\ sent' \in [Conns -> 0..MaxRequests]
      /\ popped \in [Conns -> 0..MaxRequests] /\ popped' \in [Conns -> 0..MaxRequests]
      /\ MaxRequests \in Nat
  BY ConfigAssumption DEF IInv, TypeOK
<1>2. \A c \in Conns : /\ sent[c] \in Nat /\ sent'[c] \in Nat
                       /\ popped[c] \in Nat /\ popped'[c] \in Nat
  BY <1>1
<1> DEFINE Grows == /\ sent' = sent \/ \E c \in Conns : sent' = [sent EXCEPT ![c] = @ + 1]
                    /\ popped' = popped \/ \E c \in Conns : popped' = [popped EXCEPT ![c] = @ + 1]
<1>3. Grows
  <2>1. CASE HandleEvent
    <3>1. ASSUME NEW e, NEW c \in Conns, NEW n, ReceiveRequest(e, c, n) PROVE Grows
      BY <3>1 DEF ReceiveRequest
    <3>2. ASSUME NEW e, NEW c \in Conns,
                 \/ ReceiveFails(e, c) \/ ReceivePart(e, c) \/ ReceiveEnd(e, c)
                 \/ FlushAll(e, c) \/ FlushPart(e, c) \/ FlushFails(e, c)
          PROVE  sent' = sent /\ popped' = popped
      BY <3>2 DEF ReceiveFails, ReceivePart, ReceiveEnd, FlushAll, FlushPart, FlushFails, peerVars
    <3>3. ASSUME NEW e, NEW c \in Conns, NEW n, NEW k, NEW body,
                 AnswerDirectly(e, c, n) \/ StartCgi(e, c, n, k, body)
          PROVE  Grows
      BY <3>1, <3>3 DEF AnswerDirectly, StartCgi
    <3>4. ASSUME NEW e, NEW k,
                 \/ CgiBodySent(e, k) \/ CgiBodyPending(e, k)
                 \/ CgiOutputEnds(e, k) \/ CgiEventIgnored(e, k)
          PROVE  sent' = sent /\ popped' = popped
      BY <3>4 DEF CgiBodySent, CgiBodyPending, CgiOutputEnds, CgiEventIgnored, peerVars
    <3>5. ASSUME NEW e, NEW l, AcceptNewClients(l) \/ DropEvent(e) \/ IgnoreHangUp(e)
          PROVE  sent' = sent /\ popped' = popped
      BY <3>5 DEF AcceptNewClients, DropEvent, IgnoreHangUp, peerVars
    <3> HIDE DEF Grows
    <3>6. ASSUME sent' = sent /\ popped' = popped
          PROVE  Grows
      BY <3>6 DEF Grows
    <3>7. QED
      BY <2>1, <3>2, <3>3, <3>4, <3>5, <3>6 DEF HandleEvent
  <2>2. CASE EnterWait \/ WaitReturns \/ StopSignal \/ EndBatch \/ ScriptStep \/ UNCHANGED vars
    BY <2>2 DEF EnterWait, WaitReturns, StopSignal, EndBatch, DispatchCgiResponses, ScriptStep, ScriptEnds,
                vars, peerVars
  <2>3. CASE PeerStep
    BY <2>3 DEF PeerStep, Connect, SendRequest, Leave
  <2>4. QED
    BY <2>1, <2>2, <2>3 DEF Next, LoopStep
<1>4. QED
  BY <1>1, <1>2, <1>3

\* Steps that neither serve a number nor answer.
LEMMA QuietPatient ==
  ASSUME IInv, IInv', PatientInv, [Next]_vars,
         UNCHANGED <<clients, sessions, writeBuffer, got>>,
         \A k \in Range(sessions) : /\ sessionOf'[k].client = sessionOf[k].client
                                    /\ sessionOf'[k].request = sessionOf[k].request
  PROVE  PatientInv'
<1>1. \A c \in Conns : AnswersAt(c)' = AnswersAt(c)
  BY DEF AnswersAt
<1>2. QED
  BY <1>1, CountersGrow, PatientKept

\* A pipe end that is closed leaves the session's client and request alone.
LEMMA PipeClosesPatient ==
  ASSUME IInv, IInv', PatientInv, [Next]_vars, NEW e, NEW k \in Scripts,
         CgiBodySent(e, k) \/ CgiOutputEnds(e, k)
  PROVE  PatientInv'
<1>1. UNCHANGED <<clients, sessions, writeBuffer, got>>
  BY DEF CgiBodySent, CgiOutputEnds, managerVars, peerVars
<1>2. \/ sessionOf' = [sessionOf EXCEPT ![k].w = NoFd]
      \/ sessionOf' = [sessionOf EXCEPT ![k].r = NoFd, ![k].finished = TRUE]
  BY DEF CgiBodySent, CgiOutputEnds, WriteEndCloses
<1>3. \A j \in Scripts : /\ sessionOf'[j].client = sessionOf[j].client
                         /\ sessionOf'[j].request = sessionOf[j].request
  <2>1. sessionOf \in [Scripts -> [client : Fds \cup {NoFd}, request : Requests \cup {None},
                                   w : Fds \cup {NoFd}, r : Fds \cup {NoFd}, finished : BOOLEAN]]
    BY DEF IInv, TypeOK
  <2>2. /\ [sessionOf[k] EXCEPT !.w = NoFd].client = sessionOf[k].client
        /\ [sessionOf[k] EXCEPT !.w = NoFd].request = sessionOf[k].request
        /\ [sessionOf[k] EXCEPT !.r = NoFd, !.finished = TRUE].client = sessionOf[k].client
        /\ [sessionOf[k] EXCEPT !.r = NoFd, !.finished = TRUE].request = sessionOf[k].request
    BY <2>1
  <2>3. \/ sessionOf' = [sessionOf EXCEPT ![k] = [sessionOf[k] EXCEPT !.w = NoFd]]
        \/ sessionOf' = [sessionOf EXCEPT ![k] = [sessionOf[k] EXCEPT !.r = NoFd, !.finished = TRUE]]
    BY <1>2, <2>1
  <2>4. QED
    BY <2>1, <2>2, <2>3
<1>4. QED
  BY <1>1, <1>3, ListedScripts, QuietPatient

\* The number of a new client is no listed session's.
LEMMA AcceptPatient ==
  ASSUME IInv, IInv', PatientInv, [Next]_vars, NEW l \in Listeners, AcceptNewClients(l)
  PROVE  PatientInv'
<1>1. UNCHANGED <<sessions, sessionOf, writeBuffer, got>>
  BY DEF AcceptNewClients, cgiVars
<1>2. \A f \in Fds : table[f] # None => clients'[f] = clients[f]
  <2>1. TypeOK
    BY DEF IInv
  <2>2. PICK n \in 0..Len(backlog[l]) : \E at \in [1..n -> Fds] : Accepted(l, n, at)
    BY <2>1, AcceptEffect
  <2>3. QED
    BY <2>2 DEF Accepted
<1>3. ASSUME AllPatient, NEW k \in Range(sessions)
      PROVE  clients'[sessionOf[k].client] = clients[sessionOf[k].client]
  <2>1. clients[sessionOf[k].client] \in Conns /\ sessionOf[k].client \in Fds
    BY <1>3, ListedScripts DEF PatientInv, PatientAnswersAreOwn, AllPatient
  <2>2. table[sessionOf[k].client] # None
    BY <2>1, FilesDiffer DEF IInv, ServedInv, ClientsAreOpen
  <2>3. QED
    BY <1>2, <2>1, <2>2
<1>4. \A c \in Conns : AnswersAt(c)' = AnswersAt(c)
  BY <1>1 DEF AnswersAt
<1>5. QED
  BY <1>1, <1>3, <1>4, CountersGrow, PatientKept

LEMMA AnswerPatient ==
  ASSUME IInv, IInv', PatientInv, [Next]_vars, NEW e, NEW c \in Conns, NEW n, AnswerDirectly(e, c, n)
  PROVE  PatientInv'
<1>1. UNCHANGED <<clients, sessions, sessionOf, got>>
  BY DEF AnswerDirectly, ReceiveRequest, cgiVars
<1>2. /\ writeBuffer \in [Conns -> Seq(Requests)]
      /\ writeBuffer' = [writeBuffer EXCEPT ![c] = Append(writeBuffer[c], <<c, popped[c] + 1>>)]
  BY DEF AnswerDirectly, IInv, TypeOK
<1>3. <<c, popped[c] + 1>> \in Requests
  BY ReceiveRequestEffect DEF AnswerDirectly
<1>4. Range(Append(writeBuffer[c], <<c, popped[c] + 1>>)) = Range(writeBuffer[c]) \cup {<<c, popped[c] + 1>>}
  BY <1>2, <1>3, AppendParts
<1>5. \A d \in Conns : \A a \in AnswersAt(d)' : a \in AnswersAt(d) \/ a[1] = d
  <2>1. \A d \in Conns : d # c => writeBuffer'[d] = writeBuffer[d]
    BY <1>2
  <2>2. writeBuffer'[c] = Append(writeBuffer[c], <<c, popped[c] + 1>>)
    BY <1>2
  <2>3. ASSUME NEW d \in Conns, NEW a \in AnswersAt(d)'
        PROVE  a \in AnswersAt(d) \/ a[1] = d
    <3>1. a \in Range(writeBuffer'[d]) \/ a \in Range(got[d])
      BY <1>1 DEF AnswersAt
    <3>2. a \in Range(writeBuffer'[d]) => a \in Range(writeBuffer[d]) \/ a[1] = d
      <4>1. CASE d = c
        <5>1. a \in Range(writeBuffer'[d]) => a \in Range(writeBuffer[d]) \/ a = <<c, popped[c] + 1>>
          BY <1>4, <2>2, <4>1
        <5>2. QED
          BY <4>1, <5>1
      <4>2. CASE d # c
        BY <2>1, <4>2
      <4>3. QED
        BY <4>1, <4>2
    <3>3. QED
      BY <3>1, <3>2 DEF AnswersAt
  <2>4. QED
    BY <2>3
<1>6. QED
  BY <1>1, <1>5, CountersGrow, PatientKept

\* The one session of a number that is given back is cancelled: with a single
\* request sent there is no second.
LEMMA DisconnectPatient ==
  ASSUME IInv, IInv', PatientInv, [Next]_vars, NEW fd \in Fds, NEW c \in Conns, clients[fd] = c,
         DisconnectClient(fd),
         \A d \in Conns : AnswersAt(d)' \subseteq AnswersAt(d)
  PROVE  PatientInv'
<1> DEFINE K == CancelledFor(fd)
<1>1. /\ K \subseteq Range(sessions) /\ K \subseteq Scripts
      /\ \A k \in K : sessionOf[k].client = fd
      /\ \A k \in Range(sessions) : sessionOf[k].client = fd => K # {}
  BY CancelledIsListed DEF IInv
<1>2. /\ Range(sessions') = Range(sessions) \ K
      /\ \A k \in Scripts \ K : sessionOf'[k] = sessionOf[k]
      /\ \A f \in Fds : f # fd => clients'[f] = clients[f]
  <2>1. sessions' = Only(sessions, Scripts \ K) /\ Forget(K) /\ Unserve(fd)
    BY DEF DisconnectClient
  <2> HIDE DEF K
  <2>2. Range(sessions') = Range(sessions) \cap (Scripts \ K)
    <3>1. sessions \in Seq(Scripts)
      BY DEF IInv, TypeOK
    <3>2. QED
      BY <2>1, <3>1, OnlyKeeps
  <2>3. \A k \in Scripts \ K : sessionOf'[k] = sessionOf[k]
    BY <2>1 DEF Forget
  <2>4. \A f \in Fds : f # fd => clients'[f] = clients[f]
    BY <2>1 DEF Unserve, IInv, TypeOK
  <2>5. QED
    BY <2>2, <2>3, <2>4, ListedScripts
<1> HIDE DEF K
<1>3. ASSUME AllPatient, NEW k \in Range(sessions), sessionOf[k].client = fd
      PROVE  sessionOf[k].request = <<c, 1>>
  <2>1. sessionOf[k].request[1] = c
    BY <1>3 DEF PatientInv, PatientAnswersAreOwn, AllPatient
  <2>2. sessionOf[k].request \in Requests
    BY ListedScripts
  <2>3. sessionOf[k].request[2] \in Nat /\ sessionOf[k].request[2] >= 1
    BY <2>2, ConfigAssumption DEF Requests
  <2>4. sessionOf[k].request[2] <= popped[c]
    BY <2>1 DEF PatientInv, AskedOnce
  <2>5. /\ popped[c] \in Nat /\ inbox[c] \in Nat /\ sent[c] \in Nat
        /\ inbox[c] + popped[c] <= sent[c] /\ sent[c] <= 1
    BY <1>3, ConfigAssumption DEF IInv, TypeOK, RequestInv, AllPatient, Patient
  <2>6. sessionOf[k].request[2] = 1
    BY <2>3, <2>4, <2>5
  <2>7. QED
    BY <2>1, <2>2, <2>6 DEF Requests
<1>4. ASSUME AllPatient, NEW k \in Range(sessions')
      PROVE  sessionOf[k].client # fd
  <2>1. SUFFICES ASSUME sessionOf[k].client = fd PROVE FALSE
    OBVIOUS
  <2>2. k \in Range(sessions) /\ k \notin K
    BY <1>2
  <2>3. PICK j \in K : TRUE
    BY <1>1, <2>1, <2>2
  <2>4. j \in Range(sessions) /\ sessionOf[j].client = fd
    BY <1>1
  <2>5. sessionOf[j].request = sessionOf[k].request
    BY <1>3, <1>4, <2>1, <2>2, <2>4
  <2>6. j = k
    BY <2>2, <2>4, <2>5 DEF PatientInv, AskedOnce
  <2>7. QED
    BY <2>2, <2>6
<1>5. \A k \in Range(sessions') : sessionOf'[k] = sessionOf[k] /\ sessionOf[k].client \in Fds
  BY <1>2, ListedScripts
<1>6. Range(sessions') \subseteq Range(sessions)
  BY <1>2
<1>7. ASSUME AllPatient, NEW k \in Range(sessions')
      PROVE  clients'[sessionOf[k].client] = clients[sessionOf[k].client]
  BY <1>2, <1>4, <1>5, <1>7
<1>8. QED
  BY <1>5, <1>6, <1>7, CountersGrow, PatientKept

\* What is flushed moves from the buffer to the peer.
LEMMA ClosesPatient ==
  ASSUME IInv, IInv', PatientInv, [Next]_vars, NEW e, NEW c \in Conns,
         ReceiveEnd(e, c) \/ FlushAll(e, c) \/ FlushPart(e, c)
  PROVE  PatientInv'
<1>1. e.fd \in Fds /\ clients[e.fd] = c /\ DisconnectClient(e.fd)
  BY DEF ReceiveEnd, FlushAll, FlushPart, Reads, Writes, ForClient, Registrations
<1>2. ASSUME NEW d \in Conns PROVE AnswersAt(d)' \subseteq AnswersAt(d)
  <2>1. CASE FlushAll(e, c)
    <3>1. writeBuffer \in [Conns -> Seq(Requests)] /\ got \in [Conns -> Seq(Requests)]
      BY DEF IInv, TypeOK
    <3>2. /\ got' = [got EXCEPT ![c] = got[c] \o writeBuffer[c]]
          /\ writeBuffer' = [writeBuffer EXCEPT ![c] = <<>>]
      BY <2>1 DEF FlushAll
    <3>3. CASE d = c
      <4>1. Range(got[c] \o writeBuffer[c]) = Range(got[c]) \cup Range(writeBuffer[c])
        BY <3>1, ConcatParts
      <4>2. got'[d] = got[c] \o writeBuffer[c] /\ writeBuffer'[d] = <<>>
        BY <3>1, <3>2, <3>3
      <4>3. Range(<<>>) = {}
        BY DEF Range
      <4>4. QED
        BY <3>3, <4>1, <4>2, <4>3 DEF AnswersAt
    <3>4. CASE d # c
      BY <3>1, <3>2, <3>4 DEF AnswersAt
    <3>5. QED
      BY <3>3, <3>4
  <2>2. CASE ReceiveEnd(e, c) \/ FlushPart(e, c)
    BY <2>2 DEF ReceiveEnd, FlushPart, AnswersAt
  <2>3. QED
    BY <2>1, <2>2
<1>3. QED
  BY <1>1, <1>2, DisconnectPatient

\* The answer of a collected script goes to the client its number serves.
LEMMA DispatchPatient ==
  ASSUME IInv, IInv', PatientInv, [Next]_vars, NEW E \in SUBSET Scripts, DispatchCgiResponses(E)
  PROVE  PatientInv'
<1>1. /\ Range(sessions') = Range(sessions) \ E /\ E \subseteq Range(sessions)
      /\ \A k \in Scripts \ E : sessionOf'[k] = sessionOf[k]
      /\ \A d \in Conns : \A a \in Range(writeBuffer'[d]) :
           \/ a \in Range(writeBuffer[d])
           \/ \E k \in E : clients[sessionOf[k].client] = d /\ a = sessionOf[k].request
  BY DispatchEffect
<1>2. UNCHANGED <<clients, got>>
  BY DEF DispatchCgiResponses, peerVars
<1>3. ASSUME AllPatient, NEW d \in Conns, NEW a \in AnswersAt(d)'
      PROVE  a \in AnswersAt(d) \/ a[1] = d
  <2>1. \A k \in E : clients[sessionOf[k].client] = sessionOf[k].request[1]
    BY <1>1, <1>3 DEF PatientInv, PatientAnswersAreOwn, AllPatient
  <2>2. a \in Range(writeBuffer'[d]) \/ a \in Range(got[d])
    BY <1>2 DEF AnswersAt
  <2>3. QED
    BY <1>1, <2>1, <2>2 DEF AnswersAt
<1>4. \A k \in Range(sessions') : sessionOf'[k] = sessionOf[k]
  BY <1>1, ListedScripts
<1>5. Range(sessions') \subseteq Range(sessions)
  BY <1>1
<1>6. QED
  BY <1>2, <1>3, <1>4, <1>5, CountersGrow, PatientKept

\* A new script is for a request that no session has.
LEMMA StartCgiPatient ==
  ASSUME IInv, IInv', PatientInv, [Next]_vars, NEW e, NEW c \in Conns, NEW n, NEW k \in Scripts,
         NEW body, StartCgi(e, c, n, k, body)
  PROVE  PatientInv'
<1>1. /\ clients[e.fd] = c /\ popped[c] \in Nat
      /\ \A d \in Conns : popped'[d] = IF d = c THEN popped[c] + 1 ELSE popped[d]
  <2>1. ReceiveRequest(e, c, n)
    BY DEF StartCgi
  <2>2. popped[c] \in Nat
    BY ConfigAssumption DEF IInv, TypeOK
  <2>3. QED
    BY <2>1, <2>2, ReceiveRequestEffect
<1>2. UNCHANGED <<clients, writeBuffer, got, sent>>
  BY DEF StartCgi, ReceiveRequest
<1>3. k \notin Range(sessions) /\ Range(sessions') = Range(sessions) \cup {k}
  <2>1. sessions \in Seq(Scripts) /\ sessions' = Append(sessions, k)
    BY DEF StartCgi, IInv, TypeOK
  <2>2. Range(sessions') = Range(sessions) \cup {k}
    BY <2>1, AppendParts
  <2>3. QED
    BY <2>2 DEF StartCgi, IInv, SessionInv
<1>4. /\ sessionOf'[k].client = e.fd /\ sessionOf'[k].request = <<c, popped[c] + 1>>
      /\ \A j \in Range(sessions) : sessionOf'[j] = sessionOf[j]
  <2> DEFINE ofK == [client |-> e.fd, request |-> <<c, popped[c] + 1>>,
                     w |-> IF body THEN NthFree(table, 2) ELSE NoFd, r |-> NthFree(table, 3),
                     finished |-> FALSE]
  <2>1. sessionOf' = [sessionOf EXCEPT ![k] = ofK]
    BY DEF StartCgi
  <2>2. ofK.client = e.fd /\ ofK.request = <<c, popped[c] + 1>>
    OBVIOUS
  <2> HIDE DEF ofK
  <2>3. QED
    BY <1>3, <2>1, <2>2, ListedScripts, SMTT(30) DEF IInv, TypeOK
<1>5. \A j \in Range(sessions) : /\ sessionOf[j].request[2] <= popped[sessionOf[j].request[1]]
                                 /\ sessionOf[j].request[1] \in Conns
                                 /\ sessionOf[j].request[2] \in Nat
  BY ListedScripts, ConfigAssumption DEF PatientInv, AskedOnce, Requests
<1>6. \A j \in Range(sessions) : sessionOf[j].request # <<c, popped[c] + 1>>
  BY <1>1, <1>5
<1>7. AskedOnce'
  <2>1. ASSUME NEW j \in Range(sessions)
        PROVE  sessionOf[j].request[2] <= popped'[sessionOf[j].request[1]]
    <3>1. popped[sessionOf[j].request[1]] \in Nat
      BY <1>5, ConfigAssumption, SMTT(30) DEF IInv, TypeOK
    <3>2. QED
      BY <1>1, <1>5, <3>1
  <2>2. sessionOf'[k].request[2] <= popped'[sessionOf'[k].request[1]]
    BY <1>1, <1>4
  <2>3. ASSUME NEW i \in Range(sessions'), NEW j \in Range(sessions'),
               sessionOf'[j].request = sessionOf'[i].request
        PROVE  j = i
    <3>1. CASE i = k /\ j = k
      BY <3>1
    <3>2. CASE i # k /\ j # k
      BY <1>3, <1>4, <2>3, <3>2 DEF PatientInv, AskedOnce
    <3>3. CASE i = k /\ j # k
      BY <1>3, <1>4, <1>6, <2>3, <3>3
    <3>4. CASE i # k /\ j = k
      BY <1>3, <1>4, <1>6, <2>3, <3>4
    <3>5. QED
      BY <3>1, <3>2, <3>3, <3>4
  <2>4. \A j \in Range(sessions') : sessionOf'[j].request[2] <= popped'[sessionOf'[j].request[1]]
    BY <1>3, <1>4, <2>1, <2>2
  <2>5. QED
    BY <2>3, <2>4 DEF AskedOnce
<1>8. ASSUME AllPatient'
      PROVE  /\ OwnAnswersOnly'
             /\ \A j \in Range(sessions') : clients'[sessionOf'[j].client] = sessionOf'[j].request[1]
  <2>1. AllPatient
    BY <1>2, <1>8 DEF AllPatient, Patient
  <2>2. /\ OwnAnswersOnly
        /\ \A j \in Range(sessions) : clients[sessionOf[j].client] = sessionOf[j].request[1]
    BY <2>1 DEF PatientInv, PatientAnswersAreOwn, AllPatient
  <2>3. OwnAnswersOnly'
    BY <1>2, <2>2 DEF OwnAnswersOnly, AnswersAt
  <2>4. clients'[sessionOf'[k].client] = sessionOf'[k].request[1]
    BY <1>1, <1>2, <1>4
  <2>5. QED
    BY <1>2, <1>3, <1>4, <2>2, <2>3, <2>4
<1>9. QED
  BY <1>7, <1>8 DEF PatientInv, PatientAnswersAreOwn, AllPatient

LEMMA NextPatientInv == IInv /\ IInv' /\ PatientInv /\ [Next]_vars => PatientInv'
<1> SUFFICES ASSUME IInv, IInv', PatientInv, [Next]_vars PROVE PatientInv'
  OBVIOUS
<1>1. ASSUME UNCHANGED <<clients, sessions, sessionOf, writeBuffer, got>>
      PROVE  PatientInv'
  BY <1>1, QuietPatient
<1>2. CASE EnterWait \/ WaitReturns \/ StopSignal \/ PeerStep \/ ScriptStep \/ UNCHANGED vars
  BY <1>1, <1>2 DEF EnterWait, WaitReturns, StopSignal, PeerStep, Connect, SendRequest, Leave,
                    ScriptStep, ScriptEnds, vars, managerVars, cgiVars, peerVars
<1>3. CASE HandleEvent
  <2>1. CASE \E l \in Listeners : AcceptNewClients(l)
    BY <2>1, AcceptPatient
  <2>2. ASSUME NEW e \in batch, NEW c \in Conns,
               ReceiveFails(e, c) \/ ReceivePart(e, c) \/ FlushFails(e, c)
        PROVE  PatientInv'
    BY <1>1, <2>2 DEF ReceiveFails, ReceivePart, FlushFails, managerVars, cgiVars, peerVars
  <2>3. CASE \E e \in batch : DropEvent(e) \/ IgnoreHangUp(e)
    BY <1>1, <2>3 DEF DropEvent, IgnoreHangUp, managerVars, cgiVars, peerVars
  <2>4. ASSUME NEW e \in batch, NEW c \in Conns,
               ReceiveEnd(e, c) \/ FlushAll(e, c) \/ FlushPart(e, c)
        PROVE  PatientInv'
    BY <2>4, ClosesPatient
  <2>5. ASSUME NEW e \in batch, NEW c \in Conns, NEW n \in 0..MaxRequests, AnswerDirectly(e, c, n)
        PROVE  PatientInv'
    BY <2>5, AnswerPatient
  <2>6. ASSUME NEW e \in batch, NEW c \in Conns, NEW n \in 0..MaxRequests, NEW k \in Scripts,
               NEW body \in {FALSE, BodyAllowed}, StartCgi(e, c, n, k, body)
        PROVE  PatientInv'
    BY <2>6, StartCgiPatient
  <2>7. ASSUME NEW e \in batch, NEW k \in Scripts, CgiBodySent(e, k) \/ CgiOutputEnds(e, k)
        PROVE  PatientInv'
    BY <2>7, PipeClosesPatient
  <2>8. ASSUME NEW e \in batch, NEW k \in Scripts, CgiBodyPending(e, k) \/ CgiEventIgnored(e, k)
        PROVE  PatientInv'
    BY <1>1, <2>8 DEF CgiBodyPending, CgiEventIgnored, managerVars, cgiVars, peerVars
  <2>9. QED
    BY <1>3, <2>1, <2>2, <2>3, <2>4, <2>5, <2>6, <2>7, <2>8 DEF HandleEvent
<1>4. CASE EndBatch
  BY <1>4, DispatchPatient DEF EndBatch
<1>5. QED
  BY <1>2, <1>3, <1>4 DEF Next, LoopStep

\* While every client sends a single request, no peer is ever sent the answer to
\* another's, however descriptors and scripts are reused in between.
THEOREM SpecPatientAnswersAreOwn == Spec => []PatientAnswersAreOwn
<1>1. IInv /\ [Next]_vars => IInv'
  BY NextIInv
<1>2. Init => PatientInv
  BY InitPatientInv
<1>3. IInv /\ IInv' /\ PatientInv /\ [Next]_vars => PatientInv'
  BY NextPatientInv
<1>4. PatientInv => PatientAnswersAreOwn
  BY DEF PatientInv
<1>5. QED
  BY SpecIInv, <1>1, <1>2, <1>3, <1>4, PTL DEF Spec

-----------------------------------------------------------------------------
(* Why connections are closed.                                                 *)

\* An event that is not handled yet may outlive its registration, but no
\* connection gets one before it is accepted, and one for output, of the socket
\* that its number serves, is there for a response that waits.
OutputIsAwaited ==
  \A r \in regs \cup (batch \cap Registrations), c \in Conns :
    r.ev = "out" /\ r.file = ConnFile(c) /\ clients[r.fd] = c => writeBuffer[c] # <<>>

EventsAreOfAccepted ==
  \A r \in batch \cap Registrations, c \in Conns :
    r.file = ConnFile(c) => stage[c] \notin {"new", "queued"}

ReasonInv == OutputIsAwaited /\ EventsAreOfAccepted

LEMMA InitReasonInv == Init => ReasonInv
BY DEF Init, ReasonInv, OutputIsAwaited, EventsAreOfAccepted

\* A registered socket is the one its number serves, and open.
LEMMA RegisteredIsServed ==
  ASSUME IInv, NEW r \in regs, NEW c \in Conns, r.file = ConnFile(c)
  PROVE  r.fd \in Fds /\ clients[r.fd] = c /\ stage[c] = "open"
<1>1. r.fd \in Fds
  BY DEF IInv, TypeOK, Registrations
<1>2. clients[r.fd] = c /\ c # None
  BY <1>1, FilesDiffer DEF IInv, ServedInv, ClientsAreOpen
<1>3. QED
  BY <1>1, <1>2 DEF IInv, ServedInv

LEMMA NoAcceptIsRegistered == \A l \in Listeners : [accept |-> l] \notin Registrations
<1>1. ASSUME NEW l \in Listeners, [accept |-> l] \in Registrations PROVE FALSE
  <2>1. DOMAIN [accept |-> l] = {"fd", "file", "ev"}
    BY <1>1 DEF Registrations
  <2>2. QED
    BY <2>1
<1>2. QED
  BY <1>1

\* Steps that arm no socket, serve no new client and keep what waits for those
\* that stay.
LEMMA QuietReason ==
  ASSUME IInv, ReasonInv, batch' \subseteq batch,
         \A r \in regs', c \in Conns : r.ev = "out" /\ r.file = ConnFile(c) => r \in regs,
         \A f \in Fds, c \in Conns : clients'[f] = c =>
           clients[f] = c /\ (writeBuffer[c] # <<>> => writeBuffer'[c] # <<>>),
         \A c \in Conns : stage'[c] \in {"new", "queued"} => stage[c] \in {"new", "queued"}
  PROVE  ReasonInv'
<1>1. ASSUME NEW r \in regs' \cup (batch' \cap Registrations), NEW c \in Conns,
             r.ev = "out", r.file = ConnFile(c), clients'[r.fd] = c
      PROVE  writeBuffer'[c] # <<>>
  <2>1. r \in regs \cup (batch \cap Registrations)
    BY <1>1
  <2>2. r.fd \in Fds
    BY <2>1 DEF IInv, TypeOK, Registrations
  <2>3. QED
    BY <1>1, <2>1, <2>2 DEF ReasonInv, OutputIsAwaited
<1>2. OutputIsAwaited'
  BY <1>1 DEF OutputIsAwaited
<1>3. EventsAreOfAccepted'
  BY DEF ReasonInv, EventsAreOfAccepted
<1>4. QED
  BY <1>2, <1>3 DEF ReasonInv

\* Steps that leave the clients and their responses alone.
LEMMA IdleReason ==
  ASSUME IInv, ReasonInv, batch' \subseteq batch, UNCHANGED <<clients, writeBuffer, stage>>,
         \A r \in regs', c \in Conns : r.ev = "out" /\ r.file = ConnFile(c) => r \in regs
  PROVE  ReasonInv'
BY QuietReason

LEMMA WaitReason ==
  ASSUME IInv, ReasonInv, WaitReturns
  PROVE  ReasonInv'
<1>1. UNCHANGED <<regs, clients, writeBuffer, stage>> /\ batch' \cap Registrations \subseteq regs
  BY NoAcceptIsRegistered DEF WaitReturns, ReadyEvents, kernelVars, managerVars, peerVars
<1>2. OutputIsAwaited'
  BY <1>1 DEF ReasonInv, OutputIsAwaited
<1>3. EventsAreOfAccepted'
  BY <1>1, RegisteredIsServed DEF EventsAreOfAccepted
<1>4. QED
  BY <1>2, <1>3 DEF ReasonInv

\* Connections are registered for input, and none has an event from before.
LEMMA AcceptReason ==
  ASSUME IInv, ReasonInv, NEW l \in Listeners, AcceptNewClients(l)
  PROVE  ReasonInv'
<1> DEFINE q == backlog[l]
<1> TypeOK /\ BacklogInv
  BY DEF IInv
<1>1. UNCHANGED writeBuffer /\ batch' \subseteq batch
  BY DEF AcceptNewClients, Takes
<1>2. PICK n \in 0..Len(q) : \E at \in [1..n -> Fds] : Accepted(l, n, at)
  BY AcceptEffect
<1>3. PICK at \in [1..n -> Fds] : Accepted(l, n, at)
  BY <1>2
<1>4. /\ \A i \in 1..n : clients'[at[i]] = q[i]
      /\ \A f \in Fds : (\A i \in 1..n : at[i] # f) => clients'[f] = clients[f]
      /\ regs' = regs \cup {[fd |-> at[i], file |-> ConnFile(q[i]), ev |-> "in"] : i \in 1..n}
      /\ \A c \in Conns : stage'[c] = IF \E i \in 1..n : q[i] = c THEN "open" ELSE stage[c]
  BY <1>3 DEF Accepted
<1>5. \A i \in 1..n : q[i] \in Conns /\ stage[q[i]] = "queued"
  <2>1. q \in Seq(Conns) /\ Len(q) \in Nat
    BY DEF TypeOK
  <2>2. \A i \in 1..n : i \in 1..Len(q)
    BY <2>1
  <2>3. QED
    BY <2>1, <2>2 DEF BacklogInv
<1> HIDE DEF q
<1>6. ASSUME NEW r \in regs' \cup (batch' \cap Registrations), NEW c \in Conns,
             r.ev = "out", r.file = ConnFile(c), clients'[r.fd] = c
      PROVE  writeBuffer'[c] # <<>>
  <2>1. r \in regs \cup (batch \cap Registrations)
    BY <1>1, <1>4, <1>6
  <2>2. r.fd \in Fds
    BY <2>1 DEF TypeOK, Registrations
  <2>3. stage[c] # "queued"
    BY <1>6, <2>1, RegisteredIsServed DEF ReasonInv, EventsAreOfAccepted
  <2>4. clients[r.fd] = c
    BY <1>4, <1>5, <1>6, <2>2, <2>3
  <2>5. QED
    BY <1>1, <1>6, <2>1, <2>4 DEF ReasonInv, OutputIsAwaited
<1>7. OutputIsAwaited'
  BY <1>6 DEF OutputIsAwaited
<1>8. EventsAreOfAccepted'
  BY <1>1, <1>4 DEF ReasonInv, EventsAreOfAccepted
<1>9. QED
  BY <1>7, <1>8 DEF ReasonInv

\* What is armed is the client's own socket, and its response is queued.
LEMMA AnswerReason ==
  ASSUME IInv, ReasonInv, NEW e, NEW c \in Conns, NEW n, AnswerDirectly(e, c, n)
  PROVE  ReasonInv'
<1> TypeOK
  BY DEF IInv
<1>1. UNCHANGED <<clients, stage>> /\ batch' \subseteq batch /\ clients[e.fd] = c
  BY DEF AnswerDirectly, ReceiveRequest, Reads, ForClient, Takes
<1>2. /\ \A d \in Conns : writeBuffer[d] # <<>> => writeBuffer'[d] # <<>>
      /\ writeBuffer'[c] # <<>>
  <2>1. writeBuffer' = [writeBuffer EXCEPT ![c] = Append(writeBuffer[c], <<c, popped[c] + 1>>)]
    BY DEF AnswerDirectly
  <2>2. <<c, popped[c] + 1>> \in Requests
    BY ReceiveRequestEffect DEF AnswerDirectly
  <2>3. Append(writeBuffer[c], <<c, popped[c] + 1>>) # <<>>
    <3>1. writeBuffer[c] \in Seq(Requests)
      BY DEF TypeOK
    <3>2. QED
      BY <2>2, <3>1, AppendProperties
  <2>4. QED
    BY <2>1, <2>3 DEF TypeOK
<1>3. \A r \in regs' : r \in regs \/ r.fd = e.fd
  <2> DEFINE arm(r) == IF r.fd = e.fd /\ r.file = table[r.fd] THEN [r EXCEPT !.ev = "out"] ELSE r
  <2>1. regs' = {arm(r) : r \in regs}
    BY DEF AnswerDirectly, Armed, ModifyFds
  <2>2. ASSUME NEW r \in regs PROVE arm(r) = r \/ arm(r).fd = e.fd
    BY DEF TypeOK, Registrations
  <2> HIDE DEF arm
  <2>3. QED
    BY <2>1, <2>2
<1>4. OutputIsAwaited'
  BY <1>1, <1>2, <1>3 DEF ReasonInv, OutputIsAwaited
<1>5. EventsAreOfAccepted'
  BY <1>1 DEF ReasonInv, EventsAreOfAccepted
<1>6. QED
  BY <1>4, <1>5 DEF ReasonInv

\* The clients that stay keep what waits for them.
LEMMA CloseReason ==
  ASSUME IInv, ReasonInv, NEW e, NEW c \in Conns,
         ReceiveEnd(e, c) \/ FlushAll(e, c) \/ FlushPart(e, c)
  PROVE  ReasonInv'
<1> TypeOK /\ ServedInv
  BY DEF IInv
<1>1. e.fd \in Fds /\ clients[e.fd] = c /\ DisconnectClient(e.fd) /\ batch' \subseteq batch
  BY DEF ReceiveEnd, FlushAll, FlushPart, Reads, Writes, ForClient, Takes, Registrations
<1>2. /\ regs' \subseteq regs /\ stage' = [stage EXCEPT ![c] = "closed"]
      /\ \A f \in Fds : clients'[f] = IF f = e.fd THEN None ELSE clients[f]
  <2>1. /\ Unserve(e.fd) /\ stage' = [stage EXCEPT ![c] = "closed"]
        /\ \E gone : Release(gone, gone)
    BY <1>1 DEF DisconnectClient
  <2>2. regs' \subseteq regs
    BY <2>1, ReleaseEffect
  <2>3. QED
    BY <2>1, <2>2 DEF Unserve, TypeOK
<1>3. \A d \in Conns : d # c => writeBuffer'[d] = writeBuffer[d]
  BY DEF ReceiveEnd, FlushAll, FlushPart, TypeOK
<1>4. ASSUME NEW f \in Fds, NEW d \in Conns, clients'[f] = d
      PROVE  clients[f] = d /\ d # c
  <2>1. d # None /\ f # e.fd /\ clients[f] = d
    BY <1>2, <1>4, FilesDiffer
  <2>2. QED
    BY <1>1, <2>1 DEF ServedInv
<1>5. \A d \in Conns : stage'[d] \in {"new", "queued"} => stage[d] \in {"new", "queued"}
  BY <1>2 DEF TypeOK
<1>6. QED
  BY <1>1, <1>2, <1>3, <1>4, <1>5, QuietReason

\* A new script's pipes are registered, and no socket is armed.
LEMMA StartCgiReason ==
  ASSUME IInv, ReasonInv, NEW e, NEW c \in Conns, NEW n, NEW k \in Scripts, NEW body,
         StartCgi(e, c, n, k, body)
  PROVE  ReasonInv'
<1>1. UNCHANGED <<clients, writeBuffer, stage>> /\ batch' \subseteq batch
  BY DEF StartCgi, ReceiveRequest, Reads, ForClient, Takes
<1>2. \A r \in regs' : r \in regs \/ r.file = ReadEnd(k) \/ r.file = WriteEnd(k)
  <2> DEFINE w == NthFree(table, 2)
             r == NthFree(table, 3)
             withRead == [table EXCEPT ![r] = ReadEnd(k)]
             opened   == IF body THEN [withRead EXCEPT ![w] = WriteEnd(k)] ELSE withRead
             readReg  == AddFd(regs, opened, r, "in")
  <2>1. regs' = IF body THEN AddFd(readReg, opened, w, "out") ELSE readReg
    BY DEF StartCgi
  <2>2. /\ opened[r] = ReadEnd(k) \/ opened[r] = WriteEnd(k)
        /\ body => opened[w] = WriteEnd(k)
    <3>1. w \in Fds /\ r \in Fds
      <4>1. Cardinality(FreeFds(table)) \in Nat /\ Cardinality(FreeFds(table)) >= 4
        BY FreeNumbers DEF StartCgi
      <4>2. 2 \in 1..Cardinality(FreeFds(table)) /\ 3 \in 1..Cardinality(FreeFds(table))
        BY <4>1
      <4>3. QED
        BY <4>2, FreeNumbers
    <3>2. table \in [Fds -> Files \cup {None}]
      BY DEF IInv, TypeOK
    <3> HIDE DEF w, r
    <3>3. QED
      BY <3>1, <3>2
  <2> HIDE DEF w, r, opened
  <2>3. QED
    BY <2>1, <2>2 DEF AddFd
<1>3. \A s \in regs', d \in Conns : s.file = ConnFile(d) => s \in regs
  BY <1>2, FilesDiffer
<1>4. QED
  BY <1>1, <1>3, IdleReason

\* A client that is armed for its script's answer has that answer queued.
LEMMA DispatchReason ==
  ASSUME IInv, ReasonInv, NEW E \in SUBSET Scripts, DispatchCgiResponses(E)
  PROVE  ReasonInv'
<1> TypeOK
  BY DEF IInv
<1> DEFINE t == CloseFds(table, UNION {PipeFds(k) : k \in E})
           kept == Prune(RemoveFds(regs, table, UNION {PipeFds(k) : k \in {j \in E : sessionOf[j].finished}}),
                         OpenFiles(t) \cup HeldByScripts)
           answered == {k \in E : HasClient(k)}
           S == {sessionOf[k].client : k \in answered}
           to(d) == {k \in E : clients[sessionOf[k].client] = d}
           answer(d) == [i \in DOMAIN Only(sessions, to(d)) |->
                           sessionOf[Only(sessions, to(d))[i]].request]
<1>1. /\ UNCHANGED <<clients, stage>> /\ batch = {} /\ batch' = batch /\ E \subseteq Range(sessions)
      /\ regs' = Armed(kept, t, S)
      /\ \A d \in Conns : writeBuffer'[d] = writeBuffer[d] \o answer(d)
  BY DEF DispatchCgiResponses, peerVars
<1>2. \A r \in kept : r \in regs
  BY DEF Prune, RemoveFds
<1> HIDE DEF t, kept
<1>3. \A r \in regs' : r \in regs \/ r.fd \in S
  <2> DEFINE arm(r) == IF r.fd \in S /\ r.file = t[r.fd] THEN [r EXCEPT !.ev = "out"] ELSE r
  <2>1. regs' = {arm(r) : r \in kept}
    BY <1>1 DEF Armed, ModifyFds
  <2>2. ASSUME NEW r \in kept PROVE arm(r) = r \/ arm(r).fd \in S
    BY <1>2 DEF TypeOK, Registrations
  <2> HIDE DEF arm, S
  <2>3. QED
    BY <1>2, <2>1, <2>2
<1>4. ASSUME NEW d \in Conns, writeBuffer[d] # <<>> \/ to(d) # {}
      PROVE  writeBuffer'[d] # <<>>
  <2> DEFINE ks == Only(sessions, to(d))
  <2>1. ks \in Seq(Scripts) /\ Range(ks) = Range(sessions) \cap to(d)
    <3>1. sessions \in Seq(Scripts)
      BY DEF TypeOK
    <3> HIDE DEF to
    <3>2. QED
      BY <3>1, OnlyKeeps
  <2>2. answer(d) \in Seq({sessionOf[k].request : k \in Scripts}) /\ Len(answer(d)) = Len(ks)
    BY <2>1
  <2>3. to(d) # {} => Len(ks) # 0
    <3>1. to(d) \subseteq Range(sessions)
      <4>1. to(d) \subseteq E
        OBVIOUS
      <4> HIDE DEF to
      <4>2. QED
        BY <1>1, <4>1, Zenon
    <3> HIDE DEF to, ks
    <3>2. ASSUME to(d) # {} PROVE \E i \in DOMAIN ks : TRUE
      BY <2>1, <3>1, <3>2 DEF Range
    <3>3. DOMAIN ks = 1..Len(ks) /\ Len(ks) \in Nat
      BY <2>1
    <3>4. QED
      BY <3>2, <3>3
  <2> HIDE DEF to, answer, ks
  <2>4. writeBuffer[d] \in Seq(Requests) /\ (writeBuffer[d] # <<>> => Len(writeBuffer[d]) # 0)
    BY EmptySeq DEF TypeOK
  <2>5. Len(writeBuffer[d] \o answer(d)) = Len(writeBuffer[d]) + Len(answer(d))
    BY <2>2, <2>4
  <2>6. Len(writeBuffer[d]) \in Nat /\ Len(answer(d)) \in Nat
    BY <2>2, <2>4
  <2>7. QED
    BY <1>1, <1>4, <2>2, <2>3, <2>4, <2>5, <2>6
<1> HIDE DEF answer
<1>5. ASSUME NEW r \in regs', NEW d \in Conns,
             r.ev = "out", r.file = ConnFile(d), clients[r.fd] = d
      PROVE  writeBuffer'[d] # <<>>
  <2>1. CASE r \in regs
    BY <1>4, <1>5, <2>1 DEF ReasonInv, OutputIsAwaited
  <2>2. CASE r.fd \in S
    BY <1>4, <1>5, <2>2
  <2>3. QED
    BY <1>3, <2>1, <2>2
<1>6. OutputIsAwaited' /\ EventsAreOfAccepted'
  BY <1>1, <1>5 DEF OutputIsAwaited, EventsAreOfAccepted
<1>7. QED
  BY <1>6 DEF ReasonInv
LEMMA HandleReason ==
  ASSUME IInv, ReasonInv, HandleEvent
  PROVE  ReasonInv'
<1>1. CASE \E l \in Listeners : AcceptNewClients(l)
  BY <1>1, AcceptReason
<1>2. ASSUME NEW e, Takes(e), UNCHANGED <<kernelVars, managerVars, peerVars>>
      PROVE  ReasonInv'
  BY <1>2, IdleReason DEF Takes, kernelVars, managerVars, peerVars
<1>3. CASE \E e \in batch : DropEvent(e) \/ IgnoreHangUp(e)
  BY <1>2, <1>3 DEF DropEvent, IgnoreHangUp, ForClient
<1>4. ASSUME NEW e \in batch, NEW c \in Conns,
             ReceiveFails(e, c) \/ ReceivePart(e, c) \/ FlushFails(e, c)
      PROVE  ReasonInv'
  BY <1>2, <1>4 DEF ReceiveFails, ReceivePart, FlushFails, Reads, Writes, ForClient
<1>5. ASSUME NEW e \in batch, NEW c \in Conns, ReceiveEnd(e, c) \/ FlushAll(e, c) \/ FlushPart(e, c)
      PROVE  ReasonInv'
  BY <1>5, CloseReason
<1>6. ASSUME NEW e \in batch, NEW c \in Conns, NEW n \in 0..MaxRequests, AnswerDirectly(e, c, n)
      PROVE  ReasonInv'
  BY <1>6, AnswerReason
<1>7. ASSUME NEW e \in batch, NEW c \in Conns, NEW n \in 0..MaxRequests, NEW k \in Scripts,
             NEW body \in {FALSE, BodyAllowed}, StartCgi(e, c, n, k, body)
      PROVE  ReasonInv'
  BY <1>7, StartCgiReason
<1>8. ASSUME NEW e \in batch, NEW k \in Scripts, CgiBodySent(e, k) \/ CgiOutputEnds(e, k)
      PROVE  ReasonInv'
  <2>1. Release({}, {e.fd}) /\ batch' \subseteq batch /\ UNCHANGED <<clients, writeBuffer, stage>>
    BY <1>8 DEF CgiBodySent, CgiOutputEnds, WriteEndCloses, ToWriteEnd, ToReadEnd, ForScript,
                Takes, managerVars, peerVars
  <2>2. regs' \subseteq regs
    BY <2>1, ReleaseEffect DEF IInv
  <2>3. QED
    BY <2>1, <2>2, IdleReason
<1>9. ASSUME NEW e \in batch, NEW k \in Scripts, CgiBodyPending(e, k) \/ CgiEventIgnored(e, k)
      PROVE  ReasonInv'
  BY <1>2, <1>9 DEF CgiBodyPending, CgiEventIgnored, ToWriteEnd, ForScript
<1>10. QED
  BY <1>1, <1>3, <1>4, <1>5, <1>6, <1>7, <1>8, <1>9 DEF HandleEvent

LEMMA NextReasonInv == IInv /\ ReasonInv /\ [Next]_vars => ReasonInv'
<1> SUFFICES ASSUME IInv, ReasonInv, [Next]_vars PROVE ReasonInv'
  OBVIOUS
<1>1. CASE EnterWait \/ StopSignal \/ UNCHANGED vars
  BY <1>1, IdleReason DEF EnterWait, StopSignal, vars, kernelVars, managerVars, loopVars, peerVars
<1>2. CASE WaitReturns
  BY <1>2, WaitReason
<1>3. CASE HandleEvent
  BY <1>3, HandleReason
<1>4. CASE EndBatch
  BY <1>4, DispatchReason DEF EndBatch
<1>5. CASE PeerStep
  <2>1. UNCHANGED <<regs, clients, writeBuffer, batch>>
    BY <1>5 DEF PeerStep, Connect, SendRequest, Leave, kernelVars, managerVars, loopVars
  <2>2. \A c \in Conns : stage'[c] \in {"new", "queued"} => stage[c] \in {"new", "queued"}
    BY <1>5 DEF PeerStep, Connect, SendRequest, Leave, IInv, TypeOK
  <2>3. QED
    BY <2>1, <2>2, QuietReason
<1>6. CASE ScriptStep
  <2>1. UNCHANGED <<clients, writeBuffer, stage, batch>> /\ regs' \subseteq regs
    BY <1>6 DEF ScriptStep, ScriptEnds, managerVars, loopVars, peerVars, Prune
  <2>2. QED
    BY <2>1, IdleReason
<1>7. QED
  BY <1>1, <1>2, <1>3, <1>4, <1>5, <1>6 DEF Next, LoopStep

\* What ClosedForAReason says of one step.
HangUpStep ==
  \A c \in Conns : stage[c] = "open" /\ stage'[c] = "closed" =>
    \/ peer[c] # "talking" \/ got'[c] # <<>> \/ cut'[c]
    \/ \E e \in (batch \ batch') \cap Registrations : e.ev = "out" /\ e.file # ConnFile(c)

LEMMA CloseIsExplained ==
  ASSUME IInv, ReasonInv, NEW e \in batch, NEW d \in Conns,
         ReceiveEnd(e, d) \/ FlushAll(e, d) \/ FlushPart(e, d)
  PROVE  HangUpStep
<1> TypeOK
  BY DEF IInv
<1>1. /\ e \in Registrations /\ e \in batch \ batch' /\ clients[e.fd] = d /\ DisconnectClient(e.fd)
  BY DEF ReceiveEnd, FlushAll, FlushPart, Reads, Writes, ForClient, Takes
<1>2. ASSUME NEW c \in Conns, stage[c] = "open", stage'[c] = "closed" PROVE c = d
  BY <1>1, <1>2 DEF DisconnectClient, TypeOK
<1>3. CASE ReceiveEnd(e, d)
  BY <1>2, <1>3 DEF ReceiveEnd, HangUpStep
<1>4. CASE FlushPart(e, d)
  BY <1>2, <1>4 DEF FlushPart, HangUpStep, TypeOK
<1>5. CASE FlushAll(e, d) /\ e.file # ConnFile(d)
  <2>1. e.ev = "out"
    BY <1>5 DEF FlushAll, Writes
  <2>2. QED
    BY <1>1, <1>2, <1>5, <2>1 DEF HangUpStep
<1>6. CASE FlushAll(e, d) /\ e.file = ConnFile(d)
  <2>1. writeBuffer[d] # <<>>
    BY <1>1, <1>6 DEF ReasonInv, OutputIsAwaited, FlushAll, Writes
  <2>2. writeBuffer[d] \in Seq(Requests) /\ got[d] \in Seq(Requests)
    BY DEF TypeOK
  <2>3. /\ Len(got[d] \o writeBuffer[d]) = Len(got[d]) + Len(writeBuffer[d])
        /\ Len(writeBuffer[d]) > 0 /\ Len(got[d]) \in Nat /\ Len(writeBuffer[d]) \in Nat
    BY <2>1, <2>2, EmptySeq, ConcatProperties
  <2>4. got[d] \o writeBuffer[d] # <<>>
    BY <2>3
  <2>5. got'[d] # <<>>
    BY <1>6, <2>4 DEF FlushAll, TypeOK
  <2>6. QED
    BY <1>2, <2>5 DEF HangUpStep
<1>7. QED
  BY <1>3, <1>4, <1>5, <1>6

\* No other step closes a connection.
LEMMA NextIsExplained == IInv /\ ReasonInv /\ [Next]_vars => [HangUpStep]_vars
<1> SUFFICES ASSUME IInv, ReasonInv, Next PROVE HangUpStep
  OBVIOUS
<1>1. ASSUME \A c \in Conns : stage[c] = "open" => stage'[c] # "closed" PROVE HangUpStep
  BY <1>1 DEF HangUpStep
<1>2. CASE EnterWait \/ WaitReturns \/ StopSignal \/ EndBatch \/ ScriptStep
  BY <1>1, <1>2 DEF EnterWait, WaitReturns, StopSignal, EndBatch, DispatchCgiResponses, ScriptStep,
                    ScriptEnds, peerVars
<1>3. CASE PeerStep
  BY <1>1, <1>3 DEF PeerStep, Connect, SendRequest, Leave, IInv, TypeOK
<1>4. CASE HandleEvent
  <2>1. ASSUME NEW l \in Listeners, AcceptNewClients(l) PROVE HangUpStep
    <3>1. \A c \in Conns : stage'[c] = "open" \/ stage'[c] = stage[c]
      BY <2>1 DEF AcceptNewClients
    <3>2. QED
      BY <1>1, <3>1
  <2>2. ASSUME NEW e \in batch, NEW c \in Conns,
               ReceiveEnd(e, c) \/ FlushAll(e, c) \/ FlushPart(e, c)
        PROVE  HangUpStep
    BY <2>2, CloseIsExplained
  <2>3. ASSUME NEW e \in batch, NEW c \in Conns,
               ReceiveFails(e, c) \/ ReceivePart(e, c) \/ FlushFails(e, c)
        PROVE  stage' = stage
    BY <2>3 DEF ReceiveFails, ReceivePart, FlushFails, peerVars
  <2>4. ASSUME NEW e \in batch, NEW c \in Conns, NEW n, NEW k, NEW body,
               AnswerDirectly(e, c, n) \/ StartCgi(e, c, n, k, body)
        PROVE  stage' = stage
    BY <2>4 DEF AnswerDirectly, StartCgi, ReceiveRequest
  <2>5. ASSUME NEW e \in batch, NEW k \in Scripts,
               \/ CgiBodySent(e, k) \/ CgiBodyPending(e, k)
               \/ CgiOutputEnds(e, k) \/ CgiEventIgnored(e, k)
        PROVE  stage' = stage
    BY <2>5 DEF CgiBodySent, CgiBodyPending, CgiOutputEnds, CgiEventIgnored, peerVars
  <2>6. ASSUME NEW e \in batch, DropEvent(e) \/ IgnoreHangUp(e) PROVE stage' = stage
    BY <2>6 DEF DropEvent, IgnoreHangUp, peerVars
  <2>7. ASSUME stage' = stage PROVE HangUpStep
    BY <1>1, <2>7
  <2> HIDE DEF HangUpStep
  <2>8. QED
    BY <1>4, <2>1, <2>2, <2>3, <2>4, <2>5, <2>6, <2>7 DEF HandleEvent
<1>5. QED
  BY <1>2, <1>3, <1>4 DEF Next, LoopStep

\* The server hangs up only on a peer that left or that was sent a response, in
\* whole or in part, or for an output event of another file under the number of
\* the connection: with scripts and without, whatever is reused.
THEOREM SpecClosedForAReason == Spec => ClosedForAReason
<1>1. Init => ReasonInv
  BY InitReasonInv
<1>2. IInv /\ ReasonInv /\ [Next]_vars => ReasonInv'
  BY NextReasonInv
<1>3. IInv /\ ReasonInv /\ [Next]_vars => [HangUpStep]_vars
  BY NextIsExplained
<1>4. QED
  BY SpecIInv, <1>1, <1>2, <1>3, PTL DEF Spec, ClosedForAReason, HangUpStep
=============================================================================
