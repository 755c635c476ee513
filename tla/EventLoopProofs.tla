-------------------------- MODULE EventLoopProofs --------------------------
(* What TLAPS proves of EventLoop, for every value of its constants. *)
EXTENDS EventLoop, SelectionsProofs

-----------------------------------------------------------------------------
(* The inductive invariant.                                                *)

\* A connection is served under one number, while it is open.
ServedInv ==
  /\ ClientsAreOpen
  /\ \A f \in Fds : clients[f] # None =>
       /\ stage[clients[f]] = "open"
       /\ \A g \in Fds : clients[g] = clients[f] => g = f

\* A connection waits for accept once, at the listener it came to.
BacklogInv ==
  \A l \in Listeners : \A i \in 1..Len(backlog[l]) :
    /\ stage[backlog[l][i]] = "queued" /\ arrived[backlog[l][i]] = l
    /\ \A j \in 1..Len(backlog[l]) : backlog[l][j] = backlog[l][i] => j = i

\* No request is received twice, none before the connection is open, and what an
\* unused number keeps is nothing.
RequestInv ==
  /\ NothingIsInherited
  /\ \A f \in Fds : clients[f] = None => readBuffer[f] = 0
  /\ \A c \in Conns : /\ inbox[c] + popped[c] <= sent[c]
                      /\ stage[c] \in {"new", "queued"} => sent[c] = 0

\* A script's entry is in use exactly while its session is listed, and a script
\* that was never started has none.
SessionInv ==
  /\ PipesAreOwned
  /\ \A k \in Scripts :
       IF k \in Range(sessions)
       THEN sessionOf[k].client \in Fds /\ sessionOf[k].request \in Requests /\ script[k] # "new"
       ELSE sessionOf[k] = NoSession

\* No end of a pipe is registered before its script is started.
RegisteredInv ==
  \A r \in regs, k \in Scripts :
    r.file = WriteEnd(k) \/ r.file = ReadEnd(k) => script[k] # "new"

IInv ==
  /\ TypeOK /\ ServedInv /\ BacklogInv /\ RequestInv /\ SessionInv
  /\ RegisteredInv /\ NeverThrows

-----------------------------------------------------------------------------
(* Files, descriptors and registrations.                                   *)

LEMMA FilesDiffer ==
  /\ \A c \in Conns : /\ ConnFile(c) \in Files /\ ConnFile(c) # None /\ c # None
                      /\ \A d \in Conns : ConnFile(c) = ConnFile(d) => c = d
                      /\ \A k \in Scripts : ConnFile(c) # WriteEnd(k) /\ ConnFile(c) # ReadEnd(k)
  /\ \A k \in Scripts : /\ WriteEnd(k) \in Files /\ WriteEnd(k) # None
                        /\ ReadEnd(k) \in Files /\ ReadEnd(k) # None
                        /\ \A j \in Scripts : /\ WriteEnd(k) # ReadEnd(j)
                                              /\ WriteEnd(k) = WriteEnd(j) => j = k
                                              /\ ReadEnd(k) = ReadEnd(j) => j = k
<1>1. \A c \in Conns : ConnFile(c) \in Files
  BY DEF Files
<1>2. \A k \in Scripts : WriteEnd(k) \in Files /\ ReadEnd(k) \in Files
  BY DEF Files
<1>3. None \notin Conns /\ None \notin Files
  BY NoneAssumption
<1>4. QED
  BY <1>1, <1>2, <1>3 DEF ConnFile, WriteEnd, ReadEnd

LEMMA NoFdIsNone == NoFd \notin Fds /\ Fds \subseteq 0..MaxFd /\ MaxFd \in Nat
BY ConfigAssumption DEF NoFd, Fds

\* What giving descriptors back does: the numbers are free, and the registrations
\* of the others stay when their files do.
LEMMA CloseEffect ==
  ASSUME TypeOK, NEW removed, NEW closed, NEW X
  PROVE  LET t == CloseFds(table, closed)
             R == Prune(RemoveFds(regs, table, removed), OpenFiles(t) \cup X)
         IN /\ t \in [Fds -> Files \cup {None}]
            /\ \A f \in Fds : t[f] = IF f \in closed THEN None ELSE table[f]
            /\ R \subseteq regs
            /\ \A r \in regs : r.fd \notin closed \cup removed /\ r.file = table[r.fd] => r \in R
            /\ \A r \in R : r.fd \in removed => r.file # table[r.fd]
            /\ \A f \in Fds : f \notin closed \cup removed /\ MayModify(regs, table, f)
                                => MayModify(R, t, f)
<1> DEFINE t == CloseFds(table, closed)
           R == Prune(RemoveFds(regs, table, removed), OpenFiles(t) \cup X)
<1>1. table \in [Fds -> Files \cup {None}] /\ regs \subseteq Registrations
  BY DEF TypeOK
<1>2. t = [f \in Fds |-> IF f \in closed THEN None ELSE table[f]]
  BY DEF CloseFds
<1>3. R = {r \in RemoveFds(regs, table, removed) : r.file \in OpenFiles(t) \cup X}
  BY DEF Prune
<1>4. \A r \in regs : r.fd \in Fds /\ r.file \in Files /\ r.file # None
  BY <1>1, NoneAssumption DEF Registrations
<1> HIDE DEF t, R
<1>5. ASSUME NEW r \in regs, r.fd \notin closed \cup removed, r.file = table[r.fd]
      PROVE  r \in R
  <2>1. r \in RemoveFds(regs, table, removed)
    BY <1>5 DEF RemoveFds
  <2>2. t[r.fd] = r.file
    BY <1>2, <1>4, <1>5
  <2>3. r.file \in OpenFiles(t)
    BY <1>4, <2>2 DEF OpenFiles
  <2>4. QED
    BY <1>3, <2>1, <2>3
<1>6. ASSUME NEW f \in Fds, f \notin closed \cup removed, MayModify(regs, table, f)
      PROVE  MayModify(R, t, f)
  <2>1. PICK r \in regs : r.fd = f /\ r.file = table[f]
    BY <1>6 DEF MayModify
  <2>2. r \in R
    BY <1>5, <1>6, <2>1
  <2>3. t[f] = table[f]
    BY <1>2, <1>6
  <2>4. QED
    BY <2>1, <2>2, <2>3 DEF MayModify
<1>7. t \in [Fds -> Files \cup {None}] /\ \A f \in Fds : t[f] = IF f \in closed THEN None ELSE table[f]
  BY <1>1, <1>2
<1>8. R \subseteq regs /\ \A r \in R : r.fd \in removed => r.file # table[r.fd]
  BY <1>3 DEF RemoveFds
<1>9. QED
  BY <1>5, <1>6, <1>7, <1>8 DEF t, R

LEMMA ReleaseEffect ==
  ASSUME TypeOK, NEW removed, NEW closed, Release(removed, closed)
  PROVE  /\ table' \in [Fds -> Files \cup {None}]
         /\ \A f \in Fds : table'[f] = IF f \in closed THEN None ELSE table[f]
         /\ regs' \subseteq regs
         /\ \A r \in regs' : r.fd \in removed => r.file # table[r.fd]
         /\ \A f \in Fds : f \notin closed \cup removed /\ MayModify(regs, table, f)
                             => MayModify(regs', table', f)
<1>1. table' = CloseFds(table, closed)
  BY DEF Release
<1>2. regs' = Prune(RemoveFds(regs, table, removed),
                    OpenFiles(CloseFds(table, closed)) \cup HeldByScripts)
  BY DEF Release
<1>3. QED
  BY <1>1, <1>2, CloseEffect

\* Numbers are handed out among the free ones, each once.
LEMMA FreeNumbers ==
  ASSUME NEW t
  PROVE  /\ Cardinality(FreeFds(t)) \in Nat
         /\ \A i \in 1..Cardinality(FreeFds(t)) :
              /\ NthFree(t, i) \in Fds /\ t[NthFree(t, i)] = None
              /\ \A j \in 1..Cardinality(FreeFds(t)) : NthFree(t, i) = NthFree(t, j) => i = j
<1> DEFINE T == FreeFds(t)
<1>1. T \subseteq 0..MaxFd /\ MaxFd \in Nat
  BY NoFdIsNone DEF FreeFds
<1>2. \A f \in T : f \in Fds /\ t[f] = None
  BY DEF FreeFds
<1> HIDE DEF T
<1>3. Cardinality(T) \in Nat
  BY <1>1, BelowIsFinite, 0 \in Nat
<1>4. \A i \in 1..Cardinality(T) : NthLeast(T, i) \in T
  BY <1>1, NthLeastIsThere
<1>5. \A i, j \in 1..Cardinality(T) : i # j => NthLeast(T, i) # NthLeast(T, j)
  BY <1>1, NthLeastDiffer
<1>6. QED
  BY <1>2, <1>3, <1>4, <1>5 DEF NthFree, T

\* Registrations that are dropped or wait for something else keep RegisteredInv.
LEMMA RegisteredKept ==
  ASSUME RegisteredInv, \A r \in regs' : \E s \in regs : s.file = r.file,
         \A k \in Scripts : script[k] # "new" => script'[k] # "new"
  PROVE  RegisteredInv'
BY DEF RegisteredInv

-----------------------------------------------------------------------------
(* One lemma per kind of step: each shows that IInv is kept.               *)

LEMMA InitIInv == Init => IInv
<1> SUFFICES ASSUME Init PROVE IInv
  OBVIOUS
<1> USE ConfigAssumption, NoneAssumption DEF Init
<1>1. TypeOK
  <2>1. NoSession \in [client : Fds \cup {NoFd}, request : Requests \cup {None},
                        w : Fds \cup {NoFd}, r : Fds \cup {NoFd}, finished : BOOLEAN]
    BY DEF NoSession
  <2>2. 0 \in 0..MaxRequests
    OBVIOUS
  <2>3. sessionOf \in [Scripts -> [client : Fds \cup {NoFd}, request : Requests \cup {None},
                                   w : Fds \cup {NoFd}, r : Fds \cup {NoFd}, finished : BOOLEAN]]
    BY <2>1
  <2>4. /\ table \in [Fds -> Files \cup {None}] /\ regs \subseteq Registrations
        /\ clients \in [Fds -> Conns \cup {None}] /\ clientConfig \in [Fds -> Listeners \cup {None}]
        /\ readBuffer \in [Fds -> 0..MaxRequests]
        /\ server \in {"entering", "blocked", "handling", "stopped", "killed", "threw"}
        /\ batch \subseteq Registrations \cup [accept : Listeners] /\ stop \in BOOLEAN
    BY <2>2
  <2>5. /\ writeBuffer \in [Conns -> Seq(Requests)] /\ got \in [Conns -> Seq(Requests)]
        /\ sessions \in Seq(Scripts) /\ backlog \in [Listeners -> Seq(Conns)]
    OBVIOUS
  <2>6. /\ stage \in [Conns -> {"new", "queued", "open", "closed"}]
        /\ peer \in [Conns -> {"talking", "finished", "reset"}]
        /\ arrived \in [Conns -> Listeners \cup {None}] /\ cut \in [Conns -> BOOLEAN]
        /\ sent \in [Conns -> 0..MaxRequests] /\ inbox \in [Conns -> 0..MaxRequests]
        /\ popped \in [Conns -> 0..MaxRequests]
    BY <2>2
  <2>7. /\ script \in [Scripts -> {"new", "running", "doomed", "dead"}]
        /\ inherited \in [Scripts -> SUBSET Files] /\ eof \in [Scripts -> BOOLEAN]
    OBVIOUS
  <2>8. QED
    BY <2>3, <2>4, <2>5, <2>6, <2>7 DEF TypeOK
<1>2. Range(sessions) = {}
  BY DEF Range
<1>3. ServedInv
  BY FilesDiffer DEF ServedInv, ClientsAreOpen
<1>4. BacklogInv
  BY DEF BacklogInv
<1>5. RequestInv
  BY DEF RequestInv, NothingIsInherited
<1>6. SessionInv
  <2>1. PipesAreOwned
    BY FilesDiffer, NoFdIsNone DEF PipesAreOwned, NoSession
  <2>2. QED
    BY <1>2, <2>1 DEF SessionInv
<1>7. RegisteredInv /\ NeverThrows
  BY DEF RegisteredInv, NeverThrows
<1>8. QED
  BY <1>1, <1>3, <1>4, <1>5, <1>6, <1>7 DEF IInv

\* A step that only moves the loop on.
LEMMA LoopOnly ==
  ASSUME IInv, UNCHANGED <<kernelVars, managerVars, cgiVars, peerVars, scriptVars>>,
         server' \in {"entering", "blocked", "handling", "stopped", "killed"},
         batch' \subseteq Registrations \cup [accept : Listeners], stop' \in BOOLEAN
  PROVE  IInv'
<1> USE DEF IInv, kernelVars, managerVars, cgiVars, peerVars, scriptVars
<1>1. TypeOK'
  BY DEF TypeOK
<1>2. ServedInv'
  BY DEF ServedInv, ClientsAreOpen, MayModify
<1>3. BacklogInv' /\ RequestInv'
  BY DEF BacklogInv, RequestInv, NothingIsInherited
<1>4. SessionInv' /\ RegisteredInv'
  BY DEF SessionInv, PipesAreOwned, MayModify, RegisteredInv
<1>5. QED
  BY <1>1, <1>2, <1>3, <1>4 DEF NeverThrows

\* A handler that leaves everything as it is, and may be ended by SIGPIPE.
LEMMA HandledOnly ==
  ASSUME IInv, NEW e, Takes(e), server' \in {server, "killed"},
         UNCHANGED <<kernelVars, managerVars, cgiVars, peerVars, scriptVars>>
  PROVE  IInv'
<1>1. batch' \subseteq Registrations \cup [accept : Listeners] /\ stop' \in BOOLEAN
  BY DEF Takes, IInv, TypeOK
<1>2. server' \in {"handling", "killed"}
  BY DEF Takes
<1>3. QED
  BY <1>1, <1>2, LoopOnly

LEMMA WaitingIInv ==
  ASSUME IInv, EnterWait \/ WaitReturns \/ StopSignal
  PROVE  IInv'
<1> USE DEF IInv, TypeOK
<1>1. CASE EnterWait
  BY <1>1, LoopOnly DEF EnterWait
<1>2. CASE WaitReturns
  <2>1. ReadyEvents \subseteq Registrations \cup [accept : Listeners]
    BY DEF ReadyEvents
  <2>2. QED
    BY <1>2, <2>1, LoopOnly DEF WaitReturns
<1>3. CASE StopSignal
  BY <1>3, LoopOnly DEF StopSignal
<1>4. QED
  BY <1>1, <1>2, <1>3

LEMMA PeerIInv ==
  ASSUME IInv, PeerStep
  PROVE  IInv'
<1> USE DEF kernelVars, managerVars, cgiVars, loopVars, scriptVars
<1> PICK c \in Conns : (\E l \in Listeners : Connect(c, l)) \/ SendRequest(c) \/ Leave(c)
  BY DEF PeerStep
<1> TypeOK /\ ServedInv /\ BacklogInv /\ RequestInv /\ SessionInv /\ RegisteredInv /\ NeverThrows
  BY DEF IInv
<1>1. ASSUME NEW l \in Listeners, Connect(c, l) PROVE IInv'
  <2> USE <1>1 DEF Connect
  <2>1. TypeOK'
    <3>1. Append(backlog[l], c) \in Seq(Conns)
      BY DEF TypeOK
    <3>2. backlog' \in [Listeners -> Seq(Conns)]
      BY <3>1 DEF TypeOK
    <3>3. stage' \in [Conns -> {"new", "queued", "open", "closed"}]
            /\ arrived' \in [Conns -> Listeners \cup {None}]
      BY DEF TypeOK
    <3>4. QED
      BY <3>2, <3>3 DEF TypeOK
  <2>2. ServedInv'
    BY DEF ServedInv, ClientsAreOpen, MayModify, TypeOK
  <2>3. BacklogInv'
    <3> SUFFICES ASSUME NEW m \in Listeners, NEW i \in 1..Len(backlog'[m])
                 PROVE  /\ stage'[backlog'[m][i]] = "queued" /\ arrived'[backlog'[m][i]] = m
                        /\ \A j \in 1..Len(backlog'[m]) : backlog'[m][j] = backlog'[m][i] => j = i
      BY DEF BacklogInv
    <3>1. \A n \in Listeners : backlog[n] \in Seq(Conns)
      BY DEF TypeOK
    <3>2. \A n \in Listeners : \A j \in 1..Len(backlog[n]) : backlog[n][j] # c /\ backlog[n][j] \in Conns
      BY <3>1 DEF BacklogInv
    <3>3. CASE m # l
      <4>1. backlog'[m] = backlog[m]
        BY <3>3 DEF TypeOK
      <4>2. \A d \in Conns : d # c => stage'[d] = stage[d] /\ arrived'[d] = arrived[d]
        BY DEF TypeOK
      <4>3. \A j \in 1..Len(backlog[m]) : /\ stage'[backlog[m][j]] = "queued"
                                          /\ arrived'[backlog[m][j]] = m
        BY <3>2, <4>2 DEF BacklogInv
      <4>4. \A j \in 1..Len(backlog[m]) : backlog[m][j] = backlog[m][i] => j = i
        BY <4>1 DEF BacklogInv
      <4>5. QED
        BY <4>1, <4>3, <4>4
    <3>4. CASE m = l
      <4>1. backlog'[m] = Append(backlog[m], c)
        BY <3>4 DEF TypeOK
      <4>2. Len(backlog'[m]) = Len(backlog[m]) + 1 /\ backlog'[m][Len(backlog[m]) + 1] = c
        BY <3>1, <4>1
      <4>3. \A j \in 1..Len(backlog[m]) : backlog'[m][j] = backlog[m][j]
        BY <3>1, <4>1
      <4>4. stage'[c] = "queued" /\ arrived'[c] = m
        BY <3>4 DEF TypeOK
      <4>5. \A j \in 1..Len(backlog[m]) : /\ stage'[backlog[m][j]] = "queued"
                                          /\ arrived'[backlog[m][j]] = m
        BY <3>2 DEF BacklogInv, TypeOK
      <4>6. Len(backlog[m]) \in Nat
        BY <3>1
      <4>7. QED
        BY <3>2, <4>2, <4>3, <4>4, <4>5, <4>6 DEF BacklogInv
    <3>5. QED
      BY <3>3, <3>4
  <2>4. RequestInv'
    BY DEF RequestInv, NothingIsInherited, ServedInv, TypeOK
  <2>5. SessionInv' /\ RegisteredInv'
    BY DEF SessionInv, PipesAreOwned, MayModify, RegisteredInv
  <2>6. QED
    BY <2>1, <2>2, <2>3, <2>4, <2>5 DEF IInv, NeverThrows
<1>2. CASE SendRequest(c)
  <2> USE <1>2 DEF SendRequest
  <2> MaxRequests \in Nat
    BY ConfigAssumption
  <2>0. sent[c] \in Nat /\ inbox[c] \in Nat /\ popped[c] \in Nat /\ inbox[c] + popped[c] <= sent[c]
    BY DEF TypeOK, RequestInv
  <2>1. TypeOK'
    <3>1. sent[c] + 1 \in 0..MaxRequests /\ inbox[c] + 1 \in 0..MaxRequests
      BY <2>0
    <3>2. QED
      BY <3>1 DEF TypeOK
  <2>2. ServedInv' /\ BacklogInv'
    BY DEF ServedInv, ClientsAreOpen, MayModify, BacklogInv
  <2>3. RequestInv'
    <3>1. \A d \in Conns : d # c => sent'[d] = sent[d] /\ inbox'[d] = inbox[d]
      BY DEF TypeOK
    <3>2. sent'[c] = sent[c] + 1 /\ inbox'[c] = inbox[c] + 1
      BY DEF TypeOK
    <3>3. \A f \in Fds : readBuffer[f] \in Nat /\ (clients[f] # None => clients[f] \in Conns)
      BY DEF TypeOK
    <3>4. NothingIsInherited'
      BY <2>0, <3>1, <3>2, <3>3 DEF RequestInv, NothingIsInherited
    <3>5. QED
      BY <2>0, <3>1, <3>2, <3>4 DEF RequestInv
  <2>4. SessionInv' /\ RegisteredInv'
    BY DEF SessionInv, PipesAreOwned, MayModify, RegisteredInv
  <2>5. QED
    BY <2>1, <2>2, <2>3, <2>4 DEF IInv, NeverThrows
<1>3. CASE Leave(c)
  <2> USE <1>3 DEF Leave
  <2>1. TypeOK'
    BY ConfigAssumption DEF TypeOK
  <2>2. ServedInv' /\ BacklogInv'
    BY DEF ServedInv, ClientsAreOpen, MayModify, BacklogInv
  <2>3. RequestInv'
    BY DEF RequestInv, NothingIsInherited
  <2>4. SessionInv'
    BY DEF SessionInv, PipesAreOwned, MayModify
  <2>5. RegisteredInv'
    BY DEF RegisteredInv
  <2>6. QED
    BY <2>1, <2>2, <2>3, <2>4, <2>5 DEF IInv, NeverThrows
<1>4. QED
  BY <1>1, <1>2, <1>3

\* A script that ends takes registrations with it that only it held.
LEMMA ScriptIInv ==
  ASSUME IInv, NEW k \in Scripts, ScriptEnds(k)
  PROVE  IInv'
<1> USE DEF managerVars, cgiVars, loopVars, peerVars
<1> TypeOK /\ ServedInv /\ BacklogInv /\ RequestInv /\ SessionInv /\ RegisteredInv /\ NeverThrows
  BY DEF IInv
<1>1. regs' \subseteq regs /\ table' = table
  BY DEF ScriptEnds, Prune
<1>2. ASSUME NEW f \in Fds, MayModify(regs, table, f) PROVE MayModify(regs', table', f)
  <2>1. PICK r \in regs : r.fd = f /\ r.file = table[f]
    BY <1>2 DEF MayModify
  <2>2. r.file # None
    BY NoneAssumption DEF TypeOK, Registrations
  <2>3. r.file \in OpenFiles(table)
    BY <2>1, <2>2 DEF OpenFiles
  <2>4. r \in regs'
    BY <2>3 DEF ScriptEnds, Prune
  <2>5. QED
    BY <1>1, <2>1, <2>4 DEF MayModify
<1>3. TypeOK'
  BY <1>1 DEF TypeOK, ScriptEnds
<1>4. ServedInv'
  <2>1. ClientsAreOpen'
    BY <1>1, <1>2 DEF ServedInv, ClientsAreOpen, ScriptEnds
  <2>2. QED
    BY <2>1 DEF ServedInv, ScriptEnds
<1>5. BacklogInv' /\ RequestInv'
  BY DEF ScriptEnds, BacklogInv, RequestInv, NothingIsInherited
<1>6. SessionInv'
  <2>1. PipesAreOwned'
    BY <1>1, <1>2 DEF SessionInv, PipesAreOwned, ScriptEnds
  <2>2. QED
    BY <2>1 DEF SessionInv, ScriptEnds, TypeOK
<1>7. RegisteredInv'
  BY <1>1, RegisteredKept DEF ScriptEnds, TypeOK
<1>8. QED
  BY <1>3, <1>4, <1>5, <1>6, <1>7 DEF IInv, NeverThrows, ScriptEnds

-----------------------------------------------------------------------------
(* Clients that are disconnected.                                          *)

\* Only listed sessions are cancelled, all of them the client's own, and one is
\* when there is any.
LEMMA CancelledIsListed ==
  ASSUME TypeOK, NEW fd
  PROVE  /\ CancelledFor(fd) \subseteq Range(sessions) \cap Scripts
         /\ \A k \in CancelledFor(fd) : sessionOf[k].client = fd
         /\ \A k \in Range(sessions) : sessionOf[k].client = fd => CancelledFor(fd) # {}
<1> DEFINE mine == {i \in DOMAIN sessions : sessionOf[sessions[i]].client = fd}
<1>1. sessions \in Seq(Scripts) /\ mine \subseteq Nat
  BY DEF TypeOK
<1>2. CASE mine = {}
  BY <1>2 DEF CancelledFor, Range
<1>3. CASE mine # {}
  <2> DEFINE first == CHOOSE i \in mine : \A j \in mine : i <= j
  <2>1. \E i \in mine : \A j \in mine : i <= j
    <3> HIDE DEF mine
    <3>1. QED
      BY <1>1, <1>3, LeastExists
  <2>2. first \in mine
    BY <2>1
  <2>3. CancelledFor(fd) = {sessions[first]}
    BY <1>3 DEF CancelledFor
  <2>4. first \in DOMAIN sessions /\ sessionOf[sessions[first]].client = fd
    BY <2>2
  <2> HIDE DEF first
  <2>5. sessions[first] \in Range(sessions) \cap Scripts
    BY <1>1, <2>4 DEF Range
  <2>6. QED
    BY <2>3, <2>4, <2>5
<1>4. QED
  BY <1>2, <1>3

\* The numbers of a listed session's pipes are those that denote them.
LEMMA PipesByNumber ==
  ASSUME TypeOK, SessionInv, NEW k \in Scripts
  PROVE  /\ PipeFds(k) \subseteq Fds
         /\ \A f \in Fds : f \in PipeFds(k) <=> table[f] = WriteEnd(k) \/ table[f] = ReadEnd(k)
<1>1. /\ sessionOf[k].w \in Fds \cup {NoFd}
      /\ sessionOf[k].r \in Fds \cup {NoFd}
  BY DEF TypeOK
<1>2. \A f \in Fds : f # NoFd
  BY NoFdIsNone
<1>3. QED
  BY <1>1, <1>2 DEF PipeFds, SessionInv, PipesAreOwned

\* Sessions taken off the list, their pipes closed and their entries forgotten.
LEMMA SessionsRemoved ==
  ASSUME TypeOK, SessionInv, NEW K \in SUBSET Scripts, K \subseteq Range(sessions),
         sessions' = Only(sessions, Scripts \ K), Forget(K), Doom(K),
         NEW gone \in SUBSET Fds,
         \A k \in K : PipeFds(k) \subseteq gone,
         \A f \in gone, k \in Scripts \ K : table[f] # WriteEnd(k) /\ table[f] # ReadEnd(k),
         \A f \in Fds : table'[f] = IF f \in gone THEN None ELSE table[f],
         \A f \in Fds : f \notin gone /\ MayModify(regs, table, f) => MayModify(regs', table', f)
  PROVE  /\ SessionInv'
         /\ sessions' \in Seq(Scripts) /\ Range(sessions') = Range(sessions) \ K
         /\ sessionOf' \in [Scripts -> [client : Fds \cup {NoFd}, request : Requests \cup {None},
                                        w : Fds \cup {NoFd}, r : Fds \cup {NoFd}, finished : BOOLEAN]]
         /\ script' \in [Scripts -> {"new", "running", "doomed", "dead"}]
         /\ \A k \in Scripts \ K : sessionOf'[k] = sessionOf[k]
<1>1. sessions' \in Seq(Scripts) /\ Range(sessions') = Range(sessions) \ K
  <2>1. sessions \in Seq(Scripts) /\ Range(sessions) \subseteq Scripts
    BY DEF TypeOK, Range
  <2>2. QED
    BY <2>1, OnlyKeeps
<1>2. \A k \in Scripts : sessionOf'[k] = IF k \in K THEN NoSession ELSE sessionOf[k]
  BY DEF Forget
<1>3. sessionOf' \in [Scripts -> [client : Fds \cup {NoFd}, request : Requests \cup {None},
                                  w : Fds \cup {NoFd}, r : Fds \cup {NoFd}, finished : BOOLEAN]]
  <2>1. NoSession \in [client : Fds \cup {NoFd}, request : Requests \cup {None},
                       w : Fds \cup {NoFd}, r : Fds \cup {NoFd}, finished : BOOLEAN]
    BY DEF NoSession
  <2>2. QED
    BY <2>1 DEF Forget, TypeOK
<1>4. /\ script' \in [Scripts -> {"new", "running", "doomed", "dead"}]
      /\ \A k \in Scripts : script[k] # "new" => script'[k] # "new"
  BY DEF Doom, TypeOK
<1>5. PipesAreOwned'
  <2> SUFFICES ASSUME NEW f \in Fds, NEW k \in Scripts
               PROVE  /\ table'[f] = WriteEnd(k) <=> sessionOf'[k].w = f
                      /\ table'[f] = ReadEnd(k) <=> sessionOf'[k].r = f
                      /\ sessionOf'[k].r = f => k \in Range(sessions') /\ MayModify(regs', table', f)
    BY DEF PipesAreOwned
  <2>1. CASE k \in K
    <3>1. sessionOf'[k].w # f /\ sessionOf'[k].r # f
      BY <1>2, <2>1, NoFdIsNone DEF NoSession
    <3>2. table'[f] # WriteEnd(k) /\ table'[f] # ReadEnd(k)
      BY <2>1, PipesByNumber, FilesDiffer
    <3>3. QED
      BY <3>1, <3>2
  <2>2. CASE k \notin K
    <3>1. sessionOf'[k] = sessionOf[k]
      BY <1>2, <2>2
    <3>2. table'[f] = WriteEnd(k) <=> table[f] = WriteEnd(k)
      BY <2>2, FilesDiffer
    <3>3. table'[f] = ReadEnd(k) <=> table[f] = ReadEnd(k)
      BY <2>2, FilesDiffer
    <3>4. ASSUME sessionOf[k].r = f PROVE k \in Range(sessions') /\ MayModify(regs', table', f)
      <4>1. table[f] = ReadEnd(k) /\ k \in Range(sessions) /\ MayModify(regs, table, f)
        BY <3>4 DEF SessionInv, PipesAreOwned
      <4>2. f \notin gone
        BY <2>2, <4>1
      <4>3. QED
        BY <1>1, <2>2, <4>1, <4>2
    <3>5. QED
      BY <3>1, <3>2, <3>3, <3>4 DEF SessionInv, PipesAreOwned
  <2>3. QED
    BY <2>1, <2>2
<1>6. SessionInv'
  BY <1>1, <1>2, <1>4, <1>5 DEF SessionInv
<1>7. QED
  BY <1>1, <1>2, <1>3, <1>4, <1>6

\* What disconnectClient leaves behind.
LEMMA DisconnectIInv ==
  ASSUME IInv, NEW fd \in Fds, NEW c \in Conns, clients[fd] = c, DisconnectClient(fd),
         batch' \subseteq Registrations \cup [accept : Listeners],
         UNCHANGED <<server, stop, peer, arrived, backlog, sent, inbox, popped, inherited, eof>>,
         writeBuffer' \in [Conns -> Seq(Requests)], got' \in [Conns -> Seq(Requests)],
         cut' \in [Conns -> BOOLEAN]
  PROVE  IInv'
<1> TypeOK /\ ServedInv /\ BacklogInv /\ RequestInv /\ SessionInv /\ RegisteredInv /\ NeverThrows
  BY DEF IInv
<1> DEFINE K == CancelledFor(fd)
           gone == {fd} \cup UNION {PipeFds(k) : k \in K}
<1>1. K \subseteq Range(sessions) /\ K \subseteq Scripts
  BY CancelledIsListed
<1>2. /\ Release(gone, gone) /\ Unserve(fd) /\ sessions' = Only(sessions, Scripts \ K)
      /\ Forget(K) /\ Doom(K)
      /\ stage' = [stage EXCEPT ![c] = "closed"]
  BY DEF DisconnectClient
<1>3. table[fd] = ConnFile(c)
  BY DEF ServedInv, ClientsAreOpen
<1> HIDE DEF K
<1>4. gone \in SUBSET Fds
  BY <1>1, PipesByNumber
<1>5. \A f \in gone : f = fd \/ \E k \in K : table[f] = WriteEnd(k) \/ table[f] = ReadEnd(k)
  <2>1. ASSUME NEW k \in K, NEW f \in PipeFds(k) PROVE table[f] = WriteEnd(k) \/ table[f] = ReadEnd(k)
    BY <1>1, PipesByNumber
  <2>2. QED
    BY <2>1
<1>6. \A k \in K : PipeFds(k) \subseteq gone
  OBVIOUS
<1>7. fd \in gone
  OBVIOUS
<1> HIDE DEF gone
<1>8. /\ table' \in [Fds -> Files \cup {None}]
      /\ \A f \in Fds : table'[f] = IF f \in gone THEN None ELSE table[f]
      /\ regs' \subseteq regs
      /\ \A r \in regs' : r.fd \in gone => r.file # table[r.fd]
      /\ \A f \in Fds : f \notin gone /\ MayModify(regs, table, f) => MayModify(regs', table', f)
  BY <1>2, ReleaseEffect
<1>9. \A f \in gone, k \in Scripts \ K : table[f] # WriteEnd(k) /\ table[f] # ReadEnd(k)
  BY <1>1, <1>3, <1>5, FilesDiffer, SMTT(30)
<1>10. \A f \in gone, d \in Conns : table[f] = ConnFile(d) => f = fd
  BY <1>1, <1>5, FilesDiffer
<1>11. /\ SessionInv'
       /\ sessions' \in Seq(Scripts) /\ Range(sessions') = Range(sessions) \ K
       /\ sessionOf' \in [Scripts -> [client : Fds \cup {NoFd}, request : Requests \cup {None},
                                      w : Fds \cup {NoFd}, r : Fds \cup {NoFd}, finished : BOOLEAN]]
       /\ script' \in [Scripts -> {"new", "running", "doomed", "dead"}]
  <2>1. K \in SUBSET Scripts
    BY <1>1
  <2>2. sessions' = Only(sessions, Scripts \ K) /\ Forget(K) /\ Doom(K)
    BY <1>2
  <2>3. /\ \A f \in Fds : table'[f] = IF f \in gone THEN None ELSE table[f]
        /\ \A f \in Fds : f \notin gone /\ MayModify(regs, table, f) => MayModify(regs', table', f)
    BY <1>8
  <2>4. QED
    BY <1>1, <1>4, <1>6, <1>9, <2>1, <2>2, <2>3, SessionsRemoved
<1>12. /\ clients' \in [Fds -> Conns \cup {None}] /\ clientConfig' \in [Fds -> Listeners \cup {None}]
       /\ readBuffer' \in [Fds -> 0..MaxRequests]
       /\ \A f \in Fds : clients'[f] = IF f = fd THEN None ELSE clients[f]
       /\ \A f \in Fds : clientConfig'[f] = IF f = fd THEN None ELSE clientConfig[f]
       /\ \A f \in Fds : readBuffer'[f] = IF f = fd THEN 0 ELSE readBuffer[f]
  <2>1. 0 \in 0..MaxRequests
    BY ConfigAssumption
  <2>2. QED
    BY <1>2, <2>1 DEF Unserve, TypeOK
<1>13. /\ stage' \in [Conns -> {"new", "queued", "open", "closed"}]
       /\ \A d \in Conns : stage'[d] = IF d = c THEN "closed" ELSE stage[d]
  BY <1>2 DEF TypeOK
<1>14. TypeOK'
  <2>1. regs' \subseteq Registrations
    BY <1>8 DEF TypeOK
  <2>2. QED
    BY <1>8, <1>11, <1>12, <1>13, <2>1 DEF TypeOK
<1>15. ServedInv'
  <2>1. ASSUME NEW f \in Fds, NEW d \in Conns
        PROVE  /\ clients'[f] = d <=> table'[f] = ConnFile(d)
               /\ clients'[f] = d => MayModify(regs', table', f)
    <3>1. CASE f = fd
      BY <1>7, <1>8, <1>12, <3>1, FilesDiffer
    <3>2. CASE f # fd
      <4>1. clients'[f] = clients[f]
        BY <1>12, <3>2
      <4>2. table'[f] = ConnFile(d) <=> table[f] = ConnFile(d)
        BY <1>8, <1>10, <3>2, FilesDiffer
      <4>3. clients[f] = d => MayModify(regs, table, f) /\ f \notin gone
        BY <1>10, <3>2 DEF ServedInv, ClientsAreOpen
      <4>4. QED
        BY <1>8, <4>1, <4>2, <4>3 DEF ServedInv, ClientsAreOpen
    <3>3. QED
      BY <3>1, <3>2
  <2>2. ASSUME NEW r \in regs', NEW d \in Conns, r.file = ConnFile(d)
        PROVE  table'[r.fd] = r.file
    <3>1. r \in regs /\ r.fd \in Fds /\ table[r.fd] = r.file
      <4>1. r \in regs
        BY <1>8
      <4>2. r.fd \in Fds
        BY <4>1 DEF TypeOK, Registrations
      <4>3. table[r.fd] = r.file
        BY <2>2, <4>1 DEF ServedInv, ClientsAreOpen
      <4>4. QED
        BY <4>1, <4>2, <4>3
    <3>2. r.fd \notin gone
      BY <1>8, <3>1
    <3>3. QED
      BY <1>8, <3>1, <3>2
  <2>3. ASSUME NEW f \in Fds, clients'[f] # None
        PROVE  /\ stage'[clients'[f]] = "open"
               /\ \A g \in Fds : clients'[g] = clients'[f] => g = f
    <3>1. f # fd /\ clients'[f] = clients[f] /\ clients[f] # None /\ clients[f] \in Conns
      BY <1>12, <2>3 DEF TypeOK
    <3>2. clients[f] # c
      BY <3>1 DEF ServedInv
    <3>3. QED
      BY <1>12, <1>13, <3>1, <3>2, ZenonT(60) DEF ServedInv
  <2>4. ClientsAreOpen'
    BY <2>1, <2>2 DEF ClientsAreOpen
  <2>5. QED
    BY <2>3, <2>4 DEF ServedInv
<1>16. BacklogInv'
  <2>1. stage[c] = "open"
    BY FilesDiffer DEF ServedInv
  <2>2. \A l \in Listeners : \A i \in 1..Len(backlog[l]) : backlog[l][i] # c /\ backlog[l][i] \in Conns
    BY <2>1, SMTT(30) DEF BacklogInv, TypeOK
  <2>3. ASSUME NEW l \in Listeners, NEW i \in 1..Len(backlog[l])
        PROVE  stage'[backlog[l][i]] = "queued"
    <3>1. backlog[l][i] # c /\ backlog[l][i] \in Conns
      BY <2>2
    <3>2. stage[backlog[l][i]] = "queued"
      BY DEF BacklogInv
    <3>3. QED
      BY <1>13, <3>1, <3>2
  <2>4. QED
    BY <2>3 DEF BacklogInv
<1>17. RequestInv'
  <2>1. NothingIsInherited'
    BY <1>12 DEF RequestInv, NothingIsInherited
  <2>2. QED
    BY <1>12, <1>13, <2>1 DEF RequestInv
<1>18. RegisteredInv'
  BY <1>2, <1>8, RegisteredKept DEF Doom
<1>19. QED
  BY <1>11, <1>14, <1>15, <1>16, <1>17, <1>18 DEF IInv, NeverThrows

LEMMA ReceiveEndIInv ==
  ASSUME IInv, NEW e, NEW c \in Conns, ReceiveEnd(e, c)
  PROVE  IInv'
<1>1. e.fd \in Fds /\ clients[e.fd] = c /\ DisconnectClient(e.fd)
  BY DEF ReceiveEnd, Reads, ForClient, Registrations
<1>2. batch' \subseteq Registrations \cup [accept : Listeners]
  BY DEF ReceiveEnd, Reads, ForClient, Takes, IInv, TypeOK
<1>3. writeBuffer' \in [Conns -> Seq(Requests)] /\ got' \in [Conns -> Seq(Requests)]
        /\ cut' \in [Conns -> BOOLEAN]
  BY DEF ReceiveEnd, IInv, TypeOK
<1>4. UNCHANGED <<server, stop, peer, arrived, backlog, sent, inbox, popped, inherited, eof>>
  BY DEF ReceiveEnd, Reads, ForClient, Takes
<1>5. QED
  BY <1>1, <1>2, <1>3, <1>4, DisconnectIInv

LEMMA FlushIInv ==
  ASSUME IInv, NEW e, NEW c \in Conns, FlushAll(e, c) \/ FlushPart(e, c)
  PROVE  IInv'
<1> Writes(e, c)
  BY DEF FlushAll, FlushPart
<1>1. e.fd \in Fds /\ clients[e.fd] = c /\ DisconnectClient(e.fd)
  BY DEF FlushAll, FlushPart, Writes, ForClient, Registrations
<1>2. batch' \subseteq Registrations \cup [accept : Listeners]
  BY DEF Writes, ForClient, Takes, IInv, TypeOK
<1>3. writeBuffer' \in [Conns -> Seq(Requests)] /\ got' \in [Conns -> Seq(Requests)]
        /\ cut' \in [Conns -> BOOLEAN]
  <2>1. writeBuffer \in [Conns -> Seq(Requests)] /\ got \in [Conns -> Seq(Requests)]
          /\ cut \in [Conns -> BOOLEAN]
    BY DEF IInv, TypeOK
  <2>2. got[c] \o writeBuffer[c] \in Seq(Requests) /\ <<>> \in Seq(Requests)
    BY <2>1
  <2>3. QED
    BY <2>1, <2>2 DEF FlushAll, FlushPart
<1>4. UNCHANGED <<server, stop, peer, arrived, backlog, sent, inbox, popped, inherited, eof>>
  BY DEF FlushAll, FlushPart, Writes, ForClient, Takes
<1>5. QED
  BY <1>1, <1>2, <1>3, <1>4, DisconnectIInv

-----------------------------------------------------------------------------
(* Connections that are accepted.                                          *)

\* n connections are accepted, and at[i] is the number that the i-th of them gets.
Accepted(l, n, at) ==
  LET q == backlog[l]
  IN /\ \A i \in 1..n : /\ table[at[i]] = None
                        /\ \A j \in 1..n : at[i] = at[j] => i = j
                        /\ table'[at[i]] = ConnFile(q[i])
                        /\ clients'[at[i]] = q[i] /\ clientConfig'[at[i]] = l
     /\ \A f \in Fds : (\A i \in 1..n : at[i] # f) =>
          table'[f] = table[f] /\ clients'[f] = clients[f] /\ clientConfig'[f] = clientConfig[f]
     /\ regs' = regs \cup {[fd |-> at[i], file |-> ConnFile(q[i]), ev |-> "in"] : i \in 1..n}
     /\ \A c \in Conns : stage'[c] = IF \E i \in 1..n : q[i] = c THEN "open" ELSE stage[c]
     /\ backlog' = [backlog EXCEPT ![l] = SubSeq(q, n + 1, Len(q))]
     /\ table' = [f \in Fds |-> table'[f]] /\ clients' = [f \in Fds |-> clients'[f]]
     /\ clientConfig' = [f \in Fds |-> clientConfig'[f]]
     /\ stage' = [c \in Conns |-> stage'[c]]
     /\ server' = IF \A i \in 1..n : MayAdd(regs, table', at[i]) THEN server ELSE "threw"

LEMMA AcceptEffect ==
  ASSUME TypeOK, NEW l \in Listeners, AcceptNewClients(l)
  PROVE  \E n \in 0..Len(backlog[l]) : \E at \in [1..n -> Fds] : Accepted(l, n, at)
<1> DEFINE q == backlog[l]
           N == Cardinality(FreeFds(table))
           n == IF Len(q) < N THEN Len(q) ELSE N
           fdOf(i) == NthFree(table, i)
           new == {fdOf(i) : i \in 1..n}
           conn(f) == q[CHOOSE i \in 1..n : fdOf(i) = f]
           at == [i \in 1..n |-> fdOf(i)]
<1>1. q \in Seq(Conns) /\ Len(q) \in Nat
  BY DEF TypeOK
<1>2. N \in Nat
  BY FreeNumbers
<1>3. n \in 0..Len(q) /\ n \in 0..N
  BY <1>1, <1>2
<1>4. /\ table' = [f \in Fds |-> IF f \in new THEN ConnFile(conn(f)) ELSE table[f]]
      /\ regs' = regs \cup {[fd |-> f, file |-> ConnFile(conn(f)), ev |-> "in"] : f \in new}
      /\ clients' = [f \in Fds |-> IF f \in new THEN conn(f) ELSE clients[f]]
      /\ clientConfig' = [f \in Fds |-> IF f \in new THEN l ELSE clientConfig[f]]
      /\ stage' = [c \in Conns |-> IF \E f \in new : conn(f) = c THEN "open" ELSE stage[c]]
      /\ backlog' = [backlog EXCEPT ![l] = SubSeq(q, n + 1, Len(q))]
      /\ server' = IF \A f \in new : MayAdd(regs, table', f) THEN server ELSE "threw"
  BY DEF AcceptNewClients, ListenerConfig, InitialInterest
<1> HIDE DEF n
<1>5. \A i \in 1..n : /\ fdOf(i) \in Fds /\ table[fdOf(i)] = None
                      /\ \A j \in 1..n : fdOf(i) = fdOf(j) => i = j
  <2>1. \A i \in 1..n : i \in 1..N
    BY <1>2, <1>3
  <2>2. QED
    BY <2>1, FreeNumbers
<1>6. \A i \in 1..n : conn(fdOf(i)) = q[i]
  <2>1. ASSUME NEW i \in 1..n PROVE (CHOOSE j \in 1..n : fdOf(j) = fdOf(i)) = i
    BY <1>5
  <2>2. QED
    BY <2>1
<1>7. at \in [1..n -> Fds] /\ \A i \in 1..n : at[i] = fdOf(i)
  BY <1>5
<1>8. \A i \in 1..n : at[i] \in new /\ at[i] \in Fds
  BY <1>7
<1>9. \A f \in new : \E i \in 1..n : at[i] = f
  BY <1>7
<1>10. \A i \in 1..n : conn(at[i]) = q[i]
  BY <1>6, <1>7
<1> HIDE DEF at, new, conn, fdOf
<1>11. \A i \in 1..n : /\ table[at[i]] = None
                       /\ \A j \in 1..n : at[i] = at[j] => i = j
                       /\ table'[at[i]] = ConnFile(q[i])
                       /\ clients'[at[i]] = q[i] /\ clientConfig'[at[i]] = l
  BY <1>4, <1>5, <1>7, <1>8, <1>10
<1>12. \A f \in Fds : (\A i \in 1..n : at[i] # f) =>
         table'[f] = table[f] /\ clients'[f] = clients[f] /\ clientConfig'[f] = clientConfig[f]
  BY <1>4, <1>9
<1>13. {[fd |-> f, file |-> ConnFile(conn(f)), ev |-> "in"] : f \in new}
         = {[fd |-> at[i], file |-> ConnFile(q[i]), ev |-> "in"] : i \in 1..n}
  BY <1>8, <1>9, <1>10
<1>14. \A c \in Conns : (\E f \in new : conn(f) = c) <=> (\E i \in 1..n : q[i] = c)
  BY <1>8, <1>9, <1>10
<1>15. \A c \in Conns : stage'[c] = IF \E i \in 1..n : q[i] = c THEN "open" ELSE stage[c]
  BY <1>4, <1>14
<1>16. /\ table' = [f \in Fds |-> table'[f]] /\ clients' = [f \in Fds |-> clients'[f]]
       /\ clientConfig' = [f \in Fds |-> clientConfig'[f]]
       /\ stage' = [c \in Conns |-> stage'[c]]
  BY <1>4
<1>17. regs' = regs \cup {[fd |-> at[i], file |-> ConnFile(q[i]), ev |-> "in"] : i \in 1..n}
  BY <1>4, <1>13
<1>18. backlog' = [backlog EXCEPT ![l] = SubSeq(q, n + 1, Len(q))]
  BY <1>4
<1>19. server' = IF \A i \in 1..n : MayAdd(regs, table', at[i]) THEN server ELSE "threw"
  BY <1>4, <1>8, <1>9
<1> n \in 0..Len(backlog[l]) /\ at \in [1..n -> Fds]
  BY <1>3, <1>7
<1> WITNESS n \in 0..Len(backlog[l])
<1> WITNESS at \in [1..n -> Fds]
<1>20. QED
  BY <1>11, <1>12, <1>15, <1>16, <1>17, <1>18, <1>19 DEF Accepted

LEMMA AcceptIInv ==
  ASSUME IInv, NEW l \in Listeners, AcceptNewClients(l)
  PROVE  IInv'
<1> TypeOK /\ ServedInv /\ BacklogInv /\ RequestInv /\ SessionInv /\ RegisteredInv /\ NeverThrows
  BY DEF IInv
<1> DEFINE q == backlog[l]
<1> PICK n \in 0..Len(q) : \E at \in [1..n -> Fds] : Accepted(l, n, at)
  BY AcceptEffect
<1>1. PICK at \in [1..n -> Fds] : Accepted(l, n, at)
  OBVIOUS
<1>2. /\ \A i \in 1..n : /\ table[at[i]] = None
                         /\ \A j \in 1..n : at[i] = at[j] => i = j
                         /\ table'[at[i]] = ConnFile(q[i])
                         /\ clients'[at[i]] = q[i] /\ clientConfig'[at[i]] = l
      /\ \A f \in Fds : (\A i \in 1..n : at[i] # f) =>
           table'[f] = table[f] /\ clients'[f] = clients[f] /\ clientConfig'[f] = clientConfig[f]
      /\ regs' = regs \cup {[fd |-> at[i], file |-> ConnFile(q[i]), ev |-> "in"] : i \in 1..n}
      /\ \A c \in Conns : stage'[c] = IF \E i \in 1..n : q[i] = c THEN "open" ELSE stage[c]
      /\ backlog' = [backlog EXCEPT ![l] = SubSeq(q, n + 1, Len(q))]
      /\ table' = [f \in Fds |-> table'[f]] /\ clients' = [f \in Fds |-> clients'[f]]
      /\ clientConfig' = [f \in Fds |-> clientConfig'[f]]
      /\ stage' = [c \in Conns |-> stage'[c]]
      /\ server' = IF \A i \in 1..n : MayAdd(regs, table', at[i]) THEN server ELSE "threw"
  BY <1>1 DEF Accepted
<1>3. \A c \in Conns : stage'[c] = IF \E i \in 1..n : q[i] = c THEN "open" ELSE stage[c]
  BY <1>2
<1> UNCHANGED <<readBuffer, writeBuffer, sessions, sessionOf, peer, arrived, sent, inbox,
                popped, got, cut, script, inherited, eof, stop>>
  BY DEF AcceptNewClients, Takes, cgiVars, scriptVars
<1>4. q \in Seq(Conns) /\ Len(q) \in Nat /\ \A i \in 1..n : i \in 1..Len(q)
  BY DEF TypeOK
<1>5. \A i \in 1..Len(q) : /\ q[i] \in Conns /\ q[i] # None
                           /\ stage[q[i]] = "queued" /\ arrived[q[i]] = l
                           /\ \A j \in 1..Len(q) : q[i] = q[j] => i = j
  BY <1>4, FilesDiffer DEF BacklogInv
<1>6. \A i \in 1..n : at[i] \in Fds /\ clients[at[i]] = None
  <2>1. ASSUME NEW i \in 1..n PROVE at[i] \in Fds /\ clients[at[i]] = None
    <3>1. at[i] \in Fds /\ table[at[i]] = None
      BY <1>2
    <3>2. \A c \in Conns : clients[at[i]] # c
      BY <3>1, FilesDiffer DEF ServedInv, ClientsAreOpen
    <3>3. QED
      BY <3>1, <3>2 DEF TypeOK
  <2>2. QED
    BY <2>1
<1> HIDE DEF q
\* No file that waits for accept is registered, so that nothing is thrown.
<1>7. server' = server
  <2>1. ASSUME NEW i \in 1..n PROVE MayAdd(regs, table', at[i])
    <3>1. q[i] \in Conns /\ q[i] # None /\ stage[q[i]] = "queued" /\ table'[at[i]] = ConnFile(q[i])
      BY <1>2, <1>4, <1>5
    <3>2. ASSUME NEW r \in regs, r.file = ConnFile(q[i]) PROVE FALSE
      <4>1. r.fd \in Fds /\ table[r.fd] = ConnFile(q[i])
        <5>1. r.fd \in Fds
          BY DEF TypeOK, Registrations
        <5>2. QED
          BY <3>1, <3>2, <5>1 DEF ServedInv, ClientsAreOpen
      <4>2. clients[r.fd] = q[i]
        BY <3>1, <4>1 DEF ServedInv, ClientsAreOpen
      <4>3. stage[q[i]] = "open"
        BY <3>1, <4>1, <4>2 DEF ServedInv
      <4>4. QED
        BY <3>1, <4>3
    <3>3. QED
      BY <3>1, <3>2, FilesDiffer DEF MayAdd
  <2>2. QED
    BY <1>2, <2>1
\* The cases of a number: it is new, with an index, or it is as before.
<1>8. ASSUME NEW f \in Fds
      PROVE  \/ \E i \in 1..n : f = at[i]
             \/ table'[f] = table[f] /\ clients'[f] = clients[f] /\ clientConfig'[f] = clientConfig[f]
  BY <1>2
<1>9. TypeOK'
  <2>1. ASSUME NEW f \in Fds
        PROVE  /\ table'[f] \in Files \cup {None} /\ clients'[f] \in Conns \cup {None}
               /\ clientConfig'[f] \in Listeners \cup {None}
    <3>1. CASE \E i \in 1..n : f = at[i]
      BY <1>2, <1>4, <1>5, <3>1, FilesDiffer
    <3>2. QED
      BY <1>8, <3>1 DEF TypeOK
  <2>2. /\ table' \in [Fds -> Files \cup {None}] /\ clients' \in [Fds -> Conns \cup {None}]
        /\ clientConfig' \in [Fds -> Listeners \cup {None}]
    BY <1>2, <2>1
  <2>3. regs' \subseteq Registrations
    <3>1. \A i \in 1..n : [fd |-> at[i], file |-> ConnFile(q[i]), ev |-> "in"] \in Registrations
      BY <1>4, <1>5, <1>6, FilesDiffer DEF Registrations
    <3>2. QED
      BY <1>2, <3>1 DEF TypeOK
  <2>4. backlog' \in [Listeners -> Seq(Conns)]
    <3>1. SubSeq(q, n + 1, Len(q)) \in Seq(Conns)
      BY <1>4
    <3>2. QED
      BY <1>2, <3>1 DEF TypeOK
  <2>5. stage' \in [Conns -> {"new", "queued", "open", "closed"}]
    <3>1. \A c \in Conns : stage'[c] \in {"new", "queued", "open", "closed"}
      BY <1>2 DEF TypeOK
    <3>2. QED
      BY <1>2, <3>1
  <2>6. batch' \subseteq Registrations \cup [accept : Listeners]
    BY DEF AcceptNewClients, Takes, TypeOK
  <2>7. QED
    BY <1>7, <2>2, <2>3, <2>4, <2>5, <2>6 DEF TypeOK
<1>10. ASSUME NEW f \in Fds, MayModify(regs, table, f), table[f] # None
      PROVE  MayModify(regs', table', f)
  <2>1. table'[f] = table[f]
    BY <1>2, <1>8, <1>10
  <2>2. QED
    BY <1>2, <1>10, <2>1 DEF MayModify
<1>11. ServedInv'
  <2>1. ASSUME NEW f \in Fds, NEW d \in Conns
        PROVE  /\ clients'[f] = d <=> table'[f] = ConnFile(d)
               /\ clients'[f] = d => MayModify(regs', table', f)
    <3>1. CASE \E i \in 1..n : f = at[i]
      <4>1. PICK i \in 1..n : f = at[i]
        BY <3>1
      <4>2. table'[f] = ConnFile(q[i]) /\ clients'[f] = q[i] /\ q[i] \in Conns
        BY <1>2, <1>4, <1>5, <4>1
      <4>3. MayModify(regs', table', f)
        <5>1. [fd |-> at[i], file |-> ConnFile(q[i]), ev |-> "in"] \in regs'
          BY <1>2
        <5>2. QED
          BY <4>1, <4>2, <5>1 DEF MayModify
      <4>4. QED
        BY <4>2, <4>3, FilesDiffer
    <3>2. CASE table'[f] = table[f] /\ clients'[f] = clients[f]
      BY <1>10, <3>2, FilesDiffer DEF ServedInv, ClientsAreOpen
    <3>3. QED
      BY <1>8, <3>1, <3>2
  <2>2. ASSUME NEW r \in regs', NEW d \in Conns, r.file = ConnFile(d)
        PROVE  table'[r.fd] = r.file
    <3>1. CASE r \in regs
      <4>1. r.fd \in Fds /\ table[r.fd] = r.file /\ r.file # None
        BY <2>2, <3>1, FilesDiffer, ZenonT(60) DEF ServedInv, ClientsAreOpen, TypeOK, Registrations
      <4>2. QED
        BY <1>2, <1>8, <4>1
    <3>2. CASE \E i \in 1..n : r = [fd |-> at[i], file |-> ConnFile(q[i]), ev |-> "in"]
      BY <1>2, <3>2
    <3>3. QED
      BY <1>2, <3>1, <3>2
  <2>3. ASSUME NEW f \in Fds, clients'[f] # None
        PROVE  /\ stage'[clients'[f]] = "open"
               /\ \A g \in Fds : clients'[g] = clients'[f] => g = f
    <3>1. ASSUME NEW i \in 1..n, f = at[i] PROVE stage'[clients'[f]] = "open"
      <4>1. clients'[f] = q[i] /\ q[i] \in Conns
        BY <1>2, <1>4, <1>5, <3>1
      <4>2. QED
        BY <1>3, <4>1
    <3>2. ASSUME clients'[f] = clients[f] PROVE stage'[clients'[f]] = "open"
      <4>1. clients[f] \in Conns /\ stage[clients[f]] = "open"
        BY <2>3, <3>2 DEF ServedInv, TypeOK
      <4>2. stage'[clients[f]] = "open"
        BY <1>2, <4>1
      <4>3. QED
        BY <3>2, <4>2
    <3>3. ASSUME NEW g \in Fds, clients'[g] = clients'[f] PROVE g = f
      <4>1. ASSUME NEW i \in 1..n, f = at[i], NEW j \in 1..n, g = at[j] PROVE g = f
        BY <1>2, <1>4, <1>5, <3>3, <4>1
      <4>2. ASSUME NEW i \in 1..n, f = at[i], clients'[g] = clients[g] PROVE FALSE
        <5>1. clients[g] = q[i] /\ q[i] \in Conns /\ clients[g] # None
          BY <1>2, <1>4, <1>5, <3>3, <4>2
        <5>2. stage[q[i]] = "open" /\ stage[q[i]] = "queued"
          BY <1>4, <1>5, <5>1 DEF ServedInv
        <5>3. QED
          BY <5>2
      <4>3. ASSUME NEW j \in 1..n, g = at[j], clients'[f] = clients[f] PROVE FALSE
        <5>1. clients[f] = q[j] /\ q[j] \in Conns /\ clients[f] # None
          BY <1>2, <1>4, <1>5, <3>3, <4>3
        <5>2. stage[q[j]] = "open" /\ stage[q[j]] = "queued"
          BY <1>4, <1>5, <5>1 DEF ServedInv
        <5>3. QED
          BY <5>2
      <4>4. CASE clients'[f] = clients[f] /\ clients'[g] = clients[g]
        BY <2>3, <3>3, <4>4 DEF ServedInv
      <4>5. QED
        BY <1>8, <4>1, <4>2, <4>3, <4>4
    <3>4. stage'[clients'[f]] = "open"
      BY <1>8, <3>1, <3>2
    <3>5. QED
      BY <3>3, <3>4
  <2>4. ClientsAreOpen'
    BY <2>1, <2>2 DEF ClientsAreOpen
  <2>5. QED
    BY <2>3, <2>4 DEF ServedInv
<1>12. BacklogInv'
  <2> SUFFICES ASSUME NEW m \in Listeners, NEW i \in 1..Len(backlog'[m])
               PROVE  /\ stage'[backlog'[m][i]] = "queued" /\ arrived[backlog'[m][i]] = m
                      /\ \A j \in 1..Len(backlog'[m]) : backlog'[m][j] = backlog'[m][i] => j = i
    BY DEF BacklogInv
  <2>1. CASE m = l
    <3>1. backlog'[m] = SubSeq(q, n + 1, Len(q))
      BY <1>2, <2>1 DEF TypeOK
    <3>2. Len(backlog'[m]) = Len(q) - n
      BY <1>4, <3>1
    <3>3. \A j \in 1..Len(backlog'[m]) : backlog'[m][j] = q[n + j] /\ n + j \in 1..Len(q) /\ n + j \notin 1..n
      BY <1>4, <3>1, <3>2
    <3>4. stage'[q[n + i]] = "queued"
      <4>1. /\ q[n + i] \in Conns /\ stage[q[n + i]] = "queued"
            /\ \A j \in 1..n : q[j] # q[n + i]
        BY <1>4, <1>5, <3>3
      <4>2. QED
        BY <1>3, <4>1
    <3>5. \A j \in 1..Len(backlog'[m]) : n + j = n + i => j = i
      BY <1>4
    <3>6. stage'[backlog'[m][i]] = "queued" /\ arrived[backlog'[m][i]] = m
      BY <1>5, <2>1, <3>3, <3>4
    <3>7. ASSUME NEW j \in 1..Len(backlog'[m]), backlog'[m][j] = backlog'[m][i] PROVE j = i
      <4>1. q[n + j] = q[n + i] /\ n + j \in 1..Len(q) /\ n + i \in 1..Len(q)
        BY <3>3, <3>7
      <4>2. n + j = n + i
        BY <1>5, <4>1
      <4>3. QED
        BY <3>5, <4>2
    <3>8. QED
      BY <3>6, <3>7
  <2>2. CASE m # l
    <3>1. backlog'[m] = backlog[m] /\ backlog[m] \in Seq(Conns)
      BY <1>2, <2>2 DEF TypeOK
    <3>2. backlog[m][i] \in Conns /\ stage[backlog[m][i]] = "queued" /\ arrived[backlog[m][i]] = m
      BY <3>1 DEF BacklogInv
    <3>3. \A j \in 1..n : q[j] # backlog[m][i]
      BY <1>4, <1>5, <2>2, <3>2
    <3>4. stage'[backlog[m][i]] = "queued"
      BY <1>3, <3>2, <3>3
    <3>5. \A j \in 1..Len(backlog[m]) : backlog[m][j] = backlog[m][i] => j = i
      BY <3>1 DEF BacklogInv
    <3>6. QED
      BY <3>1, <3>2, <3>4, <3>5
  <2>3. QED
    BY <2>1, <2>2
<1>13. RequestInv'
  <2>1. ASSUME NEW f \in Fds
        PROVE  /\ clients'[f] = None => readBuffer[f] = 0 /\ clientConfig'[f] = None
               /\ clients'[f] # None =>
                    /\ sent[clients'[f]] = inbox[clients'[f]] + readBuffer[f] + popped[clients'[f]]
                    /\ clientConfig'[f] = arrived[clients'[f]]
    <3>1. ASSUME NEW i \in 1..n, f = at[i]
          PROVE  /\ clients'[f] # None /\ clientConfig'[f] = arrived[clients'[f]]
                 /\ sent[clients'[f]] = inbox[clients'[f]] + readBuffer[f] + popped[clients'[f]]
      <4>1. clients'[f] = q[i] /\ q[i] \in Conns /\ q[i] # None /\ clientConfig'[f] = arrived[q[i]]
        BY <1>2, <1>4, <1>5, <3>1
      <4>2. sent[q[i]] = 0 /\ inbox[q[i]] + popped[q[i]] <= sent[q[i]]
        BY <1>4, <1>5 DEF RequestInv
      <4>3. inbox[q[i]] \in Nat /\ popped[q[i]] \in Nat
        BY <4>1 DEF TypeOK
      <4>4. readBuffer[f] = 0
        BY <1>6, <3>1 DEF RequestInv
      <4>5. QED
        BY <4>1, <4>2, <4>3, <4>4
    <3>2. CASE clients'[f] = clients[f] /\ clientConfig'[f] = clientConfig[f]
      BY <3>2 DEF RequestInv, NothingIsInherited
    <3>3. QED
      BY <1>8, <3>1, <3>2
  <2>2. NothingIsInherited'
    BY <2>1 DEF NothingIsInherited
  <2>3. \A c \in Conns : stage'[c] \in {"new", "queued"} => sent[c] = 0
    BY <1>2 DEF RequestInv
  <2>4. QED
    BY <2>1, <2>2, <2>3 DEF RequestInv
<1>14. SessionInv'
  <2>1. ASSUME NEW f \in Fds, NEW k \in Scripts
        PROVE  /\ table'[f] = WriteEnd(k) <=> table[f] = WriteEnd(k)
               /\ table'[f] = ReadEnd(k) <=> table[f] = ReadEnd(k)
    <3>1. ASSUME NEW i \in 1..n, f = at[i] PROVE table[f] = None /\ table'[f] = ConnFile(q[i]) /\ q[i] \in Conns
      BY <1>2, <1>4, <1>5, <3>1
    <3>2. QED
      BY <1>8, <3>1, FilesDiffer
  <2>2. PipesAreOwned'
    BY <1>10, <2>1, FilesDiffer DEF SessionInv, PipesAreOwned
  <2>3. QED
    BY <2>2 DEF SessionInv
<1>15. RegisteredInv'
  <2>1. \A r \in regs' : r \in regs \/ \E c \in Conns : r.file = ConnFile(c)
    BY <1>2, <1>4, <1>5
  <2>2. QED
    BY <2>1, FilesDiffer DEF RegisteredInv
<1>16. QED
  BY <1>9, <1>11, <1>12, <1>13, <1>14, <1>15, <1>7 DEF IInv, NeverThrows

-----------------------------------------------------------------------------
(* Requests that are received.                                             *)

LEMMA ReceiveRequestEffect ==
  ASSUME IInv, NEW e, NEW c \in Conns, NEW n, ReceiveRequest(e, c, n)
  PROVE  /\ e.fd \in Fds /\ clients[e.fd] = c /\ server = "handling" /\ stop' = stop
         /\ batch' \subseteq Registrations \cup [accept : Listeners]
         /\ <<c, popped[c] + 1>> \in Requests
         /\ inbox' \in [Conns -> 0..MaxRequests] /\ popped' \in [Conns -> 0..MaxRequests]
         /\ readBuffer' \in [Fds -> 0..MaxRequests]
         /\ \A d \in Conns : popped'[d] = IF d = c THEN popped[c] + 1 ELSE popped[d]
         /\ BacklogInv' /\ RequestInv'
<1> TypeOK /\ ServedInv /\ BacklogInv /\ RequestInv
  BY DEF IInv
<1> USE DEF ReceiveRequest
<1>1. e.fd \in Fds /\ clients[e.fd] = c /\ c # None /\ server = "handling" /\ stop' = stop
  BY DEF Reads, ForClient, Takes, Registrations
<1>2. batch' \subseteq Registrations \cup [accept : Listeners]
  BY DEF Reads, ForClient, Takes, TypeOK
<1>3. MaxRequests \in Nat
  BY ConfigAssumption
<1>4. /\ sent[c] \in 0..MaxRequests /\ inbox[c] \in Nat /\ readBuffer[e.fd] \in Nat /\ popped[c] \in Nat
      /\ sent[c] = inbox[c] + readBuffer[e.fd] + popped[c] /\ n \in 0..inbox[c] /\ readBuffer[e.fd] + n > 0
  <2>1. sent[c] = inbox[c] + readBuffer[e.fd] + popped[c]
    BY <1>1 DEF RequestInv, NothingIsInherited
  <2>2. QED
    BY <1>1, <1>3, <2>1 DEF TypeOK
<1>5. /\ popped[c] + 1 \in 1..MaxRequests /\ inbox[c] - n \in 0..MaxRequests
      /\ readBuffer[e.fd] + n - 1 \in 0..MaxRequests
      /\ sent[c] = (inbox[c] - n) + (readBuffer[e.fd] + n - 1) + (popped[c] + 1)
      /\ (inbox[c] - n) + (popped[c] + 1) <= sent[c]
  BY <1>3, <1>4
<1>6. <<c, popped[c] + 1>> \in Requests
  BY <1>5 DEF Requests
<1>7. /\ inbox' = [inbox EXCEPT ![c] = inbox[c] - n]
      /\ readBuffer' = [readBuffer EXCEPT ![e.fd] = readBuffer[e.fd] + n - 1]
      /\ popped' = [popped EXCEPT ![c] = popped[c] + 1]
  OBVIOUS
<1>8. /\ inbox' \in [Conns -> 0..MaxRequests] /\ popped' \in [Conns -> 0..MaxRequests]
      /\ readBuffer' \in [Fds -> 0..MaxRequests]
  <2>1. popped[c] + 1 \in 0..MaxRequests
    BY <1>3, <1>5
  <2>2. inbox' \in [Conns -> 0..MaxRequests]
    BY <1>5, <1>7 DEF TypeOK
  <2>3. popped' \in [Conns -> 0..MaxRequests]
    BY <1>7, <2>1 DEF TypeOK
  <2>4. readBuffer' \in [Fds -> 0..MaxRequests]
    BY <1>5, <1>7 DEF TypeOK
  <2>5. QED
    BY <2>2, <2>3, <2>4
<1>9. /\ \A d \in Conns : inbox'[d] = IF d = c THEN inbox[c] - n ELSE inbox[d]
      /\ \A d \in Conns : popped'[d] = IF d = c THEN popped[c] + 1 ELSE popped[d]
      /\ \A f \in Fds : readBuffer'[f] = IF f = e.fd THEN readBuffer[e.fd] + n - 1 ELSE readBuffer[f]
  BY <1>1, <1>7 DEF TypeOK
<1>10. BacklogInv'
  BY DEF BacklogInv
<1>11. RequestInv'
  <2>1. ASSUME NEW f \in Fds, clients[f] # None
        PROVE  sent[clients[f]] = inbox'[clients[f]] + readBuffer'[f] + popped'[clients[f]]
    <3>1. CASE f = e.fd
      BY <1>1, <1>5, <1>9, <3>1
    <3>2. CASE f # e.fd
      <4>1. clients[f] # c /\ clients[f] \in Conns
        BY <1>1, <2>1, <3>2 DEF ServedInv, TypeOK
      <4>2. sent[clients[f]] = inbox[clients[f]] + readBuffer[f] + popped[clients[f]]
        BY <2>1 DEF RequestInv, NothingIsInherited
      <4>3. QED
        BY <1>9, <3>2, <4>1, <4>2
    <3>3. QED
      BY <3>1, <3>2
  <2>2. NothingIsInherited'
    BY <2>1 DEF RequestInv, NothingIsInherited
  <2>3. \A f \in Fds : clients[f] = None => readBuffer'[f] = 0
    BY <1>1, <1>9 DEF RequestInv
  <2>4. \A d \in Conns : inbox'[d] + popped'[d] <= sent[d]
    BY <1>5, <1>9 DEF RequestInv
  <2>5. QED
    BY <2>2, <2>3, <2>4 DEF RequestInv
<1>12. QED
  BY <1>1, <1>2, <1>6, <1>8, <1>9, <1>10, <1>11

\* Arming changes what is waited for, never what is registered.
LEMMA ArmedEffect ==
  ASSUME NEW R, R \subseteq Registrations, NEW t, NEW S
  PROVE  /\ Armed(R, t, S) \subseteq Registrations
         /\ \A r \in Armed(R, t, S) : \E s \in R : s.fd = r.fd /\ s.file = r.file
         /\ \A s \in R : \E r \in Armed(R, t, S) : s.fd = r.fd /\ s.file = r.file
<1> DEFINE arm(r) == IF r.fd \in S /\ r.file = t[r.fd] THEN [r EXCEPT !.ev = "out"] ELSE r
<1>1. Armed(R, t, S) = {arm(r) : r \in R}
  BY DEF Armed, ModifyFds
<1>2. ASSUME NEW r \in R
      PROVE  arm(r) \in Registrations /\ arm(r).fd = r.fd /\ arm(r).file = r.file
  BY DEF Registrations
<1> HIDE DEF arm
<1>3. QED
  BY <1>1, <1>2

LEMMA AnswerIInv ==
  ASSUME IInv, NEW e, NEW c \in Conns, NEW n, AnswerDirectly(e, c, n)
  PROVE  IInv'
<1> TypeOK /\ ServedInv /\ SessionInv /\ RegisteredInv /\ NeverThrows
  BY DEF IInv
<1> UNCHANGED <<table, clients, clientConfig, sessions, sessionOf, stage, peer, arrived, backlog,
                sent, got, cut, script, inherited, eof>>
  BY DEF AnswerDirectly, ReceiveRequest, cgiVars, scriptVars
<1>1. /\ e.fd \in Fds /\ clients[e.fd] = c /\ server = "handling" /\ stop' = stop
      /\ batch' \subseteq Registrations \cup [accept : Listeners]
      /\ <<c, popped[c] + 1>> \in Requests
      /\ inbox' \in [Conns -> 0..MaxRequests] /\ popped' \in [Conns -> 0..MaxRequests]
      /\ readBuffer' \in [Fds -> 0..MaxRequests]
      /\ BacklogInv' /\ RequestInv'
  BY ReceiveRequestEffect DEF AnswerDirectly
<1>2. /\ regs' \subseteq Registrations
      /\ \A r \in regs' : \E s \in regs : s.fd = r.fd /\ s.file = r.file
      /\ \A s \in regs : \E r \in regs' : s.fd = r.fd /\ s.file = r.file
  <2>1. regs \subseteq Registrations /\ regs' = Armed(regs, table, {e.fd})
    BY DEF AnswerDirectly, TypeOK
  <2>2. QED
    BY <2>1, ArmedEffect
<1>3. \A f \in Fds : MayModify(regs, table, f) => MayModify(regs', table', f)
  BY <1>2 DEF MayModify
<1>4. server' = "handling"
  <2>1. MayModify(regs, table, e.fd)
    BY <1>1 DEF ServedInv, ClientsAreOpen
  <2>2. QED
    BY <1>1, <2>1 DEF AnswerDirectly
<1>5. TypeOK'
  <2>1. Append(writeBuffer[c], <<c, popped[c] + 1>>) \in Seq(Requests)
    BY <1>1 DEF TypeOK
  <2>2. writeBuffer' \in [Conns -> Seq(Requests)]
    BY <2>1 DEF AnswerDirectly, TypeOK
  <2>3. QED
    BY <1>1, <1>2, <1>4, <2>2 DEF TypeOK
<1>6. ServedInv'
  <2>1. ClientsAreOpen'
    BY <1>2, <1>3 DEF ServedInv, ClientsAreOpen
  <2>2. QED
    BY <2>1 DEF ServedInv
<1>7. SessionInv'
  <2>1. PipesAreOwned'
    BY <1>3 DEF SessionInv, PipesAreOwned
  <2>2. QED
    BY <2>1 DEF SessionInv
<1>8. RegisteredInv'
  BY <1>2, RegisteredKept
<1>9. QED
  BY <1>1, <1>4, <1>5, <1>6, <1>7, <1>8 DEF IInv, NeverThrows

\* The two numbers that a script's pipes get are free, and different.
LEMMA StartCgiIInv ==
  ASSUME IInv, NEW e, NEW c \in Conns, NEW n, NEW k \in Scripts, NEW body \in BOOLEAN,
         StartCgi(e, c, n, k, body)
  PROVE  IInv'
<1> TypeOK /\ ServedInv /\ SessionInv /\ RegisteredInv /\ NeverThrows
  BY DEF IInv
<1> UNCHANGED <<clients, clientConfig, stage, peer, arrived, backlog, sent, got, cut,
                writeBuffer, eof>>
  BY DEF StartCgi, ReceiveRequest
<1> DEFINE w == NthFree(table, 2)
           r == NthFree(table, 3)
           ofK == [client |-> e.fd, request |-> <<c, popped[c] + 1>>,
                   w |-> IF body THEN w ELSE NoFd, r |-> r, finished |-> FALSE]
<1>1. /\ e.fd \in Fds /\ clients[e.fd] = c /\ server = "handling" /\ stop' = stop
      /\ batch' \subseteq Registrations \cup [accept : Listeners]
      /\ <<c, popped[c] + 1>> \in Requests
      /\ inbox' \in [Conns -> 0..MaxRequests] /\ popped' \in [Conns -> 0..MaxRequests]
      /\ readBuffer' \in [Fds -> 0..MaxRequests]
      /\ BacklogInv' /\ RequestInv'
  BY ReceiveRequestEffect DEF StartCgi
<1>2. /\ w \in Fds /\ r \in Fds /\ w # r /\ table[w] = None /\ table[r] = None
      /\ w # NoFd /\ r # NoFd
  <2>1. Cardinality(FreeFds(table)) \in Nat /\ Cardinality(FreeFds(table)) >= 4
    BY FreeNumbers DEF StartCgi
  <2>2. 2 \in 1..Cardinality(FreeFds(table)) /\ 3 \in 1..Cardinality(FreeFds(table))
    BY <2>1
  <2>3. QED
    BY <2>2, FreeNumbers, NoFdIsNone
<1>3. /\ script[k] = "new" /\ k \notin Range(sessions)
      /\ sessions' = Append(sessions, k) /\ script' = [script EXCEPT ![k] = "running"]
      /\ inherited' = [inherited EXCEPT ![k] = OpenFiles(table)]
  BY DEF StartCgi, SessionInv
<1>4. \A f \in Fds : table[f] # WriteEnd(k) /\ table[f] # ReadEnd(k)
  <2>1. sessionOf[k].w = NoFd /\ sessionOf[k].r = NoFd
    BY <1>3 DEF SessionInv, NoSession
  <2>2. QED
    BY <2>1, NoFdIsNone DEF SessionInv, PipesAreOwned
<1> HIDE DEF w, r
<1>5. /\ table' \in [Fds -> Files \cup {None}]
      /\ \A f \in Fds : table'[f] = IF body /\ f = w THEN WriteEnd(k)
                                    ELSE IF f = r THEN ReadEnd(k) ELSE table[f]
  <2>1. table' = IF body THEN [[table EXCEPT ![r] = ReadEnd(k)] EXCEPT ![w] = WriteEnd(k)]
                 ELSE [table EXCEPT ![r] = ReadEnd(k)]
    BY DEF StartCgi, w, r
  <2>2. QED
    BY <1>2, <2>1, FilesDiffer DEF TypeOK
<1>6. regs' = regs \cup {[fd |-> r, file |-> ReadEnd(k), ev |-> "in"]}
                   \cup IF body THEN {[fd |-> w, file |-> WriteEnd(k), ev |-> "out"]} ELSE {}
  <2>1. regs' = LET opened == IF body THEN [[table EXCEPT ![r] = ReadEnd(k)] EXCEPT ![w] = WriteEnd(k)]
                              ELSE [table EXCEPT ![r] = ReadEnd(k)]
                    readReg == regs \cup {[fd |-> r, file |-> opened[r], ev |-> "in"]}
                IN IF body THEN readReg \cup {[fd |-> w, file |-> opened[w], ev |-> "out"]} ELSE readReg
    BY DEF StartCgi, AddFd, w, r
  <2>2. QED
    BY <1>2, <2>1 DEF TypeOK
\* No pipe of a script that was never started is registered: nothing is thrown.
<1>7. server' = "handling"
  <2> DEFINE opened  == IF body THEN [[table EXCEPT ![r] = ReadEnd(k)] EXCEPT ![w] = WriteEnd(k)]
                        ELSE [table EXCEPT ![r] = ReadEnd(k)]
             readReg == regs \cup {[fd |-> r, file |-> opened[r], ev |-> "in"]}
  <2>1. server' = IF MayAdd(regs, opened, r) /\ (body => MayAdd(readReg, opened, w))
                  THEN server ELSE "threw"
    BY DEF StartCgi, AddFd, w, r
  <2>2. opened[r] = ReadEnd(k) /\ (body => opened[w] = WriteEnd(k))
    BY <1>2 DEF TypeOK
  <2>3. \A s \in regs : s.file # ReadEnd(k) /\ s.file # WriteEnd(k)
    BY <1>3 DEF RegisteredInv
  <2> HIDE DEF opened
  <2>4. MayAdd(regs, opened, r)
    BY <2>2, <2>3, FilesDiffer DEF MayAdd
  <2>5. body => MayAdd(readReg, opened, w)
    BY <1>2, <2>2, <2>3, FilesDiffer DEF MayAdd
  <2>6. QED
    BY <1>1, <2>1, <2>4, <2>5
<1>8. regs' \subseteq Registrations
  <2>1. /\ [fd |-> r, file |-> ReadEnd(k), ev |-> "in"] \in Registrations
        /\ [fd |-> w, file |-> WriteEnd(k), ev |-> "out"] \in Registrations
    BY <1>2, FilesDiffer DEF Registrations
  <2>2. QED
    BY <1>6, <2>1 DEF TypeOK
<1>9. ASSUME NEW f \in Fds, MayModify(regs, table, f), table[f] # None
      PROVE  MayModify(regs', table', f)
  <2>1. table'[f] = table[f]
    BY <1>2, <1>5, <1>9
  <2>2. QED
    BY <1>6, <1>9, <2>1 DEF MayModify
<1>10. /\ sessions' \in Seq(Scripts) /\ Range(sessions') = Range(sessions) \cup {k}
  <2>1. sessions \in Seq(Scripts)
    BY DEF TypeOK
  <2>2. sessions' \in Seq(Scripts) /\ DOMAIN sessions' = 1..(Len(sessions) + 1)
          /\ sessions'[Len(sessions) + 1] = k
          /\ \A i \in 1..Len(sessions) : sessions'[i] = sessions[i]
    BY <1>3, <2>1
  <2>3. DOMAIN sessions = 1..Len(sessions) /\ Len(sessions) \in Nat
    BY <2>1
  <2>4. \A i \in 1..(Len(sessions) + 1) : i \in 1..Len(sessions) \/ i = Len(sessions) + 1
    BY <2>3
  <2>5. Len(sessions) + 1 \in 1..(Len(sessions) + 1) /\ 1..Len(sessions) \subseteq 1..(Len(sessions) + 1)
    BY <2>3
  <2>6. QED
    BY <2>2, <2>3, <2>4, <2>5 DEF Range
<1>11. /\ sessionOf' = [sessionOf EXCEPT ![k] = ofK]
       /\ ofK \in [client : Fds \cup {NoFd}, request : Requests \cup {None},
                   w : Fds \cup {NoFd}, r : Fds \cup {NoFd}, finished : BOOLEAN]
  BY <1>1, <1>2 DEF StartCgi, w, r
<1>12. /\ ofK.client = e.fd /\ ofK.request = <<c, popped[c] + 1>> /\ ofK.r = r
       /\ ofK.w = IF body THEN w ELSE NoFd
  OBVIOUS
<1> HIDE DEF ofK
<1>13. \A j \in Scripts : sessionOf'[j] = IF j = k THEN ofK ELSE sessionOf[j]
  BY <1>11 DEF TypeOK
<1>14. TypeOK'
  <2>1. OpenFiles(table) \subseteq Files
    BY DEF OpenFiles, TypeOK
  <2>2. inherited' \in [Scripts -> SUBSET Files] /\ script' \in [Scripts -> {"new", "running", "doomed", "dead"}]
    BY <1>3, <2>1 DEF TypeOK
  <2>3. sessionOf' \in [Scripts -> [client : Fds \cup {NoFd}, request : Requests \cup {None},
                                    w : Fds \cup {NoFd}, r : Fds \cup {NoFd}, finished : BOOLEAN]]
    BY <1>11 DEF TypeOK
  <2>4. QED
    BY <1>1, <1>5, <1>8, <1>10, <1>7, <2>2, <2>3 DEF TypeOK
<1>15. ServedInv'
  <2>1. ASSUME NEW f \in Fds, NEW d \in Conns
        PROVE  /\ clients[f] = d <=> table'[f] = ConnFile(d)
               /\ clients[f] = d => MayModify(regs', table', f)
    <3>1. table'[f] = ConnFile(d) <=> table[f] = ConnFile(d)
      BY <1>2, <1>5, FilesDiffer
    <3>2. QED
      BY <1>9, <3>1, FilesDiffer DEF ServedInv, ClientsAreOpen
  <2>2. ASSUME NEW s \in regs', NEW d \in Conns, s.file = ConnFile(d)
        PROVE  table'[s.fd] = s.file
    <3>1. s \in regs
      BY <1>6, <2>2, FilesDiffer
    <3>2. s.fd \in Fds /\ table[s.fd] = s.file /\ s.file # None
      <4>1. s.fd \in Fds
        BY <3>1 DEF TypeOK, Registrations
      <4>2. QED
        BY <2>2, <3>1, <4>1, FilesDiffer DEF ServedInv, ClientsAreOpen
    <3>3. QED
      BY <1>2, <1>5, <3>2
  <2>3. ClientsAreOpen'
    BY <2>1, <2>2 DEF ClientsAreOpen
  <2>4. QED
    BY <2>3 DEF ServedInv
<1>16. SessionInv'
  <2>1. ASSUME NEW f \in Fds, NEW j \in Scripts, j # k
        PROVE  /\ table'[f] = WriteEnd(j) <=> table[f] = WriteEnd(j)
               /\ table'[f] = ReadEnd(j) <=> table[f] = ReadEnd(j)
    BY <1>2, <1>5, <2>1, FilesDiffer
  <2>2. ASSUME NEW f \in Fds
        PROVE  /\ table'[f] = WriteEnd(k) <=> ofK.w = f
               /\ table'[f] = ReadEnd(k) <=> ofK.r = f
               /\ ofK.r = f => MayModify(regs', table', f)
    <3>1. table'[f] = WriteEnd(k) <=> body /\ f = w
      BY <1>2, <1>4, <1>5, FilesDiffer
    <3>2. table'[f] = ReadEnd(k) <=> f = r
      BY <1>2, <1>4, <1>5, FilesDiffer
    <3>3. [fd |-> r, file |-> ReadEnd(k), ev |-> "in"] \in regs'
      BY <1>6
    <3>4. f # NoFd
      BY NoFdIsNone
    <3>5. QED
      BY <1>12, <3>1, <3>2, <3>3, <3>4 DEF MayModify
  <2>3. PipesAreOwned'
    <3> SUFFICES ASSUME NEW f \in Fds, NEW j \in Scripts
                 PROVE  /\ table'[f] = WriteEnd(j) <=> sessionOf'[j].w = f
                        /\ table'[f] = ReadEnd(j) <=> sessionOf'[j].r = f
                        /\ sessionOf'[j].r = f => j \in Range(sessions') /\ MayModify(regs', table', f)
      BY DEF PipesAreOwned
    <3>1. CASE j = k
      BY <1>10, <1>13, <2>2, <3>1
    <3>2. CASE j # k
      BY <1>9, <1>10, <1>13, <2>1, <3>2, FilesDiffer DEF SessionInv, PipesAreOwned
    <3>3. QED
      BY <3>1, <3>2
  <2>4. ASSUME NEW j \in Scripts
        PROVE  IF j \in Range(sessions')
               THEN /\ sessionOf'[j].client \in Fds /\ sessionOf'[j].request \in Requests
                    /\ script'[j] # "new"
               ELSE sessionOf'[j] = NoSession
    <3>1. CASE j = k
      <4>1. script'[k] = "running"
        BY <1>3 DEF TypeOK
      <4>2. QED
        BY <1>1, <1>10, <1>12, <1>13, <3>1, <4>1
    <3>2. CASE j # k
      <4>1. script'[j] = script[j] /\ sessionOf'[j] = sessionOf[j]
        BY <1>3, <1>13, <3>2 DEF TypeOK
      <4>2. j \in Range(sessions') <=> j \in Range(sessions)
        BY <1>10, <3>2
      <4>3. QED
        BY <4>1, <4>2 DEF SessionInv
    <3>3. QED
      BY <3>1, <3>2
  <2>5. QED
    BY <2>3, <2>4 DEF SessionInv
<1>17. RegisteredInv'
  <2>1. \A s \in regs' : s \in regs \/ s.file = ReadEnd(k) \/ s.file = WriteEnd(k)
    BY <1>6
  <2>2. \A j \in Scripts : script'[j] = IF j = k THEN "running" ELSE script[j]
    BY <1>3 DEF TypeOK
  <2>3. QED
    BY <2>1, <2>2, FilesDiffer DEF RegisteredInv
<1>18. QED
  BY <1>1, <1>14, <1>15, <1>16, <1>17, <1>7 DEF IInv, NeverThrows

-----------------------------------------------------------------------------
(* Pipes that are closed at the end of the body or of the output.          *)

LEMMA PipeClosesIInv ==
  ASSUME IInv, NEW e, NEW k \in Scripts, CgiBodySent(e, k) \/ CgiOutputEnds(e, k)
  PROVE  IInv'
<1> TypeOK /\ ServedInv /\ BacklogInv /\ RequestInv /\ SessionInv /\ RegisteredInv /\ NeverThrows
  BY DEF IInv
<1> UNCHANGED <<server, clients, clientConfig, readBuffer, writeBuffer, sessions, script, eof,
                inherited, stop, stage, peer, arrived, backlog, sent, inbox, popped, got, cut>>
  BY DEF CgiBodySent, CgiOutputEnds, ToWriteEnd, ToReadEnd, ForScript, Takes, WriteEndCloses,
         managerVars, peerVars, scriptVars
<1>1. /\ e.fd \in Fds /\ k \in Range(sessions) /\ Release({}, {e.fd})
      /\ batch' \subseteq Registrations \cup [accept : Listeners]
  BY DEF CgiBodySent, CgiOutputEnds, ToWriteEnd, ToReadEnd, ForScript, Takes, WriteEndCloses,
         Registrations, TypeOK
<1>2. \/ table[e.fd] = WriteEnd(k) /\ sessionOf' = [sessionOf EXCEPT ![k].w = NoFd]
      \/ table[e.fd] = ReadEnd(k) /\ sessionOf' = [sessionOf EXCEPT ![k].r = NoFd, ![k].finished = TRUE]
  <2>1. CASE CgiBodySent(e, k)
    BY <1>1, <2>1 DEF CgiBodySent, ToWriteEnd, WriteEndCloses, SessionInv, PipesAreOwned
  <2>2. CASE CgiOutputEnds(e, k)
    BY <1>1, <2>2 DEF CgiOutputEnds, ToReadEnd, SessionInv, PipesAreOwned
  <2>3. QED
    BY <2>1, <2>2
<1>3. /\ table' \in [Fds -> Files \cup {None}]
      /\ \A f \in Fds : table'[f] = IF f = e.fd THEN None ELSE table[f]
      /\ regs' \subseteq regs
      /\ \A f \in Fds : f # e.fd /\ MayModify(regs, table, f) => MayModify(regs', table', f)
  BY <1>1, ReleaseEffect
<1>4. /\ sessionOf' \in [Scripts -> [client : Fds \cup {NoFd}, request : Requests \cup {None},
                                     w : Fds \cup {NoFd}, r : Fds \cup {NoFd}, finished : BOOLEAN]]
      /\ sessionOf'[k].client = sessionOf[k].client /\ sessionOf'[k].request = sessionOf[k].request
      /\ sessionOf'[k].w = IF table[e.fd] = WriteEnd(k) THEN NoFd ELSE sessionOf[k].w
      /\ sessionOf'[k].r = IF table[e.fd] = ReadEnd(k) THEN NoFd ELSE sessionOf[k].r
      /\ \A j \in Scripts : j # k => sessionOf'[j] = sessionOf[j]
  <2> DEFINE Entry == [client : Fds \cup {NoFd}, request : Requests \cup {None},
                       w : Fds \cup {NoFd}, r : Fds \cup {NoFd}, finished : BOOLEAN]
  <2>0. sessionOf \in [Scripts -> Entry] /\ sessionOf[k] \in Entry
    BY DEF TypeOK
  <2>1. CASE table[e.fd] = WriteEnd(k) /\ sessionOf' = [sessionOf EXCEPT ![k].w = NoFd]
    <3> DEFINE new == [sessionOf[k] EXCEPT !.w = NoFd]
    <3>1. /\ new \in Entry /\ new.client = sessionOf[k].client /\ new.request = sessionOf[k].request
          /\ new.w = NoFd /\ new.r = sessionOf[k].r
      BY <2>0
    <3>2. sessionOf' = [sessionOf EXCEPT ![k] = new] /\ table[e.fd] # ReadEnd(k)
      BY <2>1, FilesDiffer
    <3> HIDE DEF new, Entry
    <3>3. QED
      BY <2>0, <2>1, <3>1, <3>2 DEF Entry
  <2>2. CASE table[e.fd] = ReadEnd(k) /\ sessionOf' = [sessionOf EXCEPT ![k].r = NoFd, ![k].finished = TRUE]
    <3> DEFINE new == [sessionOf[k] EXCEPT !.r = NoFd, !.finished = TRUE]
    <3>1. /\ new \in Entry /\ new.client = sessionOf[k].client /\ new.request = sessionOf[k].request
          /\ new.r = NoFd /\ new.w = sessionOf[k].w
      BY <2>0
    <3>2. /\ sessionOf' = [sessionOf EXCEPT ![k] = new]
          /\ table[e.fd] = ReadEnd(k) /\ table[e.fd] # WriteEnd(k)
      BY <2>0, <2>2, FilesDiffer
    <3> HIDE DEF new, Entry
    <3>3. QED
      BY <2>0, <3>1, <3>2 DEF Entry
  <2>3. QED
    BY <1>2, <2>1, <2>2
<1>5. TypeOK'
  BY <1>1, <1>3, <1>4 DEF TypeOK
<1>6. ServedInv'
  <2>1. ASSUME NEW f \in Fds, NEW d \in Conns
        PROVE  /\ clients[f] = d <=> table'[f] = ConnFile(d)
               /\ clients[f] = d => MayModify(regs', table', f)
    <3>1. table[f] = ConnFile(d) => f # e.fd
      BY <1>2, FilesDiffer
    <3>2. table'[f] = ConnFile(d) <=> table[f] = ConnFile(d)
      BY <1>3, <3>1, FilesDiffer
    <3>3. QED
      BY <1>3, <3>1, <3>2 DEF ServedInv, ClientsAreOpen
  <2>2. ASSUME NEW s \in regs', NEW d \in Conns, s.file = ConnFile(d)
        PROVE  table'[s.fd] = s.file
    <3>1. s \in regs /\ s.fd \in Fds
      BY <1>3 DEF TypeOK, Registrations
    <3>2. table[s.fd] = s.file
      BY <2>2, <3>1 DEF ServedInv, ClientsAreOpen
    <3>3. s.fd # e.fd
      BY <1>2, <2>2, <3>2, FilesDiffer
    <3>4. QED
      BY <1>3, <3>1, <3>2, <3>3
  <2>3. ClientsAreOpen'
    BY <2>1, <2>2 DEF ClientsAreOpen
  <2>4. QED
    BY <2>3 DEF ServedInv
<1>7. BacklogInv' /\ RequestInv'
  BY DEF BacklogInv, RequestInv, NothingIsInherited
<1>8. SessionInv'
  <2>1. PipesAreOwned'
    <3> SUFFICES ASSUME NEW f \in Fds, NEW j \in Scripts
                 PROVE  /\ table'[f] = WriteEnd(j) <=> sessionOf'[j].w = f
                        /\ table'[f] = ReadEnd(j) <=> sessionOf'[j].r = f
                        /\ sessionOf'[j].r = f => j \in Range(sessions) /\ MayModify(regs', table', f)
      BY DEF PipesAreOwned
    <3>1. /\ table[f] = WriteEnd(j) <=> sessionOf[j].w = f
          /\ table[f] = ReadEnd(j) <=> sessionOf[j].r = f
          /\ sessionOf[j].r = f => j \in Range(sessions) /\ MayModify(regs, table, f)
      BY DEF SessionInv, PipesAreOwned
    <3>2. CASE f = e.fd
      <4>1. table'[f] = None
        BY <1>3, <3>2
      <4>2. CASE j = k
        <5>1. sessionOf'[j].w # f
          BY <1>4, <3>1, <3>2, <4>2, NoFdIsNone
        <5>2. sessionOf'[j].r # f
          BY <1>4, <3>1, <3>2, <4>2, NoFdIsNone
        <5>3. QED
          BY <4>1, <5>1, <5>2, FilesDiffer
      <4>3. CASE j # k
        BY <1>2, <1>4, <3>1, <3>2, <4>1, <4>3, FilesDiffer
      <4>4. QED
        BY <4>2, <4>3
    <3>3. CASE f # e.fd
      <4>1. table'[f] = table[f]
        BY <1>3, <3>3
      <4>2. CASE j = k
        <5>1. sessionOf'[j].w = f <=> sessionOf[j].w = f
          <6>1. CASE table[e.fd] = WriteEnd(k)
            <7>1. sessionOf[k].w = e.fd
              BY <1>1, <6>1 DEF SessionInv, PipesAreOwned
            <7>2. QED
              BY <1>4, <3>3, <4>2, <6>1, <7>1, NoFdIsNone
          <6>2. QED
            BY <1>4, <4>2, <6>1
        <5>2. sessionOf'[j].r = f <=> sessionOf[j].r = f
          <6>1. CASE table[e.fd] = ReadEnd(k)
            <7>1. sessionOf[k].r = e.fd
              BY <1>1, <6>1 DEF SessionInv, PipesAreOwned
            <7>2. QED
              BY <1>4, <3>3, <4>2, <6>1, <7>1, NoFdIsNone
          <6>2. QED
            BY <1>4, <4>2, <6>1
        <5>3. QED
          BY <1>3, <3>1, <3>3, <4>1, <5>1, <5>2
      <4>3. CASE j # k
        BY <1>3, <1>4, <3>1, <3>3, <4>1, <4>3
      <4>4. QED
        BY <4>2, <4>3
    <3>4. QED
      BY <3>2, <3>3
  <2>2. \A j \in Scripts :
          IF j \in Range(sessions)
          THEN sessionOf'[j].client \in Fds /\ sessionOf'[j].request \in Requests /\ script[j] # "new"
          ELSE sessionOf'[j] = NoSession
    BY <1>1, <1>4 DEF SessionInv
  <2>3. QED
    BY <2>1, <2>2 DEF SessionInv
<1>9. RegisteredInv'
  BY <1>3, RegisteredKept
<1>10. QED
  BY <1>5, <1>6, <1>7, <1>8, <1>9 DEF IInv, NeverThrows

-----------------------------------------------------------------------------
(* The end of a batch.                                                     *)

\* Whoever is answered is there, under a registered number: nothing is thrown.
LEMMA DispatchEffect ==
  ASSUME IInv, NEW E \in SUBSET Scripts, DispatchCgiResponses(E)
  PROVE  /\ SessionInv' /\ server' \in {"entering", "stopped"}
         /\ sessions' \in Seq(Scripts) /\ Range(sessions') = Range(sessions) \ E
         /\ E \subseteq Range(sessions)
         /\ \A k \in Scripts \ E : sessionOf'[k] = sessionOf[k]
         /\ sessionOf' \in [Scripts -> [client : Fds \cup {NoFd}, request : Requests \cup {None},
                                        w : Fds \cup {NoFd}, r : Fds \cup {NoFd}, finished : BOOLEAN]]
         /\ script' \in [Scripts -> {"new", "running", "doomed", "dead"}]
         /\ table' \in [Fds -> Files \cup {None}] /\ regs' \subseteq Registrations
         /\ \A f \in Fds, d \in Conns : table'[f] = ConnFile(d) <=> table[f] = ConnFile(d)
         /\ \A r \in regs' : \E s \in regs : s.fd = r.fd /\ s.file = r.file
         /\ \A f \in Fds, d \in Conns : table[f] = ConnFile(d) /\ MayModify(regs, table, f)
                                          => MayModify(regs', table', f)
         /\ writeBuffer' \in [Conns -> Seq(Requests)]
         /\ \A d \in Conns : \A a \in Range(writeBuffer'[d]) :
              \/ a \in Range(writeBuffer[d])
              \/ \E k \in E : clients[sessionOf[k].client] = d /\ a = sessionOf[k].request
<1> TypeOK /\ ServedInv /\ SessionInv
  BY DEF IInv
<1> DEFINE gone == UNION {PipeFds(k) : k \in E}
           removed == UNION {PipeFds(k) : k \in {j \in E : sessionOf[j].finished}}
           t == CloseFds(table, gone)
           kept == Prune(RemoveFds(regs, table, removed), OpenFiles(t) \cup HeldByScripts)
           answered == {k \in E : HasClient(k)}
           armed == Armed(kept, t, {sessionOf[k].client : k \in answered})
           answersTo(d) == Only(sessions, {k \in E : clients[sessionOf[k].client] = d})
<1>1. /\ E \subseteq Range(sessions) /\ table' = t /\ regs' = armed
      /\ sessions' = Only(sessions, Scripts \ E) /\ Forget(E) /\ Doom(E)
      /\ server' = IF \A k \in answered : MayModify(kept, t, sessionOf[k].client)
                   THEN IF stop THEN "stopped" ELSE "entering" ELSE "threw"
      /\ writeBuffer' = [d \in Conns |-> writeBuffer[d] \o
                           [i \in DOMAIN answersTo(d) |-> sessionOf[answersTo(d)[i]].request]]
  BY DEF DispatchCgiResponses
<1>2. gone \in SUBSET Fds /\ removed \subseteq gone /\ \A k \in E : PipeFds(k) \subseteq gone
  BY PipesByNumber
<1>3. \A f \in gone : \E k \in E : table[f] = WriteEnd(k) \/ table[f] = ReadEnd(k)
  <2>1. ASSUME NEW k \in E, NEW f \in PipeFds(k) PROVE table[f] = WriteEnd(k) \/ table[f] = ReadEnd(k)
    BY PipesByNumber
  <2>2. QED
    BY <2>1
<1>4. /\ t \in [Fds -> Files \cup {None}]
      /\ \A f \in Fds : t[f] = IF f \in gone THEN None ELSE table[f]
      /\ kept \subseteq regs
      /\ \A f \in Fds : f \notin gone \cup removed /\ MayModify(regs, table, f) => MayModify(kept, t, f)
  <2> HIDE DEF gone, removed
  <2>1. QED
    BY CloseEffect
<1>5. kept \subseteq Registrations
  BY <1>4 DEF TypeOK
<1>6. /\ armed \subseteq Registrations
      /\ \A r \in armed : \E s \in kept : s.fd = r.fd /\ s.file = r.file
      /\ \A s \in kept : \E r \in armed : s.fd = r.fd /\ s.file = r.file
  <2> DEFINE S == {sessionOf[k].client : k \in answered}
  <2>1. armed = Armed(kept, t, S)
    OBVIOUS
  <2> HIDE DEF kept, t, S, armed
  <2>2. QED
    BY <1>5, <2>1, ArmedEffect
<1> HIDE DEF gone, removed, t, kept, armed
<1>7. ASSUME NEW f \in Fds, f \notin gone, MayModify(regs, table, f)
      PROVE  MayModify(regs', table', f)
  <2>1. f \notin gone \cup removed
    BY <1>2, <1>7
  <2>2. PICK r \in kept : r.fd = f /\ r.file = table[f]
    BY <1>4, <1>7, <2>1 DEF MayModify
  <2>3. PICK s \in armed : s.fd = f /\ s.file = table[f]
    BY <1>6, <2>2
  <2>4. table'[f] = table[f]
    BY <1>1, <1>2, <1>4, <1>7
  <2>5. QED
    BY <1>1, <2>3, <2>4 DEF MayModify
<1>8. \A f \in gone, k \in Scripts \ E : table[f] # WriteEnd(k) /\ table[f] # ReadEnd(k)
  BY <1>3, FilesDiffer
<1>9. \A f \in gone, d \in Conns : table[f] # ConnFile(d)
  BY <1>3, FilesDiffer
<1>10. \A f \in Fds : table'[f] = IF f \in gone THEN None ELSE table[f]
  BY <1>1, <1>4
<1>11. /\ SessionInv'
       /\ sessions' \in Seq(Scripts) /\ Range(sessions') = Range(sessions) \ E
       /\ sessionOf' \in [Scripts -> [client : Fds \cup {NoFd}, request : Requests \cup {None},
                                      w : Fds \cup {NoFd}, r : Fds \cup {NoFd}, finished : BOOLEAN]]
       /\ script' \in [Scripts -> {"new", "running", "doomed", "dead"}]
       /\ \A k \in Scripts \ E : sessionOf'[k] = sessionOf[k]
  BY <1>1, <1>2, <1>7, <1>8, <1>10, SessionsRemoved
<1>12. \A k \in E : sessionOf[k].client \in Fds /\ sessionOf[k].request \in Requests
  BY <1>1 DEF SessionInv
<1>13. ASSUME NEW k \in answered PROVE MayModify(kept, t, sessionOf[k].client)
  <2> DEFINE f == sessionOf[k].client
  <2>1. f \in Fds /\ clients[f] # None
    BY <1>12 DEF HasClient
  <2> HIDE DEF f
  <2>2. PICK d \in Conns : clients[f] = d
    BY <2>1 DEF TypeOK
  <2>3. table[f] = ConnFile(d) /\ MayModify(regs, table, f)
    BY <2>1, <2>2 DEF ServedInv, ClientsAreOpen
  <2>4. f \notin gone \cup removed
    BY <1>2, <1>9, <2>1, <2>3
  <2>5. QED
    BY <1>4, <2>1, <2>3, <2>4 DEF f
<1>14. server' \in {"entering", "stopped"}
  BY <1>1, <1>13
<1>15. ASSUME NEW d \in Conns
       PROVE  /\ writeBuffer'[d] \in Seq(Requests)
              /\ \A a \in Range(writeBuffer'[d]) :
                   \/ a \in Range(writeBuffer[d])
                   \/ \E k \in E : clients[sessionOf[k].client] = d /\ a = sessionOf[k].request
  <2> DEFINE to == {k \in E : clients[sessionOf[k].client] = d}
             ks == Only(sessions, to)
             as == [i \in DOMAIN ks |-> sessionOf[ks[i]].request]
             b  == writeBuffer[d]
  <2>1. ks \in Seq(Scripts) /\ Range(ks) = Range(sessions) \cap to
    <3>1. sessions \in Seq(Scripts)
      BY DEF TypeOK
    <3> HIDE DEF to
    <3>2. QED
      BY <3>1, OnlyKeeps
  <2>2. writeBuffer'[d] = b \o as
    BY <1>1
  <2>3. b \in Seq(Requests)
    BY DEF TypeOK
  <2> HIDE DEF ks, b
  <2>4. DOMAIN ks = 1..Len(ks) /\ Len(ks) \in Nat
    BY <2>1
  <2>5. \A i \in 1..Len(ks) : ks[i] \in to
    BY <2>1, <2>4 DEF Range
  <2>6. as \in Seq(Requests) /\ Len(as) = Len(ks) /\ \A i \in 1..Len(ks) : as[i] = sessionOf[ks[i]].request
    <3>1. \A i \in 1..Len(ks) : sessionOf[ks[i]].request \in Requests
      BY <1>12, <2>5
    <3>2. as = [i \in 1..Len(ks) |-> sessionOf[ks[i]].request]
      BY <2>4
    <3> HIDE DEF as
    <3>3. QED
      BY <2>4, <3>1, <3>2
  <2>7. \A i \in 1..Len(as) : \E k \in E : clients[sessionOf[k].client] = d /\ as[i] = sessionOf[k].request
    BY <2>5, <2>6
  <2> HIDE DEF as, to
  <2>8. b \o as \in Seq(Requests) /\ Range(b \o as) = Range(b) \cup Range(as)
    BY <2>3, <2>6, ConcatParts, ZenonT(60)
  <2>9. \A a \in Range(as) : \E k \in E : clients[sessionOf[k].client] = d /\ a = sessionOf[k].request
    <3>0. as \in Seq(Requests)
      BY <2>6
    <3>1. DOMAIN as = 1..Len(as)
      BY <3>0, LenProperties, Zenon
    <3>2. QED
      BY <2>7, <3>1, ZenonT(60) DEF Range
  <2>10. QED
    BY <2>2, <2>8, <2>9 DEF b
<1>16. writeBuffer' \in [Conns -> Seq(Requests)]
  <2>1. writeBuffer' = [d \in Conns |-> writeBuffer'[d]]
    BY <1>1
  <2>2. \A d \in Conns : writeBuffer'[d] \in Seq(Requests)
    BY <1>15
  <2>3. QED
    BY <2>1, <2>2
<1>17. /\ table' \in [Fds -> Files \cup {None}] /\ regs' \subseteq Registrations
       /\ \A r \in regs' : \E s \in regs : s.fd = r.fd /\ s.file = r.file
  BY <1>1, <1>4, <1>6
<1>18. /\ \A f \in Fds, d \in Conns : table'[f] = ConnFile(d) <=> table[f] = ConnFile(d)
       /\ \A f \in Fds, d \in Conns : table[f] = ConnFile(d) /\ MayModify(regs, table, f)
                                        => MayModify(regs', table', f)
  BY <1>7, <1>9, <1>10, FilesDiffer
<1>19. E \subseteq Range(sessions)
  BY <1>1
<1>20. \A d \in Conns : \A a \in Range(writeBuffer'[d]) :
         \/ a \in Range(writeBuffer[d])
         \/ \E k \in E : clients[sessionOf[k].client] = d /\ a = sessionOf[k].request
  BY <1>15
<1>21. QED
  BY <1>11, <1>14, <1>16, <1>17, <1>18, <1>19, <1>20

LEMMA DispatchIInv ==
  ASSUME IInv, NEW E \in SUBSET Scripts, DispatchCgiResponses(E)
  PROVE  IInv'
<1> TypeOK /\ ServedInv /\ BacklogInv /\ RequestInv /\ RegisteredInv
  BY DEF IInv
<1> UNCHANGED <<batch, stop, clients, clientConfig, readBuffer, stage, peer, arrived, backlog,
                sent, inbox, popped, got, cut, inherited, eof>>
  BY DEF DispatchCgiResponses, peerVars
<1>1. /\ SessionInv' /\ server' \in {"entering", "stopped"} /\ sessions' \in Seq(Scripts)
      /\ sessionOf' \in [Scripts -> [client : Fds \cup {NoFd}, request : Requests \cup {None},
                                     w : Fds \cup {NoFd}, r : Fds \cup {NoFd}, finished : BOOLEAN]]
      /\ script' \in [Scripts -> {"new", "running", "doomed", "dead"}]
      /\ table' \in [Fds -> Files \cup {None}] /\ regs' \subseteq Registrations
      /\ \A f \in Fds, d \in Conns : table'[f] = ConnFile(d) <=> table[f] = ConnFile(d)
      /\ \A r \in regs' : \E s \in regs : s.fd = r.fd /\ s.file = r.file
      /\ \A f \in Fds, d \in Conns : table[f] = ConnFile(d) /\ MayModify(regs, table, f)
                                       => MayModify(regs', table', f)
      /\ writeBuffer' \in [Conns -> Seq(Requests)]
  BY DispatchEffect
<1>2. TypeOK'
  BY <1>1 DEF TypeOK
<1>3. ServedInv'
  <2>1. ASSUME NEW f \in Fds, NEW d \in Conns
        PROVE  /\ clients[f] = d <=> table'[f] = ConnFile(d)
               /\ clients[f] = d => MayModify(regs', table', f)
    BY <1>1 DEF ServedInv, ClientsAreOpen
  <2>2. ASSUME NEW r \in regs', NEW d \in Conns, r.file = ConnFile(d)
        PROVE  table'[r.fd] = r.file
    <3>1. PICK s \in regs : s.fd = r.fd /\ s.file = r.file
      BY <1>1
    <3>2. r.fd \in Fds /\ table[r.fd] = ConnFile(d)
      BY <1>1, <2>2, <3>1, SMTT(30) DEF ServedInv, ClientsAreOpen, Registrations
    <3>3. QED
      BY <1>1, <2>2, <3>2
  <2>3. ClientsAreOpen'
    BY <2>1, <2>2 DEF ClientsAreOpen
  <2>4. QED
    BY <2>3 DEF ServedInv
<1>4. BacklogInv' /\ RequestInv'
  BY DEF BacklogInv, RequestInv, NothingIsInherited
<1>5. RegisteredInv'
  BY <1>1, RegisteredKept DEF DispatchCgiResponses, Doom
<1>6. QED
  BY <1>1, <1>2, <1>3, <1>4, <1>5 DEF IInv, NeverThrows

-----------------------------------------------------------------------------
(* Every step.                                                             *)

LEMMA HandleEventIInv ==
  ASSUME IInv, HandleEvent
  PROVE  IInv'
<1>1. CASE \E l \in Listeners : AcceptNewClients(l)
  BY <1>1, AcceptIInv
<1>2. ASSUME NEW e \in batch, DropEvent(e) \/ IgnoreHangUp(e)
      PROVE  IInv'
  BY <1>2, HandledOnly DEF DropEvent, IgnoreHangUp, ForClient
<1>3. ASSUME NEW e \in batch, NEW c \in Conns,
             ReceiveFails(e, c) \/ ReceivePart(e, c) \/ FlushFails(e, c)
      PROVE  IInv'
  BY <1>3, HandledOnly DEF ReceiveFails, ReceivePart, Reads, FlushFails, Writes, ForClient
<1>4. ASSUME NEW e \in batch, NEW c \in Conns,
             ReceiveEnd(e, c) \/ FlushAll(e, c) \/ FlushPart(e, c)
      PROVE  IInv'
  BY <1>4, ReceiveEndIInv, FlushIInv
<1>5. ASSUME NEW e \in batch, NEW c \in Conns, NEW n \in 0..MaxRequests, AnswerDirectly(e, c, n)
      PROVE  IInv'
  BY <1>5, AnswerIInv
<1>6. ASSUME NEW e \in batch, NEW c \in Conns, NEW n \in 0..MaxRequests, NEW k \in Scripts,
             NEW body \in {FALSE, BodyAllowed}, StartCgi(e, c, n, k, body)
      PROVE  IInv'
  <2>1. body \in BOOLEAN
    BY ConfigAssumption
  <2>2. QED
    BY <1>6, <2>1, StartCgiIInv
<1>7. ASSUME NEW e \in batch, NEW k \in Scripts, CgiBodySent(e, k) \/ CgiOutputEnds(e, k)
      PROVE  IInv'
  BY <1>7, PipeClosesIInv
<1>8. ASSUME NEW e \in batch, NEW k \in Scripts, CgiBodyPending(e, k) \/ CgiEventIgnored(e, k)
      PROVE  IInv'
  BY <1>8, HandledOnly DEF CgiBodyPending, ToWriteEnd, CgiEventIgnored, ForScript
<1>9. QED
  BY <1>1, <1>2, <1>3, <1>4, <1>5, <1>6, <1>7, <1>8 DEF HandleEvent

LEMMA NextIInv == IInv /\ [Next]_vars => IInv'
<1> SUFFICES ASSUME IInv, [Next]_vars PROVE IInv'
  OBVIOUS
<1>1. CASE UNCHANGED vars
  <2>1. /\ UNCHANGED <<kernelVars, managerVars, cgiVars, peerVars, scriptVars>>
        /\ server' = server /\ batch' = batch /\ stop' = stop
    BY <1>1 DEF vars, loopVars
  <2>2. server \in {"entering", "blocked", "handling", "stopped", "killed"}
    BY DEF IInv, TypeOK, NeverThrows
  <2>3. batch \subseteq Registrations \cup [accept : Listeners] /\ stop \in BOOLEAN
    BY DEF IInv, TypeOK
  <2>4. QED
    BY <2>1, <2>2, <2>3, LoopOnly
<1>2. CASE EnterWait \/ WaitReturns \/ StopSignal
  BY <1>2, WaitingIInv
<1>3. CASE HandleEvent
  BY <1>3, HandleEventIInv
<1>4. CASE EndBatch
  BY <1>4, DispatchIInv DEF EndBatch
<1>5. CASE PeerStep
  BY <1>5, PeerIInv
<1>6. CASE ScriptStep
  BY <1>6, ScriptIInv DEF ScriptStep
<1>7. QED
  BY <1>1, <1>2, <1>3, <1>4, <1>5, <1>6 DEF Next, LoopStep

\* The invariant holds of every run of the server.
THEOREM SpecIInv == Spec => []IInv
BY InitIInv, NextIInv, PTL DEF Spec

\* Every variable keeps its type, however many connections, scripts and
\* descriptors there are.
THEOREM SpecTypeOK == Spec => []TypeOK
<1>1. IInv => TypeOK
  BY DEF IInv
<1>2. QED
  BY SpecIInv, <1>1, PTL

\* ConnectionManager's table of clients agrees with the kernel: a number serves a
\* connection exactly while it denotes that connection's socket, which is then
\* registered, and no registration of a socket outlives its number.
THEOREM SpecClientsAreOpen == Spec => []ClientsAreOpen
<1>1. IInv => ClientsAreOpen
  BY DEF IInv, ServedInv
<1>2. QED
  BY SpecIInv, <1>1, PTL

\* CgiOrchestrator leaks no pipe: each end the server holds belongs to a listed
\* session that knows its number.
THEOREM SpecPipesAreOwned == Spec => []PipesAreOwned
<1>1. IInv => PipesAreOwned
  BY DEF IInv, SessionInv
<1>2. QED
  BY SpecIInv, <1>1, PTL

\* What ConnectionManager keeps for a number is that of the client it serves: no
\* byte of an earlier client is taken for a request, and none is lost.
THEOREM SpecNothingIsInherited == Spec => []NothingIsInherited
<1>1. IInv => NothingIsInherited
  BY DEF IInv, RequestInv
<1>2. QED
  BY SpecIInv, <1>1, PTL

\* Neither EpollManager::addFd nor EpollManager::modifyFd throws out of Server::run.
THEOREM SpecNeverThrows == Spec => []NeverThrows
<1>1. IInv => NeverThrows
  BY DEF IInv
<1>2. QED
  BY SpecIInv, <1>1, PTL
=============================================================================
