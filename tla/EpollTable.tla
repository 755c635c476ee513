----------------------------- MODULE EpollTable -----------------------------
(***************************************************************************)
(* The descriptors of the server process, the files behind them, and the   *)
(* registrations that EpollManager makes.                                  *)
(*                                                                         *)
(* A descriptor is a number, a file is what the number denotes now.  epoll *)
(* keys a registration by both, reports the number it was given, and drops *)
(* a registration when the last descriptor of its file, in this process or *)
(* in one forked from it, is closed.                                       *)
(***************************************************************************)
EXTENDS Selections

CONSTANTS
  MaxFd,     \* bound: the largest descriptor number, as the limit RLIMIT_NOFILE sets one
  Conns,     \* connections, each used once
  Scripts,   \* CGI processes, each used once
  None       \* a descriptor or an entry that denotes nothing

Fds  == 0..MaxFd
NoFd == -1

ConnFile(c)  == <<"conn", c>>   \* the socket of a connection
WriteEnd(k)  == <<"write", k>>  \* _pipeToChild[1]
ReadEnd(k)   == <<"read", k>>   \* _pipeFromChild[0]

Files == {ConnFile(c) : c \in Conns} \cup {WriteEnd(k) : k \in Scripts}
                                     \cup {ReadEnd(k) : k \in Scripts}

ASSUME NoneAssumption == None \notin Conns \cup Files

Registrations == [fd : Fds, file : Files, ev : {"in", "out"}]

\* POSIX: a new descriptor is the lowest free one.
FreeFds(t)    == {f \in Fds : t[f] = None}
NthFree(t, n) == NthLeast(FreeFds(t), n)

OpenFiles(t) == {t[f] : f \in Fds} \ {None}

\* addFd: EPOLL_CTL_ADD fails for a file that is registered under this number.
MayAdd(R, t, fd)  == t[fd] # None /\ ~\E r \in R : r.fd = fd /\ r.file = t[fd]
AddFd(R, t, fd, ev) == R \cup {[fd |-> fd, file |-> t[fd], ev |-> ev]}

\* modifyFd: EPOLL_CTL_MOD fails for a file that is not.
MayModify(R, t, fd)    == \E r \in R : r.fd = fd /\ r.file = t[fd]
ModifyFds(R, t, S, ev) ==
  {IF r.fd \in S /\ r.file = t[r.fd] THEN [r EXCEPT !.ev = ev] ELSE r : r \in R}

\* removeFd: nothing happens for a number that is closed.
RemoveFds(R, t, S) == {r \in R : ~(r.fd \in S /\ r.file = t[r.fd])}

CloseFds(t, S) == [f \in Fds |-> IF f \in S THEN None ELSE t[f]]

\* The kernel drops the registrations of files that nobody has open.
Prune(R, opened) == {r \in R : r.file \in opened}
=============================================================================
