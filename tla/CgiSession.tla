----------------------------- MODULE CgiSession -----------------------------
(***************************************************************************)
(* One CGI request: the CgiProcessExecutor and its entry in the            *)
(* CgiOrchestrator's session list, the event loop that drives them, and    *)
(* the script, its two pipes and the clock, which the kernel provides.     *)
(*                                                                         *)
(* Bytes are counted, not named: a pipe is first in, first out, so a count *)
(* of sent bytes is a prefix of the body or of the script's output.        *)
(***************************************************************************)
EXTENDS Integers

CONSTANTS
  MaxBody,         \* bound: bytes of a request body
  MaxOutput,       \* bound: bytes a script writes
  MaxClock,        \* bound: readings of the wall clock
  FirstReading,    \* the reading when the server starts
  PipeCapacity,    \* bytes a pipe holds before its writer has to wait
  ReadBufferSize,  \* READ_BUFFER_SIZE: bytes one read takes from the pipe
  TimeoutSeconds,  \* CGI_TIMEOUT_SECONDS
  WordModulus,     \* 2^w for the width w of size_t
  ClockMayStep     \* the wall clock may be set while a script runs

ASSUME BoundAssumption == MaxBody \in Nat /\ MaxOutput \in Nat /\ MaxClock \in Nat
ASSUME SizeAssumption  == PipeCapacity \in Nat \ {0} /\ ReadBufferSize \in Nat \ {0}
ASSUME TimeAssumption  ==
  /\ TimeoutSeconds \in Nat \ {0}
  /\ FirstReading \in Nat /\ FirstReading + TimeoutSeconds <= MaxClock
  /\ WordModulus \in Nat /\ WordModulus > MaxClock
  /\ ClockMayStep \in BOOLEAN

VARIABLES
  (* CgiProcessExecutor *)
  childPid,       \* _childPid > 0: the executor may still signal or reap its child
  writeFd,        \* _pipeToChild[1] is open
  readFd,         \* _pipeFromChild[0] is open
  requestBody,    \* size of _requestBody
  bodyBytesSent,  \* _bodyBytesSent
  outputBuffer,   \* size of _outputBuffer
  finished,       \* _finished
  startTime,      \* _startTime
  (* CgiOrchestrator and ConnectionManager *)
  session,        \* "none", "listed" in _sessions, "gone", or "lost" with the server
  answer,         \* what is queued for the client
  answerLen,      \* bytes of script output in it
  (* Server::run *)
  server,         \* "waiting" in epoll_wait, "handling" a batch, "stopped", "killed"
  batch,          \* events of the batch that are not handled yet
  (* the client and everybody else *)
  client,         \* "requesting", "open", "hungup", "left"
  traffic,        \* another descriptor of the server has an event
  (* the script and the kernel *)
  child,          \* "none", "alive", "doomed" (SIGKILL on its way), "zombie", "reaped"
  exitStatus,     \* "none", "ok", "failed", "signalled"
  childIn,        \* somebody holds the read end of the script's stdin
  childOut,       \* somebody holds the write end of the script's stdout
  pipeIn,         \* bytes in the pipe to the script
  pipeOut,        \* bytes in the pipe from the script
  childWrote,     \* bytes the script has written
  now,            \* std::time(NULL), in whole seconds
  age,            \* whole seconds that have really passed since the script started
  turned,         \* now has moved on since age did
  settings        \* which ways the clock was set while the script runs

pipeVars    == <<writeFd, readFd>>
bodyVars    == <<requestBody, bodyBytesSent, startTime>>
execVars    == <<childPid, pipeVars, bodyVars, outputBuffer, finished>>
answerVars  == <<session, answer, answerLen>>
worldVars   == <<client, traffic>>
processVars == <<child, exitStatus, childIn, childOut>>
flowVars    == <<pipeIn, pipeOut, childWrote>>
clockVars   == <<now, age, turned, settings>>
loopVars    == <<server, batch>>
vars == <<execVars, answerVars, loopVars, worldVars, processVars, flowVars, clockVars>>

Descriptors == {"write", "read", "client", "other"}
Flags       == {"in", "out", "hup", "err"}
Events      == [of : Descriptors, flags : SUBSET Flags]

TypeOK ==
  /\ childPid \in BOOLEAN /\ writeFd \in BOOLEAN /\ readFd \in BOOLEAN /\ finished \in BOOLEAN
  /\ requestBody \in 0..MaxBody
  /\ bodyBytesSent \in 0..MaxBody
  /\ outputBuffer \in 0..MaxOutput
  /\ session \in {"none", "listed", "gone", "lost"}
  /\ answer \in {"none", "refused", "output", "error", "timeout"}
  /\ answerLen \in 0..MaxOutput
  /\ server \in {"waiting", "handling", "stopped", "killed"}
  /\ batch \subseteq Events
  /\ client \in {"requesting", "open", "hungup", "left"}
  /\ traffic \in BOOLEAN
  /\ child \in {"none", "alive", "doomed", "zombie", "reaped"}
  /\ exitStatus \in {"none", "ok", "failed", "signalled"}
  /\ childIn \in BOOLEAN /\ childOut \in BOOLEAN
  /\ pipeIn \in 0..PipeCapacity /\ pipeOut \in 0..PipeCapacity
  /\ childWrote \in 0..MaxOutput
  /\ now \in 0..MaxClock /\ startTime \in 0..MaxClock /\ age \in 0..MaxClock
  /\ turned \in BOOLEAN /\ settings \subseteq {"ahead", "back"}

-----------------------------------------------------------------------------
(* The server starts, and a client has sent a request for a script.        *)

Init ==
  /\ childPid = FALSE /\ writeFd = FALSE /\ readFd = FALSE /\ finished = FALSE
  /\ requestBody = 0 /\ bodyBytesSent = 0 /\ outputBuffer = 0 /\ startTime = 0
  /\ session = "none" /\ answer = "none" /\ answerLen = 0
  /\ server = "waiting" /\ batch = {}
  /\ client = "requesting" /\ traffic = FALSE
  /\ child = "none" /\ exitStatus = "none" /\ childIn = TRUE /\ childOut = TRUE
  /\ pipeIn = 0 /\ pipeOut = 0 /\ childWrote = 0
  /\ now = FirstReading /\ age = 0 /\ turned = FALSE /\ settings = {}

-----------------------------------------------------------------------------
(* Server::run: wait for events, handle each one, then collect.            *)

\* What epoll reports: room in a pipe or bytes in it, and the other end closed.
RaisedFlags(d) ==
  CASE d = "write"  -> {f \in {"out", "err"} :
                          writeFd /\ (IF f = "out" THEN pipeIn < PipeCapacity ELSE ~childIn)}
    [] d = "read"   -> {f \in {"in", "hup"} :
                          readFd /\ (IF f = "in" THEN pipeOut > 0 ELSE ~childOut)}
    [] d = "client" -> {f \in {"in"} : client \in {"requesting", "hungup"}}
    [] d = "other"  -> {f \in {"in"} : traffic}

ReadyEvents ==
  {[of |-> d, flags |-> RaisedFlags(d)] : d \in {d \in Descriptors : RaisedFlags(d) # {}}}

\* epoll_wait has no timeout: it returns only when a descriptor is ready.
EpollReturns ==
  /\ server = "waiting"
  /\ ReadyEvents # {}
  /\ server' = "handling"
  /\ batch' = ReadyEvents
  /\ UNCHANGED <<execVars, answerVars, worldVars, processVars, flowVars, clockVars>>

WriteFlags == {"out", "hup", "err"}

\* Fault: a closed output, EPOLLHUP without EPOLLIN, is not looked at.
FaultInputOnly == {"in"}

ReadFlags == {"in", "hup", "err"}

\* A handler looks for its descriptor, and for flags that it knows.
Concerns(e) ==
  \/ e.of = "write" /\ writeFd /\ e.flags \cap WriteFlags # {}
  \/ e.of = "read" /\ readFd /\ e.flags \cap ReadFlags # {}
  \/ e.of \in {"client", "other"}

Handles(d) ==
  /\ server = "handling"
  /\ \E e \in batch : e.of = d /\ Concerns(e) /\ batch' = batch \ {e}

-----------------------------------------------------------------------------
(* handleClientRead of a request for a script, and startCgi.               *)

\* pipe, fcntl or fork fails: what was opened is closed, the client gets a 502.
StartFails ==
  /\ Handles("client") /\ client = "requesting"
  /\ client' = "open"
  /\ session' = "gone" /\ answer' = "refused"
  /\ UNCHANGED <<execVars, answerLen, server, traffic, processVars, flowVars, clockVars>>

\* The parent keeps one end of each pipe, and only the read end when the body is empty.
StartSucceeds ==
  /\ Handles("client") /\ client = "requesting"
  /\ client' = "open"
  /\ requestBody' \in 0..MaxBody
  /\ writeFd' = (requestBody' > 0)
  /\ readFd' = TRUE
  /\ childPid' = TRUE /\ child' = "alive"
  /\ startTime' = now /\ turned' = FALSE
  /\ session' = "listed"
  /\ UNCHANGED <<bodyBytesSent, outputBuffer, finished, answer, answerLen, server, traffic,
                 exitStatus, childIn, childOut, flowVars, now, age, settings>>

-----------------------------------------------------------------------------
(* killChildIfAlive, cleanup and removeSession.                            *)

\* A process that the script started may still hold its ends of the pipes.
EndsMayClose ==
  /\ childIn' \in BOOLEAN /\ (childIn' => childIn)
  /\ childOut' \in BOOLEAN /\ (childOut' => childOut)

\* Fault: the descriptors are closed and the child is left alone.
FaultNoKill == UNCHANGED processVars

\* SIGKILL, then waitpid with WNOHANG: the child may not be dead yet, and then
\* nobody asks again, since the executor forgets it.
KillChild ==
  \/ ~childPid /\ UNCHANGED processVars
  \/ /\ childPid /\ child = "alive"
     /\ child' = "doomed"
     /\ UNCHANGED <<exitStatus, childIn, childOut>>
  \/ /\ childPid
     /\ child' = "reaped"
     /\ exitStatus' = IF child = "alive" THEN "signalled" ELSE exitStatus
     /\ EndsMayClose

\* removeSession: descriptors closed, child killed, executor deleted.
RemoveSession ==
  /\ session' = "gone"
  /\ childPid' = FALSE /\ writeFd' = FALSE /\ readFd' = FALSE
  /\ KillChild

-----------------------------------------------------------------------------
(* CgiOrchestrator::handleEvent.                                           *)

\* Fault: a write goes on behind the end of the body, as long as there is room.
FaultFillsPipe(m, n) == n

\* write and read move what there is and what there is room for.
Least(m, n) == IF m <= n THEN m ELSE n

\* Fault: the pipe is closed one byte early.
FaultLastByte(sent) == sent + 1 < requestBody

BodyLeft(sent) == sent < requestBody

\* onWriteReady: one write of what fits; the last byte closes the pipe, so that
\* the script sees the end of the body.
OnWriteReady ==
  /\ Handles("write") /\ childIn
  /\ \E n \in 1..Least(requestBody - bodyBytesSent, PipeCapacity - pipeIn) :
       /\ bodyBytesSent' = bodyBytesSent + n
       /\ pipeIn' = pipeIn + n
       /\ writeFd' = BodyLeft(bodyBytesSent')
  /\ UNCHANGED <<childPid, readFd, requestBody, startTime, outputBuffer, finished, answerVars,
                 server, worldVars, processVars, pipeOut, childWrote, clockVars>>

\* Nobody can read what is written: SIGPIPE, whose action is the default one,
\* ends the server, and the kernel closes its descriptors.
WriteRaisesSigpipe ==
  /\ Handles("write") /\ ~childIn
  /\ server' = "killed"
  /\ session' = "lost"
  /\ childPid' = FALSE /\ writeFd' = FALSE /\ readFd' = FALSE
  /\ UNCHANGED <<bodyVars, outputBuffer, finished, answer, answerLen, worldVars, processVars,
                 flowVars, clockVars>>

\* onReadReady with bytes in the pipe.
OnReadReady ==
  /\ Handles("read") /\ pipeOut > 0
  /\ LET n == Least(ReadBufferSize, pipeOut)
     IN /\ outputBuffer' = outputBuffer + n
        /\ pipeOut' = pipeOut - n
  /\ UNCHANGED <<childPid, pipeVars, bodyVars, finished, answerVars, server, worldVars,
                 processVars, pipeIn, childWrote, clockVars>>

\* Fault: the script's exit is taken for the end of its output.
FaultExitIsEof == ~childOut

\* read returns 0 when nobody can write any more and everything was read.
OutputEnded == pipeOut = 0 /\ ~childOut

\* onReadReady at the end of the output.
OnReadEof ==
  /\ Handles("read") /\ OutputEnded
  /\ finished' = TRUE
  /\ readFd' = FALSE
  /\ UNCHANGED <<childPid, writeFd, bodyVars, outputBuffer, answerVars, server, worldVars,
                 processVars, flowVars, clockVars>>

\* An event whose descriptor was closed earlier in the batch is not a CGI event any more.
StaleEvent ==
  /\ server = "handling"
  /\ \E e \in batch : ~Concerns(e) /\ batch' = batch \ {e}
  /\ UNCHANGED <<execVars, answerVars, server, worldVars, processVars, flowVars, clockVars>>

\* Another descriptor: nothing of this session changes.
OtherEvent ==
  /\ Handles("other")
  /\ traffic' = FALSE
  /\ UNCHANGED <<execVars, answerVars, server, client, processVars, flowVars, clockVars>>

\* recv returns 0: disconnectClient, and cancelForClient when the session is listed.
ClientLeaves ==
  /\ Handles("client") /\ client = "hungup"
  /\ client' = "left"
  /\ IF session = "listed"
     THEN RemoveSession
     ELSE UNCHANGED <<session, childPid, pipeVars, processVars>>
  /\ UNCHANGED <<bodyVars, outputBuffer, finished, answer, answerLen, server, traffic,
                 flowVars, clockVars>>

-----------------------------------------------------------------------------
(* dispatchCgiResponses: collectFinished at the end of every batch.        *)

BatchDone == server = "handling" /\ batch = {} /\ server' = "waiting" /\ UNCHANGED batch

\* Fault: sessions stay in the list after they were collected.
FaultNotRemoved == ~finished

StillRunning == session = "listed" /\ ~finished

\* elapsed, a time_t, is compared as a size_t.
Elapsed == (now - startTime) % WordModulus

\* Fault: the limit is off by one.
FaultEarly == Elapsed + 1 >= TimeoutSeconds

\* Fault: scripts are waited for without a limit.
FaultNoLimit == FALSE

Expired == Elapsed >= TimeoutSeconds

\* checkState: FINISHED.  The answer is what was read, and the child, which may
\* still run, is killed.
CollectFinished ==
  /\ BatchDone /\ session = "listed" /\ finished
  /\ answer' = "output" /\ answerLen' = outputBuffer
  /\ RemoveSession
  /\ UNCHANGED <<bodyVars, outputBuffer, finished, worldVars, flowVars, clockVars>>

\* checkState: TIMEOUT.
CollectTimeout ==
  /\ BatchDone /\ StillRunning /\ Expired
  /\ answer' = "timeout"
  /\ RemoveSession
  /\ UNCHANGED <<answerLen, bodyVars, outputBuffer, finished, worldVars, flowVars, clockVars>>

ChildWaited == childPid /\ child = "zombie"

\* Fault: the pid is kept after waitpid reported it.
FaultPidKept == child' = "reaped" /\ UNCHANGED childPid

Reap == child' = "reaped" /\ childPid' = FALSE

ExitFailed == exitStatus = "failed"

\* checkState: waitpid reports an exit status other than 0: ERROR.
CollectError ==
  /\ BatchDone /\ StillRunning /\ ~Expired
  /\ ChildWaited /\ ExitFailed
  /\ answer' = "error"
  /\ session' = "gone"
  /\ writeFd' = FALSE /\ readFd' = FALSE
  /\ Reap
  /\ UNCHANGED <<answerLen, bodyVars, outputBuffer, finished, worldVars,
                 exitStatus, childIn, childOut, flowVars, clockVars>>

\* checkState: RUNNING, and a child that ended well is reaped on the way.  The
\* branch for a reaped child with a closed read end is dead: see EofIsFinished
\* in CgiSessionProofs.
CollectRunning ==
  /\ BatchDone /\ StillRunning /\ ~Expired
  /\ IF ChildWaited
     THEN ~ExitFailed /\ Reap
     ELSE UNCHANGED <<child, childPid>>
  /\ UNCHANGED <<pipeVars, bodyVars, outputBuffer, finished, answerVars, worldVars,
                 exitStatus, childIn, childOut, flowVars, clockVars>>

CollectNothing ==
  /\ BatchDone /\ session # "listed"
  /\ UNCHANGED <<execVars, answerVars, worldVars, processVars, flowVars, clockVars>>

Collect ==
  CollectFinished \/ CollectTimeout \/ CollectError \/ CollectRunning \/ CollectNothing

\* run returns after a stop signal: ~Server and ~CgiOrchestrator clean up.
Shutdown ==
  /\ server = "waiting"
  /\ server' = "stopped"
  /\ IF session = "listed"
     THEN RemoveSession
     ELSE UNCHANGED <<session, childPid, pipeVars, processVars>>
  /\ UNCHANGED <<bodyVars, outputBuffer, finished, answer, answerLen, batch, worldVars,
                 flowVars, clockVars>>

-----------------------------------------------------------------------------
(* The script: any program, and the processes it starts, so every step     *)
(* they may take, in any order.                                            *)

ChildReads ==
  /\ childIn /\ pipeIn > 0
  /\ pipeIn' \in 0..(pipeIn - 1)
  /\ UNCHANGED <<execVars, answerVars, loopVars, worldVars, processVars, pipeOut, childWrote,
                 clockVars>>

ChildWrites ==
  /\ childOut /\ readFd
  /\ pipeOut < PipeCapacity /\ childWrote < MaxOutput
  /\ pipeOut' = pipeOut + 1
  /\ childWrote' = childWrote + 1
  /\ UNCHANGED <<execVars, answerVars, loopVars, worldVars, processVars, pipeIn, clockVars>>

ChildCloses ==
  /\ child # "none"
  /\ EndsMayClose
  /\ UNCHANGED <<execVars, answerVars, loopVars, worldVars, child, exitStatus, flowVars, clockVars>>

\* exit, a fatal signal of its own, or _exit(1) after a failed execve.
ChildExits ==
  /\ child = "alive"
  /\ child' = "zombie"
  /\ exitStatus' \in {"ok", "failed", "signalled"}
  /\ EndsMayClose
  /\ UNCHANGED <<execVars, answerVars, loopVars, worldVars, flowVars, clockVars>>

\* SIGKILL arrives after the executor stopped asking.
DoomedDies ==
  /\ child = "doomed"
  /\ child' = "zombie"
  /\ exitStatus' = "signalled"
  /\ EndsMayClose
  /\ UNCHANGED <<execVars, answerVars, loopVars, worldVars, flowVars, clockVars>>

-----------------------------------------------------------------------------
(* The client, the other descriptors, the clock.                           *)

ClientHangsUp ==
  /\ client = "open" /\ session = "listed"
  /\ client' = "hungup"
  /\ UNCHANGED <<execVars, answerVars, loopVars, traffic, processVars, flowVars, clockVars>>

TrafficArrives ==
  /\ ~traffic
  /\ traffic' = TRUE
  /\ UNCHANGED <<execVars, answerVars, loopVars, client, processVars, flowVars, clockVars>>

\* A script starts somewhere inside of a second of the clock, so that the reading
\* and the age take turns.  Seconds count only while a script runs.
SecondTurns ==
  /\ session = "listed" /\ now < MaxClock
  /\ ~turned /\ turned' = TRUE
  /\ now' = now + 1
  /\ UNCHANGED <<execVars, answerVars, loopVars, worldVars, processVars, flowVars, age, settings>>

SecondPasses ==
  /\ session = "listed" /\ age < MaxClock
  /\ turned /\ turned' = FALSE
  /\ age' = age + 1
  /\ UNCHANGED <<execVars, answerVars, loopVars, worldVars, processVars, flowVars, now, settings>>

Tick == SecondTurns \/ SecondPasses

\* The reading at the time of the last full second of age.
Lead == now - (IF turned THEN 1 ELSE 0)

\* The clock is set, ahead or back: std::time is the wall clock.
ClockSteps ==
  /\ ClockMayStep
  /\ session = "listed"
  /\ now' \in 0..MaxClock /\ turned' \in BOOLEAN
  /\ \E way \in {"ahead", "back"} :
       /\ settings' = settings \cup {way}
       /\ way = "ahead" => Lead' >= Lead
       /\ way = "back" => Lead' <= Lead
  /\ UNCHANGED <<execVars, answerVars, loopVars, worldVars, processVars, flowVars, age>>

-----------------------------------------------------------------------------
LoopStep ==
  \/ EpollReturns
  \/ StartFails \/ StartSucceeds
  \/ OnWriteReady \/ WriteRaisesSigpipe \/ OnReadReady \/ OnReadEof
  \/ StaleEvent \/ OtherEvent \/ ClientLeaves
  \/ Collect

ChildStep == ChildReads \/ ChildWrites \/ ChildCloses \/ ChildExits \/ DoomedDies

WorldStep == ClientHangsUp \/ TrafficArrives \/ Tick \/ ClockSteps \/ Shutdown

Next == LoopStep \/ ChildStep \/ WorldStep

Spec == Init /\ [][Next]_vars

\* The loop never stops by itself.  Nothing is assumed of the script, of the
\* client, of the other descriptors, or of time.
FairSpec == Spec /\ WF_vars(LoopStep)

-----------------------------------------------------------------------------
(* Safety.                                                                 *)

\* An answer made of script output holds every byte the script wrote, and the
\* script can write no more: FINISHED comes from end of file alone, never from
\* waitpid, and what one read leaves in the pipe is not forgotten.
OutputIsWhole == answer = "output" => answerLen = childWrote /\ ~childOut

\* While the request is alive, the script finds the end of its input only
\* behind the whole body, however the body was cut into writes.
BodyBeforeEof == session = "listed" /\ ~writeFd => bodyBytesSent = requestBody

\* kill and waitpid never name a pid that was already given back: the executor
\* forgets the pid when, and only when, waitpid reports it or it is deleted.
PidIsOurs == childPid => child \in {"alive", "zombie"}

\* However a request ends, nothing of it survives in the server: no descriptor,
\* no pid, and no script that was not sent SIGKILL.
NothingLeftBehind ==
  session = "gone" => ~writeFd /\ ~readFd /\ ~childPid /\ child # "alive"

\* An answer is decided once: no later event of the batch, no hang-up and no
\* second collection changes it or brings the session back.
AnswerIsFinal ==
  [][session = "gone" => UNCHANGED <<session, answer, answerLen>>]_vars

\* What a wall clock in whole seconds tells of a time limit.  A collection gives a
\* script up no earlier than one second before the limit, unless the clock was set
\* ahead, or back behind the start of the script, where the cast of a negative
\* difference passes any limit.  And it leaves no script that has run for the
\* whole limit, unless the clock was set back.
TimeoutIsDue ==
  [][server = "handling" /\ server' = "waiting" /\ session = "listed" /\ ~finished =>
       IF answer' = "timeout"
       THEN age >= TimeoutSeconds - 1 \/ "ahead" \in settings \/ now < startTime
       ELSE age < TimeoutSeconds \/ "back" \in settings]_vars

\* SIGPIPE never ends the server.
ServerSurvives == server # "killed"

(* Liveness.                                                               *)

\* A started request comes to an end.
SessionEnds == session = "listed" ~> session # "listed"

\* As time passes, a started request comes to an end on a server whose other
\* descriptors keep having events, whatever its script and its client do.
SessionEndsUnderLoad == WF_vars(TrafficArrives) /\ WF_vars(Tick) => SessionEnds

\* A request whose script has closed its output comes to an end without any help
\* from timeouts or other traffic: time may stand still and nobody else may send.
EofIsAnswered == (session = "listed" /\ ~childOut) ~> session # "listed"

(* The promise.                                                            *)

Fate ==
  CASE session = "none"   -> "idle"
    [] session = "listed" -> "running"
    [] session = "lost"   -> "lost"
    [] session = "gone"   -> IF answer = "none" THEN "withdrawn" ELSE answer

Job == INSTANCE CgiJob WITH
         fate     <- Fate,
         produced <- childWrote,
         closed   <- ~childOut,
         failed   <- exitStatus = "failed",
         answered <- answerLen

\* Pipes, partial reads and writes, and racing exits implement the promise of CgiJob.
ImplementsJob == Job!JobSpec
=============================================================================
