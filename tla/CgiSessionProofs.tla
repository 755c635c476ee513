-------------------------- MODULE CgiSessionProofs --------------------------
(* What TLAPS proves of CgiSession, for every value of its constants. *)
EXTENDS CgiSession, TLAPS

-----------------------------------------------------------------------------
(* The inductive invariant.                                                *)

\* Descriptors and a pid belong to a listed session only, and a session that
\* has not begun has touched nothing.
LifeInv ==
  /\ writeFd \/ readFd \/ childPid => session = "listed"
  /\ session = "none" => /\ child = "none" /\ answer = "none" /\ ~finished
                         /\ bodyBytesSent = 0 /\ age = 0 /\ childWrote = 0
  /\ session = "listed" => answer = "none" /\ child # "none"
  /\ client = "requesting" => session = "none"

\* _finished and the open read end exclude each other, so that the branch of
\* checkState for a reaped child with a closed read end is never taken.
EofIsFinished == session = "listed" => (finished <=> ~readFd)

\* What the script wrote is in the buffer or in the pipe.
OutputInv ==
  /\ childWrote = outputBuffer + pipeOut
  /\ finished => pipeOut = 0 /\ ~childOut
  /\ EofIsFinished

\* The write end is open exactly while part of the body is unsent.
BodyInv ==
  /\ bodyBytesSent <= requestBody
  /\ session = "listed" => (writeFd <=> bodyBytesSent < requestBody)

\* The executor holds the pid of a child that was not reaped, and a child that
\* it gave up is reaped or was sent SIGKILL.
ChildInv ==
  /\ PidIsOurs
  /\ session = "listed" => \/ childPid
                            \/ child = "reaped"
  /\ child = "alive" => session \in {"listed", "lost"}
  /\ child = "none" => childOut
  /\ child \in {"none", "alive", "doomed"} => exitStatus = "none"

\* Readings differ by more than the age only if the clock was set ahead, and by
\* less only if it was set back.
ClockInv ==
  session = "listed" => /\ "ahead" \notin settings => Lead - startTime <= age
                        /\ "back" \notin settings => Lead - startTime >= age

AnswerInv == answer = "output" => finished /\ answerLen = outputBuffer

IInv == TypeOK /\ LifeInv /\ OutputInv /\ BodyInv /\ ChildInv /\ ClockInv /\ AnswerInv
-----------------------------------------------------------------------------
(* One step per action of the loop, the script and the world.              *)

\* What a handler is called with, and what is left of the batch.
LEMMA HandledIs ==
  \A d : Handles(d) => /\ server = "handling" /\ batch' \subseteq batch
                       /\ d = "write" => writeFd
                       /\ d = "read" => readFd
BY DEF Handles, Concerns

LEMMA LeftAreEvents == \A d : Handles(d) /\ batch \subseteq Events => batch' \subseteq Events
BY HandledIs

LEMMA ReadyAreEvents == ReadyEvents \subseteq Events
<1> SUFFICES ASSUME NEW d \in Descriptors PROVE RaisedFlags(d) \subseteq Flags
  BY DEF ReadyEvents, Events
<1>1. CASE d = "write"
  BY <1>1 DEF RaisedFlags, Flags
<1>2. CASE d = "read"
  BY <1>2 DEF RaisedFlags, Flags
<1>3. CASE d = "client"
  BY <1>3 DEF RaisedFlags, Flags
<1>4. CASE d = "other"
  BY <1>4 DEF RaisedFlags, Flags
<1>5. QED
  BY <1>1, <1>2, <1>3, <1>4 DEF Descriptors

LEMMA InitIInv == Init => IInv
<1> SUFFICES ASSUME Init PROVE IInv
  OBVIOUS
<1> USE BoundAssumption, SizeAssumption, TimeAssumption DEF Init
<1>1. TypeOK
  <2>1. FirstReading \in 0..MaxClock
    OBVIOUS
  <2>2. childPid \in BOOLEAN /\ writeFd \in BOOLEAN /\ readFd \in BOOLEAN /\ finished \in BOOLEAN
    OBVIOUS
  <2>3. traffic \in BOOLEAN /\ childIn \in BOOLEAN /\ childOut \in BOOLEAN /\ turned \in BOOLEAN
    OBVIOUS
  <2>4. batch \subseteq Events
    OBVIOUS
  <2>5. QED
    BY <2>1, <2>2, <2>3, <2>4 DEF TypeOK
<1>2. LifeInv /\ BodyInv /\ ClockInv /\ AnswerInv
  BY DEF LifeInv, BodyInv, ClockInv, AnswerInv
<1>3. OutputInv /\ ChildInv
  BY DEF OutputInv, ChildInv, PidIsOurs, EofIsFinished
<1>4. QED
  BY <1>1, <1>2, <1>3 DEF IInv

LEMMA LagStays ==
  ASSUME NEW l \in Int, NEW m \in Int, NEW start \in Int, NEW a \in Int
  PROVE  /\ m <= l /\ l - start <= a => m - start <= a
         /\ m >= l /\ l - start >= a => m - start >= a
OBVIOUS

LEMMA NextIInv == IInv /\ [Next]_vars => IInv'
<1> SUFFICES ASSUME IInv, [Next]_vars PROVE IInv'
  OBVIOUS
<1> USE BoundAssumption, SizeAssumption, TimeAssumption
<1> USE DEF IInv, TypeOK, LifeInv, OutputInv, BodyInv, ChildInv, ClockInv, AnswerInv, PidIsOurs,
            EofIsFinished, vars, execVars, pipeVars, bodyVars, answerVars, worldVars,
            processVars, flowVars, clockVars, loopVars
<1>1. CASE EpollReturns
  BY <1>1, ReadyAreEvents DEF EpollReturns, Lead
<1>2. CASE StartFails
  <2>1. TypeOK'
    BY <1>2, HandledIs DEF StartFails
  <2>2. LifeInv'
    BY <1>2, HandledIs DEF StartFails
  <2>3. OutputInv'
    BY <1>2, HandledIs DEF StartFails
  <2>4. BodyInv'
    BY <1>2, HandledIs DEF StartFails
  <2>5. ChildInv'
    BY <1>2, HandledIs DEF StartFails
  <2>6. ClockInv'
    BY <1>2, HandledIs DEF StartFails, Lead
  <2>7. AnswerInv'
    BY <1>2, HandledIs DEF StartFails
  <2>8. QED
    BY <2>1, <2>2, <2>3, <2>4, <2>5, <2>6, <2>7
<1>3. CASE StartSucceeds
  <2>1. TypeOK'
    <3>1. batch' \subseteq Events /\ UNCHANGED server
      <4>1. Handles("client") /\ UNCHANGED server
        BY <1>3 DEF StartSucceeds
      <4>2. QED
        BY <4>1, LeftAreEvents
    <3>2. writeFd' \in BOOLEAN
      BY <1>3 DEF StartSucceeds
    <3>3. readFd' \in BOOLEAN /\ childPid' \in BOOLEAN /\ turned' \in BOOLEAN
      BY <1>3 DEF StartSucceeds
    <3>4. requestBody' \in 0..MaxBody /\ startTime' \in 0..MaxClock
      BY <1>3 DEF StartSucceeds
    <3>5. session' = "listed" /\ child' = "alive" /\ client' = "open"
      BY <1>3 DEF StartSucceeds
    <3>6. UNCHANGED <<bodyBytesSent, outputBuffer, finished, answer, answerLen, traffic,
                      exitStatus, childIn, childOut, flowVars, now, age, settings>>
      BY <1>3 DEF StartSucceeds
    <3>7. QED
      BY <3>1, <3>2, <3>3, <3>4, <3>5, <3>6
  <2>2. LifeInv'
    BY <1>3, HandledIs DEF StartSucceeds
  <2>3. OutputInv'
    BY <1>3, HandledIs DEF StartSucceeds
  <2>4. BodyInv'
    <3>1. bodyBytesSent = 0 /\ bodyBytesSent' = 0 /\ requestBody' \in Nat
      BY <1>3, HandledIs DEF StartSucceeds
    <3>2. writeFd' <=> requestBody' > 0
      BY <1>3 DEF StartSucceeds
    <3>3. QED
      BY <3>1, <3>2
  <2>5. ChildInv'
    BY <1>3, HandledIs DEF StartSucceeds
  <2>6. ClockInv'
    BY <1>3, HandledIs DEF StartSucceeds, Lead
  <2>7. AnswerInv'
    BY <1>3, HandledIs DEF StartSucceeds
  <2>8. QED
    BY <2>1, <2>2, <2>3, <2>4, <2>5, <2>6, <2>7
<1>4. CASE OnWriteReady
  <2>1. TypeOK'
    BY <1>4, HandledIs DEF OnWriteReady, Least, BodyLeft
  <2>2. LifeInv'
    BY <1>4, HandledIs DEF OnWriteReady, Least, BodyLeft
  <2>3. OutputInv'
    BY <1>4, HandledIs DEF OnWriteReady, Least, BodyLeft
  <2>4. BodyInv'
    BY <1>4, HandledIs DEF OnWriteReady, Least, BodyLeft
  <2>5. ChildInv'
    BY <1>4, HandledIs DEF OnWriteReady, Least, BodyLeft
  <2>6. ClockInv'
    BY <1>4, HandledIs DEF OnWriteReady, Least, BodyLeft, Lead
  <2>7. AnswerInv'
    BY <1>4, HandledIs DEF OnWriteReady, Least, BodyLeft
  <2>8. QED
    BY <2>1, <2>2, <2>3, <2>4, <2>5, <2>6, <2>7
<1>5. CASE WriteRaisesSigpipe
  <2>1. TypeOK'
    <3>1. batch' \subseteq Events
      <4>1. Handles("write")
        BY <1>5 DEF WriteRaisesSigpipe
      <4>2. QED
        BY <4>1, LeftAreEvents
    <3>2. childPid' \in BOOLEAN /\ writeFd' \in BOOLEAN /\ readFd' \in BOOLEAN
      BY <1>5 DEF WriteRaisesSigpipe
    <3>3. server' = "killed" /\ session' = "lost"
      BY <1>5 DEF WriteRaisesSigpipe
    <3>4. UNCHANGED <<bodyVars, outputBuffer, finished, answer, answerLen, worldVars, processVars,
                      flowVars, clockVars>>
      BY <1>5 DEF WriteRaisesSigpipe
    <3>5. QED
      BY <3>1, <3>2, <3>3, <3>4
  <2>2. LifeInv'
    BY <1>5, HandledIs DEF WriteRaisesSigpipe
  <2>3. OutputInv'
    BY <1>5, HandledIs DEF WriteRaisesSigpipe
  <2>4. BodyInv'
    BY <1>5, HandledIs DEF WriteRaisesSigpipe
  <2>5. ChildInv'
    BY <1>5, HandledIs DEF WriteRaisesSigpipe
  <2>6. ClockInv'
    BY <1>5, HandledIs DEF WriteRaisesSigpipe, Lead
  <2>7. AnswerInv'
    BY <1>5, HandledIs DEF WriteRaisesSigpipe
  <2>8. QED
    BY <2>1, <2>2, <2>3, <2>4, <2>5, <2>6, <2>7
<1>6. CASE OnReadReady
  <2>1. TypeOK'
    BY <1>6, HandledIs DEF OnReadReady, Least
  <2>2. LifeInv'
    BY <1>6, HandledIs DEF OnReadReady, Least
  <2>3. OutputInv'
    BY <1>6, HandledIs DEF OnReadReady, Least
  <2>4. BodyInv'
    BY <1>6, HandledIs DEF OnReadReady, Least
  <2>5. ChildInv'
    BY <1>6, HandledIs DEF OnReadReady, Least
  <2>6. ClockInv'
    BY <1>6, HandledIs DEF OnReadReady, Least, Lead
  <2>7. AnswerInv'
    BY <1>6, HandledIs DEF OnReadReady, Least
  <2>8. QED
    BY <2>1, <2>2, <2>3, <2>4, <2>5, <2>6, <2>7
<1>7. CASE OnReadEof
  <2>1. TypeOK'
    <3>1. batch' \subseteq Events
      <4>1. Handles("read")
        BY <1>7 DEF OnReadEof
      <4>2. QED
        BY <4>1, LeftAreEvents
    <3>2. finished' \in BOOLEAN /\ readFd' \in BOOLEAN
      BY <1>7 DEF OnReadEof
    <3>3. UNCHANGED <<childPid, writeFd, bodyVars, outputBuffer, answerVars, server, worldVars,
                      processVars, flowVars, clockVars>>
      BY <1>7 DEF OnReadEof
    <3>4. QED
      BY <3>1, <3>2, <3>3
  <2>2. LifeInv'
    BY <1>7, HandledIs DEF OnReadEof, OutputEnded
  <2>3. OutputInv'
    BY <1>7, HandledIs DEF OnReadEof, OutputEnded
  <2>4. BodyInv'
    BY <1>7, HandledIs DEF OnReadEof, OutputEnded
  <2>5. ChildInv'
    BY <1>7, HandledIs DEF OnReadEof, OutputEnded
  <2>6. ClockInv'
    BY <1>7, HandledIs DEF OnReadEof, OutputEnded, Lead
  <2>7. AnswerInv'
    BY <1>7, HandledIs DEF OnReadEof, OutputEnded
  <2>8. QED
    BY <2>1, <2>2, <2>3, <2>4, <2>5, <2>6, <2>7
<1>8. CASE StaleEvent
  <2>1. TypeOK'
    BY <1>8, HandledIs DEF StaleEvent
  <2>2. LifeInv'
    BY <1>8, HandledIs DEF StaleEvent
  <2>3. OutputInv'
    BY <1>8, HandledIs DEF StaleEvent
  <2>4. BodyInv'
    BY <1>8, HandledIs DEF StaleEvent
  <2>5. ChildInv'
    BY <1>8, HandledIs DEF StaleEvent
  <2>6. ClockInv'
    BY <1>8, HandledIs DEF StaleEvent, Lead
  <2>7. AnswerInv'
    BY <1>8, HandledIs DEF StaleEvent
  <2>8. QED
    BY <2>1, <2>2, <2>3, <2>4, <2>5, <2>6, <2>7
<1>9. CASE OtherEvent
  <2>1. TypeOK'
    <3>1. batch' \subseteq Events /\ traffic' \in BOOLEAN
      BY <1>9, HandledIs DEF OtherEvent
    <3>2. UNCHANGED <<execVars, answerVars, server, client, processVars, flowVars, clockVars>>
      BY <1>9 DEF OtherEvent
    <3>3. QED
      BY <3>1, <3>2
  <2>2. LifeInv'
    BY <1>9, HandledIs DEF OtherEvent
  <2>3. OutputInv'
    BY <1>9, HandledIs DEF OtherEvent
  <2>4. BodyInv'
    BY <1>9, HandledIs DEF OtherEvent
  <2>5. ChildInv'
    BY <1>9, HandledIs DEF OtherEvent
  <2>6. ClockInv'
    BY <1>9, HandledIs DEF OtherEvent, Lead
  <2>7. AnswerInv'
    BY <1>9, HandledIs DEF OtherEvent
  <2>8. QED
    BY <2>1, <2>2, <2>3, <2>4, <2>5, <2>6, <2>7
<1>10. CASE ClientLeaves
  <2>1. TypeOK'
    <3>1. batch' \subseteq Events
      BY <1>10, HandledIs DEF ClientLeaves
    <3>2. CASE session = "listed"
      BY <1>10, <3>1, <3>2, ZenonT(60) DEF ClientLeaves, RemoveSession, KillChild, EndsMayClose
    <3>3. CASE session # "listed"
      BY <1>10, <3>1, <3>3 DEF ClientLeaves
    <3>4. QED
      BY <3>2, <3>3
  <2>2. LifeInv'
    BY <1>10, HandledIs DEF ClientLeaves, RemoveSession, KillChild, EndsMayClose
  <2>3. OutputInv'
    BY <1>10, HandledIs DEF ClientLeaves, RemoveSession, KillChild, EndsMayClose
  <2>4. BodyInv'
    BY <1>10, HandledIs DEF ClientLeaves, RemoveSession, KillChild, EndsMayClose
  <2>5. ChildInv'
    BY <1>10, HandledIs DEF ClientLeaves, RemoveSession, KillChild, EndsMayClose
  <2>6. ClockInv'
    BY <1>10, HandledIs DEF ClientLeaves, RemoveSession, KillChild, EndsMayClose, Lead
  <2>7. AnswerInv'
    BY <1>10, HandledIs DEF ClientLeaves, RemoveSession, KillChild, EndsMayClose
  <2>8. QED
    BY <2>1, <2>2, <2>3, <2>4, <2>5, <2>6, <2>7
<1>11. CASE CollectFinished
  <2>1. TypeOK'
    BY <1>11 DEF CollectFinished, BatchDone, RemoveSession, KillChild, EndsMayClose
  <2>2. LifeInv'
    BY <1>11 DEF CollectFinished, BatchDone, RemoveSession, KillChild, EndsMayClose
  <2>3. OutputInv'
    BY <1>11 DEF CollectFinished, BatchDone, RemoveSession, KillChild, EndsMayClose
  <2>4. BodyInv'
    BY <1>11 DEF CollectFinished, BatchDone, RemoveSession, KillChild, EndsMayClose
  <2>5. ChildInv'
    BY <1>11 DEF CollectFinished, BatchDone, RemoveSession, KillChild, EndsMayClose
  <2>6. ClockInv'
    BY <1>11 DEF CollectFinished, BatchDone, RemoveSession, KillChild, EndsMayClose, Lead
  <2>7. AnswerInv'
    BY <1>11 DEF CollectFinished, BatchDone, RemoveSession, KillChild, EndsMayClose
  <2>8. QED
    BY <2>1, <2>2, <2>3, <2>4, <2>5, <2>6, <2>7
<1>12. CASE CollectTimeout
  <2>1. TypeOK'
    BY <1>12 DEF CollectTimeout, BatchDone, RemoveSession, KillChild, EndsMayClose, StillRunning, Expired, Elapsed
  <2>2. LifeInv'
    BY <1>12 DEF CollectTimeout, BatchDone, RemoveSession, KillChild, EndsMayClose, StillRunning, Expired, Elapsed
  <2>3. OutputInv'
    BY <1>12 DEF CollectTimeout, BatchDone, RemoveSession, KillChild, EndsMayClose, StillRunning, Expired, Elapsed
  <2>4. BodyInv'
    BY <1>12 DEF CollectTimeout, BatchDone, RemoveSession, KillChild, EndsMayClose, StillRunning, Expired, Elapsed
  <2>5. ChildInv'
    BY <1>12 DEF CollectTimeout, BatchDone, RemoveSession, KillChild, EndsMayClose, StillRunning, Expired, Elapsed
  <2>6. ClockInv'
    BY <1>12 DEF CollectTimeout, BatchDone, RemoveSession, KillChild, EndsMayClose, StillRunning, Expired, Elapsed, Lead
  <2>7. AnswerInv'
    BY <1>12 DEF CollectTimeout, BatchDone, RemoveSession, KillChild, EndsMayClose, StillRunning, Expired, Elapsed
  <2>8. QED
    BY <2>1, <2>2, <2>3, <2>4, <2>5, <2>6, <2>7
<1>13. CASE CollectError
  <2>1. TypeOK'
    BY <1>13 DEF CollectError, BatchDone, StillRunning, ChildWaited, Reap, ExitFailed
  <2>2. LifeInv'
    BY <1>13 DEF CollectError, BatchDone, StillRunning, ChildWaited, Reap, ExitFailed
  <2>3. OutputInv'
    BY <1>13 DEF CollectError, BatchDone, StillRunning, ChildWaited, Reap, ExitFailed
  <2>4. BodyInv'
    BY <1>13 DEF CollectError, BatchDone, StillRunning, ChildWaited, Reap, ExitFailed
  <2>5. ChildInv'
    BY <1>13 DEF CollectError, BatchDone, StillRunning, ChildWaited, Reap, ExitFailed
  <2>6. ClockInv'
    BY <1>13 DEF CollectError, BatchDone, StillRunning, ChildWaited, Reap, ExitFailed, Lead
  <2>7. AnswerInv'
    BY <1>13 DEF CollectError, BatchDone, StillRunning, ChildWaited, Reap, ExitFailed
  <2>8. QED
    BY <2>1, <2>2, <2>3, <2>4, <2>5, <2>6, <2>7
<1>14. CASE CollectRunning
  <2>1. TypeOK'
    BY <1>14, ZenonT(60) DEF CollectRunning, BatchDone, StillRunning, ChildWaited, Reap, ExitFailed
  <2>2. LifeInv'
    BY <1>14 DEF CollectRunning, BatchDone, StillRunning, ChildWaited, Reap, ExitFailed
  <2>3. OutputInv'
    BY <1>14 DEF CollectRunning, BatchDone, StillRunning, ChildWaited, Reap, ExitFailed
  <2>4. BodyInv'
    BY <1>14 DEF CollectRunning, BatchDone, StillRunning, ChildWaited, Reap, ExitFailed
  <2>5. ChildInv'
    BY <1>14 DEF CollectRunning, BatchDone, StillRunning, ChildWaited, Reap, ExitFailed
  <2>6. ClockInv'
    BY <1>14 DEF CollectRunning, BatchDone, StillRunning, ChildWaited, Reap, ExitFailed, Lead
  <2>7. AnswerInv'
    BY <1>14 DEF CollectRunning, BatchDone, StillRunning, ChildWaited, Reap, ExitFailed
  <2>8. QED
    BY <2>1, <2>2, <2>3, <2>4, <2>5, <2>6, <2>7
<1>15. CASE CollectNothing
  BY <1>15 DEF CollectNothing, BatchDone, Lead
<1>16. CASE ChildReads
  BY <1>16 DEF ChildReads, Lead
<1>17. CASE ChildWrites
  BY <1>17 DEF ChildWrites, Lead
<1>18. CASE ChildCloses
  <2>1. TypeOK'
    BY <1>18 DEF ChildCloses, EndsMayClose
  <2>2. LifeInv'
    BY <1>18 DEF ChildCloses, EndsMayClose
  <2>3. OutputInv'
    BY <1>18 DEF ChildCloses, EndsMayClose
  <2>4. BodyInv'
    BY <1>18 DEF ChildCloses, EndsMayClose
  <2>5. ChildInv'
    BY <1>18 DEF ChildCloses, EndsMayClose
  <2>6. ClockInv'
    BY <1>18 DEF ChildCloses, EndsMayClose, Lead
  <2>7. AnswerInv'
    BY <1>18 DEF ChildCloses, EndsMayClose
  <2>8. QED
    BY <2>1, <2>2, <2>3, <2>4, <2>5, <2>6, <2>7
<1>19. CASE ChildExits
  <2>1. TypeOK'
    BY <1>19 DEF ChildExits, EndsMayClose
  <2>2. LifeInv'
    BY <1>19 DEF ChildExits, EndsMayClose
  <2>3. OutputInv'
    BY <1>19 DEF ChildExits, EndsMayClose
  <2>4. BodyInv'
    BY <1>19 DEF ChildExits, EndsMayClose
  <2>5. ChildInv'
    BY <1>19 DEF ChildExits, EndsMayClose
  <2>6. ClockInv'
    BY <1>19 DEF ChildExits, EndsMayClose, Lead
  <2>7. AnswerInv'
    BY <1>19 DEF ChildExits, EndsMayClose
  <2>8. QED
    BY <2>1, <2>2, <2>3, <2>4, <2>5, <2>6, <2>7
<1>20. CASE DoomedDies
  <2>1. TypeOK'
    BY <1>20 DEF DoomedDies, EndsMayClose
  <2>2. LifeInv'
    BY <1>20 DEF DoomedDies, EndsMayClose
  <2>3. OutputInv'
    BY <1>20 DEF DoomedDies, EndsMayClose
  <2>4. BodyInv'
    BY <1>20 DEF DoomedDies, EndsMayClose
  <2>5. ChildInv'
    <3>1. ~childPid /\ session # "listed"
      BY <1>20 DEF DoomedDies
    <3>2. UNCHANGED <<childPid, session>> /\ child' = "zombie"
      BY <1>20 DEF DoomedDies
    <3>3. ~childPid' /\ session' # "listed"
      BY <3>1, <3>2
    <3>4. QED
      BY <3>2, <3>3
  <2>6. ClockInv'
    BY <1>20 DEF DoomedDies, EndsMayClose, Lead
  <2>7. AnswerInv'
    BY <1>20 DEF DoomedDies, EndsMayClose
  <2>8. QED
    BY <2>1, <2>2, <2>3, <2>4, <2>5, <2>6, <2>7
<1>21. CASE ClientHangsUp
  BY <1>21 DEF ClientHangsUp, Lead
<1>22. CASE TrafficArrives
  BY <1>22 DEF TrafficArrives, Lead
<1>23. CASE Tick
  <2>1. session = "listed"
        /\ UNCHANGED <<execVars, answerVars, loopVars, worldVars, processVars, flowVars, settings>>
    BY <1>23 DEF Tick, SecondTurns, SecondPasses
  <2>2. now' \in 0..MaxClock /\ age' \in 0..MaxClock /\ turned' \in BOOLEAN
    <3>1. now' = IF turned THEN now ELSE now + 1
      BY <1>23 DEF Tick, SecondTurns, SecondPasses
    <3>2. age' = IF turned THEN age + 1 ELSE age
      BY <1>23 DEF Tick, SecondTurns, SecondPasses
    <3>3. (turned => age < MaxClock) /\ (~turned => now < MaxClock) /\ turned' \in BOOLEAN
      BY <1>23 DEF Tick, SecondTurns, SecondPasses
    <3>4. QED
      BY <3>1, <3>2, <3>3
  <2>3. TypeOK'
    BY <2>1, <2>2
  <2>4. LifeInv' /\ OutputInv' /\ BodyInv' /\ ChildInv' /\ AnswerInv'
    BY <2>1
  <2>5. ClockInv'
    <3>1. CASE SecondTurns
      BY <3>1 DEF SecondTurns, Lead
    <3>2. CASE SecondPasses
      BY <3>2 DEF SecondPasses, Lead
    <3>3. QED
      BY <1>23, <3>1, <3>2 DEF Tick
  <2>6. QED
    BY <2>3, <2>4, <2>5
<1>24. CASE ClockSteps
  <2>1. TypeOK' /\ LifeInv' /\ OutputInv' /\ BodyInv' /\ ChildInv' /\ AnswerInv'
    BY <1>24 DEF ClockSteps
  <2>2. ClockInv'
    <3>1. age' = age /\ startTime' = startTime /\ session' = session
      BY <1>24 DEF ClockSteps
    <3>2. now' \in Int /\ startTime \in Int /\ age \in Int /\ Lead \in Int /\ Lead' \in Int
      BY <1>24 DEF ClockSteps, Lead
    <3>3. PICK way \in {"ahead", "back"} :
            /\ settings' = settings \cup {way}
            /\ way = "ahead" => Lead' >= Lead
            /\ way = "back" => Lead' <= Lead
      BY <1>24 DEF ClockSteps
    <3>4. /\ "ahead" \notin settings => Lead - startTime <= age
          /\ "back" \notin settings => Lead - startTime >= age
      BY <1>24 DEF ClockSteps
    <3>5. "ahead" \notin settings' => "ahead" \notin settings /\ Lead' <= Lead
      BY <3>3
    <3>6. "back" \notin settings' => "back" \notin settings /\ Lead' >= Lead
      BY <3>3
    <3>7. "ahead" \notin settings' => Lead' - startTime <= age
      BY <3>2, <3>4, <3>5, LagStays
    <3>8. "back" \notin settings' => Lead' - startTime >= age
      BY <3>2, <3>4, <3>6, LagStays
    <3>9. QED
      BY <3>1, <3>7, <3>8
  <2>3. QED
    BY <2>1, <2>2
<1>25. CASE Shutdown
  <2>1. TypeOK'
    <3>1. CASE session = "listed"
      BY <1>25, <3>1, ZenonT(60) DEF Shutdown, RemoveSession, KillChild, EndsMayClose
    <3>2. CASE session # "listed"
      BY <1>25, <3>2 DEF Shutdown
    <3>3. QED
      BY <3>1, <3>2
  <2>2. LifeInv'
    BY <1>25 DEF Shutdown, RemoveSession, KillChild, EndsMayClose
  <2>3. OutputInv'
    BY <1>25 DEF Shutdown, RemoveSession, KillChild, EndsMayClose
  <2>4. BodyInv'
    BY <1>25 DEF Shutdown, RemoveSession, KillChild, EndsMayClose
  <2>5. ChildInv'
    BY <1>25 DEF Shutdown, RemoveSession, KillChild, EndsMayClose
  <2>6. ClockInv'
    BY <1>25 DEF Shutdown, RemoveSession, KillChild, EndsMayClose, Lead
  <2>7. AnswerInv'
    BY <1>25 DEF Shutdown, RemoveSession, KillChild, EndsMayClose
  <2>8. QED
    BY <2>1, <2>2, <2>3, <2>4, <2>5, <2>6, <2>7
<1>26. CASE UNCHANGED vars
  BY <1>26 DEF Lead
<1>27. QED
  BY <1>1, <1>2, <1>3, <1>4, <1>5, <1>6, <1>7, <1>8, <1>9, <1>10, <1>11, <1>12, <1>13, <1>14, <1>15, <1>16, <1>17, <1>18, <1>19, <1>20, <1>21, <1>22, <1>23, <1>24, <1>25, <1>26
  DEF Next, LoopStep, ChildStep, WorldStep, Collect

\* Every reachable state satisfies the inductive invariant.
THEOREM SpecIInv == Spec => []IInv
<1>1. IInv /\ [Next]_vars => IInv'
  BY NextIInv
<1>2. QED
  BY InitIInv, <1>1, PTL DEF Spec

-----------------------------------------------------------------------------
(* What the invariant says.                                                *)

\* Every variable keeps its type, so that in particular no count runs past the
\* body, the output or the capacity of a pipe.
THEOREM TypeCorrect == Spec => []TypeOK
<1>1. IInv => TypeOK
  BY DEF IInv
<1>2. QED
  BY <1>1, SpecIInv, PTL

\* Output in an answer is all of the script's output, for every size of pipe and read.
THEOREM OutputWhole == Spec => []OutputIsWhole
<1>1. IInv => OutputIsWhole
  <2> SUFFICES ASSUME IInv, answer = "output" PROVE answerLen = childWrote /\ ~childOut
    BY DEF OutputIsWhole
  <2>1. finished /\ answerLen = outputBuffer
    BY DEF IInv, AnswerInv
  <2>2. childWrote = outputBuffer + pipeOut /\ pipeOut = 0 /\ ~childOut
    BY <2>1 DEF IInv, OutputInv
  <2>3. QED
    BY <2>1, <2>2 DEF IInv, TypeOK
<1>2. QED
  BY <1>1, SpecIInv, PTL

\* The end of the script's input comes behind the whole body.
THEOREM BodyFirst == Spec => []BodyBeforeEof
<1>1. IInv => BodyBeforeEof
  BY DEF IInv, BodyInv, BodyBeforeEof, TypeOK
<1>2. QED
  BY <1>1, SpecIInv, PTL

\* No signal and no waitpid is addressed to somebody else's process.
THEOREM PidOurs == Spec => []PidIsOurs
<1>1. IInv => PidIsOurs
  BY DEF IInv, ChildInv
<1>2. QED
  BY <1>1, SpecIInv, PTL

\* A request that ended left no descriptor, no pid and no live script.
THEOREM NothingLeft == Spec => []NothingLeftBehind
<1>1. IInv => NothingLeftBehind
  BY DEF IInv, LifeInv, ChildInv, NothingLeftBehind
<1>2. QED
  BY <1>1, SpecIInv, PTL

\* While a session is listed its output has ended exactly when its read end is closed.
THEOREM EofFinished == Spec => []EofIsFinished
<1>1. IInv => EofIsFinished
  BY DEF IInv, OutputInv
<1>2. QED
  BY <1>1, SpecIInv, PTL
-----------------------------------------------------------------------------
(* What a step may never do.                                               *)

\* Once a session is gone, its answer stays as it is.
THEOREM AnswerFinal == Spec => AnswerIsFinal
<1>1. IInv /\ [Next]_vars => [session = "gone" => UNCHANGED <<session, answer, answerLen>>]_vars
  <2> SUFFICES ASSUME IInv, Next, session = "gone"
               PROVE UNCHANGED <<session, answer, answerLen>>
    OBVIOUS
  <2>1. client # "requesting" /\ ~writeFd /\ ~readFd
    BY DEF IInv, LifeInv
  <2>2. CASE LoopStep
    BY <2>1, <2>2, HandledIs DEF LoopStep, Collect, answerVars, EpollReturns, StartFails, StartSucceeds,
       OnWriteReady, WriteRaisesSigpipe, OnReadReady, OnReadEof, StaleEvent, OtherEvent, ClientLeaves,
       CollectFinished, CollectTimeout, CollectError, CollectRunning, CollectNothing, StillRunning
  <2>3. CASE ChildStep
    BY <2>3 DEF ChildStep, answerVars, ChildReads, ChildWrites, ChildCloses, ChildExits, DoomedDies
  <2>4. CASE WorldStep
    BY <2>4 DEF WorldStep, answerVars, ClientHangsUp, TrafficArrives, Tick, SecondTurns, SecondPasses,
       ClockSteps, Shutdown
  <2>5. QED
    BY <2>2, <2>3, <2>4 DEF Next
<1>2. QED
  BY <1>1, SpecIInv, PTL DEF Spec, AnswerIsFinal

\* Whatever is done to the clock, a script is given up for its time, and not left
\* running beyond it, as far as whole seconds of a clock that is set can tell.
THEOREM TimeoutDue == Spec => TimeoutIsDue
<1> DEFINE Due ==
      server = "handling" /\ server' = "waiting" /\ session = "listed" /\ ~finished =>
        IF answer' = "timeout"
        THEN age >= TimeoutSeconds - 1 \/ "ahead" \in settings \/ now < startTime
        ELSE age < TimeoutSeconds \/ "back" \in settings
<1>1. IInv /\ [Next]_vars => [Due]_vars
  <2> SUFFICES ASSUME IInv, Next, server = "handling", server' = "waiting",
                      session = "listed", ~finished
               PROVE  IF answer' = "timeout"
                      THEN age >= TimeoutSeconds - 1 \/ "ahead" \in settings \/ now < startTime
                      ELSE age < TimeoutSeconds \/ "back" \in settings
    OBVIOUS
  <2> USE TimeAssumption
  <2>1. now \in Nat /\ startTime \in Nat /\ age \in Nat /\ answer = "none"
    BY BoundAssumption DEF IInv, TypeOK, LifeInv
  <2>2. now < WordModulus /\ startTime < WordModulus
    BY BoundAssumption DEF IInv, TypeOK
  <2>3. startTime <= now => Elapsed = now - startTime
    BY <2>1, <2>2 DEF Elapsed
  <2>4. Lead <= now /\ now <= Lead + 1 /\ Lead \in Int
    BY <2>1 DEF Lead
  <2>5. CollectTimeout \/ CollectError \/ CollectRunning
    BY DEF Next, LoopStep, ChildStep, WorldStep, Collect, EpollReturns, StartFails, StartSucceeds,
       OnWriteReady, WriteRaisesSigpipe, OnReadReady, OnReadEof, StaleEvent, OtherEvent,
       ClientLeaves, CollectFinished, CollectNothing, ChildReads, ChildWrites, ChildCloses,
       ChildExits, DoomedDies, ClientHangsUp, TrafficArrives, Tick, SecondTurns, SecondPasses,
       ClockSteps, Shutdown, loopVars
  <2>6. CASE CollectTimeout
    <3>1. answer' = "timeout" /\ Elapsed >= TimeoutSeconds
      BY <2>6 DEF CollectTimeout, Expired
    <3>2. CASE startTime <= now /\ "ahead" \notin settings
      BY <2>1, <2>3, <2>4, <3>1, <3>2 DEF IInv, ClockInv
    <3>3. QED
      BY <2>1, <3>1, <3>2
  <2>7. CASE CollectError \/ CollectRunning
    <3>1. answer' # "timeout" /\ ~(Elapsed >= TimeoutSeconds)
      BY <2>1, <2>7 DEF CollectError, CollectRunning, Expired, answerVars
    <3>2. CASE "back" \notin settings
      <4>1. Lead - startTime >= age
        BY <3>2 DEF IInv, ClockInv
      <4>2. startTime <= now
        BY <2>1, <2>4, <4>1
      <4>3. Elapsed < TimeoutSeconds
        BY <2>1, <2>3, <3>1, <4>2
      <4>4. QED
        BY <2>1, <2>3, <2>4, <3>1, <4>1, <4>2, <4>3
    <3>3. QED
      BY <3>1, <3>2
  <2>8. QED
    BY <2>5, <2>6, <2>7
<1>2. QED
  BY <1>1, SpecIInv, PTL DEF Spec, TimeoutIsDue
-----------------------------------------------------------------------------
(* CgiSession implements CgiJob.                                           *)

LEMMA InitJob == Init => Job!JobInit
  BY DEF Init, Job!JobInit, Fate

\* A step that leaves what the promise sees alone is a stutter of the promise.
LEMMA StutterJob ==
  UNCHANGED <<answerVars, childWrote, childOut, exitStatus>> => UNCHANGED Job!jobVars
  BY DEF answerVars, Job!jobVars, Fate

\* Ending a session without an answer in the same step gives the request up.
LEMMA GiveUpJob ==
  ASSUME IInv, session = "listed", session' \in {"gone", "lost"}, answer' \in {answer, "timeout"},
         UNCHANGED <<answerLen, childWrote>>, KillChild \/ UNCHANGED processVars
  PROVE  Job!GiveUp
<1>1. Fate = "running" /\ answer = "none"
  BY DEF IInv, LifeInv, Fate
<1>2. Fate' \in {"timeout", "withdrawn", "lost"}
  BY <1>1 DEF Fate
<1>3. (~childOut)' \in BOOLEAN /\ (~childOut => (~childOut)')
  BY DEF KillChild, EndsMayClose, processVars
<1>4. (exitStatus = "failed")' <=> exitStatus = "failed"
  BY DEF KillChild, processVars, IInv, ChildInv
<1>5. QED
  BY <1>1, <1>2, <1>3, <1>4 DEF Job!GiveUp

\* A step of the script alone.
LEMMA StopJob ==
  ASSUME IInv, child # "none", UNCHANGED <<answerVars, childWrote>>, EndsMayClose,
         child \in {"alive", "doomed"} \/ UNCHANGED exitStatus
  PROVE  Job!Stop
<1>1. Fate # "idle" /\ Fate' = Fate /\ answerLen' = answerLen
  BY DEF IInv, LifeInv, ChildInv, TypeOK, Fate, answerVars
<1>2. (~childOut)' \in BOOLEAN /\ (~childOut => (~childOut)')
  BY DEF EndsMayClose
<1>3. (exitStatus = "failed")' \in BOOLEAN /\ (exitStatus = "failed" => (exitStatus = "failed")')
  BY DEF IInv, ChildInv
<1>4. QED
  BY <1>1, <1>2, <1>3 DEF Job!Stop

LEMMA NextJob == IInv /\ [Next]_vars => [Job!JobNext]_Job!jobVars
<1> SUFFICES ASSUME IInv, [Next]_vars PROVE [Job!JobNext]_Job!jobVars
  OBVIOUS
<1> USE DEF Job!JobNext
<1>1. CASE EpollReturns \/ OnWriteReady \/ OnReadReady \/ OnReadEof \/ StaleEvent \/ OtherEvent
           \/ CollectRunning \/ CollectNothing
  <2>1. UNCHANGED <<answerVars, childWrote, childOut, exitStatus>>
    BY <1>1 DEF EpollReturns, OnWriteReady, OnReadReady, OnReadEof, StaleEvent, OtherEvent,
       CollectRunning, CollectNothing, processVars, flowVars
  <2>2. QED
    BY <2>1, StutterJob
<1>2. CASE ChildReads \/ ClientHangsUp \/ TrafficArrives \/ Tick \/ ClockSteps \/ UNCHANGED vars
  <2>1. UNCHANGED <<answerVars, childWrote, childOut, exitStatus>>
    BY <1>2 DEF ChildReads, ClientHangsUp, TrafficArrives, Tick, SecondTurns, SecondPasses,
       ClockSteps, vars, processVars, flowVars
  <2>2. QED
    BY <2>1, StutterJob
<1>3. CASE StartFails
  <2>1. session = "none" /\ session' = "gone" /\ answer' = "refused"
    BY <1>3 DEF StartFails, IInv, LifeInv
  <2>2. UNCHANGED <<answerLen, childWrote, childOut, exitStatus>>
    BY <1>3 DEF StartFails, processVars, flowVars
  <2>3. Job!Refuse
    BY <2>1, <2>2 DEF Job!Refuse, Fate
  <2>4. QED
    BY <2>3
<1>4. CASE StartSucceeds
  <2>1. session = "none" /\ session' = "listed"
    BY <1>4 DEF StartSucceeds, IInv, LifeInv
  <2>2. UNCHANGED <<answerLen, childWrote, childOut, exitStatus>>
    BY <1>4 DEF StartSucceeds, flowVars
  <2>3. Job!Begin
    BY <2>1, <2>2 DEF Job!Begin, Fate
  <2>4. QED
    BY <2>3
<1>5. CASE WriteRaisesSigpipe
  <2>1. session = "listed"
    BY <1>5, HandledIs DEF WriteRaisesSigpipe, IInv, LifeInv
  <2>2. QED
    BY <1>5, <2>1, GiveUpJob DEF WriteRaisesSigpipe, flowVars
<1>6. CASE ClientLeaves \/ Shutdown
  <2>1. CASE session = "listed"
    BY <1>6, <2>1, GiveUpJob DEF ClientLeaves, Shutdown, RemoveSession, flowVars
  <2>2. CASE session # "listed"
    <3>1. UNCHANGED <<session, processVars>> /\ UNCHANGED <<answer, answerLen, flowVars>>
      BY <1>6, <2>2 DEF ClientLeaves, Shutdown
    <3>2. QED
      BY <3>1, StutterJob DEF answerVars, processVars, flowVars
  <2>3. QED
    BY <2>1, <2>2
<1>7. CASE CollectTimeout
  BY <1>7, GiveUpJob DEF CollectTimeout, StillRunning, RemoveSession, flowVars
<1>8. CASE CollectFinished
  <2>1. session = "listed" /\ session' = "gone" /\ answer' = "output" /\ answerLen' = outputBuffer
    BY <1>8 DEF CollectFinished, RemoveSession
  <2>2. ~childOut /\ childWrote = outputBuffer /\ childWrote' = childWrote
    BY <1>8 DEF CollectFinished, flowVars, IInv, OutputInv, TypeOK
  <2>3. ~childOut'
    BY <1>8, <2>2 DEF CollectFinished, RemoveSession, KillChild, EndsMayClose, processVars
  <2>4. (exitStatus = "failed")' <=> exitStatus = "failed"
    BY <1>8 DEF CollectFinished, RemoveSession, KillChild, processVars, IInv, ChildInv
  <2>5. Job!AnswerOutput
    BY <2>1, <2>2, <2>3, <2>4 DEF Job!AnswerOutput, Fate
  <2>6. QED
    BY <2>5
<1>9. CASE CollectError
  <2>1. session = "listed" /\ session' = "gone" /\ answer' = "error" /\ exitStatus = "failed"
    BY <1>9 DEF CollectError, StillRunning, ExitFailed
  <2>2. UNCHANGED <<answerLen, childWrote, childOut, exitStatus>>
    BY <1>9 DEF CollectError, flowVars
  <2>3. Job!AnswerError
    BY <2>1, <2>2 DEF Job!AnswerError, Fate
  <2>4. QED
    BY <2>3
<1>10. CASE ChildWrites
  <2>1. session = "listed" /\ childOut /\ childWrote' = childWrote + 1
    BY <1>10 DEF ChildWrites, IInv, LifeInv
  <2>2. UNCHANGED <<answerVars, childOut, exitStatus>>
    BY <1>10 DEF ChildWrites, processVars
  <2>3. Job!Produce
    BY <2>1, <2>2 DEF Job!Produce, Fate, answerVars, IInv, TypeOK
  <2>4. QED
    BY <2>3
<1>11. CASE ChildCloses \/ ChildExits \/ DoomedDies
  BY <1>11, StopJob DEF ChildCloses, ChildExits, DoomedDies, flowVars
<1>12. QED
  BY <1>1, <1>2, <1>3, <1>4, <1>5, <1>6, <1>7, <1>8, <1>9, <1>10, <1>11
  DEF Next, LoopStep, ChildStep, WorldStep, Collect

\* Whatever the sizes of pipes, reads, bodies and clocks, the machinery of one
\* session implements the promise of CgiJob.
THEOREM Implements == Spec => ImplementsJob
<1>1. IInv /\ [Next]_vars => [Job!JobNext]_Job!jobVars
  BY NextJob
<1>2. QED
  BY InitJob, SpecIInv, <1>1, PTL DEF Spec, ImplementsJob, Job!JobSpec
=============================================================================
