------------------------------- MODULE CgiJob -------------------------------
(***************************************************************************)
(* What the server promises about one CGI request, without pipes, epoll or *)
(* waitpid: a script runs, produces output and closes it, and the request  *)
(* comes to exactly one end.  CgiSession is shown to implement this.       *)
(***************************************************************************)
EXTENDS Naturals

VARIABLES
  fate,      \* "idle", "running", or the one way the request ended: "refused",
             \* "output", "error", "timeout", "withdrawn" or "lost"
  produced,  \* bytes the script has written to its standard output so far
  closed,    \* the script's end of standard output is closed
  failed,    \* the script exited with a status other than 0
  answered   \* bytes of script output in the answer

jobVars == <<fate, produced, closed, failed, answered>>

JobInit ==
  /\ fate = "idle"
  /\ produced = 0
  /\ closed = FALSE
  /\ failed = FALSE
  /\ answered = 0

\* The server could not start the script, and says so.
Refuse ==
  /\ fate = "idle"
  /\ fate' = "refused"
  /\ UNCHANGED <<produced, closed, failed, answered>>

Begin ==
  /\ fate = "idle"
  /\ fate' = "running"
  /\ UNCHANGED <<produced, closed, failed, answered>>

\* Nobody counts what a script writes once its request has ended.
Produce ==
  /\ fate = "running"
  /\ ~closed
  /\ produced' \in Nat
  /\ produced' > produced
  /\ UNCHANGED <<fate, closed, failed, answered>>

\* The script closes its output, exits or is killed.
Stop ==
  /\ fate # "idle"
  /\ closed' \in BOOLEAN /\ (closed => closed')
  /\ failed' \in BOOLEAN /\ (failed => failed')
  /\ UNCHANGED <<fate, produced, answered>>

\* An answer made of script output holds all of it: the script cannot add to
\* it any more, and not a byte that it wrote is missing.
AnswerOutput ==
  /\ fate = "running"
  /\ closed
  /\ fate' = "output"
  /\ answered' = produced
  /\ UNCHANGED <<produced, closed, failed>>

\* Only a script that failed is answered with an error.
AnswerError ==
  /\ fate = "running"
  /\ failed
  /\ fate' = "error"
  /\ UNCHANGED <<produced, closed, failed, answered>>

\* The script is killed and the request ends without any of its output.
GiveUp ==
  /\ fate = "running"
  /\ fate' \in {"timeout", "withdrawn", "lost"}
  /\ closed' \in BOOLEAN /\ (closed => closed')
  /\ UNCHANGED <<produced, failed, answered>>

JobNext ==
  \/ Refuse \/ Begin \/ Produce \/ Stop
  \/ AnswerOutput \/ AnswerError \/ GiveUp

JobSpec == JobInit /\ [][JobNext]_jobVars
=============================================================================
