# A verification project for the 42SP web server

The repository is an HTTP/1.1 server in C++98: one process, one thread, one
`epoll` loop that serves client sockets and the pipes of CGI scripts. This
directory holds TLA+ models of it, the TLC runs that check them on small
instances, and proofs, checked by TLAPS, that hold for every value of the
constants. Paths below are relative to the repository's root.

## 1. The system

| Part | State it keeps | Operations | Talks to |
|---|---|---|---|
| `Server` (`src/application/network/server.cpp`) | listening sockets, `g_stopRequested` | `run`, `processEvents`, `handleEventByIndex`, `requestStop` | everything below, by calls |
| `EpollManager` (`epollManager.cpp`) | the epoll instance, the events of the last wait | `addFd`, `modifyFd`, `removeFd`, `waitForEvents` | kernel |
| `ConnectionManager` (`connectionManager.cpp`) | `_clients`, `_clientServerConfigs`, `_requestReadBuffers`, `_listenerServerConfigs`, all keyed by descriptor number | `acceptNewClient`, `handleClientRead`, `handleClientWrite`, `disconnectClient`, `dispatchCgiResponses` | sockets, framer, parser, handlers, orchestrator |
| `ClientSocket`, `ServerSocket`, `FileDescriptor` | a descriptor, `_writeBuffer` | `receiveData`, `sendData`, `flushWriteBuffer`, `setAccept` | kernel |
| `CgiOrchestrator` (`src/application/CGI`) | `_sessions`: client number, executor, handler | `startCgi`, `handleEvent`, `collectFinished`, `cancelForClient` | epoll manager, executors |
| `CgiProcessExecutor` (`src/infrastructure/CGI`) | pid, two pipes, body and bytes sent, output, `_finished`, start time | `start`, `onWriteReady`, `onReadReady`, `checkState`, `cleanup` | the script |
| `HttpRequestFramer` (`src/infrastructure/io/request`) | none | `popCompleteRequestFromBuffer` | read buffers |
| HTTP parser and validator, `HttpResponse` | the last validation issue | parse, validate, serialize | connection manager |
| `CgiRouteResolver`, `CgiEnvironment`, `CgiResponse` | the script's variables; headers and status of its output | build the environment, parse the output | orchestrator |
| GET, POST, DELETE handlers (`src/application/methods`) | a copy of the `ServerBlock` | `configure`, `handle` | file system |
| `Lexer`, `Parser` (`src/domain/services/config`) | position, tokens, tree, error list | `tokenize`, `parser` | each other |
| Rules (`RuleRegistry`, `SemanticAnalyzer`, five rule services, `Validator`) | tables of names, contexts, counts | `validate` | the tree |
| `ConfigBuilder` | the `HttpBlock` | `build` | the tree |
| `main`, `BuildServerConfig`, `CompileSourceFile`, `FileValidator` | | run the above once, then open the listening sockets | `Server` |
| Logger, errors, AST and value objects | messages, containers | | |

**How they interact.** `Server::run` tests the stop flag, waits without a
timeout, hands every event of the batch to a handler chosen by the number in it
(listening socket, pipe of a script, client), and ends the batch with
`dispatchCgiResponses`, which asks every session's `checkState`. Responses are
queued in the client's write buffer and the socket's interest is switched to
`EPOLLOUT`; one complete flush later the client is disconnected. Nothing is
locked: concurrency comes from peers, scripts, signals and the clock, and from
the fact that a batch is a snapshot that gets old while it is handled.

**What is hard.** Descriptor numbers are reused at once and key every table.
Events of one batch may name descriptors that an earlier event closed. Scripts
inherit every descriptor the server has open, and epoll keeps a registration
until the last copy of the file is closed. Exit, end of file and leftover output
of a script race with each other, with the time limit, with the client leaving
and with a stop signal. Reads, writes and sends are partial. The complete list,
with lines, is under `hazards` in `PROJECT.json`. Before all of that a
configuration has to be read: the parser recovers from errors while it goes on,
the builder trusts the rules to have let nothing through that it cannot read, and
several sockets have to be opened or none.

**What makes each part correct.**

| Part | Properties |
|---|---|
| Lexer and parser | Exactly the sentences of the grammar are accepted, whichever way the parser recovers (`OnlyTheGrammar`); nothing of the text is lost or read twice on its way to the tree (`TreeIsText`); the parser comes to an end (`FilesAreJudged`). |
| Rules and builder | What was built is what the directives say that the builder reads (`SettingsAreWritten`), and fit for its users (`BuiltIsUsable`). |
| Start | The server listens for all of its blocks or does not run (`RunningIsConfigured`). |
| Loop, tables, kernel | Tables and registrations agree (`ClientsAreOpen`, `PipesAreOwned`), a reused number brings nothing along (`NothingIsInherited`), who is cut off without an answer is cut off by an old event of a pipe and by nothing else (`ClosedForAReason`), nobody gets another's answer while nobody asks twice (`PatientAnswersAreOwn`), no call throws out of `run` (`NeverThrows`), answers leave and scripts end (`ResponsesAreSent`, `SessionsEnd`). |
| One CGI request | It is a `CgiJob` (`ImplementsJob`), gives back what it took (`NothingLeftBehind`, `PidIsOurs`), and ends when it should (`TimeoutIsDue`, `SessionEndsUnderLoad`, `EofIsAnswered`). |
| Messages | A request is what was sent, at once and in every fragmentation (`ParsedIsSent`, `FirstIsPrompt`); a reply is what the script wrote (`ReplyIsReadable`). |
| Handlers | Files change as the answer says (`RefusalsChangeNothing`, `CreatedIsStored`, `PostedIsServed`), where the location allows it (`MethodsAreAllowed`, `DirectoriesStay`, `IndexGoesFirst`), with declared bodies (`BodiesAreDeclared`), without an exception (`ThrowsOnlyDisturbed`). |

## 2. Modules

| Module | What it is |
|---|---|
| `CgiJob` | The promise for one CGI request: it ends once; an answer of output holds all of it; an error answer means a failed script. |
| `CgiSession` | One request in detail: executor, session, event loop, script, pipes, kernel and clock. Implements `CgiJob`. |
| `CgiSessionProofs` | Inductive invariant and theorems about `CgiSession`. |
| `Selections` | What is taken out of a set of numbers or a sequence, in order. |
| `SelectionsProofs` | Lemmas about it: the n-th least number is there, and every number is the n-th for one n. |
| `EpollTable` | Descriptors, the files behind them, and epoll registrations as the kernel keeps them. |
| `ConfigLexer` | From text to tokens, one token a step. |
| `ConfigParser` | From tokens to a tree, one statement a step, with both kinds of recovery. |
| `ConfigRules` | Which trees are a configuration: contexts, counts, conflicts, values. |
| `ConfigBuilder` | The server blocks that are made of a tree. |
| `Startup` | The four above composed, from the name of a file to listening sockets. |
| `TextProofs` | `Startup`'s lexer and parser: each symbol is in one token or skipped; sentences and trees. |
| `StartupProofs` | `Startup`'s rules, builder and sockets. |
| `EventLoop` | Server, ConnectionManager, EpollManager and CgiOrchestrator over `EpollTable`, with many clients and scripts. |
| `EventLoopProofs` | Inductive invariant of `EventLoop`, and the theorems about its tables. |
| `AnswersProofs` | What follows for answers: whose they are, and that none is left out. |
| `RequestFramer` | From received bytes to requests, in every fragmentation. |
| `MessageExchange` | `RequestFramer` composed with the request parser, the parser of a script's output and the serialized response. |
| `ExchangeProofs` | Invariants and theorems about both: requests are what was sent, replies what was written. |
| `FileSystem` | Files and directories as the handlers' system calls see them. |
| `Locations` | Which location of a server block governs a URI, and which path, index or error page it leads to. |
| `RequestHandling` | One framed request after the other: validator, script or handler, and GET, POST and DELETE one system call at a time next to others that change the files. |
| `RequestHandlingProofs` | Inductive invariant and theorems about `RequestHandling`. |
| `MC...` | The same with definitions for TLC (symmetry, wires, files, configurations). |

Operators whose names begin with `Fault` are not part of any specification: each
is a definition with one plausible mistake in it, and each property is checked to
be violated when its `Fault` replaces the definition (`mutants` in
`PROJECT.json`).

### ConfigLexer, ConfigParser, ConfigRules, ConfigBuilder and Startup

- A symbol stands for a character that the grammar tells from others, or for a
  whole word or number; a value is the sequence of its symbols, so that the dots
  of an address and the suffix of a size are there to be tested. Numbers are
  numbers: `atoi` and `strtoul` are what they return, and a size is taken modulo
  `SizeRange`, the modulus of `size_t`.
- `ScanToken` is a turn of `tokenize`'s loop, with everything that is skipped in
  front of the token; every `Scan...` is the function of that name.
- The tree is the table `nodes`, in the order in which nodes begin, and the
  recursion of `parseStatement` is `stack`. A node is added when its `;` or `{` is
  reached, which is before its parent is finished: the code adds a block to its
  parent when the block ends, and nobody looks at the tree before the end.
  `WrongStatement` is both calls of `_synchronize` after an error, the one where
  it was found and the one of the loop that got the `NULL`.
- `SynchronizeForever` is what the loop does when there are no tokens: a file of
  blanks and comments gets no end-of-file token, and `_synchronize` looks for one.
- The rules are tables (`AllowedContexts`, `Bounds`, `Conflicts`,
  `Requirements`) and one operator for each rule service. Errors are collected in
  the code and only their number is read, so that `failed` is a Boolean.
- `OpenListener` is one turn of the loop in `Server`'s constructor; `others` are the
  sockets that other programs hold at that moment. `SocketFails` is a refusal of
  the system with no reason in the file.
- From `"running"` on, `EventLoop` goes on; its `Listeners` are `listeners` here.

### CgiSession

State of the code, state of the outside world and their correspondence:

- `childPid`, `writeFd`, `readFd`, `bodyBytesSent`, `outputBuffer`, `finished`
  and `startTime` are the executor's members. Bytes are counted: pipes are
  first in, first out, so a count is a prefix. `childPid` and the descriptors
  are Booleans, since one request has one of each.
- `session`, `answer` and `answerLen` are the orchestrator's entry and what
  `collectFinished` returns for it.
- `server` and `batch` are the position of `Server::run`. `EpollReturns`
  takes a snapshot of the ready events; each handler takes one of them, in any
  order; `Collect...` ends the batch. The order of events in an epoll batch is
  the kernel's, hence any.
- `child`, `exitStatus`, `childIn`, `childOut`, `pipeIn`, `pipeOut` and
  `childWrote` are the script, any program: it may read, write, close either
  end, leave a process behind that keeps them, exit in any way, in any order.
- An event has the flags that epoll raised when the wait returned. `Concerns` is
  what the handler makes of them later: it looks for the descriptor among those it
  holds, and for flags it knows (`WriteFlags`, `ReadFlags`).
- `KillChild` merges the repeated calls of `killChildIfAlive` on one path
  (`checkState`, `cleanup`, the destructor) into one step: they ask the same
  question, and only whether the last `waitpid` found the process dead matters.
- `now` is `std::time`, in whole seconds; `age` is the time that has really passed,
  in whole seconds since the script started. A script starts somewhere inside of a
  second, so that the two take turns (`turned`), and a difference of readings may be
  a second more than the age. `ClockSteps` sets the clock, ahead or back, and
  `settings` remembers which.
- `StartFails` stands for every early return of `start`.

### EpollTable and EventLoop

- A file is a socket or a pipe end; `table` maps numbers to files. New numbers
  are the lowest free ones, as POSIX has it, and only numbers that clients and
  scripts compete for are counted (not the standard streams, listeners or the
  epoll instance).
- `regs` are registrations by number *and* file. `Release` closes and
  unregisters in the order of the code: `disconnectClient` and `removeSession`
  unregister first, `onReadReady`, `onWriteReady` and a timed-out `checkState`
  close first, so that `EPOLL_CTL_DEL` finds nothing. `Prune` is what the kernel
  does when a file has no holder left, the server or a script.
- `MayAdd` and `MayModify` say when `addFd` and `modifyFd` do not throw; whoever
  calls them goes to `"threw"` otherwise.
- `inherited` is what `fork` copied into a script. Nothing is close-on-exec.
- The three tables of ConnectionManager are functions of the number. A request
  is a pair of connection and number, so that a property can tell whose response
  is in whose buffer.
- Which response a request gets, and whether it goes to a script, is left open:
  `AnswerDirectly` and `StartCgi` are both possible for every request.
  `AnswerDirectly` covers error responses and the 502 of a script that could not
  be started.
- `ReceiveRequest` is a `recv` that completes `n` requests, or none: then the bytes are a
  part of a request, and one that was complete before is popped. `ReceivePart` is one
  after which there is nothing to pop.
- A pipe's event whose number serves a client by now is handled like one of the
  client: an output event sends (`FlushAll`), an input event reads, and a hang-up
  alone is dropped (`IgnoreHangUp`).
- `DispatchCgiResponses(E)` collects any set that contains the finished
  sessions: the others of `E` are timed out or failed, which `CgiSession` models.
- `FlushFails` leaves open whether `send` on a reset connection fails with an
  error (first time) or with `SIGPIPE`.

### RequestFramer and MessageExchange

A symbol is a byte that framing can tell from others, or a whole header line.
`HeaderEnd`, `LineStarts` and `ContentLength` say in sets what the loops of
`findHeaderEnd` and `tryExtractContentLength` compute. `Receive(n)` is one
`recv` of `n` symbols and one pop.

`Parse` is what `HttpRequestParser` makes of a framed request; it looks for the
end of the head again, in its own way, and cuts lines at CR LF or at LF.
`BuildResponse` is `CgiResponse::parse` and `CgiHandler::buildResponse`, which do
the same with the output of a script, where names come in any case. `Respond(o)`
is the moment at which a script that wrote `o` is finished and its response is
serialized; when that is, and how it is sent, is `CgiSession`'s and `EventLoop`'s.
`ReplyIsReadable` reads the reply as a client does and never as the code wrote it.

Lines and headers are named by their places in the text, so that "the first
`Status`", "the last of a name" and "all others" are the least place, the greatest
place and the rest. `ParsedIsSent` and `ReplyIsReadable` look up places in what was
sent or written, never in what the code has cut out of it.

What is assumed of the other side, and evaluated by TLC: a client's request
(`WireAssumption`) is a line and headers with one kind of line ends, a blank line,
and a body as long as its first `Content-Length` says; the first blank line of a
script (`OutputAssumption`) ends a head with one kind of line ends, or there is none.
`CrlfHead` and `LfHead` say so of neighbouring symbols. Bodies are any symbols,
header lines and blank lines included. `BytesFrom(wire)[i]` are the bytes of the
i-th request and of those behind it.

Of a request whose lines end in LF, the end is found somewhere else when CR LF CR LF
is behind it (`Unambiguous`). `ParsedIsSent` leaves such requests out, and those
behind them; `FirstIsPrompt` does not: even then something is taken at once, unless a
`Content-Length` with CR LF stands there too, whose body is then waited for.

### FileSystem, Locations and RequestHandling

- A text is a sequence of tokens: `"/"`, `".."` and `"#"` are tokens, other
  tokens are pieces of names that are never cut. So a prefix of tokens stands
  for `compare(0, size, ...)`, and `/up` is a prefix of `/uploads`, written
  `/ up loads`. A URI is a record of the text before `?`, whether there is a `?`,
  and the pairs behind it.
- A place is a sequence of names; `files` says what is at each. `Place` drops
  empty names and `"."`. No path that is opened holds `".."`: the handlers refuse
  it first. Whether a place may be read or written is a constant.
- `step` names the system call that the server makes next. `Ask` is one call whose
  result decides between two ways to go on, so that `Others...` (a script, a user)
  may change a file between any two of them. A text file is
  opened and read in two steps, and so is a binary file, which is measured when it
  is opened; each `write` is one. An error page is opened and read in one step, and a
  loop over `getline` is one read.
- `opened` is the open file's place and content. The file lives on when its name
  is removed or replaced (`Unlinked`).
- `Validate` is the order of the validator's checks. A header is a name with a
  value, in the order received: the validator sees the last of a name, and
  `RequestAssumption` says that the framer counted by the first.
- `StartScript` stands at `handleCgiOrRespondBadGateway`, before any handler: the
  location is not asked. `Given` is what the script gets: its path below the
  server's root, the variables of `CgiEnvironment` and the body. What becomes of
  the script is `CgiSession`'s.
- `"threw"` is the exception of `resize` with the size of a directory; nothing
  handles it on the way out of `run`.
- `changed`, `disturbed`, `posted` and `changes` are history: the properties
  need them and no guard of the server reads them.

## 3. Runs

Passing runs:

| Run | Question | Bounds, and why they are enough |
|---|---|---|
| `Startup` | Is every file judged rightly, from its text to the open sockets? | Three families of files: all texts of at most 4 symbols over the 10 that the lexer tells apart (every scanner, every pair of neighbours, strings and comments with and without an end); all sequences of at most 6 tokens over the 4 that the parser tells apart, or 4 over 5 (two blocks in each other, every error with both recoveries behind it); well-formed configurations with one or two settings changed, doubled, misplaced or left out, and with two server blocks. `Kilo` is 2 and `SizeRange` 32, so that products overflow. The machine has the address 127.0.0.1, and another program may hold 0.0.0.0:80. |
| `CgiSession` | Is one CGI request right in every interleaving, does it end under load, and is a script that closed its output answered without any traffic and without time? | Body and output of 2 bytes, pipes of 2, a read buffer of 1: partial reads and writes, a full pipe and leftover bytes all happen. A clock that reaches the limit and is not set. |
| `CgiSessionClock` | Who is given up for the time limit, and who is not, by a clock that may be set? | A limit of 2 seconds and readings from 0 to 5, starting with 2: the clock is set back behind the start of the script and ahead of its limit, several times. No body and an output of 1, since only time matters. |
| `EventLoopScripts` | Do tables, kernel and answers agree when scripts inherit pipes and clients do not wait? | 2 connections that may be reset, 2 scripts with bodies, 2 requests per connection: a client has two sessions, and leaves with both, or with a request in its buffer; its number is reused. |
| `EventLoopStale` | What may an event do that is older than the use of its number? | 3 connections of 2 listeners that stay, 2 scripts with bodies over 8 numbers, partial sends: the second script inherits the pipes of the first, and clients get their numbers in the same batch or later. With 7 numbers they never do. |
| `EventLoopLive` | Do scripts that hold each other's pipes end, and are responses sent? | 2 connections that stay, 2 scripts with bodies, a stop signal at any moment. |
| `RequestFramer` | Are framing, parsing and replies independent of fragmentation and of line ends? | 7 requests with CR LF and 7 with LF, alone and in pairs of the same kind, whose bodies look like the end of a head; every cut of them in chunks of up to 16 symbols. Heads of scripts with either line end, with `Status` first, last, doubled or none, repeated and differently written headers, an own length, lines without a colon, and without the blank line. |
| `RequestHandling` | Do the handlers change what their response says, and only what the location allows, when files change under them? | 2 requests after each other of 33, 3 server blocks, 2 trees of 11 places, one change by others at any step: a POST is read back, a directory takes the place of a file that was just tested, an open file is removed. |

Runs that show a disagreement between the code and its documents (`findings` in
`PROJECT.json` quotes the lines):

| Run | What happens |
|---|---|
| `CgiSessionSigpipe` | A script that does not read its body ends the server with SIGPIPE. |
| `EventLoopWrongClient` | The second session of a client that left answers whoever got its number. |
| `EventLoopStaleEvent` | A waiting client is disconnected by the event of a pipe that had its number earlier in the batch. |
| `EventLoopCut` | A response is dropped after a partial send. |

Known, and without a run of their own:

- On a quiet server nothing wakes the loop when a silent script passes its limit:
  `waitForEvents` has no timeout, although `src/doc/PROJECT_FLOW.md:34` says
  "epoll_wait, timeout 1s". `SessionEnds` in `CgiSession` says what is promised;
  TLC refutes it with the constants of `CgiSession`, also when time is assumed to
  pass (`FairSpec /\ WF_vars(Tick)`).
- Configuration files: one of blanks and comments only makes the start spin for
  ever in `Parser::_synchronize` (`src/doc/webserver_context.txt:14`: "Nunca pode
  travar"); `server;` is accepted, and `main` reads the `NULL` that `build` returns.
  `FilesAreJudged` names both as the only exceptions.
- A script is started with a method that its location does not allow, although
  `src/doc/TEST_COMMANDS.md:98` says of the CGI location that "`DELETE` returns `405`":
  the handlers, which test it, are never asked (`ScriptMethodsAreAllowed` in
  `RequestHandling`, refuted with that run's constants).
- Accepted and built as something else than written: sizes with the suffix `g`, which
  are read as bytes, although the rule's message promises k, m and g (`SizesAreMeant`);
  sizes beyond `size_t`; `error_page` with several codes, of which the first gets the
  second for its page (`PagesAreMeant`); `return` with a code that is no redirect
  (it becomes 302). These are what `SettingsAreWritten` leaves out of the values that
  it compares. TLC refutes the two other properties, and `HostIsListened`, that a
  server listens at its `host`, with the constants of the `Startup` run.
- Accepted and not read at all: the directives of `UnreadOfServer` (`host`,
  `autoindex`, `location`) and of `UnreadOfLocation` (`index`, `cgi_path`, `cgi_ext`,
  `upload_path`), of which `src/doc/webserver_context.txt` promises some for each
  route; a block named `listen`, and everything inside of a block named `root` in a
  server, another server included. That there are no others is part of
  `SettingsAreWritten`. A `server_name` has to be known to `inet_addr`: `localhost`
  does not start. Two locations may have the same path, and `PUT` and `HEAD` may be
  allowed, which no handler knows.
- Refused though harmless: two comment lines after each other, and names with a
  `-` in them outside of paths, which are two tokens to the lexer.
- Requests whose head ends in LF LF are framed wrongly when CR LF CR LF comes in
  their body or in what is received together with it. `Unambiguous` in
  `RequestFramer` is what `ParsedIsSent` and `ReplyIsReadable` leave out.
- A script that sends `Set-Cookie` twice has the last one sent: headers are a map.
- Scripts run from the server's root: the `root` of their location is not asked.
- One client that sends a second request is enough to lead a third one's answer
  astray: `cancelForClient` cancels all sessions of a number when one of them ends,
  and the number of the other session may serve somebody else by then. So
  `PatientAnswersAreOwn` speaks of times when nobody has sent a second request;
  "no client that sends one request gets another's answer" is false.
- A clock that is set back while a script runs, but not behind its start, gives the
  script that much more time, and one that is set ahead takes it away: what is
  measured is a difference of wall clock readings. Only a clock set back behind the
  start is worse, since the negative difference is cast and passes every limit.
  `TimeoutIsDue` tells these apart.
- An event of a batch may be handled on a connection that was accepted later in
  the same batch under the same number. For an input event this is a read without
  readiness, and harmless; an output event of a pipe disconnects the connection
  (`EventLoopStaleEvent`). `ClosedForAReason` says that nothing else does.
- There is a second way to that, without anybody leaving: `onReadReady`,
  `onWriteReady` and a timed-out `checkState` close a pipe before it is unregistered.
  Where another script has inherited it, it stays registered under a number that is
  free again, and its events go to the client that gets the number. Three clients
  and two scripts with bodies are enough (`HangUpsHaveAReason` with the constants of
  `EventLoopStale`).
- A stop signal between the test of the flag and `epoll_wait` is acted on at the
  next event only.

Deadlock is not checked: a server with nothing to do waits, and the bounds make
peers and scripts finite.

### Fairness

- `CgiSession`'s `FairSpec`: weak fairness of the loop, one thread that is always
  runnable when `epoll_wait` can return. Nothing is assumed of scripts, of peers or
  of time, so that `EofIsAnswered` cannot be owed to a time limit or to other
  traffic. `SessionEndsUnderLoad` has both assumptions in the property itself, that
  time passes and that other descriptors keep having events: it is about the
  load and not about the code, and without it the property is false (see above).
- `Startup`'s `LiveSpec`: weak fairness of `Program`, one thread that never waits.
- `LoopSpec`: weak fairness of the loop in `EventLoop`. Its `WF_vars(LoopStep)`
  says that the batch is worked off, since every handler removes an event.
- `RequestHandling` assumes none: each handler runs through a finite number of
  calls without waiting, and its properties are about what the calls leave behind.
- `EventLoop`'s `FairSpec` adds scripts that end once their input has ended and die when killed
  (weak), and that read their input, so that the last byte of a body is written at
  some time (strong, because `CgiBodyPending` may come first any number of times).

## 4. Proofs

All theorems are about the specification that the runs check, for every value of
its constants that satisfies its assumptions; TLC evaluates those in every run.
`theorems` in `PROJECT.json` lists the results.

| Component | Theorems | Rest on |
|---|---|---|
| `CgiSession` | every safety property its runs check, and `ImplementsJob` | `CgiSessionProofs` |
| `EventLoop` | `TypeOK`, `ClientsAreOpen`, `PipesAreOwned`, `NothingIsInherited`, `NeverThrows`, `PatientAnswersAreOwn`, `ClosedForAReason` | `EventLoopProofs`, `AnswersProofs` |
| `RequestHandling` | every property its run checks: eight invariants and `DirectoriesStay` | `RequestHandlingProofs` |
| `Startup` | every invariant its run checks: `TypeOK`, `OnlyTheGrammar`, `TreeIsText`, `BuiltIsUsable`, `SettingsAreWritten`, `RunningIsConfigured` | `TextProofs`, `StartupProofs` |
| `RequestFramer`, `MessageExchange` | every property their run checks: `TypeOK`, `ParsedIsSent`, `FirstIsPrompt`, `ReplyIsReadable` | `ExchangeProofs` |

None of the properties is inductive as it stands. Each component has an invariant of
named parts that is (`IInv`; `FormInv`, `GrammarInv` and `StartInv` in `Startup`; `FramingInv` and
`ReplyInv` in `MessageExchange`),
which TLC has checked on the runs' instances as well. Lemmas named `Init...` and
`Next...` show that it is inductive, with one for each action or group of actions
below them, and every theorem follows from the lemma or theorem `Spec...` about it.

### CgiSession

The sizes of pipes, bodies, outputs and clocks are any that satisfy
`BoundAssumption`, `SizeAssumption` and `TimeAssumption`.

`OutputIsWhole` needs to know that what the
script wrote is in the buffer or in the pipe (`childWrote = outputBuffer +
pipeOut`), and that `_finished` was set with an empty pipe and no writer; that
in turn needs `EofIsFinished`, the fact that the branch of `checkState` for a
reaped child with a closed read end is dead code. `NothingLeftBehind` needs
`PidIsOurs`, since a child that is not the executor's any more was not killed by
it. `TimeoutIsDue` needs `ClockInv`: while the clock was never set ahead, the
readings have moved no further than the age, and while it was never set back no
less, up to the second in which the script started. `IInv` conjoins these parts: `TypeOK`, `LifeInv`,
`OutputInv`, `BodyInv`, `ChildInv`, `ClockInv`, `AnswerInv`. `Implements` maps each
step to a step of `CgiJob` or a stutter, with one lemma for each kind of mapping
(`StutterJob`, `GiveUpJob`, `StopJob`).

### EventLoop

Any number of connections, scripts, listeners, descriptors and requests; the one
assumption beside bounds is that `None` is neither a connection nor a file.

- `ServedInv` adds to `ClientsAreOpen` that a connection is served under one number
  only and while it is open. Without it `disconnectClient` would leave a second
  entry of `_clients` behind.
- `BacklogInv`: a connection waits for accept once. Without it `AcceptNewClients`
  could open a socket twice.
- `RequestInv` adds to `NothingIsInherited` that an unused number keeps no bytes,
  which is what `acceptNewClient` relies on when it does not clear the buffer.
- `SessionInv` adds to `PipesAreOwned` that the entry of a script is in use exactly
  while its session is listed; it is why `removeSession` closes all there is.
- `RegisteredInv`: no pipe is registered before its script starts, so that `addFd`
  does not find its file under its number.
- `NeverThrows` follows from all of them: whoever is sent a response is a client, and
  the number of a client is registered; what is added is a file that is new, although
  its number may still be registered for another one.

`AcceptNewClients` opens as many descriptors as there are waiting connections and
free numbers, each the lowest free one. `NthLeastIsThere` and `NthLeastFindsAll`
in `SelectionsProofs` say that the n-th of these exists, and that no two are the
same; they rest on the well-foundedness of `<` on the naturals, since induction over
a predicate cannot be instantiated here.

`PatientAnswersAreOwn` needs `AskedOnce`: two sessions are never for one request, so
that a client of one request has at most one session, and cancelling the sessions
of its number cancels nobody else's. `ClosedForAReason` needs `ReasonInv`. Its
first part, `OutputIsAwaited`, says that interest in output of a socket that its number
serves, in a registration or in an event that is not handled yet, means a response
that waits: registrations of pipes outlive their numbers, and events outlive both,
but the file in them tells them from the socket's own. Its second part,
`EventsAreOfAccepted`, says that no event is about a socket that is not yet accepted,
so that an old event cannot become one of a new socket.

### RequestHandling

Any configuration, any set of requests and trees of files, any interference by
others. Assumed are types of the constants, that a tree is one, that a framed body
is as long as the framer counted (`RequestAssumption`, which is what
`RequestFramer` is about), and that the code of a redirect is 0 or 300 to 399
(`src/src/domain/services/config/ConfigBuilder.cpp:110`).

- `MethodInv`: steps of a handler are only taken for its method and for a request that
  passed the validator. `MethodsAreAllowed` and `BodiesAreDeclared` need it long
  after the test was made.
- `TargetInv`: what a call has found out about the target stays true until another
  call or somebody else changes it. `DirectoriesStay` and `ThrowsOnlyDisturbed`
  are about the distance between the two.
- `OpenInv`: the file that is written is at the target and holds the first `progress`
  bytes, or somebody interfered. `CreatedIsStored` is its last state.
- `ChangedInv`: files change on the way to 201, 204 and 500 only.
- `PostedInv` and `GetInv`: the path that was posted to still leads to the body, and a
  GET for it takes none of the branches that answer with something else.
- `NamedInv`: a handler begins with the path that the URI names and the first index.

The longest lemmas say that a URI that is asked twice leads to the same location and
path (`FindBestLocation` is a choice by length, then by position), that a place
below a file holds nothing, and that writing or removing one file leaves the tree a
tree.

### Startup

Any set of files with texts of any length over the symbols, any addresses, any
sockets of others, any `Kilo` and `SizeRange` that satisfy `SizeAssumption`.

- `FormInv` (`TextProofs`) has the types, what is still empty in which phase
  (`StageInv`), where the end of the text is a token (`EofInv`), and for the lexer
  `TokensSoFar`: no token stands for what is not yet read or for what another one
  does, and what is read and in no token is white space or a comment. The choices
  in `RunEnd` and `FirstFrom` are shown to exist, by the least element of a set of
  numbers, so that every scanner takes at least one symbol and recovery stays in
  the tokens. After an error of the lexer `TokensSoFar` is false (a string without
  an end is taken without a token for it), and nothing is claimed.
- `GrammarInv` (`TextProofs`): while there is no error, what is in front of
  `current` is the beginning of a sentence whose depth is that of the stack
  (`SentenceTo`), the tree holds its statements, and the blocks on the stack are
  those that are open (`TreeTo`); the first error means that the text is no
  sentence, and since tokens never change nothing that the recovery does can make
  it one. That is why both recoveries need no invariant beyond `FormInv`. Depths
  are counted from token to token (`DepthIs`, `DepthStays`).
- `ConfigInv` and `SocketsInv` (`StartupProofs`): once servers are built the tree
  is valid and they are what `Build` makes of it; the sockets are those of the first
  servers and do not clash. The rest is about `IsValidTree` and `Build`:
  `CardinalityRule` lets a name through once per block, so the first directive
  (the builder) is the only one (`SettingComesOnce`, `SettingIsRead`);
  `ContextRule` puts every setting where the builder looks, and lets no other name
  through than those that are compared and those that nobody reads (`AcceptedIn`); `ValueRule` gives
  it the form that `atoi`, `strtoul` and `inet_addr` read. `SizeIs` shows that the
  product of a size is exact as long as it fits, and `InOrderIs` that the k-th
  server is that of the k-th block.

### RequestFramer and MessageExchange

Any requests and any outputs that satisfy the two assumptions, of any length, in any
chunks; the theorems are about `ExchangeSpec`, whose steps are those of
`RequestFramer` and `Respond`.

- `FramingInv`: the buffer and what is still to come are the bytes of the requests
  behind those that were taken (`BytesFrom(sent)[Len(taken) + 1]`), and what was taken
  are those in front. Where a request is not `Unambiguous` that ends (`Lost`), and
  nothing is claimed of it or of those behind it; requests in front of it stay what
  they are. The third part says that a complete first request is not left in the
  buffer; for later ones it is false, since a `recv` pops one at most.
- That a step keeps it is `Framed`: with any prefix `s` of a request's bytes and those
  behind it in the buffer, `IsComplete(s)` says whether the whole request is there, and
  then what is popped is the request and no more. It rests on two facts. The framer
  finds the end of the head where the client has put it as soon as it is there, and
  no end before (`HeaderEndIs`, from `CrlfEnd` and `LfEnd`: a head holds one blank
  line, at its end). And the length that it reads line by line, with its own idea of
  where a line ends, is the declared one (`LengthIsDeclared`, from `LinesStart` and
  `NoBlankBefore`).
- `FirstIsPrompt` needs the third part of `FramingInv`, and `HeadIsComplete` for a
  head that ends where its client has not meant it.
- `ParsedIsSent` adds `ParseIs`: the parser's second search for the end of the head
  finds the same place, and the places of lines in what it cuts out are those in what
  was sent (`Splits`, which is used for the output of scripts as well).
- `ReplyIsReadable` needs `ReplyInv`, the meaning of `reply`, and is else about
  operators. `ResponseIs`: of each name the last header gets into the response and
  `Status` does not, whichever place it had. `SerializedIs`: the text of a response is a
  head of one kind of line ends (`LinesTogether`, `LinesMakeHead`) with each header
  once (`TextsTogether`), a length among them. `ReaderFinds`: a reader then finds the
  end of that head, whatever the body is.

`BytesFrom` is a recursive function, and `BytesExist` shows that there is one, by the
least length for which there is none.

### Only model-checked

- Liveness and everything else with `ENABLED` or fairness: `FilesAreJudged`,
  `ResponsesAreSent`, `SessionsEnd`, `SessionEndsUnderLoad`, `EofIsAnswered`.

## 5. Not modelled, and the plan

Planned, in this order:

1. The size of `_clients` next to numbers of pipes, in `EventLoop`.
2. `RequestFramer` for clients that mix line ends in one head.

Left out for good: `Logger` and `displayServerStatus` (output only); the texts of
`CompilerError` and where errors are reported; the memory of the tree's nodes; the
fields of `HttpBlock` that `main` does not read, and `_buildHttp`, whose block the
rules refuse; in addresses of configurations leading zeros, `*`, the short forms that
`inet_addr` takes (`server_name 0;` binds every address) and parts such as `-0` that
`IsValidIpv4` reads with a stream; which interpreter runs a script, MIME types beyond
text or not, and the layout of HTML.
