--------------------------- MODULE RequestHandling ---------------------------
(***************************************************************************)
(* What becomes of a framed request: parser and validator, the choice      *)
(* between script and handler, and the GET, POST and DELETE handlers, one  *)
(* system call at a time next to others (scripts, users) that change the   *)
(* same files. The server handles one request after the other.             *)
(*                                                                         *)
(* A request is a record of method, uri, version, headers (names with      *)
(* values, in order) and body; RequestFramer models how it was cut out of  *)
(* the received bytes.                                                     *)
(***************************************************************************)
EXTENDS Locations

CONSTANTS
  Configs,     \* server blocks to choose from
  Requests,    \* requests a client may send
  Trees,       \* the files there may be at first
  TextNames,   \* names whose MIME type isTextFile accepts
  ScriptNames, \* names that end in .py or .php
  SafeNames,   \* tokens of letters, digits, ".", "_" and "-"
  MaxRequests, \* bound: requests handled
  MaxChanges   \* bound: changes others make to the files

\* The number of body bytes the framer gave to a request with these headers.
FramedLength(headers) ==
  LET first == SelectInSeq(headers, LAMBDA h : h.name = "CONTENT-LENGTH")
  IN IF first = 0 \/ headers[first].value \notin Nat THEN 0 ELSE headers[first].value

ASSUME RequestAssumption ==
  /\ \A r \in Requests :
       /\ r.uri.path \in Seq(Tokens) /\ r.body \in Seq(Bytes)
       /\ r.headers \in Seq([name : STRING, value : Int])
       /\ Len(r.body) = FramedLength(r.headers)
  /\ \A t \in Trees : IsTree(t)
  /\ MaxRequests \in Nat /\ MaxChanges \in Nat

\* A redirect has a code of its own, whatever the file says.
ASSUME ConfigAssumption ==
  \A c \in Configs :
    /\ c.index \in Seq(Seq(Tokens)) /\ c.limit \in Nat
    /\ DOMAIN c.locations = 1..Len(c.locations)
    /\ \A i \in DOMAIN c.locations : /\ c.locations[i].path \in Seq(Tokens)
                                     /\ c.locations[i].redirect \in {0} \cup 300..399

VARIABLES
  config,    \* resolveServerConfigForClient
  files,     \* what is at each place
  step,      \* the system call the server makes next, or "idle"
  request,   \* the request being handled, or handled last
  target,    \* the path the handler works on
  position,  \* loop index of serveDirectory
  failure,   \* status of the error response being built
  opened,    \* the file that is open: its place and its content
  progress,  \* bytes written (totalWritten) or measured (size)
  answer,    \* the response queued last
  given,     \* what the last script was started with
  handled,   \* requests received
  (* history *)
  changed,   \* places the server changed for this request
  disturbed, \* others changed a file since this request came
  posted,    \* the last POST that was answered 201, while nobody changed a file since
  changes    \* changes made by others

serverVars == <<config, step, request, target, position, failure, opened, progress, answer,
                given, handled>>
historyVars == <<changed, disturbed, posted, changes>>
vars == <<serverVars, files, historyVars>>

NoUri     == [path |-> <<>>, asks |-> FALSE, query |-> <<>>]
NoRequest == [method |-> "", uri |-> NoUri, version |-> "", headers |-> <<>>, body |-> <<>>]
NoAnswer  == [status |-> 0, body |-> <<>>]
NoScript  == [script |-> <<>>, environment |-> <<>>, body |-> <<>>]
NoFile    == [place |-> <<>>, data |-> <<>>]
\* The place of a file that was removed while it is open: no name is empty.
Unlinked  == << <<>> >>

NewLine == "newline"
Zero    == "zero"
Foreign == <<"foreign">>
Listing == <<"listing">>

\* The listing of a directory is no file's content.
ASSUME ByteAssumption == {NewLine, Zero, "foreign"} \subseteq Bytes /\ "listing" \notin Bytes

-----------------------------------------------------------------------------
(* HttpRequestParser and HttpRequestValidator.                             *)

\* toUpperCase for the texts that Malformed tells apart.
Upper(text) ==
  CASE text = "get" -> "GET" [] text = "post" -> "POST" [] text = "delete" -> "DELETE"
    [] text = "http/1.0" -> "HTTP/1.0" [] text = "http/1.1" -> "HTTP/1.1"
    [] OTHER -> text

HasHeader(r, name) == \E i \in DOMAIN r.headers : r.headers[i].name = name

\* Headers are kept in a map: the last one of a name counts.
Header(r, name) == r.headers[SelectLastInSeq(r.headers, LAMBDA h : h.name = name)].value

GetHeader(r, name) == IF HasHeader(r, name) THEN Header(r, name) ELSE 0

HasLength(r) == HasHeader(r, "CONTENT-LENGTH")
DeclaredLength(r) == GetHeader(r, "CONTENT-LENGTH")

\* A length is negative when the text is no number.
Malformed(r) ==
  \/ Upper(r.method) \notin {"GET", "POST", "DELETE"}
  \/ Upper(r.version) \notin {"HTTP/1.0", "HTTP/1.1"}
  \/ r.uri.path = <<>> /\ ~r.uri.asks
  \/ ~HasHeader(r, "HOST")
  \/ r.method = "POST" /\ ~HasLength(r)
  \/ HasLength(r) /\ DeclaredLength(r) < 0

IsContentTooLarge(r, limit) == limit > 0 /\ HasLength(r) /\ DeclaredLength(r) > limit

\* Fault: no comparison with the body.
FaultAnyLength(r) == TRUE

IsBodyLengthValid(r) == HasLength(r) => Len(r.body) = DeclaredLength(r)

\* validateDetailed: 200 when there is no issue.
Validate(r) ==
  CASE Malformed(r) -> 400
    [] ~Malformed(r) /\ (IsContentTooLarge(r, config.limit) \/ ~IsBodyLengthValid(r)) -> 413
    [] OTHER -> 200

-----------------------------------------------------------------------------
(* Routing.                                                                *)

Path == StripUriQuery(request.uri)
Location == FindBestLocation(config, Path)

\* isCgiRequest asks the text before "?" for .py or .php at its end. (A "#" is
\* not cut off here.)
IsCgiRequest(uri) == uri.path # <<>> /\ Last(uri.path) \in ScriptNames

\* CgiEnvironment.buildFromRequest, without the variables that are the same for all
\* requests of a server. The other headers are handed on as HTTP_ variables.
Environment(r, script) ==
  LET others == {r.headers[i].name : i \in DOMAIN r.headers} \ {"CONTENT-TYPE", "CONTENT-LENGTH"}
  IN [REQUEST_METHOD  |-> r.method,
      QUERY_STRING    |-> r.uri.query,
      CONTENT_TYPE    |-> GetHeader(r, "CONTENT-TYPE"),
      CONTENT_LENGTH  |-> DeclaredLength(r),
      SCRIPT_NAME     |-> script,
      PATH_INFO       |-> r.uri.path,
      SERVER_PROTOCOL |-> r.version,
      HTTP            |-> [name \in others |-> Header(r, name)]]

\* buildConfig: the script is below the server's root, whatever root its location has.
Given(r) ==
  LET script == ResolveFilePath(ServerRoot(config), r.uri.path)
  IN [script |-> script, environment |-> Environment(r, script), body |-> r.body]

IsMethodAllowed(location, method) == location.methods = {} \/ method \in location.methods

\* extractUploadFileName: the first pair with the key "filename" counts.
NamePairs(uri) == SelectSeq(uri.query, LAMBDA pair : pair.key = "filename")

UploadName(uri) == IF NamePairs(uri) = <<>> THEN <<>> ELSE Head(NamePairs(uri)).value

IsSafeUploadName(name) == name # <<>> /\ ToSet(name) \subseteq SafeNames \ {".", ".."}

BadUploadName(uri) == NamePairs(uri) # <<>> /\ ~IsSafeUploadName(UploadName(uri))

\* The checks at the head of the three handlers: the status to refuse with, or 0.
Refusal(method) ==
  IF Contains(Path, "..") THEN 403
  ELSE IF Location.redirect # 0 THEN Location.redirect
  ELSE IF method = "POST" /\ BadUploadName(request.uri) THEN 400
  ELSE IF ~IsMethodAllowed(Location, method) THEN 405
  ELSE IF method = "POST" /\ config.limit > 0 /\ Len(request.body) > config.limit THEN 413
  ELSE 0

-----------------------------------------------------------------------------
(* Steps every handler is made of.                                         *)

fileVars == <<files, opened, progress, changed, posted>>

\* The response is queued and handleClientRead returns.
Answer(status, body) ==
  /\ step' = "idle"
  /\ answer' = [status |-> status, body |-> body]
  /\ UNCHANGED <<config, request, target, position, failure, given, handled, disturbed, changes>>

\* An error response is built: its page is read first.
Fail(status) ==
  /\ step' = "error-page"
  /\ failure' = status
  /\ UNCHANGED <<config, request, target, position, answer, given, handled, disturbed, changes>>

Goto(s) ==
  /\ step' = s
  /\ UNCHANGED <<config, request, target, position, failure, answer, given, handled, disturbed,
                 changes>>

\* A path is chosen.
Aim(path, s) ==
  /\ step' = s
  /\ target' = path
  /\ UNCHANGED <<config, request, position, failure, answer, given, handled, disturbed, changes>>

\* The result of one system call decides between two ways to go on.
Ask(s, holds, yes, no) ==
  /\ step = s
  /\ IF holds THEN yes ELSE no
  /\ UNCHANGED fileVars

\* Files as text: getline loses whether the last line had an end.
AsText(data) == IF data = <<>> \/ Last(data) = NewLine THEN data ELSE Append(data, NewLine)

IsTextFile(path) == path # <<>> /\ Last(path) \in TextNames

Generated == <<"generated">>

\* buildHtmlErrorResponse: the configured page, or a generated one. A refusal
\* because of ".." knows no location.
ErrorPage ==
  /\ step = "error-page"
  /\ LET location == IF Contains(Path, "..") THEN NoLocation ELSE Location
         page == ErrorPagePath(config, location, failure)
         text == IF page # <<>> /\ IsFile(files, page) /\ Readable(page)
                 THEN AsText(At(files, page).data) ELSE <<>>
     IN Answer(failure, IF text = <<>> THEN Generated ELSE text)
  /\ UNCHANGED fileVars

-----------------------------------------------------------------------------
(* handleClientRead.                                                       *)

Receive(r) ==
  /\ step = "idle" /\ handled < MaxRequests
  /\ step' = "received"
  /\ request' = r
  /\ handled' = handled + 1
  /\ target' = <<>> /\ position' = 1 /\ progress' = 0
  /\ failure' = 0 /\ answer' = NoAnswer
  /\ changed' = {} /\ disturbed' = FALSE
  /\ UNCHANGED <<config, files, opened, given, posted, changes>>

RespondInvalid ==
  /\ step = "received"
  /\ Validate(request) # 200
  /\ Answer(Validate(request), Generated)
  /\ UNCHANGED fileVars

IsFor(method) ==
  /\ step = "received"
  /\ Validate(request) = 200
  /\ ~IsCgiRequest(request.uri)
  /\ request.method = method

\* Fault: the script gets no body.
FaultForgetsBody ==
  /\ step = "received"
  /\ Validate(request) = 200
  /\ IsCgiRequest(request.uri)
  /\ given' = [Given(request) EXCEPT !.body = <<>>] /\ step' = "idle"
  /\ UNCHANGED <<config, request, target, position, failure, answer, handled, disturbed,
                 changes, fileVars>>

\* handleCgiOrRespondBadGateway: the script's response comes later.
StartScript ==
  /\ step = "received"
  /\ Validate(request) = 200
  /\ IsCgiRequest(request.uri)
  /\ \/ /\ given' = Given(request) /\ step' = "idle"
        /\ UNCHANGED <<config, request, target, position, failure, answer, handled, disturbed,
                       changes>>
     \/ Answer(502, Generated)
  /\ UNCHANGED fileVars

\* The orchestrator compares with upper case only.
RespondNoSuchMethod ==
  /\ step = "received"
  /\ Validate(request) = 200
  /\ ~IsCgiRequest(request.uri)
  /\ request.method \notin {"GET", "POST", "DELETE"}
  /\ Answer(405, Generated)
  /\ UNCHANGED fileVars

\* A handler refuses, or begins its work on the file with the system call s.
Handle(method, s) ==
  /\ IsFor(method)
  /\ LET status == Refusal(method) IN
     IF status = 0 THEN Aim(ResolveFilePath(ResolveRoot(config, Location), Path), s)
     ELSE IF status = Location.redirect THEN Answer(status, Generated)
     ELSE Fail(status)
  /\ UNCHANGED fileVars

HandleGet    == Handle("GET", "is-target-a-directory")
HandlePost   == Handle("POST", "is-target-to-hold-the-upload")
HandleDelete == Handle("DELETE", "does-target-exist")

-----------------------------------------------------------------------------
(* GetRequestHandler.                                                      *)

GetIsDirectory ==
  Ask("is-target-a-directory", IsDirectory(files, target),
      Goto("does-index-exist"), Goto("does-target-exist-to-be-read"))

GetExists ==
  Ask("does-target-exist-to-be-read", Exists(files, target),
      Goto("may-target-be-read"), Fail(404))

GetMayRead ==
  Ask("may-target-be-read", Exists(files, target) /\ Readable(target),
      Goto("open-to-read"), Fail(403))

\* Fault: the name is put behind the directory without a slash.
FaultIndexPath == target \o IndexFiles(config)[position]

IndexPath == WithSlash(target) \o IndexFiles(config)[position]

NextIndex ==
  /\ step' = "does-index-exist"
  /\ position' = position + 1
  /\ UNCHANGED <<config, request, target, failure, answer, given, handled, disturbed, changes>>

IndexExists ==
  /\ position <= Len(IndexFiles(config))
  /\ Ask("does-index-exist", Exists(files, IndexPath), Goto("is-index-a-directory"), NextIndex)

\* Fault: a directory is served like a file.
FaultIndexIsServed ==
  Ask("is-index-a-directory", FALSE, NextIndex, Aim(IndexPath, "open-to-read"))

IndexIsDirectory ==
  Ask("is-index-a-directory", IsDirectory(files, IndexPath),
      NextIndex, Aim(IndexPath, "open-to-read"))

\* No index: serveDirectory answers 403, or a listing with status 200.
ListDirectory ==
  /\ position > Len(IndexFiles(config))
  /\ Ask("does-index-exist", /\ Location.autoindex
                             /\ IsDirectory(files, target) /\ Readable(target),
         Answer(200, Listing), Fail(403))

\* serveFile: the file cannot be opened, though access said that it may be read.
OpenFails ==
  /\ step = "open-to-read" /\ ~(Exists(files, target) /\ Readable(target))
  /\ Fail(500)
  /\ UNCHANGED fileVars

Opened == opened' = [place |-> Place(target), data |-> At(files, target).data]

\* readFile, of a file that isTextFile accepts. A directory can be opened, but gives
\* no line.
OpenText ==
  /\ step = "open-to-read"
  /\ IsTextFile(target) /\ Exists(files, target) /\ Readable(target)
  /\ Opened
  /\ Goto("read-lines")
  /\ UNCHANGED <<files, progress, changed, posted>>

\* The loop over getline, which one read of the file serves.
ReadLines ==
  /\ step = "read-lines"
  /\ Answer(200, AsText(opened.data))
  /\ opened' = NoFile
  /\ UNCHANGED <<files, progress, changed, posted>>

\* readBinaryFile measures the file first. The size of a directory depends on
\* the file system: none, or one that no string can have.
MeasureFile ==
  /\ step = "open-to-read"
  /\ ~IsTextFile(target) /\ Exists(files, target) /\ Readable(target)
  /\ \/ /\ IsFile(files, target)
        /\ Opened
        /\ progress' = Len(At(files, target).data)
        /\ Goto("read")
        /\ UNCHANGED <<files, changed, posted>>
     \/ /\ IsDirectory(files, target)
        /\ Answer(200, <<>>) \/ Goto("threw")
        /\ UNCHANGED fileVars

\* Fault: the last byte is not read.
FaultReadsLess ==
  /\ step = "read"
  /\ Answer(200, SubSeq(opened.data, 1, progress - 1))
  /\ opened' = NoFile
  /\ UNCHANGED <<files, progress, changed, posted>>

\* What does not come from the file stays as resize made it.
ReadMeasured ==
  /\ step = "read"
  /\ Answer(200, [i \in 1..progress |-> IF i <= Len(opened.data) THEN opened.data[i] ELSE Zero])
  /\ opened' = NoFile
  /\ UNCHANGED <<files, progress, changed, posted>>

-----------------------------------------------------------------------------
(* PostRequestHandler.                                                     *)

DefaultUpload == <<"post_upload.txt">>

\* buildUploadTarget.
UploadTarget ==
  LET name == UploadName(request.uri)
  IN WithSlash(target) \o (IF name = <<>> THEN DefaultUpload ELSE name)

PostChoosesTarget ==
  Ask("is-target-to-hold-the-upload", IsDirectory(files, target),
      Aim(UploadTarget, "is-parent-a-directory"), Goto("is-parent-a-directory"))

PostParentIsDirectory ==
  Ask("is-parent-a-directory", IsDirectory(files, ParentDirectory(target)),
      Goto("may-upload-be-written"), Fail(404))

MayChangeDirectory(path) == Exists(files, path) /\ Writable(path)

PostMayWrite ==
  Ask("may-upload-be-written", MayChangeDirectory(ParentDirectory(target)),
      Goto("open-to-write"), Fail(403))

\* O_CREAT makes a file in a directory, and nothing that ends in a slash.
CanOpenToWrite ==
  \/ IsFile(files, target) /\ Writable(target)
  \/ /\ ~Exists(files, target) /\ ~EndsInSlash(target)
     /\ IsDirectory(files, ParentDirectory(target)) /\ Writable(ParentDirectory(target))
     /\ Place(target) \in Places /\ files[Front(Place(target))].kind = "dir"

\* Place(target) of a file that the server has changed.
PutFile(data) ==
  /\ files' = [files EXCEPT ![Place(target)] = File(data)]
  /\ changed' = changed \cup {Place(target)}

\* Fault: without O_TRUNC.
FaultNoTruncation ==
  /\ step = "open-to-write"
  /\ IF CanOpenToWrite
     THEN /\ PutFile(At(files, target).data)
          /\ opened' = [place |-> Place(target), data |-> At(files, target).data]
          /\ progress' = 0 /\ posted' = NoRequest
          /\ Goto("write")
     ELSE Fail(500) /\ UNCHANGED fileVars

\* open with O_TRUNC.
PostOpens ==
  /\ step = "open-to-write"
  /\ IF CanOpenToWrite
     THEN /\ PutFile(<<>>)
          /\ opened' = [place |-> Place(target), data |-> <<>>]
          /\ progress' = 0 /\ posted' = NoRequest
          /\ Goto("write")
     ELSE Fail(500) /\ UNCHANGED fileVars

\* n bytes go behind those that were written, whatever became of the file.
PostWrites(n) ==
  LET size == Len(opened.data)
      length == IF progress + n > size THEN progress + n ELSE size
      data == [i \in 1..length |->
                 CASE i \in (progress + 1)..(progress + n) -> request.body[i]
                   [] i \notin (progress + 1)..(progress + n) /\ i <= size -> opened.data[i]
                   [] OTHER -> Zero]
  IN /\ step = "write"
     /\ n \in 1..(Len(request.body) - progress)
     /\ progress' = progress + n
     /\ opened' = [opened EXCEPT !.data = data]
     /\ IF opened.place = Unlinked THEN UNCHANGED <<files, changed>> ELSE PutFile(data)
     /\ Goto("write")
     /\ UNCHANGED posted

\* Fault: the failure is reported as a body that is too large.
FaultTooLarge ==
  /\ step = "write" /\ progress < Len(request.body)
  /\ opened' = NoFile
  /\ Fail(413)
  /\ UNCHANGED <<files, progress, changed, posted>>

\* write returns 0 or an error.
PostWriteFails ==
  /\ step = "write" /\ progress < Len(request.body)
  /\ opened' = NoFile
  /\ Fail(500)
  /\ UNCHANGED <<files, progress, changed, posted>>

PostCreated ==
  /\ step = "write" /\ progress = Len(request.body)
  /\ opened' = NoFile
  /\ posted' = IF disturbed THEN NoRequest ELSE request
  /\ Answer(201, <<"created">>)
  /\ UNCHANGED <<files, progress, changed>>

-----------------------------------------------------------------------------
(* DeleteRequestHandler.                                                   *)

DeleteExists ==
  Ask("does-target-exist", Exists(files, target), Goto("is-target-to-stay"), Fail(404))

\* Fault: directories are not told from files.
FaultNoDirectoryTest ==
  Ask("is-target-to-stay", FALSE, Fail(403), Goto("may-target-be-removed"))

DeleteIsDirectory ==
  Ask("is-target-to-stay", IsDirectory(files, target),
      Fail(403), Goto("may-target-be-removed"))

DeleteMayRemove ==
  Ask("may-target-be-removed", MayChangeDirectory(ParentDirectory(target)),
      Goto("remove"), Fail(403))

\* std::remove takes a file, or a directory with nothing in it.
CanRemove ==
  /\ Exists(files, target) /\ Place(target) # <<>>
  /\ IsEmpty(files, Place(target))
  /\ Writable(ParentDirectory(target))

DeleteRemoves ==
  /\ step = "remove"
  /\ IF CanRemove
     THEN /\ files' = [files EXCEPT ![Place(target)] = Nothing]
          /\ changed' = changed \cup {Place(target)}
          /\ posted' = NoRequest
          /\ Answer(204, <<>>)
          /\ UNCHANGED <<opened, progress>>
     ELSE Fail(500) /\ UNCHANGED fileVars

-----------------------------------------------------------------------------
(* Others: scripts and users, who may change any file at any time.         *)

Others(p, node) ==
  /\ changes < MaxChanges
  /\ changes' = changes + 1
  /\ p # <<>> /\ files[Front(p)].kind = "dir"
  /\ files' = [files EXCEPT ![p] = node]
  /\ disturbed' = TRUE
  /\ posted' = NoRequest
  /\ UNCHANGED <<config, step, request, target, position, failure, progress, answer, given,
                 handled, changed>>

\* The file that was at p lives on while it is open.
Unlink(p) ==
  opened' = IF opened.place = p THEN [opened EXCEPT !.place = Unlinked] ELSE opened

OthersRemove(p) == files[p].kind # "none" /\ IsEmpty(files, p) /\ Others(p, Nothing) /\ Unlink(p)

OthersReplace(p) == files[p].kind # "dir" /\ Others(p, File(Foreign)) /\ Unlink(p)

OthersMakeDirectory(p) ==
  files[p].kind = "none" /\ Others(p, Directory) /\ UNCHANGED opened

OthersEdit(p) ==
  /\ files[p].kind = "file" /\ Others(p, File(Foreign))
  /\ opened' = IF opened.place = p THEN [opened EXCEPT !.data = Foreign] ELSE opened

-----------------------------------------------------------------------------
Init ==
  /\ config \in Configs /\ files \in Trees
  /\ step = "idle" /\ request = NoRequest /\ target = <<>> /\ position = 1
  /\ failure = 0 /\ opened = NoFile /\ progress = 0
  /\ answer = NoAnswer /\ given = NoScript /\ handled = 0
  /\ changed = {} /\ disturbed = FALSE /\ posted = NoRequest /\ changes = 0

HandlerStep ==
  \/ RespondInvalid \/ StartScript \/ RespondNoSuchMethod \/ ErrorPage
  \/ HandleGet \/ HandlePost \/ HandleDelete
  \/ GetIsDirectory \/ GetExists \/ GetMayRead \/ IndexExists \/ IndexIsDirectory
  \/ ListDirectory \/ OpenFails \/ OpenText \/ ReadLines \/ MeasureFile \/ ReadMeasured
  \/ PostChoosesTarget \/ PostParentIsDirectory \/ PostMayWrite \/ PostOpens
  \/ (\E n \in 1..Len(request.body) : PostWrites(n)) \/ PostWriteFails \/ PostCreated
  \/ DeleteExists \/ DeleteIsDirectory \/ DeleteMayRemove \/ DeleteRemoves

OthersStep ==
  \E p \in Places : OthersRemove(p) \/ OthersReplace(p) \/ OthersMakeDirectory(p) \/ OthersEdit(p)

Next == HandlerStep \/ OthersStep \/ \E r \in Requests : Receive(r)

Spec == Init /\ [][Next]_vars

-----------------------------------------------------------------------------
Steps ==
  {"idle", "received", "error-page", "threw",
   "is-target-a-directory", "does-target-exist-to-be-read", "may-target-be-read",
   "does-index-exist", "is-index-a-directory", "open-to-read", "read-lines", "read",
   "is-target-to-hold-the-upload", "is-parent-a-directory", "may-upload-be-written",
   "open-to-write", "write",
   "does-target-exist", "is-target-to-stay", "may-target-be-removed", "remove"}

\* Variables have their types, and files are in directories.
TypeOK ==
  /\ config \in Configs /\ step \in Steps
  /\ {request, posted} \subseteq Requests \cup {NoRequest}
  /\ given = NoScript \/ \E r \in Requests : given = Given(r)
  /\ IsTree(files)
  /\ position \in Nat /\ progress \in Nat /\ failure \in Nat
  /\ handled \in 0..MaxRequests /\ changes \in 0..MaxChanges
  /\ changed \subseteq Places /\ disturbed \in BOOLEAN

Answered(status) == step = "idle" /\ answer.status = status
NotDisturbed == ~disturbed

\* A request that has ended leaves no file open, on whichever way out, and a response
\* that refuses it (any but 201, 204, and 500, which is also the answer to a failed
\* write) means that it changed no file.
RefusalsChangeNothing ==
  step = "idle" =>
    /\ opened = NoFile
    /\ answer.status \notin {201, 204, 500} => changed = {}

\* When POST is answered with 201 and nobody else changed files meanwhile, the
\* file it names has exactly the body of the request.
CreatedIsStored ==
  Answered(201) /\ NotDisturbed => At(files, target) = File(request.body)

\* The server never removes or replaces a directory, in the steps of any
\* handler, unless somebody changed files while it was at work.
DirectoriesStay ==
  [][changes' = changes =>
       \A p \in Places : files[p].kind = "dir" /\ files'[p].kind # "dir" => disturbed]_vars

\* The location whose limits a request has to keep, said without an order of
\* search: the server has none that matches more of the path.
Governs(location) ==
  \/ location = NoLocation /\ Matching(config, Path) = {}
  \/ \E i \in Matching(config, Path) :
       /\ location = config.locations[i]
       /\ \A j \in Matching(config, Path) :
            Len(config.locations[j].path) <= Len(location.path)

\* A file is only changed for a request whose method its location allows, and
\* that is not redirected.
MethodsAreAllowed ==
  changed # {} =>
    \E location \in ToSet(config.locations) \cup {NoLocation} :
      Governs(location) /\ location.redirect = 0 /\ IsMethodAllowed(location, request.method)

\* The same for a request that a script was started for, as the docs have it.  TLC
\* refutes it, since StartScript does not ask the location; the README says more.
ScriptMethodsAreAllowed ==
  step = "idle" /\ request # NoRequest /\ answer = NoAnswer =>
    \E location \in ToSet(config.locations) \cup {NoLocation} :
      Governs(location) /\ IsMethodAllowed(location, request.method)

\* No body beyond client_max_body_size is stored in a file or given to a script:
\* it is what Content-Length declares, and that is within the limit. (A script is
\* told the last Content-Length, the framer counted by the first.)
BodiesAreDeclared ==
  LET IsDeclared(body, length) ==
        Len(body) = length /\ (config.limit > 0 => length <= config.limit)
  IN /\ given # NoScript => IsDeclared(given.body, given.environment.CONTENT_LENGTH)
     /\ changed # {} => IsDeclared(request.body, DeclaredLength(request))

\* What was posted to the path of a file is what GET gives back from it, but for
\* the end of the last line of a text: unless others changed files, the request
\* itself is refused, or the file may not be read.
PostedIsServed ==
  /\ step = "idle" /\ request.method = "GET" /\ posted # NoRequest
  /\ posted.uri = request.uri /\ answer.status \notin {400, 405, 413}
  /\ Readable(target)
  /\ ~IsDirectory(files, ResolveFilePath(ResolveRoot(config, Location), Path))
  => answer = [status |-> 200,
               body |-> IF IsTextFile(target) THEN AsText(posted.body) ELSE posted.body]

\* A directory is listed only if its location has autoindex and none of the index
\* files is there.
IndexGoesFirst ==
  Answered(200) /\ answer.body = Listing =>
    /\ Location.autoindex
    /\ NotDisturbed => \A i \in DOMAIN IndexFiles(config) :
                         ~IsFile(files, WithSlash(target) \o IndexFiles(config)[i])

\* Nothing but a change by others between two system calls can end the server
\* with an exception: no directory is measured as a file.
ThrowsOnlyDisturbed == step = "threw" => disturbed
=============================================================================
