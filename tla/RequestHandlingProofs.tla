------------------------ MODULE RequestHandlingProofs ------------------------
(* What TLAPS proves of RequestHandling, for every configuration, request and  *)
(* tree of files.                                                              *)
EXTENDS RequestHandling, SelectionsProofs

-----------------------------------------------------------------------------
(* The inductive invariant.                                                    *)

GetSteps ==
  {"is-target-a-directory", "does-target-exist-to-be-read", "may-target-be-read",
   "does-index-exist", "is-index-a-directory", "open-to-read", "read-lines", "read"}
PostSteps ==
  {"is-target-to-hold-the-upload", "is-parent-a-directory", "may-upload-be-written",
   "open-to-write", "write"}
DeleteSteps == {"does-target-exist", "is-target-to-stay", "may-target-be-removed", "remove"}
AtWork == GetSteps \cup PostSteps \cup DeleteSteps

Validated(r) == Validate(r) = 200

\* The path that a URI names.
Named(uri) ==
  LET path == StripUriQuery(uri)
  IN ResolveFilePath(ResolveRoot(config, FindBestLocation(config, path)), path)

\* The steps of a handler are taken for its method, and for a request that was
\* neither refused nor a script's. It is answered at the end.
MethodInv ==
  /\ step \in GetSteps => request.method = "GET"
  /\ step \in PostSteps => request.method = "POST"
  /\ step \in DeleteSteps => request.method = "DELETE"
  /\ step \in AtWork => /\ Validated(request) /\ ~IsCgiRequest(request.uri)
                        /\ Refusal(request.method) = 0
  /\ failure \in {0, 400, 403, 404, 405, 413, 500}
  /\ step # "idle" => answer = NoAnswer

\* A file is open while it is read or written. The one that is written is at the
\* target or was removed, and as long as nobody interferes it holds what was
\* written.
OpenInv ==
  /\ opened \in [place : Places \cup {Unlinked}, data : Seq(Bytes)]
  /\ step \notin {"read-lines", "read", "write"} => opened = NoFile
  /\ step = "write" =>
       /\ Place(target) \in Places /\ ~EndsInSlash(target)
       /\ opened.place \in {Place(target), Unlinked}
       /\ opened.place # Unlinked => files[Place(target)] = File(opened.data)
       /\ progress <= Len(request.body) /\ posted = NoRequest
       /\ ~disturbed => /\ opened.place # Unlinked /\ Len(opened.data) = progress
                        /\ \A i \in 1..progress : opened.data[i] = request.body[i]

\* Files are changed by writing and removing only.
ChangedInv ==
  changed # {} =>
    /\ request \in Requests /\ Validated(request) /\ Refusal(request.method) = 0
    /\ \/ step = "write"
       \/ step = "error-page" /\ failure = 500
       \/ step = "idle" /\ answer.status \in {201, 204, 500}

\* What was found out about the target is still so, unless somebody interfered.
TargetInv ==
  ~disturbed =>
    /\ step \in {"does-target-exist-to-be-read", "may-target-be-read", "open-to-read",
                 "may-target-be-removed", "remove"} => ~IsDirectory(files, target)
    /\ step \in {"does-index-exist", "is-index-a-directory"} =>
         \A i \in DOMAIN IndexFiles(config) :
           i < position => ~IsFile(files, WithSlash(target) \o IndexFiles(config)[i])
    /\ step \in PostSteps => target = Named(request.uri) \/ IsDirectory(files, Named(request.uri))

\* The path a POST named has its body, or is the directory the upload is in, for as
\* long as the files stay as they are.
PostedInv ==
  posted # NoRequest =>
    LET path == StripUriQuery(posted.uri)
    IN /\ ~disturbed
       /\ ~Contains(path, "..") /\ FindBestLocation(config, path).redirect = 0
       /\ ~IsCgiRequest(posted.uri) /\ posted.body \in Seq(Bytes)
       /\ IsDirectory(files, Named(posted.uri)) \/ At(files, Named(posted.uri)) = File(posted.body)

\* The file that a GET looks for was posted before.
Served(data) == [status |-> 200, body |-> IF IsTextFile(target) THEN AsText(data) ELSE data]

GetsPosted ==
  /\ posted # NoRequest /\ posted.uri = request.uri /\ request.method = "GET"
  /\ ~IsDirectory(files, Named(request.uri))

GetInv ==
  GetsPosted =>
    /\ step \in {"is-target-a-directory", "does-target-exist-to-be-read", "may-target-be-read",
                 "open-to-read", "read-lines", "read"} => target = Named(request.uri)
    /\ step \notin {"does-index-exist", "is-index-a-directory", "threw"}
    /\ step = "read-lines" => IsTextFile(target) /\ opened.data = posted.body
    /\ step = "read" => /\ ~IsTextFile(target) /\ opened.data = posted.body
                        /\ progress = Len(posted.body)
    /\ step = "error-page" => failure = 405 \/ ~Readable(target)
    /\ step = "idle" => \/ answer.status \in {400, 405, 413}
                        \/ ~Readable(target)
                        \/ answer = Served(posted.body)

\* The first step of a handler works on the path that the URI names, and the search
\* for an index begins with the first one.
NamedInv ==
  /\ step \in {"is-target-a-directory", "is-target-to-hold-the-upload"} => target = Named(request.uri)
  /\ step \in {"received", "is-target-a-directory"} => position = 1
  /\ position \in Nat \ {0}

IInv ==
  /\ TypeOK /\ MethodInv /\ OpenInv /\ ChangedInv /\ TargetInv /\ NamedInv /\ PostedInv /\ GetInv
  /\ CreatedIsStored /\ BodiesAreDeclared /\ IndexGoesFirst /\ ThrowsOnlyDisturbed

-----------------------------------------------------------------------------
(* The request, its path and the location that governs it.                     *)

LEMMA SameRequest ==
  ASSUME config' = config, request' = request
  PROVE  /\ Path' = Path /\ Location' = Location
         /\ \A uri : Named(uri)' = Named(uri)
         /\ Named(request.uri)' = Named(request.uri)
         /\ \A method : Refusal(method)' = Refusal(method)
         /\ Refusal(request.method)' = Refusal(request.method)
         /\ Validated(request)' <=> Validated(request)
         /\ Validate(request)' = Validate(request)
         /\ IndexFiles(config)' = IndexFiles(config)
<1>1. Path' = Path /\ Location' = Location
  BY DEF Path, Location
<1>2. \A uri : Named(uri)' = Named(uri)
  BY DEF Named
<1>3. \A method : Refusal(method)' = Refusal(method)
  BY <1>1 DEF Refusal
<1>4. Validate(request)' = Validate(request)
  BY DEF Validate
<1>5. QED
  BY <1>1, <1>2, <1>3, <1>4 DEF Validated

LEMMA StatusesOfRefusal ==
  ASSUME NEW method
  PROVE  /\ Refusal(method) \in {0, 400, 403, 405, 413, Location.redirect}
         /\ Refusal(method) = 0 => /\ ~Contains(Path, "..") /\ Location.redirect = 0
                                   /\ IsMethodAllowed(Location, method)
BY DEF Refusal

LEMMA BodyIsDeclared ==
  ASSUME config \in Configs, NEW r \in Requests, Validated(r)
  PROVE  /\ Len(r.body) = DeclaredLength(r)
         /\ config.limit > 0 => DeclaredLength(r) <= config.limit
<1>1. /\ ~Malformed(r) /\ ~IsContentTooLarge(r, config.limit) /\ IsBodyLengthValid(r)
  BY DEF Validated, Validate
<1>2. CASE HasLength(r)
  <2>1. Len(r.body) = DeclaredLength(r)
    BY <1>1, <1>2 DEF IsBodyLengthValid
  <2>2. Len(r.body) \in Nat /\ config.limit \in Nat
    BY RequestAssumption, ConfigAssumption, LenProperties
  <2>3. ~(config.limit > 0 /\ DeclaredLength(r) > config.limit)
    BY <1>1, <1>2 DEF IsContentTooLarge
  <2>4. QED
    BY <2>1, <2>2, <2>3
<1>3. CASE ~HasLength(r)
  <2>1. DeclaredLength(r) = 0
    BY <1>3 DEF DeclaredLength, GetHeader, HasLength
  <2>2. Len(r.body) = FramedLength(r.headers) /\ DOMAIN r.headers = 1..Len(r.headers)
    BY RequestAssumption
  <2>3. {i \in 1..Len(r.headers) : r.headers[i].name = "CONTENT-LENGTH"} = {}
    BY <1>3, <2>2 DEF HasLength, HasHeader
  <2>4. FramedLength(r.headers) = 0
    BY <2>3 DEF FramedLength, SelectInSeq
  <2>5. QED
    BY <2>1, <2>2, <2>4, ConfigAssumption
<1>4. QED
  BY <1>2, <1>3

LEMMA ValidatedIsRequest ==
  ASSUME TypeOK, Validated(request)
  PROVE  /\ config \in Configs /\ request \in Requests
         /\ request.body \in Seq(Bytes)
         /\ Len(request.body) = DeclaredLength(request)
         /\ config.limit > 0 => DeclaredLength(request) <= config.limit
<1>1. ~Malformed(request)
  BY DEF Validated, Validate
<1>2. Upper("") = "" /\ NoRequest.method = ""
  BY DEF Upper, NoRequest
<1>3. request # NoRequest
  BY <1>1, <1>2 DEF Malformed
<1>4. config \in Configs /\ request \in Requests
  BY <1>3 DEF TypeOK
<1>5. QED
  BY <1>4, BodyIsDeclared, RequestAssumption

-----------------------------------------------------------------------------
(* Files.                                                                      *)

\* What the tests of a path say about the place it names.
LEMMA WhatIsThere ==
  ASSUME IsTree(files), NEW path
  PROVE  /\ At(files, path) \in Nodes
         /\ IsFile(files, path) => /\ Exists(files, path) /\ ~IsDirectory(files, path)
                                   /\ Place(path) \in Places \ {<<>>}
                                   /\ At(files, path) = files[Place(path)]
                                   /\ files[Place(path)].kind = "file" /\ ~EndsInSlash(path)
         /\ IsDirectory(files, path) => /\ Exists(files, path) /\ ~IsFile(files, path)
                                        /\ Place(path) \in Places
                                        /\ At(files, path) = files[Place(path)]
                                        /\ files[Place(path)].kind = "dir"
         /\ Exists(files, path) => IsFile(files, path) \/ IsDirectory(files, path)
<1>1. files \in [Places -> Nodes] /\ files[<<>>].kind = "dir"
  BY DEF IsTree, Directory
<1>2. Nothing \in Nodes /\ Nothing.kind = "none"
  BY DEF Nothing, Nodes
<1>3. At(files, path) \in Nodes
  BY <1>1, <1>2 DEF At
<1>4. At(files, path).kind # "none" => /\ Place(path) \in Places
                                       /\ At(files, path) = files[Place(path)]
                                       /\ EndsInSlash(path) => files[Place(path)].kind = "dir"
  BY <1>2 DEF At
<1>5. QED
  BY <1>1, <1>3, <1>4 DEF Exists, IsFile, IsDirectory, Nodes

LEMMA FrontIsElsewhere ==
  ASSUME NEW p \in Places \ {<<>>}
  PROVE  Front(p) \in Places /\ Front(p) # p
<1>1. p \in Seq(Seq(Tokens)) /\ Front(p) \in Places
  BY PlaceAssumption
<1>2. Len(p) \in Nat /\ Len(p) # 0
  BY <1>1, EmptySeq, LenProperties
<1>3. PICK n \in Nat : n = Len(p) - 1
  BY <1>2
<1>4. 1 \in Int /\ n \in Int /\ \A i \in 1..n : p[i] \in Seq(Tokens)
  BY <1>1, <1>2, <1>3, LenProperties
<1>5. Len(SubSeq(p, 1, n)) = n
  BY <1>4, SubSeqProperties
<1>6. Front(p) = SubSeq(p, 1, n)
  BY <1>3, Zenon DEF Front
<1>7. QED
  BY <1>1, <1>2, <1>3, <1>5, <1>6

\* One change at a time leaves every file in a directory.
LEMMA TreeStays ==
  ASSUME IsTree(files), NEW p \in Places \ {<<>>}, NEW node \in Nodes,
         files[Front(p)].kind = "dir", files[p].kind # "dir" \/ IsEmpty(files, p)
  PROVE  IsTree([files EXCEPT ![p] = node])
<1> DEFINE after == [files EXCEPT ![p] = node]
<1>1. after \in [Places -> Nodes] /\ after[<<>>] = Directory
  BY PlaceAssumption DEF IsTree
<1>2. ASSUME NEW q \in Places \ {<<>>}, after[q].kind # "none"
      PROVE  after[Front(q)].kind = "dir"
  <2>1. Front(q) \in Places /\ Front(q) # q
    BY FrontIsElsewhere
  <2>2. CASE q = p
    BY <2>1, <2>2 DEF IsTree
  <2>3. CASE q # p
    <3>1. files[q].kind # "none" /\ files[Front(q)].kind = "dir"
      BY <1>2, <2>3 DEF IsTree
    <3>2. Front(q) # p
      BY <3>1 DEF IsEmpty, Children
    <3>3. QED
      BY <2>1, <3>1, <3>2 DEF IsTree
  <2>4. QED
    BY <2>2, <2>3
<1>3. QED
  BY <1>1, <1>2 DEF IsTree

-----------------------------------------------------------------------------
(* The location that governs a path.                                           *)

LEMMA PathHasLength ==
  ASSUME NEW r \in Requests
  PROVE  Len(StripUriQuery(r.uri)) \in Nat
<1> DEFINE text == r.uri.path
           I == {i \in 1..Len(text) : text[i] = "#"}
<1>1. text \in Seq(Tokens) /\ Len(text) \in Nat
  BY RequestAssumption, LenProperties
<1>2. CASE Contains(text, "#")
  <2>1. I \subseteq Nat /\ I # {}
    BY <1>2 DEF Contains
  <2>2. \E m \in I : \A j \in I : m <= j
    BY <2>1, LeastExists
  <2>3. Min(I) \in I
    BY <2>2 DEF Min
  <2>4. SelectInSeq(text, LAMBDA t : t = "#") = Min(I)
    BY <2>1 DEF SelectInSeq
  <2>5. PICK n \in Nat : n = Min(I) - 1 /\ n <= Len(text)
    <3>1. Min(I) \in 1..Len(text)
      BY <2>3
    <3> HIDE DEF I, text
    <3>2. QED
      BY <1>1, <3>1
  <2>6. 1 \in Int /\ n \in Int /\ \A i \in 1..n : text[i] \in Tokens
    <3>1. text \in [1..Len(text) -> Tokens]
      BY <1>1, LenProperties
    <3> HIDE DEF I, text
    <3>2. QED
      BY <1>1, <2>5, <3>1
  <2>7. Len(SubSeq(text, 1, n)) = IF 1 <= n THEN n - 1 + 1 ELSE 0
    BY <2>6, SubSeqProperties
  <2>8. Until(text, "#") = SubSeq(text, 1, n)
    BY <2>4, <2>5 DEF Until
  <2>9. Len(Until(text, "#")) \in Nat
    BY <2>7, <2>8
  <2>10. QED
    BY <1>1, <2>9 DEF StripUriQuery
<1>3. CASE ~Contains(text, "#")
  BY <1>1, <1>3 DEF StripUriQuery
<1>4. QED
  BY <1>2, <1>3

LEMMA BestLocationIsLongest ==
  ASSUME NEW c \in Configs, NEW path, Len(path) \in Nat
  PROVE  \/ Matching(c, path) = {} /\ FindBestLocation(c, path) = NoLocation
         \/ \E i \in Matching(c, path) :
              /\ FindBestLocation(c, path) = c.locations[i]
              /\ \A j \in Matching(c, path) :
                   Len(c.locations[j].path) <= Len(c.locations[i].path)
<1> DEFINE matching == Matching(c, path)
           length(i) == Len(c.locations[i].path)
           better(i, j) == length(i) > length(j) \/ (length(i) = length(j) /\ i <= j)
<1>1. \A i \in matching : i \in Nat /\ length(i) \in Nat /\ length(i) <= Len(path)
  <2>1. DOMAIN c.locations = 1..Len(c.locations)
    BY ConfigAssumption
  <2> SUFFICES ASSUME NEW i \in matching
               PROVE  i \in Nat /\ length(i) \in Nat /\ length(i) <= Len(path)
    OBVIOUS
  <2>2. i \in DOMAIN c.locations /\ IsPrefix(c.locations[i].path, path)
    BY DEF Matching
  <2>3. c.locations[i].path \in Seq(Tokens)
    BY <2>2, ConfigAssumption
  <2>4. length(i) \in Nat
    BY <2>3, LenProperties
  <2>5. length(i) <= Len(path)
    BY <2>2 DEF IsPrefix
  <2>6. i \in Nat
    BY <2>1, <2>2
  <2>7. QED
    BY <2>4, <2>5, <2>6
<1>2. CASE matching = {}
  BY <1>2 DEF FindBestLocation
<1>3. CASE matching # {}
  <2> DEFINE T == {Len(path) - length(i) : i \in matching}
  <2>1. T \subseteq Nat /\ T # {}
    BY <1>1, <1>3
  <2>2. PICK m \in T : \A j \in T : m <= j
    BY <2>1, LeastExists
  <2>3. PICK i0 \in matching : m = Len(path) - length(i0)
    BY <2>2
  <2>4. \A j \in matching : length(j) <= length(i0)
    <3> SUFFICES ASSUME NEW j \in matching PROVE length(j) <= length(i0)
      OBVIOUS
    <3>1. m <= Len(path) - length(j)
      BY <2>2
    <3>2. length(j) \in Nat /\ length(i0) \in Nat
      BY <1>1
    <3> HIDE DEF length, matching
    <3>3. QED
      BY <3>1, <3>2, <2>3
  <2> DEFINE U == {i \in matching : length(i) = length(i0)}
  <2>5. U \subseteq Nat /\ U # {}
    BY <1>1
  <2>6. PICK i1 \in U : \A j \in U : i1 <= j
    BY <2>5, LeastExists
  <2>7. \A j \in matching : better(i1, j)
    <3> SUFFICES ASSUME NEW j \in matching PROVE better(i1, j)
      OBVIOUS
    <3>1. length(j) \in Nat /\ length(i1) = length(i0) /\ length(i0) \in Nat /\ length(j) <= length(i0)
      BY <1>1, <2>4
    <3>2. length(j) = length(i0) => i1 <= j
      BY <2>6
    <3> HIDE DEF length, matching, U
    <3>3. QED
      BY <3>1, <3>2
  <2> DEFINE best == CHOOSE i \in matching : \A j \in matching : better(i, j)
  <2>8. best \in matching /\ \A j \in matching : better(best, j)
    <3> HIDE DEF better, matching
    <3> QED
      BY <2>6, <2>7 DEF matching
  <2>9. \A j \in matching : length(j) <= length(best)
    <3> SUFFICES ASSUME NEW j \in matching PROVE length(j) <= length(best)
      OBVIOUS
    <3>1. better(best, j) /\ length(j) \in Nat /\ length(best) \in Nat
      BY <1>1, <2>8
    <3> HIDE DEF length, best, matching
    <3>2. QED
      BY <3>1
  <2>10. FindBestLocation(c, path) = c.locations[best]
    BY <1>3, Zenon DEF FindBestLocation
  <2>11. QED
    <3> HIDE DEF best
    <3> QED
      BY <2>8, <2>9, <2>10
<1>4. QED
  BY <1>2, <1>3

\* The redirect of the location of a request is none, or a code of its own.
LEMMA RedirectsAreApart ==
  ASSUME NEW c \in Configs, NEW path, Len(path) \in Nat
  PROVE  FindBestLocation(c, path).redirect \in {0} \cup 300..399
<1>1. NoLocation.redirect = 0
  BY DEF NoLocation
<1>2. \A i \in Matching(c, path) : c.locations[i].redirect \in {0} \cup 300..399
  BY ConfigAssumption DEF Matching
<1>3. CASE FindBestLocation(c, path) = NoLocation
  BY <1>1, <1>3
<1>4. CASE \E i \in Matching(c, path) : FindBestLocation(c, path) = c.locations[i]
  BY <1>2, <1>4
<1>5. QED
  BY <1>3, <1>4, BestLocationIsLongest

-----------------------------------------------------------------------------
(* What the steps have in common that open and change no file.                 *)

QuietStep ==
  \/ RespondInvalid \/ StartScript \/ RespondNoSuchMethod \/ ErrorPage
  \/ HandleGet \/ HandlePost \/ HandleDelete
  \/ GetIsDirectory \/ GetExists \/ GetMayRead \/ IndexExists \/ IndexIsDirectory
  \/ ListDirectory \/ OpenFails
  \/ PostChoosesTarget \/ PostParentIsDirectory \/ PostMayWrite
  \/ DeleteExists \/ DeleteIsDirectory \/ DeleteMayRemove

Statuses == {0, 400, 403, 404, 405, 413, 500}

\* A handler takes its first step.
Begins ==
  /\ step = "received" /\ Validated(request) /\ ~IsCgiRequest(request.uri)
  /\ Refusal(request.method) = 0 /\ target' = Named(request.uri) /\ position' = position
  /\ \/ request.method = "GET" /\ step' = "is-target-a-directory"
     \/ request.method = "POST" /\ step' = "is-target-to-hold-the-upload"
     \/ request.method = "DELETE" /\ step' = "does-target-exist"

\* A handler takes its next step.
Continues ==
  /\ step \in AtWork
  /\ step' \in GetSteps => step \in GetSteps
  /\ step' \in PostSteps => step \in PostSteps
  /\ step' \in DeleteSteps => step \in DeleteSteps
  /\ step' \notin {"is-target-a-directory", "is-target-to-hold-the-upload"}

\* The answer to a request, and what became of it then.
Ends ==
  /\ step' = "idle"
  /\ \/ /\ step = "received" /\ answer' = answer /\ given' = Given(request)
        /\ Validated(request)
     \/ /\ step # "error-page" /\ answer'.status \notin {200, 201, 204, 500} /\ given' = given
     \/ /\ step = "error-page" /\ answer'.status = failure /\ given' = given
     \/ /\ step = "does-index-exist" /\ answer' = [status |-> 200, body |-> Listing]
        /\ position > Len(IndexFiles(config)) /\ Location.autoindex /\ UNCHANGED <<target, given>>

\* An error response is to be built.
Fails ==
  /\ step # "error-page" /\ step' = "error-page" /\ answer' = answer /\ given' = given

Quiet ==
  /\ UNCHANGED <<config, request, handled, disturbed, changes, files, opened, progress, changed, posted>>
  /\ step \notin {"idle", "read-lines", "read", "write"}
  /\ position \in Nat \ {0} => position' \in Nat \ {0}
  /\ failure \in Statuses => failure' \in Statuses
  /\ \/ (Begins \/ Continues) /\ step' \in AtWork \ {"read-lines", "read", "write"} /\ answer' = answer /\ given' = given
     \/ Ends \/ Fails

LEMMA RefusalKinds ==
  ASSUME TypeOK, Validated(request), NEW method
  PROVE  /\ Location.redirect \in {0} \cup 300..399
         /\ Refusal(method) \in Statuses \cup {Location.redirect}
         /\ Refusal(method) # 0 /\ Refusal(method) # Location.redirect =>
              \/ Refusal(method) = 403 /\ Contains(Path, "..")
              \/ Refusal(method) \in {400, 413} /\ method = "POST"
              \/ Refusal(method) = 405
         /\ Refusal(method) = 0 => /\ ~Contains(Path, "..") /\ Location.redirect = 0
                                   /\ IsMethodAllowed(Location, method)
<1>1. request \in Requests /\ config \in Configs
  BY ValidatedIsRequest
<1>2. Location.redirect \in {0} \cup 300..399
  BY <1>1, PathHasLength, RedirectsAreApart DEF Location, Path
<1>3. QED
  BY <1>2 DEF Refusal, Statuses

LEMMA HandleEffect ==
  ASSUME IInv, NEW method, NEW s, Handle(method, s)
  PROVE  /\ step = "received" /\ Validated(request) /\ ~IsCgiRequest(request.uri)
         /\ request.method = method
         /\ UNCHANGED <<config, request, position, given, handled, disturbed, changes, files,
                        opened, progress, changed, posted>>
         /\ \/ /\ step' = s /\ Refusal(method) = 0 /\ target' = Named(request.uri)
               /\ UNCHANGED <<failure, answer>>
            \/ /\ step' = "idle" /\ answer' = [status |-> Location.redirect, body |-> Generated]
               /\ Location.redirect \in 300..399 /\ UNCHANGED <<target, failure>>
            \/ /\ step' = "error-page" /\ UNCHANGED <<target, answer>>
               /\ \/ failure' = 403 /\ Contains(Path, "..")
                  \/ failure' \in {400, 413} /\ method = "POST"
                  \/ failure' = 405
<1>1. /\ step = "received" /\ Validated(request) /\ ~IsCgiRequest(request.uri)
      /\ request.method = method
      /\ UNCHANGED <<files, opened, progress, changed, posted>>
  BY DEF Handle, IsFor, Validated, fileVars
<1>2. TypeOK
  BY DEF IInv
<1> DEFINE status == Refusal(method)
<1>3. CASE status = 0
  <2>1. Aim(ResolveFilePath(ResolveRoot(config, Location), Path), s)
    BY <1>3, Zenon DEF Handle
  <2>2. target' = Named(request.uri)
    BY <2>1 DEF Aim, Named, Location, Path
  <2>3. QED
    BY <1>1, <1>3, <2>1, <2>2 DEF Aim
<1>4. CASE status # 0 /\ status = Location.redirect
  <2>1. Answer(status, Generated)
    BY <1>4, Zenon DEF Handle
  <2>2. Location.redirect \in {0} \cup 300..399
    BY <1>1, <1>2, RefusalKinds
  <2>3. QED
    BY <1>1, <1>4, <2>1, <2>2 DEF Answer
<1>5. CASE status # 0 /\ status # Location.redirect
  <2>1. Fail(status)
    BY <1>5, Zenon DEF Handle
  <2>2. \/ status = 403 /\ Contains(Path, "..")
        \/ status \in {400, 413} /\ method = "POST"
        \/ status = 405
    BY <1>1, <1>2, <1>5, RefusalKinds
  <2>3. QED
    BY <1>1, <2>1, <2>2 DEF Fail
<1>6. QED
  BY <1>3, <1>4, <1>5

\* No content of a file is taken for the listing of a directory.
LEMMA ContentIsNoListing ==
  ASSUME NEW data \in Seq(Bytes)
  PROVE  /\ data # Listing
         /\ AsText(data) \in Seq(Bytes) /\ AsText(data) # Listing
<1>1. \A text \in Seq(Bytes) : text # Listing
  <2>1. Listing[1] = "listing" /\ 1 \in 1..Len(Listing)
    BY DEF Listing
  <2>2. \A text \in Seq(Bytes) : text \in [1..Len(text) -> Bytes]
    BY LenProperties
  <2>3. "listing" \notin Bytes
    BY ByteAssumption
  <2>4. ASSUME NEW text \in Seq(Bytes), text = Listing PROVE FALSE
    <3>1. Listing \in [1..Len(Listing) -> Bytes]
      BY <2>2, <2>4
    <3>2. Listing[1] \in Bytes
      BY <2>1, <3>1
    <3>3. QED
      BY <2>1, <2>3, <3>2
  <2>5. QED
    BY <2>4
<1>2. NewLine \in Bytes
  BY ByteAssumption
<1>3. Append(data, NewLine) \in Seq(Bytes)
  BY <1>2, AppendProperties
<1>4. AsText(data) \in Seq(Bytes)
  BY <1>3 DEF AsText
<1>5. QED
  BY <1>1, <1>4

LEMMA QuietSteps ==
  ASSUME IInv, QuietStep
  PROVE  Quiet
<1> USE DEF GetSteps, PostSteps, DeleteSteps, AtWork, Statuses
<1>1. step = "received" => ~(step \in AtWork)
  OBVIOUS
<1>2. CASE RespondInvalid
  <2>1. Validate(request) \in {400, 413}
    BY <1>2 DEF RespondInvalid, Validate
  <2>2. QED
    BY <1>2, <2>1 DEF RespondInvalid, Answer, fileVars, Quiet, Ends
<1>3. CASE StartScript
  BY <1>3 DEF StartScript, Answer, fileVars, Quiet, Ends, Validated
<1>4. CASE RespondNoSuchMethod
  BY <1>4 DEF RespondNoSuchMethod, Answer, fileVars, Quiet, Ends
<1>5. CASE ErrorPage
  BY <1>5 DEF ErrorPage, Answer, fileVars, Quiet, Ends
<1> DEFINE Effect(method, s) ==
      /\ step = "received" /\ Validated(request) /\ ~IsCgiRequest(request.uri)
      /\ request.method = method
      /\ UNCHANGED <<config, request, position, given, handled, disturbed, changes, files,
                     opened, progress, changed, posted>>
      /\ \/ /\ step' = s /\ Refusal(request.method) = 0 /\ target' = Named(request.uri)
            /\ UNCHANGED <<failure, answer>>
         \/ /\ step' = "idle" /\ answer'.status \in 300..399 /\ UNCHANGED <<target, failure>>
         \/ /\ step' = "error-page" /\ UNCHANGED <<target, answer>>
            /\ failure' \in {400, 403, 405, 413}
<1>6. CASE HandleGet
  <2>1. Handle("GET", "is-target-a-directory")
    BY <1>6 DEF HandleGet
  <2>2. Effect("GET", "is-target-a-directory")
    BY <2>1, HandleEffect
  <2>3. QED
    BY <2>2 DEF Quiet, Begins, Ends, Fails
<1>7. CASE HandlePost
  <2>1. Handle("POST", "is-target-to-hold-the-upload")
    BY <1>7 DEF HandlePost
  <2>2. Effect("POST", "is-target-to-hold-the-upload")
    BY <2>1, HandleEffect
  <2>3. QED
    BY <2>2 DEF Quiet, Begins, Ends, Fails
<1>8. CASE HandleDelete
  <2>1. Handle("DELETE", "does-target-exist")
    BY <1>8 DEF HandleDelete
  <2>2. Effect("DELETE", "does-target-exist")
    BY <2>1, HandleEffect
  <2>3. QED
    BY <2>2 DEF Quiet, Begins, Ends, Fails
<1> USE DEF Ask, Goto, Aim, Fail, Answer, NextIndex, fileVars, Quiet, Continues, Ends, Fails
<1>9. CASE GetIsDirectory
  BY <1>9 DEF GetIsDirectory
<1>10. CASE GetExists
  BY <1>10 DEF GetExists
<1>11. CASE GetMayRead
  BY <1>11 DEF GetMayRead
<1>12. CASE IndexExists
  BY <1>12 DEF IndexExists
<1>13. CASE IndexIsDirectory
  BY <1>13 DEF IndexIsDirectory
<1>14. CASE ListDirectory
  BY <1>14 DEF ListDirectory
<1>15. CASE OpenFails
  BY <1>15 DEF OpenFails
<1>16. CASE PostChoosesTarget
  BY <1>16 DEF PostChoosesTarget
<1>17. CASE PostParentIsDirectory
  BY <1>17 DEF PostParentIsDirectory
<1>18. CASE PostMayWrite
  BY <1>18 DEF PostMayWrite
<1>19. CASE DeleteExists
  BY <1>19 DEF DeleteExists
<1>20. CASE DeleteIsDirectory
  BY <1>20 DEF DeleteIsDirectory
<1>21. CASE DeleteMayRemove
  BY <1>21 DEF DeleteMayRemove
<1> HIDE DEF Ask, Goto, Aim, Fail, Answer, NextIndex, fileVars, Quiet, Continues, Ends, Fails
<1>22. QED
  BY <1>2, <1>3, <1>4, <1>5, <1>6, <1>7, <1>8, <1>9, <1>10, <1>11, <1>12, <1>13, <1>14, <1>15,
     <1>16, <1>17, <1>18, <1>19, <1>20, <1>21 DEF QuietStep

LEMMA SameScript ==
  ASSUME config' = config, NEW r
  PROVE  Given(r)' = Given(r)
BY DEF Given

LEMMA QuietTypes ==
  ASSUME IInv, Quiet
  PROVE  TypeOK'
<1>1. TypeOK /\ NamedInv /\ MethodInv
  BY DEF IInv
<1>2. step' \in Steps
  BY DEF Quiet, Begins, Continues, Ends, Fails, Steps, AtWork, GetSteps, PostSteps, DeleteSteps
<1>3. position' \in Nat /\ failure' \in Nat
  BY <1>1 DEF Quiet, Statuses, NamedInv, MethodInv
<1>4. given' = NoScript \/ \E r \in Requests : given' = Given(r)'
  <2>1. given' = given \/ (given' = Given(request) /\ Validated(request))
    BY DEF Quiet, Begins, Continues, Ends, Fails
  <2>2. config' = config
    BY DEF Quiet
  <2>3. \A r \in Requests : Given(r)' = Given(r)
    BY <2>2, SameScript
  <2>4. Validated(request) => request \in Requests
    BY <1>1, ValidatedIsRequest
  <2>5. QED
    BY <1>1, <2>1, <2>3, <2>4 DEF TypeOK
<1>5. QED
  BY <1>1, <1>2, <1>3, <1>4 DEF Quiet, TypeOK

LEMMA QuietMethod ==
  ASSUME IInv, Quiet
  PROVE  MethodInv'
<1>1. MethodInv
  BY DEF IInv
<1>2. config' = config /\ request' = request
  BY DEF Quiet
<1>3. /\ Refusal(request.method)' = Refusal(request.method)
      /\ Validated(request)' <=> Validated(request)
  BY <1>2, SameRequest
<1>4. failure' \in Statuses
  BY <1>1 DEF Quiet, MethodInv, Statuses
<1>5. step' # "idle" => answer' = NoAnswer
  BY <1>1 DEF Quiet, MethodInv, Begins, Continues, Ends, Fails, AtWork
<1>6. CASE step' \in AtWork
  <2>1. Begins \/ Continues
    BY <1>6 DEF Quiet, Ends, Fails, AtWork, GetSteps, PostSteps, DeleteSteps
  <2>2. CASE Begins
    BY <1>2, <1>3, <1>4, <1>5, <2>2 DEF Begins, MethodInv, Statuses, AtWork, GetSteps, PostSteps, DeleteSteps
  <2>3. CASE Continues
    BY <1>1, <1>2, <1>3, <1>4, <1>5, <2>3 DEF Continues, MethodInv, Statuses, AtWork
  <2>4. QED
    BY <2>1, <2>2, <2>3
<1>7. CASE step' \notin AtWork
  BY <1>4, <1>5, <1>7 DEF MethodInv, Statuses, AtWork
<1>8. QED
  BY <1>6, <1>7

LEMMA QuietNamed ==
  ASSUME IInv, Quiet
  PROVE  NamedInv' /\ ThrowsOnlyDisturbed'
<1>1. NamedInv
  BY DEF IInv
<1>2. position' \in Nat \ {0} /\ config' = config /\ request' = request
  BY <1>1 DEF Quiet, NamedInv
<1>3. Named(request.uri)' = Named(request.uri)
  BY <1>2, SameRequest
<1>4. step' # "received" /\ step' # "threw"
  BY DEF Quiet, Begins, Continues, Ends, Fails, AtWork, GetSteps, PostSteps, DeleteSteps
<1>5. ASSUME step' \in {"is-target-a-directory", "is-target-to-hold-the-upload"}
      PROVE  Begins
  BY <1>5 DEF Quiet, Continues, Ends, Fails
<1>6. QED
  BY <1>1, <1>2, <1>3, <1>4, <1>5 DEF NamedInv, ThrowsOnlyDisturbed, Begins

LEMMA QuietFiles ==
  ASSUME IInv, Quiet
  PROVE  OpenInv' /\ ChangedInv' /\ PostedInv' /\ CreatedIsStored' /\ BodiesAreDeclared'
<1>1. TypeOK /\ OpenInv /\ ChangedInv /\ PostedInv /\ BodiesAreDeclared
  BY DEF IInv
<1>2. UNCHANGED <<config, request, handled, disturbed, changes, files, opened, progress, changed, posted>>
  BY DEF Quiet
<1>3. /\ Refusal(request.method)' = Refusal(request.method)
      /\ Validated(request)' <=> Validated(request)
  BY <1>2, SameRequest
<1>4. step \notin {"idle", "read-lines", "read", "write"} /\ step' \notin {"read-lines", "read", "write"}
  BY DEF Quiet, Begins, Continues, Ends, Fails, AtWork, GetSteps, PostSteps, DeleteSteps
<1>5. OpenInv'
  BY <1>1, <1>2, <1>4 DEF OpenInv
<1>6. ChangedInv'
  <2>1. SUFFICES ASSUME changed # {} PROVE ChangedInv'
    BY <1>2 DEF ChangedInv
  <2>2. step = "error-page" /\ failure = 500
    BY <1>1, <1>4, <2>1 DEF ChangedInv
  <2>3. step' = "idle" /\ answer'.status = 500
    <3>1. ~Begins /\ ~Continues /\ ~Fails
      BY <2>2 DEF Begins, Continues, Fails, AtWork, GetSteps, PostSteps, DeleteSteps
    <3>2. Ends
      BY <3>1 DEF Quiet
    <3>3. QED
      BY <2>2, <3>2 DEF Ends
  <2>4. QED
    BY <1>1, <1>2, <1>3, <2>1, <2>3 DEF ChangedInv
<1>7. PostedInv'
  BY <1>1, <1>2 DEF PostedInv, Named
<1>8. CreatedIsStored'
  <2>1. SUFFICES ASSUME step' = "idle", answer'.status = 201 PROVE FALSE
    BY DEF CreatedIsStored, Answered
  <2>2. Ends
    BY <2>1 DEF Quiet, AtWork, GetSteps, PostSteps, DeleteSteps, Fails
  <2>3. MethodInv /\ NoAnswer.status = 0
    BY DEF IInv, NoAnswer
  <2>4. QED
    BY <1>4, <2>1, <2>2, <2>3 DEF Ends, MethodInv
<1>9. BodiesAreDeclared'
  <2>1. given' = given \/ (given' = Given(request) /\ Validated(request))
    BY DEF Quiet, Begins, Continues, Ends, Fails
  <2>2. CASE given' = given
    BY <1>1, <1>2, <2>2 DEF BodiesAreDeclared
  <2>3. CASE given' = Given(request) /\ Validated(request)
    <3>1. /\ Len(request.body) = DeclaredLength(request)
          /\ config.limit > 0 => DeclaredLength(request) <= config.limit
      BY <1>1, <2>3, ValidatedIsRequest
    <3>2. Given(request).body = request.body
      BY DEF Given
    <3>3. Given(request).environment.CONTENT_LENGTH = DeclaredLength(request)
      BY DEF Given, Environment
    <3>4. QED
      BY <1>1, <1>2, <2>3, <3>1, <3>2, <3>3 DEF BodiesAreDeclared
  <2>4. QED
    BY <2>1, <2>2, <2>3
<1>10. QED
  BY <1>5, <1>6, <1>7, <1>8, <1>9

LEMMA IndexFilesInOrder ==
  ASSUME config \in Configs
  PROVE  /\ Len(IndexFiles(config)) \in Nat
         /\ DOMAIN IndexFiles(config) = 1..Len(IndexFiles(config))
<1>1. CASE config.index = <<>>
  <2>1. IndexFiles(config) = << <<"index.html">>, <<"index.htm">> >>
    BY <1>1 DEF IndexFiles
  <2>2. QED
    BY <2>1
<1>2. CASE config.index # <<>>
  <2>1. IndexFiles(config) \in Seq(Seq(Tokens))
    BY <1>2, ConfigAssumption DEF IndexFiles
  <2>2. QED
    BY <2>1, LenProperties
<1>3. QED
  BY <1>1, <1>2

LEMMA QuietIndex ==
  ASSUME IInv, Quiet
  PROVE  IndexGoesFirst'
<1>1. TypeOK /\ MethodInv /\ TargetInv
  BY DEF IInv
<1>2. UNCHANGED <<config, request, disturbed, files>>
  BY DEF Quiet
<1>3. Location' = Location /\ IndexFiles(config)' = IndexFiles(config)
  BY <1>2, SameRequest
<1>4. SUFFICES ASSUME step' = "idle", answer'.status = 200, answer'.body = Listing
               PROVE  IndexGoesFirst'
  BY DEF IndexGoesFirst, Answered
<1>5. Ends
  BY <1>4 DEF Quiet, AtWork, GetSteps, PostSteps, DeleteSteps, Fails
<1>6. NoAnswer.status = 0 /\ failure \in Statuses
  BY <1>1 DEF NoAnswer, MethodInv, Statuses
<1>7. step = "does-index-exist" /\ position > Len(IndexFiles(config)) /\ Location.autoindex
  BY <1>1, <1>4, <1>5, <1>6 DEF Ends, MethodInv, Statuses
<1>8. \A i \in DOMAIN IndexFiles(config) : i < position
  BY <1>1, <1>7, IndexFilesInOrder DEF TypeOK
<1>9. target' = target
  BY <1>1, <1>4, <1>5, <1>6 DEF Ends, MethodInv, Statuses
<1>10. ~disturbed => \A i \in DOMAIN IndexFiles(config) :
                       ~IsFile(files, WithSlash(target) \o IndexFiles(config)[i])
  BY <1>1, <1>7, <1>8 DEF TargetInv
<1>11. QED
  BY <1>2, <1>3, <1>7, <1>9, <1>10 DEF IndexGoesFirst, NotDisturbed

LEMMA QuietTarget ==
  ASSUME IInv, QuietStep
  PROVE  TargetInv'
<1>1. TypeOK /\ NamedInv /\ TargetInv /\ IsTree(files)
  BY DEF IInv, TypeOK
<1>2. Quiet
  BY QuietSteps
<1>3. UNCHANGED <<config, request, disturbed, files>>
  BY <1>2 DEF Quiet
<1>4. IndexFiles(config)' = IndexFiles(config) /\ Named(request.uri)' = Named(request.uri)
  BY <1>3, SameRequest
<1>5. \A i \in DOMAIN IndexFiles(config) : i \in Nat \ {0}
  BY <1>1, IndexFilesInOrder DEF TypeOK
<1>6. position \in Nat \ {0}
  BY <1>1 DEF NamedInv
<1> DEFINE Found(s, path, pos) ==
      ~disturbed =>
        /\ s \in {"does-target-exist-to-be-read", "may-target-be-read", "open-to-read",
                 "may-target-be-removed", "remove"} => ~IsDirectory(files, path)
        /\ s \in {"does-index-exist", "is-index-a-directory"} =>
             \A i \in DOMAIN IndexFiles(config) :
               i < pos => ~IsFile(files, WithSlash(path) \o IndexFiles(config)[i])
        /\ s \in PostSteps => path = Named(request.uri) \/ IsDirectory(files, Named(request.uri))
<1>7. Found(step, target, position)
  BY <1>1 DEF TargetInv
<1>8. SUFFICES Found(step', target', position')
  BY <1>3, <1>4 DEF TargetInv
<1>9. CASE step' \in {"idle", "error-page"}
  BY <1>9 DEF PostSteps
<1>10. CASE HandleGet \/ HandlePost \/ HandleDelete
  <2>1. step = "received"
    BY <1>10 DEF HandleGet, HandlePost, HandleDelete, Handle, IsFor
  <2>2. Begins \/ step' \in {"idle", "error-page"}
    BY <1>2, <2>1 DEF Quiet, Continues, Ends, Fails, AtWork, GetSteps, PostSteps, DeleteSteps
  <2>3. QED
    BY <1>9, <2>2 DEF Begins, PostSteps
<1> USE DEF Ask, Goto, Aim, Fail, Answer, fileVars
<1>11. CASE GetIsDirectory
  <2>1. step = "is-target-a-directory" /\ UNCHANGED <<target, position>>
    BY <1>11 DEF GetIsDirectory
  <2>2. position = 1
    BY <1>1, <2>1 DEF NamedInv
  <2>3. QED
    BY <1>5, <1>11, <2>1, <2>2 DEF GetIsDirectory, PostSteps
<1>12. CASE GetExists \/ GetMayRead
  BY <1>7, <1>9, <1>12 DEF GetExists, GetMayRead, PostSteps
<1>13. CASE IndexExists
  <2>1. step = "does-index-exist" /\ target' = target
    BY <1>13 DEF IndexExists, NextIndex
  <2>2. CASE Exists(files, IndexPath)
    BY <1>7, <1>13, <2>1, <2>2 DEF IndexExists, PostSteps
  <2>3. CASE ~Exists(files, IndexPath)
    <3>1. step' = "does-index-exist" /\ position' = position + 1
      BY <1>13, <2>3 DEF IndexExists, NextIndex
    <3>2. ~IsFile(files, WithSlash(target) \o IndexFiles(config)[position])
      BY <1>1, <2>3, WhatIsThere DEF IndexPath
    <3>3. \A i \in DOMAIN IndexFiles(config) : i < position + 1 => i < position \/ i = position
      BY <1>5, <1>6
    <3>4. QED
      BY <1>7, <2>1, <3>1, <3>2, <3>3 DEF PostSteps
  <2>4. QED
    BY <2>2, <2>3
<1>14. CASE IndexIsDirectory
  <2>1. CASE IsDirectory(files, IndexPath)
    <3>1. step = "is-index-a-directory" /\ target' = target
      BY <1>14, <2>1 DEF IndexIsDirectory, NextIndex
    <3>2. step' = "does-index-exist" /\ position' = position + 1
      BY <1>14, <2>1 DEF IndexIsDirectory, NextIndex
    <3>3. ~IsFile(files, WithSlash(target) \o IndexFiles(config)[position])
      BY <1>1, <2>1, WhatIsThere DEF IndexPath
    <3>4. \A i \in DOMAIN IndexFiles(config) : i < position + 1 => i < position \/ i = position
      BY <1>5, <1>6
    <3>5. QED
      BY <1>7, <3>1, <3>2, <3>3, <3>4 DEF PostSteps
  <2>2. CASE ~IsDirectory(files, IndexPath)
    BY <1>14, <2>2 DEF IndexIsDirectory, PostSteps
  <2>3. QED
    BY <2>1, <2>2
<1>15. CASE PostChoosesTarget
  <2>1. step = "is-target-to-hold-the-upload" /\ step' = "is-parent-a-directory"
    BY <1>15 DEF PostChoosesTarget
  <2>2. target = Named(request.uri)
    BY <1>1, <2>1 DEF NamedInv
  <2>3. target' = target \/ IsDirectory(files, target)
    BY <1>15 DEF PostChoosesTarget
  <2>4. QED
    BY <2>1, <2>2, <2>3
<1>16. CASE PostParentIsDirectory \/ PostMayWrite
  BY <1>7, <1>9, <1>16 DEF PostParentIsDirectory, PostMayWrite, PostSteps
<1>17. CASE DeleteExists \/ DeleteIsDirectory \/ DeleteMayRemove
  BY <1>7, <1>9, <1>17 DEF DeleteExists, DeleteIsDirectory, DeleteMayRemove, PostSteps
<1>18. CASE RespondInvalid \/ StartScript \/ RespondNoSuchMethod \/ ErrorPage \/ ListDirectory \/ OpenFails
  BY <1>9, <1>18 DEF RespondInvalid, StartScript, RespondNoSuchMethod, ErrorPage, ListDirectory, OpenFails
<1>19. QED
  BY <1>10, <1>11, <1>12, <1>13, <1>14, <1>15, <1>16, <1>17, <1>18 DEF QuietStep

\* The file that a GET looks for is there.
LEMMA PostedIsThere ==
  ASSUME IInv, GetsPosted
  PROVE  /\ request.method = "GET" /\ ~disturbed
         /\ ~Contains(Path, "..") /\ Location.redirect = 0 /\ ~IsCgiRequest(request.uri)
         /\ posted.body \in Seq(Bytes)
         /\ At(files, Named(request.uri)) = File(posted.body)
         /\ Exists(files, Named(request.uri)) /\ ~IsDirectory(files, Named(request.uri))
         /\ step \notin PostSteps /\ step \notin DeleteSteps
<1>1. /\ request.method = "GET" /\ posted.uri = request.uri /\ posted # NoRequest
      /\ ~IsDirectory(files, Named(request.uri))
  BY DEF GetsPosted
<1>2. /\ ~disturbed /\ ~Contains(Path, "..") /\ Location.redirect = 0
      /\ ~IsCgiRequest(request.uri) /\ posted.body \in Seq(Bytes)
      /\ At(files, Named(request.uri)) = File(posted.body)
  BY <1>1 DEF IInv, PostedInv, Path, Location
<1>3. Exists(files, Named(request.uri))
  BY <1>2 DEF Exists, File
<1>4. step \notin PostSteps /\ step \notin DeleteSteps
  BY <1>1 DEF IInv, MethodInv
<1>5. QED
  BY <1>1, <1>2, <1>3, <1>4

LEMMA QuietGet ==
  ASSUME IInv, QuietStep
  PROVE  GetInv'
<1>1. TypeOK /\ MethodInv /\ NamedInv /\ GetInv
  BY DEF IInv
<1>2. Quiet
  BY QuietSteps
<1>3. UNCHANGED <<config, request, files, opened, progress, posted>>
  BY <1>2 DEF Quiet
<1>4. Named(request.uri)' = Named(request.uri)
  BY <1>3, SameRequest
<1>5. SUFFICES ASSUME GetsPosted
               PROVE  GetInv'
  BY <1>3, <1>4 DEF GetInv, GetsPosted
<1>6. /\ request.method = "GET" /\ ~disturbed
      /\ ~Contains(Path, "..") /\ Location.redirect = 0 /\ ~IsCgiRequest(request.uri)
      /\ posted.body \in Seq(Bytes)
      /\ At(files, Named(request.uri)) = File(posted.body)
      /\ Exists(files, Named(request.uri)) /\ ~IsDirectory(files, Named(request.uri))
      /\ step \notin PostSteps /\ step \notin DeleteSteps
  BY <1>5, PostedIsThere
<1>7. GetInv' <=>
        /\ step' \in {"is-target-a-directory", "does-target-exist-to-be-read", "may-target-be-read",
                      "open-to-read", "read-lines", "read"} => target' = Named(request.uri)
        /\ step' \notin {"does-index-exist", "is-index-a-directory", "threw"}
        /\ step' = "read-lines" => IsTextFile(target') /\ opened.data = posted.body
        /\ step' = "read" => /\ ~IsTextFile(target') /\ opened.data = posted.body
                             /\ progress = Len(posted.body)
        /\ step' = "error-page" => failure' = 405 \/ ~Readable(target')
        /\ step' = "idle" => \/ answer'.status \in {400, 405, 413}
                             \/ ~Readable(target')
                             \/ answer' = Served(posted.body)'
  BY <1>3, <1>4, <1>5 DEF GetInv, GetsPosted
<1>8. /\ step \in {"is-target-a-directory", "does-target-exist-to-be-read", "may-target-be-read",
                   "open-to-read", "read-lines", "read"} => target = Named(request.uri)
      /\ step \notin {"does-index-exist", "is-index-a-directory", "threw"}
      /\ step = "error-page" => failure = 405 \/ ~Readable(target)
  BY <1>1, <1>5 DEF GetInv
<1>9. CASE RespondInvalid
  BY <1>7, <1>9 DEF RespondInvalid, Answer, Validate
<1>10. CASE StartScript \/ RespondNoSuchMethod
  BY <1>6, <1>10 DEF StartScript, RespondNoSuchMethod
<1>11. CASE ErrorPage
  BY <1>7, <1>8, <1>11 DEF ErrorPage, Answer
<1>12. CASE HandleGet
  <2>1. Handle("GET", "is-target-a-directory")
    BY <1>12 DEF HandleGet
  <2>2. /\ step = "received"
        /\ \/ step' = "is-target-a-directory" /\ target' = Named(request.uri)
           \/ step' = "idle" /\ Location.redirect \in 300..399
           \/ step' = "error-page" /\ (Contains(Path, "..") \/ failure' = 405)
    BY <2>1, HandleEffect
  <2>3. QED
    BY <1>6, <1>7, <2>2
<1>13. CASE HandlePost \/ HandleDelete
  BY <1>6, <1>13 DEF HandlePost, HandleDelete, Handle, IsFor
<1> USE DEF Ask, Goto, Aim, Fail, Answer
<1>14. CASE GetIsDirectory
  BY <1>6, <1>7, <1>8, <1>14 DEF GetIsDirectory
<1>15. CASE GetExists
  BY <1>6, <1>7, <1>8, <1>15 DEF GetExists
<1>16. CASE GetMayRead
  BY <1>6, <1>7, <1>8, <1>16 DEF GetMayRead
<1>17. CASE IndexExists \/ IndexIsDirectory \/ ListDirectory
  BY <1>8, <1>17 DEF IndexExists, IndexIsDirectory, ListDirectory
<1>18. CASE OpenFails
  BY <1>6, <1>7, <1>8, <1>18 DEF OpenFails
<1>19. CASE PostChoosesTarget \/ PostParentIsDirectory \/ PostMayWrite
  BY <1>6, <1>19 DEF PostChoosesTarget, PostParentIsDirectory, PostMayWrite, PostSteps
<1>20. CASE DeleteExists \/ DeleteIsDirectory \/ DeleteMayRemove
  BY <1>6, <1>20 DEF DeleteExists, DeleteIsDirectory, DeleteMayRemove, DeleteSteps
<1>21. QED
  BY <1>9, <1>10, <1>11, <1>12, <1>13, <1>14, <1>15, <1>16, <1>17, <1>18, <1>19, <1>20 DEF QuietStep

LEMMA QuietInv ==
  ASSUME IInv, QuietStep
  PROVE  IInv'
BY QuietSteps, QuietTypes, QuietMethod, QuietNamed, QuietFiles, QuietIndex, QuietTarget, QuietGet
   DEF IInv

-----------------------------------------------------------------------------
(* Reading a file in two steps.                                                *)

LEMMA OpenTextInv ==
  ASSUME IInv, OpenText
  PROVE  IInv'
<1>1. /\ TypeOK /\ MethodInv /\ NamedInv /\ OpenInv /\ ChangedInv /\ TargetInv /\ PostedInv /\ GetInv
      /\ BodiesAreDeclared
  BY DEF IInv
<1>2. /\ step = "open-to-read" /\ IsTextFile(target) /\ Exists(files, target) /\ step' = "read-lines"
      /\ opened' = [place |-> Place(target), data |-> At(files, target).data]
      /\ UNCHANGED <<config, request, target, position, failure, answer, given, handled, disturbed,
                     changes, files, progress, changed, posted>>
  BY DEF OpenText, Opened, Goto
<1>3. /\ Refusal(request.method)' = Refusal(request.method)
      /\ Validated(request)' <=> Validated(request)
      /\ Named(request.uri)' = Named(request.uri)
      /\ \A r : Given(r)' = Given(r)
  BY <1>2, SameRequest, SameScript
<1>4. opened' \in [place : Places \cup {Unlinked}, data : Seq(Bytes)]
  <2>1. At(files, target).data \in Seq(Bytes) /\ Place(target) \in Places
    BY <1>1, <1>2, WhatIsThere DEF TypeOK, Nodes
  <2>2. QED
    BY <1>2, <2>1
<1>5. changed = {}
  BY <1>1, <1>2 DEF ChangedInv
<1>6. TypeOK'
  BY <1>1, <1>2, <1>3 DEF TypeOK, Steps
<1>7. MethodInv'
  BY <1>1, <1>2, <1>3 DEF MethodInv, AtWork, GetSteps, PostSteps, DeleteSteps
<1>8. OpenInv' /\ ChangedInv'
  BY <1>2, <1>4, <1>5 DEF OpenInv, ChangedInv
<1>9. TargetInv' /\ NamedInv' /\ ThrowsOnlyDisturbed'
  BY <1>1, <1>2, <1>3 DEF TargetInv, NamedInv, ThrowsOnlyDisturbed, PostSteps
<1>10. PostedInv'
  BY <1>1, <1>2 DEF PostedInv, Named
<1>11. GetInv'
  <2>1. SUFFICES ASSUME GetsPosted PROVE GetInv'
    BY <1>2, <1>3 DEF GetInv, GetsPosted
  <2>2. target = Named(request.uri)
    BY <1>1, <1>2, <2>1 DEF GetInv
  <2>3. At(files, target).data = posted.body
    BY <2>1, <2>2, PostedIsThere DEF File
  <2>4. QED
    BY <1>2, <1>3, <2>2, <2>3 DEF GetInv
<1>12. CreatedIsStored' /\ BodiesAreDeclared' /\ IndexGoesFirst'
  BY <1>1, <1>2, <1>3 DEF CreatedIsStored, Answered, BodiesAreDeclared, IndexGoesFirst
<1>13. QED
  BY <1>6, <1>7, <1>8, <1>9, <1>10, <1>11, <1>12 DEF IInv

LEMMA ReadLinesInv ==
  ASSUME IInv, ReadLines
  PROVE  IInv'
<1>1. /\ TypeOK /\ MethodInv /\ NamedInv /\ OpenInv /\ ChangedInv /\ PostedInv /\ GetInv
      /\ BodiesAreDeclared
  BY DEF IInv
<1>2. /\ step = "read-lines" /\ step' = "idle" /\ opened' = NoFile
      /\ answer' = [status |-> 200, body |-> AsText(opened.data)]
      /\ UNCHANGED <<config, request, target, position, failure, given, handled, disturbed, changes,
                     files, progress, changed, posted>>
  BY DEF ReadLines, Answer
<1>3. /\ Refusal(request.method)' = Refusal(request.method)
      /\ Validated(request)' <=> Validated(request)
      /\ Named(request.uri)' = Named(request.uri)
      /\ \A r : Given(r)' = Given(r)
  BY <1>2, SameRequest, SameScript
<1>4. changed = {}
  BY <1>1, <1>2 DEF ChangedInv
<1>5. TypeOK'
  BY <1>1, <1>2, <1>3 DEF TypeOK, Steps
<1>6. MethodInv' /\ NamedInv' /\ ChangedInv' /\ TargetInv' /\ ThrowsOnlyDisturbed'
  BY <1>1, <1>2, <1>4 DEF MethodInv, AtWork, GetSteps, PostSteps, DeleteSteps, NamedInv, ChangedInv,
                          TargetInv, ThrowsOnlyDisturbed
<1>7. OpenInv'
  <2>1. NoFile \in [place : Places \cup {Unlinked}, data : Seq(Bytes)]
    BY PlaceAssumption, EmptySeq DEF NoFile
  <2>2. QED
    BY <1>2, <2>1 DEF OpenInv
<1>8. PostedInv'
  BY <1>1, <1>2 DEF PostedInv, Named
<1>9. GetInv'
  <2>1. SUFFICES ASSUME GetsPosted PROVE GetInv'
    BY <1>2, <1>3 DEF GetInv, GetsPosted
  <2>2. IsTextFile(target) /\ opened.data = posted.body
    BY <1>1, <1>2, <2>1 DEF GetInv
  <2>3. step' = "idle" /\ answer' = Served(posted.body)'
    BY <1>2, <2>2 DEF Served
  <2>4. QED
    BY <2>3 DEF GetInv
<1>10. CreatedIsStored' /\ BodiesAreDeclared'
  BY <1>1, <1>2, <1>4 DEF CreatedIsStored, Answered, BodiesAreDeclared
<1>11. IndexGoesFirst'
  <2>1. AsText(opened.data) # Listing
    BY <1>1, ContentIsNoListing DEF OpenInv
  <2>2. QED
    BY <1>2, <2>1 DEF IndexGoesFirst, Answered
<1>12. QED
  BY <1>5, <1>6, <1>7, <1>8, <1>9, <1>10, <1>11 DEF IInv

LEMMA MeasureFileInv ==
  ASSUME IInv, MeasureFile
  PROVE  IInv'
<1>1. /\ TypeOK /\ MethodInv /\ NamedInv /\ OpenInv /\ ChangedInv /\ TargetInv /\ PostedInv /\ GetInv
      /\ BodiesAreDeclared
  BY DEF IInv
<1>2. /\ step = "open-to-read" /\ ~IsTextFile(target)
      /\ UNCHANGED <<config, request, target, position, failure, given, handled, disturbed, changes,
                     files, changed, posted>>
  BY DEF MeasureFile, Opened, Goto, Answer, fileVars
<1>3. \/ /\ IsFile(files, target) /\ step' = "read" /\ answer' = answer
         /\ opened' = [place |-> Place(target), data |-> At(files, target).data]
         /\ progress' = Len(At(files, target).data)
      \/ /\ IsDirectory(files, target) /\ UNCHANGED <<opened, progress>>
         /\ \/ step' = "idle" /\ answer' = [status |-> 200, body |-> <<>>]
            \/ step' = "threw" /\ answer' = answer
  BY DEF MeasureFile, Opened, Goto, Answer, fileVars
<1>4. /\ Refusal(request.method)' = Refusal(request.method)
      /\ Validated(request)' <=> Validated(request)
      /\ Named(request.uri)' = Named(request.uri)
      /\ \A r : Given(r)' = Given(r)
  BY <1>2, SameRequest, SameScript
<1>5. IsTree(files) /\ At(files, target) \in Nodes /\ (IsFile(files, target) => Place(target) \in Places)
  BY <1>1, WhatIsThere DEF TypeOK
<1>6. At(files, target).data \in Seq(Bytes) /\ Len(At(files, target).data) \in Nat
  BY <1>5, LenProperties DEF Nodes
<1>7. changed = {} /\ step \notin {"read-lines", "read", "write"} /\ opened = NoFile
  BY <1>1, <1>2 DEF ChangedInv, OpenInv
<1>8. TypeOK'
  BY <1>1, <1>2, <1>3, <1>4, <1>6 DEF TypeOK, Steps
<1>9. MethodInv'
  BY <1>1, <1>2, <1>3, <1>4 DEF MethodInv, AtWork, GetSteps, PostSteps, DeleteSteps
<1>10. OpenInv'
  BY <1>1, <1>2, <1>3, <1>5, <1>6, <1>7 DEF OpenInv
<1>11. ChangedInv'
  BY <1>2, <1>7 DEF ChangedInv
<1>12. TargetInv'
  BY <1>1, <1>2, <1>3, <1>4 DEF TargetInv, PostSteps
<1>13. NamedInv'
  BY <1>1, <1>2, <1>3, <1>4 DEF NamedInv
<1>14. PostedInv'
  BY <1>1, <1>2 DEF PostedInv, Named
<1>15. GetInv'
  <2>1. SUFFICES ASSUME GetsPosted PROVE GetInv'
    BY <1>2, <1>4 DEF GetInv, GetsPosted
  <2>2. target = Named(request.uri)
    BY <1>1, <1>2, <2>1 DEF GetInv
  <2>3. At(files, target) = File(posted.body) /\ ~IsDirectory(files, target)
    BY <2>1, <2>2, PostedIsThere
  <2>4. At(files, target).data = posted.body
    BY <2>3 DEF File
  <2>5. QED
    BY <1>2, <1>3, <1>4, <2>1, <2>2, <2>3, <2>4 DEF GetInv
<1>16. CreatedIsStored' /\ BodiesAreDeclared'
  BY <1>1, <1>2, <1>3, <1>7 DEF CreatedIsStored, Answered, BodiesAreDeclared
<1>17. IndexGoesFirst'
  <2>1. <<>> # Listing
    BY EmptySeq, ContentIsNoListing
  <2>2. QED
    BY <1>3, <2>1 DEF IndexGoesFirst, Answered
<1>18. ThrowsOnlyDisturbed'
  BY <1>1, <1>2, <1>3 DEF ThrowsOnlyDisturbed, TargetInv
<1>19. QED
  BY <1>8, <1>9, <1>10, <1>11, <1>12, <1>13, <1>14, <1>15, <1>16, <1>17, <1>18 DEF IInv

LEMMA ReadMeasuredInv ==
  ASSUME IInv, ReadMeasured
  PROVE  IInv'
<1> DEFINE content == [i \in 1..progress |-> IF i <= Len(opened.data) THEN opened.data[i] ELSE Zero]
<1>1. /\ TypeOK /\ MethodInv /\ NamedInv /\ OpenInv /\ ChangedInv /\ PostedInv /\ GetInv
      /\ BodiesAreDeclared
  BY DEF IInv
<1>2. /\ step = "read" /\ step' = "idle" /\ opened' = NoFile
      /\ answer' = [status |-> 200, body |-> content]
      /\ UNCHANGED <<config, request, target, position, failure, given, handled, disturbed, changes,
                     files, progress, changed, posted>>
  BY DEF ReadMeasured, Answer
<1>3. /\ Refusal(request.method)' = Refusal(request.method)
      /\ Validated(request)' <=> Validated(request)
      /\ Named(request.uri)' = Named(request.uri)
      /\ \A r : Given(r)' = Given(r)
  BY <1>2, SameRequest, SameScript
<1>4. changed = {}
  BY <1>1, <1>2 DEF ChangedInv
<1>5. opened.data \in Seq(Bytes) /\ progress \in Nat
  BY <1>1 DEF OpenInv, TypeOK
<1>6. content \in Seq(Bytes)
  <2>1. \A i \in 1..Len(opened.data) : opened.data[i] \in Bytes
    BY <1>5
  <2>2. Zero \in Bytes /\ Len(opened.data) \in Nat
    BY <1>5, ByteAssumption
  <2>3. \A i \in 1..progress : (IF i <= Len(opened.data) THEN opened.data[i] ELSE Zero) \in Bytes
    BY <1>5, <2>1, <2>2
  <2>4. QED
    BY <1>5, <2>3
<1>7. TypeOK'
  BY <1>1, <1>2, <1>3 DEF TypeOK, Steps
<1>8. MethodInv' /\ NamedInv' /\ ChangedInv' /\ TargetInv' /\ ThrowsOnlyDisturbed'
  BY <1>1, <1>2, <1>4 DEF MethodInv, AtWork, GetSteps, PostSteps, DeleteSteps, NamedInv, ChangedInv,
                          TargetInv, ThrowsOnlyDisturbed
<1>9. OpenInv'
  <2>1. NoFile \in [place : Places \cup {Unlinked}, data : Seq(Bytes)]
    BY PlaceAssumption, EmptySeq DEF NoFile
  <2>2. QED
    BY <1>2, <2>1 DEF OpenInv
<1>10. PostedInv'
  BY <1>1, <1>2 DEF PostedInv, Named
<1>11. GetInv'
  <2>1. SUFFICES ASSUME GetsPosted PROVE GetInv'
    BY <1>2, <1>3 DEF GetInv, GetsPosted
  <2>2. ~IsTextFile(target) /\ opened.data = posted.body /\ progress = Len(posted.body)
    BY <1>1, <1>2, <2>1 DEF GetInv
  <2>3. content = posted.body
    <3>1. posted.body \in Seq(Bytes)
      BY <1>5, <2>2
    <3>2. \A i \in 1..Len(posted.body) : content[i] = posted.body[i]
      BY <2>2, <3>1
    <3>3. Len(content) = Len(posted.body)
      BY <2>2, <1>5
    <3> HIDE DEF content
    <3>4. QED
      BY <1>6, <3>1, <3>2, <3>3, SeqEqual
  <2>4. Served(posted.body)' = [status |-> 200, body |-> posted.body]
    BY <1>2, <2>2 DEF Served
  <2>5. step' = "idle" /\ answer' = Served(posted.body)'
    BY <1>2, <2>3, <2>4, Zenon
  <2>6. QED
    BY <2>5 DEF GetInv
<1>12. CreatedIsStored' /\ BodiesAreDeclared'
  BY <1>1, <1>2, <1>4 DEF CreatedIsStored, Answered, BodiesAreDeclared
<1>13. IndexGoesFirst'
  <2>1. content # Listing
    <3> HIDE DEF content
    <3> QED
      BY <1>6, ContentIsNoListing
  <2>2. QED
    BY <1>2, <2>1 DEF IndexGoesFirst, Answered
<1>14. QED
  BY <1>7, <1>8, <1>9, <1>10, <1>11, <1>12, <1>13 DEF IInv

-----------------------------------------------------------------------------
(* Storing a body.                                                             *)

LEMMA CannotOpen ==
  ASSUME IInv, step \in {"open-to-write", "write", "remove"},
         Fail(500), UNCHANGED <<files, progress, changed, posted>>, opened' = NoFile
  PROVE  IInv'
<1>1. /\ TypeOK /\ MethodInv /\ NamedInv /\ OpenInv /\ ChangedInv /\ PostedInv /\ BodiesAreDeclared
  BY DEF IInv
<1>2. /\ step' = "error-page" /\ failure' = 500
      /\ UNCHANGED <<config, request, target, position, answer, given, handled, disturbed, changes>>
  BY DEF Fail
<1>3. /\ Refusal(request.method)' = Refusal(request.method)
      /\ Validated(request)' <=> Validated(request)
      /\ \A r : Given(r)' = Given(r)
  BY <1>2, SameRequest, SameScript
<1>4. TypeOK'
  BY <1>1, <1>2, <1>3 DEF TypeOK, Steps
<1>5. MethodInv' /\ NamedInv' /\ TargetInv' /\ ThrowsOnlyDisturbed' /\ CreatedIsStored' /\ IndexGoesFirst'
  BY <1>1, <1>2 DEF MethodInv, AtWork, GetSteps, PostSteps, DeleteSteps, NamedInv, TargetInv,
                    ThrowsOnlyDisturbed, CreatedIsStored, IndexGoesFirst, Answered
<1>6. OpenInv'
  <2>1. NoFile \in [place : Places \cup {Unlinked}, data : Seq(Bytes)]
    BY PlaceAssumption, EmptySeq DEF NoFile
  <2>2. QED
    BY <1>2, <2>1 DEF OpenInv
<1>7. ChangedInv'
  BY <1>1, <1>2, <1>3 DEF ChangedInv
<1>8. PostedInv'
  BY <1>1, <1>2 DEF PostedInv, Named
<1>9. GetInv'
  <2>1. request.method # "GET"
    BY <1>1 DEF MethodInv, PostSteps, DeleteSteps
  <2>2. QED
    BY <1>2, <2>1 DEF GetInv, GetsPosted
<1>10. BodiesAreDeclared'
  BY <1>1, <1>2 DEF BodiesAreDeclared
<1>11. QED
  BY <1>4, <1>5, <1>6, <1>7, <1>8, <1>9, <1>10 DEF IInv

\* What open may truncate or create is no directory, and in one.
LEMMA WhatCanBeOpened ==
  ASSUME IsTree(files), CanOpenToWrite
  PROVE  /\ Place(target) \in Places \ {<<>>} /\ ~EndsInSlash(target)
         /\ files[Place(target)].kind # "dir" /\ files[Front(Place(target))].kind = "dir"
<1>1. CASE IsFile(files, target)
  <2>1. /\ Place(target) \in Places \ {<<>>} /\ ~EndsInSlash(target)
        /\ files[Place(target)].kind = "file"
    BY <1>1, WhatIsThere
  <2>2. QED
    BY <2>1 DEF IsTree
<1>2. CASE ~IsFile(files, target)
  <2>1. /\ ~Exists(files, target) /\ ~EndsInSlash(target) /\ Place(target) \in Places
        /\ files[Front(Place(target))].kind = "dir"
    BY <1>2 DEF CanOpenToWrite
  <2>2. files[Place(target)].kind = "none"
    BY <2>1 DEF Exists, At
  <2>3. files[<<>>].kind = "dir"
    BY DEF IsTree, Directory
  <2>4. QED
    BY <2>1, <2>2, <2>3
<1>3. QED
  BY <1>1, <1>2

\* A file is put in the place of one, or where there was nothing.
LEMMA DirectoriesKept ==
  ASSUME IsTree(files), NEW p \in Places, files[p].kind # "dir", NEW node,
         files' = [files EXCEPT ![p] = node]
  PROVE  /\ \A path : IsDirectory(files, path) => IsDirectory(files', path)
         /\ \A q \in Places : files[q].kind = "dir" => files'[q].kind = "dir"
<1>1. \A q \in Places : q # p => files'[q] = files[q]
  BY DEF IsTree
<1>2. ASSUME NEW path, IsDirectory(files, path)
      PROVE  IsDirectory(files', path)
  <2>1. Place(path) \in Places /\ files[Place(path)].kind = "dir"
    BY <1>2, WhatIsThere
  <2>2. files'[Place(path)].kind = "dir"
    BY <1>1, <2>1
  <2>3. QED
    BY <2>1, <2>2 DEF IsDirectory, At
<1>3. QED
  BY <1>1, <1>2

\* What a body has been stored of, in the file at the target or in one that was removed.
Storing(data, n) ==
  /\ data \in Seq(Bytes) /\ n \in Nat /\ n <= Len(request.body)
  /\ Place(target) \in Places /\ ~EndsInSlash(target)
  /\ opened'.data = data /\ progress' = n
  /\ ~disturbed => /\ Len(data) = n /\ \A i \in 1..n : data[i] = request.body[i]
  /\ posted' = NoRequest /\ Goto("write")

LEMMA StoringInv ==
  ASSUME IInv, step \in {"open-to-write", "write"}, NEW data, NEW n, Storing(data, n),
         \/ /\ PutFile(data) /\ opened' = [place |-> Place(target), data |-> data]
            /\ Place(target) # <<>>
            /\ files[Place(target)].kind # "dir" /\ files[Front(Place(target))].kind = "dir"
         \/ /\ UNCHANGED <<files, changed>> /\ opened' = [place |-> Unlinked, data |-> data]
            /\ disturbed
  PROVE  IInv'
<1>1. /\ TypeOK /\ MethodInv /\ NamedInv /\ OpenInv /\ ChangedInv /\ TargetInv /\ BodiesAreDeclared
  BY DEF IInv
<1>2. /\ step' = "write"
      /\ UNCHANGED <<config, request, target, position, failure, answer, given, handled, disturbed,
                     changes>>
  BY DEF Storing, Goto
<1>3. /\ Refusal(request.method)' = Refusal(request.method)
      /\ Validated(request)' <=> Validated(request)
      /\ Named(request.uri)' = Named(request.uri)
      /\ \A r : Given(r)' = Given(r)
  BY <1>2, SameRequest, SameScript
<1>4. /\ request.method = "POST" /\ Validated(request) /\ ~IsCgiRequest(request.uri)
      /\ Refusal(request.method) = 0 /\ answer = NoAnswer
  BY <1>1 DEF MethodInv, AtWork, PostSteps
<1>5. request \in Requests /\ Len(request.body) = DeclaredLength(request)
      /\ (config.limit > 0 => DeclaredLength(request) <= config.limit)
  BY <1>1, <1>4, ValidatedIsRequest
<1>6. /\ data \in Seq(Bytes) /\ n \in Nat /\ n <= Len(request.body)
      /\ Place(target) \in Places /\ ~EndsInSlash(target)
      /\ opened'.data = data /\ progress' = n /\ posted' = NoRequest
      /\ ~disturbed => /\ Len(data) = n /\ \A i \in 1..n : data[i] = request.body[i]
  BY DEF Storing
<1>7. /\ IsTree(files') /\ changed' \subseteq Places
      /\ \A path : IsDirectory(files, path) => IsDirectory(files', path)
  <2>1. IsTree(files) /\ changed \subseteq Places
    BY <1>1 DEF TypeOK
  <2>2. CASE UNCHANGED <<files, changed>>
    BY <2>1, <2>2
  <2>3. CASE /\ PutFile(data) /\ Place(target) # <<>> /\ files[Place(target)].kind # "dir"
             /\ files[Front(Place(target))].kind = "dir"
    <3>1. File(data) \in Nodes
      BY <1>6 DEF File, Nodes
    <3>2. files' = [files EXCEPT ![Place(target)] = File(data)] /\ changed' \subseteq Places
      BY <1>6, <2>1, <2>3 DEF PutFile
    <3>3. IsTree([files EXCEPT ![Place(target)] = File(data)])
      BY <1>6, <2>1, <2>3, <3>1, TreeStays
    <3>4. \A path : IsDirectory(files, path) => IsDirectory(files', path)
      BY <1>6, <2>1, <2>3, <3>2, DirectoriesKept
    <3>5. QED
      BY <3>2, <3>3, <3>4
  <2>4. QED
    BY <2>2, <2>3
<1>8. TypeOK'
  BY <1>1, <1>2, <1>3, <1>6, <1>7 DEF TypeOK, Steps
<1>9. MethodInv' /\ NamedInv' /\ ThrowsOnlyDisturbed' /\ CreatedIsStored' /\ IndexGoesFirst'
  BY <1>1, <1>2, <1>3, <1>4 DEF MethodInv, AtWork, GetSteps, PostSteps, DeleteSteps, NamedInv,
                          ThrowsOnlyDisturbed, CreatedIsStored, IndexGoesFirst, Answered
<1>10. OpenInv'
  <2>1. \/ opened' = [place |-> Unlinked, data |-> data] /\ disturbed
        \/ /\ opened' = [place |-> Place(target), data |-> data]
           /\ files'[Place(target)] = File(data)
    BY <1>1, <1>6 DEF PutFile, TypeOK, IsTree
  <2>2. Place(target) # Unlinked
    BY <1>6, PlaceAssumption DEF Unlinked
  <2>3. QED
    BY <1>2, <1>6, <2>1, <2>2 DEF OpenInv
<1>11. ChangedInv'
  BY <1>2, <1>3, <1>4, <1>5 DEF ChangedInv
<1>12. TargetInv'
  <2>1. ~disturbed => target = Named(request.uri) \/ IsDirectory(files, Named(request.uri))
    BY <1>1 DEF TargetInv, PostSteps
  <2>2. ~disturbed => target = Named(request.uri) \/ IsDirectory(files', Named(request.uri))
    BY <1>7, <2>1
  <2>3. QED
    BY <1>2, <1>3, <2>2 DEF TargetInv
<1>13. PostedInv' /\ GetInv'
  BY <1>6 DEF PostedInv, GetInv, GetsPosted
<1>14. BodiesAreDeclared'
  BY <1>1, <1>2, <1>5 DEF BodiesAreDeclared
<1>15. QED
  BY <1>8, <1>9, <1>10, <1>11, <1>12, <1>13, <1>14 DEF IInv

LEMMA PostOpensInv ==
  ASSUME IInv, PostOpens
  PROVE  IInv'
<1>1. step = "open-to-write" /\ IsTree(files) /\ opened = NoFile
  BY DEF PostOpens, IInv, TypeOK, OpenInv
<1>2. CASE CanOpenToWrite
  <2>1. /\ Place(target) \in Places \ {<<>>} /\ ~EndsInSlash(target)
        /\ files[Place(target)].kind # "dir" /\ files[Front(Place(target))].kind = "dir"
    BY <1>1, <1>2, WhatCanBeOpened
  <2>2. /\ PutFile(<<>>) /\ opened' = [place |-> Place(target), data |-> <<>>]
        /\ progress' = 0 /\ posted' = NoRequest /\ Goto("write")
    BY <1>2 DEF PostOpens
  <2>3. Len(request.body) \in Nat
    <3>1. Validated(request) /\ TypeOK
      BY <1>1 DEF IInv, MethodInv, AtWork, PostSteps
    <3>2. QED
      BY <3>1, ValidatedIsRequest, LenProperties
  <2>4. Storing(<<>>, 0)
    BY <2>1, <2>2, <2>3, EmptySeq DEF Storing
  <2>5. QED
    BY <1>1, <2>1, <2>2, <2>4, StoringInv
<1>3. CASE ~CanOpenToWrite
  <2>1. Fail(500) /\ UNCHANGED <<files, progress, changed, posted>> /\ opened' = NoFile
    BY <1>1, <1>3 DEF PostOpens, fileVars
  <2>2. QED
    BY <1>1, <2>1, CannotOpen
<1>4. QED
  BY <1>2, <1>3

LEMMA PostWriteFailsInv ==
  ASSUME IInv, PostWriteFails
  PROVE  IInv'
<1>1. /\ step = "write" /\ Fail(500) /\ UNCHANGED <<files, progress, changed, posted>>
      /\ opened' = NoFile
  BY DEF PostWriteFails
<1>2. QED
  BY <1>1, CannotOpen

LEMMA PostWritesInv ==
  ASSUME IInv, NEW n \in 1..Len(request.body), PostWrites(n)
  PROVE  IInv'
<1> DEFINE body == request.body
           size == Len(opened.data)
           length == IF progress + n > size THEN progress + n ELSE size
           data == [i \in 1..length |->
                      CASE i \in (progress + 1)..(progress + n) -> body[i]
                        [] i \notin (progress + 1)..(progress + n) /\ i <= size -> opened.data[i]
                        [] OTHER -> Zero]
<1>1. /\ step = "write" /\ n \in 1..(Len(body) - progress) /\ progress' = progress + n
      /\ opened' = [opened EXCEPT !.data = data]
      /\ IF opened.place = Unlinked THEN UNCHANGED <<files, changed>> ELSE PutFile(data)
      /\ Goto("write") /\ posted' = posted
  BY DEF PostWrites
<1>2. TypeOK /\ IsTree(files) /\ progress \in Nat
  BY DEF IInv, TypeOK
<1>3. /\ opened \in [place : Places \cup {Unlinked}, data : Seq(Bytes)]
      /\ Place(target) \in Places /\ ~EndsInSlash(target)
      /\ opened.place \in {Place(target), Unlinked}
      /\ opened.place # Unlinked => files[Place(target)] = File(opened.data)
      /\ posted = NoRequest
      /\ ~disturbed => /\ opened.place # Unlinked /\ Len(opened.data) = progress
                       /\ \A i \in 1..progress : opened.data[i] = body[i]
  BY <1>1 DEF IInv, OpenInv
<1>4. body \in Seq(Bytes)
  <2>1. Validated(request)
    BY <1>1 DEF IInv, MethodInv, AtWork, PostSteps
  <2>2. QED
    BY <1>2, <2>1, ValidatedIsRequest
<1>5. /\ Len(body) \in Nat /\ \A i \in 1..Len(body) : body[i] \in Bytes
      /\ size \in Nat /\ \A i \in 1..size : opened.data[i] \in Bytes
  BY <1>3, <1>4
<1>6. length \in Nat /\ progress + n \in Nat /\ progress + n <= Len(body)
  <2> HIDE DEF body, size
  <2> QED
    BY <1>1, <1>2, <1>5
<1>7. data \in Seq(Bytes) /\ Len(data) = length
  <2>1. ASSUME NEW i \in 1..length
        PROVE  data[i] \in Bytes
    <3>1. CASE i \in (progress + 1)..(progress + n)
      <4>1. data[i] = body[i]
        BY <2>1, <3>1
      <4>2. i \in 1..Len(body)
        <5> HIDE DEF body
        <5> QED
          BY <1>2, <1>5, <1>6, <3>1
      <4>3. QED
        BY <1>5, <4>1, <4>2
    <3>2. CASE i \notin (progress + 1)..(progress + n) /\ i <= size
      <4>1. data[i] = opened.data[i]
        BY <2>1, <3>2
      <4>2. i \in 1..size
        BY <1>5, <2>1, <3>2
      <4>3. QED
        BY <1>5, <4>1, <4>2
    <3>3. CASE i \notin (progress + 1)..(progress + n) /\ ~(i <= size)
      BY <2>1, <3>3, ByteAssumption
    <3>4. QED
      BY <3>1, <3>2, <3>3
  <2>2. data \in [1..length -> Bytes]
    BY <2>1
  <2> HIDE DEF data, length
  <2>3. QED
    BY <1>6, <2>2
<1>8. ASSUME ~disturbed
      PROVE  Len(data) = progress + n /\ \A i \in 1..(progress + n) : data[i] = body[i]
  <2>1. length = progress + n /\ size = progress
    BY <1>1, <1>2, <1>3, <1>8
  <2>2. ASSUME NEW i \in 1..(progress + n) PROVE data[i] = body[i]
    <3>1. CASE i \in (progress + 1)..(progress + n)
      BY <2>1, <2>2, <3>1
    <3>2. CASE i \notin (progress + 1)..(progress + n)
      <4>1. i \in 1..progress /\ i <= size
        BY <1>2, <2>1, <2>2, <3>2
      <4>2. data[i] = opened.data[i]
        BY <2>1, <2>2, <3>2, <4>1
      <4>3. QED
        BY <1>3, <1>8, <4>1, <4>2
    <3>3. QED
      BY <3>1, <3>2
  <2>3. QED
    BY <1>7, <2>1, <2>2
<1> HIDE DEF data
<1>9. opened' = [place |-> opened.place, data |-> data]
  BY <1>1, <1>3
<1>10. Storing(data, progress + n)
  BY <1>1, <1>3, <1>6, <1>7, <1>8, <1>9 DEF Storing
<1>11. CASE opened.place = Unlinked
  <2>1. disturbed
    BY <1>3, <1>11
  <2>2. UNCHANGED <<files, changed>> /\ opened' = [place |-> Unlinked, data |-> data]
    BY <1>1, <1>9, <1>11
  <2>3. QED
    BY <1>1, <1>10, <2>1, <2>2, StoringInv
<1>12. CASE opened.place # Unlinked
  <2>1. files[Place(target)].kind = "file"
    BY <1>3, <1>12 DEF File
  <2>2. Place(target) # <<>> /\ files[Front(Place(target))].kind = "dir"
    BY <1>2, <1>3, <2>1 DEF IsTree, Directory
  <2>3. PutFile(data) /\ opened' = [place |-> Place(target), data |-> data]
    BY <1>1, <1>3, <1>9, <1>12
  <2>4. QED
    BY <1>1, <1>10, <2>1, <2>2, <2>3, StoringInv
<1>13. QED
  BY <1>11, <1>12

LEMMA PostCreatedInv ==
  ASSUME IInv, PostCreated
  PROVE  IInv'
<1>1. /\ TypeOK /\ MethodInv /\ NamedInv /\ OpenInv /\ ChangedInv /\ TargetInv /\ BodiesAreDeclared
  BY DEF IInv
<1>2. /\ step = "write" /\ progress = Len(request.body) /\ opened' = NoFile
      /\ posted' = IF disturbed THEN NoRequest ELSE request
      /\ step' = "idle" /\ answer' = [status |-> 201, body |-> <<"created">>]
      /\ UNCHANGED <<config, request, target, position, failure, given, handled, disturbed, changes,
                     files, progress, changed>>
  BY DEF PostCreated, Answer
<1>3. /\ Refusal(request.method)' = Refusal(request.method)
      /\ Validated(request)' <=> Validated(request)
      /\ \A r : Given(r)' = Given(r)
      /\ \A uri : Named(uri)' = Named(uri)
  BY <1>2, SameRequest, SameScript
<1>4. /\ request.method = "POST" /\ Validated(request) /\ ~IsCgiRequest(request.uri)
      /\ Refusal(request.method) = 0
  BY <1>1, <1>2 DEF MethodInv, AtWork, PostSteps
<1>5. request \in Requests /\ request.body \in Seq(Bytes)
  BY <1>1, <1>4, ValidatedIsRequest
<1>6. ~Contains(Path, "..") /\ Location.redirect = 0
  BY <1>1, <1>4, RefusalKinds
<1>7. ~disturbed => At(files, target) = File(request.body)
  <2>1. SUFFICES ASSUME ~disturbed PROVE At(files, target) = File(request.body)
    OBVIOUS
  <2>2. /\ opened.data \in Seq(Bytes) /\ Len(opened.data) = Len(request.body)
        /\ \A i \in 1..Len(request.body) : opened.data[i] = request.body[i]
        /\ Place(target) \in Places /\ ~EndsInSlash(target)
        /\ files[Place(target)] = File(opened.data)
    BY <1>1, <1>2, <2>1 DEF OpenInv
  <2>3. opened.data = request.body
    BY <1>5, <2>2, SeqEqual
  <2>4. QED
    BY <2>2, <2>3 DEF At
<1>8. TypeOK'
  BY <1>1, <1>2, <1>3, <1>5 DEF TypeOK, Steps
<1>9. MethodInv' /\ NamedInv' /\ TargetInv' /\ ThrowsOnlyDisturbed'
  BY <1>1, <1>2 DEF MethodInv, AtWork, GetSteps, PostSteps, DeleteSteps, NamedInv, TargetInv,
                    ThrowsOnlyDisturbed
<1>10. OpenInv'
  <2>1. NoFile \in [place : Places \cup {Unlinked}, data : Seq(Bytes)]
    BY PlaceAssumption, EmptySeq DEF NoFile
  <2>2. QED
    BY <1>2, <2>1 DEF OpenInv
<1>11. ChangedInv'
  BY <1>2, <1>3, <1>4, <1>5 DEF ChangedInv
<1>12. PostedInv'
  <2>1. SUFFICES ASSUME ~disturbed PROVE PostedInv'
    BY <1>2 DEF PostedInv
  <2>2. posted' = request
    BY <1>2, <2>1
  <2>3. target = Named(request.uri) \/ IsDirectory(files, Named(request.uri))
    BY <1>1, <1>2, <2>1 DEF TargetInv, PostSteps
  <2>4. IsDirectory(files, Named(request.uri)) \/ At(files, Named(request.uri)) = File(request.body)
    BY <1>7, <2>1, <2>3
  <2>5. Named(posted.uri)' = Named(request.uri)
    BY <1>2, <2>2 DEF Named
  <2>6. ~Contains(StripUriQuery(request.uri), "..")
        /\ FindBestLocation(config, StripUriQuery(request.uri)).redirect = 0
    BY <1>6 DEF Path, Location
  <2>7. QED
    BY <1>2, <1>4, <1>5, <2>1, <2>2, <2>4, <2>5, <2>6 DEF PostedInv
<1>13. GetInv'
  BY <1>2, <1>4 DEF GetInv, GetsPosted
<1>14. CreatedIsStored' /\ BodiesAreDeclared' /\ IndexGoesFirst'
  BY <1>1, <1>2, <1>7 DEF CreatedIsStored, NotDisturbed, BodiesAreDeclared, IndexGoesFirst, Answered
<1>15. QED
  BY <1>8, <1>9, <1>10, <1>11, <1>12, <1>13, <1>14 DEF IInv

LEMMA DeleteRemovesInv ==
  ASSUME IInv, DeleteRemoves
  PROVE  IInv'
<1>1. /\ TypeOK /\ MethodInv /\ NamedInv /\ OpenInv /\ ChangedInv /\ BodiesAreDeclared /\ IsTree(files)
  BY DEF IInv, TypeOK
<1>2. step = "remove" /\ opened = NoFile
  BY <1>1 DEF DeleteRemoves, OpenInv
<1>3. CASE ~CanRemove
  <2>1. Fail(500) /\ UNCHANGED <<files, progress, changed, posted>> /\ opened' = NoFile
    BY <1>2, <1>3 DEF DeleteRemoves, fileVars
  <2>2. QED
    BY <1>2, <2>1, CannotOpen
<1>4. CASE CanRemove
  <2>1. /\ files' = [files EXCEPT ![Place(target)] = Nothing]
        /\ changed' = changed \cup {Place(target)}
        /\ posted' = NoRequest
        /\ step' = "idle" /\ answer' = [status |-> 204, body |-> <<>>]
        /\ UNCHANGED <<config, request, target, position, failure, given, handled, disturbed, changes,
                       opened, progress>>
    BY <1>4 DEF DeleteRemoves, Answer
  <2>2. /\ Refusal(request.method)' = Refusal(request.method)
        /\ Validated(request)' <=> Validated(request)
        /\ \A r : Given(r)' = Given(r)
    BY <2>1, SameRequest, SameScript
  <2>3. Validated(request) /\ Refusal(request.method) = 0
    BY <1>1, <1>2 DEF MethodInv, AtWork, DeleteSteps
  <2>4. request \in Requests /\ Len(request.body) = DeclaredLength(request)
        /\ (config.limit > 0 => DeclaredLength(request) <= config.limit)
    BY <1>1, <2>3, ValidatedIsRequest
  <2>5. Place(target) \in Places \ {<<>>} /\ files[Place(target)].kind # "none"
    BY <1>1, <1>4, WhatIsThere DEF CanRemove
  <2>6. IsTree([files EXCEPT ![Place(target)] = Nothing])
    <3>1. Nothing \in Nodes
      BY EmptySeq DEF Nothing, Nodes
    <3>2. files[Front(Place(target))].kind = "dir"
      BY <1>1, <2>5 DEF IsTree
    <3>3. IsEmpty(files, Place(target))
      BY <1>4 DEF CanRemove
    <3>4. QED
      BY <1>1, <2>5, <3>1, <3>2, <3>3, TreeStays
  <2>7. TypeOK'
    BY <1>1, <2>1, <2>2, <2>5, <2>6 DEF TypeOK, Steps
  <2>8. MethodInv' /\ NamedInv' /\ TargetInv' /\ ThrowsOnlyDisturbed'
    BY <1>1, <2>1 DEF MethodInv, AtWork, GetSteps, PostSteps, DeleteSteps, NamedInv, TargetInv,
                      ThrowsOnlyDisturbed
  <2>9. OpenInv' /\ ChangedInv' /\ PostedInv' /\ GetInv'
    BY <1>1, <1>2, <2>1, <2>2, <2>3, <2>4 DEF OpenInv, ChangedInv, PostedInv, GetInv, GetsPosted
  <2>10. CreatedIsStored' /\ BodiesAreDeclared' /\ IndexGoesFirst'
    BY <1>1, <2>1, <2>4 DEF CreatedIsStored, BodiesAreDeclared, IndexGoesFirst, Answered
  <2>11. QED
    BY <2>7, <2>8, <2>9, <2>10 DEF IInv
<1>5. QED
  BY <1>3, <1>4

-----------------------------------------------------------------------------
(* Changes by others, and the next request.                                    *)

LEMMA OthersInv ==
  ASSUME IInv, OthersStep
  PROVE  IInv'
<1>1. /\ TypeOK /\ MethodInv /\ NamedInv /\ OpenInv /\ ChangedInv /\ BodiesAreDeclared /\ IsTree(files)
      /\ IndexGoesFirst
  BY DEF IInv, TypeOK
<1>2. PICK p \in Places :
        OthersRemove(p) \/ OthersReplace(p) \/ OthersMakeDirectory(p) \/ OthersEdit(p)
  BY DEF OthersStep
<1> DEFINE foreign == File(Foreign)
<1>3. /\ Foreign \in Seq(Bytes) /\ Nothing \in Nodes /\ Directory \in Nodes /\ foreign \in Nodes
  BY ByteAssumption, EmptySeq DEF Foreign, Nothing, Directory, File, Nodes
<1>4. PICK node \in Nodes : Others(p, node) /\ (files[p].kind # "dir" \/ IsEmpty(files, p))
  BY <1>2, <1>3 DEF OthersRemove, OthersReplace, OthersMakeDirectory, OthersEdit
<1>5. /\ changes < MaxChanges /\ changes' = changes + 1
      /\ p # <<>> /\ files[Front(p)].kind = "dir"
      /\ files' = [files EXCEPT ![p] = node]
      /\ disturbed' = TRUE /\ posted' = NoRequest
      /\ UNCHANGED <<config, step, request, target, position, failure, progress, answer, given,
                     handled, changed>>
  BY <1>4 DEF Others
<1>6. /\ Refusal(request.method)' = Refusal(request.method)
      /\ Validated(request)' <=> Validated(request)
      /\ Named(request.uri)' = Named(request.uri)
      /\ Location' = Location
      /\ \A r : Given(r)' = Given(r)
  BY <1>5, SameRequest, SameScript
<1>7. IsTree(files')
  BY <1>1, <1>4, <1>5, TreeStays
<1>8. TypeOK'
  <2>1. changes' \in 0..MaxChanges
    BY <1>1, <1>5, RequestAssumption DEF TypeOK
  <2>2. QED
    BY <1>1, <1>5, <1>6, <1>7, <2>1 DEF TypeOK
<1>9. MethodInv' /\ NamedInv' /\ ChangedInv' /\ TargetInv' /\ PostedInv' /\ GetInv' /\ CreatedIsStored'
      /\ ThrowsOnlyDisturbed'
  BY <1>1, <1>5, <1>6 DEF MethodInv, NamedInv, ChangedInv, TargetInv, PostedInv, GetInv, GetsPosted,
                          CreatedIsStored, NotDisturbed, ThrowsOnlyDisturbed
<1>10. BodiesAreDeclared'
  BY <1>1, <1>5 DEF BodiesAreDeclared
<1>11. IndexGoesFirst'
  BY <1>1, <1>5, <1>6 DEF IndexGoesFirst, NotDisturbed, Answered
<1>12. OpenInv'
  <2>1. NoFile.place = <<>> /\ Unlinked # <<>>
    BY DEF NoFile, Unlinked
  <2>2. /\ opened \in [place : Places \cup {Unlinked}, data : Seq(Bytes)]
        /\ step \notin {"read-lines", "read", "write"} => opened = NoFile
        /\ step = "write" => /\ Place(target) \in Places /\ ~EndsInSlash(target)
                             /\ opened.place \in {Place(target), Unlinked}
                             /\ opened.place # Unlinked => files[Place(target)] = File(opened.data)
                             /\ progress <= Len(request.body)
    BY <1>1 DEF OpenInv
  <2>3. p # Unlinked
    BY PlaceAssumption DEF Unlinked
  <2>4. \A q \in Places : q # p => files'[q] = files[q]
    BY <1>1, <1>5 DEF IsTree
  <2>5. files'[p] = node
    BY <1>1, <1>5 DEF IsTree
  <2>6. CASE opened.place # p
    <3>1. opened' = opened
      BY <1>2, <2>6 DEF OthersRemove, OthersReplace, OthersMakeDirectory, OthersEdit, Unlink
    <3>2. QED
      BY <1>5, <2>2, <2>3, <2>4, <2>6, <3>1 DEF OpenInv
  <2>7. CASE opened.place = p
    <3>1. step \in {"read-lines", "read", "write"}
      BY <1>5, <2>1, <2>2, <2>7
    <3>2. CASE OthersRemove(p) \/ OthersReplace(p)
      <4>1. opened' = [opened EXCEPT !.place = Unlinked]
        BY <2>7, <3>2 DEF OthersRemove, OthersReplace, Unlink
      <4>2. QED
        BY <1>5, <2>2, <3>1, <4>1 DEF OpenInv
    <3>3. CASE OthersMakeDirectory(p)
      <4>1. files[p].kind = "none" /\ opened' = opened
        BY <3>3 DEF OthersMakeDirectory
      <4>2. step # "write"
        BY <2>2, <2>3, <2>7, <4>1 DEF File
      <4>3. QED
        BY <1>5, <2>2, <3>1, <4>1, <4>2 DEF OpenInv
    <3>4. CASE OthersEdit(p)
      <4>1. files' = [files EXCEPT ![p] = foreign] /\ opened' = [opened EXCEPT !.data = Foreign]
        BY <2>7, <3>4 DEF OthersEdit, Others
      <4>2. files'[p] = File(Foreign)
        BY <1>1, <4>1 DEF IsTree
      <4>3. step = "write" => Place(target) = p
        BY <2>2, <2>3, <2>7
      <4>4. QED
        BY <1>3, <1>5, <2>2, <2>7, <3>1, <4>1, <4>2, <4>3 DEF OpenInv
    <3>5. QED
      BY <1>2, <3>2, <3>3, <3>4
  <2>8. QED
    BY <2>6, <2>7
<1>13. QED
  BY <1>8, <1>9, <1>10, <1>11, <1>12 DEF IInv

LEMMA ReceiveInv ==
  ASSUME IInv, NEW r \in Requests, Receive(r)
  PROVE  IInv'
<1>1. /\ TypeOK /\ OpenInv /\ PostedInv /\ BodiesAreDeclared
  BY DEF IInv
<1>2. /\ step = "idle" /\ handled < MaxRequests
      /\ step' = "received" /\ request' = r /\ handled' = handled + 1
      /\ target' = <<>> /\ position' = 1 /\ progress' = 0
      /\ failure' = 0 /\ answer' = NoAnswer
      /\ changed' = {} /\ disturbed' = FALSE
      /\ UNCHANGED <<config, files, opened, given, posted, changes>>
  BY DEF Receive
<1>3. \A q : Given(q)' = Given(q)
  BY <1>2, SameScript
<1>4. TypeOK'
  <2>1. handled' \in 0..MaxRequests
    BY <1>1, <1>2, RequestAssumption DEF TypeOK
  <2>2. QED
    BY <1>1, <1>2, <1>3, <2>1 DEF TypeOK, Steps
<1>5. MethodInv' /\ NamedInv' /\ ChangedInv' /\ TargetInv' /\ GetInv' /\ ThrowsOnlyDisturbed'
      /\ CreatedIsStored' /\ IndexGoesFirst'
  BY <1>2 DEF MethodInv, AtWork, GetSteps, PostSteps, DeleteSteps, NamedInv, ChangedInv, TargetInv,
              GetInv, ThrowsOnlyDisturbed, CreatedIsStored, IndexGoesFirst, Answered
<1>6. OpenInv'
  BY <1>1, <1>2 DEF OpenInv
<1>7. PostedInv'
  BY <1>1, <1>2 DEF PostedInv, Named
<1>8. BodiesAreDeclared'
  BY <1>1, <1>2 DEF BodiesAreDeclared
<1>9. QED
  BY <1>4, <1>5, <1>6, <1>7, <1>8 DEF IInv

-----------------------------------------------------------------------------
(* The theorems.                                                               *)

LEMMA InitIInv == Init => IInv
<1> SUFFICES ASSUME Init PROVE IInv
  OBVIOUS
<1>1. /\ config \in Configs /\ files \in Trees
      /\ step = "idle" /\ request = NoRequest /\ target = <<>> /\ position = 1
      /\ failure = 0 /\ opened = NoFile /\ progress = 0
      /\ answer = NoAnswer /\ given = NoScript /\ handled = 0
      /\ changed = {} /\ disturbed = FALSE /\ posted = NoRequest /\ changes = 0
  BY DEF Init
<1>2. NoAnswer.status = 0
  BY DEF NoAnswer
<1>3. TypeOK
  <2>1. IsTree(files) /\ MaxRequests \in Nat /\ MaxChanges \in Nat
    BY <1>1, RequestAssumption
  <2>2. 0 \in 0..MaxRequests /\ 0 \in 0..MaxChanges
    BY <2>1
  <2>3. {request, posted} \subseteq Requests \cup {NoRequest} /\ changed \subseteq Places
    BY <1>1
  <2>4. QED
    BY <1>1, <2>1, <2>2, <2>3 DEF TypeOK, Steps
<1>4. MethodInv /\ NamedInv /\ ChangedInv /\ TargetInv /\ PostedInv /\ GetInv /\ ThrowsOnlyDisturbed
      /\ CreatedIsStored /\ IndexGoesFirst /\ BodiesAreDeclared
  BY <1>1, <1>2 DEF MethodInv, AtWork, GetSteps, PostSteps, DeleteSteps, NamedInv, ChangedInv,
       TargetInv, PostedInv, GetInv, GetsPosted, ThrowsOnlyDisturbed, CreatedIsStored,
       IndexGoesFirst, BodiesAreDeclared, Answered
<1>5. OpenInv
  <2>1. NoFile \in [place : Places \cup {Unlinked}, data : Seq(Bytes)]
    BY PlaceAssumption, EmptySeq DEF NoFile
  <2>2. QED
    BY <1>1, <2>1 DEF OpenInv
<1>6. QED
  BY <1>3, <1>4, <1>5 DEF IInv

LEMMA StutterIInv ==
  ASSUME IInv, UNCHANGED vars
  PROVE  IInv'
<1>1. UNCHANGED <<config, step, request, target, position, failure, opened, progress, answer,
                  given, handled, files, changed, disturbed, posted, changes>>
  BY DEF vars, serverVars, historyVars
<1>2. \A r : Given(r)' = Given(r)
  BY <1>1, SameScript
<1>3. /\ Refusal(request.method)' = Refusal(request.method)
      /\ Validated(request)' <=> Validated(request)
      /\ Named(request.uri)' = Named(request.uri)
      /\ Location' = Location
  BY <1>1, SameRequest
<1>4. TypeOK'
  BY <1>1, <1>2 DEF IInv, TypeOK
<1>5. MethodInv' /\ NamedInv' /\ OpenInv' /\ ChangedInv' /\ TargetInv' /\ ThrowsOnlyDisturbed'
  BY <1>1, <1>3 DEF IInv, MethodInv, NamedInv, OpenInv, ChangedInv, TargetInv, ThrowsOnlyDisturbed
<1>6. PostedInv' /\ GetInv'
  BY <1>1, <1>3 DEF IInv, PostedInv, Named, GetInv, GetsPosted, Served
<1>7. CreatedIsStored' /\ BodiesAreDeclared' /\ IndexGoesFirst'
  BY <1>1, <1>3 DEF IInv, CreatedIsStored, BodiesAreDeclared, IndexGoesFirst, Answered, NotDisturbed
<1>8. QED
  BY <1>4, <1>5, <1>6, <1>7 DEF IInv

\* Whatever is asked for, and whatever others do to the files meanwhile, the
\* inductive invariant holds.
THEOREM SpecIInv == Spec => []IInv
<1>1. Init => IInv
  BY InitIInv
<1>2. IInv /\ [Next]_vars => IInv'
  <2> SUFFICES ASSUME IInv, [Next]_vars PROVE IInv'
    OBVIOUS
  <2>1. CASE QuietStep
    BY <2>1, QuietInv
  <2>2. CASE OpenText
    BY <2>2, OpenTextInv
  <2>3. CASE ReadLines
    BY <2>3, ReadLinesInv
  <2>4. CASE MeasureFile
    BY <2>4, MeasureFileInv
  <2>5. CASE ReadMeasured
    BY <2>5, ReadMeasuredInv
  <2>6. CASE PostOpens
    BY <2>6, PostOpensInv
  <2>7. CASE \E n \in 1..Len(request.body) : PostWrites(n)
    BY <2>7, PostWritesInv
  <2>8. CASE PostWriteFails
    BY <2>8, PostWriteFailsInv
  <2>9. CASE PostCreated
    BY <2>9, PostCreatedInv
  <2>10. CASE DeleteRemoves
    BY <2>10, DeleteRemovesInv
  <2>11. CASE OthersStep
    BY <2>11, OthersInv
  <2>12. CASE \E r \in Requests : Receive(r)
    BY <2>12, ReceiveInv
  <2>13. CASE UNCHANGED vars
    BY <2>13, StutterIInv
  <2>14. QED
    BY <2>1, <2>2, <2>3, <2>4, <2>5, <2>6, <2>7, <2>8, <2>9, <2>10, <2>11, <2>12, <2>13
       DEF Next, HandlerStep, QuietStep
<1>3. QED
  BY <1>1, <1>2, PTL DEF Spec

\* Variables have their types, and every file is in a directory, whoever changes
\* the tree.
THEOREM SpecTypeOK == Spec => []TypeOK
<1>1. IInv => TypeOK
  BY DEF IInv
<1>2. QED
  BY <1>1, SpecIInv, PTL

\* A request that has ended leaves no file open, and none of the refusals follows a
\* change of a file.
THEOREM SpecRefusalsChangeNothing == Spec => []RefusalsChangeNothing
<1>1. IInv => RefusalsChangeNothing
  BY DEF IInv, OpenInv, ChangedInv, RefusalsChangeNothing
<1>2. QED
  BY <1>1, SpecIInv, PTL

\* After 201 the file at the target has the body of the request, however many
\* writes it took, unless others interfered.
THEOREM SpecCreatedIsStored == Spec => []CreatedIsStored
<1>1. IInv => CreatedIsStored
  BY DEF IInv
<1>2. QED
  BY <1>1, SpecIInv, PTL

\* Files are changed only for a method that the longest matching location allows
\* and does not redirect.
THEOREM SpecMethodsAreAllowed == Spec => []MethodsAreAllowed
<1>1. IInv => MethodsAreAllowed
  <2> SUFFICES ASSUME IInv, changed # {} PROVE MethodsAreAllowed
    BY DEF MethodsAreAllowed
  <2>1. TypeOK /\ Validated(request) /\ Refusal(request.method) = 0 /\ request \in Requests
    BY DEF IInv, ChangedInv
  <2>2. Location.redirect = 0 /\ IsMethodAllowed(Location, request.method)
    BY <2>1, RefusalKinds
  <2>3. config \in Configs /\ Len(Path) \in Nat
    BY <2>1, PathHasLength DEF TypeOK, Path
  <2>4. Governs(Location) /\ Location \in ToSet(config.locations) \cup {NoLocation}
    <3>1. CASE Matching(config, Path) = {} /\ Location = NoLocation
      BY <3>1 DEF Governs
    <3>2. CASE \E i \in Matching(config, Path) :
                 /\ Location = config.locations[i]
                 /\ \A j \in Matching(config, Path) :
                      Len(config.locations[j].path) <= Len(config.locations[i].path)
      <4>1. PICK i \in Matching(config, Path) :
                 /\ Location = config.locations[i]
                 /\ \A j \in Matching(config, Path) :
                      Len(config.locations[j].path) <= Len(config.locations[i].path)
        BY <3>2
      <4>2. i \in DOMAIN config.locations
        BY DEF Matching
      <4>3. Location \in ToSet(config.locations)
        BY <4>1, <4>2 DEF ToSet
      <4>4. Governs(Location)
        BY <4>1 DEF Governs
      <4>5. QED
        BY <4>3, <4>4
    <3>3. QED
      BY <2>3, <3>1, <3>2, BestLocationIsLongest DEF Location
  <2>5. QED
    BY <2>2, <2>4 DEF MethodsAreAllowed
<1>2. QED
  BY <1>1, SpecIInv, PTL

\* What is stored or given to a script is as long as declared, and within the limit.
THEOREM SpecBodiesAreDeclared == Spec => []BodiesAreDeclared
<1>1. IInv => BodiesAreDeclared
  BY DEF IInv
<1>2. QED
  BY <1>1, SpecIInv, PTL

\* GET answers with what POST stored, for every split of the body into writes.
THEOREM SpecPostedIsServed == Spec => []PostedIsServed
<1>1. IInv => PostedIsServed
  <2> SUFFICES ASSUME IInv, step = "idle", request.method = "GET", posted # NoRequest,
                      posted.uri = request.uri, answer.status \notin {400, 405, 413},
                      Readable(target),
                      ~IsDirectory(files, ResolveFilePath(ResolveRoot(config, Location), Path))
               PROVE  answer = Served(posted.body)
    BY DEF PostedIsServed, Served
  <2>1. GetsPosted
    BY DEF GetsPosted, Named, Location, Path
  <2>2. QED
    BY <2>1 DEF IInv, GetInv
<1>2. QED
  BY <1>1, SpecIInv, PTL

\* A directory is listed only after every index file was looked for.
THEOREM SpecIndexGoesFirst == Spec => []IndexGoesFirst
<1>1. IInv => IndexGoesFirst
  BY DEF IInv
<1>2. QED
  BY <1>1, SpecIInv, PTL

\* The handler measures no directory that nobody put there while it was at work.
THEOREM SpecThrowsOnlyDisturbed == Spec => []ThrowsOnlyDisturbed
<1>1. IInv => ThrowsOnlyDisturbed
  BY DEF IInv
<1>2. QED
  BY <1>1, SpecIInv, PTL

\* No step of a handler removes a directory or puts a file in its place, unless
\* others changed files since the request came.
THEOREM SpecDirectoriesStay == Spec => DirectoriesStay
<1> DEFINE Stay == changes' = changes =>
                     \A p \in Places : files[p].kind = "dir" /\ files'[p].kind # "dir" => disturbed
<1>1. IInv /\ [Next]_vars => [Stay]_vars
  <2> SUFFICES ASSUME IInv, [Next]_vars, changes' = changes, ~disturbed,
                      NEW p \in Places, files[p].kind = "dir"
               PROVE  files'[p].kind = "dir"
    OBVIOUS
  <2>1. IsTree(files) /\ changes \in Nat
    BY RequestAssumption DEF IInv, TypeOK
  <2>2. CASE files' = files
    BY <2>2
  <2>3. CASE PostOpens /\ CanOpenToWrite
    <3>1. /\ Place(target) \in Places /\ files[Place(target)].kind # "dir"
          /\ files' = [files EXCEPT ![Place(target)] = File(<<>>)]
      BY <2>1, <2>3, WhatCanBeOpened DEF PostOpens, PutFile
    <3>2. QED
      BY <2>1, <3>1, DirectoriesKept
  <2>4. CASE \E n \in 1..Len(request.body) : PostWrites(n)
    <3>1. step = "write"
      BY <2>4 DEF PostWrites
    <3>2. /\ Place(target) \in Places /\ files[Place(target)] = File(opened.data)
      BY <3>1 DEF IInv, OpenInv
    <3>3. \E data : files' = files \/ files' = [files EXCEPT ![Place(target)] = File(data)]
      BY <2>4 DEF PostWrites, PutFile
    <3>4. files[Place(target)].kind # "dir"
      BY <3>2 DEF File
    <3>5. QED
      BY <2>1, <2>2, <3>2, <3>3, <3>4, DirectoriesKept
  <2>5. CASE DeleteRemoves /\ CanRemove
    <3>1. step = "remove" /\ files' = [files EXCEPT ![Place(target)] = Nothing]
      BY <2>5 DEF DeleteRemoves
    <3>2. ~IsDirectory(files, target) /\ Exists(files, target)
      BY <2>5, <3>1 DEF IInv, TargetInv, CanRemove
    <3>3. Place(target) \in Places /\ files[Place(target)].kind # "dir"
      BY <2>1, <3>2, WhatIsThere
    <3>4. QED
      BY <2>1, <3>1, <3>3, DirectoriesKept
  <2>6. CASE OthersStep
    <3>1. changes' = changes + 1
      BY <2>6 DEF OthersStep, OthersRemove, OthersReplace, OthersMakeDirectory, OthersEdit, Others
    <3>2. QED
      BY <2>1, <3>1
  <2>7. CASE QuietStep
    BY <2>2, <2>7, QuietSteps DEF Quiet
  <2>8. CASE \/ OpenText \/ ReadLines \/ MeasureFile \/ ReadMeasured \/ PostWriteFails \/ PostCreated
             \/ \E r \in Requests : Receive(r)
    BY <2>2, <2>8
       DEF OpenText, ReadLines, MeasureFile, ReadMeasured, PostWriteFails, PostCreated, Receive, fileVars
  <2>9. CASE (PostOpens /\ ~CanOpenToWrite) \/ (DeleteRemoves /\ ~CanRemove) \/ UNCHANGED vars
    BY <2>2, <2>9 DEF PostOpens, DeleteRemoves, fileVars, vars
  <2>10. QED
    BY <2>3, <2>4, <2>5, <2>6, <2>7, <2>8, <2>9 DEF Next, HandlerStep, QuietStep
<1>2. QED
  BY <1>1, SpecIInv, PTL DEF Spec, DirectoriesStay
=============================================================================
