-------------------------- MODULE MCRequestHandling --------------------------
(* RequestHandling with a server block in the manner of config.conf, one whose *)
(* locations are prefixes of each other, and one without any setting.          *)
EXTENDS RequestHandling

Www     == <<"www">>
Up      == Append(<<Www>>, <<"up">>)
Uploads == Append(<<Www>>, <<"up", "loads">>)

MCTokens ==
  {"/", ".", "..", "#", "www", "up", "loads", "go", "none", "x", "a.txt", "b.png", "x.py",
   "index.html", "index.htm", "404.html", "post_upload.txt"}

MCBytes == {"old", "new", "byte", "foreign", NewLine, Zero}

\* A directory with an index, one that takes uploads, and one without write access.
MCPlaces ==
  {<<>>, <<Www>>, Append(<<Www>>, <<"index.html">>), Append(<<Www>>, <<"404.html">>),
   Up, Append(Up, <<"a.txt">>), Append(Up, <<"b.png">>), Append(Up, <<"index.html">>),
   Uploads, Append(Uploads, <<"a.txt">>), Append(Uploads, <<"post_upload.txt">>)}

MCUnwritable == {<<Www>>}
MCUnreadable == {Append(Uploads, <<"a.txt">>)}

Old == File(<<"old", "old", NewLine>>)

\* With an index file, or with a directory that has the name of one and an
\* upload that is there already.
Tree(indexed) ==
  [p \in MCPlaces |->
     CASE p \in {<<>>, <<Www>>, Up, Uploads} -> Directory
       [] p \in {Append(<<Www>>, <<"404.html">>), Append(Uploads, <<"a.txt">>)} -> Old
       [] p = Append(Up, <<"index.html">>) /\ indexed -> Old
       [] p = Append(Up, <<"a.txt">>) /\ ~indexed -> Old
       [] p = Append(Up, <<"b.png">>) /\ ~indexed -> Directory
       [] OTHER -> Nothing]

MCTrees == {Tree(TRUE), Tree(FALSE)}

Loc(path, methods, autoindex, redirect) ==
  [NoLocation EXCEPT !.path = path, !.methods = methods, !.autoindex = autoindex,
                     !.redirect = redirect]

Pages == [code \in {404} |-> <<"404.html">>]

Block(limit, locations) ==
  [root |-> <<".", "/", "www", "/">>, index |-> << <<"b.png">>, <<"index.html">> >>, limit |-> limit,
   pages |-> Pages, locations |-> locations]

MCConfigs ==
  {Block(2, <<Loc(<<"/">>, {"GET", "POST", "DELETE"}, FALSE, 0),
              Loc(<<"/", "up">>, {"GET", "DELETE"}, TRUE, 0),
              Loc(<<"/", "up", "loads">>, {"POST"}, TRUE, 0),
              Loc(<<"/", "go">>, {}, FALSE, 302)>>),
   Block(2, <<Loc(<<"/", "up", "/">>, {}, TRUE, 0), Loc(<<"/">>, {"GET"}, FALSE, 0)>>),
   [root |-> <<>>, index |-> <<>>, limit |-> 0, pages |-> <<>>, locations |-> <<>>]}

Host == [name |-> "HOST", value |-> 0]
Length(n) == [name |-> "CONTENT-LENGTH", value |-> n]

Body == <<"new", "byte", NewLine, "byte">>

Request(method, uri, headers, size) ==
  [method |-> method, uri |-> uri, version |-> "HTTP/1.1", headers |-> headers,
   body |-> SubSeq(Body, 1, size)]

Uri(path) == [path |-> path, asks |-> FALSE, query |-> <<>>]
Asks(path, query) == [path |-> path, asks |-> TRUE, query |-> query]
Pair(key, value) == [key |-> key, value |-> value]

UpDir   == <<"/", "up">>
LoadDir == <<"/", "up", "loads">>
Txt     == Uri(<<"/", "up", "/", "a.txt">>)
Png     == Uri(<<"/", "up", "/", "b.png">>)
Loaded  == Uri(<<"/", "up", "loads", "/", "a.txt">>)
Script  == Uri(<<"/", "up", "/", "x.py">>)

Gets ==
  {Txt, Png, Loaded, Script, Uri(UpDir), Asks(Append(UpDir, "/"), <<Pair("q", <<>>)>>),
   Uri(<<"/", "go", "#", "x">>), Uri(<<"/", "..", "/", "up">>)}

Posts ==
  {Txt, Png, Loaded, Script, Uri(LoadDir), Uri(<<"/", "none", "/", "a.txt">>),
   Asks(UpDir, <<Pair("q", <<>>), Pair("filename", <<"b.png">>), Pair("filename", <<"a.txt">>)>>),
   Asks(UpDir, <<Pair("filename", <<"..">>)>>)}

Deletes ==
  {Txt, Png, Loaded, Script, Uri(UpDir), Uri(Append(LoadDir, "/")), Uri(<<"/", "404.html">>)}

MCRequests ==
  {Request("GET", uri, <<Host>>, 0) : uri \in Gets}
  \cup {Request("POST", uri, <<Host, Length(2)>>, 2) : uri \in Posts}
  \cup {Request("DELETE", uri, <<Host>>, 0) : uri \in Deletes}
  \cup {Request("POST", Txt, <<Host, Length(3)>>, 3), Request("POST", Txt, <<Host, Length(0)>>, 0),
        Request("POST", Script, <<Host, Length(3)>>, 3),
        Request("POST", Script, <<Host, Length(2), Length(1)>>, 2),
        Request("POST", Txt, <<Host, Length(1), Length(2)>>, 1),
        Request("POST", Txt, <<Host, Length(-1)>>, 0), Request("POST", Txt, <<Length(1)>>, 1),
        Request("post", Txt, <<Host, Length(1)>>, 1),
        [Request("GET", Script, <<Host>>, 0) EXCEPT !.version = "http/1.1"],
        [Request("GET", Txt, <<Host>>, 0) EXCEPT !.version = "HTTP/2.0"]}
=============================================================================
