--------------------------- MODULE MessageExchange ---------------------------
(***************************************************************************)
(* The text of messages, from the client to a script and back: framing     *)
(* (RequestFramer), HttpRequestParser, the header block of a script's      *)
(* output (CgiResponse), CgiHandler.buildResponse, HttpResponse.serialize. *)
(***************************************************************************)
EXTENDS RequestFramer

CONSTANTS
  Values,  \* values of the headers that scripts write, as numbers
  Outputs  \* what scripts may write: a head with its blank line, and a body

\* Lines of a script: a header with a value, or with the number that atoi makes of
\* it (0 for a text), and a line without a colon.
HeaderLine(name, value) == <<"header", name, value>>
TextLine == <<"text">>

\* Header names, in the two cases of letters that scripts use here.
Names == {"Status", "STATUS", "Content-Length", "CONTENT-LENGTH", "Content-Type", "Cookie"}

IsHeader(symbol) == symbol[1] = "header"

OutputSymbol == {CR, LF, TextLine} \cup {HeaderLine(name, value) : name \in Names, value \in Values}

\* The first blank line of what a script writes is that of a head with one kind of
\* line ends, or there is none.
ASSUME OutputAssumption ==
  \A o \in Outputs :
    /\ o \in [head : Seq(OutputSymbol), body : Seq(Symbol)]
    /\ \/ CrlfHead(o.head) \/ LfHead(o.head)
       \/ EndsWithCrlf(o.head) = {} /\ EndsWithLf(o.head) = {} /\ o.body = <<>>

\* toUpper, normalizeHeaderName
Upper(name) ==
  CASE name = "Status"         -> "STATUS"
    [] name = "Content-Length" -> "CONTENT-LENGTH"
    [] name = "Content-Type"   -> "CONTENT-TYPE"
    [] name = "Cookie"         -> "COOKIE"
    [] OTHER                   -> name

\* Lines of a response.
StatusLine(code) == <<"status", code>>

VARIABLES
  output,  \* what the script wrote for the first request
  reply    \* the serialized response

exchangeVars == <<vars, output, reply>>

NoOutput == [head |-> <<>>, body |-> <<>>]

-----------------------------------------------------------------------------
(* HttpRequestParser.                                                      *)

\* The head of a raw request without its blank line, and the body behind it.
HeadSize(raw) ==
  CASE EndsWithCrlf(raw) # {} -> Least(EndsWithCrlf(raw)) - 4
    [] EndsWithCrlf(raw) = {} /\ EndsWithLf(raw) # {} -> Least(EndsWithLf(raw)) - 2
    [] OTHER -> 0

HeadOf(raw) == SubSeq(raw, 1, HeadSize(raw))

Body(raw) == SubSeq(raw, HeaderEnd(raw) + 1, Len(raw))

\* Where the head's lines are: the request line ends with the first CR LF, or else
\* LF, and so does every other line.
HeadLines(raw) == LET h == HeadOf(raw) IN {i \in LineStarts(h) : IsLine(h[i])}

HeaderName(line) == IF line \in LengthLines THEN "CONTENT-LENGTH" ELSE "OTHER"

Named(line) == [name |-> HeaderName(line), value |-> line]

Greatest(S) == CHOOSE n \in S : \A m \in S : m <= n

\* Headers are a function of the places of their lines. setHeader: of several
\* with one name the last one counts.
LastOf(headers) ==
  [name \in {headers[k].name : k \in DOMAIN headers} |->
     headers[Greatest({k \in DOMAIN headers : headers[k].name = name})].value]

\* The request line is the first of the lines, and the others are headers.
Parsed(text, lines, body) ==
  [line    |-> text[Least(lines)],
   headers |-> LastOf([i \in lines \ {Least(lines)} |-> Named(text[i])]),
   body    |-> body]

Parse(raw) == Parsed(raw, HeadLines(raw), Body(raw))

-----------------------------------------------------------------------------
(* CgiResponse and CgiHandler.                                             *)

\* The lines with a colon: getline cuts at LF, and a CR at the end of a line is
\* left off.
ScriptHeaders(raw) ==
  LET h == HeadOf(raw)
  IN [i \in {j \in DOMAIN h : IsHeader(h[j])} |-> [name |-> Upper(h[i][2]), value |-> h[i][3]]]

\* atoi of the value; setStatusCode.
ValidCode(value) == IF value \in 100..599 THEN value ELSE 500

StatusesOf(headers) == {k \in DOMAIN headers : headers[k].name = "STATUS"}

\* Fault: the header that comes first is taken out.
FaultWithoutStatus(headers) ==
  [k \in DOMAIN headers \ {Least(DOMAIN headers)} |-> headers[k]]

\* parseStatusFromHeaders: the first Status is taken out of the headers.
WithoutStatus(headers) ==
  [k \in DOMAIN headers \ {Least(StatusesOf(headers))} |-> headers[k]]

\* getResponse and buildResponse: without a blank line nothing of the output is used.
BuildResponse(raw) ==
  LET headers == ScriptHeaders(raw)
  IN CASE HeaderEnd(raw) = 0 -> [code |-> 500, headers |-> <<>>, body |-> <<>>]
       [] HeaderEnd(raw) # 0 /\ StatusesOf(headers) = {} ->
            [code |-> 200, headers |-> LastOf(headers), body |-> Body(raw)]
       [] OTHER ->
            [code    |-> ValidCode(headers[Least(StatusesOf(headers))].value),
             headers |-> LastOf(WithoutStatus(headers)),
             body    |-> Body(raw)]

-----------------------------------------------------------------------------
(* HttpResponse.serialize.                                                 *)

CrLf == <<CR, LF>>

HeaderText(headers, name) ==
  IF name \in DOMAIN headers THEN <<HeaderLine(name, headers[name])>> \o CrLf ELSE <<>>

\* A std::map is written in the order of its names.
HeaderTexts(headers) ==
  HeaderText(headers, "CONTENT-LENGTH") \o HeaderText(headers, "CONTENT-TYPE")
    \o HeaderText(headers, "COOKIE") \o HeaderText(headers, "STATUS")

\* The length of the body, unless the script has given one.
LengthText(response) ==
  IF "CONTENT-LENGTH" \in DOMAIN response.headers THEN <<>>
  ELSE <<HeaderLine("Content-Length", Len(response.body))>> \o CrLf

Serialize(response) ==
  <<StatusLine(response.code)>> \o CrLf \o HeaderTexts(response.headers)
    \o LengthText(response) \o CrLf \o response.body

-----------------------------------------------------------------------------
ExchangeInit == Init /\ output = NoOutput /\ reply = <<>>

ReceiveMore == Next /\ UNCHANGED <<output, reply>>

\* The script of the first request has written o and is finished: the response is
\* sent, and the client is disconnected.
Respond(o) ==
  /\ open
  /\ taken # <<>>
  /\ output' = o
  /\ reply' = Serialize(BuildResponse(o.head \o o.body))
  /\ open' = FALSE
  /\ buffer' = <<>>
  /\ UNCHANGED <<sent, stream, taken>>

ExchangeNext == ReceiveMore \/ \E o \in Outputs : Respond(o)

ExchangeSpec == ExchangeInit /\ [][ExchangeNext]_exchangeVars

-----------------------------------------------------------------------------
\* However the bytes are cut into chunks, what is taken are the client's requests in
\* their order, and what the validator and the script are given of each is what it
\* sent: the request line, the last value of each header and every byte of the body,
\* although the framer and the parser look for the end of the head, and cut lines,
\* each in its own way. (Left out is CR LF CR LF behind a head with LF line ends.)
ParsedIsSent ==
  /\ Unambiguous(sent, Len(sent)) => Len(taken) <= Len(sent)
  /\ \A i \in DOMAIN taken \cap DOMAIN sent :
       Unambiguous(sent, i) =>
         LET head == sent[i].head
         IN /\ taken[i] = head \o sent[i].body
            /\ Parse(taken[i]) = Parsed(head, {k \in DOMAIN head : IsLine(head[k])}, sent[i].body)

\* A client that reads a reply: the first line, the headers up to the blank line,
\* and as much of the rest as the only Content-Length says.
ReadHead == SubSeq(reply, 1, Least(EndsWithCrlf(reply)))
ReadRest == SubSeq(reply, Least(EndsWithCrlf(reply)) + 1, Len(reply))

\* The places of the headers of a name, in any case of letters.
HeadersOf(s, name) == {i \in DOMAIN s : IsHeader(s[i]) /\ Upper(s[i][2]) = name}

Given(name) == HeadersOf(output.head, name)
HasBlankLine == HeaderEnd(output.head) # 0

\* Read(name, value): one header of that name with that value is read.
Read(name, value) ==
  \E i \in DOMAIN ReadHead : HeadersOf(ReadHead, name) = {i} /\ ReadHead[i][3] = value

\* A reader of the reply finds what the script has written: its status, or 200, or
\* 500 for one that is none; the last value of each other header, once; its whole
\* body, with one length for it, which is right unless the script's own is wrong.
\* Of a script that writes no blank line it finds an error without a body. Left
\* out again is CR LF CR LF behind a head with LF line ends.
ReplyIsReadable ==
  /\ reply # <<>> /\ ~HasBlankLine =>
       ReadRest = <<>> /\ ReadHead[1] = StatusLine(500)
  /\ reply # <<>> /\ HasBlankLine /\ Unambiguous(<<output>>, 1) =>
       /\ ReadRest = output.body
       /\ LET code == output.head[Least(Given("STATUS"))][3]
          IN ReadHead[1] = StatusLine(
               IF Given("STATUS") = {} THEN 200 ELSE IF code \in 100..599 THEN code ELSE 500)
       /\ \A name \in {"CONTENT-TYPE", "COOKIE", "CONTENT-LENGTH"} :
            Given(name) # {} => Read(name, output.head[Greatest(Given(name))][3])
       /\ Given("CONTENT-LENGTH") = {} => Read("CONTENT-LENGTH", Len(output.body))
=============================================================================
