---------------------------- MODULE RequestFramer ----------------------------
(***************************************************************************)
(* How bytes received from one client become requests: the read buffer of  *)
(* ConnectionManager and HttpRequestFramer.                                *)
(*                                                                         *)
(* A symbol stands for a byte that framing can tell from others (CR, LF, a *)
(* byte of a body) or for the text of a whole header line.                 *)
(***************************************************************************)
EXTENDS Integers, Sequences

CONSTANTS
  Lengths,   \* values of Content-Length headers, as numbers
  Wires,     \* what a client may send: sequences of requests
  ChunkSize  \* symbols one recv returns at most

ASSUME FramerAssumption == Lengths \subseteq Nat /\ ChunkSize \in Nat \ {0}

CR == <<"CR">>
LF == <<"LF">>
OtherByte == <<"byte">>

\* The header lines that framing tells apart: Content-Length with a number,
\* Content-Length with something else, and any other line.
LengthLine(n) == <<"length", n>>
InvalidLine == <<"invalid">>
OtherLine == <<"other">>

LengthLines == {InvalidLine} \cup {LengthLine(n) : n \in Lengths}
Symbol == {CR, LF, OtherByte, OtherLine} \cup LengthLines

Least(S) == CHOOSE n \in S : \A m \in S : n <= m

-----------------------------------------------------------------------------
(* What a client sends.                                                    *)

\* The text of a line.
IsLine(symbol) == symbol \notin {CR, LF, OtherByte}

\* Lines that end in CR LF, and a blank line.
CrlfHead(h) ==
  LET last == Len(h) - 2
  IN /\ last >= 3 /\ IsLine(h[1]) /\ h[last] = LF
     /\ \A i \in 1..(Len(h) - 1) :
          \/ IsLine(h[i]) /\ h[i + 1] = CR
          \/ h[i] = CR /\ h[i + 1] = LF
          \/ h[i] = LF /\ IF i = last THEN h[i + 1] = CR ELSE IsLine(h[i + 1])

\* Lines that end in LF, and a blank line.
LfHead(h) ==
  LET last == Len(h) - 1
  IN /\ last >= 2 /\ IsLine(h[1]) /\ h[last] = LF
     /\ \A i \in 1..last :
          \/ IsLine(h[i]) /\ h[i + 1] = LF
          \/ h[i] = LF /\ IF i = last THEN h[i + 1] = LF ELSE IsLine(h[i + 1])

\* The length of the body by the first header that gives one.
DeclaredLength(h) ==
  LET given == {i \in DOMAIN h : h[i] \in LengthLines}
  IN IF given = {} \/ h[Least(given)] = InvalidLine THEN 0 ELSE h[Least(given)][2]

Requests == [head : Seq(Symbol), body : Seq(Symbol)]

\* Clients write one kind of line ends, and bodies as long as they declare.
ASSUME WireAssumption ==
  \A wire \in Wires :
    /\ wire \in Seq(Requests)
    /\ \A i \in DOMAIN wire :
         /\ CrlfHead(wire[i].head) \/ LfHead(wire[i].head)
         /\ Len(wire[i].body) = DeclaredLength(wire[i].head)

\* BytesFrom(wire)[i]: the bytes of the i-th request and of those behind it.
BytesFrom(wire) ==
  LET from[i \in 1..(Len(wire) + 1)] ==
        IF i = Len(wire) + 1 THEN <<>> ELSE wire[i].head \o wire[i].body \o from[i + 1]
  IN from

VARIABLES
  sent,    \* the requests the client sends
  stream,  \* their bytes that were not received yet
  buffer,  \* _requestReadBuffers[fd]
  taken,   \* raw requests popped from the buffer
  open     \* the client is connected

vars == <<sent, stream, buffer, taken, open>>

\* The types; no request is empty, and nothing is kept of a client that is gone.
TypeOK ==
  /\ sent \in Wires
  /\ stream \in Seq(Symbol) /\ buffer \in Seq(Symbol)
  /\ taken \in Seq(Seq(Symbol) \ {<<>>})
  /\ open \in BOOLEAN
  /\ ~open => buffer = <<>>

-----------------------------------------------------------------------------
(* The end of the header block.                                            *)

CrlfAt(s, i) == i \in 1..(Len(s) - 1) /\ s[i] = CR /\ s[i + 1] = LF

\* The number of symbols up to and with the first blank line.
EndsWithCrlf(s) == {i + 3 : i \in {j \in DOMAIN s : CrlfAt(s, j) /\ CrlfAt(s, j + 2)}}
EndsWithLf(s)   == {i + 1 : i \in {j \in 1..(Len(s) - 1) : s[j] = LF /\ s[j + 1] = LF}}

\* Fault: a blank line made of LF alone is looked for first.
FaultLfFirst(s) ==
  CASE EndsWithLf(s) # {} -> Least(EndsWithLf(s))
    [] EndsWithLf(s) = {} /\ EndsWithCrlf(s) # {} -> Least(EndsWithCrlf(s))
    [] OTHER -> 0

\* findHeaderEnd: CR LF CR LF anywhere in the buffer goes before LF LF.
HeaderEnd(s) ==
  CASE EndsWithCrlf(s) # {} -> Least(EndsWithCrlf(s))
    [] EndsWithCrlf(s) = {} /\ EndsWithLf(s) # {} -> Least(EndsWithLf(s))
    [] OTHER -> 0

-----------------------------------------------------------------------------
(* Content-Length.                                                         *)

\* Lines end with CR LF as long as there is one ahead, and then with LF.
EndsLine(h, i) ==
  /\ h[i] = LF
  /\ (i > 1 /\ h[i - 1] = CR) \/ ~\E j \in i..Len(h) : CrlfAt(h, j)

LineStarts(h) == {i \in DOMAIN h : i = 1 \/ EndsLine(h, i - 1)}

Blank(h, i) == CrlfAt(h, i) \/ (h[i] = LF /\ ~\E j \in i..Len(h) : CrlfAt(h, j))

\* The lines that tryExtractContentLength takes the length from, if any.
LengthStarts(h) ==
  {i \in LineStarts(h) : /\ h[i] \in LengthLines
                         /\ ~\E b \in LineStarts(h) : b < i /\ Blank(h, b)}

\* strtol has to consume the line to its end.
LengthOfLine(h, i) ==
  IF h[i] # InvalidLine /\ (CrlfAt(h, i + 1) \/ EndsLine(h, i + 1)) THEN h[i][2] ELSE 0

\* The first Content-Length counts.
ContentLength(h) ==
  IF LengthStarts(h) = {} THEN 0 ELSE LengthOfLine(h, Least(LengthStarts(h)))

-----------------------------------------------------------------------------
(* popCompleteRequestFromBuffer.                                           *)

RequiredSize(s) == HeaderEnd(s) + ContentLength(SubSeq(s, 1, HeaderEnd(s)))

\* Fault: a buffer without the end of a head is taken as it is.
FaultEmptyIsComplete(s) == RequiredSize(s) <= Len(s)

\* Fault: a byte behind the request is waited for.
FaultWaitsForMore(s) == HeaderEnd(s) > 0 /\ RequiredSize(s) < Len(s)

IsComplete(s) == HeaderEnd(s) > 0 /\ RequiredSize(s) <= Len(s)

Init ==
  /\ sent \in Wires
  /\ stream = BytesFrom(sent)[1]
  /\ buffer = <<>> /\ taken = <<>>
  /\ open = TRUE

\* readRawRequestOrDisconnect with n symbols received: one request is popped at
\* most, and the others wait in the buffer until more is received.
Receive(n) ==
  /\ open
  /\ n \in 1..ChunkSize /\ n <= Len(stream)
  /\ stream' = SubSeq(stream, n + 1, Len(stream))
  /\ LET s == buffer \o SubSeq(stream, 1, n)
         m == RequiredSize(s)
     IN IF IsComplete(s)
        THEN /\ taken' = Append(taken, SubSeq(s, 1, m))
             /\ buffer' = SubSeq(s, m + 1, Len(s))
        ELSE buffer' = s /\ UNCHANGED taken
  /\ UNCHANGED <<sent, open>>

\* recv returns 0: disconnectClient erases the buffer.
ReceiveEnd ==
  /\ open
  /\ stream = <<>>
  /\ open' = FALSE
  /\ buffer' = <<>>
  /\ UNCHANGED <<sent, stream, taken>>

Next == (\E n \in 1..ChunkSize : Receive(n)) \/ ReceiveEnd

Spec == Init /\ [][Next]_vars

-----------------------------------------------------------------------------
\* CR LF CR LF is looked for in the whole buffer before LF LF: behind a head whose
\* lines end in LF, nothing that may be received with it can hold it.
Unambiguous(messages, i) ==
  \A j \in 1..i : \/ EndsWithCrlf(messages[j].head) # {}
                  \/ EndsWithCrlf(BytesFrom(messages)[j]) = {}

\* The first request is taken by the recv that brings its last byte. Where CR LF
\* CR LF comes behind LF line ends, that is so unless what it belongs to declares a
\* length.
FirstIsPrompt ==
  LET bytes == BytesFrom(sent)[1]
  IN /\ open /\ sent # <<>> /\ Len(stream) <= Len(BytesFrom(sent)[2])
     /\ \/ Unambiguous(sent, 1)
        \/ \A i \in DOMAIN bytes : bytes[i] \in LengthLines => ~CrlfAt(bytes, i + 1)
     => taken # <<>>
=============================================================================
