--------------------------- MODULE MCRequestFramer ---------------------------
(* MessageExchange with requests whose lines end in CR LF, and requests whose*)
(* lines end in LF, alone and in pairs, and outputs of scripts of both kinds.*)
EXTENDS MessageExchange, SequencesExt

MCLengths == {1, 4}

Request(end, lines, body) ==
  [head |-> FlattenSeq([i \in DOMAIN lines |-> <<lines[i]>> \o end]) \o end, body |-> body]

One  == <<OtherLine, LengthLine(1)>>
Four == <<OtherLine, LengthLine(4)>>

Common(end) ==
  {Request(end, <<OtherLine>>, <<>>),
   Request(end, <<OtherLine, InvalidLine, LengthLine(4)>>, <<>>),
   Request(end, <<OtherLine, LengthLine(1), LengthLine(4)>>, <<OtherByte>>),
   Request(end, One, <<LF>>),
   Request(end, Four, <<LF, LF, OtherByte, LF>>),
   Request(end, Four, <<OtherByte, CR, LF, CR>>)}

\* Bodies that look like the end of a head.
CrlfRequests == Common(<<CR, LF>>) \cup {Request(<<CR, LF>>, Four, <<CR, LF, CR, LF>>)}
LfRequests   == Common(<<LF>>) \cup {Request(<<LF>>, Four, <<CR, LF, CR, LF>>)}

MCWires == {<<r>> : r \in CrlfRequests \cup LfRequests}
             \cup {<<r, s>> : r, s \in CrlfRequests} \cup {<<r, s>> : r, s \in LfRequests}

-----------------------------------------------------------------------------
Lines ==
  {<<>>, <<TextLine>>,
   <<HeaderLine("Status", 404), HeaderLine("Content-Type", 1)>>,
   <<HeaderLine("Content-Type", 1), HeaderLine("STATUS", 99)>>,
   <<HeaderLine("Cookie", 1), HeaderLine("Status", 0), HeaderLine("Cookie", 2)>>,
   <<HeaderLine("Content-Length", 2), HeaderLine("Status", 302)>>,
   <<HeaderLine("Content-Type", 1), TextLine, HeaderLine("CONTENT-LENGTH", 2)>>}

MCValues == {0, 1, 2, 99, 302, 404}

ScriptBodies == {<<>>, <<OtherByte, LF>>, <<LF, LF, OtherByte>>, <<CR, LF, CR, LF>>}

\* The last ones end before their blank line.
MCOutputs ==
  {Request(end, lines, body) : end \in {<<CR, LF>>, <<LF>>}, lines \in Lines \ {<<>>}, body \in ScriptBodies}
  \cup {[head |-> lines, body |-> <<>>] : lines \in Lines}
=============================================================================
