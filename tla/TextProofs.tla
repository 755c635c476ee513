----------------------------- MODULE TextProofs -----------------------------
(* What TLAPS proves of Startup about the text of a file, its tokens and their *)
(* tree: what the lexer finds, and what every step of the program finds there; *)
(* the parser takes the sentences of the grammar, no others, and keeps them.   *)
EXTENDS Startup, SelectionsProofs

-----------------------------------------------------------------------------
(* The lexer.                                                              *)

\* A run ends where it is said to end.
LEMMA RunEnds ==
  ASSUME text \in Seq(Symbols), NEW S, NEW i \in 1..(Len(text) + 1)
  PROVE  /\ RunEnd(S, i) \in i..(Len(text) + 1)
         /\ RunEnd(S, i) = Len(text) + 1 \/ text[RunEnd(S, i)] \notin S
         /\ \A k \in i..(RunEnd(S, i) - 1) : text[k] \in S
<1> DEFINE ends == {j \in i..(Len(text) + 1) : j = Len(text) + 1 \/ text[j] \notin S}
<1>1. Len(text) \in Nat
  OBVIOUS
<1>2. ends \subseteq Nat /\ Len(text) + 1 \in ends
  BY <1>1
<1>3. PICK m \in ends : \A j \in ends : m <= j
  BY <1>2, LeastExists
<1>4. m \in i..(Len(text) + 1) /\ (m = Len(text) + 1 \/ text[m] \notin S)
  BY <1>3
<1>5. \A k \in i..(m - 1) : text[k] \in S
  <2>1. SUFFICES ASSUME NEW k \in i..(m - 1), text[k] \notin S PROVE FALSE
    OBVIOUS
  <2>2. k \in ends /\ k < m
    BY <1>1, <1>4, <2>1
  <2>3. QED
    BY <1>1, <1>3, <1>4, <2>2
<1> HIDE DEF ends
<1>6. QED
  BY <1>4, <1>5 DEF RunEnd

\* What is passed over between tokens: white space, and comments up to the end of
\* their line.
Skipped(k) ==
  \/ text[k] \in Whitespace
  \/ \E h \in 1..k : text[h] = Hash /\ \A l \in h..k : text[l] # NewLine

\* The same from a position on.
SkippedFrom(i, k) ==
  \/ text[k] \in Whitespace
  \/ \E h \in i..k : text[h] = Hash /\ \A l \in h..k : text[l] # NewLine

LEMMA SpaceIsSkipped ==
  ASSUME text \in Seq(Symbols), NEW i \in 1..(Len(text) + 1)
  PROVE  /\ AfterSpace(i) \in i..(Len(text) + 1)
         /\ \A k \in i..(AfterSpace(i) - 1) : SkippedFrom(i, k)
<1> DEFINE a == RunEnd(Whitespace, i)
           b == AfterComment(a)
           c == RunEnd(Whitespace, b)
<1>1. Len(text) \in Nat /\ DOMAIN text = 1..Len(text)
  OBVIOUS
<1>2. a \in i..(Len(text) + 1) /\ \A k \in i..(a - 1) : text[k] \in Whitespace
  BY RunEnds
<1>3. a \in 1..(Len(text) + 1)
  BY <1>1, <1>2
<1> HIDE DEF a
<1>4. b \in a..(Len(text) + 1) /\ \A k \in a..(b - 1) : SkippedFrom(i, k)
  <2>1. CASE At(a, {Hash})
    <3>1. b = RunEnd(Symbols \ {NewLine}, a)
      BY <2>1 DEF AfterComment
    <3>2. b \in a..(Len(text) + 1) /\ \A k \in a..(b - 1) : text[k] \in Symbols \ {NewLine}
      BY <1>3, <3>1, RunEnds
    <3>3. text[a] = Hash
      BY <2>1 DEF At
    <3> HIDE DEF b
    <3>4. ASSUME NEW k \in a..(b - 1) PROVE SkippedFrom(i, k)
      <4>1. a \in i..k
        BY <1>1, <1>2, <3>2
      <4>2. \A l \in a..k : text[l] # NewLine
        BY <1>1, <1>2, <3>2
      <4>3. QED
        BY <3>3, <4>1, <4>2 DEF SkippedFrom
    <3>5. QED
      BY <3>2, <3>4
  <2>2. CASE ~At(a, {Hash})
    BY <1>1, <1>2, <2>2 DEF AfterComment
  <2>3. QED
    BY <2>1, <2>2
<1> HIDE DEF b
<1>5. b \in 1..(Len(text) + 1)
  BY <1>1, <1>3, <1>4
<1>6. c \in b..(Len(text) + 1) /\ \A k \in b..(c - 1) : text[k] \in Whitespace
  BY <1>5, RunEnds
<1>7. AfterSpace(i) = c
  BY DEF AfterSpace, a, b
<1> HIDE DEF c
<1>8. ASSUME NEW k \in i..(c - 1) PROVE SkippedFrom(i, k)
  <2>1. CASE k \in i..(a - 1)
    BY <1>2, <2>1 DEF SkippedFrom
  <2>2. CASE k \in a..(b - 1)
    BY <1>4, <2>2
  <2>3. CASE k \in b..(c - 1)
    BY <1>6, <2>3 DEF SkippedFrom
  <2>4. QED
    BY <1>1, <1>2, <1>4, <1>6, <2>1, <2>2, <2>3
<1>9. QED
  BY <1>1, <1>2, <1>4, <1>6, <1>7, <1>8

\* The symbols that a token stands for.
Covers(token) ==
  IF token.type = "STRING"
  THEN (token.at - 1)..(token.at + Len(token.value))
  ELSE token.at..(token.at + Len(token.value) - 1)

\* A scanner takes at least one symbol, and if it adds no error its token stands for
\* all that it takes.
IsScanned(i, scanned) ==
  /\ scanned.token \in [type : TokenTypes \ {"EOF_TOKEN"}, value : Seq(Symbols), at : 1..(Len(text) + 1)]
  /\ scanned.next \in (i + 1)..(Len(text) + 1)
  /\ scanned.error \in BOOLEAN
  /\ ~scanned.error => Covers(scanned.token) = i..(scanned.next - 1)

LEMMA TokenIs ==
  ASSUME text \in Seq(Symbols), NEW type, NEW i \in 1..(Len(text) + 1), NEW j \in i..(Len(text) + 1)
  PROVE  /\ Token(type, i, j).type = type /\ Token(type, i, j).at = i
         /\ Token(type, i, j).value \in Seq(Symbols) /\ Len(Token(type, i, j).value) = j - i
         /\ Token(type, i, j) = [type |-> type, value |-> Token(type, i, j).value, at |-> i]
<1>1. Len(text) \in Nat /\ i \in Int /\ j - 1 \in Int
  OBVIOUS
<1>2. \A k \in i..(j - 1) : text[k] \in Symbols
  BY <1>1
<1>3. SubSeq(text, i, j - 1) \in Seq(Symbols) /\ Len(SubSeq(text, i, j - 1)) = j - i
  <2>1. /\ SubSeq(text, i, j - 1) \in Seq(Symbols)
        /\ Len(SubSeq(text, i, j - 1)) = IF i <= j - 1 THEN j - 1 - i + 1 ELSE 0
    BY <1>1, <1>2, SubSeqProperties
  <2>2. QED
    BY <1>1, <2>1
<1>4. QED
  BY <1>3 DEF Token

\* The usual case: a token from i to the next position.
LEMMA WholeIsScanned ==
  ASSUME text \in Seq(Symbols), NEW i \in 1..Len(text), NEW j \in (i + 1)..(Len(text) + 1),
         NEW type \in TokenTypes \ {"EOF_TOKEN", "STRING"}, NEW error \in BOOLEAN
  PROVE  IsScanned(i, Scanned(Token(type, i, j), j, error))
<1>1. Len(text) \in Nat /\ i \in 1..(Len(text) + 1) /\ j \in i..(Len(text) + 1)
  OBVIOUS
<1> DEFINE token == Token(type, i, j)
<1>2. /\ token.type = type /\ token.at = i /\ Len(token.value) = j - i /\ token.value \in Seq(Symbols)
      /\ token = [type |-> type, value |-> token.value, at |-> i]
  BY <1>1, TokenIs
<1> HIDE DEF token
<1>3. Covers(token) = i..(j - 1)
  BY <1>1, <1>2 DEF Covers
<1>4. token \in [type : TokenTypes \ {"EOF_TOKEN"}, value : Seq(Symbols), at : 1..(Len(text) + 1)]
  BY <1>1, <1>2
<1>5. IsScanned(i, Scanned(token, j, error))
  BY <1>3, <1>4 DEF IsScanned, Scanned
<1>6. QED
  BY <1>5 DEF token

LEMMA StringIsScanned ==
  ASSUME text \in Seq(Symbols), NEW i \in 1..Len(text)
  PROVE  IsScanned(i, ScanString(i))
<1> DEFINE j == RunEnd(Symbols \ {Quote}, i + 1)
           string == Token("STRING", i + 1, j)
           nothing == Token("UNKNOWN", i + 1, i + 1)
<1>1. Len(text) \in Nat /\ i + 1 \in 1..(Len(text) + 1)
  OBVIOUS
<1>2. j \in (i + 1)..(Len(text) + 1)
  BY <1>1, RunEnds
<1> HIDE DEF j
<1>3. CASE j > Len(text)
  <2>1. /\ nothing.value \in Seq(Symbols)
        /\ nothing = [type |-> "UNKNOWN", value |-> nothing.value, at |-> i + 1]
    BY <1>1, TokenIs
  <2>2. ScanString(i) = Scanned(nothing, j, TRUE)
    BY <1>3 DEF ScanString, j
  <2> HIDE DEF nothing
  <2>3. nothing \in [type : TokenTypes \ {"EOF_TOKEN"}, value : Seq(Symbols), at : 1..(Len(text) + 1)]
    BY <1>1, <2>1 DEF TokenTypes
  <2>4. QED
    BY <1>2, <2>2, <2>3 DEF IsScanned, Scanned
<1>4. CASE ~(j > Len(text))
  <2> DEFINE broken == NewLine \in ToSet(string.value)
  <2>1. /\ string.value \in Seq(Symbols) /\ Len(string.value) = j - (i + 1)
        /\ string.type = "STRING" /\ string.at = i + 1
        /\ string = [type |-> "STRING", value |-> string.value, at |-> i + 1]
    BY <1>1, <1>2, TokenIs
  <2>2. ScanString(i) = Scanned(string, j + 1, broken)
    BY <1>4 DEF ScanString, j
  <2>3. broken \in BOOLEAN
    OBVIOUS
  <2> HIDE DEF string, broken
  <2>4. string \in [type : TokenTypes \ {"EOF_TOKEN"}, value : Seq(Symbols), at : 1..(Len(text) + 1)]
    BY <1>1, <2>1 DEF TokenTypes
  <2>5. Covers(string) = i..j
    BY <1>1, <1>2, <2>1 DEF Covers
  <2>6. j + 1 \in (i + 1)..(Len(text) + 1) /\ j = (j + 1) - 1
    BY <1>1, <1>2, <1>4
  <2>7. QED
    BY <2>2, <2>3, <2>4, <2>5, <2>6 DEF IsScanned, Scanned
<1>5. QED
  BY <1>3, <1>4

\* A run that begins at i with one of its symbols is not empty.
LEMMA RunGoesOn ==
  ASSUME text \in Seq(Symbols), NEW S, NEW i \in 1..Len(text), text[i] \in S
  PROVE  RunEnd(S, i) \in (i + 1)..(Len(text) + 1)
<1>1. Len(text) \in Nat /\ i \in 1..(Len(text) + 1)
  OBVIOUS
<1>2. RunEnd(S, i) \in i..(Len(text) + 1) /\ (RunEnd(S, i) = Len(text) + 1 \/ text[RunEnd(S, i)] \notin S)
  BY <1>1, RunEnds
<1>3. RunEnd(S, i) # i
  BY <1>1, <1>2
<1>4. QED
  BY <1>1, <1>2, <1>3

LEMMA ScanIsScanned ==
  ASSUME text \in Seq(Symbols), NEW i \in 1..Len(text)
  PROVE  IsScanned(i, Scan(i))
<1>1. Len(text) \in Nat /\ i + 1 \in (i + 1)..(Len(text) + 1)
  OBVIOUS
<1>2. ASSUME At(i, {Opening, Closing, Semicolon}) PROVE IsScanned(i, ScanSingle(i))
  <2> DEFINE type == CASE text[i] = Opening -> "LBRACE"
                       [] text[i] = Closing -> "RBRACE"
                       [] OTHER -> "SEMICOLON"
  <2>1. type \in TokenTypes \ {"EOF_TOKEN", "STRING"}
    BY DEF TokenTypes
  <2>2. ScanSingle(i) = Scanned(Token(type, i, i + 1), i + 1, FALSE)
    BY DEF ScanSingle
  <2> HIDE DEF type
  <2>3. QED
    BY <1>1, <2>1, <2>2, WholeIsScanned
<1>3. ASSUME At(i, WordSymbols) PROVE IsScanned(i, ScanWord(i))
  <2> DEFINE j == RunEnd(WordChars, i)
             k == RunEnd(PathChars, j)
  <2>1. j \in (i + 1)..(Len(text) + 1)
    BY <1>3, RunGoesOn DEF At, WordChars
  <2>2. k \in j..(Len(text) + 1)
    BY <1>1, <2>1, RunEnds
  <2> HIDE DEF j, k
  <2>3. k \in (i + 1)..(Len(text) + 1)
    BY <1>1, <2>1, <2>2
  <2>4. /\ IsScanned(i, Scanned(Token("PATH", i, k), k, FALSE))
        /\ IsScanned(i, Scanned(Token("WORD", i, j), j, FALSE))
    BY <2>1, <2>3, WholeIsScanned DEF TokenTypes
  <2>5. ScanWord(i) \in {Scanned(Token("PATH", i, k), k, FALSE), Scanned(Token("WORD", i, j), j, FALSE)}
    BY DEF ScanWord, j, k
  <2>6. QED
    BY <2>4, <2>5
<1>4. ASSUME At(i, NumberSymbols) PROVE IsScanned(i, ScanNumber(i))
  <2> DEFINE j == RunEnd(NumberSymbols, i)
             k == RunEnd(PathChars, j)
             type == IF k > j THEN "PATH" ELSE "NUMBER"
  <2>1. j \in (i + 1)..(Len(text) + 1)
    BY <1>4, RunGoesOn DEF At
  <2>2. k \in j..(Len(text) + 1)
    BY <1>1, <2>1, RunEnds
  <2>3. ScanNumber(i) = Scanned(Token(type, i, k), k, FALSE)
    BY DEF ScanNumber
  <2>4. type \in TokenTypes \ {"EOF_TOKEN", "STRING"}
    BY DEF TokenTypes
  <2> HIDE DEF j, k, type
  <2>5. k \in (i + 1)..(Len(text) + 1)
    BY <1>1, <2>1, <2>2
  <2>6. QED
    BY <2>3, <2>4, <2>5, WholeIsScanned
<1>5. ASSUME At(i, {Slash, Dot, Dash}) PROVE IsScanned(i, ScanPath(i))
  <2> DEFINE j == RunEnd(PathChars, i)
  <2>1. j \in (i + 1)..(Len(text) + 1)
    BY <1>5, RunGoesOn DEF At, PathChars
  <2>2. ScanPath(i) = Scanned(Token("PATH", i, j), j, FALSE)
    BY DEF ScanPath
  <2> HIDE DEF j
  <2>3. QED
    BY <2>1, <2>2, WholeIsScanned DEF TokenTypes
<1>6. IsScanned(i, ScanUnknown(i))
  <2>1. "UNKNOWN" \in TokenTypes \ {"EOF_TOKEN", "STRING"}
    BY DEF TokenTypes
  <2>2. QED
    BY <1>1, <2>1, WholeIsScanned DEF ScanUnknown
<1>7. QED
  BY <1>2, <1>3, <1>4, <1>5, <1>6, StringIsScanned DEF Scan

-----------------------------------------------------------------------------
(* The text and its tokens.                                                *)

\* No token stands for what is not yet read, none for what another one does, and
\* what is read and belongs to none was skipped.
TokensSoFar ==
  /\ \A k \in DOMAIN tokens : Extent(k) \subseteq 1..(pos - 1)
  /\ \A k \in 1..(Len(tokens) - 1) : Extent(k) \cap Extent(k + 1) = {}
  /\ \A i \in 1..(pos - 1) :
       \/ i \in InTokens
       \/ text[i] \in Whitespace
       \/ \E h \in 1..i : /\ text[h] = Hash
                          /\ \A l \in h..i : l \notin InTokens /\ text[l] # NewLine

LEMMA InTokensIs ==
  /\ \A i : i \in InTokens <=> \E k \in DOMAIN tokens : i \in Covers(tokens[k])
  /\ \A k : Extent(k) = Covers(tokens[k])
BY DEF InTokens, Extent, Covers

LEMMA ScanTokenIs ==
  ASSUME text \in Seq(Symbols), pos \in 1..(Len(text) + 1), ScanToken
  PROVE  \E token, error :
           /\ token \in Tokens /\ token.at \in 1..(Len(text) + 1) /\ token.type # "EOF_TOKEN"
           /\ error \in BOOLEAN
           /\ tokens' = Append(tokens, token)
           /\ failed' = (failed \/ error)
           /\ text' = text
           /\ pos' \in (AfterSpace(pos) + 1)..(Len(text) + 1)
           /\ AfterSpace(pos) \in pos..Len(text)
           /\ ~error => Covers(token) = AfterSpace(pos)..(pos' - 1)
<1> DEFINE i == AfterSpace(pos)
           scanned == Scan(i)
<1>1. /\ i <= Len(text) /\ pos' = scanned.next /\ tokens' = Append(tokens, scanned.token)
      /\ failed' = (failed \/ scanned.error) /\ text' = text
  BY DEF ScanToken
<1>2. Len(text) \in Nat /\ i \in pos..(Len(text) + 1)
  BY SpaceIsSkipped
<1> HIDE DEF i
<1>3. i \in pos..Len(text) /\ i \in 1..Len(text)
  BY <1>1, <1>2
<1>4. IsScanned(i, scanned)
  BY <1>3, ScanIsScanned
<1> HIDE DEF scanned
<1>5. /\ scanned.token \in Tokens /\ scanned.token.at \in 1..(Len(text) + 1)
      /\ scanned.token.type # "EOF_TOKEN" /\ scanned.error \in BOOLEAN
      /\ scanned.next \in (i + 1)..(Len(text) + 1)
      /\ ~scanned.error => Covers(scanned.token) = i..(scanned.next - 1)
  <2>1. scanned.token \in [type : TokenTypes \ {"EOF_TOKEN"}, value : Seq(Symbols), at : 1..(Len(text) + 1)]
    BY <1>4 DEF IsScanned
  <2>2. /\ scanned.token \in Tokens /\ scanned.token.at \in 1..(Len(text) + 1)
        /\ scanned.token.type # "EOF_TOKEN"
    BY <2>1 DEF Tokens
  <2>3. QED
    BY <1>4, <2>2 DEF IsScanned
<1>6. QED
  BY <1>1, <1>3, <1>5 DEF i

\* What is read (below p), skipped (from p on) and taken (from a on) is apart.
LEMMA ReadAndTaken ==
  ASSUME NEW p \in Nat, NEW a \in Nat, NEW q \in Nat, 1 <= p, p <= a, a < q
  PROVE  /\ 1..(p - 1) \subseteq 1..(q - 1) /\ a..(q - 1) \subseteq 1..(q - 1)
         /\ \A i \in 1..(p - 1) : i \notin a..(q - 1)
         /\ \A i \in 1..(q - 1) : i \in 1..(p - 1) \/ i \in p..(a - 1) \/ i \in a..(q - 1)
         /\ \A i \in p..(a - 1) : \A h \in p..i :
              h \in 1..i /\ \A l \in h..i : l \notin 1..(p - 1) /\ l \notin a..(q - 1)
         /\ \A i \in 1..(p - 1) : \A h \in 1..i : \A l \in h..i : l \notin a..(q - 1)
OBVIOUS

LEMMA ScanTokenKeeps ==
  ASSUME text \in Seq(Symbols), pos \in 1..(Len(text) + 1), tokens \in Seq(Tokens),
         ~failed, TokensSoFar, ScanToken
  PROVE  ~failed' => TokensSoFar'
<1> SUFFICES ASSUME ~failed' PROVE TokensSoFar'
  OBVIOUS
<1> DEFINE a == AfterSpace(pos)
           n == Len(tokens)
<1>1. PICK token, error :
        /\ token \in Tokens /\ error \in BOOLEAN
        /\ tokens' = Append(tokens, token)
        /\ failed' = (failed \/ error)
        /\ text' = text
        /\ pos' \in (a + 1)..(Len(text) + 1)
        /\ a \in pos..Len(text)
        /\ ~error => Covers(token) = a..(pos' - 1)
  BY ScanTokenIs
<1>2. Covers(token) = a..(pos' - 1)
  BY <1>1
<1>3. \A k \in pos..(a - 1) : SkippedFrom(pos, k)
  BY SpaceIsSkipped
<1>4. Len(text) \in Nat /\ a \in Nat /\ pos \in Nat /\ pos' \in Nat /\ pos <= a /\ a < pos' /\ 1 <= pos
  <2>1. Len(text) \in Nat
    OBVIOUS
  <2> HIDE DEF a
  <2>2. QED
    BY <1>1, <2>1
<1> HIDE DEF a, n
<1>5. /\ n \in Nat /\ DOMAIN tokens = 1..n /\ DOMAIN tokens' = 1..(n + 1) /\ Len(tokens') = n + 1
      /\ \A k \in 1..n : tokens'[k] = tokens[k]
      /\ tokens'[n + 1] = token
  BY <1>1, AppendProperties, LenProperties DEF n
<1> DEFINE new(k) == Covers(tokens'[k])
           all == UNION {new(k) : k \in 1..(n + 1)}
<1>6. /\ \A k \in 1..n : new(k) = Extent(k)
      /\ new(n + 1) = a..(pos' - 1)
  BY <1>2, <1>5, InTokensIs
<1>7. \A i : i \in all <=> i \in InTokens \/ i \in a..(pos' - 1)
  <2>1. \A i : i \in all <=> \E k \in 1..(n + 1) : i \in new(k)
    OBVIOUS
  <2>2. \A i : i \in InTokens <=> \E k \in 1..n : i \in Extent(k)
    BY <1>5 DEF InTokens
  <2>3. \A k \in 1..(n + 1) : k \in 1..n \/ k = n + 1
    BY <1>5
  <2>4. 1..n \subseteq 1..(n + 1) /\ n + 1 \in 1..(n + 1)
    BY <1>5
  <2> HIDE DEF new, all
  <2>5. ASSUME NEW i, i \in all PROVE i \in InTokens \/ i \in a..(pos' - 1)
    <3>1. PICK k \in 1..(n + 1) : i \in new(k)
      BY <2>1, <2>5
    <3>2. CASE k \in 1..n
      BY <1>6, <2>2, <3>1, <3>2, Zenon
    <3>3. CASE k = n + 1
      BY <1>6, <3>1, <3>3, Zenon
    <3>4. QED
      BY <2>3, <3>1, <3>2, <3>3, Zenon
  <2>6. ASSUME NEW i, i \in InTokens PROVE i \in all
    <3>1. PICK k \in 1..n : i \in Extent(k)
      BY <2>2, <2>6, Zenon
    <3>2. QED
      BY <1>6, <2>1, <2>4, <3>1, Zenon
  <2>7. ASSUME NEW i, i \in a..(pos' - 1) PROVE i \in all
    BY <1>6, <2>1, <2>4, <2>7, Zenon
  <2>8. QED
    BY <2>5, <2>6, <2>7, Zenon
<1>8. \A i \in InTokens : i \in 1..(pos - 1)
  <2>1. \A i : i \in InTokens <=> \E k \in DOMAIN tokens : i \in Extent(k)
    BY DEF InTokens
  <2>2. QED
    BY <2>1 DEF TokensSoFar
<1> HIDE DEF new, all
<1>9. \A k \in 1..(n + 1) : new(k) \subseteq 1..(pos' - 1)
  <2>1. \A k \in 1..n : new(k) \subseteq 1..(pos' - 1)
    <3>1. 1..(pos - 1) \subseteq 1..(pos' - 1)
      BY <1>4, ReadAndTaken
    <3>2. QED
      BY <1>5, <1>6, <3>1 DEF TokensSoFar
  <2>2. new(n + 1) \subseteq 1..(pos' - 1)
    BY <1>4, <1>6, ReadAndTaken
  <2>3. \A k \in 1..(n + 1) : k \in 1..n \/ k = n + 1
    BY <1>5
  <2>4. QED
    BY <2>1, <2>2, <2>3
<1>10. \A k \in 1..n : new(k) \cap new(k + 1) = {}
  <2>1. ASSUME NEW k \in 1..(n - 1) PROVE new(k) \cap new(k + 1) = {}
    <3>1. k \in 1..n /\ k + 1 \in 1..n /\ k \in 1..(Len(tokens) - 1)
      BY <1>5 DEF n
    <3>2. QED
      BY <1>6, <3>1 DEF TokensSoFar
  <2>2. ASSUME n \in 1..n PROVE new(n) \cap new(n + 1) = {}
    <3>1. new(n) \subseteq 1..(pos - 1)
      BY <1>5, <1>6, <2>2 DEF TokensSoFar
    <3>2. \A i \in 1..(pos - 1) : i \notin a..(pos' - 1)
      BY <1>4, ReadAndTaken
    <3>3. QED
      BY <1>6, <3>1, <3>2
  <2>3. \A k \in 1..n : k \in 1..(n - 1) \/ k = n
    BY <1>5
  <2>4. QED
    BY <2>1, <2>2, <2>3
<1>11. ASSUME NEW i \in 1..(pos' - 1), i \notin all
       PROVE  \/ text'[i] \in Whitespace
              \/ \E h \in 1..i : /\ text'[h] = Hash
                                 /\ \A l \in h..i : l \notin all /\ text'[l] # NewLine
  <2>1. i \notin a..(pos' - 1) /\ i \notin InTokens
    BY <1>7, <1>11
  <2>2. CASE i \in 1..(pos - 1)
    <3>1. \/ text[i] \in Whitespace
          \/ \E h \in 1..i : /\ text[h] = Hash
                             /\ \A l \in h..i : l \notin InTokens /\ text[l] # NewLine
      BY <2>1, <2>2 DEF TokensSoFar
    <3>2. \A h \in 1..i : \A l \in h..i : l \notin a..(pos' - 1)
      BY <1>4, <2>2, ReadAndTaken
    <3>3. QED
      BY <1>1, <1>7, <3>1, <3>2
  <2>3. CASE i \in pos..(a - 1)
    <3>1. \/ text[i] \in Whitespace
          \/ \E h \in pos..i : text[h] = Hash /\ \A l \in h..i : text[l] # NewLine
      BY <1>3, <2>3 DEF SkippedFrom
    <3>2. CASE text[i] \in Whitespace
      BY <1>1, <3>2
    <3>3. ASSUME NEW h \in pos..i, text[h] = Hash, \A l \in h..i : text[l] # NewLine
          PROVE  \E g \in 1..i : /\ text'[g] = Hash
                                 /\ \A l \in g..i : l \notin all /\ text'[l] # NewLine
      <4>1. h \in 1..i /\ \A l \in h..i : l \notin 1..(pos - 1) /\ l \notin a..(pos' - 1)
        BY <1>4, <2>3, ReadAndTaken
      <4>2. \A l \in h..i : l \notin all
        BY <1>7, <1>8, <4>1
      <4>3. QED
        BY <1>1, <3>3, <4>1, <4>2
    <3>4. QED
      BY <3>1, <3>2, <3>3
  <2>4. QED
    BY <1>4, <2>1, <2>2, <2>3, ReadAndTaken
<1>12. InTokens' = all /\ \A k \in 1..(n + 1) : Extent(k)' = new(k)
  BY <1>5 DEF InTokens, Extent, Covers, new, all
<1>13. Len(tokens') - 1 = n /\ \A k \in 1..n : k \in 1..(n + 1) /\ k + 1 \in 1..(n + 1)
  BY <1>5
<1>14. QED
  BY <1>5, <1>9, <1>10, <1>11, <1>12, <1>13 DEF TokensSoFar

-----------------------------------------------------------------------------
(* The parser's positions.                                                 *)

\* The last token and no other one ends the text.
Terminated ==
  /\ tokens # <<>> /\ tokens[Len(tokens)].type = "EOF_TOKEN"
  /\ \A k \in 1..(Len(tokens) - 1) : tokens[k].type # "EOF_TOKEN"

LEMMA TokensAre ==
  ASSUME tokens \in Seq(Tokens)
  PROVE  \A k \in 1..Len(tokens) : /\ tokens[k] \in Tokens
                                   /\ tokens[k].type \in TokenTypes /\ tokens[k].value \in Seq(Symbols)
<1>1. \A k \in 1..Len(tokens) : tokens[k] \in Tokens
  OBVIOUS
<1>2. \A t \in Tokens : t.type \in TokenTypes /\ t.value \in Seq(Symbols)
  BY DEF Tokens
<1>3. QED
  BY <1>1, <1>2

LEMMA FirstIsFound ==
  ASSUME tokens \in Seq(Tokens), NEW Types, NEW i \in 1..Len(tokens),
         tokens[Len(tokens)].type \in Types
  PROVE  /\ FirstFrom(i, Types) \in i..Len(tokens)
         /\ tokens[FirstFrom(i, Types)].type \in Types
         /\ \A k \in i..(FirstFrom(i, Types) - 1) : tokens[k].type \notin Types
<1> DEFINE ends == {j \in i..Len(tokens) : tokens[j].type \in Types}
<1>1. Len(tokens) \in Nat
  OBVIOUS
<1>2. ends \subseteq Nat /\ Len(tokens) \in ends
  BY <1>1
<1>3. PICK m \in ends : \A j \in ends : m <= j
  BY <1>2, LeastExists
<1>4. m \in i..Len(tokens) /\ tokens[m].type \in Types
  BY <1>3
<1>5. \A k \in i..(m - 1) : tokens[k].type \notin Types
  <2>1. SUFFICES ASSUME NEW k \in i..(m - 1), tokens[k].type \in Types PROVE FALSE
    OBVIOUS
  <2>2. k \in ends /\ k < m
    BY <1>1, <1>4, <2>1
  <2>3. QED
    BY <1>1, <1>3, <1>4, <2>2
<1> HIDE DEF ends
<1>6. QED
  BY <1>4, <1>5 DEF FirstFrom

\* Recovery never leaves the tokens.
LEMMA SynchronizeStays ==
  ASSUME tokens \in Seq(Tokens), Terminated, NEW i \in DOMAIN tokens
  PROVE  Synchronize(i) \in DOMAIN tokens
<1> DEFINE j == FirstFrom(i, {"SEMICOLON", "RBRACE", "WORD", "EOF_TOKEN"})
<1>1. Len(tokens) \in Nat /\ DOMAIN tokens = 1..Len(tokens)
  OBVIOUS
<1>2. tokens[Len(tokens)].type = "EOF_TOKEN" /\ tokens[Len(tokens)].type \in {"SEMICOLON", "RBRACE", "WORD", "EOF_TOKEN"}
  BY DEF Terminated
<1>3. j \in i..Len(tokens)
  BY <1>1, <1>2, FirstIsFound
<1>4. Synchronize(i) = IF TypeAt(j) = "EOF_TOKEN" THEN j ELSE j + 1
  BY DEF Synchronize
<1> HIDE DEF j
<1>5. TypeAt(j) = tokens[j].type
  BY <1>1, <1>3 DEF TypeAt
<1>6. QED
  BY <1>1, <1>2, <1>3, <1>4, <1>5

\* Behind a token that does not end the text there are values, then its delimiter.
LEMMA DelimiterIs ==
  ASSUME tokens \in Seq(Tokens), Terminated, NEW i \in DOMAIN tokens, tokens[i].type # "EOF_TOKEN"
  PROVE  /\ Delimiter(i) \in (i + 1)..Len(tokens)
         /\ TypeAt(Delimiter(i)) = tokens[Delimiter(i)].type
         /\ tokens[Delimiter(i)].type \in TokenTypes \ ValueTypes
         /\ \A k \in (i + 1)..(Delimiter(i) - 1) : tokens[k].type \in ValueTypes
<1> DEFINE d == FirstFrom(i + 1, TokenTypes \ ValueTypes)
<1>1. Len(tokens) \in Nat /\ DOMAIN tokens = 1..Len(tokens)
  OBVIOUS
<1>2. tokens[Len(tokens)].type \in TokenTypes \ ValueTypes
  BY DEF Terminated, TokenTypes, ValueTypes
<1>3. i + 1 \in 1..Len(tokens)
  BY <1>1 DEF Terminated
<1>4. /\ d \in (i + 1)..Len(tokens) /\ tokens[d].type \in TokenTypes \ ValueTypes
      /\ \A k \in (i + 1)..(d - 1) : tokens[k].type \notin TokenTypes \ ValueTypes
  BY <1>2, <1>3, FirstIsFound
<1>5. Delimiter(i) = d
  BY DEF Delimiter
<1> HIDE DEF d
<1>6. TypeAt(d) = tokens[d].type
  BY <1>1, <1>3, <1>4 DEF TypeAt
<1>7. \A k \in (i + 1)..(d - 1) : tokens[k].type \in TokenTypes
  <2>1. \A k \in 1..Len(tokens) : tokens[k].type \in TokenTypes
    BY TokensAre
  <2>2. \A k \in (i + 1)..(d - 1) : k \in 1..Len(tokens)
    BY <1>1, <1>3, <1>4
  <2>3. QED
    BY <2>1, <2>2
<1>8. QED
  BY <1>4, <1>5, <1>6, <1>7

\* A stack without its last block.
LEMMA FrontIsShorter ==
  ASSUME NEW S, NEW s \in Seq(S), s # <<>>
  PROVE  /\ Front(s) \in Seq(S) /\ Len(Front(s)) = Len(s) - 1
         /\ \A k \in 1..(Len(s) - 1) : Front(s)[k] = s[k]
<1>1. Len(s) \in Nat \ {0}
  OBVIOUS
<1> DEFINE l == Len(s) - 1
           t == SubSeq(s, 1, l)
<1>2. Front(s) = t
  BY DEF Front
<1>3. l \in Nat /\ \A k \in 1..l : s[k] \in S
  BY <1>1
<1> HIDE DEF l
<1>4. /\ t \in Seq(S) /\ Len(t) = IF 1 <= l THEN l - 1 + 1 ELSE 0
      /\ \A k \in 1..(l - 1 + 1) : t[k] = s[1 + k - 1]
  BY <1>3, SubSeqProperties
<1> HIDE DEF t
<1>5. Len(t) = l /\ \A k \in 1..l : t[k] = s[k]
  BY <1>3, <1>4
<1>6. QED
  BY <1>2, <1>4, <1>5 DEF l

\* A node has the name and the values that its tokens have.
LEMMA NodeIs ==
  ASSUME tokens \in Seq(Tokens), Terminated, ParserTypeOK, NEW i \in DOMAIN tokens, tokens[i].type # "EOF_TOKEN",
         NEW kind \in {"block", "directive"}
  PROVE  /\ Node(kind, i) \in Nodes
         /\ Node(kind, i).kind = kind /\ Node(kind, i).at = i
         /\ Node(kind, i).name = tokens[i].value
         /\ Len(Node(kind, i).values) = Delimiter(i) - i - 1
         /\ \A k \in DOMAIN Node(kind, i).values : Node(kind, i).values[k] = tokens[i + k].value
         /\ Node(kind, i).parent = Parent /\ Parent \in 0..Len(nodes)
         /\ stack = <<>> => Parent = Root
         /\ stack # <<>> => Parent = stack[Len(stack)] /\ Parent \in DOMAIN nodes
<1> DEFINE n == Delimiter(i) - i - 1
           values == [k \in 1..n |-> tokens[i + k].value]
<1>1. Len(tokens) \in Nat /\ DOMAIN tokens = 1..Len(tokens)
  OBVIOUS
<1>2. Delimiter(i) \in (i + 1)..Len(tokens)
  BY DelimiterIs
<1>3. n \in Nat /\ \A k \in 1..n : i + k \in 1..Len(tokens)
  BY <1>1, <1>2
<1>4. /\ Node(kind, i).kind = kind /\ Node(kind, i).at = i /\ Node(kind, i).parent = Parent
      /\ Node(kind, i).name = tokens[i].value /\ Node(kind, i).values = values
      /\ Node(kind, i) = [kind |-> kind, name |-> tokens[i].value, values |-> values, parent |-> Parent, at |-> i]
  BY DEF Node
<1>5. \A k \in 1..Len(tokens) : tokens[k].value \in Seq(Symbols)
  BY TokensAre
<1> HIDE DEF n
<1>6. values \in Seq(Seq(Symbols)) /\ Len(values) = n /\ DOMAIN values = 1..n
  BY <1>3, <1>5
<1>7. /\ stack = <<>> => Parent = Root
      /\ stack # <<>> => Parent = stack[Len(stack)] /\ Parent \in DOMAIN nodes
  <2>1. stack \in Seq(DOMAIN nodes)
    BY DEF ParserTypeOK
  <2>2. CASE stack = <<>>
    BY <2>2 DEF Parent
  <2>3. CASE stack # <<>>
    <3>1. Len(stack) \in Nat \ {0}
      BY <2>1, <2>3
    <3>2. stack[Len(stack)] \in DOMAIN nodes
      BY <2>1, <3>1
    <3>3. QED
      BY <2>3, <3>2 DEF Parent, Last
  <2>4. QED
    BY <2>2, <2>3
<1>8. Parent \in 0..Len(nodes)
  <2>1. Len(nodes) \in Nat /\ DOMAIN nodes = 1..Len(nodes)
    BY DEF ParserTypeOK
  <2>2. QED
    BY <1>7, <2>1 DEF Root
<1>9. Node(kind, i) \in Nodes
  <2>1. Parent \in Nat /\ i \in Nat /\ tokens[i].value \in Seq(Symbols)
    <3>1. Len(nodes) \in Nat
      BY DEF ParserTypeOK
    <3>2. QED
      BY <1>1, <1>5, <1>8, <3>1
  <2> HIDE DEF values
  <2>2. QED
    BY <1>4, <1>6, <2>1 DEF Nodes
<1>10. QED
  BY <1>3, <1>4, <1>6, <1>7, <1>8, <1>9 DEF n

-----------------------------------------------------------------------------
(* What is there in each phase.                                            *)

\* The phases with all tokens.
Lexed == Phases \ {"load", "lex", "rejected"}

StageInv ==
  /\ phase = "load" => text = <<>> /\ pos = 1 /\ tokens = <<>> /\ ~failed
  /\ phase \in {"load", "lex"} => nodes = <<>> /\ stack = <<>> /\ current = 1
  /\ phase \in {"load", "lex", "parse", "validate", "build"} => servers = <<>> /\ listeners = <<>>

\* The end of the text is a token once there are others, and the parser stays in
\* front of it. A text without tokens is never parsed.
EofInv ==
  /\ phase \in {"load", "lex"} => \A k \in DOMAIN tokens : tokens[k].type # "EOF_TOKEN"
  /\ phase \in Lexed =>
       \/ Terminated /\ current \in DOMAIN tokens
       \/ phase = "parse" /\ tokens = <<>> /\ nodes = <<>> /\ stack = <<>>

TextInv ==
  /\ phase \in {"load", "lex"} /\ ~failed => TokensSoFar
  /\ phase \in Lexed => TokensAreText

FormInv ==
  /\ file \in [kind : FileKinds, text : Seq(Symbols)] /\ phase \in Phases
  /\ LexerTypeOK /\ ParserTypeOK
  /\ StageInv /\ EofInv /\ TextInv

LEMMA InitFormInv == Init => FormInv
<1> SUFFICES ASSUME Init PROVE FormInv
  OBVIOUS
<1>1. /\ file \in Files /\ text = <<>> /\ pos = 1 /\ tokens = <<>> /\ failed = FALSE
      /\ nodes = <<>> /\ stack = <<>> /\ current = 1 /\ phase = "load"
      /\ servers = <<>> /\ listeners = <<>>
  BY DEF Init, LexerStart, ParserStart
<1>2. file \in [kind : FileKinds, text : Seq(Symbols)] /\ phase \in Phases
  BY <1>1, FilesAssumption DEF Phases
<1>3. LexerTypeOK
  <2>1. text \in Seq(Symbols) /\ Len(text) = 0 /\ tokens \in Seq(Tokens) /\ DOMAIN tokens = {}
    BY <1>1
  <2>2. pos \in 1..(Len(text) + 1)
    <3>1. 1 \in 1..(0 + 1)
      OBVIOUS
    <3>2. QED
      BY <1>1, <2>1, <3>1
  <2>3. failed \in BOOLEAN
    BY <1>1
  <2>4. QED
    BY <2>1, <2>2, <2>3 DEF LexerTypeOK
<1>4. ParserTypeOK
  BY <1>1 DEF ParserTypeOK
<1>5. StageInv
  BY <1>1 DEF StageInv
<1>6. EofInv
  BY <1>1 DEF EofInv, Lexed
<1>7. TextInv
  BY <1>1 DEF TextInv, Lexed, TokensSoFar
<1>8. QED
  BY <1>2, <1>3, <1>4, <1>5, <1>6, <1>7 DEF FormInv

LEMMA LoadForm == FormInv /\ Load => FormInv'
<1> SUFFICES ASSUME FormInv, Load PROVE FormInv'
  OBVIOUS
<1>1. /\ text = <<>> /\ pos = 1 /\ tokens = <<>> /\ ~failed
      /\ nodes = <<>> /\ stack = <<>> /\ current = 1 /\ phase = "load"
      /\ servers = <<>> /\ listeners = <<>>
  BY DEF FormInv, StageInv, Load
<1>2. /\ pos' = 1 /\ tokens' = <<>> /\ failed' = failed /\ nodes' = <<>> /\ stack' = <<>> /\ current' = 1
      /\ servers' = <<>> /\ listeners' = <<>> /\ file' = file
      /\ \/ phase' = "lex" /\ text' = WithLineEnd(file.text)
         \/ phase' = "rejected" /\ text' = text
  BY <1>1 DEF Load, parserVars, startupVars
<1>3. WithLineEnd(file.text) \in Seq(Symbols)
  <2>1. file.text \in Seq(Symbols) /\ NewLine \in Symbols
    BY DEF FormInv, Symbols, Whitespace
  <2>2. Append(file.text, NewLine) \in Seq(Symbols)
    BY <2>1, AppendProperties
  <2>3. QED
    BY <2>1, <2>2 DEF WithLineEnd
<1>4. LexerTypeOK'
  <2>1. text' \in Seq(Symbols) /\ failed \in BOOLEAN
    BY <1>2, <1>3 DEF FormInv, LexerTypeOK
  <2>2. pos' \in 1..(Len(text') + 1)
    BY <1>2, <2>1
  <2>3. QED
    BY <1>2, <2>1, <2>2 DEF LexerTypeOK
<1>5. ParserTypeOK'
  BY <1>2 DEF ParserTypeOK
<1>6. StageInv' /\ EofInv'
  BY <1>1, <1>2 DEF StageInv, EofInv, Lexed
<1>7. TextInv'
  BY <1>1, <1>2 DEF TextInv, Lexed, TokensSoFar
<1>8. phase' \in Phases /\ file' \in [kind : FileKinds, text : Seq(Symbols)]
  <2>1. phase' \in Phases
    BY <1>2 DEF Phases, Ended
  <2>2. QED
    BY <1>2, <2>1 DEF FormInv
<1>9. QED
  BY <1>4, <1>5, <1>6, <1>7, <1>8 DEF FormInv

LEMMA ScanForm == FormInv /\ Tokenize /\ ScanToken => FormInv'
<1> SUFFICES ASSUME FormInv, Tokenize, ScanToken PROVE FormInv'
  OBVIOUS
<1>1. text \in Seq(Symbols) /\ pos \in 1..(Len(text) + 1) /\ tokens \in Seq(Tokens) /\ failed \in BOOLEAN
  BY DEF FormInv, LexerTypeOK
<1>2. PICK token, error :
        /\ token \in Tokens /\ token.at \in 1..(Len(text) + 1) /\ token.type # "EOF_TOKEN"
        /\ error \in BOOLEAN
        /\ tokens' = Append(tokens, token)
        /\ failed' = (failed \/ error)
        /\ text' = text
        /\ pos' \in (AfterSpace(pos) + 1)..(Len(text) + 1)
        /\ AfterSpace(pos) \in pos..Len(text)
  BY <1>1, ScanTokenIs
<1>3. phase = "lex"
  BY DEF Tokenize
<1>4. phase' = "lex"
  <2>1. Len(text) \in Nat /\ AfterSpace(pos) \in Int /\ ~(AfterSpace(pos) > Len(text))
    <3>1. Len(text) \in Nat /\ AfterSpace(pos) \in pos..Len(text)
      BY <1>1, <1>2
    <3>2. QED
      BY <1>1, <3>1
  <2>2. ~EndOfText
    BY <2>1 DEF EndOfText
  <2>3. QED
    BY <1>3, <2>2 DEF Tokenize
<1>5. UNCHANGED <<parserVars, startupVars>>
  BY DEF Tokenize
<1>6. /\ tokens' \in Seq(Tokens) /\ DOMAIN tokens = 1..Len(tokens) /\ DOMAIN tokens' = 1..(Len(tokens) + 1)
      /\ Len(tokens) \in Nat
      /\ \A k \in 1..Len(tokens) : tokens'[k] = tokens[k]
      /\ tokens'[Len(tokens) + 1] = token
  BY <1>1, <1>2, AppendProperties, LenProperties
<1>7. LexerTypeOK'
  <2>1. \A k \in DOMAIN tokens' : tokens'[k].at \in 1..(Len(text) + 1)
    <3>1. \A k \in 1..Len(tokens) : tokens[k].at \in 1..(Len(text) + 1)
      BY <1>6 DEF FormInv, LexerTypeOK
    <3>2. \A k \in 1..(Len(tokens) + 1) : k \in 1..Len(tokens) \/ k = Len(tokens) + 1
      BY <1>6
    <3>3. QED
      BY <1>2, <1>6, <3>1, <3>2
  <2>2. pos' \in 1..(Len(text) + 1)
    <3>1. Len(text) \in Nat
      BY <1>1
    <3>2. QED
      BY <1>1, <1>2, <3>1
  <2>3. failed' \in BOOLEAN
    BY <1>2
  <2>4. QED
    BY <1>1, <1>2, <1>6, <2>1, <2>2, <2>3 DEF LexerTypeOK
<1>8. nodes' = <<>> /\ stack' = <<>> /\ current' = 1 /\ servers' = <<>> /\ listeners' = <<>>
  BY <1>3, <1>5 DEF FormInv, StageInv, parserVars, startupVars
<1>9. ParserTypeOK'
  BY <1>6, <1>8 DEF ParserTypeOK
<1>10. StageInv'
  BY <1>4, <1>8 DEF StageInv
<1>11. EofInv'
  <2>1. \A k \in 1..Len(tokens) : tokens[k].type # "EOF_TOKEN"
    BY <1>3, <1>6 DEF FormInv, EofInv
  <2>2. \A k \in 1..(Len(tokens) + 1) : k \in 1..Len(tokens) \/ k = Len(tokens) + 1
    BY <1>6
  <2>3. \A k \in DOMAIN tokens' : tokens'[k].type # "EOF_TOKEN"
    BY <1>2, <1>6, <2>1, <2>2
  <2>4. QED
    BY <1>4, <2>3 DEF EofInv, Lexed
<1>12. TextInv'
  <2>1. ~failed => TokensSoFar
    BY <1>3 DEF FormInv, TextInv
  <2>2. ~failed' => TokensSoFar'
    BY <1>1, <1>2, <2>1, ScanTokenKeeps
  <2>3. QED
    BY <1>4, <2>2 DEF TextInv, Lexed
<1>13. phase' \in Phases /\ file' \in [kind : FileKinds, text : Seq(Symbols)]
  BY <1>4, <1>5 DEF Phases, FormInv, startupVars
<1>14. QED
  BY <1>7, <1>9, <1>10, <1>11, <1>12, <1>13 DEF FormInv

\* What is left is skipped, and the end of the text stands for nothing.
LEMMA TextIsRead ==
  ASSUME LexerTypeOK, TokensSoFar, EndOfText
  PROVE  TokensAreText'
<1> DEFINE n == Len(tokens)
           end == Token("EOF_TOKEN", Len(text) + 1, Len(text) + 1)
           a == AfterSpace(pos)
<1>1. /\ text \in Seq(Symbols) /\ tokens \in Seq(Tokens) /\ pos \in 1..(Len(text) + 1)
      /\ Len(text) \in Nat /\ DOMAIN text = 1..Len(text)
      /\ n \in Nat /\ DOMAIN tokens = 1..n
  BY DEF LexerTypeOK
<1>2. a \in pos..(Len(text) + 1) /\ \A k \in pos..(a - 1) : SkippedFrom(pos, k)
  BY <1>1, SpaceIsSkipped
<1>3. a > Len(text) /\ text' = text /\ tokens' = IF tokens = <<>> THEN <<>> ELSE Append(tokens, end)
  BY DEF EndOfText
<1> HIDE DEF a
<1>4. \A k \in pos..Len(text) : SkippedFrom(pos, k)
  BY <1>1, <1>2, <1>3
<1>5. /\ \A i \in InTokens : i \in 1..(pos - 1)
      /\ \A i : i \in InTokens <=> \E k \in DOMAIN tokens : i \in Covers(tokens[k])
  <2>1. \A i : i \in InTokens <=> \E k \in DOMAIN tokens : i \in Extent(k)
    BY DEF InTokens
  <2>2. QED
    BY <2>1, InTokensIs DEF TokensSoFar
<1>6. ASSUME NEW i \in DOMAIN text, i \notin InTokens
      PROVE  \/ text[i] \in Whitespace
             \/ \E h \in 1..i : /\ text[h] = Hash
                                /\ \A k \in h..i : k \notin InTokens /\ text[k] # NewLine
  <2>1. CASE i \in 1..(pos - 1)
    BY <1>6, <2>1 DEF TokensSoFar
  <2>2. CASE i \in pos..Len(text)
    <3>1. \/ text[i] \in Whitespace
          \/ \E h \in pos..i : text[h] = Hash /\ \A l \in h..i : text[l] # NewLine
      BY <1>4, <2>2 DEF SkippedFrom
    <3>2. \A h \in pos..i : h \in 1..i /\ \A l \in h..i : l \notin 1..(pos - 1)
      BY <1>1, <2>2
    <3>3. QED
      BY <1>5, <3>1, <3>2
  <2>3. QED
    BY <1>1, <2>1, <2>2
<1>7. CASE tokens = <<>>
  <2>1. tokens' = tokens
    BY <1>3, <1>7
  <2>2. InTokens' = InTokens /\ Len(tokens') = 0
    BY <1>3, <1>7, <2>1 DEF InTokens, Extent
  <2>3. QED
    BY <1>3, <1>6, <2>2 DEF TokensAreText
<1>8. CASE tokens # <<>>
  <2>1. tokens' = Append(tokens, end)
    BY <1>3, <1>8
  <2>2. /\ end.type = "EOF_TOKEN" /\ end.at = Len(text) + 1
        /\ end.value \in Seq(Symbols) /\ Len(end.value) = 0
        /\ end = [type |-> "EOF_TOKEN", value |-> end.value, at |-> Len(text) + 1]
    BY <1>1, TokenIs
  <2> HIDE DEF end
  <2>3. end \in Tokens /\ Covers(end) = {}
    <3>1. Covers(end) = (Len(text) + 1)..(Len(text) + 1 + 0 - 1)
      BY <2>2 DEF Covers
    <3>2. QED
      BY <1>1, <2>2, <3>1 DEF Tokens, TokenTypes
  <2> HIDE DEF n
  <2>4. /\ DOMAIN tokens' = 1..(n + 1) /\ Len(tokens') = n + 1
        /\ \A k \in 1..n : tokens'[k] = tokens[k]
        /\ tokens'[n + 1] = end
    BY <1>1, <2>1, <2>3, AppendProperties, LenProperties DEF n
  <2> DEFINE new(k) == Covers(tokens'[k])
             all == UNION {new(k) : k \in 1..(n + 1)}
  <2>5. (\A k \in 1..n : new(k) = Extent(k)) /\ new(n + 1) = {}
    BY <2>3, <2>4, InTokensIs
  <2>6. all = InTokens
    <3>1. \A i : i \in all <=> \E k \in 1..(n + 1) : i \in new(k)
      OBVIOUS
    <3>2. \A i : i \in InTokens <=> \E k \in 1..n : i \in Extent(k)
      BY <1>1 DEF InTokens
    <3>3. \A k : k \in 1..(n + 1) <=> k \in 1..n \/ k = n + 1
      BY <1>1
    <3> HIDE DEF new, all
    <3>4. \A i : i \in all <=> \E k \in 1..n : i \in Extent(k)
      BY <2>5, <3>1, <3>3
    <3>5. \A i : i \in all <=> i \in InTokens
      BY <3>2, <3>4, Zenon
    <3>6. QED
      BY <3>5 DEF all, InTokens
  <2> HIDE DEF new, all
  <2>7. ASSUME NEW k \in 1..n PROVE new(k) \cap new(k + 1) = {}
    <3>1. CASE k = n
      BY <2>5, <3>1
    <3>2. CASE k # n
      <4>1. k + 1 \in 1..n /\ k \in 1..(n - 1)
        BY <1>1, <3>2
      <4>2. Extent(k) \cap Extent(k + 1) = {}
        BY <4>1 DEF TokensSoFar, n
      <4>3. QED
        BY <2>5, <4>1, <4>2
    <3>3. QED
      BY <3>1, <3>2
  <2>8. InTokens' = all /\ \A k \in 1..(n + 1) : Extent(k)' = new(k)
    BY <2>4 DEF InTokens, Extent, Covers, new, all
  <2>9. Len(tokens') - 1 = n /\ \A k \in 1..n : k \in 1..(n + 1) /\ k + 1 \in 1..(n + 1)
    BY <1>1, <2>4
  <2>10. QED
    BY <1>3, <1>6, <2>6, <2>7, <2>8, <2>9 DEF TokensAreText
<1>9. QED
  BY <1>7, <1>8

LEMMA EndForm == FormInv /\ Tokenize /\ EndOfText => FormInv'
<1> SUFFICES ASSUME FormInv, Tokenize, EndOfText PROVE FormInv'
  OBVIOUS
<1> DEFINE n == Len(tokens)
           end == Token("EOF_TOKEN", Len(text) + 1, Len(text) + 1)
<1>1. /\ text \in Seq(Symbols) /\ pos \in 1..(Len(text) + 1) /\ tokens \in Seq(Tokens) /\ failed \in BOOLEAN
      /\ Len(text) \in Nat /\ n \in Nat /\ DOMAIN tokens = 1..n
      /\ \A k \in 1..n : tokens[k].at \in 1..(Len(text) + 1)
  BY DEF FormInv, LexerTypeOK
<1>2. /\ phase = "lex" /\ UNCHANGED <<parserVars, startupVars, text, failed>>
      /\ pos' = Len(text) + 1 /\ tokens' = IF tokens = <<>> THEN <<>> ELSE Append(tokens, end)
  BY DEF Tokenize, EndOfText
<1>3. phase' = IF failed THEN "rejected" ELSE "parse"
  <2>1. AfterSpace(pos) > Len(text) /\ AfterSpace(pos) \in pos..(Len(text) + 1)
    BY <1>1, SpaceIsSkipped DEF EndOfText
  <2>2. ~ScanToken
    BY <1>1, <2>1 DEF ScanToken
  <2>3. QED
    BY <2>2 DEF Tokenize
<1>4. /\ end.type = "EOF_TOKEN" /\ end.at = Len(text) + 1 /\ end.value \in Seq(Symbols)
      /\ end = [type |-> "EOF_TOKEN", value |-> end.value, at |-> Len(text) + 1]
  BY <1>1, TokenIs
<1> HIDE DEF end
<1>5. end \in Tokens /\ end.at \in 1..(Len(text) + 1)
  BY <1>1, <1>4 DEF Tokens, TokenTypes
<1>6. nodes' = <<>> /\ stack' = <<>> /\ current' = 1 /\ servers' = <<>> /\ listeners' = <<>> /\ file' = file
  BY <1>2 DEF FormInv, StageInv, parserVars, startupVars
<1>7. /\ tokens' \in Seq(Tokens) /\ Len(tokens') \in Nat /\ DOMAIN tokens' = 1..Len(tokens')
      /\ \A k \in DOMAIN tokens' : tokens'[k].at \in 1..(Len(text) + 1)
      /\ \/ tokens' = <<>>
         \/ /\ Terminated'
            /\ 1 \in DOMAIN tokens'
  <2>1. CASE tokens = <<>>
    <3>1. tokens' = <<>> /\ tokens' = tokens
      BY <1>2, <2>1
    <3>2. QED
      BY <1>1, <3>1
  <2>2. CASE tokens # <<>>
    <3> HIDE DEF n
    <3>1. /\ tokens' \in Seq(Tokens) /\ Len(tokens') = n + 1
          /\ \A k \in 1..n : tokens'[k] = tokens[k]
          /\ tokens'[n + 1] = end
      BY <1>1, <1>2, <1>5, <2>2, AppendProperties, LenProperties DEF n
    <3>2. DOMAIN tokens' = 1..(n + 1) /\ n + 1 \in Nat /\ (n + 1) - 1 = n /\ 1 \in 1..(n + 1)
      BY <1>1, <3>1
    <3>3. \A k \in 1..(n + 1) : k \in 1..n \/ k = n + 1
      BY <1>1
    <3>4. \A k \in DOMAIN tokens' : tokens'[k].at \in 1..(Len(text) + 1)
      BY <1>1, <1>5, <3>1, <3>2, <3>3
    <3>5. \A k \in 1..n : tokens[k].type # "EOF_TOKEN"
      BY <1>1, <1>2 DEF FormInv, EofInv
    <3>6. tokens' # <<>>
      BY <3>2
    <3>7. tokens'[Len(tokens')].type = "EOF_TOKEN"
      BY <1>4, <3>1
    <3>8. \A k \in 1..(Len(tokens') - 1) : tokens'[k].type # "EOF_TOKEN"
      BY <3>1, <3>2, <3>5
    <3>9. Terminated'
      BY <3>6, <3>7, <3>8 DEF Terminated
    <3>10. QED
      BY <3>1, <3>2, <3>4, <3>9
  <2>3. QED
    BY <2>1, <2>2
<1>8. LexerTypeOK'
  <2>1. Len(text) + 1 \in 1..(Len(text) + 1)
    BY <1>1
  <2>2. QED
    BY <1>1, <1>2, <1>7, <2>1 DEF LexerTypeOK
<1>9. ParserTypeOK'
  <2>1. 1 \in 1..(Len(tokens') + 1)
    BY <1>7
  <2>2. QED
    BY <1>6, <2>1 DEF ParserTypeOK
<1>10. StageInv'
  BY <1>3, <1>6 DEF StageInv
<1>11. EofInv'
  <2>1. phase' \notin {"load", "lex"} /\ (phase' \in Lexed => phase' = "parse")
    BY <1>3 DEF Lexed
  <2>2. QED
    BY <1>6, <1>7, <2>1 DEF EofInv
<1>12. TextInv'
  <2>1. CASE failed
    BY <1>3, <2>1 DEF TextInv, Lexed
  <2>2. CASE ~failed
    <3>1. TokensSoFar /\ LexerTypeOK
      BY <1>2, <2>2 DEF FormInv, TextInv
    <3>2. TokensAreText'
      BY <3>1, TextIsRead
    <3>3. QED
      BY <1>3, <2>2, <3>2 DEF TextInv
  <2>3. QED
    BY <2>1, <2>2
<1>13. phase' \in Phases /\ file' \in [kind : FileKinds, text : Seq(Symbols)]
  <2>1. phase' \in Phases
    BY <1>3 DEF Phases, Ended
  <2>2. QED
    BY <1>6, <2>1 DEF FormInv
<1>14. QED
  BY <1>8, <1>9, <1>10, <1>11, <1>12, <1>13 DEF FormInv

\* The tokens stay as they are from the first step of the parser on.
LEMMA TokensStay ==
  ASSUME UNCHANGED <<text, pos, tokens>>
  PROVE  TokensAreText' = TokensAreText /\ Terminated' = Terminated
BY DEF TokensAreText, InTokens, Extent, Terminated

\* Whatever the parser does, it has to keep its own variables in order only.
LEMMA ParserForm ==
  ASSUME FormInv, phase = "parse", phase' \in {"parse", "validate", "rejected"},
         UNCHANGED <<text, pos, tokens, startupVars>>, failed' \in BOOLEAN, ParserTypeOK',
         tokens = <<>> => nodes' = <<>> /\ stack' = <<>> /\ phase' = "parse",
         tokens # <<>> => current' \in DOMAIN tokens
  PROVE  FormInv'
<1>1. LexerTypeOK'
  BY DEF FormInv, LexerTypeOK
<1>2. servers' = <<>> /\ listeners' = <<>> /\ file' = file
  BY DEF FormInv, StageInv, startupVars
<1>3. StageInv'
  BY <1>2 DEF StageInv
<1>4. TextInv'
  <2>1. TokensAreText
    BY DEF FormInv, TextInv, Lexed, Phases
  <2>2. QED
    BY <2>1, TokensStay DEF TextInv
<1>5. EofInv'
  <2>1. tokens # <<>> => Terminated
    BY DEF FormInv, EofInv, Lexed, Phases
  <2>2. CASE tokens = <<>>
    BY <2>2 DEF EofInv
  <2>3. CASE tokens # <<>>
    BY <2>1, <2>3, TokensStay DEF EofInv
  <2>4. QED
    BY <2>2, <2>3
<1>6. phase' \in Phases
  BY DEF Phases, Ended
<1>7. QED
  BY <1>1, <1>2, <1>3, <1>4, <1>5, <1>6 DEF FormInv

\* Where the parser finds something to do, the text does not end yet.
LEMMA InBodyIs ==
  ASSUME FormInv, phase = "parse", InBody
  PROVE  /\ tokens \in Seq(Tokens) /\ ParserTypeOK /\ Terminated
         /\ current \in DOMAIN tokens /\ TypeAt(current) = tokens[current].type
         /\ tokens[current].type # "EOF_TOKEN"
<1>1. tokens # <<>> /\ TypeAt(current) # "EOF_TOKEN"
  BY DEF InBody, AtEnd
<1>2. tokens \in Seq(Tokens) /\ ParserTypeOK /\ DOMAIN tokens = 1..Len(tokens) /\ Len(tokens) \in Nat
  BY DEF FormInv, LexerTypeOK
<1>3. Terminated /\ current \in DOMAIN tokens
  BY <1>1 DEF FormInv, EofInv, Lexed, Phases
<1>4. TypeAt(current) = tokens[current].type
  BY <1>2, <1>3 DEF TypeAt
<1>5. QED
  BY <1>1, <1>2, <1>3, <1>4

\* A node is added, of a kind, for the statement at current.
LEMMA NodeForm ==
  ASSUME FormInv, phase = "parse", UNCHANGED <<text, pos, tokens, startupVars, phase, failed>>,
         InBody, NEW kind \in {"block", "directive"},
         tokens[Delimiter(current)].type # "EOF_TOKEN",
         nodes' = Append(nodes, Node(kind, current)),
         stack' \in Seq(1..(Len(nodes) + 1)),
         current' = Delimiter(current) + 1
  PROVE  FormInv'
<1>1. /\ tokens \in Seq(Tokens) /\ ParserTypeOK /\ Terminated
      /\ current \in DOMAIN tokens /\ tokens[current].type # "EOF_TOKEN"
  BY InBodyIs
<1>2. Len(tokens) \in Nat /\ DOMAIN tokens = 1..Len(tokens)
  BY <1>1
<1>3. Delimiter(current) \in (current + 1)..Len(tokens)
  BY <1>1, DelimiterIs
<1>4. current' \in 1..Len(tokens)
  <2>1. Delimiter(current) # Len(tokens)
    BY <1>1 DEF Terminated
  <2>2. QED
    BY <1>1, <1>2, <1>3, <2>1
<1> DEFINE node == Node(kind, current)
<1>5. node \in Nodes /\ node.at = current /\ node.parent \in 0..Len(nodes)
  BY <1>1, NodeIs
<1> HIDE DEF node
<1>6. /\ nodes \in Seq(Nodes) /\ Len(nodes) \in Nat /\ DOMAIN nodes = 1..Len(nodes)
      /\ \A n \in 1..Len(nodes) : nodes[n].parent < n /\ nodes[n].at \in DOMAIN tokens
  BY <1>1 DEF ParserTypeOK
<1>7. /\ nodes' \in Seq(Nodes) /\ Len(nodes') = Len(nodes) + 1 /\ DOMAIN nodes' = 1..(Len(nodes) + 1)
      /\ \A n \in 1..Len(nodes) : nodes'[n] = nodes[n]
      /\ nodes'[Len(nodes) + 1] = node
  BY <1>5, <1>6, AppendProperties, LenProperties DEF node
<1>8. ASSUME NEW n \in DOMAIN nodes' PROVE nodes'[n].parent < n /\ nodes'[n].at \in DOMAIN tokens'
  <2>1. CASE n \in 1..Len(nodes)
    BY <1>6, <1>7, <2>1
  <2>2. CASE n = Len(nodes) + 1
    BY <1>1, <1>5, <1>6, <1>7, <2>2
  <2>3. QED
    BY <1>6, <1>7, <2>1, <2>2
<1>9. ParserTypeOK'
  <2>1. current' \in 1..(Len(tokens') + 1)
    BY <1>2, <1>4
  <2>2. QED
    BY <1>7, <1>8, <2>1 DEF ParserTypeOK
<1>10. tokens # <<>>
  BY <1>1 DEF Terminated
<1>11. failed' \in BOOLEAN
  BY DEF FormInv, LexerTypeOK
<1>12. QED
  BY <1>2, <1>4, <1>9, <1>10, <1>11, ParserForm

LEMMA ParseForm == FormInv /\ Parse => FormInv'
<1> SUFFICES ASSUME FormInv, Parse PROVE FormInv'
  OBVIOUS
<1>1. phase = "parse" /\ UNCHANGED <<text, pos, tokens, startupVars>>
  BY DEF Parse
<1>2. /\ tokens \in Seq(Tokens) /\ Len(tokens) \in Nat /\ DOMAIN tokens = 1..Len(tokens)
      /\ failed \in BOOLEAN /\ ParserTypeOK
  BY DEF FormInv, LexerTypeOK
<1>3. /\ stack \in Seq(DOMAIN nodes) /\ Len(stack) \in Nat
      /\ nodes \in Seq(Nodes) /\ Len(nodes) \in Nat /\ DOMAIN nodes = 1..Len(nodes)
  BY <1>2 DEF ParserTypeOK
<1>4. /\ tokens # <<>> => Terminated /\ current \in DOMAIN tokens
      /\ tokens = <<>> => nodes = <<>> /\ stack = <<>>
  BY <1>1 DEF FormInv, EofInv, Lexed, Phases
\* The stack and the position may change, the tree does not.
<1>5. ASSUME UNCHANGED <<nodes, phase>>, tokens # <<>>, stack' \in Seq(DOMAIN nodes), current' \in DOMAIN tokens,
             failed' \in BOOLEAN
      PROVE  FormInv'
  <2>1. current' \in 1..(Len(tokens') + 1)
    BY <1>1, <1>2, <1>5
  <2>2. ParserTypeOK'
    BY <1>1, <1>2, <1>5, <2>1 DEF ParserTypeOK
  <2>3. QED
    BY <1>1, <1>5, <2>2, ParserForm
<1>6. CASE ParseStep /\ UNCHANGED phase
  <2>1. ASSUME ParseDirective PROVE FormInv'
    <3>1. /\ InBody /\ TypeAt(Delimiter(current)) = "SEMICOLON"
          /\ nodes' = Append(nodes, Node("directive", current)) /\ current' = Delimiter(current) + 1
          /\ stack' = stack /\ failed' = failed
      BY <2>1 DEF ParseDirective
    <3>2. tokens[Delimiter(current)].type # "EOF_TOKEN"
      BY <1>1, <3>1, InBodyIs, DelimiterIs
    <3>3. stack' \in Seq(1..(Len(nodes) + 1))
      <4>1. \A k \in 1..Len(stack) : stack[k] \in 1..(Len(nodes) + 1)
        BY <1>3
      <4>2. QED
        BY <1>3, <3>1, <4>1
    <3>4. QED
      BY <1>1, <1>6, <3>1, <3>2, <3>3, NodeForm
  <2>2. ASSUME OpenBlock PROVE FormInv'
    <3>1. /\ InBody /\ TypeAt(Delimiter(current)) = "LBRACE"
          /\ nodes' = Append(nodes, Node("block", current)) /\ current' = Delimiter(current) + 1
          /\ stack' = Append(stack, Len(nodes) + 1) /\ failed' = failed
      BY <2>2 DEF OpenBlock
    <3>2. tokens[Delimiter(current)].type # "EOF_TOKEN"
      BY <1>1, <3>1, InBodyIs, DelimiterIs
    <3>3. stack' \in Seq(1..(Len(nodes) + 1))
      <4>1. \A k \in 1..Len(stack) : stack[k] \in 1..(Len(nodes) + 1)
        BY <1>3
      <4>2. stack \in Seq(1..(Len(nodes) + 1)) /\ Len(nodes) + 1 \in 1..(Len(nodes) + 1)
        BY <1>3, <4>1
      <4>3. QED
        BY <3>1, <4>2, AppendProperties
    <3>4. QED
      BY <1>1, <1>6, <3>1, <3>2, <3>3, NodeForm
  <2>3. ASSUME WrongStatement PROVE FormInv'
    <3> DEFINE found == IF TypeAt(current) = "WORD" THEN Delimiter(current) ELSE current
    <3>1. InBody /\ current' = Synchronize(Synchronize(found)) /\ failed' = TRUE /\ nodes' = nodes /\ stack' = stack
      BY <2>3 DEF WrongStatement
    <3>2. Terminated /\ current \in DOMAIN tokens /\ Delimiter(current) \in (current + 1)..Len(tokens)
      BY <1>1, <3>1, InBodyIs, DelimiterIs
    <3>3. found \in DOMAIN tokens
      BY <1>2, <3>2
    <3> HIDE DEF found
    <3>4. Synchronize(found) \in DOMAIN tokens
      BY <1>2, <3>2, <3>3, SynchronizeStays
    <3>5. Synchronize(Synchronize(found)) \in DOMAIN tokens
      BY <1>2, <3>2, <3>4, SynchronizeStays
    <3>6. QED
      BY <1>3, <1>5, <1>6, <3>1, <3>2, <3>5 DEF Terminated
  <2>4. ASSUME CloseBlock PROVE FormInv'
    <3>1. /\ stack # <<>> /\ stack' = Front(stack) /\ current' = current + 1
          /\ nodes' = nodes /\ failed' = failed /\ TypeAt(current) = "RBRACE"
      BY <2>4 DEF CloseBlock
    <3>2. tokens # <<>> /\ Terminated /\ current \in DOMAIN tokens
      BY <1>4, <3>1
    <3>3. current' \in DOMAIN tokens
      <4>1. current # Len(tokens)
        BY <1>2, <3>1, <3>2 DEF Terminated, TypeAt
      <4>2. QED
        BY <1>2, <3>1, <3>2, <4>1
    <3>4. Front(stack) \in Seq(DOMAIN nodes)
      BY <1>3, <3>1, FrontIsShorter
    <3>5. QED
      BY <1>2, <1>5, <1>6, <3>1, <3>2, <3>3, <3>4
  <2>5. ASSUME EndInBlock PROVE FormInv'
    <3>1. stack # <<>> /\ stack' = Front(stack) /\ failed' = TRUE /\ nodes' = nodes /\ current' = current
      BY <2>5 DEF EndInBlock
    <3>2. tokens # <<>> /\ current \in DOMAIN tokens
      BY <1>4, <3>1
    <3>3. Front(stack) \in Seq(DOMAIN nodes)
      BY <1>3, <3>1, FrontIsShorter
    <3>4. QED
      BY <1>5, <1>6, <3>1, <3>2, <3>3
  <2>6. ASSUME SynchronizeForever PROVE FormInv'
    <3>1. tokens = <<>> /\ failed' = TRUE /\ nodes' = nodes /\ stack' = stack /\ current' = current
      BY <2>6 DEF SynchronizeForever
    <3>2. ParserTypeOK'
      BY <1>1, <1>2, <3>1 DEF ParserTypeOK
    <3>3. QED
      BY <1>1, <1>4, <1>6, <3>1, <3>2, ParserForm
  <2>7. QED
    BY <1>6, <2>1, <2>2, <2>3, <2>4, <2>5, <2>6 DEF ParseStep
<1>7. CASE /\ Parsed
           /\ phase' = IF failed THEN "rejected" ELSE "validate"
           /\ UNCHANGED <<parserVars, failed>>
  <2>1. tokens # <<>> /\ nodes' = nodes /\ stack' = stack /\ current' = current /\ failed' = failed
    <3>1. current \in Nat \ {0}
      BY <1>2 DEF ParserTypeOK
    <3>2. TypeAt(current) = "EOF_TOKEN"
      BY <1>7 DEF Parsed, AtEnd
    <3>3. tokens # <<>>
      BY <3>1, <3>2 DEF TypeAt
    <3>4. QED
      BY <1>7, <3>3 DEF parserVars
  <2>2. ParserTypeOK'
    BY <1>1, <1>2, <2>1 DEF ParserTypeOK
  <2>3. phase' \in {"parse", "validate", "rejected"}
    BY <1>7
  <2>4. QED
    BY <1>1, <1>2, <1>4, <2>1, <2>2, <2>3, ParserForm
<1>8. QED
  BY <1>6, <1>7 DEF Parse

\* From the end of the parser on texts, tokens and trees stay as they are.
LEMMA QuietForm ==
  ASSUME FormInv, UNCHANGED <<lexerVars, parserVars, file>>,
         \/ UNCHANGED <<phase, servers, listeners>>
         \/ /\ phase \in {"validate", "build", "listen"}
            /\ phase' \in {"rejected", "build", "listen", "running", "crashed"}
            /\ phase' = "build" => UNCHANGED <<servers, listeners>> /\ phase = "validate"
         \/ phase = "listen" /\ phase' = "listen"
  PROVE  FormInv'
<1>1. /\ text' = text /\ pos' = pos /\ tokens' = tokens /\ failed' = failed
      /\ nodes' = nodes /\ stack' = stack /\ current' = current /\ file' = file
  BY DEF lexerVars, parserVars
<1>2. LexerTypeOK' /\ ParserTypeOK'
  BY <1>1 DEF FormInv, LexerTypeOK, ParserTypeOK
<1>3. /\ TokensAreText' = TokensAreText /\ Terminated' = Terminated
      /\ TokensSoFar' = TokensSoFar
  <2>1. TokensAreText' = TokensAreText /\ Terminated' = Terminated
    BY <1>1, TokensStay
  <2>2. TokensSoFar' = TokensSoFar
    BY <1>1 DEF TokensSoFar, InTokens, Extent
  <2>3. QED
    BY <2>1, <2>2
<1>4. CASE UNCHANGED <<phase, servers, listeners>>
  <2>1. StageInv'
    BY <1>1, <1>4 DEF FormInv, StageInv
  <2>2. EofInv'
    BY <1>1, <1>3, <1>4 DEF FormInv, EofInv
  <2>3. TextInv'
    BY <1>1, <1>3, <1>4 DEF FormInv, TextInv
  <2>4. QED
    BY <1>1, <1>2, <1>4, <2>1, <2>2, <2>3 DEF FormInv
<1>5. ASSUME phase \in {"validate", "build", "listen"},
             phase' \in {"rejected", "build", "listen", "running", "crashed"},
             phase' = "build" => UNCHANGED <<servers, listeners>> /\ phase = "validate"
      PROVE  FormInv'
  <2>1. StageInv'
    BY <1>5 DEF FormInv, StageInv
  <2>2. EofInv'
    <3>1. Terminated /\ current \in DOMAIN tokens
      BY <1>5 DEF FormInv, EofInv, Lexed, Phases
    <3>2. QED
      BY <1>1, <1>3, <1>5, <3>1 DEF EofInv
  <2>3. TextInv'
    <3>1. TokensAreText
      BY <1>5 DEF FormInv, TextInv, Lexed, Phases
    <3>2. QED
      BY <1>3, <1>5, <3>1 DEF TextInv
  <2>4. phase' \in Phases
    BY <1>5 DEF Phases, Ended
  <2>5. QED
    BY <1>1, <1>2, <2>1, <2>2, <2>3, <2>4 DEF FormInv
<1>6. QED
  BY <1>4, <1>5

LEMMA NextForm == FormInv /\ [Next]_vars => FormInv'
<1> SUFFICES ASSUME FormInv, [Next]_vars PROVE FormInv'
  OBVIOUS
<1>1. CASE Load
  BY <1>1, LoadForm
<1>2. CASE Tokenize
  BY <1>2, ScanForm, EndForm DEF Tokenize
<1>3. CASE Parse
  BY <1>3, ParseForm
<1>4. CASE Validate
  <2>1. /\ phase = "validate" /\ phase' \in {"build", "rejected"}
        /\ UNCHANGED <<lexerVars, parserVars, file, servers, listeners>>
    BY <1>4 DEF Validate, startupVars
  <2>2. QED
    BY <2>1, QuietForm
<1>5. CASE BuildConfig
  <2>1. phase = "build" /\ phase' \in {"crashed", "listen"} /\ UNCHANGED <<lexerVars, parserVars, file>>
    BY <1>5 DEF BuildConfig
  <2>2. QED
    BY <2>1, QuietForm
<1>6. CASE OpenListener
  <2>1. phase = "listen" /\ phase' \in {"listen", "rejected"} /\ UNCHANGED <<lexerVars, parserVars, file>>
    <3> DEFINE good == servers[Len(listeners) + 1].port \in Ports
               new(others) == CanBind(SocketOf(servers[Len(listeners) + 1]), others)
               more == Append(listeners, SocketOf(servers[Len(listeners) + 1]))
    <3>1. /\ phase = "listen" /\ UNCHANGED <<lexerVars, parserVars, file, servers>>
          /\ \E others \in OthersSockets :
               IF good /\ new(others) THEN listeners' = more /\ UNCHANGED phase
                                      ELSE listeners' = <<>> /\ phase' = "rejected"
      BY <1>6 DEF OpenListener
    <3> HIDE DEF good, new, more
    <3>2. QED
      BY <3>1
  <2>2. QED
    BY <2>1, QuietForm
<1>7. CASE SocketFails
  <2>1. phase = "listen" /\ phase' = "rejected" /\ UNCHANGED <<lexerVars, parserVars, file>>
    BY <1>7 DEF SocketFails
  <2>2. QED
    BY <2>1, QuietForm
<1>8. CASE Run
  <2>1. phase = "listen" /\ phase' = "running" /\ UNCHANGED <<lexerVars, parserVars, file>>
    BY <1>8 DEF Run, startupVars
  <2>2. QED
    BY <2>1, QuietForm
<1>9. CASE UNCHANGED vars
  <2>1. UNCHANGED <<lexerVars, parserVars, file, phase, servers, listeners>>
    BY <1>9 DEF vars, startupVars
  <2>2. QED
    BY <2>1, QuietForm
<1>10. QED
  BY <1>1, <1>2, <1>3, <1>4, <1>5, <1>6, <1>7, <1>8, <1>9 DEF Next, Program

LEMMA SpecForm == Spec => []FormInv
BY InitFormInv, NextForm, PTL DEF Spec

-----------------------------------------------------------------------------
\* The part of TreeIsText about the text: from the parser on every symbol of the
\* file is in one token, white space, or part of a comment.
THEOREM SpecTokensAreText == Spec => [](phase \in {"parse", "validate"} => TokensAreText)
<1>1. FormInv => (phase \in {"parse", "validate"} => TokensAreText)
  BY DEF FormInv, TextInv, Lexed, Phases
<1>2. QED
  BY <1>1, SpecForm, PTL

-----------------------------------------------------------------------------
(* How far the parser is.                                                  *)

\* The grammar for token i, without its depth.
Fits(i) ==
  IF BeginsStatement(i)
  THEN tokens[i].type \in {"WORD", "EOF_TOKEN"} \/ (tokens[i].type = "RBRACE" /\ i > 1)
  ELSE tokens[i].type \in ValueTypes \cup {"SEMICOLON", "LBRACE"}

\* What is read in front of c is the beginning of a sentence, with blocks still open.
SentenceTo(c, open) ==
  /\ BeginsStatement(c)
  /\ Depth(c - 1) = open
  /\ \A i \in 1..(c - 1) : Depth(i) >= 0 /\ Fits(i)

StatementsTo(i) == {k \in 1..i : tokens[k].type \in {"SEMICOLON", "LBRACE"}}

\* The token that ends the statement of node n of the tree ns, or opens its block.
EndOf(ns, n) == ns[n].at + Len(ns[n].values) + 1

\* What TreeIsText says of a node.
NodeFits(ns, n) ==
  LET i == ns[n].at
      j == EndOf(ns, n)
      p == ns[n].parent
  IN /\ BeginsStatement(i)
     /\ ns[n].name = tokens[i].value
     /\ \A k \in DOMAIN ns[n].values : ns[n].values[k] = tokens[i + k].value
     /\ tokens[j].type = IF ns[n].kind = "block" THEN "LBRACE" ELSE "SEMICOLON"
     /\ n > 1 => ns[n - 1].at < i
     /\ IF p = Root THEN Depth(i - 1) = 0
        ELSE LET b == EndOf(ns, p)
             IN b < i /\ \A k \in b..(i - 1) : Depth(k) >= Depth(b) /\ Depth(i - 1) = Depth(b)

\* The tree ns is that of the tokens in front of c, and the blocks of the stack st are
\* those that are open there.
TreeTo(ns, st, c) ==
  /\ Len(ns) = Cardinality(StatementsTo(c - 1))
  /\ \A n \in 1..Len(ns) : NodeFits(ns, n) /\ EndOf(ns, n) < c
  /\ \A m \in 1..Len(st) :
       LET b == EndOf(ns, st[m])
       IN b < c /\ Depth(b) = m /\ \A k \in b..(c - 1) : Depth(k) >= m

TreeIsWhole ==
  /\ Len(nodes) = Cardinality(StatementsTo(Len(tokens)))
  /\ \A n \in DOMAIN nodes : NodeFits(nodes, n)

\* As long as there was no error the tree is right so far, and after one there is no hope.
GrammarInv ==
  /\ phase = "parse" /\ failed => ~IsSentence
  /\ phase = "parse" /\ ~failed /\ tokens # <<>> =>
       SentenceTo(current, Len(stack)) /\ TreeTo(nodes, stack, current)
  /\ phase = "validate" => IsSentence /\ TreeIsWhole

-----------------------------------------------------------------------------
(* Depths.                                                                 *)

LEMMA BracesAre ==
  ASSUME NEW type, NEW i \in Nat
  PROVE  /\ Braces(type, i) \in Nat
         /\ Braces(type, 0) = 0
         /\ i > 0 => Braces(type, i) = Braces(type, i - 1) + (IF tokens[i].type = type THEN 1 ELSE 0)
<1> DEFINE T(j) == {k \in 1..j : tokens[k].type = type}
<1>1. \A j \in Nat : IsFiniteSet(T(j)) /\ Cardinality(T(j)) \in Nat
  <2>1. SUFFICES ASSUME NEW j \in Nat PROVE IsFiniteSet(T(j)) /\ Cardinality(T(j)) \in Nat
    OBVIOUS
  <2>2. IsFiniteSet(1..j) /\ T(j) \in SUBSET (1..j)
    BY FS_Interval
  <2>3. QED
    BY <2>2, FS_Subset, FS_CardinalityType
<1>2. Cardinality(T(0)) = 0
  <2>1. T(0) = {}
    OBVIOUS
  <2>2. QED
    BY <2>1, FS_EmptySet
<1>3. ASSUME i > 0
      PROVE  Cardinality(T(i)) = Cardinality(T(i - 1)) + (IF tokens[i].type = type THEN 1 ELSE 0)
  <2>1. i - 1 \in Nat /\ i \notin 1..(i - 1) /\ \A k : k \in 1..i <=> k \in 1..(i - 1) \/ k = i
    BY <1>3
  <2>2. IsFiniteSet(T(i - 1)) /\ Cardinality(T(i - 1)) \in Nat
    BY <1>1, <2>1
  <2>3. CASE tokens[i].type = type
    <3>1. T(i) = T(i - 1) \cup {i} /\ i \notin T(i - 1)
      BY <2>1, <2>3
    <3>2. QED
      BY <2>2, <2>3, <3>1, FS_AddElement
  <2>4. CASE tokens[i].type # type
    <3>1. T(i) = T(i - 1)
      BY <2>1, <2>4
    <3> HIDE DEF T
    <3>2. QED
      BY <2>2, <2>4, <3>1
  <2>5. QED
    BY <2>3, <2>4
<1>4. \A j : Braces(type, j) = Cardinality(T(j))
  BY DEF Braces
<1> HIDE DEF T
<1>5. QED
  BY <1>1, <1>2, <1>3, <1>4

LEMMA DepthIs ==
  ASSUME NEW i \in Nat
  PROVE  /\ Depth(i) \in Int /\ Depth(0) = 0
         /\ i > 0 => Depth(i) = Depth(i - 1) + (CASE tokens[i].type = "LBRACE" -> 1
                                                  [] tokens[i].type = "RBRACE" -> -1
                                                  [] OTHER -> 0)
<1>1. \A type : Braces(type, i) \in Nat /\ Braces(type, 0) = 0
  BY BracesAre
<1>2. i > 0 => \A type : /\ Braces(type, i - 1) \in Nat
                         /\ Braces(type, i) = Braces(type, i - 1) + (IF tokens[i].type = type THEN 1 ELSE 0)
  <2>1. i > 0 => i - 1 \in Nat
    OBVIOUS
  <2>2. QED
    BY <2>1, BracesAre
<1>3. QED
  BY <1>1, <1>2 DEF Depth

\* Without braces the depth stays.
LEMMA DepthStays ==
  ASSUME NEW a \in Nat, NEW b \in Nat, a <= b,
         \A k \in (a + 1)..b : tokens[k].type \notin {"LBRACE", "RBRACE"}
  PROVE  Depth(b) = Depth(a)
<1>1. \A type \in {"LBRACE", "RBRACE"} : Braces(type, b) = Braces(type, a)
  <2>1. SUFFICES ASSUME NEW type \in {"LBRACE", "RBRACE"} PROVE Braces(type, b) = Braces(type, a)
    OBVIOUS
  <2>2. \A k : k \in 1..b <=> k \in 1..a \/ k \in (a + 1)..b
    OBVIOUS
  <2>3. {k \in 1..b : tokens[k].type = type} = {k \in 1..a : tokens[k].type = type}
    BY <2>1, <2>2
  <2>4. QED
    BY <2>3 DEF Braces
<1>2. QED
  BY <1>1 DEF Depth

\* Statements are counted where they end.
LEMMA StatementsAre ==
  ASSUME NEW i \in Nat
  PROVE  IsFiniteSet(StatementsTo(i)) /\ Cardinality(StatementsTo(i)) \in Nat
<1>1. IsFiniteSet(1..i) /\ StatementsTo(i) \in SUBSET (1..i)
  BY FS_Interval DEF StatementsTo
<1>2. QED
  BY <1>1, FS_Subset, FS_CardinalityType

LEMMA StatementsStay ==
  ASSUME NEW a \in Nat, NEW d \in Nat, a <= d,
         \A k \in (a + 1)..d : tokens[k].type \notin {"SEMICOLON", "LBRACE"}
  PROVE  StatementsTo(d) = StatementsTo(a)
<1>1. \A k : k \in 1..d <=> k \in 1..a \/ k \in (a + 1)..d
  OBVIOUS
<1>2. QED
  BY <1>1 DEF StatementsTo

LEMMA StatementsGrow ==
  ASSUME NEW a \in Nat, NEW d \in Nat, a < d, tokens[d].type \in {"SEMICOLON", "LBRACE"},
         \A k \in (a + 1)..(d - 1) : tokens[k].type \notin {"SEMICOLON", "LBRACE"}
  PROVE  Cardinality(StatementsTo(d)) = Cardinality(StatementsTo(a)) + 1
<1>1. \A k : k \in 1..d <=> k \in 1..a \/ k \in (a + 1)..(d - 1) \/ k = d
  OBVIOUS
<1>2. d \notin 1..a
  OBVIOUS
<1>3. StatementsTo(d) = StatementsTo(a) \cup {d} /\ d \notin StatementsTo(a)
  BY <1>1, <1>2 DEF StatementsTo
<1>4. QED
  BY <1>3, StatementsAre, FS_AddElement

-----------------------------------------------------------------------------
(* One statement or one closed block more.                                 *)

\* The tokens from c to d are those of a statement: a word, values, and an end.
IsStatement(c, d) ==
  /\ c \in DOMAIN tokens /\ d \in (c + 1)..Len(tokens)
  /\ tokens[c].type = "WORD" /\ tokens[d].type \in {"SEMICOLON", "LBRACE"}
  /\ \A k \in (c + 1)..(d - 1) : tokens[k].type \in ValueTypes

\* How many blocks are open behind the token d, with "open" in front of its statement.
OpenBehind(d, open) == IF tokens[d].type = "LBRACE" THEN open + 1 ELSE open

LEMMA StatementDepths ==
  ASSUME tokens \in Seq(Tokens), NEW c, NEW d, IsStatement(c, d)
  PROVE  /\ c \in Nat /\ d \in Nat /\ 1 <= c /\ c < d
         /\ \A k \in c..(d - 1) : Depth(k) = Depth(c - 1)
         /\ Depth(c - 1) \in Int
         /\ Depth(d) = OpenBehind(d, Depth(c - 1))
         /\ Cardinality(StatementsTo(d)) = Cardinality(StatementsTo(c - 1)) + 1
<1>1. Len(tokens) \in Nat /\ c \in 1..Len(tokens) /\ d \in (c + 1)..Len(tokens)
  BY DEF IsStatement
<1>2. c \in Nat /\ d \in Nat /\ 1 <= c /\ c < d /\ c - 1 \in Nat /\ d - 1 \in Nat
  BY <1>1
<1>3. \A k \in c..(d - 1) : tokens[k].type \notin {"LBRACE", "RBRACE", "SEMICOLON"}
  <2>1. \A k \in c..(d - 1) : k = c \/ k \in (c + 1)..(d - 1)
    BY <1>2
  <2>2. QED
    BY <2>1 DEF IsStatement, ValueTypes
<1>4. ASSUME NEW k \in c..(d - 1) PROVE Depth(k) = Depth(c - 1)
  <2>1. k \in Nat /\ c - 1 <= k /\ \A l \in ((c - 1) + 1)..k : l \in c..(d - 1)
    BY <1>2
  <2>2. \A l \in ((c - 1) + 1)..k : tokens[l].type \notin {"LBRACE", "RBRACE"}
    BY <1>3, <2>1
  <2>3. QED
    BY <1>2, <2>1, <2>2, DepthStays
<1>5. Depth(c - 1) \in Int
  BY <1>2, DepthIs
<1>6. Depth(d) = OpenBehind(d, Depth(c - 1))
  <2>1. Depth(d - 1) = Depth(c - 1)
    <3>1. d - 1 \in c..(d - 1)
      BY <1>2
    <3>2. QED
      BY <1>4, <3>1
  <2>2. Depth(d) = Depth(d - 1) + (CASE tokens[d].type = "LBRACE" -> 1
                                     [] tokens[d].type = "RBRACE" -> -1
                                     [] OTHER -> 0)
    BY <1>2, DepthIs
  <2>3. tokens[d].type \in {"SEMICOLON", "LBRACE"}
    BY DEF IsStatement
  <2>4. QED
    BY <1>5, <2>1, <2>2, <2>3 DEF OpenBehind
<1>7. Cardinality(StatementsTo(d)) = Cardinality(StatementsTo(c - 1)) + 1
  <2>1. c - 1 < d /\ \A k \in ((c - 1) + 1)..(d - 1) : k \in c..(d - 1)
    BY <1>2
  <2>2. \A k \in ((c - 1) + 1)..(d - 1) : tokens[k].type \notin {"SEMICOLON", "LBRACE"}
    BY <1>3, <2>1
  <2>3. tokens[d].type \in {"SEMICOLON", "LBRACE"}
    BY DEF IsStatement
  <2>4. QED
    BY <1>2, <2>1, <2>2, <2>3, StatementsGrow
<1>8. QED
  BY <1>2, <1>4, <1>5, <1>6, <1>7

LEMMA StatementFits ==
  ASSUME tokens \in Seq(Tokens), NEW c, NEW d, IsStatement(c, d), NEW open \in Nat, SentenceTo(c, open)
  PROVE  SentenceTo(d + 1, OpenBehind(d, open)) /\ OpenBehind(d, open) \in Nat
<1>1. /\ c \in Nat /\ d \in Nat /\ 1 <= c /\ c < d
      /\ \A k \in c..(d - 1) : Depth(k) = open
      /\ Depth(d) = OpenBehind(d, open)
  BY StatementDepths DEF SentenceTo
<1>2. OpenBehind(d, open) \in Nat
  BY DEF OpenBehind
<1>3. (d + 1) - 1 = d /\ d + 1 # 1
  BY <1>1
<1>4. BeginsStatement(d + 1)
  BY <1>3 DEF BeginsStatement, Ending, IsStatement
<1>5. ASSUME NEW i \in 1..d PROVE Depth(i) >= 0 /\ Fits(i)
  <2>1. CASE i \in 1..(c - 1)
    BY <2>1 DEF SentenceTo
  <2>2. CASE i = c
    <3>1. Fits(c)
      BY DEF Fits, SentenceTo, IsStatement
    <3>2. Depth(c) = open
      BY <1>1
    <3>3. QED
      BY <2>2, <3>1, <3>2
  <2>3. CASE i \in (c + 1)..d
    <3>1. i # 1 /\ (i - 1 = c \/ i - 1 \in (c + 1)..(d - 1)) /\ (i = d \/ i \in (c + 1)..(d - 1)) /\ i \in Nat
      BY <1>1, <2>3
    <3>2. tokens[i - 1].type \notin Ending
      BY <3>1 DEF IsStatement, ValueTypes, Ending
    <3>3. ~BeginsStatement(i)
      BY <3>1, <3>2 DEF BeginsStatement
    <3>4. tokens[i].type \in ValueTypes \cup {"SEMICOLON", "LBRACE"}
      BY <3>1 DEF IsStatement
    <3>5. Fits(i)
      BY <3>3, <3>4 DEF Fits
    <3>6. Depth(i) \in Nat
      <4>1. i = d \/ i \in c..(d - 1)
        BY <1>1, <3>1
      <4>2. QED
        BY <1>1, <1>2, <4>1
    <3>7. QED
      BY <3>5, <3>6
  <2>4. QED
    BY <1>1, <2>1, <2>2, <2>3
<1>6. QED
  BY <1>1, <1>2, <1>3, <1>4, <1>5 DEF SentenceTo

-----------------------------------------------------------------------------
(* The tree.                                                               *)

LEMMA EndsAre ==
  ASSUME nodes \in Seq(Nodes), NEW n \in DOMAIN nodes
  PROVE  EndOf(nodes, n) \in Nat /\ nodes[n].at \in Nat /\ nodes[n].at < EndOf(nodes, n)
<1>1. nodes[n] \in Nodes
  OBVIOUS
<1>2. nodes[n].at \in Nat /\ Len(nodes[n].values) \in Nat
  BY <1>1 DEF Nodes
<1>3. QED
  BY <1>2 DEF EndOf

\* What holds of a node does not depend on the later ones.
LEMMA FitsStill ==
  ASSUME ParserTypeOK, NEW ns, \A k \in 1..Len(nodes) : ns[k] = nodes[k], NEW n \in 1..Len(nodes)
  PROVE  EndOf(ns, n) = EndOf(nodes, n) /\ (NodeFits(nodes, n) => NodeFits(ns, n))
<1>1. /\ Len(nodes) \in Nat /\ ns[n] = nodes[n] /\ nodes[n].parent \in Nat /\ nodes[n].parent < n
      /\ n > 1 => ns[n - 1] = nodes[n - 1]
  <2>1. nodes \in Seq(Nodes) /\ Len(nodes) \in Nat /\ nodes[n].parent < n
    BY DEF ParserTypeOK
  <2>2. nodes[n] \in Nodes
    BY <2>1
  <2>3. nodes[n].parent \in Nat
    BY <2>2 DEF Nodes
  <2>4. n > 1 => n - 1 \in 1..Len(nodes)
    BY <2>1
  <2>5. QED
    BY <2>1, <2>3, <2>4
<1>2. nodes[n].parent # Root => ns[nodes[n].parent] = nodes[nodes[n].parent]
  <2>1. nodes[n].parent # Root => nodes[n].parent \in 1..Len(nodes)
    BY <1>1 DEF Root
  <2>2. QED
    BY <2>1
<1>3. EndOf(ns, n) = EndOf(nodes, n)
  BY <1>1 DEF EndOf
<1>4. nodes[n].parent # Root => EndOf(ns, nodes[n].parent) = EndOf(nodes, nodes[n].parent)
  BY <1>2 DEF EndOf
<1>5. NodeFits(nodes, n) => NodeFits(ns, n)
  BY <1>1, <1>3, <1>4 DEF NodeFits
<1>6. QED
  BY <1>3, <1>5

\* The innermost open block is the parent of what begins at the current token.
LEMMA ParentIsOpen ==
  ASSUME ParserTypeOK, SentenceTo(current, Len(stack)), TreeTo(nodes, stack, current)
  PROVE  IF Parent = Root THEN Depth(current - 1) = 0
         ELSE LET b == EndOf(nodes, Parent)
              IN /\ b < current
                 /\ \A k \in b..(current - 1) : Depth(k) >= Depth(b) /\ Depth(current - 1) = Depth(b)
<1>1. stack \in Seq(DOMAIN nodes) /\ Len(stack) \in Nat /\ Len(nodes) \in Nat /\ DOMAIN nodes = 1..Len(nodes)
  BY DEF ParserTypeOK
<1>2. Depth(current - 1) = Len(stack)
  BY DEF SentenceTo
<1>3. CASE stack = <<>>
  <2>1. Parent = Root /\ Len(stack) = 0
    BY <1>3 DEF Parent
  <2>2. QED
    BY <1>2, <2>1
<1>4. CASE stack # <<>>
  <2> DEFINE m == Len(stack)
             b == EndOf(nodes, stack[m])
  <2>1. m \in 1..Len(stack) /\ stack[m] \in 1..Len(nodes)
    BY <1>1, <1>4
  <2>2. Parent = stack[m] /\ Parent # Root
    BY <1>1, <1>4, <2>1 DEF Parent, Last, Root
  <2>3. b < current /\ Depth(b) = m /\ \A k \in b..(current - 1) : Depth(k) >= m
    BY <2>1 DEF TreeTo
  <2> HIDE DEF b
  <2>4. b < current /\ \A k \in b..(current - 1) : Depth(k) >= Depth(b) /\ Depth(current - 1) = Depth(b)
    BY <1>2, <2>3
  <2>5. QED
    BY <2>2, <2>4 DEF b
<1>5. QED
  BY <1>3, <1>4

\* The new node fits.
LEMMA NodeIsRight ==
  ASSUME tokens \in Seq(Tokens), Terminated, ParserTypeOK, current \in DOMAIN tokens,
         SentenceTo(current, Len(stack)), TreeTo(nodes, stack, current),
         IsStatement(current, Delimiter(current)), NEW kind \in {"block", "directive"},
         tokens[Delimiter(current)].type = IF kind = "block" THEN "LBRACE" ELSE "SEMICOLON",
         NEW ns, \A k \in 1..Len(nodes) : ns[k] = nodes[k], ns[Len(nodes) + 1] = Node(kind, current)
  PROVE  EndOf(ns, Len(nodes) + 1) = Delimiter(current) /\ NodeFits(ns, Len(nodes) + 1)
<1> DEFINE node == Node(kind, current)
           d == Delimiter(current)
           n == Len(nodes) + 1
<1>1. /\ node.kind = kind /\ node.at = current /\ node.name = tokens[current].value
      /\ Len(node.values) = d - current - 1
      /\ \A k \in DOMAIN node.values : node.values[k] = tokens[current + k].value
      /\ node.parent = Parent /\ Parent \in 0..Len(nodes)
  <2>1. tokens[current].type # "EOF_TOKEN"
    BY DEF IsStatement
  <2>2. QED
    BY <2>1, NodeIs
<1>2. current \in Nat /\ d \in Nat
  BY StatementDepths
<1> HIDE DEF node, d
<1>3. ns[n] = node
  BY DEF node
<1>4. EndOf(ns, n) = d
  <2>1. EndOf(ns, n) = node.at + Len(node.values) + 1
    BY <1>3 DEF EndOf
  <2>2. QED
    BY <1>1, <1>2, <2>1
<1>5. nodes \in Seq(Nodes) /\ Len(nodes) \in Nat /\ DOMAIN nodes = 1..Len(nodes)
  BY DEF ParserTypeOK
<1>6. n > 1 => ns[n - 1].at < current
  <2>1. SUFFICES ASSUME n > 1 PROVE ns[n - 1].at < current
    OBVIOUS
  <2>2. n - 1 = Len(nodes) /\ Len(nodes) \in 1..Len(nodes)
    BY <1>5, <2>1
  <2>3. EndOf(nodes, Len(nodes)) < current
    BY <2>2 DEF TreeTo
  <2>4. EndOf(nodes, Len(nodes)) \in Nat /\ nodes[Len(nodes)].at \in Nat
        /\ nodes[Len(nodes)].at < EndOf(nodes, Len(nodes))
    BY <1>5, <2>2, EndsAre
  <2>5. nodes[Len(nodes)].at < current
    BY <1>2, <2>3, <2>4
  <2>6. QED
    BY <2>2, <2>5
<1>7. IF Parent = Root THEN Depth(current - 1) = 0
      ELSE LET b == EndOf(ns, Parent)
           IN b < current /\ \A k \in b..(current - 1) : Depth(k) >= Depth(b) /\ Depth(current - 1) = Depth(b)
  <2>1. Parent # Root => EndOf(ns, Parent) = EndOf(nodes, Parent)
    <3>1. Parent # Root => Parent \in 1..Len(nodes)
      BY <1>1, <1>5 DEF Root
    <3>2. QED
      BY <3>1, FitsStill
  <2>2. QED
    BY <2>1, ParentIsOpen
<1>8. BeginsStatement(current)
  BY DEF SentenceTo
<1>9. tokens[d].type = IF node.kind = "block" THEN "LBRACE" ELSE "SEMICOLON"
  BY <1>1 DEF d
<1> HIDE DEF n
<1>10. NodeFits(ns, n)
  BY <1>1, <1>3, <1>4, <1>6, <1>7, <1>8, <1>9 DEF NodeFits
<1>11. QED
  BY <1>4, <1>10 DEF n, d

LEMMA TreeUpTo ==
  ASSUME NEW ns, NEW st, NEW d \in Nat,
         Len(ns) = Cardinality(StatementsTo(d)),
         \A n \in 1..Len(ns) : NodeFits(ns, n) /\ EndOf(ns, n) < d + 1,
         \A m \in 1..Len(st) : /\ EndOf(ns, st[m]) < d + 1 /\ Depth(EndOf(ns, st[m])) = m
                              /\ \A k \in EndOf(ns, st[m])..d : Depth(k) >= m
  PROVE  TreeTo(ns, st, d + 1)
<1>1. (d + 1) - 1 = d
  OBVIOUS
<1>2. QED
  BY <1>1 DEF TreeTo

\* The tree with the new node is that of the tokens up to the end of its statement.
LEMMA NodeAdded ==
  ASSUME tokens \in Seq(Tokens), Terminated, ParserTypeOK, current \in DOMAIN tokens,
         SentenceTo(current, Len(stack)), TreeTo(nodes, stack, current),
         IsStatement(current, Delimiter(current)), NEW kind \in {"block", "directive"},
         tokens[Delimiter(current)].type = IF kind = "block" THEN "LBRACE" ELSE "SEMICOLON",
         NEW ns, ns = Append(nodes, Node(kind, current)),
         NEW st, st = IF kind = "block" THEN Append(stack, Len(nodes) + 1) ELSE stack
  PROVE  /\ TreeTo(ns, st, Delimiter(current) + 1)
         /\ Len(st) = OpenBehind(Delimiter(current), Len(stack))
<1> DEFINE c == current
           d == Delimiter(current)
           n == Len(nodes) + 1
<1>1. /\ nodes \in Seq(Nodes) /\ Len(nodes) \in Nat /\ DOMAIN nodes = 1..Len(nodes)
      /\ stack \in Seq(1..Len(nodes)) /\ Len(stack) \in Nat
      /\ \A m \in 1..Len(stack) : stack[m] \in 1..Len(nodes)
  BY SMTT(40) DEF ParserTypeOK
<1>2. /\ Len(ns) = n /\ \A k \in 1..Len(nodes) : ns[k] = nodes[k]
      /\ ns[n] = Node(kind, current)
  <2>1. tokens[current].type # "EOF_TOKEN"
    BY DEF IsStatement
  <2>2. Node(kind, current) \in Nodes
    BY <2>1, NodeIs
  <2>3. QED
    BY <1>1, <2>2, AppendProperties
<1>3. /\ c \in Nat /\ d \in Nat /\ 1 <= c /\ c < d
      /\ \A k \in c..(d - 1) : Depth(k) = Len(stack)
      /\ Depth(d) = OpenBehind(d, Len(stack))
      /\ Cardinality(StatementsTo(d)) = Cardinality(StatementsTo(c - 1)) + 1
  BY StatementDepths DEF SentenceTo
<1>4. EndOf(ns, n) = d /\ NodeFits(ns, n)
  BY <1>2, NodeIsRight
<1>5. \A k \in 1..Len(nodes) : EndOf(ns, k) = EndOf(nodes, k) /\ NodeFits(ns, k) /\ EndOf(nodes, k) < c
                              /\ EndOf(nodes, k) \in Nat
  <2>1. \A k \in 1..Len(nodes) : NodeFits(nodes, k) /\ EndOf(nodes, k) < c
    BY DEF TreeTo
  <2>2. \A k \in 1..Len(nodes) : EndOf(nodes, k) \in Nat
    BY <1>1, EndsAre
  <2>3. QED
    BY <1>2, <2>1, <2>2, FitsStill
<1>6. tokens[d].type = IF kind = "block" THEN "LBRACE" ELSE "SEMICOLON"
  OBVIOUS
<1>7. Len(nodes) = Cardinality(StatementsTo(c - 1))
  BY DEF TreeTo
<1>8. \A m \in 1..Len(stack) : /\ Depth(EndOf(nodes, stack[m])) = m
                              /\ \A k \in EndOf(nodes, stack[m])..(c - 1) : Depth(k) >= m
  BY DEF TreeTo
<1>9. /\ Len(st) = OpenBehind(d, Len(stack)) /\ OpenBehind(d, Len(stack)) >= Len(stack)
      /\ \A m \in 1..Len(stack) : st[m] = stack[m]
      /\ kind = "block" => Len(st) = Len(stack) + 1 /\ st[Len(stack) + 1] = n
      /\ kind = "directive" => Len(st) = Len(stack)
  <2>1. CASE kind = "block"
    <3>1. stack \in Seq(Nat) /\ n \in Nat
      BY <1>1
    <3>2. st = Append(stack, n)
      BY <2>1
    <3>3. Len(st) = Len(stack) + 1 /\ st[Len(stack) + 1] = n /\ \A m \in 1..Len(stack) : st[m] = stack[m]
      BY <3>1, <3>2, AppendProperties
    <3>4. OpenBehind(d, Len(stack)) = Len(stack) + 1
      BY <1>6, <2>1 DEF OpenBehind
    <3>5. QED
      BY <1>1, <2>1, <3>3, <3>4
  <2>2. CASE kind = "directive"
    <3>1. st = stack
      BY <2>2
    <3>2. OpenBehind(d, Len(stack)) = Len(stack)
      BY <1>6, <2>2 DEF OpenBehind
    <3>3. QED
      BY <1>1, <2>2, <3>1, <3>2
  <2>3. QED
    BY <2>1, <2>2
<1> HIDE DEF c, d, n
<1>10. Len(ns) = Cardinality(StatementsTo(d))
  BY <1>2, <1>3, <1>7 DEF n
<1>11. ASSUME NEW k \in 1..Len(ns) PROVE NodeFits(ns, k) /\ EndOf(ns, k) < d + 1
  <2>1. k \in 1..n
    BY <1>2
  <2>2. k \in 1..Len(nodes) \/ k = n
    BY <1>1, <2>1 DEF n
  <2>3. QED
    BY <1>3, <1>4, <1>5, <2>2
<1>12. ASSUME NEW m \in 1..Len(st)
       PROVE  /\ EndOf(ns, st[m]) < d + 1 /\ Depth(EndOf(ns, st[m])) = m
              /\ \A k \in EndOf(ns, st[m])..d : Depth(k) >= m
  <2>1. CASE m \in 1..Len(stack)
    <3> DEFINE b == EndOf(nodes, stack[m])
    <3>1. EndOf(ns, st[m]) = b /\ b < c /\ b \in Nat
      BY <1>1, <1>5, <1>9, <2>1
    <3>2. Depth(b) = m /\ \A k \in b..(c - 1) : Depth(k) >= m
      BY <1>8, <2>1
    <3> HIDE DEF b
    <3>3. \A k \in b..d : k \in b..(c - 1) \/ k \in c..(d - 1) \/ k = d
      BY <1>3, <3>1
    <3>4. m <= Len(stack) /\ m \in Nat
      BY <1>1, <2>1
    <3>5. \A k \in c..(d - 1) : Depth(k) >= m
      BY <1>1, <1>3, <3>4
    <3>6. Depth(d) >= m
      <4>1. OpenBehind(d, Len(stack)) \in Nat
        BY <1>1 DEF OpenBehind
      <4>2. QED
        BY <1>1, <1>3, <1>9, <3>4, <4>1
    <3>7. \A k \in b..d : Depth(k) >= m
      BY <3>2, <3>3, <3>5, <3>6
    <3>8. b < d + 1
      BY <1>3, <3>1
    <3>9. QED
      BY <3>1, <3>2, <3>7, <3>8
  <2>2. CASE m \notin 1..Len(stack)
    <3>1. kind = "block" /\ m = Len(stack) + 1
      BY <1>1, <1>9, <2>2
    <3>2. EndOf(ns, st[m]) = d
      BY <1>4, <1>9, <3>1
    <3>3. Depth(d) = m
      BY <1>3, <1>9, <3>1
    <3>4. \A k \in d..d : k = d
      BY <1>3
    <3>5. m >= m /\ d < d + 1
      BY <1>1, <1>3, <3>1
    <3>6. QED
      BY <3>2, <3>3, <3>4, <3>5
  <2>3. QED
    BY <2>1, <2>2
<1>13. TreeTo(ns, st, d + 1)
  BY <1>3, <1>10, <1>11, <1>12, TreeUpTo
<1>14. QED
  BY <1>9, <1>13 DEF d

\* A block that is closed leaves the others open.
LEMMA BlockClosed ==
  ASSUME tokens \in Seq(Tokens), ParserTypeOK, current \in DOMAIN tokens,
         SentenceTo(current, Len(stack)), TreeTo(nodes, stack, current),
         stack # <<>>, tokens[current].type = "RBRACE"
  PROVE  SentenceTo(current + 1, Len(Front(stack))) /\ TreeTo(nodes, Front(stack), current + 1)
<1> DEFINE c == current
           st == Front(stack)
           l == Len(stack) - 1
<1>1. /\ stack \in Seq(DOMAIN nodes) /\ Len(stack) \in Nat \ {0} /\ Len(tokens) \in Nat /\ c \in 1..Len(tokens)
      /\ nodes \in Seq(Nodes) /\ DOMAIN nodes = 1..Len(nodes)
  BY DEF ParserTypeOK
<1>2. Len(st) = l /\ \A m \in 1..l : st[m] = stack[m]
  BY <1>1, FrontIsShorter
<1>3. c \in Nat /\ c >= 1 /\ c - 1 \in Nat /\ (c + 1) - 1 = c /\ l \in Nat
  BY <1>1
<1>4. Depth(c - 1) = Len(stack) /\ BeginsStatement(c) /\ \A i \in 1..(c - 1) : Depth(i) >= 0 /\ Fits(i)
  BY DEF SentenceTo
<1>5. Depth(c) = l
  <2>1. Depth(c) = Depth(c - 1) + (CASE tokens[c].type = "LBRACE" -> 1
                                     [] tokens[c].type = "RBRACE" -> -1
                                     [] OTHER -> 0)
    BY <1>3, DepthIs, SMTT(40)
  <2>2. Depth(c) = Depth(c - 1) + (-1)
    BY <2>1
  <2>3. QED
    BY <1>1, <1>4, <2>2
<1>6. c > 1
  <2>1. Depth(0) = 0
    BY DepthIs
  <2>2. c - 1 # 0
    BY <1>1, <1>4, <2>1
  <2>3. QED
    BY <1>3, <2>2
<1>7. SentenceTo(c + 1, l)
  <2>1. BeginsStatement(c + 1)
    BY <1>3 DEF BeginsStatement, Ending
  <2>2. Fits(c)
    BY <1>4, <1>6 DEF Fits
  <2>3. \A i \in 1..c : i \in 1..(c - 1) \/ i = c
    BY <1>3
  <2>4. Depth(c) >= 0
    BY <1>3, <1>5
  <2> HIDE DEF c, l
  <2>5. \A i \in 1..(c + 1 - 1) : Depth(i) >= 0 /\ Fits(i)
    BY <1>3, <1>4, <2>2, <2>3, <2>4
  <2>6. QED
    BY <1>3, <1>5, <2>1, <2>5 DEF SentenceTo
<1> HIDE DEF c, l, st
<1>8. TreeTo(nodes, st, c + 1)
  <2>1. StatementsTo(c) = StatementsTo(c - 1)
    <3>1. c - 1 < c /\ c - 1 <= c /\ \A k \in ((c - 1) + 1)..c : k = c
      BY <1>3
    <3>2. tokens[c].type \notin {"SEMICOLON", "LBRACE"}
      BY DEF c
    <3>3. QED
      BY <1>3, <3>1, <3>2, StatementsStay
  <2>2. Len(nodes) = Cardinality(StatementsTo(c))
    BY <1>3, <2>1 DEF TreeTo, c
  <2>3. \A n \in 1..Len(nodes) : NodeFits(nodes, n) /\ EndOf(nodes, n) < c + 1
    <3>1. \A n \in 1..Len(nodes) : NodeFits(nodes, n) /\ EndOf(nodes, n) < c /\ EndOf(nodes, n) \in Nat
      BY <1>1, EndsAre DEF TreeTo, c
    <3>2. QED
      BY <1>3, <3>1
  <2>4. ASSUME NEW m \in 1..Len(st)
        PROVE  /\ EndOf(nodes, st[m]) < c + 1 /\ Depth(EndOf(nodes, st[m])) = m
               /\ \A k \in EndOf(nodes, st[m])..c : Depth(k) >= m
    <3> DEFINE b == EndOf(nodes, stack[m])
    <3>1. m \in 1..Len(stack) /\ m \in Nat /\ m <= l /\ st[m] = stack[m] /\ stack[m] \in DOMAIN nodes
      <4>1. m \in 1..l /\ m \in Nat
        BY <1>2, <1>3
      <4>2. m \in 1..Len(stack) /\ m <= l
        BY <1>1, <1>3, <4>1 DEF l
      <4>3. QED
        BY <1>1, <1>2, <4>1, <4>2
    <3>2. b < c /\ Depth(b) = m /\ \A k \in b..(c - 1) : Depth(k) >= m
      BY <3>1 DEF TreeTo, c
    <3>3. b \in Nat
      BY <1>1, <3>1, EndsAre
    <3> HIDE DEF b
    <3>4. \A k \in b..c : k \in b..(c - 1) \/ k = c
      BY <1>3, <3>2, <3>3
    <3>5. Depth(c) >= m
      BY <1>3, <1>5, <3>1
    <3>6. b < c + 1
      BY <1>3, <3>2, <3>3
    <3>7. QED
      BY <3>1, <3>2, <3>4, <3>5, <3>6 DEF b
  <2>5. QED
    BY <1>3, <2>2, <2>3, <2>4, TreeUpTo
<1>9. QED
  BY <1>2, <1>7, <1>8 DEF st, c

-----------------------------------------------------------------------------
(* The steps of the parser.                                                *)

\* Behind a word and its values there is something else than ";" and "{", or no
\* word where a statement begins.
LEMMA WrongIsNoSentence ==
  ASSUME tokens \in Seq(Tokens), Terminated, current \in DOMAIN tokens,
         tokens[current].type # "EOF_TOKEN", SentenceTo(current, Len(stack)),
         stack = <<>> \/ tokens[current].type # "RBRACE",
         tokens[current].type = "WORD" => tokens[Delimiter(current)].type \notin {"SEMICOLON", "LBRACE"}
  PROVE  ~IsSentence
<1> SUFFICES ASSUME IsSentence PROVE FALSE
  OBVIOUS
<1>1. Len(tokens) \in Nat /\ DOMAIN tokens = 1..Len(tokens) /\ current \in Nat /\ current >= 1 /\ current - 1 \in Nat
  OBVIOUS
<1>2. BeginsStatement(current) /\ Depth(current - 1) = Len(stack)
  BY DEF SentenceTo
<1>3. tokens[current].type \in {"WORD", "RBRACE"}
  BY <1>2 DEF IsSentence
<1>4. CASE tokens[current].type = "WORD"
  <2> DEFINE d == Delimiter(current)
  <2>1. d \in (current + 1)..Len(tokens) /\ tokens[d].type \in TokenTypes \ ValueTypes
        /\ \A k \in (current + 1)..(d - 1) : tokens[k].type \in ValueTypes
    BY DelimiterIs
  <2>2. tokens[d].type \notin {"SEMICOLON", "LBRACE"}
    BY <1>4
  <2> HIDE DEF d
  <2>3. d \in 1..Len(tokens) /\ d # 1 /\ (d - 1 = current \/ d - 1 \in (current + 1)..(d - 1))
    BY <1>1, <2>1
  <2>4. tokens[d - 1].type \notin Ending
    BY <1>4, <2>1, <2>3 DEF Ending, ValueTypes
  <2>5. ~BeginsStatement(d)
    BY <2>3, <2>4 DEF BeginsStatement
  <2>6. tokens[d].type \in ValueTypes \cup {"SEMICOLON", "LBRACE"}
    BY <1>1, <2>3, <2>5 DEF IsSentence
  <2>7. QED
    BY <2>1, <2>2, <2>6
<1>5. CASE tokens[current].type = "RBRACE"
  <2>1. Len(stack) = 0
    BY <1>5
  <2>2. Depth(current) = Depth(current - 1) + (CASE tokens[current].type = "LBRACE" -> 1
                                                 [] tokens[current].type = "RBRACE" -> -1
                                                 [] OTHER -> 0)
    BY <1>1, DepthIs
  <2>3. Depth(current) = 0 + (-1)
    BY <1>2, <1>5, <2>1, <2>2
  <2>4. Depth(current) >= 0
    BY DEF IsSentence
  <2>5. QED
    BY <2>3, <2>4
<1>6. QED
  BY <1>3, <1>4, <1>5

\* Where the text ends nothing happens to the depth.
LEMMA EndIs ==
  ASSUME tokens \in Seq(Tokens), Terminated, current \in DOMAIN tokens,
         tokens[current].type = "EOF_TOKEN", SentenceTo(current, Len(stack))
  PROVE  current = Len(tokens) /\ Depth(Len(tokens)) = Len(stack)
<1>1. Len(tokens) \in Nat /\ current \in 1..Len(tokens) /\ current - 1 \in Nat
  OBVIOUS
<1>2. current = Len(tokens)
  BY <1>1 DEF Terminated
<1>3. Depth(current - 1) \in Int /\ Depth(current - 1) = Len(stack)
  BY <1>1, DepthIs DEF SentenceTo
<1>4. Depth(current) = Depth(current - 1) + (CASE tokens[current].type = "LBRACE" -> 1
                                               [] tokens[current].type = "RBRACE" -> -1
                                               [] OTHER -> 0)
  BY <1>1, DepthIs
<1>5. Depth(current) = Depth(current - 1) + 0
  BY <1>4
<1>6. QED
  BY <1>2, <1>3, <1>5

LEMMA EndInBlockIsNoSentence ==
  ASSUME tokens \in Seq(Tokens), Terminated, ParserTypeOK, current \in DOMAIN tokens, stack # <<>>,
         tokens[current].type = "EOF_TOKEN", SentenceTo(current, Len(stack))
  PROVE  ~IsSentence
<1>1. Len(stack) # 0
  BY DEF ParserTypeOK
<1>2. Depth(Len(tokens)) = Len(stack)
  BY EndIs
<1>3. QED
  BY <1>1, <1>2 DEF IsSentence

LEMMA LastOrBefore == \A n \in Nat : \A i \in 1..n : i \in 1..(n - 1) \/ i = n
OBVIOUS

\* At the end of the text and outside of all blocks everything is read.
LEMMA ParsedIsSentence ==
  ASSUME tokens \in Seq(Tokens), Terminated, ParserTypeOK, current \in DOMAIN tokens, stack = <<>>,
         tokens[current].type = "EOF_TOKEN",
         SentenceTo(current, Len(stack)), TreeTo(nodes, stack, current)
  PROVE  IsSentence /\ TreeIsWhole
<1>1. Len(tokens) \in Nat /\ DOMAIN tokens = 1..Len(tokens) /\ Len(stack) = 0
  OBVIOUS
<1>2. current = Len(tokens) /\ Depth(Len(tokens)) = 0
  BY <1>1, EndIs
<1>3. current \in 1..Len(tokens) /\ current - 1 \in Nat /\ \A i \in 1..Len(tokens) : i \in 1..(current - 1) \/ i = current
  <2>1. current \in 1..Len(tokens)
    BY <1>1, Zenon
  <2>2. current - 1 \in Nat
    BY <1>1, <2>1
  <2>3. \A i \in 1..Len(tokens) : i \in 1..(Len(tokens) - 1) \/ i = Len(tokens)
    BY <1>1, LastOrBefore
  <2>4. QED
    BY <1>2, <2>1, <2>2, <2>3
<1>4. \A i \in 1..(current - 1) : Depth(i) >= 0 /\ Fits(i)
  BY DEF SentenceTo
<1>5. Depth(current) >= 0 /\ Fits(current)
  BY <1>2 DEF SentenceTo, Fits
<1>6. \A i \in DOMAIN tokens : Depth(i) >= 0 /\ Fits(i)
  BY <1>1, <1>3, <1>4, <1>5
<1>7. IsSentence
  BY <1>2, <1>6 DEF IsSentence, Fits, Terminated
<1>8. StatementsTo(Len(tokens)) = StatementsTo(current - 1)
  <2>1. current - 1 <= Len(tokens) /\ \A k \in ((current - 1) + 1)..Len(tokens) : k = current
    BY <1>1, <1>2
  <2>2. QED
    BY <1>1, <1>3, <2>1, StatementsStay
<1>9. TreeIsWhole
  <2>1. DOMAIN nodes = 1..Len(nodes)
    BY DEF ParserTypeOK
  <2>2. QED
    BY <1>8, <2>1 DEF TreeIsWhole, TreeTo
<1>10. QED
  BY <1>7, <1>9

-----------------------------------------------------------------------------
(* The invariant.                                                          *)

\* While the tokens stay it is the parser's variables only that count.
LEMMA SameTokens ==
  ASSUME tokens' = tokens
  PROVE  /\ IsSentence' = IsSentence
         /\ SentenceTo(current, Len(stack))' = SentenceTo(current', Len(stack'))
         /\ TreeTo(nodes, stack, current)' = TreeTo(nodes', stack', current')
BY DEF IsSentence, SentenceTo, TreeTo, Fits, BeginsStatement, Depth, Braces, StatementsTo, NodeFits, EndOf

LEMMA QuietGrammar ==
  ASSUME GrammarInv, UNCHANGED <<tokens, nodes, stack, current, failed, phase>>
  PROVE  GrammarInv'
<1>1. /\ IsSentence' = IsSentence
      /\ SentenceTo(current, Len(stack))' = SentenceTo(current, Len(stack))
      /\ TreeTo(nodes, stack, current)' = TreeTo(nodes, stack, current)
  BY SameTokens
<1>2. TreeIsWhole' = TreeIsWhole
  BY DEF TreeIsWhole, BeginsStatement, Depth, Braces, StatementsTo, NodeFits, EndOf
<1>3. QED
  BY <1>1, <1>2 DEF GrammarInv

\* A parser that has read nothing is right.
LEMMA NothingIsRead ==
  nodes = <<>> /\ stack = <<>> /\ current = 1 => SentenceTo(current, Len(stack)) /\ TreeTo(nodes, stack, current)
<1> SUFFICES ASSUME nodes = <<>>, stack = <<>>, current = 1
             PROVE  SentenceTo(current, Len(stack)) /\ TreeTo(nodes, stack, current)
  OBVIOUS
<1>1. Len(nodes) = 0 /\ Len(stack) = 0 /\ current - 1 = 0 /\ 1..0 = {}
  OBVIOUS
<1>2. Depth(0) = 0
  BY DepthIs
<1>3. BeginsStatement(current)
  BY DEF BeginsStatement
<1>4. SentenceTo(current, Len(stack))
  BY <1>1, <1>2, <1>3 DEF SentenceTo
<1>5. StatementsTo(0) = {}
  BY <1>1 DEF StatementsTo
<1>6. Cardinality(StatementsTo(0)) = 0
  BY <1>5, FS_EmptySet
<1>7. TreeTo(nodes, stack, current)
  BY <1>1, <1>6 DEF TreeTo
<1>8. QED
  BY <1>4, <1>7

LEMMA NothingIsReadNext ==
  (nodes = <<>> /\ stack = <<>> /\ current = 1)' => (SentenceTo(current, Len(stack)) /\ TreeTo(nodes, stack, current))'
BY NothingIsRead, PTL

\* What a step of the parser has to do to keep the invariant.
LEMMA ParserGrammar ==
  ASSUME tokens' = tokens, phase' = "parse", failed' => ~IsSentence,
         ~failed' /\ tokens # <<>> => SentenceTo(current', Len(stack')) /\ TreeTo(nodes', stack', current')
  PROVE  GrammarInv'
BY SameTokens DEF GrammarInv

\* A statement that is read keeps the invariant.
LEMMA StatementGrammar ==
  ASSUME FormInv, GrammarInv, phase = "parse", phase' = "parse", UNCHANGED <<tokens, failed>>, InBody,
         TypeAt(current) = "WORD", NEW kind \in {"block", "directive"},
         TypeAt(Delimiter(current)) = IF kind = "block" THEN "LBRACE" ELSE "SEMICOLON",
         nodes' = Append(nodes, Node(kind, current)),
         stack' = IF kind = "block" THEN Append(stack, Len(nodes) + 1) ELSE stack,
         current' = Delimiter(current) + 1
  PROVE  GrammarInv'
<1> DEFINE d == Delimiter(current)
<1>1. /\ tokens \in Seq(Tokens) /\ ParserTypeOK /\ Terminated /\ tokens # <<>>
      /\ current \in DOMAIN tokens /\ tokens[current].type = "WORD"
  BY InBodyIs DEF InBody
<1>2. /\ d \in (current + 1)..Len(tokens) /\ TypeAt(d) = tokens[d].type
      /\ \A k \in (current + 1)..(d - 1) : tokens[k].type \in ValueTypes
  BY <1>1, DelimiterIs
<1>3. IsStatement(current, d) /\ tokens[d].type = IF kind = "block" THEN "LBRACE" ELSE "SEMICOLON"
  BY <1>1, <1>2 DEF IsStatement
<1>4. CASE failed
  BY <1>4, ParserGrammar DEF GrammarInv
<1>5. CASE ~failed
  <2>1. SentenceTo(current, Len(stack)) /\ TreeTo(nodes, stack, current)
    BY <1>1, <1>5 DEF GrammarInv
  <2>2. Len(stack) \in Nat
    BY <1>1 DEF ParserTypeOK
  <2>3. SentenceTo(d + 1, OpenBehind(d, Len(stack)))
    BY <1>1, <1>3, <2>1, <2>2, StatementFits
  <2>4. TreeTo(nodes', stack', d + 1) /\ Len(stack') = OpenBehind(d, Len(stack))
    BY <1>1, <1>3, <2>1, NodeAdded
  <2>5. QED
    BY <1>5, <2>3, <2>4, ParserGrammar
<1>6. QED
  BY <1>4, <1>5 DEF FormInv, LexerTypeOK

LEMMA ParseGrammar == FormInv /\ GrammarInv /\ Parse => GrammarInv'
<1> SUFFICES ASSUME FormInv, GrammarInv, Parse PROVE GrammarInv'
  OBVIOUS
<1>1. phase = "parse" /\ tokens' = tokens
  BY DEF Parse
<1>2. /\ tokens \in Seq(Tokens) /\ Len(tokens) \in Nat /\ DOMAIN tokens = 1..Len(tokens)
      /\ ParserTypeOK
      /\ tokens # <<>> => Terminated /\ current \in DOMAIN tokens
      /\ tokens = <<>> => nodes = <<>> /\ stack = <<>>
  BY <1>1 DEF FormInv, LexerTypeOK, EofInv, Lexed, Phases
<1>3. /\ failed => ~IsSentence
      /\ ~failed /\ tokens # <<>> => SentenceTo(current, Len(stack)) /\ TreeTo(nodes, stack, current)
  BY <1>1 DEF GrammarInv
<1>4. current \in DOMAIN tokens => TypeAt(current) = tokens[current].type
  BY <1>2 DEF TypeAt
<1>5. CASE ParseStep /\ UNCHANGED phase
  <2>1. ASSUME ParseDirective PROVE GrammarInv'
    <3>1. /\ InBody /\ TypeAt(current) = "WORD" /\ TypeAt(Delimiter(current)) = "SEMICOLON"
          /\ nodes' = Append(nodes, Node("directive", current)) /\ current' = Delimiter(current) + 1
          /\ stack' = stack /\ failed' = failed
      BY <2>1 DEF ParseDirective
    <3>2. QED
      BY <1>1, <1>5, <3>1, StatementGrammar
  <2>2. ASSUME OpenBlock PROVE GrammarInv'
    <3>1. /\ InBody /\ TypeAt(current) = "WORD" /\ TypeAt(Delimiter(current)) = "LBRACE"
          /\ nodes' = Append(nodes, Node("block", current)) /\ current' = Delimiter(current) + 1
          /\ stack' = Append(stack, Len(nodes) + 1) /\ failed' = failed
      BY <2>2 DEF OpenBlock
    <3>2. QED
      BY <1>1, <1>5, <3>1, StatementGrammar
  <2>3. ASSUME WrongStatement PROVE GrammarInv'
    <3>1. /\ InBody /\ failed' = TRUE
          /\ TypeAt(current) = "WORD" => TypeAt(Delimiter(current)) \notin {"SEMICOLON", "LBRACE"}
      BY <2>3 DEF WrongStatement
    <3>2. tokens # <<>> /\ tokens[current].type # "EOF_TOKEN" /\ Terminated /\ current \in DOMAIN tokens
      BY <1>1, <3>1, InBodyIs DEF InBody
    <3>3. TypeAt(Delimiter(current)) = tokens[Delimiter(current)].type
      BY <1>2, <3>2, DelimiterIs
    <3>4. stack = <<>> \/ tokens[current].type # "RBRACE"
      BY <1>4, <3>1, <3>2 DEF InBody
    <3>5. ~failed => ~IsSentence
      BY <1>2, <1>3, <1>4, <3>1, <3>2, <3>3, <3>4, WrongIsNoSentence
    <3>6. QED
      BY <1>1, <1>3, <1>5, <3>1, <3>5, ParserGrammar
  <2>4. ASSUME CloseBlock PROVE GrammarInv'
    <3>1. /\ stack # <<>> /\ stack' = Front(stack) /\ current' = current + 1
          /\ nodes' = nodes /\ failed' = failed /\ TypeAt(current) = "RBRACE"
      BY <2>4 DEF CloseBlock
    <3>2. tokens # <<>> /\ current \in DOMAIN tokens /\ tokens[current].type = "RBRACE"
      BY <1>2, <1>4, <3>1
    <3>3. ~failed => SentenceTo(current + 1, Len(Front(stack))) /\ TreeTo(nodes, Front(stack), current + 1)
      BY <1>2, <1>3, <3>1, <3>2, BlockClosed
    <3>4. QED
      BY <1>1, <1>3, <1>5, <3>1, <3>3, ParserGrammar
  <2>5. ASSUME EndInBlock PROVE GrammarInv'
    <3>1. stack # <<>> /\ failed' = TRUE /\ TypeAt(current) = "EOF_TOKEN"
      BY <2>5 DEF EndInBlock, AtEnd
    <3>2. tokens # <<>> /\ current \in DOMAIN tokens /\ tokens[current].type = "EOF_TOKEN"
      BY <1>2, <1>4, <3>1
    <3>3. ~failed => ~IsSentence
      BY <1>2, <1>3, <3>1, <3>2, EndInBlockIsNoSentence
    <3>4. QED
      BY <1>1, <1>3, <1>5, <3>1, <3>3, ParserGrammar
  <2>6. ASSUME SynchronizeForever PROVE GrammarInv'
    <3>1. tokens = <<>> /\ failed' = TRUE
      BY <2>6 DEF SynchronizeForever
    <3>2. ~IsSentence
      BY <3>1 DEF IsSentence
    <3>3. QED
      BY <1>1, <1>5, <3>1, <3>2, ParserGrammar
  <2>7. QED
    BY <1>5, <2>1, <2>2, <2>3, <2>4, <2>5, <2>6 DEF ParseStep
<1>6. CASE /\ Parsed
           /\ phase' = IF failed THEN "rejected" ELSE "validate"
           /\ UNCHANGED <<parserVars, failed>>
  <2>1. stack = <<>> /\ TypeAt(current) = "EOF_TOKEN" /\ nodes' = nodes /\ failed' = failed
    BY <1>6 DEF Parsed, AtEnd, parserVars
  <2>2. CASE failed
    <3>1. phase' = "rejected"
      BY <1>6, <2>2
    <3>2. QED
      BY <3>1 DEF GrammarInv
  <2>3. CASE ~failed
    <3>1. tokens # <<>>
      <4>1. current \in Nat \ {0}
        BY <1>2 DEF ParserTypeOK
      <4>2. QED
        BY <2>1, <4>1 DEF TypeAt
    <3>2. IsSentence /\ TreeIsWhole
      BY <1>2, <1>3, <1>4, <2>1, <2>3, <3>1, ParsedIsSentence
    <3>3. IsSentence' = IsSentence /\ TreeIsWhole' = TreeIsWhole
      <4>1. IsSentence' = IsSentence
        BY <1>1, SameTokens
      <4>2. TreeIsWhole' = TreeIsWhole
        BY <1>1, <2>1 DEF TreeIsWhole, BeginsStatement, Depth, Braces, StatementsTo, NodeFits, EndOf
      <4>3. QED
        BY <4>1, <4>2
    <3>4. phase' = "validate"
      BY <1>6, <2>3
    <3>5. QED
      BY <3>2, <3>3, <3>4 DEF GrammarInv
  <2>4. QED
    BY <2>2, <2>3
<1>7. QED
  BY <1>5, <1>6 DEF Parse

LEMMA EndGrammar == FormInv /\ Tokenize => GrammarInv'
<1> SUFFICES ASSUME FormInv, Tokenize PROVE GrammarInv'
  OBVIOUS
<1>1. phase = "lex" /\ nodes' = nodes /\ stack' = stack /\ current' = current
  BY DEF Tokenize, parserVars
<1>2. CASE ScanToken /\ UNCHANGED phase
  BY <1>1, <1>2 DEF GrammarInv
<1>3. CASE EndOfText /\ phase' = IF failed THEN "rejected" ELSE "parse"
  <2>1. nodes' = <<>> /\ stack' = <<>> /\ current' = 1
    BY <1>1 DEF FormInv, StageInv
  <2>2. (SentenceTo(current, Len(stack)) /\ TreeTo(nodes, stack, current))'
    BY <2>1, NothingIsReadNext
  <2>3. failed' = failed /\ failed \in BOOLEAN
    BY <1>3 DEF EndOfText, FormInv, LexerTypeOK
  <2>4. phase' \in {"rejected", "parse"} /\ (phase' = "parse" => ~failed')
    BY <1>3, <2>3
  <2>5. QED
    BY <2>2, <2>4 DEF GrammarInv
<1>4. QED
  BY <1>2, <1>3 DEF Tokenize

\* Elsewhere the invariant says nothing.
LEMMA ElsewhereGrammar ==
  ASSUME phase' \notin {"parse", "validate"}
  PROVE  GrammarInv'
BY DEF GrammarInv

LEMMA NextGrammar == FormInv /\ GrammarInv /\ [Next]_vars => GrammarInv'
<1> SUFFICES ASSUME FormInv, GrammarInv, [Next]_vars PROVE GrammarInv'
  OBVIOUS
<1>1. CASE Load
  BY <1>1, ElsewhereGrammar DEF Load
<1>2. CASE Tokenize
  BY <1>2, EndGrammar
<1>3. CASE Parse
  BY <1>3, ParseGrammar
<1>4. CASE Validate
  BY <1>4, ElsewhereGrammar DEF Validate
<1>5. CASE BuildConfig
  BY <1>5, ElsewhereGrammar DEF BuildConfig
<1>6. CASE OpenListener
  <2>1. phase' \in {"listen", "rejected"}
    <3> DEFINE good == servers[Len(listeners) + 1].port \in Ports
               new(others) == CanBind(SocketOf(servers[Len(listeners) + 1]), others)
               more == Append(listeners, SocketOf(servers[Len(listeners) + 1]))
    <3>1. /\ phase = "listen"
          /\ \E others \in OthersSockets :
               IF good /\ new(others) THEN listeners' = more /\ UNCHANGED phase
                                      ELSE listeners' = <<>> /\ phase' = "rejected"
      BY <1>6 DEF OpenListener
    <3> HIDE DEF good, new, more
    <3>2. QED
      BY <3>1
  <2>2. QED
    BY <2>1, ElsewhereGrammar
<1>7. CASE SocketFails
  BY <1>7, ElsewhereGrammar DEF SocketFails
<1>8. CASE Run
  BY <1>8, ElsewhereGrammar DEF Run
<1>9. CASE UNCHANGED vars
  <2>1. UNCHANGED <<tokens, nodes, stack, current, failed, phase>>
    BY <1>9 DEF vars, lexerVars, parserVars
  <2>2. QED
    BY <2>1, QuietGrammar
<1>10. QED
  BY <1>1, <1>2, <1>3, <1>4, <1>5, <1>6, <1>7, <1>8, <1>9 DEF Next, Program

LEMMA SpecGrammar == Spec => []GrammarInv
<1>1. Init => GrammarInv
  BY DEF Init, GrammarInv
<1>2. QED
  BY <1>1, NextGrammar, SpecForm, PTL DEF Spec

-----------------------------------------------------------------------------
\* The parser takes the sentences of the grammar and nothing else, in whichever way
\* it recovers from the errors it meets, for every configuration file.
THEOREM SpecOnlyTheGrammar == Spec => []OnlyTheGrammar
<1>1. GrammarInv => OnlyTheGrammar
  BY DEF GrammarInv, OnlyTheGrammar
<1>2. QED
  BY <1>1, SpecGrammar, PTL

\* The tree of a file is what stands there: every symbol is in one token, white space
\* or part of a comment, and the tree that reaches the rules has a node for each
\* statement, with its name, its values and the block that it stands in.
THEOREM SpecTreeIsText == Spec => []TreeIsText
<1>1. ASSUME FormInv, GrammarInv PROVE TreeIsText
  <2>1. phase \in {"parse", "validate"} => TokensAreText
    BY <1>1 DEF FormInv, TextInv, Lexed, Phases
  <2>2. phase = "validate" => TreeIsWhole /\ DOMAIN tokens = 1..Len(tokens)
    BY <1>1 DEF GrammarInv, FormInv, LexerTypeOK
  <2>3. QED
    BY <2>1, <2>2 DEF TreeIsText, TreeIsWhole, StatementsTo, NodeFits, EndOf, IsBlock
<1>2. QED
  BY <1>1, SpecForm, SpecGrammar, PTL
=============================================================================
