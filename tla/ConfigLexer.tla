----------------------------- MODULE ConfigLexer -----------------------------
(***************************************************************************)
(* How the text of a configuration file becomes tokens: Lexer.             *)
(*                                                                         *)
(* A symbol stands for a character that the grammar tells from others, for *)
(* a run of letters, digits and "_" that begins with no digit (a word), or *)
(* for a run of digits without leading zeros (a number).  A tab and a CR   *)
(* are blanks like the space.                                              *)
(***************************************************************************)
EXTENDS Integers, SequencesExt

CONSTANTS
  Words,   \* the words of the files
  Numbers  \* the numbers of the files

ASSUME NumbersAssumption == Numbers \subseteq Nat

Word(w)   == <<"word", w>>
Number(n) == <<"number", n>>
Blank     == <<"blank">>
NewLine   == <<"newline">>
Hash      == <<"#">>
Quote     == <<"quote">>
Opening   == <<"{">>
Closing   == <<"}">>
Semicolon == <<";">>
Slash     == <<"/">>
Dot       == <<".">>
Dash      == <<"-">>
OtherChar == <<"other">>

WordSymbols   == {Word(w) : w \in Words}
NumberSymbols == {Number(n) : n \in Numbers}

WordChars  == WordSymbols \cup NumberSymbols
PathChars  == WordChars \cup {Slash, Dot, Dash}
Whitespace == {Blank, NewLine}

Symbols == PathChars \cup Whitespace \cup {Hash, Quote, Opening, Closing, Semicolon, OtherChar}

TokenTypes ==
  {"WORD", "NUMBER", "STRING", "PATH", "LBRACE", "RBRACE", "SEMICOLON", "EOF_TOKEN", "UNKNOWN"}

VARIABLES
  text,    \* _content
  pos,     \* _pos, counted from 1
  tokens,  \* what tokenize has found
  failed   \* _errorList.hasErrors(), of the lexer and then of the parser

lexerVars == <<text, pos, tokens, failed>>

Tokens == [type : TokenTypes, value : Seq(Symbols), at : Nat]

LexerTypeOK ==
  /\ text \in Seq(Symbols) /\ pos \in 1..(Len(text) + 1) /\ failed \in BOOLEAN
  /\ tokens \in Seq(Tokens)
  /\ \A k \in DOMAIN tokens : tokens[k].at \in 1..(Len(text) + 1)

-----------------------------------------------------------------------------
\* The end of the longest run of symbols of S from i: the first position behind it.
RunEnd(S, i) ==
  CHOOSE j \in i..(Len(text) + 1) :
    /\ j = Len(text) + 1 \/ text[j] \notin S
    /\ \A k \in i..(j - 1) : text[k] \in S

\* peek() is a NUL behind the end, which no symbol is.
At(i, S) == i <= Len(text) /\ text[i] \in S

\* skipComment: the line end is left alone.
AfterComment(i) == IF At(i, {Hash}) THEN RunEnd(Symbols \ {NewLine}, i) ELSE i

\* The turn of tokenize takes one comment at most.
AfterSpace(i) == RunEnd(Whitespace, AfterComment(RunEnd(Whitespace, i)))

Token(type, i, j) == [type |-> type, value |-> SubSeq(text, i, j - 1), at |-> i]

\* What a scanner returns: its token, where it stops, and whether it adds an error.
Scanned(token, next, error) == [token |-> token, next |-> next, error |-> error]

ScanWord(i) ==
  LET j == RunEnd(WordChars, i)
      k == RunEnd(PathChars, j)
  IN IF At(j, {Slash, Dot}) THEN Scanned(Token("PATH", i, k), k, FALSE)
                            ELSE Scanned(Token("WORD", i, j), j, FALSE)

ScanNumber(i) ==
  LET j == RunEnd(NumberSymbols, i)
      k == RunEnd(PathChars, j)
  IN Scanned(Token(IF k > j THEN "PATH" ELSE "NUMBER", i, k), k, FALSE)

\* Fault: nobody looks whether the text ends before the quote that closes a string.
FaultScanString(i) ==
  LET string == Token("STRING", i + 1, RunEnd(Symbols \ {Quote}, i + 1))
  IN Scanned(string, string.at + Len(string.value) + 1, NewLine \in ToSet(string.value))

\* A string may not go over a line end, and has to be closed.
ScanString(i) ==
  LET j == RunEnd(Symbols \ {Quote}, i + 1)
      string == Token("STRING", i + 1, j)
  IN IF j > Len(text) THEN Scanned(Token("UNKNOWN", i + 1, i + 1), j, TRUE)
                      ELSE Scanned(string, j + 1, NewLine \in ToSet(string.value))

ScanPath(i) == LET j == RunEnd(PathChars, i) IN Scanned(Token("PATH", i, j), j, FALSE)

ScanSingle(i) ==
  LET type == CASE text[i] = Opening -> "LBRACE"
                [] text[i] = Closing -> "RBRACE"
                [] OTHER -> "SEMICOLON"
  IN Scanned(Token(type, i, i + 1), i + 1, FALSE)

ScanUnknown(i) == Scanned(Token("UNKNOWN", i, i + 1), i + 1, TRUE)

Scan(i) ==
  CASE At(i, {Opening, Closing, Semicolon}) -> ScanSingle(i)
    [] At(i, WordSymbols)        -> ScanWord(i)
    [] At(i, NumberSymbols)      -> ScanNumber(i)
    [] At(i, {Quote})            -> ScanString(i)
    [] At(i, {Slash, Dot, Dash}) -> ScanPath(i)
    [] OTHER                     -> ScanUnknown(i)

-----------------------------------------------------------------------------
\* A new Lexer for the text s.
LexerStart(s) == text = s /\ pos = 1 /\ tokens = <<>> /\ failed = FALSE

\* A turn of the loop of tokenize that finds a token.
ScanToken ==
  LET i == AfterSpace(pos)
      scanned == Scan(i)
  IN /\ i <= Len(text)
     /\ pos' = scanned.next
     /\ tokens' = Append(tokens, scanned.token)
     /\ failed' = (failed \/ scanned.error)
     /\ UNCHANGED text

\* The end of tokenize: a text without a token gets no EOF_TOKEN either.
EndOfText ==
  /\ AfterSpace(pos) > Len(text)
  /\ pos' = Len(text) + 1
  /\ tokens' = IF tokens = <<>> THEN <<>>
               ELSE Append(tokens, Token("EOF_TOKEN", Len(text) + 1, Len(text) + 1))
  /\ UNCHANGED <<text, failed>>
=============================================================================
