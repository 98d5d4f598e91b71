------------------------------ MODULE Scanner -------------------------------
(***************************************************************************)
(* The scanner (scanner.cc): scan() cuts a buffer of characters into the   *)
(* tokens the parser reads.  One action is one turn of its loop, a call of *)
(* scan_token() and one of append_token(); there is one action per kind of *)
(* token, told apart by its first character.  scanner.start is the offset  *)
(* where the token begins, and stays in the token; offsets count from 0.   *)
(*                                                                         *)
(* Nothing in the scanner knows where the buffer ends.  A read past its    *)
(* end gives the status "oob" and ends the model: what is found there is   *)
(* not the scanner's to say.                                               *)
(***************************************************************************)
EXTENDS Naturals, Sequences, FiniteSets, Characters

CONSTANTS Char,       \* the characters
          Buffers     \* the buffers scan() may be given

ASSUME BufferAssumption == Buffers \subseteq Seq(Char)

T == INSTANCE Tokens WITH Name <- Seq(Char) \ {<<>>}, NoName <- <<>>

VARIABLES buf,        \* the characters from src on, as far as they exist
          ip,         \* scanner.ip
          line,       \* scanner.line
          tokens,     \* scanner.tokens[0 .. token_count - 1]
          capacity,   \* scanner.token_capacity
          status      \* running, done, or oob

vars == <<buf, ip, line, tokens, capacity, status>>

-----------------------------------------------------------------------------
(* The words.                                                              *)

(* The words of the language that are recognised.  `for` is not: its two   *)
(* letters after the f are compared with a length of three.                *)
Reserved ==
  {<<<<"i", "n", "t">>, "T_INTID">>,
   <<<<"i", "f">>, "T_IF">>,
   <<<<"b", "o", "o", "l">>, "T_BOOLID">>,
   <<<<"b", "r", "e", "a", "k">>, "T_BREAK">>,
   <<<<"d", "e", "f">>, "T_DEF">>,
   <<<<"d", "o", "u", "b", "l", "e">>, "T_DOUBLEID">>,
   <<<<"e", "l", "s", "e">>, "T_ELSE">>,
   <<<<"e", "n", "u", "m">>, "T_ENUM">>,
   <<<<"f", "l", "o", "a", "t">>, "T_FLOATID">>,
   <<<<"f", "a", "l", "s", "e">>, "T_BOOL">>,
   <<<<"r", "e", "t", "u", "r", "n">>, "T_RETURN">>,
   <<<<"s", "t", "r", "i", "n", "g">>, "T_STRINGID">>,
   <<<<"s", "t", "r", "u", "c", "t">>, "T_STRUCT">>,
   <<<<"t", "r", "u", "e">>, "T_BOOL">>,
   <<<<"u", "n", "i", "o", "n">>, "T_UNION">>,
   <<<<"w", "h", "i", "l", "e">>, "T_WHILE">>}

(* What create_identifier_token() knows of a word: the letters it compares *)
(* and, given apart from them, how many characters it consumes.  Two words *)
(* are cut after their first letter, one of them misspelled.               *)
Keyword(text, type, size) == [text |-> text, type |-> type, size |-> size]

Keywords ==
  {Keyword(w[1], w[2], Len(w[1])) : w \in Reserved}
    \cup {Keyword(<<"c", "h", "a", "r">>, "T_CHARID", 1),
          Keyword(<<"c", "o", "n", "t">>, "T_CONTINUE", 1)}

(* The symbols whose second character is looked at.                        *)
Doubling == {"!", "=", ">", "<", "&", "|"}

(* Where a string literal stops, closed or not.                            *)
StopsLessNul == {Quote, Blank, Lf}      \* slip: the zero is forgotten
StringStops == {Quote, Blank, Nul, Lf}

-----------------------------------------------------------------------------
(* Reading the buffer.                                                     *)
Size == Len(buf)
Ch(i) == buf[i + 1]
Has(i, c) == i < Size /\ Ch(i) = c

(* The text between two offsets.                                           *)
Text(i, j) == SubSeq(buf, i + 1, j)

(* The first offset from i on whose character is not in S: the end of the  *)
(* while loops over characters.  It is Size when they run past the end.    *)
End(i, S) == CHOOSE j \in i .. Size : /\ j < Size => Ch(j) \notin S
                                      /\ \A k \in i .. j - 1 : Ch(k) \in S

(* ignore(), and then scanner.start = scanner.ip.                          *)
Start == End(ip, {Blank})

(* A token: its type, the offset after it, and the furthest offset that    *)
(* was read to find that out.                                              *)
Scanned(type, next, seen) == [type |-> type, next |-> next, seen |-> seen]

(* create_numeric_token()                                                  *)
Number ==
  LET whole == End(Start, Digit)
      fraction == End(whole + 1, Digit)
  IN  IF Has(whole, ".") THEN Scanned("T_FLOAT", fraction, fraction)
      ELSE Scanned("T_INT", whole, whole)

(* create_identifier_token(): the word is as long as there are letters;    *)
(* digits are only looked for when it is no keyword.                       *)
Word ==
  LET word == End(Start + 1, Alpha)
      name == End(Start + 1, Alpha \cup Digit)
      found == {k \in Keywords : word <= Size /\ k.text = Text(Start, word)}
  IN  IF found = {} THEN Scanned("T_IDENTIFIER", name, name)
      ELSE LET k == CHOOSE f \in found : TRUE
           IN  Scanned(k.type, Start + k.size, word)

(* create_string_token()                                                   *)
StringOrNothing ==      \* slip: no type for a string that is not closed
  LET stop == End(Start + 1, Char \ StringStops)
  IN  Scanned(IF Has(stop, Quote) THEN "T_STRING_LITERAL" ELSE "T_NONE",
              stop + 1, stop)

StringLiteral ==
  LET stop == End(Start + 1, Char \ StringStops)
  IN  Scanned(IF Has(stop, Quote) THEN "T_STRING_LITERAL" ELSE "T_ERROR",
              stop + 1, stop)

Spelled(text) == {s \in Symbols : s[1] = text}

(* The switch of scan_token().                                             *)
OneCharacter ==      \* slip: the second character is forgotten
  LET found == Spelled(Text(Start, Start + 1))
  IN  Scanned(IF found = {} THEN "T_ERROR" ELSE (CHOOSE s \in found : TRUE)[2],
              Start + 1, Start)

Symbol ==
  LET two == Start + 2 <= Size /\ Ch(Start) \in Doubling
             /\ Spelled(Text(Start, Start + 2)) # {}
      found == Spelled(Text(Start, IF two THEN Start + 2 ELSE Start + 1))
  IN  Scanned(IF found = {} THEN "T_ERROR" ELSE (CHOOSE s \in found : TRUE)[2],
              IF two THEN Start + 2 ELSE Start + 1,
              IF Ch(Start) \in Doubling THEN Start + 1 ELSE Start)

-----------------------------------------------------------------------------
(* scan(): init_scanner() and the loop.                                    *)
Init == /\ buf \in Buffers
        /\ ip = 0
        /\ line = 1
        /\ tokens = <<>>
        /\ capacity = 8
        /\ status = "running"

(* append_token(): the array is doubled when it is full.                   *)
GrownLate == IF Len(tokens) > capacity THEN 2 * capacity ELSE capacity   \* slip
Grown == IF Len(tokens) >= capacity THEN 2 * capacity ELSE capacity

LineKept(type) == line      \* slip: the line is never advanced
LineAfter(type) == IF type = "T_LF" THEN line + 1 ELSE line

(* The loop of scan() ends after one of these.                             *)
LastAtEof(type) == type = "T_EOF"      \* slip: the other one is forgotten
Last(type) == type \in T!Sentinels

(* create_token() and append_token(), or a read past the end on the way.   *)
Emit(t) ==
  \/ /\ t.seen < Size
     /\ ip' = t.next
     /\ line' = LineAfter(t.type)
     /\ tokens' = Append(tokens, [type |-> t.type, start |-> Start,
                                  end |-> t.next, line |-> LineAfter(t.type)])
     /\ capacity' = Grown
     /\ status' = IF Last(t.type) THEN "done" ELSE "running"
     /\ UNCHANGED buf
  \/ /\ t.seen >= Size
     /\ status' = "oob"
     /\ UNCHANGED <<buf, ip, line, tokens, capacity>>

(* The next token begins with one of these characters.                     *)
Begins(S) == status = "running" /\ Start < Size /\ Ch(Start) \in S

ScanNumber == Begins(Digit) /\ \E t \in {Number} : Emit(t)
ScanWord == Begins(Alpha) /\ \E t \in {Word} : Emit(t)
ScanString == Begins({Quote}) /\ \E t \in {StringLiteral} : Emit(t)
ScanSymbol == /\ Begins(Char \ (Digit \cup Alpha \cup {Quote}))
              /\ \E t \in {Symbol} : Emit(t)

(* Nothing but blanks up to the end of the buffer, and on.                 *)
RunOffAgain == status = "running" /\ Start = Size /\ UNCHANGED vars   \* slip

RunOff == /\ status = "running" /\ Start = Size
          /\ status' = "oob"
          /\ UNCHANGED <<buf, ip, line, tokens, capacity>>

Next == ScanNumber \/ ScanWord \/ ScanString \/ ScanSymbol \/ RunOff

(* One thread: the loop goes on while it can.                              *)
Spec == Init /\ [][Next]_vars /\ WF_vars(Next)

-----------------------------------------------------------------------------
(* What the parser gets: an identifier carries its spelling.               *)
Lexed == [i \in 1 .. Len(tokens) |->
            [type |-> tokens[i].type,
             name |-> IF tokens[i].type = "T_IDENTIFIER"
                      THEN Text(tokens[i].start, tokens[i].end) ELSE <<>>]]

-----------------------------------------------------------------------------
(* Properties.                                                             *)

ScannedToken == [type : T!TokenType, start : Nat, end : Nat, line : Nat]

(* The type invariant.                                                     *)
TypeOK == /\ buf \in Seq(Char)
          /\ ip \in Nat
          /\ line \in Nat
          /\ tokens \in Seq(ScannedToken)
          /\ capacity \in Nat
          /\ status \in {"running", "done", "oob"}

(* What scan() returns is what parse() is written for: at least one token, *)
(* the last of them T_EOF or T_ERROR and no other, each identifier with    *)
(* the letters it is looked up by (scanner.cc:206-214, parser.cc:349-353). *)
ParserInput == status = "done" => Lexed \in T!TokenList

(* No token is stored past the end of scanner.tokens, through every        *)
(* doubling of the array (scanner.cc:197-204).                             *)
RoomForTokens == Len(tokens) <= capacity /\ capacity >= 8

LfsUpTo(offset) == {j \in 1 .. offset : buf[j] = Lf}

(* The line of a token is the number of line feeds up to its end, itself   *)
(* included, plus one; a line feed that breaks off a string is the only    *)
(* one that is not counted, and nothing follows it (scanner.cc:172, 313).  *)
LinesCounted ==
  \A i \in DOMAIN tokens :
    LET t == tokens[i]
        upto == IF t.type = "T_ERROR" THEN t.start ELSE t.end
    IN  t.line = Cardinality(LfsUpTo(upto)) + 1

(* With a zero or an end-of-file character ahead the scanner stops before  *)
(* the end of the buffer.  Only the end-of-file character in a string that *)
(* is never closed does not stop it (scanner.cc:170-177).                  *)
StopsInBuffer ==
  status = "oob" =>
    \A e \in ip .. Size - 1 :
      Ch(e) \in {Eof, Nul} => Ch(Start) = Quote /\ Ch(e) = Eof

(* A reference for the tokens of a text: what it is to be an integer, a    *)
(* float, a word, a string and a symbol.                                   *)
Over(text, S) == \A i \in DOMAIN text : text[i] \in S
Integer(text) == text # <<>> /\ Over(text, Digit)
Floating(text) ==
  \E k \in 2 .. Len(text) :
    /\ text[k] = "."
    /\ Integer(SubSeq(text, 1, k - 1)) /\ Over(SubSeq(text, k + 1, Len(text)), Digit)
Named(text) == text # <<>> /\ text[1] \in Alpha /\ Over(text, Alpha \cup Digit)
Quoted(text) ==
  /\ Len(text) >= 2 /\ text[1] = Quote /\ text[Len(text)] = Quote
  /\ \A k \in 2 .. Len(text) - 1 : text[k] \notin StringStops
Lexeme(text) == \/ Integer(text) \/ Floating(text) \/ Named(text)
                \/ Quoted(text) \/ Spelled(text) # {}

(* The words that have a type of their own in token.h, `for`, `char` and   *)
(* `continue` among them.                                                  *)
Vocabulary == Reserved \cup {<<<<"f", "o", "r">>, "T_FOR">>,
                             <<<<"c", "h", "a", "r">>, "T_CHARID">>,
                             <<<<"c", "o", "n", "t", "i", "n", "u", "e">>, "T_CONTINUE">>}
MeantAs(text) == {v[2] : v \in {w \in Vocabulary : w[1] = text}}

HasType(text, type) ==
  CASE type = "T_INT"            -> Integer(text)
    [] type = "T_FLOAT"          -> Floating(text)
    [] type = "T_IDENTIFIER"     -> Named(text) /\ MeantAs(text) = {}
    [] type = "T_STRING_LITERAL" -> Quoted(text)
    [] OTHER -> type \in MeantAs(text) \/ <<text, type>> \in Symbols

(* The words the scanner is known to get wrong: `for` and `continue` become *)
(* identifiers; `char` and `cont`, with or without digits behind them, are *)
(* cut after a letter; a reserved word with digits is cut before them.     *)
(* WholeWords, below, has the comments that want it otherwise.             *)
Misread(offset) ==
  LET word == Text(offset, End(offset + 1, Alpha \cup Digit))
      letters == Text(offset, End(offset + 1, Alpha))
  IN  \/ word \in {<<"f", "o", "r">>, <<"c", "o", "n", "t", "i", "n", "u", "e">>}
      \/ letters \in {<<"c", "h", "a", "r">>, <<"c", "o", "n", "t">>}
      \/ word # letters /\ letters \in {w[1] : w \in Reserved}

(* The tokens are the longest lexemes of the text, one after the other     *)
(* with nothing but blanks between them, and of the type of their text;    *)
(* but for the words above, and the last token when it is an error.        *)
LongestMatch ==
  \A i \in DOMAIN tokens :
    LET t == tokens[i]
        from == IF i = 1 THEN 0 ELSE tokens[i - 1].end
    IN  /\ from <= t.start /\ Over(Text(from, t.start), {Blank})
        /\ t.type # "T_ERROR" /\ ~Misread(t.start) =>
             /\ HasType(Text(t.start, t.end), t.type)
             /\ \A e \in t.end + 1 .. Size : ~Lexeme(Text(t.start, e))

(* Every buffer comes to an end: each turn of the loop takes a character,  *)
(* and reads past the end are the end (scanner.cc:209-212).                *)
Terminates == <>(status # "running")

(* Refuted: "get whole word" (scanner.cc:74) and "identifier can include   *)
(* numeric infixes and suffixes" (scanner.cc:160).  Once a text is scanned, *)
(* each token that begins with a letter ends where its word does.          *)
WholeWords ==
  status = "done" =>
    \A i \in DOMAIN tokens :
      LET t == tokens[i]
      IN  Ch(t.start) \in Alpha =>
            ~(t.end < Size /\ Ch(t.end) \in Alpha \cup Digit)

=============================================================================
