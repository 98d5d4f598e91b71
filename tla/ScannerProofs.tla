--------------------------- MODULE ScannerProofs ----------------------------
(***************************************************************************)
(* Proofs about the scanner, for every set of buffers it may be given.     *)
(***************************************************************************)
EXTENDS Scanner, SequenceTheorems, FiniteSetTheorems, TLAPS

(* A set of offsets has a least element.                                   *)
LEMMA LeastOffset ==
  ASSUME NEW S, S \subseteq Nat, S # {}
  PROVE  \E m \in S : \A k \in S : m <= k
<1> DEFINE R == {ss \in Nat \X Nat : ss[1] < ss[2]}
<1>1. IsWellFoundedOn(R, Nat) BY NatLessThanWellFounded, Zenon DEF OpToRel
<1> HIDE DEF R
<1>2. PICK m \in S : \A k \in S : ~(<<k, m>> \in R) BY <1>1, WFMin
<1>3. ASSUME NEW i \in Nat, NEW j \in Nat, i < j PROVE <<i, j>> \in R
  <2>1. <<i, j>> \in Nat \X Nat OBVIOUS
  <2>2. <<i, j>>[1] < <<i, j>>[2] BY <1>3
  <2> QED BY <2>1, <2>2 DEF R
<1>4. ASSUME NEW k \in S PROVE m <= k
  <2>1. k \in Nat /\ m \in Nat OBVIOUS
  <2>2. ~(k < m) BY <1>2, <1>3, <2>1, Zenon
  <2> QED BY <2>1, <2>2
<1> QED BY <1>4

-----------------------------------------------------------------------------
(* Reading the buffer.                                                     *)

LEMMA SizeType == ASSUME buf \in Seq(Char) PROVE Size \in Nat
BY LenProperties DEF Size

(* A loop over characters ends at a character that is not of the set, or   *)
(* at the end of the buffer.                                               *)
LEMMA EndProperties ==
  ASSUME buf \in Seq(Char), NEW i \in Nat, i <= Size, NEW S
  PROVE  /\ End(i, S) \in i .. Size
         /\ End(i, S) < Size => Ch(End(i, S)) \notin S
         /\ \A k \in i .. End(i, S) - 1 : Ch(k) \in S
<1> DEFINE out == {j \in i .. Size : j < Size => Ch(j) \notin S}
           Is(j) == /\ j < Size => Ch(j) \notin S
                    /\ \A k \in i .. j - 1 : Ch(k) \in S
<1>1. Size \in Nat BY SizeType
<1>2. Size \in out /\ out \subseteq Nat BY <1>1
<1>3. PICK m \in out : \A k \in out : m <= k BY <1>2, LeastOffset
<1>4. m \in i .. Size /\ (m < Size => Ch(m) \notin S) BY <1>3
<1>5. ASSUME NEW k \in i .. m - 1 PROVE Ch(k) \in S
  <2>1. k \in i .. Size /\ k < Size /\ k < m BY <1>1, <1>4, <1>5
  <2>2. k \notin out BY <1>3, <1>4, <2>1
  <2> QED BY <2>1, <2>2
<1>6. \E j \in i .. Size : Is(j) BY <1>4, <1>5
<1>7. End(i, S) = CHOOSE j \in i .. Size : Is(j) BY DEF End
<1> HIDE DEF Is
<1>8. End(i, S) \in i .. Size /\ Is(End(i, S)) BY <1>6, <1>7, Zenon
<1> QED BY <1>8 DEF Is

LEMMA TextType ==
  ASSUME buf \in Seq(Char), NEW i \in Nat, NEW j \in Nat, i < j, j <= Size
  PROVE  Text(i, j) \in Seq(Char) \ {<<>>} /\ Len(Text(i, j)) = j - i
<1>1. Size \in Nat BY SizeType
<1>2. Text(i, j) \in Seq(Char) /\ Len(Text(i, j)) = j - i
  BY <1>1, SubSeqProperties DEF Text, Size
<1>3. Len(Text(i, j)) # 0 BY <1>2
<1> QED BY <1>2, <1>3, EmptySeq

-----------------------------------------------------------------------------
(* What a turn of the loop finds out about the next token: it is at least  *)
(* one character long and, unless a read left the buffer, ends within it.  *)
Possible(t) == /\ t.type \in T!TokenType
               /\ t.next \in Nat /\ t.seen \in Nat
               /\ Start < t.next
               /\ t.seen < Size => t.next <= Size

LEMMA ScannedFields ==
  ASSUME NEW type, NEW next, NEW seen
  PROVE  /\ Scanned(type, next, seen).type = type
         /\ Scanned(type, next, seen).next = next
         /\ Scanned(type, next, seen).seen = seen
BY DEF Scanned

LEMMA ReservedProperties ==
  ASSUME NEW w \in Reserved
  PROVE  w[2] \in T!TokenType /\ Len(w[1]) \in Nat /\ 1 <= Len(w[1])
<1> DEFINE Types == {"T_INTID", "T_IF", "T_BOOLID", "T_BREAK", "T_DEF",
                     "T_DOUBLEID", "T_ELSE", "T_ENUM", "T_FLOATID",
                     "T_BOOL", "T_RETURN", "T_STRINGID", "T_STRUCT",
                     "T_UNION", "T_WHILE"}
<1>1. Types \subseteq T!TokenType
  BY DEF T!TokenType, T!TypeIds, T!LiteralTokens, T!ComparisonTokens,
         T!DefinitionTokens
<1>2. \E text \in {r[1] : r \in Reserved}, t \in Types : w = <<text, t>>
  BY Zenon DEF Reserved
<1>3. Len(w[1]) \in Nat /\ 1 <= Len(w[1]) BY DEF Reserved
<1> QED BY <1>1, <1>2, <1>3

LEMMA KeywordProperties ==
  ASSUME NEW k \in Keywords
  PROVE  /\ k.type \in T!TokenType
         /\ k.size \in Nat /\ 1 <= k.size /\ k.size <= Len(k.text)
<1>1. CASE \E w \in Reserved : k = Keyword(w[1], w[2], Len(w[1]))
  <2>1. PICK w \in Reserved : k = Keyword(w[1], w[2], Len(w[1])) BY <1>1
  <2>2. k.text = w[1] /\ k.type = w[2] /\ k.size = Len(w[1])
    BY <2>1 DEF Keyword
  <2> QED BY <2>2, ReservedProperties
<1>2. {"T_CHARID", "T_CONTINUE"} \subseteq T!TokenType
  BY DEF T!TokenType, T!TypeIds
<1>3. CASE k = Keyword(<<"c", "h", "a", "r">>, "T_CHARID", 1)
  BY <1>2, <1>3 DEF Keyword
<1>4. CASE k = Keyword(<<"c", "o", "n", "t">>, "T_CONTINUE", 1)
  BY <1>2, <1>4 DEF Keyword
<1> QED BY <1>1, <1>3, <1>4, Zenon DEF Keywords

LEMMA SymbolType ==
  ASSUME NEW s \in Symbols
  PROVE  s[2] \in T!TokenType
<1> DEFINE Types == {"T_LEFT_PAR", "T_RIGHT_PAR", "T_LEFT_BRACE", "T_RIGHT_BRACE",
                     "T_DOT", "T_PLUS", "T_MINUS", "T_STAR", "T_SLASH",
                     "T_SEMICOLON", "T_COLON", "T_COMMA", "T_BANG",
                     "T_BANG_EQUAL", "T_EQUAL", "T_EQUAL_EQUAL", "T_GREATER",
                     "T_GREATER_EQUAL", "T_LESS", "T_LESS_EQUAL",
                     "T_SHIFT_RIGHT", "T_SHIFT_LEFT", "T_AMPERSAND", "T_AND",
                     "T_BIT_OR", "T_OR", "T_TAB", "T_LF", "T_EOF"}
<1>1. Types \subseteq T!TokenType
  BY DEF T!TokenType, T!TypeIds, T!LiteralTokens, T!ComparisonTokens,
         T!DefinitionTokens, T!Sentinels
<1>2. \E w \in {q[1] : q \in Symbols}, t \in Types : s = <<w, t>>
  BY ZenonT(30) DEF Symbols
<1> QED BY <1>1, <1>2

LEMMA TypeNames ==
  {"T_INT", "T_FLOAT", "T_IDENTIFIER", "T_STRING_LITERAL", "T_ERROR"}
    \subseteq T!TokenType
BY DEF T!TokenType, T!TypeIds, T!LiteralTokens, T!ComparisonTokens,
       T!DefinitionTokens, T!Sentinels

LEMMA StartProperties ==
  ASSUME buf \in Seq(Char), ip \in Nat, ip <= Size
  PROVE  Start \in ip .. Size /\ Start \in Nat /\ Size \in Nat
BY EndProperties, SizeType DEF Start

LEMMA NumberPossible ==
  ASSUME buf \in Seq(Char), ip \in Nat, ip <= Size, Begins(Digit)
  PROVE  Possible(Number)
<1> DEFINE whole == End(Start, Digit)
           fraction == End(whole + 1, Digit)
<1>1. Start \in Nat /\ Size \in Nat /\ Start < Size BY StartProperties DEF Begins
<1>2. whole \in Start .. Size /\ (whole < Size => Ch(whole) \notin Digit)
  BY <1>1, EndProperties
<1>3. Start < whole
  <2>1. Ch(Start) \in Digit BY DEF Begins
  <2> QED BY <1>1, <1>2, <2>1
<1>4. CASE Has(whole, ".")
  <2>1. whole + 1 \in Nat /\ whole + 1 <= Size BY <1>1, <1>2, <1>4 DEF Has
  <2>2. fraction \in whole + 1 .. Size BY <2>1, EndProperties
  <2>3. Number = Scanned("T_FLOAT", fraction, fraction) BY <1>4 DEF Number
  <2> HIDE DEF fraction, whole
  <2> QED BY <1>1, <1>2, <1>3, <2>2, <2>3, ScannedFields, TypeNames DEF Possible
<1>5. CASE ~Has(whole, ".")
  <2>1. Number = Scanned("T_INT", whole, whole) BY <1>5 DEF Number
  <2> HIDE DEF whole
  <2> QED BY <1>1, <1>2, <1>3, <2>1, ScannedFields, TypeNames DEF Possible
<1> QED BY <1>4, <1>5

LEMMA WordPossible ==
  ASSUME buf \in Seq(Char), ip \in Nat, ip <= Size, Begins(Alpha)
  PROVE  Possible(Word)
<1> DEFINE word == End(Start + 1, Alpha)
           name == End(Start + 1, Alpha \cup Digit)
           found == {k \in Keywords : word <= Size /\ k.text = Text(Start, word)}
           k == CHOOSE f \in found : TRUE
<1>1. Start \in Nat /\ Size \in Nat /\ Start < Size BY StartProperties DEF Begins
<1>2. word \in Start + 1 .. Size /\ name \in Start + 1 .. Size
  BY <1>1, EndProperties
<1>3. CASE found = {}
  <2>1. Word = Scanned("T_IDENTIFIER", name, name) BY <1>3 DEF Word
  <2> HIDE DEF name
  <2> QED BY <1>1, <1>2, <2>1, ScannedFields, TypeNames DEF Possible
<1>4. CASE found # {}
  <2>1. k \in found BY <1>4
  <2>2. Word = Scanned(k.type, Start + k.size, word) BY <1>4 DEF Word
  <2>3. k \in Keywords /\ k.text = Text(Start, word) BY <2>1
  <2> HIDE DEF word, k
  <2>4. Len(k.text) = word - Start BY <1>1, <1>2, <2>3, TextType
  <2>5. /\ k.type \in T!TokenType /\ k.size \in Nat
        /\ 1 <= k.size /\ k.size <= word - Start
    BY <2>3, <2>4, KeywordProperties
  <2>6. Start < Start + k.size /\ Start + k.size <= word /\ Start + k.size \in Nat
    BY <1>1, <1>2, <2>5
  <2> QED BY <1>1, <1>2, <2>2, <2>5, <2>6, ScannedFields DEF Possible
<1> QED BY <1>3, <1>4

LEMMA StringPossible ==
  ASSUME buf \in Seq(Char), ip \in Nat, ip <= Size, Begins({Quote})
  PROVE  Possible(StringLiteral)
<1> DEFINE stop == End(Start + 1, Char \ StringStops)
           type == IF Has(stop, Quote) THEN "T_STRING_LITERAL" ELSE "T_ERROR"
<1>1. Start \in Nat /\ Size \in Nat /\ Start < Size BY StartProperties DEF Begins
<1>2. stop \in Start + 1 .. Size BY <1>1, EndProperties
<1>3. StringLiteral = Scanned(type, stop + 1, stop) BY DEF StringLiteral
<1>4. type \in T!TokenType BY TypeNames
<1> HIDE DEF stop, type
<1> QED BY <1>1, <1>2, <1>3, <1>4, ScannedFields DEF Possible

LEMMA SymbolPossible ==
  ASSUME buf \in Seq(Char), ip \in Nat, ip <= Size, NEW S, Begins(S)
  PROVE  Possible(Symbol)
<1> DEFINE two == Start + 2 <= Size /\ Ch(Start) \in Doubling
                  /\ Spelled(Text(Start, Start + 2)) # {}
           found == Spelled(Text(Start, IF two THEN Start + 2 ELSE Start + 1))
           type == IF found = {} THEN "T_ERROR" ELSE (CHOOSE s \in found : TRUE)[2]
           next == IF two THEN Start + 2 ELSE Start + 1
           seen == IF Ch(Start) \in Doubling THEN Start + 1 ELSE Start
<1>1. Start \in Nat /\ Size \in Nat /\ Start < Size BY StartProperties DEF Begins
<1>2. Symbol = Scanned(type, next, seen) BY DEF Symbol
<1>3. type \in T!TokenType
  <2>1. found \subseteq Symbols BY DEF Spelled
  <2> HIDE DEF found
  <2> QED BY <2>1, SymbolType, TypeNames
<1>4. next \in Nat /\ Start < next /\ next <= Size BY <1>1
<1>5. seen \in Nat BY <1>1
<1> HIDE DEF type, next, seen
<1> QED BY <1>2, <1>3, <1>4, <1>5, ScannedFields DEF Possible

-----------------------------------------------------------------------------
(* The inductive invariant: the tokens lie within the text read so far,    *)
(* and only the last one ends the scan.                                    *)
Extents == /\ ip <= Size
           /\ \A i \in DOMAIN tokens :
                tokens[i].start < tokens[i].end /\ tokens[i].end <= Size

Ended == /\ \A i \in DOMAIN tokens :
              tokens[i].type \in T!Sentinels => i = Len(tokens) /\ status # "running"
         /\ status = "done" =>
              /\ tokens # <<>>
              /\ tokens[Len(tokens)].type \in T!Sentinels

IInv == TypeOK /\ Extents /\ Ended /\ RoomForTokens

LEMMA InitInvariant == Init => IInv
<1> SUFFICES ASSUME Init PROVE IInv OBVIOUS
<1>1. buf \in Seq(Char) BY BufferAssumption DEF Init
<1>2. tokens = <<>> /\ tokens \in Seq(ScannedToken) /\ Len(tokens) = 0 /\ DOMAIN tokens = {}
  BY DEF Init
<1>3. Size \in Nat BY <1>1, SizeType
<1> QED BY <1>1, <1>2, <1>3 DEF Init, IInv, TypeOK, Extents, Ended, RoomForTokens

(* Storing a possible token, or running off the end, keeps the invariant.  *)
LEMMA EmitKeeps ==
  ASSUME IInv, status = "running", NEW t, Possible(t), Emit(t)
  PROVE  IInv'
<1> USE DEF IInv
<1>1. Start \in Nat /\ Size \in Nat /\ Size' = Size /\ buf' = buf
  BY StartProperties DEF TypeOK, Extents, Emit, Size
<1>2. CASE t.seen >= Size /\ status' = "oob" /\ UNCHANGED <<buf, ip, line, tokens, capacity>>
  BY <1>1, <1>2 DEF TypeOK, Extents, Ended, RoomForTokens
<1>3. CASE t.seen < Size
  <2> DEFINE new == [type |-> t.type, start |-> Start, end |-> t.next,
                     line |-> LineAfter(t.type)]
  <2>1. /\ ip' = t.next /\ line' = LineAfter(t.type)
        /\ tokens' = Append(tokens, new) /\ capacity' = Grown
        /\ status' = IF Last(t.type) THEN "done" ELSE "running"
    BY <1>1, <1>3 DEF Emit, Possible
  <2>2. LineAfter(t.type) \in Nat BY DEF LineAfter, TypeOK
  <2>3. new \in ScannedToken BY <1>1, <2>2 DEF ScannedToken, Possible
  <2>4. /\ tokens' \in Seq(ScannedToken)
        /\ Len(tokens') = Len(tokens) + 1 /\ Len(tokens) \in Nat
        /\ DOMAIN tokens = 1 .. Len(tokens)
        /\ DOMAIN tokens' = 1 .. Len(tokens) + 1
        /\ \A i \in 1 .. Len(tokens) : tokens'[i] = tokens[i]
        /\ tokens'[Len(tokens) + 1] = new
    BY <2>1, <2>3, AppendProperties, LenProperties DEF TypeOK
  <2>5. new.start = Start /\ new.end = t.next /\ new.type = t.type OBVIOUS
  <2> HIDE DEF new
  <2>6. TypeOK'
    <3>1. capacity' \in Nat BY <2>1 DEF Grown, TypeOK
    <3> QED BY <1>1, <2>1, <2>2, <2>4, <3>1 DEF TypeOK, Possible
  <2>7. Extents'
    <3>1. ASSUME NEW i \in DOMAIN tokens'
          PROVE  tokens'[i].start < tokens'[i].end /\ tokens'[i].end <= Size
      <4>1. CASE i \in 1 .. Len(tokens) BY <2>4, <4>1 DEF Extents
      <4>2. CASE i = Len(tokens) + 1 BY <1>3, <2>4, <2>5, <4>2 DEF Possible
      <4> QED BY <2>4, <4>1, <4>2
    <3> QED BY <1>1, <1>3, <2>1, <3>1 DEF Extents, Possible
  <2>8. Ended'
    <3>1. ASSUME NEW i \in DOMAIN tokens', tokens'[i].type \in T!Sentinels
          PROVE  i = Len(tokens') /\ status' # "running"
      <4>1. CASE i \in 1 .. Len(tokens) BY <2>4, <3>1, <4>1 DEF Ended
      <4>2. CASE i = Len(tokens) + 1
        BY <2>1, <2>4, <2>5, <3>1, <4>2 DEF Last
      <4> QED BY <2>4, <4>1, <4>2
    <3>2. status' = "done" => tokens' # <<>> /\ tokens'[Len(tokens')].type \in T!Sentinels
      BY <2>1, <2>4, <2>5, EmptySeq DEF Last
    <3> QED BY <3>1, <3>2 DEF Ended
  <2>9. RoomForTokens' BY <2>1, <2>4 DEF RoomForTokens, Grown, TypeOK
  <2> QED BY <2>6, <2>7, <2>8, <2>9
<1> QED BY <1>2, <1>3, <1>1 DEF Emit, Possible

LEMMA NextInvariant == IInv /\ [Next]_vars => IInv'
<1> SUFFICES ASSUME IInv, [Next]_vars PROVE IInv' OBVIOUS
<1>1. buf \in Seq(Char) /\ ip \in Nat /\ ip <= Size BY DEF IInv, TypeOK, Extents
<1>2. CASE ScanNumber
  BY <1>1, <1>2, NumberPossible, EmitKeeps DEF ScanNumber, Begins
<1>3. CASE ScanWord
  BY <1>1, <1>3, WordPossible, EmitKeeps DEF ScanWord, Begins
<1>4. CASE ScanString
  BY <1>1, <1>4, StringPossible, EmitKeeps DEF ScanString, Begins
<1>5. CASE ScanSymbol
  BY <1>1, <1>5, SymbolPossible, EmitKeeps DEF ScanSymbol, Begins
<1>6. CASE RunOff
  <2>1. status' = "oob" /\ UNCHANGED <<buf, ip, line, tokens, capacity>>
    BY <1>6 DEF RunOff
  <2>2. status = "running" BY <1>6 DEF RunOff
  <2> QED BY <2>1, <2>2 DEF IInv, TypeOK, Extents, Ended, RoomForTokens, Size
<1>7. CASE UNCHANGED vars
  BY <1>7 DEF vars, IInv, TypeOK, Extents, Ended, RoomForTokens, Size
<1> QED BY <1>2, <1>3, <1>4, <1>5, <1>6, <1>7 DEF Next

THEOREM Invariance == Spec => []IInv
BY InitInvariant, NextInvariant, PTL DEF Spec

-----------------------------------------------------------------------------
(* Every token, its line, and the scanner's counters are well formed in    *)
(* every reachable state.                                                  *)
THEOREM TypeCorrect == Spec => []TypeOK
<1>1. IInv => TypeOK BY DEF IInv
<1> QED BY Invariance, <1>1, PTL

(* However many tokens a text has, append_token() never stores one past    *)
(* the end of the array.                                                   *)
THEOREM TokensFit == Spec => []RoomForTokens
<1>1. IInv => RoomForTokens BY DEF IInv
<1> QED BY Invariance, <1>1, PTL

LEMMA LexedList == IInv => ParserInput
<1> SUFFICES ASSUME IInv, status = "done" PROVE Lexed \in T!TokenList
  BY DEF ParserInput
<1> USE DEF IInv
<1> DEFINE name(i) == IF tokens[i].type = "T_IDENTIFIER"
                      THEN Text(tokens[i].start, tokens[i].end) ELSE <<>>
<1>1. /\ Len(tokens) \in Nat /\ DOMAIN tokens = 1 .. Len(tokens)
      /\ Len(tokens) # 0
  BY LenProperties, EmptySeq DEF TypeOK, Ended
<1>2. ASSUME NEW i \in 1 .. Len(tokens)
      PROVE  [type |-> tokens[i].type, name |-> name(i)] \in T!Token
  <2>1. tokens[i] \in ScannedToken BY <1>1, ElementOfSeq DEF TypeOK
  <2>2. /\ tokens[i].type \in T!TokenType
        /\ tokens[i].start \in Nat /\ tokens[i].end \in Nat
        /\ tokens[i].start < tokens[i].end /\ tokens[i].end <= Size
    BY <1>1, <2>1 DEF ScannedToken, Extents
  <2>3. Text(tokens[i].start, tokens[i].end) \in Seq(Char) \ {<<>>}
    BY <2>2, TextType DEF TypeOK
  <2>4. /\ name(i) \in (Seq(Char) \ {<<>>}) \cup {<<>>}
        /\ tokens[i].type = "T_IDENTIFIER" <=> name(i) # <<>>
    BY <2>3
  <2> HIDE DEF name
  <2> QED BY <2>2, <2>4 DEF T!Token
<1>3. Lexed = [i \in 1 .. Len(tokens) |-> [type |-> tokens[i].type, name |-> name(i)]]
  BY DEF Lexed
<1> HIDE DEF name
<1>4. Lexed \in Seq(T!Token) /\ Len(Lexed) = Len(tokens)
  BY <1>1, <1>2, <1>3, IsASeq
<1>5. \A i \in 1 .. Len(Lexed) : Lexed[i].type = tokens[i].type BY <1>3, <1>4, SMTT(30)
<1>6. \A i \in 1 .. Len(Lexed) : Lexed[i].type \in T!Sentinels <=> i = Len(Lexed)
  BY <1>1, <1>4, <1>5 DEF Ended
<1>7. Lexed # <<>> BY <1>1, <1>4, EmptySeq
<1> QED BY <1>4, <1>6, <1>7 DEF T!TokenList

(* The parser's assumption about its input holds of every buffer: a token  *)
(* list with one sentinel, at its end, and no identifier without letters.  *)
THEOREM ScansForTheParser == Spec => []ParserInput
BY Invariance, LexedList, PTL

-----------------------------------------------------------------------------
(* Where the scanner can run past the end of the buffer.                   *)
EndMarks == {Eof, Nul}

(* The characters from the cursor on of a turn that does.                  *)
NoMarkAhead == \A e \in ip .. Size - 1 :
                 Ch(e) \in EndMarks => Ch(Start) = Quote /\ Ch(e) = Eof

LEMMA MarksApart ==
  EndMarks \cap (Digit \cup Alpha \cup Doubling \cup {Blank, "."}) = {}
BY DEF EndMarks, Eof, Nul, Blank, Digit, Alpha, Doubling

LEMMA BlanksAhead ==
  ASSUME buf \in Seq(Char), ip \in Nat, ip <= Size
  PROVE  \A e \in ip .. Start - 1 : Ch(e) \notin EndMarks
<1>1. \A e \in ip .. Start - 1 : Ch(e) \in {Blank} BY EndProperties DEF Start
<1> QED BY <1>1, MarksApart

LEMMA NumberOverrun ==
  ASSUME buf \in Seq(Char), ip \in Nat, ip <= Size, Begins(Digit),
         Number.seen >= Size
  PROVE  NoMarkAhead
<1> DEFINE whole == End(Start, Digit)
           fraction == End(whole + 1, Digit)
<1>1. Start \in Nat /\ Size \in Nat /\ Start < Size BY StartProperties DEF Begins
<1>2. whole \in Start .. Size /\ \A e \in Start .. whole - 1 : Ch(e) \in Digit
  BY <1>1, EndProperties
<1>3. \A e \in Start .. Size - 1 : Ch(e) \in Digit \cup {"."}
  <2>1. CASE Has(whole, ".")
    <3>1. whole + 1 \in Nat /\ whole + 1 <= Size /\ Ch(whole) = "."
      BY <1>1, <1>2, <2>1 DEF Has
    <3>2. /\ fraction \in whole + 1 .. Size
          /\ \A e \in whole + 1 .. fraction - 1 : Ch(e) \in Digit
      BY <3>1, EndProperties
    <3>3. Number.seen = fraction BY <2>1, ScannedFields DEF Number
    <3> HIDE DEF fraction, whole
    <3> QED BY <1>1, <1>2, <3>1, <3>2, <3>3
  <2>2. CASE ~Has(whole, ".")
    <3>1. Number.seen = whole BY <2>2, ScannedFields DEF Number
    <3> HIDE DEF whole
    <3> QED BY <1>1, <1>2, <3>1
  <2> QED BY <2>1, <2>2
<1>4. \A e \in Start .. Size - 1 : Ch(e) \notin EndMarks BY <1>3, MarksApart
<1> QED BY <1>1, <1>4, BlanksAhead, StartProperties DEF NoMarkAhead

LEMMA WordOverrun ==
  ASSUME buf \in Seq(Char), ip \in Nat, ip <= Size, Begins(Alpha),
         Word.seen >= Size
  PROVE  NoMarkAhead
<1> DEFINE word == End(Start + 1, Alpha)
           name == End(Start + 1, Alpha \cup Digit)
           found == {k \in Keywords : word <= Size /\ k.text = Text(Start, word)}
<1>1. Start \in Nat /\ Size \in Nat /\ Start < Size /\ Ch(Start) \in Alpha
  BY StartProperties DEF Begins
<1>2. /\ word \in Start + 1 .. Size /\ name \in Start + 1 .. Size
      /\ \A e \in Start + 1 .. word - 1 : Ch(e) \in Alpha
      /\ \A e \in Start + 1 .. name - 1 : Ch(e) \in Alpha \cup Digit
  BY <1>1, EndProperties
<1>3. Word.seen \in {word, name} BY ScannedFields DEF Word
<1> HIDE DEF word, name
<1>4. \A e \in Start .. Size - 1 : Ch(e) \in Alpha \cup Digit
  BY <1>1, <1>2, <1>3
<1>5. \A e \in Start .. Size - 1 : Ch(e) \notin EndMarks BY <1>4, MarksApart
<1> QED BY <1>1, <1>5, BlanksAhead, StartProperties DEF NoMarkAhead

LEMMA StringOverrun ==
  ASSUME buf \in Seq(Char), ip \in Nat, ip <= Size, Begins({Quote}),
         StringLiteral.seen >= Size
  PROVE  NoMarkAhead
<1> DEFINE stop == End(Start + 1, Char \ StringStops)
<1>1. Start \in Nat /\ Size \in Nat /\ Start < Size /\ Ch(Start) = Quote
  BY StartProperties DEF Begins
<1>2. /\ stop \in Start + 1 .. Size
      /\ \A e \in Start + 1 .. stop - 1 : Ch(e) \in Char \ StringStops
  BY <1>1, EndProperties
<1>3. StringLiteral.seen = stop BY ScannedFields DEF StringLiteral
<1> HIDE DEF stop
<1>4. \A e \in Start + 1 .. Size - 1 : Ch(e) \notin StringStops
  BY <1>1, <1>2, <1>3
<1>5. \A e \in Start .. Size - 1 : Ch(e) \in EndMarks => Ch(e) = Eof
  BY <1>1, <1>4 DEF EndMarks, StringStops, Quote, Nul, Eof
<1> QED BY <1>1, <1>5, BlanksAhead, StartProperties DEF NoMarkAhead

LEMMA SymbolOverrun ==
  ASSUME buf \in Seq(Char), ip \in Nat, ip <= Size, NEW S, Begins(S),
         Symbol.seen >= Size
  PROVE  NoMarkAhead
<1>1. Start \in Nat /\ Size \in Nat /\ Start < Size
  BY StartProperties DEF Begins
<1>2. Symbol.seen = IF Ch(Start) \in Doubling THEN Start + 1 ELSE Start
  BY ScannedFields DEF Symbol
<1>3. Start + 1 = Size /\ Ch(Start) \in Doubling BY <1>1, <1>2
<1>4. \A e \in Start .. Size - 1 : Ch(e) \notin EndMarks
  BY <1>1, <1>3, MarksApart
<1> QED BY <1>1, <1>4, BlanksAhead, StartProperties DEF NoMarkAhead

LEMMA EmitOverrun ==
  ASSUME TypeOK, ip <= Size, NEW t, Possible(t), Emit(t),
         t.seen >= Size => NoMarkAhead
  PROVE  StopsInBuffer'
<1>1. Size \in Nat BY SizeType DEF TypeOK
<1>2. CASE t.seen < Size
  <2>1. status' # "oob" BY <1>1, <1>2 DEF Emit, Possible
  <2> QED BY <2>1 DEF StopsInBuffer
<1>3. CASE t.seen >= Size
  <2>1. UNCHANGED <<buf, ip>> BY <1>1, <1>3 DEF Emit, Possible
  <2>2. NoMarkAhead BY <1>3
  <2> QED BY <2>1, <2>2
       DEF StopsInBuffer, NoMarkAhead, EndMarks, Start, Size, Ch, End
<1> QED BY <1>1, <1>2, <1>3 DEF Possible

LEMMA StopsKept == IInv /\ StopsInBuffer /\ [Next]_vars => StopsInBuffer'
<1> SUFFICES ASSUME IInv, StopsInBuffer, [Next]_vars PROVE StopsInBuffer' OBVIOUS
<1>1. TypeOK /\ buf \in Seq(Char) /\ ip \in Nat /\ ip <= Size
  BY DEF IInv, TypeOK, Extents
<1>2. CASE ScanNumber
  BY <1>1, <1>2, NumberPossible, NumberOverrun, EmitOverrun DEF ScanNumber
<1>3. CASE ScanWord
  BY <1>1, <1>3, WordPossible, WordOverrun, EmitOverrun DEF ScanWord
<1>4. CASE ScanString
  BY <1>1, <1>4, StringPossible, StringOverrun, EmitOverrun DEF ScanString
<1>5. CASE ScanSymbol
  BY <1>1, <1>5, SymbolPossible, SymbolOverrun, EmitOverrun DEF ScanSymbol
<1>6. CASE RunOff
  <2>1. UNCHANGED <<buf, ip>> /\ Start = Size BY <1>6 DEF RunOff
  <2>2. NoMarkAhead BY <1>1, <2>1, BlanksAhead DEF NoMarkAhead
  <2> QED BY <2>1, <2>2
       DEF StopsInBuffer, NoMarkAhead, EndMarks, Start, Size, Ch, End
<1>7. CASE UNCHANGED vars
  BY <1>7 DEF vars, StopsInBuffer, Start, Size, Ch, End
<1> QED BY <1>2, <1>3, <1>4, <1>5, <1>6, <1>7 DEF Next

(* With an end mark ahead the scanner never reads past the buffer, unless  *)
(* the mark is the end-of-file character in a string nobody closed.        *)
THEOREM StopsBeforeTheEnd == Spec => []StopsInBuffer
<1>1. Init => StopsInBuffer BY DEF Init, StopsInBuffer
<1> QED BY Invariance, <1>1, StopsKept, PTL DEF Spec

-----------------------------------------------------------------------------
(* What the characters of a token are.                                     *)

(* Only the token of a line feed has one, unless it is an error, and only  *)
(* a token that ends the scan ends in an end mark.                         *)
Tame(t) == /\ t.type \notin {"T_LF", "T_ERROR"} => \A e \in Start .. t.next - 1 : Ch(e) # Lf
           /\ t.type = "T_LF" => t.next = Start + 1 /\ Ch(Start) = Lf
           /\ t.type \notin T!Sentinels => Ch(t.next - 1) \notin EndMarks

LEMMA PlainCharacters ==
  /\ Lf \notin Digit \cup Alpha \cup Doubling \cup {Blank, ".", Quote, Eof, Nul}
  /\ Quote \notin Digit \cup Alpha \cup EndMarks
  /\ \A c \in Digit \cup Alpha : c \notin EndMarks
BY DEF Lf, Quote, EndMarks, Eof, Nul, Blank, Digit, Alpha, Doubling

LEMMA KeywordTypes ==
  ASSUME NEW k \in Keywords
  PROVE  k.type # "T_LF" /\ k.type # "T_ERROR"
<1> DEFINE Types == {"T_INTID", "T_IF", "T_BOOLID", "T_BREAK", "T_DEF",
                     "T_DOUBLEID", "T_ELSE", "T_ENUM", "T_FLOATID",
                     "T_BOOL", "T_RETURN", "T_STRINGID", "T_STRUCT",
                     "T_UNION", "T_WHILE"}
<1>1. CASE \E w \in Reserved : k = Keyword(w[1], w[2], Len(w[1]))
  <2>1. PICK w \in Reserved : k = Keyword(w[1], w[2], Len(w[1])) BY <1>1
  <2>2. k.type = w[2] BY <2>1 DEF Keyword
  <2>3. \E text \in {r[1] : r \in Reserved}, t \in Types : w = <<text, t>>
    BY Zenon DEF Reserved
  <2> QED BY <2>2, <2>3
<1>2. CASE k = Keyword(<<"c", "h", "a", "r">>, "T_CHARID", 1) BY <1>2 DEF Keyword
<1>3. CASE k = Keyword(<<"c", "o", "n", "t">>, "T_CONTINUE", 1) BY <1>3 DEF Keyword
<1> QED BY <1>1, <1>2, <1>3, Zenon DEF Keywords

LEMMA NumberTame ==
  ASSUME buf \in Seq(Char), ip \in Nat, ip <= Size, Begins(Digit)
  PROVE  Tame(Number)
<1> DEFINE whole == End(Start, Digit)
           fraction == End(whole + 1, Digit)
<1>1. Start \in Nat /\ Size \in Nat /\ Start < Size /\ Ch(Start) \in Digit
  BY StartProperties DEF Begins
<1>2. /\ whole \in Start .. Size /\ \A e \in Start .. whole - 1 : Ch(e) \in Digit
      /\ whole < Size => Ch(whole) \notin Digit
  BY <1>1, EndProperties
<1>3. Start < whole BY <1>1, <1>2
<1>4. /\ Number.type \in {"T_INT", "T_FLOAT"} /\ Start < Number.next /\ Number.next \in Nat
      /\ \A e \in Start .. Number.next - 1 : Ch(e) \in Digit \cup {"."}
  <2>1. CASE Has(whole, ".")
    <3>1. whole + 1 \in Nat /\ whole + 1 <= Size /\ Ch(whole) = "."
      BY <1>1, <1>2, <2>1 DEF Has
    <3>2. /\ fraction \in whole + 1 .. Size
          /\ \A e \in whole + 1 .. fraction - 1 : Ch(e) \in Digit
      BY <3>1, EndProperties
    <3>3. Number.next = fraction /\ Number.type = "T_FLOAT" BY <2>1, ScannedFields DEF Number
    <3> HIDE DEF fraction, whole
    <3> QED BY <1>1, <1>2, <1>3, <3>1, <3>2, <3>3
  <2>2. CASE ~Has(whole, ".")
    <3>1. Number.next = whole /\ Number.type = "T_INT" BY <2>2, ScannedFields DEF Number
    <3> HIDE DEF whole
    <3> QED BY <1>1, <1>2, <1>3, <3>1
  <2> QED BY <2>1, <2>2
<1>5. \A e \in Start .. Number.next - 1 : Ch(e) # Lf /\ Ch(e) \notin EndMarks
  BY <1>4, PlainCharacters, MarksApart
<1>6. Number.next - 1 \in Start .. Number.next - 1 BY <1>1, <1>4
<1> QED BY <1>4, <1>5, <1>6 DEF Tame

LEMMA WordTame ==
  ASSUME buf \in Seq(Char), ip \in Nat, ip <= Size, Begins(Alpha)
  PROVE  Tame(Word)
<1> DEFINE word == End(Start + 1, Alpha)
           name == End(Start + 1, Alpha \cup Digit)
           found == {k \in Keywords : word <= Size /\ k.text = Text(Start, word)}
           k == CHOOSE f \in found : TRUE
<1>1. Start \in Nat /\ Size \in Nat /\ Start < Size /\ Ch(Start) \in Alpha
  BY StartProperties DEF Begins
<1>2. /\ word \in Start + 1 .. Size /\ name \in Start + 1 .. Size
      /\ \A e \in Start + 1 .. word - 1 : Ch(e) \in Alpha
      /\ \A e \in Start + 1 .. name - 1 : Ch(e) \in Alpha \cup Digit
  BY <1>1, EndProperties
<1>3. /\ Word.type \notin {"T_LF", "T_ERROR"} /\ Start < Word.next /\ Word.next \in Nat
      /\ \A e \in Start .. Word.next - 1 : Ch(e) \in Alpha \cup Digit
  <2>1. CASE found = {}
    <3>1. Word.type = "T_IDENTIFIER" /\ Word.next = name BY <2>1, ScannedFields DEF Word
    <3> HIDE DEF name
    <3> QED BY <1>1, <1>2, <3>1
  <2>2. CASE found # {}
    <3>1. k \in found BY <2>2
    <3>2. Word.type = k.type /\ Word.next = Start + k.size BY <2>2, ScannedFields DEF Word
    <3>3. k \in Keywords /\ k.text = Text(Start, word) BY <3>1
    <3> HIDE DEF k, found, name, word
    <3>4. word \in Nat /\ Start < word /\ word <= Size BY <1>1, <1>2
    <3>5. Len(k.text) = word - Start BY <1>1, <3>3, <3>4, TextType
    <3>6. k.size \in Nat /\ 1 <= k.size /\ k.size <= word - Start
      BY <3>3, <3>5, KeywordProperties
    <3>7. Start < Start + k.size /\ Start + k.size <= word /\ Start + k.size \in Nat
      BY <1>1, <3>4, <3>6
    <3>8. \A e \in Start + 1 .. Start + k.size - 1 : Ch(e) \in Alpha
      BY <1>1, <1>2, <3>4, <3>6, <3>7
    <3>9. \A e \in Start .. Start + k.size - 1 : e = Start \/ e \in Start + 1 .. Start + k.size - 1
      BY <1>1, <3>7
    <3>10. \A e \in Start .. Start + k.size - 1 : Ch(e) \in Alpha BY <1>1, <3>8, <3>9
    <3>11. k.type \notin {"T_LF", "T_ERROR"} BY <3>3, KeywordTypes
    <3>12. Word.next - 1 = Start + k.size - 1 BY <1>1, <3>2, <3>6
    <3>13. \A e \in Start .. Word.next - 1 : Ch(e) \in Alpha \cup Digit BY <3>10, <3>12
    <3> QED BY <3>2, <3>7, <3>11, <3>13
  <2> QED BY <2>1, <2>2
<1>4. \A e \in Start .. Word.next - 1 : Ch(e) # Lf /\ Ch(e) \notin EndMarks
  BY <1>3, PlainCharacters
<1>5. Word.next - 1 \in Start .. Word.next - 1 BY <1>1, <1>3
<1> QED BY <1>3, <1>4, <1>5 DEF Tame

LEMMA StringTame ==
  ASSUME buf \in Seq(Char), ip \in Nat, ip <= Size, Begins({Quote})
  PROVE  Tame(StringLiteral)
<1> DEFINE stop == End(Start + 1, Char \ StringStops)
<1>1. Start \in Nat /\ Size \in Nat /\ Start < Size /\ Ch(Start) = Quote
  BY StartProperties DEF Begins
<1>2. /\ stop \in Start + 1 .. Size
      /\ \A e \in Start + 1 .. stop - 1 : Ch(e) \in Char \ StringStops
  BY <1>1, EndProperties
<1>3. /\ StringLiteral.type = IF Has(stop, Quote) THEN "T_STRING_LITERAL" ELSE "T_ERROR"
      /\ StringLiteral.next = stop + 1 /\ StringLiteral.seen = stop
  BY ScannedFields DEF StringLiteral
<1> HIDE DEF stop
<1>4. CASE Has(stop, Quote)
  <2>1. Ch(stop) = Quote BY <1>4 DEF Has
  <2>2. \A e \in Start .. stop : Ch(e) # Lf
    BY <1>1, <1>2, <2>1, PlainCharacters DEF StringStops
  <2>3. StringLiteral.next - 1 = stop BY <1>1, <1>2, <1>3
  <2> QED BY <1>3, <1>4, <2>1, <2>2, <2>3, PlainCharacters DEF Tame
<1>5. CASE ~Has(stop, Quote)
  <2>1. "T_ERROR" \in T!Sentinels BY DEF T!Sentinels
  <2> QED BY <1>3, <1>5, <2>1 DEF Tame
<1> QED BY <1>4, <1>5

(* The spellings: one or two characters, the first of two one of those     *)
(* whose follower is looked at; apart from the line feed and the           *)
(* end-of-file character, none is a mark.                                  *)
Printed == {"(", ")", "{", "}", ".", "+", "-", "*", "/", ";", ":", ",", "!",
            "=", "<", ">", "&", "|", "TAB"}

LEMMA SymbolSpellings ==
  ASSUME NEW s \in Symbols
  PROVE  \/ s = <<<<Lf>>, "T_LF">>
         \/ s = <<<<Eof>>, "T_EOF">>
         \/ /\ s[2] \notin T!Sentinels \cup {"T_LF"}
            /\ \/ \E c \in Printed : s[1] = <<c>>
               \/ \E c, d \in Printed : s[1] = <<c, d>>
<1> DEFINE Types == {"T_LEFT_PAR", "T_RIGHT_PAR", "T_LEFT_BRACE", "T_RIGHT_BRACE",
                     "T_DOT", "T_PLUS", "T_MINUS", "T_STAR", "T_SLASH",
                     "T_SEMICOLON", "T_COLON", "T_COMMA", "T_BANG",
                     "T_BANG_EQUAL", "T_EQUAL", "T_EQUAL_EQUAL", "T_GREATER",
                     "T_GREATER_EQUAL", "T_LESS", "T_LESS_EQUAL",
                     "T_SHIFT_RIGHT", "T_SHIFT_LEFT", "T_AMPERSAND", "T_AND",
                     "T_BIT_OR", "T_OR", "T_TAB"}
<1>1. \A t \in Types : t \notin T!Sentinels \cup {"T_LF"} BY DEF T!Sentinels
<1> DEFINE Texts == {<<"(">>, <<")">>, <<"{">>, <<"}">>, <<".">>, <<"+">>, <<"-">>,
                     <<"*">>, <<"/">>, <<";">>, <<":">>, <<",">>, <<"!">>, <<"=">>,
                     <<">">>, <<"<">>, <<"&">>, <<"|">>, <<"TAB">>, <<"!", "=">>,
                     <<"=", "=">>, <<">", "=">>, <<"<", "=">>, <<">", ">">>,
                     <<"<", "<">>, <<"&", "&">>, <<"|", "|">>}
<1>2. \/ s = <<<<Lf>>, "T_LF">> \/ s = <<<<Eof>>, "T_EOF">>
      \/ \E w \in Texts, t \in Types : s = <<w, t>>
  BY ZenonT(60) DEF Symbols
<1>3. \A w \in Texts : (\E c \in Printed : w = <<c>>) \/ (\E c, d \in Printed : w = <<c, d>>)
  BY ZenonT(60) DEF Printed
<1> HIDE DEF Texts
<1> QED BY <1>1, <1>2, <1>3

LEMMA PrintedMarks == \A c \in Printed : c # Lf /\ c \notin EndMarks
BY DEF Printed, Lf, EndMarks, Eof, Nul

LEMMA TextCharacters ==
  ASSUME buf \in Seq(Char), NEW i \in Nat, NEW j \in Nat, i < j, j <= Size
  PROVE  \A e \in i .. j - 1 : Ch(e) = Text(i, j)[e - i + 1]
<1>1. Size \in Nat BY SizeType
<1>2. \A k \in 1 .. j - i : SubSeq(buf, i + 1, j)[k] = buf[i + k]
  BY <1>1, SubSeqProperties DEF Size
<1>3. \A e \in i .. j - 1 : e - i + 1 \in 1 .. j - i /\ i + (e - i + 1) = e + 1 OBVIOUS
<1> QED BY <1>2, <1>3 DEF Ch, Text

LEMMA SymbolTame ==
  ASSUME buf \in Seq(Char), ip \in Nat, ip <= Size, NEW S, Begins(S)
  PROVE  Tame(Symbol)
<1> DEFINE two == Start + 2 <= Size /\ Ch(Start) \in Doubling
                  /\ Spelled(Text(Start, Start + 2)) # {}
           next == IF two THEN Start + 2 ELSE Start + 1
           found == Spelled(Text(Start, next))
           s == CHOOSE f \in found : TRUE
<1>1. Start \in Nat /\ Size \in Nat /\ Start < Size BY StartProperties DEF Begins
<1>2. next \in Nat /\ Start < next /\ next <= Size BY <1>1
<1>3. /\ Symbol.type = IF found = {} THEN "T_ERROR" ELSE s[2]
      /\ Symbol.next = next
  BY ScannedFields DEF Symbol
<1>4. CASE found = {} BY <1>3, <1>4 DEF Tame, T!Sentinels
<1>5. CASE found # {}
  <2>1. s \in found BY <1>5
  <2>2. s \in Symbols /\ s[1] = Text(Start, next) BY <2>1 DEF Spelled
  <2>3. Symbol.type = s[2] BY <1>3, <1>5
  <2> HIDE DEF next, found, s
  <2>4. Len(s[1]) = next - Start /\ \A e \in Start .. next - 1 : Ch(e) = s[1][e - Start + 1]
    BY <1>1, <1>2, <2>2, TextType, TextCharacters
  <2>5. \A e \in Start .. next - 1 : e - Start + 1 \in 1 .. next - Start BY <1>1, <1>2
  <2>6. Start \in Start .. next - 1 /\ Start - Start + 1 = 1 BY <1>1, <1>2
  <2>7. next - 1 \in Start .. next - 1 BY <1>1, <1>2
  <2>8. ASSUME NEW c, s[1] = <<c>> PROVE next = Start + 1 /\ Ch(Start) = c
    <3>1. Len(s[1]) = 1 /\ s[1][1] = c BY <2>8
    <3>2. next - Start = 1 BY <2>4, <3>1, Zenon
    <3>3. next = Start + 1 BY <1>1, <1>2, <3>2
    <3>4. Ch(Start) = s[1][Start - Start + 1] BY <2>4, <2>6
    <3> QED BY <2>6, <3>1, <3>3, <3>4
  <2>9. CASE s = <<<<Lf>>, "T_LF">>
    <3>1. s[1] = <<Lf>> /\ s[2] = "T_LF" BY <2>9
    <3>2. next = Start + 1 /\ Ch(Start) = Lf BY <2>8, <3>1
    <3>3. Lf \notin EndMarks BY DEF Lf, EndMarks, Eof, Nul
    <3>4. next - 1 = Start BY <1>1, <3>2
    <3> QED BY <1>3, <2>3, <3>1, <3>2, <3>3, <3>4 DEF Tame
  <2>10. CASE s = <<<<Eof>>, "T_EOF">>
    <3>1. s[1] = <<Eof>> /\ s[2] = "T_EOF" BY <2>10
    <3>2. next = Start + 1 /\ Ch(Start) = Eof BY <2>8, <3>1
    <3>3. Lf # Eof /\ "T_EOF" \in T!Sentinels BY DEF Lf, Eof, T!Sentinels
    <3>4. \A e \in Start .. next - 1 : e = Start BY <1>1, <3>2
    <3> QED BY <1>3, <2>3, <3>1, <3>2, <3>3, <3>4 DEF Tame
  <2>11. CASE /\ s[2] \notin T!Sentinels \cup {"T_LF"}
              /\ (\E c \in Printed : s[1] = <<c>>) \/ (\E c, d \in Printed : s[1] = <<c, d>>)
    <3>1. \A i \in 1 .. Len(s[1]) : s[1][i] \in Printed
      <4>1. CASE \E c \in Printed : s[1] = <<c>> BY <4>1
      <4>2. CASE \E c, d \in Printed : s[1] = <<c, d>> BY <4>2
      <4> QED BY <2>11, <4>1, <4>2
    <3>2. \A e \in Start .. next - 1 : Ch(e) \in Printed BY <2>4, <2>5, <3>1
    <3> QED BY <1>3, <2>3, <2>7, <2>11, <3>2, PrintedMarks DEF Tame
  <2> QED BY <2>2, <2>9, <2>10, <2>11, SymbolSpellings
<1> QED BY <1>4, <1>5

-----------------------------------------------------------------------------
(* An end-of-file character after a line feed is a wall: no token that     *)
(* begins before it reaches past it, nor does any read.                    *)
Wall(e) == e \in Nat /\ 1 <= e /\ e < Size /\ Ch(e) = Eof /\ Ch(e - 1) = Lf

Blocked(t) == \A e : Wall(e) /\ Start <= e => t.seen <= e /\ t.next <= e + 1

LEMMA WallCharacters ==
  /\ Eof \notin Digit \cup Alpha \cup Doubling \cup {".", Blank, Quote, Lf}
  /\ Lf \notin Doubling \cup {Quote}
  /\ Lf \in StringStops
BY DEF Digit, Alpha, Doubling, Blank, Quote, Eof, Lf, StringStops

LEMMA NumberBlocked ==
  ASSUME buf \in Seq(Char), ip \in Nat, ip <= Size, Begins(Digit)
  PROVE  Blocked(Number)
<1> DEFINE whole == End(Start, Digit)
           fraction == End(whole + 1, Digit)
<1>1. Start \in Nat /\ Size \in Nat /\ Start < Size BY StartProperties DEF Begins
<1>2. whole \in Start .. Size /\ \A e \in Start .. whole - 1 : Ch(e) \in Digit
  BY <1>1, EndProperties
<1>3. /\ Number.seen \in Nat /\ Number.next = Number.seen
      /\ \A e \in Start .. Number.seen - 1 : Ch(e) \in Digit \cup {"."}
  <2>1. CASE Has(whole, ".")
    <3>1. whole + 1 \in Nat /\ whole + 1 <= Size /\ Ch(whole) = "."
      BY <1>1, <1>2, <2>1 DEF Has
    <3>2. /\ fraction \in whole + 1 .. Size
          /\ \A e \in whole + 1 .. fraction - 1 : Ch(e) \in Digit
      BY <3>1, EndProperties
    <3>3. Number.seen = fraction /\ Number.next = fraction
      BY <2>1, ScannedFields DEF Number
    <3> HIDE DEF fraction, whole
    <3> QED BY <1>1, <1>2, <3>1, <3>2, <3>3
  <2>2. CASE ~Has(whole, ".")
    <3>1. Number.seen = whole /\ Number.next = whole BY <2>2, ScannedFields DEF Number
    <3> HIDE DEF whole
    <3> QED BY <1>1, <1>2, <3>1
  <2> QED BY <2>1, <2>2
<1>4. ASSUME NEW e, Wall(e), Start <= e PROVE Number.seen <= e
  <2>1. e \notin Start .. Number.seen - 1 BY <1>3, <1>4, WallCharacters DEF Wall
  <2> QED BY <1>1, <1>3, <1>4, <2>1 DEF Wall
<1> QED BY <1>3, <1>4 DEF Blocked, Wall

LEMMA WordBlocked ==
  ASSUME buf \in Seq(Char), ip \in Nat, ip <= Size, Begins(Alpha)
  PROVE  Blocked(Word)
<1> DEFINE word == End(Start + 1, Alpha)
           name == End(Start + 1, Alpha \cup Digit)
           found == {k \in Keywords : word <= Size /\ k.text = Text(Start, word)}
           k == CHOOSE f \in found : TRUE
<1>1. Start \in Nat /\ Size \in Nat /\ Start < Size /\ Ch(Start) \in Alpha
  BY StartProperties DEF Begins
<1>2. /\ word \in Start + 1 .. Size /\ name \in Start + 1 .. Size
      /\ \A e \in Start + 1 .. word - 1 : Ch(e) \in Alpha
      /\ \A e \in Start + 1 .. name - 1 : Ch(e) \in Alpha \cup Digit
  BY <1>1, EndProperties
<1>3. Word.seen \in {word, name} /\ Word.next \in Nat /\ Word.next <= Word.seen
  <2>1. CASE found = {}
    <3>1. Word.seen = name /\ Word.next = name BY <2>1, ScannedFields DEF Word
    <3> HIDE DEF name
    <3> QED BY <1>1, <1>2, <3>1
  <2>2. CASE found # {}
    <3>1. k \in found BY <2>2
    <3>2. Word.seen = word /\ Word.next = Start + k.size BY <2>2, ScannedFields DEF Word
    <3>3. k \in Keywords /\ k.text = Text(Start, word) BY <3>1
    <3> HIDE DEF k, found, name, word
    <3>4. word \in Nat /\ Start < word /\ word <= Size BY <1>1, <1>2
    <3>5. Len(k.text) = word - Start BY <1>1, <3>3, <3>4, TextType
    <3>6. k.size \in Nat /\ k.size <= word - Start BY <3>3, <3>5, KeywordProperties
    <3>7. Start + k.size \in Nat /\ Start + k.size <= word BY <1>1, <3>4, <3>6
    <3> QED BY <3>2, <3>7
  <2> QED BY <2>1, <2>2
<1> HIDE DEF word, name, found
<1>4. Word.seen \in Nat /\ \A e \in Start .. Word.seen - 1 : Ch(e) \in Alpha \cup Digit
  BY <1>1, <1>2, <1>3
<1>5. ASSUME NEW e, Wall(e), Start <= e PROVE Word.seen <= e
  <2>1. e \notin Start .. Word.seen - 1 BY <1>4, <1>5, WallCharacters DEF Wall
  <2> QED BY <1>1, <1>4, <1>5, <2>1 DEF Wall
<1>6. ASSUME NEW e, Wall(e), Start <= e PROVE Word.next <= e + 1
  BY <1>3, <1>4, <1>5, <1>6 DEF Wall
<1> QED BY <1>5, <1>6 DEF Blocked

LEMMA StringBlocked ==
  ASSUME buf \in Seq(Char), ip \in Nat, ip <= Size, Begins({Quote})
  PROVE  Blocked(StringLiteral)
<1> DEFINE stop == End(Start + 1, Char \ StringStops)
<1>1. Start \in Nat /\ Size \in Nat /\ Start < Size /\ Ch(Start) = Quote
  BY StartProperties DEF Begins
<1>2. /\ stop \in Start + 1 .. Size
      /\ \A e \in Start + 1 .. stop - 1 : Ch(e) \in Char \ StringStops
  BY <1>1, EndProperties
<1>3. StringLiteral.next = stop + 1 /\ StringLiteral.seen = stop
  BY ScannedFields DEF StringLiteral
<1> HIDE DEF stop
<1>4. ASSUME NEW e, Wall(e), Start <= e PROVE stop <= e - 1
  <2>1. e \in Nat /\ 1 <= e /\ Ch(e) = Eof /\ Ch(e - 1) = Lf BY <1>4 DEF Wall
  <2>2. Start # e /\ Start # e - 1 BY <1>1, <2>1, WallCharacters
  <2>3. e - 1 \in Nat /\ Start + 1 <= e - 1 BY <1>1, <1>4, <2>1, <2>2
  <2>4. e - 1 \notin Start + 1 .. stop - 1 BY <1>2, <2>1, WallCharacters
  <2> QED BY <1>1, <1>2, <2>3, <2>4
<1>5. ASSUME NEW e, Wall(e), Start <= e
      PROVE  StringLiteral.seen <= e /\ StringLiteral.next <= e + 1
  <2>1. stop <= e - 1 BY <1>4, <1>5
  <2>2. e \in Nat /\ stop \in Nat BY <1>1, <1>2, <1>5 DEF Wall
  <2>3. stop <= e /\ stop + 1 <= e + 1 BY <2>1, <2>2
  <2> QED BY <1>3, <2>3
<1> QED BY <1>5 DEF Blocked

LEMMA SymbolBlocked ==
  ASSUME buf \in Seq(Char), ip \in Nat, ip <= Size, NEW S, Begins(S)
  PROVE  Blocked(Symbol)
<1>1. Start \in Nat /\ Size \in Nat /\ Start < Size BY StartProperties DEF Begins
<1> DEFINE two == Start + 2 <= Size /\ Ch(Start) \in Doubling
                  /\ Spelled(Text(Start, Start + 2)) # {}
           next == IF two THEN Start + 2 ELSE Start + 1
           seen == IF Ch(Start) \in Doubling THEN Start + 1 ELSE Start
<1>2. Symbol.next = next /\ Symbol.seen = seen BY ScannedFields DEF Symbol
<1>3. ASSUME NEW e, Wall(e), Start <= e
      PROVE  Symbol.seen <= e /\ Symbol.next <= e + 1
  <2>1. e \in Nat /\ Ch(e) = Eof BY <1>3 DEF Wall
  <2>2. Ch(Start) \in Doubling => Start # e BY <2>1, WallCharacters
  <2>3. seen <= e /\ next <= e + 1 BY <1>1, <1>3, <2>1, <2>2
  <2> QED BY <1>2, <2>3
<1> QED BY <1>3 DEF Blocked

-----------------------------------------------------------------------------
(* A turn of the loop, whatever the kind of token.                         *)
Turn == \E t : Possible(t) /\ Tame(t) /\ Blocked(t) /\ Emit(t)

LEMMA Turns ==
  ASSUME IInv, [Next]_vars
  PROVE  \/ UNCHANGED vars
         \/ RunOff
         \/ status = "running" /\ Start < Size /\ Turn
<1>1. buf \in Seq(Char) /\ ip \in Nat /\ ip <= Size BY DEF IInv, TypeOK, Extents
<1>2. CASE ScanNumber
  <2>1. Begins(Digit) /\ Emit(Number) BY <1>2 DEF ScanNumber
  <2> QED BY <1>1, <2>1, NumberPossible, NumberTame, NumberBlocked DEF Begins, Turn
<1>3. CASE ScanWord
  <2>1. Begins(Alpha) /\ Emit(Word) BY <1>3 DEF ScanWord
  <2> QED BY <1>1, <2>1, WordPossible, WordTame, WordBlocked DEF Begins, Turn
<1>4. CASE ScanString
  <2>1. Begins({Quote}) /\ Emit(StringLiteral) BY <1>4 DEF ScanString
  <2> QED BY <1>1, <2>1, StringPossible, StringTame, StringBlocked DEF Begins, Turn
<1>5. CASE ScanSymbol
  <2>1. Begins(Char \ (Digit \cup Alpha \cup {Quote})) /\ Emit(Symbol)
    BY <1>5 DEF ScanSymbol
  <2> QED BY <1>1, <2>1, SymbolPossible, SymbolTame, SymbolBlocked DEF Begins, Turn
<1> QED BY <1>2, <1>3, <1>4, <1>5 DEF Next

(* What storing a token changes.                                           *)
Stored(t) == [type |-> t.type, start |-> Start, end |-> t.next, line |-> LineAfter(t.type)]

LEMMA TokenStored ==
  ASSUME IInv, NEW t, Possible(t), Emit(t), t.seen < Size
  PROVE  /\ Len(tokens) \in Nat
         /\ DOMAIN tokens' = DOMAIN tokens \cup {Len(tokens) + 1}
         /\ DOMAIN tokens = 1 .. Len(tokens)
         /\ \A i \in DOMAIN tokens : tokens'[i] = tokens[i]
         /\ tokens'[Len(tokens) + 1] = Stored(t)
         /\ ip' = t.next /\ line' = LineAfter(t.type) /\ buf' = buf /\ Size' = Size
         /\ status' = IF Last(t.type) THEN "done" ELSE "running"
<1>1. Size \in Nat /\ Start \in Nat BY StartProperties DEF IInv, TypeOK, Extents
<1>2. /\ ip' = t.next /\ line' = LineAfter(t.type) /\ buf' = buf
      /\ tokens' = Append(tokens, Stored(t))
      /\ status' = IF Last(t.type) THEN "done" ELSE "running"
  BY <1>1 DEF Emit, Possible, Stored
<1>3. Stored(t) \in ScannedToken
  BY <1>1 DEF ScannedToken, Possible, Stored, LineAfter, IInv, TypeOK
<1>4. tokens \in Seq(ScannedToken) BY DEF IInv, TypeOK
<1> QED BY <1>2, <1>3, <1>4, AppendProperties, LenProperties DEF Size

LEMMA NotStored ==
  ASSUME IInv, NEW t, Possible(t), Emit(t), t.seen >= Size
  PROVE  status' = "oob" /\ UNCHANGED <<buf, ip, line, tokens, capacity>>
<1>1. Size \in Nat BY SizeType DEF IInv, TypeOK
<1> QED BY <1>1 DEF Emit, Possible

LEMMA SeenOrNot ==
  ASSUME IInv, NEW t, Possible(t)
  PROVE  t.seen < Size \/ t.seen >= Size
BY SizeType DEF IInv, TypeOK, Possible

-----------------------------------------------------------------------------
(* While the scan goes on, the token before the cursor did not end it, and *)
(* so is not an end mark.                                                  *)
MarkAhead == status # "done" => ip = 0 \/ Ch(ip - 1) \notin EndMarks

LEMMA MarkStaysAhead == IInv /\ MarkAhead /\ [Next]_vars => MarkAhead'
<1> SUFFICES ASSUME IInv, MarkAhead, [Next]_vars PROVE MarkAhead' OBVIOUS
<1>1. CASE UNCHANGED vars BY <1>1 DEF vars, MarkAhead, Ch
<1>2. CASE RunOff BY <1>2 DEF RunOff, MarkAhead, Ch
<1>3. CASE status = "running" /\ Turn
  <2>1. PICK t : Possible(t) /\ Tame(t) /\ Emit(t) BY <1>3 DEF Turn
  <2>2. CASE t.seen < Size
    <3>1. /\ ip' = t.next /\ buf' = buf
          /\ status' = IF t.type \in T!Sentinels THEN "done" ELSE "running"
      BY <2>1, <2>2, TokenStored DEF Last
    <3>2. t.type \notin T!Sentinels => Ch(t.next - 1) \notin EndMarks BY <2>1 DEF Tame
    <3> QED BY <3>1, <3>2 DEF MarkAhead, Ch
  <2>3. CASE t.seen >= Size BY <1>3, <2>1, <2>3, NotStored DEF MarkAhead, Ch
  <2> QED BY <2>1, <2>2, <2>3, SeenOrNot
<1> QED BY <1>1, <1>2, <1>3, Turns

-----------------------------------------------------------------------------
(* A scan that begins before a wall stays there, and stops.                *)
Contained(e) == /\ Wall(e)
                /\ status # "oob"
                /\ status = "running" => ip <= e
                /\ \A i \in DOMAIN tokens : tokens[i].end <= e + 1

LEMMA ContainedKept ==
  ASSUME NEW e, IInv, Contained(e), [Next]_vars
  PROVE  Contained(e)'
<1>1. e \in Nat /\ e < Size /\ Ch(e) = Eof BY DEF Contained, Wall
<1>2. status = "running" => Start <= e
  <2> SUFFICES ASSUME status = "running" PROVE Start <= e OBVIOUS
  <2>1. /\ buf \in Seq(Char) /\ ip \in Nat /\ ip <= Size /\ ip <= e
        /\ Start \in Nat
    BY StartProperties DEF IInv, TypeOK, Extents, Contained
  <2>2. \A k \in ip .. Start - 1 : Ch(k) \in {Blank} BY <2>1, EndProperties DEF Start
  <2>3. e \notin ip .. Start - 1 BY <1>1, <2>2, WallCharacters
  <2> QED BY <1>1, <2>1, <2>3
<1>3. CASE UNCHANGED vars BY <1>3 DEF vars, Contained, Wall, Size, Ch
<1>4. CASE RunOff
  <2>1. status = "running" /\ Start = Size BY <1>4 DEF RunOff
  <2>2. Size \in Nat BY SizeType DEF IInv, TypeOK
  <2> QED BY <1>1, <1>2, <2>1, <2>2
<1>5. CASE status = "running" /\ Turn
  <2>1. PICK t : Possible(t) /\ Tame(t) /\ Blocked(t) /\ Emit(t) BY <1>5 DEF Turn
  <2>2. t.seen <= e /\ t.next <= e + 1 /\ t.next \in Nat /\ t.seen \in Nat
    BY <1>2, <1>5, <2>1 DEF Blocked, Contained, Possible
  <2>3. Size \in Nat BY SizeType DEF IInv, TypeOK
  <2>4. t.seen < Size BY <1>1, <2>2, <2>3
  <2>5. /\ DOMAIN tokens' = DOMAIN tokens \cup {Len(tokens) + 1}
        /\ \A i \in DOMAIN tokens : tokens'[i] = tokens[i]
        /\ tokens'[Len(tokens) + 1] = Stored(t)
        /\ ip' = t.next /\ buf' = buf /\ Size' = Size
        /\ status' = IF t.type \in T!Sentinels THEN "done" ELSE "running"
    BY <2>1, <2>4, TokenStored DEF Last
  <2>6. \A i \in DOMAIN tokens' : tokens'[i].end <= e + 1
    BY <2>2, <2>5 DEF Contained, Stored
  <2>7. status' = "running" => ip' <= e
    <3> SUFFICES ASSUME t.type \notin T!Sentinels PROVE t.next <= e BY <2>5
    <3>1. Ch(t.next - 1) \notin EndMarks BY <2>1 DEF Tame
    <3>2. t.next - 1 # e BY <1>1, <3>1 DEF EndMarks
    <3> QED BY <1>1, <2>2, <3>2
  <2>8. Wall(e)' BY <2>5 DEF Contained, Wall, Ch
  <2>9. status' # "oob" BY <2>5
  <2> QED BY <2>6, <2>7, <2>8, <2>9 DEF Contained
<1> QED BY <1>3, <1>4, <1>5, Turns

-----------------------------------------------------------------------------
(* Counting line feeds.                                                    *)

LEMMA LfsFinite ==
  ASSUME NEW i \in Nat
  PROVE  IsFiniteSet(LfsUpTo(i)) /\ Cardinality(LfsUpTo(i)) \in Nat
<1>1. IsFiniteSet(1 .. i) BY FS_Interval
<1>2. LfsUpTo(i) \subseteq 1 .. i BY DEF LfsUpTo
<1> QED BY <1>1, <1>2, FS_Subset, FS_CardinalityType

LEMMA LfsWithout ==
  ASSUME NEW i \in Nat, NEW j \in Nat, i <= j, \A e \in i .. j - 1 : Ch(e) # Lf
  PROVE  LfsUpTo(j) = LfsUpTo(i)
<1>1. ASSUME NEW p \in 1 .. j, buf[p] = Lf PROVE p \in 1 .. i
  <2>1. p - 1 \in Nat /\ (p - 1) + 1 = p BY <1>1
  <2>2. Ch(p - 1) = Lf BY <1>1, <2>1 DEF Ch
  <2>3. p - 1 \notin i .. j - 1 BY <2>2
  <2> QED BY <1>1, <2>3
<1>2. 1 .. i \subseteq 1 .. j OBVIOUS
<1> QED BY <1>1, <1>2 DEF LfsUpTo

LEMMA LfsWith ==
  ASSUME NEW i \in Nat, Ch(i) = Lf
  PROVE  Cardinality(LfsUpTo(i + 1)) = Cardinality(LfsUpTo(i)) + 1
<1>1. LfsUpTo(i + 1) = LfsUpTo(i) \cup {i + 1}
  <2>1. 1 .. i + 1 = (1 .. i) \cup {i + 1} OBVIOUS
  <2> QED BY <2>1 DEF LfsUpTo, Ch
<1>2. i + 1 \notin LfsUpTo(i) BY DEF LfsUpTo
<1> QED BY <1>1, <1>2, LfsFinite, FS_AddElement

(* The scanner's own count, which has to be right for the next token's     *)
(* line to be.                                                             *)
Counting == status = "running" => line = Cardinality(LfsUpTo(ip)) + 1

Counted(t) ==
  t.line = Cardinality(LfsUpTo(IF t.type = "T_ERROR" THEN t.start ELSE t.end)) + 1

LEMMA LinesKept == IInv /\ Counting /\ LinesCounted /\ [Next]_vars => (Counting /\ LinesCounted)'
<1> SUFFICES ASSUME IInv, Counting, LinesCounted, [Next]_vars
             PROVE  (Counting /\ LinesCounted)'
  OBVIOUS
<1>1. \A i \in DOMAIN tokens : Counted(tokens[i]) BY DEF LinesCounted, Counted
<1>2. ASSUME UNCHANGED <<buf, ip, line, tokens>>, status' \in {status, "oob"}
      PROVE  (Counting /\ LinesCounted)'
  BY <1>2 DEF Counting, LinesCounted, LfsUpTo
<1>3. CASE UNCHANGED vars BY <1>2, <1>3 DEF vars
<1>4. CASE RunOff BY <1>2, <1>4 DEF RunOff
<1>5. CASE status = "running" /\ Turn
  <2>1. PICK t : Possible(t) /\ Tame(t) /\ Emit(t) BY <1>5 DEF Turn
  <2>2. CASE t.seen >= Size BY <1>2, <2>1, <2>2, NotStored
  <2>3. CASE t.seen < Size
    <3>1. /\ DOMAIN tokens' = DOMAIN tokens \cup {Len(tokens) + 1}
          /\ \A i \in DOMAIN tokens : tokens'[i] = tokens[i]
          /\ tokens'[Len(tokens) + 1] = Stored(t)
          /\ ip' = t.next /\ line' = LineAfter(t.type) /\ buf' = buf
          /\ status' = IF t.type \in T!Sentinels THEN "done" ELSE "running"
      BY <2>1, <2>3, TokenStored DEF Last
    <3>2. /\ buf \in Seq(Char) /\ ip \in Nat /\ ip <= Size /\ Start \in Nat /\ ip <= Start
          /\ t.next \in Nat /\ Start < t.next
      BY <2>1, StartProperties DEF IInv, TypeOK, Extents, Possible
    <3>3. \A e \in ip .. Start - 1 : Ch(e) # Lf
      <4>1. \A e \in ip .. Start - 1 : Ch(e) \in {Blank}
        BY <3>2, EndProperties DEF Start
      <4> QED BY <4>1, PlainCharacters
    <3>4. line = Cardinality(LfsUpTo(Start)) + 1
      BY <1>5, <3>2, <3>3, LfsWithout DEF Counting
    <3>5. /\ t.type # "T_ERROR" => LineAfter(t.type) = Cardinality(LfsUpTo(t.next)) + 1
          /\ t.type = "T_ERROR" => LineAfter(t.type) = Cardinality(LfsUpTo(Start)) + 1
      <4>1. CASE t.type = "T_LF"
        <5>1. t.next = Start + 1 /\ Ch(Start) = Lf BY <2>1, <4>1 DEF Tame
        <5>2. Cardinality(LfsUpTo(t.next)) = Cardinality(LfsUpTo(Start)) + 1
          BY <3>2, <5>1, LfsWith
        <5> QED BY <3>4, <4>1, <5>2 DEF LineAfter
      <4>2. CASE t.type = "T_ERROR" BY <3>4, <4>2 DEF LineAfter
      <4>3. CASE t.type \notin {"T_LF", "T_ERROR"}
        <5>1. LfsUpTo(t.next) = LfsUpTo(Start)
          BY <2>1, <3>2, <4>3, LfsWithout DEF Tame
        <5> QED BY <3>4, <4>3, <5>1 DEF LineAfter
      <4> QED BY <4>1, <4>2, <4>3
    <3>6. Counted(Stored(t)) BY <3>5 DEF Counted, Stored
    <3>7. \A i \in DOMAIN tokens' : Counted(tokens'[i]) BY <1>1, <3>1, <3>6
    <3>8. LinesCounted'
      <4>1. \A j \in Nat : LfsUpTo(j)' = LfsUpTo(j) BY <3>1 DEF LfsUpTo
      <4> QED BY <3>1, <3>7 DEF LinesCounted, Counted, LfsUpTo
    <3>9. Counting'
      <4>1. "T_ERROR" \in T!Sentinels BY DEF T!Sentinels
      <4> QED BY <3>1, <3>5, <4>1 DEF Counting, LfsUpTo
    <3> QED BY <3>8, <3>9
  <2> QED BY <2>1, <2>2, <2>3, SeenOrNot
<1> QED BY <1>3, <1>4, <1>5, Turns

(* Whatever the text, each token carries the line it is on.                *)
THEOREM LinesStayCounted == Spec => []LinesCounted
<1>1. Init => Counting /\ LinesCounted
  <2> SUFFICES ASSUME Init PROVE Counting /\ LinesCounted OBVIOUS
  <2>1. ip = 0 /\ line = 1 /\ tokens = <<>> BY DEF Init
  <2>2. LfsUpTo(ip) = {} BY <2>1 DEF LfsUpTo
  <2>3. Cardinality(LfsUpTo(ip)) = 0 BY <2>2, FS_EmptySet
  <2> QED BY <2>1, <2>3 DEF Counting, LinesCounted
<1> QED BY Invariance, <1>1, LinesKept, PTL DEF Spec

-----------------------------------------------------------------------------
(* The reference for tokens, read off the characters of the buffer.        *)
All(i, j, S) == \A e \in i .. j - 1 : Ch(e) \in S

LEMMA TextElements ==
  ASSUME buf \in Seq(Char), NEW i \in Nat, NEW j \in Nat, i <= j, j <= Size
  PROVE  /\ Text(i, j) \in Seq(Char) /\ Len(Text(i, j)) = j - i
         /\ DOMAIN Text(i, j) = 1 .. j - i
         /\ \A k \in 1 .. j - i : Text(i, j)[k] = Ch(i + k - 1) /\ i + k - 1 \in i .. j - 1
         /\ \A e \in i .. j - 1 : Text(i, j)[e - i + 1] = Ch(e) /\ e - i + 1 \in 1 .. j - i
<1>1. Size \in Nat /\ DOMAIN buf = 1 .. Size BY SizeType DEF Size
<1>2. \A k \in i + 1 .. j : buf[k] \in Char BY <1>1
<1>3. /\ Text(i, j) \in Seq(Char) /\ Len(Text(i, j)) = j - i
      /\ \A k \in 1 .. j - i : Text(i, j)[k] = buf[i + k]
  BY <1>1, <1>2, SubSeqProperties DEF Text
<1>4. \A k \in 1 .. j - i : i + k - 1 \in i .. j - 1 /\ Text(i, j)[k] = Ch(i + k - 1)
  <2> TAKE k \in 1 .. j - i
  <2>1. PICK e \in Nat : e = i + k - 1 OBVIOUS
  <2>2. e + 1 = i + k /\ e \in i .. j - 1 BY <2>1
  <2> QED BY <1>3, <2>1, <2>2 DEF Ch
<1>5. \A e \in i .. j - 1 : e - i + 1 \in 1 .. j - i /\ Text(i, j)[e - i + 1] = Ch(e)
  <2> TAKE e \in i .. j - 1
  <2>1. PICK k \in 1 .. j - i : k = e - i + 1 OBVIOUS
  <2>2. e + 1 = i + k BY <2>1
  <2> QED BY <1>3, <2>1, <2>2 DEF Ch
<1> QED BY <1>3, <1>4, <1>5

LEMMA OverText ==
  ASSUME buf \in Seq(Char), NEW i \in Nat, NEW j \in Nat, i <= j, j <= Size, NEW S
  PROVE  Over(Text(i, j), S) <=> All(i, j, S)
<1>1. /\ DOMAIN Text(i, j) = 1 .. j - i
      /\ \A k \in 1 .. j - i : Text(i, j)[k] = Ch(i + k - 1) /\ i + k - 1 \in i .. j - 1
      /\ \A e \in i .. j - 1 : Text(i, j)[e - i + 1] = Ch(e) /\ e - i + 1 \in 1 .. j - i
  BY TextElements
<1>2. ASSUME Over(Text(i, j), S), NEW e \in i .. j - 1 PROVE Ch(e) \in S
  <2>1. PICK k \in 1 .. j - i : k = e - i + 1 BY <1>1
  <2>2. k \in DOMAIN Text(i, j) /\ Text(i, j)[k] = Ch(e) BY <1>1, <2>1
  <2> QED BY <1>2, <2>2 DEF Over
<1>3. ASSUME All(i, j, S) PROVE Over(Text(i, j), S) BY <1>1, <1>3 DEF Over, All
<1> QED BY <1>2, <1>3 DEF All

(* A part of a text is the text of a part.                                 *)
IsPart(i, j, m, n, a, b) == SubSeq(Text(i, j), m, n) = Text(a, b)

LEMMA PartOfText ==
  ASSUME buf \in Seq(Char), NEW i \in Nat, NEW j \in Nat, i <= j, j <= Size,
         NEW a \in Nat, NEW b \in Nat, i <= a, a <= b, b <= j,
         NEW m \in Int, NEW n \in Int, m = a - i + 1, n = b - i
  PROVE  IsPart(i, j, m, n, a, b)
<1>1. /\ Text(i, j) \in Seq(Char) /\ Len(Text(i, j)) = j - i
      /\ DOMAIN Text(i, j) = 1 .. j - i
      /\ \A e \in i .. j - 1 : Text(i, j)[e - i + 1] = Ch(e) /\ e - i + 1 \in 1 .. j - i
  BY TextElements
<1>2. /\ Text(a, b) \in Seq(Char) /\ Len(Text(a, b)) = b - a
      /\ \A k \in 1 .. b - a : Text(a, b)[k] = Ch(a + k - 1)
  <2>1. Size \in Nat BY SizeType
  <2> QED BY <2>1, TextElements
<1>4. \A k \in m .. n : Text(i, j)[k] \in Char BY <1>1
<1> DEFINE part == SubSeq(Text(i, j), m, n)
<1>5. /\ part \in Seq(Char) /\ Len(part) = IF m <= n THEN n - m + 1 ELSE 0
      /\ \A k \in 1 .. n - m + 1 : part[k] = Text(i, j)[m + k - 1]
  BY <1>4, SubSeqProperties
<1>6. Len(part) = b - a /\ n - m + 1 = b - a BY <1>5
<1>7. \A k \in 1 .. b - a : part[k] = Text(a, b)[k]
  <2> TAKE k \in 1 .. b - a
  <2>1. PICK e \in i .. j - 1 : e = a + k - 1 OBVIOUS
  <2>2. e - i + 1 = m + k - 1 BY <2>1
  <2> QED BY <1>1, <1>2, <1>5, <1>6, <2>1, <2>2
<1> HIDE DEF part
<1>8. part = Text(a, b) BY <1>2, <1>5, <1>6, <1>7, SeqEqual
<1> QED BY <1>8 DEF part, IsPart

(* What each kind of lexeme is.                                            *)
LEMMA IntegerText ==
  ASSUME buf \in Seq(Char), NEW i \in Nat, NEW j \in Nat, i < j, j <= Size
  PROVE  Integer(Text(i, j)) <=> All(i, j, Digit)
BY TextType, OverText DEF Integer

Fraction(i, d, j) == d \in i + 1 .. j - 1 /\ Ch(d) = "." /\ All(i, d, Digit) /\ All(d + 1, j, Digit)

LEMMA FloatingText ==
  ASSUME buf \in Seq(Char), NEW i \in Nat, NEW j \in Nat, i < j, j <= Size
  PROVE  Floating(Text(i, j)) <=> \E d : Fraction(i, d, j)
<1> DEFINE Splits(k) == /\ Text(i, j)[k] = "."
                        /\ Integer(SubSeq(Text(i, j), 1, k - 1))
                        /\ Over(SubSeq(Text(i, j), k + 1, Len(Text(i, j))), Digit)
<1>1. /\ Len(Text(i, j)) = j - i /\ Size \in Nat
      /\ \A e \in i .. j - 1 : Text(i, j)[e - i + 1] = Ch(e)
  <2>1. i <= j OBVIOUS
  <2> QED BY <2>1, TextElements, SizeType
<1>2. ASSUME NEW d \in i + 1 .. j - 1, NEW k \in Int, k = d - i + 1
      PROVE  Splits(k) <=> Fraction(i, d, j)
  <2>1. d \in Nat /\ i <= d /\ d < j /\ i < d /\ d + 1 \in Nat /\ d + 1 <= j BY <1>1
  <2>2. Text(i, j)[k] = Ch(d) BY <1>1, <1>2
  <2>3. PICK p \in Int, q \in Int, n \in Int, m \in Int, c \in Nat :
          p = k - 1 /\ q = k + 1 /\ n = j - i /\ m = 1 /\ c = d + 1
    BY <2>1
  <2>4. /\ i <= i /\ i <= d /\ d <= j /\ m = i - i + 1 /\ p = d - i
        /\ i <= c /\ c <= j /\ j <= j /\ q = c - i + 1 /\ n = j - i /\ i <= j
    BY <1>2, <2>1, <2>3
  <2>5. IsPart(i, j, m, p, i, d) BY <2>1, <2>4, PartOfText
  <2>6. IsPart(i, j, q, n, c, j) BY <2>4, PartOfText
  <2>7. /\ SubSeq(Text(i, j), 1, k - 1) = Text(i, d)
        /\ SubSeq(Text(i, j), k + 1, Len(Text(i, j))) = Text(d + 1, j)
    BY <1>1, <2>3, <2>5, <2>6 DEF IsPart
  <2>8. Integer(Text(i, d)) <=> All(i, d, Digit) BY <1>1, <2>1, IntegerText
  <2>9. Over(Text(d + 1, j), Digit) <=> All(d + 1, j, Digit) BY <2>1, OverText
  <2> QED BY <2>2, <2>7, <2>8, <2>9 DEF Fraction
<1>3. Floating(Text(i, j)) <=> \E k \in 2 .. j - i : Splits(k) BY <1>1 DEF Floating
<1> HIDE DEF Splits
<1>4. ASSUME NEW k \in 2 .. j - i, Splits(k) PROVE \E d : Fraction(i, d, j)
  <2>1. PICK d \in i + 1 .. j - 1 : d = i + k - 1 OBVIOUS
  <2>2. k \in Int /\ k = d - i + 1 BY <2>1
  <2> QED BY <1>2, <1>4, <2>2
<1>5. ASSUME NEW d, Fraction(i, d, j) PROVE \E k \in 2 .. j - i : Splits(k)
  <2>1. d \in i + 1 .. j - 1 BY <1>5 DEF Fraction
  <2>2. PICK k \in 2 .. j - i : k = d - i + 1 BY <2>1
  <2> QED BY <1>2, <1>5, <2>1, <2>2
<1> QED BY <1>3, <1>4, <1>5

LEMMA NamedText ==
  ASSUME buf \in Seq(Char), NEW i \in Nat, NEW j \in Nat, i < j, j <= Size
  PROVE  Named(Text(i, j)) <=> Ch(i) \in Alpha /\ All(i, j, Alpha \cup Digit)
<1>1. Text(i, j) # <<>> BY TextType
<1>2. \A e \in i .. j - 1 : Text(i, j)[e - i + 1] = Ch(e) BY TextElements
<1>3. i \in i .. j - 1 /\ i - i + 1 = 1 OBVIOUS
<1>4. Text(i, j)[1] = Ch(i) BY <1>2, <1>3
<1> QED BY <1>1, <1>4, OverText DEF Named

LEMMA QuotedText ==
  ASSUME buf \in Seq(Char), NEW i \in Nat, NEW j \in Nat, i < j, j <= Size
  PROVE  Quoted(Text(i, j)) <=>
           /\ i + 2 <= j /\ Ch(i) = Quote /\ Ch(j - 1) = Quote
           /\ \A e \in i + 1 .. j - 2 : Ch(e) \notin StringStops
<1>1. /\ Len(Text(i, j)) = j - i
      /\ \A k \in 1 .. j - i : Text(i, j)[k] = Ch(i + k - 1) /\ i + k - 1 \in i .. j - 1
      /\ \A e \in i .. j - 1 : Text(i, j)[e - i + 1] = Ch(e) /\ e - i + 1 \in 1 .. j - i
  <2>1. i <= j OBVIOUS
  <2> QED BY <2>1, TextElements
<1>2. Text(i, j)[1] = Ch(i)
  <2>1. i \in i .. j - 1 /\ i - i + 1 = 1 OBVIOUS
  <2> QED BY <1>1, <2>1
<1>3. Text(i, j)[j - i] = Ch(j - 1)
  <2>1. j - 1 \in i .. j - 1 /\ (j - 1) - i + 1 = j - i OBVIOUS
  <2> QED BY <1>1, <2>1
<1>4. (\A k \in 2 .. (j - i) - 1 : Text(i, j)[k] \notin StringStops)
        <=> \A e \in i + 1 .. j - 2 : Ch(e) \notin StringStops
  <2>1. ASSUME \A k \in 2 .. (j - i) - 1 : Text(i, j)[k] \notin StringStops,
               NEW e \in i + 1 .. j - 2
        PROVE  Ch(e) \notin StringStops
    <3>1. PICK k \in 2 .. (j - i) - 1 : k = e - i + 1 OBVIOUS
    <3>2. e \in i .. j - 1 OBVIOUS
    <3> QED BY <1>1, <2>1, <3>1, <3>2
  <2>2. ASSUME \A e \in i + 1 .. j - 2 : Ch(e) \notin StringStops,
               NEW k \in 2 .. (j - i) - 1
        PROVE  Text(i, j)[k] \notin StringStops
    <3>1. PICK e \in i + 1 .. j - 2 : e = i + k - 1 OBVIOUS
    <3>2. k \in 1 .. j - i OBVIOUS
    <3> QED BY <1>1, <2>2, <3>1, <3>2
  <2> QED BY <2>1, <2>2
<1>5. j - i >= 2 <=> i + 2 <= j OBVIOUS
<1> QED BY <1>1, <1>2, <1>3, <1>4, <1>5 DEF Quoted

(* The spellings of words and symbols.                                     *)
LEMMA ReservedLetters ==
  ASSUME NEW w \in Reserved
  PROVE  \A k \in 1 .. Len(w[1]) : w[1][k] \in Alpha
<1> DEFINE Of2(t) == \E a, b \in Alpha : t = <<a, b>>
           Of3(t) == \E a, b, c \in Alpha : t = <<a, b, c>>
           Of4(t) == \E a, b, c, d \in Alpha : t = <<a, b, c, d>>
           Of5(t) == \E a, b, c, d, e \in Alpha : t = <<a, b, c, d, e>>
           Of6(t) == \E a, b, c, d, e, f \in Alpha : t = <<a, b, c, d, e, f>>
<1>1. {"a", "b", "c", "d", "e", "f", "g", "h", "i", "k", "l", "m", "n", "o", "r", "s", "t",
       "u", "w"} \subseteq Alpha
  BY SMTT(30) DEF Alpha
<1>2. /\ \A t \in {<<"i", "f">>} : Of2(t)
      /\ \A t \in {<<"i", "n", "t">>, <<"d", "e", "f">>} : Of3(t)
      /\ \A t \in {<<"b", "o", "o", "l">>, <<"e", "l", "s", "e">>, <<"e", "n", "u", "m">>,
                  <<"t", "r", "u", "e">>} : Of4(t)
      /\ \A t \in {<<"b", "r", "e", "a", "k">>, <<"f", "l", "o", "a", "t">>,
                  <<"f", "a", "l", "s", "e">>, <<"u", "n", "i", "o", "n">>,
                  <<"w", "h", "i", "l", "e">>} : Of5(t)
      /\ \A t \in {<<"d", "o", "u", "b", "l", "e">>, <<"r", "e", "t", "u", "r", "n">>,
                  <<"s", "t", "r", "i", "n", "g">>, <<"s", "t", "r", "u", "c", "t">>} : Of6(t)
  BY <1>1
<1> HIDE DEF Of2, Of3, Of4, Of5, Of6
<1>3. Of2(w[1]) \/ Of3(w[1]) \/ Of4(w[1]) \/ Of5(w[1]) \/ Of6(w[1])
  BY <1>2, SMTT(30) DEF Reserved
<1> QED BY <1>3 DEF Of2, Of3, Of4, Of5, Of6

PlainTypes == {"T_INT", "T_FLOAT", "T_IDENTIFIER", "T_STRING_LITERAL"}

LEMMA ReservedTypes ==
  ASSUME NEW w \in Reserved
  PROVE  w[2] \notin PlainTypes \cup {"T_ERROR", "T_CHARID", "T_CONTINUE"}
<1> DEFINE Types == {"T_INTID", "T_IF", "T_BOOLID", "T_BREAK", "T_DEF",
                     "T_DOUBLEID", "T_ELSE", "T_ENUM", "T_FLOATID",
                     "T_BOOL", "T_RETURN", "T_STRINGID", "T_STRUCT",
                     "T_UNION", "T_WHILE"}
<1>1. \E text \in {r[1] : r \in Reserved}, t \in Types : w = <<text, t>>
  BY Zenon DEF Reserved
<1>2. w[2] \in Types BY <1>1
<1> QED BY <1>2 DEF PlainTypes

LEMMA SymbolTypes ==
  ASSUME NEW s \in Symbols
  PROVE  s[2] \notin PlainTypes \cup {"T_ERROR", "T_CHARID", "T_CONTINUE"} /\ s = <<s[1], s[2]>>
<1> DEFINE Types == {"T_LEFT_PAR", "T_RIGHT_PAR", "T_LEFT_BRACE", "T_RIGHT_BRACE",
                     "T_DOT", "T_PLUS", "T_MINUS", "T_STAR", "T_SLASH",
                     "T_SEMICOLON", "T_COLON", "T_COMMA", "T_BANG",
                     "T_BANG_EQUAL", "T_EQUAL", "T_EQUAL_EQUAL", "T_GREATER",
                     "T_GREATER_EQUAL", "T_LESS", "T_LESS_EQUAL",
                     "T_SHIFT_RIGHT", "T_SHIFT_LEFT", "T_AMPERSAND", "T_AND",
                     "T_BIT_OR", "T_OR", "T_TAB", "T_LF", "T_EOF"}
<1>1. \E w \in {q[1] : q \in Symbols}, t \in Types : s = <<w, t>>
  BY ZenonT(30) DEF Symbols
<1>2. s[2] \in Types /\ s = <<s[1], s[2]>> BY <1>1
<1> QED BY <1>2 DEF PlainTypes

(* A symbol is of one or two characters, and of two only if it begins with *)
(* one that doubles.                                                       *)
Solo(text) == \E c \in Printed \cup {Lf, Eof} : text = <<c>>
Double(text) == \E c \in Doubling, d \in Printed : text = <<c, d>>

LEMMA SymbolShape ==
  ASSUME NEW s \in Symbols
  PROVE  Solo(s[1]) \/ Double(s[1])
<1> DEFINE Twos == {<<"!", "=">>, <<"=", "=">>, <<">", "=">>, <<"<", "=">>, <<">", ">">>,
                    <<"<", "<">>, <<"&", "&">>, <<"|", "|">>}
           Ones == {<<"(">>, <<")">>, <<"{">>, <<"}">>, <<".">>, <<"+">>, <<"-">>,
                    <<"*">>, <<"/">>, <<";">>, <<":">>, <<",">>, <<"!">>, <<"=">>,
                    <<">">>, <<"<">>, <<"&">>, <<"|">>, <<"TAB">>, <<Lf>>, <<Eof>>}
           Types == {q[2] : q \in Symbols}
<1>1. \E w \in Ones \cup Twos, t \in Types : s = <<w, t>>
  BY ZenonT(60) DEF Symbols
<1>3. \A w \in Twos : \E c \in Doubling, d \in Printed : w = <<c, d>>
  BY ZenonT(60) DEF Printed, Doubling
<1>4. \A w \in Ones : \E c \in Printed \cup {Lf, Eof} : w = <<c>>
  BY ZenonT(60) DEF Printed
<1> HIDE DEF Ones, Twos, Types
<1>2. s[1] \in Ones \cup Twos BY <1>1
<1> QED BY <1>2, <1>3, <1>4 DEF Solo, Double

LEMMA SymbolCharacters ==
  /\ \A c \in Printed \cup {Lf, Eof} : c \notin Digit \cup Alpha \cup {Quote}
  /\ Doubling \subseteq Printed
  /\ Quote \in StringStops /\ "." \notin Digit /\ Quote \notin Digit \cup Alpha
  /\ Digit \cap Alpha = {}
BY SMTT(60) DEF Printed, Lf, Eof, Digit, Alpha, Quote, Doubling, StringStops

LEMMA VocabularyLetters ==
  ASSUME NEW w \in Vocabulary
  PROVE  \A k \in 1 .. Len(w[1]) : w[1][k] \in Alpha
<1>1. {"a", "c", "e", "f", "h", "i", "n", "o", "r", "t", "u"} \subseteq Alpha
  BY SMTT(30) DEF Alpha
<1>2. CASE w \in Reserved BY <1>2, ReservedLetters
<1>3. CASE w = <<<<"f", "o", "r">>, "T_FOR">> BY <1>1, <1>3
<1>4. CASE w = <<<<"c", "h", "a", "r">>, "T_CHARID">> BY <1>1, <1>4
<1>5. CASE w = <<<<"c", "o", "n", "t", "i", "n", "u", "e">>, "T_CONTINUE">> BY <1>1, <1>5
<1> QED BY <1>2, <1>3, <1>4, <1>5, Zenon DEF Vocabulary

LEMMA VocabularyText ==
  ASSUME buf \in Seq(Char), NEW i \in Nat, NEW j \in Nat, i < j, j <= Size,
         NEW w \in Vocabulary, w[1] = Text(i, j)
  PROVE  All(i, j, Alpha)
<1>2. /\ Len(Text(i, j)) = j - i
      /\ \A e \in i .. j - 1 : Text(i, j)[e - i + 1] = Ch(e) /\ e - i + 1 \in 1 .. j - i
  <2>1. i <= j OBVIOUS
  <2> QED BY <2>1, TextElements
<1>3. \A k \in 1 .. j - i : Text(i, j)[k] \in Alpha BY <1>2, VocabularyLetters
<1> QED BY <1>2, <1>3 DEF All

LEMMA SpelledText ==
  ASSUME buf \in Seq(Char), NEW i \in Nat, NEW j \in Nat, i < j, j <= Size,
         Spelled(Text(i, j)) # {}
  PROVE  /\ Ch(i) \notin Digit \cup Alpha \cup {Quote}
         /\ j = i + 1 \/ (j = i + 2 /\ Ch(i) \in Doubling)
<1>1. PICK s \in Symbols : s[1] = Text(i, j) BY DEF Spelled
<1>2. Len(s[1]) = j - i /\ s[1][1] = Ch(i)
  <2>1. i <= j OBVIOUS
  <2>2. Len(Text(i, j)) = j - i /\ \A e \in i .. j - 1 : Text(i, j)[e - i + 1] = Ch(e)
    BY <2>1, TextElements
  <2>3. i \in i .. j - 1 /\ i - i + 1 = 1 OBVIOUS
  <2> QED BY <1>1, <2>2, <2>3
<1>3. CASE Solo(s[1])
  <2>1. PICK c \in Printed \cup {Lf, Eof} : s[1] = <<c>> BY <1>3 DEF Solo
  <2>2. Len(s[1]) = 1 /\ s[1][1] = c BY <2>1
  <2>3. j - i = 1 BY <1>2, <2>2, Zenon
  <2>4. j = i + 1 BY <2>3
  <2> QED BY <1>2, <2>2, <2>4, SymbolCharacters
<1>4. CASE Double(s[1])
  <2>1. PICK c \in Doubling, d \in Printed : s[1] = <<c, d>> BY <1>4 DEF Double
  <2>2. Len(s[1]) = 2 /\ s[1][1] = c BY <2>1
  <2>3. j - i = 2 BY <1>2, <2>2, Zenon
  <2>4. j = i + 2 BY <2>3
  <2> QED BY <1>2, <2>1, <2>2, <2>4, SymbolCharacters
<1> QED BY <1>3, <1>4, SymbolShape

(* The first character of a lexeme tells its kind.                         *)
LEMMA LexemeKinds ==
  ASSUME buf \in Seq(Char), NEW i \in Nat, NEW j \in Nat, i < j, j <= Size,
         Lexeme(Text(i, j))
  PROVE  \/ Ch(i) \in Digit /\ (All(i, j, Digit) \/ \E d : Fraction(i, d, j))
         \/ Ch(i) \in Alpha /\ All(i, j, Alpha \cup Digit)
         \/ /\ Ch(i) = Quote /\ i + 2 <= j /\ Ch(j - 1) = Quote
            /\ \A e \in i + 1 .. j - 2 : Ch(e) \notin StringStops
         \/ /\ Ch(i) \notin Digit \cup Alpha \cup {Quote}
            /\ j = i + 1 \/ (j = i + 2 /\ Ch(i) \in Doubling)
            /\ Spelled(Text(i, j)) # {}
<1>1. i \in i .. j - 1 OBVIOUS
<1>2. CASE Integer(Text(i, j)) BY <1>1, <1>2, IntegerText DEF All
<1>3. CASE Floating(Text(i, j))
  <2>1. PICK d : Fraction(i, d, j) BY <1>3, FloatingText
  <2>2. i \in i .. d - 1 BY <2>1 DEF Fraction
  <2>3. Ch(i) \in Digit BY <2>1, <2>2 DEF Fraction, All
  <2> QED BY <2>1, <2>3
<1>4. CASE Named(Text(i, j)) BY <1>4, NamedText
<1>5. CASE Quoted(Text(i, j)) BY <1>5, QuotedText
<1>6. CASE Spelled(Text(i, j)) # {} BY <1>6, SpelledText
<1> QED BY <1>2, <1>3, <1>4, <1>5, <1>6 DEF Lexeme

-----------------------------------------------------------------------------
(* Each kind of token is the longest lexeme at its place.                  *)
Longest(i, j, type) ==
  type # "T_ERROR" /\ ~Misread(i) =>
    /\ HasType(Text(i, j), type)
    /\ \A e \in j + 1 .. Size : ~Lexeme(Text(i, e))

LEMMA NumberLongest ==
  ASSUME buf \in Seq(Char), ip \in Nat, ip <= Size, Begins(Digit), Number.seen < Size
  PROVE  Longest(Start, Number.next, Number.type)
<1> DEFINE whole == End(Start, Digit)
           fraction == End(whole + 1, Digit)
<1>1. Start \in Nat /\ Size \in Nat /\ Start < Size /\ Ch(Start) \in Digit
  BY StartProperties DEF Begins
<1>2. /\ whole \in Start .. Size /\ \A e \in Start .. whole - 1 : Ch(e) \in Digit
      /\ whole < Size => Ch(whole) \notin Digit
  BY <1>1, EndProperties
<1>3. Start < whole BY <1>1, <1>2
<1>5. Ch(Start) \notin Alpha /\ Ch(Start) # Quote BY <1>1, SymbolCharacters
<1>6. CASE Has(whole, ".")
  <2>1. whole + 1 \in Nat /\ whole + 1 <= Size /\ Ch(whole) = "." BY <1>1, <1>2, <1>6 DEF Has
  <2>2. /\ fraction \in whole + 1 .. Size
        /\ \A e \in whole + 1 .. fraction - 1 : Ch(e) \in Digit
        /\ fraction < Size => Ch(fraction) \notin Digit
    BY <2>1, EndProperties
  <2>3. Number.next = fraction /\ Number.type = "T_FLOAT" /\ Number.seen = fraction
    BY <1>6, ScannedFields DEF Number
  <2> HIDE DEF fraction, whole
  <2>4. fraction \in Nat /\ Start < fraction /\ fraction < Size
    BY <1>1, <1>2, <1>3, <2>2, <2>3
  <2>5. Fraction(Start, whole, fraction) BY <1>1, <1>2, <1>3, <2>1, <2>2 DEF Fraction, All
  <2>6. Floating(Text(Start, fraction))
    <3>1. fraction <= Size BY <2>4, <1>1
    <3>2. \E d : Fraction(Start, d, fraction) BY <2>5
    <3> QED BY <1>1, <2>4, <3>1, <3>2, FloatingText
  <2>7. ASSUME NEW e \in fraction + 1 .. Size PROVE ~Lexeme(Text(Start, e))
    <3>1. e \in Nat /\ Start < e /\ e <= Size BY <1>1, <2>4
    <3>2. ~All(Start, e, Digit)
      <4>1. whole \in Start .. e - 1 BY <1>1, <1>2, <2>2, <2>4
      <4> QED BY <2>1, <4>1, SymbolCharacters DEF All
    <3>3. ASSUME NEW d, Fraction(Start, d, e) PROVE FALSE
      <4>1. d \in Start + 1 .. e - 1 /\ Ch(d) = "." /\ \A k \in Start .. d - 1 : Ch(k) \in Digit
        BY <3>3 DEF Fraction, All
      <4>2. d \notin Start .. whole - 1 BY <1>2, <4>1, SymbolCharacters
      <4>3. whole \notin Start .. d - 1 BY <2>1, <4>1, SymbolCharacters
      <4>4. d = whole BY <1>1, <1>2, <4>1, <4>2, <4>3
      <4>5. fraction \in d + 1 .. e - 1 BY <1>1, <1>2, <2>2, <2>4, <4>4
      <4> QED BY <2>2, <2>4, <3>3, <4>5 DEF Fraction, All
    <3> QED BY <1>1, <1>5, <3>1, <3>2, <3>3, LexemeKinds
  <2> QED BY <2>3, <2>6, <2>7 DEF Longest, HasType
<1>7. CASE ~Has(whole, ".")
  <2>1. Number.next = whole /\ Number.type = "T_INT" /\ Number.seen = whole
    BY <1>7, ScannedFields DEF Number
  <2> HIDE DEF whole
  <2>2. whole \in Nat /\ whole < Size /\ Ch(whole) # "." BY <1>1, <1>2, <1>7, <2>1 DEF Has
  <2>3. Integer(Text(Start, whole))
    <3>1. whole <= Size /\ All(Start, whole, Digit) BY <1>1, <1>2, <2>2 DEF All
    <3> QED BY <1>1, <1>3, <2>2, <3>1, IntegerText
  <2>4. ASSUME NEW e \in whole + 1 .. Size PROVE ~Lexeme(Text(Start, e))
    <3>1. e \in Nat /\ Start < e /\ e <= Size BY <1>1, <1>3, <2>2
    <3>2. ~All(Start, e, Digit)
      <4>1. whole \in Start .. e - 1 BY <1>1, <1>2, <2>2
      <4> QED BY <1>2, <2>2, <4>1 DEF All
    <3>3. ASSUME NEW d, Fraction(Start, d, e) PROVE FALSE
      <4>1. d \in Start + 1 .. e - 1 /\ Ch(d) = "." /\ \A k \in Start .. d - 1 : Ch(k) \in Digit
        BY <3>3 DEF Fraction, All
      <4>2. d \notin Start .. whole - 1 BY <1>2, <4>1, SymbolCharacters
      <4>3. whole \notin Start .. d - 1 BY <1>2, <2>2, <4>1
      <4>4. d = whole BY <1>1, <1>2, <4>1, <4>2, <4>3
      <4> QED BY <2>2, <4>1, <4>4
    <3> QED BY <1>1, <1>5, <3>1, <3>2, <3>3, LexemeKinds
  <2> QED BY <2>1, <2>3, <2>4 DEF Longest, HasType
<1> QED BY <1>6, <1>7

(* A word is found among the keywords by its letters.                      *)
LEMMA WordLongest ==
  ASSUME buf \in Seq(Char), ip \in Nat, ip <= Size, Begins(Alpha), Word.seen < Size
  PROVE  Longest(Start, Word.next, Word.type)
<1> DEFINE word == End(Start + 1, Alpha)
           name == End(Start + 1, Alpha \cup Digit)
           found == {k \in Keywords : word <= Size /\ k.text = Text(Start, word)}
           k == CHOOSE f \in found : TRUE
<1>1. Start \in Nat /\ Size \in Nat /\ Start < Size /\ Ch(Start) \in Alpha
  BY StartProperties DEF Begins
<1>2. /\ word \in Start + 1 .. Size /\ name \in Start + 1 .. Size
      /\ \A e \in Start + 1 .. word - 1 : Ch(e) \in Alpha
      /\ \A e \in Start + 1 .. name - 1 : Ch(e) \in Alpha \cup Digit
      /\ word < Size => Ch(word) \notin Alpha
      /\ name < Size => Ch(name) \notin Alpha \cup Digit
  BY <1>1, EndProperties
<1>3. All(Start, word, Alpha) /\ All(Start, name, Alpha \cup Digit)
  <2> HIDE DEF word, name
  <2>1. /\ \A e \in Start .. word - 1 : e = Start \/ e \in Start + 1 .. word - 1
        /\ \A e \in Start .. name - 1 : e = Start \/ e \in Start + 1 .. name - 1
    BY <1>1, <1>2
  <2> QED BY <1>1, <1>2, <2>1 DEF All
<1>4. word \in Nat /\ Start < word /\ word <= Size /\ name \in Nat /\ Start < name /\ name <= Size
  BY <1>1, <1>2
<1> DEFINE Misfits == {<<"f", "o", "r">>, <<"c", "o", "n", "t", "i", "n", "u", "e">>}
           Cuts == {<<"c", "h", "a", "r">>, <<"c", "o", "n", "t">>}
<1> SUFFICES ASSUME ~Misread(Start)
             PROVE  /\ HasType(Text(Start, Word.next), Word.type)
                    /\ \A e \in Word.next + 1 .. Size : ~Lexeme(Text(Start, e))
  BY DEF Longest
<1>5. /\ Text(Start, name) \notin Misfits /\ Text(Start, word) \notin Cuts
      /\ Text(Start, name) = Text(Start, word) \/ \A w \in Reserved : w[1] # Text(Start, word)
  BY DEF Misread
<1> HIDE DEF Misfits, Cuts
<1>6. ASSUME name < Size, NEW e \in name + 1 .. Size PROVE ~Lexeme(Text(Start, e))
  <2> HIDE DEF found, name, word
  <2>1. e \in Nat /\ Start < e /\ e <= Size /\ name \in Start .. e - 1 BY <1>1, <1>4, <1>6
  <2>2. ~All(Start, e, Alpha \cup Digit) BY <1>2, <1>6, <2>1 DEF All
  <2>3. Ch(Start) \notin Digit /\ Ch(Start) # Quote BY <1>1, SymbolCharacters
  <2> QED BY <1>1, <2>1, <2>2, <2>3, LexemeKinds
<1>7. CASE found = {}
  <2>1. Word.type = "T_IDENTIFIER" /\ Word.next = name /\ Word.seen = name
    BY <1>7, ScannedFields DEF Word
  <2>2. ASSUME NEW k1 \in Keywords PROVE k1.text # Text(Start, word)
    BY <1>4, <1>7, <2>2
  <2> HIDE DEF found, name, word
  <2>3. name < Size /\ Ch(name) \notin Alpha \cup Digit BY <1>2, <2>1
  <2>4. Named(Text(Start, name)) BY <1>1, <1>3, <1>4, NamedText
  <2>5. MeantAs(Text(Start, name)) = {}
    <3> SUFFICES ASSUME NEW w \in Vocabulary, w[1] = Text(Start, name) PROVE FALSE
      BY DEF MeantAs
    <3>1. word = name
      <4>1. All(Start, name, Alpha) BY <1>1, <1>4, VocabularyText
      <4>2. name \notin Start + 1 .. word - 1 BY <1>2, <2>3
      <4>3. word \notin Start .. name - 1 BY <1>1, <1>2, <1>4, <2>3, <4>1 DEF All
      <4> QED BY <1>1, <1>4, <4>2, <4>3
    <3>2. CASE w \in Reserved
      <4>1. Keyword(w[1], w[2], Len(w[1])) \in Keywords BY <3>2 DEF Keywords
      <4>2. Keyword(w[1], w[2], Len(w[1])).text = w[1] BY DEF Keyword
      <4> QED BY <2>2, <3>1, <4>1, <4>2
    <3>3. CASE w[1] \in Misfits BY <1>5, <3>3
    <3>4. CASE w[1] \in Cuts BY <1>5, <3>1, <3>4
    <3>5. w \in Reserved \/ w[1] \in Misfits \/ w[1] \in Cuts BY DEF Vocabulary, Misfits, Cuts
    <3> QED BY <3>2, <3>3, <3>4, <3>5
  <2> QED BY <1>6, <2>1, <2>3, <2>4, <2>5 DEF HasType
<1>8. CASE found # {}
  <2>1. k \in found BY <1>8
  <2>2. Word.type = k.type /\ Word.next = Start + k.size /\ Word.seen = word
    BY <1>8, ScannedFields DEF Word
  <2>3. k \in Keywords /\ k.text = Text(Start, word) BY <2>1
  <2> HIDE DEF k, found, name, word
  <2>4. Len(k.text) = word - Start BY <1>1, <1>4, <2>3, TextType
  <2>5. CASE \E w \in Reserved : k = Keyword(w[1], w[2], Len(w[1]))
    <3>1. PICK w \in Reserved : k = Keyword(w[1], w[2], Len(w[1])) BY <2>5
    <3>2. k.text = w[1] /\ k.type = w[2] /\ k.size = Len(w[1]) BY <3>1 DEF Keyword
    <3>3. Word.next = word BY <1>1, <1>4, <2>2, <2>3, <2>4, <3>2
    <3>4. k.type \in MeantAs(Text(Start, word)) BY <2>3, <3>2 DEF MeantAs, Vocabulary
    <3>5. k.type \notin PlainTypes BY <3>2, ReservedTypes
    <3>6. HasType(Text(Start, word), k.type) BY <3>4, <3>5 DEF HasType, PlainTypes
    <3>7. word = name
      <4>1. Text(Start, name) = Text(Start, word) BY <1>5, <2>3, <3>2
      <4>2. name - Start = word - Start BY <1>1, <1>4, <4>1, TextType
      <4> QED BY <1>1, <1>4, <4>2
    <3>8. name < Size BY <2>2, <3>7
    <3> QED BY <1>6, <2>2, <3>3, <3>6, <3>7, <3>8
  <2>6. CASE k \in {Keyword(<<"c", "h", "a", "r">>, "T_CHARID", 1),
                    Keyword(<<"c", "o", "n", "t">>, "T_CONTINUE", 1)}
    <3>1. k.text \in Cuts BY <2>6 DEF Keyword, Cuts
    <3> QED BY <1>5, <2>3, <3>1
  <2> QED BY <2>3, <2>5, <2>6, Zenon DEF Keywords
<1> QED BY <1>7, <1>8

LEMMA StringLongest ==
  ASSUME buf \in Seq(Char), ip \in Nat, ip <= Size, Begins({Quote}), StringLiteral.seen < Size
  PROVE  Longest(Start, StringLiteral.next, StringLiteral.type)
<1> DEFINE stop == End(Start + 1, Char \ StringStops)
<1>1. Start \in Nat /\ Size \in Nat /\ Start < Size /\ Ch(Start) = Quote
  BY StartProperties DEF Begins
<1>2. /\ stop \in Start + 1 .. Size
      /\ \A e \in Start + 1 .. stop - 1 : Ch(e) \in Char \ StringStops
  BY <1>1, EndProperties
<1>3. /\ StringLiteral.type = IF Has(stop, Quote) THEN "T_STRING_LITERAL" ELSE "T_ERROR"
      /\ StringLiteral.next = stop + 1 /\ StringLiteral.seen = stop
  BY ScannedFields DEF StringLiteral
<1> HIDE DEF stop
<1>4. CASE ~Has(stop, Quote) BY <1>3, <1>4 DEF Longest
<1>5. CASE Has(stop, Quote)
  <2>1. stop \in Nat /\ stop < Size /\ Start < stop /\ Ch(stop) = Quote
    BY <1>1, <1>2, <1>5 DEF Has
  <2>2. PICK j \in Nat : j = stop + 1 BY <2>1
  <2>3. Start < j /\ j <= Size /\ Start + 2 <= j /\ j - 1 = stop /\ j - 2 = stop - 1
    BY <1>1, <2>1, <2>2
  <2>4. \A e \in Start + 1 .. j - 2 : Ch(e) \notin StringStops BY <1>2, <2>3
  <2>5. Quoted(Text(Start, j)) BY <1>1, <2>1, <2>3, <2>4, QuotedText
  <2>7. ASSUME NEW e \in j + 1 .. Size PROVE ~Lexeme(Text(Start, e))
    <3>1. e \in Nat /\ Start < e /\ e <= Size /\ stop \in Start + 1 .. e - 2
      BY <1>1, <2>1, <2>2
    <3>2. Ch(stop) \in StringStops /\ Ch(Start) \notin Digit \cup Alpha
      BY <1>1, <2>1, SymbolCharacters
    <3> QED BY <1>1, <3>1, <3>2, LexemeKinds
  <2> QED BY <1>3, <1>5, <2>2, <2>5, <2>7 DEF Longest, HasType
<1> QED BY <1>4, <1>5

LEMMA SymbolLongest ==
  ASSUME buf \in Seq(Char), ip \in Nat, ip <= Size,
         Begins(Char \ (Digit \cup Alpha \cup {Quote}))
  PROVE  Longest(Start, Symbol.next, Symbol.type)
<1> DEFINE two == Start + 2 <= Size /\ Ch(Start) \in Doubling
                  /\ Spelled(Text(Start, Start + 2)) # {}
           next == IF two THEN Start + 2 ELSE Start + 1
           found == Spelled(Text(Start, next))
           s == CHOOSE f \in found : TRUE
<1>1. /\ Start \in Nat /\ Size \in Nat /\ Start < Size
      /\ Ch(Start) \notin Digit \cup Alpha \cup {Quote}
  BY StartProperties DEF Begins
<1>2. next \in Nat /\ Start < next /\ next <= Size BY <1>1
<1>3. /\ Symbol.type = IF found = {} THEN "T_ERROR" ELSE s[2]
      /\ Symbol.next = next
  BY ScannedFields DEF Symbol
<1>4. CASE found = {} BY <1>3, <1>4 DEF Longest
<1>5. CASE found # {}
  <2>1. s \in found BY <1>5
  <2>2. s \in Symbols /\ s[1] = Text(Start, next) BY <2>1 DEF Spelled
  <2>3. Symbol.type = s[2] BY <1>3, <1>5
  <2>4. ASSUME NEW e \in next + 1 .. Size PROVE ~Lexeme(Text(Start, e))
    <3> SUFFICES ASSUME Lexeme(Text(Start, e)) PROVE FALSE OBVIOUS
    <3>1. e \in Nat /\ Start < e /\ e <= Size BY <1>1, <1>2
    <3>2. (e = Start + 1 \/ (e = Start + 2 /\ Ch(Start) \in Doubling)) /\ Spelled(Text(Start, e)) # {}
      BY <1>1, <3>1, LexemeKinds
    <3>3. e = Start + 2 /\ ~two BY <1>1, <3>2
    <3> QED BY <3>1, <3>2, <3>3
  <2> HIDE DEF next, found, s
  <2>6. <<Text(Start, next), s[2]>> \in Symbols /\ s[2] \notin PlainTypes
    BY <2>2, SymbolTypes
  <2>7. HasType(Text(Start, next), s[2]) BY <2>6 DEF HasType, PlainTypes
  <2> QED BY <1>3, <2>3, <2>4, <2>7 DEF Longest
<1> QED BY <1>4, <1>5

(* A turn of the loop, once more: what is stored is the longest lexeme.    *)
LEMMA LongestTurns ==
  ASSUME IInv, [Next]_vars
  PROVE  \/ UNCHANGED vars
         \/ RunOff
         \/ \E t : /\ status = "running" /\ Possible(t) /\ Emit(t)
                   /\ t.seen < Size => Longest(Start, t.next, t.type)
<1>1. buf \in Seq(Char) /\ ip \in Nat /\ ip <= Size BY DEF IInv, TypeOK, Extents
<1>2. CASE ScanNumber
  <2>1. Begins(Digit) /\ Emit(Number) /\ status = "running" BY <1>2 DEF ScanNumber, Begins
  <2> QED BY <1>1, <2>1, NumberPossible, NumberLongest
<1>3. CASE ScanWord
  <2>1. Begins(Alpha) /\ Emit(Word) /\ status = "running" BY <1>3 DEF ScanWord, Begins
  <2> QED BY <1>1, <2>1, WordPossible, WordLongest
<1>4. CASE ScanString
  <2>1. Begins({Quote}) /\ Emit(StringLiteral) /\ status = "running"
    BY <1>4 DEF ScanString, Begins
  <2> QED BY <1>1, <2>1, StringPossible, StringLongest
<1>5. CASE ScanSymbol
  <2>1. /\ Begins(Char \ (Digit \cup Alpha \cup {Quote})) /\ Emit(Symbol)
        /\ status = "running"
    BY <1>5 DEF ScanSymbol, Begins
  <2> QED BY <1>1, <2>1, SymbolPossible, SymbolLongest
<1> QED BY <1>2, <1>3, <1>4, <1>5 DEF Next

(* The tokens lie end to end: the cursor is where the last one ended.      *)
Abutting == ip = IF tokens = <<>> THEN 0 ELSE tokens[Len(tokens)].end

Cut(t, from) == /\ from <= t.start /\ Over(Text(from, t.start), {Blank})
                /\ Longest(t.start, t.end, t.type)

Before(i) == IF i = 1 THEN 0 ELSE tokens[i - 1].end

LEMMA CutAll == LongestMatch <=> \A i \in DOMAIN tokens : Cut(tokens[i], Before(i))
BY DEF LongestMatch, Cut, Before, Longest

LEMMA LongestKept ==
  IInv /\ Abutting /\ LongestMatch /\ [Next]_vars => (Abutting /\ LongestMatch)'
<1> SUFFICES ASSUME IInv, Abutting, LongestMatch, [Next]_vars
             PROVE  (Abutting /\ LongestMatch)'
  OBVIOUS
<1>1. ASSUME UNCHANGED <<buf, ip, tokens>> PROVE (Abutting /\ LongestMatch)'
  <2>1. \A t, from : Cut(t, from)' <=> Cut(t, from)
    BY <1>1 DEF Cut, Longest, Misread, End, Text, Ch, Size
  <2>2. \A i : Before(i)' = Before(i) BY <1>1 DEF Before
  <2>3. \A i \in DOMAIN tokens' : Cut(tokens[i], Before(i))' BY <1>1, <2>1, <2>2, CutAll
  <2>4. LongestMatch' BY <2>3 DEF LongestMatch, Cut, Before, Longest
  <2> QED BY <1>1, <2>4 DEF Abutting
<1>2. CASE UNCHANGED vars BY <1>1, <1>2 DEF vars
<1>3. CASE RunOff BY <1>1, <1>3 DEF RunOff
<1>4. ASSUME NEW t, Possible(t), Emit(t), t.seen < Size => Longest(Start, t.next, t.type)
      PROVE  (Abutting /\ LongestMatch)'
  <2>1. CASE t.seen >= Size BY <1>1, <1>4, <2>1, NotStored
  <2>2. CASE t.seen < Size
    <3>1. /\ Len(tokens) \in Nat
          /\ DOMAIN tokens' = DOMAIN tokens \cup {Len(tokens) + 1}
          /\ DOMAIN tokens = 1 .. Len(tokens)
          /\ \A i \in DOMAIN tokens : tokens'[i] = tokens[i]
          /\ tokens'[Len(tokens) + 1] = Stored(t)
          /\ ip' = t.next /\ buf' = buf
      BY <1>4, <2>2, TokenStored
    <3>2. /\ tokens \in Seq(ScannedToken) /\ tokens' \in Seq(ScannedToken)
          /\ buf \in Seq(Char) /\ ip \in Nat /\ ip <= Size /\ Start \in Nat /\ ip <= Start
          /\ Start <= Size
      <4>1. IInv' BY NextInvariant
      <4> QED BY <4>1, StartProperties DEF IInv, TypeOK, Extents
    <3>3. Stored(t).start = Start /\ Stored(t).end = t.next /\ Stored(t).type = t.type
      BY DEF Stored
    <3>4. Len(tokens') = Len(tokens) + 1
      <4>1. DOMAIN tokens' = 1 .. Len(tokens) + 1 BY <3>1
      <4> QED BY <3>1, <3>2, <4>1, LenProperties
    <3>5. Abutting'
      <4>1. tokens' # <<>> BY <3>1, <3>4, EmptySeq
      <4> QED BY <3>1, <3>3, <3>4, <4>1 DEF Abutting
    <3>6. Cut(Stored(t), ip)
      <4>1. All(ip, Start, {Blank}) BY <3>2, EndProperties DEF Start, All
      <4>2. Over(Text(ip, Start), {Blank}) BY <3>2, <4>1, OverText
      <4> QED BY <1>4, <2>2, <3>2, <3>3, <4>2 DEF Cut
    <3>7. PICK n \in Nat : n = Len(tokens) + 1 BY <3>1
    <3>8. Before(n)' = ip
      <4>1. CASE n = 1
        <5>1. tokens = <<>> BY <3>1, <3>2, <3>7, <4>1, EmptySeq
        <5> QED BY <4>1, <5>1 DEF Before, Abutting
      <4>2. CASE n # 1
        <5>1. n - 1 = Len(tokens) /\ n - 1 \in DOMAIN tokens /\ tokens # <<>>
          BY <3>1, <3>2, <3>7, <4>2, EmptySeq
        <5>2. tokens'[n - 1].end = ip BY <3>1, <5>1 DEF Abutting
        <5> QED BY <4>2, <5>2 DEF Before
      <4> QED BY <4>1, <4>2
    <3>9. \A k, from : Cut(k, from)' <=> Cut(k, from)
      BY <3>1 DEF Cut, Longest, Misread, End, Text, Ch, Size
    <3>10. ASSUME NEW i \in DOMAIN tokens PROVE Cut(tokens[i], Before(i)) /\ Before(i)' = Before(i)
      <4>1. i = 1 \/ i - 1 \in DOMAIN tokens BY <3>1
      <4> QED BY <3>1, <4>1, CutAll DEF Before
    <3>11. ASSUME NEW i \in DOMAIN tokens' PROVE Cut(tokens[i], Before(i))'
      <4>1. CASE i \in DOMAIN tokens BY <3>1, <3>9, <3>10, <4>1
      <4>2. CASE i = n
        <5>1. tokens'[i] = Stored(t) /\ Before(i)' = ip BY <3>1, <3>8, <3>7, <4>2
        <5> QED BY <3>6, <3>9, <5>1
      <4> QED BY <3>1, <3>7, <4>1, <4>2
    <3>12. LongestMatch' BY <3>11 DEF LongestMatch, Cut, Before, Longest
    <3> QED BY <3>5, <3>12
  <2> QED BY <1>4, <2>1, <2>2, SeenOrNot
<1> QED BY <1>2, <1>3, <1>4, LongestTurns

(* Whatever the text, its tokens are the longest lexemes in it, end to end *)
(* but for blanks, and of the type of their text (scanner.cc:55-178,       *)
(* 221-320).  The exceptions are a last error and the words of Misread:    *)
(* for, continue, char, cont, and a reserved word with digits behind it.   *)
THEOREM TokensAreLongest == Spec => []LongestMatch
<1>1. Init => Abutting /\ LongestMatch
  <2> SUFFICES ASSUME Init PROVE Abutting /\ LongestMatch OBVIOUS
  <2>1. ip = 0 /\ tokens = <<>> BY DEF Init
  <2> QED BY <2>1 DEF Abutting, LongestMatch
<1> QED BY Invariance, <1>1, LongestKept, PTL DEF Spec

-----------------------------------------------------------------------------
(* What Terminates rests on: as long as the scan goes on, each turn takes  *)
(* at least a character and none past the end of the buffer.               *)
TakesCharacters == status' # "oob" => ip < ip' /\ ip' <= Size

(* No buffer can keep the loop of scan() going for more turns than it has  *)
(* characters (scanner.cc:209-212).                                        *)
THEOREM TurnsAreBounded == Spec => [][TakesCharacters]_vars
<1>1. IInv /\ [Next]_vars => [TakesCharacters]_vars
  <2> SUFFICES ASSUME IInv, [Next]_vars, ~UNCHANGED vars PROVE TakesCharacters OBVIOUS
  <2>1. /\ buf \in Seq(Char) /\ ip \in Nat /\ ip <= Size /\ Start \in Nat /\ ip <= Start
        /\ Size \in Nat
    BY StartProperties DEF IInv, TypeOK, Extents
  <2>2. CASE RunOff BY <2>2 DEF RunOff, TakesCharacters
  <2>3. CASE status = "running" /\ Turn
    <3>1. PICK t : Possible(t) /\ Emit(t) BY <2>3 DEF Turn
    <3>2. CASE t.seen >= Size BY <3>1, <3>2, NotStored DEF TakesCharacters
    <3>3. CASE t.seen < Size
      <4>1. ip' = t.next BY <3>1, <3>3, TokenStored
      <4> QED BY <2>1, <3>1, <3>3, <4>1 DEF Possible, TakesCharacters
    <3> QED BY <3>1, <3>2, <3>3, SeenOrNot
  <2> QED BY <2>2, <2>3, Turns
<1> QED BY Invariance, <1>1, PTL DEF Spec

=============================================================================
