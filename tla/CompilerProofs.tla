--------------------------- MODULE CompilerProofs ---------------------------
(***************************************************************************)
(* Proofs about the whole program, from what is proved of the scanner and  *)
(* of the parser: whatever the text, the parser works on what it expects.  *)
(***************************************************************************)
EXTENDS Compiler, SequenceTheorems, TLAPS

(* The scanner as init_scanner() leaves it.                                *)
FreshScanner == /\ cursor = 0 /\ line = 1 /\ scanned = <<>>
                /\ capacity = 8 /\ scanning = "running"

(* The inductive invariant: the scanner's invariant throughout, and the    *)
(* parser's once it has the tokens of the text; before that its variables  *)
(* are at rest.                                                            *)
CInv == /\ phase \in {"start", "scan", "parse", "ended"}
        /\ source \in {"none", "file", "line"}
        /\ text \in Seq(Char)
        /\ S!IInv
        /\ phase = "start" => FreshScanner
        /\ IF scanning = "done" /\ phase # "scan" THEN P!IInv ELSE AtRest
        /\ phase = "parse" => tokens = S!Lexed /\ scanning = "done"

LEMMA SameTokenLists == S!T!TokenList = T!TokenList /\ P!TokenList = T!TokenList
BY DEF S!T!TokenList, T!TokenList, P!TokenList, S!T!Token, T!Token, P!Token,
       S!T!TokenType, T!TokenType, P!TokenType, S!T!TypeIds, T!TypeIds, P!TypeIds,
       S!T!LiteralTokens, T!LiteralTokens, P!LiteralTokens,
       S!T!ComparisonTokens, T!ComparisonTokens, P!ComparisonTokens,
       S!T!DefinitionTokens, T!DefinitionTokens, P!DefinitionTokens,
       S!T!Sentinels, T!Sentinels, P!Sentinels

LEMMA ScannerStarts == S!Init => S!IInv
BY S!InitInvariant

LEMMA ParserStarts == P!Init => P!IInv
BY P!InitKeeps, SameTokenLists

-----------------------------------------------------------------------------
(* The buffers the scanner is given.                                       *)

LEMMA FileBufferType ==
  ASSUME NEW file \in Files, NEW unwritten \in Garbage
  PROVE  file \in Seq(Char) /\ FileBuffer(file, unwritten) \in Seq(Char)
BY TextAssumption, AppendProperties DEF FileBuffer

LEMMA StaleType ==
  ASSUME NEW n \in Nat, n < LineSize, NEW stale \in Stale(LineSize - 1 - n)
  PROVE  stale \in Seq(Char)
<1>1. LineSize - 1 - n \in Nat BY LineAssumption
<1>2. stale \in [1 .. LineSize - 1 - n -> Char] BY TextAssumption DEF Stale
<1> QED BY <1>1, <1>2, SeqDef

LEMMA LineBufferType ==
  ASSUME NEW read \in Seq(Char), NEW stale \in Seq(Char)
  PROVE  LineBuffer(read, stale) \in Seq(Char)
<1>1. <<S!Eof>> \in Seq(Char) BY TextAssumption DEF S!Eof
<1>2. read \o <<S!Eof>> \in Seq(Char) BY <1>1, ConcatProperties
<1> QED BY <1>2, ConcatProperties DEF LineBuffer

LEMMA FirstLineType ==
  ASSUME NEW typed \in Typed
  PROVE  FirstLine(typed) \in Seq(Char) /\ Len(FirstLine(typed)) < LineSize
<1> DEFINE n == IF Len(typed) <= LineSize - 2 THEN Len(typed) ELSE LineSize - 2
<1>1. typed \in Seq(Char) /\ Len(typed) \in Nat BY TextAssumption, LenProperties
<1>2. n \in Nat /\ n <= Len(typed) /\ n < LineSize BY <1>1, LineAssumption
<1>3. FirstLine(typed) = SubSeq(typed, 1, n) BY DEF FirstLine
<1> HIDE DEF n
<1>4. \A i \in 1 .. n : typed[i] \in Char BY <1>1, <1>2, ElementOfSeq
<1>5. SubSeq(typed, 1, n) \in Seq(Char) /\ Len(SubSeq(typed, 1, n)) = n
  BY <1>2, <1>4, SubSeqProperties
<1> QED BY <1>2, <1>3, <1>5

(* A zero found in an array that nothing was read into.                    *)
FoundLine == \E n \in 0 .. LineSize - 1 :
               \E found \in [1 .. n -> Garbage \ {S!Nul}], stale \in Stale(LineSize - 1 - n) :
                 text' = found /\ buf' = LineBuffer(found, stale)

LEMMA FoundLineType ==
  ASSUME FoundLine
  PROVE  /\ text' \in Seq(Char) /\ Len(text') \in Nat /\ Len(text') < LineSize
         /\ \E stale \in Seq(Char) : buf' = LineBuffer(text', stale)
<1>1. PICK n \in 0 .. LineSize - 1 :
        \E found \in [1 .. n -> Garbage \ {S!Nul}], stale \in Stale(LineSize - 1 - n) :
          text' = found /\ buf' = LineBuffer(found, stale)
  BY DEF FoundLine
<1>2. n \in Nat /\ n < LineSize BY <1>1, LineAssumption
<1>3. PICK found \in [1 .. n -> Garbage \ {S!Nul}], stale \in Stale(LineSize - 1 - n) :
        text' = found /\ buf' = LineBuffer(found, stale)
  BY <1>1
<1>4. stale \in Seq(Char) BY <1>2, StaleType
<1>5. found \in [1 .. n -> Char] BY TextAssumption
<1>6. found \in Seq(Char) /\ Len(found) = n BY <1>2, <1>5, SeqDef, LenProperties
<1> QED BY <1>2, <1>3, <1>4, <1>6

LEMMA FreshWithBuffer ==
  ASSUME FreshScanner', buf' \in Seq(Char)
  PROVE  S!IInv'
<1>1. S!Init' BY DEF S!Init, FreshScanner
<1>2. (S!Init => S!IInv)' BY ScannerStarts, PTL
<1> QED BY <1>1, <1>2

-----------------------------------------------------------------------------
LEMMA InitKeepsAll == Init => CInv
<1> SUFFICES ASSUME Init PROVE CInv OBVIOUS
<1>1. S!Init BY DEF Init, S!Init
<1>2. S!IInv BY <1>1, S!InitInvariant
<1> QED BY <1>2 DEF Init, CInv, FreshScanner

LEMMA LoadKeeps == CInv /\ (ReadFile \/ ReadLine \/ NoFile \/ NoLine) => CInv'
<1> SUFFICES ASSUME CInv, ReadFile \/ ReadLine \/ NoFile \/ NoLine PROVE CInv'
  OBVIOUS
<1>1. FreshScanner /\ phase = "start" /\ UNCHANGED <<scanner, parser>>
  BY DEF CInv, ReadFile, ReadLine, NoFile, NoLine
<1>2. FreshScanner' BY <1>1 DEF FreshScanner, scanner
<1>9. AtRest' /\ scanning' = "running"
  BY <1>1 DEF CInv, FreshScanner, AtRest, parser, scanner
<1>3. ASSUME phase' = "scan", source' \in {"file", "line"}, text' \in Seq(Char),
             buf' \in Seq(Char)
      PROVE  CInv'
  BY <1>2, <1>3, <1>9, FreshWithBuffer DEF CInv
<1>4. ASSUME phase' = "ended", UNCHANGED <<source, text, buf>>
      PROVE  CInv'
  BY <1>2, <1>4, <1>9, FreshWithBuffer DEF CInv, S!IInv, S!TypeOK
<1>5. CASE ReadFile
  BY <1>3, <1>5, FileBufferType DEF ReadFile
<1>6. CASE ReadLine
  <2>0. PICK typed \in Typed :
          \E stale \in Stale(LineSize - 1 - Len(FirstLine(typed))) :
            text' = FirstLine(typed) /\ buf' = LineBuffer(FirstLine(typed), stale)
    BY <1>6 DEF ReadLine
  <2>1. PICK stale \in Stale(LineSize - 1 - Len(FirstLine(typed))) :
          text' = FirstLine(typed) /\ buf' = LineBuffer(FirstLine(typed), stale)
    BY <2>0
  <2>2. /\ FirstLine(typed) \in Seq(Char) /\ Len(FirstLine(typed)) < LineSize
        /\ Len(FirstLine(typed)) \in Nat
    BY FirstLineType, LenProperties
  <2>3. stale \in Seq(Char) BY <2>2, StaleType
  <2> QED BY <1>3, <1>6, <2>1, <2>2, <2>3, LineBufferType DEF ReadLine
<1>7. CASE NoFile BY <1>4, <1>7 DEF NoFile
<1>8. CASE NoLine
  <2>1. CASE phase' = "ended" /\ UNCHANGED <<source, text, buf>>
    BY <1>4, <1>8, <2>1 DEF NoLine
  <2>2. CASE FoundLine /\ phase' = "scan" /\ source' = "line"
    BY <1>3, <2>2, FoundLineType, LineBufferType
  <2> QED BY <1>8, <2>1, <2>2 DEF NoLine, FoundLine
<1> QED BY <1>5, <1>6, <1>7, <1>8

LEMMA ScanKeeps == CInv /\ Scan => CInv'
<1> SUFFICES ASSUME CInv, Scan PROVE CInv' OBVIOUS
<1>1. S!IInv' BY S!NextInvariant DEF CInv, Scan
<1>2. AtRest' BY DEF CInv, Scan, AtRest, parser
<1> QED BY <1>1, <1>2 DEF CInv, Scan

(* What the scanner leaves is what the parser may start on.                *)
LEMMA HandOverKeeps == CInv /\ StartParser => CInv'
<1> SUFFICES ASSUME CInv, StartParser PROVE CInv' OBVIOUS
<1>1. S!Lexed \in T!TokenList
  BY S!LexedList, SameTokenLists DEF CInv, StartParser, S!ParserInput
<1>2. P!Init' BY <1>1 DEF StartParser, Handed, P!Init
<1>3. (P!Init => P!IInv)' BY ParserStarts, PTL
<1>4. S!IInv' /\ S!Lexed' = S!Lexed
  BY DEF CInv, StartParser, scanner, S!IInv, S!TypeOK, S!Extents, S!Ended,
         S!RoomForTokens, S!Size, S!Lexed, S!Text
<1> QED BY <1>2, <1>3, <1>4 DEF CInv, StartParser, Handed, scanner

LEMMA ParseKeeps == CInv /\ Parse => CInv'
<1> SUFFICES ASSUME CInv, Parse PROVE CInv' OBVIOUS
<1>1. P!IInv' BY P!NextKeeps, SameTokenLists DEF CInv, Parse
<1>2. tokens' = tokens BY P!TokensKept, SameTokenLists DEF Parse
<1>3. S!IInv' /\ S!Lexed' = S!Lexed
  BY DEF CInv, Parse, scanner, S!IInv, S!TypeOK, S!Extents, S!Ended,
         S!RoomForTokens, S!Size, S!Lexed, S!Text
<1> QED BY <1>1, <1>2, <1>3 DEF CInv, Parse, scanner

LEMMA StutterKeeps == CInv /\ (Ends \/ UNCHANGED vars) => CInv'
<1> SUFFICES ASSUME CInv, Ends \/ UNCHANGED vars PROVE CInv' OBVIOUS
<1>1. UNCHANGED <<source, text, buf, scanner, parser>> BY DEF Ends, vars
<1>2. S!IInv' /\ S!Lexed' = S!Lexed
  BY <1>1 DEF CInv, scanner, S!IInv, S!TypeOK, S!Extents, S!Ended,
              S!RoomForTokens, S!Size, S!Lexed, S!Text
<1>5. UNCHANGED <<tokens, ip, idents, nodes, stack, ret, status, scanning>>
  BY <1>1 DEF parser, scanner
<1>6. (P!IInv => P!IInv') /\ (AtRest => AtRest')
  BY <1>5, P!NextKeeps, SameTokenLists DEF P!vars, AtRest
<1>3. CASE Ends
  <2>1. phase' = "ended" /\ phase # "start" BY <1>3 DEF Ends
  <2>2. scanning = "done" => phase # "scan" BY <1>3 DEF Ends
  <2> QED BY <1>1, <1>2, <1>5, <1>6, <2>1, <2>2 DEF CInv
<1>4. CASE UNCHANGED vars
  <2>1. UNCHANGED <<phase, scanner>> BY <1>4 DEF vars
  <2>3. FreshScanner => FreshScanner' BY <2>1 DEF FreshScanner, scanner
  <2> QED BY <1>1, <1>2, <1>5, <1>6, <2>1, <2>3 DEF CInv
<1> QED BY <1>3, <1>4

LEMMA Invariance == Spec => []CInv
<1>1. CInv /\ [Next]_vars => CInv'
  BY LoadKeeps, ScanKeeps, HandOverKeeps, ParseKeeps, StutterKeeps DEF Next
<1> QED BY InitKeepsAll, <1>1, PTL DEF Spec

-----------------------------------------------------------------------------
(* Whatever the text, the scanner's variables and then the parser's keep   *)
(* their types to the end of the process, and nothing has touched the      *)
(* parser's before its tokens are handed over.                             *)
THEOREM TypeCorrect == Spec => []TypeOK
<1>1. CInv => TypeOK BY DEF CInv, TypeOK, S!IInv, P!IInv
<1> QED BY Invariance, <1>1, PTL

(* For every text, read from a file or typed, cut or not, with whatever    *)
(* was in memory before: the parser is given the scanner's tokens, all of  *)
(* them, and they are a token list.                                        *)
THEOREM ParserGetsTokens == Spec => []HandedOver
<1>1. CInv => HandedOver
  <2> SUFFICES ASSUME CInv, phase = "parse" PROVE HandedOver
    BY DEF HandedOver
  <2>1. tokens \in P!TokenList /\ tokens = S!Lexed
    BY DEF CInv, P!IInv, P!TypeOK
  <2>2. Len(scanned) \in Nat /\ scanned # <<>> /\ Len(scanned) # 0
    BY LenProperties, EmptySeq DEF CInv, S!IInv, S!TypeOK, S!Ended
  <2>3. Len(S!Lexed) = Len(scanned) BY <2>2 DEF S!Lexed
  <2>4. S!Lexed[Len(scanned)].type = scanned[Len(scanned)].type
    BY <2>2 DEF S!Lexed
  <2> QED BY <2>1, <2>3, <2>4 DEF HandedOver
<1> QED BY Invariance, <1>1, PTL

(* The parser's invariants, from its first step on.                        *)
ParserInv == phase = "parse" => P!SentinelKept /\ P!TreeInv /\ P!DataInv

LEMMA ParserStartsSound == P!Init => P!SentinelKept /\ P!TreeInv /\ P!DataInv
BY P!InitCursor, P!InitTree, P!InitData, SameTokenLists

LEMMA ParserStepsSound ==
  /\ P!IInv /\ P!SentinelKept /\ [P!Next]_P!vars => P!SentinelKept'
  /\ P!IInv /\ P!TreeInv /\ [P!Next]_P!vars => P!TreeInv'
  /\ P!IInv /\ P!TreeInv /\ P!DataInv /\ [P!Next]_P!vars => P!DataInv'
BY P!CursorKeeps, P!TreeKeeps, P!DataKeeps, SameTokenLists

LEMMA ParserKeeps == CInv /\ ParserInv /\ [Next]_vars => ParserInv'
<1> SUFFICES ASSUME CInv, ParserInv, [Next]_vars PROVE ParserInv' OBVIOUS
<1>1. ASSUME phase' # "parse" PROVE ParserInv' BY <1>1 DEF ParserInv
<1>2. CASE StartParser
  <2>1. S!Lexed \in T!TokenList
    BY <1>2, S!LexedList, SameTokenLists DEF CInv, StartParser, S!ParserInput
  <2>2. P!Init' BY <1>2, <2>1 DEF StartParser, Handed, P!Init
  <2>3. (P!Init => P!SentinelKept /\ P!TreeInv /\ P!DataInv)' BY ParserStartsSound, PTL
  <2> QED BY <2>2, <2>3 DEF ParserInv
<1>3. CASE phase = "parse" /\ [P!Next]_P!vars
  BY <1>3, ParserStepsSound DEF ParserInv, CInv
<1>4. Parse => phase = "parse" /\ P!Next BY DEF Parse
<1>5. UNCHANGED vars => UNCHANGED phase /\ UNCHANGED P!vars BY DEF vars, parser, P!vars
<1>6. ReadFile \/ NoFile \/ ReadLine \/ NoLine \/ Scan \/ Ends => phase' # "parse"
  BY DEF ReadFile, NoFile, ReadLine, NoLine, Scan, Ends
<1> QED BY <1>1, <1>2, <1>3, <1>4, <1>5, <1>6 DEF Next

(* And so what is proved of the parser holds in the program, whatever the  *)
(* text: no function of it is given a NULL or foreign node, the cursor     *)
(* passes the scanner's tokens only under an `if` or on the way to a       *)
(* refusal, the nodes are a tree in source order, and those that are done  *)
(* have all that is read of them.                                          *)
ParserSound ==
  phase = "parse" =>
    /\ P!TypeOK /\ P!StackOK /\ P!SentinelKept
    /\ P!OrderedTree /\ P!AstComplete
    /\ P!IdentTypesAgree /\ P!LiteralEncoding /\ P!PointerOperands

THEOREM ParserStaysSound == Spec => []ParserSound
<1>1. Init => ParserInv BY DEF Init, ParserInv
<1>2. P!IInv /\ P!TreeInv /\ P!DataInv =>
        /\ P!OrderedTree /\ P!AstComplete
        /\ P!IdentTypesAgree /\ P!LiteralEncoding /\ P!PointerOperands
  BY P!TreeIsOrdered, P!AstIsComplete, P!IdentsTyped, P!LiteralsEncoded, P!PointersDeclared,
     SameTokenLists
<1>3. CInv /\ ParserInv => ParserSound BY <1>2 DEF CInv, ParserInv, ParserSound, P!IInv
<1>4. CInv /\ [Next]_vars => CInv'
  BY LoadKeeps, ScanKeeps, HandOverKeeps, ParseKeeps, StutterKeeps DEF Next
<1> QED BY InitKeepsAll, <1>1, <1>3, <1>4, ParserKeeps, PTL DEF Spec

-----------------------------------------------------------------------------
(* Where the scan stops.                                                   *)

(* A line that was typed to its end.                                       *)
WholeLine == source = "line" /\ text # <<>> /\ text[Len(text)] = S!Lf

(* What the scanner's memory owes to where its text came from, with what   *)
(* is known of a scan before an end mark and before a wall.                *)
Placed == /\ S!StopsInBuffer
          /\ S!MarkAhead
          /\ source = "file" => Len(buf) = Len(text) + 1
          /\ WholeLine => S!Contained(Len(text))

(* Every step either loads a text or is one of the scanner, or none of it. *)
LoadedFile == \E file \in Files, unwritten \in Garbage :
                /\ text' = file /\ buf' = FileBuffer(file, unwritten)
                /\ source' = "file"
LoadedLine == \E read, stale \in Seq(Char) :
                /\ text' = read /\ buf' = LineBuffer(read, stale)
                /\ source' = "line"

LEMMA Loading ==
  ASSUME CInv, [Next]_vars
  PROVE  \/ FreshScanner' /\ (LoadedFile \/ LoadedLine)
         \/ [S!Next]_(S!vars) /\ UNCHANGED <<source, text>>
<1>1. phase = "start" /\ UNCHANGED scanner => FreshScanner'
  BY DEF CInv, FreshScanner, scanner
<1>2. CASE ReadFile BY <1>1, <1>2 DEF ReadFile, LoadedFile
<1>3. CASE ReadLine
  <2>0. PICK typed \in Typed :
          \E stale \in Stale(LineSize - 1 - Len(FirstLine(typed))) :
            text' = FirstLine(typed) /\ buf' = LineBuffer(FirstLine(typed), stale)
    BY <1>3 DEF ReadLine
  <2>1. PICK stale \in Stale(LineSize - 1 - Len(FirstLine(typed))) :
          text' = FirstLine(typed) /\ buf' = LineBuffer(FirstLine(typed), stale)
    BY <2>0
  <2>2. /\ FirstLine(typed) \in Seq(Char) /\ Len(FirstLine(typed)) < LineSize
        /\ Len(FirstLine(typed)) \in Nat
    BY FirstLineType, LenProperties
  <2>3. stale \in Seq(Char) BY <2>2, StaleType
  <2> QED BY <1>1, <1>3, <2>1, <2>2, <2>3 DEF ReadLine, LoadedLine
<1>4. CASE NoLine
  <2>1. CASE UNCHANGED <<source, text, buf>>
    BY <1>4, <2>1 DEF NoLine, scanner, S!vars
  <2>2. CASE FoundLine /\ source' = "line"
    BY <1>1, <1>4, <2>2, FoundLineType DEF NoLine, LoadedLine
  <2> QED BY <1>4, <2>1, <2>2 DEF NoLine, FoundLine
<1>5. CASE NoFile BY <1>5 DEF NoFile, scanner, S!vars
<1>6. CASE Scan BY <1>6 DEF Scan
<1>7. CASE StartParser BY <1>7 DEF StartParser, scanner, S!vars
<1>8. CASE Parse BY <1>8 DEF Parse, scanner, S!vars
<1>9. CASE Ends BY <1>9 DEF Ends, scanner, S!vars
<1>10. CASE UNCHANGED vars BY <1>10 DEF vars, scanner, S!vars
<1> QED BY <1>2, <1>3, <1>4, <1>5, <1>6, <1>7, <1>8, <1>9, <1>10 DEF Next

(* The end-of-file character after a whole line is a wall for the scanner. *)
LEMMA LineWall ==
  ASSUME NEW read \in Seq(Char), NEW stale \in Seq(Char), read # <<>>, read[Len(read)] = S!Lf
  PROVE  /\ Len(read) \in Nat /\ 1 <= Len(read)
         /\ Len(read) < Len(LineBuffer(read, stale))
         /\ LineBuffer(read, stale)[Len(read) + 1] = S!Eof
         /\ LineBuffer(read, stale)[Len(read)] = S!Lf
<1> DEFINE marked == read \o <<S!Eof>>
<1>1. S!Eof \in Char BY TextAssumption DEF S!Eof
<1>2. Len(read) \in Nat BY LenProperties
<1>4. <<S!Eof>> \in Seq(Char) /\ Len(<<S!Eof>>) = 1 BY <1>1
<1>5. Len(read) # 0 BY EmptySeq
<1>6. 1 <= Len(read) BY <1>2, <1>5
<1>7. marked \in Seq(Char) BY <1>4, ConcatProperties
<1>8. /\ Len(marked) = Len(read) + 1
      /\ marked[Len(read)] = read[Len(read)]
      /\ marked[Len(read) + 1] = S!Eof
  BY <1>2, <1>4, <1>6, ConcatProperties
<1> HIDE DEF marked
<1>9. LineBuffer(read, stale) = marked \o stale BY DEF LineBuffer, marked
<1>10. Len(stale) \in Nat BY LenProperties
<1>11. /\ Len(marked \o stale) = Len(marked) + Len(stale)
       /\ \A i \in 1 .. Len(marked) : (marked \o stale)[i] = marked[i]
  BY <1>7, ConcatProperties
<1> QED BY <1>2, <1>6, <1>8, <1>9, <1>10, <1>11

LEMMA PlacedKept == CInv /\ Placed /\ [Next]_vars => Placed'
<1> SUFFICES ASSUME CInv, Placed, [Next]_vars PROVE Placed' OBVIOUS
<1>1. CASE FreshScanner' /\ (LoadedFile \/ LoadedLine)
  <2>1. S!StopsInBuffer' /\ S!MarkAhead'
    BY <1>1 DEF FreshScanner, S!StopsInBuffer, S!MarkAhead
  <2>2. CASE LoadedFile
    <3>1. PICK file \in Files, unwritten \in Garbage :
            text' = file /\ buf' = Append(file, unwritten) /\ source' = "file"
      BY <2>2 DEF LoadedFile, FileBuffer
    <3>2. Len(buf') = Len(text') + 1
      BY <3>1, TextAssumption, AppendProperties
    <3> QED BY <2>1, <3>1, <3>2 DEF Placed, WholeLine
  <2>3. CASE LoadedLine
    <3>1. PICK read, stale \in Seq(Char) :
            text' = read /\ buf' = LineBuffer(read, stale) /\ source' = "line"
      BY <2>3 DEF LoadedLine
    <3>2. ASSUME WholeLine' PROVE S!Contained(Len(text))'
      <4>1. read # <<>> /\ read[Len(read)] = S!Lf BY <3>1, <3>2 DEF WholeLine
      <4>2. /\ Len(read) \in Nat /\ 1 <= Len(read) /\ Len(read) < Len(buf')
            /\ buf'[Len(read) + 1] = S!Eof /\ buf'[Len(read)] = S!Lf
        BY <3>1, <4>1, LineWall
      <4>3. (Len(read) - 1) + 1 = Len(read) BY <4>2
      <4>4. S!Wall(Len(text))' BY <3>1, <4>2, <4>3 DEF S!Wall, S!Size, S!Ch
      <4>5. 0 <= Len(read) /\ DOMAIN <<>> = {} BY <4>2
      <4> QED BY <1>1, <3>1, <4>4, <4>5 DEF S!Contained, FreshScanner
    <3> QED BY <2>1, <3>1, <3>2 DEF Placed
  <2> QED BY <1>1, <2>2, <2>3
<1>2. CASE [S!Next]_(S!vars) /\ UNCHANGED <<source, text>>
  <2>1. S!IInv /\ S!IInv' BY <1>2, S!NextInvariant DEF CInv
  <2>2. S!StopsInBuffer' BY <1>2, <2>1, S!StopsKept DEF Placed
  <2>3. S!MarkAhead' BY <1>2, <2>1, S!MarkStaysAhead DEF Placed
  <2>4. source' = "file" => Len(buf') = Len(text') + 1
    <3>1. buf' = buf
      BY <1>2 DEF S!Next, S!ScanNumber, S!ScanWord, S!ScanString, S!ScanSymbol,
                  S!RunOff, S!Emit, S!vars
    <3> QED BY <1>2, <3>1 DEF Placed
  <2>5. ASSUME WholeLine' PROVE S!Contained(Len(text))'
    <3>1. PICK n : n = Len(text) OBVIOUS
    <3>2. WholeLine /\ Len(text') = n BY <1>2, <2>5, <3>1 DEF WholeLine
    <3>3. S!Contained(n) BY <3>1, <3>2 DEF Placed
    <3>4. S!Contained(n)' BY <1>2, <2>1, <3>3, S!ContainedKept
    <3> QED BY <3>2, <3>4
  <2> QED BY <2>2, <2>3, <2>4, <2>5 DEF Placed
<1> QED BY <1>1, <1>2, Loading

LEMMA Placement == Spec => []Placed
<1>1. Init => Placed
  BY DEF Init, Placed, WholeLine, S!StopsInBuffer, S!MarkAhead
<1> QED BY Invariance, <1>1, PlacedKept, PTL DEF Spec

(* Of a line typed to its end, whatever is left in the array from before   *)
(* and whatever the line holds, nothing behind the mark is ever read.      *)
THEOREM LineStaysAlone == Spec => []LineScannedAlone
<1>1. Placed => LineScannedAlone
  BY DEF Placed, WholeLine, LineScannedAlone, S!Contained
<1> QED BY Placement, <1>1, PTL

(* A file whose last byte, the one nobody wrote, happens to be an end mark *)
(* is scanned within its buffer, or ends in a string that is not closed.   *)
THEOREM FileScanned == Spec => []FileScanStops
<1>1. CInv /\ Placed => FileScanStops
  <2> SUFFICES ASSUME CInv, Placed, source = "file", scanning = "oob"
               PROVE  /\ Len(buf) = Len(text) + 1
                      /\ buf[Len(buf)] \in {S!Eof, S!Nul} => buf[S!Start + 1] = S!Quote
    BY DEF FileScanStops
  <2>1. Len(buf) = Len(text) + 1 BY DEF Placed
  <2>2. ASSUME buf[Len(buf)] \in {S!Eof, S!Nul} PROVE buf[S!Start + 1] = S!Quote
    <3>1. /\ text \in Seq(Char) /\ Len(text) \in Nat /\ Len(buf) \in Nat
          /\ cursor \in Nat /\ cursor <= Len(buf)
      BY <2>1, LenProperties DEF CInv, S!IInv, S!TypeOK, S!Extents, S!Size
    <3>2. (Len(buf) - 1) + 1 = Len(buf) /\ Len(buf) # 0 BY <2>1, <3>1
    <3>3. S!Ch(Len(buf) - 1) \in {S!Eof, S!Nul} BY <2>2, <3>2 DEF S!Ch
    <3>4. cursor # Len(buf)
      <4> SUFFICES ASSUME cursor = Len(buf) PROVE FALSE OBVIOUS
      <4>1. cursor = 0 \/ S!Ch(cursor - 1) \notin S!EndMarks BY DEF Placed, S!MarkAhead
      <4> QED BY <3>2, <3>3, <4>1 DEF S!EndMarks
    <3>5. Len(buf) - 1 \in cursor .. S!Size - 1 BY <3>1, <3>4 DEF S!Size
    <3>6. S!Ch(S!Start) = S!Quote BY <3>3, <3>5 DEF Placed, S!StopsInBuffer
    <3> QED BY <3>6 DEF S!Ch
  <2> QED BY <2>1, <2>2
<1> QED BY Invariance, Placement, <1>1, PTL

=============================================================================
