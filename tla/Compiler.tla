------------------------------ MODULE Compiler ------------------------------
(***************************************************************************)
(* The program as a whole: main() and repl() (bou.cc) put a text into      *)
(* memory, compile() (compiler.cc) scans it, parses it and ends the        *)
(* process.  The scanner and the parser are the modules of that name; this *)
(* module says what memory the one finds and what tokens the other does.   *)
(***************************************************************************)
EXTENDS Naturals, Sequences

CONSTANTS Char,       \* the characters
          Files,      \* the texts a file may hold
          Typed,      \* the lines that may be typed at the repl
          LineSize,   \* the size of the repl's line buffer, 1024
          Garbage     \* the characters memory may hold before it is written

ASSUME LineAssumption == LineSize \in Nat /\ LineSize >= 2
ASSUME TextAssumption == /\ "EOF" \in Char
                         /\ Files \subseteq Seq(Char)
                         /\ Typed \subseteq Seq(Char)
                         /\ Garbage \subseteq Char
                         /\ \A t \in Typed : \A i \in 1 .. Len(t) :
                              t[i] # "NUL" /\ (t[i] = "LF" => i = Len(t))

VARIABLES phase,      \* start, scan, parse or ended: how far the process is
          source,     \* file or line, once one of them is read
          text,       \* what the user wrote, as much as is read of it
          buf,        \* the memory from src on
          cursor,     \* the scanner's variables
          line,
          scanned,
          capacity,
          scanning,
          tokens,     \* the parser's variables
          ip,
          idents,
          nodes,
          stack,
          ret,
          status

scanner == <<cursor, line, scanned, capacity, scanning>>
parser == <<tokens, ip, idents, nodes, stack, ret, status>>
vars == <<phase, source, text, buf, scanner, parser>>

T == INSTANCE Tokens WITH Name <- Seq(Char) \ {<<>>}, NoName <- <<>>

(* The modules of the proofs are those of the components and what is known *)
(* of them.                                                                *)
S == INSTANCE ScannerProofs WITH
       Buffers <- Seq(Char), ip <- cursor, tokens <- scanned, status <- scanning

P == INSTANCE NodeProofs WITH      \* with nothing printed: that changes nothing
       Name <- Seq(Char) \ {<<>>}, NoName <- <<>>, Inputs <- T!TokenList,
       todo <- <<>>, shown <- <<>>, source <- <<>>, dropped <- {}

-----------------------------------------------------------------------------
(* The parser's variables before it has any tokens.                        *)
AtRest == /\ tokens = <<>> /\ ip = 0 /\ idents = [x \in {} |-> P!ZeroIdentifier]
          /\ nodes = <<>> /\ stack = <<>> /\ ret = 0 /\ status = "running"

Init == /\ phase = "start"
        /\ source = "none" /\ text = <<>> /\ buf = <<>>
        /\ cursor = 0 /\ line = 1 /\ scanned = <<>> /\ capacity = 8
        /\ scanning = "running"
        /\ AtRest

(* main(): the buffer has one byte more than the file, and nothing writes  *)
(* to it.                                                                  *)
FileBufferExact(file, unwritten) == file      \* slip: no byte more
FileBuffer(file, unwritten) == Append(file, unwritten)

ReadFile ==
  /\ phase = "start"
  /\ \E file \in Files, unwritten \in Garbage :
       text' = file /\ buf' = FileBuffer(file, unwritten)
  /\ phase' = "scan" /\ source' = "file"
  /\ UNCHANGED <<scanner, parser>>

(* fopen() or malloc() returned NULL, and it is used.                      *)
NoFile == /\ phase = "start"
          /\ phase' = "ended"
          /\ UNCHANGED <<source, text, buf, scanner, parser>>

(* repl(): fgets() leaves room for its zero and one byte more.             *)
FirstLine(typed) ==
  SubSeq(typed, 1, IF Len(typed) <= LineSize - 2 THEN Len(typed) ELSE LineSize - 2)

(* The zero behind what was read is replaced by the end-of-file character, *)
(* and the rest of the array is as it was.                                 *)
LineBufferUnmarked(read, stale) == read \o stale      \* slip: nothing marks the end
LineBuffer(read, stale) == read \o <<S!Eof>> \o stale

(* What the last n bytes of the array may hold: nothing has written them.  *)
Stale(n) == [1 .. n -> Garbage]

ReadLine ==
  /\ phase = "start"
  /\ \E typed \in Typed :
       \E stale \in Stale(LineSize - 1 - Len(FirstLine(typed))) :
         /\ text' = FirstLine(typed)
         /\ buf' = LineBuffer(FirstLine(typed), stale)
  /\ phase' = "scan" /\ source' = "line"
  /\ UNCHANGED <<scanner, parser>>

(* Nothing typed: fgets() leaves the array as it is, and a zero is looked  *)
(* for in what it holds, or beyond it.                                     *)
NoLine ==
  /\ phase = "start"
  /\ \/ /\ S!Nul \in Garbage
        /\ \E n \in 0 .. LineSize - 1 :
             \E found \in [1 .. n -> Garbage \ {S!Nul}], stale \in Stale(LineSize - 1 - n) :
               text' = found /\ buf' = LineBuffer(found, stale)
        /\ phase' = "scan" /\ source' = "line"
     \/ /\ phase' = "ended"
        /\ UNCHANGED <<source, text, buf>>
  /\ UNCHANGED <<scanner, parser>>

(* compile(): scan() ...                                                   *)
Scan == /\ phase = "scan"
        /\ S!Next
        /\ UNCHANGED <<phase, source, text, parser>>

(* ... and parse() of all its tokens ...                                   *)
HandedShort == SubSeq(S!Lexed, 1, Len(scanned) - 1)      \* slip: one token less
Handed == S!Lexed

StartParser ==
  /\ phase = "scan" /\ scanning = "done"
  /\ phase' = "parse"
  /\ tokens' = Handed
  /\ ip' = 0 /\ idents' = [x \in {} |-> P!ZeroIdentifier] /\ nodes' = <<>>
  /\ stack' = <<P!Fr("Statement")>> /\ ret' = 0 /\ status' = "running"
  /\ UNCHANGED <<source, text, buf, scanner>>

Parse == /\ phase = "parse"
         /\ P!Next
         /\ UNCHANGED <<phase, source, text, buf, scanner>>

(* ... and exit(1), always.  The other ways to end are those of the        *)
(* scanner and the parser.                                                 *)
EndsSpinning == phase = "parse" /\ status # "running" /\ UNCHANGED vars   \* slip
Ends == /\ \/ phase = "scan" /\ scanning = "oob"
           \/ phase = "parse" /\ status # "running"
        /\ phase' = "ended"
        /\ UNCHANGED <<source, text, buf, scanner, parser>>

Next == \/ ReadFile \/ NoFile \/ ReadLine \/ NoLine
        \/ Scan \/ StartParser \/ Parse \/ Ends

(* One thread; fgets() returns sooner or later.                            *)
Spec == Init /\ [][Next]_vars /\ WF_vars(Next)

-----------------------------------------------------------------------------
(* Properties.                                                             *)

(* The type invariant: that of the scanner throughout, and that of the     *)
(* parser once the scan is done and its tokens are handed over, to the end *)
(* of the process; until then nothing has touched the parser's state       *)
(* (compiler.cc:23-28).                                                    *)
TypeOK == /\ phase \in {"start", "scan", "parse", "ended"}
          /\ source \in {"none", "file", "line"}
          /\ text \in Seq(Char)
          /\ S!TypeOK
          /\ IF scanning = "done" /\ phase # "scan" THEN P!TypeOK ELSE AtRest
          /\ phase = "parse" => scanning = "done"

(* The parser works on a token list of the kind it is written for, and on  *)
(* all the scanner found, whatever the text (compiler.cc:23-26).           *)
HandedOver ==
  phase = "parse" =>
    /\ tokens \in P!TokenList
    /\ tokens[Len(tokens)].type = scanned[Len(scanned)].type

(* A whole line typed at the repl is scanned within the line and its mark: *)
(* what was in the array before is never read (bou.cc:8-15).               *)
LineScannedAlone ==
  source = "line" /\ text # <<>> /\ text[Len(text)] = S!Lf =>
    /\ scanning # "oob"
    /\ \A i \in DOMAIN scanned : scanned[i].end <= Len(text) + 1

(* The scan of a file leaves its buffer only when the byte nobody wrote is *)
(* no end mark, or inside a string that is not closed (bou.cc:26-31).      *)
FileScanStops ==
  source = "file" /\ scanning = "oob" =>
    /\ Len(buf) = Len(text) + 1
    /\ buf[Len(buf)] \notin {S!Eof, S!Nul} \/ buf[S!Start + 1] = S!Quote

(* The process always comes to an end: there is no second turn of the loop *)
(* of the repl (bou.cc:8-16, compiler.cc:28).                              *)
Terminates == <>(phase = "ended")

=============================================================================
