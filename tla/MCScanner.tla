----------------------------- MODULE MCScanner ------------------------------
(***************************************************************************)
(* Buffers to model-check the scanner on: pieces of text, one after the    *)
(* other, with every way a buffer can end.                                 *)
(***************************************************************************)
EXTENDS Scanner

Words == {k.text : k \in Keywords} \cup
  {<<"c", "o", "n", "t", "i", "n", "u", "e">>, <<"f", "o", "r">>, <<"i">>,
   <<"x", "1">>, <<"_">>}

Numbers == {<<"1">>, <<"1", ".", "0">>, <<"2", ".">>}

Marks == {s[1] : s \in Symbols}

(* Two words, numbers or symbols, together or apart.                       *)
Pairs == {a \o s \o b \o <<Eof>> :
            a \in Words \cup Numbers \cup Marks, s \in {<<>>, <<Blank>>},
            b \in Words \cup Numbers \cup {<<"=">>, <<">">>, <<"&">>, <<".">>}}

(* Any text over these characters, with and without an end mark.           *)
Texts(chars, n) == UNION {[1 .. k -> chars] : k \in 0 .. n}
Loose == {text \o last : text \in Texts({Blank, Lf, Quote, Eof, Nul, "a", "1", "."}, 4),
                         last \in {<<>>, <<Eof>>}}

(* More tokens than the array has room for at first, twice over.           *)
Many == {[i \in 1 .. n |-> "+"] \o <<Eof>> : n \in {7, 8, 15, 16, 17}}

MCChar == Alpha \cup Digit \cup {Blank, Quote, Nul} \cup
  UNION {{m[i] : i \in DOMAIN m} : m \in Marks}
MCBuffers == Pairs \cup Loose \cup Many

(* A word of the language, and a name that begins with one.                *)
WordBuffers == {<<"c", "h", "a", "r", Blank, "i", "f", "1", Eof>>}

=============================================================================
