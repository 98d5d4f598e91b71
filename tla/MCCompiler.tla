----------------------------- MODULE MCCompiler -----------------------------
(***************************************************************************)
(* Texts to model-check the whole program on: programs of examples/, as    *)
(* they stand in the files, and short texts.                               *)
(***************************************************************************)
EXTENDS Compiler, Characters

B == Blank
N == Lf

constant_folding ==
  <<"{", N, B, B, "3", B, "+", B, "3", ";", N, B, B, "2", B, "+", B, "t", "r",
    "u", "e", ";", N, B, B, "2", ".", "2", B, "+", B, "1", ";", N, "}", N>>

enum ==
  <<N, "{", N, B, B, "e", "n", "u", "m", B, "A", "d", "d", "r", "T", "y", "p",
    "e", B, "{", N, B, B, B, B, "I", "P", "V", "4", ";", N, B, B, B, B, "I",
    "P", "V", "6", ";", N, B, B, "}", N, "}", N>>

func ==
  <<"{", B, N, B, B, "d", "e", "f", B, "x", "d", "(", "a", ":", B, "i", "n",
    "t", ",", B, "b", ":", B, "b", "o", "o", "l", ")", ":", B, "i", "n", "t",
    B, "{", N, B, B, B, B, "3", "+", "3", ";", N, B, B, "}", B, N, N, B, B,
    "d", "e", "f", B, "x", "d", "s", B, "(", N, B, B, B, B, B, B, "a", ":", B,
    "i", "n", "t", ",", B, N, B, B, B, B, B, B, "b", ":", B, "b", "o", "o",
    "l", ")", ":", B, "i", "n", "t", B, "{", N, B, B, B, B, "a", ":", B, "i",
    "n", "t", B, "=", B, "2", ";", N, N, B, B, "}", B, N, "}", N>>

logical_operator ==
  <<"{", B, N, B, B, "i", ":", B, "i", "n", "t", B, "=", B, "2", ";", N, B, B,
    "i", "f", B, "(", "i", B, ">", B, "0", B, "&", "&", B, "i", B, "<", B,
    "1", "0", ")", B, "{", N, B, B, "}", N, "}", N>>

negation ==
  <<"{", B, N, B, B, "i", ":", B, "i", "n", "t", B, "=", B, "2", ";", N, B, B,
    "i", B, "=", B, "!", "i", ";", N, B, B, "i", B, "=", B, "-", "i", ";", N,
    "}", N>>

simple_pointer ==
  <<"{", B, N, B, B, "x", ":", B, "i", "n", "t", B, "=", B, "2", ";", N, B, B,
    "y", ":", B, "i", "n", "t", "*", B, "=", B, "&", "x", ";", N, B, B, "a",
    ":", B, "i", "n", "t", B, "=", B, B, "2", B, "+", B, "*", "y", ";", N,
    "}", N>>

struct ==
  <<"{", B, N, B, B, "s", "t", "r", "u", "c", "t", B, "F", "o", "o", B, "{",
    N, B, B, B, B, "a", ":", B, "i", "n", "t", ";", N, B, B, B, B, "s", ":",
    B, "b", "o", "o", "l", ";", N, B, B, B, B, "s", "2", ":", B, "c", "h",
    "a", "r", ";", N, B, B, "}", N, N, B, B, "d", "e", "f", B, "x", "d", "(",
    "a", ":", B, "i", "n", "t", ",", B, "b", ":", B, "b", "o", "o", "l", ")",
    ":", B, "i", "n", "t", B, "{", N, B, B, B, B, "3", "+", "3", ";", N, B, B,
    "}", B, N, N, B, B, "d", "e", "f", B, "x", "d", "s", B, "(", N, B, B, B,
    B, B, B, "a", ":", B, "i", "n", "t", ",", B, N, B, B, B, B, B, B, "b",
    ":", B, "b", "o", "o", "l", ")", ":", B, "i", "n", "t", B, "{", N, B, B,
    B, B, "a", ":", B, "i", "n", "t", B, "=", B, "2", ";", N, N, B, B, "}", B,
    N, "}", N>>

union ==
  <<"{", B, N, B, B, "u", "n", "i", "o", "n", B, "F", "o", "o", B, "{", N, B,
    B, B, B, "v", "a", "r", ":", B, "i", "n", "t", ";", N, B, B, B, B, "g",
    "o", "t", "e", "m", ":", B, "c", "h", "a", "r", ";", N, B, B, "}", N, "}",
    N>>

Examples == {constant_folding, enum, func, logical_operator, negation,
             simple_pointer, struct, union}

(* Any text over these characters.                                         *)
Texts(chars, n) == UNION {[1 .. k -> chars] : k \in 0 .. n}

MCFiles == Examples \cup Texts({"{", "}", ";", "1", "+", "x", Quote, B, N}, 3)

(* Lines that fit the repl's array, just fit it, and do not.               *)
MCTyped == {t \o end : t \in Texts({"{", "}", ";", "x", Quote}, 3), end \in {<<>>, <<N>>}}
             \ {<<>>}
MCLineSize == 5

MCGarbage == {Eof, Nul, "a", Quote}

MCChar == Alpha \cup Digit \cup {B, Quote, Nul} \cup
  UNION {{m[1][i] : i \in DOMAIN m[1]} : m \in Symbols}

-----------------------------------------------------------------------------
(* The programs of examples/ go through the scanner and the parser to the  *)
(* end, whenever the byte after the file happens to be an end mark.        *)
ExamplesCompile ==
  text \in Examples /\ buf[Len(buf)] \in {Eof, Nul} =>
    /\ scanning # "oob" /\ status \in {"running", "accepted"}
    /\ phase = "ended" => status = "accepted"

=============================================================================
