----------------------------- MODULE Characters -----------------------------
(***************************************************************************)
(* The characters of a text, and what the scanner (scanner.cc) reads as a  *)
(* punctuation mark or operator.  A character is a string; those that do   *)
(* not show have a name.                                                   *)
(***************************************************************************)

Blank == " "
Quote == "QUOTE"
Lf    == "LF"
Nul   == "NUL"
Eof   == "EOF"      \* the character -1, not the end of anything

Digit == {"0", "1", "2", "3", "4", "5", "6", "7", "8", "9"}

Alpha ==
  {"a", "b", "c", "d", "e", "f", "g", "h", "i", "j", "k", "l", "m", "n", "o",
   "p", "q", "r", "s", "t", "u", "v", "w", "x", "y", "z", "A", "B", "C", "D",
   "E", "F", "G", "H", "I", "J", "K", "L", "M", "N", "O", "P", "Q", "R", "S",
   "T", "U", "V", "W", "X", "Y", "Z", "_"}

(* The symbols of scan_token(), with their types.                          *)
Symbols ==
  {<<<<"(">>, "T_LEFT_PAR">>,        <<<<")">>, "T_RIGHT_PAR">>,
   <<<<"{">>, "T_LEFT_BRACE">>,      <<<<"}">>, "T_RIGHT_BRACE">>,
   <<<<".">>, "T_DOT">>,             <<<<"+">>, "T_PLUS">>,
   <<<<"-">>, "T_MINUS">>,           <<<<"*">>, "T_STAR">>,
   <<<<"/">>, "T_SLASH">>,           <<<<";">>, "T_SEMICOLON">>,
   <<<<":">>, "T_COLON">>,           <<<<",">>, "T_COMMA">>,
   <<<<"!">>, "T_BANG">>,            <<<<"!", "=">>, "T_BANG_EQUAL">>,
   <<<<"=">>, "T_EQUAL">>,           <<<<"=", "=">>, "T_EQUAL_EQUAL">>,
   <<<<">">>, "T_GREATER">>,         <<<<">", "=">>, "T_GREATER_EQUAL">>,
   <<<<"<">>, "T_LESS">>,            <<<<"<", "=">>, "T_LESS_EQUAL">>,
   <<<<">", ">">>, "T_SHIFT_RIGHT">>, <<<<"<", "<">>, "T_SHIFT_LEFT">>,
   <<<<"&">>, "T_AMPERSAND">>,       <<<<"&", "&">>, "T_AND">>,
   <<<<"|">>, "T_BIT_OR">>,          <<<<"|", "|">>, "T_OR">>,
   <<<<"TAB">>, "T_TAB">>,           <<<<Lf>>, "T_LF">>,
   <<<<Eof>>, "T_EOF">>}

=============================================================================
