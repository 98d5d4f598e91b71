----------------------------- MODULE MCExamples -----------------------------
(***************************************************************************)
(* The programs of examples/ as the scanner hands them to the parser:      *)
(* `char` arrives as T_CHARID and an identifier (scanner.cc:97-98), and    *)
(* the byte after the last one of a file as T_ERROR (bou.cc:19-26).        *)
(***************************************************************************)
EXTENDS Parser

CONSTANTS a, b, c, har      \* identifiers

(* A word that is no identifier names its token type.                      *)
Lex(words) == [i \in 1 .. Len(words) |->
                 IF words[i] \in Name
                 THEN [type |-> "T_IDENTIFIER", name |-> words[i]]
                 ELSE [type |-> words[i], name |-> NoName]]

int == <<"T_COLON", "T_INTID">>
bool == <<"T_COLON", "T_BOOLID">>
char == <<"T_COLON", "T_CHARID", har>>
lf == <<"T_LF">>
semi == <<"T_SEMICOLON", "T_LF">>
open == <<"T_LEFT_BRACE", "T_LF">>
close == <<"T_RIGHT_BRACE", "T_LF">>
set == <<"T_EQUAL">>
sum == <<"T_INT", "T_PLUS", "T_INT">> \o semi
comma == <<"T_COMMA">>
lpar == <<"T_LEFT_PAR">>
rpar == <<"T_RIGHT_PAR">>
decl == <<a>> \o int \o set \o <<"T_INT">> \o semi
Program(body) == Lex(open \o body \o close \o <<"T_ERROR">>)

constant_folding ==
  sum \o <<"T_INT", "T_PLUS", "T_BOOL">> \o semi
  \o <<"T_FLOAT", "T_PLUS", "T_INT">> \o semi

enum == <<"T_ENUM", a>> \o open \o <<b>> \o semi \o <<c>> \o semi \o close

func ==
  <<"T_DEF", a>> \o lpar \o <<b>> \o int \o comma \o <<c>> \o bool \o rpar
    \o int \o open \o sum \o close \o lf
  \o <<"T_DEF", a>> \o lpar \o lf \o <<b>> \o int \o comma \o lf \o <<c>> \o bool
    \o rpar \o int \o open \o decl \o lf \o close

logical_operator ==
  decl \o <<"T_IF", "T_LEFT_PAR", a, "T_GREATER", "T_INT", "T_AND", a, "T_LESS",
            "T_INT", "T_RIGHT_PAR">> \o open \o close

negation ==
  decl \o <<a, "T_EQUAL", "T_BANG", a>> \o semi \o <<a, "T_EQUAL", "T_MINUS", a>> \o semi

simple_pointer ==
  decl \o <<b>> \o int \o <<"T_STAR", "T_EQUAL", "T_AMPERSAND", a>> \o semi
  \o <<c>> \o int \o set \o <<"T_INT", "T_PLUS", "T_STAR", b>> \o semi

struct ==
  <<"T_STRUCT", a>> \o open \o <<a>> \o int \o semi \o <<b>> \o bool \o semi
    \o <<c>> \o char \o semi \o close \o lf \o func

union == <<"T_UNION", a>> \o open \o <<b>> \o int \o semi \o <<c>> \o char \o semi \o close

ExampleInputs ==
  {Program(body) : body \in {constant_folding, func, logical_operator, negation,
                             simple_pointer, struct, union}}
  \cup {Lex(lf) \o Program(enum)}

(* Each function of the examples keeps its parameters in order, and the    *)
(* structs and unions their members, also the one after whose type a token *)
(* is skipped (parser.cc:227-233, 263-267, 286-290).                       *)
MembersKept ==
  status = "accepted" /\ tokens \in ExampleInputs =>
    \A i \in DOMAIN nodes :
      /\ nodes[i].kind \in {"FUNC", "UNION", "ENUM"} =>
           [k \in DOMAIN nodes[i].members |-> nodes[i].members[k].name] = <<b, c>>
      /\ nodes[i].kind = "STRUCT" =>
           [k \in DOMAIN nodes[i].members |-> nodes[i].members[k].name] = <<a, b, c>>

=============================================================================
