------------------------------ MODULE MCParser ------------------------------
(***************************************************************************)
(* Token lists to model-check the parser on.  Each family is a fixed       *)
(* frame of tokens around a few free places, filled in every possible way  *)
(* from a small alphabet, or the programs of examples/.                    *)
(***************************************************************************)
EXTENDS Parser

CONSTANTS x, p, y      \* an int, a pointer to int, a name nobody declares

T(type) == [type |-> type, name |-> NoName]
Id(n) == [type |-> "T_IDENTIFIER", name |-> n]

Eof   == T("T_EOF")
Int   == T("T_INT")
Float == T("T_FLOAT")
IntId == T("T_INTID")
Plus  == T("T_PLUS")
Minus == T("T_MINUS")
Star  == T("T_STAR")
Equal == T("T_EQUAL")
Colon == T("T_COLON")
Comma == T("T_COMMA")
Semi  == T("T_SEMICOLON")
LPar  == T("T_LEFT_PAR")
RPar  == T("T_RIGHT_PAR")
Open  == T("T_LEFT_BRACE")
Close == T("T_RIGHT_BRACE")
Lf    == T("T_LF")

(* `places` tokens of the alphabet between two fixed parts.                *)
Fill(before, alphabet, places, after) ==
  {before \o free \o after : free \in [1 .. places -> alphabet]}

(* The same after each of several first parts.                             *)
FillEach(befores, alphabet, places, after) ==
  {before \o free \o after : before \in befores, free \in [1 .. places -> alphabet]}

(* At most that many tokens between.                                       *)
FillUpTo(before, alphabet, places, after) ==
  UNION {Fill(before, alphabet, k, after) : k \in 0 .. places}

-----------------------------------------------------------------------------
(* { x: int = 1; p: int* = &x;                                             *)
Declarations ==
  <<Open, Id(x), Colon, IntId, Equal, Int, Semi,
    Id(p), Colon, IntId, Star, Equal, T("T_AMPERSAND"), Id(x), Semi>>

Finish == <<Semi, Close, Eof>>

Operators == {Plus, Minus, Star, T("T_AMPERSAND"), T("T_BANG"), T("T_LESS"),
              T("T_OR"), Equal}

(* Sums of literals, with the line feeds that term() looks at.             *)
SumInputs ==
  Fill(<<>>, {Int, Float, Plus, Minus, Lf}, 4, <<Semi, Eof>>)
  \cup Fill(<<>>, {Int, Float, Plus, Star}, 5, <<Semi, Eof>>)
  \cup Fill(<<>>, {Float, T("T_BOOL")}, 1, <<Minus, Int, Plus, Float, Semi, Eof>>)

(* Any three tokens as a statement after the declarations, four of a       *)
(* smaller alphabet, a second declaration of x, and sums.                  *)
ExpressionInputs ==
  SumInputs
  \cup Fill(Declarations, Operators \cup {Id(x), Id(p), Id(y), Int, Semi}, 3, Finish)
  \cup Fill(Declarations, {Id(x), Id(p), Star, Minus, Plus}, 4, Finish)
  \cup Fill(Declarations \o <<Id(x), Colon>>,
            {IntId, T("T_FLOATID"), Star, Equal, Int}, 4, Finish)

-----------------------------------------------------------------------------
(* Braces, `if` and `else`: short token lists of any shape, what may       *)
(* follow a header, what may stand in a block, and every pair of tokens.   *)
AnyToken ==
  {T(type) : type \in TokenType \ (Sentinels \cup {"T_IDENTIFIER"})} \cup {Id(x)}

StatementInputs ==
  FillUpTo(<<>>, {T("T_IF"), T("T_ELSE"), LPar, RPar, Open, Close, Int, Semi}, 4, <<Eof>>)
  \cup FillUpTo(<<T("T_IF"), LPar, Int>>, {RPar, Open, Close, T("T_ELSE"), Int, Lf},
                4, <<Close, Eof>>)
  \cup FillUpTo(<<Open, Int, Semi>>, {Open, Close, Int, Semi}, 4, <<T("T_ERROR")>>)
  \cup FillUpTo(<<>>, AnyToken, 2, <<Eof>>)

(* Functions, structs, unions and enums.                                   *)
Definition(word) == <<Open, T(word), Id(x)>>

DefinitionInputs ==
  FillUpTo(Definition("T_DEF") \o <<LPar>>, {Id(x), Colon, IntId, Star, Comma, RPar},
           4, <<RPar, Colon, IntId, Open, Close, Close, Eof>>)
  \cup Fill(Definition("T_DEF") \o <<LPar, Id(x), Colon, IntId, RPar>>,
            {Colon, IntId, Star, Open, Close, Lf}, 4, <<Close, Close, Eof>>)
  \cup FillEach({Definition(word) : word \in {"T_STRUCT", "T_UNION", "T_ENUM"}},
                {Id(y), Colon, IntId, Star, Semi, Open, Close}, 3, <<Close, Close, Eof>>)

-----------------------------------------------------------------------------
(* A number follows a number in a declaration.                             *)
AdjacentInputs ==
  FillUpTo(<<Open, Id(x), Colon, IntId, Equal>>, {Int, Plus, Minus}, 3,
           <<Semi, Id(x), Semi, Close, Eof>>)

(* A name nobody declares is read, then assigned.                          *)
UndeclaredInputs == Fill(<<Open>>, {Id(y), Equal, Int, Semi}, 5, Finish)

(* A pointer behind two operators.                                         *)
PointerInputs == Fill(Declarations, {Id(p), Minus, Star, Int}, 3, Finish)

(* A pointer at the end of a sum of numbers.                               *)
PointerSumInputs == Fill(Declarations, {Id(p), Plus, Int}, 5, Finish)

-----------------------------------------------------------------------------
(* Claims of the repository that the code does not keep.                   *)

(* "v: int = 312432 4234 should fail" (token.h:68-72): a program with      *)
(* two number literals in a row is never accepted.                         *)
AdjacentLiteralsFail ==
  status = "accepted" =>
    ~\E i \in 0 .. NTokens - 2 : Kind(i) \in LiteralTokens /\ Kind(i + 1) \in LiteralTokens

(* "Error, identifier %s isn't declared" (parser.cc:483): an assignment    *)
(* goes on only for a name that has been declared.                         *)
AssignedIsDeclared ==
  \A i \in DOMAIN stack :
    stack[i].at = "AssignRhs" => nodes[nodes[stack[i].node].kids[1]].name # NoName

(* "cannot negative char" (parser.cc:580): the parser stops there only on  *)
(* something of type char, so never on a dereferenced pointer to int.      *)
NegativeCharIsChar ==
  status = "negative_char" =>
    ~ /\ nodes[ret].kind = "UNARY" /\ nodes[ret].op = "DEREF"
      /\ nodes[nodes[ret].kids[1]].type = [value |-> "INT", ptr |-> TRUE]

(* "binary ops on two pointers" (parser.cc:363): the parser stops there    *)
(* only when neither operand is a literal.                                 *)
TwoPointersAreTwo ==
  status = "two_pointers" =>
    nodes[Top.left].kind # "LITERAL" /\ nodes[ret].kind # "LITERAL"

=============================================================================
