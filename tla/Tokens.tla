------------------------------- MODULE Tokens -------------------------------
(***************************************************************************)
(* The token alphabet shared by the scanner, which produces tokens, and    *)
(* the parser, which consumes them (token.h).  A token's lexeme is kept    *)
(* only where the parser uses it: the spelling of an identifier is a       *)
(* member of Name; every other token carries NoName.                       *)
(***************************************************************************)
EXTENDS Naturals, Sequences

CONSTANTS Name,     \* the spellings of identifiers
          NoName    \* stands for the lexeme of a token that is no identifier

ASSUME NameAssumption == NoName \notin Name

(* The words that name a type in a declaration the parser accepts.         *)
TypeIds == {"T_INTID", "T_BOOLID", "T_CHARID", "T_FLOATID"}

(* The tokens that are a literal by themselves.                            *)
LiteralTokens == {"T_CHAR", "T_INT", "T_FLOAT", "T_BOOL"}

(* The comparison operators the parser knows; T_BANG_EQUAL is a TODO.      *)
ComparisonTokens ==
  {"T_EQUAL_EQUAL", "T_LESS", "T_LESS_EQUAL", "T_GREATER", "T_GREATER_EQUAL"}

(* The words that open a named, braced or parenthesised definition.        *)
DefinitionTokens == {"T_DEF", "T_STRUCT", "T_UNION", "T_ENUM"}

(* scan() stops at the first of these, so each token list ends with one    *)
(* and holds no other.                                                     *)
Sentinels == {"T_EOF", "T_ERROR"}

TokenType ==
  TypeIds \cup LiteralTokens \cup ComparisonTokens \cup DefinitionTokens
  \cup Sentinels
  \cup {"T_STRING", "T_STRING_LITERAL", "T_DOUBLE", "T_DOUBLEID",
        "T_STRINGID", "T_IF", "T_ELSE", "T_FOR", "T_WHILE", "T_BREAK",
        "T_CONTINUE", "T_RETURN", "T_IDENTIFIER", "T_LEFT_PAR",
        "T_RIGHT_PAR", "T_LEFT_BRACE", "T_RIGHT_BRACE", "T_DOT", "T_PLUS",
        "T_MINUS", "T_STAR", "T_SLASH", "T_SHIFT_RIGHT", "T_SHIFT_LEFT",
        "T_SEMICOLON", "T_COLON", "T_COMMA", "T_AMPERSAND", "T_BANG",
        "T_BANG_EQUAL", "T_EQUAL", "T_OR", "T_AND", "T_BIT_OR", "T_TAB",
        "T_LF", "T_SPACE"}

Token == {t \in [type : TokenType, name : Name \cup {NoName}] :
            t.type = "T_IDENTIFIER" <=> t.name # NoName}

(* What scan() hands to parse(): a list ended by its only sentinel.        *)
TokenList == {ts \in Seq(Token) :
                /\ ts # <<>>
                /\ \A i \in 1 .. Len(ts) :
                     ts[i].type \in Sentinels <=> i = Len(ts)}

=============================================================================
