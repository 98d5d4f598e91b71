-------------------------------- MODULE Ast ---------------------------------
(***************************************************************************)
(* The syntax tree the parser builds (ast_node.h) and the pure functions   *)
(* on it.  A node is an Ast_node of the arena and is named by its index in *)
(* the sequence of the nodes created so far; 0 is the NULL pointer.  All   *)
(* kinds share one record: a field the kind does not have keeps the value  *)
(* of a fresh node, which is what the zeroed arena memory reads as.        *)
(***************************************************************************)
EXTENDS Tokens

ValueType == {"CHAR", "INT", "FLOAT", "BOOL"}

AstType == [value : ValueType, ptr : BOOLEAN]

(* A type nobody assigned: value 0 is CHAR and is_pointer 0 is false.      *)
ZeroType == [value |-> "CHAR", ptr |-> FALSE]

AstIdentifier == [name : Name \cup {NoName}, type : AstType]

(* What operator[] of the identifier table inserts for an absent key.      *)
ZeroIdentifier == [name |-> NoName, type |-> ZeroType]

ExpressionKind == {"LITERAL", "BINARY", "UNARY", "IDENTIFIER"}
StatementKind  == {"BLOCK", "IF", "FUNC", "STRUCT", "UNION", "ENUM"}
NodeKind       == ExpressionKind \cup StatementKind

BinaryOp == {"ADD", "SUB", "DECL", "MULT", "DIV", "EQUAL_EQUAL", "LESS",
             "LESS_EQUAL", "GREATER_EQUAL", "GREATER", "AND", "OR"}
UnaryOp  == {"DEREF", "GET_PTR", "NEGATE"}

(* How the bits of a literal's value were made: by integer arithmetic, by  *)
(* float arithmetic, or by integer arithmetic on the bits of a float.      *)
Encoding == {"int", "float", "garbled"}

Node ==
  [kind    : NodeKind,
   op      : BinaryOp \cup UnaryOp \cup {"NONE"},
   kids    : Seq(Nat),              \* the child pointers, 0 for NULL
   ev      : AstType,               \* evaluates_to
   type    : AstType,               \* of an identifier, literal or function
   name    : Name \cup {NoName},
   rep     : Encoding,
   members : Seq(AstIdentifier)]    \* parameters of a function, struct, ...

(* The children a node of each kind is created with: left and right; the   *)
(* operand; then-block, else-block and condition; the body; none yet.      *)
FreshKids(kind) ==
  CASE kind = "BINARY"          -> <<0, 0>>
    [] kind \in {"UNARY", "FUNC"} -> <<0>>
    [] kind = "IF"              -> <<0, 0, 0>>
    [] OTHER                    -> <<>>

(* create_ast_node                                                         *)
NewNode(kind) ==
  [kind |-> kind, op |-> "NONE", kids |-> FreshKids(kind), ev |-> ZeroType,
   type |-> ZeroType, name |-> NoName, rep |-> "int", members |-> <<>>]

WithKid(nd, k, child) == [nd EXCEPT !.kids = [@ EXCEPT ![k] = child]]

-----------------------------------------------------------------------------
(* Slip: operator[] = entry in place of emplace.                           *)
Overwrite(table, x, entry) ==
  [y \in DOMAIN table \cup {x} |-> IF y = x THEN entry ELSE table[y]]

(* The identifier table is a std::map: emplace keeps the entry of a key    *)
(* that is already there.                                                  *)
Emplace(table, x, entry) ==
  [y \in DOMAIN table \cup {x} |-> IF y \in DOMAIN table THEN table[y] ELSE entry]

(* operator[]: the table after the access.                                 *)
Accessed(table, x) == Emplace(table, x, ZeroIdentifier)

-----------------------------------------------------------------------------
(* ast_type_from_token on the words a declaration can use.                 *)
TypeOfId == [T_INTID |-> "INT", T_BOOLID |-> "BOOL",
             T_CHARID |-> "CHAR", T_FLOATID |-> "FLOAT"]

(* The switch of literal().                                                *)
TypeOfLiteral == [T_CHAR |-> "CHAR", T_INT |-> "INT",
                  T_FLOAT |-> "FLOAT", T_BOOL |-> "BOOL"]

(* Slip: operands of two types are not coerced.                            *)
EvalUncoerced(l, r, garbage) ==
  [value |-> IF l.value = r.value THEN l.value ELSE "IDENT",
   ptr   |-> l.ptr \/ r.ptr \/ garbage]

(* The type a sum evaluates to.  is_pointer of the local AstType is only   *)
(* assigned when an operand is a pointer: otherwise it is whatever the     *)
(* stack held, the argument `garbage`.                                     *)
BinaryEval(l, r, garbage) ==
  LET values == {l.value, r.value}
  IN  [value |-> CASE "FLOAT" \in values -> "FLOAT"
                   [] "FLOAT" \notin values /\ "INT" \in values -> "INT"
                   [] values \subseteq {"CHAR", "BOOL"} /\ "CHAR" \in values -> "CHAR"
                   [] OTHER -> "BOOL",
       ptr   |-> l.ptr \/ r.ptr \/ garbage]

(* Slip: && for || in the choice of float arithmetic.                      *)
FoldRepBoth(l, r) ==
  CASE {l.type.value, r.type.value} = {"FLOAT"} -> "float"
    [] {l.type.value, r.type.value} # {"FLOAT"}
       /\ l.rep = "int" /\ r.rep = "int" -> "int"
    [] OTHER -> "garbled"

(* ast_do_binary_op on two literals: float arithmetic as soon as one of    *)
(* them has type FLOAT, integer arithmetic on the stored bits otherwise.   *)
FoldRep(l, r) ==
  CASE "FLOAT" \in {l.type.value, r.type.value} -> "float"
    [] "FLOAT" \notin {l.type.value, r.type.value}
       /\ l.rep = "int" /\ r.rep = "int" -> "int"
    [] OTHER -> "garbled"

(* term() turns a sum of two literals into a literal in place: the value   *)
(* is computed, the type is the left operand's.                            *)
Fold(bin, l, r) ==
  IF l.kind = "LITERAL" /\ r.kind = "LITERAL"
  THEN [bin EXCEPT !.kind = "LITERAL", !.op = "NONE", !.kids = <<>>,
                   !.type = l.type, !.rep = FoldRep(l, r)]
  ELSE bin

=============================================================================
