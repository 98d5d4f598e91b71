------------------------- MODULE ParserExpressions --------------------------
(***************************************************************************)
(* Declarations, assignments and the ladder of expression functions        *)
(* (parser.cc:355-688).                                                    *)
(***************************************************************************)
EXTENDS ParserState

(* decl() and assignment().                                                *)
Decl ==
  /\ Reads("Decl") /\ UNCHANGED nodes
  /\ \/ /\ Identifier(At) /\ Kind(At + 1) = "T_COLON"
        /\ ip' = At + 2
        /\ Call(<<[Fr("DeclType") EXCEPT !.name = Lexeme(At)]>>)
     \/ /\ ~(Identifier(At) /\ Kind(At + 1) = "T_COLON")
        /\ ip' = At
        /\ Call(LogicCall)

(* Without a type after it, the name and the colon are simply dropped.     *)
DeclType ==
  /\ Reads("DeclType") /\ UNCHANGED nodes
  /\ \/ /\ Kind(At) \in TypeIds
        /\ LET star == Kind(SkipLf(At + 1)) = "T_STAR"
           IN  /\ ip' = SkipLf(At + 1) + (IF star THEN 1 ELSE 0)
               /\ Call(<<[Fr("DeclEq") EXCEPT
                            !.name = Top.name,
                            !.type = [value |-> TypeOfId[Kind(At)], ptr |-> star]]>>)
     \/ /\ Kind(At) \notin TypeIds
        /\ ip' = At
        /\ Call(LogicCall)

(* create_assign: the node of a declaration and of an assignment alike has *)
(* op DECL, and its left child is a copy of the table's entry.             *)
CreateAssign(x, table) ==
  Add(<<[NewNode("BINARY") EXCEPT !.op = "DECL", !.kids = <<New + 1, 0>>],
        [NewNode("IDENTIFIER") EXCEPT !.name = table[x].name,
                                      !.type = table[x].type]>>)

DeclEq ==
  /\ Sees("DeclEq") /\ UNCHANGED <<tokens, status>>
  /\ Expect
  /\ idents' = Emplace(idents, Top.name, [name |-> Top.name, type |-> Top.type])
  /\ CreateAssign(Top.name, idents')
  /\ Call(LogicCall \o <<FrNode("DeclRhs", New)>>)

DeclRhs == Attach("DeclRhs", 2)

IsAssignment == Identifier(At) /\ Kind(At + 1) = "T_EQUAL"

Assignment ==
  /\ Reads("Assignment")
  /\ \/ /\ IsAssignment /\ Lexeme(At) \in DOMAIN idents
        /\ ip' = At + 2
        /\ CreateAssign(Lexeme(At), idents)
        /\ Call(TermCall \o <<FrNode("AssignRhs", New)>>)
     \/ /\ ~IsAssignment
        /\ HandOn(TermCall)

Undeclared ==
  /\ Sees("Assignment")
  /\ IsAssignment /\ Lexeme(At) \notin DOMAIN idents
  /\ StopAt("undeclared", At + 2)

AssignRhs ==
  /\ Resumes("AssignRhs")
  /\ Update([WithKid(Here, 2, ret) EXCEPT !.ev = nodes[ret].ev])
  /\ Return(Top.node)

-----------------------------------------------------------------------------
(* logic(), comparison(), term() and factor().                             *)
LogicRest ==
  /\ Reads("LogicRest")
  /\ \/ /\ Kind(At) \in {"T_AND", "T_OR"}
        /\ ip' = At + 1
        /\ Add(<<NewNode("BINARY")>>)
        /\ Call(LogicCall \o
                <<[FrNode("LogicRhs", New) EXCEPT
                    !.left = ret,
                    !.op = IF Kind(At) = "T_OR" THEN "OR" ELSE "AND"]>>)
     \/ /\ Kind(At) \notin {"T_AND", "T_OR"}
        /\ HandBack(ret)

(* Slip: left and right exchanged.                                         *)
LogicRhsSwapped ==
  /\ Resumes("LogicRhs")
  /\ Update([Here EXCEPT !.kids = <<ret, Top.left>>, !.op = Top.op])
  /\ Return(Top.node)

LogicRhs ==
  /\ Resumes("LogicRhs")
  /\ Update([Here EXCEPT !.kids = <<Top.left, ret>>,
                        !.op = Top.op])
  /\ Return(Top.node)

OpOfComparison ==
  [T_EQUAL_EQUAL |-> "EQUAL_EQUAL", T_LESS |-> "LESS",
   T_LESS_EQUAL |-> "LESS_EQUAL", T_GREATER |-> "GREATER",
   T_GREATER_EQUAL |-> "GREATER_EQUAL"]

CmpRest ==
  /\ Reads("CmpRest")
  /\ \/ /\ Kind(At) \in ComparisonTokens
        /\ ip' = At + 1
        /\ Add(<<[NewNode("BINARY") EXCEPT
                   !.ev = [value |-> "BOOL", ptr |-> FALSE],
                   !.kids = <<ret, 0>>,
                   !.op = OpOfComparison[Kind(At)]]>>)
        /\ Call(CmpCall \o <<FrNode("CmpRhs", New)>>)
     \/ /\ Kind(At) \notin ComparisonTokens
        /\ HandBack(ret)

CmpRhs == Attach("CmpRhs", 2)

(* `p` of term(): the operator of the whole chain is decided once, by the  *)
(* token under the cursor, before any line feed is skipped.                *)
ChainOp == IF Kind(ip) = "T_MINUS" THEN "SUB" ELSE "ADD"

TermFirst ==
  /\ Reads("TermFirst") /\ UNCHANGED nodes /\ UNCHANGED ip
  /\ Call(<<[Fr("TermLoop") EXCEPT !.left = ret, !.op = ChainOp]>>)

TermLoop ==
  /\ Reads("TermLoop")
  /\ \/ /\ Kind(At) \in {"T_MINUS", "T_PLUS"}
        /\ ip' = At + 1
        /\ Add(<<[NewNode("BINARY") EXCEPT !.kids = <<Top.left, 0>>, !.op = Top.op]>>)
        /\ Call(FactorCall \o <<[Top EXCEPT !.at = "TermRhs", !.node = New]>>)
     \/ /\ Kind(At) \notin {"T_MINUS", "T_PLUS"}
        /\ HandBack(Top.left)

BothPointers == nodes[Top.left].ev.ptr /\ nodes[ret].ev.ptr

(* Slip: the left operand takes the type of the sum.                       *)
TermRhsCoerces ==
  /\ Resumes("TermRhs")
  /\ ~BothPointers
  /\ \E garbage \in BOOLEAN :
       LET sum == BinaryEval(nodes[Top.left].ev, nodes[ret].ev, garbage)
       IN  nodes' = [nodes EXCEPT
             ![Top.node] = Fold([WithKid(Here, 2, ret) EXCEPT !.ev = sum],
                                nodes[Top.left], nodes[ret]),
             ![Top.left].ev = sum]
  /\ Call(<<[Top EXCEPT !.at = "TermLoop", !.node = 0, !.left = Top.node]>>)

TermRhs ==
  /\ Resumes("TermRhs")
  /\ ~BothPointers
  /\ \E garbage \in BOOLEAN :
       Update(Fold([WithKid(Here, 2, ret) EXCEPT
                     !.ev = BinaryEval(nodes[Top.left].ev, nodes[ret].ev, garbage)],
                   nodes[Top.left], nodes[ret]))
  /\ Call(<<[Top EXCEPT !.at = "TermLoop", !.node = 0, !.left = Top.node]>>)

(* "binary ops on two pointers are not supported yet!"                     *)
TwoPointers ==
  /\ Running("TermRhs") /\ BothPointers /\ Stop("two_pointers")

(* One * or / at most.                                                     *)
FactorRest ==
  /\ Reads("FactorRest")
  /\ \/ /\ Kind(At) \in {"T_STAR", "T_SLASH"}
        /\ ip' = At + 1
        /\ Add(<<NewNode("BINARY")>>)
        /\ Call(<<Fr("Unary"),
                  [FrNode("FactorRhs", New) EXCEPT
                    !.left = ret,
                    !.op = IF Kind(At) = "T_STAR" THEN "MULT" ELSE "DIV"]>>)
     \/ /\ Kind(At) \notin {"T_STAR", "T_SLASH"}
        /\ HandBack(ret)

FactorRhs ==
  /\ Resumes("FactorRhs")
  /\ Update([Here EXCEPT !.kids = <<Top.left, ret>>,
                        !.op = Top.op,
                        !.ev = nodes[Top.left].ev])
  /\ Return(Top.node)

-----------------------------------------------------------------------------
(* unary(), deref(), ref() and literal().                                  *)

(* -x is built as 0 - x: the 0 is created before x is parsed.              *)
Unary ==
  /\ Reads("Unary")
  /\ \/ /\ Kind(At) = "T_MINUS"
        /\ ip' = At + 1
        /\ Add(<<NewNode("BINARY"), NewNode("LITERAL")>>)
        /\ Call(<<Fr("Deref"), [FrNode("NegRhs", New) EXCEPT !.left = New + 1]>>)
     \/ /\ Kind(At) = "T_BANG"
        /\ ip' = At + 1
        /\ Add(<<NewNode("UNARY")>>)
        /\ Call(<<Fr("Deref"), FrNode("NotRhs", New)>>)
     \/ /\ Kind(At) \notin {"T_MINUS", "T_BANG"}
        /\ HandOn(<<Fr("Deref")>>)

NoNegative == {"CHAR", "BOOL"}

NegRhs ==
  /\ Resumes("NegRhs")
  /\ nodes[ret].ev.value \notin NoNegative
  /\ nodes' = [nodes EXCEPT
       ![Top.node] = [Here EXCEPT !.kids = <<Top.left, ret>>, !.op = "SUB",
                                  !.ev = nodes[ret].ev],
       ![Top.left] = [nodes[Top.left] EXCEPT
                       !.type = [value |-> nodes[ret].ev.value, ptr |-> FALSE],
                       !.rep = IF nodes[ret].ev.value = "FLOAT" THEN "float" ELSE "int"]]
  /\ Return(Top.node)

(* "cannot negative char" and "cannot turn negative bool".                 *)
Negative ==
  /\ Running("NegRhs")
  /\ \/ nodes[ret].ev.value = "CHAR" /\ Stop("negative_char")
     \/ nodes[ret].ev.value = "BOOL" /\ Stop("negative_bool")

NotRhs ==
  /\ Resumes("NotRhs")
  /\ Update([Here EXCEPT !.kids = <<ret>>, !.op = "NEGATE",
                        !.ev = nodes[ret].ev])
  /\ Return(Top.node)

Deref ==
  /\ Reads("Deref")
  /\ \/ /\ Kind(At) = "T_STAR"
        /\ ip' = At + 1
        /\ Add(<<[NewNode("UNARY") EXCEPT !.op = "DEREF"]>>)
        /\ Call(<<Fr("Ref"), FrNode("DerefArg", New)>>)
     \/ /\ Kind(At) # "T_STAR"
        /\ HandOn(<<Fr("Ref")>>)

Ref ==
  /\ Reads("Ref")
  /\ \/ /\ Kind(At) = "T_AMPERSAND"
        /\ ip' = At + 1
        /\ Add(<<[NewNode("UNARY") EXCEPT !.op = "GET_PTR"]>>)
        /\ Call(<<Fr("Literal"), FrNode("RefArg", New)>>)
     \/ /\ Kind(At) # "T_AMPERSAND"
        /\ HandOn(<<Fr("Literal")>>)

(* The operand is stored, then its type is asserted: a pointer after *,    *)
(* no pointer after &.                                                     *)
DerefArgUnchecked == Attach("DerefArg", 1)    \* slip: no assertion
DerefArg == Attach("DerefArg", 1) /\ nodes[ret].ev.ptr
RefArg   == Attach("RefArg", 1) /\ ~nodes[ret].ev.ptr

OperandFails ==
  /\ \/ Running("DerefArg") /\ ~nodes[ret].ev.ptr
     \/ Running("RefArg") /\ nodes[ret].ev.ptr
  /\ AssertFails(ip)

(* A literal node is made first, whatever the token turns out to be.       *)
LiteralNode(i) ==
  LET type == [value |-> TypeOfLiteral[Kind(i)], ptr |-> FALSE]
  IN  [NewNode("LITERAL") EXCEPT !.type = type, !.ev = type,
                                 !.rep = IF Kind(i) = "T_FLOAT" THEN "float" ELSE "int"]

IdentifierNode(entry) ==
  [NewNode("IDENTIFIER") EXCEPT !.name = entry.name, !.type = entry.type,
                                !.ev = entry.type]

(* Slip: the node is made, and the function ends without a return.         *)
LiteralUnreturned ==
  /\ Sees("Literal") /\ UNCHANGED <<tokens, ret, status>>
  /\ ip' = At + 1 /\ stack' = Tail(stack)
  /\ \/ Kind(At) \in LiteralTokens /\ Add(<<LiteralNode(At)>>) /\ UNCHANGED idents
     \/ /\ Identifier(At)
        /\ idents' = Accessed(idents, Lexeme(At))
        /\ Add(<<NewNode("LITERAL"), IdentifierNode(idents'[Lexeme(At)])>>)

Literal ==
  /\ Sees("Literal") /\ UNCHANGED <<tokens, status>>
  /\ ip' = At + 1
  /\ \/ /\ Kind(At) \in LiteralTokens
        /\ Add(<<LiteralNode(At)>>)
        /\ UNCHANGED idents
        /\ Return(New)
     \/ /\ Identifier(At)
        /\ idents' = Accessed(idents, Lexeme(At))
        /\ Add(<<NewNode("LITERAL"), IdentifierNode(idents'[Lexeme(At)])>>)
        /\ Return(New + 1)

(* "Error parsing literal": four tokens are printed, then abort().         *)
LiteralFails ==
  /\ Sees("Literal")
  /\ Kind(At) \notin LiteralTokens \cup {"T_IDENTIFIER"}
  /\ LET next == SkipLf(At + 1)
     IN  \/ next + 3 >= NTokens /\ StopAt("oob_trace", next)
         \/ next < NTokens /\ StopAt("aborted", next)

=============================================================================
