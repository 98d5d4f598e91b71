-------------------------- MODULE ParserStatements --------------------------
(***************************************************************************)
(* statement(), parse_block(), the definitions and expression()            *)
(* (parser.cc:173-347).                                                    *)
(***************************************************************************)
EXTENDS ParserState

(* statement() and parse_block().                                          *)
KindOfKeyword == [T_DEF |-> "FUNC", T_STRUCT |-> "STRUCT",
                  T_UNION |-> "UNION", T_ENUM |-> "ENUM"]

Statement ==
  /\ Reads("Statement")
  /\ \/ /\ Kind(At) = "T_LEFT_BRACE"
        /\ HandOn(<<Fr("Block")>>)
     \/ /\ Kind(At) = "T_IF"
        /\ Call(<<FrNode("IfOpen", New)>>)
        /\ ip' = At + 1 /\ Add(<<NewNode("IF")>>)
     \/ /\ Kind(At) \in DefinitionTokens
        /\ Call(<<FrNode("DefName", New)>>)
        /\ ip' = At + 1 /\ Add(<<NewNode(KindOfKeyword[Kind(At)])>>)
     \/ /\ Kind(At) \notin DefinitionTokens \cup {"T_LEFT_BRACE", "T_IF"}
        /\ HandOn(<<Fr("Decl"), Fr("ExprSemi")>>)

(* expect(T_LEFT_PAR) without an assertion: whatever token is next is      *)
(* skipped.                                                                *)
IfOpen ==
  /\ Reads("IfOpen") /\ UNCHANGED nodes
  /\ ip' = At + 1
  /\ Call(<<Fr("Decl"), FrNode("IfCond", Top.node)>>)

(* So it is for expect(T_RIGHT_PAR), once the condition is stored.         *)
IfCond ==
  /\ Reads("IfCond")
  /\ Update(WithKid(Here, 3, ret))
  /\ ip' = At + 1
  /\ Call(<<Fr("Block"), FrNode("IfThen", Top.node)>>)

IfThen ==
  /\ Reads("IfThen")
  /\ Update(WithKid(Here, 1, ret))
  /\ \/ /\ Kind(At) = "T_ELSE"
        /\ ip' = At + 1
        /\ Call(<<Fr("Block"), FrNode("IfElse", Top.node)>>)
     \/ /\ Kind(At) # "T_ELSE"
        /\ ip' = At
        /\ Return(Top.node)

IfElse == Attach("IfElse", 2)

Block ==
  /\ Reads("Block")
  /\ Expect
  /\ Add(<<NewNode("BLOCK")>>)
  /\ Call(<<FrNode("BlockLoop", New)>>)

BlockLoop ==
  /\ Reads("BlockLoop") /\ UNCHANGED nodes
  /\ ip' = At
  /\ \/ /\ Kind(At) \in {"T_RIGHT_BRACE", "T_EOF"}
        /\ Goto("BlockClose")
     \/ /\ Kind(At) \notin {"T_RIGHT_BRACE", "T_EOF"}
        /\ Call(<<Fr("Statement"), FrNode("BlockPush", Top.node)>>)

(* The statement is copied into the block's array.                         *)
BlockPush ==
  /\ Resumes("BlockPush")
  /\ Update([Here EXCEPT !.kids = Append(@, ret)])
  /\ Goto("BlockLoop")

BlockClose == Insists("BlockClose") /\ Return(Top.node)

-----------------------------------------------------------------------------
(* Definitions: def name(params): type block, and struct, union or enum    *)
(* name { members }.                                                       *)

(* assert_parser(match(T_IDENTIFIER)), then the name is copied.            *)
DefName ==
  /\ Reads("DefName")
  /\ Identifier(At)
  /\ ip' = At + 1
  /\ Update([Here EXCEPT !.name = Lexeme(At)])
  /\ Call(<<FrNode(IF Here.kind = "FUNC" THEN "FuncOpen" ELSE "AggOpen",
                   Top.node)>>)

FuncOpen == Insists("FuncOpen") /\ Goto("Params")
AggOpen == Insists("AggOpen") /\ Goto("Params")

(* get_ast_parameter() looks at three tokens in a row: line feeds are      *)
(* skipped before the first only.                                          *)
IsParameter == /\ Identifier(At)
               /\ Kind(At + 1) = "T_COLON"
               /\ Kind(At + 2) \in TypeIds

ParameterStar == Kind(SkipLf(At + 3)) = "T_STAR"

Parameter == [name |-> Lexeme(At),
              type |-> [value |-> TypeOfId[Kind(At + 2)], ptr |-> ParameterStar]]

AfterParameter == SkipLf(At + 3) + (IF ParameterStar THEN 1 ELSE 0)

(* A function's parameter takes the comma after it, if there is one.       *)
SkipComma(i) == LET j == SkipLf(i)
                IN  IF Kind(j) = "T_COMMA" THEN j + 1 ELSE j

(* Slip: the new member goes to the front.                                 *)
PushFront(m) == Update([Here EXCEPT !.members = <<m>> \o @])

AddMember(m) == Update([Here EXCEPT !.members = Append(@, m)])

(* One turn of the loop over the parameters or members.  An enum's members *)
(* are bare names; their values count from 0.                              *)
Params ==
  /\ Reads("Params")
  /\ LET kind == Here.kind
     IN  \/ /\ kind = "FUNC" /\ Identifier(At) /\ IsParameter
            /\ AddMember(Parameter)
            /\ ip' = SkipComma(AfterParameter)
            /\ UNCHANGED <<stack, ret>>
         \/ /\ kind \in {"STRUCT", "UNION"} /\ Identifier(At) /\ IsParameter
            /\ AddMember(Parameter)
            /\ ip' = AfterParameter
            /\ Goto("MemberSemi")
         \/ /\ kind = "ENUM" /\ Identifier(At)
            /\ AddMember([name |-> Lexeme(At), type |-> ZeroType])
            /\ ip' = At + 1
            /\ Goto("MemberSemi")
         \/ /\ ~Identifier(At)
            /\ ip' = At /\ UNCHANGED nodes
            /\ Call(<<FrNode(IF kind = "FUNC" THEN "FuncClose" ELSE "AggClose",
                            Top.node)>>)

(* "not a parameter": the three tokens are printed and the process exits.  *)
NotAParameter ==
  /\ Sees("Params")
  /\ Here.kind # "ENUM" /\ Identifier(At) /\ ~IsParameter
  /\ \/ StopAt("not_a_parameter", At)
     \/ At + 2 >= NTokens /\ StopAt("oob_trace", At)

MemberSemi == Insists("MemberSemi") /\ Goto("Params")
AggClose == Insists("AggClose") /\ Return(Top.node)

FuncClose == Insists("FuncClose") /\ Goto("FuncColon")
FuncColon == Insists("FuncColon") /\ Goto("FuncType")

(* The star of a pointer type is looked for at the type token itself, so   *)
(* it is never found.                                                      *)
FuncType ==
  /\ Reads("FuncType")
  /\ Kind(At) \in TypeIds
  /\ Update([Here EXCEPT !.type = [value |-> TypeOfId[Kind(At)],
                                   ptr   |-> Kind(At) = "T_STAR"]])
  /\ ip' = At + 1
  /\ Call(<<Fr("Block"), FrNode("FuncBody", Top.node)>>)

FuncBody == Attach("FuncBody", 1)

(* expression() of a statement insists on the semicolon.                   *)
ExprSemi == Insists("ExprSemi") /\ Return(ret)

(* assert_parser(match(T_IDENTIFIER)) and assert_parser(is_type_id()).     *)
MatchFails ==
  /\ \/ Sees("DefName") /\ ~Identifier(At)
     \/ Sees("FuncType") /\ Kind(At) \notin TypeIds
  /\ AssertFails(At)

=============================================================================
