---------------------------- MODULE ParserState -----------------------------
(***************************************************************************)
(* The state of the recursive-descent parser (parser.cc) and the steps its *)
(* functions are made of.  The call stack of the C++ functions is the      *)
(* variable `stack`, its top at the head: a frame names the point its      *)
(* function has reached (`at`) and keeps the locals that live across the   *)
(* next call.  A call pushes the callee's frame; a return pops one and     *)
(* leaves the node returned in `ret`.  One action is the code between two  *)
(* such points, with every token it reads.                                 *)
(*                                                                         *)
(* The parser ends the process on every error: `status` says where.  A     *)
(* read outside the token array ("oob") ends the model too, since nothing  *)
(* can be said of what the program does afterwards.                        *)
(***************************************************************************)
EXTENDS Ast

VARIABLES tokens,   \* parser.tokens: what scan() produced
          ip,       \* parser.ip: the cursor, an offset from 0
          idents,   \* parser.identifiers
          nodes,    \* the nodes create_ast_node has made, in order
          stack,    \* the C++ call stack
          ret,      \* the node the last call returned
          status    \* running, accepted, or how the process ended

vars == <<tokens, ip, idents, nodes, stack, ret, status>>

-----------------------------------------------------------------------------
(* The program points.  A function starts at the label named after it; the *)
(* other labels are points inside a function.                              *)

(* Points reached by returning from a call: they use `ret`.                *)
Resumptions == {"IfCond", "IfThen", "IfElse", "FuncBody", "BlockPush",
                "ExprSemi", "DeclRhs", "LogicRest", "LogicRhs", "CmpRest",
                "CmpRhs", "AssignRhs", "TermFirst", "TermRhs", "FactorRest",
                "FactorRhs", "NegRhs", "NotRhs", "DerefArg", "RefArg"}

(* Resumptions that store the result before any token is looked at.        *)
Silent == {"IfElse", "FuncBody", "BlockPush", "DeclRhs", "LogicRhs", "CmpRhs",
           "AssignRhs", "TermRhs", "FactorRhs", "NegRhs", "NotRhs",
           "DerefArg", "RefArg"}

(* Points whose frame holds the node under construction.                   *)
Building == {"IfOpen", "IfCond", "IfThen", "IfElse", "DefName", "FuncOpen",
             "Params", "FuncClose", "FuncColon", "FuncType", "FuncBody",
             "AggOpen", "MemberSemi", "AggClose", "BlockLoop", "BlockPush",
             "BlockClose", "DeclRhs", "LogicRhs", "CmpRhs", "AssignRhs",
             "TermRhs", "FactorRhs", "NegRhs", "NotRhs", "DerefArg", "RefArg"}

(* Points whose frame holds a left operand that is already complete.       *)
HoldingLeft == {"LogicRhs", "TermLoop", "TermRhs", "FactorRhs", "NegRhs"}

(* Points of a declaration whose frame holds the name declared.            *)
Declaring == {"DeclType", "DeclEq"}

Labels == Resumptions \cup Building \cup HoldingLeft \cup Declaring
          \cup {"Statement", "Block", "Decl", "Assignment", "Unary",
                "Deref", "Ref", "Literal"}

(* assert_parser(expect(t)): the token each such point insists on.         *)
ExpectedAt == [FuncOpen   |-> "T_LEFT_PAR",   FuncClose  |-> "T_RIGHT_PAR",
               FuncColon  |-> "T_COLON",      AggOpen    |-> "T_LEFT_BRACE",
               MemberSemi |-> "T_SEMICOLON",  AggClose   |-> "T_RIGHT_BRACE",
               Block      |-> "T_LEFT_BRACE", BlockClose |-> "T_RIGHT_BRACE",
               ExprSemi   |-> "T_SEMICOLON",  DeclEq     |-> "T_EQUAL"]

Frame == [at   : Labels,
          node : Nat,                  \* the node under construction
          left : Nat,                  \* a complete left operand
          op   : BinaryOp \cup {"NONE"},
          name : Name \cup {NoName},   \* the identifier being declared
          type : AstType]              \* its type

Fr(at) == [at |-> at, node |-> 0, left |-> 0, op |-> "NONE",
           name |-> NoName, type |-> ZeroType]

FrNode(at, node) == [Fr(at) EXCEPT !.node = node]

(* The frames of a call of logic(), comparison(), term() or factor(): each *)
(* of them first calls the next.                                           *)
FactorCall == <<Fr("Unary"), Fr("FactorRest")>>
TermCall   == FactorCall \o <<Fr("TermFirst")>>
CmpCall    == <<Fr("Assignment"), Fr("CmpRest")>>
LogicCall  == CmpCall \o <<Fr("LogicRest")>>

-----------------------------------------------------------------------------
(* Reading tokens.                                                         *)
NTokens == Len(tokens)
Kind(i) == tokens[i + 1].type
Lexeme(i) == tokens[i + 1].name

(* ignore_lf() from offset i.                                              *)
SkipLf(i) ==
  LET after == {j \in i .. NTokens - 1 : Kind(j) # "T_LF"}
  IN  IF after = {} THEN NTokens
      ELSE CHOOSE j \in after : \A k \in after : j <= k

(* The token match() and next_token() look at.                             *)
At == SkipLf(ip)

Identifier(i) == Kind(i) = "T_IDENTIFIER"

Top == Head(stack)
Call(frames) == stack' = frames \o Tail(stack) /\ UNCHANGED ret
Return(node) == stack' = Tail(stack) /\ ret' = node

(* The function goes on at another point, with its node.                   *)
Goto(label) == Call(<<FrNode(label, Top.node)>>)

(* The top frame is at this point.                                         *)
Running(label) == status = "running" /\ stack # <<>> /\ Top.at = label

(* Its function goes on by looking at the next token, which is there, ...  *)
Sees(label) == Running(label) /\ At < NTokens
Reads(label) == Sees(label) /\ UNCHANGED <<tokens, idents, status>>

(* ... or by using the result of a call, with no token looked at.          *)
Resumes(label) == Running(label) /\ UNCHANGED <<tokens, ip, idents, status>>

(* The cursor is left at the token looked at, and a complete node returned. *)
HandBack(node) == ip' = At /\ UNCHANGED nodes /\ Return(node)

(* Or the work is handed to the next function of the grammar.              *)
HandOn(frames) == ip' = At /\ UNCHANGED nodes /\ Call(frames)

New == Len(nodes) + 1
Add(new) == nodes' = nodes \o new
Update(nd) == nodes' = [nodes EXCEPT ![Top.node] = nd]
Here == nodes[Top.node]

(* Slip: the result is dropped.                                            *)
AttachNothing(label, k) == Resumes(label) /\ UNCHANGED nodes /\ Return(Top.node)

(* The result of the call becomes a child of the node, which is complete.  *)
Attach(label, k) == /\ Resumes(label)
                    /\ Update(WithKid(Here, k, ret))
                    /\ Return(Top.node)

-----------------------------------------------------------------------------
(* assert_parser evaluates its argument a second time inside assert() when *)
(* the first evaluation is false.  expect() consumes a token each time: a  *)
(* failed expectation is forgiven when the token after the wrong one fits. *)
Wanted == ExpectedAt[Top.at]
Direct == Kind(At) = Wanted
SkipAnything == TRUE      \* slip: the second token is not compared
NoRetry == FALSE          \* slip: the expression is evaluated once
Retry  == LET j == SkipLf(At + 1) IN j < NTokens /\ Kind(j) = Wanted

ExpectLooks == (Direct \/ Retry) /\ ip' = At    \* slip: the token is not taken

Expect == \/ Direct /\ ip' = At + 1
          \/ ~Direct /\ Retry /\ ip' = SkipLf(At + 1) + 1

(* The trace assert_parser prints first reads three tokens on either side  *)
(* of the cursor, wherever the cursor is.                                  *)
TraceLeavesArray(i) == SkipLf(i) < 3 \/ SkipLf(i) + 2 >= NTokens

StopAt(how, i) == status' = how /\ ip' = i
                  /\ UNCHANGED <<tokens, idents, nodes, stack, ret>>
Stop(how) == StopAt(how, ip)

(* A point of the code that is nothing but such an assertion.              *)
Insists(label) == Reads(label) /\ UNCHANGED nodes /\ Expect

AssertFails(i) == \/ TraceLeavesArray(i) /\ StopAt("oob_trace", SkipLf(i))
                  \/ SkipLf(i) < NTokens /\ StopAt("aborted", SkipLf(i))

=============================================================================
