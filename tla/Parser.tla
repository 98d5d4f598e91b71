------------------------------- MODULE Parser -------------------------------
(***************************************************************************)
(* The parser (parser.cc): parse() reads one statement from a token list.  *)
(* ParserState has the state and the elementary steps, ParserStatements    *)
(* and ParserExpressions one action per step of the grammar's functions;   *)
(* this module composes them and states what the parser must keep.         *)
(***************************************************************************)
EXTENDS ParserStatements, ParserExpressions

CONSTANT Inputs    \* the token lists parse() may be given

ASSUME InputAssumption == Inputs \subseteq TokenList

(* parse(): one statement of one input.                                    *)
Init == /\ tokens \in Inputs
        /\ ip = 0
        /\ idents = [x \in {} |-> ZeroIdentifier]
        /\ nodes = <<>>
        /\ stack = <<Fr("Statement")>>
        /\ ret = 0
        /\ status = "running"

(* statement() has returned to parse(), which prints the tree; compile()   *)
(* then ends the process.                                                  *)
Accept == /\ status = "running" /\ stack = <<>>
          /\ Stop("accepted")

-----------------------------------------------------------------------------
(* The failures every reading point shares.                                *)

(* A token is looked at past the end of the array.                         *)
RunOff ==
  /\ status = "running" /\ stack # <<>>
  /\ Top.at \notin Silent /\ At = NTokens
  /\ StopAt("oob", At)

(* assert_parser(expect(t)) when neither evaluation finds t: the first     *)
(* takes a token, the trace follows, and the second takes the next.        *)
ExpectFails ==
  /\ status = "running" /\ stack # <<>>
  /\ Top.at \in DOMAIN ExpectedAt /\ At < NTokens
  /\ ~Direct
  /\ LET second == SkipLf(At + 1)
     IN  \/ TraceLeavesArray(At + 1) /\ StopAt("oob_trace", second)
         \/ second < NTokens /\ ~Retry /\ StopAt("aborted", second + 1)

Step ==
  \/ Statement \/ IfOpen \/ IfCond \/ IfThen \/ IfElse
  \/ Block \/ BlockLoop \/ BlockPush \/ BlockClose
  \/ DefName \/ FuncOpen \/ AggOpen \/ Params \/ MemberSemi \/ AggClose
  \/ FuncClose \/ FuncColon \/ FuncType \/ FuncBody
  \/ ExprSemi \/ Decl \/ DeclType \/ DeclEq \/ DeclRhs
  \/ Assignment \/ AssignRhs
  \/ LogicRest \/ LogicRhs \/ CmpRest \/ CmpRhs
  \/ TermFirst \/ TermLoop \/ TermRhs \/ FactorRest \/ FactorRhs
  \/ Unary \/ NegRhs \/ NotRhs \/ Deref \/ DerefArg \/ Ref \/ RefArg
  \/ Literal

Failure ==
  \/ NotAParameter \/ Undeclared \/ TwoPointers \/ Negative
  \/ OperandFails \/ LiteralFails \/ RunOff \/ ExpectFails \/ MatchFails

Next == Step \/ Failure \/ Accept

(* One thread: the parser's next step is taken sooner or later.            *)
Spec == Init /\ [][Next]_vars /\ WF_vars(Next)

-----------------------------------------------------------------------------
(* Properties.                                                             *)

Statuses == {"running", "accepted", "aborted", "oob", "oob_trace",
             "not_a_parameter", "undeclared", "two_pointers",
             "negative_char", "negative_bool"}

(* The type invariant.                                                     *)
TypeOK == /\ tokens \in TokenList
          /\ ip \in Nat
          /\ DOMAIN idents \subseteq Name
          /\ idents \in [DOMAIN idents -> AstIdentifier]
          /\ nodes \in Seq(Node)
          /\ stack \in Seq(Frame)
          /\ ret \in Nat
          /\ status \in Statuses

(* No function works on a NULL or foreign node: each frame that builds a   *)
(* node or holds an operand has one of the nodes created, and a function   *)
(* that resumes after a call has been given one (every Ast_node* returned  *)
(* in parser.cc is used without a test for NULL).  A declaration never     *)
(* loses the name it declares.                                             *)
StackOK ==
  /\ \A i \in DOMAIN stack :
       /\ stack[i].at \in Building    => stack[i].node \in DOMAIN nodes
       /\ stack[i].at \in HoldingLeft => stack[i].left \in DOMAIN nodes
       /\ stack[i].at \in Declaring   => stack[i].name \in Name
  /\ stack # <<>> /\ Top.at \in Resumptions => ret \in DOMAIN nodes

(* The cursor passes the sentinel, and a token past the end is looked at,  *)
(* in two cases only.  Under an `if`, the unasserted expect() calls of its *)
(* header skip any token (parser.cc:204, 206).  And when the input is      *)
(* refused, a failed expect() has taken one token or two, the last may be  *)
(* the sentinel, and the tokens printed may lie past the end (parser.cc:   *)
(* 122, 163-170, 188, 680).  Up to then, and in all that is accepted, the  *)
(* sentinel stands.                                                        *)
SentinelKept ==
  ip >= NTokens \/ status \in {"oob", "oob_trace"} =>
    \/ \E i \in DOMAIN stack : stack[i].at \in {"IfCond", "IfThen"}
    \/ status \in {"aborted", "oob_trace"}

Held == {stack[i].node : i \in DOMAIN stack}
Built == DOMAIN nodes \ Held

IsExpr(i)  == i \in Built /\ nodes[i].kind \in ExpressionKind
IsBlock(i) == i \in Built /\ nodes[i].kind = "BLOCK"

Complete(nd) ==
  /\ nd.kind = "BINARY" =>
       /\ nd.op \in BinaryOp
       /\ IsExpr(nd.kids[1]) /\ IsExpr(nd.kids[2])
       /\ nd.op = "DECL" => nodes[nd.kids[1]].kind = "IDENTIFIER"
  /\ nd.kind = "UNARY" => nd.op \in UnaryOp /\ IsExpr(nd.kids[1])
  /\ nd.kind = "IF" =>
       /\ IsBlock(nd.kids[1]) /\ IsExpr(nd.kids[3])
       /\ nd.kids[2] # 0 => IsBlock(nd.kids[2])
  /\ nd.kind = "FUNC" => IsBlock(nd.kids[1])
  /\ nd.kind = "BLOCK" => \A k \in DOMAIN nd.kids : nd.kids[k] \in Built
  /\ nd.kind \in {"FUNC", "STRUCT", "UNION", "ENUM"} => nd.name # NoName

(* A node no function is still working on has every child, of the kind and *)
(* with the name, that the printer and the code generator dereference      *)
(* without a test (debug.cc:105-204, compiler.cc:83-120).                  *)
AstComplete == \A i \in Built : Complete(nodes[i])

Parents(c) == {e \in (DOMAIN nodes) \X (1 .. NTokens) :
                 /\ e[2] \in DOMAIN nodes[e[1]].kids
                 /\ nodes[e[1]].kids[e[2]] = c}

Increasing(s) == \A k \in 1 .. Len(s) - 1 : s[k] # 0 /\ s[k + 1] # 0 => s[k] < s[k + 1]

(* The nodes form a tree in source order: no node is the child of two, the *)
(* node returned at the end is the child of none, and the operands of a    *)
(* binary node and the statements of a block stand as they were read.      *)
OrderedTree ==
  /\ \A c \in DOMAIN nodes : \A e, f \in Parents(c) : e = f
  /\ status = "accepted" => Parents(ret) = {}
  /\ \A i \in DOMAIN nodes :
       nodes[i].kind \in {"BINARY", "BLOCK"} => Increasing(nodes[i].kids)

ChildrenKept ==
  \A i \in DOMAIN nodes : \A k \in DOMAIN nodes[i].kids :
    LET child == nodes[i].kids[k]
    IN  child # 0 => child \in DOMAIN nodes' /\ nodes'[child] = nodes[child]

(* A node that has its parent never changes again.  A block keeps a copy   *)
(* of each statement, made when statement() returns (parser.cc:334-335),   *)
(* and a sum what its left operand evaluates to (parser.cc:515-531): no    *)
(* function that goes on afterwards still writes to the node that was      *)
(* copied or asked, so neither goes stale.                                 *)
ChildrenStay == [][ChildrenKept]_vars

(* However often a name is declared, read or assigned, each node for it    *)
(* carries the type its table entry has now (parser.cc:396-398, 674).      *)
IdentTypesAgree ==
  \A i \in DOMAIN nodes :
    nodes[i].kind = "IDENTIFIER" /\ nodes[i].name # NoName =>
      /\ nodes[i].name \in DOMAIN idents
      /\ idents[nodes[i].name] = [name |-> nodes[i].name, type |-> nodes[i].type]

EntriesKept == \A x \in DOMAIN idents : x \in DOMAIN idents' /\ idents'[x] = idents[x]

(* An entry of the identifier table is never changed or removed: the first *)
(* declaration of a name, or its first use, decides for the whole program  *)
(* (emplace at parser.cc:396).                                             *)
FirstDeclarationWins == [][EntriesKept]_vars

(* No literal is printed as a float without float bits, and float bits are *)
(* always announced by its type or by what it evaluates to, through every  *)
(* chain of folded sums (parser.cc:515-531, ast_node.h:181-197).           *)
LiteralEncoding ==
  \A i \in DOMAIN nodes : nodes[i].kind = "LITERAL" =>
    /\ nodes[i].type.value = "FLOAT" => nodes[i].rep = "float"
    /\ nodes[i].rep # "int" => "FLOAT" \in {nodes[i].type.value, nodes[i].ev.value}

(* A finished *e has a declared pointer for e, a finished &e something     *)
(* that was not declared as one (the assertions at parser.cc:619 and 631   *)
(* against the declarations in the table).                                 *)
PointerOperands ==
  \A i \in Built : nodes[i].kind = "UNARY" =>
    LET e == nodes[nodes[i].kids[1]]
    IN  /\ nodes[i].op = "DEREF" =>
             e.name \in DOMAIN idents /\ idents[e.name].type.ptr
        /\ nodes[i].op = "GET_PTR" =>
             ~(e.name \in DOMAIN idents /\ idents[e.name].type.ptr)

(* What a program point may still spend before it takes a token.           *)
Rank == [TermLoop |-> 20, BlockLoop |-> 20, Statement |-> 17, Decl |-> 14,
         DeclType |-> 14, Assignment |-> 9, Unary |-> 4, Deref |-> 3, Ref |-> 2,
         Literal |-> 1, Params |-> 1]

Weight(at) == IF at \in Resumptions THEN 21
              ELSE IF at \in DOMAIN Rank THEN Rank[at] ELSE 0

(* A bound on the steps left: so many for each token not yet taken, and    *)
(* for each function that waits for a result.                              *)
StepsLeft ==
  IF status # "running" THEN 0
  ELSE 1 + 28 * (NTokens - ip) + 2 * Len(stack)
         + (IF stack = <<>> THEN 0 ELSE Weight(Top.at))

(* No function calls itself again, and no loop turns, without a token      *)
(* taken (parser.cc:173-688): whatever the parser does, the number of      *)
(* steps left falls, so that the steps, and the depth of the calls, are at *)
(* most linear in the number of tokens.                                    *)
StepsAreSpent == [][StepsLeft' \in Nat /\ StepsLeft' < StepsLeft]_vars

=============================================================================
