------------------------------- MODULE Printer ------------------------------
(***************************************************************************)
(* print_ast() (debug.cc): parse() prints the tree it has built before it  *)
(* returns it.  The functions of the printer recurse over the nodes; what  *)
(* they still have to print is the sequence `todo`.  Of the text the names *)
(* are kept: what is printed of a program are its nodes and its names, in  *)
(* order.  Two histories tell where a name comes from: `source` has the    *)
(* token that each name of a node was read from, `dropped` the tokens that *)
(* the parser passed over.                                                 *)
(***************************************************************************)
EXTENDS Parser

VARIABLES todo,         \* the nodes and names still to be printed
          shown,        \* those that have been
          source,       \* a history: the token of the n-th name of a node
          dropped       \* a history: the tokens the parser passed over

printVars == <<vars, todo, shown, source, dropped>>

(* A node, and the n-th name of a node: a member follows the node's own.   *)
ItemOf(i) == [what |-> "node", node |-> i, nth |-> 0, word |-> NoName]
WordOf(i, n, x) == [what |-> "word", node |-> i, nth |-> n, word |-> x]

Items(ids) == [k \in DOMAIN ids |-> ItemOf(ids[k])]
Words(i, members) == [k \in DOMAIN members |-> WordOf(i, k + 1, members[k].name)]

-----------------------------------------------------------------------------
(* parse(): the parser, then the printer on what it returns.               *)
PrintInit == /\ Init /\ todo = <<>> /\ shown = <<>>
             /\ source = [k \in {} |-> 0] /\ dropped = {}

(* The functions that keep the name they take, and whose name it will be:  *)
(* that of the node at hand, or of an identifier two nodes on.             *)
Keeping == {"Decl", "Assignment", "Literal", "DefName", "Params"}

NameTaken == Top.at \in Keeping /\ ip' > At /\ Identifier(At)
NameOf == CASE Top.at = "DefName" -> <<Top.node, 1>>
            [] Top.at = "Params" -> <<Top.node, Len(Here.members) + 2>>
            [] OTHER -> <<New + 1, 1>>

(* A declaration without a type loses its name.                            *)
NameLost == Top.at = "DeclType" /\ Kind(At) \notin TypeIds

NameSet == [k \in DOMAIN source \cup {NameOf} |-> IF k = NameOf THEN At ELSE source[k]]
NameUnset == [k \in DOMAIN source \ {NameOf} |-> source[k]]

(* The token that an expectation forgives, and the name that is lost.      *)
Dropped ==
  {i \in {At, ip - 2} :
     \/ i = At /\ Top.at \in DOMAIN ExpectedAt /\ ip' > At + 1
     \/ i = At /\ Top.at \in {"IfOpen", "IfCond"}
     \/ i = ip - 2 /\ NameLost}

Record == /\ source' = IF NameTaken THEN NameSet ELSE IF NameLost THEN NameUnset ELSE source
          /\ dropped' = dropped \cup Dropped

Parse == /\ Next
         /\ todo' = IF status' = "accepted" THEN <<ItemOf(ret)>> ELSE todo
         /\ IF status' = "running" THEN Record ELSE UNCHANGED <<source, dropped>>
         /\ UNCHANGED shown

-----------------------------------------------------------------------------
(* The printer.  A node is printed with the parts that stand within it.    *)
Printing == status = "accepted" /\ todo # <<>>

Item == Head(todo)
It == nodes[Item.node]
ItsName == WordOf(Item.node, 1, It.name)
ItsMembers == Words(Item.node, It.members)
Shows(kinds) == Printing /\ Item.what = "node" /\ It.kind \in kinds

Becomes(parts) == /\ todo' = parts \o Tail(todo)
                  /\ shown' = Append(shown, Item)
                  /\ UNCHANGED <<vars, source, dropped>>

(* ast_expression_to_string()                                              *)
PrintOperation == Shows({"UNARY", "BINARY"}) /\ Becomes(Items(It.kids))
PrintLiteral == Shows({"LITERAL"}) /\ Becomes(<<>>)
PrintIdentifier == Shows({"IDENTIFIER"}) /\ Becomes(<<ItsName>>)

(* ast_block_to_str()                                                      *)
PrintBlock == Shows({"BLOCK"}) /\ Becomes(Items(It.kids))

(* ast_statement_to_string(): the condition, then the blocks.              *)
ElseAlways == <<ItemOf(It.kids[2])>>            \* slip: no test for NULL
ThenAgain == IF It.kids[2] # 0 THEN <<ItemOf(It.kids[1])>> ELSE <<>>    \* slip
Else == IF It.kids[2] # 0 THEN <<ItemOf(It.kids[2])>> ELSE <<>>

PrintIf == /\ Shows({"IF"})
           /\ Becomes(<<ItemOf(It.kids[3]), ItemOf(It.kids[1])>> \o Else)

(* A function's name is the name of its block.                             *)
PrintFunc == /\ Shows({"FUNC"})
             /\ Becomes(ItsMembers \o <<ItsName, ItemOf(It.kids[1])>>)

LastMissing == <<ItsName>>              \* slip: off by one
               \o (IF It.members = <<>> THEN <<>> ELSE Tail(ItsMembers))
NameAndMembers == <<ItsName>> \o ItsMembers

PrintMembers == Shows({"STRUCT", "UNION", "ENUM"}) /\ Becomes(NameAndMembers)

(* The characters of a name.                                               *)
WordForever == Printing /\ Item.what = "word" /\ UNCHANGED printVars    \* slip: no start++
PrintWord == Printing /\ Item.what = "word" /\ Becomes(<<>>)

PrintStep == \/ PrintOperation \/ PrintLiteral \/ PrintIdentifier \/ PrintBlock
         \/ PrintIf \/ PrintFunc \/ PrintMembers \/ PrintWord

PrintNext == Parse \/ PrintStep

(* One thread.                                                             *)
PrintSpec == PrintInit /\ [][PrintNext]_printVars /\ WF_printVars(PrintNext)

-----------------------------------------------------------------------------
(* The printer follows no NULL and no foreign pointer, whatever statement  *)
(* the parser accepted: debug.cc tests else_block alone (debug.cc:105-164, *)
(* 206-216).                                                               *)
NodesExist ==
  \A k \in DOMAIN todo : todo[k].what = "node" => todo[k].node \in DOMAIN nodes

Printed == status = "accepted" /\ todo = <<>>

(* No node is printed twice, not even a copy of one in a block's array or  *)
(* an operand that two operators could share; and all are printed but the  *)
(* literals that were folded into another and those made for a name        *)
(* (parser.cc:334, 515-531, 666).                                          *)
ShownOnce ==
  /\ \A j, k \in DOMAIN shown : shown[j].what = "node" /\ shown[j] = shown[k] => j = k
  /\ Printed =>
       \A i \in DOMAIN nodes :
         nodes[i].kind # "LITERAL" => \E k \in DOMAIN shown : shown[k] = ItemOf(i)

(* A name that was used before it was declared is printed as nothing.      *)
Echo(word, x) ==
  word = x \/ (word = NoName /\ x \in DOMAIN idents /\ idents[x].name = NoName)

(* Where the k-th thing shown, a name, was read.                           *)
ShownNames == {k \in DOMAIN shown : shown[k].what = "word"}
ReadAt(k) == source[<<shown[k].node, shown[k].nth>>]

BehindItsMembers(j, k) ==
  /\ nodes[shown[k].node].kind = "FUNC" /\ shown[k].nth = 1
  /\ shown[j].node = shown[k].node /\ ReadAt(j) > ReadAt(k)

(* Every name in a statement comes out of the parser and the printer once, *)
(* in the order of the source: no operand, parameter, member or statement  *)
(* is lost, doubled or moved on the way (parser.cc:195-688, debug.cc:105-  *)
(* 216).  Only a function's name moves, and only behind its parameters.    *)
EchoesNames ==
  /\ \A k \in ShownNames :
       Identifier(ReadAt(k)) /\ Echo(shown[k].word, Lexeme(ReadAt(k)))
  /\ \A j, k \in ShownNames :
       j < k => ReadAt(j) < ReadAt(k) \/ BehindItsMembers(j, k)
  /\ Printed =>
       \A i \in 0 .. ip - 1 :
         Identifier(i) => i \in dropped \/ \E k \in ShownNames : ReadAt(k) = i

(* Every program is refused, or accepted and printed to its end: no loop   *)
(* of the parser or the printer goes on without taking a token, a node or  *)
(* a character (parser.cc:333, debug.cc:124-127, 209).                     *)
Ends == <>(status \notin {"running", "accepted"} \/ Printed)

=============================================================================
