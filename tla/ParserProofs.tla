---------------------------- MODULE ParserProofs ----------------------------
(***************************************************************************)
(* Proofs about the parser, for every set of token lists it may be given.  *)
(***************************************************************************)
EXTENDS Parser, SequenceTheorems, WellFoundedInduction, TLAPS

(* A set of natural numbers has a least element.                           *)
LEMMA LeastElement ==
  ASSUME NEW S, S \subseteq Nat, S # {}
  PROVE  \E m \in S : \A k \in S : m <= k
<1> DEFINE R == {ss \in Nat \X Nat : ss[1] < ss[2]}
<1>1. IsWellFoundedOn(R, Nat) BY NatLessThanWellFounded, Zenon DEF OpToRel
<1> HIDE DEF R
<1>2. PICK m \in S : \A k \in S : ~(<<k, m>> \in R) BY <1>1, WFMin
<1>3. ASSUME NEW i \in Nat, NEW j \in Nat, i < j PROVE <<i, j>> \in R
  <2>1. <<i, j>> \in Nat \X Nat OBVIOUS
  <2>2. <<i, j>>[1] < <<i, j>>[2] BY <1>3
  <2> QED BY <2>1, <2>2 DEF R
<1>4. ASSUME NEW k \in S PROVE m <= k
  <2>1. k \in Nat /\ m \in Nat OBVIOUS
  <2>2. ~(k < m) BY <1>2, <1>3, <2>1, Zenon
  <2> QED BY <2>1, <2>2
<1> QED BY <1>4

-----------------------------------------------------------------------------
(* Lemmas about the operators the model is built from.                     *)

(* ignore_lf() stays within the token list, and stops at a token that is   *)
(* no line feed.                                                           *)
LEMMA SkipLfProperties ==
  ASSUME tokens \in TokenList, NEW i \in Nat
  PROVE  /\ SkipLf(i) \in Nat
         /\ SkipLf(i) <= NTokens
         /\ SkipLf(i) < NTokens => Kind(SkipLf(i)) # "T_LF" /\ i <= SkipLf(i)
<1> DEFINE after == {j \in i .. NTokens - 1 : Kind(j) # "T_LF"}
<1>1. NTokens \in Nat
  <2>1. tokens \in Seq(Token) BY DEF TokenList
  <2> QED BY <2>1, LenProperties DEF NTokens
<1>2. CASE after = {} BY <1>1, <1>2 DEF SkipLf
<1>3. CASE after # {}
  <2>1. after \subseteq Nat BY <1>1
  <2>2. \E m \in after : \A k \in after : m <= k BY <1>3, <2>1, LeastElement, Zenon
  <2>3. SkipLf(i) \in after BY <1>3, <2>2, Zenon DEF SkipLf
  <2> QED BY <1>1, <2>3
<1> QED BY <1>2, <1>3

(* A token before the end of the list is one of the scanner's.             *)
LEMMA TokenAt ==
  ASSUME tokens \in TokenList, NEW i \in Nat, i < NTokens
  PROVE  /\ tokens[i + 1] \in Token
         /\ Kind(i) = "T_IDENTIFIER" => Lexeme(i) \in Name
<1>1. tokens \in Seq(Token) BY DEF TokenList
<1>2. i + 1 \in 1 .. Len(tokens) BY <1>1, LenProperties DEF NTokens
<1>3. tokens[i + 1] \in Token BY <1>1, <1>2, ElementOfSeq
<1> QED BY <1>3 DEF Token, Kind, Lexeme

(* A fresh node is well typed, and stays so when it is given a child.      *)
LEMMA NewNodeType ==
  ASSUME NEW kind \in NodeKind
  PROVE  NewNode(kind) \in Node
<1>1. FreshKids(kind) \in Seq(Nat) BY DEF FreshKids, NodeKind, ExpressionKind, StatementKind
<1>2. <<>> \in Seq(AstIdentifier) OBVIOUS
<1>3. ZeroType \in AstType BY DEF ZeroType, AstType, ValueType
<1> QED BY <1>1, <1>2, <1>3 DEF NewNode, Node, Encoding

LEMMA WithKidType ==
  ASSUME NEW nd \in Node, NEW k, NEW child \in Nat
  PROVE  WithKid(nd, k, child) \in Node
<1>1. nd.kids \in Seq(Nat) BY DEF Node
<1>2. [nd.kids EXCEPT ![k] = child] \in Seq(Nat)
  <2>1. CASE k \in 1 .. Len(nd.kids) BY <1>1, <2>1, ExceptSeq
  <2>2. CASE k \notin 1 .. Len(nd.kids)
    <3>1. DOMAIN nd.kids = 1 .. Len(nd.kids) BY <1>1, LenProperties
    <3>2. [nd.kids EXCEPT ![k] = child] = nd.kids BY <1>1, <2>2, <3>1
    <3> QED BY <1>1, <3>2
  <2> QED BY <2>1, <2>2
<1> QED BY <1>2 DEF WithKid, Node

(* A sum evaluates to a type, and folding keeps a node well typed.         *)
LEMMA BinaryEvalType ==
  ASSUME NEW l \in AstType, NEW r \in AstType, NEW garbage \in BOOLEAN
  PROVE  BinaryEval(l, r, garbage) \in AstType
<1> DEFINE values == {l.value, r.value}
<1>1. (CASE "FLOAT" \in values -> "FLOAT"
         [] "FLOAT" \notin values /\ "INT" \in values -> "INT"
         [] values \subseteq {"CHAR", "BOOL"} /\ "CHAR" \in values -> "CHAR"
         [] OTHER -> "BOOL") \in ValueType
  BY Zenon DEF ValueType
<1>2. (l.ptr \/ r.ptr \/ garbage) \in BOOLEAN OBVIOUS
<1> QED BY <1>1, <1>2, Zenon DEF BinaryEval, AstType

LEMMA FoldType ==
  ASSUME NEW bin \in Node, NEW l \in Node, NEW r \in Node
  PROVE  Fold(bin, l, r) \in Node
<1>1. FoldRep(l, r) \in Encoding BY Zenon DEF FoldRep, Encoding
<1>2. <<>> \in Seq(Nat) OBVIOUS
<1>3. l.type \in AstType BY DEF Node
<1> HIDE DEF FoldRep
<1> QED BY <1>1, <1>2, <1>3 DEF Fold, Node, NodeKind, ExpressionKind

(* emplace keeps every entry there is, and the table well typed.           *)
LEMMA EmplaceKeeps ==
  ASSUME NEW table, NEW n, NEW entry, NEW z \in DOMAIN table
  PROVE  z \in DOMAIN Emplace(table, n, entry) /\ Emplace(table, n, entry)[z] = table[z]
BY DEF Emplace

LEMMA EmplaceType ==
  ASSUME NEW table, NEW n \in Name, NEW entry \in AstIdentifier,
         DOMAIN table \subseteq Name, table \in [DOMAIN table -> AstIdentifier]
  PROVE  /\ DOMAIN Emplace(table, n, entry) \subseteq Name
         /\ Emplace(table, n, entry) \in [DOMAIN Emplace(table, n, entry) -> AstIdentifier]
         /\ n \in DOMAIN Emplace(table, n, entry)
BY DEF Emplace

-----------------------------------------------------------------------------
(* The call stack.                                                         *)

(* A frame whose nodes are among the first n.                              *)
FrameOK(f, n) == /\ f \in Frame
                 /\ f.at \in Building    => f.node \in 1 .. n
                 /\ f.at \in HoldingLeft => f.left \in 1 .. n
                 /\ f.at \in Declaring   => f.name \in Name

(* Frames that may be pushed by a call.                                    *)
GoodFrames(fs, n) == /\ fs \in Seq(Frame) /\ fs # <<>>
                     /\ \A i \in 1 .. Len(fs) : FrameOK(fs[i], n)
                     /\ fs[1].at \notin Resumptions

LEMMA OneFrame ==
  ASSUME NEW n \in Nat, NEW f, FrameOK(f, n), f.at \notin Resumptions
  PROVE  GoodFrames(<<f>>, n)
<1>1. <<f>> \in Seq(Frame) /\ <<f>> # <<>> /\ Len(<<f>>) = 1 /\ <<f>>[1] = f
  BY DEF FrameOK
<1> QED BY <1>1 DEF GoodFrames

LEMMA OneMoreFrame ==
  ASSUME NEW n \in Nat, NEW fs, GoodFrames(fs, n), NEW f, FrameOK(f, n)
  PROVE  GoodFrames(fs \o <<f>>, n)
<1>1. fs \in Seq(Frame) /\ <<f>> \in Seq(Frame) /\ Len(<<f>>) = 1 /\ <<f>>[1] = f
  BY DEF GoodFrames, FrameOK
<1>2. Len(fs) \in Nat /\ Len(fs) >= 1 BY <1>1, EmptySeq DEF GoodFrames
<1>3. /\ fs \o <<f>> \in Seq(Frame)
      /\ Len(fs \o <<f>>) = Len(fs) + 1
      /\ \A i \in 1 .. Len(fs) + 1 :
           (fs \o <<f>>)[i] = IF i <= Len(fs) THEN fs[i] ELSE <<f>>[i - Len(fs)]
  BY <1>1, ConcatProperties
<1>4. fs \o <<f>> # <<>> BY <1>2, <1>3, EmptySeq
<1>5. (fs \o <<f>>)[1] = fs[1] BY <1>2, <1>3
<1>6. ASSUME NEW i \in 1 .. Len(fs) + 1 PROVE FrameOK((fs \o <<f>>)[i], n)
  <2>1. CASE i <= Len(fs) BY <1>2, <1>3, <2>1 DEF GoodFrames
  <2>2. CASE i = Len(fs) + 1
    <3>1. (fs \o <<f>>)[i] = f BY <1>1, <1>2, <1>3, <2>2
    <3> QED BY <3>1
  <2> QED BY <1>2, <2>1, <2>2
<1> QED BY <1>3, <1>4, <1>5, <1>6 DEF GoodFrames

LEMMA TwoFrames ==
  ASSUME NEW n \in Nat, NEW f, FrameOK(f, n), f.at \notin Resumptions,
         NEW g, FrameOK(g, n)
  PROVE  GoodFrames(<<f, g>>, n)
<1>1. /\ <<f, g>> \in Seq(Frame) /\ <<f, g>> # <<>> /\ Len(<<f, g>>) = 2
      /\ <<f, g>>[1] = f /\ <<f, g>>[2] = g
  BY DEF FrameOK
<1>2. ASSUME NEW i \in 1 .. 2 PROVE FrameOK(<<f, g>>[i], n)
  <2>1. i = 1 \/ i = 2 OBVIOUS
  <2> QED BY <1>1, <2>1
<1> QED BY <1>1, <1>2 DEF GoodFrames

LEMMA FreshFrame ==
  ASSUME NEW n \in Nat, NEW at \in Labels \ (Building \cup HoldingLeft \cup Declaring)
  PROVE  FrameOK(Fr(at), n)
<1>1. ZeroType \in AstType BY DEF ZeroType, AstType, ValueType
<1> QED BY <1>1 DEF FrameOK, Fr, Frame

LEMMA NodeFrame ==
  ASSUME NEW n \in Nat, NEW at \in Building \ HoldingLeft, NEW node \in 1 .. n
  PROVE  FrameOK(FrNode(at, node), n)
<1>1. ZeroType \in AstType BY DEF ZeroType, AstType, ValueType
<1>2. at \in Labels /\ at \notin Declaring BY DEF Labels, Building, Declaring
<1> QED BY <1>1, <1>2 DEF FrameOK, FrNode, Fr, Frame

(* The calls of the expression functions.                                  *)
LEMMA ExpressionCalls ==
  ASSUME NEW n \in Nat
  PROVE  /\ GoodFrames(FactorCall, n) /\ GoodFrames(TermCall, n)
         /\ GoodFrames(CmpCall, n) /\ GoodFrames(LogicCall, n)
<1>1. \A at \in {"Unary", "FactorRest", "TermFirst", "Assignment", "CmpRest", "LogicRest"} :
        FrameOK(Fr(at), n)
  BY FreshFrame DEF Labels, Resumptions, Building, HoldingLeft, Declaring
<1>2. Fr("Unary").at \notin Resumptions /\ Fr("Assignment").at \notin Resumptions
  BY DEF Fr, Resumptions
<1>3. GoodFrames(FactorCall, n) BY <1>1, <1>2, TwoFrames DEF FactorCall
<1>4. GoodFrames(CmpCall, n) BY <1>1, <1>2, TwoFrames DEF CmpCall
<1>5. GoodFrames(TermCall, n) BY <1>1, <1>3, OneMoreFrame DEF TermCall
<1>6. GoodFrames(LogicCall, n) BY <1>1, <1>4, OneMoreFrame DEF LogicCall
<1> QED BY <1>3, <1>4, <1>5, <1>6

-----------------------------------------------------------------------------
(* The inductive invariant: the types, and what the frames hold.           *)
IInv == TypeOK /\ StackOK

(* A stack of frames that are all in order.                                *)
GoodStack(s, n) == /\ s \in Seq(Frame)
                   /\ \A i \in 1 .. Len(s) : FrameOK(s[i], n)

LEMMA CallStack ==
  ASSUME NEW m \in Nat, NEW n \in Nat, m <= n,
         NEW s, GoodStack(s, m), s # <<>>, NEW fs, GoodFrames(fs, n)
  PROVE  /\ GoodStack(fs \o Tail(s), n)
         /\ fs \o Tail(s) # <<>>
         /\ Head(fs \o Tail(s)) = fs[1]
<1>1. s \in Seq(Frame) /\ fs \in Seq(Frame) BY DEF GoodStack, GoodFrames
<1>2. /\ Tail(s) \in Seq(Frame) /\ Len(Tail(s)) = Len(s) - 1
      /\ \A i \in 1 .. Len(Tail(s)) : Tail(s)[i] = s[i + 1]
  BY <1>1, HeadTailProperties
<1>3. Len(fs) \in Nat /\ Len(fs) >= 1 /\ Len(s) \in Nat
  BY <1>1, EmptySeq, LenProperties DEF GoodFrames
<1>4. /\ fs \o Tail(s) \in Seq(Frame)
      /\ Len(fs \o Tail(s)) = Len(fs) + Len(Tail(s))
      /\ \A i \in 1 .. Len(fs) + Len(Tail(s)) :
           (fs \o Tail(s))[i] = IF i <= Len(fs) THEN fs[i] ELSE Tail(s)[i - Len(fs)]
  BY <1>1, <1>2, ConcatProperties
<1>5. ASSUME NEW i \in 1 .. Len(fs \o Tail(s)) PROVE FrameOK((fs \o Tail(s))[i], n)
  <2>1. CASE i <= Len(fs) BY <1>2, <1>3, <1>4, <2>1 DEF GoodFrames
  <2>2. CASE i > Len(fs)
    <3>1. i - Len(fs) \in 1 .. Len(Tail(s)) BY <1>2, <1>3, <1>4, <2>2
    <3>2. (fs \o Tail(s))[i] = s[i - Len(fs) + 1] BY <1>2, <1>3, <1>4, <2>2, <3>1
    <3>3. FrameOK(s[i - Len(fs) + 1], m) BY <1>2, <1>3, <3>1 DEF GoodStack
    <3> QED BY <3>2, <3>3 DEF FrameOK
  <2> QED BY <1>2, <1>3, <1>4, <2>1, <2>2
<1>6. fs \o Tail(s) # <<>> BY <1>2, <1>3, <1>4, EmptySeq
<1>7. Head(fs \o Tail(s)) = fs[1] BY <1>2, <1>3, <1>4
<1> QED BY <1>4, <1>5, <1>6, <1>7 DEF GoodStack

LEMMA ReturnStack ==
  ASSUME NEW m \in Nat, NEW n \in Nat, m <= n, NEW s, GoodStack(s, m), s # <<>>
  PROVE  GoodStack(Tail(s), n)
<1>1. s \in Seq(Frame) BY DEF GoodStack
<1>2. /\ Tail(s) \in Seq(Frame) /\ Len(Tail(s)) = Len(s) - 1 /\ Len(s) \in Nat
      /\ \A i \in 1 .. Len(Tail(s)) : Tail(s)[i] = s[i + 1]
  BY <1>1, HeadTailProperties, LenProperties
<1>3. ASSUME NEW i \in 1 .. Len(Tail(s)) PROVE FrameOK(Tail(s)[i], n)
  <2>1. Tail(s)[i] = s[i + 1] /\ i + 1 \in 1 .. Len(s) BY <1>2
  <2>2. FrameOK(s[i + 1], m) BY <2>1 DEF GoodStack
  <2> QED BY <2>1, <2>2 DEF FrameOK
<1> QED BY <1>2, <1>3 DEF GoodStack

(* The invariant, with the frames and the result spelled out.              *)
LEMMA Unfolded ==
  ASSUME TypeOK
  PROVE  StackOK <=> /\ GoodStack(stack, Len(nodes))
                     /\ stack # <<>> /\ Top.at \in Resumptions => ret \in 1 .. Len(nodes)
<1>1. nodes \in Seq(Node) /\ stack \in Seq(Frame) BY DEF TypeOK
<1>2. DOMAIN nodes = 1 .. Len(nodes) /\ DOMAIN stack = 1 .. Len(stack)
  BY <1>1, LenProperties
<1>3. ASSUME NEW i \in 1 .. Len(stack) PROVE stack[i] \in Frame
  BY <1>1, ElementOfSeq
<1> QED BY <1>1, <1>2, <1>3 DEF StackOK, GoodStack, FrameOK

LEMMA UnfoldedNext ==
  ASSUME TypeOK'
  PROVE  StackOK' <=> /\ GoodStack(stack', Len(nodes'))
                      /\ stack' # <<>> /\ Head(stack').at \in Resumptions
                           => ret' \in 1 .. Len(nodes')
<1>1. nodes' \in Seq(Node) /\ stack' \in Seq(Frame) BY DEF TypeOK
<1>2. DOMAIN nodes' = 1 .. Len(nodes') /\ DOMAIN stack' = 1 .. Len(stack')
  BY <1>1, LenProperties
<1>3. ASSUME NEW i \in 1 .. Len(stack') PROVE stack'[i] \in Frame
  BY <1>1, ElementOfSeq
<1> QED BY <1>1, <1>2, <1>3 DEF StackOK, GoodStack, FrameOK, Top

-----------------------------------------------------------------------------
(* What every step does to the invariant.                                  *)

(* The types of everything but the stack and the result.                   *)
DataOK == /\ tokens \in TokenList
          /\ ip \in Nat
          /\ DOMAIN idents \subseteq Name
          /\ idents \in [DOMAIN idents -> AstIdentifier]
          /\ nodes \in Seq(Node)
          /\ status \in Statuses

LEMMA TypesOfLengths ==
  ASSUME IInv
  PROVE  /\ nodes \in Seq(Node) /\ Len(nodes) \in Nat /\ DOMAIN nodes = 1 .. Len(nodes)
         /\ GoodStack(stack, Len(nodes))
         /\ \A i \in 1 .. Len(nodes) : nodes[i] \in Node
<1>1. nodes \in Seq(Node) BY DEF IInv, TypeOK
<1>2. Len(nodes) \in Nat /\ DOMAIN nodes = 1 .. Len(nodes) BY <1>1, LenProperties
<1>3. \A i \in 1 .. Len(nodes) : nodes[i] \in Node BY <1>1, ElementOfSeq
<1> QED BY <1>1, <1>2, <1>3, Unfolded DEF IInv

(* A call of good frames keeps the invariant.                              *)
LEMMA CallKeeps ==
  ASSUME IInv, stack # <<>>, DataOK', Len(nodes) <= Len(nodes'),
         NEW fs, GoodFrames(fs, Len(nodes')), Call(fs)
  PROVE  IInv'
<1>1. Len(nodes') \in Nat BY LenProperties DEF DataOK
<1>2. /\ GoodStack(stack', Len(nodes')) /\ stack' # <<>>
      /\ Head(stack') = fs[1] /\ ret' = ret
  BY <1>1, TypesOfLengths, CallStack DEF Call
<1>3. TypeOK' BY <1>2 DEF DataOK, TypeOK, IInv, GoodStack
<1>4. Head(stack').at \notin Resumptions BY <1>2 DEF GoodFrames
<1> QED BY <1>2, <1>3, <1>4, UnfoldedNext DEF IInv

(* So does a return of a node there is.                                    *)
LEMMA ReturnKeeps ==
  ASSUME IInv, stack # <<>>, DataOK', Len(nodes) <= Len(nodes'),
         NEW node \in 1 .. Len(nodes'), Return(node)
  PROVE  IInv'
<1>1. Len(nodes') \in Nat BY LenProperties DEF DataOK
<1>2. GoodStack(stack', Len(nodes')) /\ ret' = node
  BY <1>1, TypesOfLengths, ReturnStack DEF Return
<1>3. TypeOK' BY <1>1, <1>2 DEF DataOK, TypeOK, GoodStack
<1> QED BY <1>2, <1>3, UnfoldedNext DEF IInv

(* And so does the end of the process.                                     *)
LEMMA StopKeeps ==
  ASSUME IInv, NEW how \in Statuses, NEW i \in Nat, StopAt(how, i)
  PROVE  IInv'
BY DEF IInv, TypeOK, StackOK, Top, StopAt

(* The running function's frame is in order, and the result of the call it *)
(* resumes after is a node.                                                *)
LEMMA TopFrame ==
  ASSUME IInv, NEW label, Running(label)
  PROVE  /\ stack # <<>> /\ Top.at = label /\ Top \in Frame
         /\ FrameOK(Top, Len(nodes))
         /\ label \in Resumptions => ret \in 1 .. Len(nodes) /\ nodes[ret] \in Node
<1>1. stack \in Seq(Frame) /\ stack # <<>> BY DEF IInv, TypeOK, Running
<1>2. Len(stack) \in Nat /\ Len(stack) >= 1 BY <1>1, EmptySeq, LenProperties
<1>3. Top = stack[1] BY <1>1 DEF Top
<1>4. FrameOK(Top, Len(nodes)) BY <1>2, <1>3, TypesOfLengths DEF GoodStack
<1>5. label \in Resumptions => ret \in 1 .. Len(nodes)
  BY Unfolded DEF IInv, Running
<1> QED BY <1>1, <1>4, <1>5, TypesOfLengths DEF FrameOK, Running

(* The token looked at is one of the list.                                 *)
LEMMA Looking ==
  ASSUME IInv
  PROVE  /\ At \in Nat /\ At + 1 \in Nat /\ At + 2 \in Nat
         /\ \A i \in Nat : SkipLf(i) \in Nat
         /\ \A i \in Nat : SkipLf(i + 3) \in Nat /\ SkipLf(i + 3) + 1 \in Nat
         /\ SkipLf(At + 1) + 1 \in Nat
         /\ At < NTokens /\ Identifier(At) => Lexeme(At) \in Name
<1>1. tokens \in TokenList /\ ip \in Nat BY DEF IInv, TypeOK
<1>2. \A i \in Nat : SkipLf(i) \in Nat BY <1>1, SkipLfProperties
<1>3. At \in Nat BY <1>1, <1>2 DEF At
<1>4. \A i \in Nat : i + 3 \in Nat /\ i + 1 \in Nat /\ i + 2 \in Nat OBVIOUS
<1>5. SkipLf(At + 1) \in Nat BY <1>2, <1>3, <1>4
<1>6. At < NTokens /\ Identifier(At) => Lexeme(At) \in Name
  BY <1>1, <1>3, TokenAt DEF Identifier
<1>7. \A i \in Nat : SkipLf(i + 3) \in Nat BY <1>2, <1>4
<1> QED BY <1>2, <1>3, <1>4, <1>5, <1>6, <1>7

LEMMA ExpectCursor ==
  ASSUME IInv, Expect
  PROVE  ip' \in Nat
BY Looking DEF Expect

(* New nodes are well typed and counted; an updated node is well typed.    *)
LEMMA AddKeeps ==
  ASSUME IInv, NEW new \in Seq(Node), Add(new)
  PROVE  nodes' \in Seq(Node) /\ Len(nodes') = Len(nodes) + Len(new)
BY TypesOfLengths, ConcatProperties DEF Add

LEMMA UpdateKeeps ==
  ASSUME IInv, NEW nd \in Node, Top.node \in 1 .. Len(nodes), Update(nd)
  PROVE  nodes' \in Seq(Node) /\ Len(nodes') = Len(nodes)
BY TypesOfLengths, ExceptSeq DEF Update

(* The frames most calls push.                                             *)
LEMMA FreshCall ==
  ASSUME NEW n \in Nat, NEW at \in {"Statement", "Block", "Decl", "Deref", "Ref", "Literal"}
  PROVE  GoodFrames(<<Fr(at)>>, n) /\ FrameOK(Fr(at), n) /\ Fr(at).at \notin Resumptions
<1>1. FrameOK(Fr(at), n)
  BY FreshFrame DEF Labels, Resumptions, Building, HoldingLeft, Declaring
<1>2. Fr(at).at \notin Resumptions BY DEF Fr, Resumptions
<1> QED BY <1>1, <1>2, OneFrame

LEMMA NodePoint ==
  ASSUME NEW n \in Nat, NEW node \in 1 .. n,
         NEW at \in Building \ (HoldingLeft \cup Resumptions)
  PROVE  GoodFrames(<<FrNode(at, node)>>, n)
<1>1. FrNode(at, node).at = at BY DEF FrNode, Fr
<1> QED BY <1>1, NodeFrame, OneFrame

LEMMA NodeCall ==
  ASSUME NEW n \in Nat, NEW node \in 1 .. n, NEW at \in Building \ HoldingLeft,
         NEW callee \in {"Statement", "Block", "Decl", "Deref", "Ref", "Literal"}
  PROVE  GoodFrames(<<Fr(callee), FrNode(at, node)>>, n)
BY FreshCall, NodeFrame, TwoFrames

(* A step that calls, and one that returns.                                *)
LEMMA StepCalls ==
  ASSUME IInv, NEW label, Running(label), UNCHANGED <<tokens, idents, status>>,
         ip' \in Nat, nodes' \in Seq(Node), Len(nodes) <= Len(nodes'),
         NEW fs, GoodFrames(fs, Len(nodes')), Call(fs)
  PROVE  IInv'
<1>1. DataOK' BY DEF DataOK, IInv, TypeOK
<1>2. stack # <<>> BY DEF Running
<1> QED BY <1>1, <1>2, CallKeeps

LEMMA StepReturns ==
  ASSUME IInv, NEW label, Running(label), UNCHANGED <<tokens, idents, status>>,
         ip' \in Nat, nodes' \in Seq(Node), Len(nodes) <= Len(nodes'),
         NEW node \in 1 .. Len(nodes'), Return(node)
  PROVE  IInv'
<1>1. DataOK' BY DEF DataOK, IInv, TypeOK
<1>2. stack # <<>> BY DEF Running
<1> QED BY <1>1, <1>2, ReturnKeeps

(* The same when no node is made, ...                                      *)
LEMMA NodesKept ==
  ASSUME IInv, UNCHANGED nodes
  PROVE  nodes' \in Seq(Node) /\ Len(nodes) <= Len(nodes') /\ Len(nodes') = Len(nodes)
BY TypesOfLengths

(* ... when one or two are, ...                                            *)
LEMMA OneAdded ==
  ASSUME IInv, NEW nd \in Node, Add(<<nd>>)
  PROVE  /\ nodes' \in Seq(Node) /\ Len(nodes') = New /\ Len(nodes) <= Len(nodes')
         /\ New \in 1 .. Len(nodes') /\ Len(nodes') \in Nat
<1>1. <<nd>> \in Seq(Node) /\ Len(<<nd>>) = 1 OBVIOUS
<1>2. nodes' \in Seq(Node) /\ Len(nodes') = Len(nodes) + 1 BY <1>1, AddKeeps
<1> QED BY <1>2, TypesOfLengths DEF New

LEMMA TwoAdded ==
  ASSUME IInv, NEW nd \in Node, NEW md \in Node, Add(<<nd, md>>)
  PROVE  /\ nodes' \in Seq(Node) /\ Len(nodes') = New + 1 /\ Len(nodes) <= Len(nodes')
         /\ New \in 1 .. Len(nodes') /\ New + 1 \in 1 .. Len(nodes') /\ Len(nodes') \in Nat
<1>1. <<nd, md>> \in Seq(Node) /\ Len(<<nd, md>>) = 2 OBVIOUS
<1>2. nodes' \in Seq(Node) /\ Len(nodes') = Len(nodes) + 2 BY <1>1, AddKeeps
<1> QED BY <1>2, TypesOfLengths DEF New

(* ... and when the frame's node is updated.                               *)
LEMMA OneUpdated ==
  ASSUME IInv, NEW label \in Building, Running(label), NEW nd \in Node, Update(nd)
  PROVE  /\ nodes' \in Seq(Node) /\ Len(nodes') = Len(nodes) /\ Len(nodes) <= Len(nodes')
         /\ Top.node \in 1 .. Len(nodes') /\ Len(nodes') \in Nat
<1>1. Top.node \in 1 .. Len(nodes) BY TopFrame DEF FrameOK
<1> QED BY <1>1, UpdateKeeps, TypesOfLengths

LEMMA BuildingNode ==
  ASSUME IInv, NEW label \in Building, Running(label)
  PROVE  Top.node \in 1 .. Len(nodes) /\ Here \in Node
BY TopFrame, TypesOfLengths DEF FrameOK, Here

-----------------------------------------------------------------------------
(* The steps of the statements.                                            *)

LEMMA AttachKeeps ==
  ASSUME IInv, NEW label \in Building \cap Resumptions, NEW k, Attach(label, k)
  PROVE  IInv'
<1>1. Running(label) /\ UNCHANGED <<tokens, idents, status>> /\ ip' \in Nat
  BY DEF Attach, Resumes, IInv, TypeOK
<1>2. ret \in Nat /\ Here \in Node BY <1>1, BuildingNode DEF IInv, TypeOK
<1>3. WithKid(Here, k, ret) \in Node BY <1>2, WithKidType
<1>4. /\ nodes' \in Seq(Node) /\ Len(nodes) <= Len(nodes')
      /\ Top.node \in 1 .. Len(nodes')
  BY <1>1, <1>3, OneUpdated DEF Attach
<1> QED BY <1>1, <1>4, StepReturns DEF Attach

LEMMA InsistsKeeps ==
  ASSUME IInv, NEW label, Insists(label)
  PROVE  /\ Running(label) /\ UNCHANGED <<tokens, idents, status, nodes>> /\ ip' \in Nat
         /\ nodes' \in Seq(Node) /\ Len(nodes) <= Len(nodes') /\ Len(nodes') = Len(nodes)
BY ExpectCursor, NodesKept DEF Insists, Reads, Sees

LEMMA GotoKeeps ==
  ASSUME IInv, NEW label \in Building, Running(label),
         UNCHANGED <<tokens, idents, status>>, ip' \in Nat,
         nodes' \in Seq(Node), Len(nodes') = Len(nodes),
         NEW at \in Building \ (HoldingLeft \cup Resumptions), Goto(at)
  PROVE  IInv'
<1>1. Top.node \in 1 .. Len(nodes') /\ Len(nodes') \in Nat /\ Len(nodes) <= Len(nodes')
  BY BuildingNode, TypesOfLengths
<1>2. GoodFrames(<<FrNode(at, Top.node)>>, Len(nodes')) BY <1>1, NodePoint
<1> QED BY <1>1, <1>2, StepCalls DEF Goto

LEMMA StatementKeeps == IInv /\ Statement => IInv'
<1> SUFFICES ASSUME IInv, Statement PROVE IInv'
  OBVIOUS
<1>1. Running("Statement") /\ UNCHANGED <<tokens, idents, status>>
  BY DEF Statement, Reads, Sees
<1>2. Len(nodes) \in Nat BY TypesOfLengths
<1>3. ASSUME HandOn(<<Fr("Block")>>) PROVE IInv'
  <2>1. GoodFrames(<<Fr("Block")>>, Len(nodes)) BY <1>2, FreshCall
  <2> QED BY <1>1, <1>3, <2>1, Looking, NodesKept, StepCalls DEF HandOn
<1>4. ASSUME NEW kind \in NodeKind, NEW at \in {"IfOpen", "DefName"},
             Call(<<FrNode(at, New)>>), ip' = At + 1, Add(<<NewNode(kind)>>)
      PROVE  IInv'
  <2>1. /\ nodes' \in Seq(Node) /\ Len(nodes) <= Len(nodes')
        /\ New \in 1 .. Len(nodes') /\ Len(nodes') \in Nat
    BY <1>4, NewNodeType, OneAdded
  <2>2. at \in Building \ (HoldingLeft \cup Resumptions)
    BY DEF Building, HoldingLeft, Resumptions
  <2>3. GoodFrames(<<FrNode(at, New)>>, Len(nodes')) BY <2>1, <2>2, NodePoint
  <2> QED BY <1>1, <1>4, <2>1, <2>3, Looking, StepCalls
<1>5. ASSUME Kind(At) \in DefinitionTokens PROVE KindOfKeyword[Kind(At)] \in NodeKind
  BY <1>5 DEF DefinitionTokens, KindOfKeyword, NodeKind, StatementKind
<1>6. "IF" \in NodeKind BY DEF NodeKind, StatementKind
<1>7. ASSUME HandOn(<<Fr("Decl"), Fr("ExprSemi")>>) PROVE IInv'
  <2>1. FrameOK(Fr("ExprSemi"), Len(nodes))
    BY <1>2, FreshFrame DEF Labels, Resumptions, Building, HoldingLeft, Declaring
  <2>2. GoodFrames(<<Fr("Decl"), Fr("ExprSemi")>>, Len(nodes))
    BY <1>2, <2>1, FreshCall, TwoFrames
  <2> QED BY <1>1, <1>7, <2>2, Looking, NodesKept, StepCalls DEF HandOn
<1> QED BY <1>3, <1>4, <1>5, <1>6, <1>7 DEF Statement

LEMMA IfKeeps == IInv /\ (IfOpen \/ IfCond \/ IfThen \/ IfElse) => IInv'
<1> SUFFICES ASSUME IInv, IfOpen \/ IfCond \/ IfThen \/ IfElse PROVE IInv'
  OBVIOUS
<1>1. /\ {"IfOpen", "IfCond", "IfThen", "IfElse"} \subseteq Building \ HoldingLeft
      /\ {"IfCond", "IfThen", "IfElse"} \subseteq Resumptions
  BY DEF Building, HoldingLeft, Resumptions
<1>2. Len(nodes) \in Nat BY TypesOfLengths
<1>3. CASE IfOpen
  <2>1. Running("IfOpen") /\ UNCHANGED <<tokens, idents, status, nodes>> /\ ip' \in Nat
    BY <1>3, Looking DEF IfOpen, Reads, Sees
  <2>2. Top.node \in 1 .. Len(nodes) BY <1>1, <2>1, BuildingNode
  <2>3. GoodFrames(<<Fr("Decl"), FrNode("IfCond", Top.node)>>, Len(nodes))
    BY <1>1, <1>2, <2>2, NodeCall
  <2> QED BY <1>3, <2>1, <2>3, NodesKept, StepCalls DEF IfOpen
<1>4. CASE IfCond
  <2>1. Running("IfCond") /\ UNCHANGED <<tokens, idents, status>> /\ ip' \in Nat
    BY <1>4, Looking DEF IfCond, Reads, Sees
  <2>2. WithKid(Here, 3, ret) \in Node
    BY <1>1, <2>1, BuildingNode, WithKidType DEF IInv, TypeOK
  <2>3. /\ nodes' \in Seq(Node) /\ Len(nodes) <= Len(nodes')
        /\ Top.node \in 1 .. Len(nodes') /\ Len(nodes') \in Nat
    BY <1>1, <1>4, <2>1, <2>2, OneUpdated DEF IfCond
  <2>4. GoodFrames(<<Fr("Block"), FrNode("IfThen", Top.node)>>, Len(nodes'))
    BY <1>1, <2>3, NodeCall
  <2> QED BY <1>4, <2>1, <2>3, <2>4, StepCalls DEF IfCond
<1>5. CASE IfThen
  <2>1. Running("IfThen") /\ UNCHANGED <<tokens, idents, status>> /\ ip' \in Nat
    BY <1>5, Looking DEF IfThen, Reads, Sees
  <2>2. WithKid(Here, 1, ret) \in Node
    BY <1>1, <2>1, BuildingNode, WithKidType DEF IInv, TypeOK
  <2>3. /\ nodes' \in Seq(Node) /\ Len(nodes) <= Len(nodes')
        /\ Top.node \in 1 .. Len(nodes') /\ Len(nodes') \in Nat
    BY <1>1, <1>5, <2>1, <2>2, OneUpdated DEF IfThen
  <2>4. GoodFrames(<<Fr("Block"), FrNode("IfElse", Top.node)>>, Len(nodes'))
    BY <1>1, <2>3, NodeCall
  <2>5. CASE Call(<<Fr("Block"), FrNode("IfElse", Top.node)>>)
    BY <2>1, <2>3, <2>4, <2>5, StepCalls
  <2>6. CASE Return(Top.node) BY <2>1, <2>3, <2>6, StepReturns
  <2> QED BY <1>5, <2>5, <2>6 DEF IfThen
<1>6. CASE IfElse BY <1>1, <1>6, AttachKeeps DEF IfElse
<1> QED BY <1>3, <1>4, <1>5, <1>6

LEMMA BlockKeeps == IInv /\ (Block \/ BlockLoop \/ BlockPush \/ BlockClose) => IInv'
<1> SUFFICES ASSUME IInv, Block \/ BlockLoop \/ BlockPush \/ BlockClose PROVE IInv'
  OBVIOUS
<1>1. /\ {"BlockLoop", "BlockClose", "BlockPush"} \subseteq Building \ HoldingLeft
      /\ {"BlockLoop", "BlockClose"} \subseteq Building \ (HoldingLeft \cup Resumptions)
  BY DEF Building, HoldingLeft, Resumptions
<1>2. Len(nodes) \in Nat BY TypesOfLengths
<1>3. CASE Block
  <2>1. Running("Block") /\ UNCHANGED <<tokens, idents, status>> /\ ip' \in Nat
    BY <1>3, ExpectCursor DEF Block, Reads, Sees
  <2>2. "BLOCK" \in NodeKind BY DEF NodeKind, StatementKind
  <2>3. /\ nodes' \in Seq(Node) /\ Len(nodes) <= Len(nodes')
        /\ New \in 1 .. Len(nodes') /\ Len(nodes') \in Nat
    BY <1>3, <2>2, NewNodeType, OneAdded DEF Block
  <2>4. GoodFrames(<<FrNode("BlockLoop", New)>>, Len(nodes')) BY <1>1, <2>3, NodePoint
  <2> QED BY <1>3, <2>1, <2>3, <2>4, StepCalls DEF Block
<1>4. CASE BlockLoop
  <2>1. Running("BlockLoop") /\ UNCHANGED <<tokens, idents, status, nodes>> /\ ip' \in Nat
    BY <1>4, Looking DEF BlockLoop, Reads, Sees
  <2>2. nodes' \in Seq(Node) /\ Len(nodes) <= Len(nodes') /\ Len(nodes') = Len(nodes)
    BY <2>1, NodesKept
  <2>3. CASE Goto("BlockClose") BY <1>1, <2>1, <2>2, <2>3, GotoKeeps
  <2>4. CASE Call(<<Fr("Statement"), FrNode("BlockPush", Top.node)>>)
    <3>1. Top.node \in 1 .. Len(nodes) BY <1>1, <2>1, BuildingNode
    <3>2. GoodFrames(<<Fr("Statement"), FrNode("BlockPush", Top.node)>>, Len(nodes))
      BY <1>1, <1>2, <3>1, NodeCall
    <3> QED BY <2>1, <2>2, <2>4, <3>2, StepCalls
  <2> QED BY <1>4, <2>3, <2>4 DEF BlockLoop
<1>5. CASE BlockPush
  <2>1. Running("BlockPush") /\ UNCHANGED <<tokens, idents, status>> /\ ip' \in Nat
    BY <1>5 DEF BlockPush, Resumes, IInv, TypeOK
  <2>2. Here \in Node /\ ret \in Nat BY <1>1, <2>1, BuildingNode DEF IInv, TypeOK
  <2>3. Append(Here.kids, ret) \in Seq(Nat) BY <2>2, AppendProperties DEF Node
  <2>4. [Here EXCEPT !.kids = Append(@, ret)] \in Node BY <2>2, <2>3 DEF Node
  <2>5. nodes' \in Seq(Node) /\ Len(nodes') = Len(nodes)
    BY <1>1, <1>5, <2>1, <2>4, OneUpdated DEF BlockPush
  <2> QED BY <1>1, <1>5, <2>1, <2>5, GotoKeeps DEF BlockPush
<1>6. CASE BlockClose
  <2>1. Insists("BlockClose") /\ Return(Top.node) BY <1>6 DEF BlockClose
  <2>2. Top.node \in 1 .. Len(nodes) BY <1>1, <2>1, InsistsKeeps, BuildingNode
  <2> QED BY <2>1, <2>2, InsistsKeeps, StepReturns
<1> QED BY <1>3, <1>4, <1>5, <1>6

(* The steps of the definitions.                                           *)
LEMMA DefNameKeeps == IInv /\ DefName => IInv'
<1> SUFFICES ASSUME IInv, DefName PROVE IInv'
  OBVIOUS
<1>1. Running("DefName") /\ UNCHANGED <<tokens, idents, status>> /\ ip' \in Nat
  BY Looking DEF DefName, Reads, Sees
<1>2. "DefName" \in Building BY DEF Building
<1>3. Here \in Node /\ Lexeme(At) \in Name
  BY <1>1, <1>2, BuildingNode, Looking DEF DefName, Reads, Sees
<1>4. [Here EXCEPT !.name = Lexeme(At)] \in Node BY <1>3 DEF Node
<1>5. /\ nodes' \in Seq(Node) /\ Len(nodes) <= Len(nodes')
      /\ Top.node \in 1 .. Len(nodes') /\ Len(nodes') \in Nat
  BY <1>1, <1>2, <1>4, OneUpdated DEF DefName
<1>6. PICK at \in {"FuncOpen", "AggOpen"} : Call(<<FrNode(at, Top.node)>>)
  BY DEF DefName
<1>7. at \in Building \ (HoldingLeft \cup Resumptions)
  BY DEF Building, HoldingLeft, Resumptions
<1>8. GoodFrames(<<FrNode(at, Top.node)>>, Len(nodes')) BY <1>5, <1>7, NodePoint
<1> QED BY <1>1, <1>5, <1>6, <1>8, StepCalls

(* Parameters and members.                                                 *)
LEMMA AddMemberKeeps ==
  ASSUME IInv, Running("Params"), NEW m \in AstIdentifier, AddMember(m)
  PROVE  nodes' \in Seq(Node) /\ Len(nodes') = Len(nodes)
<1>1. "Params" \in Building BY DEF Building
<1>2. Here \in Node BY <1>1, BuildingNode
<1>3. Append(Here.members, m) \in Seq(AstIdentifier) BY <1>2, AppendProperties DEF Node
<1>4. [Here EXCEPT !.members = Append(@, m)] \in Node BY <1>2, <1>3 DEF Node
<1> QED BY <1>1, <1>4, OneUpdated DEF AddMember

LEMMA ParameterType ==
  ASSUME IInv, At < NTokens, Identifier(At), IsParameter
  PROVE  Parameter \in AstIdentifier
<1>1. Lexeme(At) \in Name BY Looking
<1>2. TypeOfId[Kind(At + 2)] \in ValueType BY DEF IsParameter, TypeIds, TypeOfId, ValueType
<1>3. ParameterStar \in BOOLEAN BY DEF ParameterStar
<1> QED BY <1>1, <1>2, <1>3, Zenon DEF Parameter, AstIdentifier, AstType

LEMMA ParamsKeeps == IInv /\ Params => IInv'
<1> SUFFICES ASSUME IInv, Params PROVE IInv'
  OBVIOUS
<1>1. Running("Params") /\ UNCHANGED <<tokens, idents, status>> /\ At < NTokens
  BY DEF Params, Reads, Sees
<1>2. /\ "Params" \in Building
      /\ {"MemberSemi", "FuncClose", "AggClose"} \subseteq Building \ (HoldingLeft \cup Resumptions)
  BY DEF Building, HoldingLeft, Resumptions
<1>3. At \in Nat /\ AfterParameter \in Nat
  <2>1. SkipLf(At + 3) \in Nat /\ SkipLf(At + 3) + 1 \in Nat BY Looking
  <2>2. At \in Nat BY Looking
  <2> QED BY <2>1, <2>2 DEF AfterParameter
<1>4. SkipComma(AfterParameter) \in Nat
  <2>1. SkipLf(AfterParameter) \in Nat BY <1>3, Looking
  <2> QED BY <2>1 DEF SkipComma
<1>5. CASE /\ Here.kind = "FUNC" /\ Identifier(At) /\ IsParameter
           /\ AddMember(Parameter) /\ ip' = SkipComma(AfterParameter)
           /\ UNCHANGED <<stack, ret>>
  <2>1. nodes' \in Seq(Node) /\ Len(nodes') = Len(nodes)
    BY <1>1, <1>5, ParameterType, AddMemberKeeps
  <2>2. TypeOK' BY <1>1, <1>4, <1>5, <2>1 DEF IInv, TypeOK
  <2>3. GoodStack(stack', Len(nodes')) BY <1>5, <2>1, TypesOfLengths
  <2>4. Head(stack').at \notin Resumptions BY <1>1, <1>5 DEF Running, Top, Resumptions
  <2> QED BY <2>2, <2>3, <2>4, UnfoldedNext DEF IInv
<1>6. CASE /\ Here.kind \in {"STRUCT", "UNION"} /\ Identifier(At) /\ IsParameter
           /\ AddMember(Parameter) /\ ip' = AfterParameter /\ Goto("MemberSemi")
  <2>1. nodes' \in Seq(Node) /\ Len(nodes') = Len(nodes)
    BY <1>1, <1>6, ParameterType, AddMemberKeeps
  <2> QED BY <1>1, <1>2, <1>3, <1>6, <2>1, GotoKeeps
<1>7. CASE /\ Here.kind = "ENUM" /\ Identifier(At)
           /\ AddMember([name |-> Lexeme(At), type |-> ZeroType])
           /\ ip' = At + 1 /\ Goto("MemberSemi")
  <2>1. ZeroType \in AstType BY DEF ZeroType, AstType, ValueType
  <2>2. [name |-> Lexeme(At), type |-> ZeroType] \in AstIdentifier
    BY <1>1, <1>7, <2>1, Looking DEF AstIdentifier
  <2>3. nodes' \in Seq(Node) /\ Len(nodes') = Len(nodes)
    BY <1>1, <1>7, <2>2, AddMemberKeeps
  <2> QED BY <1>1, <1>2, <1>3, <1>7, <2>3, GotoKeeps
<1>8. CASE /\ ~Identifier(At) /\ ip' = At /\ UNCHANGED nodes
           /\ Call(<<FrNode(IF Here.kind = "FUNC" THEN "FuncClose" ELSE "AggClose", Top.node)>>)
  <2>1. PICK at \in {"FuncClose", "AggClose"} : Goto(at) BY <1>8 DEF Goto
  <2>2. nodes' \in Seq(Node) /\ Len(nodes') = Len(nodes) BY <1>8, NodesKept
  <2> QED BY <1>1, <1>2, <1>3, <1>8, <2>1, <2>2, GotoKeeps
<1> QED BY <1>5, <1>6, <1>7, <1>8 DEF Params

(* The points that insist on a token.                                      *)
LEMMA InsistingKeeps ==
  IInv /\ (FuncOpen \/ AggOpen \/ MemberSemi \/ AggClose \/ FuncClose \/ FuncColon \/ ExprSemi)
    => IInv'
<1> SUFFICES ASSUME IInv, FuncOpen \/ AggOpen \/ MemberSemi \/ AggClose
                          \/ FuncClose \/ FuncColon \/ ExprSemi
             PROVE  IInv'
  OBVIOUS
<1>1. {"FuncOpen", "AggOpen", "MemberSemi", "AggClose", "FuncClose", "FuncColon", "Params", "FuncType"}
        \subseteq Building \ (HoldingLeft \cup Resumptions)
  BY DEF Building, HoldingLeft, Resumptions
<1>2. CASE FuncOpen BY <1>1, <1>2, InsistsKeeps, GotoKeeps DEF FuncOpen
<1>3. CASE AggOpen BY <1>1, <1>3, InsistsKeeps, GotoKeeps DEF AggOpen
<1>4. CASE MemberSemi BY <1>1, <1>4, InsistsKeeps, GotoKeeps DEF MemberSemi
<1>5. CASE FuncClose BY <1>1, <1>5, InsistsKeeps, GotoKeeps DEF FuncClose
<1>6. CASE FuncColon BY <1>1, <1>6, InsistsKeeps, GotoKeeps DEF FuncColon
<1>7. CASE AggClose
  <2>1. Insists("AggClose") /\ Return(Top.node) BY <1>7 DEF AggClose
  <2>2. Top.node \in 1 .. Len(nodes) BY <1>1, <2>1, InsistsKeeps, BuildingNode
  <2> QED BY <2>1, <2>2, InsistsKeeps, StepReturns
<1>8. CASE ExprSemi
  <2>1. Insists("ExprSemi") /\ Return(ret) BY <1>8 DEF ExprSemi
  <2>2. "ExprSemi" \in Resumptions BY DEF Resumptions
  <2>3. ret \in 1 .. Len(nodes) BY <2>1, <2>2, InsistsKeeps, TopFrame
  <2> QED BY <2>1, <2>3, InsistsKeeps, StepReturns
<1> QED BY <1>2, <1>3, <1>4, <1>5, <1>6, <1>7, <1>8

LEMMA FuncKeeps == IInv /\ (FuncType \/ FuncBody) => IInv'
<1> SUFFICES ASSUME IInv, FuncType \/ FuncBody PROVE IInv'
  OBVIOUS
<1>1. {"FuncType", "FuncBody"} \subseteq Building \ HoldingLeft /\ "FuncBody" \in Resumptions
  BY DEF Building, HoldingLeft, Resumptions
<1>2. CASE FuncType
  <2>1. Running("FuncType") /\ UNCHANGED <<tokens, idents, status>> /\ ip' \in Nat
    BY <1>2, Looking DEF FuncType, Reads, Sees
  <2>2. Here \in Node BY <1>1, <2>1, BuildingNode
  <2>3. [value |-> TypeOfId[Kind(At)], ptr |-> Kind(At) = "T_STAR"] \in AstType
    <3>1. TypeOfId[Kind(At)] \in ValueType
      BY <1>2 DEF FuncType, TypeIds, TypeOfId, ValueType
    <3>2. (Kind(At) = "T_STAR") \in BOOLEAN OBVIOUS
    <3> QED BY <3>1, <3>2, Zenon DEF AstType
  <2> DEFINE ty == [value |-> TypeOfId[Kind(At)], ptr |-> Kind(At) = "T_STAR"]
  <2>4. [Here EXCEPT !.type = ty] \in Node
    <3> HIDE DEF ty
    <3>1. ty \in AstType BY <2>3 DEF ty
    <3> QED BY <2>2, <3>1 DEF Node
  <2>5. Update([Here EXCEPT !.type = ty]) BY <1>2 DEF FuncType
  <2> HIDE DEF ty
  <2>6. /\ nodes' \in Seq(Node) /\ Len(nodes) <= Len(nodes')
        /\ Top.node \in 1 .. Len(nodes') /\ Len(nodes') \in Nat
    BY <1>1, <2>1, <2>4, <2>5, OneUpdated
  <2>7. GoodFrames(<<Fr("Block"), FrNode("FuncBody", Top.node)>>, Len(nodes'))
    BY <1>1, <2>6, NodeCall
  <2> QED BY <1>2, <2>1, <2>6, <2>7, StepCalls DEF FuncType
<1>3. CASE FuncBody BY <1>1, <1>3, AttachKeeps DEF FuncBody
<1> QED BY <1>2, <1>3

-----------------------------------------------------------------------------
(* The steps of the expressions.                                           *)

LEMMA HandOnKeeps ==
  ASSUME IInv, NEW label, Running(label), UNCHANGED <<tokens, idents, status>>,
         NEW fs, GoodFrames(fs, Len(nodes)), HandOn(fs)
  PROVE  IInv'
BY Looking, NodesKept, StepCalls DEF HandOn

LEMMA HandBackKeeps ==
  ASSUME IInv, NEW label, Running(label), UNCHANGED <<tokens, idents, status>>,
         NEW node \in 1 .. Len(nodes), HandBack(node)
  PROVE  IInv'
BY Looking, NodesKept, StepReturns DEF HandBack

(* An operator's token is taken, its node made and its operand called for. *)
LEMMA BuildKeeps ==
  ASSUME IInv, NEW label, Running(label), UNCHANGED <<tokens, idents, status>>,
         ip' = At + 1, NEW nd \in Node, Add(<<nd>>),
         NEW fs, GoodFrames(fs, New), Call(fs)
  PROVE  IInv'
<1>1. nodes' \in Seq(Node) /\ Len(nodes') = New /\ Len(nodes) <= Len(nodes')
  BY OneAdded
<1> QED BY <1>1, Looking, StepCalls

(* A frame that is given an operand and an operator.                       *)
LEMMA FrameUpdate ==
  ASSUME NEW n \in Nat, NEW f \in Frame, f.at \notin Declaring, f.node \in 1 .. n,
         NEW left \in 1 .. n, NEW op \in BinaryOp \cup {"NONE"}
  PROVE  /\ FrameOK([f EXCEPT !.left = left, !.op = op], n)
         /\ FrameOK([f EXCEPT !.left = left], n)
<1>1. left \in Nat OBVIOUS
<1>2. [f EXCEPT !.left = left, !.op = op] \in Frame /\ [f EXCEPT !.left = left] \in Frame
  BY <1>1 DEF Frame
<1>3. /\ [f EXCEPT !.left = left, !.op = op].at = f.at
      /\ [f EXCEPT !.left = left, !.op = op].node = f.node
      /\ [f EXCEPT !.left = left, !.op = op].left = left
      /\ [f EXCEPT !.left = left].at = f.at
      /\ [f EXCEPT !.left = left].node = f.node
      /\ [f EXCEPT !.left = left].left = left
  BY DEF Frame
<1> QED BY <1>2, <1>3 DEF FrameOK

(* The frame of a function that waits for its right operand.               *)
LEMMA LeftFrame ==
  ASSUME NEW n \in Nat, NEW node \in 1 .. n, NEW left \in 1 .. n,
         NEW op \in BinaryOp \cup {"NONE"},
         NEW at \in {"LogicRhs", "FactorRhs", "NegRhs"}
  PROVE  /\ FrameOK([FrNode(at, node) EXCEPT !.left = left, !.op = op], n)
         /\ FrameOK([FrNode(at, node) EXCEPT !.left = left], n)
<1>1. ZeroType \in AstType BY DEF ZeroType, AstType, ValueType
<1>2. at \in Labels /\ at \notin Declaring
  BY DEF Labels, Building, HoldingLeft, Declaring, Resumptions
<1>3. FrNode(at, node) \in Frame /\ FrNode(at, node).at = at /\ FrNode(at, node).node = node
  BY <1>1, <1>2 DEF FrNode, Fr, Frame
<1> QED BY <1>2, <1>3, FrameUpdate

LEMMA NewIsNat == IInv => New \in Nat /\ New \in 1 .. New /\ New + 1 \in 1 .. New + 1
BY TypesOfLengths DEF New

(* A node keeps its type when its fields are given values of theirs.       *)
LEMMA BinaryNode ==
  ASSUME NEW nd \in Node, NEW i \in Nat, NEW j \in Nat,
         NEW op \in BinaryOp \cup {"NONE"}, NEW ev \in AstType
  PROVE  /\ [nd EXCEPT !.kids = <<i, j>>, !.op = op] \in Node
         /\ [nd EXCEPT !.kids = <<i, j>>, !.op = op, !.ev = ev] \in Node
         /\ [nd EXCEPT !.op = op, !.kids = <<i, j>>] \in Node
         /\ [nd EXCEPT !.ev = ev, !.kids = <<i, j>>, !.op = op] \in Node
<1>1. <<i, j>> \in Seq(Nat) OBVIOUS
<1> QED BY <1>1 DEF Node

LEMMA LogicKeeps == IInv /\ (LogicRest \/ LogicRhs) => IInv'
<1> SUFFICES ASSUME IInv, LogicRest \/ LogicRhs PROVE IInv'
  OBVIOUS
<1>1. "BINARY" \in NodeKind BY DEF NodeKind, ExpressionKind
<1>2. CASE LogicRest
  <2>1. Running("LogicRest") /\ UNCHANGED <<tokens, idents, status>>
    BY <1>2 DEF LogicRest, Reads, Sees
  <2>2. "LogicRest" \in Resumptions BY DEF Resumptions
  <2>3. ret \in 1 .. Len(nodes) BY <2>1, <2>2, TopFrame
  <2>4. ASSUME NEW op \in {"AND", "OR"}, ip' = At + 1, Add(<<NewNode("BINARY")>>),
               Call(LogicCall \o <<[FrNode("LogicRhs", New) EXCEPT !.left = ret, !.op = op]>>)
        PROVE  IInv'
    <3>1. ret \in 1 .. New BY <2>3, TypesOfLengths DEF New
    <3>2. op \in BinaryOp BY SMTT(30) DEF BinaryOp
    <3>3. FrameOK([FrNode("LogicRhs", New) EXCEPT !.left = ret, !.op = op], New)
      BY <3>1, <3>2, NewIsNat, LeftFrame
    <3>4. GoodFrames(LogicCall \o <<[FrNode("LogicRhs", New) EXCEPT !.left = ret, !.op = op]>>, New)
      BY <3>3, NewIsNat, ExpressionCalls, OneMoreFrame
    <3> QED BY <1>1, <2>1, <2>4, <3>4, NewNodeType, BuildKeeps
  <2>5. CASE HandBack(ret) BY <2>1, <2>3, <2>5, HandBackKeeps
  <2> QED BY <1>2, <2>4, <2>5 DEF LogicRest
<1>3. CASE LogicRhs
  <2>1. Running("LogicRhs") /\ UNCHANGED <<tokens, idents, status>> /\ ip' \in Nat
    BY <1>3 DEF LogicRhs, Resumes, IInv, TypeOK
  <2>2. "LogicRhs" \in Building /\ "LogicRhs" \in HoldingLeft BY DEF Building, HoldingLeft
  <2>3. Here \in Node /\ Top.left \in Nat /\ ret \in Nat /\ Top.op \in BinaryOp \cup {"NONE"}
    BY <2>1, <2>2, BuildingNode, TopFrame, SMTT(30) DEF Frame, IInv, TypeOK
  <2>4. [Here EXCEPT !.kids = <<Top.left, ret>>, !.op = Top.op] \in Node
    <3>1. ZeroType \in AstType BY DEF ZeroType, AstType, ValueType
    <3> QED BY <2>3, <3>1, BinaryNode
  <2>5. /\ nodes' \in Seq(Node) /\ Len(nodes) <= Len(nodes')
        /\ Top.node \in 1 .. Len(nodes')
    BY <1>3, <2>1, <2>2, <2>4, OneUpdated DEF LogicRhs
  <2> QED BY <1>3, <2>1, <2>5, StepReturns DEF LogicRhs
<1> QED BY <1>2, <1>3

LEMMA ComparisonKeeps == IInv /\ (CmpRest \/ CmpRhs) => IInv'
<1> SUFFICES ASSUME IInv, CmpRest \/ CmpRhs PROVE IInv'
  OBVIOUS
<1>1. /\ "BINARY" \in NodeKind /\ "CmpRest" \in Resumptions
      /\ "CmpRhs" \in Building \ HoldingLeft /\ "CmpRhs" \in Resumptions
  BY DEF NodeKind, ExpressionKind, Resumptions, Building, HoldingLeft
<1>2. CASE CmpRest
  <2>1. Running("CmpRest") /\ UNCHANGED <<tokens, idents, status>>
    BY <1>2 DEF CmpRest, Reads, Sees
  <2>2. ret \in 1 .. Len(nodes) BY <1>1, <2>1, TopFrame
  <2>3. ASSUME Kind(At) \in ComparisonTokens, ip' = At + 1,
               Add(<<[NewNode("BINARY") EXCEPT !.ev = [value |-> "BOOL", ptr |-> FALSE],
                                               !.kids = <<ret, 0>>,
                                               !.op = OpOfComparison[Kind(At)]]>>),
               Call(CmpCall \o <<FrNode("CmpRhs", New)>>)
        PROVE  IInv'
    <3>1. OpOfComparison[Kind(At)] \in BinaryOp
      BY <2>3 DEF ComparisonTokens, OpOfComparison, BinaryOp
    <3>2. [value |-> "BOOL", ptr |-> FALSE] \in AstType BY DEF AstType, ValueType
    <3>3. ret \in Nat /\ 0 \in Nat BY SMTT(30) DEF IInv, TypeOK
    <3>4. [NewNode("BINARY") EXCEPT !.ev = [value |-> "BOOL", ptr |-> FALSE],
                                    !.kids = <<ret, 0>>,
                                    !.op = OpOfComparison[Kind(At)]] \in Node
      BY <1>1, <3>1, <3>2, <3>3, NewNodeType, BinaryNode
    <3>5. FrameOK(FrNode("CmpRhs", New), New) BY <1>1, NewIsNat, NodeFrame
    <3>6. GoodFrames(CmpCall \o <<FrNode("CmpRhs", New)>>, New)
      BY <3>5, NewIsNat, ExpressionCalls, OneMoreFrame
    <3> QED BY <2>1, <2>3, <3>4, <3>6, BuildKeeps
  <2>4. CASE HandBack(ret) BY <2>1, <2>2, <2>4, HandBackKeeps
  <2> QED BY <1>2, <2>3, <2>4 DEF CmpRest
<1>3. CASE CmpRhs BY <1>1, <1>3, AttachKeeps DEF CmpRhs
<1> QED BY <1>2, <1>3

LEMMA FactorKeeps == IInv /\ (FactorRest \/ FactorRhs) => IInv'
<1> SUFFICES ASSUME IInv, FactorRest \/ FactorRhs PROVE IInv'
  OBVIOUS
<1>1. /\ "BINARY" \in NodeKind /\ {"FactorRest", "FactorRhs"} \subseteq Resumptions
      /\ "FactorRhs" \in Building /\ "FactorRhs" \in HoldingLeft
  BY DEF NodeKind, ExpressionKind, Resumptions, Building, HoldingLeft
<1>2. CASE FactorRest
  <2>1. Running("FactorRest") /\ UNCHANGED <<tokens, idents, status>>
    BY <1>2 DEF FactorRest, Reads, Sees
  <2>2. ret \in 1 .. Len(nodes) BY <1>1, <2>1, TopFrame
  <2>3. ASSUME NEW op \in {"MULT", "DIV"}, ip' = At + 1, Add(<<NewNode("BINARY")>>),
               Call(<<Fr("Unary"), [FrNode("FactorRhs", New) EXCEPT !.left = ret, !.op = op]>>)
        PROVE  IInv'
    <3>1. ret \in 1 .. New BY <2>2, TypesOfLengths DEF New
    <3>2. op \in BinaryOp BY DEF BinaryOp
    <3>3. FrameOK([FrNode("FactorRhs", New) EXCEPT !.left = ret, !.op = op], New)
      BY <3>1, <3>2, NewIsNat, LeftFrame
    <3>4. FrameOK(Fr("Unary"), New) /\ Fr("Unary").at \notin Resumptions
      <4>1. FrameOK(Fr("Unary"), New)
        BY NewIsNat, FreshFrame DEF Labels, Resumptions, Building, HoldingLeft, Declaring
      <4>2. Fr("Unary").at \notin Resumptions BY DEF Fr, Resumptions
      <4> QED BY <4>1, <4>2
    <3>5. GoodFrames(<<Fr("Unary"), [FrNode("FactorRhs", New) EXCEPT !.left = ret, !.op = op]>>, New)
      BY <3>3, <3>4, NewIsNat, TwoFrames
    <3> QED BY <1>1, <2>1, <2>3, <3>5, NewNodeType, BuildKeeps
  <2>4. CASE HandBack(ret) BY <2>1, <2>2, <2>4, HandBackKeeps
  <2> QED BY <1>2, <2>3, <2>4 DEF FactorRest
<1>3. CASE FactorRhs
  <2>1. Running("FactorRhs") /\ UNCHANGED <<tokens, idents, status>> /\ ip' \in Nat
    BY <1>3 DEF FactorRhs, Resumes, IInv, TypeOK
  <2>2. /\ Here \in Node /\ ret \in Nat /\ Top.op \in BinaryOp \cup {"NONE"}
        /\ Top.left \in 1 .. Len(nodes)
    BY <1>1, <2>1, BuildingNode, TopFrame DEF Frame, FrameOK, IInv, TypeOK
  <2>3. nodes[Top.left].ev \in AstType /\ Top.left \in Nat BY <2>2, TypesOfLengths, SMTT(30) DEF Node
  <2>4. [Here EXCEPT !.kids = <<Top.left, ret>>, !.op = Top.op, !.ev = nodes[Top.left].ev] \in Node
    BY <2>2, <2>3, BinaryNode
  <2>5. /\ nodes' \in Seq(Node) /\ Len(nodes) <= Len(nodes')
        /\ Top.node \in 1 .. Len(nodes')
    BY <1>1, <1>3, <2>1, <2>4, OneUpdated DEF FactorRhs
  <2> QED BY <1>3, <2>1, <2>5, StepReturns DEF FactorRhs
<1> QED BY <1>2, <1>3

LEMMA TermKeeps == IInv /\ (TermFirst \/ TermLoop \/ TermRhs) => IInv'
<1> SUFFICES ASSUME IInv, TermFirst \/ TermLoop \/ TermRhs PROVE IInv'
  OBVIOUS
<1>1. /\ "BINARY" \in NodeKind /\ {"TermFirst", "TermRhs"} \subseteq Resumptions
      /\ "TermRhs" \in Building \cap HoldingLeft
      /\ "TermLoop" \in HoldingLeft \ (Building \cup Declaring \cup Resumptions)
      /\ "TermRhs" \notin Declaring
      /\ {"TermLoop", "TermRhs"} \subseteq Labels
  BY DEF NodeKind, ExpressionKind, Resumptions, Building, HoldingLeft, Declaring, Labels
<1>2. CASE TermFirst
  <2> DEFINE fr == [Fr("TermLoop") EXCEPT !.left = ret, !.op = ChainOp]
  <2>1. /\ Running("TermFirst") /\ UNCHANGED <<tokens, idents, status, nodes>> /\ ip' \in Nat
        /\ Call(<<fr>>)
    BY <1>2 DEF TermFirst, Reads, Sees, IInv, TypeOK
  <2>2. ret \in 1 .. Len(nodes) BY <1>1, <2>1, TopFrame
  <2>3. Fr("TermLoop") \in Frame /\ Fr("TermLoop").at = "TermLoop"
    <3>1. ZeroType \in AstType BY DEF ZeroType, AstType, ValueType
    <3> QED BY <1>1, <3>1 DEF Fr, Frame
  <2>4. ChainOp \in BinaryOp BY DEF ChainOp, BinaryOp
  <2>5. fr \in Frame /\ fr.at = "TermLoop" /\ fr.left = ret
    <3>1. ret \in Nat BY DEF IInv, TypeOK
    <3> QED BY <2>3, <2>4, <3>1 DEF Frame
  <2> HIDE DEF fr
  <2>6. FrameOK(fr, Len(nodes)) /\ fr.at \notin Resumptions
    BY <1>1, <2>2, <2>5 DEF FrameOK
  <2>7. GoodFrames(<<fr>>, Len(nodes)) BY <2>6, TypesOfLengths, OneFrame
  <2> QED BY <2>1, <2>7, NodesKept, StepCalls
<1>3. CASE TermLoop
  <2> DEFINE nd == [NewNode("BINARY") EXCEPT !.kids = <<Top.left, 0>>, !.op = Top.op]
             fr == [Top EXCEPT !.at = "TermRhs", !.node = New]
  <2>1. Running("TermLoop") /\ UNCHANGED <<tokens, idents, status>>
    BY <1>3 DEF TermLoop, Reads, Sees
  <2>2. Top \in Frame /\ Top.left \in 1 .. Len(nodes) BY <1>1, <2>1, TopFrame DEF FrameOK
  <2>3. ASSUME ip' = At + 1, Add(<<nd>>), Call(FactorCall \o <<fr>>) PROVE IInv'
    <3>1. nd \in Node
      <4>1. ZeroType \in AstType BY DEF ZeroType, AstType, ValueType
      <4>2. Top.left \in Nat /\ 0 \in Nat /\ Top.op \in BinaryOp \cup {"NONE"} BY <2>2 DEF Frame
      <4> QED BY <1>1, <4>1, <4>2, NewNodeType, BinaryNode
    <3>2. New \in Nat /\ Top.left \in 1 .. New /\ New \in 1 .. New
      BY <2>2, NewIsNat, TypesOfLengths DEF New
    <3>3. fr \in Frame /\ fr.at = "TermRhs" /\ fr.node = New /\ fr.left = Top.left
      BY <1>1, <2>2, <3>2 DEF Frame
    <3> HIDE DEF fr, nd
    <3>4. FrameOK(fr, New) BY <1>1, <3>2, <3>3 DEF FrameOK
    <3>5. GoodFrames(FactorCall \o <<fr>>, New)
      BY <3>2, <3>4, ExpressionCalls, OneMoreFrame
    <3> QED BY <2>1, <2>3, <3>1, <3>5, BuildKeeps
  <2>4. CASE HandBack(Top.left) BY <2>1, <2>2, <2>4, HandBackKeeps
  <2> QED BY <1>3, <2>3, <2>4 DEF TermLoop
<1>4. CASE TermRhs
  <2> DEFINE fr == [Top EXCEPT !.at = "TermLoop", !.node = 0, !.left = Top.node]
             l == nodes[Top.left]
             r == nodes[ret]
  <2>1. /\ Running("TermRhs") /\ UNCHANGED <<tokens, idents, status>> /\ ip' \in Nat
        /\ Call(<<fr>>)
    BY <1>4 DEF TermRhs, Resumes, IInv, TypeOK
  <2>2. /\ Top \in Frame /\ Top.left \in 1 .. Len(nodes) /\ Top.node \in 1 .. Len(nodes)
        /\ Here \in Node /\ l \in Node /\ r \in Node /\ ret \in Nat
    BY <1>1, <2>1, TopFrame, BuildingNode, TypesOfLengths DEF FrameOK, IInv, TypeOK
  <2>3. PICK garbage \in BOOLEAN :
          Update(Fold([WithKid(Here, 2, ret) EXCEPT !.ev = BinaryEval(l.ev, r.ev, garbage)], l, r))
    BY <1>4 DEF TermRhs
  <2>4. BinaryEval(l.ev, r.ev, garbage) \in AstType BY <2>2, BinaryEvalType DEF Node
  <2>5. WithKid(Here, 2, ret) \in Node BY <2>2, WithKidType
  <2>6. [WithKid(Here, 2, ret) EXCEPT !.ev = BinaryEval(l.ev, r.ev, garbage)] \in Node
    BY <2>4, <2>5 DEF Node
  <2>7. Fold([WithKid(Here, 2, ret) EXCEPT !.ev = BinaryEval(l.ev, r.ev, garbage)], l, r) \in Node
    BY <2>2, <2>6, FoldType
  <2>8. /\ nodes' \in Seq(Node) /\ Len(nodes) <= Len(nodes') /\ Len(nodes') \in Nat
        /\ Top.node \in 1 .. Len(nodes')
    BY <1>1, <2>1, <2>3, <2>7, OneUpdated
  <2>9. fr \in Frame /\ fr.at = "TermLoop" /\ fr.left = Top.node
    BY <1>1, <2>2 DEF Frame
  <2> HIDE DEF fr
  <2>10. GoodFrames(<<fr>>, Len(nodes'))
    <3>1. FrameOK(fr, Len(nodes')) /\ fr.at \notin Resumptions BY <1>1, <2>8, <2>9 DEF FrameOK
    <3> QED BY <2>8, <3>1, OneFrame
  <2> QED BY <2>1, <2>8, <2>10, StepCalls
<1> QED BY <1>2, <1>3, <1>4

(* The steps of declarations and assignments.                              *)
LEMMA AssignNodes ==
  ASSUME IInv, NEW table, NEW z \in DOMAIN table,
         table \in [DOMAIN table -> AstIdentifier], CreateAssign(z, table)
  PROVE  /\ nodes' \in Seq(Node) /\ Len(nodes) <= Len(nodes') /\ Len(nodes') \in Nat
         /\ New \in 1 .. Len(nodes')
<1>1. "BINARY" \in NodeKind /\ "IDENTIFIER" \in NodeKind BY DEF NodeKind, ExpressionKind
<1>2. [NewNode("BINARY") EXCEPT !.op = "DECL", !.kids = <<New + 1, 0>>] \in Node
  <2>1. ZeroType \in AstType /\ "DECL" \in BinaryOp
    BY DEF ZeroType, AstType, ValueType, BinaryOp
  <2>2. New + 1 \in Nat /\ 0 \in Nat BY NewIsNat
  <2> QED BY <1>1, <2>1, <2>2, NewNodeType, BinaryNode
<1>3. [NewNode("IDENTIFIER") EXCEPT !.name = table[z].name, !.type = table[z].type] \in Node
  <2>1. table[z] \in AstIdentifier OBVIOUS
  <2>2. table[z].name \in Name \cup {NoName} /\ table[z].type \in AstType
    BY <2>1 DEF AstIdentifier
  <2>3. NewNode("IDENTIFIER") \in Node BY <1>1, NewNodeType
  <2> QED BY <2>2, <2>3 DEF Node
<1> QED BY <1>2, <1>3, TwoAdded DEF CreateAssign

LEMMA DeclKeeps == IInv /\ (Decl \/ DeclType \/ DeclEq \/ DeclRhs) => IInv'
<1> SUFFICES ASSUME IInv, Decl \/ DeclType \/ DeclEq \/ DeclRhs PROVE IInv'
  OBVIOUS
<1>1. /\ {"DeclType", "DeclEq"} \subseteq Labels \ (Building \cup HoldingLeft \cup Resumptions)
      /\ "DeclRhs" \in Building \ HoldingLeft /\ "DeclRhs" \in Resumptions
      /\ {"DeclType", "DeclEq"} \subseteq Declaring
  BY DEF Labels, Building, HoldingLeft, Resumptions, Declaring
<1>2. Len(nodes) \in Nat /\ GoodFrames(LogicCall, Len(nodes))
  BY TypesOfLengths, ExpressionCalls
<1>3. ASSUME NEW at \in {"DeclType", "DeclEq"} PROVE Fr(at) \in Frame /\ Fr(at).at = at
  <2>1. ZeroType \in AstType BY DEF ZeroType, AstType, ValueType
  <2> QED BY <1>1, <2>1 DEF Fr, Frame
<1>4. CASE Decl
  <2> DEFINE fr == [Fr("DeclType") EXCEPT !.name = Lexeme(At)]
  <2>1. Running("Decl") /\ UNCHANGED <<tokens, idents, status, nodes>> /\ ip' \in Nat /\ At < NTokens
    BY <1>4, Looking DEF Decl, Reads, Sees
  <2>2. ASSUME Identifier(At), Call(<<fr>>) PROVE IInv'
    <3>1. Lexeme(At) \in Name BY <2>1, <2>2, Looking
    <3>2. fr \in Frame /\ fr.at = "DeclType" /\ fr.name = Lexeme(At)
      BY <1>3, <3>1 DEF Frame
    <3> HIDE DEF fr
    <3>3. FrameOK(fr, Len(nodes)) /\ fr.at \notin Resumptions BY <1>1, <3>1, <3>2 DEF FrameOK
    <3>4. GoodFrames(<<fr>>, Len(nodes)) BY <1>2, <3>3, OneFrame
    <3> QED BY <2>1, <2>2, <3>4, NodesKept, StepCalls
  <2>3. CASE Call(LogicCall) BY <1>2, <2>1, <2>3, NodesKept, StepCalls
  <2> QED BY <1>4, <2>2, <2>3 DEF Decl
<1>5. CASE DeclType
  <2>1. Running("DeclType") /\ UNCHANGED <<tokens, idents, status, nodes>>
    BY <1>5 DEF DeclType, Reads, Sees
  <2>2. Top.name \in Name BY <1>1, <2>1, TopFrame DEF FrameOK
  <2>3. SkipLf(At + 1) \in Nat BY Looking
  <2>4. ASSUME NEW star \in BOOLEAN, Kind(At) \in TypeIds,
               ip' = SkipLf(At + 1) + (IF star THEN 1 ELSE 0),
               Call(<<[Fr("DeclEq") EXCEPT
                         !.name = Top.name,
                         !.type = [value |-> TypeOfId[Kind(At)], ptr |-> star]]>>)
        PROVE  IInv'
    <3> DEFINE ty == [value |-> TypeOfId[Kind(At)], ptr |-> star]
               fr == [Fr("DeclEq") EXCEPT !.name = Top.name, !.type = ty]
    <3>1. ty \in AstType
      <4>1. TypeOfId[Kind(At)] \in ValueType BY <2>4 DEF TypeIds, TypeOfId, ValueType
      <4> QED BY <4>1 DEF AstType
    <3>2. Call(<<fr>>) BY <2>4
    <3> HIDE DEF ty
    <3>3. fr \in Frame /\ fr.at = "DeclEq" /\ fr.name = Top.name
      BY <1>3, <2>2, <3>1 DEF Frame
    <3> HIDE DEF fr
    <3>4. FrameOK(fr, Len(nodes)) /\ fr.at \notin Resumptions BY <1>1, <2>2, <3>3 DEF FrameOK
    <3>5. GoodFrames(<<fr>>, Len(nodes)) BY <1>2, <3>4, OneFrame
    <3>6. ip' \in Nat BY <2>3, <2>4
    <3> QED BY <2>1, <3>2, <3>5, <3>6, NodesKept, StepCalls
  <2>5. ASSUME ip' = At, Call(LogicCall) PROVE IInv'
    BY <1>2, <2>1, <2>5, Looking, NodesKept, StepCalls
  <2>6. (Kind(SkipLf(At + 1)) = "T_STAR") \in BOOLEAN OBVIOUS
  <2> QED BY <1>5, <2>4, <2>5, <2>6 DEF DeclType
<1>6. CASE DeclEq
  <2> DEFINE entry == [name |-> Top.name, type |-> Top.type]
  <2>1. /\ Running("DeclEq") /\ UNCHANGED <<tokens, status>> /\ ip' \in Nat
        /\ idents' = Emplace(idents, Top.name, entry)
        /\ CreateAssign(Top.name, idents')
        /\ Call(LogicCall \o <<FrNode("DeclRhs", New)>>)
    BY <1>6, ExpectCursor DEF DeclEq, Sees
  <2>2. Top \in Frame /\ Top.name \in Name BY <1>1, <2>1, TopFrame DEF FrameOK
  <2>3. entry \in AstIdentifier BY <2>2 DEF Frame, AstIdentifier
  <2> HIDE DEF entry
  <2>4. /\ DOMAIN idents' \subseteq Name /\ idents' \in [DOMAIN idents' -> AstIdentifier]
        /\ Top.name \in DOMAIN idents'
    BY <2>1, <2>2, <2>3, EmplaceType DEF IInv, TypeOK
  <2>5. /\ nodes' \in Seq(Node) /\ Len(nodes) <= Len(nodes') /\ Len(nodes') \in Nat
        /\ New \in 1 .. Len(nodes')
    BY <2>1, <2>4, AssignNodes
  <2>6. FrameOK(FrNode("DeclRhs", New), Len(nodes')) BY <1>1, <2>5, NodeFrame
  <2>7. GoodFrames(LogicCall \o <<FrNode("DeclRhs", New)>>, Len(nodes'))
    BY <2>5, <2>6, ExpressionCalls, OneMoreFrame
  <2>8. DataOK' BY <2>1, <2>4, <2>5 DEF DataOK, IInv, TypeOK
  <2> QED BY <2>1, <2>5, <2>7, <2>8, CallKeeps DEF Running
<1>7. CASE DeclRhs BY <1>1, <1>7, AttachKeeps DEF DeclRhs
<1> QED BY <1>4, <1>5, <1>6, <1>7

LEMMA AssignmentKeeps == IInv /\ (Assignment \/ AssignRhs) => IInv'
<1> SUFFICES ASSUME IInv, Assignment \/ AssignRhs PROVE IInv'
  OBVIOUS
<1>1. "AssignRhs" \in Building \ HoldingLeft /\ "AssignRhs" \in Resumptions
  BY DEF Building, HoldingLeft, Resumptions
<1>2. CASE Assignment
  <2>1. Running("Assignment") /\ UNCHANGED <<tokens, idents, status>>
    BY <1>2 DEF Assignment, Reads, Sees
  <2>2. ASSUME Lexeme(At) \in DOMAIN idents, ip' = At + 2, CreateAssign(Lexeme(At), idents),
               Call(TermCall \o <<FrNode("AssignRhs", New)>>)
        PROVE  IInv'
    <3>1. /\ nodes' \in Seq(Node) /\ Len(nodes) <= Len(nodes') /\ Len(nodes') \in Nat
          /\ New \in 1 .. Len(nodes')
      BY <2>2, AssignNodes DEF IInv, TypeOK
    <3>2. FrameOK(FrNode("AssignRhs", New), Len(nodes')) BY <1>1, <3>1, NodeFrame
    <3>3. GoodFrames(TermCall \o <<FrNode("AssignRhs", New)>>, Len(nodes'))
      BY <3>1, <3>2, ExpressionCalls, OneMoreFrame
    <3> QED BY <2>1, <2>2, <3>1, <3>3, Looking, StepCalls
  <2>3. CASE HandOn(TermCall)
    BY <2>1, <2>3, TypesOfLengths, ExpressionCalls, HandOnKeeps
  <2> QED BY <1>2, <2>2, <2>3 DEF Assignment
<1>3. CASE AssignRhs
  <2>1. Running("AssignRhs") /\ UNCHANGED <<tokens, idents, status>> /\ ip' \in Nat
    BY <1>3 DEF AssignRhs, Resumes, IInv, TypeOK
  <2>2. Here \in Node /\ nodes[ret] \in Node /\ ret \in Nat
    BY <1>1, <2>1, TopFrame, BuildingNode DEF IInv, TypeOK
  <2>3. WithKid(Here, 2, ret) \in Node /\ nodes[ret].ev \in AstType
    BY <2>2, WithKidType DEF Node
  <2>4. [WithKid(Here, 2, ret) EXCEPT !.ev = nodes[ret].ev] \in Node BY <2>3 DEF Node
  <2>5. /\ nodes' \in Seq(Node) /\ Len(nodes) <= Len(nodes') /\ Top.node \in 1 .. Len(nodes')
    BY <1>1, <1>3, <2>1, <2>4, OneUpdated DEF AssignRhs
  <2> QED BY <1>3, <2>1, <2>5, StepReturns DEF AssignRhs
<1> QED BY <1>2, <1>3

(* The steps of unary(), deref(), ref() and literal().                     *)
LEMMA UnaryKeeps == IInv /\ (Unary \/ NegRhs \/ NotRhs) => IInv'
<1> SUFFICES ASSUME IInv, Unary \/ NegRhs \/ NotRhs PROVE IInv'
  OBVIOUS
<1>1. /\ {"BINARY", "LITERAL", "UNARY"} \subseteq NodeKind
      /\ {"NegRhs", "NotRhs"} \subseteq Building \cap Resumptions
      /\ "NegRhs" \in HoldingLeft /\ "NotRhs" \notin HoldingLeft
  BY DEF NodeKind, ExpressionKind, Resumptions, Building, HoldingLeft
<1>2. CASE Unary
  <2>1. Running("Unary") /\ UNCHANGED <<tokens, idents, status>>
    BY <1>2 DEF Unary, Reads, Sees
  <2>2. ASSUME ip' = At + 1, Add(<<NewNode("BINARY"), NewNode("LITERAL")>>),
               Call(<<Fr("Deref"), [FrNode("NegRhs", New) EXCEPT !.left = New + 1]>>)
        PROVE  IInv'
    <3>1. /\ nodes' \in Seq(Node) /\ Len(nodes) <= Len(nodes') /\ Len(nodes') \in Nat
          /\ New \in 1 .. Len(nodes') /\ New + 1 \in 1 .. Len(nodes')
      BY <1>1, <2>2, NewNodeType, TwoAdded, SMTT(30)
    <3>2. FrameOK([FrNode("NegRhs", New) EXCEPT !.left = New + 1], Len(nodes'))
      BY <3>1, LeftFrame
    <3>3. GoodFrames(<<Fr("Deref"), [FrNode("NegRhs", New) EXCEPT !.left = New + 1]>>, Len(nodes'))
      BY <3>1, <3>2, FreshCall, TwoFrames
    <3> QED BY <2>1, <2>2, <3>1, <3>3, Looking, StepCalls
  <2>3. ASSUME ip' = At + 1, Add(<<NewNode("UNARY")>>),
               Call(<<Fr("Deref"), FrNode("NotRhs", New)>>)
        PROVE  IInv'
    <3>1. GoodFrames(<<Fr("Deref"), FrNode("NotRhs", New)>>, New)
      BY <1>1, NewIsNat, NodeCall
    <3> QED BY <1>1, <2>1, <2>3, <3>1, NewNodeType, BuildKeeps
  <2>4. CASE HandOn(<<Fr("Deref")>>)
    <3>1. GoodFrames(<<Fr("Deref")>>, Len(nodes)) BY TypesOfLengths, FreshCall
    <3> QED BY <2>1, <2>4, <3>1, HandOnKeeps
  <2> QED BY <1>2, <2>2, <2>3, <2>4 DEF Unary
<1>3. CASE NegRhs
  <2> DEFINE ev == nodes[ret].ev
             minus == [Here EXCEPT !.kids = <<Top.left, ret>>, !.op = "SUB", !.ev = ev]
             step == [nodes EXCEPT ![Top.node] = minus]
             zero == [nodes[Top.left] EXCEPT
                        !.type = [value |-> ev.value, ptr |-> FALSE],
                        !.rep = IF ev.value = "FLOAT" THEN "float" ELSE "int"]
  <2>1. /\ Running("NegRhs") /\ UNCHANGED <<tokens, idents, status>> /\ ip' \in Nat
        /\ nodes' = [step EXCEPT ![Top.left] = zero] /\ Return(Top.node)
    BY <1>3 DEF NegRhs, Resumes, IInv, TypeOK
  <2>2. /\ Top.left \in 1 .. Len(nodes) /\ Top.node \in 1 .. Len(nodes)
        /\ Here \in Node /\ ret \in Nat /\ nodes[ret] \in Node
    BY <1>1, <2>1, TopFrame, BuildingNode, TypesOfLengths, SMTT(30) DEF FrameOK, IInv, TypeOK
  <2>3. ev \in AstType /\ Top.left \in Nat BY <2>2 DEF Node
  <2>4. minus \in Node
    <3>1. "SUB" \in BinaryOp BY DEF BinaryOp
    <3> QED BY <2>2, <2>3, <3>1, BinaryNode
  <2>5. step \in Seq(Node) /\ Len(step) = Len(nodes)
    <3> HIDE DEF minus
    <3> QED BY <2>2, <2>4, TypesOfLengths, ExceptSeq
  <2>6. nodes[Top.left] \in Node BY <2>2, TypesOfLengths
  <2>7. zero \in Node
    <3>1. [value |-> ev.value, ptr |-> FALSE] \in AstType BY <2>3 DEF AstType
    <3>2. (IF ev.value = "FLOAT" THEN "float" ELSE "int") \in Encoding BY DEF Encoding
    <3> HIDE DEF ev
    <3> QED BY <2>6, <3>1, <3>2 DEF Node
  <2> HIDE DEF zero, step
  <2>8. nodes' \in Seq(Node) /\ Len(nodes') = Len(nodes)
    BY <2>1, <2>2, <2>5, <2>7, ExceptSeq
  <2> QED BY <2>1, <2>2, <2>8, TypesOfLengths, StepReturns
<1>4. CASE NotRhs
  <2>1. Running("NotRhs") /\ UNCHANGED <<tokens, idents, status>> /\ ip' \in Nat
    BY <1>4 DEF NotRhs, Resumes, IInv, TypeOK
  <2>2. Here \in Node /\ nodes[ret] \in Node /\ ret \in Nat
    BY <1>1, <2>1, TopFrame, BuildingNode DEF IInv, TypeOK
  <2>3. <<ret>> \in Seq(Nat) /\ nodes[ret].ev \in AstType BY <2>2 DEF Node
  <2>4. [Here EXCEPT !.kids = <<ret>>, !.op = "NEGATE", !.ev = nodes[ret].ev] \in Node
    BY <2>2, <2>3 DEF Node, UnaryOp
  <2>5. /\ nodes' \in Seq(Node) /\ Len(nodes) <= Len(nodes') /\ Top.node \in 1 .. Len(nodes')
    BY <1>1, <1>4, <2>1, <2>4, OneUpdated DEF NotRhs
  <2> QED BY <1>4, <2>1, <2>5, StepReturns DEF NotRhs
<1> QED BY <1>2, <1>3, <1>4

LEMMA PointerKeeps == IInv /\ (Deref \/ DerefArg \/ Ref \/ RefArg) => IInv'
<1> SUFFICES ASSUME IInv, Deref \/ DerefArg \/ Ref \/ RefArg PROVE IInv'
  OBVIOUS
<1>1. {"DerefArg", "RefArg"} \subseteq (Building \cap Resumptions) \ HoldingLeft
  BY DEF Building, HoldingLeft, Resumptions
<1>2. ASSUME NEW label, Running(label), UNCHANGED <<tokens, idents, status>>,
             NEW op \in UnaryOp, NEW at \in {"DerefArg", "RefArg"},
             NEW callee \in {"Ref", "Literal"},
             ip' = At + 1, Add(<<[NewNode("UNARY") EXCEPT !.op = op]>>),
             Call(<<Fr(callee), FrNode(at, New)>>)
      PROVE  IInv'
  <2>1. NewNode("UNARY") \in Node BY NewNodeType DEF NodeKind, ExpressionKind
  <2>2. [NewNode("UNARY") EXCEPT !.op = op] \in Node BY <2>1 DEF Node
  <2>3. GoodFrames(<<Fr(callee), FrNode(at, New)>>, New) BY <1>1, NewIsNat, NodeCall
  <2> QED BY <1>2, <2>2, <2>3, BuildKeeps
<1>3. ASSUME NEW label, Running(label), UNCHANGED <<tokens, idents, status>>,
             NEW callee \in {"Ref", "Literal"}, HandOn(<<Fr(callee)>>)
      PROVE  IInv'
  <2>1. GoodFrames(<<Fr(callee)>>, Len(nodes)) BY TypesOfLengths, FreshCall
  <2> QED BY <1>3, <2>1, HandOnKeeps
<1>4. "DEREF" \in UnaryOp /\ "GET_PTR" \in UnaryOp BY DEF UnaryOp
<1>5. CASE Deref BY <1>2, <1>3, <1>4, <1>5 DEF Deref, Reads, Sees
<1>6. CASE Ref BY <1>2, <1>3, <1>4, <1>6 DEF Ref, Reads, Sees
<1>7. CASE DerefArg BY <1>1, <1>7, AttachKeeps DEF DerefArg
<1>8. CASE RefArg BY <1>1, <1>8, AttachKeeps DEF RefArg
<1> QED BY <1>5, <1>6, <1>7, <1>8

LEMMA LiteralKeeps == IInv /\ Literal => IInv'
<1> SUFFICES ASSUME IInv, Literal PROVE IInv'
  OBVIOUS
<1>1. /\ Running("Literal") /\ UNCHANGED <<tokens, status>> /\ ip' \in Nat /\ At < NTokens
  BY Looking DEF Literal, Sees
<1>2. NewNode("LITERAL") \in Node /\ NewNode("IDENTIFIER") \in Node
  BY NewNodeType DEF NodeKind, ExpressionKind
<1>3. ASSUME Kind(At) \in LiteralTokens, Add(<<LiteralNode(At)>>), UNCHANGED idents, Return(New)
      PROVE  IInv'
  <2> DEFINE ty == [value |-> TypeOfLiteral[Kind(At)], ptr |-> FALSE]
             rp == IF Kind(At) = "T_FLOAT" THEN "float" ELSE "int"
  <2>1. ty \in AstType
    <3>1. TypeOfLiteral[Kind(At)] \in ValueType
      BY <1>3 DEF LiteralTokens, TypeOfLiteral, ValueType
    <3> QED BY <3>1 DEF AstType
  <2>2. rp \in Encoding BY DEF Encoding
  <2>3. LiteralNode(At) = [NewNode("LITERAL") EXCEPT !.type = ty, !.ev = ty, !.rep = rp]
    BY Zenon DEF LiteralNode
  <2> HIDE DEF ty, rp
  <2>4. LiteralNode(At) \in Node BY <1>2, <2>1, <2>2, <2>3 DEF Node
  <2>5. /\ nodes' \in Seq(Node) /\ Len(nodes) <= Len(nodes') /\ New \in 1 .. Len(nodes')
    BY <1>3, <2>4, OneAdded
  <2> QED BY <1>1, <1>3, <2>5, StepReturns
<1>4. ASSUME Identifier(At), idents' = Accessed(idents, Lexeme(At)),
             Add(<<NewNode("LITERAL"), IdentifierNode(idents'[Lexeme(At)])>>), Return(New + 1)
      PROVE  IInv'
  <2>1. Lexeme(At) \in Name BY <1>1, <1>4, Looking
  <2>2. ZeroIdentifier \in AstIdentifier
    BY DEF ZeroIdentifier, AstIdentifier, ZeroType, AstType, ValueType
  <2>3. /\ DOMAIN idents' \subseteq Name /\ idents' \in [DOMAIN idents' -> AstIdentifier]
        /\ Lexeme(At) \in DOMAIN idents'
    BY <1>4, <2>1, <2>2, EmplaceType DEF Accessed, IInv, TypeOK
  <2>4. idents'[Lexeme(At)] \in AstIdentifier BY <2>3
  <2>5. IdentifierNode(idents'[Lexeme(At)]) \in Node
    BY <1>2, <2>4 DEF IdentifierNode, AstIdentifier, Node
  <2>6. /\ nodes' \in Seq(Node) /\ Len(nodes) <= Len(nodes') /\ New + 1 \in 1 .. Len(nodes')
    BY <1>2, <1>4, <2>5, TwoAdded
  <2>7. DataOK' BY <1>1, <2>3, <2>6 DEF DataOK, IInv, TypeOK
  <2> QED BY <1>1, <1>4, <2>6, <2>7, ReturnKeeps DEF Running
<1> QED BY <1>3, <1>4 DEF Literal

-----------------------------------------------------------------------------
(* Every step keeps the invariant.                                         *)

LEMMA StepKeeps == IInv /\ Step => IInv'
BY StatementKeeps, IfKeeps, BlockKeeps, DefNameKeeps, ParamsKeeps, InsistingKeeps,
   FuncKeeps, DeclKeeps, AssignmentKeeps, LogicKeeps, ComparisonKeeps, TermKeeps,
   FactorKeeps, UnaryKeeps, PointerKeeps, LiteralKeeps
   DEF Step

(* The last token is the only sentinel, and no line feed.                  *)
LEMMA SentinelAtEnd ==
  ASSUME tokens \in TokenList
  PROVE  /\ NTokens \in Nat /\ NTokens >= 1
         /\ \A i \in Nat : i < NTokens /\ Kind(i) \notin Sentinels => i + 1 < NTokens
         /\ \A i \in Nat : i < NTokens => SkipLf(i) < NTokens /\ i <= SkipLf(i)
<1>1. /\ tokens \in Seq(Token) /\ tokens # <<>>
      /\ \A i \in 1 .. Len(tokens) : tokens[i].type \in Sentinels <=> i = Len(tokens)
  BY DEF TokenList
<1>2. NTokens \in Nat /\ NTokens >= 1 /\ NTokens = Len(tokens)
  BY <1>1, LenProperties, EmptySeq DEF NTokens
<1>3. ASSUME NEW i \in Nat, i < NTokens, Kind(i) \notin Sentinels PROVE i + 1 < NTokens
  <2>1. i + 1 \in 1 .. Len(tokens) BY <1>2, <1>3
  <2>2. i + 1 # Len(tokens) BY <1>1, <1>3, <2>1 DEF Kind
  <2> QED BY <1>2, <1>3, <2>2
<1>4. ASSUME NEW i \in Nat, i < NTokens PROVE SkipLf(i) < NTokens /\ i <= SkipLf(i)
  <2> DEFINE after == {j \in i .. NTokens - 1 : Kind(j) # "T_LF"}
  <2>1. NTokens - 1 \in after
    <3>1. tokens[Len(tokens)].type \in Sentinels BY <1>1, <1>2
    <3>2. Kind(NTokens - 1) \in Sentinels BY <1>2, <3>1 DEF Kind
    <3>3. Kind(NTokens - 1) # "T_LF" BY <3>2 DEF Sentinels
    <3>4. NTokens - 1 \in i .. NTokens - 1 BY <1>2, <1>4
    <3> QED BY <3>3, <3>4
  <2>2. after \subseteq Nat BY <1>2
  <2>3. \E m \in after : \A k \in after : m <= k BY <2>1, <2>2, LeastElement, Zenon
  <2>4. SkipLf(i) \in after BY <2>1, <2>3, Zenon DEF SkipLf
  <2> QED BY <1>2, <2>4
<1> QED BY <1>2, <1>3, <1>4

(* The process ends in a state of its own, with the cursor somewhere: only *)
(* a failed assertion and a read past the end leave it at the end.         *)
LEMMA Stops ==
  ASSUME IInv, Failure \/ Accept
  PROVE  /\ status = "running"
         /\ \E how \in Statuses \ {"running"}, i \in Nat :
              /\ StopAt(how, i)
              /\ i = ip \/ i <= NTokens
              /\ \/ how \in {"aborted", "oob_trace"}
                 \/ how # "oob" /\ (i = ip \/ i < NTokens)
                 \/ RunOff
<1>1. /\ NTokens \in Nat /\ ip \in Nat /\ At \in Nat /\ At <= NTokens
      /\ \A i \in Nat : SkipLf(i) \in Nat /\ SkipLf(i) <= NTokens
  BY SentinelAtEnd, SkipLfProperties DEF IInv, TypeOK, At
<1>2. SkipLf(At) \in Nat /\ SkipLf(At + 1) \in Nat /\ SkipLf(ip) \in Nat
  BY <1>1
<1>3. CASE Accept \/ TwoPointers \/ Negative
  BY <1>1, <1>3 DEF Accept, TwoPointers, Negative, Running, Stop, Statuses
<1>4. CASE Undeclared
  <2>1. /\ At < NTokens /\ Identifier(At) /\ Kind(At + 1) = "T_EQUAL"
        /\ status = "running" /\ StopAt("undeclared", At + 2)
    BY <1>4 DEF Undeclared, IsAssignment, Sees, Running
  <2>2. At + 2 < NTokens
    <3>1. Kind(At) \notin Sentinels /\ Kind(At + 1) \notin Sentinels
      BY <2>1 DEF Identifier, Sentinels
    <3>2. At + 1 \in Nat /\ At + 1 < NTokens
      BY <1>1, <2>1, <3>1, SentinelAtEnd DEF IInv, TypeOK
    <3>3. (At + 1) + 1 < NTokens BY <3>1, <3>2, SentinelAtEnd DEF IInv, TypeOK
    <3> QED BY <1>1, <3>3
  <2> QED BY <1>1, <2>1, <2>2 DEF Statuses
<1>5. CASE NotAParameter
  BY <1>1, <1>5 DEF NotAParameter, Sees, Running, Statuses
<1>6. CASE OperandFails
  BY <1>1, <1>6 DEF OperandFails, AssertFails, Running, Statuses
<1>7. CASE LiteralFails
  BY <1>1, <1>7 DEF LiteralFails, Sees, Running, Statuses
<1>8. CASE ExpectFails
  <2>1. PICK second \in Nat : second = SkipLf(At + 1) BY <1>2
  <2>2. /\ status = "running" /\ second <= NTokens
        /\ \/ StopAt("oob_trace", second)
           \/ second < NTokens /\ StopAt("aborted", second + 1)
    BY <1>1, <1>8, <2>1 DEF ExpectFails
  <2> QED BY <1>1, <2>2 DEF Statuses
<1>9. CASE MatchFails
  BY <1>1, <1>9 DEF MatchFails, AssertFails, Sees, Running, Statuses
<1>10. CASE RunOff
  BY <1>1, <1>10 DEF RunOff, Statuses
<1> QED BY <1>3, <1>4, <1>5, <1>6, <1>7, <1>8, <1>9, <1>10 DEF Failure

LEMMA FailureKeeps == IInv /\ (Failure \/ Accept) => IInv'
BY Stops, StopKeeps

LEMMA InitKeeps == Init => IInv
<1> SUFFICES ASSUME Init PROVE IInv
  OBVIOUS
<1>1. FrameOK(Fr("Statement"), 0) /\ Fr("Statement").at \notin Resumptions BY FreshCall
<1>2. stack = <<Fr("Statement")>> /\ nodes = <<>> /\ Len(nodes) = 0
  BY DEF Init
<1>3. TypeOK
  <2>1. stack \in Seq(Frame) BY <1>1, <1>2 DEF FrameOK
  <2>2. nodes \in Seq(Node) BY <1>2
  <2> QED BY <2>1, <2>2, InputAssumption DEF Init, TypeOK, Statuses
<1>4. GoodStack(stack, 0)
  <2>1. stack \in Seq(Frame) /\ Len(stack) = 1 /\ stack[1] = Fr("Statement")
    BY <1>2, <1>3 DEF TypeOK
  <2> QED BY <1>1, <2>1 DEF GoodStack
<1>5. Top = Fr("Statement") BY <1>2 DEF Top
<1> QED BY <1>1, <1>2, <1>3, <1>4, <1>5, Unfolded DEF IInv

LEMMA NextKeeps == IInv /\ [Next]_vars => IInv'
<1>1. IInv /\ Next => IInv' BY StepKeeps, FailureKeeps DEF Next
<1>2. IInv /\ UNCHANGED vars => IInv' BY DEF IInv, TypeOK, StackOK, Top, vars
<1> QED BY <1>1, <1>2

LEMMA Invariance == Spec => []IInv
BY InitKeeps, NextKeeps, PTL DEF Spec

(* No step changes the tokens.                                             *)
LEMMA TokensKept == [Next]_vars => tokens' = tokens
<1>1. Step => tokens' = tokens
  BY DEF Step, Statement, IfOpen, IfCond, IfThen, IfElse, Block, BlockLoop, BlockPush,
         BlockClose, DefName, FuncOpen, AggOpen, Params, MemberSemi, AggClose, FuncClose,
         FuncColon, FuncType, FuncBody, ExprSemi, Decl, DeclType, DeclEq, DeclRhs,
         Assignment, AssignRhs, LogicRest, LogicRhs, CmpRest, CmpRhs, TermFirst,
         TermLoop, TermRhs, FactorRest, FactorRhs, Unary, NegRhs, NotRhs, Deref,
         DerefArg, Ref, RefArg, Literal, Reads, Resumes, Insists, Attach
<1>2. Failure \/ Accept => tokens' = tokens
  BY DEF Failure, Accept, NotAParameter, Undeclared, TwoPointers, Negative, OperandFails,
         LiteralFails, RunOff, ExpectFails, MatchFails, AssertFails, Stop,
         StopAt
<1> QED BY <1>1, <1>2 DEF Next, vars

(* Whatever list of tokens it reads, the parser's variables keep their     *)
(* types: every node, table entry and frame it makes is well formed.       *)
THEOREM TypeCorrect == Spec => []TypeOK
<1>1. IInv => TypeOK BY DEF IInv
<1> QED BY <1>1, Invariance, PTL

(* And no function of it works on a NULL or foreign node: each has the     *)
(* node it builds, the operand it holds and the node it was returned.      *)
THEOREM StackCorrect == Spec => []StackOK
<1>1. IInv => StackOK BY DEF IInv
<1> QED BY <1>1, Invariance, PTL

(* No step changes or removes an entry.                                    *)
LEMMA EntriesStand == Next => EntriesKept
<1>1. UNCHANGED idents => EntriesKept BY DEF EntriesKept
<1>2. DeclEq \/ Literal => EntriesKept
  BY EmplaceKeeps DEF DeclEq, Literal, Accessed, EntriesKept
<1>3. Step => UNCHANGED idents \/ DeclEq \/ Literal
  BY DEF Step, Statement, IfOpen, IfCond, IfThen, IfElse, Block, BlockLoop, BlockPush,
         BlockClose, DefName, FuncOpen, AggOpen, Params, MemberSemi, AggClose, FuncClose,
         FuncColon, FuncType, FuncBody, ExprSemi, Decl, DeclType, DeclRhs, Assignment,
         AssignRhs, LogicRest, LogicRhs, CmpRest, CmpRhs, TermFirst, TermLoop, TermRhs,
         FactorRest, FactorRhs, Unary, NegRhs, NotRhs, Deref, DerefArg, Ref, RefArg,
         Reads, Resumes, Insists, Attach
<1>4. Failure \/ Accept => UNCHANGED idents
  BY DEF Failure, Accept, NotAParameter, Undeclared, TwoPointers, Negative, OperandFails,
         LiteralFails, RunOff, ExpectFails, MatchFails, AssertFails, Stop,
         StopAt
<1> QED BY <1>1, <1>2, <1>3, <1>4 DEF Next

(* The entry a name first gets in the identifier table is never changed    *)
(* and never removed, by whatever declarations and uses follow.            *)
THEOREM FirstDeclarationStands == Spec => FirstDeclarationWins
<1>1. [Next]_vars => [EntriesKept]_vars BY EntriesStand
<1> QED BY <1>1, PTL DEF Spec, FirstDeclarationWins

-----------------------------------------------------------------------------
(* The cursor.                                                             *)

(* Under an `if`.                                                          *)
InIf(s) == \E i \in DOMAIN s : s[i].at \in {"IfCond", "IfThen"}

(* A function called or resumed below an `if` is still below it.           *)
LEMMA InIfKept ==
  ASSUME NEW s \in Seq(Frame), s # <<>>, InIf(s), Head(s).at \notin {"IfCond", "IfThen"},
         NEW fs \in Seq(Frame)
  PROVE  InIf(Tail(s)) /\ InIf(fs \o Tail(s))
<1>1. PICK i \in DOMAIN s : s[i].at \in {"IfCond", "IfThen"} BY DEF InIf
<1>2. DOMAIN s = 1 .. Len(s) /\ Len(s) \in Nat /\ Head(s) = s[1] BY LenProperties
<1>3. i # 1 BY <1>1, <1>2
<1>4. /\ Tail(s) \in Seq(Frame) /\ Len(Tail(s)) = Len(s) - 1
      /\ \A k \in 1 .. Len(Tail(s)) : Tail(s)[k] = s[k + 1]
  BY HeadTailProperties
<1>5. i - 1 \in 1 .. Len(Tail(s)) /\ Tail(s)[i - 1] = s[i] BY <1>1, <1>2, <1>3, <1>4
<1>6. DOMAIN Tail(s) = 1 .. Len(Tail(s)) BY <1>4, LenProperties
<1>7. Len(fs) \in Nat BY LenProperties
<1>8. /\ fs \o Tail(s) \in Seq(Frame)
      /\ Len(fs \o Tail(s)) = Len(fs) + Len(Tail(s))
      /\ \A k \in 1 .. Len(fs) + Len(Tail(s)) :
           (fs \o Tail(s))[k] = IF k <= Len(fs) THEN fs[k] ELSE Tail(s)[k - Len(fs)]
  BY <1>4, ConcatProperties
<1>9. DOMAIN (fs \o Tail(s)) = 1 .. Len(fs) + Len(Tail(s)) BY <1>8, LenProperties
<1>10. i - 1 + Len(fs) \in 1 .. Len(fs) + Len(Tail(s))
       /\ (fs \o Tail(s))[i - 1 + Len(fs)] = s[i]
  <2> DEFINE k == i - 1 + Len(fs)
  <2>1. k \in 1 .. Len(fs) + Len(Tail(s)) /\ ~(k <= Len(fs)) /\ k - Len(fs) = i - 1
    BY <1>2, <1>4, <1>5, <1>7
  <2> HIDE DEF k
  <2>2. (fs \o Tail(s))[k] = s[i] BY <1>5, <1>8, <2>1
  <2> QED BY <2>1, <2>2 DEF k
<1>11. InIf(Tail(s)) BY <1>1, <1>5, <1>6 DEF InIf
<1>12. InIf(fs \o Tail(s)) BY <1>1, <1>9, <1>10 DEF InIf
<1> QED BY <1>11, <1>12

(* A step that leaves the cursor on a token, ...                           *)
LEMMA OnToken ==
  ASSUME IInv, IInv', ip' < NTokens, UNCHANGED <<tokens, status>>, NEW label, Running(label)
  PROVE  SentinelKept'
<1>1. /\ ip' \in Nat /\ NTokens \in Nat /\ NTokens' = NTokens
      /\ status' \notin {"oob", "oob_trace"}
  BY SentinelAtEnd DEF IInv, TypeOK, Running, NTokens
<1> QED BY <1>1 DEF SentinelKept

(* ... one that uses a result without looking at a token, ...              *)
LEMMA WithoutToken ==
  ASSUME IInv, SentinelKept, NEW label, Resumes(label),
         label \notin {"IfCond", "IfThen"},
         \/ \E f \in Frame : Call(<<f>>)
         \/ \E node : Return(node)
  PROVE  SentinelKept'
<1>1. /\ stack \in Seq(Frame) /\ stack # <<>> /\ status = "running"
      /\ Head(stack).at \notin {"IfCond", "IfThen"} /\ ip \in Nat
  BY DEF IInv, TypeOK, Resumes, Running, Top
<1>2. NTokens \in Nat BY SentinelAtEnd DEF IInv, TypeOK
<1>3. CASE ip < NTokens BY <1>1, <1>2, <1>3 DEF SentinelKept, Resumes, NTokens
<1>4. CASE ip >= NTokens
  <2>1. InIf(stack) BY <1>1, <1>4 DEF SentinelKept, InIf
  <2>2. <<>> \in Seq(Frame) OBVIOUS
  <2>3. InIf(Tail(stack)) BY <1>1, <2>1, <2>2, InIfKept
  <2>4. InIf(stack')
    <3>1. CASE \E node : Return(node) BY <2>3, <3>1 DEF Return
    <3>2. ASSUME NEW f \in Frame, Call(<<f>>) PROVE InIf(stack')
      <4>1. <<f>> \in Seq(Frame) OBVIOUS
      <4> QED BY <1>1, <2>1, <3>2, <4>1, InIfKept DEF Call
    <3> QED BY <3>1, <3>2
  <2> QED BY <2>4 DEF SentinelKept, InIf
<1> QED BY <1>1, <1>2, <1>3, <1>4

(* ... and one that goes on below an `if`.                                 *)
LEMMA BelowIf ==
  ASSUME IInv, NEW f \in Frame, NEW g \in Frame, g.at \in {"IfCond", "IfThen"},
         stack # <<>>, Call(<<f, g>>)
  PROVE  SentinelKept'
<1>1. Tail(stack) \in Seq(Frame) BY HeadTailProperties DEF IInv, TypeOK
<1>2. <<f, g>> \in Seq(Frame) /\ Len(<<f, g>>) = 2 /\ <<f, g>>[2] = g OBVIOUS
<1> DEFINE fs == <<f, g>>
<1>3. fs \in Seq(Frame) /\ Len(fs) = 2 /\ fs[2] = g BY <1>2
<1> HIDE DEF fs
<1>4. /\ fs \o Tail(stack) \in Seq(Frame)
      /\ Len(fs \o Tail(stack)) = Len(fs) + Len(Tail(stack))
      /\ \A k \in 1 .. Len(fs) + Len(Tail(stack)) :
           (fs \o Tail(stack))[k] = IF k <= Len(fs) THEN fs[k] ELSE Tail(stack)[k - Len(fs)]
  BY <1>1, <1>3, ConcatProperties
<1>5. Len(Tail(stack)) \in Nat /\ DOMAIN (fs \o Tail(stack)) = 1 .. Len(fs \o Tail(stack))
  BY <1>1, <1>4, LenProperties
<1>6. 2 \in DOMAIN (fs \o Tail(stack)) /\ (fs \o Tail(stack))[2] = g
  BY <1>3, <1>4, <1>5
<1>7. stack' = fs \o Tail(stack) BY DEF Call, fs
<1> QED BY <1>6, <1>7 DEF SentinelKept

(* Where the reading steps leave the cursor.                               *)
LEMMA Read ==
  ASSUME IInv, NEW label, Sees(label)
  PROVE  /\ At \in Nat /\ At < NTokens
         /\ Kind(At) \notin Sentinels => At + 1 < NTokens
         /\ Kind(At) \notin Sentinels /\ Kind(At + 1) \notin Sentinels => At + 2 < NTokens
         /\ Kind(At) \notin Sentinels /\ Kind(At + 1) \notin Sentinels
            /\ Kind(At + 2) \notin Sentinels => At + 3 < NTokens
<1>1. At \in Nat /\ At + 1 \in Nat /\ At + 2 \in Nat /\ At < NTokens
  BY Looking DEF Sees
<1>2. tokens \in TokenList BY DEF IInv, TypeOK
<1> QED BY <1>1, <1>2, SentinelAtEnd

LEMMA Skipped ==
  ASSUME IInv, NEW i \in Nat, i < NTokens
  PROVE  SkipLf(i) \in Nat /\ SkipLf(i) < NTokens
BY SentinelAtEnd, SkipLfProperties DEF IInv, TypeOK

(* No kind of token the parser asks for is a sentinel.                     *)
LEMMA NoSentinel ==
  /\ TypeIds \cap Sentinels = {} /\ LiteralTokens \cap Sentinels = {}
  /\ ComparisonTokens \cap Sentinels = {} /\ DefinitionTokens \cap Sentinels = {}
  /\ \A label \in DOMAIN ExpectedAt : ExpectedAt[label] \notin Sentinels
BY DEF TypeIds, LiteralTokens, ComparisonTokens, DefinitionTokens, Sentinels, ExpectedAt

LEMMA ExpectRead ==
  ASSUME IInv, NEW label \in DOMAIN ExpectedAt, Sees(label), Expect
  PROVE  ip' < NTokens
<1>1. Wanted \notin Sentinels BY NoSentinel DEF Wanted, Sees, Running
<1>2. CASE Direct /\ ip' = At + 1 BY <1>1, <1>2, Read DEF Direct
<1>3. CASE Retry /\ ip' = SkipLf(At + 1) + 1
  <2>1. SkipLf(At + 1) \in Nat /\ SkipLf(At + 1) < NTokens /\ Kind(SkipLf(At + 1)) \notin Sentinels
    BY <1>1, <1>3, Looking DEF Retry
  <2> QED BY <1>3, <2>1, SentinelAtEnd DEF IInv, TypeOK
<1> QED BY <1>2, <1>3 DEF Expect

-----------------------------------------------------------------------------
(* Every step.                                                             *)

(* The steps that read a token leave the cursor on one, unless they are    *)
(* in the header of an `if`.                                               *)
LEMMA StatementCursor ==
  IInv /\ (Statement \/ IfThen \/ Block \/ BlockLoop \/ BlockClose \/ DefName \/ FuncOpen
           \/ AggOpen \/ MemberSemi \/ AggClose \/ FuncClose \/ FuncColon \/ FuncType \/ ExprSemi)
    => /\ ip' < NTokens /\ UNCHANGED <<tokens, status>>
       /\ \E label \in Labels : Running(label)
<1> SUFFICES ASSUME IInv,
               Statement \/ IfThen \/ Block \/ BlockLoop \/ BlockClose \/ DefName \/ FuncOpen
               \/ AggOpen \/ MemberSemi \/ AggClose \/ FuncClose \/ FuncColon \/ FuncType \/ ExprSemi
             PROVE  /\ ip' < NTokens /\ UNCHANGED <<tokens, status>>
                    /\ \E label \in Labels : Running(label)
  OBVIOUS
<1>1. ASSUME NEW label \in DOMAIN ExpectedAt, Reads(label), Expect
      PROVE  ip' < NTokens /\ UNCHANGED <<tokens, status>> /\ \E l \in Labels : Running(l)
  <2>1. label \in Labels BY DEF ExpectedAt, Labels, Building, Declaring, Resumptions
  <2>2. Sees(label) BY <1>1 DEF Reads
  <2>3. ip' < NTokens BY <1>1, <2>2, ExpectRead
  <2> QED BY <1>1, <2>1, <2>2, <2>3 DEF Reads, Sees
<1>2. ASSUME NEW label \in Labels, Reads(label),
             ip' = At \/ (ip' = At + 1 /\ Kind(At) \notin Sentinels)
      PROVE  ip' < NTokens /\ UNCHANGED <<tokens, status>> /\ \E l \in Labels : Running(l)
  BY <1>2, Read DEF Reads, Sees
<1>3. {"Statement", "IfThen", "BlockLoop", "DefName", "FuncType"} \subseteq Labels
  BY DEF Labels, Building
<1>4. /\ {"FuncOpen", "AggOpen", "MemberSemi", "AggClose", "FuncClose", "FuncColon",
          "ExprSemi", "Block", "BlockClose"} \subseteq DOMAIN ExpectedAt
  BY DEF ExpectedAt
<1>5. CASE FuncOpen \/ AggOpen \/ MemberSemi \/ AggClose \/ FuncClose \/ FuncColon \/ ExprSemi
           \/ Block \/ BlockClose
  BY <1>1, <1>4, <1>5 DEF FuncOpen, AggOpen, MemberSemi, AggClose, FuncClose, FuncColon,
                          ExprSemi, Block, BlockClose, Insists
<1>6. CASE Statement
  BY <1>2, <1>3, <1>6, NoSentinel DEF Statement, HandOn, Sentinels
<1>7. CASE IfThen BY <1>2, <1>3, <1>7 DEF IfThen, Sentinels
<1>8. CASE BlockLoop BY <1>2, <1>3, <1>8 DEF BlockLoop
<1>9. CASE DefName BY <1>2, <1>3, <1>9 DEF DefName, Identifier, Sentinels
<1>10. CASE FuncType BY <1>2, <1>3, <1>10, NoSentinel DEF FuncType
<1> QED BY <1>5, <1>6, <1>7, <1>8, <1>9, <1>10

LEMMA ParamsCursor == IInv /\ Params => ip' < NTokens /\ UNCHANGED <<tokens, status>>
<1> SUFFICES ASSUME IInv, Params PROVE ip' < NTokens /\ UNCHANGED <<tokens, status>>
  OBVIOUS
<1>1. Sees("Params") /\ UNCHANGED <<tokens, status>> BY DEF Params, Reads
<1>2. At \in Nat /\ At < NTokens /\ tokens \in TokenList BY <1>1, Read DEF IInv, TypeOK
<1>3. ASSUME Identifier(At), IsParameter
      PROVE  AfterParameter < NTokens /\ SkipComma(AfterParameter) < NTokens
  <2>1. Kind(At) \notin Sentinels /\ Kind(At + 1) \notin Sentinels /\ Kind(At + 2) \notin Sentinels
    BY <1>3, NoSentinel DEF Identifier, IsParameter, Sentinels
  <2>2. At + 3 < NTokens /\ At + 3 \in Nat BY <1>1, <1>2, <2>1, Read
  <2>3. SkipLf(At + 3) \in Nat /\ SkipLf(At + 3) < NTokens BY <2>2, Skipped
  <2>4. AfterParameter < NTokens /\ AfterParameter \in Nat
    <3>1. CASE ParameterStar
      <4>1. Kind(SkipLf(At + 3)) \notin Sentinels BY <3>1 DEF ParameterStar, Sentinels
      <4>2. SkipLf(At + 3) + 1 < NTokens BY <1>2, <2>3, <4>1, SentinelAtEnd
      <4> QED BY <2>3, <3>1, <4>2 DEF AfterParameter
    <3>2. CASE ~ParameterStar BY <2>3, <3>2 DEF AfterParameter
    <3> QED BY <3>1, <3>2
  <2>5. SkipLf(AfterParameter) \in Nat /\ SkipLf(AfterParameter) < NTokens BY <2>4, Skipped
  <2>6. SkipComma(AfterParameter) < NTokens
    <3>1. CASE Kind(SkipLf(AfterParameter)) = "T_COMMA"
      <4>1. Kind(SkipLf(AfterParameter)) \notin Sentinels BY <3>1 DEF Sentinels
      <4>2. SkipLf(AfterParameter) + 1 < NTokens BY <1>2, <2>5, <4>1, SentinelAtEnd
      <4> QED BY <3>1, <4>2 DEF SkipComma
    <3>2. CASE Kind(SkipLf(AfterParameter)) # "T_COMMA" BY <2>5, <3>2 DEF SkipComma
    <3> QED BY <3>1, <3>2
  <2> QED BY <2>4, <2>6
<1>4. Identifier(At) => At + 1 < NTokens BY <1>1, Read DEF Identifier, Sentinels
<1> QED BY <1>1, <1>2, <1>3, <1>4 DEF Params

LEMMA ExpressionCursor ==
  IInv /\ (Decl \/ DeclType \/ DeclEq \/ Assignment \/ LogicRest \/ CmpRest \/ TermFirst
           \/ TermLoop \/ FactorRest \/ Unary \/ Deref \/ Ref \/ Literal)
    => /\ ip' < NTokens /\ UNCHANGED <<tokens, status>>
       /\ \E label \in Labels : Running(label)
<1> SUFFICES ASSUME IInv,
               Decl \/ DeclType \/ DeclEq \/ Assignment \/ LogicRest \/ CmpRest \/ TermFirst
               \/ TermLoop \/ FactorRest \/ Unary \/ Deref \/ Ref \/ Literal
             PROVE  /\ ip' < NTokens /\ UNCHANGED <<tokens, status>>
                    /\ \E label \in Labels : Running(label)
  OBVIOUS
<1>1. {"Decl", "DeclType", "DeclEq", "Assignment", "LogicRest", "CmpRest", "TermFirst",
       "TermLoop", "FactorRest", "Unary", "Deref", "Ref", "Literal"} \subseteq Labels
  BY DEF Labels, Declaring, Resumptions, HoldingLeft
<1>2. ASSUME NEW label \in Labels, Sees(label), UNCHANGED <<tokens, status>>,
             \/ ip' = At
             \/ ip' = At + 1 /\ Kind(At) \notin Sentinels
             \/ ip' = At + 2 /\ Kind(At) \notin Sentinels /\ Kind(At + 1) \notin Sentinels
      PROVE  ip' < NTokens /\ UNCHANGED <<tokens, status>> /\ \E l \in Labels : Running(l)
  BY <1>2, Read DEF Sees
<1>3. CASE Decl BY <1>1, <1>2, <1>3 DEF Decl, Reads, Identifier, Sentinels
<1>4. CASE DeclType
  <2>1. Sees("DeclType") /\ UNCHANGED <<tokens, status>> BY <1>4 DEF DeclType, Reads
  <2>2. At \in Nat /\ At < NTokens /\ tokens \in TokenList BY <2>1, Read DEF IInv, TypeOK
  <2>3. ASSUME Kind(At) \in TypeIds,
               ip' = SkipLf(At + 1) + (IF Kind(SkipLf(At + 1)) = "T_STAR" THEN 1 ELSE 0)
        PROVE  ip' < NTokens
    <3>1. At + 1 < NTokens /\ At + 1 \in Nat BY <2>1, <2>2, <2>3, Read, NoSentinel
    <3>2. SkipLf(At + 1) \in Nat /\ SkipLf(At + 1) < NTokens BY <3>1, Skipped
    <3>3. CASE Kind(SkipLf(At + 1)) = "T_STAR"
      <4>1. Kind(SkipLf(At + 1)) \notin Sentinels BY <3>3 DEF Sentinels
      <4>2. SkipLf(At + 1) + 1 < NTokens BY <2>2, <3>2, <4>1, SentinelAtEnd
      <4> QED BY <2>3, <3>3, <4>2
    <3>4. CASE Kind(SkipLf(At + 1)) # "T_STAR" BY <2>3, <3>2, <3>4
    <3> QED BY <3>3, <3>4
  <2>4. ip' < NTokens BY <1>4, <2>2, <2>3 DEF DeclType
  <2> QED BY <1>1, <2>1, <2>4 DEF Sees
<1>5. CASE DeclEq
  <2>1. Sees("DeclEq") /\ UNCHANGED <<tokens, status>> /\ Expect BY <1>5 DEF DeclEq
  <2>2. "DeclEq" \in DOMAIN ExpectedAt BY DEF ExpectedAt
  <2> QED BY <1>1, <2>1, <2>2, ExpectRead DEF Sees
<1>6. CASE Assignment
  BY <1>1, <1>2, <1>6 DEF Assignment, Reads, IsAssignment, Identifier, HandOn, Sentinels
<1>7. CASE LogicRest BY <1>1, <1>2, <1>7 DEF LogicRest, Reads, HandBack, Sentinels
<1>8. CASE CmpRest BY <1>1, <1>2, <1>8, NoSentinel DEF CmpRest, Reads, HandBack
<1>9. CASE TermFirst
  <2>1. Sees("TermFirst") /\ UNCHANGED <<tokens, status, ip>> BY <1>9 DEF TermFirst, Reads
  <2>2. ip \in Nat /\ NTokens \in Nat BY SentinelAtEnd DEF IInv, TypeOK
  <2>3. ip < NTokens
    <3>1. SkipLf(ip) < NTokens => ip <= SkipLf(ip) /\ SkipLf(ip) \in Nat
      BY <2>2, SkipLfProperties DEF IInv, TypeOK
    <3> QED BY <2>1, <2>2, <3>1 DEF Sees, At
  <2> QED BY <1>1, <2>1, <2>3 DEF Sees
<1>10. CASE TermLoop BY <1>1, <1>2, <1>10 DEF TermLoop, Reads, HandBack, Sentinels
<1>11. CASE FactorRest BY <1>1, <1>2, <1>11 DEF FactorRest, Reads, HandBack, Sentinels
<1>12. CASE Unary BY <1>1, <1>2, <1>12 DEF Unary, Reads, HandOn, Sentinels
<1>13. CASE Deref BY <1>1, <1>2, <1>13 DEF Deref, Reads, HandOn, Sentinels
<1>14. CASE Ref BY <1>1, <1>2, <1>14 DEF Ref, Reads, HandOn, Sentinels
<1>15. CASE Literal BY <1>1, <1>2, <1>15, NoSentinel DEF Literal, Identifier, Sentinels
<1> QED BY <1>3, <1>4, <1>5, <1>6, <1>7, <1>8, <1>9, <1>10, <1>11, <1>12, <1>13, <1>14, <1>15

(* The steps that use a result.                                            *)
LEMMA ResumingCursor ==
  IInv /\ SentinelKept /\ (IfElse \/ BlockPush \/ FuncBody \/ DeclRhs \/ AssignRhs \/ LogicRhs
       \/ CmpRhs \/ TermRhs \/ FactorRhs \/ NegRhs \/ NotRhs \/ DerefArg \/ RefArg)
    => SentinelKept'
<1> SUFFICES ASSUME IInv, SentinelKept,
               IfElse \/ BlockPush \/ FuncBody \/ DeclRhs \/ AssignRhs \/ LogicRhs \/ CmpRhs
               \/ TermRhs \/ FactorRhs \/ NegRhs \/ NotRhs \/ DerefArg \/ RefArg
             PROVE  SentinelKept'
  OBVIOUS
<1>1. ASSUME NEW label, label \notin {"IfCond", "IfThen"}, Resumes(label),
             NEW node, Return(node)
      PROVE  SentinelKept'
  BY <1>1, WithoutToken
<1>2. CASE IfElse \/ FuncBody \/ DeclRhs \/ CmpRhs \/ DerefArg \/ RefArg
  BY <1>1, <1>2 DEF IfElse, FuncBody, DeclRhs, CmpRhs, DerefArg, RefArg, Attach
<1>3. CASE AssignRhs \/ LogicRhs \/ FactorRhs \/ NegRhs \/ NotRhs
  BY <1>1, <1>3 DEF AssignRhs, LogicRhs, FactorRhs, NegRhs, NotRhs
<1>4. CASE BlockPush
  <2>1. Running("BlockPush") BY <1>4 DEF BlockPush, Resumes
  <2>2. "BlockPush" \in Building /\ "BlockLoop" \in Building \ HoldingLeft
    BY DEF Building, HoldingLeft
  <2>3. Top.node \in 1 .. Len(nodes) /\ Len(nodes) \in Nat BY <2>1, <2>2, BuildingNode, TypesOfLengths
  <2>4. FrNode("BlockLoop", Top.node) \in Frame BY <2>2, <2>3, NodeFrame DEF FrameOK
  <2> QED BY <1>4, <2>4, WithoutToken DEF BlockPush, Goto
<1>5. CASE TermRhs
  <2> DEFINE fr == [Top EXCEPT !.at = "TermLoop", !.node = 0, !.left = Top.node]
  <2>1. Running("TermRhs") /\ Resumes("TermRhs") /\ Call(<<fr>>) BY <1>5 DEF TermRhs, Resumes
  <2>2. Top \in Frame BY <2>1, TopFrame
  <2>3. "TermLoop" \in Labels BY DEF Labels, HoldingLeft
  <2>4. fr \in Frame BY <2>2, <2>3 DEF Frame
  <2> HIDE DEF fr
  <2> QED BY <2>1, <2>4, WithoutToken
<1> QED BY <1>2, <1>3, <1>4, <1>5

LEMMA CursorKeeps == IInv /\ SentinelKept /\ [Next]_vars => SentinelKept'
<1> SUFFICES ASSUME IInv, SentinelKept, [Next]_vars PROVE SentinelKept'
  OBVIOUS
<1>1. IInv' BY NextKeeps
<1>2. CASE Statement \/ IfThen \/ Block \/ BlockLoop \/ BlockClose \/ DefName \/ FuncOpen
           \/ AggOpen \/ MemberSemi \/ AggClose \/ FuncClose \/ FuncColon \/ FuncType \/ ExprSemi
  BY <1>1, <1>2, StatementCursor, OnToken
<1>3. CASE Params
  <2>1. Running("Params") BY <1>3 DEF Params, Reads, Sees
  <2> QED BY <1>1, <1>3, <2>1, ParamsCursor, OnToken
<1>4. CASE Decl \/ DeclType \/ DeclEq \/ Assignment \/ LogicRest \/ CmpRest \/ TermFirst
           \/ TermLoop \/ FactorRest \/ Unary \/ Deref \/ Ref \/ Literal
  BY <1>1, <1>4, ExpressionCursor, OnToken
<1>5. CASE IfElse \/ BlockPush \/ FuncBody \/ DeclRhs \/ AssignRhs \/ LogicRhs \/ CmpRhs
           \/ TermRhs \/ FactorRhs \/ NegRhs \/ NotRhs \/ DerefArg \/ RefArg
  BY <1>5, ResumingCursor
<1>6. CASE IfOpen \/ IfCond
  <2>1. PICK label \in {"IfOpen", "IfCond"} : Running(label)
    BY <1>6 DEF IfOpen, IfCond, Reads, Sees
  <2>2. label \in Building /\ {"IfCond", "IfThen"} \subseteq Building \ HoldingLeft
    BY DEF Building, HoldingLeft
  <2>3. Top.node \in 1 .. Len(nodes) /\ Len(nodes) \in Nat
    BY <2>1, <2>2, BuildingNode, TypesOfLengths
  <2>4. ASSUME NEW at \in {"IfCond", "IfThen"}
        PROVE  FrNode(at, Top.node) \in Frame /\ FrNode(at, Top.node).at = at
    BY <2>2, <2>3, NodeFrame DEF FrameOK, FrNode, Fr
  <2>5. Fr("Decl") \in Frame /\ Fr("Block") \in Frame BY <2>3, FreshCall DEF FrameOK
  <2>6. \/ Call(<<Fr("Decl"), FrNode("IfCond", Top.node)>>)
        \/ Call(<<Fr("Block"), FrNode("IfThen", Top.node)>>)
    BY <1>6 DEF IfOpen, IfCond
  <2>7. stack # <<>> BY <2>1 DEF Running
  <2> QED BY <2>4, <2>5, <2>6, <2>7, BelowIf
<1>7. CASE RunOff
  <2>1. /\ At = NTokens /\ ip \in Nat /\ tokens \in TokenList /\ status = "running"
        /\ UNCHANGED <<tokens, stack>>
    BY <1>7 DEF RunOff, StopAt, IInv, TypeOK
  <2>2. ip >= NTokens BY <2>1, SentinelAtEnd DEF At
  <2> QED BY <2>1, <2>2 DEF SentinelKept
<1>8. CASE (Failure \/ Accept) /\ ~RunOff
  <2>1. PICK how \in Statuses \ {"running"}, i \in Nat :
          /\ StopAt(how, i)
          /\ \/ how \in {"aborted", "oob_trace"}
             \/ how # "oob" /\ (i = ip \/ i < NTokens)
    BY <1>8, Stops
  <2>2. NTokens' = NTokens /\ NTokens \in Nat /\ ip' = i /\ status' = how /\ stack' = stack
    BY <2>1, SentinelAtEnd DEF StopAt, IInv, TypeOK, NTokens
  <2>3. status = "running" BY <1>8, Stops
  <2> QED BY <2>1, <2>2, <2>3 DEF SentinelKept
<1>10. CASE UNCHANGED vars BY <1>10 DEF vars, SentinelKept, NTokens
<1> QED BY <1>2, <1>3, <1>4, <1>5, <1>6, <1>7, <1>8, <1>10 DEF Next, Step

LEMMA InitCursor == Init => SentinelKept
BY SentinelAtEnd, InputAssumption DEF Init, SentinelKept

(* For every list of tokens: while the parser runs, and in all it accepts, *)
(* no token behind the end of the list is read and the cursor never passes *)
(* the end, but in the header of an `if` (parser.cc:204, 206): all other   *)
(* tokens taken were compared with one the list does not end with.  An     *)
(* assertion that fails may go past it, on the way out (parser.cc:163-170).*)
THEOREM CursorKept == Spec => []SentinelKept
BY InitKeeps, InitCursor, NextKeeps, CursorKeeps, PTL DEF Spec


-----------------------------------------------------------------------------
(* The steps left.                                                         *)

Fewer == StepsLeft' \in Nat /\ StepsLeft' < StepsLeft

LEMMA Weights ==
  /\ \A at : Weight(at) \in 0 .. 21
  /\ \A at \in Resumptions : Weight(at) = 21
  /\ Weight("TermLoop") = 20 /\ Weight("BlockLoop") = 20 /\ Weight("Statement") = 17
  /\ Weight("Decl") = 14 /\ Weight("DeclType") = 14 /\ Weight("Assignment") = 9
  /\ Weight("Unary") = 4 /\ Weight("Deref") = 3 /\ Weight("Ref") = 2
  /\ Weight("Literal") = 1 /\ Weight("Params") = 1
  /\ Weight("Block") = 0 /\ Weight("BlockClose") = 0
  /\ Weight("FuncClose") = 0 /\ Weight("AggClose") = 0
<1>1. /\ DOMAIN Rank = {"TermLoop", "BlockLoop", "Statement", "Decl", "DeclType", "Assignment",
                        "Unary", "Deref", "Ref", "Literal", "Params"}
      /\ Rank["TermLoop"] = 20 /\ Rank["BlockLoop"] = 20 /\ Rank["Statement"] = 17
      /\ Rank["Decl"] = 14 /\ Rank["DeclType"] = 14 /\ Rank["Assignment"] = 9
      /\ Rank["Unary"] = 4 /\ Rank["Deref"] = 3 /\ Rank["Ref"] = 2
      /\ Rank["Literal"] = 1 /\ Rank["Params"] = 1
  BY DEF Rank
<1>2. \A at \in DOMAIN Rank : Rank[at] \in 0 .. 21 /\ at \notin Resumptions
  BY <1>1 DEF Resumptions
<1>3. \A at \in {"Block", "BlockClose", "FuncClose", "AggClose"} :
        at \notin Resumptions /\ at \notin DOMAIN Rank
  BY <1>1 DEF Resumptions
<1> QED BY <1>1, <1>2, <1>3 DEF Weight

(* A step is paid for by a token taken, by falling to a lesser point of    *)
(* the grammar, or by a return.                                            *)
LEMMA Lowers ==
  ASSUME IInv, IInv', ip <= NTokens, ip' <= NTokens, UNCHANGED <<tokens, status>>,
         status = "running", stack # <<>>, ip <= ip',
         NEW d \in Int, Len(stack') = Len(stack) + d,
         \/ ip < ip' /\ d <= 3
         \/ stack' # <<>> /\ Weight(Head(stack').at) + 2 * d < Weight(Top.at)
         \/ d = -1 /\ Weight(Top.at) >= 20
  PROVE  Fewer
<1>1. /\ ip \in Nat /\ ip' \in Nat /\ NTokens \in Nat /\ NTokens' = NTokens
      /\ Len(stack) \in Nat /\ Len(stack') \in Nat
  BY SentinelAtEnd, LenProperties DEF IInv, TypeOK, NTokens
<1>2. /\ Weight(Top.at) \in 0 .. 21 /\ Weight(Head(stack').at) \in 0 .. 21
  BY Weights
<1> DEFINE w  == Weight(Top.at)
           w1 == IF stack' = <<>> THEN 0 ELSE Weight(Head(stack').at)
<1>3. w \in 0 .. 21 /\ w1 \in 0 .. 21 BY <1>2
<1>4. StepsLeft = 1 + 28 * (NTokens - ip) + 2 * Len(stack) + w BY DEF StepsLeft
<1>5. StepsLeft' = 1 + 28 * (NTokens - ip') + 2 * Len(stack') + w1
  BY <1>1 DEF StepsLeft, Top
<1>6. \/ ip < ip' /\ d <= 3
      \/ w1 + 2 * d < w
      \/ d = -1 /\ w >= 20
  OBVIOUS
<1> HIDE DEF w, w1
<1>7. ASSUME NEW n \in Nat, NEW i \in Nat, NEW j \in Nat, i <= j, j <= n,
             NEW k \in Nat, NEW m \in Nat, m = k + d, NEW a \in 0 .. 21, NEW b \in 0 .. 21,
             \/ i < j /\ d <= 3
             \/ b + 2 * d < a
             \/ d = -1 /\ a >= 20
      PROVE  /\ 1 + 28 * (n - j) + 2 * m + b \in Nat
             /\ 1 + 28 * (n - j) + 2 * m + b < 1 + 28 * (n - i) + 2 * k + a
  BY <1>7
<1>8. /\ 1 + 28 * (NTokens - ip') + 2 * Len(stack') + w1 \in Nat
      /\ 1 + 28 * (NTokens - ip') + 2 * Len(stack') + w1
           < 1 + 28 * (NTokens - ip) + 2 * Len(stack) + w
  BY <1>1, <1>3, <1>6, <1>7
<1> QED BY <1>4, <1>5, <1>8, Zenon DEF Fewer


(* How much a call lengthens the stack.                                    *)
LEMMA CallLength ==
  ASSUME IInv, stack # <<>>, NEW S, NEW fs \in Seq(S), fs # <<>>, Call(fs)
  PROVE  /\ Len(fs) \in Nat /\ Len(fs) - 1 \in Int
         /\ Len(stack') = Len(stack) + (Len(fs) - 1)
         /\ stack' # <<>> /\ Head(stack') = fs[1]
<1> DEFINE U == S \cup Frame
<1>1. fs \in Seq(U) /\ stack \in Seq(U) BY DEF IInv, TypeOK
<1>2. stack' = fs \o Tail(stack) BY DEF Call
<1> HIDE DEF U
<1>3. /\ Tail(stack) \in Seq(U) /\ Len(Tail(stack)) = Len(stack) - 1 /\ Len(stack) \in Nat
  BY <1>1, HeadTailProperties, LenProperties
<1>4. /\ fs \o Tail(stack) \in Seq(U)
      /\ Len(fs \o Tail(stack)) = Len(fs) + Len(Tail(stack))
      /\ \A i \in 1 .. Len(fs) + Len(Tail(stack)) :
           (fs \o Tail(stack))[i] = IF i <= Len(fs) THEN fs[i] ELSE Tail(stack)[i - Len(fs)]
  BY <1>1, <1>3, ConcatProperties
<1>5. Len(fs) \in Nat /\ Len(fs) >= 1 BY EmptySeq, LenProperties
<1>6. Len(stack') = Len(stack) + (Len(fs) - 1) BY <1>2, <1>3, <1>4, <1>5
<1>7. stack' # <<>> /\ Head(stack') = fs[1] BY <1>2, <1>3, <1>4, <1>5, EmptySeq
<1> QED BY <1>5, <1>6, <1>7

LEMMA CallsOne ==
  ASSUME IInv, stack # <<>>, NEW f, Call(<<f>>)
  PROVE  Len(stack') = Len(stack) + 0 /\ stack' # <<>> /\ Head(stack') = f
<1>1. <<f>> \in Seq({f}) /\ <<f>> # <<>> /\ Len(<<f>>) = 1 /\ <<f>>[1] = f OBVIOUS
<1> DEFINE fs == <<f>>
<1>2. fs \in Seq({f}) /\ fs # <<>> /\ Len(fs) = 1 /\ fs[1] = f /\ Call(fs) BY <1>1
<1> HIDE DEF fs
<1>3. /\ Len(stack') = Len(stack) + (Len(fs) - 1)
      /\ stack' # <<>> /\ Head(stack') = fs[1]
  BY <1>2, CallLength, Zenon
<1> QED BY <1>2, <1>3

LEMMA CallTwo ==
  ASSUME IInv, stack # <<>>, NEW f, NEW g, Call(<<f, g>>)
  PROVE  Len(stack') = Len(stack) + 1 /\ stack' # <<>> /\ Head(stack') = f
<1>1. <<f, g>> \in Seq({f, g}) /\ <<f, g>> # <<>> /\ Len(<<f, g>>) = 2 /\ <<f, g>>[1] = f
  OBVIOUS
<1> DEFINE fs == <<f, g>>
<1>2. fs \in Seq({f, g}) /\ fs # <<>> /\ Len(fs) = 2 /\ fs[1] = f /\ Call(fs) BY <1>1
<1> HIDE DEF fs
<1>3. /\ Len(stack') = Len(stack) + (Len(fs) - 1)
      /\ stack' # <<>> /\ Head(stack') = fs[1]
  BY <1>2, CallLength, Zenon
<1> QED BY <1>2, <1>3

LEMMA LadderLengths ==
  /\ \A fs \in {FactorCall, TermCall, CmpCall, LogicCall} : fs \in Seq(Frame) /\ fs # <<>>
  /\ Len(FactorCall) = 2 /\ Len(TermCall) = 3 /\ Len(CmpCall) = 2 /\ Len(LogicCall) = 3
  /\ \A fs \in {FactorCall, TermCall, CmpCall, LogicCall} : Len(fs) <= 3
  /\ TermCall[1] = Fr("Unary") /\ LogicCall[1] = Fr("Assignment")
<1>1. \A fs \in {FactorCall, TermCall, CmpCall, LogicCall} : fs \in Seq(Frame) /\ fs # <<>>
  BY ExpressionCalls DEF GoodFrames
<1>2. Len(FactorCall) = 2 /\ FactorCall[1] = Fr("Unary") BY DEF FactorCall
<1>3. Len(CmpCall) = 2 /\ CmpCall[1] = Fr("Assignment") BY DEF CmpCall
<1>4. \A f : <<f>> \in Seq({f}) /\ Len(<<f>>) = 1 OBVIOUS
<1>5. ASSUME NEW fs \in Seq(Frame), fs # <<>>, NEW f
      PROVE  Len(fs \o <<f>>) = Len(fs) + 1 /\ (fs \o <<f>>)[1] = fs[1]
  <2> DEFINE U == Frame \cup {f}
  <2>1. fs \in Seq(U) /\ <<f>> \in Seq(U) /\ Len(<<f>>) = 1 OBVIOUS
  <2>2. Len(fs) \in Nat /\ Len(fs) >= 1 BY <1>5, EmptySeq, LenProperties
  <2> HIDE DEF U
  <2>3. /\ Len(fs \o <<f>>) = Len(fs) + 1
        /\ \A i \in 1 .. Len(fs) + 1 : (fs \o <<f>>)[i] = IF i <= Len(fs) THEN fs[i] ELSE <<f>>[i - Len(fs)]
    BY <2>1, ConcatProperties
  <2> QED BY <2>2, <2>3
<1>6. Len(TermCall) = 3 /\ TermCall[1] = Fr("Unary")
  <2>1. Len(FactorCall \o <<Fr("TermFirst")>>) = Len(FactorCall) + 1
        /\ (FactorCall \o <<Fr("TermFirst")>>)[1] = FactorCall[1]
    BY <1>1, <1>5
  <2>2. Len(TermCall) = Len(FactorCall) + 1 /\ TermCall[1] = FactorCall[1] BY <2>1, Zenon DEF TermCall
  <2> QED BY <1>2, <2>2
<1>7. Len(LogicCall) = 3 /\ LogicCall[1] = Fr("Assignment")
  <2>1. Len(CmpCall \o <<Fr("LogicRest")>>) = Len(CmpCall) + 1
        /\ (CmpCall \o <<Fr("LogicRest")>>)[1] = CmpCall[1]
    BY <1>1, <1>5
  <2>2. Len(LogicCall) = Len(CmpCall) + 1 /\ LogicCall[1] = CmpCall[1] BY <2>1, Zenon DEF LogicCall
  <2> QED BY <1>3, <2>2
<1>8. \A fs \in {FactorCall, TermCall, CmpCall, LogicCall} : Len(fs) = 2 \/ Len(fs) = 3
  BY <1>2, <1>3, <1>6, <1>7, Zenon
<1>9. \A fs \in {FactorCall, TermCall, CmpCall, LogicCall} : Len(fs) <= 3 BY <1>8
<1> QED BY <1>1, <1>2, <1>3, <1>6, <1>7, <1>9, Zenon

LEMMA CallLadder ==
  ASSUME IInv, stack # <<>>, NEW f, NEW fs \in {FactorCall, TermCall, CmpCall, LogicCall},
         Call(fs \o <<f>>)
  PROVE  \E d \in Int : Len(stack') = Len(stack) + d /\ d <= 3
<1>1. fs \in Seq(Frame) /\ fs # <<>> /\ Len(fs) <= 3 BY LadderLengths, Zenon
<1> DEFINE U  == Frame \cup {f}
           gs == fs \o <<f>>
<1>2. fs \in Seq(U) /\ <<f>> \in Seq(U) /\ Len(<<f>>) = 1 BY <1>1
<1> HIDE DEF U
<1>3. gs \in Seq(U) /\ Len(gs) = Len(fs) + 1 BY <1>2, ConcatProperties
<1>4. Len(fs) \in Nat BY <1>2, LenProperties
<1>5. gs # <<>> BY <1>3, <1>4, EmptySeq
<1>6. Call(gs) OBVIOUS
<1> HIDE DEF gs
<1>7. Len(stack') = Len(stack) + (Len(gs) - 1) BY <1>3, <1>5, <1>6, CallLength, Zenon
<1> QED BY <1>1, <1>3, <1>4, <1>7

LEMMA ReturnLength ==
  ASSUME IInv, stack # <<>>, NEW node, Return(node)
  PROVE  Len(stack') = Len(stack) + (-1)
BY HeadTailProperties, LenProperties DEF IInv, TypeOK, Return


(* A step of the running function within the token list.                   *)
InList(label) == /\ IInv /\ IInv' /\ ip <= NTokens /\ ip' <= NTokens
                 /\ Running(label) /\ UNCHANGED <<tokens, status>>

Moves == \/ stack' = stack
         \/ \E node : Return(node)
         \/ \E f : Call(<<f>>)
         \/ \E f, g : Call(<<f, g>>)
         \/ \E f : \E fs \in {FactorCall, TermCall, CmpCall, LogicCall} : Call(fs \o <<f>>)

LEMMA TakesToken ==
  ASSUME NEW label, InList(label), ip < ip', Moves
  PROVE  Fewer
<1>1. /\ IInv /\ IInv' /\ ip <= NTokens /\ ip' <= NTokens /\ UNCHANGED <<tokens, status>>
      /\ status = "running" /\ stack # <<>>
  BY DEF InList, Running
<1>2. ip \in Nat /\ ip' \in Nat BY <1>1 DEF IInv, TypeOK
<1>3. ip <= ip' BY <1>2
<1>4. ASSUME NEW d \in Int, Len(stack') = Len(stack) + d, d <= 3 PROVE Fewer
  BY <1>1, <1>3, <1>4, Lowers, Zenon
<1>5. CASE stack' = stack
  <2>1. Len(stack) \in Nat BY <1>1, LenProperties DEF IInv, TypeOK
  <2>2. Len(stack') = Len(stack) + 0 BY <1>5, <2>1
  <2> QED BY <1>4, <2>2
<1>6. CASE \E node : Return(node)
  <2>1. Len(stack') = Len(stack) + (-1) BY <1>1, <1>6, ReturnLength, Zenon
  <2> QED BY <1>4, <2>1
<1>7. CASE \E f : Call(<<f>>)
  <2>1. Len(stack') = Len(stack) + 0 BY <1>1, <1>7, CallsOne, Zenon
  <2> QED BY <1>4, <2>1
<1>8. CASE \E f, g : Call(<<f, g>>)
  <2>1. Len(stack') = Len(stack) + 1 BY <1>1, <1>8, CallTwo, Zenon
  <2> QED BY <1>4, <2>1
<1>9. CASE \E f : \E fs \in {FactorCall, TermCall, CmpCall, LogicCall} : Call(fs \o <<f>>)
  <2>1. \E d \in Int : Len(stack') = Len(stack) + d /\ d <= 3
    BY <1>1, <1>9, CallLadder, Zenon
  <2> QED BY <1>4, <2>1
<1> QED BY <1>5, <1>6, <1>7, <1>8, <1>9 DEF Moves

LEMMA Falls ==
  ASSUME NEW label, InList(label), ip <= ip',
         \/ \E f : Call(<<f>>) /\ Weight(f.at) < Weight(label)
         \/ \E f, g : Call(<<f, g>>) /\ Weight(f.at) + 2 < Weight(label)
         \/ Call(TermCall) /\ Weight("Unary") + 4 < Weight(label)
         \/ Call(LogicCall) /\ Weight("Assignment") + 4 < Weight(label)
         \/ \E node : Return(node) /\ Weight(label) >= 20
  PROVE  Fewer
<1>1. /\ IInv /\ IInv' /\ ip <= NTokens /\ ip' <= NTokens /\ UNCHANGED <<tokens, status>>
      /\ status = "running" /\ stack # <<>> /\ Top.at = label
  BY DEF InList, Running
<1>2. ASSUME NEW d \in Int, Len(stack') = Len(stack) + d,
             \/ stack' # <<>> /\ Weight(Head(stack').at) + 2 * d < Weight(Top.at)
             \/ d = -1 /\ Weight(Top.at) >= 20
      PROVE  Fewer
  BY <1>1, <1>2, Lowers, Zenon
<1>3. \A at : Weight(at) \in Nat BY Weights
<1>4. ASSUME NEW f, Call(<<f>>), Weight(f.at) < Weight(label) PROVE Fewer
  <2>1. Len(stack') = Len(stack) + 0 /\ stack' # <<>> /\ Head(stack') = f
    BY <1>1, <1>4, CallsOne, Zenon
  <2>2. Weight(Head(stack').at) + 2 * 0 < Weight(Top.at) BY <1>1, <1>3, <1>4, <2>1
  <2>3. 0 \in Int OBVIOUS
  <2> QED BY <1>2, <2>1, <2>2, <2>3, Zenon
<1>5. ASSUME NEW f, NEW g, Call(<<f, g>>), Weight(f.at) + 2 < Weight(label) PROVE Fewer
  <2>1. Len(stack') = Len(stack) + 1 /\ stack' # <<>> /\ Head(stack') = f
    BY <1>1, <1>5, CallTwo, Zenon
  <2>2. Weight(Head(stack').at) + 2 * 1 < Weight(Top.at) BY <1>1, <1>3, <1>5, <2>1
  <2> QED BY <1>2, <2>1, <2>2
<1>6. ASSUME NEW fs \in Seq(Frame), fs # <<>>, Len(fs) = 3, NEW at, fs[1] = Fr(at), Call(fs),
             Weight(at) + 4 < Weight(label)
      PROVE  Fewer
  <2>1. Len(stack') = Len(stack) + (Len(fs) - 1) /\ stack' # <<>> /\ Head(stack') = fs[1]
    BY <1>1, <1>6, CallLength, Zenon
  <2>2. Len(stack') = Len(stack) + 2 BY <1>6, <2>1
  <2>3. Head(stack').at = at BY <1>6, <2>1 DEF Fr
  <2>4. Weight(Head(stack').at) + 2 * 2 < Weight(Top.at) BY <1>1, <1>3, <1>6, <2>3
  <2> QED BY <1>2, <2>1, <2>2, <2>4
<1>7. ASSUME NEW node, Return(node), Weight(label) >= 20 PROVE Fewer
  <2>1. Len(stack') = Len(stack) + (-1) BY <1>1, <1>7, ReturnLength, Zenon
  <2> QED BY <1>1, <1>2, <1>7, <2>1
<1>8. CASE Call(TermCall) /\ Weight("Unary") + 4 < Weight(label)
  BY <1>6, <1>8, LadderLengths, Zenon
<1>9. CASE Call(LogicCall) /\ Weight("Assignment") + 4 < Weight(label)
  BY <1>6, <1>9, LadderLengths, Zenon
<1> QED BY <1>4, <1>5, <1>7, <1>8, <1>9, Zenon

-----------------------------------------------------------------------------
(* Where a step leaves the cursor.                                         *)
LEMMA Forward ==
  ASSUME IInv, NEW label, Sees(label)
  PROVE  /\ ip \in Nat /\ At \in Nat /\ NTokens \in Nat /\ ip <= At /\ At < NTokens
         /\ \A i \in Nat : /\ SkipLf(i) \in Nat
                           /\ i <= NTokens => i <= SkipLf(i)
                           /\ i > NTokens => SkipLf(i) = NTokens
<1>1. tokens \in TokenList /\ ip \in Nat /\ NTokens \in Nat /\ At < NTokens
  BY SentinelAtEnd DEF IInv, TypeOK, Sees
<1>2. ASSUME NEW i \in Nat
      PROVE  /\ SkipLf(i) \in Nat /\ SkipLf(i) <= NTokens
             /\ SkipLf(i) < NTokens => i <= SkipLf(i)
  BY <1>1, SkipLfProperties
<1>3. ASSUME NEW i \in Nat
      PROVE  /\ SkipLf(i) \in Nat
             /\ i <= NTokens => i <= SkipLf(i)
             /\ i > NTokens => SkipLf(i) = NTokens
  BY <1>1, <1>2
<1>4. At \in Nat /\ ip <= At BY <1>1, <1>2 DEF At
<1> QED BY <1>1, <1>3, <1>4

LEMMA ExpectTakes ==
  ASSUME IInv, NEW label, Sees(label), Expect
  PROVE  ip < ip'
<1>1. At + 1 \in Nat /\ SkipLf(At + 1) \in Nat /\ At + 1 <= SkipLf(At + 1) BY Forward
<1> QED BY <1>1, Forward DEF Expect

LEMMA ParamsTakes ==
  ASSUME IInv, Params, Identifier(At)
  PROVE  ip < ip'
<1>1. Sees("Params") BY DEF Params, Reads
<1>2. At + 3 \in Nat /\ SkipLf(At + 3) \in Nat /\ At < SkipLf(At + 3) BY <1>1, Forward
<1>3. AfterParameter \in Nat /\ At < AfterParameter BY <1>1, <1>2, Forward DEF AfterParameter
<1>4. SkipLf(AfterParameter) \in Nat /\ At < SkipLf(AfterParameter)
  BY <1>1, <1>3, Forward
<1>5. At < SkipComma(AfterParameter) BY <1>1, <1>4, Forward DEF SkipComma
<1> QED BY <1>1, <1>3, <1>4, <1>5, Forward DEF Params, SkipComma


-----------------------------------------------------------------------------
(* Every step.                                                             *)
Bounded == /\ IInv /\ IInv' /\ ip <= NTokens /\ ip' <= NTokens

(* The running function reads the next token, and takes it.                *)
LEMMA ReadingTakes ==
  ASSUME Bounded, NEW label, Sees(label), UNCHANGED <<tokens, status>>, Moves,
         Expect \/ ip' = At + 1 \/ ip' = At + 2
  PROVE  Fewer
<1>1. IInv BY DEF Bounded
<1>2. ip < ip' BY <1>1, ExpectTakes, Forward
<1>3. InList(label) BY DEF Bounded, InList, Sees
<1> QED BY <1>2, <1>3, TakesToken

(* It leaves the token where it is.                                        *)
LEMMA ReadingFalls ==
  ASSUME Bounded, NEW label, Sees(label), UNCHANGED <<tokens, status>>, ip' = At \/ ip' = ip,
         \/ \E f : Call(<<f>>) /\ Weight(f.at) < Weight(label)
         \/ \E f, g : Call(<<f, g>>) /\ Weight(f.at) + 2 < Weight(label)
         \/ Call(TermCall) /\ Weight("Unary") + 4 < Weight(label)
         \/ Call(LogicCall) /\ Weight("Assignment") + 4 < Weight(label)
         \/ \E node : Return(node) /\ Weight(label) >= 20
  PROVE  Fewer
<1>1. IInv BY DEF Bounded
<1>2. ip <= ip' BY <1>1, Forward
<1>3. InList(label) BY DEF Bounded, InList, Sees
<1> QED BY <1>2, <1>3, Falls, Zenon

LEMMA ResumingFalls ==
  ASSUME Bounded, NEW label, Resumes(label),
         \/ \E f : Call(<<f>>) /\ Weight(f.at) < Weight(label)
         \/ \E node : Return(node) /\ Weight(label) >= 20
  PROVE  Fewer
<1>1. ip \in Nat /\ ip' = ip BY DEF Bounded, IInv, TypeOK, Resumes
<1>2. ip <= ip' BY <1>1
<1>3. InList(label) BY DEF Bounded, InList, Resumes
<1> QED BY <1>2, <1>3, Falls, Zenon

LEMMA StatementsSpend ==
  ASSUME Bounded,
         \/ IfOpen \/ IfCond \/ Block \/ BlockClose \/ DefName \/ FuncOpen \/ AggOpen
         \/ MemberSemi \/ AggClose \/ FuncClose \/ FuncColon \/ FuncType \/ ExprSemi
  PROVE  Fewer
<1>1. ASSUME NEW label, Insists(label), Moves PROVE Fewer
  BY <1>1, ReadingTakes DEF Insists, Reads
<1>2. CASE FuncOpen \/ AggOpen \/ MemberSemi \/ FuncClose \/ FuncColon
  BY <1>1, <1>2 DEF FuncOpen, AggOpen, MemberSemi, FuncClose, FuncColon, Goto, Moves
<1>3. CASE BlockClose \/ AggClose \/ ExprSemi
  BY <1>1, <1>3 DEF BlockClose, AggClose, ExprSemi, Moves
<1>4. CASE IfOpen \/ IfCond \/ FuncType
  BY <1>4, ReadingTakes DEF IfOpen, IfCond, FuncType, Reads, Moves
<1>5. CASE Block \/ DefName BY <1>5, ReadingTakes DEF Block, DefName, Reads, Moves
<1> QED BY <1>2, <1>3, <1>4, <1>5

LEMMA FrPoint == \A at : Fr(at).at = at /\ \A node : FrNode(at, node).at = at
BY DEF Fr, FrNode

LEMMA BranchesSpend ==
  ASSUME Bounded, Statement \/ IfThen \/ BlockLoop \/ Params
  PROVE  Fewer
<1>1. CASE Statement
  <2>1. Sees("Statement") /\ UNCHANGED <<tokens, status>> BY <1>1 DEF Statement, Reads
  <2>2. ASSUME NEW f, Call(<<f>>), ip' = At + 1 PROVE Fewer
    BY <2>1, <2>2, ReadingTakes DEF Moves
  <2>3. ASSUME ip' = At, Call(<<Fr("Block")>>) PROVE Fewer
    <3>1. Weight(Fr("Block").at) < Weight("Statement") BY Weights, FrPoint
    <3> QED BY <2>1, <2>3, <3>1, ReadingFalls
  <2>4. ASSUME ip' = At, Call(<<Fr("Decl"), Fr("ExprSemi")>>) PROVE Fewer
    <3>1. Weight(Fr("Decl").at) + 2 < Weight("Statement") BY Weights, FrPoint
    <3> QED BY <2>1, <2>4, <3>1, ReadingFalls
  <2> QED BY <1>1, <2>2, <2>3, <2>4 DEF Statement, HandOn
<1>2. CASE IfThen
  <2>1. Sees("IfThen") /\ UNCHANGED <<tokens, status>> BY <1>2 DEF IfThen, Reads
  <2>2. ASSUME ip' = At + 1, NEW f, NEW g, Call(<<f, g>>) PROVE Fewer
    BY <2>1, <2>2, ReadingTakes DEF Moves
  <2>3. ASSUME ip' = At, NEW node, Return(node) PROVE Fewer
    <3>1. Weight("IfThen") >= 20 BY Weights DEF Resumptions
    <3> QED BY <2>1, <2>3, <3>1, ReadingFalls
  <2> QED BY <1>2, <2>2, <2>3 DEF IfThen
<1>3. CASE BlockLoop
  <2>1. Sees("BlockLoop") /\ UNCHANGED <<tokens, status>> /\ ip' = At
    BY <1>3 DEF BlockLoop, Reads
  <2>2. ASSUME Goto("BlockClose") PROVE Fewer
    <3>1. Weight(FrNode("BlockClose", Top.node).at) < Weight("BlockLoop") BY Weights, FrPoint
    <3> QED BY <2>1, <2>2, <3>1, ReadingFalls DEF Goto
  <2>3. ASSUME Call(<<Fr("Statement"), FrNode("BlockPush", Top.node)>>) PROVE Fewer
    <3>1. Weight(Fr("Statement").at) + 2 < Weight("BlockLoop") BY Weights, FrPoint
    <3> QED BY <2>1, <2>3, <3>1, ReadingFalls
  <2> QED BY <1>3, <2>2, <2>3 DEF BlockLoop
<1>4. CASE Params
  <2>1. Sees("Params") /\ UNCHANGED <<tokens, status>> BY <1>4 DEF Params, Reads
  <2>2. CASE Identifier(At)
    <3>1. ip < ip' BY <1>4, <2>2, ParamsTakes DEF Bounded
    <3>2. Moves BY <1>4, <2>2 DEF Params, Moves, Goto
    <3>3. InList("Params") BY <2>1 DEF Bounded, InList, Sees
    <3> QED BY <3>1, <3>2, <3>3, TakesToken
  <2>3. CASE ~Identifier(At)
    <3>1. /\ ip' = At
          /\ Call(<<FrNode(IF Here.kind = "FUNC" THEN "FuncClose" ELSE "AggClose", Top.node)>>)
      BY <1>4, <2>3 DEF Params
    <3>2. ASSUME NEW at \in {"FuncClose", "AggClose"}, Call(<<FrNode(at, Top.node)>>)
          PROVE  Fewer
      <4>1. Weight(FrNode(at, Top.node).at) < Weight("Params") BY Weights, FrPoint
      <4> QED BY <2>1, <3>1, <3>2, <4>1, ReadingFalls
    <3> QED BY <3>1, <3>2
  <2> QED BY <2>2, <2>3
<1> QED BY <1>1, <1>2, <1>3, <1>4


LEMMA LadderMoves ==
  ASSUME NEW f
  PROVE  /\ Call(LogicCall \o <<f>>) => Moves
         /\ Call(TermCall \o <<f>>) => Moves
         /\ Call(CmpCall \o <<f>>) => Moves
         /\ Call(FactorCall \o <<f>>) => Moves
BY Zenon DEF Moves

LEMMA DeclarationsSpend ==
  ASSUME Bounded, Decl \/ DeclType \/ DeclEq \/ Assignment
  PROVE  Fewer
<1>1. CASE Decl
  <2>1. Sees("Decl") /\ UNCHANGED <<tokens, status>> BY <1>1 DEF Decl, Reads
  <2>2. ASSUME ip' = At + 2, NEW f, Call(<<f>>) PROVE Fewer
    BY <2>1, <2>2, ReadingTakes DEF Moves
  <2>3. ASSUME ip' = At, Call(LogicCall) PROVE Fewer
    <3>1. Weight("Assignment") + 4 < Weight("Decl") BY Weights
    <3> QED BY <2>1, <2>3, <3>1, ReadingFalls
  <2> QED BY <1>1, <2>2, <2>3 DEF Decl
<1>2. CASE DeclType
  <2>1. Sees("DeclType") /\ UNCHANGED <<tokens, status>> BY <1>2 DEF DeclType, Reads
  <2>2. CASE Kind(At) \in TypeIds
    <3>1. At + 1 \in Nat /\ At + 1 <= NTokens /\ ip < At + 1 /\ ip \in Nat
      BY <2>1, Forward DEF Bounded
    <3>2. SkipLf(At + 1) \in Nat /\ At + 1 <= SkipLf(At + 1) BY <2>1, <3>1, Forward DEF Bounded
    <3>3. /\ \/ ip' = SkipLf(At + 1) + 1
             \/ ip' = SkipLf(At + 1) + 0
          /\ \E f : Call(<<f>>)
      BY <1>2, <2>2 DEF DeclType
    <3>4. ip < ip' BY <3>1, <3>2, <3>3
    <3>5. InList("DeclType") /\ Moves BY <2>1, <3>3 DEF Bounded, InList, Sees, Moves
    <3> QED BY <3>4, <3>5, TakesToken
  <2>3. CASE Kind(At) \notin TypeIds
    <3>1. Weight("Assignment") + 4 < Weight("DeclType") BY Weights
    <3> QED BY <1>2, <2>1, <2>3, <3>1, ReadingFalls DEF DeclType
  <2> QED BY <2>2, <2>3
<1>3. CASE DeclEq
  <2>1. /\ Sees("DeclEq") /\ UNCHANGED <<tokens, status>> /\ Expect
        /\ Call(LogicCall \o <<FrNode("DeclRhs", New)>>)
    BY <1>3 DEF DeclEq
  <2>2. Moves BY <2>1, LadderMoves
  <2> QED BY <2>1, <2>2, ReadingTakes
<1>4. CASE Assignment
  <2>1. Sees("Assignment") /\ UNCHANGED <<tokens, status>> BY <1>4 DEF Assignment, Reads
  <2>2. ASSUME ip' = At + 2, NEW f, Call(TermCall \o <<f>>) PROVE Fewer
    <3>1. Moves BY <2>2, LadderMoves
    <3> QED BY <2>1, <2>2, <3>1, ReadingTakes
  <2>3. ASSUME ip' = At, Call(TermCall) PROVE Fewer
    <3>1. Weight("Unary") + 4 < Weight("Assignment") BY Weights
    <3> QED BY <2>1, <2>3, <3>1, ReadingFalls
  <2> QED BY <1>4, <2>2, <2>3 DEF Assignment, HandOn
<1> QED BY <1>1, <1>2, <1>3, <1>4

(* The points where a binary operator may follow.                          *)
LEMMA OperatorsSpend ==
  ASSUME Bounded, LogicRest \/ CmpRest \/ TermFirst \/ TermLoop \/ FactorRest
  PROVE  Fewer
<1>1. ASSUME NEW label, Sees(label), UNCHANGED <<tokens, status>>, Weight(label) >= 20,
             NEW node, HandBack(node)
      PROVE  Fewer
  BY <1>1, ReadingFalls DEF HandBack
<1>2. ASSUME NEW label, Sees(label), UNCHANGED <<tokens, status>>, ip' = At + 1, Moves
      PROVE  Fewer
  BY <1>2, ReadingTakes
<1>3. /\ Weight("LogicRest") >= 20 /\ Weight("CmpRest") >= 20 /\ Weight("FactorRest") >= 20
      /\ Weight("TermLoop") >= 20 /\ Weight("TermLoop") < Weight("TermFirst")
  BY Weights DEF Resumptions
<1>4. CASE LogicRest
  <2>1. Sees("LogicRest") /\ UNCHANGED <<tokens, status>> BY <1>4 DEF LogicRest, Reads
  <2>2. ASSUME ip' = At + 1, NEW f, Call(LogicCall \o <<f>>) PROVE Fewer
    BY <1>2, <2>1, <2>2, LadderMoves
  <2> QED BY <1>1, <1>3, <1>4, <2>1, <2>2 DEF LogicRest
<1>5. CASE CmpRest
  <2>1. Sees("CmpRest") /\ UNCHANGED <<tokens, status>> BY <1>5 DEF CmpRest, Reads
  <2>2. ASSUME ip' = At + 1, NEW f, Call(CmpCall \o <<f>>) PROVE Fewer
    BY <1>2, <2>1, <2>2, LadderMoves
  <2> QED BY <1>1, <1>3, <1>5, <2>1, <2>2 DEF CmpRest
<1>6. CASE TermFirst
  <2> DEFINE fr == [Fr("TermLoop") EXCEPT !.left = ret, !.op = ChainOp]
  <2>1. Sees("TermFirst") /\ UNCHANGED <<tokens, status>> /\ ip' = ip /\ Call(<<fr>>)
    BY <1>6 DEF TermFirst, Reads
  <2>2. fr.at = "TermLoop" BY DEF Fr
  <2> HIDE DEF fr
  <2> QED BY <1>3, <2>1, <2>2, ReadingFalls
<1>7. CASE TermLoop
  <2>1. Sees("TermLoop") /\ UNCHANGED <<tokens, status>> BY <1>7 DEF TermLoop, Reads
  <2>2. ASSUME ip' = At + 1, NEW f, Call(FactorCall \o <<f>>) PROVE Fewer
    BY <1>2, <2>1, <2>2, LadderMoves
  <2> QED BY <1>1, <1>3, <1>7, <2>1, <2>2 DEF TermLoop
<1>8. CASE FactorRest
  <2>1. Sees("FactorRest") /\ UNCHANGED <<tokens, status>> BY <1>8 DEF FactorRest, Reads
  <2>2. ASSUME ip' = At + 1, NEW f, NEW g, Call(<<f, g>>) PROVE Fewer
    BY <1>2, <2>1, <2>2 DEF Moves
  <2> QED BY <1>1, <1>3, <1>8, <2>1, <2>2 DEF FactorRest
<1> QED BY <1>4, <1>5, <1>6, <1>7, <1>8

LEMMA OperandsSpend ==
  ASSUME Bounded, Unary \/ Deref \/ Ref \/ Literal
  PROVE  Fewer
<1>1. ASSUME NEW label, Sees(label), UNCHANGED <<tokens, status>>, ip' = At + 1, Moves
      PROVE  Fewer
  BY <1>1, ReadingTakes
<1>2. ASSUME NEW label, Sees(label), UNCHANGED <<tokens, status>>,
             NEW at, HandOn(<<Fr(at)>>), Weight(at) < Weight(label)
      PROVE  Fewer
  <2>1. Weight(Fr(at).at) < Weight(label) BY <1>2, FrPoint
  <2> QED BY <1>2, <2>1, ReadingFalls DEF HandOn
<1>3. Weight("Deref") < Weight("Unary") /\ Weight("Ref") < Weight("Deref")
      /\ Weight("Literal") < Weight("Ref")
  BY Weights
<1>4. CASE Unary
  <2>1. Sees("Unary") /\ UNCHANGED <<tokens, status>> BY <1>4 DEF Unary, Reads
  <2>2. ASSUME ip' = At + 1, NEW f, NEW g, Call(<<f, g>>) PROVE Fewer
    BY <1>1, <2>1, <2>2 DEF Moves
  <2> QED BY <1>2, <1>3, <1>4, <2>1, <2>2 DEF Unary
<1>5. CASE Deref
  <2>1. Sees("Deref") /\ UNCHANGED <<tokens, status>> BY <1>5 DEF Deref, Reads
  <2>2. ASSUME ip' = At + 1, NEW f, NEW g, Call(<<f, g>>) PROVE Fewer
    BY <1>1, <2>1, <2>2 DEF Moves
  <2> QED BY <1>2, <1>3, <1>5, <2>1, <2>2 DEF Deref
<1>6. CASE Ref
  <2>1. Sees("Ref") /\ UNCHANGED <<tokens, status>> BY <1>6 DEF Ref, Reads
  <2>2. ASSUME ip' = At + 1, NEW f, NEW g, Call(<<f, g>>) PROVE Fewer
    BY <1>1, <2>1, <2>2 DEF Moves
  <2> QED BY <1>2, <1>3, <1>6, <2>1, <2>2 DEF Ref
<1>7. CASE Literal
  <2>1. /\ Sees("Literal") /\ UNCHANGED <<tokens, status>> /\ ip' = At + 1
        /\ \E node : Return(node)
    BY <1>7 DEF Literal
  <2>2. Moves BY <2>1 DEF Moves
  <2> QED BY <1>1, <2>1, <2>2
<1> QED BY <1>4, <1>5, <1>6, <1>7

(* The steps that use a result.                                            *)
LEMMA ResumptionsSpend ==
  ASSUME Bounded,
         \/ IfElse \/ BlockPush \/ FuncBody \/ DeclRhs \/ AssignRhs \/ LogicRhs \/ CmpRhs
         \/ TermRhs \/ FactorRhs \/ NegRhs \/ NotRhs \/ DerefArg \/ RefArg
  PROVE  Fewer
<1>1. \A label \in Resumptions : Weight(label) >= 20 BY Weights
<1>2. ASSUME NEW label \in Resumptions, Resumes(label), NEW node, Return(node) PROVE Fewer
  BY <1>1, <1>2, ResumingFalls
<1>3. {"IfElse", "FuncBody", "DeclRhs", "AssignRhs", "LogicRhs", "CmpRhs", "FactorRhs",
       "NegRhs", "NotRhs", "DerefArg", "RefArg"} \subseteq Resumptions
  BY DEF Resumptions
<1>4. CASE IfElse \/ FuncBody \/ DeclRhs \/ CmpRhs \/ DerefArg \/ RefArg
  BY <1>2, <1>3, <1>4 DEF IfElse, FuncBody, DeclRhs, CmpRhs, DerefArg, RefArg, Attach
<1>5. CASE AssignRhs \/ LogicRhs \/ FactorRhs \/ NegRhs \/ NotRhs
  BY <1>2, <1>3, <1>5 DEF AssignRhs, LogicRhs, FactorRhs, NegRhs, NotRhs
<1>6. CASE BlockPush
  <2>1. Resumes("BlockPush") /\ Call(<<FrNode("BlockLoop", Top.node)>>)
    BY <1>6 DEF BlockPush, Goto
  <2>2. Weight(FrNode("BlockLoop", Top.node).at) < Weight("BlockPush")
    BY Weights, FrPoint DEF Resumptions
  <2> QED BY <2>1, <2>2, ResumingFalls
<1>7. CASE TermRhs
  <2> DEFINE fr == [Top EXCEPT !.at = "TermLoop", !.node = 0, !.left = Top.node]
  <2>1. Resumes("TermRhs") /\ Call(<<fr>>) BY <1>7 DEF TermRhs
  <2>2. Top \in Frame BY <2>1, TopFrame DEF Bounded, Resumes
  <2>3. fr.at = "TermLoop" BY <2>2 DEF Frame
  <2> HIDE DEF fr
  <2>4. Weight(fr.at) < Weight("TermRhs") BY <2>3, Weights DEF Resumptions
  <2> QED BY <2>1, <2>4, ResumingFalls
<1> QED BY <1>4, <1>5, <1>6, <1>7

(* The cursor never passes the end of the list, under an `if` or not.      *)
LEMMA CursorWithin == IInv /\ ip <= NTokens /\ [Next]_vars => ip' <= NTokens'
<1> SUFFICES ASSUME IInv, ip <= NTokens, [Next]_vars PROVE ip' <= NTokens
  BY TokensKept DEF NTokens
<1>1. ip \in Nat /\ NTokens \in Nat BY SentinelAtEnd DEF IInv, TypeOK
<1>2. IInv' BY NextKeeps
<1>3. ip' \in Nat BY <1>2 DEF IInv, TypeOK
<1>4. CASE Statement \/ IfThen \/ Block \/ BlockLoop \/ BlockClose \/ DefName \/ FuncOpen
           \/ AggOpen \/ MemberSemi \/ AggClose \/ FuncClose \/ FuncColon \/ FuncType \/ ExprSemi
  BY <1>1, <1>3, <1>4, StatementCursor
<1>5. CASE Params BY <1>1, <1>3, <1>5, ParamsCursor
<1>6. CASE Decl \/ DeclType \/ DeclEq \/ Assignment \/ LogicRest \/ CmpRest \/ TermFirst
           \/ TermLoop \/ FactorRest \/ Unary \/ Deref \/ Ref \/ Literal
  BY <1>1, <1>3, <1>6, ExpressionCursor
<1>7. CASE IfOpen \/ IfCond
  <2>1. PICK label : Sees(label) BY <1>7 DEF IfOpen, IfCond, Reads
  <2>2. ip' = At + 1 /\ At \in Nat /\ At < NTokens
    BY <1>7, <2>1, Forward DEF IfOpen, IfCond
  <2> QED BY <1>1, <2>2
<1>8. CASE UNCHANGED ip BY <1>8
<1>9. IfElse \/ BlockPush \/ FuncBody \/ DeclRhs \/ AssignRhs \/ LogicRhs \/ CmpRhs
        \/ TermRhs \/ FactorRhs \/ NegRhs \/ NotRhs \/ DerefArg \/ RefArg
      => UNCHANGED ip
  BY DEF IfElse, BlockPush, FuncBody, DeclRhs, AssignRhs, LogicRhs, CmpRhs, TermRhs,
         FactorRhs, NegRhs, NotRhs, DerefArg, RefArg, Attach, Resumes
<1>10. CASE Failure \/ Accept
  BY <1>10, Stops DEF StopAt, NTokens
<1>11. UNCHANGED vars => UNCHANGED ip
  BY DEF vars
<1> QED BY <1>4, <1>5, <1>6, <1>7, <1>8, <1>9, <1>10, <1>11 DEF Next, Step


LEMMA StepsSpend == IInv /\ ip <= NTokens /\ [Next]_vars => [Fewer]_vars
<1> SUFFICES ASSUME IInv, ip <= NTokens, Next PROVE Fewer
  BY DEF vars
<1>1. ip' <= NTokens' /\ tokens' = tokens /\ IInv' BY CursorWithin, TokensKept, NextKeeps
<1>2. Bounded BY <1>1 DEF Bounded, NTokens
<1>3. CASE Step
  BY <1>2, <1>3, StatementsSpend, BranchesSpend, DeclarationsSpend, OperatorsSpend,
     OperandsSpend, ResumptionsSpend, Zenon DEF Step
<1>4. CASE Failure \/ Accept
  <2>1. status = "running" /\ \E how \in Statuses \ {"running"}, i \in Nat : StopAt(how, i)
    BY <1>4, Stops
  <2>2. StepsLeft' = 0 BY <2>1 DEF StopAt, StepsLeft
  <2>3. /\ ip \in Nat /\ NTokens \in Nat /\ Len(stack) \in Nat
    BY SentinelAtEnd, LenProperties DEF IInv, TypeOK
  <2> DEFINE w == IF stack = <<>> THEN 0 ELSE Weight(Top.at)
  <2>4. w \in Nat BY Weights
  <2>5. StepsLeft = 1 + 28 * (NTokens - ip) + 2 * Len(stack) + w BY <2>1 DEF StepsLeft
  <2> HIDE DEF w
  <2>6. StepsLeft > 0 BY <2>3, <2>4, <2>5
  <2> QED BY <2>2, <2>6 DEF Fewer
<1> QED BY <1>3, <1>4 DEF Next

(* What the steps left are at first bounds them, and the depth of the      *)
(* calls, from then on.                                                    *)
StepsInv == /\ IInv /\ ip <= NTokens
            /\ StepsLeft \in Nat /\ StepsLeft <= 28 * NTokens + 20
            /\ Len(stack) <= 14 * NTokens + 9

LEMMA InitSteps == Init => StepsInv
<1> SUFFICES ASSUME Init PROVE StepsInv
  OBVIOUS
<1>1. IInv BY InitKeeps
<1>2. NTokens \in Nat BY <1>1, SentinelAtEnd DEF IInv, TypeOK
<1>3. ip = 0 /\ status = "running" /\ stack = <<Fr("Statement")>> BY DEF Init
<1>4. Len(stack) = 1 /\ stack # <<>> /\ Top = Fr("Statement") BY <1>3 DEF Top
<1>5. Weight(Top.at) = 17 BY <1>4, Weights, FrPoint
<1>6. StepsLeft = 28 * NTokens + 20 BY <1>2, <1>3, <1>4, <1>5 DEF StepsLeft
<1> QED BY <1>1, <1>2, <1>3, <1>4, <1>6 DEF StepsInv

LEMMA NextSteps == StepsInv /\ [Next]_vars => StepsInv'
<1> SUFFICES ASSUME StepsInv, [Next]_vars PROVE StepsInv'
  OBVIOUS
<1>1. IInv' /\ ip' <= NTokens' /\ NTokens' = NTokens
  BY NextKeeps, CursorWithin, TokensKept DEF StepsInv, NTokens
<1>2. /\ NTokens \in Nat /\ ip' \in Nat /\ Len(stack') \in Nat
  BY <1>1, SentinelAtEnd, LenProperties DEF StepsInv, IInv, TypeOK
<1>3. CASE UNCHANGED vars
  BY <1>1, <1>3 DEF StepsInv, vars, StepsLeft, NTokens, Top
<1>4. CASE Next /\ vars' # vars
  <2>1. Fewer BY <1>4, StepsSpend DEF StepsInv
  <2>2. StepsLeft' \in Nat /\ StepsLeft' <= 28 * NTokens + 20
    BY <1>2, <2>1 DEF Fewer, StepsInv
  <2>3. Len(stack') <= 14 * NTokens + 9
    <3>1. CASE status' = "running"
      <4> DEFINE w == IF stack' = <<>> THEN 0 ELSE Weight(Head(stack').at)
      <4>1. w \in Nat BY Weights
      <4>2. StepsLeft' = 1 + 28 * (NTokens - ip') + 2 * Len(stack') + w
        BY <1>1, <3>1 DEF StepsLeft, Top
      <4> HIDE DEF w
      <4> QED BY <1>1, <1>2, <2>2, <4>1, <4>2
    <3>2. CASE status' # "running"
      <4>1. Step => UNCHANGED status
        BY DEF Step, Statement, IfOpen, IfCond, IfThen, IfElse, Block, BlockLoop, BlockPush,
               BlockClose, DefName, FuncOpen, AggOpen, Params, MemberSemi, AggClose, FuncClose,
               FuncColon, FuncType, FuncBody, ExprSemi, Decl, DeclType, DeclEq, DeclRhs,
               Assignment, AssignRhs, LogicRest, LogicRhs, CmpRest, CmpRhs, TermFirst,
               TermLoop, TermRhs, FactorRest, FactorRhs, Unary, NegRhs, NotRhs, Deref,
               DerefArg, Ref, RefArg, Literal, Reads, Resumes, Insists, Attach
      <4>2. Step => status = "running"
        BY DEF Step, Statement, IfOpen, IfCond, IfThen, IfElse, Block, BlockLoop, BlockPush,
               BlockClose, DefName, FuncOpen, AggOpen, Params, MemberSemi, AggClose, FuncClose,
               FuncColon, FuncType, FuncBody, ExprSemi, Decl, DeclType, DeclEq, DeclRhs,
               Assignment, AssignRhs, LogicRest, LogicRhs, CmpRest, CmpRhs, TermFirst,
               TermLoop, TermRhs, FactorRest, FactorRhs, Unary, NegRhs, NotRhs, Deref,
               DerefArg, Ref, RefArg, Literal, Reads, Sees, Resumes, Running, Insists, Attach
      <4>3. Failure \/ Accept => UNCHANGED stack
        BY DEF Failure, Accept, NotAParameter, Undeclared, TwoPointers, Negative,
             OperandFails, LiteralFails, RunOff, ExpectFails, MatchFails, AssertFails, Stop,
         StopAt
      <4> QED BY <1>4, <3>2, <4>1, <4>2, <4>3 DEF Next, StepsInv
    <3> QED BY <3>1, <3>2
  <2> QED BY <1>1, <2>2, <2>3 DEF StepsInv
<1> QED BY <1>3, <1>4

(* For every token list the number of steps left falls with each step: no  *)
(* loop of the parser turns, and no function calls itself again, without a *)
(* token taken (parser.cc:173-688).  So parse() takes at most              *)
(* 28 n + 20 steps for n tokens, ...                                       *)
THEOREM StepsStaySpent == Spec => StepsAreSpent
<1>1. StepsInv => IInv /\ ip <= NTokens BY DEF StepsInv
<1> QED BY <1>1, InitSteps, NextSteps, StepsSpend, PTL DEF Spec, StepsAreSpent, Fewer

(* ... the cursor never passes the end of the list, and the C++ stack      *)
(* holds at most 14 n + 9 of its calls.                                    *)
THEOREM DepthIsBounded ==
  Spec => [](ip <= NTokens /\ StepsLeft <= 28 * NTokens + 20 /\ Len(stack) <= 14 * NTokens + 9)
<1>1. StepsInv
        => ip <= NTokens /\ StepsLeft <= 28 * NTokens + 20 /\ Len(stack) <= 14 * NTokens + 9
  BY DEF StepsInv
<1> QED BY <1>1, InitSteps, NextSteps, PTL DEF Spec

=============================================================================
